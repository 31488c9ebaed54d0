------------------------------ MODULE ExecEnv ------------------------------
(***************************************************************************)
(* The exec wrappers of the intercept client (intercept_exec.c): whether  *)
(* Spindle is propagated into the exec'd image (shouldPropogateSpindle),  *)
(* how the environment of the new image is built or stripped              *)
(* (updateEnvironment), and which file is really exec'd (find_exec,       *)
(* find_exec_pathsearch, prep_exec).  One process is modelled; an exec    *)
(* that succeeds replaces its image, one that fails returns to it.        *)
(*                                                                         *)
(* An environment is a total function from variable names to values, with *)
(* Unset for an absent variable.  File contents and paths are abstracted  *)
(* to the kind of the exec target.                                         *)
(***************************************************************************)
EXTENDS Integers, FiniteSets

CONSTANTS
    EnvVars,        \* names of the environment variables modelled
    AppVars,        \* variables the application itself sets or unsets
    SpindleValues,  \* values the application may give SPINDLE
    OtherValue,     \* the value of every other variable
    Unset,          \* an absent variable
    NoEnvp,         \* the NULL envp of execl/execv/execlp/execvp
    NoExec,         \* no exec has been made yet
    Targets,        \* exec targets
    Kind,           \* [Targets -> FileKinds]
    Bare,           \* [Targets -> BOOLEAN]: path starts with neither '/' nor '.'
    Redirect,       \* [Targets -> BOOLEAN]: exec_filter(path) == REDIRECT
    UseLdcs,        \* ldcsid >= 0 && use_ldcs
    RemapExec       \* opts & OPT_REMAPEXEC

\* The names updateEnvironment unsets when there is no envp.
UnsetVars == {"SPINDLE", "LD_AUDIT", "LDCS_LOCATION", "LDCS_CONNECTION",
              "LDCS_RANKINFO", "LDCS_OPTIONS", "LDCS_CACHESIZE", "LDCS_NUMBER"}

\* The "NAME=" prefixes removeEnvironmentStrs drops from an envp list.
StripVars == {"SPINDLE", "LD_AUDIT", "LDCS_LOCATION", "LDCS_CONNECTION",
              "LDCS_RANKINFO", "LDCS_OPTIONS", "LDCS_CACHESIZE", "LDCS_NUMBER"}

\* The names updateEnvironment passes to propogateEnvironmentStr.
PropagateVars == {"SPINDLE", "LD_AUDIT", "LDCS_LOCATION", "LDCS_CONNECTION",
                  "LDCS_RANKINFO", "LDCS_OPTIONS", "LDCS_CACHESIZE", "LDCS_NUMBER"}

SpindleVars == UnsetVars \cup StripVars \cup PropagateVars

\* The variables setup_environment of the bootstrapper exports; the
\* connection string only when the executable is relocated.
BootstrapVars(relocaout) ==
    {"LD_AUDIT", "LDCS_INSTANTIATED_CACHE_PATH", "LDCS_INSTANTIATED_FIFO_PATH",
     "LDCS_INSTANTIATED_DAEMON_PATH", "LDCS_NUMBER", "LDCS_RANKINFO",
     "LDCS_OPTIONS", "LDCS_CACHESIZE", "LDCS_BOOTSTRAPPED", "SPINDLE"}
    \cup (IF relocaout THEN {"LDCS_CONNECTION"} ELSE {})

FileKinds == {"missing", "noexec", "dir", "binary", "unreadable", "script",
              "badscript", "vanished"}

ASSUME /\ SpindleVars \cup BootstrapVars(TRUE) \subseteq EnvVars
       /\ AppVars \subseteq EnvVars
       /\ Kind \in [Targets -> FileKinds]

Env == [EnvVars -> SpindleValues \cup {OtherValue, Unset}]

\* strcasecmp(v, "false") == 0 holds for these spellings of the values.
FalseSpellings == {"false", "False", "FALSE"}

\* The off test of shouldPropogateSpindle as written: its second disjunct
\* compares two literals.
Off(v) == v \in FalseSpellings \/ "spindle" = "0"

\* The off test the bootstrapper's main applies to SPINDLE.
IntendedOff(v) == v \in FalseSpellings \/ v = "0"

\* The test suite's envp arguments (setup_envp): a copy of the environment
\* or a bare one, with SPINDLE replaced or removed.
Envps(e) == { [v \in EnvVars |-> IF v = "SPINDLE" THEN s
                                 ELSE IF bare THEN Unset ELSE e[v]] :
              s \in SpindleValues \cup {Unset}, bare \in BOOLEAN }

\* What exec(2) itself does with a target of each kind.
NativeResult(k) ==
    CASE k \in {"missing", "vanished", "badscript"} -> "ENOENT"
      [] k \in {"noexec", "dir"}                     -> "EACCES"
      [] OTHER                                       -> "ok"

VARIABLES env, loaded, launch, last

vars == <<env, loaded, launch, last>>

-----------------------------------------------------------------------------
(* Propagation decision and the new environment.                          *)

\* Mutant: the envp list is not scanned for SPINDLE.
shouldPropogateSpindleGetenvOnly(e, envp) ==
    ~(e["SPINDLE"] # Unset /\ Off(e["SPINDLE"]))

shouldPropogateSpindle(e, envp) ==
    /\ ~(e["SPINDLE"] # Unset /\ Off(e["SPINDLE"]))
    /\ ~(envp # NoEnvp /\ envp["SPINDLE"] # Unset /\ Off(envp["SPINDLE"]))

removeEnvironmentStrs(envp) ==
    [v \in EnvVars |-> IF v \in StripVars THEN Unset ELSE envp[v]]

\* propogateEnvironmentStr for each name of its list: the caller's value
\* is added unless it is unset or the envp already has the variable.
propogateEnvironment(e, envp) ==
    [v \in EnvVars |-> IF v \in PropagateVars /\ envp[v] = Unset THEN e[v] ELSE envp[v]]

UnsetSpindle(e) == [v \in EnvVars |-> IF v \in UnsetVars THEN Unset ELSE e[v]]

\* The caller's environment after the call and the new image's environment.
updateEnvironment(e, envp, prop) ==
    CASE envp = NoEnvp /\ prop  -> [caller |-> e, child |-> e]
      [] envp = NoEnvp /\ ~prop -> [caller |-> UnsetSpindle(e), child |-> UnsetSpindle(e)]
      [] prop                   -> [caller |-> e, child |-> propogateEnvironment(e, envp)]
      [] OTHER                  -> [caller |-> e, child |-> removeEnvironmentStrs(envp)]

-----------------------------------------------------------------------------
(* Finding the file to exec.                                               *)

\* The daemon's answers to get_relocated_file / exec_pathsearch and the
\* result of adjust_if_script, for each kind of target.
DaemonAnswers(k) ==
    CASE k = "binary"     -> {[newname |-> TRUE, errcode |-> "0", script |-> "NOTSCRIPT"]}
      [] k = "script"     -> {[newname |-> TRUE, errcode |-> "0", script |-> "SCRIPT"]}
      [] k = "badscript"  -> {[newname |-> TRUE, errcode |-> "0", script |-> "ENOENT"]}
      [] k = "unreadable" -> {[newname |-> FALSE, errcode |-> "EACCES", script |-> "NOTSCRIPT"]}
      [] OTHER            -> {[newname |-> FALSE, errcode |-> e, script |-> "NOTSCRIPT"] :
                              e \in {"0", "ENOENT"}}

\* The stat validation of find_exec (and the failures of exec_pathsearch).
StatError(k) ==
    CASE k = "missing"          -> "ENOENT"
      [] k \in {"noexec", "dir"} -> "EACCES"
      [] OTHER                   -> "0"

\* Mutant: a file the daemon cannot read is reported as an error.
prep_execNoEacces(a) ==
    CASE a.errcode # "0"       -> [rc |-> -1, errno |-> a.errcode, path |-> "none"]
      [] ~a.newname            -> [rc |-> 0, errno |-> "0", path |-> "notfound"]
      [] OTHER                 -> [rc |-> 0, errno |-> "0", path |-> "relocated"]

\* Mutant: the daemon's error code is not passed on through errno.
prep_execNoErrno(a) ==
    CASE a.errcode = "EACCES"  -> [rc |-> 0, errno |-> "0", path |-> "original"]
      [] a.errcode # "0"       -> [rc |-> -1, errno |-> "0", path |-> "none"]
      [] OTHER                 -> [rc |-> 0, errno |-> "0", path |-> "relocated"]

prep_exec(a) ==
    CASE a.errcode = "EACCES"  -> [rc |-> 0, errno |-> "0", path |-> "original"]
      [] a.errcode # "0"       -> [rc |-> -1, errno |-> a.errcode, path |-> "none"]
      [] ~a.newname            -> [rc |-> 0, errno |-> "0", path |-> "notfound"]
      [] RemapExec             -> [rc |-> 0, errno |-> "0", path |-> "original"]
      [] a.script = "NOTSCRIPT" -> [rc |-> 0, errno |-> "0", path |-> "relocated"]
      [] a.script = "SCRIPT"   -> [rc |-> 0, errno |-> "0", path |-> "interp"]
      \* SCRIPT_ERR, SCRIPT_ENOENT: -1 without setting errno
      [] OTHER                 -> [rc |-> -1, errno |-> "ERR", path |-> "none"]

\* find_exec and find_exec_pathsearch: the outcomes the daemon allows.
find_exec(t, prop, pathsearch) ==
    LET search == pathsearch /\ Bare[t]
        reloc  == UseLdcs /\ prop /\ (search \/ Redirect[t])
    IN  IF ~reloc THEN {[rc |-> 0, errno |-> "0", path |-> "original"]}
        ELSE IF StatError(Kind[t]) # "0"
             THEN {[rc |-> -1, errno |-> StatError(Kind[t]), path |-> "none"]}
             ELSE {prep_exec(a) : a \in DaemonAnswers(Kind[t])}

\* The result of the real exec of the path prep_exec chose.
ExecResult(path, k) ==
    CASE path = "original" -> NativeResult(k)
      [] path = "notfound" -> "ENOENT"
      [] OTHER             -> "ok"

-----------------------------------------------------------------------------
(* The process.                                                            *)

\* The application image the bootstrapper exec'd, with the environment
\* setup_environment exported; other variables come from the user.
Init ==
    /\ \E relocaout \in BOOLEAN,
          user \in [EnvVars \ (SpindleVars \cup BootstrapVars(TRUE)) -> {OtherValue, Unset}] :
          env = [v \in EnvVars |->
                   IF v = "SPINDLE" THEN "true"
                   ELSE IF v \in BootstrapVars(relocaout) THEN OtherValue
                   ELSE IF v \in SpindleVars \cup BootstrapVars(TRUE) THEN Unset
                   ELSE user[v]]
    /\ loaded = TRUE
    /\ launch = env
    /\ last = NoExec

\* The application sets or unsets one of its variables.
SetEnv(v, x) ==
    /\ v \in AppVars
    /\ env' = [env EXCEPT ![v] = x]
    /\ UNCHANGED <<loaded, launch, last>>

\* The record of an exec call, kept for the properties.
Call(t, result, envp) ==
    [target |-> t, result |-> result, parentLoaded |-> loaded,
     off |-> IntendedOff(env["SPINDLE"]) \/ (envp # NoEnvp /\ IntendedOff(envp["SPINDLE"]))]

\* An intercepted exec: find the file, update the environment, exec.
Exec(t, envp, pathsearch) ==
    LET prop == shouldPropogateSpindle(env, envp) IN
    /\ loaded
    /\ \E fe \in find_exec(t, prop, pathsearch) :
         \/ /\ fe.rc = -1
            /\ last' = Call(t, fe.errno, envp)
            /\ UNCHANGED <<env, loaded>>
         \/ /\ fe.rc = 0
            /\ LET u == updateEnvironment(env, envp, prop)
                   r == ExecResult(fe.path, Kind[t])
               IN /\ last' = Call(t, r, envp)
                  /\ IF r = "ok"
                     THEN /\ env' = u.child
                          /\ loaded' = (u.child["LD_AUDIT"] # Unset)
                     ELSE /\ env' = u.caller
                          /\ UNCHANGED loaded
    /\ UNCHANGED launch

execv_wrapper(t)       == Exec(t, NoEnvp, FALSE)   \* also execl_wrapper
execvp_wrapper(t)      == Exec(t, NoEnvp, TRUE)    \* also execlp_wrapper
execve_wrapper(t, e)   == Exec(t, e, FALSE)        \* also execle_wrapper
execvpe_wrapper(t, e)  == Exec(t, e, TRUE)

\* An image without the audit client: nothing is intercepted.
NativeExec(t, envp) ==
    LET r == NativeResult(Kind[t])
        child == IF envp = NoEnvp THEN env ELSE envp
    IN  /\ ~loaded
        /\ last' = Call(t, r, envp)
        /\ IF r = "ok"
           THEN /\ env' = child
                /\ loaded' = (child["LD_AUDIT"] # Unset)
           ELSE UNCHANGED <<env, loaded>>
        /\ UNCHANGED launch

Next ==
    \/ \E v \in AppVars, x \in SpindleValues \cup {OtherValue, Unset} :
          /\ (v = "SPINDLE") = (x \in SpindleValues \cup {Unset})
          /\ SetEnv(v, x)
    \/ \E t \in Targets :
          \/ execv_wrapper(t)
          \/ execvp_wrapper(t)
          \/ \E e \in Envps(env) : execve_wrapper(t, e) \/ execvpe_wrapper(t, e)
          \/ \E e \in Envps(env) \cup {NoEnvp} : NativeExec(t, e)

Spec == Init /\ [][Next]_vars

-----------------------------------------------------------------------------
(* Properties.                                                             *)

Results == {"ok", "ENOENT", "EACCES", "ERR"}

\* Every variable holds a value of its kind, and every exec that fails
\* reports an error code.
TypeOK ==
    /\ env \in Env
    /\ loaded \in BOOLEAN
    /\ last = NoExec \/ (last.target \in Targets /\ last.result \in Results)

\* An intercepted exec succeeds exactly when exec(2) of the target would,
\* and fails with the same errno where find_exec sets one: the daemon's
\* answers (unreadable file, file gone after the stat, script with a
\* missing interpreter) must not change what the application sees.
ExecOutcomeNative ==
    last = NoExec \/
      /\ (last.result = "ok") = (NativeResult(Kind[last.target]) = "ok")
      /\ last.result \in {"ENOENT", "EACCES"} => last.result = NativeResult(Kind[last.target])

\* An image exec'd while SPINDLE was off (false in any case, or 0, as the
\* bootstrapper tests it) in the caller's environment or in its envp runs
\* without Spindle.
SpindleOffHonoured ==
    last = NoExec \/ ~(last.result = "ok" /\ last.off) \/ ~loaded

\* An exec'd image runs with Spindle as SPINDLE asks: without it when
\* SPINDLE was off (false in any case, or 0, as the bootstrapper tests it)
\* in the caller's environment or its envp, and with it when SPINDLE was
\* not off and the caller ran with Spindle (spindle_exec_test expects
\* Spindle active for SPINDLE=true and for SPINDLE unset, for every call).
ExecHonoursSPINDLE ==
    \/ last = NoExec
    \/ last.result # "ok"
    \/ /\ last.off => ~loaded
       /\ last.parentLoaded /\ ~last.off => loaded
=============================================================================
