----------------------------- MODULE FluxPlugin -----------------------------
(***************************************************************************)
(* The Flux job-shell plugin of Spindle (src/src/flux/flux-spindle.c) for *)
(* one job, one shell per rank.  Each shell runs the plugin's handlers:   *)
(* sp_init on shell.init, wait_for_shell_init when the exec eventlog      *)
(* delivers an event, sp_task on task.init and sp_exit on shell.exit.      *)
(* sp_init fills the spindle parameters from the configuration            *)
(* (ConfigMerge) and the job's "spindle" shell option.  Rank 0 puts the   *)
(* port into the context of the shell.init event; every rank starts its  *)
(* backend when it reads that event, and rank 0 then runs the front end, *)
(* which blocks its shell until every backend has connected.             *)
(***************************************************************************)
EXTENDS ConfigMerge, FiniteSets

CONSTANTS
  Ranks,      \* shell ranks; 0 is the leader
  SysConfs,   \* possible PKGSYSCONFDIR/spindle.conf (a line sequence or NoFile)
  UserConfs,  \* possible ~/.spindle/spindle.conf
  JobOpts     \* possible values of the "spindle" shell option

\* The job's inputs, chosen once: every shell reads the same files and the
\* same jobspec.
VARIABLES sysConf, userConf, jobOpt
\* Per shell: its phase, its plugin context, the eventlog watch (the index
\* of the next event it reads, 0 when it is not watching), its backend and
\* its task (whether the spindle arguments were prepended).
VARIABLES phase, ctx, cursor, backend, task, prefixed
\* The guest.exec.eventlog, whether rank 0 added spindle_port to the
\* shell.init context, and the front end of rank 0.
VARIABLES eventlog, eventCtx, fe

inputs == <<sysConf, userConf, jobOpt>>
vars == <<inputs, phase, ctx, cursor, backend, task, prefixed, eventlog, eventCtx, fe>>


Phases == {"init", "started", "failed", "exited", "crashed"}

\* Keys unpacked by sp_getopts, with their JSON type.
IntKeys == {"noclean", "nostrip", "push", "pull", "numa"}
StrKeys == {"reloc-aout", "follow-fork", "reloc-libs", "reloc-exec",
            "reloc-python", "python-prefix", "numa-files", "preload", "level"}
YesNoFlag == ("reloc-aout" :> "OPT_RELOCAOUT") @@ ("follow-fork" :> "OPT_FOLLOWFORK")
             @@ ("reloc-libs" :> "OPT_RELOCSO") @@ ("reloc-exec" :> "OPT_RELOCEXEC")
             @@ ("reloc-python" :> "OPT_RELOCPY")

\* parse_yesno: "yes" sets the flag of value 1, not the one it is given.
parse_yesno(o, flag, s) ==
  CASE Lower(s) \in {"no", "false", "0"} -> [err |-> FALSE, opts |-> o \ {flag}]
    [] Lower(s) \in {"yes", "true", "1"} -> [err |-> FALSE, opts |-> o \cup {ValueOne}]
    [] OTHER                             -> [err |-> TRUE, opts |-> o]

\* The level table of sp_getopts; unlike toSpindleArgs, "off" sets
\* OPT_FOLLOWFORK.
FluxLevelOn == [LevelOn EXCEPT !["off"] = {"OPT_FOLLOWFORK", "OPT_OFF"}]

\* The "spindle" object J has key k with a non-zero value.
Nz(J, k) == k \in DOMAIN J /\ J[k] # 0

\* The strict unpack of the object: known keys, each of its type.
Strict(J) ==
  /\ DOMAIN J \subseteq IntKeys \cup StrKeys
  /\ \A k \in DOMAIN J : IF k \in IntKeys THEN J[k] \in Int ELSE J[k] \in STRING

\* o with the flags add set and rem cleared when c holds.
SetIf(c, o, add, rem) == IF c THEN (o \cup add) \ rem ELSE o

\* noclean, nostrip, push and pull, in the order sp_getopts tests them.
GetoptsFlags(J, p) ==
  SetIf(Nz(J, "pull"), SetIf(Nz(J, "push"),
    SetIf(Nz(J, "nostrip"), SetIf(Nz(J, "noclean"), p, {"OPT_NOCLEAN"}, {}), {}, {"OPT_STRIP"}),
    {"OPT_PUSH"}, {"OPT_PULL"}), {"OPT_PULL"}, {"OPT_PUSH"})

\* One yes/no key: had_error |= parse_yesno(...); later keys are still parsed.
YesNoAcc(acc, r) == [err |-> acc.err \/ r.err, opts |-> r.opts]
YesNo(J, acc, k) ==
  IF k \in DOMAIN J THEN YesNoAcc(acc, parse_yesno(acc.opts, YesNoFlag[k], J[k])) ELSE acc

\* numa, numa-files and the level table, after the yes/no keys.
NumaOpts(J, o) == SetIf(Nz(J, "numa") \/ "numa-files" \in DOMAIN J, o, {"OPT_NUMA"}, {})
LevelOpts(J, o) ==
  IF "level" \in DOMAIN J /\ J["level"] \in DOMAIN FluxLevelOn
  THEN (o \ LevelFlags) \cup FluxLevelOn[J["level"]] ELSE o

\* The return of sp_getopts, for p with OPT_PERSIST and the result t of
\* the object's keys.  An integer above 0 returns early; any other integer
\* reaches the strict unpack, which refuses a non-object.
GetoptsResult(j, p, t) ==
  CASE j.kind = "int" /\ j.int > 0 -> [rc |-> 0, opts |-> p]
    [] j.kind = "int"              -> [rc |-> -1, opts |-> p]
    [] ~Strict(j.obj)              -> [rc |-> -1, opts |-> p]
    [] t.err           -> [rc |-> -1, opts |-> LevelOpts(j.obj, NumaOpts(j.obj, t.opts))]
    [] OTHER           -> [rc |-> 0, opts |-> LevelOpts(j.obj, NumaOpts(j.obj, t.opts))]

\* sp_getopts on the options o filled from the configuration.
sp_getopts(o, j) ==
  GetoptsResult(j, o \cup {"OPT_PERSIST"},
    FoldLeft(LAMBDA acc, k : YesNo(j.obj, acc, k),
             [err |-> FALSE, opts |-> GetoptsFlags(j.obj, o \cup {"OPT_PERSIST"})],
             <<"reloc-aout", "follow-fork", "reloc-libs", "reloc-exec", "reloc-python">>))

\* getApplicationArgsFE: the bootstrapper, its daemon arguments when
\* OPT_SELFLAUNCH, then location, number, opts and cache size.
\* Variant: argv[0], the bootstrapper, is not counted.
getApplicationArgsFENoBootstrap(o) == IF "OPT_SELFLAUNCH" \in o THEN 12 ELSE 4

getApplicationArgsFE(o) == IF "OPT_SELFLAUNCH" \in o THEN 13 ELSE 5

\* The parameters of a context before they are filled (calloc).
Params0 == [ok |-> TRUE, opts |-> {}, sec |-> "none", startup |-> "none", launcher |-> "none"]

\* A context, and the one flux_plugin_aux_get reports when no "spindle"
\* context was set (NULL).
Ctx(params, argc) == [aux |-> TRUE, params |-> params, argc |-> argc]
NoCtx == [aux |-> FALSE, params |-> Params0, argc |-> 0]

Off(r) == ctx[r] # NoCtx /\ "OPT_OFF" \in ctx[r].params.opts

\* The shell's reactor on rank 0 is blocked inside spindleInitFE.
Blocked(r) == r = 0 /\ fe = "connecting"

Init ==
  /\ sysConf \in SysConfs
  /\ userConf \in UserConfs
  /\ jobOpt \in JobOpts
  /\ phase = [r \in Ranks |-> "init"]
  /\ ctx = [r \in Ranks |-> NoCtx]
  /\ cursor = [r \in Ranks |-> 0]
  /\ backend = [r \in Ranks |-> FALSE]
  /\ task = [r \in Ranks |-> "none"]
  /\ prefixed = [r \in Ranks |-> FALSE]
  /\ eventlog = <<"init">>
  /\ eventCtx = FALSE
  /\ fe = "none"

\* Spindle runs: the arguments were filled, sp_getopts succeeded and the
\* level is not off.
SpindleOn(a, g) == a.ok /\ g.rc >= 0 /\ "OPT_OFF" \notin g.opts

\* The rest of sp_init once the arguments a are filled and g is the
\* result of sp_getopts on them.
SpInitFilled(r, a, g) ==
  /\ phase' = [phase EXCEPT ![r] = IF a.ok /\ g.rc >= 0 THEN "started" ELSE "failed"]
  /\ ctx' = [ctx EXCEPT ![r] = Ctx([a EXCEPT !.opts = g.opts],
                                  IF SpindleOn(a, g) THEN getApplicationArgsFE(g.opts) ELSE 0)]
  /\ cursor' = [cursor EXCEPT ![r] = IF SpindleOn(a, g) THEN 1 ELSE 0]
  /\ eventCtx' = (eventCtx \/ (SpindleOn(a, g) /\ r = 0))

SpInitArgs(r, a) == SpInitFilled(r, a, sp_getopts(a.opts, jobOpt))

\* sp_init on rank r.  Without the "spindle" option it returns at once and
\* no context exists.  Otherwise the context is created and registered
\* before it is filled, so it stays registered when a later step fails.
\* An OPT_OFF result returns before the arguments, the port and the watch.
SpInit(r) ==
  /\ phase[r] = "init"
  /\ \/ /\ jobOpt.kind = "absent"
        /\ phase' = [phase EXCEPT ![r] = "started"]
        /\ UNCHANGED <<ctx, cursor, eventCtx>>
     \/ /\ jobOpt.kind # "absent"
        \* spindle_ctx_create fails (calloc or R_to_hosts)
        /\ phase' = [phase EXCEPT ![r] = "failed"]
        /\ UNCHANGED <<ctx, cursor, eventCtx>>
     \/ /\ jobOpt.kind # "absent"
        /\ SpInitArgs(r, fillInSpindleArgsCmdlineFE(Params0, sysConf, userConf))
  /\ UNCHANGED <<inputs, backend, task, prefixed, eventlog, fe>>

\* The shells pass the shell.init barrier; rank 0 posts the shell.init
\* event, with the context its plugins added.
PostShellInit ==
  /\ \A r \in Ranks : phase[r] = "started"
  /\ eventlog = <<"init">>
  /\ eventlog' = Append(eventlog, "shell.init")
  /\ UNCHANGED <<inputs, phase, ctx, cursor, backend, task, prefixed, eventCtx, fe>>

\* Variant: the future is not reset, so the watch never moves on.
ResetFutureMissing(r) == UNCHANGED <<cursor, backend, fe>>

\* flux_future_reset: wait for the next event of the eventlog.
ResetFuture(r) ==
  /\ cursor' = [cursor EXCEPT ![r] = @ + 1]
  /\ UNCHANGED <<backend, fe>>

\* wait_for_shell_init on rank r for the next event of the watch.  Any
\* other event, or a shell.init without spindle_port, resets the future
\* and waits for the next one.  Otherwise the backend is forked, and on
\* rank 0 spindleInitFE starts the front end and blocks the shell until
\* every backend has connected.
WaitForShellInit(r) ==
  /\ cursor[r] > 0 /\ cursor[r] <= Len(eventlog)
  /\ ~Blocked(r)
  /\ ~Off(r)
  /\ IF eventlog[cursor[r]] = "shell.init" /\ eventCtx
     THEN /\ cursor' = [cursor EXCEPT ![r] = 0]
          /\ backend' = [backend EXCEPT ![r] = TRUE]
          /\ fe' = IF r = 0 THEN "connecting" ELSE fe
     ELSE ResetFuture(r)
  /\ UNCHANGED <<inputs, phase, ctx, task, prefixed, eventlog, eventCtx>>

\* spindleInitFE returns once every backend has connected; it broadcasts
\* the settings and rank 0's shell runs again.
FeConnect ==
  /\ fe = "connecting"
  /\ \A r \in Ranks : backend[r]
  /\ fe' = "up"
  /\ UNCHANGED <<inputs, phase, ctx, cursor, backend, task, prefixed, eventlog, eventCtx>>

\* sp_task on rank r's task: the spindle arguments are prepended when a
\* context with arguments exists and spindle is not off.
sp_task(r) ==
  /\ phase[r] = "started" /\ Len(eventlog) = 2 /\ ~Blocked(r)
  /\ task[r] = "none"
  /\ task' = [task EXCEPT ![r] = "running"]
  /\ prefixed' = [prefixed EXCEPT ![r] = ctx[r] # NoCtx /\ ctx[r].argc > 0 /\ ~Off(r)]
  /\ UNCHANGED <<inputs, phase, ctx, cursor, backend, eventlog, eventCtx, fe>>

\* A task run through spindle_bootstrap needs its node's backend, which
\* serves only after the front end has sent the settings.  What closing
\* the front end does to the backends (ldcs_audit_server_fe_md_close) is
\* not in this source; they are taken to keep serving (OPT_PERSIST).
TaskExit(r) ==
  /\ task[r] = "running"
  /\ prefixed[r] => backend[r] /\ fe \in {"up", "closed"}
  /\ task' = [task EXCEPT ![r] = "done"]
  /\ UNCHANGED <<inputs, phase, ctx, cursor, backend, prefixed, eventlog, eventCtx, fe>>

\* sp_exit on rank r: ctx->params.opts is read before ctx is tested, so a
\* shell without a context dereferences NULL.  Rank 0 closes the front end.
sp_exit(r) ==
  /\ phase[r] = "started" /\ task[r] = "done" /\ ~Blocked(r)
  /\ phase' = [phase EXCEPT ![r] = IF ctx[r] = NoCtx THEN "crashed" ELSE "exited"]
  /\ fe' = IF ctx[r] # NoCtx /\ ~Off(r) /\ r = 0 THEN "closed" ELSE fe
  /\ UNCHANGED <<inputs, ctx, cursor, backend, task, prefixed, eventlog, eventCtx>>

Next ==
  \/ \E r \in Ranks : SpInit(r) \/ WaitForShellInit(r) \/ sp_task(r)
                      \/ TaskExit(r) \/ sp_exit(r)
  \/ PostShellInit
  \/ FeConnect

\* The shells' reactors run every ready callback, the kernel runs every
\* task and backend, and the front end's accept loop takes every backend.
Fairness ==
  /\ \A r \in Ranks : /\ WF_vars(SpInit(r)) /\ WF_vars(WaitForShellInit(r))
                      /\ WF_vars(sp_task(r)) /\ WF_vars(TaskExit(r)) /\ WF_vars(sp_exit(r))
  /\ WF_vars(PostShellInit)
  /\ WF_vars(FeConnect)

Spec == Init /\ [][Next]_vars /\ Fairness

-----------------------------------------------------------------------------
\* The configuration every shell merged.
Merged == gatherAllConfigInfo(sysConf, userConf, parseArgs).map

TypeOK ==
  /\ phase \in [Ranks -> Phases]
  /\ \A r \in Ranks : ctx[r] = NoCtx \/ ctx[r].argc \in {0, 5, 13}
  /\ cursor \in [Ranks -> 0..Len(eventlog) + 1]
  /\ backend \in [Ranks -> BOOLEAN] /\ prefixed \in [Ranks -> BOOLEAN]
  /\ task \in [Ranks -> {"none", "running", "done"}]
  /\ fe \in {"none", "connecting", "up", "closed"}

\* With level "off", from the job's option or else from the configuration,
\* no shell starts a backend or the front end and no task is run through
\* spindle_bootstrap (the OPT_OFF returns of sp_init, wait_for_shell_init
\* and sp_task).
WantOff ==
  IF "level" \in DOMAIN jobOpt.obj /\ jobOpt.obj["level"] \in DOMAIN FluxLevelOn
  THEN jobOpt.obj["level"] = "off"
  ELSE Lower(Merged["confSpindleLevel"]) = "off"

OffStopsSpindle ==
  (jobOpt.kind = "object" /\ WantOff) =>
     /\ \A r \in Ranks : ~backend[r] /\ ~prefixed[r]
     /\ fe = "none"

\* Every task started through spindle_bootstrap finishes: rank 0 passes
\* spindle_port to every shell, each starts its backend, the front end
\* connects to all of them and sends the settings.
TasksFinish == \A r \in Ranks : task[r] = "running" ~> task[r] = "done"

\* No shell crashes in a Spindle handler (sp_exit runs in every job that
\* loads the plugin, with or without the spindle option).
NoShellCrash == \A r \in Ranks : phase[r] # "crashed"
=============================================================================
