------------------------------- MODULE Hostbin -------------------------------
(***************************************************************************)
(* The host-binary launcher of the front end (fe/hostbin/launch_hostbin.cc)*)
(* and the part of spindleCloseFE it shares state with.  getProcessTable   *)
(* runs the hostbin program once through popen, reads the host names it    *)
(* prints with fscanf("%255s") and keeps the table for every later call.   *)
(* spawnJob forks the job launcher, spawnDaemon only accepts RSH launching *)
(* and getReturnCodes takes over the pid of the RSH launcher the front end *)
(* started (getRSHPidFE, markRSHPidReapedFE), which spindleCloseFE would   *)
(* otherwise collect.  Output is a sequence of characters.                 *)
(***************************************************************************)
EXTENDS Integers, Sequences, SequencesExt

CONSTANTS
  W,            \* the field width of "%255s"
  Outputs,      \* what the hostbin program may print
  HostbinSet,   \* confHostbin has a value
  Apps,         \* the application ids the driver spawns jobs for
  NULL,         \* a model value: the NULL pointer
  NoCall        \* a model value: getProcessTable not called yet

Spaces == {" ", "\n"}
RshPid == 100     \* the pid of the front end's RSH launcher

\* Host names are far shorter than the 255 characters fscanf reads at once.
ASSUME \A out \in Outputs : \A i \in 1 .. Len(out) - W :
         \E k \in i .. i + W : out[k] \in Spaces

VARIABLES
  host_array,   \* NULL or the table getProcessTable keeps
  hostOut,      \* the output of the popen that filled host_array
  ret,          \* what the last getProcessTable returned (NoCall before any)
  useRSH,       \* params->opts & OPT_RSHLAUNCH, read by the constructor
  spawned,      \* "ok" or "refused" once spawnDaemon ran
  launcher,     \* launcher[id]: the job launcher forked for id
  fe,           \* "up", or "exited" after exit(-1)
  daemon_pid,   \* ForkLauncher's daemon_pid: 0, RshPid or -1
  rshPid        \* the front end's record of its RSH launcher (-1: none)

vars == <<host_array, hostOut, ret, useRSH, spawned, launcher, fe, daemon_pid, rshPid>>

\* createHostbinLauncher after spindleInitFE has started the RSH launcher
\* (spindle_fe.cc, init_rsh_launch_fe when OPT_RSHLAUNCH).  initError is
\* never set, so the launcher is always created.
Init ==
  /\ useRSH \in BOOLEAN
  /\ host_array = NULL /\ hostOut = <<>> /\ ret = NoCall
  /\ spawned = "none"
  /\ launcher = [id \in Apps |-> "none"]
  /\ fe = "up"
  /\ daemon_pid = 0
  /\ rshPid = IF useRSH THEN RshPid ELSE -1

spawnDaemon ==
  /\ fe = "up" /\ spawned = "none"
  /\ spawned' = IF useRSH THEN "ok" ELSE "refused"
  /\ UNCHANGED <<host_array, hostOut, ret, useRSH, launcher, fe, daemon_pid, rshPid>>

\* fork: -1 exits the front end; the child execvp's the launcher and exits
\* with -1 when that fails; the parent records the pid in app_pids.
spawnJob(id) ==
  /\ fe = "up" /\ launcher[id] = "none"
  /\ \/ fe' = "exited" /\ UNCHANGED launcher
     \/ \E r \in {"running", "exec_failed"} :
          /\ launcher' = [launcher EXCEPT ![id] = r]
          /\ UNCHANGED fe
  /\ UNCHANGED <<host_array, hostOut, ret, useRSH, spawned, daemon_pid, rshPid>>

(***************************************************************************)
(* The loop while (!feof(f) && result != -1): fscanf skips white space,    *)
(* returns -1 at the end of the output, else reads at most W characters    *)
(* up to the next white space; only a result > 0 is pushed.  A field that  *)
(* reaches the end of the output sets feof and ends the loop.              *)
(***************************************************************************)
RECURSIVE SkipSpace(_, _)
SkipSpace(out, i) ==
  IF i <= Len(out) /\ out[i] \in Spaces THEN SkipSpace(out, i + 1) ELSE i

RECURSIVE FieldEnd(_, _, _)
FieldEnd(out, i, k) ==
  IF i <= Len(out) /\ out[i] \notin Spaces /\ k < W
  THEN FieldEnd(out, i + 1, k + 1) ELSE i

Field(out, b) == SubSeq(out, b, FieldEnd(out, b, 0) - 1)

\* Variant: the result > 0 test is lost, so the -1 at the end pushes the
\* buffer again (its last field, or whatever it held before any).
RECURSIVE ReadHostsNoResultCheck(_, _, _)
ReadHostsNoResultCheck(out, i, hosts) ==
  IF SkipSpace(out, i) > Len(out)
  THEN Append(hosts, IF hosts = <<>> THEN <<"?">> ELSE hosts[Len(hosts)])
  ELSE IF FieldEnd(out, SkipSpace(out, i), 0) > Len(out)
  THEN Append(hosts, Field(out, SkipSpace(out, i)))
  ELSE ReadHostsNoResultCheck(out, FieldEnd(out, SkipSpace(out, i), 0),
                              Append(hosts, Field(out, SkipSpace(out, i))))

RECURSIVE ReadHosts(_, _, _)
ReadHosts(out, i, hosts) ==
  IF SkipSpace(out, i) > Len(out) THEN hosts
  ELSE IF FieldEnd(out, SkipSpace(out, i), 0) > Len(out)
  THEN Append(hosts, Field(out, SkipSpace(out, i)))
  ELSE ReadHosts(out, FieldEnd(out, SkipSpace(out, i), 0),
                 Append(hosts, Field(out, SkipSpace(out, i))))

\* With confHostbin unset the error is printed and the empty name is run:
\* it resolves to the libexec directory, which the shell cannot run, so
\* popen succeeds and nothing is printed.
Printed == IF HostbinSet THEN Outputs ELSE {<<>>}

\* The cached table, or popen and the read loop; a failed popen returns
\* NULL and leaves the table unset.
getProcessTable ==
  /\ fe = "up"
  /\ \/ /\ host_array # NULL
        /\ ret' = host_array
        /\ UNCHANGED <<host_array, hostOut>>
     \/ /\ host_array = NULL
        /\ \E out \in Printed :
             /\ host_array' = ReadHosts(out, 1, <<>>)
             /\ hostOut' = out
             /\ ret' = ReadHosts(out, 1, <<>>)
     \/ /\ host_array = NULL
        /\ ret' = NULL
        /\ UNCHANGED <<host_array, hostOut>>
  /\ UNCHANGED <<useRSH, spawned, launcher, fe, daemon_pid, rshPid>>

\* Before ForkLauncher::getReturnCodes: with RSH and no daemon pid yet, take
\* the RSH launcher's pid and mark it reaped in the front end.
getReturnCodes ==
  /\ fe = "up"
  /\ IF daemon_pid = 0 /\ useRSH
     THEN daemon_pid' = rshPid /\ rshPid' = -1
     ELSE UNCHANGED <<daemon_pid, rshPid>>
  /\ UNCHANGED <<host_array, hostOut, ret, useRSH, spawned, launcher, fe>>

\* spindleCloseFE with OPT_RSHLAUNCH: collect the RSH launcher if the front
\* end still records one, and clear the record.
CloseRsh ==
  /\ fe = "up" /\ useRSH /\ rshPid # -1
  /\ rshPid' = -1
  /\ UNCHANGED <<host_array, hostOut, ret, useRSH, spawned, launcher, fe, daemon_pid>>

Next ==
  \/ spawnDaemon
  \/ \E id \in Apps : spawnJob(id)
  \/ getProcessTable
  \/ getReturnCodes
  \/ CloseRsh

Spec == Init /\ [][Next]_vars
-----------------------------------------------------------------------------
Chars == UNION {Range(out) : out \in Outputs}

TypeOK ==
  /\ host_array \in {NULL} \cup Seq(Seq(Chars))
  /\ hostOut \in Printed \cup {<<>>}
  /\ ret \in {NoCall, NULL} \cup Seq(Seq(Chars))
  /\ useRSH \in BOOLEAN /\ spawned \in {"none", "ok", "refused"}
  /\ launcher \in [Apps -> {"none", "running", "exec_failed"}]
  /\ fe \in {"up", "exited"}
  /\ daemon_pid \in {0, -1, RshPid} /\ rshPid \in {-1, RshPid}

\* The reading of the hostbin output: the white-space separated words it
\* printed, in order.
Starts(out) == {i \in 1 .. Len(out) : out[i] \notin Spaces /\ (i = 1 \/ out[i - 1] \in Spaces)}
WordFrom(out, i) ==
  SubSeq(out, i, CHOOSE j \in i .. Len(out) :
                   /\ \A k \in i .. j : out[k] \notin Spaces
                   /\ j = Len(out) \/ out[j + 1] \in Spaces)
Words(out) == LET s == SetToSortSeq(Starts(out), <) IN [k \in DOMAIN s |-> WordFrom(out, s[k])]

\* Whatever getProcessTable returned that is not NULL lists exactly the host
\* names the hostbin program printed, one entry per name, in its order
\* (fscanf's field width, its -1 at the end and the result test all bear
\* on it).
ProcessTableListsHostbinOutput ==
  ret \notin {NoCall, NULL} => ret = Words(hostOut) /\ ret = host_array
=============================================================================
