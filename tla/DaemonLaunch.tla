---------------------------- MODULE DaemonLaunch ----------------------------
(***************************************************************************)
(* The bootstrapper of one compute node (spindle_bootstrap.c): every       *)
(* application process on the node starts as a spindle_bootstrap process;  *)
(* the first one to create the file spindle_daemon_pid in the daemon       *)
(* directory double-forks the daemon, the others leave it alone, and each  *)
(* then connects to the daemon (OPT_RELOCAOUT) and execs the application.  *)
(* The bootstrappers, their children and the grandchildren all run         *)
(* concurrently.  client_open_connection is not in src/: it is modelled    *)
(* as waiting until a daemon runs.                                         *)
(*                                                                         *)
(* The node's launch line (the same for every task) is a sequence of       *)
(* tokens [s |-> text, n |-> atoi(text)]: the launcher's prefix followed   *)
(* by the application's command.  parse_cmdline decides from it whether    *)
(* there are daemon arguments, the options and the command that is run.    *)
(***************************************************************************)
EXTENDS Naturals, FiniteSets, Sequences

CONSTANTS
  Procs,        \* the bootstrapper processes of the node
  SpindleEnv,   \* SpindleEnv[p]: the SPINDLE variable of p, "unset" if absent
  DirOk,        \* instatiate_directory finds a daemon directory
  LaunchLines,  \* the launch lines the node's tasks may be started with
  AppCmd        \* the application's own command, at the end of each line

VARIABLES
  pc,           \* pc[p]: where bootstrapper p is in main
  childPc,      \* childPc[p]: the child forked by launch_daemon of p
  gchildPc,     \* gchildPc[p]: the grandchild, which execs the daemon
  pidfile,      \* "absent", "empty" (created by open) or "written"
  pidContent,   \* the pid written to the pid file
  daemon,       \* the daemon processes of the node, with their state
  relocAout,    \* opts & OPT_RELOCAOUT, as parse_cmdline reads it
  launch        \* the node's launch line

vars == <<pc, childPc, gchildPc, pidfile, pidContent, daemon, relocAout, launch>>

NoPid == <<"none", "none">>
ChildPid(p)  == <<p, "child">>
GchildPid(p) == <<p, "gchild">>

(***************************************************************************)
(* parse_cmdline.  C's argv[k] is line[k + 1] and argc is Len(line).  With *)
(* "-daemon_args" first, argv[2] gives the count and the loop              *)
(* for (i = 4; i < 3 + count; i++) copies argv[4 .. 2 + count] (argv[3] is *)
(* skipped); then seven fixed fields are read (location, cache, fifo and   *)
(* daemon paths, number, opts, cachesize) and cmdline = argv + i.          *)
(***************************************************************************)
Arg(line, k) == line[k + 1]
atoi(t) == t.n

DaemonArgsGiven(line) == Arg(line, 1).s = "-daemon_args"

\* Variant: the copy loop runs while i <= 3 + count.
FieldsStartLoopOver(line) ==
  IF DaemonArgsGiven(line)
  THEN IF 4 + atoi(Arg(line, 2)) > 4 THEN 4 + atoi(Arg(line, 2)) ELSE 4
  ELSE 1

\* i once the daemon arguments are consumed.
FieldsStart(line) ==
  IF DaemonArgsGiven(line)
  THEN IF 3 + atoi(Arg(line, 2)) > 4 THEN 3 + atoi(Arg(line, 2)) ELSE 4
  ELSE 1

\* i after the seven fields: cmdline = argv + i, and assert(i < argc).
CmdStart(line) == FieldsStart(line) + 7

ArgcOk(line) == Len(line) >= 5
AssertHolds(line) == CmdStart(line) < Len(line)

cmdline(line) == SubSeq(line, CmdStart(line) + 1, Len(line))

\* opts = atol(opts_s), the sixth field; only its OPT_RELOCAOUT bit (the
\* low bit of the modelled value) matters here.
OptRelocAout(line) ==
  AssertHolds(line) /\ atoi(Arg(line, FieldsStart(line) + 5)) % 2 = 1

Init ==
  /\ launch \in LaunchLines
  /\ relocAout = OptRelocAout(launch)
  /\ pc = [p \in Procs |-> "start"]
  /\ childPc = [p \in Procs |-> "none"]
  /\ gchildPc = [p \in Procs |-> "none"]
  /\ pidfile = "absent"
  /\ pidContent = NoPid
  /\ daemon = [p \in Procs |-> "none"]

\* main up to launch_daemon: with SPINDLE false or 0 the bootstrapper
\* execvp's cmdline[0] before parse_cmdline has set cmdline, a NULL
\* dereference.  Otherwise parse_cmdline: argc < 5 makes main return -1,
\* a failed assert(i < argc) aborts; then launch_daemon when daemon_args
\* were given, else straight on to the connection.
Start(p) ==
  /\ pc[p] = "start"
  /\ pc' = [pc EXCEPT ![p] =
       CASE SpindleEnv[p] \in {"false", "FALSE", "0"} -> "crashed"
         [] ~ArgcOk(launch)                           -> "failed"
         [] ~AssertHolds(launch)                      -> "crashed"
         [] DaemonArgsGiven(launch)                   -> "open"
         [] OTHER                                     -> "launched"]
  /\ UNCHANGED <<childPc, gchildPc, pidfile, pidContent, daemon, relocAout, launch>>

\* Variants of the open: without O_EXCL; without the fork after it.
OpenPidFileNoExcl(p) ==
  /\ pc[p] = "open"
  /\ IF DirOk
     THEN /\ pidfile' = "empty"
          /\ pc' = [pc EXCEPT ![p] = "fork"]
     ELSE /\ pc' = [pc EXCEPT ![p] = "launched"]
          /\ UNCHANGED pidfile
  /\ UNCHANGED <<childPc, gchildPc, pidContent, daemon, relocAout, launch>>

OpenPidFileNoFork(p) ==
  /\ pc[p] = "open"
  /\ pc' = [pc EXCEPT ![p] = "launched"]
  /\ pidfile' = IF DirOk /\ pidfile = "absent" THEN "empty" ELSE pidfile
  /\ UNCHANGED <<childPc, gchildPc, pidContent, daemon, relocAout, launch>>

\* launch_daemon: open(O_CREAT | O_EXCL).  A failed open, whether the file
\* exists or the path was never instantiated (the NULL checks of main test
\* the template, not the instantiated path), returns without spawning.
OpenPidFile(p) ==
  /\ pc[p] = "open"
  /\ IF DirOk /\ pidfile = "absent"
     THEN /\ pidfile' = "empty"
          /\ pc' = [pc EXCEPT ![p] = "fork"]
     ELSE /\ pc' = [pc EXCEPT ![p] = "launched"]
          /\ UNCHANGED pidfile
  /\ UNCHANGED <<childPc, gchildPc, pidContent, daemon, relocAout, launch>>

\* child = fork(): the parent goes on to waitpid and the child starts; a
\* failed fork (child < 0) takes neither branch, so launch_daemon returns
\* with the pid file created and no daemon spawned.
Fork(p) ==
  /\ pc[p] = "fork"
  /\ \/ /\ pc' = [pc EXCEPT ![p] = "waitpid"]
        /\ childPc' = [childPc EXCEPT ![p] = "fork"]
        /\ UNCHANGED daemon
     \/ /\ pc' = [pc EXCEPT ![p] = "launched"]
        /\ daemon' = [daemon EXCEPT ![p] = "failed"]
        /\ UNCHANGED childPc
  /\ UNCHANGED <<gchildPc, pidfile, pidContent, relocAout, launch>>

\* The child forks the grandchild.  gchild = fork() failing returns -1,
\* which is != 0: the child goes on to write its pid and exit, and no
\* grandchild exists to exec the daemon.
ChildFork(p) ==
  /\ childPc[p] = "fork"
  /\ childPc' = [childPc EXCEPT ![p] = "write"]
  /\ \/ gchildPc' = [gchildPc EXCEPT ![p] = "exec"] /\ UNCHANGED daemon
     \/ daemon' = [daemon EXCEPT ![p] = "failed"] /\ UNCHANGED gchildPc
  /\ UNCHANGED <<pc, pidfile, pidContent, relocAout, launch>>

\* Variant: the child writes getppid(), the pid of the bootstrapper.
ChildWriteBadPid(p) ==
  /\ childPc[p] = "write"
  /\ pidfile' = "written"
  /\ pidContent' = <<p, "bootstrapper">>
  /\ childPc' = [childPc EXCEPT ![p] = "exited"]
  /\ UNCHANGED <<pc, gchildPc, daemon, relocAout, launch>>

\* The child writes getpid() -- its own pid -- to the file and exits.
ChildWrite(p) ==
  /\ childPc[p] = "write"
  /\ pidfile' = "written"
  /\ pidContent' = ChildPid(p)
  /\ childPc' = [childPc EXCEPT ![p] = "exited"]
  /\ UNCHANGED <<pc, gchildPc, daemon, relocAout, launch>>

\* The grandchild calls setpgid and execv's the daemon, or exits(-1) when
\* execv fails.
GchildExec(p) ==
  /\ gchildPc[p] = "exec"
  /\ gchildPc' = [gchildPc EXCEPT ![p] = "done"]
  /\ \E ok \in BOOLEAN :
       daemon' = [daemon EXCEPT ![p] = IF ok THEN "running" ELSE "failed"]
  /\ UNCHANGED <<pc, childPc, pidfile, pidContent, relocAout, launch>>

\* waitpid returns once the child has exited.
WaitChild(p) ==
  /\ pc[p] = "waitpid" /\ childPc[p] = "exited"
  /\ pc' = [pc EXCEPT ![p] = "launched"]
  /\ UNCHANGED <<childPc, gchildPc, pidfile, pidContent, daemon, relocAout, launch>>

DaemonRunning == \E p \in Procs : daemon[p] = "running"
DaemonFailed  == \E p \in Procs : daemon[p] = "failed"

\* With OPT_RELOCAOUT, establish_connection: client_open_connection
\* returns once a daemon listens on the fifo; it cannot tell a daemon that
\* was never spawned from one still starting, so without one it waits.
\* Then the application is exec'd.
Connect(p) ==
  /\ pc[p] = "launched"
  /\ ~relocAout \/ DaemonRunning
  /\ pc' = [pc EXCEPT ![p] = "app"]
  /\ UNCHANGED <<childPc, gchildPc, pidfile, pidContent, daemon, relocAout, launch>>

\* A step of bootstrapper p or of the processes it forked.
Step(p) ==
  \/ Start(p) \/ OpenPidFile(p) \/ Fork(p) \/ WaitChild(p) \/ Connect(p)
  \/ ChildFork(p) \/ ChildWrite(p) \/ GchildExec(p)

Next == \E p \in Procs : Step(p)

\* The kernel eventually schedules every runnable process.
Spec == Init /\ [][Next]_vars /\ \A p \in Procs : WF_vars(Step(p))
-----------------------------------------------------------------------------
Pids == {ChildPid(p) : p \in Procs} \cup {GchildPid(p) : p \in Procs} \cup {NoPid}

TypeOK ==
  /\ pc \in [Procs -> {"start", "open", "fork", "waitpid", "launched",
                       "app", "failed", "crashed"}]
  /\ childPc \in [Procs -> {"none", "fork", "write", "exited"}]
  /\ gchildPc \in [Procs -> {"none", "exec", "done"}]
  /\ pidfile \in {"absent", "empty", "written"}
  /\ pidContent \in Pids
  /\ daemon \in [Procs -> {"none", "running", "failed"}]
  /\ relocAout \in BOOLEAN
  /\ launch \in LaunchLines

\* One daemon per node: however the bootstrappers of a node interleave,
\* the O_EXCL create of spindle_daemon_pid lets exactly one of them spawn.
AtMostOneDaemon == Cardinality({p \in Procs : daemon[p] # "none"}) <= 1

\* Every bootstrapper ends: in every run where no fork and no exec of the
\* daemon fails, each one execs the application or stops in main -- none
\* waits forever on a daemon that the bootstrapper holding the pid file
\* never spawns.
EveryBootstrapperEnds ==
  [](~DaemonFailed) => <>(\A p \in Procs : pc[p] \in {"app", "failed", "crashed"})

\* Every bootstrapper runs the application it was launched for: none
\* crashes in main (SPINDLE=false or 0 means running the application
\* without Spindle, as the bootstrapper's own check and spindle_exec_test
\* say), and the one that reaches the exec runs exactly the command the
\* launcher appended to the launch line, whatever the prefix carries.
RunsLaunchedApp ==
  \A p \in Procs : /\ pc[p] # "crashed"
                  /\ pc[p] = "app" => cmdline(launch) = AppCmd
=============================================================================
