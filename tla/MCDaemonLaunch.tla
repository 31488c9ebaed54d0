--------------------------- MODULE MCDaemonLaunch ---------------------------
(* Three bootstrappers on one node: enough for two to race on the pid file *)
(* while a third arrives after the daemon has (or has not) started.  The   *)
(* application's command has four words, so that every line below leaves  *)
(* parse_cmdline's reads within argc.                                      *)
EXTENDS DaemonLaunch, LaunchArgs

MCProcs == {"p1", "p2", "p3"}
MCSpindleUnset == [p \in MCProcs |-> "unset"]
MCSpindleOff == [p \in MCProcs |-> IF p = "p1" THEN "false" ELSE "unset"]

MCAppCmd == <<Tok("a.out", 0), Tok("x", 0), Tok("y", 0), Tok("z", 0)>>

\* The layout parse_cmdline reads: daemon arguments or none, then the seven
\* fields, with the OPT_RELOCAOUT bit r in opts.
MCReadLine(d, r) ==
  <<Tok("spindle_bootstrap", 0)>>
  \o (IF d THEN <<Tok("-daemon_args", 0), Tok("6", 6), Tok("argv3", 0),
                  Tok("a1", 0), Tok("a2", 0), Tok("a3", 0), Tok("a4", 0),
                  Tok("a5", 0)>>
           ELSE <<>>)
  \o <<Tok("location", 0), Tok("cache", 0), Tok("fifo", 0), Tok("daemon", 0),
       Tok("number", 2), Tok("opts", r), Tok("cachesize", 0)>>
  \o MCAppCmd

\* Without daemon arguments the daemon is started by someone else, so with
\* OPT_RELOCAOUT the connection would wait on it: that line is left out.
MCReadLines == {MCReadLine(TRUE, 1), MCReadLine(TRUE, 0), MCReadLine(FALSE, 0)}

\* The lines the front end and sp_task give the tasks under flux.
MCFeLines ==
  {sp_task(getApplicationArgsFE(sl, 2, o, 0), MCAppCmd) : sl \in BOOLEAN, o \in {0, 1}}
=============================================================================
