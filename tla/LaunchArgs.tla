----------------------------- MODULE LaunchArgs -----------------------------
(***************************************************************************)
(* The launch line the front end gives every task (spindle_fe.cc,          *)
(* getApplicationArgsFE) and the way the flux shell plugin puts it in      *)
(* front of the task's command (flux-spindle.c, sp_task).  A token is      *)
(* [s |-> text, n |-> atoi(text)]: the text is kept only as the name of    *)
(* the field, and the number is what atoi or atol reads from it.           *)
(***************************************************************************)
EXTENDS Sequences

Tok(text, n) == [s |-> text, n |-> n]

\* With OPT_SELFLAUNCH: "-daemon_args", the count "6" and six daemon
\* arguments; then the location, number, opts and cachesize strings.
getApplicationArgsFE(selflaunch, number, opts, cachesize) ==
  <<Tok("spindle_bootstrap", 0)>>
  \o (IF selflaunch
      THEN <<Tok("-daemon_args", 0), Tok("6", 6), Tok("--spindle_selflaunch", 0),
             Tok("security", 0), Tok("number", number), Tok("port", 0),
             Tok("numports", 0), Tok("uniqueid", 0)>>
      ELSE <<>>)
  \o <<Tok("location", 0), Tok("number", number), Tok("opts", opts),
       Tok("cachesize", cachesize)>>

\* sp_task: the spindle argv is inserted, last word first, at position 0
\* of the task's command.
sp_task(spindle_argv, cmd) == spindle_argv \o cmd
=============================================================================
