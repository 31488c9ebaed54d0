---------------------------- MODULE MCFluxPlugin ----------------------------
(***************************************************************************)
(* FluxPlugin for two shell ranks, with configuration files and job       *)
(* options that reach every path of the parser, the merge and sp_getopts. *)
(***************************************************************************)
EXTENDS FluxPlugin

\* Lines of a spindle.conf, trimmed.
Pair(n, v)  == [kind |-> "pair", name |-> n, value |-> v, cont |-> FALSE]
PairCont(n) == [kind |-> "pair", name |-> n, value |-> "", cont |-> TRUE]
Text(t)     == [kind |-> "noeq", name |-> "", value |-> t, cont |-> FALSE]
Comment     == [kind |-> "comment", name |-> "", value |-> "", cont |-> FALSE]
Blank       == [kind |-> "blank", name |-> "", value |-> "", cont |-> FALSE]

MCNumVal == ("0" :> 0) @@ ("1" :> 1) @@ ("25" :> 25) @@ ("21940" :> 21940) @@ ("1024" :> 1024)

\* The system file: absent; pull with a level (level is handled before
\* pushpull, and falls into it); spindle off.
MCSysConfs ==
  { NoFile,
    File(<< Comment, Pair("pushpull", "pull"), Blank, Pair("level", "high") >>),
    File(<< Pair("level", "off") >>) }

\* The user file: absent; an unknown option that silently ends the parse
\* before pushpull; pull on a continued line; Pull, which strToEnum
\* accepts in any case; a line without '=', which aborts
\* gatherAllConfigInfo.
MCUserConfs ==
  { NoFile,
    File(<< Pair("bogus", "1"), Pair("pushpull", "push") >>),
    File(<< PairCont("pushpull"), Text("pull") >>),
    File(<< Pair("pushpull", "Pull") >>),
    File(<< Text("pull") >>) }

Job(k, o) == [kind |-> k, obj |-> o, int |-> 0]
IntJob(n)  == [kind |-> "int", obj |-> << >>, int |-> n]

\* The "spindle" shell option: absent; spindle=1 and spindle=0; objects
\* with pull, level off, a yes/no option, a misspelt key and a bad yes/no
\* value.
MCJobOpts ==
  { Job("absent", << >>), IntJob(1), IntJob(0),
    Job("object", "pull" :> 1), Job("object", "level" :> "off"),
    Job("object", "reloc-aout" :> "Yes"), Job("object", "relocaout" :> "yes"),
    Job("object", "reloc-libs" :> "maybe") }

\* A system file that enables message bundling by its buffer size.
MCSysConfsBundle == { File(<< Pair("msgcache-buffer", "1024") >>) }

MCJobOptsSpindle == { Job("object", "pull" :> 1) }
MCJobOptsAbsent  == { Job("absent", << >>) }
MCNoUserConf     == { NoFile }

MCRanks == {0, 1}
=============================================================================
