---------------------------- MODULE ConfigMerge ----------------------------
(***************************************************************************)
(* Spindle's configuration layer (src/src/fe/startup/config_mgr.cc and     *)
(* config_parser.cc): the options table, ConfigMap::set and mergeOnto, the *)
(* parse of a spindle.conf file, gatherAllConfigInfo's layering of         *)
(* defaults, system file, user file and command line, and toSpindleArgs,   *)
(* which turns the merged map into the opts bits of spindle_args_t.        *)
(*                                                                         *)
(* These are pure computations of one call, so they are operators here;   *)
(* FluxPlugin evaluates them inside the handler that calls them.           *)
(* A ConfigMap is a function from option ids to a value string or Unset.   *)
(***************************************************************************)
EXTENDS Integers, SequencesExt

CONSTANTS
  Unset,     \* no value for this id in name_values
  NumVal,    \* the numerals among the inputs, with the number stol reads
  ValueOne   \* the opts flag whose value is 1 (spindle_launch.h)

\* enum SpindleConfigID in map order.  config_mgr.h does not declare
\* confSpindleLevel (config_mgr.cc uses it at 148 and 704), so its place
\* is not given by the source; it is put where the Options table lists it.
\* Only the level case sets or clears OPT_OFF, so no property checked here
\* depends on that place; the pushpull flags, which the level case falls
\* into, do.
OptionOrder ==
  << "confPort", "confNumPorts", "confLocation", "confCachePrefix",
     "confPythonPrefix", "confStrip", "confRelocAout", "confRelocLibs",
     "confRelocPython", "confRelocExec", "confFollowFork", "confStopReloc",
     "confSpindleLevel", "confPushpull", "confNetwork", "confSecurity",
     "confJoblauncher", "confNuma", "confNumaIncludes", "confNumaExcludes",
     "confAuditType", "confShmcacheSize", "confDebug", "confPreload",
     "confHostbin", "confNoclean", "confDisableLogging", "confNoHide",
     "confPersist", "confMsgcacheBuffer", "confMsgcacheTimeout",
     "confCleanupProc", "confEnableRsh", "confRshCommand", "confStartSession",
     "confEndSession", "confRunSession" >>

IDs == ToSet(OptionOrder)

Opt(id, type, dflt, enums) == [id |-> id, type |-> type, dflt |-> dflt, enums |-> enums]

\* The Options table by long name (getOptionsByLongName), with the
\* defaults of a Flux build without MUNGE, KEYFILE, HOSTBIN_PATH or
\* USAGE_LOGGING_FILE.  Cmdline-only entries have the id confCmdlineOnly.
Options ==
  [n \in {"reloc-aout", "reloc-libs", "reloc-python", "reloc-exec",
          "follow-fork", "stop-reloc", "level", "push", "pull", "pushpull",
          "cobo", "network", "port", "num-ports", "security-munge",
          "security-lmon", "security-keyfile", "security-none", "security",
          "launcher-startup", "no-mpi", "serial", "enable-hostbin", "hostbin",
          "launcher", "start-session", "end-session", "run-in-session", "numa",
          "numa-includes", "numa-excludes", "audit-type", "shmcache-size",
          "python-prefix", "cache-prefix", "debug", "preload", "strip",
          "location", "noclean", "disable-logging", "no-hide", "persist",
          "msgcache-buffer", "msgcache-timeout", "cleanup-proc", "enable-rsh",
          "rsh-command"} |->
    CASE n = "reloc-aout"      -> Opt("confRelocAout", "cvBool", "true", {})
      [] n = "reloc-libs"      -> Opt("confRelocLibs", "cvBool", "true", {})
      [] n = "reloc-python"    -> Opt("confRelocPython", "cvBool", "true", {})
      [] n = "reloc-exec"      -> Opt("confRelocExec", "cvBool", "true", {})
      [] n = "follow-fork"     -> Opt("confFollowFork", "cvBool", "true", {})
      [] n = "stop-reloc"      -> Opt("confStopReloc", "cvBool", "false", {})
      [] n = "level"           -> Opt("confSpindleLevel", "cvEnum", "default",
                                      {"high", "medium", "low", "off", "default"})
      [] n = "pushpull"        -> Opt("confPushpull", "cvEnum", "push", {"push", "pull"})
      [] n = "network"         -> Opt("confNetwork", "cvEnum", "cobo", {"cobo"})
      [] n = "port"            -> Opt("confPort", "cvInteger", "21940", {})
      [] n = "num-ports"       -> Opt("confNumPorts", "cvInteger", "25", {})
      [] n = "security"        -> Opt("confSecurity", "cvEnum", "none",
                                      {"munge", "keyfile", "launchmon", "none"})
      [] n = "hostbin"         -> Opt("confHostbin", "cvString", "", {})
      [] n = "launcher"        -> Opt("confJoblauncher", "cvEnum", "flux",
                                      {"slurm", "flux", "slurm-plugin", "serial", "hostbin", "unknown"})
      [] n = "start-session"   -> Opt("confStartSession", "cvBool", "", {})
      [] n = "end-session"     -> Opt("confEndSession", "cvString", "", {})
      [] n = "run-in-session"  -> Opt("confRunSession", "cvString", "", {})
      [] n = "numa"            -> Opt("confNuma", "cvBool", "false", {})
      [] n = "numa-includes"   -> Opt("confNumaIncludes", "cvList", "", {})
      [] n = "numa-excludes"   -> Opt("confNumaExcludes", "cvList", "", {})
      [] n = "audit-type"      -> Opt("confAuditType", "cvEnum", "audit", {"audit", "subaudit"})
      [] n = "shmcache-size"   -> Opt("confShmcacheSize", "cvInteger", "0", {})
      [] n = "python-prefix"   -> Opt("confPythonPrefix", "cvList", "", {})
      [] n = "cache-prefix"    -> Opt("confCachePrefix", "cvList", "", {})
      [] n = "debug"           -> Opt("confDebug", "cvBool", "false", {})
      [] n = "preload"         -> Opt("confPreload", "cvString", "", {})
      [] n = "strip"           -> Opt("confStrip", "cvBool", "true", {})
      [] n = "location"        -> Opt("confLocation", "cvString", "$TMPDIR", {})
      [] n = "noclean"         -> Opt("confNoclean", "cvBool", "false", {})
      [] n = "disable-logging" -> Opt("confDisableLogging", "cvBool", "true", {})
      [] n = "no-hide"         -> Opt("confNoHide", "cvBool", "false", {})
      [] n = "persist"         -> Opt("confPersist", "cvBool", "false", {})
      [] n = "msgcache-buffer" -> Opt("confMsgcacheBuffer", "cvInteger", "0", {})
      [] n = "msgcache-timeout"-> Opt("confMsgcacheTimeout", "cvInteger", "0", {})
      [] n = "cleanup-proc"    -> Opt("confCleanupProc", "cvBool", "false", {})
      [] n = "enable-rsh"      -> Opt("confEnableRsh", "cvBool", "false", {})
      [] n = "rsh-command"     -> Opt("confRshCommand", "cvString", "", {})
      [] OTHER                 -> Opt("confCmdlineOnly", "cvBool", "", {})]

\* getOptionsByID: cmdline-only entries are left out.
OptionByID(id) == Options[CHOOSE n \in DOMAIN Options : Options[n].id = id]

EmptyMap == [i \in IDs |-> Unset]

\* strcasecmp compares the lower-case spellings.  Lower is tolower over
\* the values the models feed in, which are lower case apart from the
\* capitalised spellings in this table.
CaseFold == ("Yes" :> "yes") @@ ("Pull" :> "pull") @@ ("None" :> "none")
Lower(s) == IF s \in DOMAIN CaseFold THEN CaseFold[s] ELSE s

strToBool(s) ==
  CASE Lower(s) \in {"true", "yes", "1"}  -> [ok |-> TRUE, val |-> TRUE]
    [] Lower(s) \in {"false", "no", "0"}  -> [ok |-> TRUE, val |-> FALSE]
    [] OTHER                              -> [ok |-> FALSE, val |-> FALSE]

strToLong(s) ==
  IF s \in DOMAIN NumVal THEN [ok |-> TRUE, val |-> NumVal[s]]
                         ELSE [ok |-> FALSE, val |-> 0]

\* strcasecmp against the enum values; the value is returned as written.
strToEnum(id, s) == Lower(s) \in OptionByID(id).enums

\* ConfigMap::set: validate the value by the option's type, then store it.
\* Valid(t, id, v): v is a valid value of type t for id.
Valid(t, id, v) ==
  /\ t = "cvBool" => strToBool(v).ok
  /\ t = "cvInteger" => strToLong(v).ok
  /\ t = "cvEnum" => strToEnum(id, v)

set(m, id, v) ==
  IF id \in IDs /\ Valid(OptionByID(id).type, id, v)
  THEN [ok |-> TRUE, map |-> [m EXCEPT ![id] = v]]
  ELSE [ok |-> FALSE, map |-> m]

\* Variant: a value already in the map is kept.
mergeOntoKeep(m, other) ==
  [i \in IDs |-> IF other[i] # Unset /\ m[i] = Unset THEN other[i] ELSE m[i]]

\* ConfigMap::mergeOnto: every value of other is stored over the existing
\* one; the joined list computed for cvList options is not what is stored.
mergeOnto(m, other) ==
  [i \in IDs |-> IF other[i] # Unset THEN other[i] ELSE m[i]]

\* getDefaultsConfigMap: every non-cmdline option with a non-empty default.
Defaults ==
  [i \in IDs |-> IF OptionByID(i).dflt # "" THEN OptionByID(i).dflt ELSE Unset]

(***************************************************************************)
(* ConfigFile::parse.  A line of a file is a record: kind is "comment"    *)
(* (starts with '#'), "blank", "noeq" (no '=') or "pair" (name = value,   *)
(* both trimmed); cont says the line ends in a backslash.  A "noeq" line  *)
(* keeps its text in value.  Trimming is left out: inputs are trimmed.    *)
(***************************************************************************)
\* A file is its lines, or a file that cannot be opened (open_error).
File(ls) == [open |-> TRUE, lines |-> ls]
NoFile == [open |-> FALSE, lines |-> << >>]

\* No continuation is pending (prev_incomplete_line is empty).
NoPending == [kind |-> "none", name |-> "", value |-> "", cont |-> FALSE]

\* prev_incomplete_line + line: the text of the line is appended to the
\* pending one, so the pending line keeps its kind and, up to the first
\* '=' of the joined text, its name.
Join(prev, l) ==
  CASE prev.kind = "pair" -> [prev EXCEPT !.value = @ \o l.value, !.cont = l.cont]
    [] prev.kind = "noeq" /\ l.kind = "pair" ->
         [l EXCEPT !.name = prev.value \o @]
    [] OTHER -> [prev EXCEPT !.value = @ \o l.value, !.cont = l.cont]

\* The result of parseLine for the result r of set.
SetResult(r) == [res |-> IF r.ok THEN "ok" ELSE "stop", map |-> r.map]

\* ConfigFile::parseLine on configmap m: "ok" to go on, "error" when it
\* sets parse_error, "stop" when it returns false without it.
parseLine(l, m) ==
  CASE l.kind \in {"comment", "blank"}  -> [res |-> "ok", map |-> m]
    [] l.kind = "noeq" \/ l.name = ""   -> [res |-> "error", map |-> m]
    [] l.value = ""                     -> [res |-> "ok", map |-> m]
    [] l.name \notin DOMAIN Options     -> [res |-> "stop", map |-> m]
    [] OTHER -> SetResult(set(m, Options[l.name].id, l.value))

\* The loop of ConfigFile::parse over the remaining lines, with the pending
\* continuation (or NoPending).  line.back() of a blank
\* line reads before the buffer; libstdc++ finds a NUL there, so a blank
\* line never continues.
RECURSIVE ParseLines(_, _, _), ParseLine(_, _, _), AfterLine(_, _)
ParseLines(ls, prev, m) ==
  IF ls = << >>
  THEN [parse_error |-> prev # NoPending, map |-> m]
  ELSE ParseLine(Tail(ls), IF prev = NoPending THEN Head(ls) ELSE Join(prev, Head(ls)), m)

\* The body of the loop for one (joined) line, before the rest ls.
ParseLine(ls, line, m) ==
  CASE line.cont /\ line.kind # "blank" -> ParseLines(ls, [line EXCEPT !.cont = FALSE], m)
    [] line.cont                        -> ParseLines(ls, NoPending, m)
    [] OTHER                            -> AfterLine(ls, parseLine(line, m))

\* Go on after parseLine returned r, or stop.
AfterLine(ls, r) ==
  CASE r.res = "ok"    -> ParseLines(ls, NoPending, r.map)
    [] r.res = "error" -> [parse_error |-> TRUE, map |-> r.map]
    [] OTHER           -> [parse_error |-> FALSE, map |-> r.map]

\* The ConfigFile constructor: open, then parse into an empty map.
ConfigFileParse(f) ==
  IF ~f.open
  THEN [open_error |-> TRUE, parse_error |-> FALSE, map |-> EmptyMap]
  ELSE [open_error |-> FALSE] @@ ParseLines(f.lines, NoPending, EmptyMap)

\* One layer of gatherAllConfigInfo: skip an unreadable file, abort on a
\* parse error, else merge the file's map onto the configuration.
MergeParsed(g, c) ==
  CASE ~g.ok          -> g
    [] c.open_error   -> g
    [] c.parse_error  -> [ok |-> FALSE, map |-> g.map]
    [] OTHER          -> [ok |-> TRUE, map |-> mergeOnto(g.map, c.map)]

MergeFile(g, f) == MergeParsed(g, ConfigFileParse(f))

\* gatherAllConfigInfo into the (empty) static map of the launcher:
\* defaults, the system file, the user file, then the command line map
\* that parseArgs built.
MergeCmdline(g, cmdline) == IF g.ok THEN [g EXCEPT !.map = mergeOnto(@, cmdline)] ELSE g

gatherAllConfigInfo(sysConf, userConf, cmdline) ==
  MergeCmdline(MergeFile(MergeFile([ok |-> TRUE, map |-> mergeOnto(EmptyMap, Defaults)],
                                   sysConf), userConf), cmdline)

\* parseArgs for the argv {"spindle", "launcher"} of the Flux launcher:
\* "launcher" is the application command line and sets no option.
parseArgs == EmptyMap

(***************************************************************************)
(* ConfigMap::toSpindleArgs.  The spindle_args_t fields it sets are a     *)
(* record: ok (FALSE once a case returns false), opts (the set of OPT_    *)
(* flags), sec (OPT_SET_SEC), startup and launcher.                       *)
(***************************************************************************)
\* setopt(optv, opttype, setv)
setopt(o, f, b) == IF b THEN o \cup {f} ELSE o \ {f}

\* The options that are one setopt of their boolean value.
BoolFlag ==
  ("confStrip" :> "OPT_STRIP") @@ ("confRelocAout" :> "OPT_RELOCAOUT")
  @@ ("confRelocLibs" :> "OPT_RELOCSO") @@ ("confRelocPython" :> "OPT_RELOCPY")
  @@ ("confRelocExec" :> "OPT_RELOCEXEC") @@ ("confFollowFork" :> "OPT_FOLLOWFORK")
  @@ ("confStopReloc" :> "OPT_STOPRELOC") @@ ("confNuma" :> "OPT_NUMA")
  @@ ("confDebug" :> "OPT_DEBUG") @@ ("confNoclean" :> "OPT_NOCLEAN")
  @@ ("confNoHide" :> "OPT_NOHIDE") @@ ("confPersist" :> "OPT_PERSIST")
  @@ ("confCleanupProc" :> "OPT_PROCCLEAN") @@ ("confEnableRsh" :> "OPT_RSHLAUNCH")
  @@ ("confStartSession" :> "OPT_SESSION")

\* The flags a spindle level sets or clears, and the ones it sets.
LevelFlags == {"OPT_RELOCAOUT", "OPT_RELOCSO", "OPT_RELOCPY", "OPT_RELOCEXEC",
               "OPT_FOLLOWFORK", "OPT_STOPRELOC", "OPT_OFF"}
LevelOn ==
  ("high"   :> {"OPT_RELOCAOUT", "OPT_RELOCSO", "OPT_RELOCPY", "OPT_RELOCEXEC", "OPT_FOLLOWFORK"})
  @@ ("medium" :> {"OPT_RELOCSO", "OPT_RELOCPY", "OPT_FOLLOWFORK"})
  @@ ("low"    :> {"OPT_FOLLOWFORK", "OPT_STOPRELOC"})
  @@ ("off"    :> {"OPT_OFF"})

\* Variant: the "off" case is missing.
LevelNoOff(o, v) ==
  CASE v = "default"                        -> o \ {"OPT_OFF"}
    [] v \in DOMAIN LevelOn /\ v # "off"    -> (o \ LevelFlags) \cup LevelOn[v]
    [] OTHER                                -> o

\* case confSpindleLevel; the value is compared as written.
Level(o, v) ==
  CASE v = "default"       -> o \ {"OPT_OFF"}
    [] v \in DOMAIN LevelOn -> (o \ LevelFlags) \cup LevelOn[v]
    [] OTHER                -> o

\* case confPushpull, which case confSpindleLevel also falls into.
Pushpull(o, v) ==
  IF v = "pull" THEN setopt(setopt(o, "OPT_PULL", TRUE), "OPT_PUSH", FALSE)
                ELSE setopt(setopt(o, "OPT_PUSH", TRUE), "OPT_PULL", FALSE)

Launchers ==
  ("slurm" :> [startup |-> "startup_mpi", launcher |-> "srun_launcher"])
  @@ ("flux" :> [startup |-> "startup_external", launcher |-> "flux_plugin_launcher"])
  @@ ("slurm-plugin" :> [startup |-> "startup_external", launcher |-> "slurm_plugin_launcher"])
  @@ ("serial" :> [startup |-> "startup_serial", launcher |-> "serial_launcher"])
  @@ ("hostbin" :> [startup |-> "startup_hostbin", launcher |-> "marker_launcher"])

Fail(a) == [a EXCEPT !.ok = FALSE]

\* One iteration of the loop over name_values: the switch on the id.
ApplyOption(a, id, v) ==
  LET b == strToBool(v).val
      n == strToLong(v).val
      o == a.opts
  IN
  CASE id \in DOMAIN BoolFlag -> [a EXCEPT !.opts = setopt(o, BoolFlag[id], b)]
    [] id = "confSpindleLevel" -> [a EXCEPT !.opts = Pushpull(Level(o, v), v)]
    [] id = "confPushpull"     -> [a EXCEPT !.opts = Pushpull(o, v)]
    [] id = "confNetwork"      -> [a EXCEPT !.opts = IF v = "cobo" THEN o \cup {"OPT_COBO"} ELSE o]
    [] id = "confSecurity"     ->
         IF v \in {"munge", "keyfile", "launchmon", "none"} THEN [a EXCEPT !.sec = v] ELSE Fail(a)
    [] id = "confJoblauncher"  ->
         CASE v \in DOMAIN Launchers -> [a EXCEPT !.startup = Launchers[v].startup,
                                                  !.launcher = Launchers[v].launcher]
           [] v = "unknown"          -> a
           [] OTHER                  -> Fail(a)
    [] id = "confNumaIncludes" -> [a EXCEPT !.opts = o \cup {"OPT_NUMA"}]
    [] id = "confAuditType"    ->
         CASE v = "audit"    -> [a EXCEPT !.opts = o \ {"OPT_SUBAUDIT"}]
           [] v = "subaudit" -> [a EXCEPT !.opts = o \cup {"OPT_SUBAUDIT"}]
           [] OTHER          -> Fail(a)
    [] id = "confHostbin"      ->
         IF v # "" THEN [a EXCEPT !.startup = "startup_hostbin", !.launcher = "marker_launcher"]
                   ELSE a
    [] id = "confDisableLogging" -> [a EXCEPT !.opts = setopt(o, "OPT_LOGUSAGE", ~b)]
    [] id \in {"confMsgcacheBuffer", "confMsgcacheTimeout"} ->
         [a EXCEPT !.opts = setopt(o, "OPT_MSGBUNDLE", n # 0)]
    [] id \in {"confEndSession", "confRunSession"} ->
         [a EXCEPT !.opts = setopt(o, "OPT_SESSION", v # "")]
    [] OTHER -> a   \* port, locations, prefixes, sizes and strings: not flags

\* The option dependencies set after the loop.
Dependencies(a) ==
  LET o1 == IF a.startup = "startup_serial" THEN a.opts \ {"OPT_RSHLAUNCH"} ELSE a.opts
      o2 == IF "OPT_SESSION" \in o1 THEN o1 \cup {"OPT_PERSIST"} ELSE o1
  IN  [a EXCEPT !.opts = IF "OPT_DEBUG" \in o2 THEN o2 \cup {"OPT_REMAPEXEC"} ELSE o2]

\* The loop of toSpindleArgs over the ids of m in the order given (the
\* order of the std::map); it stops at the first case that fails.
RECURSIVE OptionLoop(_, _, _)
OptionLoop(order, a, m) ==
  CASE order = << >> \/ ~a.ok -> a
    [] m[Head(order)] = Unset -> OptionLoop(Tail(order), a, m)
    [] OTHER -> OptionLoop(Tail(order), ApplyOption(a, Head(order), m[Head(order)]), m)

AfterLoop(a) == IF a.ok THEN Dependencies(a) ELSE a

toSpindleArgsIn(order, a0, m) == AfterLoop(OptionLoop(order, a0, m))

toSpindleArgs(a0, m) == toSpindleArgsIn(OptionOrder, a0, m)

\* The front end's launcher and startup, once toSpindleArgs succeeded.
FillResult(a) ==
  IF a.ok THEN [a EXCEPT !.launcher = "external_launcher", !.startup = "startup_external"]
          ELSE a

\* fillInSpindleArgsCmdlineFE with params a0 and the given files; the
\* unique id and number are kept (SPINDLE_FILLARGS_NOUNIQUEID|NONUMBER).
FillArgs(a0, g) == IF g.ok THEN FillResult(toSpindleArgs(a0, g.map)) ELSE Fail(a0)

fillInSpindleArgsCmdlineFE(a0, sysConf, userConf) ==
  FillArgs(a0, gatherAllConfigInfo(sysConf, userConf, parseArgs))
=============================================================================
