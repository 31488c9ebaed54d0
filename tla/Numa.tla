--------------------------------- MODULE Numa ---------------------------------
(***************************************************************************)
(* The daemon's choice of which files to replicate into every NUMA domain  *)
(* (server/auditserver/ldcs_audit_server_numa.c).  numa_should_replicate   *)
(* answers no unless OPT_NUMA is set and libnuma is available; otherwise a *)
(* file is replicated when the include list (numa_substrs, from the        *)
(* numa-includes option or flux's numa-files) is empty or one of its       *)
(* entries matches, and no entry of the exclude list (numa_excludes)       *)
(* matches.  Both lists are colon separated and walked by the macro        *)
(* FOREACH_ENTRY; an entry is matched by pattern_match, a substring test   *)
(* with an optional leading "^" and trailing "$" anchor.                   *)
(*                                                                         *)
(* The only state is the static of initialize_numa_lib, which caches      *)
(* numa_available() at the first call; every later decision depends on    *)
(* it.  A C string is a sequence of characters; the character after the    *)
(* last one is the terminator NUL.                                         *)
(***************************************************************************)
EXTENDS Integers, Sequences

CONSTANTS
  MAX_PATH_LEN,    \* the size of FOREACH_ENTRY's buffer, less one
  IncludeLists,    \* the values numa_substrs may have (<<>>: NULL or "")
  ExcludeLists,    \* the values numa_excludes may have
  FileNames        \* the file names asked about

\* FOREACH_ENTRY steps past the terminator when a list ends in ':' (the
\* str_len == 0 branch); the lists enumerated here do not.
ASSUME \A s \in IncludeLists \cup ExcludeLists : s # <<>> => s[Len(s)] # ":"

VARIABLE initialized   \* initialize_numa_lib's static: 0, 1 or -1

NUL == "NUL"

NumaInit == initialized = 0

\* initialize_numa_lib, at the first numa_should_replicate with OPT_NUMA:
\* numa_available() is -1 or not, and the answer is kept for good.
InitializeNumaLib ==
  /\ initialized = 0
  /\ initialized' \in {1, -1}

\* *p for p = s + i - 1: the terminator follows the last character.
At(s, i) == IF i <= Len(s) THEN s[i] ELSE NUL

\* while (*start == ':') start++ (stopping at the terminator).
RECURSIVE SkipColons(_, _)
SkipColons(s, i) == IF At(s, i) = ":" THEN SkipColons(s, i + 1) ELSE i

\* while (*end != ':' && *end != '\0') end++
RECURSIVE EntryEnd(_, _)
EntryEnd(s, i) == IF At(s, i) \in {":", NUL} THEN i ELSE EntryEnd(s, i + 1)

\* strstr(f + i - 1, p): the first position from i at which p occurs in f,
\* 0 (NULL) if none; the empty pattern occurs at i itself.
RECURSIVE strstr(_, _, _)
strstr(f, i, p) ==
  IF i > Len(f) - Len(p) + 1 THEN 0
  ELSE IF SubSeq(f, i, i + Len(p) - 1) = p THEN i
  ELSE strstr(f, i + 1, p)

\* pattern_match: strip a leading '^', then a trailing '$', then look for
\* the rest anywhere, or at the end (should_match_at_end), and when
\* anchored at the start accept only an occurrence at the first character.
AnchoredStart(p) == Len(p) > 0 /\ p[1] = "^"
AnchoredEnd(p) == Len(p) > 0 /\ p[Len(p)] = "$"
StripStart(p) == IF AnchoredStart(p) THEN Tail(p) ELSE p
StripEnd(p) == IF AnchoredEnd(p) THEN SubSeq(p, 1, Len(p) - 1) ELSE p

MatchFound(ms, m) == m # 0 /\ (ms => m = 1)

Match(ms, me, p, f) ==
  /\ Len(p) <= Len(f)
  /\ MatchFound(ms, IF me THEN strstr(f, Len(f) - Len(p) + 1, p)
                          ELSE strstr(f, 1, p))

\* Variant: the test of matchsubstr against filename for '^' is lost.
pattern_match_NoStartCheck(p, f) ==
  Match(FALSE, AnchoredEnd(StripStart(p)), StripEnd(StripStart(p)), f)

pattern_match(p, f) ==
  Match(AnchoredStart(p), AnchoredEnd(StripStart(p)), StripEnd(StripStart(p)), f)

(***************************************************************************)
(* FOREACH_ENTRY with a body that returns as soon as pattern_match holds:  *)
(* TRUE iff an entry the loop reaches matches f.  From start, colons are   *)
(* skipped and the entry runs to the next colon or the terminator; an      *)
(* empty entry advances start by one, an entry longer than the buffer      *)
(* ends the loop, and any other is copied into buffer and matched.         *)
(***************************************************************************)
RECURSIVE ForEachMatch(_, _, _)

EntryBody(s, b, e, f) ==
  CASE e - b = 0                -> ForEachMatch(s, b + 1, f)
    [] e - b > MAX_PATH_LEN + 1 -> FALSE
    [] OTHER -> pattern_match(SubSeq(s, b, e - 1), f) \/ ForEachMatch(s, e, f)

ForEachMatch(s, start, f) ==
  IF At(s, start) = NUL THEN FALSE
  ELSE EntryBody(s, SkipColons(s, start), EntryEnd(s, SkipColons(s, start)), f)

check_numa_excludes(exc, f) == exc = <<>> \/ ~ForEachMatch(exc, 1, f)

numa_should_replicate(opt_numa, available, inc, exc, f) ==
  /\ opt_numa
  /\ available
  /\ IF inc = <<>> THEN check_numa_excludes(exc, f)
     ELSE ForEachMatch(inc, 1, f) /\ check_numa_excludes(exc, f)

(***************************************************************************)
(* The options' own description (config_mgr.cc:213-217): numa-includes is *)
(* a colon-separated list of substrings, and with no include list every   *)
(* file is replicated; numa-excludes is a colon-separated list of          *)
(* prefixes that takes precedence over the includes.  A pattern is read as *)
(* an optional '^', a literal and an optional '$'.                         *)
(***************************************************************************)
\* s[i..j] is a whole entry: no colon in it, a colon or an end around it.
Entry(s, i, j) ==
  /\ i <= j
  /\ \A k \in i .. j : s[k] # ":"
  /\ i = 1 \/ s[i - 1] = ":"
  /\ j = Len(s) \/ s[j + 1] = ":"

RefEntries(s) ==
  {SubSeq(s, ij[1], ij[2]) :
     ij \in {ij \in (1 .. Len(s)) \X (1 .. Len(s)) : Entry(s, ij[1], ij[2])}}

RefStart(p) == IF p # <<>> /\ Head(p) = "^" THEN 1 ELSE 0
RefEnd(p) == IF Len(p) > RefStart(p) /\ p[Len(p)] = "$" THEN 1 ELSE 0
RefLiteral(p) == SubSeq(p, 1 + RefStart(p), Len(p) - RefEnd(p))

\* The literal of p occurs in f as f[a+1..b], anchored as p asks; a prefix
\* occurs at the start whatever p asks.
RefOccurs(p, f, prefix) ==
  \E a, b \in 0 .. Len(f) :
    /\ SubSeq(f, a + 1, b) = RefLiteral(p)
    /\ (prefix \/ RefStart(p) = 1) => a = 0
    /\ RefEnd(p) = 1 => b = Len(f)

RefShouldReplicate(opt_numa, available, inc, exc, f) ==
  /\ opt_numa /\ available
  /\ inc = <<>> \/ \E p \in RefEntries(inc) : RefOccurs(p, f, FALSE)
  /\ ~\E p \in RefEntries(exc) : RefOccurs(p, f, TRUE)

(***************************************************************************)
(* Once initialize_numa_lib has found libnuma available,                   *)
(* numa_should_replicate, with FOREACH_ENTRY's walk of both lists and      *)
(* pattern_match, decides every file as the options describe: replicated   *)
(* iff NUMA is on, the include list is empty or has an entry occurring in  *)
(* the file name, and no exclude entry is a prefix of it.                  *)
(***************************************************************************)
NumaReplicateAsDocumented ==
  initialized = 1 =>
    \A on \in BOOLEAN, inc \in IncludeLists, exc \in ExcludeLists,
       f \in FileNames :
         numa_should_replicate(on, TRUE, inc, exc, f)
           = RefShouldReplicate(on, TRUE, inc, exc, f)
=============================================================================
