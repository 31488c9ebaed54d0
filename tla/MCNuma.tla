------------------------------- MODULE MCNuma -------------------------------
(* The root daemon's first numa_should_replicate runs initialize_numa_lib; *)
(* from then on every decision uses its cached answer.  The lists are    *)
(* every include and exclude list of up to 2 characters over a, b, the   *)
(* anchors and the colon (lists ending in a colon left out, see Numa),   *)
(* asked about every file name of up to 3 characters over a and b; a     *)
(* buffer of 3 takes every entry.                                        *)
EXTENDS Numa, TLC

Strs(A, n) == UNION {[1 .. k -> A] : k \in 0 .. n}
NoTrailingColon(S) == {s \in S : s # <<>> => s[Len(s)] # ":"}
MCIncludeLists == NoTrailingColon(Strs({"a", "b", ":", "^", "$"}, 2))
MCExcludeLists == NoTrailingColon(Strs({"a", "b", ":", "^", "$"}, 2))
MCFileNames == Strs({"a", "b"}, 3)

MCSpec == NumaInit /\ [][InitializeNumaLib]_initialized
=============================================================================
