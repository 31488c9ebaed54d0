------------------------------ MODULE MCHostbin ------------------------------
(* Outputs of up to five characters over two letters, a blank and a       *)
(* newline, with names of at most two characters: empty output, leading,  *)
(* trailing and repeated white space, and one to three names all occur.   *)
(* A field width of 2 stands for 255: no name reaches it.                 *)
EXTENDS Hostbin

MCW == 2
Strs(A, n) == UNION {[1 .. k -> A] : k \in 0 .. n}
ShortWords(out) == \A i \in 1 .. Len(out) - MCW : \E k \in i .. i + MCW : out[k] \in Spaces
MCOutputs == {out \in Strs({"a", "b", " ", "\n"}, 5) : ShortWords(out)}
MCApps == {1, 2}
=============================================================================
