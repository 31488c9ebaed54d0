---------------------------- MODULE MCBindingHash ----------------------------
(* A table of 8 slots (a power of two, as 128 is) for 4 bindings named by  *)
(* one or two bytes out of three, so that hash collisions, probing past    *)
(* occupied slots and the wrap at the end of the table all occur; names    *)
(* of at most 2 bytes are hashed.                                          *)
EXTENDS BindingHash

MCNames == {<<a>> : a \in {97, 98, 99}} \cup {<<a, b>> : a, b \in {97, 98, 99}}
=============================================================================
