---------------------------- MODULE MCTreeRouter ----------------------------
(***************************************************************************)
(* Four daemons in a tree of depth two:   0                                *)
(*                                       / \                               *)
(*                                      1   2                              *)
(*                                      |                                  *)
(*                                      3                                  *)
(* Two broadcasts (one from the root, one from the deepest leaf, so that   *)
(* they cross on the tree) and P2P traffic in both directions between the  *)
(* leaves 3 and 2, whose path goes through the root, plus a second P2P     *)
(* 3 -> 2 so that per-source ordering is exercised.  A broadcast is handed *)
(* over with dest 0; md_distribute stamps -1.                               *)
(***************************************************************************)
EXTENDS TreeRouter

MCN == 4

MCParent == (0 :> 0) @@ (1 :> 0) @@ (2 :> 0) @@ (3 :> 1)

MCMsgs ==
  { [id |-> "b0",  mtype |-> "BCAST", source |-> 0, dest |-> 0,  from |-> 0],
    [id |-> "b3",  mtype |-> "BCAST", source |-> 3, dest |-> 0,  from |-> 3],
    [id |-> "p32", mtype |-> "P2P",   source |-> 3, dest |-> 2,  from |-> 3],
    [id |-> "q32", mtype |-> "P2P",   source |-> 3, dest |-> 2,  from |-> 3],
    [id |-> "p23", mtype |-> "P2P",   source |-> 2, dest |-> 3,  from |-> 2] }
=============================================================================
