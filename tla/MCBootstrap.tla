---------------------------- MODULE MCBootstrap ----------------------------
(* Four daemons in a tree of depth two: the root with two children, one  *)
(* of which has a child, so run_topo_bootstrap runs below the root and   *)
(* BOOTSTRAP_END is forwarded over two hops.                             *)
EXTENDS Bootstrap, TLC

MCN == 4
MCParent == (1 :> 0) @@ (2 :> 0) @@ (3 :> 1)

\* Next with its disjuncts listed one by one.
MCNext ==
  \/ \E d \in Ranks : MdInit(d)
  \/ \E d \in Ranks : ServerCB(d)
  \/ \E d \in Ranks, p \in Peers : ConnectionCB(d, p)
  \/ FeStart
  \/ FeRecvOk

MCSpec == Init /\ [][MCNext]_vars /\ Fairness
=============================================================================
