------------------------------ MODULE Delivery ------------------------------
(***************************************************************************)
(* What the message router of the Spindle daemon network promises          *)
(* (spec.md 4.3, 8): a point-to-point message is processed by its          *)
(* destination rank, a broadcast by every rank other than the one that     *)
(* issued it, and every sent message eventually reaches all of its         *)
(* recipients.  No path, hop or channel is visible at this level.          *)
(***************************************************************************)
EXTENDS FiniteSets

CONSTANTS Ranks, Msgs

VARIABLES sentA, deliveredA

varsA == <<sentA, deliveredA>>

\* The ranks whose message handler must process message m.
Recipients(m) == IF m.mtype = "BCAST" THEN Ranks \ {m.source} ELSE {m.dest}

InitA ==
  /\ sentA = {}
  /\ deliveredA = [n \in Ranks |-> {}]

SendA(m) ==
  /\ m.id \notin sentA
  /\ sentA' = sentA \cup {m.id}
  /\ UNCHANGED deliveredA

DeliverA(n, m) ==
  /\ m.id \in sentA
  /\ n \in Recipients(m)
  /\ m.id \notin deliveredA[n]
  /\ deliveredA' = [deliveredA EXCEPT ![n] = @ \cup {m.id}]
  /\ UNCHANGED sentA

NextA == \E m \in Msgs : SendA(m) \/ \E n \in Ranks : DeliverA(n, m)

SpecA == InitA /\ [][NextA]_varsA
           /\ \A m \in Msgs, n \in Ranks : WF_varsA(DeliverA(n, m))
=============================================================================
