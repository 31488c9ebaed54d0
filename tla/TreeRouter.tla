----------------------------- MODULE TreeRouter -----------------------------
(***************************************************************************)
(* The inter-daemon message router of the msocket back end:                *)
(*   - ldcs_audit_server_md_distribute (origin of a broadcast),            *)
(*   - the dispatch of _ldcs_audit_server_md_msocket_connection_CB         *)
(*     (do_route / do_process, routing before processing),                 *)
(*   - ldcs_audit_server_md_msocket_route_msg (not in src/; modelled from  *)
(*     spec.md 4.3): forward a P2P message one hop towards dest, forward   *)
(*     a broadcast to every tree neighbour except the one it came from.    *)
(* Every directed tree edge is one socket connection: an in-order stream.  *)
(***************************************************************************)
EXTENDS Naturals, Sequences, SequencesExt

CONSTANTS
  N,          \* number of daemons, ranks 0 .. N-1
  Parent,     \* Parent[r]: the tree parent of rank r > 0 (rank 0 is the root)
  Msgs        \* the messages the cache layer may originate: records
              \* [id, mtype, source, dest, from]; md_distribute sets
              \* the dest of a broadcast

Ranks == 0 .. N-1

\* Ranks are numbered so that a parent precedes its children: a tree at 0.
ASSUME \A r \in Ranks \ {0} : Parent[r] \in 0 .. r - 1

Children(n) == {c \in Ranks \ {0} : Parent[c] = n}
Neighbours(n) == Children(n) \cup (IF n = 0 THEN {} ELSE {Parent[n]})

\* d lies in the subtree of c: c is met on the parent chain from d.
RECURSIVE InSubtree(_, _)
InSubtree(d, c) == d = c \/ (d # 0 /\ InSubtree(Parent[d], c))

\* Subtree[c]: the ranks whose path to the root passes through c.
Subtree == [c \in Ranks |-> {d \in Ranks : InSubtree(d, c)}]

\* The directed TOPO connections: one in-order stream per tree edge.
Links == {<<a, b>> \in Ranks \X Ranks : b \in Neighbours(a)}

VARIABLES
  chan,       \* chan[<<a,b>>]: messages written by a, not yet read by b
  sendLog,    \* ids of the originated messages, in origination order
  procLog     \* procLog[n]: ids processed by the switch of rank n, in order

vars == <<chan, sendLog, procLog>>

Ids == {m.id : m \in Msgs}

\* Variant: the subtree test leaves out the child itself.
NextHopOffByOne(n, d) ==
  IF \E c \in Children(n) : d \in Subtree[c] \ {c}
  THEN CHOOSE c \in Children(n) : d \in Subtree[c] \ {c}
  ELSE Parent[n]

\* The single next hop from n towards rank d (spec.md 4.3): the child whose
\* subtree holds d, otherwise the parent.
NextHop(n, d) ==
  IF \E c \in Children(n) : d \in Subtree[c]
  THEN CHOOSE c \in Children(n) : d \in Subtree[c]
  ELSE Parent[n]

\* route_msg at rank n: the neighbours m is written to.
RouteTargets(n, m) ==
  IF m.mtype = "P2P" THEN {NextHop(n, m.dest)} ELSE Neighbours(n) \ {m.from}

\* Variant: the outgoing message is put ahead of data already queued.
RouteFront(ch, n, m) ==
  [l \in Links |-> IF l[1] = n /\ l[2] \in RouteTargets(n, m)
                   THEN <<[m EXCEPT !.from = n]>> \o ch[l] ELSE ch[l]]

\* route_msg: on top of the channels ch, write m with from = n to the
\* connections towards its targets.
Route(ch, n, m) ==
  [l \in Links |-> IF l[1] = n /\ l[2] \in RouteTargets(n, m)
                   THEN Append(ch[l], [m EXCEPT !.from = n]) ELSE ch[l]]

\* The dispatch at the top of the connection callback (HOSTINFO, which is
\* processed and never routed, belongs to the bootstrap and is not a
\* message of this module).
\* Variants: broadcasts are not forwarded; every message passing through
\* is processed (the spec.md 2 reading "cached at every hop").
DoRouteP2POnly(m, b)    == m.mtype = "P2P" /\ m.dest # b
DoProcessEveryHop(m, b) == TRUE

DoRoute(m, b)   == m.mtype = "BCAST" \/ m.dest # b
DoProcess(m, b) == m.mtype = "BCAST" \/ m.dest = b

Init ==
  /\ chan = [l \in Links |-> <<>>]
  /\ sendLog = <<>>
  /\ procLog = [n \in Ranks |-> <<>>]

\* Variant: md_distribute without the dest stamp.
DistributeNoDest(n, m) ==
  /\ m.mtype = "BCAST" /\ m.source = n
  /\ m.id \notin ToSet(sendLog)
  /\ chan' = Route(chan, n, [m EXCEPT !.from = n])
  /\ sendLog' = Append(sendLog, m.id)
  /\ UNCHANGED procLog

\* ldcs_audit_server_md_distribute: the origin stamps mtype BCAST, dest -1,
\* source = from = its own rank and hands the message to route_msg.  It
\* does not process the message itself.
Distribute(n, m) ==
  /\ m.mtype = "BCAST" /\ m.source = n
  /\ m.id \notin ToSet(sendLog)
  /\ chan' = Route(chan, n, [m EXCEPT !.dest = -1, !.from = n])
  /\ sendLog' = Append(sendLog, m.id)
  /\ UNCHANGED procLog

\* A P2P message issued by the cache layer of rank n towards m.dest
\* (request towards the responsible rank, reply towards the requester).
SendP2P(n, m) ==
  /\ m.mtype = "P2P" /\ m.source = n /\ m.dest # n
  /\ m.id \notin ToSet(sendLog)
  /\ chan' = Route(chan, n, [m EXCEPT !.from = n])
  /\ sendLog' = Append(sendLog, m.id)
  /\ UNCHANGED procLog

\* _ldcs_audit_server_md_msocket_connection_CB on rank b for the message at
\* the head of the connection from a: decide do_route / do_process, route
\* first, then either free the message or process it.
ConnectionCB(a, b) ==
  /\ chan[<<a, b>>] # <<>>
  /\ LET m      == Head(chan[<<a, b>>])
         popped == [chan EXCEPT ![<<a, b>>] = Tail(@)]
     IN  /\ chan' = IF DoRoute(m, b) THEN Route(popped, b, m) ELSE popped
         /\ procLog' = IF DoProcess(m, b)
                       THEN [procLog EXCEPT ![b] = Append(@, m.id)]
                       ELSE procLog
  /\ UNCHANGED sendLog

Next ==
  \/ \E m \in Msgs, n \in Ranks : Distribute(n, m) \/ SendP2P(n, m)
  \/ \E l \in Links : ConnectionCB(l[1], l[2])

\* The listen loop (ldcs_listen) serves every readable connection, so a
\* connection with data is eventually read.
Fairness == \A l \in Links : WF_vars(ConnectionCB(l[1], l[2]))

Spec == Init /\ [][Next]_vars /\ Fairness
-----------------------------------------------------------------------------
MsgOf(id) == CHOOSE m \in Msgs : m.id = id

TypeOK ==
  /\ chan \in [Links -> Seq([id : Ids, mtype : {"P2P"}, source : Ranks,
                             dest : Ranks, from : Ranks]
                          \cup [id : Ids, mtype : {"BCAST"}, source : Ranks,
                                dest : {-1}, from : Ranks])]
  /\ sendLog \in Seq(Ids)
  /\ procLog \in [Ranks -> Seq(Ids)]

\* The ranks whose message switch must process m (spec.md 8).
Recipients(m) == IF m.mtype = "BCAST" THEN Ranks \ {m.source} ELSE {m.dest}

\* Broadcast exactly-once, routing correctness (spec.md 8): the switch of
\* a rank processes a message only if the rank is one of its recipients,
\* and never twice, whatever the interleaving of connection callbacks on
\* the different daemons.  Breaks when route_msg sends a broadcast back
\* over the edge it came from, or when a P2P message is processed by a
\* rank it only passes through.
ProcessedOnceByRecipients ==
  \A n \in Ranks :
    /\ IsInjective(procLog[n])
    /\ \A i \in DOMAIN procLog[n] : n \in Recipients(MsgOf(procLog[n][i]))

\* The ranks on the tree path between s and d: those whose subtree holds
\* exactly one of them, and their lowest common ancestor.
OnPath(s, d) ==
  {y \in Ranks : (s \in Subtree[y]) # (d \in Subtree[y])}
    \cup {y \in Ranks : /\ {s, d} \subseteq Subtree[y]
                        /\ \A c \in Children(y) : ~({s, d} \subseteq Subtree[c])}

\* The ranks reached over the connection a -> b without going back to a.
Beyond(a, b) == IF Parent[b] = a /\ b # 0 THEN Subtree[b] ELSE Ranks \ Subtree[a]

\* Every copy in flight lies where the tree routing of route_msg and the
\* dispatch of the connection callback can put it: a P2P copy travels a
\* tree-path edge from its source towards its destination (so it reaches
\* dest in exactly the path length in hops), and a broadcast copy travels
\* away from its source towards a rank that has not processed it yet.
InFlightOnTreePath ==
  \A l \in Links : \A i \in DOMAIN chan[l] :
    LET m == chan[l][i] IN
    IF m.mtype = "P2P"
    THEN /\ {l[1], l[2]} \subseteq OnPath(m.source, m.dest)
         /\ m.dest \in Beyond(l[1], l[2])
    ELSE /\ m.source \notin Beyond(l[1], l[2])
         /\ m.id \notin ToSet(procLog[l[2]])

\* Messages of one source are processed by every rank in the order the
\* source issued them (spec.md 4.3 promises it for P2P between one pair of
\* ranks; it rests on one in-order stream per connection and on the
\* callback reading the head of the stream).
SourceOrderKept ==
  \A n \in Ranks : \A i, j \in DOMAIN procLog[n] :
    LET mi == MsgOf(procLog[n][i])
        mj == MsgOf(procLog[n][j])
    IN  (i < j /\ mi.source = mj.source) =>
          \E p, q \in DOMAIN sendLog : p < q /\ sendLog[p] = mi.id
                                             /\ sendLog[q] = mj.id

\* The router implements the delivery service: with every readable
\* connection eventually served, each originated message is processed by
\* each of its recipients, and by nothing else.
Abs == INSTANCE Delivery WITH
         sentA <- ToSet(sendLog),
         deliveredA <- [n \in Ranks |-> ToSet(procLog[n])]

DeliveryRefined == Abs!SpecA
=============================================================================
