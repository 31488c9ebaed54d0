------------------------------ MODULE Bootstrap ------------------------------
(***************************************************************************)
(* The topology bootstrap of the msocket back end                          *)
(* (ldcs_audit_server_md_msocket.c): ldcs_audit_server_md_init, the        *)
(* server callback that accepts connections, and the HOSTINFO, HOSTLIST,   *)
(* BOOTSTRAP and BOOTSTRAP_END cases of the connection callback, which run *)
(* inside md_init's bootstrap listen loop.                                 *)
(*                                                                         *)
(* Not under src/, modelled from spec.md 4.2: the front end's messages to  *)
(* the root, and init_topo_bootstrap / run_topo_bootstrap, which connect a *)
(* daemon to its tree children and send each its HOSTINFO, HOSTLIST and    *)
(* BOOTSTRAP.  A connection is one in-order stream each way; the front end *)
(* has rank -1.                                                             *)
(***************************************************************************)
EXTENDS Integers, Sequences, FiniteSets

CONSTANTS
  N,          \* number of daemons, ranks 0 .. N-1
  Parent      \* Parent[r]: the tree parent of rank r > 0

\* The tree shape the root computes (spec.md 4.2): that of TreeRouter.
Tree == INSTANCE TreeRouter WITH Msgs <- {}, chan <- <<>>, sendLog <- <<>>, procLog <- <<>>

Ranks == Tree!Ranks
FE    == -1
Peers == Ranks \cup {FE}

\* The streams a bootstrap can write: front end <-> root, and tree edges.
Streams == {<<FE, 0>>, <<0, FE>>} \cup Tree!Links

VARIABLES
  fabric,     \* ldcs_msocket_external_fabric_CB_registered
  phase,      \* phase[d]: "unstarted", "listening" (md_init's loop), "done", "error"
  rank,       \* rank[d]: ldcs_msocket_data.hostinfo.rank (-2: not yet identified)
  size,       \* size[d]: ldcs_process_data->md_size (0 before it is known)
  hostlist,   \* hostlist[d]: entries of ldcs_msocket_data.hostlist (-1: NULL)
  conn,       \* conn[d][p]: connection_table entry of d for the connection with p
  pending,    \* pending[d]: peers connected to d's server socket, not accepted
  chan,       \* chan[<<a,b>>]: messages written by a, not yet read by b
  fe          \* the front end: "idle", "sent", "ok" (BOOTSTRAP_END_OK read)

vars == <<fabric, phase, rank, size, hostlist, conn, pending, chan, fe>>

NoConn == [state |-> "none", remote |-> -2, ctype |-> "unset"]

\* A message: header fields type, mtype, dest, from; info is the HOSTINFO
\* payload {rank, size, cinfo_to, cinfo_from} (NoInfo for the others).
NoInfo == [rank |-> -2, size |-> 0, cinfo_to |-> -2, cinfo_from |-> -2]
Info(r, s, to, fr) == [rank |-> r, size |-> s, cinfo_to |-> to, cinfo_from |-> fr]
Msg(t, mt, dest, from, info) == [type |-> t, mtype |-> mt, dest |-> dest, from |-> from, info |-> info]

\* What a daemon of rank r sends to each child c on connecting to it.
ToChild(r, c) ==
  << Msg("HOSTINFO", "P2P", c, r, Info(c, N, c, r)),
     Msg("HOSTLIST", "P2P", c, r, NoInfo),
     Msg("BOOTSTRAP", "P2P", c, r, NoInfo) >>

\* What the front end sends the root: its HOSTINFO (the front end is no
\* tree edge: cinfo_from -1), the host list, BOOTSTRAP, then the
\* broadcast BOOTSTRAP_END.
FromFE ==
  << Msg("HOSTINFO", "P2P", 0, FE, Info(0, N, 0, FE)),
     Msg("HOSTLIST", "P2P", 0, FE, NoInfo),
     Msg("BOOTSTRAP", "P2P", 0, FE, NoInfo),
     Msg("BOOTSTRAP_END", "BCAST", -1, FE, NoInfo) >>

Init ==
  /\ fabric \in BOOLEAN
  /\ phase = [d \in Ranks |-> "unstarted"]
  /\ rank = [d \in Ranks |-> -2]
  /\ size = [d \in Ranks |-> 0]
  /\ hostlist = [d \in Ranks |-> -1]
  /\ conn = [d \in Ranks |-> [p \in Peers |-> NoConn]]
  /\ pending = [d \in Ranks |-> {}]
  /\ chan = [s \in Streams |-> << >>]
  /\ fe = "idle"

\* ldcs_audit_server_md_init on host d: open the server socket, mark the
\* rank unidentified, and take rank, size and host list from the external
\* fabric when one is registered (it knows the ranks the front end will
\* assign); then enter the listen loop.
MdInit(d) ==
  /\ phase[d] = "unstarted"
  /\ phase' = [phase EXCEPT ![d] = "listening"]
  /\ rank' = [rank EXCEPT ![d] = IF fabric THEN d ELSE -2]
  /\ size' = [size EXCEPT ![d] = IF fabric THEN N ELSE 0]
  /\ hostlist' = [hostlist EXCEPT ![d] = IF fabric THEN N ELSE -1]
  /\ UNCHANGED <<fabric, conn, pending, chan, fe>>

\* _ldcs_audit_server_md_msocket_server_CB: accept every connection that
\* is available (the more_avail loop); each gets an ACTIVE entry whose
\* remote rank is not yet identified.
ServerCB(d) ==
  /\ phase[d] = "listening"
  /\ pending[d] # {}
  /\ conn' = [conn EXCEPT ![d] = [p \in Peers |->
                IF p \in pending[d] THEN [state |-> "ACTIVE", remote |-> -2, ctype |-> "unset"]
                                    ELSE @[p]]]
  /\ pending' = [pending EXCEPT ![d] = {}]
  /\ UNCHANGED <<fabric, phase, rank, size, hostlist, chan, fe>>

\* route_msg (spec.md 4.3) during the bootstrap: over the TOPO entries of
\* the connection table, a broadcast to every one but the one whose remote
\* rank is from, a P2P message to the one on the tree path to dest.
RouteTargets(d, m) ==
  IF m.mtype = "BCAST"
  THEN {q \in Peers : conn[d][q].ctype = "TOPO" /\ conn[d][q].remote # m.from}
  ELSE {q \in Peers : /\ rank[d] \in Ranks /\ m.dest \in Ranks
                      /\ conn[d][q].ctype = "TOPO"
                      /\ conn[d][q].remote = Tree!NextHop(rank[d], m.dest)}

Route(ch, d, m) ==
  [s \in Streams |-> IF s[1] = d /\ s[2] \in RouteTargets(d, m)
                     THEN Append(ch[s], [m EXCEPT !.from = rank[d]]) ELSE ch[s]]

\* Variant: a broadcast is not forwarded.
DoRouteNoBcast(m, d) == m.type # "HOSTINFO" /\ m.mtype = "P2P" /\ m.dest # rank[d]

\* The dispatch of the connection callback: HOSTINFO is processed and never
\* routed (the rank may not be known yet); a P2P message is routed unless
\* it is for this rank, a broadcast is routed and processed.
DoRoute(m, d)   == m.type # "HOSTINFO" /\ (m.mtype = "BCAST" \/ m.dest # rank[d])
DoProcess(m, d) == m.type = "HOSTINFO" \/ m.mtype = "BCAST" \/ m.dest = rank[d]

\* Variant: the cinfo_from test is left out.
ClassifyNoFromCheck(c, m) ==
  [c EXCEPT !.remote = m.from,
            !.ctype = IF m.from # -2
                      THEN IF m.info.cinfo_to = m.info.rank THEN "TOPO" ELSE "CONTROL"
                      ELSE c.ctype]

\* The connection entry after a HOSTINFO: remote_rank is set to the
\* header's from before it is tested against -2, so the test always
\* passes; the edge is TOPO if the HOSTINFO names this daemon as cinfo_to
\* with a valid cinfo_from.
Classify(c, m) ==
  [c EXCEPT !.remote = m.from,
            !.ctype = IF m.from # -2
                      THEN IF m.info.cinfo_to = m.info.rank /\ m.info.cinfo_from >= 0
                           THEN "TOPO" ELSE "CONTROL"
                      ELSE c.ctype]

\* Variant: md_size is not taken from the HOSTINFO.
HostInfoNoSize(d, p, m, ch) ==
  /\ chan' = ch
  /\ IF rank[d] >= 0 /\ rank[d] # m.info.rank
     THEN /\ phase' = [phase EXCEPT ![d] = "error"]
          /\ UNCHANGED <<rank, size, conn>>
     ELSE /\ rank' = [rank EXCEPT ![d] = m.info.rank]
          /\ conn' = [conn EXCEPT ![d][p] = Classify(@, m)]
          /\ UNCHANGED <<phase, size>>
  /\ UNCHANGED <<fabric, hostlist, pending, fe>>

\* case LDCS_MSG_MD_HOSTINFO: a rank different from the external fabric's
\* is fatal (_error ends the daemon); otherwise take rank and size.
HostInfo(d, p, m, ch) ==
  /\ chan' = ch
  /\ IF rank[d] >= 0 /\ rank[d] # m.info.rank
     THEN /\ phase' = [phase EXCEPT ![d] = "error"]
          /\ UNCHANGED <<rank, size, conn>>
     ELSE /\ rank' = [rank EXCEPT ![d] = m.info.rank]
          /\ size' = [size EXCEPT ![d] = m.info.size]
          /\ conn' = [conn EXCEPT ![d][p] = Classify(@, m)]
          /\ UNCHANGED phase
  /\ UNCHANGED <<fabric, hostlist, pending, fe>>

\* Variant: one entry more than md_size.
HostListOffByOne(d, ch) ==
  /\ chan' = ch
  /\ hostlist' = [hostlist EXCEPT ![d] = size[d] + 1]
  /\ UNCHANGED <<fabric, phase, rank, size, conn, pending, fe>>

\* case LDCS_MSG_MD_HOSTLIST: a host list of md_size entries.
HostList(d, ch) ==
  /\ chan' = ch
  /\ hostlist' = [hostlist EXCEPT ![d] = size[d]]
  /\ UNCHANGED <<fabric, phase, rank, size, conn, pending, fe>>

\* case LDCS_MSG_MD_BOOTSTRAP: init_topo_bootstrap on the root,
\* run_topo_bootstrap elsewhere (spec.md 4.2): connect to each tree child
\* of this rank (its server socket must be open) as a TOPO edge and send
\* it its HOSTINFO, HOSTLIST and BOOTSTRAP.
BootstrapMsg(d, ch) ==
  LET kids == Tree!Children(rank[d]) IN
  /\ rank[d] \in Ranks
  /\ \A c \in kids : phase[c] # "unstarted"
  /\ conn' = [conn EXCEPT ![d] = [p \in Peers |->
                IF p \in kids THEN [state |-> "ACTIVE", remote |-> p, ctype |-> "TOPO"]
                              ELSE @[p]]]
  /\ pending' = [c \in Ranks |-> IF c \in kids THEN pending[c] \cup {d} ELSE pending[c]]
  /\ chan' = [s \in Streams |-> IF s[1] = d /\ s[2] \in kids
                                THEN ch[s] \o ToChild(rank[d], s[2]) ELSE ch[s]]
  /\ UNCHANGED <<fabric, phase, rank, size, hostlist, fe>>

\* case LDCS_MSG_MD_BOOTSTRAP_END: end the bootstrap listen loop; the root
\* at once answers BOOTSTRAP_END_OK on the connection the END came from.
BootstrapEnd(d, p, ch) ==
  /\ phase' = [phase EXCEPT ![d] = "done"]
  /\ chan' = IF rank[d] = 0
             THEN [ch EXCEPT ![<<d, p>>] = Append(@, Msg("BOOTSTRAP_END_OK", "P2P", FE, 0, NoInfo))]
             ELSE ch
  /\ UNCHANGED <<fabric, rank, size, hostlist, conn, pending, fe>>

\* The switch of the connection callback on the routed channels ch.
Process(d, p, m, ch) ==
  IF ~DoProcess(m, d)
  THEN /\ chan' = ch
       /\ UNCHANGED <<fabric, phase, rank, size, hostlist, conn, pending, fe>>
  ELSE CASE m.type = "HOSTINFO"  -> HostInfo(d, p, m, ch)
         [] m.type = "HOSTLIST"  -> HostList(d, ch)
         [] m.type = "BOOTSTRAP" -> BootstrapMsg(d, ch)
         [] OTHER                -> BootstrapEnd(d, p, ch)

Dispatch(d, p, m, popped) ==
  Process(d, p, m, IF DoRoute(m, d) THEN Route(popped, d, m) ELSE popped)

\* _ldcs_audit_server_md_msocket_connection_CB on d for the head of the
\* stream from p, while md_init's listen loop runs.
ConnectionCB(d, p) ==
  /\ phase[d] = "listening"
  /\ conn[d][p].state = "ACTIVE"
  /\ <<p, d>> \in Streams
  /\ chan[<<p, d>>] # << >>
  /\ Dispatch(d, p, Head(chan[<<p, d>>]), [chan EXCEPT ![<<p, d>>] = Tail(@)])

\* The front end connects to the root's server socket and sends its
\* bootstrap messages (spec.md 4.2).
FeStart ==
  /\ fe = "idle"
  /\ phase[0] # "unstarted"
  /\ pending' = [pending EXCEPT ![0] = @ \cup {FE}]
  /\ chan' = [chan EXCEPT ![<<FE, 0>>] = FromFE]
  /\ fe' = "sent"
  /\ UNCHANGED <<fabric, phase, rank, size, hostlist, conn>>

\* The front end reads BOOTSTRAP_END_OK.
FeRecvOk ==
  /\ fe = "sent"
  /\ chan[<<0, FE>>] # << >>
  /\ Head(chan[<<0, FE>>]).type = "BOOTSTRAP_END_OK"
  /\ chan' = [chan EXCEPT ![<<0, FE>>] = Tail(@)]
  /\ fe' = "ok"
  /\ UNCHANGED <<fabric, phase, rank, size, hostlist, conn, pending>>

Next ==
  \/ \E d \in Ranks : MdInit(d) \/ ServerCB(d)
  \/ \E d \in Ranks, p \in Peers : ConnectionCB(d, p)
  \/ FeStart
  \/ FeRecvOk

\* The launcher starts every daemon; each daemon's listen loop serves its
\* server socket and every readable connection; the front end reads its
\* connection.
Fairness ==
  /\ \A d \in Ranks : WF_vars(MdInit(d)) /\ WF_vars(ServerCB(d))
  /\ \A d \in Ranks, p \in Peers : WF_vars(ConnectionCB(d, p))
  /\ WF_vars(FeStart) /\ WF_vars(FeRecvOk)

Spec == Init /\ [][Next]_vars /\ Fairness
-----------------------------------------------------------------------------
Phases == {"unstarted", "listening", "done", "error"}
ConnRecs == [state : {"none", "ACTIVE"}, remote : Peers \cup {-2},
             ctype : {"unset", "TOPO", "CONTROL"}]

TypeOK ==
  /\ fabric \in BOOLEAN
  /\ phase \in [Ranks -> Phases]
  /\ rank \in [Ranks -> Ranks \cup {-2}]
  /\ size \in [Ranks -> 0 .. N]
  /\ hostlist \in [Ranks -> -1 .. N]
  /\ conn \in [Ranks -> [Peers -> ConnRecs]]
  /\ pending \in [Ranks -> SUBSET Peers]
  /\ fe \in {"idle", "sent", "ok"}

\* The peers d's connection table holds as TOPO edges.
TopoPeers(d) == {p \in Peers : conn[d][p].ctype = "TOPO"}

\* The TOPO edges the bootstrap leaves are the spanning tree (spec.md 4.2):
\* an edge is TOPO only towards a tree neighbour, with that neighbour's
\* rank as its remote rank, and a daemon that has left the bootstrap loop
\* has a TOPO edge to each of its neighbours.  It rests on the HOSTINFO
\* classification of accepted connections (from, cinfo_to, cinfo_from)
\* and on the connector side; a wrong edge makes route_msg send
\* broadcasts to the front end or miss a subtree.
TopoIsSpanningTree ==
  \A d \in Ranks :
    /\ \A p \in TopoPeers(d) : p \in Tree!Neighbours(d) /\ conn[d][p].remote = p
    /\ phase[d] = "done" => TopoPeers(d) = Tree!Neighbours(d)

\* No daemon dies on a rank conflict, and every daemon leaves the
\* bootstrap with the rank of its host, the session size, and a host list
\* of that size: HOSTLIST allocates md_size entries, so it relies on the
\* HOSTINFO (or the external fabric) having set md_size first.
RanksAgree ==
  \A d \in Ranks :
    /\ phase[d] # "error"
    /\ phase[d] = "done" => rank[d] = d /\ size[d] = N /\ hostlist[d] = N

\* The bootstrap ends: the front end reads BOOTSTRAP_END_OK and every
\* daemon leaves md_init's listen loop.  The root answers BOOTSTRAP_END_OK
\* as soon as it handles BOOTSTRAP_END itself, so this needs the END
\* the root routed to reach every daemon afterwards.
BootstrapCompletes == <>(fe = "ok" /\ \A d \in Ranks : phase[d] = "done")
=============================================================================
