------------------------- MODULE MeshRouting_proofs -------------------------
(***************************************************************************)
(* The tables of core/node.py stay consistent for any set of nodes, any    *)
(* links between them and any timeouts.                                    *)
(***************************************************************************)
EXTENDS MeshRouting, TLAPS

\* The record of a peer that is not in the table is blank, and the tables of
\* a node that is down are empty.
Absent ==
  \A n \in Node : /\ \A p \in Node \ known[n] : peer[n][p] = NoPeer
                  /\ n \notin up => known[n] = {}

\* Datagrams are on their way to running nodes.
Addressed == \A m \in net : m.to \in up

IInv == TypeOK /\ Absent /\ Addressed /\ RouteHasPeer /\ StalePeersExpire

(***************************************************************************)
(* Lemmas about the operators                                              *)
(***************************************************************************)
LEMMA ProductNat == \A x, y \in Nat : x * y \in Nat
  OBVIOUS

LEMMA NoPeerIsPeer == NoPeer \in Peer /\ AgeCap \in Nat
<1>1. AgeCap \in Nat
  BY RoutingAssumption DEF AgeCap
<1> QED
  BY <1>1, RoutingAssumption DEF NoPeer, Peer, Trust

LEMMA FrameFields ==
  ASSUME NEW m \in Frame
  PROVE  /\ m.from \in Node /\ m.to \in Node
         /\ m.type = "beacon" => m.h \in Nat
         /\ m.type = "request" => m.ttl \in 1..MaxTTL
         /\ m.type = "reply" => m.h \in Nat
         /\ m.type = "vouch" => m.target \in Node
  BY DEF Frame

LEMMA PeerFields ==
  ASSUME NEW e \in Peer
  PROVE  /\ e.h \in Nat /\ e.age \in 0..AgeCap /\ e.trust \in 0..3
         /\ e.voucher \in Node \union {NoNode}
  BY DEF Peer, Trust

LEMMA MetricNat ==
  ASSUME NEW p \in Node, NEW e \in Peer, NEW direct
  PROVE  Metric(p, e, direct) \in Nat
<1> DEFINE hops == IF direct THEN 1 ELSE e.h + 1
           weight == IF p \in Gateway THEN GatewayWeight ELSE RelayWeight
<1>1. hops \in Nat /\ weight \in Nat /\ 10 - e.trust \in Nat
  BY PeerFields, RoutingAssumption
<1>2. Metric(p, e, direct) = hops * weight * (10 - e.trust)
  BY DEF Metric
<1> HIDE DEF hops, weight
<1>3. hops * weight \in Nat
  BY <1>1, ProductNat
<1> QED
  BY <1>1, <1>2, <1>3, ProductNat

\* Rebuilt routes lead through trusted peers of the table, within MAX_TTL.
LEMMA RebuildRoutes ==
  ASSUME NEW K \in SUBSET Node, NEW P \in [Node -> Peer]
  PROVE  /\ Rebuild(K, P) \subseteq Route
         /\ \A r \in Rebuild(K, P) : /\ r.via \in K /\ P[r.via].trust >= 1
                                     /\ r.hops \in 1..MaxTTL
<1> SUFFICES ASSUME NEW r \in Rebuild(K, P)
             PROVE  /\ r \in Route /\ r.via \in K /\ P[r.via].trust >= 1
                    /\ r.hops \in 1..MaxTTL
  OBVIOUS
<1>1. PICK p \in K : /\ r = RouteVia(p, P[p]) /\ P[p].trust >= 1
                     /\ p \in Gateway \/ P[p].h < MaxTTL
  BY DEF Rebuild, Eligible
<1>2. P[p] \in Peer /\ P[p].h \in Nat /\ Metric(p, P[p], p \in Gateway) \in Nat
  <2>1. P[p] \in Peer /\ p \in Node
    OBVIOUS
  <2>2. Metric(p, P[p], p \in Gateway) \in Nat
    BY <2>1, MetricNat, Zenon
  <2> QED
    BY <2>1, <2>2, PeerFields
<1>3. r.via = p /\ r.hops = (IF p \in Gateway THEN 1 ELSE P[p].h + 1)
      /\ r.metric \in Nat
  BY <1>1, <1>2 DEF RouteVia
<1>4. r.hops \in 1..MaxTTL
  BY <1>1, <1>2, <1>3, RoutingAssumption
<1>5. r \in Route
  BY <1>1, <1>2, <1>4 DEF RouteVia, Route
<1> QED
  BY <1>1, <1>3, <1>4, <1>5

LEMMA DistancesNat == ASSUME TypeOK, NEW n \in Node PROVE Distances(n) \subseteq Nat
  BY RoutingAssumption DEF Distances, BestRoutes, Least, Usable, TypeOK, Route

\* A beacon's record keeps the trust of the record it replaces.
LEMMA HeardRecord ==
  ASSUME NEW old \in Peer, NEW h \in Nat
  PROVE  /\ Heard(old, h) \in Peer /\ Heard(old, h).age = 0
         /\ Heard(old, h).trust = old.trust
<1>1. 0 \in 0..AgeCap
  BY NoPeerIsPeer
<1> QED
  BY <1>1 DEF Heard, Peer

\* What a node sends is a datagram to one of the nodes it reaches.
LEMMA BeaconsSent ==
  ASSUME NEW n \in Node, NEW S \in SUBSET Node, NEW h \in Nat
  PROVE  \A m \in Beacons(n, h, S) : m \in Frame /\ m.to \in S /\ m.type = "beacon"
  BY DEF Beacons, Frame

LEMMA RequestsSent ==
  ASSUME NEW n \in Node, NEW S \in SUBSET Node, NEW ttl \in 1..MaxTTL
  PROVE  \A m \in Requests(n, ttl, S) : m \in Frame /\ m.to \in S /\ m.type = "request"
  BY DEF Requests, Frame

LEMMA VouchesSent ==
  ASSUME NEW n \in Node, NEW S \in SUBSET Node, NEW p \in Node
  PROVE  \A m \in Vouches(n, p, S) : m \in Frame /\ m.to \in S /\ m.type = "vouch"
  BY DEF Vouches, Frame

LEMMA ReplySent ==
  ASSUME NEW n \in Node, NEW q \in Node, NEW h \in Nat
  PROVE  \A m \in Reply(n, q, h) : /\ m \in Frame /\ m.to = q /\ q \in up
                                   /\ UnicastReaches
  BY DEF Reply, Frame

LEMMA ConsumeNet ==
  ASSUME NEW m, NEW out, Consume(m, out)
  PROVE  net' \subseteq net \union out
  BY DEF Consume


(***************************************************************************)
(* The tables                                                              *)
(***************************************************************************)
LEMMA InvInit == Init => IInv
<1> SUFFICES ASSUME Init PROVE IInv
  OBVIOUS
<1>1. TypeOK
  <2>1. [p \in Node |-> NoPeer] \in [Node -> Peer]
    BY NoPeerIsPeer
  <2> QED
    BY <2>1, RoutingAssumption DEF Init, TypeOK
<1>2. Absent /\ Addressed /\ RouteHasPeer /\ StalePeersExpire
  BY DEF Init, Absent, Addressed, RouteHasPeer, StalePeersExpire
<1> QED
  BY <1>1, <1>2 DEF IInv

\* A step that only sends, or ends a loop.
LEMMA SendingKeeps ==
  ASSUME IInv, UNCHANGED <<up, known, peer, routes, timer>>,
         loops' \in [Node -> SUBSET Task], \A n \in Node : loops'[n] \subseteq loops[n],
         net' \subseteq Frame, \A m \in net' : m.to \in up
  PROVE  IInv'
<1> USE DEF IInv
<1>1. TypeOK' /\ Absent' /\ Addressed' /\ RouteHasPeer'
  BY DEF TypeOK, Absent, Addressed, RouteHasPeer
<1>2. StalePeersExpire'
  BY DEF StalePeersExpire, TypeOK
<1> QED
  BY <1>1, <1>2

LEMMA InRangeIsUp == ASSUME TypeOK, NEW n PROVE InRange(n) \subseteq up /\ up \subseteq Node
  BY DEF InRange, TypeOK

LEMMA StartKeeps == ASSUME IInv, NEW n \in Node, Start(n) PROVE IInv'
<1> USE DEF IInv
<1>1. /\ up' = up \union {n} /\ timer' = [timer EXCEPT ![n] = 0]
      /\ loops' = [loops EXCEPT ![n] = Task]
      /\ UNCHANGED <<known, peer, routes, net>> /\ n \notin up
  BY DEF Start
<1>2. TypeOK'
  BY <1>1, RoutingAssumption DEF TypeOK
<1>3. Absent' /\ Addressed' /\ RouteHasPeer'
  BY <1>1 DEF Absent, Addressed, RouteHasPeer
<1>4. StalePeersExpire'
  <2>1. known'[n] = {}
    BY <1>1 DEF Absent
  <2>2. \A q \in up : q # n /\ timer'[q] = timer[q] /\ loops'[q] = loops[q]
    BY <1>1 DEF TypeOK
  <2> QED
    BY <1>1, <2>1, <2>2 DEF StalePeersExpire
<1> QED
  BY <1>2, <1>3, <1>4

LEMMA StopKeeps == ASSUME IInv, NEW n \in Node, Stop(n) PROVE IInv'
<1> USE DEF IInv
<1> DEFINE blank == [p \in Node |-> NoPeer]
<1>1. /\ up' = up \ {n} /\ known' = [known EXCEPT ![n] = {}]
      /\ peer' = [peer EXCEPT ![n] = blank]
      /\ routes' = [routes EXCEPT ![n] = {}] /\ timer' = [timer EXCEPT ![n] = 0]
      /\ loops' = [loops EXCEPT ![n] = {}] /\ net' = {m \in net : m.to # n}
  BY DEF Stop
<1>2. blank \in [Node -> Peer] /\ \A p \in Node : blank[p] = NoPeer
  BY NoPeerIsPeer
<1> HIDE DEF blank
<1>3. TypeOK'
  <2>1. known' \in [Node -> SUBSET Node] /\ routes' \in [Node -> SUBSET Route]
        /\ loops' \in [Node -> SUBSET Task]
    BY <1>1 DEF TypeOK
  <2>2. peer' \in [Node -> [Node -> Peer]]
    BY <1>1, <1>2 DEF TypeOK
  <2>3. timer' \in [Node -> 0..MaintPeriod]
    BY <1>1, RoutingAssumption DEF TypeOK
  <2> QED
    BY <1>1, <2>1, <2>2, <2>3 DEF TypeOK
<1>4. Absent' /\ Addressed' /\ RouteHasPeer'
  BY <1>1, <1>2 DEF TypeOK, Absent, Addressed, RouteHasPeer
<1>5. StalePeersExpire'
  BY <1>1 DEF StalePeersExpire, TypeOK
<1> QED
  BY <1>3, <1>4, <1>5

LEMMA SendBeaconKeeps == ASSUME IInv, NEW n \in Node, SendBeacon(n) PROVE IInv'
<1>1. PICK S \in SUBSET InRange(n) : BeaconTo(n, S)
  BY DEF SendBeacon
<1>2. PICK h \in Distances(n) : net' = net \union Beacons(n, h, S)
  BY <1>1 DEF BeaconTo, Send
<1>3. S \subseteq up /\ S \in SUBSET Node /\ h \in Nat
  BY <1>2, InRangeIsUp, DistancesNat DEF IInv
<1>4. net' \subseteq Frame /\ \A m \in net' : m.to \in up
  BY <1>2, <1>3, BeaconsSent DEF IInv, TypeOK, Addressed
<1> QED
  BY <1>1, <1>4, SendingKeeps DEF BeaconTo, IInv, TypeOK

LEMMA BeaconLoopDiesKeeps == ASSUME IInv, NEW n \in Node, BeaconLoopDies(n) PROVE IInv'
<1>1. loops' = [loops EXCEPT ![n] = @ \ {"beacon"}]
      /\ UNCHANGED <<up, known, peer, routes, timer, net>>
  BY DEF BeaconLoopDies
<1>2. /\ loops' \in [Node -> SUBSET Task] /\ \A q \in Node : loops'[q] \subseteq loops[q]
      /\ net' \subseteq Frame /\ \A m \in net' : m.to \in up
  BY <1>1 DEF IInv, TypeOK, Addressed
<1> QED
  BY <1>1, <1>2, SendingKeeps

LEMMA VouchKeeps ==
  ASSUME IInv, NEW n \in Node, NEW p \in Node, Vouch(n, p) PROVE IInv'
<1>1. PICK S \in SUBSET InRange(n) : net' = net \union Vouches(n, p, S)
  BY DEF Vouch, Send
<1>2. S \subseteq up /\ S \in SUBSET Node
  BY InRangeIsUp DEF IInv
<1>3. net' \subseteq Frame /\ \A m \in net' : m.to \in up
  BY <1>1, <1>2, VouchesSent DEF IInv, TypeOK, Addressed
<1> QED
  BY <1>3, SendingKeeps DEF Vouch, IInv, TypeOK

LEMMA ReceiverIsUp ==
  ASSUME IInv, NEW m \in net PROVE m \in Frame /\ m.to \in up /\ m.to \in Node /\ m.from \in Node
  BY FrameFields DEF IInv, TypeOK, Addressed

LEMMA OnRouteRequestKeeps == ASSUME IInv, NEW m \in net, OnRouteRequest(m) PROVE IInv'
<1>1. m \in Frame /\ m.to \in Node /\ m.from \in Node /\ m.ttl \in 1..MaxTTL
  BY ReceiverIsUp, FrameFields DEF OnRouteRequest
<1>2. UNCHANGED <<up, known, peer, routes, timer, loops>>
  BY DEF OnRouteRequest
<1>3. ASSUME NEW out, Consume(m, out), \A x \in out : x \in Frame /\ x.to \in up
      PROVE  IInv'
  <2>1. net' \subseteq Frame /\ \A x \in net' : x.to \in up
    BY <1>3, ConsumeNet DEF IInv, TypeOK, Addressed
  <2> QED
    BY <1>2, <2>1, SendingKeeps DEF IInv, TypeOK
<1>4. CASE AnswerAsGateway(m)
  <2>1. \A x \in Reply(m.to, m.from, 0) : x \in Frame /\ x.to \in up
    BY <1>1, ReplySent
  <2> QED
    BY <1>3, <1>4, <2>1 DEF AnswerAsGateway
<1>5. CASE AnswerFromTable(m)
  <2>1. PICK r \in routes[m.to] : Consume(m, Reply(m.to, m.from, r.hops + 1))
    BY <1>5 DEF AnswerFromTable, Least
  <2>2. r.hops + 1 \in Nat
    BY <1>1, <2>1 DEF IInv, TypeOK, Route
  <2>3. \A x \in Reply(m.to, m.from, r.hops + 1) : x \in Frame /\ x.to \in up
    BY <1>1, <2>2, ReplySent
  <2> QED
    BY <1>3, <2>1, <2>3
<1>6. CASE Rebroadcast(m)
  <2>1. PICK S \in SUBSET InRange(m.to) : Consume(m, Requests(m.to, m.ttl - 1, S))
    BY <1>6 DEF Rebroadcast
  <2>2. m.ttl - 1 \in 1..MaxTTL /\ S \subseteq up /\ S \in SUBSET Node
    BY <1>1, <1>6, InRangeIsUp, RoutingAssumption DEF Rebroadcast, IInv
  <2>3. \A x \in Requests(m.to, m.ttl - 1, S) : x \in Frame /\ x.to \in up
    BY <1>1, <2>2, RequestsSent
  <2> QED
    BY <1>3, <2>1, <2>3
<1>7. CASE GiveUp(m)
  BY <1>3, <1>7 DEF GiveUp
<1> QED
  BY <1>4, <1>5, <1>6, <1>7 DEF OnRouteRequest

LEMMA ConsumedKeeps ==
  ASSUME IInv, NEW m, Consume(m, {}), UNCHANGED up
  PROVE  net' \subseteq Frame /\ Addressed'
  BY ConsumeNet DEF IInv, TypeOK, Addressed

LEMMA OnBeaconKeeps == ASSUME IInv, NEW m \in net, OnBeacon(m) PROVE IInv'
<1> DEFINE q == m.to
           p == m.from
           new == Heard(peer[q][p], m.h)
           K == known[q] \union {p}
           P == [peer[q] EXCEPT ![p] = new]
<1> USE DEF IInv
<1>1. /\ m.type = "beacon" /\ known' = [known EXCEPT ![q] = K]
      /\ peer' = [peer EXCEPT ![q] = P]
      /\ routes' = [routes EXCEPT ![q] = Rebuild(K, P)]
      /\ Consume(m, {}) /\ UNCHANGED <<up, timer, loops>>
  BY DEF OnBeacon
<1>2. q \in Node /\ p \in Node /\ q \in up /\ m.h \in Nat
  BY <1>1, ReceiverIsUp, FrameFields
<1>3. new \in Peer /\ new.age = 0
  <2>1. peer[q][p] \in Peer
    BY <1>2 DEF TypeOK
  <2> QED
    BY <1>2, <2>1, HeardRecord
<1> HIDE DEF new
<1>4. K \in SUBSET Node /\ P \in [Node -> Peer] /\ P[p] = new
      /\ \A r \in Node : r # p => P[r] = peer[q][r]
  BY <1>2, <1>3 DEF TypeOK
<1>5. p \in K /\ known[q] \subseteq K /\ K \subseteq known[q] \union {p}
  OBVIOUS
<1>6. Rebuild(K, P) \subseteq Route /\ \A r \in Rebuild(K, P) : r.via \in K
  BY <1>4, RebuildRoutes
<1> HIDE DEF K, P, q, p
<1>7. TypeOK' /\ Addressed'
  BY <1>1, <1>2, <1>4, <1>6, ConsumedKeeps DEF TypeOK
<1>8. Absent'
  BY <1>1, <1>2, <1>4, <1>5 DEF Absent, TypeOK
<1>9. RouteHasPeer'
  BY <1>1, <1>2, <1>6 DEF RouteHasPeer, TypeOK
<1>10. StalePeersExpire'
  <2>1. timer[q] \in 0..MaintPeriod /\ MaintPeriod \in Nat /\ PeerTimeout \in Nat
    BY <1>2, RoutingAssumption DEF TypeOK
  <2>2. 0 <= PeerTimeout + MaintPeriod - timer[q]
    BY <2>1
  <2> QED
    BY <1>1, <1>2, <1>3, <1>4, <1>5, <2>2 DEF StalePeersExpire, TypeOK
<1> QED
  BY <1>7, <1>8, <1>9, <1>10

LEMMA OnRouteReplyKeeps == ASSUME IInv, NEW m \in net, OnRouteReply(m) PROVE IInv'
<1> USE DEF IInv
<1> DEFINE route == [via |-> m.from, hops |-> m.h,
                     metric |-> Metric(m.from, peer[m.to][m.from], FALSE)]
           learnt == IF m.from \in known[m.to] THEN {route} ELSE {}
<1>1. /\ m.type = "reply" /\ routes' = [routes EXCEPT ![m.to] = @ \union learnt]
      /\ Consume(m, {}) /\ UNCHANGED <<up, known, peer, timer, loops>>
  BY DEF OnRouteReply
<1>2. m.to \in Node /\ m.from \in Node /\ m.h \in Nat
  BY <1>1, ReceiverIsUp, FrameFields
<1>3. route \in Route /\ route.via = m.from
  <2>1. peer[m.to][m.from] \in Peer
    BY <1>2 DEF TypeOK
  <2>2. Metric(m.from, peer[m.to][m.from], FALSE) \in Nat
    BY <1>2, <2>1, MetricNat
  <2> QED
    BY <1>2, <2>2 DEF Route
<1> HIDE DEF route
<1>4. learnt \subseteq Route /\ \A r \in learnt : r.via \in known[m.to]
  BY <1>3
<1> HIDE DEF learnt
<1>5. TypeOK' /\ Addressed'
  BY <1>1, <1>2, <1>4, ConsumedKeeps DEF TypeOK
<1>6. RouteHasPeer'
  BY <1>1, <1>2, <1>4 DEF RouteHasPeer, TypeOK
<1>7. Absent' /\ StalePeersExpire'
  BY <1>1 DEF Absent, StalePeersExpire
<1> QED
  BY <1>5, <1>6, <1>7

\* A step that only changes what is known of the trust of table entries.
LEMMA TrustingKeeps ==
  ASSUME IInv, UNCHANGED <<up, known, routes, timer, loops>>,
         net' \subseteq Frame, Addressed', peer' \in [Node -> [Node -> Peer]],
         \A n \in Node : \A p \in Node \ known[n] : peer'[n][p] = peer[n][p],
         \A n, p \in Node : peer'[n][p].age = peer[n][p].age
  PROVE  IInv'
<1> USE DEF IInv
<1>1. TypeOK' /\ Absent' /\ RouteHasPeer'
  BY DEF TypeOK, Absent, RouteHasPeer
<1>2. StalePeersExpire'
  BY DEF StalePeersExpire, TypeOK
<1> QED
  BY <1>1, <1>2

LEMMA OnTrustVouchKeeps == ASSUME IInv, NEW m \in net, OnTrustVouch(m) PROVE IInv'
<1> DEFINE P == peer[m.to]
           heeded == /\ m.from \in known[m.to] /\ P[m.from].trust >= 2
                     /\ m.target \in known[m.to] /\ P[m.target].trust < P[m.from].trust
           granted == Granted(P[m.from].trust)
<1> USE DEF IInv
<1>1. /\ m.type = "vouch"
      /\ peer' = IF heeded
                 THEN [peer EXCEPT ![m.to][m.target].trust = granted,
                                   ![m.to][m.target].voucher = m.from]
                 ELSE peer
      /\ Consume(m, {}) /\ UNCHANGED <<up, known, routes, timer, loops>>
  BY DEF OnTrustVouch
<1>2. m.to \in Node /\ m.from \in Node /\ m.target \in Node
  BY <1>1, ReceiverIsUp, FrameFields
<1>3. net' \subseteq Frame /\ Addressed'
  BY <1>1, ConsumedKeeps
<1>4. CASE ~heeded
  BY <1>1, <1>3, <1>4, TrustingKeeps DEF TypeOK
<1>5. CASE heeded
  <2> DEFINE new == [peer[m.to][m.target] EXCEPT !.trust = granted, !.voucher = m.from]
  <2>1. granted \in 0..3
    <3>1. P[m.from] \in Peer
      BY <1>2 DEF TypeOK
    <3> QED
      BY <1>5, <3>1, PeerFields DEF Granted
  <2>2. peer' = [peer EXCEPT ![m.to] = [@ EXCEPT ![m.target] = new]]
    BY <1>1, <1>2, <1>5 DEF TypeOK, Peer
  <2>3. new \in Peer /\ new.age = peer[m.to][m.target].age
    <3>1. peer[m.to][m.target] \in Peer
      BY <1>2 DEF TypeOK
    <3> HIDE DEF granted
    <3> QED
      BY <1>2, <2>1, <3>1 DEF Peer, Trust
  <2>4. m.target \in known[m.to]
    BY <1>5
  <2> HIDE DEF new, heeded, granted
  <2>5. peer' \in [Node -> [Node -> Peer]]
    BY <1>2, <2>2, <2>3 DEF TypeOK
  <2>6. \A n, p \in Node : \/ peer'[n][p] = peer[n][p]
                           \/ n = m.to /\ p = m.target /\ peer'[n][p] = new
    BY <1>2, <2>2 DEF TypeOK
  <2> QED
    BY <1>1, <1>3, <2>3, <2>4, <2>5, <2>6, TrustingKeeps
<1> QED
  BY <1>4, <1>5

LEMMA SeedKeeps == ASSUME IInv, NEW n \in Node, NEW p \in Node, Seed(n, p) PROVE IInv'
<1> DEFINE new == [peer[n][p] EXCEPT !.trust = 3]
<1> USE DEF IInv
<1>1. /\ p \in known[n] /\ peer' = [peer EXCEPT ![n][p].trust = 3]
      /\ UNCHANGED <<up, known, routes, timer, loops, net>>
  BY DEF Seed
<1>2. peer' = [peer EXCEPT ![n] = [@ EXCEPT ![p] = new]]
  BY <1>1 DEF TypeOK, Peer
<1>3. new \in Peer /\ new.age = peer[n][p].age
  <2>1. peer[n][p] \in Peer
    BY DEF TypeOK
  <2> QED
    BY <2>1 DEF Peer, Trust
<1> HIDE DEF new
<1>4. peer' \in [Node -> [Node -> Peer]]
  BY <1>2, <1>3 DEF TypeOK
<1>5. \A q, r \in Node : \/ peer'[q][r] = peer[q][r]
                         \/ q = n /\ r = p /\ peer'[q][r] = new
  BY <1>2 DEF TypeOK
<1>6. net' \subseteq Frame /\ Addressed'
  BY <1>1 DEF TypeOK, Addressed
<1> QED
  BY <1>1, <1>3, <1>4, <1>5, <1>6, TrustingKeeps

(***************************************************************************)
(* Maintenance and time                                                    *)
(***************************************************************************)
\* The tables after an expiry.
Left(n) == known[n] \ Stale(n)
Kept(n) == [p \in Node |-> IF p \in Left(n) THEN peer[n][p] ELSE NoPeer]

LEMMA ExpireTables ==
  ASSUME IInv, NEW n \in Node, Expire(n)
  PROVE  /\ known' = [known EXCEPT ![n] = Left(n)]
         /\ peer' = [peer EXCEPT ![n] = Kept(n)]
         /\ Left(n) \in SUBSET Node /\ Kept(n) \in [Node -> Peer]
         /\ \/ Left(n) = known[n] /\ Kept(n) = peer[n] /\ routes' = routes
            \/ routes' = [routes EXCEPT ![n] = Rebuild(Left(n), Kept(n))]
         /\ \A p \in Left(n) : Kept(n)[p] = peer[n][p] /\ peer[n][p].age <= PeerTimeout
<1> USE DEF IInv
<1>1. /\ known' = [known EXCEPT ![n] = Left(n)]
      /\ peer' = [peer EXCEPT ![n] = Kept(n)]
      /\ routes' = IF Stale(n) # {}
                   THEN [routes EXCEPT ![n] = Rebuild(Left(n), Kept(n))] ELSE routes
  BY DEF Expire, Left, Kept
<1>2. Left(n) \in SUBSET Node /\ Kept(n) \in [Node -> Peer]
  BY NoPeerIsPeer DEF Left, Kept, TypeOK
<1>3. Stale(n) = {} => Left(n) = known[n] /\ Kept(n) = peer[n]
  BY DEF Left, Kept, Absent, TypeOK
<1>4. \A p \in Left(n) : Kept(n)[p] = peer[n][p] /\ peer[n][p].age <= PeerTimeout
  <2>1. \A p \in Left(n) : p \in Node /\ peer[n][p] \in Peer
    BY <1>2 DEF TypeOK
  <2>2. \A p \in Left(n) : peer[n][p].age \in Int /\ PeerTimeout \in Int
    BY <2>1, PeerFields, NoPeerIsPeer, RoutingAssumption
  <2> QED
    BY <2>1, <2>2 DEF Left, Kept, Stale
<1> QED
  BY <1>1, <1>2, <1>3, <1>4

LEMMA ExpireKeeps ==
  ASSUME IInv, NEW n \in Node, n \in up, Expire(n), up' = up,
         timer' \in [Node -> 0..MaintPeriod], loops' \in [Node -> SUBSET Task],
         \A q \in Node \ {n} : timer'[q] = timer[q] /\ loops'[q] = loops[q],
         net' \subseteq Frame, Addressed'
  PROVE  IInv'
<1> USE DEF IInv
<1> DEFINE K == Left(n)
           P == Kept(n)
<1>1. /\ known' = [known EXCEPT ![n] = K] /\ peer' = [peer EXCEPT ![n] = P]
      /\ K \in SUBSET Node /\ P \in [Node -> Peer]
      /\ \/ K = known[n] /\ routes' = routes
         \/ routes' = [routes EXCEPT ![n] = Rebuild(K, P)]
      /\ \A p \in K : P[p] = peer[n][p] /\ peer[n][p].age <= PeerTimeout
  BY ExpireTables
<1>2. K \subseteq known[n] /\ \A p \in Node \ K : P[p] = NoPeer
  BY DEF Left, Kept
<1> HIDE DEF K, P
<1>3. Rebuild(K, P) \subseteq Route /\ \A r \in Rebuild(K, P) : r.via \in K
  BY <1>1, RebuildRoutes
<1>4. TypeOK'
  BY <1>1, <1>3 DEF TypeOK
<1>5. Absent'
  BY <1>1, <1>2 DEF Absent, TypeOK
<1>6. RouteHasPeer'
  BY <1>1, <1>3 DEF RouteHasPeer, TypeOK
<1>7. StalePeersExpire'
  <2>1. \A p \in K : peer'[n][p].age <= PeerTimeout + MaintPeriod - timer'[n]
    <3>1. \A p \in K : P[p].age \in Int /\ P[p].age <= PeerTimeout
      BY <1>1, PeerFields, NoPeerIsPeer
    <3>2. timer'[n] \in 0..MaintPeriod /\ MaintPeriod \in Nat /\ PeerTimeout \in Nat
      BY RoutingAssumption
    <3>3. peer'[n] = P
      BY <1>1 DEF TypeOK
    <3> QED
      BY <3>1, <3>2, <3>3
  <2>2. known'[n] = K
    BY <1>1 DEF TypeOK
  <2>3. ASSUME NEW q \in Node, q # n
        PROVE  /\ known'[q] = known[q] /\ peer'[q] = peer[q] /\ timer'[q] = timer[q]
               /\ loops'[q] = loops[q]
    BY <1>1, <2>3 DEF TypeOK
  <2> QED
    BY <2>1, <2>2, <2>3 DEF StalePeersExpire, TypeOK
<1> QED
  BY <1>4, <1>5, <1>6, <1>7

LEMMA MaintenanceKeeps == ASSUME IInv, NEW n \in Node, Maintenance(n) PROVE IInv'
<1>1. PICK S \in SUBSET InRange(n) : RoundTo(n, S)
  BY DEF Maintenance
<1>2. S \subseteq up /\ S \in SUBSET Node
  BY InRangeIsUp DEF IInv
<1>3. /\ n \in up /\ Expire(n) /\ UNCHANGED <<up, loops>>
      /\ timer' = [timer EXCEPT ![n] = MaintPeriod]
      /\ net' \subseteq net \union Requests(n, MaxTTL, S)
  BY <1>1 DEF RoundTo, Send
<1>4. net' \subseteq Frame /\ Addressed'
  <2>1. MaxTTL \in 1..MaxTTL
    BY RoutingAssumption
  <2>2. \A m \in Requests(n, MaxTTL, S) : m \in Frame /\ m.to \in S
    BY <1>2, <2>1, RequestsSent
  <2> QED
    BY <1>2, <1>3, <2>2 DEF IInv, TypeOK, Addressed
<1>5. timer' \in [Node -> 0..MaintPeriod] /\ loops' \in [Node -> SUBSET Task]
  BY <1>3, RoutingAssumption DEF IInv, TypeOK
<1>6. \A q \in Node \ {n} : timer'[q] = timer[q] /\ loops'[q] = loops[q]
  BY <1>3 DEF IInv, TypeOK
<1> QED
  BY <1>3, <1>4, <1>5, <1>6, ExpireKeeps

LEMMA MaintenanceDiesKeeps ==
  ASSUME IInv, NEW n \in Node, MaintenanceDies(n) PROVE IInv'
<1>1. /\ n \in up /\ Expire(n) /\ UNCHANGED <<up, timer, net>>
      /\ loops' = [loops EXCEPT ![n] = @ \ {"maintenance"}]
  BY DEF MaintenanceDies
<1>2. net' \subseteq Frame /\ Addressed'
  BY <1>1 DEF IInv, TypeOK, Addressed
<1>3. /\ timer' \in [Node -> 0..MaintPeriod] /\ loops' \in [Node -> SUBSET Task]
      /\ \A q \in Node \ {n} : timer'[q] = timer[q] /\ loops'[q] = loops[q]
  BY <1>1 DEF IInv, TypeOK
<1> QED
  BY <1>1, <1>2, <1>3, ExpireKeeps

\* How Tick ages a record.
LEMMA TickAges ==
  ASSUME IInv, Tick
  PROVE  /\ peer' \in [Node -> [Node -> Peer]] /\ timer' \in [Node -> 0..MaintPeriod]
         /\ \A n, p \in Node : /\ peer'[n][p].age \in Nat /\ peer[n][p].age \in Nat
                               /\ peer'[n][p].age <= peer[n][p].age + 1
                               /\ peer'[n][p].trust = peer[n][p].trust
                               /\ peer'[n][p].h = peer[n][p].h
                               /\ p \notin known[n] => peer'[n][p] = peer[n][p]
         /\ \A n \in Node : timer[n] > 0 => timer'[n] = timer[n] - 1
<1> USE DEF IInv
<1> DEFINE aged(n, p) == IF p \in known[n] /\ peer[n][p].age < AgeCap
                         THEN [peer[n][p] EXCEPT !.age = @ + 1] ELSE peer[n][p]
<1>1. peer' = [n \in Node |-> [p \in Node |-> aged(n, p)]]
  BY DEF Tick
<1>2. ASSUME NEW n \in Node, NEW p \in Node
      PROVE  /\ aged(n, p) \in Peer /\ aged(n, p).age \in Nat /\ peer[n][p].age \in Nat
             /\ aged(n, p).age <= peer[n][p].age + 1
             /\ aged(n, p).trust = peer[n][p].trust
             /\ aged(n, p).h = peer[n][p].h
             /\ p \notin known[n] => aged(n, p) = peer[n][p]
  <2>1. peer[n][p] \in Peer
    BY DEF TypeOK
  <2>2. peer[n][p].age \in 0..AgeCap /\ AgeCap \in Nat
    BY <2>1, PeerFields, NoPeerIsPeer
  <2>3. CASE p \in known[n] /\ peer[n][p].age < AgeCap
    <3>1. aged(n, p) = [peer[n][p] EXCEPT !.age = peer[n][p].age + 1]
      BY <2>3
    <3>2. peer[n][p].age + 1 \in 0..AgeCap
      BY <2>2, <2>3
    <3>3. aged(n, p) \in Peer /\ aged(n, p).age = peer[n][p].age + 1
          /\ aged(n, p).trust = peer[n][p].trust /\ aged(n, p).h = peer[n][p].h
      BY <2>1, <3>1, <3>2 DEF Peer
    <3> HIDE DEF aged
    <3> QED
      BY <2>2, <2>3, <3>3
  <2>4. CASE ~(p \in known[n] /\ peer[n][p].age < AgeCap)
    <3>1. aged(n, p) = peer[n][p]
      BY <2>4
    <3> HIDE DEF aged
    <3> QED
      BY <2>1, <2>2, <3>1
  <2> QED
    BY <2>3, <2>4
<1> HIDE DEF aged
<1>3. timer' \in [Node -> 0..MaintPeriod]
      /\ \A n \in Node : timer[n] > 0 => timer'[n] = timer[n] - 1
  BY RoutingAssumption DEF Tick, TypeOK
<1>4. \A n, p \in Node : peer'[n][p] = aged(n, p)
  BY <1>1
<1>5. peer' \in [Node -> [Node -> Peer]]
  BY <1>1, <1>2
<1> QED
  BY <1>2, <1>3, <1>4, <1>5

LEMMA TickKeeps == ASSUME IInv, Tick PROVE IInv'
<1> USE DEF IInv
<1>1. UNCHANGED <<up, known, routes, loops, net>>
  BY DEF Tick
<1>2. TypeOK' /\ Addressed' /\ RouteHasPeer' /\ Absent'
  BY <1>1, TickAges DEF TypeOK, Addressed, RouteHasPeer, Absent
<1>3. ASSUME NEW n \in up, "maintenance" \in loops[n], NEW p \in known[n]
      PROVE  peer'[n][p].age <= PeerTimeout + MaintPeriod - timer'[n]
  <2>1. n \in Node /\ p \in Node /\ timer[n] > 0
    BY <1>3 DEF TypeOK, Tick
  <2>2. peer[n][p].age <= PeerTimeout + MaintPeriod - timer[n]
    BY <1>3 DEF StalePeersExpire
  <2>3. /\ peer'[n][p].age \in Nat /\ peer[n][p].age \in Nat
        /\ peer'[n][p].age <= peer[n][p].age + 1
        /\ timer'[n] = timer[n] - 1
    BY <2>1, TickAges
  <2>4. timer[n] \in Nat /\ MaintPeriod \in Nat /\ PeerTimeout \in Nat
    BY <2>1, RoutingAssumption DEF TypeOK
  <2> QED
    BY <2>2, <2>3, <2>4
<1>4. StalePeersExpire'
  BY <1>1, <1>3 DEF StalePeersExpire
<1> QED
  BY <1>2, <1>4

LEMMA InvNext == ASSUME IInv, [Next]_vars PROVE IInv'
<1>1. ASSUME NEW n \in Node, NodeStep(n) PROVE IInv'
  BY <1>1, StartKeeps, StopKeeps, SendBeaconKeeps, BeaconLoopDiesKeeps,
     MaintenanceKeeps, MaintenanceDiesKeeps, VouchKeeps, SeedKeeps DEF NodeStep
<1>2. ASSUME NEW m \in net, Deliver(m) PROVE IInv'
  BY <1>2, OnBeaconKeeps, OnRouteRequestKeeps, OnRouteReplyKeeps, OnTrustVouchKeeps
  DEF Deliver
<1>3. CASE UNCHANGED vars
  BY <1>3 DEF vars, IInv, TypeOK, Absent, Addressed, RouteHasPeer, StalePeersExpire
<1> QED
  BY <1>1, <1>2, <1>3, TickKeeps DEF Next

LEMMA Invariance == Spec => []IInv
  BY InvInit, InvNext, PTL DEF Spec

\* Types, for any mesh.
THEOREM TypeCorrect == Spec => []TypeOK
  BY Invariance, PTL DEF IInv

\* Whatever is lost, duplicated or reordered, and whoever stops or expires: a
\* route leads through a peer of the table.
THEOREM RoutesHavePeers == Spec => []RouteHasPeer
  BY Invariance, PTL DEF IInv

\* No peer outlives its last beacon by more than PeerTimeout and a round of
\* maintenance, as long as the maintenance loop lives.
THEOREM StaleExpire == Spec => []StalePeersExpire
  BY Invariance, PTL DEF IInv

(***************************************************************************)
(* Trust                                                                   *)
(***************************************************************************)
\* How a step may change the trust that n has in p: not at all, p is
\* forgotten, p is seeded, or a peer v that ranks above vouches for p.
Vouched(n, p, v) ==
  /\ peer'[n][p].voucher = v /\ v \in known[n] /\ peer[n][v].trust >= 2
  /\ peer[n][p].trust <= peer'[n][p].trust
  /\ peer'[n][p].trust < peer[n][v].trust

TrustStep(n, p) ==
  \/ peer'[n][p].trust = peer[n][p].trust
  \/ p \notin known'[n] /\ peer'[n][p] = NoPeer
  \/ p \in Seeded /\ peer'[n][p].trust = 3
  \/ \E v \in Node : Vouched(n, p, v)

LEMMA BeaconTrust ==
  ASSUME IInv, NEW m \in net, OnBeacon(m), NEW n \in Node, NEW p \in Node
  PROVE  TrustStep(n, p)
<1> USE DEF IInv
<1> DEFINE new == Heard(peer[m.to][m.from], m.h)
<1>1. /\ m.to \in Node /\ m.from \in Node /\ m.h \in Nat
      /\ peer' = [peer EXCEPT ![m.to] = [peer[m.to] EXCEPT ![m.from] = new]]
  BY ReceiverIsUp, FrameFields DEF OnBeacon
<1>2. new.trust = peer[m.to][m.from].trust
  <2>1. peer[m.to][m.from] \in Peer
    BY <1>1 DEF TypeOK
  <2> QED
    BY <1>1, <2>1, HeardRecord
<1> HIDE DEF new
<1> QED
  BY <1>1, <1>2 DEF TrustStep, TypeOK

LEMMA VouchTrust ==
  ASSUME IInv, NEW m \in net, OnTrustVouch(m), NEW n \in Node, NEW p \in Node
  PROVE  TrustStep(n, p)
<1> USE DEF IInv
<1> DEFINE P == peer[m.to]
           heeded == /\ m.from \in known[m.to] /\ P[m.from].trust >= 2
                     /\ m.target \in known[m.to] /\ P[m.target].trust < P[m.from].trust
           granted == Granted(P[m.from].trust)
           new == [peer[m.to][m.target] EXCEPT !.trust = granted, !.voucher = m.from]
<1>1. /\ m.type = "vouch"
      /\ peer' = IF heeded
                 THEN [peer EXCEPT ![m.to][m.target].trust = granted,
                                   ![m.to][m.target].voucher = m.from]
                 ELSE peer
  BY DEF OnTrustVouch
<1>2. m.to \in Node /\ m.from \in Node /\ m.target \in Node
  BY <1>1, ReceiverIsUp, FrameFields
<1>3. P[m.from] \in Peer /\ P[m.target] \in Peer
  BY <1>2 DEF TypeOK
<1>4. P[m.from].trust \in 0..3 /\ P[m.target].trust \in 0..3
  BY <1>3, PeerFields
<1>5. CASE ~heeded
  BY <1>1, <1>5 DEF TrustStep
<1>6. CASE heeded
  <2>1. peer' = [peer EXCEPT ![m.to] = [@ EXCEPT ![m.target] = new]]
    BY <1>1, <1>2, <1>6 DEF TypeOK, Peer
  <2>2. new.trust = granted /\ new.voucher = m.from
    <3> HIDE DEF granted
    <3> QED
      BY <1>3 DEF Peer
  <2>3. granted >= P[m.target].trust /\ granted < P[m.from].trust
    BY <1>4, <1>6 DEF Granted
  <2>4. m.from \in known[m.to] /\ P[m.from].trust >= 2
    BY <1>6
  <2> HIDE DEF new, granted, heeded
  <2>5. CASE n = m.to /\ p = m.target
    <3>1. peer'[n][p] = new
      BY <1>2, <2>1, <2>5 DEF TypeOK
    <3>2. Vouched(n, p, m.from)
      BY <2>2, <2>3, <2>4, <2>5, <3>1 DEF Vouched
    <3> QED
      BY <1>2, <3>2 DEF TrustStep
  <2>6. CASE ~(n = m.to /\ p = m.target)
    BY <1>2, <2>1, <2>6 DEF TrustStep, TypeOK
  <2> QED
    BY <2>5, <2>6
<1> QED
  BY <1>5, <1>6

LEMMA TrustSteps ==
  ASSUME IInv, [Next]_vars, NEW n \in Node, NEW p \in Node PROVE TrustStep(n, p)
<1> USE DEF IInv
<1>1. CASE UNCHANGED peer
  BY <1>1 DEF TrustStep
<1>2. ASSUME NEW q \in Node, Stop(q) PROVE TrustStep(n, p)
  BY <1>2 DEF Stop, TrustStep, TypeOK
<1>3. ASSUME NEW q \in Node, Expire(q) PROVE TrustStep(n, p)
  <2>1. /\ peer' = [peer EXCEPT ![q] = Kept(q)]
        /\ known' = [known EXCEPT ![q] = Left(q)]
    BY <1>3, ExpireTables
  <2>2. Kept(q)[p] = IF p \in Left(q) THEN peer[q][p] ELSE NoPeer
    BY DEF Kept
  <2> QED
    BY <2>1, <2>2 DEF TrustStep, TypeOK
<1>4. ASSUME NEW q \in Node, NEW r \in Node, Seed(q, r) PROVE TrustStep(n, p)
  BY <1>4 DEF Seed, TrustStep, TypeOK, Peer
<1>5. CASE Tick
  BY <1>5, TickAges DEF TrustStep
<1>6. ASSUME NEW q \in Node, NodeStep(q) PROVE TrustStep(n, p)
  BY <1>1, <1>2, <1>3, <1>4, <1>6
  DEF NodeStep, Start, SendBeacon, BeaconTo, BeaconLoopDies, Maintenance, RoundTo,
      MaintenanceDies, Vouch
<1>7. ASSUME NEW m \in net, Deliver(m) PROVE TrustStep(n, p)
  BY <1>1, <1>7, BeaconTrust, VouchTrust DEF Deliver, OnRouteRequest, OnRouteReply
<1> QED
  BY <1>1, <1>5, <1>6, <1>7 DEF Next, vars

LEMMA TrustGrows ==
  ASSUME IInv, [Next]_vars, NEW n \in Node, NEW p \in known[n] \intersect known'[n]
  PROVE  peer'[n][p].trust >= peer[n][p].trust
<1>1. p \in Node /\ TrustStep(n, p)
  BY TrustSteps DEF IInv, TypeOK
<1>2. peer[n][p].trust \in 0..3
  BY <1>1, PeerFields DEF IInv, TypeOK
<1> QED
  BY <1>1, <1>2 DEF TrustStep, Vouched

\* A peer that stays in the table keeps its trust, whatever arrives late.
THEOREM TrustIsKept == Spec => TrustKept
<1>1. IInv /\ [Next]_vars =>
        \A n \in Node : \A p \in known[n] \intersect known'[n] :
          peer'[n][p].trust >= peer[n][p].trust
  BY TrustGrows
<1> QED
  BY <1>1, Invariance, PTL DEF Spec, TrustKept

\* Whoever gains trust has a recorded voucher that ranks above it, or was
\* seeded from outside.
THEOREM VouchersOutrank == Spec => VoucherOutranks
<1>1. ASSUME IInv, [Next]_vars
      PROVE  \A n \in Node : \A p \in Node :
               peer'[n][p].trust > peer[n][p].trust =>
                 \/ p \in Seeded /\ peer'[n][p].trust = 3
                 \/ LET v == peer'[n][p].voucher
                    IN /\ v \in known[n] /\ peer[n][v].trust >= 2
                       /\ peer'[n][p].trust < peer[n][v].trust
  <2>1. TAKE n \in Node
  <2>3. TAKE p \in Node
  <2>2. TrustStep(n, p) /\ peer[n][p].trust \in 0..3
    BY <1>1, TrustSteps, PeerFields DEF IInv, TypeOK
  <2> QED
    BY <2>2 DEF TrustStep, Vouched, NoPeer
<1> QED
  BY <1>1, Invariance, PTL DEF Spec, VoucherOutranks

(***************************************************************************)
(* Routes, where replies do not arrive                                     *)
(***************************************************************************)
NoReplies == \A m \in net : m.type # "reply"

RoutesSound ==
  NoReplies /\ RoutesOnlyThroughTrusted /\ RoutesWithinTTL

LEMMA NoRepliesNext ==
  ASSUME ~UnicastReaches, IInv, NoReplies, [Next]_vars PROVE NoReplies'
<1>1. ASSUME NEW out, net' \subseteq net \union out, \A x \in out : x.type # "reply"
      PROVE  NoReplies'
  BY <1>1 DEF NoReplies
<1>2. CASE net' \subseteq net
  BY <1>2 DEF NoReplies
<1>3. /\ \A n, q, h : Reply(n, q, h) = {}
      /\ \A n, ttl, S : \A x \in Requests(n, ttl, S) : x.type # "reply"
      /\ \A n, h, S : \A x \in Beacons(n, h, S) : x.type # "reply"
      /\ \A n, p, S : \A x \in Vouches(n, p, S) : x.type # "reply"
  BY DEF Reply, Requests, Beacons, Vouches
<1>4. ASSUME NEW n \in Node, SendBeacon(n) PROVE NoReplies'
  BY <1>1, <1>3, <1>4 DEF SendBeacon, BeaconTo, Send
<1>5. ASSUME NEW n \in Node, Maintenance(n) PROVE NoReplies'
  BY <1>1, <1>2, <1>3, <1>5 DEF Maintenance, RoundTo, Send
<1>6. ASSUME NEW n \in Node, NEW p \in Node, Vouch(n, p) PROVE NoReplies'
  BY <1>1, <1>3, <1>6 DEF Vouch, Send
<1>7. ASSUME NEW n \in Node, NodeStep(n) PROVE NoReplies'
  BY <1>2, <1>4, <1>5, <1>6, <1>7
  DEF NodeStep, Start, Stop, BeaconLoopDies, MaintenanceDies, Seed
<1>8. ASSUME NEW m, NEW out, Consume(m, out), \A x \in out : x.type # "reply"
      PROVE  NoReplies'
  BY <1>1, <1>8, ConsumeNet
<1>9. ASSUME NEW m \in net, Consume(m, {}) PROVE NoReplies'
  BY <1>8, <1>9
<1>10. ASSUME NEW m \in net, OnRouteRequest(m) PROVE NoReplies'
  <2>1. CASE AnswerAsGateway(m)
    BY <1>3, <1>9, <2>1 DEF AnswerAsGateway
  <2>2. CASE AnswerFromTable(m)
    BY <1>3, <1>9, <2>2 DEF AnswerFromTable
  <2>3. CASE Rebroadcast(m)
    BY <1>3, <1>8, <2>3 DEF Rebroadcast
  <2>4. CASE GiveUp(m)
    BY <1>9, <2>4 DEF GiveUp
  <2> QED
    BY <1>10, <2>1, <2>2, <2>3, <2>4 DEF OnRouteRequest
<1>11. ASSUME NEW m \in net, Deliver(m) PROVE NoReplies'
  BY <1>9, <1>10, <1>11 DEF Deliver, OnBeacon, OnTrustVouch, OnRouteReply
<1> QED
  BY <1>2, <1>7, <1>11 DEF Next, vars, Tick

\* Routes that a step leaves alone stay sound: trust does not shrink.
LEMMA RoutesLeftAlone ==
  ASSUME IInv, RoutesSound, [Next]_vars, NEW n \in Node, routes'[n] = routes[n],
         known[n] \subseteq known'[n]
  PROVE  \A r \in routes'[n] : peer'[n][r.via].trust >= 1 /\ r.hops \in 1..MaxTTL
<1> USE DEF IInv
<1> SUFFICES ASSUME NEW r \in routes[n]
             PROVE  peer'[n][r.via].trust >= 1 /\ r.hops \in 1..MaxTTL
  OBVIOUS
<1>1. r.via \in known[n] /\ r.via \in Node /\ r.via \in known'[n]
  BY DEF RouteHasPeer, TypeOK
<1>2. peer[n][r.via].trust >= 1 /\ r.hops \in 1..MaxTTL
  BY DEF RoutesSound, RoutesOnlyThroughTrusted, RoutesWithinTTL
<1>3. peer'[n][r.via].trust >= peer[n][r.via].trust
  BY <1>1, TrustGrows
<1>4. peer[n][r.via].trust \in Int /\ peer'[n][r.via].trust \in Int
  <2>1. peer[n][r.via] \in Peer /\ peer'[n][r.via] \in Peer
    BY <1>1, InvNext DEF TypeOK
  <2> QED
    BY <2>1, PeerFields
<1> QED
  BY <1>2, <1>3, <1>4

\* Rebuilt routes are sound.
LEMMA RoutesRebuilt ==
  ASSUME NEW n \in Node, NEW K \in SUBSET Node, NEW P \in [Node -> Peer],
         peer'[n] = P, routes'[n] = Rebuild(K, P)
  PROVE  \A r \in routes'[n] : peer'[n][r.via].trust >= 1 /\ r.hops \in 1..MaxTTL
  BY RebuildRoutes

LEMMA RoutesNext ==
  ASSUME ~UnicastReaches, IInv, RoutesSound, [Next]_vars PROVE RoutesSound'
<1> USE DEF IInv
<1> DEFINE Sound(n) == \A r \in routes'[n] :
                         peer'[n][r.via].trust >= 1 /\ r.hops \in 1..MaxTTL
<1>1. ASSUME NEW n \in Node, routes'[n] = routes[n], known[n] \subseteq known'[n]
      PROVE  Sound(n)
  BY <1>1, RoutesLeftAlone
<1>2. ASSUME NEW n \in Node, NEW q \in Node, Expire(q) PROVE Sound(n)
  <2>1. /\ known' = [known EXCEPT ![q] = Left(q)] /\ peer' = [peer EXCEPT ![q] = Kept(q)]
        /\ Left(q) \in SUBSET Node /\ Kept(q) \in [Node -> Peer]
        /\ \/ Left(q) = known[q] /\ routes' = routes
           \/ routes' = [routes EXCEPT ![q] = Rebuild(Left(q), Kept(q))]
    BY <1>2, ExpireTables
  <2>2. CASE n # q
    BY <1>1, <2>1, <2>2 DEF TypeOK
  <2>4. CASE routes' = routes /\ Left(q) = known[q]
    BY <1>1, <2>1, <2>4 DEF TypeOK
  <2>3. CASE n = q /\ routes' = [routes EXCEPT ![q] = Rebuild(Left(q), Kept(q))]
    <3>1. peer'[n] = Kept(q) /\ routes'[n] = Rebuild(Left(q), Kept(q))
      BY <2>1, <2>3 DEF TypeOK
    <3> QED
      BY <2>1, <3>1, RoutesRebuilt
  <2> QED
    BY <2>1, <2>2, <2>3, <2>4, Zenon
<1>3. ASSUME NEW n \in Node, NEW q \in Node, Stop(q) PROVE Sound(n)
  <2>1. CASE n # q
    BY <1>1, <1>3, <2>1 DEF Stop, TypeOK
  <2>2. CASE n = q
    BY <1>3, <2>2 DEF Stop, TypeOK
  <2> QED
    BY <2>1, <2>2
<1>4. ASSUME NEW n \in Node, NEW m \in net, OnBeacon(m) PROVE Sound(n)
  <2> DEFINE K == known[m.to] \union {m.from}
             new == Heard(peer[m.to][m.from], m.h)
             P == [peer[m.to] EXCEPT ![m.from] = new]
  <2>1. /\ m.to \in Node /\ m.from \in Node /\ m.h \in Nat
        /\ known' = [known EXCEPT ![m.to] = K] /\ peer' = [peer EXCEPT ![m.to] = P]
        /\ routes' = [routes EXCEPT ![m.to] = Rebuild(K, P)]
    BY <1>4, ReceiverIsUp, FrameFields DEF OnBeacon
  <2>2. K \in SUBSET Node /\ P \in [Node -> Peer]
    <3>1. peer[m.to][m.from] \in Peer
      BY <2>1 DEF TypeOK
    <3>2. new \in Peer
      BY <2>1, <3>1, HeardRecord
    <3> HIDE DEF new
    <3> QED
      BY <2>1, <3>2 DEF TypeOK
  <2> HIDE DEF K, P
  <2>3. CASE n # m.to
    BY <1>1, <2>1, <2>3 DEF TypeOK
  <2>4. CASE n = m.to
    <3>1. peer'[n] = P /\ routes'[n] = Rebuild(K, P)
      BY <2>1, <2>4 DEF TypeOK
    <3> QED
      BY <2>2, <3>1, RoutesRebuilt
  <2> QED
    BY <2>3, <2>4
<1>5. ASSUME NEW n \in Node PROVE Sound(n)
  <2>1. CASE UNCHANGED <<known, routes>>
    BY <1>1, <2>1
  <2>2. ASSUME NEW q \in Node, NodeStep(q) PROVE Sound(n)
    BY <1>2, <1>3, <2>1, <2>2
    DEF NodeStep, Start, SendBeacon, BeaconTo, BeaconLoopDies, Maintenance, RoundTo,
        MaintenanceDies, Vouch, Seed
  <2>3. ASSUME NEW m \in net, Deliver(m) PROVE Sound(n)
    BY <1>4, <2>1, <2>3
    DEF Deliver, OnRouteRequest, OnRouteReply, OnTrustVouch, RoutesSound, NoReplies
  <2> QED
    BY <2>1, <2>2, <2>3 DEF Next, vars, Tick
<1> QED
  BY <1>5, NoRepliesNext DEF RoutesSound, RoutesOnlyThroughTrusted, RoutesWithinTTL

LEMMA RoutesAreSound == ASSUME ~UnicastReaches PROVE Spec => []RoutesSound
<1>1. Init => RoutesSound
  BY DEF Init, RoutesSound, NoReplies, RoutesOnlyThroughTrusted, RoutesWithinTTL
<1>2. IInv /\ RoutesSound /\ [Next]_vars => RoutesSound'
  BY RoutesNext
<1> QED
  BY <1>1, <1>2, Invariance, PTL DEF Spec

\* No route through an unknown peer, although trust is forgotten when a peer
\* expires and no vouch rebuilds a route.
THEOREM RoutesAreTrusted == ~UnicastReaches => (Spec => []RoutesOnlyThroughTrusted)
<1> SUFFICES ASSUME ~UnicastReaches PROVE Spec => []RoutesOnlyThroughTrusted
  OBVIOUS
<1>1. RoutesSound => RoutesOnlyThroughTrusted
  BY DEF RoutesSound
<1> QED
  BY <1>1, RoutesAreSound, PTL

\* No route is longer than MAX_TTL, whatever distances a lost gateway leaves.
THEOREM RoutesAreBounded == ~UnicastReaches => (Spec => []RoutesWithinTTL)
<1> SUFFICES ASSUME ~UnicastReaches PROVE Spec => []RoutesWithinTTL
  OBVIOUS
<1>1. RoutesSound => RoutesWithinTTL
  BY DEF RoutesSound
<1> QED
  BY <1>1, RoutesAreSound, PTL

(***************************************************************************)
(* Distances, where replies do not arrive                                  *)
(***************************************************************************)
\* A distance h that p announces, or is known by, was counted from a gateway.
Counted(p, h) == h # Infinity => Walk(h, p)

\* What the beacons under way say, what the tables say, and whose beacons
\* they are: a peer in the table was heard, so that there is a link.
BeaconsCounted ==
  \A m \in net : m.type = "beacon" => /\ <<m.from, m.to>> \in Link
                                      /\ Counted(m.from, m.h)

PeersCounted ==
  \A n \in Node : \A p \in known[n] : /\ <<p, n>> \in Link
                                      /\ Counted(p, peer[n][p].h)

Sourced == BeaconsCounted /\ PeersCounted /\ RoutesComeFromGateways

LEMMA WalkStarts == ASSUME NEW g \in Gateway PROVE Walk(0, g)
<1> DEFINE w == [i \in 0..0 |-> g]
<1>1. w \in [0..0 -> Node] /\ w[0] = g
  BY RoutingAssumption
<1>2. \A i \in 0..(0 - 1) : <<w[i], w[i + 1]>> \in Link
  OBVIOUS
<1> HIDE DEF w
<1> QED
  BY <1>1, <1>2 DEF Walk

LEMMA WalkGoesOn ==
  ASSUME NEW k \in Nat, NEW p \in Node, NEW n \in Node, Walk(k, p), <<p, n>> \in Link
  PROVE  Walk(k + 1, n)
<1>1. PICK w \in [0..k -> Node] : /\ w[0] \in Gateway /\ w[k] = p
                                  /\ \A i \in 0..(k - 1) : <<w[i], w[i + 1]>> \in Link
  BY DEF Walk
<1> DEFINE v == [i \in 0..(k + 1) |-> IF i = k + 1 THEN n ELSE w[i]]
<1>2. \A i \in 0..k : v[i] = w[i]
  OBVIOUS
<1>3. v \in [0..(k + 1) -> Node] /\ v[k + 1] = n
  OBVIOUS
<1> HIDE DEF v
<1>4. v[0] \in Gateway
  BY <1>1, <1>2
<1>5. ASSUME NEW i \in 0..k PROVE <<v[i], v[i + 1]>> \in Link
  <2>1. CASE i = k
    BY <1>1, <1>2, <1>3, <2>1
  <2>2. CASE i # k
    <3>1. i \in 0..(k - 1) /\ i + 1 \in 0..k
      BY <2>2
    <3> QED
      BY <1>1, <1>2, <3>1
  <2> QED
    BY <2>1, <2>2
<1>6. 0..(k + 1 - 1) = 0..k
  OBVIOUS
<1> QED
  BY <1>3, <1>4, <1>5, <1>6 DEF Walk

\* Routes that are made from counted distances are counted.
LEMMA RebuiltFromGateways ==
  ASSUME NEW n \in Node, NEW K \in SUBSET Node, NEW P \in [Node -> Peer],
         \A p \in K : <<p, n>> \in Link /\ Counted(p, P[p].h)
  PROVE  \A r \in Rebuild(K, P) : Walk(r.hops, n)
<1> SUFFICES ASSUME NEW r \in Rebuild(K, P) PROVE Walk(r.hops, n)
  OBVIOUS
<1>1. PICK p \in K : /\ r = RouteVia(p, P[p]) /\ P[p].trust >= 1
                     /\ p \in Gateway \/ P[p].h < MaxTTL
  BY DEF Rebuild, Eligible
<1>2. p \in Node /\ <<p, n>> \in Link /\ P[p].h \in Nat /\ Counted(p, P[p].h)
  BY PeerFields
<1>3. r.hops = IF p \in Gateway THEN 1 ELSE P[p].h + 1
  BY <1>1 DEF RouteVia
<1>4. CASE p \in Gateway
  <2>1. Walk(0 + 1, n)
    BY <1>2, <1>4, WalkStarts, WalkGoesOn
  <2> QED
    BY <1>3, <1>4, <2>1
<1>5. CASE p \notin Gateway
  <2>1. P[p].h # Infinity
    BY <1>1, <1>2, <1>5, RoutingAssumption
  <2>2. Walk(P[p].h + 1, n)
    BY <1>2, <2>1, WalkGoesOn DEF Counted
  <2> QED
    BY <1>3, <1>5, <2>2
<1> QED
  BY <1>4, <1>5

\* ... and so is the distance that a node with counted routes announces.
LEMMA DistancesCounted ==
  ASSUME RoutesComeFromGateways, NEW n \in Node, NEW h \in Distances(n)
  PROVE  Counted(n, h)
<1>1. CASE n \in Gateway
  BY <1>1, WalkStarts DEF Distances, Counted
<1>2. CASE n \notin Gateway /\ BestRoutes(n) = {}
  BY <1>2 DEF Distances, Counted
<1>3. CASE n \notin Gateway /\ BestRoutes(n) # {}
  <2>1. PICK r \in BestRoutes(n) : h = r.hops
    BY <1>3 DEF Distances
  <2>2. r \in routes[n]
    BY <2>1 DEF BestRoutes, Least, Usable
  <2> QED
    BY <2>1, <2>2 DEF RoutesComeFromGateways, Counted
<1> QED
  BY <1>1, <1>2, <1>3

\* No step but a beacon changes what a table says of the distance of a peer.
SameHops(n) == /\ known'[n] \subseteq known[n]
               /\ \A p \in known'[n] : peer'[n][p].h = peer[n][p].h

\* What a node's routes are after a step on which no reply arrives.
Remade(n) == \/ routes'[n] \subseteq routes[n]
             \/ routes'[n] = Rebuild(known'[n], peer'[n])

LEMMA TablesStep ==
  ASSUME IInv, [Next]_vars, NEW n \in Node
  PROVE  /\ NoReplies => Remade(n)
         /\ \/ SameHops(n)
            \/ \E m \in net : /\ m.type = "beacon" /\ m.to = n
                              /\ known'[n] = known[n] \union {m.from}
                              /\ peer'[n] = [peer[n] EXCEPT ![m.from] =
                                               Heard(peer[n][m.from], m.h)]
<1> USE DEF IInv
<1> DEFINE Heeds(m) == /\ m.type = "beacon" /\ m.to = n
                       /\ known'[n] = known[n] \union {m.from}
                       /\ peer'[n] = [peer[n] EXCEPT ![m.from] =
                                        Heard(peer[n][m.from], m.h)]
           Goal == (NoReplies => Remade(n)) /\ (SameHops(n) \/ \E m \in net : Heeds(m))
<1> HIDE DEF Heeds
<1>1. ASSUME UNCHANGED <<known, peer, routes>> PROVE Goal
  BY <1>1 DEF Remade, SameHops
<1>2. ASSUME NEW q \in Node, Stop(q) PROVE Goal
  BY <1>2 DEF Stop, Remade, SameHops, TypeOK
<1>3. ASSUME NEW q \in Node, Expire(q) PROVE Goal
  <2>1. /\ known' = [known EXCEPT ![q] = Left(q)] /\ peer' = [peer EXCEPT ![q] = Kept(q)]
        /\ \/ routes' = routes
           \/ routes' = [routes EXCEPT ![q] = Rebuild(Left(q), Kept(q))]
        /\ \A p \in Left(q) : Kept(q)[p] = peer[q][p]
    BY <1>3, ExpireTables
  <2>2. Left(q) \subseteq known[q]
    BY DEF Left
  <2>3. CASE n # q
    BY <2>1, <2>3 DEF Remade, SameHops, TypeOK
  <2>4. CASE n = q
    <3>1. known'[n] = Left(q) /\ peer'[n] = Kept(q)
      BY <2>1, <2>4 DEF TypeOK
    <3>2. SameHops(n)
      BY <2>1, <2>2, <2>4, <3>1 DEF SameHops
    <3>3. Remade(n)
      BY <2>1, <2>4, <3>1 DEF Remade, TypeOK
    <3> QED
      BY <3>2, <3>3
  <2> QED
    BY <2>3, <2>4
<1>4. ASSUME NEW q \in Node, NEW r \in Node, Seed(q, r) PROVE Goal
  <2>1. /\ peer' = [peer EXCEPT ![q][r].trust = 3] /\ UNCHANGED <<known, routes>>
    BY <1>4 DEF Seed
  <2>2. \A p \in Node : peer'[n][p].h = peer[n][p].h
    BY <2>1 DEF TypeOK, Peer
  <2> QED
    BY <2>1, <2>2 DEF Remade, SameHops, TypeOK
<1>5. ASSUME Tick PROVE Goal
  <2>1. UNCHANGED <<known, routes>> /\ \A p \in Node : peer'[n][p].h = peer[n][p].h
    BY <1>5, TickAges DEF Tick
  <2> QED
    BY <2>1 DEF Remade, SameHops, TypeOK
<1>6. ASSUME NEW m \in net, OnTrustVouch(m) PROVE Goal
  <2>1. UNCHANGED <<known, routes>>
    BY <1>6 DEF OnTrustVouch
  <2>2. \A p \in Node : peer'[n][p].h = peer[n][p].h
    <3>1. m.to \in Node /\ m.target \in Node
      BY <1>6, ReceiverIsUp, FrameFields DEF OnTrustVouch
    <3>2. CASE peer' = peer
      BY <3>2
    <3>3. ASSUME NEW t, peer' = [peer EXCEPT ![m.to][m.target].trust = t,
                                             ![m.to][m.target].voucher = m.from]
          PROVE  \A p \in Node : peer'[n][p].h = peer[n][p].h
      <4> DEFINE new == [peer[m.to][m.target] EXCEPT !.trust = t, !.voucher = m.from]
      <4>1. peer' = [peer EXCEPT ![m.to] = [@ EXCEPT ![m.target] = new]]
        BY <3>1, <3>3 DEF TypeOK, Peer
      <4>2. new.h = peer[m.to][m.target].h
        BY <3>1 DEF TypeOK, Peer
      <4> HIDE DEF new
      <4> QED
        BY <3>1, <4>1, <4>2 DEF TypeOK
    <3> QED
      BY <1>6, <3>2, <3>3 DEF OnTrustVouch
  <2> QED
    BY <2>1, <2>2 DEF Remade, SameHops, TypeOK
<1>7. ASSUME NEW m \in net, OnBeacon(m) PROVE Goal
  <2> DEFINE K == known[m.to] \union {m.from}
             P == [peer[m.to] EXCEPT ![m.from] = Heard(peer[m.to][m.from], m.h)]
  <2>1. /\ m.type = "beacon" /\ m.to \in Node
        /\ known' = [known EXCEPT ![m.to] = K] /\ peer' = [peer EXCEPT ![m.to] = P]
        /\ routes' = [routes EXCEPT ![m.to] = Rebuild(K, P)]
    BY <1>7, ReceiverIsUp DEF OnBeacon
  <2>2. CASE n # m.to
    <3> HIDE DEF K, P
    <3> QED
      BY <2>1, <2>2 DEF Remade, SameHops, TypeOK
  <2>3. CASE n = m.to
    <3>1. known'[n] = K /\ peer'[n] = P /\ routes'[n] = Rebuild(K, P)
      <4> HIDE DEF K, P
      <4> QED
        BY <2>1, <2>3 DEF TypeOK
    <3>2. Heeds(m)
      BY <2>1, <2>3, <3>1 DEF Heeds
    <3> QED
      BY <3>1, <3>2 DEF Remade
  <2> QED
    BY <2>2, <2>3
<1> HIDE DEF Goal
<1>8. ASSUME NEW q \in Node, NodeStep(q) PROVE Goal
  <2>1. ASSUME Start(q) \/ SendBeacon(q) \/ BeaconLoopDies(q) PROVE Goal
    BY <1>1, <2>1 DEF Start, SendBeacon, BeaconTo, BeaconLoopDies
  <2>2. ASSUME Maintenance(q) \/ MaintenanceDies(q) PROVE Goal
    BY <1>3, <2>2 DEF Maintenance, RoundTo, MaintenanceDies
  <2>3. ASSUME NEW p \in Node, Vouch(q, p) PROVE Goal
    BY <1>1, <2>3 DEF Vouch
  <2> QED
    BY <1>2, <1>4, <1>8, <2>1, <2>2, <2>3 DEF NodeStep
<1>9. ASSUME NEW m \in net, Deliver(m) PROVE Goal
  <2>1. CASE OnRouteRequest(m)
    BY <1>1, <2>1 DEF OnRouteRequest
  <2>2. ASSUME OnRouteReply(m) PROVE Goal
    BY <2>2 DEF OnRouteReply, NoReplies, SameHops, Goal
  <2> QED
    BY <1>6, <1>7, <1>9, <2>1, <2>2 DEF Deliver
<1>10. Goal
  BY <1>1, <1>5, <1>8, <1>9 DEF Next, vars
<1> QED
  BY <1>10 DEF Goal, Heeds

\* Nobody hears itself.
OthersOnly == /\ \A m \in net : m.from # m.to
              /\ \A n \in Node : n \notin known[n]

\* What a step sends comes from a running node and goes to another; a beacon
\* goes over a link, with the distance of its sender.
LEMMA FramesStep ==
  ASSUME IInv, OthersOnly, [Next]_vars, NEW m \in net', m \notin net
  PROVE  /\ m.from \in Node /\ m.from \in up /\ m.from # m.to
         /\ m.type = "beacon" => m.h \in Distances(m.from) /\ <<m.from, m.to>> \in Link
<1> USE DEF IInv
<1> DEFINE Fine(x) == /\ x.from \in Node /\ x.from \in up /\ x.from # x.to
                      /\ x.type = "beacon" => /\ x.h \in Distances(x.from)
                                              /\ <<x.from, x.to>> \in Link
<1>1. ASSUME net' \subseteq net PROVE FALSE
  BY <1>1
<1>2. ASSUME NEW out, net' \subseteq net \union out, \A x \in out : Fine(x) PROVE Fine(m)
  BY <1>2
<1>3. /\ \A n \in up, q \in Node : n # q => \A h : \A x \in Reply(n, q, h) : Fine(x)
      /\ \A n \in up : \A ttl : \A S \in SUBSET InRange(n) :
           \A x \in Requests(n, ttl, S) : Fine(x)
      /\ \A n \in up : \A p : \A S \in SUBSET InRange(n) :
           \A x \in Vouches(n, p, S) : Fine(x)
      /\ \A n \in up : \A h \in Distances(n), S \in SUBSET InRange(n) :
           \A x \in Beacons(n, h, S) : Fine(x)
  BY DEF Reply, Requests, Vouches, Beacons, InRange, TypeOK
<1> HIDE DEF Fine
<1>4. ASSUME NEW n \in Node, SendBeacon(n) PROVE Fine(m)
  BY <1>2, <1>3, <1>4 DEF SendBeacon, BeaconTo, Send
<1>5. ASSUME NEW n \in Node, Maintenance(n) PROVE Fine(m)
  BY <1>1, <1>2, <1>3, <1>5 DEF Maintenance, RoundTo, Send
<1>6. ASSUME NEW n \in Node, NEW p \in Node, Vouch(n, p) PROVE Fine(m)
  BY <1>2, <1>3, <1>6 DEF Vouch, Send
<1>7. ASSUME NEW n \in Node, NodeStep(n) PROVE Fine(m)
  BY <1>1, <1>4, <1>5, <1>6, <1>7
  DEF NodeStep, Start, Stop, BeaconLoopDies, MaintenanceDies, Seed
<1>8. ASSUME NEW x \in net, NEW out, Consume(x, out), \A y \in out : Fine(y)
      PROVE  Fine(m)
  BY <1>2, <1>8, ConsumeNet
<1>9. ASSUME NEW x \in net, Consume(x, {}) PROVE FALSE
  BY <1>1, <1>9, ConsumeNet
<1>10. ASSUME NEW x \in net, OnRouteRequest(x) PROVE Fine(m)
  <2>1. x.to \in up /\ x.from \in Node /\ x.from # x.to
    BY ReceiverIsUp DEF OthersOnly
  <2>2. CASE AnswerAsGateway(x)
    BY <1>3, <1>8, <2>1, <2>2 DEF AnswerAsGateway
  <2>3. CASE AnswerFromTable(x)
    BY <1>3, <1>8, <2>1, <2>3 DEF AnswerFromTable
  <2>4. CASE Rebroadcast(x)
    BY <1>3, <1>8, <2>1, <2>4 DEF Rebroadcast
  <2>5. CASE GiveUp(x)
    BY <1>9, <2>5 DEF GiveUp
  <2> QED
    BY <1>10, <2>2, <2>3, <2>4, <2>5 DEF OnRouteRequest
<1>11. ASSUME NEW x \in net, Deliver(x) PROVE Fine(m)
  BY <1>9, <1>10, <1>11 DEF Deliver, OnBeacon, OnTrustVouch, OnRouteReply
<1>12. Fine(m)
  BY <1>1, <1>7, <1>11 DEF Next, vars, Tick
<1> QED
  BY <1>12 DEF Fine

LEMMA OthersNext == ASSUME IInv, OthersOnly, [Next]_vars PROVE OthersOnly'
<1>1. ASSUME NEW m \in net' PROVE m.from # m.to
  BY FramesStep DEF OthersOnly
<1>2. ASSUME NEW n \in Node, n \in known'[n] PROVE FALSE
  <2>1. CASE SameHops(n)
    BY <1>2, <2>1 DEF SameHops, OthersOnly
  <2>2. ASSUME NEW m \in net, m.to = n, known'[n] = known[n] \union {m.from}
        PROVE  FALSE
    BY <1>2, <2>2 DEF OthersOnly
  <2> QED
    BY <2>1, <2>2, TablesStep
<1> QED
  BY <1>1, <1>2 DEF OthersOnly

LEMMA HearsOthers == Spec => []OthersOnly
<1>1. Init => OthersOnly
  BY DEF Init, OthersOnly
<1>2. IInv /\ OthersOnly /\ [Next]_vars => OthersOnly'
  BY OthersNext
<1> QED
  BY <1>1, <1>2, Invariance, PTL DEF Spec

\* The next hop is another node.
ViaIsAnother == \A n \in Node : \A r \in routes[n] : r.via \in Node \ {n}

\* No node ever routes through itself, with replies or without: what the data
\* plane assumes of the next hops that the routing tables give it.
THEOREM NextHopIsAnother == Spec => []ViaIsAnother
<1>1. IInv /\ OthersOnly => ViaIsAnother
  BY DEF IInv, TypeOK, Route, RouteHasPeer, OthersOnly, ViaIsAnother
<1> QED
  BY <1>1, Invariance, HearsOthers, PTL

LEMMA SourcedNext ==
  ASSUME IInv, NoReplies, OthersOnly, Sourced, [Next]_vars PROVE Sourced'
<1> USE DEF IInv, Sourced
<1>1. TypeOK'
  BY InvNext
<1>2. BeaconsCounted'
  <2> SUFFICES ASSUME NEW m \in net', m.type = "beacon"
               PROVE  <<m.from, m.to>> \in Link /\ Counted(m.from, m.h)
    BY DEF BeaconsCounted, Counted
  <2>1. CASE m \in net
    BY <2>1 DEF BeaconsCounted
  <2>2. CASE m \notin net
    BY <2>2, FramesStep, DistancesCounted
  <2> QED
    BY <2>1, <2>2
<1>3. ASSUME NEW n \in Node, NEW p \in known'[n]
      PROVE  <<p, n>> \in Link /\ Counted(p, peer'[n][p].h)
  <2>1. CASE SameHops(n)
    BY <1>3, <2>1 DEF SameHops, PeersCounted
  <2>2. ASSUME NEW m \in net, m.type = "beacon", m.to = n,
               known'[n] = known[n] \union {m.from},
               peer'[n] = [peer[n] EXCEPT ![m.from] = Heard(peer[n][m.from], m.h)]
        PROVE  <<p, n>> \in Link /\ Counted(p, peer'[n][p].h)
    <3>1. m.from \in Node /\ <<m.from, n>> \in Link /\ Counted(m.from, m.h)
      BY <2>2, ReceiverIsUp DEF BeaconsCounted
    <3>2. CASE p = m.from
      <4>1. Heard(peer[n][m.from], m.h).h = m.h
        BY <3>1 DEF Heard, TypeOK, Peer
      <4>2. peer'[n][p] = Heard(peer[n][m.from], m.h)
        BY <2>2, <3>1, <3>2 DEF TypeOK
      <4> QED
        BY <3>1, <3>2, <4>1, <4>2
    <3>3. CASE p # m.from
      <4>1. p \in known[n] /\ peer'[n][p] = peer[n][p]
        BY <1>3, <2>2, <3>3 DEF TypeOK
      <4> QED
        BY <4>1 DEF PeersCounted
    <3> QED
      BY <3>2, <3>3
  <2> QED
    BY <2>1, <2>2, TablesStep
<1>4. PeersCounted'
  BY <1>3 DEF PeersCounted, Counted
<1>5. ASSUME NEW n \in Node, NEW r \in routes'[n] PROVE Walk(r.hops, n)
  <2>1. CASE routes'[n] \subseteq routes[n]
    BY <1>5, <2>1 DEF RoutesComeFromGateways
  <2>2. CASE routes'[n] = Rebuild(known'[n], peer'[n])
    <3>1. known'[n] \in SUBSET Node /\ peer'[n] \in [Node -> Peer]
      BY <1>1 DEF TypeOK
    <3>2. \A p \in known'[n] : <<p, n>> \in Link /\ Counted(p, peer'[n][p].h)
      BY <1>3
    <3> QED
      BY <1>5, <2>2, <3>1, <3>2, RebuiltFromGateways
  <2> QED
    BY <2>1, <2>2, TablesStep DEF Remade
<1>6. RoutesComeFromGateways'
  BY <1>5 DEF RoutesComeFromGateways, Walk
<1> QED
  BY <1>2, <1>4, <1>6

\* Distances are counted from a gateway, link by link: none is too short, and
\* a mesh that has never heard of a gateway has no routes.
THEOREM RoutesAreCounted == ~UnicastReaches => (Spec => []RoutesComeFromGateways)
<1> SUFFICES ASSUME ~UnicastReaches PROVE Spec => []RoutesComeFromGateways
  OBVIOUS
<1>1. Init => Sourced
  BY DEF Init, Sourced, BeaconsCounted, PeersCounted, RoutesComeFromGateways
<1>2. IInv /\ RoutesSound /\ OthersOnly /\ Sourced /\ [Next]_vars => Sourced'
  BY SourcedNext DEF RoutesSound
<1>3. Sourced => RoutesComeFromGateways
  BY DEF Sourced
<1> QED
  BY <1>1, <1>2, <1>3, RoutesAreSound, HearsOthers, Invariance, PTL DEF Spec

(***************************************************************************)
(* Phantom routes: what is left when no gateway runs                       *)
(***************************************************************************)
\* No gateway runs or is known to anybody, and whoever has a distance still
\* claims at least d, or more than d where it has a route of its own.
Floor(d) ==
  /\ up \intersect Gateway = {}
  /\ \A m \in net : m.type = "beacon" => m.from \notin Gateway /\ m.h >= d
  /\ \A n \in Node : \A p \in known[n] : p \notin Gateway /\ peer[n][p].h >= d
  /\ \A n \in Node : \A r \in routes[n] : r.hops > d

\* As long as no gateway starts, the floor holds, and every new claim is above
\* it: what relays tell one another can only grow.
ClaimsRise(d) ==
  Floor(d) /\ up' \intersect Gateway = {} =>
    /\ Floor(d)'
    /\ \A m \in net' \ net : m.type = "beacon" => m.h > d

LEMMA FloorOfRoutes ==
  ASSUME NEW d \in 0..MaxTTL, NEW K \in SUBSET Node, NEW P \in [Node -> Peer],
         \A p \in K : p \notin Gateway /\ P[p].h >= d
  PROVE  \A r \in Rebuild(K, P) : r.hops > d
<1> SUFFICES ASSUME NEW r \in Rebuild(K, P) PROVE r.hops > d
  OBVIOUS
<1>1. PICK p \in K : r = RouteVia(p, P[p])
  BY DEF Rebuild, Eligible
<1>2. p \notin Gateway /\ P[p].h >= d /\ P[p].h \in Nat
  BY PeerFields
<1>3. r.hops = P[p].h + 1
  BY <1>1, <1>2 DEF RouteVia
<1> QED
  BY <1>2, <1>3

LEMMA FloorOfDistances ==
  ASSUME NEW d \in 0..MaxTTL, Floor(d), NEW n \in Node, n \in up, NEW h \in Distances(n)
  PROVE  h > d
<1>1. n \notin Gateway
  BY DEF Floor
<1>2. CASE h = Infinity
  BY <1>2, RoutingAssumption
<1>3. CASE h # Infinity
  <2>1. PICK r \in BestRoutes(n) : h = r.hops
    BY <1>1, <1>3 DEF Distances
  <2>2. r \in routes[n]
    BY <2>1 DEF BestRoutes, Least, Usable
  <2> QED
    BY <2>1, <2>2 DEF Floor
<1> QED
  BY <1>2, <1>3

LEMMA FloorHolds ==
  ASSUME NEW d \in 0..MaxTTL, IInv, NoReplies, OthersOnly, [Next]_vars
  PROVE  ClaimsRise(d)
<1> SUFFICES ASSUME Floor(d), up' \intersect Gateway = {}
             PROVE  /\ Floor(d)'
                    /\ \A m \in net' \ net : m.type = "beacon" => m.h > d
  BY DEF ClaimsRise
<1> USE DEF IInv
<1>1. ASSUME NEW m \in net' \ net, m.type = "beacon"
      PROVE  m.h > d /\ m.from \notin Gateway
  <2>1. m.from \in Node /\ m.from \in up /\ m.h \in Distances(m.from)
    BY <1>1, FramesStep
  <2> QED
    BY <2>1, FloorOfDistances DEF Floor
<1>2. TypeOK'
  BY InvNext
<1>3. ASSUME NEW m \in net', m.type = "beacon" PROVE m.from \notin Gateway /\ m.h >= d
  <2>1. m.h \in Nat
    BY <1>2, <1>3, FrameFields DEF TypeOK
  <2> QED
    BY <1>1, <1>3, <2>1 DEF Floor
<1>4. ASSUME NEW n \in Node, NEW p \in known'[n]
      PROVE  p \notin Gateway /\ peer'[n][p].h >= d
  <2>1. CASE SameHops(n)
    BY <1>4, <2>1 DEF SameHops, Floor
  <2>2. ASSUME NEW m \in net, m.type = "beacon", m.to = n,
               known'[n] = known[n] \union {m.from},
               peer'[n] = [peer[n] EXCEPT ![m.from] = Heard(peer[n][m.from], m.h)]
        PROVE  p \notin Gateway /\ peer'[n][p].h >= d
    <3>1. m.from \in Node /\ m.from \notin Gateway /\ m.h >= d
      BY <2>2, ReceiverIsUp DEF Floor
    <3>2. CASE p = m.from
      <4>1. Heard(peer[n][m.from], m.h).h = m.h
        BY <3>1 DEF Heard, TypeOK, Peer
      <4>2. peer'[n][p] = Heard(peer[n][m.from], m.h)
        BY <2>2, <3>1, <3>2 DEF TypeOK
      <4> QED
        BY <3>1, <3>2, <4>1, <4>2
    <3>3. CASE p # m.from
      <4>1. p \in known[n] /\ peer'[n][p] = peer[n][p]
        BY <1>4, <2>2, <3>3 DEF TypeOK
      <4> QED
        BY <4>1 DEF Floor
    <3> QED
      BY <3>2, <3>3
  <2> QED
    BY <2>1, <2>2, TablesStep
<1>5. ASSUME NEW n \in Node, NEW r \in routes'[n] PROVE r.hops > d
  <2>1. CASE routes'[n] \subseteq routes[n]
    BY <1>5, <2>1 DEF Floor
  <2>2. CASE routes'[n] = Rebuild(known'[n], peer'[n])
    <3>1. known'[n] \in SUBSET Node /\ peer'[n] \in [Node -> Peer]
      BY <1>2 DEF TypeOK
    <3>2. \A p \in known'[n] : p \notin Gateway /\ peer'[n][p].h >= d
      BY <1>4
    <3> QED
      BY <1>5, <2>2, <3>1, <3>2, FloorOfRoutes
  <2> QED
    BY <2>1, <2>2, TablesStep DEF Remade
<1> QED
  BY <1>1, <1>3, <1>4, <1>5 DEF Floor

\* The count to infinity goes one way: the least distance that a mesh without
\* gateways believes in never falls, and no claim repeats it.
THEOREM PhantomsRise ==
  ASSUME ~UnicastReaches, NEW d \in 0..MaxTTL
  PROVE  Spec => [][ClaimsRise(d)]_vars
<1>1. IInv /\ RoutesSound /\ OthersOnly /\ [Next]_vars => [ClaimsRise(d)]_vars
  BY FloorHolds DEF RoutesSound
<1> QED
  BY <1>1, RoutesAreSound, HearsOthers, Invariance, PTL DEF Spec

\* ... and it ends at MAX_TTL, where there are no routes left.
THEOREM PhantomsEnd ==
  ASSUME ~UnicastReaches
  PROVE  Spec => [](Floor(MaxTTL) => \A n \in Node : routes[n] = {})
<1>1. RoutesSound => (Floor(MaxTTL) => \A n \in Node : routes[n] = {})
  <2> SUFFICES ASSUME RoutesSound, Floor(MaxTTL), NEW n \in Node, NEW r \in routes[n]
               PROVE  FALSE
    OBVIOUS
  <2> QED
    BY RoutingAssumption DEF RoutesSound, RoutesWithinTTL, Floor
<1> QED
  BY <1>1, RoutesAreSound, PTL

(***************************************************************************)
(* The program as it is                                                    *)
(***************************************************************************)
\* In the shipped program nobody starts with trust, so that nobody can vouch
\* with effect, and nobody answers a search: no node ever has a route.
THEOREM ShippedHasNoRoutes == Spec => []ShippedNeverRoutes
<1> DEFINE NoTrust == \A n, p \in Node : peer[n][p].trust = 0
<1>1. CASE ~Shipped
  <2>1. ShippedNeverRoutes
    BY <1>1 DEF ShippedNeverRoutes
  <2> QED
    BY <2>1, PTL
<1>2. CASE Shipped
  <2>1. ~UnicastReaches /\ Seeded = {}
    BY <1>2 DEF Shipped
  <2>2. Init => NoTrust
    BY DEF Init, NoPeer
  <2>3. ASSUME IInv, NoTrust, [Next]_vars PROVE NoTrust'
    <3>1. ASSUME NEW n \in Node, NEW p \in Node PROVE peer'[n][p].trust = 0
      <4>1. TrustStep(n, p)
        BY <2>3, TrustSteps
      <4>2. \A v \in known[n] : v \in Node /\ peer[n][v].trust = 0
        BY <2>3 DEF IInv, TypeOK
      <4> QED
        BY <2>1, <2>3, <4>1, <4>2 DEF TrustStep, Vouched, NoPeer
    <3> QED
      BY <3>1
  <2>4. IInv /\ RoutesSound /\ NoTrust => ShippedNeverRoutes
    <3> SUFFICES ASSUME IInv, RoutesSound, NoTrust, NEW n \in Node PROVE routes[n] = {}
      BY DEF ShippedNeverRoutes
    <3>1. ASSUME NEW r \in routes[n] PROVE FALSE
      <4>1. r.via \in Node /\ peer[n][r.via].trust >= 1
        BY DEF IInv, TypeOK, Route, RoutesSound, RoutesOnlyThroughTrusted
      <4> QED
        BY <4>1
    <3> QED
      BY <3>1
  <2> HIDE DEF NoTrust
  <2>5. Spec => []RoutesSound
    BY <2>1, RoutesAreSound
  <2> QED
    BY <2>2, <2>3, <2>4, <2>5, Invariance, PTL DEF Spec
<1> QED
  BY <1>1, <1>2
=============================================================================
