---------------------------- MODULE MeshRouting ----------------------------
(***************************************************************************)
(* The control plane of core/node.py: several mesh nodes that announce     *)
(* themselves with beacons, vouch for one another, search for a gateway    *)
(* with flooded route requests, and expire silent peers.                   *)
(*                                                                         *)
(* No handler of node.py suspends between its first read and its last      *)
(* write (the send helpers are coroutines that never yield), so a handler  *)
(* is one action.  The datagrams of all nodes are the set net: UDP may     *)
(* lose a copy (the sender's choice of receivers), delay or reorder it     *)
(* (delivery is a separate action) and, if MayDuplicate, deliver it twice. *)
(*                                                                         *)
(* Time is counted in ticks.  An entry's age stands for                    *)
(* time.time() - last_seen and a maintenance timer for the sleep of        *)
(* _maintenance_loop.                                                      *)
(***************************************************************************)
EXTENDS Integers, FiniteSets

CONSTANTS
  Node,           \* node identities
  Gateway,        \* the nodes with Role.GATEWAY
  Link,           \* <<n, q>> \in Link: a multicast of n can reach q
  NoNode,         \* "no voucher"
  MaxTTL,         \* MAX_TTL
  Infinity,       \* the distance 999 of a node without a route
  PeerTimeout,    \* PEER_TIMEOUT, in ticks
  MaintPeriod,    \* the sleep of _maintenance_loop, in ticks
  GatewayWeight,  \* 10_000 / bandwidth a gateway advertises, scaled to Nat
  RelayWeight,    \* 10_000 / bandwidth any other node advertises
  Seeded,         \* peers that code outside src/ marks as operators
  UnicastReaches, \* a reply sent to a frame's source address is received
  MayDuplicate,   \* the network may deliver a datagram twice
  SendMayFail,    \* sendto may raise OSError
  MaxHops,        \* bound: hops of a reply that is received
  MaxFrames       \* bound: datagrams in flight

ASSUME RoutingAssumption ==
  /\ Gateway \subseteq Node /\ NoNode \notin Node /\ Seeded \subseteq Node
  /\ Link \subseteq Node \X Node
  /\ MaxTTL \in Nat \ {0} /\ Infinity \in Nat /\ MaxTTL < Infinity
  /\ PeerTimeout \in Nat \ {0} /\ MaintPeriod \in Nat \ {0}
  /\ GatewayWeight \in Nat \ {0} /\ RelayWeight \in Nat \ {0}
  /\ UnicastReaches \in BOOLEAN /\ MayDuplicate \in BOOLEAN
  /\ SendMayFail \in BOOLEAN /\ MaxHops \in Nat /\ MaxFrames \in Nat

VARIABLES
  up,      \* the nodes that run
  known,   \* known[n]: the keys of n's _peers
  peer,    \* peer[n][p]: n's Peer record of p, NoPeer if p is not known
  routes,  \* routes[n]: n's _routes, as a set: the list is always sorted, so
           \* it is used only through the entries of least metric
  timer,   \* timer[n]: ticks until n's maintenance loop wakes
  loops,   \* loops[n]: n's sending tasks that have not died of an exception
  net      \* datagrams in flight

vars == <<up, known, peer, routes, timer, loops, net>>

(***************************************************************************)
(* Data                                                                    *)
(***************************************************************************)
\* Past AgeCap every test on an age has the same outcome, so ages saturate.
AgeCap == PeerTimeout + MaintPeriod + 1

Trust == 0..3     \* 0=unknown, 1=vouched, 2=trusted, 3=operator

Peer == [h : Nat, age : 0..AgeCap, trust : Trust, voucher : Node \union {NoNode}]
NoPeer == [h |-> Infinity, age |-> 0, trust |-> 0, voucher |-> NoNode]

Route == [via : Node, hops : Nat, metric : Nat]

Task == {"beacon", "maintenance"}

Frame ==
  [type : {"beacon"}, from : Node, to : Node, h : Nat]
    \union [type : {"request"}, from : Node, to : Node, ttl : 1..MaxTTL]
    \union [type : {"reply"}, from : Node, to : Node, h : Nat]
    \union [type : {"vouch"}, from : Node, to : Node, target : Node]

(***************************************************************************)
(* Routes                                                                  *)
(***************************************************************************)
\* _route_metric, times 50.  No code changes link_quality from 1.0, and a
\* peer's advertised bandwidth is a function of its role.
Metric(p, e, direct) ==
  (IF direct THEN 1 ELSE e.h + 1)
    * (IF p \in Gateway THEN GatewayWeight ELSE RelayWeight)
    * (10 - e.trust)

\* Fault: the hop to p itself is not counted.
RouteViaUncounted(p, e) ==
  [via |-> p, hops |-> IF p \in Gateway THEN 1 ELSE e.h,
   metric |-> Metric(p, e, p \in Gateway)]

\* The RouteEntry that _rebuild_routes makes from p's Peer record e.
RouteVia(p, e) ==
  [via |-> p, hops |-> IF p \in Gateway THEN 1 ELSE e.h + 1,
   metric |-> Metric(p, e, p \in Gateway)]

\* Fault: the comparison with MAX_TTL is off by one.
EligibleTooFar(K, P) ==
  {p \in K : P[p].trust >= 1 /\ (p \in Gateway \/ P[p].h <= MaxTTL)}

\* The peers _rebuild_routes uses.
Eligible(K, P) ==
  {p \in K : P[p].trust >= 1 /\ (p \in Gateway \/ P[p].h < MaxTTL)}

Rebuild(K, P) == {RouteVia(p, P[p]) : p \in Eligible(K, P)}

Least(R) == {r \in R : \A s \in R : r.metric <= s.metric}

Usable(n) == {r \in routes[n] : r.via \in known[n]
                             /\ peer[n][r.via].age < PeerTimeout}

\* The routes best_route may return: entries of equal metric keep the order
\* of a dictionary, which is left open here.
BestRoutes(n) == Least(Usable(n))

\* The values _my_gateway_distance may return.
Distances(n) ==
  IF n \in Gateway THEN {0}
  ELSE IF BestRoutes(n) = {} THEN {Infinity}
  ELSE {r.hops : r \in BestRoutes(n)}

(***************************************************************************)
(* Datagrams                                                               *)
(***************************************************************************)
\* Adding out to net, within the bound MaxFrames.  A multicast reaches any
\* subset of the running nodes in range, so the bound only makes it lossier.
Send(out) == /\ Cardinality(net \union out) <= MaxFrames
             /\ net' = net \union out

\* The network hands datagram m to its receiver, which sends out.
Consume(m, out) ==
  \E rest \in {net \ {m}} \union (IF MayDuplicate THEN {net} ELSE {}) :
    /\ Cardinality(rest \union out) <= MaxFrames
    /\ net' = rest \union out

\* The nodes in range of n.  A node ignores its own frames.
InRange(n) == {q \in up : q # n /\ <<n, q>> \in Link}

Beacons(n, h, S) == {[type |-> "beacon", from |-> n, to |-> q, h |-> h] : q \in S}

Requests(n, ttl, S) ==
  {[type |-> "request", from |-> n, to |-> q, ttl |-> ttl] : q \in S}

Vouches(n, p, S) ==
  {[type |-> "vouch", from |-> n, to |-> q, target |-> p] : q \in S}

\* A reply goes to the address the request came from: the port of a socket
\* that _multicast_send has closed, so that nobody reads it unless
\* UnicastReaches.  Losing a reply is losing the request that it answers; a
\* reply to a node that is down, or of more than MaxHops hops, is lost.
Reply(n, q, h) ==
  IF UnicastReaches /\ q \in up /\ h <= MaxHops
  THEN {[type |-> "reply", from |-> n, to |-> q, h |-> h]} ELSE {}

(***************************************************************************)
(* Actions                                                                 *)
(***************************************************************************)
Init ==
  /\ up = {}
  /\ known = [n \in Node |-> {}]
  /\ peer = [n \in Node |-> [p \in Node |-> NoPeer]]
  /\ routes = [n \in Node |-> {}]
  /\ timer = [n \in Node |-> 0]
  /\ loops = [n \in Node |-> {}]
  /\ net = {}

\* start: tables are empty, and the first round of maintenance is due.
Start(n) ==
  /\ n \notin up
  /\ up' = up \union {n}
  /\ timer' = [timer EXCEPT ![n] = 0]
  /\ loops' = [loops EXCEPT ![n] = Task]
  /\ UNCHANGED <<known, peer, routes, net>>

\* stop, or a crash: nothing is persisted, and no node handles SHUTDOWN.
Stop(n) ==
  /\ n \in up
  /\ up' = up \ {n}
  /\ known' = [known EXCEPT ![n] = {}]
  /\ peer' = [peer EXCEPT ![n] = [p \in Node |-> NoPeer]]
  /\ routes' = [routes EXCEPT ![n] = {}]
  /\ timer' = [timer EXCEPT ![n] = 0]
  /\ loops' = [loops EXCEPT ![n] = {}]
  /\ net' = {m \in net : m.to # n}

\* A turn of _beacon_loop that reaches the nodes in S.
BeaconTo(n, S) ==
  /\ n \in up /\ "beacon" \in loops[n]
  /\ \E h \in Distances(n) : Send(Beacons(n, h, S))
  /\ UNCHANGED <<up, known, peer, routes, timer, loops>>

SendBeacon(n) == \E S \in SUBSET InRange(n) : BeaconTo(n, S)

\* sendto raises: nothing catches it, so _beacon_loop is over.
BeaconLoopDies(n) ==
  /\ SendMayFail
  /\ n \in up /\ "beacon" \in loops[n]
  /\ loops' = [loops EXCEPT ![n] = @ \ {"beacon"}]
  /\ UNCHANGED <<up, known, peer, routes, timer, net>>

\* Fault: the trust of the record that is replaced is lost.
HeardAnew(old, h) == [NoPeer EXCEPT !.h = h]

\* The Peer record that a beacon of distance h makes: a fresh one that keeps
\* the trust and the voucher of the one it replaces.
Heard(old, h) == [old EXCEPT !.h = h, !.age = 0]

\* _on_beacon.  _rebuild_routes drops the routes that replies added.
OnBeacon(m) ==
  LET new == Heard(peer[m.to][m.from], m.h)
      K == known[m.to] \union {m.from}
      P == [peer[m.to] EXCEPT ![m.from] = new]
  IN /\ m.type = "beacon"
     /\ known' = [known EXCEPT ![m.to] = K]
     /\ peer' = [peer EXCEPT ![m.to] = P]
     /\ routes' = [routes EXCEPT ![m.to] = Rebuild(K, P)]
     /\ Consume(m, {})
     /\ UNCHANGED <<up, timer, loops>>

\* Fault: gateways leave the answer to the relays.
AnswerAsRelayOnly(m) == m.to \in Gateway /\ Consume(m, {})

\* _on_route_request.  An exception of sendto is caught by _listen_loop and
\* is a reply or a rebroadcast that reaches nobody.
AnswerAsGateway(m) == m.to \in Gateway /\ Consume(m, Reply(m.to, m.from, 0))

AnswerFromTable(m) ==
  /\ m.to \notin Gateway
  /\ \E r \in Least(routes[m.to]) : Consume(m, Reply(m.to, m.from, r.hops + 1))

\* Fault: a request is passed on however old it is.
RebroadcastForever(m) ==
  /\ m.to \notin Gateway /\ routes[m.to] = {}
  /\ \E S \in SUBSET InRange(m.to) : Consume(m, Requests(m.to, m.ttl - 1, S))

Rebroadcast(m) ==
  /\ m.to \notin Gateway /\ routes[m.to] = {} /\ m.ttl > 1
  /\ \E S \in SUBSET InRange(m.to) : Consume(m, Requests(m.to, m.ttl - 1, S))

GiveUp(m) ==
  m.to \notin Gateway /\ routes[m.to] = {} /\ m.ttl <= 1 /\ Consume(m, {})

OnRouteRequest(m) ==
  /\ m.type = "request"
  /\ AnswerAsGateway(m) \/ AnswerFromTable(m) \/ Rebroadcast(m) \/ GiveUp(m)
  /\ UNCHANGED <<up, known, peer, routes, timer, loops>>

\* Fault: a reply adds a route even if its sender is not in the table.
ReplyOfAnyone(m) ==
  /\ m.type = "reply"
  /\ routes' = [routes EXCEPT ![m.to] = @ \union
       {[via |-> m.from, hops |-> m.h,
         metric |-> Metric(m.from, peer[m.to][m.from], FALSE)]}]
  /\ Consume(m, {})
  /\ UNCHANGED <<up, known, peer, timer, loops>>

\* _on_route_reply: neither the trust of the peer nor MAX_TTL is looked at.
OnRouteReply(m) ==
  LET e == peer[m.to][m.from]
      learnt == IF m.from \in known[m.to]
                THEN {[via |-> m.from, hops |-> m.h,
                       metric |-> Metric(m.from, e, FALSE)]}
                ELSE {}
  IN /\ m.type = "reply"
     /\ routes' = [routes EXCEPT ![m.to] = @ \union learnt]
     /\ Consume(m, {})
     /\ UNCHANGED <<up, known, peer, timer, loops>>

\* vouch_for, called by the user of node n.
Vouch(n, p) ==
  /\ n \in up /\ p # n
  /\ \E S \in SUBSET InRange(n) : Send(Vouches(n, p, S))
  /\ UNCHANGED <<up, known, peer, routes, timer, loops>>

\* Fault: a voucher passes on its own level.
GrantedInFull(trust) == trust

\* The trust that the vouch of a peer of this trust grants.
Granted(trust) == IF trust = 3 THEN 2 ELSE trust - 1

\* _on_trust_vouch.  Routes are not rebuilt before the next beacon.
OnTrustVouch(m) ==
  LET P == peer[m.to]
      heeded == /\ m.from \in known[m.to] /\ P[m.from].trust >= 2
                /\ m.target \in known[m.to] /\ P[m.target].trust < P[m.from].trust
  IN /\ m.type = "vouch"
     /\ peer' = IF heeded
                THEN [peer EXCEPT ![m.to][m.target].trust = Granted(P[m.from].trust),
                                  ![m.to][m.target].voucher = m.from]
                ELSE peer
     /\ Consume(m, {})
     /\ UNCHANGED <<up, known, routes, timer, loops>>

\* Code outside src/ sets Peer.trust: nothing in src/ ever makes an operator.
Seed(n, p) ==
  /\ p \in Seeded \intersect known[n] /\ peer[n][p].trust < 3
  /\ peer' = [peer EXCEPT ![n][p].trust = 3]
  /\ UNCHANGED <<up, known, routes, timer, loops, net>>

(***************************************************************************)
(* Maintenance and time                                                    *)
(***************************************************************************)
\* Fault: silence is counted in rounds, one too many.
StaleLater(n) == {p \in known[n] : peer[n][p].age > PeerTimeout + MaintPeriod}

Stale(n) == {p \in known[n] : peer[n][p].age > PeerTimeout}

\* Fault: the routes through the expired peers stay.
ExpireKeepingRoutes(n) ==
  LET K == known[n] \ Stale(n)
      P == [p \in Node |-> IF p \in K THEN peer[n][p] ELSE NoPeer]
  IN /\ known' = [known EXCEPT ![n] = K]
     /\ peer' = [peer EXCEPT ![n] = P]
     /\ routes' = routes

\* _maintenance_loop: expire, rebuild if something expired, and search.
Expire(n) ==
  LET K == known[n] \ Stale(n)
      P == [p \in Node |-> IF p \in K THEN peer[n][p] ELSE NoPeer]
  IN /\ known' = [known EXCEPT ![n] = K]
     /\ peer' = [peer EXCEPT ![n] = P]
     /\ routes' = IF Stale(n) # {} THEN [routes EXCEPT ![n] = Rebuild(K, P)]
                  ELSE routes

Searches(n) == routes'[n] = {} /\ n \notin Gateway

\* A round whose search, if it makes one, reaches the nodes in S.
RoundTo(n, S) ==
  /\ n \in up /\ "maintenance" \in loops[n] /\ timer[n] = 0
  /\ Expire(n)
  /\ IF Searches(n) THEN Send(Requests(n, MaxTTL, S)) ELSE UNCHANGED net
  /\ timer' = [timer EXCEPT ![n] = MaintPeriod]
  /\ UNCHANGED <<up, loops>>

Maintenance(n) == \E S \in SUBSET InRange(n) : RoundTo(n, S)

\* sendto raises in discover_gateways: the loop is over, the expiry done.
MaintenanceDies(n) ==
  /\ SendMayFail
  /\ n \in up /\ "maintenance" \in loops[n] /\ timer[n] = 0
  /\ Expire(n)
  /\ Searches(n)
  /\ loops' = [loops EXCEPT ![n] = @ \ {"maintenance"}]
  /\ UNCHANGED <<up, timer, net>>

\* Time passes, never beyond a timer that is due: a loop's lateness is one
\* of the delays that its own tick stands for.
Tick ==
  /\ \A n \in up : "maintenance" \in loops[n] => timer[n] > 0
  /\ timer' = [n \in Node |-> IF timer[n] > 0 THEN timer[n] - 1 ELSE 0]
  /\ peer' = [n \in Node |-> [p \in Node |->
       IF p \in known[n] /\ peer[n][p].age < AgeCap
       THEN [peer[n][p] EXCEPT !.age = @ + 1] ELSE peer[n][p]]]
  /\ UNCHANGED <<up, known, routes, loops, net>>

Deliver(m) ==
  OnBeacon(m) \/ OnRouteRequest(m) \/ OnRouteReply(m) \/ OnTrustVouch(m)

NodeStep(n) ==
  \/ Start(n) \/ Stop(n)
  \/ SendBeacon(n) \/ BeaconLoopDies(n)
  \/ Maintenance(n) \/ MaintenanceDies(n)
  \/ \E p \in Node : Vouch(n, p) \/ Seed(n, p)

Next ==
  \/ \E n \in Node : NodeStep(n)
  \/ \E m \in net : Deliver(m)
  \/ Tick

Spec == Init /\ [][Next]_vars

(***************************************************************************)
(* Safety                                                                  *)
(***************************************************************************)
TypeOK ==
  /\ up \subseteq Node
  /\ known \in [Node -> SUBSET Node]
  /\ peer \in [Node -> [Node -> Peer]]
  /\ routes \in [Node -> SUBSET Route]
  /\ timer \in [Node -> 0..MaintPeriod]
  /\ loops \in [Node -> SUBSET Task]
  /\ net \subseteq Frame

\* Every route leads through a peer of the peer table.  connect_via_mesh
\* (javidnet.py) takes the peer of the best route without a test for None,
\* and a reply may add a route between two rebuilds.
RouteHasPeer == \A n \in Node : \A r \in routes[n] : r.via \in known[n]

\* A silent peer is gone PeerTimeout and one maintenance period after its
\* last beacon, unless the maintenance loop of its observer has died.
StalePeersExpire ==
  \A n \in up : "maintenance" \in loops[n] =>
    \A p \in known[n] : peer[n][p].age <= PeerTimeout + MaintPeriod - timer[n]

\* "don't route through unknown peers": no route through a peer of trust 0,
\* even after the peer has expired and come back with its trust forgotten.
\* True where replies do not arrive: a reply adds a route through any peer.
RoutesOnlyThroughTrusted ==
  \A n \in Node : \A r \in routes[n] : peer[n][r.via].trust >= 1

\* MAX_TTL is the "maximum mesh hops": no route is longer, so that the
\* distances of a mesh that has lost its gateway cannot count up for ever.
\* True where replies do not arrive: a reply carries hops + 1 unchecked.
RoutesWithinTTL ==
  \A n \in Node : \A r \in routes[n] : r.hops \in 1..MaxTTL

\* A walk of k links leads from a gateway to n.
Walk(k, n) ==
  \E w \in [0..k -> Node] : /\ w[0] \in Gateway /\ w[k] = n
                            /\ \A i \in 0..(k - 1) : <<w[i], w[i + 1]>> \in Link

\* hops_to_gateway: whatever the beacons that it was learnt from have lived
\* through, a route of h hops was counted link by link from a gateway, so that
\* no distance is too short and none comes from a mesh that has no gateway.
\* True where replies do not arrive: a gateway answers a request with 0 hops.
RoutesComeFromGateways ==
  \A n \in Node : \A r \in routes[n] : Walk(r.hops, n)

\* A peer that stays in the table keeps its trust: neither a new beacon nor
\* a late vouch of a lesser voucher takes away what was granted.
TrustKept ==
  [][\A n \in Node : \A p \in known[n] \intersect known'[n] :
       peer'[n][p].trust >= peer[n][p].trust]_vars

\* "operator, trusted, vouched, unknown": whoever gains trust, other than
\* from outside, has a trusted voucher, recorded, that ranks above it.
VoucherOutranks ==
  [][\A n \in Node : \A p \in Node :
       peer'[n][p].trust > peer[n][p].trust =>
         \/ p \in Seeded /\ peer'[n][p].trust = 3
         \/ LET v == peer'[n][p].voucher
            IN /\ v \in known[n] /\ peer[n][v].trust >= 2
               /\ peer'[n][p].trust < peer[n][v].trust]_vars

\* The shipped program: no reply arrives and nobody is seeded.
Shipped == ~UnicastReaches /\ Seeded = {}

\* ... and then no node ever trusts a peer or has a route.
ShippedNeverRoutes ==
  Shipped => \A n \in Node : routes[n] = {} /\ \A p \in Node : peer[n][p].trust = 0

(***************************************************************************)
(* Liveness                                                                *)
(***************************************************************************)
\* The event loop runs a due maintenance round and reads what has arrived,
\* which the network does not repeat for ever; time passes.  Nothing forces a
\* beacon, a vouch, a start or a stop.
Progress ==
  /\ SF_vars(Tick)
  /\ \A n \in Node : WF_vars(Maintenance(n))
  /\ WF_vars(\E m \in net : Deliver(m) /\ m \notin net')

FairSpec == Spec /\ Progress

\* Once no gateway runs, no node goes on believing in one for ever: relays
\* that refresh each other's beacons count up to MAX_TTL and stop.
PhantomRoutesDie ==
  <>[](up \intersect Gateway = {}) => <>[](\A n \in up : Usable(n) = {})

\* A network that always lets a search and the frames it causes through in the
\* end.
FairNetSpec ==
  /\ FairSpec
  /\ \A n \in Node :
       /\ SF_vars(RoundTo(n, InRange(n)))
       /\ \A type \in {"request", "reply"} :
            SF_vars(\E m \in net : m.from = n /\ m.type = type /\ Deliver(m))

\* _on_route_reply "add gateway to our routing table", the end of the search
\* that a node without routes makes: when all nodes stay up with both their
\* loops and know one another, somebody who is not a gateway gets a route.
\* Violated where replies do not arrive.
SearchFindsGateway ==
  <>[](\A n \in Node : n \in up /\ loops[n] = Task /\ known[n] = Node \ {n})
    => <>(\E n \in Node \ Gateway : routes[n] # {})

=============================================================================
