------------------------------ MODULE MeshData ------------------------------
(***************************************************************************)
(* The data plane of core/node.py: DATA frames relayed hop by hop toward a *)
(* gateway.  The routing tables are those of MeshRouting; here the next    *)
(* hop that best_route returns at a relay is any other node or none, and   *)
(* may differ each time, because tables change while a frame travels and   *)
(* nothing keeps two nodes from pointing at each other.                    *)
(*                                                                         *)
(* A frame goes to Peer.addresses[0], the source of the peer's last        *)
(* beacon.  In the shipped program that is the port of a socket that the   *)
(* peer has closed, and nobody hears the frame: UnicastReaches is FALSE,   *)
(* and ShippedDeliversNothing is all there is to say.  What the relays     *)
(* would do with frames that arrive is the case UnicastReaches = TRUE.     *)
(***************************************************************************)
EXTENDS Integers, FiniteSets

CONSTANTS
  Node,          \* node identities
  Relay,         \* the nodes with Role.HOP or Role.GATEWAY
  AnyGateway,    \* dest_id 0x00*8, "any gateway"
  Packet,        \* what is sent: a packet is sent at most once
  MaxTTL,        \* MAX_TTL
  UnicastReaches, \* a datagram sent to Peer.addresses[0] can arrive
  MayDuplicate   \* the network may deliver a datagram twice

ASSUME DataAssumption ==
  /\ Relay \subseteq Node
  /\ AnyGateway \notin Node
  /\ MaxTTL \in Nat \ {0}
  /\ UnicastReaches \in BOOLEAN /\ MayDuplicate \in BOOLEAN

VARIABLES
  sent,      \* the packets that were sent
  net,       \* frames in flight
  delivered  \* <<node, packet, hops>>: handed to _deliver_local

vars == <<sent, net, delivered>>

\* hops counts the datagrams a frame has been so far; no field carries it.
Frame == [packet : Packet, dest : Node \union {AnyGateway}, to : Node,
          ttl : 0..MaxTTL, hops : 1..MaxTTL + 1]

Init == sent = {} /\ net = {} /\ delivered = {}

(***************************************************************************)
(* Sending                                                                 *)
(***************************************************************************)
\* The next hop of best_route; a node is never its own peer.
NextHops(n) == Node \ {n}

\* What comes of a frame sent to Peer.addresses[0]: to a port where no node
\* listens, it is as good as not sent.
Unicast(f) == IF UnicastReaches THEN {f} ELSE {}

\* A new frame for dest, to the next hop q.
Originate(n, p, dest, q) ==
  /\ p \notin sent
  /\ sent' = sent \union {p}
  /\ net' = net \union
       Unicast([packet |-> p, dest |-> dest, to |-> q, ttl |-> MaxTTL, hops |-> 1])
  /\ UNCHANGED delivered

\* send_to_gateway; without a route it returns False and nothing changes.
SendToGateway(n, p) == \E q \in NextHops(n) : Originate(n, p, AnyGateway, q)

\* A frame for one node: _on_data serves it, but only code outside src/
\* sends one.
SendToNode(n, p, d) == \E q \in NextHops(n) : Originate(n, p, d, q)

(***************************************************************************)
(* Receiving                                                               *)
(***************************************************************************)
Rest(m) == {net \ {m}} \union (IF MayDuplicate THEN {net} ELSE {})

\* The network loses a datagram.
Lose(m) == net' = net \ {m} /\ UNCHANGED <<sent, delivered>>

\* _on_data: an expired frame, a leaf that does not relay, or a relay that
\* has no route at the moment.  dest_id is compared with the node's own id
\* only, so that a gateway treats a frame for any gateway as any relay does.
Ignore(m) ==
  /\ m.ttl <= 0 \/ m.dest # m.to
  /\ net' \in Rest(m)
  /\ UNCHANGED <<sent, delivered>>

\* Fault: the ttl is not looked at.
DeliverExpired(m) ==
  /\ m.dest = m.to
  /\ delivered' = delivered \union {<<m.to, m.packet, m.hops>>}
  /\ net' \in Rest(m)
  /\ UNCHANGED sent

DeliverLocal(m) ==
  /\ m.ttl > 0
  /\ m.dest = m.to
  /\ delivered' = delivered \union {<<m.to, m.packet, m.hops>>}
  /\ net' \in Rest(m)
  /\ UNCHANGED sent

\* Fault: the ttl is not decremented.
RelayedForever(m, q) == [packet |-> m.packet, dest |-> m.dest, to |-> q,
                         ttl |-> m.ttl, hops |-> m.hops + 1]

\* Fault: the frame is passed on as it came.
RelayedAsIs(m, q) == [m EXCEPT !.to = q]

\* The frame that a relay builds from m for the next hop q.
Relayed(m, q) == [packet |-> m.packet, dest |-> m.dest, to |-> q,
                  ttl |-> m.ttl - 1, hops |-> m.hops + 1]

\* Fault: expired frames are passed on.
ForwardExpired(m) ==
  /\ m.dest # m.to
  /\ m.to \in Relay
  /\ \E q \in NextHops(m.to), rest \in Rest(m) :
       net' = rest \union Unicast(Relayed(m, q))
  /\ UNCHANGED <<sent, delivered>>

\* Fault: the frame is sent to two next hops.
ForwardTwice(m) ==
  /\ m.ttl > 0 /\ m.dest # m.to /\ m.to \in Relay
  /\ \E rest \in Rest(m) :
       net' = rest \union UNION {Unicast(Relayed(m, q)) : q \in NextHops(m.to)}
  /\ UNCHANGED <<sent, delivered>>

Forward(m) ==
  /\ m.ttl > 0
  /\ m.dest # m.to
  /\ m.to \in Relay
  /\ \E q \in NextHops(m.to), rest \in Rest(m) :
       net' = rest \union Unicast(Relayed(m, q))
  /\ UNCHANGED <<sent, delivered>>

OnData(m) == DeliverLocal(m) \/ Forward(m) \/ Ignore(m)

Next ==
  \/ \E n \in Node, p \in Packet :
       SendToGateway(n, p) \/ \E d \in Node \ {n} : SendToNode(n, p, d)
  \/ \E m \in net : OnData(m) \/ Lose(m)

Spec == Init /\ [][Next]_vars

\* The event loop reads what has arrived.
FairSpec == Spec /\ WF_vars(\E m \in net : OnData(m))

(***************************************************************************)
(* Properties                                                              *)
(***************************************************************************)
TypeOK ==
  /\ sent \subseteq Packet
  /\ net \subseteq Frame
  /\ delivered \subseteq Node \X Packet \X (1..MaxTTL + 1)

\* The ttl byte counts the hops down exactly, whatever the routing tables do
\* meanwhile: it never goes below 0, where struct.pack(">B") would raise.
TTLCountsHops ==
  \A m \in net : m.ttl + m.hops = MaxTTL + 1 /\ m.ttl >= 0

\* MAX_TTL is the "maximum mesh hops": no packet is delivered later, however
\* often it went round a routing loop.
DeliveredWithinMaxTTL == \A d \in delivered : d[3] <= MaxTTL

\* A relay moves a packet, it does not multiply it: unless the network
\* duplicates, a packet is in one place, in flight or delivered once.
OneCopy ==
  ~MayDuplicate => \A p \in Packet :
    Cardinality({m \in net : m.packet = p})
      + Cardinality({d \in delivered : d[2] = p}) <= 1

\* Frames in a routing loop leave the network in the end, however the next
\* hops change.
LoopsEnd == <>[](net = {})

\* Nothing that is sent to Peer.addresses[0] gets anywhere, as shipped.
ShippedDeliversNothing == ~UnicastReaches => net = {} /\ delivered = {}

=============================================================================
