--------------------------- MODULE MeshData_proofs ---------------------------
(***************************************************************************)
(* The ttl byte bounds every journey, for any mesh, any MAX_TTL, any       *)
(* choice of next hops and a network that duplicates.                      *)
(***************************************************************************)
EXTENDS MeshData, FiniteSetTheorems, TLAPS

\* Type correctness needs the ttl count, and the bound on deliveries both.
IInv == TypeOK /\ TTLCountsHops /\ DeliveredWithinMaxTTL

\* A frame that arrives with ttl left makes a well-formed next frame.
LEMMA NextFrame ==
  ASSUME NEW m \in Frame, NEW q \in Node,
         m.ttl > 0, m.ttl + m.hops = MaxTTL + 1
  PROVE  /\ Relayed(m, q) \in Frame
         /\ Relayed(m, q).ttl + Relayed(m, q).hops = MaxTTL + 1
         /\ Relayed(m, q).ttl >= 0
<1>1. m.ttl \in 0..MaxTTL /\ m.hops \in 1..MaxTTL + 1
  BY DEF Frame
<1>2. m.ttl - 1 \in 0..MaxTTL /\ m.hops + 1 \in 1..MaxTTL + 1
  BY <1>1, DataAssumption
<1> QED
  BY <1>1, <1>2, DataAssumption DEF Frame, Relayed

LEMMA UnicastIsOne == ASSUME NEW f PROVE Unicast(f) \subseteq {f}
  BY DEF Unicast

LEMMA RestIsSmaller == ASSUME NEW m, NEW r \in Rest(m) PROVE r \subseteq net
  BY DEF Rest

\* Type correctness of the data plane.
LEMMA InvInit == Init => IInv
  BY DataAssumption DEF Init, IInv, TypeOK, TTLCountsHops, DeliveredWithinMaxTTL

LEMMA InvNext == IInv /\ [Next]_vars => IInv'
<1> SUFFICES ASSUME IInv, [Next]_vars PROVE IInv'
  OBVIOUS
<1> USE DEF IInv, TypeOK, TTLCountsHops, DeliveredWithinMaxTTL
<1>1. ASSUME NEW n \in Node, NEW p \in Packet, NEW d \in Node \union {AnyGateway},
             NEW q \in NextHops(n), Originate(n, p, d, q)
      PROVE  IInv'
  <2>1. [packet |-> p, dest |-> d, to |-> q, ttl |-> MaxTTL, hops |-> 1] \in Frame
    BY <1>1, DataAssumption DEF NextHops, Frame
  <2> QED
    BY <1>1, <2>1, UnicastIsOne, DataAssumption DEF Originate
<1>2. ASSUME NEW m \in net, DeliverLocal(m) PROVE IInv'
  <2>1. m \in Frame /\ m.ttl > 0 /\ m.ttl + m.hops = MaxTTL + 1
    BY <1>2 DEF DeliverLocal
  <2>2. m.hops \in 1..MaxTTL /\ m.to \in Node /\ m.packet \in Packet
    BY <2>1, DataAssumption DEF Frame
  <2>3. net' \subseteq net
    BY <1>2, RestIsSmaller DEF DeliverLocal
  <2> QED
    BY <1>2, <2>2, <2>3, DataAssumption DEF DeliverLocal
<1>3. ASSUME NEW m \in net, Forward(m) PROVE IInv'
  <2>1. PICK q \in NextHops(m.to), rest \in Rest(m) :
          net' = rest \union Unicast(Relayed(m, q))
    BY <1>3 DEF Forward
  <2>2. m \in Frame /\ q \in Node /\ m.ttl > 0 /\ m.ttl + m.hops = MaxTTL + 1
    BY <1>3 DEF Forward, NextHops
  <2> QED
    BY <1>3, <2>1, <2>2, NextFrame, RestIsSmaller, UnicastIsOne DEF Forward
<1>4. ASSUME NEW m \in net, Ignore(m) \/ Lose(m) PROVE IInv'
  <2>1. net' \subseteq net /\ UNCHANGED <<sent, delivered>>
    BY <1>4, RestIsSmaller DEF Ignore, Lose
  <2> QED
    BY <2>1
<1>5. CASE UNCHANGED vars
  BY <1>5 DEF vars
<1> QED
  BY <1>1, <1>2, <1>3, <1>4, <1>5 DEF Next, SendToGateway, SendToNode, OnData

LEMMA Invariance == Spec => []IInv
  BY InvInit, InvNext, PTL DEF Spec

\* Every frame on the wire is well-formed, its ttl byte in 0..MAX_TTL.
THEOREM TypeCorrect == Spec => []TypeOK
  BY Invariance, PTL DEF IInv

\* The ttl byte counts the hops down exactly, and never below 0.
THEOREM TTLCorrect == Spec => []TTLCountsHops
  BY Invariance, PTL DEF IInv

\* No packet is delivered beyond MAX_TTL hops.
THEOREM DeliveryBounded == Spec => []DeliveredWithinMaxTTL
  BY Invariance, PTL DEF IInv

(***************************************************************************)
(* One copy                                                                *)
(***************************************************************************)
\* Cardinalities are awkward to follow through a step: where a packet is, is
\* said of its frames and deliveries one by one.  That it is nowhere before it
\* is sent is what keeps a second frame from being made.
OnePlace ==
  /\ \A m1, m2 \in net : m1.packet = m2.packet => m1 = m2
  /\ \A d1, d2 \in delivered : d1[2] = d2[2] => d1 = d2
  /\ \A m \in net : m.packet \in sent /\ \A d \in delivered : m.packet # d[2]
  /\ \A d \in delivered : d[2] \in sent

LEMMA OnePlaceNext ==
  ASSUME ~MayDuplicate, OnePlace, [Next]_vars
  PROVE  OnePlace'
<1> USE DEF OnePlace
<1>1. ASSUME NEW n \in Node, NEW p \in Packet, NEW d \in Node \union {AnyGateway},
             NEW q \in NextHops(n), Originate(n, p, d, q)
      PROVE  OnePlace'
  <2> DEFINE f == [packet |-> p, dest |-> d, to |-> q, ttl |-> MaxTTL, hops |-> 1]
  <2>1. /\ p \notin sent /\ sent' = sent \union {p}
        /\ net' \subseteq net \union {f}
        /\ f.packet = p /\ delivered' = delivered
    BY <1>1, UnicastIsOne DEF Originate
  <2> HIDE DEF f
  <2> QED
    BY <2>1
<1>2. ASSUME NEW m \in net, DeliverLocal(m) PROVE OnePlace'
  <2> DEFINE e == <<m.to, m.packet, m.hops>>
  <2>1. /\ net' = net \ {m} /\ delivered' = delivered \union {e}
        /\ e[2] = m.packet /\ sent' = sent
    BY <1>2 DEF DeliverLocal, Rest
  <2> HIDE DEF e
  <2> QED
    BY <2>1
<1>3. ASSUME NEW m \in net, Forward(m) PROVE OnePlace'
  <2>1. PICK q \in NextHops(m.to) : net' \subseteq (net \ {m}) \union {Relayed(m, q)}
    BY <1>3, UnicastIsOne DEF Forward, Rest
  <2>2. Relayed(m, q).packet = m.packet
    BY DEF Relayed
  <2> QED
    BY <1>3, <2>1, <2>2 DEF Forward
<1>4. ASSUME NEW m \in net, Ignore(m) \/ Lose(m) PROVE OnePlace'
  BY <1>4 DEF Ignore, Lose, Rest
<1>5. CASE UNCHANGED vars
  BY <1>5 DEF vars
<1> QED
  BY <1>1, <1>2, <1>3, <1>4, <1>5 DEF Next, SendToGateway, SendToNode, OnData

LEMMA AtMostOne ==
  ASSUME NEW S, \A x, y \in S : x = y
  PROVE  Cardinality(S) = IF S = {} THEN 0 ELSE 1
<1>1. CASE S = {}
  BY <1>1, FS_EmptySet
<1>2. ASSUME NEW x \in S PROVE Cardinality(S) = 1
  <2>1. S = {x}
    OBVIOUS
  <2> QED
    BY <2>1, FS_Singleton
<1> QED
  BY <1>1, <1>2

LEMMA OnePlaceIsOneCopy == (~MayDuplicate => OnePlace) => OneCopy
<1> SUFFICES ASSUME ~MayDuplicate, OnePlace, NEW p \in Packet
             PROVE  Cardinality({m \in net : m.packet = p})
                      + Cardinality({d \in delivered : d[2] = p}) <= 1
  BY DEF OneCopy
<1> DEFINE M == {m \in net : m.packet = p}
           D == {d \in delivered : d[2] = p}
<1>1. (\A x, y \in M : x = y) /\ (\A x, y \in D : x = y) /\ (M = {} \/ D = {})
  BY DEF OnePlace
<1> HIDE DEF M, D
<1>2. /\ Cardinality(M) = IF M = {} THEN 0 ELSE 1
      /\ Cardinality(D) = IF D = {} THEN 0 ELSE 1
  BY <1>1, AtMostOne
<1> QED
  BY <1>1, <1>2 DEF M, D

\* Relays move a packet, they never multiply it, however the next hops change:
\* if the network duplicates nothing, a packet is in one place at any time.
THEOREM MovedNotCopied == Spec => []OneCopy
<1> DEFINE P == ~MayDuplicate => OnePlace
<1>1. Init => P
  BY DEF Init, OnePlace
<1>2. P /\ [Next]_vars => P'
  BY OnePlaceNext
<1>3. P => OneCopy
  BY OnePlaceIsOneCopy
<1> HIDE DEF P
<1> QED
  BY <1>1, <1>2, <1>3, PTL DEF Spec

(***************************************************************************)
(* Loops run down                                                          *)
(***************************************************************************)
\* A frame that a step puts on the wire for a packet sent before takes the
\* place of one with one ttl more: same packet, same destination.
RunsDown ==
  \A m \in net' \ net : m.packet \in sent =>
    \E f \in net : /\ f.packet = m.packet /\ f.dest = m.dest
                   /\ f.ttl = m.ttl + 1 /\ f.hops + 1 = m.hops
                   /\ ~MayDuplicate => f \notin net'

\* No step but sending it anew prolongs the journey of a packet, however the
\* next hops change: the ttl of its frame, which TTLCorrect keeps from falling
\* below 0, is what LoopsEnd runs out of.
THEOREM LoopsRunDown == Spec => [][RunsDown]_vars
<1>1. ASSUME IInv, [Next]_vars PROVE RunsDown
  <2> USE DEF IInv
  <2> DEFINE Source(f, m) == /\ f.packet = m.packet /\ f.dest = m.dest
                             /\ f.ttl = m.ttl + 1 /\ f.hops + 1 = m.hops
                             /\ ~MayDuplicate => f \notin net'
  <2> SUFFICES ASSUME NEW m \in net' \ net, m.packet \in sent
               PROVE  \E f \in net : Source(f, m)
    BY DEF RunsDown
  <2>1. ASSUME NEW n \in Node, NEW p \in Packet, NEW d, NEW q, Originate(n, p, d, q)
        PROVE  FALSE
    <3> DEFINE f == [packet |-> p, dest |-> d, to |-> q, ttl |-> MaxTTL, hops |-> 1]
    <3>1. p \notin sent /\ net' \subseteq net \union {f} /\ f.packet = p
      BY <2>1, UnicastIsOne DEF Originate
    <3> HIDE DEF f
    <3> QED
      BY <3>1
  <2>2. ASSUME NEW f \in net, Forward(f) PROVE Source(f, m)
    <3>1. PICK q \in NextHops(f.to), rest \in Rest(f) : net' = rest \union Unicast(Relayed(f, q))
      BY <2>2 DEF Forward
    <3>2. m = Relayed(f, q)
      BY <3>1, RestIsSmaller, UnicastIsOne
    <3>3. f.ttl \in Int /\ f.hops \in Int
      <4>1. f \in Frame
        BY <1>1 DEF TypeOK
      <4> QED
        BY <4>1, DataAssumption DEF Frame
    <3>4. /\ m.packet = f.packet /\ m.dest = f.dest
          /\ m.ttl = f.ttl - 1 /\ m.hops = f.hops + 1
      BY <3>2 DEF Relayed
    <3>5. ~MayDuplicate => rest = net \ {f}
      BY DEF Rest
    <3>6. f # m
      BY <3>3, <3>4
    <3> QED
      BY <3>1, <3>2, <3>3, <3>4, <3>5, <3>6, UnicastIsOne DEF Source
  <2>3. ASSUME NEW f \in net, DeliverLocal(f) \/ Ignore(f) \/ Lose(f) PROVE FALSE
    BY <2>3, RestIsSmaller DEF DeliverLocal, Ignore, Lose
  <2>4. CASE UNCHANGED vars
    BY <2>4 DEF vars
  <2> HIDE DEF Source
  <2>5. ASSUME NEW f \in net, OnData(f) \/ Lose(f) PROVE Source(f, m)
    BY <2>2, <2>3, <2>5 DEF OnData
  <2>6. ~\E n \in Node, p \in Packet :
           SendToGateway(n, p) \/ \E d \in Node \ {n} : SendToNode(n, p, d)
    BY <2>1 DEF SendToGateway, SendToNode
  <2> QED
    BY <1>1, <2>4, <2>5, <2>6 DEF Next
<1> QED
  BY <1>1, Invariance, PTL DEF Spec

(***************************************************************************)
(* As shipped                                                              *)
(***************************************************************************)
\* Where no frame reaches the port it is sent to, none is ever in flight and
\* none delivered, whatever is sent.
THEOREM NothingArrives == Spec => []ShippedDeliversNothing
<1>1. Init => ShippedDeliversNothing
  BY DEF Init, ShippedDeliversNothing
<1>2. ShippedDeliversNothing /\ [Next]_vars => ShippedDeliversNothing'
  BY DEF ShippedDeliversNothing, Next, vars, SendToGateway, SendToNode,
         Originate, Unicast
<1> QED
  BY <1>1, <1>2, PTL DEF Spec

=============================================================================
