---------------------------- MODULE Tunnel_proofs ----------------------------
(***************************************************************************)
(* A tunnel seen from its two ends: the composition implements the gateway *)
(* alone and the proxy alone, so that what is proved of each holds of them *)
(* together, for any number of connections of either side.                 *)
(***************************************************************************)
EXTENDS Tunnel, FiniteSetTheorems, TLAPS

\* The two components, with what is proved of them.
GateP == INSTANCE GatewaySessions_proofs

LeafP == INSTANCE LocalProxy_proofs WITH
  App <- Proxied,
  remote <- [c \in Proxied |-> IF peer[c] = "lost" THEN "closed" ELSE "open"]

(***************************************************************************)
(* GateP and LeafP are Gate and Leaf                                       *)
(***************************************************************************)
LEMMA SameSets ==
  /\ \A S : GateP!Cardinality(S) = Gate!Cardinality(S)
  /\ \A S : LeafP!Cardinality(S) = Leaf!Cardinality(S)
  /\ \A S : GateP!IsFiniteSet(S) = IsFiniteSet(S)
  /\ \A S : LeafP!IsFiniteSet(S) = IsFiniteSet(S)
  BY DEF GateP!Cardinality, Gate!Cardinality, LeafP!Cardinality, Leaf!Cardinality,
         GateP!IsFiniteSet, LeafP!IsFiniteSet, IsFiniteSet

LEMMA SameHandler ==
  ASSUME NEW c PROVE Gate!Handler(c) <=> GateP!Handler(c)
<1>1. /\ Gate!Written(c) <=> GateP!Written(c)
      /\ Gate!NextTurn(c) <=> GateP!NextTurn(c)
      /\ Gate!End(c) <=> GateP!End(c)
  BY DEF GateP!Written, Gate!Written, GateP!NextTurn, Gate!NextTurn, GateP!Leave,
         Gate!Leave, GateP!End, Gate!End, GateP!Goto, Gate!Goto, GateP!internet,
         Gate!internet
<1>2. /\ Gate!Connect(c) <=> GateP!Connect(c)
      /\ Gate!Register(c) <=> GateP!Register(c)
  BY SameSets
     DEF GateP!Connect, Gate!Connect, GateP!Admit, Gate!Admit, GateP!Register,
         Gate!Register, GateP!Grows, Gate!Grows, GateP!IsPrefix, Gate!IsPrefix,
         GateP!Goto, Gate!Goto, GateP!Unused, Gate!Unused, GateP!HasRoom,
         Gate!HasRoom, GateP!Handshaking, Gate!Handshaking, GateP!InRound,
         Gate!InRound, GateP!health, Gate!health, GateP!internet, Gate!internet
<1>3. /\ Gate!AsksConnect(c) <=> GateP!AsksConnect(c)
      /\ Gate!AsksDNS(c) <=> GateP!AsksDNS(c)
      /\ Gate!AsksCached(c) <=> GateP!AsksCached(c)
  BY DEF GateP!AsksConnect, Gate!AsksConnect, GateP!AsksDNS, Gate!AsksDNS,
         GateP!AsksCached, Gate!AsksCached, GateP!Asks, Gate!Asks, GateP!Arrives,
         Gate!Arrives, GateP!Goto, Gate!Goto, GateP!health, Gate!health,
         GateP!internet, Gate!internet
<1>4. /\ Gate!Connected(c) <=> GateP!Connected(c)
      /\ Gate!ConnectFails(c) <=> GateP!ConnectFails(c)
      /\ Gate!Resolved(c) <=> GateP!Resolved(c)
      /\ Gate!Drained(c) <=> GateP!Drained(c)
  BY <1>1 DEF GateP!Connected, Gate!Connected, GateP!ConnectFails,
              Gate!ConnectFails, GateP!Resolved, Gate!Resolved, GateP!Drained,
              Gate!Drained, GateP!internet, Gate!internet
<1> QED
  BY <1>1, <1>2, <1>3, <1>4
     DEF GateP!Handler, Gate!Handler, GateP!HandshakeEnds, Gate!HandshakeEnds,
         GateP!SessionEnds, Gate!SessionEnds

LEMMA SameRemote ==
  ASSUME NEW c PROVE Gate!Remote(c) <=> GateP!Remote(c)
  BY DEF GateP!Remote, Gate!Remote, GateP!TaskStarts, Gate!TaskStarts,
         GateP!Reads, Gate!Reads, GateP!RemoteSends, Gate!RemoteSends,
         GateP!RemoteCloses, Gate!RemoteCloses, GateP!RemoteEnds,
         Gate!RemoteEnds, GateP!TunnelOpen, Gate!TunnelOpen, GateP!tunnel,
         Gate!tunnel, GateP!health, Gate!health, GateP!internet, Gate!internet

LEMMA SamePeerStep ==
  ASSUME NEW c PROVE Gate!PeerStep(c) <=> GateP!PeerStep(c)
  BY DEF GateP!PeerStep, Gate!PeerStep, GateP!FallsSilent, Gate!FallsSilent,
         GateP!SendsAgain, Gate!SendsAgain, GateP!IsLost, Gate!IsLost,
         GateP!Unstalls, Gate!Unstalls, GateP!Breaks, Gate!Breaks,
         GateP!PeerTurns, Gate!PeerTurns, GateP!health, Gate!health,
         GateP!internet, Gate!internet

LEMMA SameGoOn ==
  ASSUME NEW r PROVE Gate!GoOn(r) <=> GateP!GoOn(r)
  BY SameSets
     DEF GateP!GoOn, Gate!GoOn, GateP!After, Gate!After, GateP!Suspends,
         Gate!Suspends, GateP!Finishes, Gate!Finishes, GateP!Aborts,
         Gate!Aborts, GateP!Threshold, Gate!Threshold, GateP!IsPrefix,
         Gate!IsPrefix, GateP!MaySuspend, Gate!MaySuspend, GateP!MayPass,
         Gate!MayPass, GateP!NoRound, Gate!NoRound

LEMMA SameProbe == Gate!Probe <=> GateP!Probe
  BY SameSets, SameGoOn
     DEF GateP!Probe, Gate!Probe, GateP!Degrade, Gate!Degrade,
         GateP!Threshold, Gate!Threshold, GateP!InRound, Gate!InRound,
         GateP!tunnel, Gate!tunnel, GateP!internet, Gate!internet

LEMMA SameDegradeOn == Gate!DegradeOn <=> GateP!DegradeOn
  BY SameSets, SameGoOn
     DEF GateP!DegradeOn, Gate!DegradeOn, GateP!Aborts, Gate!Aborts,
         GateP!NoRound, Gate!NoRound, GateP!Threshold, Gate!Threshold,
         GateP!InRound, Gate!InRound, GateP!tunnel, Gate!tunnel,
         GateP!internet, Gate!internet

LEMMA SameGateway ==
  /\ Gate!Init <=> GateP!Init
  /\ [Gate!Next]_(Gate!vars) <=> [GateP!Next]_(GateP!vars)
<1>1. Gate!Init <=> GateP!Init
  BY DEF GateP!Init, Gate!Init, GateP!NoRound, Gate!NoRound
<1>2. Gate!Stop <=> GateP!Stop
  BY DEF GateP!Stop, Gate!Stop, GateP!NoRound, Gate!NoRound, GateP!internet,
         Gate!internet
<1>3. Gate!DishChanges <=> GateP!DishChanges
  BY DEF GateP!DishChanges, Gate!DishChanges, GateP!tunnel, Gate!tunnel,
         GateP!health, Gate!health, GateP!internet, Gate!internet
<1>4. UNCHANGED Gate!vars <=> UNCHANGED GateP!vars
  BY DEF GateP!vars, Gate!vars, GateP!tunnel, Gate!tunnel, GateP!health,
         Gate!health, GateP!internet, Gate!internet
<1>5. Gate!Next <=> GateP!Next
  BY <1>2, <1>3, SameHandler, SameRemote, SamePeerStep, SameProbe, SameDegradeOn
     DEF Gate!Next, GateP!Next
<1> QED
  BY <1>1, <1>4, <1>5

LEMMA SameGatewayFacts ==
  /\ Gate!TypeOK <=> GateP!TypeOK
  /\ Gate!OvershootBounded <=> GateP!OvershootBounded
  BY SameSets DEF GateP!TypeOK, Gate!TypeOK, GateP!Peer, Gate!Peer, GateP!Await,
         Gate!Await, GateP!Round, Gate!Round, GateP!Threshold,
         Gate!Threshold, GateP!OvershootBounded, Gate!OvershootBounded

LEMMA SameStep ==
  ASSUME NEW c PROVE Leaf!Step(c) <=> LeafP!Step(c)
  BY DEF LeafP!Step, Leaf!Step, LeafP!Accept, Leaf!Accept, LeafP!Reject,
         Leaf!Reject, LeafP!Request, Leaf!Request, LeafP!ConnectFails,
         Leaf!ConnectFails, LeafP!ConnectSucceeds, Leaf!ConnectSucceeds,
         LeafP!UpEnds, Leaf!UpEnds, LeafP!DownEnds, Leaf!DownEnds, LeafP!End,
         Leaf!End, LeafP!Goto, Leaf!Goto, LeafP!PipeEnds, Leaf!PipeEnds,
         LeafP!ClientIsDone, Leaf!ClientIsDone, LeafP!ClientIsGone,
         Leaf!ClientIsGone

LEMMA SameProxy ==
  /\ Leaf!Init <=> LeafP!Init
  /\ [Leaf!Next]_(Leaf!vars) <=> [LeafP!Next]_(LeafP!vars)
<1>1. Leaf!Init <=> LeafP!Init
  BY DEF Leaf!Init, LeafP!Init
<1>2. Leaf!RemotesClose <=> LeafP!RemotesClose
  BY DEF Leaf!RemotesClose, LeafP!RemotesClose, Leaf!local, LeafP!local
<1>3. UNCHANGED Leaf!vars <=> UNCHANGED LeafP!vars
  BY DEF Leaf!vars, LeafP!vars, Leaf!local, LeafP!local
<1>4. Leaf!Next <=> LeafP!Next
  BY <1>2, SameStep DEF Leaf!Next, LeafP!Next
<1> QED
  BY <1>1, <1>3, <1>4

LEMMA SameProxyFacts ==
  /\ Leaf!TypeOK <=> LeafP!TypeOK
  /\ Leaf!ActiveIsCounted <=> LeafP!ActiveIsCounted
  BY SameSets DEF LeafP!TypeOK, Leaf!TypeOK, LeafP!Await, Leaf!Await, LeafP!Client,
         Leaf!Client, LeafP!ActiveIsCounted, Leaf!ActiveIsCounted

(***************************************************************************)
(* The gateway                                                             *)
(***************************************************************************)
LEMMA GatewayStep == [Next]_vars => [Gate!Next]_(Gate!vars)
<1> SUFFICES ASSUME [Next]_vars PROVE [Gate!Next]_(Gate!vars)
  OBVIOUS
<1>1. UNCHANGED gateway => UNCHANGED Gate!vars
  BY DEF gateway, Gate!vars, Gate!tunnel, Gate!internet, Gate!health
<1>2. ASSUME NEW c \in Conn, NEW p \in {"open", "silent"}, Gate!Admit(c, p)
      PROVE  Gate!Next
  BY <1>2 DEF Gate!Next, Gate!Handler, Gate!Connect
<1>3. ASSUME NEW c \in Proxied, Proxy(c)
      PROVE  [Gate!Next]_(Gate!vars)
  <2>1. c \in Conn
    BY TunnelAssumption
  <2> QED
    BY <1>1, <1>2, <1>3, <2>1 DEF Proxy, AcceptApp, LeafOnly, Dialled, NotDialled
<1>4. ASSUME NEW c \in Conn, Serves(c) \/ Pipes(c) \/ Elsewhere(c)
      PROVE  Gate!Next
  BY <1>4 DEF Serves, Pipes, Elsewhere, Gate!Next, Gate!PeerStep
<1>5. UNCHANGED vars => UNCHANGED gateway
  BY DEF vars
<1> QED
  BY <1>1, <1>3, <1>4, <1>5, TunnelAssumption DEF Next, Gate!Next

\* The gateway of a tunnel behaves as the gateway does with any peers: to be
\* dialled by a proxy is one way to be connected to.
THEOREM GatewayImplemented == Spec => Gate!Spec
<1>1. Init => Gate!Init
  BY DEF Init
<1> QED
  BY <1>1, GatewayStep, PTL DEF Spec, Gate!Spec

LEMMA GatewayOfProofs == GateP!GatewayAssumption /\ (Spec => GateP!Spec)
<1>1. GateP!GatewayAssumption
  BY TunnelAssumption, SameSets DEF GateP!GatewayAssumption
<1>2. Gate!Spec => GateP!Spec
  BY SameGateway, PTL DEF Gate!Spec, GateP!Spec
<1> QED
  BY <1>1, <1>2, GatewayImplemented

LEMMA Gateway == Spec => [](Gate!TypeOK /\ Gate!OvershootBounded)
<1>1. GateP!Spec => []GateP!TypeOK /\ []GateP!OvershootBounded
  BY GatewayOfProofs, GateP!TypeCorrect, GateP!OvershootIsBounded
<1> QED
  BY <1>1, GatewayOfProofs, SameGatewayFacts, PTL

\* The sessions exceed max_sessions by less than the handshakes under way, with
\* the connections that a proxy dialled and gave up among them.
THEOREM LimitIsKept == Spec => []LimitKept
  BY Gateway, PTL DEF LimitKept

(***************************************************************************)
(* The proxy                                                               *)
(***************************************************************************)
\* Only to be admitted takes a connection out of "lost": a step of the gateway
\* for another connection, or for one that it has admitted, opens no tunnel.
LEMMA NoneOpens ==
  ASSUME Gate!TypeOK, NEW c \in Conn, NEW d \in Conn, peer[d] = "lost",
         Gate!Handler(c) \/ Gate!Remote(c) \/ Gate!PeerStep(c),
         c = d => pc[c] # "none"
  PROVE  peer'[d] = "lost"
<1> USE DEF Gate!TypeOK
<1>1. CASE Gate!Connect(c)
  BY <1>1 DEF Gate!Connect, Gate!Admit, Gate!Unused
<1>2. ASSUME Gate!Leave(c) PROVE peer'[d] = "lost"
  BY <1>2 DEF Gate!Leave
<1>3. ASSUME Gate!Written(c) \/ Gate!NextTurn(c) PROVE peer'[d] = "lost"
  BY <1>2, <1>3 DEF Gate!Written, Gate!NextTurn
<1>4. CASE Gate!Remote(c)
  BY <1>4 DEF Gate!Remote, Gate!TaskStarts, Gate!RemoteSends, Gate!RemoteCloses,
              Gate!RemoteEnds, Gate!TunnelOpen, Gate!tunnel
<1>5. CASE Gate!PeerStep(c)
  BY <1>5 DEF Gate!PeerStep, Gate!FallsSilent, Gate!SendsAgain, Gate!IsLost,
              Gate!PeerTurns, Gate!Unstalls, Gate!Breaks
<1>6. CASE Gate!AsksCached(c)
  BY <1>6 DEF Gate!AsksCached, Gate!Arrives
<1>7. CASE Gate!Handler(c) /\ UNCHANGED peer
  BY <1>7
<1> QED
  BY <1>1, <1>2, <1>3, <1>4, <1>5, <1>6, <1>7
     DEF Gate!Handler, Gate!Register, Gate!AsksConnect, Gate!AsksDNS, Gate!Asks,
         Gate!HandshakeEnds, Gate!SessionEnds, Gate!End, Gate!Connected,
         Gate!ConnectFails, Gate!Resolved, Gate!Drained

\* So the far end of a tunnel that the proxy has no step for can only close.
LEMMA FarEndCloses ==
  ASSUME \A d \in Proxied : peer[d] = "lost" => peer'[d] = "lost", UNCHANGED leaf
  PROVE  Leaf!RemotesClose
<1> DEFINE far == [c \in Proxied |-> IF peer[c] = "lost" THEN "closed" ELSE "open"]
           S == {c \in Proxied : peer[c] # "lost" /\ peer'[c] = "lost"}
<1>1. S \in SUBSET {c \in Proxied : far[c] = "open"}
  OBVIOUS
<1>2. far' = [c \in Proxied |-> IF c \in S THEN "closed" ELSE far[c]]
  OBVIOUS
<1>3. UNCHANGED Leaf!local
  BY DEF leaf, Leaf!local
<1> QED
  BY <1>1, <1>2, <1>3 DEF Leaf!RemotesClose

LEMMA ProxyStep == Gate!TypeOK /\ [Next]_vars => [Leaf!Next]_(Leaf!vars)
<1> SUFFICES ASSUME Gate!TypeOK, [Next]_vars PROVE [Leaf!Next]_(Leaf!vars)
  OBVIOUS
<1> DEFINE OnlyCloses == \A d \in Proxied : peer[d] = "lost" => peer'[d] = "lost"
<1>1. UNCHANGED vars => UNCHANGED Leaf!vars
  BY DEF vars, gateway, leaf, Leaf!vars, Leaf!local
<1>2. ASSUME NEW c \in Proxied, Proxy(c) PROVE Leaf!Next
  BY <1>2 DEF Proxy, AcceptApp, LeafOnly, Dialled, NotDialled, Leaf!Next, Leaf!Step
<1>3. ASSUME NEW c \in Proxied, Serves(c) \/ Pipes(c) PROVE OnlyCloses
  <2>1. (Gate!Handler(c) /\ pc[c] # "none") \/ Gate!Remote(c) \/ Gate!PeerStep(c)
    BY <1>3 DEF Serves, Pipes, Gate!PeerStep
  <2>2. CASE (Gate!Handler(c) \/ Gate!Remote(c) \/ Gate!PeerStep(c)) /\ pc[c] # "none"
    BY <2>2, NoneOpens, TunnelAssumption
  <2>3. CASE Gate!Remote(c) /\ pc[c] = "none"
    BY <2>3, TunnelAssumption DEF Gate!Remote, Gate!TaskStarts, Gate!RemoteSends,
         Gate!RemoteCloses, Gate!RemoteEnds, Gate!TunnelOpen, Gate!tunnel
  <2>4. CASE Gate!PeerStep(c) /\ pc[c] = "none"
    BY <2>4, TunnelAssumption DEF Gate!TypeOK, Gate!PeerStep, Gate!FallsSilent,
         Gate!SendsAgain, Gate!IsLost, Gate!PeerTurns, Gate!Unstalls, Gate!Breaks
  <2> QED
    BY <2>1, <2>2, <2>3, <2>4
<1>4. ASSUME NEW c \in Conn \ Proxied, Elsewhere(c) PROVE OnlyCloses
  BY <1>4, NoneOpens, TunnelAssumption DEF Elsewhere
<1>5. ASSUME Gate!Probe \/ Gate!DegradeOn \/ Gate!Stop \/ Gate!DishChanges
      PROVE  OnlyCloses
  BY <1>5, TunnelAssumption DEF Gate!Probe, Gate!DegradeOn, Gate!Stop,
                                Gate!DishChanges, Gate!tunnel
<1>6. OnlyCloses /\ UNCHANGED leaf => Leaf!Next
  BY FarEndCloses DEF Leaf!Next
<1> HIDE DEF OnlyCloses
<1> QED
  BY <1>1, <1>2, <1>3, <1>4, <1>5, <1>6 DEF Next

\* The far end of a proxy is free in LocalProxy: what a gateway does is among
\* what it may do.
LEMMA ProxyImplemented == Spec => Leaf!Spec
<1>1. Gate!TypeOK /\ Init => Leaf!Init
  BY DEF Init
<1> QED
  BY <1>1, Gateway, ProxyStep, PTL DEF Spec, Leaf!Spec

LEMMA ProxyFacts == Spec => [](Leaf!TypeOK /\ Leaf!ActiveIsCounted)
<1>1. LeafP!IsFiniteSet(Proxied)
  <2>1. IsFiniteSet(Proxied)
    BY TunnelAssumption, FS_Subset
  <2> QED
    BY <2>1, SameSets
<1>2. LeafP!Spec => []LeafP!TypeOK /\ []LeafP!ActiveIsCounted
  BY <1>1, LeafP!TypeCorrect, LeafP!CountIsRight
<1>3. Leaf!Spec => LeafP!Spec
  BY SameProxy, PTL DEF Leaf!Spec, LeafP!Spec
<1> QED
  BY <1>2, <1>3, ProxyImplemented, SameProxyFacts, PTL

\* The proxy's count of its connections is right whatever the gateway does.
THEOREM CountIsRight == Spec => []ProxyCounts
  BY ProxyFacts, PTL DEF ProxyCounts

\* Type correctness of both ends.
THEOREM TypeCorrect == Spec => []TypeOK
  BY Gateway, ProxyFacts, PTL DEF TypeOK

=============================================================================
