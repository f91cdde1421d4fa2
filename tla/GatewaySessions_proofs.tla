----------------------- MODULE GatewaySessions_proofs -----------------------
(***************************************************************************)
(* How far the limit on sessions is kept, for any limit and any number of  *)
(* connections and handshakes, and what is left of a stopped gateway.      *)
(***************************************************************************)
EXTENDS GatewaySessions, FiniteSetTheorems, TLAPS

(***************************************************************************)
(* Type correctness                                                        *)
(***************************************************************************)
LEMMA SessionsAreFinite ==
  ASSUME NEW S \in SUBSET Conn
  PROVE  IsFiniteSet(S) /\ Cardinality(S) \in Nat
  BY FS_Subset, FS_CardinalityType, GatewayAssumption

\* A wait of a handler that is past its handshake leaves the dictionary as it is.
LEMMA GotoKeepsSessions ==
  ASSUME TypeOK, NEW c \in Conn, NEW a \in Await, Goto(c, a),
         pc[c] \notin {"none", "handshake"}, a \notin {"none", "handshake"},
         sessions' = sessions
  PROVE  /\ pc' \in [Conn -> Await]
         /\ sessions' = {d \in Conn : pc'[d] \notin {"none", "handshake"}}
         /\ Handshaking' = Handshaking
  BY DEF Goto, TypeOK, Handshaking

\* An iteration goes on to a state of an iteration, or ends.
LEMMA GoOnType ==
  ASSUME NEW r \in Round, told \subseteq Conn, GoOn(r)
  PROVE  round' \in Round /\ failures' \in 0..Threshold /\ told' \subseteq Conn
<1>1. PICK S \in SUBSET (r.left \union r.fresh) :
        \/ \E c \in Conn :
             Suspends(After(r, S), c) /\ told' = told \union S \union {c}
        \/ Finishes(After(r, S)) /\ told' = told \union S
  BY DEF GoOn
<1>2. S \subseteq Conn
  BY DEF Round
<1>3. After(r, S) \in Round
  <2>1. Cardinality(S) \in Nat
    BY <1>2, SessionsAreFinite
  <2> QED
    BY <2>1 DEF After, Round
<1>4. NoRound \in Round
  BY DEF NoRound, Round
<1>5. ASSUME NEW q \in Round, NEW c \in Conn, Suspends(q, c)
      PROVE  round' \in Round /\ failures' \in 0..Threshold
  BY <1>5 DEF Suspends, Round, Threshold
<1>6. ASSUME NEW q \in Round, Finishes(q)
      PROVE  round' \in Round /\ failures' \in 0..Threshold
  BY <1>4, <1>6 DEF Finishes, Aborts, Threshold
<1> QED
  BY <1>1, <1>2, <1>3, <1>5, <1>6

LEMMA DegradeType ==
  ASSUME TypeOK, Degrade
  PROVE  round' \in Round /\ failures' \in 0..Threshold /\ told' \subseteq Conn
<1> DEFINE r == [awaits |-> NoConn, size |-> Cardinality(sessions),
                 quota |-> Cardinality(sessions), left |-> sessions, fresh |-> {}]
<1>1. sessions \subseteq Conn /\ told \subseteq Conn
  BY DEF TypeOK
<1>2. Cardinality(sessions) \in Nat
  BY <1>1, SessionsAreFinite
<1>3. r \in Round
  BY <1>1, <1>2 DEF Round
<1>4. GoOn(r)
  BY DEF Degrade
<1> HIDE DEF r
<1> QED
  BY <1>1, <1>3, <1>4, GoOnType

LEMMA TypeInit == Init => TypeOK
<1>1. NoRound \in Round
  BY DEF NoRound, Round
<1> QED
  BY <1>1, GatewayAssumption DEF Init, TypeOK, Await, Peer, Threshold

\* The end of a handler.
LEMMA LeaveType ==
  ASSUME TypeOK, NEW c \in Conn, Leave(c)
  PROVE  /\ pc' \in [Conn -> Await]
         /\ sessions' = {d \in Conn : pc'[d] \notin {"none", "handshake"}}
         /\ peer' \in [Conn -> Peer]
         /\ round' \in Round /\ told' \subseteq Conn
         /\ Handshaking' \in SUBSET Handshaking /\ sessions' \in SUBSET sessions
<1>1. /\ pc' \in [Conn -> Await]
      /\ sessions' = {d \in Conn : pc'[d] \notin {"none", "handshake"}}
      /\ Handshaking' \in SUBSET Handshaking /\ sessions' \in SUBSET sessions
  BY DEF TypeOK, Leave, Goto, Await, Handshaking
<1>2. peer' \in [Conn -> Peer]
  BY DEF TypeOK, Leave, Peer
<1>3. round' \in Round /\ told' \subseteq Conn
  BY DEF TypeOK, Leave, Round
<1> QED
  BY <1>1, <1>2, <1>3

LEMMA EndType ==
  ASSUME TypeOK, NEW c \in Conn, End(c)
  PROVE  /\ TypeOK'
         /\ Handshaking' \in SUBSET Handshaking /\ sessions' \in SUBSET sessions
  BY LeaveType DEF End, TypeOK, internet

\* A session goes on to another wait, or ends when its message is served.
LEMMA ServedType ==
  ASSUME TypeOK, NEW c \in Conn, pc[c] \notin {"none", "handshake"},
         Written(c) \/ NextTurn(c)
  PROVE  /\ pc' \in [Conn -> Await]
         /\ sessions' = {d \in Conn : pc'[d] \notin {"none", "handshake"}}
         /\ peer' \in [Conn -> Peer]
         /\ round' \in Round /\ told' \subseteq Conn
         /\ Handshaking' \in SUBSET Handshaking /\ sessions' \in SUBSET sessions
<1>1. \/ Leave(c)
      \/ /\ \E a \in {"drain", "message"} : Goto(c, a)
         /\ UNCHANGED <<sessions, peer, round, told>>
  BY DEF Written, NextTurn
<1>2. ASSUME NEW a \in {"drain", "message"}, Goto(c, a), sessions' = sessions
      PROVE  /\ pc' \in [Conn -> Await]
             /\ sessions' = {d \in Conn : pc'[d] \notin {"none", "handshake"}}
             /\ Handshaking' = Handshaking
  BY <1>2, GotoKeepsSessions DEF Await
<1> QED
  BY <1>1, <1>2, LeaveType DEF TypeOK

\* The waits of a session for an internet connection, an answer, a drain.
LEMMA ServesType ==
  ASSUME TypeOK, NEW c \in Conn,
         \/ AsksConnect(c) \/ AsksDNS(c) \/ AsksCached(c)
         \/ Connected(c) \/ ConnectFails(c) \/ Resolved(c) \/ Drained(c)
  PROVE  /\ TypeOK'
         /\ Handshaking' \in SUBSET Handshaking /\ sessions' \in SUBSET sessions
<1> DEFINE Goal == /\ TypeOK'
                   /\ Handshaking' \in SUBSET Handshaking
                   /\ sessions' \in SUBSET sessions
<1>1. ASSUME AsksConnect(c) \/ AsksDNS(c) \/ AsksCached(c) PROVE Goal
  <2>1. /\ pc[c] = "message" /\ sessions' = sessions
        /\ UNCHANGED <<running, dish, internet, health>>
    BY <1>1 DEF AsksConnect, AsksDNS, AsksCached, Asks, Arrives
  <2>2. \E a \in {"connect", "resolve", "drain"} : Goto(c, a)
    BY <1>1 DEF AsksConnect, AsksDNS, AsksCached, Asks
  <2>3. peer' \in [Conn -> Peer]
    BY <1>1 DEF AsksConnect, AsksDNS, AsksCached, Asks, TypeOK, Peer
  <2>4. /\ pc' \in [Conn -> Await]
        /\ sessions' = {d \in Conn : pc'[d] \notin {"none", "handshake"}}
        /\ Handshaking' = Handshaking
    BY <2>1, <2>2, GotoKeepsSessions DEF Await
  <2> QED
    BY <2>1, <2>3, <2>4 DEF TypeOK, internet, health
<1>2. ASSUME ConnectFails(c) \/ Resolved(c) \/ Drained(c) PROVE Goal
  <2>1. /\ pc[c] \notin {"none", "handshake"} /\ (Written(c) \/ NextTurn(c))
        /\ UNCHANGED <<running, dish, remotes, unstarted, failures>>
    BY <1>2 DEF ConnectFails, Resolved, Drained, internet
  <2> QED
    BY <2>1, ServedType DEF TypeOK
<1>3. ASSUME Connected(c) PROVE Goal
  <2>1. /\ pc[c] \notin {"none", "handshake"} /\ Written(c)
        /\ UNCHANGED <<running, dish, failures>>
    BY <1>3 DEF Connected
  <2>2. /\ remotes' \in [Conn -> 0..MaxRemotes]
        /\ unstarted' \subseteq {d \in Conn : remotes'[d] > 0}
    BY <1>3, GatewayAssumption DEF Connected, TypeOK
  <2> QED
    BY <2>1, <2>2, ServedType DEF TypeOK
<1> QED
  BY <1>1, <1>2, <1>3

LEMMA HandlerType ==
  ASSUME TypeOK, NEW c \in Conn, Handler(c)
  PROVE  TypeOK'
<1>1. CASE Connect(c)
  <2>1. /\ pc' \in [Conn -> Await] /\ peer' \in [Conn -> Peer]
        /\ sessions' = {d \in Conn : pc'[d] \notin {"none", "handshake"}}
    BY <1>1 DEF Connect, Admit, Unused, Goto, TypeOK, Await, Peer
  <2> QED
    BY <1>1, <2>1 DEF Connect, Admit, TypeOK, internet, health
<1>2. CASE Register(c)
  <2>1. /\ pc' \in [Conn -> Await]
        /\ sessions' = {d \in Conn : pc'[d] \notin {"none", "handshake"}}
    BY <1>2 DEF Register, Goto, TypeOK, Await
  <2>2. round' \in Round
    <3>1. CASE InRound
      BY <1>2, <3>1 DEF Register, Grows, TypeOK, Round
    <3>2. CASE ~InRound
      BY <1>2, <3>2 DEF Register, TypeOK
    <3> QED
      BY <3>1, <3>2
  <2> QED
    BY <1>2, <2>1, <2>2 DEF Register, TypeOK, internet
<1>3. CASE HandshakeEnds(c) \/ SessionEnds(c)
  BY <1>3, EndType DEF HandshakeEnds, SessionEnds
<1> QED
  BY <1>1, <1>2, <1>3, ServesType DEF Handler

LEMMA RemoteType ==
  ASSUME TypeOK, NEW c \in Conn, Remote(c)
  PROVE  TypeOK' /\ UNCHANGED <<pc, sessions>>
<1>1. ASSUME Reads(c), RemoteEnds(c) PROVE TypeOK' /\ UNCHANGED <<pc, sessions>>
  <2>1. /\ remotes' \in [Conn -> 0..MaxRemotes]
        /\ unstarted' \subseteq {d \in Conn : remotes'[d] > 0}
    BY <1>1, GatewayAssumption DEF Reads, RemoteEnds, TypeOK
  <2> QED
    BY <1>1, <2>1 DEF RemoteEnds, TypeOK, tunnel, health
<1>2. ASSUME TaskStarts(c) PROVE TypeOK' /\ UNCHANGED <<pc, sessions>>
  <2>1. /\ remotes' \in [Conn -> 0..MaxRemotes]
        /\ unstarted' \subseteq {d \in Conn : remotes'[d] > 0}
    BY <1>2, GatewayAssumption DEF TaskStarts, TypeOK
  <2> QED
    BY <1>2, <2>1 DEF TaskStarts, TypeOK, tunnel, health
<1>3. ASSUME peer' = [peer EXCEPT ![c] = "stalled"],
             UNCHANGED <<running, dish, pc, sessions, internet, health>>
      PROVE  TypeOK' /\ UNCHANGED <<pc, sessions>>
  BY <1>3 DEF TypeOK, Peer, internet, health
<1> QED
  BY <1>1, <1>2, <1>3 DEF Remote, RemoteSends, RemoteCloses

LEMMA PeerType ==
  ASSUME TypeOK, NEW c \in Conn, PeerStep(c)
  PROVE  TypeOK' /\ UNCHANGED <<pc, sessions, internet>>
<1>1. \E p \in Peer : peer' = [peer EXCEPT ![c] = p]
  BY DEF PeerStep, FallsSilent, SendsAgain, IsLost, Unstalls, Breaks,
         PeerTurns, Peer
<1>2. UNCHANGED <<running, dish, pc, sessions, internet, health>>
  BY DEF PeerStep, FallsSilent, SendsAgain, IsLost, Unstalls, Breaks, PeerTurns
<1> QED
  BY <1>1, <1>2 DEF TypeOK, internet, health

LEMMA HealthType ==
  ASSUME TypeOK, Probe \/ DegradeOn
  PROVE  TypeOK' /\ UNCHANGED <<pc, sessions, internet>>
<1>1. UNCHANGED <<running, dish, tunnel, internet>>
  BY DEF Probe, DegradeOn
<1>2. round' \in Round /\ failures' \in 0..Threshold /\ told' \subseteq Conn
  <2>1. CASE Degrade
    BY <2>1, DegradeType
  <2>2. CASE GoOn(round)
    BY <2>2, GoOnType DEF TypeOK
  <2>3. CASE Aborts /\ UNCHANGED told
    <3>1. NoRound \in Round
      BY DEF NoRound, Round
    <3> QED
      BY <2>3, <3>1 DEF Aborts, Threshold, TypeOK
  <2>4. CASE Probe /\ ~Degrade
    BY <2>4 DEF Probe, Threshold, TypeOK
  <2> QED
    BY <2>1, <2>2, <2>3, <2>4 DEF DegradeOn
<1> QED
  BY <1>1, <1>2 DEF TypeOK, tunnel, internet

LEMMA StopType ==
  ASSUME TypeOK, Stop \/ DishChanges
  PROVE  TypeOK' /\ UNCHANGED <<pc, sessions, internet>>
<1>1. CASE Stop
  <2>1. peer' \in [Conn -> Peer]
    BY <1>1 DEF Stop, TypeOK, Peer
  <2>2. round' \in Round /\ failures' \in 0..Threshold /\ told' \subseteq Conn
    BY <1>1 DEF Stop, NoRound, Round, Threshold
  <2>3. running' \in BOOLEAN /\ UNCHANGED <<dish, pc, sessions, internet>>
    BY <1>1 DEF Stop
  <2> QED
    BY <2>1, <2>2, <2>3 DEF TypeOK, internet
<1>2. CASE DishChanges
  BY <1>2 DEF DishChanges, TypeOK, tunnel, internet, health
<1> QED
  BY <1>1, <1>2

LEMMA TypeNext == TypeOK /\ [Next]_vars => TypeOK'
<1>1. TypeOK /\ UNCHANGED vars => TypeOK'
  BY DEF TypeOK, vars, tunnel, internet, health
<1> QED
  BY <1>1, HandlerType, RemoteType, PeerType, HealthType, StopType DEF Next

\* Type correctness; with it, the dictionary _sessions holds the sessions of the
\* handlers that are past their handshake and no others, at every await.
THEOREM TypeCorrect == Spec => []TypeOK
  BY TypeInit, TypeNext, PTL DEF Spec

(***************************************************************************)
(* The limit on sessions                                                   *)
(***************************************************************************)
\* Admit compares the sessions alone, and the bound on handshakes is the only
\* other: it takes the sum of the two to be kept by every step.  A handshake
\* that becomes a session leaves the sum as it is.
SumBounded ==
  Cardinality(sessions) + Cardinality(Handshaking) <= MaxSessions - 1 + MaxHandshakes

LEMMA Finite ==
  ASSUME TypeOK
  PROVE  /\ IsFiniteSet(sessions) /\ Cardinality(sessions) \in Nat
         /\ IsFiniteSet(Handshaking) /\ Cardinality(Handshaking) \in Nat
  BY SessionsAreFinite DEF TypeOK, Handshaking

LEMMA SumInit == Init => SumBounded
<1> SUFFICES ASSUME Init PROVE SumBounded
  OBVIOUS
<1>1. sessions = {} /\ Handshaking = {}
  BY DEF Init, Handshaking
<1> QED
  BY <1>1, FS_EmptySet, GatewayAssumption DEF SumBounded

LEMMA SumHandler ==
  ASSUME TypeOK, SumBounded, NEW c \in Conn, Handler(c)
  PROVE  SumBounded'
<1>1. CASE Connect(c)
  <2>1. sessions' = sessions /\ Handshaking' = Handshaking \union {c}
    BY <1>1 DEF Connect, Admit, Unused, Goto, Handshaking, TypeOK
  <2>2. \/ Cardinality(Handshaking') = Cardinality(Handshaking)
        \/ Cardinality(Handshaking') = Cardinality(Handshaking) + 1
    BY <2>1, Finite, FS_AddElement
  <2>3. /\ Cardinality(sessions) < MaxSessions
        /\ Cardinality(Handshaking) < MaxHandshakes
    BY <1>1 DEF Connect, Admit, HasRoom
  <2> QED
    BY <2>1, <2>2, <2>3, Finite, GatewayAssumption DEF SumBounded
<1>2. CASE Register(c)
  <2>1. /\ c \in Handshaking /\ c \notin sessions
        /\ sessions' = sessions \union {c} /\ Handshaking' = Handshaking \ {c}
    BY <1>2 DEF Register, Goto, Handshaking, TypeOK
  <2>2. /\ Cardinality(sessions') = Cardinality(sessions) + 1
        /\ Cardinality(Handshaking') = Cardinality(Handshaking) - 1
    BY <2>1, Finite, FS_AddElement, FS_RemoveElement
  <2> QED
    BY <2>2, Finite DEF SumBounded
<1>3. CASE sessions' \in SUBSET sessions /\ Handshaking' \in SUBSET Handshaking
  <2>2. /\ Cardinality(sessions') <= Cardinality(sessions)
        /\ Cardinality(Handshaking') <= Cardinality(Handshaking)
        /\ Cardinality(sessions') \in Nat /\ Cardinality(Handshaking') \in Nat
    BY <1>3, Finite, FS_Subset, FS_CardinalityType
  <2> QED
    BY <2>2, Finite, GatewayAssumption DEF SumBounded
<1> QED
  BY <1>1, <1>2, <1>3, EndType, ServesType DEF Handler, HandshakeEnds, SessionEnds

LEMMA SumNext == TypeOK /\ SumBounded /\ [Next]_vars => SumBounded'
<1>1. SumBounded /\ UNCHANGED <<pc, sessions>> => SumBounded'
  BY DEF SumBounded, Handshaking
<1>2. UNCHANGED vars => UNCHANGED <<pc, sessions>>
  BY DEF vars, tunnel
<1> QED
  BY <1>1, <1>2, SumHandler, RemoteType, PeerType, HealthType, StopType DEF Next

\* The sessions exceed max_sessions by less than the number of handshakes that
\* run at once, for every limit and every number of connections.
THEOREM OvershootIsBounded == Spec => []OvershootBounded
<1>1. TypeOK /\ SumBounded => OvershootBounded
  BY Finite, GatewayAssumption DEF SumBounded, OvershootBounded
<1> QED
  BY <1>1, TypeInit, TypeNext, SumInit, SumNext, PTL DEF Spec

(***************************************************************************)
(* After stop                                                              *)
(***************************************************************************)
\* A handler of a stopped gateway, and what it leaves of another tunnel.
LEMMA StoppedHandler ==
  ASSUME TypeOK, ~running, NEW c \in Conn, NEW d \in Conn, Handler(d)
  PROVE  Outstanding(c)' <= Outstanding(c)
<1> USE DEF TypeOK
<1>1. remotes[c] \in Int /\ remotes[d] \in Int
  OBVIOUS
<1>2. ASSUME UNCHANGED <<pc, remotes>> PROVE Outstanding(c)' <= Outstanding(c)
  BY <1>1, <1>2 DEF Outstanding
<1>3. ASSUME UNCHANGED remotes,
             \/ \E a \in {"none", "drain", "resolve"} : Goto(d, a)
             \/ pc[d] = "message" /\ Goto(d, "connect")
      PROVE  Outstanding(c)' <= Outstanding(c)
  BY <1>1, <1>3 DEF Outstanding, Goto
<1>4. ASSUME Written(d) \/ NextTurn(d)
      PROVE  \E a \in {"none", "drain"} : Goto(d, a)
  BY <1>4 DEF Written, NextTurn, Leave
<1>5. ASSUME Connected(d) PROVE Outstanding(c)' <= Outstanding(c)
  <2>1. /\ pc[d] = "connect" /\ remotes' = [remotes EXCEPT ![d] = @ + 1]
        /\ \E a \in {"none", "drain"} : Goto(d, a)
    BY <1>4, <1>5 DEF Connected
  <2> QED
    BY <1>1, <2>1 DEF Outstanding, Goto
<1>6. ASSUME ConnectFails(d) \/ Resolved(d) \/ Drained(d)
      PROVE  Outstanding(c)' <= Outstanding(c)
  BY <1>3, <1>4, <1>6 DEF ConnectFails, Resolved, Drained, internet
<1>7. ASSUME HandshakeEnds(d) \/ SessionEnds(d)
      PROVE  Outstanding(c)' <= Outstanding(c)
  BY <1>3, <1>7 DEF HandshakeEnds, SessionEnds, End, Leave, internet
<1>8. ASSUME AsksConnect(d) \/ AsksDNS(d) \/ AsksCached(d)
      PROVE  Outstanding(c)' <= Outstanding(c)
  BY <1>3, <1>8 DEF AsksConnect, AsksDNS, AsksCached, Asks, Arrives, internet
<1>9. ~Connect(d) /\ ~Register(d)
  BY DEF Connect, Admit, Register
<1> QED
  BY <1>5, <1>6, <1>7, <1>8, <1>9 DEF Handler

LEMMA StoppedStep ==
  ASSUME TypeOK, Next, ~running, NEW c \in Conn
  PROVE  Outstanding(c)' <= Outstanding(c)
<1>1. remotes[c] \in Int
  BY DEF TypeOK
<1>2. ASSUME UNCHANGED <<pc, internet>> PROVE Outstanding(c)' <= Outstanding(c)
  BY <1>1, <1>2 DEF Outstanding, internet
<1>3. ASSUME NEW d \in Conn, Remote(d)
      PROVE  Outstanding(c)' <= Outstanding(c)
  <2>1. \/ UNCHANGED <<pc, internet>>
        \/ UNCHANGED pc /\ remotes' = [remotes EXCEPT ![d] = @ - 1]
    BY <1>3 DEF Remote, TaskStarts, RemoteSends, RemoteCloses, RemoteEnds, tunnel
  <2> QED
    BY <1>1, <1>2, <2>1 DEF Outstanding, TypeOK
<1> QED
  BY <1>2, <1>3, StoppedHandler, PeerType, HealthType, StopType DEF Next

\* What a stopped gateway may still have open, or open, only gets less, tunnel by
\* tunnel, for any number of tunnels and of their internet connections.
THEOREM StoppedWindsDown == Spec => StopWindsDown
<1>1. TypeOK /\ [Next]_vars
        => [~running => \A c \in Conn : Outstanding(c)' <= Outstanding(c)]_vars
  BY StoppedStep
<1> QED
  BY <1>1, TypeCorrect, PTL DEF Spec, StopWindsDown

=============================================================================
