-------------------------- MODULE LocalProxy_proofs --------------------------
(***************************************************************************)
(* The count of the proxy's connections is right at every await, for any   *)
(* finite number of applications and any far end.                          *)
(***************************************************************************)
EXTENDS LocalProxy, FiniteSetTheorems, TLAPS

Running == {c \in App : handler[c] # "none"}

\* A handler that a pipe ends is the one that waits for it: without this the
\* counter could be taken back twice.
PipesOfRelay == \A c \in App : up[c] \/ down[c] => handler[c] = "relay"

Types ==
  /\ handler \in [App -> Await]
  /\ client \in [App -> Client]
  /\ up \in [App -> BOOLEAN] /\ down \in [App -> BOOLEAN]
  /\ remote \in [App -> {"open", "closed"}]

IInv == Types /\ PipesOfRelay /\ ActiveIsCounted

(***************************************************************************)
(* What a handler's start and end do to the count                          *)
(***************************************************************************)
LEMMA Counted ==
  ASSUME IsFiniteSet(App), IInv
  PROVE  IsFiniteSet(Running) /\ active = Cardinality(Running) /\ active \in Nat
<1>1. Running \in SUBSET App
  BY DEF Running
<1> QED
  BY <1>1, FS_Subset, FS_CardinalityType DEF IInv, ActiveIsCounted, Running

LEMMA Begun ==
  ASSUME IsFiniteSet(App), IInv, NEW c \in App, handler[c] = "none",
         Goto(c, "negotiate"), active' = active + 1
  PROVE  ActiveIsCounted'
<1>1. Running' = Running \union {c} /\ c \notin Running
  BY DEF Goto, Running, IInv, Types
<1>2. Cardinality(Running') = Cardinality(Running) + 1
  BY <1>1, Counted, FS_AddElement
<1> QED
  BY <1>2, Counted DEF ActiveIsCounted, Running

LEMMA Ended ==
  ASSUME IsFiniteSet(App), IInv, NEW c \in App, handler[c] # "none",
         Goto(c, "none"), active' = active - 1
  PROVE  ActiveIsCounted'
<1>1. Running' = Running \ {c} /\ c \in Running
  BY DEF Goto, Running, IInv, Types
<1>2. Cardinality(Running') = Cardinality(Running) - 1
  BY <1>1, Counted, FS_RemoveElement
<1> QED
  BY <1>2, Counted DEF ActiveIsCounted, Running

LEMMA Kept ==
  ASSUME IInv, Running' = Running, UNCHANGED active
  PROVE  ActiveIsCounted'
  BY DEF IInv, ActiveIsCounted, Running

(***************************************************************************)
(* The inductive invariant                                                 *)
(***************************************************************************)
LEMMA InvInit == Init => IInv
<1> SUFFICES ASSUME Init PROVE IInv
  OBVIOUS
<1>1. Types /\ PipesOfRelay
  BY DEF Init, Types, PipesOfRelay, Await, Client
<1>2. {c \in App : handler[c] # "none"} = {}
  BY DEF Init
<1> QED
  BY <1>1, <1>2, FS_EmptySet DEF Init, IInv, ActiveIsCounted

\* The end of a pipe is the end of the handler, or leaves all else alone.
LEMMA PipeEndsInv ==
  ASSUME IsFiniteSet(App), IInv, NEW c \in App, UpEnds(c) \/ DownEnds(c)
  PROVE  IInv'
<1>1. /\ handler[c] = "relay" /\ UNCHANGED remote
      /\ up' \in [App -> BOOLEAN] /\ down' \in [App -> BOOLEAN]
      /\ \A d \in App : up'[d] \/ down'[d] => up[d] \/ down[d]
  BY DEF UpEnds, DownEnds, IInv, Types, PipesOfRelay
<1>2. PipeEnds(c)
  BY DEF UpEnds, DownEnds
<1>3. CASE up'[c] \/ down'[c]
  <2>1. UNCHANGED <<handler, client, active>>
    BY <1>2, <1>3 DEF PipeEnds
  <2>2. ActiveIsCounted'
    BY <2>1, Kept DEF Running
  <2> QED
    BY <1>1, <2>1, <2>2 DEF IInv, Types, PipesOfRelay
<1>4. CASE ~(up'[c] \/ down'[c])
  <2>1. /\ Goto(c, "none") /\ active' = active - 1
        /\ client' = [client EXCEPT ![c] = "gone"]
    BY <1>2, <1>4 DEF PipeEnds
  <2>2. ActiveIsCounted'
    BY <1>1, <2>1, Ended
  <2>3. handler' \in [App -> Await] /\ client' \in [App -> Client]
    BY <2>1 DEF Goto, IInv, Types, Await, Client
  <2>4. PipesOfRelay'
    BY <1>1, <1>4, <2>1 DEF Goto, IInv, Types, PipesOfRelay
  <2> QED
    BY <1>1, <2>2, <2>3, <2>4 DEF IInv, Types
<1> QED
  BY <1>3, <1>4

LEMMA InvStep ==
  ASSUME IsFiniteSet(App), IInv, NEW c \in App, Step(c)
  PROVE  IInv'
<1> USE DEF IInv, Types, PipesOfRelay, Await, Client
<1>1. CASE Accept(c)
  BY <1>1, Begun DEF Accept, Goto
<1>2. CASE End(c) /\ handler[c] \in {"negotiate", "connect"}
           /\ remote' \in {remote, [remote EXCEPT ![c] = "open"]}
  BY <1>2, Ended DEF End, Goto
<1>3. CASE Request(c) \/ ConnectSucceeds(c)
  <2>1. Running' = Running /\ UNCHANGED active
    BY <1>3 DEF Request, ConnectSucceeds, Goto, Running
  <2> QED
    BY <1>3, <2>1, Kept DEF Request, ConnectSucceeds, Goto
<1>4. CASE ClientIsDone(c) \/ ClientIsGone(c)
  <2>1. Running' = Running /\ UNCHANGED active
    BY <1>4 DEF ClientIsDone, ClientIsGone, Running
  <2> QED
    BY <1>4, <2>1, Kept DEF ClientIsDone, ClientIsGone
<1> QED
  BY <1>1, <1>2, <1>3, <1>4, PipeEndsInv DEF Step, Reject, ConnectFails

LEMMA InvNext == IsFiniteSet(App) /\ IInv /\ [Next]_vars => IInv'
<1>1. ASSUME IInv, RemotesClose \/ UNCHANGED vars
      PROVE  IInv'
  <2>1. UNCHANGED local /\ remote' \in [App -> {"open", "closed"}]
    BY <1>1 DEF RemotesClose, vars, IInv, Types
  <2>2. ActiveIsCounted'
    BY <1>1, <2>1, Kept DEF local, Running
  <2> QED
    BY <1>1, <2>1, <2>2 DEF local, IInv, Types, PipesOfRelay
<1> QED
  BY <1>1, InvStep DEF Next

\* "active_connections" of stats is the number of handlers that run, whatever
\* the order in which clients, far ends, pipes and timeouts end them: no way
\* out takes the count back twice or not at all.
THEOREM CountIsRight ==
  ASSUME IsFiniteSet(App) PROVE Spec => []ActiveIsCounted
<1>1. IInv => ActiveIsCounted
  BY DEF IInv
<1>2. IInv /\ [Next]_vars => IInv'
  BY InvNext
<1> QED
  BY <1>1, <1>2, InvInit, PTL DEF Spec

\* Type correctness, the counter's lower bound included.
THEOREM TypeCorrect ==
  ASSUME IsFiniteSet(App) PROVE Spec => []TypeOK
<1>1. IInv => TypeOK
  BY Counted DEF IInv, Types, TypeOK
<1>2. IInv /\ [Next]_vars => IInv'
  BY InvNext
<1> QED
  BY <1>1, <1>2, InvInit, PTL DEF Spec

=============================================================================
