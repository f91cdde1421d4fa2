--------------------------- MODULE GatewaySessions ---------------------------
(***************************************************************************)
(* gateway/satellite.py: the Gateway's tunnel sessions, the internet       *)
(* connections it opens for them, and the health loop that tells every     *)
(* session when the dish is down.                                          *)
(*                                                                         *)
(* The tasks are the handler of each connection (_on_tunnel_connect and    *)
(* what it awaits), an internet_to_tunnel task per internet connection,    *)
(* and _health_loop.  What runs between two awaits is one action.  An      *)
(* await suspends where the code waits for bytes, for a connection, or for *)
(* a drain of a buffer that the peer does not empty; every other drain     *)
(* returns at once.  A message that changes nothing here (data, a hit that *)
(* leaves room in the buffer, a cache miss, a malformed request) is no     *)
(* step.  What fills a buffer is the content of the cache and what servers *)
(* send: an answer of the resolver, an acknowledgement and a notice are    *)
(* taken to be too small.                                                  *)
(***************************************************************************)
EXTENDS Integers, FiniteSets

CONSTANTS
  Conn,           \* connections of mesh peers, used again when nothing is left
  NoConn,         \* no drain is awaited by the health loop
  MaxSessions,    \* max_sessions
  MaxHandshakes,  \* bound: connections in their handshake at once
  Asking,         \* bound: the connections whose peers send requests
  MaxRemotes      \* bound: internet connections of one tunnel at once

ASSUME GatewayAssumption ==
  /\ NoConn \notin Conn /\ IsFiniteSet(Conn) /\ Asking \subseteq Conn
  /\ MaxSessions \in Nat \ {0} /\ MaxHandshakes \in Nat \ {0} /\ MaxRemotes \in Nat

VARIABLES
  running,   \* _running
  dish,      \* the internet can be reached through the dish
  pc,        \* pc[c]: what the handler of c awaits
  sessions,  \* the keys of _sessions
  peer,      \* peer[c]: what c's peer and the link to it do
  remotes,   \* remotes[c]: internet connections, each with its task, of c's tunnel
  unstarted, \* the tunnels of which one of those tasks has not had its first turn
  failures,  \* failures of _health_loop, which nobody tells apart from 3 on
  round,     \* the iteration of _enter_degraded_mode, or NoRound
  told       \* history: the sessions told of the present outage

tunnel == <<pc, sessions, peer>>
health == <<failures, round, told>>
internet == <<remotes, unstarted>>
vars == <<running, dish, tunnel, internet, health>>

\* The awaits of a handler: its 48 bytes of handshake, a message, an internet
\* connection, an answer of the resolver, a drain.
Await == {"none", "handshake", "message", "connect", "resolve", "drain"}

\* A peer sends and reads; is silent, but reads; takes no more bytes, so that
\* the write buffer is full; or its connection is lost.
Peer == {"open", "silent", "stalled", "lost"}

Threshold == 3

\* awaits: the session whose drain is awaited.  size: what the dictionary's
\* size must be for the iteration to go on.  left, fresh: the keys still to
\* come, those inserted meanwhile last.  quota: the keys it may still yield.
Round == [awaits : Conn \union {NoConn}, size : Nat, quota : Int,
          left : SUBSET Conn, fresh : SUBSET Conn]
NoRound == [awaits |-> NoConn, size |-> 0, quota |-> 0, left |-> {}, fresh |-> {}]

InRound == round.awaits # NoConn
Handshaking == {c \in Conn : pc[c] = "handshake"}

Init ==
  /\ running = TRUE /\ dish = TRUE
  /\ pc = [c \in Conn |-> "none"] /\ sessions = {}
  /\ peer = [c \in Conn |-> "lost"]
  /\ remotes = [c \in Conn |-> 0] /\ unstarted = {}
  /\ failures = 0 /\ round = NoRound /\ told = {}

(***************************************************************************)
(* Handlers of tunnel connections                                          *)
(***************************************************************************)
Goto(c, a) == pc' = [pc EXCEPT ![c] = a]

\* Nothing is left of an earlier connection of this name.
Unused(c) ==
  pc[c] = "none" /\ remotes[c] = 0 /\ peer[c] = "lost" /\ c # round.awaits

\* Fault: a session more than the limit is let in.
HasRoomForOneMore == Cardinality(sessions) <= MaxSessions

HasRoom == Cardinality(sessions) < MaxSessions

\* _on_tunnel_connect up to its first await, for a peer in state p.  A
\* connection that finds no room is closed at once, which is no step.
Admit(c, p) ==
  /\ running /\ Unused(c) /\ HasRoom
  /\ Cardinality(Handshaking) < MaxHandshakes
  /\ Goto(c, "handshake")
  /\ peer' = [peer EXCEPT ![c] = p]
  /\ UNCHANGED <<running, dish, sessions, internet, health>>

\* The peer sends, or never does.
Connect(c) == \E p \in {"open", "silent"} : Admit(c, p)

\* Fault: the session stays in the dictionary.
LeaveRegistered(c) ==
  /\ Goto(c, "none")
  /\ peer' = [peer EXCEPT ![c] = IF @ = "stalled" THEN @ ELSE "lost"]
  /\ UNCHANGED <<sessions, round, told>>

\* The finally block: the dictionary loses c, and its writer is closed, which
\* takes effect when the buffer is empty.
Leave(c) ==
  /\ Goto(c, "none")
  /\ sessions' = sessions \ {c}
  /\ peer' = [peer EXCEPT ![c] = IF @ = "stalled" THEN @ ELSE "lost"]
  /\ round' = [round EXCEPT !.left = @ \ {c}, !.fresh = @ \ {c}]
  /\ told' = told \ {c}

End(c) == Leave(c) /\ UNCHANGED <<running, dish, internet, failures>>

\* S is what the iteration L, then F, yields first.
IsPrefix(S, L, F) == S \subseteq L \/ (L \subseteq S /\ S \subseteq L \union F)

\* The dictionary gets the key c while r iterates over it.  It is the last to
\* come, and the next ones may be missed, as a table that has to grow moves
\* its entries down to where deleted ones were.
Grows(r, c) ==
  \E missed \in SUBSET (r.left \union r.fresh \union {c}) :
    /\ IsPrefix(missed, r.left, r.fresh \union {c})
    /\ round' = [awaits |-> r.awaits, size |-> r.size, quota |-> r.quota,
                 left |-> r.left \ missed,
                 fresh |-> (r.fresh \union {c}) \ missed]

\* The handshake arrives; max_sessions is not looked at again.
Register(c) ==
  /\ running /\ pc[c] = "handshake" /\ peer[c] = "open"
  /\ Goto(c, "message")
  /\ sessions' = sessions \union {c}
  /\ IF InRound THEN Grows(round, c) ELSE round' = round
  /\ UNCHANGED <<running, dish, peer, internet, failures, told>>

\* The peer is late, gone, or the gateway was stopped: _relay_session then
\* returns before it reads anything.
HandshakeEnds(c) == pc[c] = "handshake" /\ End(c)

\* Fault: a message is awaited without a timeout.
SessionEndsIfLost(c) == pc[c] = "message" /\ peer[c] = "lost" /\ End(c)

\* No message for 120 seconds, the end of the stream, a close message, an empty
\* one, or an exception: so does a cache hit of 65535 bytes and more, whose
\* length does not fit in the two bytes of a frame.  If the gateway was stopped
\* meanwhile, any message that suspends nothing is the last.
SessionEnds(c) == pc[c] = "message" /\ End(c)

\* A request has arrived.
Arrives(c) ==
  c \in Asking /\ pc[c] = "message" /\ peer[c] \in {"open", "stalled"}

\* Its handler awaits a.
Asks(c, a) ==
  /\ Arrives(c) /\ Goto(c, a)
  /\ UNCHANGED <<running, dish, sessions, peer, internet, health>>

\* _handle_connect up to open_connection.
AsksConnect(c) == Asks(c, "connect")

\* _handle_dns, for a query that is not cached, up to the resolver's answer.
AsksDNS(c) == Asks(c, "resolve")

\* A hit in either cache that fills the buffer, or finds it full.
AsksCached(c) ==
  /\ Arrives(c) /\ Goto(c, "drain")
  /\ peer' = [peer EXCEPT ![c] = "stalled"]
  /\ UNCHANGED <<running, dish, sessions, internet, health>>

\* Fault: the loop of _relay_session does not look at _running.
NextTurnAnyway(c) ==
  Goto(c, "message") /\ UNCHANGED <<sessions, peer, round, told>>

\* The message is served: the loop of _relay_session goes on, or ends.
NextTurn(c) ==
  IF running THEN Goto(c, "message") /\ UNCHANGED <<sessions, peer, round, told>>
  ELSE Leave(c)

\* After a write: the drain suspends if the buffer is full.
Written(c) ==
  IF peer[c] = "stalled"
  THEN Goto(c, "drain") /\ UNCHANGED <<sessions, peer, round, told>>
  ELSE NextTurn(c)

\* The internet connection is there, stopped or not, and a task is made for it.
\* The event loop has gone round since an earlier one was made.
Connected(c) ==
  /\ pc[c] = "connect" /\ dish /\ remotes[c] < MaxRemotes /\ c \notin unstarted
  /\ remotes' = [remotes EXCEPT ![c] = @ + 1]
  /\ unstarted' = unstarted \union {c}
  /\ Written(c)
  /\ UNCHANGED <<running, dish, failures>>

\* The connection fails, after 15 seconds at the latest.
ConnectFails(c) ==
  /\ pc[c] = "connect"
  /\ Written(c)
  /\ UNCHANGED <<running, dish, internet, failures>>

\* _doh_resolve returns or raises.
Resolved(c) ==
  /\ pc[c] = "resolve"
  /\ Written(c)
  /\ UNCHANGED <<running, dish, internet, failures>>

Drained(c) ==
  /\ pc[c] = "drain" /\ peer[c] # "stalled"
  /\ NextTurn(c)
  /\ UNCHANGED <<running, dish, internet, failures>>

(***************************************************************************)
(* Internet connections                                                    *)
(***************************************************************************)
\* The first turn of internet_to_tunnel: if the gateway was stopped, it closes
\* the connection.
TaskStarts(c) ==
  /\ c \in unstarted /\ unstarted' = unstarted \ {c}
  /\ remotes' = IF running THEN remotes ELSE [remotes EXCEPT ![c] = @ - 1]
  /\ UNCHANGED <<running, dish, tunnel, health>>

\* A task of c's that reads from its server.
Reads(c) == remotes[c] > (IF c \in unstarted THEN 1 ELSE 0)

RemoteEnds(c) ==
  /\ remotes' = [remotes EXCEPT ![c] = @ - 1]
  /\ UNCHANGED <<running, dish, tunnel, unstarted, health>>

TunnelOpen(c) == running /\ pc[c] # "none" /\ peer[c] # "lost"

\* The server sends: the task finds the tunnel closed and ends, or writes on,
\* and what it writes may be more than the peer takes.
RemoteSends(c) ==
  /\ Reads(c) /\ peer[c] # "stalled"
  /\ IF TunnelOpen(c)
     THEN /\ peer' = [peer EXCEPT ![c] = "stalled"]
          /\ UNCHANGED <<running, dish, pc, sessions, internet, health>>
     ELSE RemoteEnds(c)

\* The server closes.  That a task whose drain is suspended sees it only later
\* is not told apart.
RemoteCloses(c) == Reads(c) /\ RemoteEnds(c)

(***************************************************************************)
(* The health loop                                                         *)
(***************************************************************************)
\* A drain for these peers suspends; one for a lost peer suspends for a turn
\* of the event loop if the connection was reset.
MaySuspend(c) == peer[c] \in {"stalled", "lost"}
MayPass(c) == peer[c] # "stalled"

\* The iteration r when it has yielded the sessions of S.
After(r, S) ==
  [awaits |-> r.awaits, size |-> r.size, quota |-> r.quota - Cardinality(S),
   left |-> r.left \ S, fresh |-> r.fresh \ S]

\* c is the next session, and its drain suspends.
Suspends(r, c) ==
  /\ c \in (IF r.left # {} THEN r.left ELSE r.fresh)
  /\ r.quota > 0 /\ MaySuspend(c)
  /\ round' = [awaits |-> c, size |-> r.size, quota |-> r.quota - 1,
               left |-> r.left \ {c}, fresh |-> r.fresh \ {c}]
  /\ failures' = Threshold

\* "dictionary changed size during iteration", or keys: a RuntimeError.
Aborts == round' = NoRound /\ failures' = Threshold

\* The iteration is over: at its end, or because a key more than there were at
\* its start comes up.
Finishes(r) ==
  IF r.left \union r.fresh = {} THEN round' = NoRound /\ failures' = 0
  ELSE r.quota = 0 /\ Aborts

\* From a state of the iteration r, the sessions S are told without a
\* suspension, and then a drain suspends or the iteration is over.
GoOn(r) ==
  \E S \in SUBSET (r.left \union r.fresh) :
    /\ IsPrefix(S, r.left, r.fresh)
    /\ \A c \in S : MayPass(c)
    /\ After(r, S).quota >= 0
    /\ \/ \E c \in Conn :
            Suspends(After(r, S), c) /\ told' = told \union S \union {c}
       \/ Finishes(After(r, S)) /\ told' = told \union S

\* _enter_degraded_mode up to its first suspension.
Degrade ==
  GoOn([awaits |-> NoConn, size |-> Cardinality(sessions),
        quota |-> Cardinality(sessions), left |-> sessions, fresh |-> {}])

\* Fault: the third failure in a row is acted on, not every one from there on.
ProbeOnce ==
  /\ running /\ ~InRound
  /\ \/ dish /\ failures' = 0 /\ told' = {} /\ UNCHANGED round
     \/ /\ ~dish /\ failures + 1 # Threshold /\ failures < Threshold
        /\ failures' = failures + 1 /\ UNCHANGED <<round, told>>
     \/ ~dish /\ failures + 1 = Threshold /\ Degrade
  /\ UNCHANGED <<running, dish, tunnel, internet>>

\* The probe of _health_loop succeeds or fails.
Probe ==
  /\ running /\ ~InRound
  /\ \/ dish /\ failures' = 0 /\ told' = {} /\ UNCHANGED round
     \/ /\ ~dish /\ failures + 1 < Threshold
        /\ failures' = failures + 1 /\ UNCHANGED <<round, told>>
     \/ ~dish /\ failures + 1 >= Threshold /\ Degrade
  /\ UNCHANGED <<running, dish, tunnel, internet>>

\* The drain awaited returns or raises; the round goes on if the dictionary has
\* the size it had.
DegradeOn ==
  /\ running /\ InRound /\ peer[round.awaits] # "stalled"
  /\ IF Cardinality(sessions) = round.size THEN GoOn(round)
     ELSE Aborts /\ UNCHANGED told
  /\ UNCHANGED <<running, dish, tunnel, internet>>

(***************************************************************************)
(* Stop, and the environment                                               *)
(***************************************************************************)
\* stop: the tasks of _tasks are cancelled, the handlers are not.
Stop ==
  /\ running /\ running' = FALSE
  /\ peer' = [c \in Conn |->
       IF c \in sessions /\ peer[c] # "stalled" THEN "lost" ELSE peer[c]]
  /\ failures' = 0 /\ round' = NoRound /\ told' = {}
  /\ UNCHANGED <<dish, pc, sessions, internet>>

DishChanges ==
  dish' = ~dish /\ UNCHANGED <<running, tunnel, internet, health>>

\* Peers fall silent, send again, take bytes again, and are lost.
PeerTurns(c, from, to) ==
  /\ peer[c] = from /\ pc[c] # "none"
  /\ peer' = [peer EXCEPT ![c] = to]
  /\ UNCHANGED <<running, dish, pc, sessions, internet, health>>

FallsSilent(c) == PeerTurns(c, "open", "silent")
SendsAgain(c) == PeerTurns(c, "silent", "open")
IsLost(c) == \E from \in {"open", "silent"} : PeerTurns(c, from, "lost")

\* A full buffer is emptied, or the connection breaks.
Unstalls(c) ==
  /\ peer[c] = "stalled"
  /\ peer' = [peer EXCEPT ![c] = IF pc[c] # "none" /\ running THEN "open" ELSE "lost"]
  /\ UNCHANGED <<running, dish, pc, sessions, internet, health>>

Breaks(c) ==
  /\ peer[c] = "stalled"
  /\ peer' = [peer EXCEPT ![c] = "lost"]
  /\ UNCHANGED <<running, dish, pc, sessions, internet, health>>

Handler(c) ==
  \/ Connect(c) \/ Register(c) \/ HandshakeEnds(c) \/ SessionEnds(c)
  \/ AsksConnect(c) \/ AsksDNS(c) \/ AsksCached(c)
  \/ Connected(c) \/ ConnectFails(c) \/ Resolved(c) \/ Drained(c)

Remote(c) == TaskStarts(c) \/ RemoteSends(c) \/ RemoteCloses(c)

PeerStep(c) ==
  FallsSilent(c) \/ SendsAgain(c) \/ IsLost(c) \/ Unstalls(c) \/ Breaks(c)

Next ==
  \/ \E c \in Conn : Handler(c) \/ Remote(c) \/ PeerStep(c)
  \/ Probe \/ DegradeOn \/ Stop \/ DishChanges

Spec == Init /\ [][Next]_vars

(***************************************************************************)
(* Safety                                                                  *)
(***************************************************************************)
\* With the types, that the dictionary holds the sessions of the handlers that
\* are past their handshake, and no others.
TypeOK ==
  /\ running \in BOOLEAN /\ dish \in BOOLEAN
  /\ pc \in [Conn -> Await]
  /\ sessions = {c \in Conn : pc[c] \notin {"none", "handshake"}}
  /\ peer \in [Conn -> Peer]
  /\ remotes \in [Conn -> 0..MaxRemotes]
  /\ unstarted \subseteq {c \in Conn : remotes[c] > 0}
  /\ failures \in 0..Threshold
  /\ round \in Round /\ told \subseteq Conn

\* How far "Max concurrent users" is kept: max_sessions is compared before the
\* awaits of the handshake, so that the sessions exceed it by no more than the
\* handshakes that ran at once; with one handshake at a time it is kept.
OvershootBounded ==
  Cardinality(sessions) <= MaxSessions - 1 + MaxHandshakes

\* What c's tunnel may still have open, or open, when the gateway is stopped.
Outstanding(c) ==
  remotes[c] + (IF pc[c] \in {"message", "connect"} THEN 1 ELSE 0)

\* A stopped gateway winds down: its handlers are not cancelled, and one that
\* awaits a message or a connection may still open an internet connection, but
\* that is its last, for a session serves no other message and none begins.
StopWindsDown ==
  [][~running => \A c \in Conn : Outstanding(c)' <= Outstanding(c)]_vars

(***************************************************************************)
(* Liveness                                                                *)
(***************************************************************************)
\* The event loop runs what can run, and every wait with a timeout ends.  Of
\* the waits without one nothing is assumed: a full buffer may stay full, the
\* resolver and the servers may be silent for ever.
Served(c) ==
  WF_vars(\/ HandshakeEnds(c) \/ Register(c)
          \/ peer[c] \in {"silent", "lost"} /\ SessionEnds(c)
          \/ Connected(c) \/ ConnectFails(c) \/ Drained(c))

FairSpec ==
  /\ Spec
  /\ WF_vars(Probe) /\ SF_vars(DegradeOn)
  /\ \A c \in Conn : Served(c)

\* The waits of c that no timeout ends do end.
Answered(c) == []<>(pc[c] # "resolve")
Emptied(c) == []<>(peer[c] # "stalled")

\* A peer that sends nothing any more gives its slot back, whatever its handler
\* awaits: unless that is an answer of the resolver, or room in a buffer, that
\* never comes.
SlotsAreFreed ==
  \A c \in Conn : Answered(c) /\ Emptied(c) =>
    ((c \in sessions /\ peer[c] \in {"silent", "lost"})
       ~> (c \notin sessions \/ peer[c] = "open"))

\* An outage that lasts is told to every session in the end, if sessions stop
\* coming and going and no buffer stays full: neither a drain that suspends for
\* long nor the RuntimeErrors of earlier rounds, which leave some sessions out,
\* keep it from them.  One buffer that stays full keeps it from all that follow.
OutageIsTold ==
  <>[](running /\ ~dish) /\ <>[][UNCHANGED sessions]_sessions
    => ((\A c \in Conn : Emptied(c)) => <>[](sessions \subseteq told))

=============================================================================
