----------------------------- MODULE LocalProxy -----------------------------
(***************************************************************************)
(* proxy/local.py: the connections of a leaf's SOCKS5 proxy.  Each has a   *)
(* handler (_handle) and, once its tunnel is open, two pipes, one per      *)
(* direction, that end on their own; the handler ends with the second.     *)
(*                                                                         *)
(* remote is what the other end of the tunnel does, as the proxy sees it:  *)
(* here it is free, in module Tunnel it is the gateway.                    *)
(***************************************************************************)
EXTENDS Integers, FiniteSets

CONSTANT App   \* connections of local applications to the proxy

VARIABLES
  handler,  \* handler[c]: what _handle awaits, "none" if there is no connection
  client,   \* client[c]: the application's end of the connection
  up,       \* up[c]: the pipe from the application to the tunnel runs
  down,     \* down[c]: the pipe from the tunnel to the application runs
  active,   \* _active
  remote    \* remote[c]: the far end of c's tunnel

local == <<handler, client, up, down, active>>
vars == <<local, remote>>

\* Awaits the client's greeting and request, connect_fn, or both pipes.
Await == {"none", "negotiate", "connect", "relay"}

\* The application reads and writes; has written all it has; is gone.
Client == {"open", "done", "gone"}

Init ==
  /\ handler = [c \in App |-> "none"]
  /\ client = [c \in App |-> "gone"]
  /\ up = [c \in App |-> FALSE] /\ down = [c \in App |-> FALSE]
  /\ active = 0
  /\ remote = [c \in App |-> "closed"]

Goto(c, a) == handler' = [handler EXCEPT ![c] = a]

\* _handle up to its first await.
Accept(c) ==
  /\ handler[c] = "none" /\ remote[c] = "closed"
  /\ Goto(c, "negotiate")
  /\ client' = [client EXCEPT ![c] = "open"]
  /\ active' = active + 1
  /\ UNCHANGED <<up, down, remote>>

\* The finally block.  The tunnel's writer is not closed here: it is left to
\* the interpreter, so that remote is free to change.
End(c) ==
  /\ Goto(c, "none")
  /\ client' = [client EXCEPT ![c] = "gone"]
  /\ active' = active - 1
  /\ UNCHANGED <<up, down>>

\* A greeting or request that is malformed, not supported, or cut short.
Reject(c) ==
  handler[c] = "negotiate" /\ End(c) /\ UNCHANGED remote

\* A CONNECT request; connect_fn is awaited.
Request(c) ==
  /\ handler[c] = "negotiate" /\ client[c] # "gone"
  /\ Goto(c, "connect")
  /\ UNCHANGED <<client, up, down, active, remote>>

\* Fault: the reply of failure returns before the counter is taken back.
ConnectFailsUncounted(c) ==
  /\ handler[c] = "connect"
  /\ Goto(c, "none")
  /\ client' = [client EXCEPT ![c] = "gone"]
  /\ remote' \in {remote, [remote EXCEPT ![c] = "open"]}
  /\ UNCHANGED <<up, down, active>>

\* connect_fn raises or takes more than 20 seconds; the client is told
\* REP_UNREACHABLE.  A connection that is cancelled may have reached the
\* gateway.
ConnectFails(c) ==
  /\ handler[c] = "connect"
  /\ remote' \in {remote, [remote EXCEPT ![c] = "open"]}
  /\ End(c)

\* connect_fn returns; the client is told REP_OK, though the gateway may have
\* refused the connection.
ConnectSucceeds(c) ==
  /\ handler[c] = "connect"
  /\ Goto(c, "relay")
  /\ up' = [up EXCEPT ![c] = TRUE] /\ down' = [down EXCEPT ![c] = TRUE]
  /\ remote' \in {remote, [remote EXCEPT ![c] = "open"]}
  /\ UNCHANGED <<client, active>>

\* The end of both pipes is the end of the handler.
PipeEnds(c) ==
  IF up'[c] \/ down'[c] THEN UNCHANGED <<handler, client, active>>
  ELSE /\ Goto(c, "none")
       /\ client' = [client EXCEPT ![c] = "gone"]
       /\ active' = active - 1

\* _pipe "->": the application has no more to send or is gone, or the tunnel
\* does not take what it sends.  The tunnel is not told.
UpEnds(c) ==
  /\ up[c] /\ (client[c] # "open" \/ remote[c] = "closed")
  /\ up' = [up EXCEPT ![c] = FALSE] /\ UNCHANGED <<down, remote>>
  /\ PipeEnds(c)

\* _pipe "<-": the end of the tunnel, or a write to a client that is gone.
DownEnds(c) ==
  /\ down[c] /\ (client[c] = "gone" \/ remote[c] = "closed")
  /\ down' = [down EXCEPT ![c] = FALSE] /\ UNCHANGED <<up, remote>>
  /\ PipeEnds(c)

ClientIsDone(c) ==
  /\ client[c] = "open"
  /\ client' = [client EXCEPT ![c] = "done"]
  /\ UNCHANGED <<handler, up, down, active, remote>>

ClientIsGone(c) ==
  /\ handler[c] # "none" /\ client[c] # "gone"
  /\ client' = [client EXCEPT ![c] = "gone"]
  /\ UNCHANGED <<handler, up, down, active, remote>>

\* Far ends close their tunnels, or the tunnels break: all at once if the
\* gateway stops.
RemotesClose ==
  /\ \E S \in SUBSET {c \in App : remote[c] = "open"} :
       remote' = [c \in App |-> IF c \in S THEN "closed" ELSE remote[c]]
  /\ UNCHANGED local

Step(c) ==
  \/ Accept(c) \/ Reject(c) \/ Request(c)
  \/ ConnectFails(c) \/ ConnectSucceeds(c)
  \/ UpEnds(c) \/ DownEnds(c)
  \/ ClientIsDone(c) \/ ClientIsGone(c)

Next == (\E c \in App : Step(c)) \/ RemotesClose

Spec == Init /\ [][Next]_vars

(***************************************************************************)
(* Properties                                                              *)
(***************************************************************************)
TypeOK ==
  /\ handler \in [App -> Await]
  /\ client \in [App -> Client]
  /\ up \in [App -> BOOLEAN] /\ down \in [App -> BOOLEAN]
  /\ active \in Nat
  /\ remote \in [App -> {"open", "closed"}]

\* The "active_connections" of stats are the handlers that run: every way out
\* of _handle, at whatever await it was, takes back the one count it took.
ActiveIsCounted == active = Cardinality({c \in App : handler[c] # "none"})

=============================================================================
