------------------------------- MODULE Tunnel -------------------------------
(***************************************************************************)
(* A leaf's SOCKS5 proxy and the gateway it dials: connect_via_mesh of     *)
(* javidnet.py, which run_leaf gives to LocalProxy as its connect_fn, is   *)
(* the one place where the two meet.                                       *)
(*                                                                         *)
(* The proxy passes on what an application sends as it is; the gateway     *)
(* takes it for the handshake and the messages of its protocol.  A tunnel  *)
(* is one TCP connection with a name c on both sides.  The gateway's       *)
(* peer[c] is the proxy's pipe into the tunnel and what is under way in    *)
(* it; the tunnel is closed, for the proxy, when peer[c] is "lost".        *)
(***************************************************************************)
EXTENDS Integers, FiniteSets

CONSTANTS Conn, NoConn, MaxSessions, MaxHandshakes, Asking, MaxRemotes,
  Proxied   \* the connections of the leaf; the others are of other peers

ASSUME TunnelAssumption ==
  /\ Proxied \subseteq Conn /\ IsFiniteSet(Conn) /\ NoConn \notin Conn
  /\ Asking \subseteq Conn
  /\ MaxSessions \in Nat \ {0} /\ MaxHandshakes \in Nat \ {0} /\ MaxRemotes \in Nat

VARIABLES
  running, dish, pc, sessions, peer, remotes, unstarted, failures, round, told,
  handler, client, up, down, active

Gate == INSTANCE GatewaySessions

Leaf == INSTANCE LocalProxy WITH
  App <- Proxied,
  remote <- [c \in Proxied |-> IF peer[c] = "lost" THEN "closed" ELSE "open"]

gateway ==
  <<running, dish, pc, sessions, peer, remotes, unstarted, failures, round, told>>
leaf == <<handler, client, up, down, active>>
vars == <<gateway, leaf>>

TypeOK == Gate!TypeOK /\ Leaf!TypeOK

Init == Gate!Init /\ Leaf!Init

(***************************************************************************)
(* connect_via_mesh                                                        *)
(***************************************************************************)
\* open_connection returns: the gateway admits the connection, or has accepted
\* it to close it at once, because it is full.
Dialled(c) ==
  /\ \/ Gate!Admit(c, "open")
     \/ running /\ ~Gate!HasRoom /\ UNCHANGED gateway
  /\ Leaf!ConnectSucceeds(c)

\* No route, a next hop that listens to no tunnels, as relays do, a gateway
\* that was stopped, or 20 seconds: the gateway may then have admitted a
\* connection on which nothing will ever be sent.
NotDialled(c) ==
  /\ Gate!Admit(c, "silent") \/ UNCHANGED gateway
  /\ Leaf!ConnectFails(c)

(***************************************************************************)
(* Steps of one side                                                       *)
(***************************************************************************)
AcceptApp(c) ==
  Gate!Unused(c) /\ UNCHANGED gateway /\ Leaf!Accept(c)

LeafOnly(c) ==
  /\ UNCHANGED gateway
  /\ \/ Leaf!Reject(c) \/ Leaf!Request(c) \/ Leaf!UpEnds(c) \/ Leaf!DownEnds(c)
     \/ Leaf!ClientIsDone(c) \/ Leaf!ClientIsGone(c)

\* What the gateway does for the tunnel; that it admits it is Dialled's.
Serves(c) == (Gate!Handler(c) /\ pc[c] # "none") \/ Gate!Remote(c)

\* The up pipe sends only while it runs; what it has sent may still be under
\* way when it has ended.  Only the down pipe empties a buffer that is full.
\* After the handler the connection is closed, or left open and silent: the
\* proxy does neither, it is up to the interpreter.
Pipes(c) ==
  \/ Gate!FallsSilent(c)
  \/ up[c] /\ client[c] = "open" /\ Gate!SendsAgain(c)
  \/ down[c] /\ Gate!Unstalls(c)
  \/ Gate!IsLost(c) \/ Gate!Breaks(c)

Proxy(c) == AcceptApp(c) \/ LeafOnly(c) \/ Dialled(c) \/ NotDialled(c)

Elsewhere(c) == Gate!Handler(c) \/ Gate!Remote(c) \/ Gate!PeerStep(c)

Next ==
  \/ \E c \in Proxied : Proxy(c)
  \/ \E c \in Proxied : (Serves(c) \/ Pipes(c)) /\ UNCHANGED leaf
  \/ \E c \in Conn \ Proxied : Elsewhere(c) /\ UNCHANGED leaf
  \/ (Gate!Probe \/ Gate!DegradeOn \/ Gate!Stop \/ Gate!DishChanges) /\ UNCHANGED leaf

Spec == Init /\ [][Next]_vars

(***************************************************************************)
(* Properties                                                              *)
(***************************************************************************)
\* What LocalProxy promises holds with this gateway at the far end.
ProxyCounts == Leaf!ActiveIsCounted

\* The limit on sessions, as far as it holds, when a proxy's connections that
\* were given up compete for the slots too.
LimitKept == Gate!OvershootBounded

\* The gateway takes in what the proxy sends, so that a drain of the up pipe
\* ends: it awaits bytes, or has closed the connection.
TakesIn(c) == pc[c] \in {"handshake", "message"} \/ peer[c] = "lost"

\* The gateway serves a tunnel, and the proxy does: a read from a client that is
\* gone ends, so does a write to it, and so do connect_fn, by its timeout, and a
\* read from a tunnel that is closed.  What is under way in a tunnel arrives
\* when the gateway awaits bytes, and the timeouts of a tunnel on which nothing
\* is sent any more fire.
FairSpec ==
  /\ Spec
  /\ \A c \in Proxied :
       /\ Gate!Served(c)
       /\ WF_vars(\/ client[c] = "gone" /\ UNCHANGED gateway /\ Leaf!Reject(c)
                  \/ Dialled(c) \/ NotDialled(c))
       /\ SF_vars(client[c] = "gone" /\ TakesIn(c)
                    /\ UNCHANGED gateway /\ Leaf!UpEnds(c))
       /\ SF_vars((peer[c] = "lost" \/ (client[c] = "gone" /\ peer[c] = "stalled"))
                    /\ UNCHANGED gateway /\ Leaf!DownEnds(c))
       /\ SF_vars(~up[c] /\ pc[c] \in {"handshake", "message"} /\ UNCHANGED leaf
                    /\ \/ Gate!FallsSilent(c)
                       \/ peer[c] \in {"silent", "lost"} /\ Gate!SessionEnds(c))

\* The gateway has filled a tunnel that the proxy does not read any more: its
\* handler, or a task of the tunnel, is held in a drain that has no timeout,
\* and the proxy's up pipe may be held in one too, as nobody reads the other
\* direction either.
Jammed(c) == peer[c] = "stalled" /\ ~down[c]


=============================================================================
