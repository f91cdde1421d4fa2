------------------------------- MODULE Outbox -------------------------------
(***************************************************************************)
(* What resilience/store_forward.py promises its callers: a message that   *)
(* queue_message has accepted stays pending, through crashes and restarts, *)
(* until the far side has received it or it may be given up.  It may be    *)
(* received more than once, and only what was accepted is received.        *)
(*                                                                         *)
(* The promise goes by ids: a message gives way to one that is accepted    *)
(* under its id, and a receipt settles whatever is pending under that id.  *)
(***************************************************************************)
CONSTANTS Id, Content

Message == Id \X Content

VARIABLES
  accepted,  \* every message ever accepted
  pending,   \* the messages owed to the far side
  received,  \* the messages the far side has received at least once
  excused,   \* the messages that may be given up now, as the environment
             \* (time, failing sends) has it: it may change in every step
  wiped      \* an emergency wipe has taken the queue, until the next start

vars == <<accepted, pending, received, excused, wiped>>

Init ==
  accepted = {} /\ pending = {} /\ received = {} /\ excused = {} /\ wiped = FALSE

\* The messages of the same id as one of S.
SameId(S) == {m \in Message : \E n \in S : n[1] = m[1]}

\* A is accepted; what it replaces need not be settled otherwise.
Accept(A, M) ==
  /\ ~wiped
  /\ accepted' = accepted \union A
  /\ M \subseteq SameId(received \union A) \union excused
  /\ pending' = (pending \ M) \union A
  /\ UNCHANGED received

\* m is received, and a commit may settle M, m included, at once.
Receive(m, M) ==
  /\ m \in accepted
  /\ received' = received \union {m}
  /\ M \subseteq SameId(received') \union excused
  /\ pending' = pending \ M
  /\ UNCHANGED accepted

\* A commit settles M.
Settle(M) ==
  /\ M \subseteq SameId(received) \union excused
  /\ pending' = pending \ M
  /\ UNCHANGED <<accepted, received>>

\* The one step that may take everything.
Wipe == ~wiped /\ wiped' /\ pending' = {} /\ UNCHANGED <<accepted, received>>

NoWipe == wiped' => wiped

Environment == UNCHANGED <<accepted, pending, received>>

Next ==
  \/ /\ NoWipe
     /\ \/ \E M \in SUBSET pending :
             \/ \E A \in SUBSET Message : Accept(A, M)
             \/ \E m \in Message : Receive(m, M)
             \/ Settle(M)
        \/ Environment
  \/ Wipe

Spec == Init /\ [][Next]_vars

=============================================================================
