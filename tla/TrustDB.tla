------------------------------- MODULE TrustDB -------------------------------
(***************************************************************************)
(* trust/chain.py: the local web of trust, its tables peers, vouches and   *)
(* revocations, enrolment, vouching and revocation.                        *)
(*                                                                         *)
(* Every method is synchronous on one connection, so a call is one action. *)
(* A crash takes a call back to its last commit: record_vouch has two, so  *)
(* that it may be cut short; for the other calls a crash is no step.       *)
(* A call that returns False changes nothing and is no step either.        *)
(*                                                                         *)
(* A vouch "of v" is one that names v: its signature is checked against    *)
(* the key that the vouch carries, never against the one on record for v.  *)
(***************************************************************************)
EXTENDS Integers

CONSTANTS
  Peer,      \* node_id
  NoRow,     \* no row in the peers table
  NoPeer,    \* vouched_by NULL
  MayCrash,  \* a call may be cut short by a crash
  MaxCalls   \* bound: calls that change the database

ASSUME TrustAssumption ==
  NoPeer \notin Peer /\ MayCrash \in BOOLEAN /\ MaxCalls \in Nat

VARIABLES
  row,       \* row[p]: p's row in the peers table, or NoRow
  vouches,   \* vouches[v][t]: level of v's vouch for t, 0 if there is none
  revocations, \* the targets in the revocations table
  enrolled,  \* history: the highest level add_peer was called with for p
  calls      \* calls so far, for the bound

vars == <<row, vouches, revocations, enrolled, calls>>

\* TrustLevel
UNKNOWN == 0
VOUCHED == 1
TRUSTED == 2
OPERATOR == 3
TrustLevel == UNKNOWN..OPERATOR

Row == [trust : TrustLevel, by : Peer \union {NoPeer}, revoked : BOOLEAN]

ASSUME NoRowAssumption == NoRow \notin Row

Least(x, y) == IF x < y THEN x ELSE y
Greatest(x, y) == IF x > y THEN x ELSE y

Has(p) == row[p] # NoRow
Revoked(p) == Has(p) /\ row[p].revoked

\* get_trust
Trust(p) == IF Has(p) /\ ~row[p].revoked THEN row[p].trust ELSE UNKNOWN

Init ==
  /\ row = [p \in Peer |-> NoRow]
  /\ vouches = [v \in Peer |-> [t \in Peer |-> UNKNOWN]]
  /\ revocations = {}
  /\ enrolled = [p \in Peer |-> UNKNOWN]
  /\ calls = 0

Called == calls < MaxCalls /\ calls' = calls + 1

\* Fault: INSERT OR REPLACE, a new row in the place of the old one.
Replace(p, l) == [trust |-> l, by |-> NoPeer, revoked |-> FALSE]

\* The INSERT of add_peer: a row that exists keeps its voucher and its flag.
Upsert(p, l) ==
  IF Has(p) THEN [row[p] EXCEPT !.trust = Greatest(@, l)]
  ELSE [trust |-> l, by |-> NoPeer, revoked |-> FALSE]

\* add_peer, called by the user: how operators and other members are enrolled.
AddPeer(p, l) ==
  /\ Called
  /\ row' = [row EXCEPT ![p] = Upsert(p, l)]
  /\ enrolled' = [enrolled EXCEPT ![p] = Greatest(@, l)]
  /\ UNCHANGED <<vouches, revocations>>

\* Fault: the level asked for is granted.
GrantableInFull(v, l) == l

\* Fault: a voucher may grant its own level.
GrantableUpToOwn(v, l) == Least(l, Trust(v))

\* max_grantable, for a vouch that asks for level l.
Grantable(v, l) == Least(l, Trust(v) - 1)

\* The vouch of v for t at level l, well signed, is not rejected.
Accepts(v, t, l) ==
  v # t /\ Trust(v) >= TRUSTED /\ Grantable(v, l) >= VOUCHED /\ ~Revoked(t)

\* record_vouch: t's level becomes what is granted now, be it less than before.
RecordVouch(v, t, l) ==
  /\ Called /\ Accepts(v, t, l)
  /\ vouches' = [vouches EXCEPT ![v][t] = Grantable(v, l)]
  /\ row' = [row EXCEPT ![t] =
               [trust |-> Grantable(v, l), by |-> v, revoked |-> FALSE]]
  /\ UNCHANGED <<revocations, enrolled>>

\* A crash after the commit of the add_peer that record_vouch calls.
VouchCutShort(v, t, l) ==
  /\ MayCrash /\ Called /\ Accepts(v, t, l)
  /\ vouches' = [vouches EXCEPT ![v][t] = Grantable(v, l)]
  /\ row' = [row EXCEPT ![t] = Upsert(t, Grantable(v, l))]
  /\ UNCHANGED <<revocations, enrolled>>

\* Those whose last voucher is t.
Dependents(t) == {p \in Peer : Has(p) /\ row[p].by = t /\ ~row[p].revoked}

\* revoke, recorded for a peer without a row too, where it has no other effect:
\* nobody reads the revocations table.
Revoke(r, t) ==
  /\ Called /\ Trust(r) > Trust(t)
  /\ revocations' = revocations \union {t}
  /\ row' = [p \in Peer |->
       IF Has(p) /\ p \in {t} \union Dependents(t)
       THEN [trust |-> UNKNOWN, by |-> row[p].by, revoked |-> TRUE] ELSE row[p]]
  /\ UNCHANGED <<vouches, enrolled>>

Next ==
  \/ \E p \in Peer, l \in TrustLevel : AddPeer(p, l)
  \/ \E v, t \in Peer, l \in TrustLevel : RecordVouch(v, t, l) \/ VouchCutShort(v, t, l)
  \/ \E r, t \in Peer : Revoke(r, t)

Spec == Init /\ [][Next]_vars

(***************************************************************************)
(* Properties                                                              *)
(***************************************************************************)
TypeOK ==
  /\ row \in [Peer -> Row \union {NoRow}]
  /\ vouches \in [Peer -> [Peer -> UNKNOWN..TRUSTED]]
  /\ revocations \subseteq Peer
  /\ enrolled \in [Peer -> TrustLevel]
  /\ calls \in 0..MaxCalls

\* Trust comes from the user: whoever was not enrolled at its level ranks
\* below somebody who was enrolled.  However long the chain of vouches, and
\* wherever a crash cut one short, it makes no second operator and nobody
\* lifts itself, or a friend, to its own level.
RankIsRooted ==
  \A p \in Peer : \/ Trust(p) <= enrolled[p]
                  \/ \E o \in Peer : Trust(p) < enrolled[o]

\* Who gains trust without the user has, on record, a vouch of at least that
\* level by a trusted peer that ranks above it.
TrustIsEarned ==
  [][\A p \in Peer : Trust(p)' > Trust(p) =>
       \/ Trust(p)' <= enrolled'[p]
       \/ \E v \in Peer : /\ Trust(v) >= TRUSTED /\ Trust(v) > Trust(p)'
                          /\ vouches'[v][p] >= Trust(p)']_vars

\* A revocation that reached a row is final: whoever enrols the peer again, it
\* stays untrusted, and no vouch for it is recorded any more.
RevokedRowIsFinal ==
  [][\A p \in Peer : Revoked(p) =>
       /\ Revoked(p)' /\ Trust(p)' = UNKNOWN
       /\ \A v \in Peer : vouches'[v][p] = vouches[v][p]]_vars

\* "You can't vouch someone already revoked."  Violated: record_vouch looks at
\* the row only, and a peer may be revoked before it has one.
NoVouchForRevoked ==
  [][\A v, t \in Peer : t \in revocations => vouches'[v][t] = vouches[v][t]]_vars

\* "Cascading: if you're revoked, everyone you vouched for is also revoked."
\* Violated: the cascade follows the last voucher only, and one step only.
CascadeComplete ==
  \A v, t \in Peer : Revoked(v) /\ vouches[v][t] # UNKNOWN => Revoked(t)

=============================================================================
