--------------------------- MODULE TrustDB_proofs ---------------------------
(***************************************************************************)
(* The web of trust, for any set of peers and any number of calls.         *)
(***************************************************************************)
EXTENDS TrustDB, TLAPS

IInv == TypeOK /\ RankIsRooted

LEMMA RowFields ==
  ASSUME TypeOK, NEW p \in Peer
  PROVE  /\ Has(p) => /\ row[p] \in Row /\ row[p].trust \in 0..3
                      /\ row[p].by \in Peer \union {NoPeer}
                      /\ row[p].revoked \in BOOLEAN
         /\ Trust(p) \in 0..3 /\ enrolled[p] \in 0..3
  BY DEF TypeOK, Has, Row, Trust, TrustLevel, UNKNOWN, OPERATOR

\* A vouch that is accepted grants less than its voucher has.
LEMMA Grants ==
  ASSUME TypeOK, NEW v \in Peer, NEW t \in Peer, NEW l \in TrustLevel, Accepts(v, t, l)
  PROVE  /\ Grantable(v, l) \in 1..2 /\ Grantable(v, l) < Trust(v)
         /\ Trust(v) >= 2 /\ ~Revoked(t)
  BY RowFields DEF Accepts, Grantable, Least, TrustLevel, UNKNOWN, VOUCHED, TRUSTED,
     OPERATOR

LEMMA UpsertRow ==
  ASSUME TypeOK, NEW p \in Peer, NEW l \in 0..3
  PROVE  /\ Upsert(p, l) \in Row /\ Upsert(p, l) # NoRow
         /\ Upsert(p, l).revoked = Revoked(p)
         /\ ~Revoked(p) => Upsert(p, l).trust = Greatest(Trust(p), l)
<1>1. CASE Has(p)
  <2>1. row[p] \in Row /\ row[p].trust \in 0..3 /\ row[p].revoked \in BOOLEAN
    BY <1>1, RowFields
  <2>2. Greatest(row[p].trust, l) \in 0..3
    BY <2>1 DEF Greatest
  <2>3. Upsert(p, l) = [row[p] EXCEPT !.trust = Greatest(row[p].trust, l)]
    BY <1>1 DEF Upsert
  <2>4. /\ Upsert(p, l) \in Row /\ Upsert(p, l).trust = Greatest(row[p].trust, l)
        /\ Upsert(p, l).revoked = row[p].revoked
    BY <2>1, <2>2, <2>3 DEF Row, TrustLevel, UNKNOWN, OPERATOR
  <2>5. Upsert(p, l) # NoRow
    BY <2>4, NoRowAssumption
  <2>6. Revoked(p) = row[p].revoked
    BY <1>1, <2>1 DEF Revoked
  <2>7. ~Revoked(p) => Trust(p) = row[p].trust
    BY <1>1, <2>6 DEF Trust
  <2> QED
    BY <2>4, <2>5, <2>6, <2>7
<1>2. CASE ~Has(p)
  <2>1. Upsert(p, l) = [trust |-> l, by |-> NoPeer, revoked |-> FALSE]
    BY <1>2 DEF Upsert
  <2>2. Upsert(p, l) \in Row
    BY <2>1 DEF Row, TrustLevel, UNKNOWN, OPERATOR
  <2>3. Revoked(p) = FALSE /\ Trust(p) = 0
    BY <1>2 DEF Revoked, Trust, UNKNOWN
  <2>4. Upsert(p, l).trust = l /\ Upsert(p, l).revoked = FALSE
    BY <2>1
  <2>5. Greatest(0, l) = l
    BY DEF Greatest
  <2>6. Upsert(p, l) # NoRow
    BY <2>2, NoRowAssumption
  <2> QED
    BY <2>2, <2>3, <2>4, <2>5, <2>6
<1> QED
  BY <1>1, <1>2

\* A step that gives t the row r, and leaves the others alone.
LEMMA RowChanged ==
  ASSUME TypeOK, NEW t \in Peer, NEW r \in Row, row' = [row EXCEPT ![t] = r]
  PROVE  /\ row' \in [Peer -> Row \union {NoRow}]
         /\ Revoked(t)' = r.revoked
         /\ Trust(t)' = IF r.revoked THEN 0 ELSE r.trust
         /\ \A p \in Peer \ {t} : Trust(p)' = Trust(p) /\ Revoked(p)' = Revoked(p)
  BY NoRowAssumption DEF TypeOK, Trust, Revoked, Has, Row, UNKNOWN

\* What a step may do to the trust of p: nothing, or less, or p is enrolled,
\* or vouched for by a trusted peer that ranks above.
Earned(p, v) == /\ Trust(v) >= 2 /\ Trust(v) > Trust(p)'
                /\ vouches'[v][p] >= Trust(p)'

TrustStep(p) ==
  /\ Revoked(p) => /\ Revoked(p)' /\ Trust(p)' = 0
                   /\ \A v \in Peer : vouches'[v][p] = vouches[v][p]
  /\ \/ Trust(p)' <= Trust(p) /\ enrolled'[p] >= enrolled[p]
     \/ Trust(p)' <= enrolled'[p]
     \/ \E v \in Peer : Earned(p, v)

\* What every step does.
Step == /\ row' \in [Peer -> Row \union {NoRow}]
        /\ vouches' \in [Peer -> [Peer -> UNKNOWN..TRUSTED]]
        /\ revocations' \subseteq Peer
        /\ enrolled' \in [Peer -> TrustLevel] /\ calls' \in 0..MaxCalls
        /\ \A p \in Peer : enrolled'[p] >= enrolled[p]
        /\ \A p \in Peer : TrustStep(p)

LEMMA CalledBound == ASSUME TypeOK, Called PROVE calls' \in 0..MaxCalls
  BY TrustAssumption DEF TypeOK, Called

LEMMA AddPeerSteps ==
  ASSUME TypeOK, NEW t \in Peer, NEW l \in TrustLevel, AddPeer(t, l) PROVE Step
<1>1. l \in 0..3
  BY DEF TrustLevel, UNKNOWN, OPERATOR
<1>2. /\ Upsert(t, l) \in Row /\ Upsert(t, l).revoked = Revoked(t)
      /\ ~Revoked(t) => Upsert(t, l).trust = Greatest(Trust(t), l)
  BY <1>1, UpsertRow
<1>3. /\ row' \in [Peer -> Row \union {NoRow}]
      /\ Revoked(t)' = Revoked(t)
      /\ Trust(t)' = IF Revoked(t) THEN 0 ELSE Greatest(Trust(t), l)
      /\ \A p \in Peer \ {t} : Trust(p)' = Trust(p) /\ Revoked(p)' = Revoked(p)
  <2> DEFINE r == Upsert(t, l)
  <2>1. r \in Row /\ row' = [row EXCEPT ![t] = r]
    BY <1>2 DEF AddPeer
  <2> HIDE DEF r
  <2>2. /\ row' \in [Peer -> Row \union {NoRow}]
        /\ Revoked(t)' = r.revoked
        /\ Trust(t)' = IF r.revoked THEN 0 ELSE r.trust
        /\ \A p \in Peer \ {t} : Trust(p)' = Trust(p) /\ Revoked(p)' = Revoked(p)
    BY <2>1, RowChanged
  <2> QED
    BY <1>2, <2>2 DEF r
<1>4. enrolled' = [enrolled EXCEPT ![t] = Greatest(enrolled[t], l)]
      /\ vouches' = vouches /\ revocations' = revocations
  BY DEF AddPeer
<1>5. \A p \in Peer : Trust(p) \in 0..3 /\ enrolled[p] \in 0..3
  BY RowFields
<1>6. enrolled'[t] >= l /\ \A p \in Peer : enrolled'[p] \in 0..3 /\ enrolled'[p] >= enrolled[p]
  BY <1>1, <1>4, <1>5 DEF Greatest, TypeOK
<1>7. enrolled' \in [Peer -> TrustLevel]
  BY <1>4, <1>6 DEF TypeOK, TrustLevel, UNKNOWN, OPERATOR
<1>8. ASSUME NEW p \in Peer, p # t PROVE TrustStep(p)
  <2>1. Revoked(p) => Trust(p) = 0
    BY DEF Revoked, Trust, UNKNOWN
  <2> QED
    BY <1>3, <1>4, <1>5, <1>6, <1>8, <2>1 DEF TrustStep
<1>9. TrustStep(t)
  BY <1>1, <1>3, <1>4, <1>5, <1>6 DEF TrustStep, Greatest
<1> QED
  BY <1>3, <1>4, <1>6, <1>7, <1>8, <1>9, CalledBound DEF Step, AddPeer, TypeOK

\* Both ends of record_vouch.
LEMMA VouchSteps ==
  ASSUME TypeOK, NEW v \in Peer, NEW t \in Peer, NEW l \in TrustLevel,
         Called, Accepts(v, t, l), NEW r \in Row, row' = [row EXCEPT ![t] = r],
         vouches' = [vouches EXCEPT ![v][t] = Grantable(v, l)],
         UNCHANGED <<revocations, enrolled>>,
         ~r.revoked, r.trust \in {Grantable(v, l), Greatest(Trust(t), Grantable(v, l))}
  PROVE  Step
<1> DEFINE g == Grantable(v, l)
<1>1. g \in 1..2 /\ g < Trust(v) /\ Trust(v) >= 2 /\ ~Revoked(t)
  BY Grants
<1> HIDE DEF g
<1>2. /\ row' \in [Peer -> Row \union {NoRow}]
      /\ Trust(t)' = r.trust
      /\ \A p \in Peer \ {t} : Trust(p)' = Trust(p) /\ Revoked(p)' = Revoked(p)
  BY RowChanged
<1>3. /\ vouches' \in [Peer -> [Peer -> UNKNOWN..TRUSTED]] /\ vouches'[v][t] = g
  BY <1>1 DEF TypeOK, UNKNOWN, TRUSTED, g
<1>4. \A p \in Peer : Trust(p) \in 0..3 /\ enrolled[p] \in 0..3
  BY RowFields
<1>5. ASSUME NEW p \in Peer, p # t PROVE TrustStep(p)
  <2>1. Revoked(p) => Trust(p) = 0
    BY DEF Revoked, Trust, UNKNOWN
  <2>2. \A w \in Peer : vouches'[w][p] = vouches[w][p]
    BY <1>5 DEF TypeOK
  <2> QED
    BY <1>2, <1>4, <1>5, <2>1, <2>2 DEF TrustStep
<1>6. TrustStep(t)
  <2>1. CASE r.trust = g
    <3>1. Earned(t, v)
      BY <1>1, <1>2, <1>3, <2>1 DEF Earned
    <3> QED
      BY <1>1, <3>1 DEF TrustStep
  <2>2. CASE r.trust = Greatest(Trust(t), g) /\ r.trust # g
    BY <1>1, <1>2, <1>4, <2>2 DEF TrustStep, Greatest
  <2> QED
    BY <2>1, <2>2 DEF g
<1>7. revocations' \subseteq Peer /\ enrolled' \in [Peer -> TrustLevel] /\ calls' \in 0..MaxCalls
  BY CalledBound DEF TypeOK
<1>8. \A p \in Peer : enrolled'[p] >= enrolled[p]
  BY <1>4
<1>9. \A p \in Peer : TrustStep(p)
  BY <1>5, <1>6
<1> QED
  BY <1>2, <1>3, <1>7, <1>8, <1>9 DEF Step

LEMMA RecordVouchSteps ==
  ASSUME TypeOK, NEW v \in Peer, NEW t \in Peer, NEW l \in TrustLevel,
         RecordVouch(v, t, l)
  PROVE  Step
<1> DEFINE r == [trust |-> Grantable(v, l), by |-> v, revoked |-> FALSE]
<1>1. Accepts(v, t, l) /\ Called
  BY DEF RecordVouch
<1>2. r \in Row /\ ~r.revoked /\ r.trust = Grantable(v, l)
  BY <1>1, Grants DEF Row, TrustLevel, UNKNOWN, OPERATOR
<1>3. row' = [row EXCEPT ![t] = r] /\ UNCHANGED <<revocations, enrolled>>
      /\ vouches' = [vouches EXCEPT ![v][t] = Grantable(v, l)]
  BY DEF RecordVouch
<1> HIDE DEF r
<1> QED
  BY <1>1, <1>2, <1>3, VouchSteps

LEMMA VouchCutShortSteps ==
  ASSUME TypeOK, NEW v \in Peer, NEW t \in Peer, NEW l \in TrustLevel,
         VouchCutShort(v, t, l)
  PROVE  Step
<1> DEFINE r == Upsert(t, Grantable(v, l))
<1>1. Accepts(v, t, l) /\ Called
  BY DEF VouchCutShort
<1>2. r \in Row /\ ~r.revoked /\ r.trust = Greatest(Trust(t), Grantable(v, l))
  BY <1>1, Grants, UpsertRow
<1>3. row' = [row EXCEPT ![t] = r] /\ UNCHANGED <<revocations, enrolled>>
      /\ vouches' = [vouches EXCEPT ![v][t] = Grantable(v, l)]
  BY DEF VouchCutShort
<1> HIDE DEF r
<1> QED
  BY <1>1, <1>2, <1>3, VouchSteps

LEMMA RevokeSteps ==
  ASSUME TypeOK, NEW s \in Peer, NEW t \in Peer, Revoke(s, t) PROVE Step
<1>1. UNCHANGED <<vouches, enrolled>> /\ revocations' \subseteq Peer /\ calls' \in 0..MaxCalls
  BY CalledBound DEF Revoke, TypeOK
<1>2. ASSUME NEW p \in Peer
      PROVE  /\ row'[p] \in Row \union {NoRow}
             /\ \/ row'[p] = row[p]
                \/ Has(p) /\ row'[p] # NoRow /\ row'[p].revoked
  <2>1. row'[p] = IF Has(p) /\ p \in {t} \union Dependents(t)
                  THEN [trust |-> UNKNOWN, by |-> row[p].by, revoked |-> TRUE]
                  ELSE row[p]
    BY DEF Revoke
  <2>2. ASSUME Has(p)
        PROVE  [trust |-> UNKNOWN, by |-> row[p].by, revoked |-> TRUE] \in Row
    BY <2>2, RowFields DEF Row, TrustLevel, UNKNOWN, OPERATOR
  <2>3. row[p] \in Row \union {NoRow}
    BY DEF TypeOK
  <2>4. CASE Has(p) /\ p \in {t} \union Dependents(t)
    <3>1. row'[p] = [trust |-> UNKNOWN, by |-> row[p].by, revoked |-> TRUE]
      BY <2>1, <2>4
    <3>2. row'[p] \in Row /\ row'[p].revoked
      BY <2>2, <2>4, <3>1
    <3> QED
      BY <2>4, <3>2, NoRowAssumption
  <2>5. CASE ~(Has(p) /\ p \in {t} \union Dependents(t))
    BY <2>1, <2>3, <2>5
  <2> QED
    BY <2>4, <2>5
<1>3. row' \in [Peer -> Row \union {NoRow}]
  BY <1>2 DEF Revoke
<1>4. ASSUME NEW p \in Peer PROVE TrustStep(p)
  <2>1. Trust(p) \in 0..3 /\ enrolled[p] \in 0..3 /\ (Revoked(p) => Trust(p) = 0)
    BY RowFields DEF Revoked, Trust, UNKNOWN
  <2>2. CASE row'[p] = row[p]
    <3>1. Trust(p)' = Trust(p) /\ Revoked(p)' = Revoked(p)
      BY <2>2 DEF Trust, Revoked, Has
    <3> QED
      BY <1>1, <2>1, <3>1 DEF TrustStep
  <2>3. CASE row'[p] # NoRow /\ row'[p].revoked
    <3>1. Trust(p)' = 0 /\ Revoked(p)'
      BY <2>3 DEF Trust, Revoked, Has, UNKNOWN
    <3> QED
      BY <1>1, <2>1, <3>1 DEF TrustStep
  <2> QED
    BY <1>2, <2>2, <2>3
<1>5. \A p \in Peer : enrolled'[p] >= enrolled[p]
  BY <1>1, RowFields
<1> QED
  BY <1>1, <1>3, <1>4, <1>5 DEF Step, TypeOK

LEMMA Steps == ASSUME TypeOK, Next PROVE Step
  BY AddPeerSteps, RecordVouchSteps, VouchCutShortSteps, RevokeSteps DEF Next

LEMMA InvInit == Init => IInv
  BY NoRowAssumption, TrustAssumption
  DEF Init, IInv, TypeOK, RankIsRooted, Trust, Has, UNKNOWN, TRUSTED, OPERATOR,
      TrustLevel

LEMMA InvNext == ASSUME IInv, [Next]_vars PROVE IInv'
<1>1. CASE Next
  <2>1. Step
    BY <1>1, Steps DEF IInv
  <2>2. TypeOK'
    BY <2>1 DEF Step, TypeOK
  <2>3. ASSUME NEW p \in Peer
        PROVE  \/ Trust(p)' <= enrolled'[p]
               \/ \E o \in Peer : Trust(p)' < enrolled'[o]
    <3>1. TrustStep(p) /\ \A o \in Peer : enrolled'[o] >= enrolled[o]
      BY <2>1 DEF Step
    <3>2. \A o \in Peer : /\ Trust(o) \in 0..3 /\ enrolled[o] \in 0..3
                          /\ Trust(o)' \in 0..3 /\ enrolled'[o] \in 0..3
      BY <2>2, RowFields DEF IInv, Trust, Has, TypeOK, TrustLevel, UNKNOWN, OPERATOR, Row
    <3>3. ASSUME NEW q \in Peer, Trust(p)' <= Trust(q), Trust(p)' = Trust(q) => q = p
          PROVE  \/ Trust(p)' <= enrolled'[p]
                 \/ \E o \in Peer : Trust(p)' < enrolled'[o]
      <4>1. CASE Trust(q) <= enrolled[q]
        BY <3>1, <3>2, <3>3, <4>1
      <4>2. ASSUME NEW o \in Peer, Trust(q) < enrolled[o]
            PROVE  Trust(p)' < enrolled'[o]
        BY <3>1, <3>2, <3>3, <4>2
      <4> QED
        BY <4>1, <4>2 DEF IInv, RankIsRooted
    <3>4. CASE Trust(p)' <= Trust(p)
      BY <3>2, <3>3, <3>4
    <3>5. ASSUME NEW v \in Peer, Trust(v) > Trust(p)'
          PROVE  \/ Trust(p)' <= enrolled'[p]
                 \/ \E o \in Peer : Trust(p)' < enrolled'[o]
      BY <3>2, <3>3, <3>5
    <3> QED
      BY <3>1, <3>4, <3>5 DEF TrustStep, Earned
  <2> QED
    BY <2>2, <2>3 DEF IInv, RankIsRooted, Trust, Has
<1>2. CASE UNCHANGED vars
  BY <1>2 DEF vars, IInv, TypeOK, RankIsRooted, Trust, Has
<1> QED
  BY <1>1, <1>2

LEMMA Invariance == Spec => []IInv
  BY InvInit, InvNext, PTL DEF Spec

\* Types, for any peers and any number of calls.
THEOREM TypeCorrect == Spec => []TypeOK
  BY Invariance, PTL DEF IInv

\* No chain of vouches lifts anybody to the level of those the user enrolled.
THEOREM RankRooted == Spec => []RankIsRooted
  BY Invariance, PTL DEF IInv

\* A peer whose row is revoked stays untrusted, and nobody's vouch for it is
\* recorded any more.
THEOREM RevocationIsFinal == Spec => RevokedRowIsFinal
<1>1. IInv /\ [Next]_vars =>
        \A p \in Peer : Revoked(p) =>
          /\ Revoked(p)' /\ Trust(p)' = UNKNOWN
          /\ \A v \in Peer : vouches'[v][p] = vouches[v][p]
  <2> SUFFICES ASSUME IInv, [Next]_vars, NEW p \in Peer, Revoked(p)
               PROVE  /\ Revoked(p)' /\ Trust(p)' = UNKNOWN
                      /\ \A v \in Peer : vouches'[v][p] = vouches[v][p]
    OBVIOUS
  <2>1. CASE Next
    BY <2>1, Steps DEF IInv, Step, TrustStep, UNKNOWN
  <2>2. CASE UNCHANGED vars
    BY <2>2 DEF vars, Revoked, Trust, Has, UNKNOWN
  <2> QED
    BY <2>1, <2>2
<1> QED
  BY <1>1, Invariance, PTL DEF Spec, RevokedRowIsFinal

\* Trust is gained from the user or from a trusted peer that ranks above.
THEOREM TrustEarned == Spec => TrustIsEarned
<1>1. IInv /\ [Next]_vars =>
        \A p \in Peer : Trust(p)' > Trust(p) =>
          \/ Trust(p)' <= enrolled'[p]
          \/ \E v \in Peer : /\ Trust(v) >= TRUSTED /\ Trust(v) > Trust(p)'
                             /\ vouches'[v][p] >= Trust(p)'
  <2> SUFFICES ASSUME IInv, [Next]_vars, NEW p \in Peer, Trust(p)' > Trust(p)
               PROVE  \/ Trust(p)' <= enrolled'[p]
                      \/ \E v \in Peer : /\ Trust(v) >= TRUSTED /\ Trust(v) > Trust(p)'
                                         /\ vouches'[v][p] >= Trust(p)'
    OBVIOUS
  <2>1. Trust(p) \in 0..3 /\ Trust(p)' \in 0..3
    BY InvNext, RowFields DEF IInv, TypeOK, Trust, Has, Row, TrustLevel, UNKNOWN, OPERATOR
  <2>2. CASE Next
    BY <2>1, <2>2, Steps DEF IInv, Step, TrustStep, Earned, TRUSTED
  <2>3. CASE UNCHANGED vars
    BY <2>1, <2>3 DEF vars, Trust, Has
  <2> QED
    BY <2>2, <2>3
<1> QED
  BY <1>1, Invariance, PTL DEF Spec, TrustIsEarned

=============================================================================
