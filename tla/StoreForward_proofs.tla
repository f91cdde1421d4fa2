------------------------- MODULE StoreForward_proofs -------------------------
(***************************************************************************)
(* The queue keeps its promise for any messages, batch size, number of     *)
(* attempts and life time.                                                 *)
(***************************************************************************)
EXTENDS StoreForward, TLAPS

Table == [Id -> Row \union {NoRow}]

\* What _drain_batch has in hand.
InHand == batch \union ({sending} \ {NoSend})

\* The connection and the disk hold the same rows; only the delivered flag and
\* the count of attempts may be ahead of the disk.
Agrees ==
  \A i \in Id :
    /\ Has(db, i) <=> Has(disk, i)
    /\ Has(db, i) => /\ db[i].payload = disk[i].payload
                     /\ disk[i].delivered => db[i].delivered

\* Whatever is queued or about to be sent was accepted.
AllAccepted ==
  /\ \A i \in Id : Has(db, i) => <<i, db[i].payload>> \in accepted
  /\ \A x \in InHand : Of(x) \in accepted

\* A caller has queued a whole message under this id.
Whole(i) == \E p \in Payload : <<i, p>> \in accepted

\* A file of the stick is a message that was accepted, or what is left of one.
FilesOK ==
  /\ \A f \in usb : Whole(f.id) /\ (Of(f) \in accepted \/ f.payload = Cut)
  /\ \A f, g \in usb : f.id = g.id => f = g
  /\ \A m \in accepted : Whole(m[1])

\* Nothing is received that was never accepted.
ReceivedAccepted == received \subseteq accepted

\* A row is marked only when something of its id was received.
MarkedById ==
  \A i \in Id : Has(db, i) /\ db[i].delivered => \E m \in received : m[1] = i

\* A batch has one row of an id, and that row has an attempt left: a message
\* that is queued again during the await starts from 0.
BatchOK ==
  /\ sending = NoSend => batch = {}
  /\ sending \notin batch
  /\ \A x, y \in InHand : x.id = y.id => x = y
  /\ \A x \in InHand : Has(db, x.id) => db[x.id].attempts < MaxAttempts

Honest ==
  \A i \in Id : /\ Has(db, i) => db[i].attempts <= failed[i]
                /\ Has(disk, i) => disk[i].attempts <= failed[i]

QueueInv == TypeOK /\ Agrees /\ AllAccepted /\ BatchOK /\ Honest /\ IdleIsCommitted

\* The wipe has committed, and nothing writes after it.
Wiped == phase = "wiped" => db = disk

IInv == QueueInv /\ Wiped /\ FilesOK /\ ReceivedAccepted /\ MarkedById

(***************************************************************************)
(* Lemmas about the operators                                              *)
(***************************************************************************)
LEMMA FirstsAreIn == ASSUME NEW S PROVE Firsts(S) \subseteq S
  BY DEF Firsts

LEMMA RowFields ==
  ASSUME NEW t \in Table, NEW i \in Id, Has(t, i)
  PROVE  /\ t[i] \in Row
         /\ t[i].payload \in Content /\ t[i].created \in 0..MaxNow
         /\ t[i].attempts \in 0..MaxAttempts /\ t[i].delivered \in BOOLEAN
  BY DEF Table, Has, Row

LEMMA ItemIsItem ==
  ASSUME NEW t \in Table, NEW i \in Id, Has(t, i)
  PROVE  /\ ItemOf(t, i) \in Item /\ ItemOf(t, i).id = i
         /\ Of(ItemOf(t, i)) = <<i, t[i].payload>>
  BY RowFields DEF ItemOf, Item, Of

\* The rows that a batch is chosen from.
LEMMA ReadyRows ==
  ASSUME db \in Table
  PROVE  /\ \A x \in Ready : /\ x \in Item /\ x.id \in Id /\ Has(db, x.id)
                             /\ Of(x) = <<x.id, db[x.id].payload>>
                             /\ db[x.id].attempts < MaxAttempts
         /\ \A x, y \in Ready : x.id = y.id => x = y
<1>1. ASSUME NEW x \in Ready
      PROVE  \E i \in Id : /\ x = ItemOf(db, i) /\ Has(db, i)
                           /\ ~OutOfAttempts(db[i])
  BY DEF Ready, Waiting
<1>2. ASSUME NEW x \in Ready
      PROVE  /\ x \in Item /\ x.id \in Id /\ Has(db, x.id)
             /\ x = ItemOf(db, x.id)
             /\ Of(x) = <<x.id, db[x.id].payload>>
             /\ db[x.id].attempts < MaxAttempts
  <2>1. PICK i \in Id : x = ItemOf(db, i) /\ Has(db, i) /\ ~OutOfAttempts(db[i])
    BY <1>1
  <2>2. x.id = i
    BY <2>1, ItemIsItem
  <2>3. db[i].attempts < MaxAttempts
    BY <2>1, RowFields, QueueAssumption DEF OutOfAttempts
  <2> QED
    BY <2>1, <2>2, <2>3, ItemIsItem
<1> QED
  BY <1>2

\* An UPDATE of one row keeps the table's shape.
LEMMA UpdateRow ==
  ASSUME NEW i \in Id, NEW row, db \in Table, Has(db, i) => row \in Row
  PROVE  /\ Update(i, row) \in Table
         /\ \A j \in Id : /\ Has(Update(i, row), j) <=> Has(db, j)
                          /\ j # i => Update(i, row)[j] = db[j]
         /\ Has(db, i) => Update(i, row)[i] = row
  BY NullAssumption DEF Update, Table, Has


(***************************************************************************)
(* The inductive invariant                                                 *)
(***************************************************************************)
LEMMA InvInit == Init => IInv
<1> SUFFICES ASSUME Init PROVE IInv
  OBVIOUS
<1>1. TypeOK
  BY QueueAssumption DEF Init, TypeOK, FULL
<1>2. InHand = {} /\ \A i \in Id : ~Has(db, i) /\ ~Has(disk, i)
  BY DEF Init, InHand, Has
<1>3. Agrees /\ Honest
  BY <1>2 DEF Agrees, Honest
<1>4. AllAccepted
  BY <1>2 DEF AllAccepted, Init
<1>5. BatchOK
  BY <1>2 DEF BatchOK, Init
<1> QED
  BY <1>1, <1>2, <1>3, <1>4, <1>5
  DEF IInv, QueueInv, Wiped, IdleIsCommitted, FilesOK, ReceivedAccepted, MarkedById, Init

\* What the end of one send does to the drain and to the table.
LEMMA ContinueKeeps ==
  ASSUME QueueInv, sending # NoSend,
         NEW T \in Table, Continue(T),
         \A j \in Id : Has(T, j) <=> Has(db, j),
         \A j \in Id : j # sending.id => T[j] = db[j],
         Has(db, sending.id) => T[sending.id].payload = db[sending.id].payload,
         Has(db, sending.id) /\ db[sending.id].delivered => T[sending.id].delivered,
         UNCHANGED <<usb, accepted>>
  PROVE  /\ db' = T /\ disk' \in {disk, T} /\ disk' \in Table
         /\ sending' \in Item \union {NoSend} /\ batch' \subseteq Item
         /\ Agrees' /\ AllAccepted' /\ BatchOK' /\ IdleIsCommitted'
<1> USE DEF QueueInv
<1>1. sending \in Item /\ sending.id \in Id /\ batch \subseteq Item
  BY DEF TypeOK, Item
<1>2. db' = T
  BY DEF Continue, Commit
<1>3. \/ batch = {} /\ sending' = NoSend /\ batch' = {} /\ disk' = T
      \/ \E x \in batch : sending' = x /\ batch' = batch \ {x} /\ disk' = disk
  BY FirstsAreIn DEF Continue, Commit
<1>4. InHand' = batch /\ InHand' \subseteq InHand
  BY <1>1, <1>3, NullAssumption DEF InHand
<1>5. disk' \in {disk, T} /\ disk' \in Table
  BY <1>3 DEF TypeOK, Table
<1>6. sending' \in Item \union {NoSend} /\ batch' \subseteq Item
  BY <1>1, <1>3
<1>7. Agrees'
  BY <1>1, <1>2, <1>3 DEF Agrees, Has
<1>8. AllAccepted'
  <2>1. \A j \in Id : Has(T, j) => T[j].payload = db[j].payload
    BY <1>1
  <2> QED
    BY <1>2, <1>4, <2>1 DEF AllAccepted, Has
<1>9. BatchOK'
  <2>1. \A x \in batch : x.id # sending.id /\ x \in InHand /\ x.id \in Id
    BY <1>1, NullAssumption DEF BatchOK, InHand, Item
  <2>2. \A x \in batch : Has(T, x.id) => T[x.id].attempts < MaxAttempts
    BY <1>1, <2>1 DEF BatchOK
  <2>3. \A x \in InHand' : Has(db, x.id)' => db'[x.id].attempts < MaxAttempts
    BY <1>2, <1>4, <2>2 DEF Has
  <2>4. (sending = NoSend => batch = {})' /\ (sending \notin batch)'
    BY <1>1, <1>3, NullAssumption
  <2>5. \A x, y \in InHand' : x.id = y.id => x = y
    BY <1>4 DEF BatchOK
  <2> QED
    BY <2>3, <2>4, <2>5 DEF BatchOK
<1>10. IdleIsCommitted'
  BY <1>1, <1>2, <1>3, NullAssumption DEF IdleIsCommitted
<1> QED
  BY <1>2, <1>5, <1>6, <1>7, <1>8, <1>9, <1>10

\* The connection's view after the UPDATE of a successful or a failed send.
DeliveredTable == Update(sending.id, MarkDelivered(db[sending.id]))
FailedTable == Update(sending.id, CountAttempt(db[sending.id]))

LEMMA SendTables ==
  ASSUME QueueInv, sending # NoSend
  PROVE  /\ sending.id \in Id
         /\ DeliveredTable \in Table /\ FailedTable \in Table
         /\ \A j \in Id : Has(DeliveredTable, j) <=> Has(db, j)
         /\ \A j \in Id : Has(FailedTable, j) <=> Has(db, j)
         /\ \A j \in Id : j # sending.id => DeliveredTable[j] = db[j]
         /\ \A j \in Id : j # sending.id => FailedTable[j] = db[j]
         /\ Has(db, sending.id) =>
              /\ DeliveredTable[sending.id].payload = db[sending.id].payload
              /\ DeliveredTable[sending.id].attempts = db[sending.id].attempts
              /\ DeliveredTable[sending.id].delivered = TRUE
              /\ FailedTable[sending.id].payload = db[sending.id].payload
              /\ FailedTable[sending.id].delivered = db[sending.id].delivered
              /\ FailedTable[sending.id].attempts = db[sending.id].attempts + 1
              /\ db[sending.id].attempts < MaxAttempts
<1> DEFINE i == sending.id
           d == MarkDelivered(db[i])
           f == CountAttempt(db[i])
<1>1. i \in Id /\ sending \in InHand /\ db \in Table
  BY NullAssumption DEF QueueInv, TypeOK, Item, InHand, Table
<1>2. Has(db, i) => db[i].attempts < MaxAttempts
  BY <1>1 DEF QueueInv, BatchOK
<1>3. ASSUME Has(db, i)
      PROVE  /\ d \in Row /\ f \in Row
             /\ d.payload = db[i].payload /\ d.attempts = db[i].attempts
             /\ d.delivered = TRUE
             /\ f.payload = db[i].payload /\ f.delivered = db[i].delivered
             /\ f.attempts = db[i].attempts + 1
  <2>1. db[i] \in Row /\ db[i].attempts \in 0..MaxAttempts
    BY <1>1, <1>3, RowFields
  <2>2. db[i].attempts + 1 \in 0..MaxAttempts
    BY <2>1, <1>2, <1>3, QueueAssumption
  <2> QED
    BY <2>1, <2>2 DEF Row, MarkDelivered, CountAttempt
<1> HIDE DEF d, f
<1>4. DeliveredTable = Update(i, d) /\ FailedTable = Update(i, f)
  BY DEF DeliveredTable, FailedTable, d, f
<1>5. /\ Update(i, d) \in Table
      /\ \A j \in Id : /\ Has(Update(i, d), j) <=> Has(db, j)
                       /\ j # i => Update(i, d)[j] = db[j]
      /\ Has(db, i) => Update(i, d)[i] = d
  BY <1>1, <1>3, UpdateRow
<1>6. /\ Update(i, f) \in Table
      /\ \A j \in Id : /\ Has(Update(i, f), j) <=> Has(db, j)
                       /\ j # i => Update(i, f)[j] = db[j]
      /\ Has(db, i) => Update(i, f)[i] = f
  BY <1>1, <1>3, UpdateRow
<1>7. ASSUME Has(db, i)
      PROVE  /\ DeliveredTable[i] = d /\ FailedTable[i] = f
  BY <1>4, <1>5, <1>6, <1>7
<1>8. ASSUME Has(db, sending.id)
      PROVE  /\ DeliveredTable[i].payload = db[i].payload
             /\ DeliveredTable[i].attempts = db[i].attempts
             /\ DeliveredTable[i].delivered = TRUE
             /\ FailedTable[i].payload = db[i].payload
             /\ FailedTable[i].delivered = db[i].delivered
             /\ FailedTable[i].attempts = db[i].attempts + 1
             /\ db[i].attempts < MaxAttempts
  BY <1>2, <1>3, <1>7, <1>8
<1>9. \A j \in Id : /\ Has(DeliveredTable, j) <=> Has(db, j)
                    /\ Has(FailedTable, j) <=> Has(db, j)
  BY <1>4, <1>5, <1>6 DEF Has
<1>10. \A j \in Id : j # sending.id => /\ DeliveredTable[j] = db[j]
                                       /\ FailedTable[j] = db[j]
  BY <1>4, <1>5, <1>6 DEF Has
<1>11. sending.id \in Id /\ DeliveredTable \in Table /\ FailedTable \in Table
  BY <1>1, <1>4, <1>5, <1>6
<1> HIDE DEF i
<1> QED
  BY <1>8, <1>9, <1>10, <1>11 DEF i, Has

LEMMA SendSucceedsKeeps == ASSUME QueueInv, SendSucceeds PROVE QueueInv'
<1> DEFINE T == DeliveredTable
<1>1. /\ sending # NoSend /\ Continue(T) /\ UNCHANGED <<usb, accepted>>
      /\ sending.id \in Id /\ T \in Table
  BY SendTables DEF SendSucceeds, DeliveredTable
<1>2. /\ \A j \in Id : Has(T, j) <=> Has(db, j)
      /\ \A j \in Id : j # sending.id => T[j] = db[j]
      /\ Has(db, sending.id) => T[sending.id].payload = db[sending.id].payload
      /\ Has(db, sending.id) /\ db[sending.id].delivered => T[sending.id].delivered
      /\ Has(db, sending.id) => T[sending.id].attempts = db[sending.id].attempts
  BY <1>1, SendTables
<1> HIDE DEF T
<1>3. /\ db' = T /\ disk' \in {disk, T} /\ disk' \in Table
      /\ sending' \in Item \union {NoSend} /\ batch' \subseteq Item
      /\ Agrees' /\ AllAccepted' /\ BatchOK' /\ IdleIsCommitted'
  BY <1>1, <1>2, ContinueKeeps
<1>4. TypeOK'
  <2>1. Of(sending) \in Message
    BY <1>1 DEF QueueInv, TypeOK, Item, Of, Message
  <2> QED
    BY <1>1, <1>3, <2>1 DEF QueueInv, TypeOK, SendSucceeds, Table
<1>5. Honest'
  <2>1. failed' = failed
    BY DEF SendSucceeds
  <2>2. \A j \in Id : Has(T, j) => T[j].attempts <= failed[j]
    BY <1>2 DEF QueueInv, Honest
  <2> QED
    BY <1>3, <2>1, <2>2 DEF QueueInv, Honest, Has
<1> QED
  BY <1>3, <1>4, <1>5 DEF QueueInv

LEMMA SendFailsKeeps == ASSUME QueueInv, SendFails PROVE QueueInv'
<1> DEFINE T == FailedTable
<1>1. /\ sending # NoSend /\ Continue(T) /\ UNCHANGED <<usb, accepted>>
      /\ sending.id \in Id /\ T \in Table
  BY SendTables DEF SendFails, FailedTable
<1>2. /\ \A j \in Id : Has(T, j) <=> Has(db, j)
      /\ \A j \in Id : j # sending.id => T[j] = db[j]
      /\ Has(db, sending.id) => T[sending.id].payload = db[sending.id].payload
      /\ Has(db, sending.id) /\ db[sending.id].delivered => T[sending.id].delivered
      /\ Has(db, sending.id) => /\ T[sending.id].attempts = db[sending.id].attempts + 1
                                /\ db[sending.id].attempts < MaxAttempts
  BY <1>1, SendTables
<1> HIDE DEF T
<1>3. /\ db' = T /\ disk' \in {disk, T} /\ disk' \in Table
      /\ sending' \in Item \union {NoSend} /\ batch' \subseteq Item
      /\ Agrees' /\ AllAccepted' /\ BatchOK' /\ IdleIsCommitted'
  BY <1>1, <1>2, ContinueKeeps
<1>4. TypeOK'
  <2>1. Of(sending) \in Message
    BY <1>1 DEF QueueInv, TypeOK, Item, Of, Message
  <2>2. received' \subseteq Message
    BY <1>1, <2>1 DEF QueueInv, TypeOK, SendFails, Arrives
  <2>3. failed' \in [Id -> 0..MaxAttempts]
    BY <1>1, QueueAssumption DEF QueueInv, TypeOK, SendFails
  <2> QED
    BY <1>1, <1>3, <2>2, <2>3 DEF QueueInv, TypeOK, SendFails, Table
<1>5. Honest'
  <2>1. /\ \A j \in Id : /\ failed[j] \in 0..MaxAttempts
                         /\ failed'[j] \in 0..MaxAttempts
                         /\ failed'[j] >= failed[j]
        /\ failed'[sending.id] = IF failed[sending.id] < MaxAttempts
                                THEN failed[sending.id] + 1 ELSE failed[sending.id]
    BY <1>1, QueueAssumption DEF QueueInv, TypeOK, SendFails
  <2>2. \A j \in Id : /\ Has(db, j) => db[j].attempts \in Nat
                      /\ Has(disk, j) => disk[j].attempts \in Nat
    BY RowFields DEF QueueInv, TypeOK, Table
  <2>3. \A j \in Id : /\ failed[j] \in Nat /\ failed'[j] \in Nat
                      /\ failed[j] <= MaxAttempts
    BY <2>1, QueueAssumption
  <2>4. \A j \in Id : /\ Has(db, j) => db[j].attempts <= failed[j]
                      /\ Has(disk, j) => disk[j].attempts <= failed[j]
    BY DEF QueueInv, Honest
  <2>5. ASSUME NEW j \in Id, Has(disk, j) PROVE disk[j].attempts <= failed'[j]
    BY <2>1, <2>2, <2>3, <2>4, <2>5 DEF Has
  <2>6. ASSUME NEW j \in Id, Has(T, j) PROVE T[j].attempts <= failed'[j]
    <3>1. Has(db, j) /\ db[j].attempts <= failed[j] /\ db[j].attempts \in Nat
      BY <1>2, <2>2, <2>4, <2>6 DEF Has
    <3>2. CASE j = sending.id
      <4>1. T[j].attempts = db[j].attempts + 1 /\ db[j].attempts < MaxAttempts
        BY <1>2, <3>1, <3>2
      <4>2. failed'[j] = IF failed[j] < MaxAttempts THEN failed[j] + 1 ELSE failed[j]
        BY <2>1, <3>2
      <4> QED
        BY <2>3, <3>1, <4>1, <4>2, QueueAssumption
    <3>3. CASE j # sending.id
      <4>1. T[j] = db[j] /\ failed[j] <= failed'[j]
        BY <1>2, <2>1, <2>3, <3>3
      <4> QED
        BY <2>3, <3>1, <4>1
    <3> QED
      BY <3>2, <3>3
  <2> QED
    BY <1>3, <2>5, <2>6 DEF Honest, Has
<1> QED
  BY <1>3, <1>4, <1>5 DEF QueueInv

\* A commit of table T by a coroutine other than the drain.
LEMMA CommitKeeps ==
  ASSUME QueueInv, NEW T \in Table, Commit(T), UNCHANGED <<sending, batch, failed>>,
         usb' = usb, accepted \subseteq accepted',
         \A i \in Id : Has(T, i) => <<i, T[i].payload>> \in accepted',
         \A i \in Id : Has(T, i) => T[i].attempts = 0 \/ T[i] = db[i]
  PROVE  /\ db' \in Table /\ disk' \in Table
         /\ Agrees' /\ AllAccepted' /\ BatchOK' /\ Honest' /\ IdleIsCommitted'
<1> USE DEF QueueInv
<1>1. db' = T /\ disk' = T /\ InHand' = InHand
  BY DEF Commit, InHand
<1>2. Agrees' /\ IdleIsCommitted'
  BY <1>1 DEF Agrees, IdleIsCommitted, Has
<1>3. AllAccepted'
  BY <1>1 DEF AllAccepted, Has
<1>4. \A i \in Id : failed[i] \in Nat
  BY QueueAssumption DEF TypeOK
<1>5. Honest'
  <2>1. \A i \in Id : Has(T, i) => T[i].attempts <= failed[i]
    BY <1>4 DEF Honest, Has
  <2> QED
    BY <1>1, <2>1 DEF Honest, Has
<1>6. BatchOK'
  <2>1. \A x \in InHand : x.id \in Id
    BY DEF TypeOK, InHand, Item
  <2>2. \A x \in InHand : Has(T, x.id) => T[x.id].attempts < MaxAttempts
    BY <2>1, QueueAssumption DEF BatchOK, Has
  <2> QED
    BY <1>1, <2>2 DEF BatchOK, Has
<1> QED
  BY <1>1, <1>2, <1>3, <1>5, <1>6

LEMMA FreshRow ==
  ASSUME NEW p \in Content, NEW t \in 0..MaxNow
  PROVE  /\ Fresh(p, t) \in Row /\ Fresh(p, t).attempts = 0
         /\ Fresh(p, t).payload = p /\ Fresh(p, t) # NoRow
         /\ ~Fresh(p, t).delivered
<1>1. Fresh(p, t) \in Row
  BY QueueAssumption DEF Fresh, Row
<1>2. Fresh(p, t) # NoRow
  BY <1>1, NullAssumption
<1>3. Fresh(p, t).attempts = 0 /\ Fresh(p, t).payload = p /\ ~Fresh(p, t).delivered
  BY DEF Fresh
<1> QED
  BY <1>1, <1>2, <1>3

LEMMA QueueMessageKeeps ==
  ASSUME QueueInv, NEW i \in Id, NEW p \in Payload, QueueMessage(i, p) PROVE QueueInv'
<1> DEFINE T == [db EXCEPT ![i] = Fresh(p, now)]
<1>1. db \in Table /\ now \in 0..MaxNow /\ p \in Content
  BY DEF QueueInv, TypeOK, Table, Content
<1>2. T \in Table /\ T[i] = Fresh(p, now) /\ \A j \in Id : j # i => T[j] = db[j]
  BY <1>1, FreshRow DEF Table
<1>3. Commit(T)
  BY DEF QueueMessage
<1> HIDE DEF T
<1>4. \A j \in Id : Has(T, j) => <<j, T[j].payload>> \in accepted'
  BY <1>1, <1>2, FreshRow DEF QueueInv, AllAccepted, QueueMessage, Has
<1>5. \A j \in Id : Has(T, j) => T[j].attempts = 0 \/ T[j] = db[j]
  BY <1>1, <1>2, FreshRow
<1>6. /\ db' \in Table /\ disk' \in Table
      /\ Agrees' /\ AllAccepted' /\ BatchOK' /\ Honest' /\ IdleIsCommitted'
  BY <1>2, <1>3, <1>4, <1>5, CommitKeeps DEF QueueMessage, drain
<1>7. TypeOK'
  BY <1>1, <1>6, QueueAssumption
  DEF QueueInv, TypeOK, Table, QueueMessage, drain, Message
<1> QED
  BY <1>6, <1>7 DEF QueueInv

LEMMA ImportedTable ==
  ASSUME QueueInv, NEW F \in SUBSET usb
  PROVE  /\ Imported(F) \in Table
         /\ \A i \in Id :
              \/ Imported(F)[i] = db[i] /\ ~\E f \in F : f.id = i
              \/ \E f \in F : f.id = i /\ Imported(F)[i] = Fresh(f.payload, f.created)
<1>1. ASSUME NEW i \in Id, \E f \in F : f.id = i
      PROVE  \E f \in F : /\ f.id = i /\ Imported(F)[i] = Fresh(f.payload, f.created)
                          /\ Imported(F)[i] \in Row
  <2> DEFINE g == CHOOSE g \in F : g.id = i
  <2>1. g \in F /\ g.id = i
    BY <1>1
  <2>2. Imported(F)[i] = Fresh(g.payload, g.created)
    BY <1>1 DEF Imported
  <2>3. g.payload \in Content /\ g.created \in 0..MaxNow
    BY <2>1 DEF QueueInv, TypeOK, Item
  <2> HIDE DEF g
  <2> QED
    BY <2>1, <2>2, <2>3, FreshRow
<1>2. ASSUME NEW i \in Id, ~\E f \in F : f.id = i
      PROVE  Imported(F)[i] = db[i]
  BY <1>2 DEF Imported
<1>3. \A i \in Id : Imported(F)[i] \in Row \union {NoRow}
  BY <1>1, <1>2 DEF QueueInv, TypeOK
<1>4. Imported(F) \in Table
  BY <1>3 DEF Imported, Table
<1> QED
  BY <1>1, <1>2, <1>4

LEMMA ImportKeeps == ASSUME QueueInv, ImportFromUSB PROVE QueueInv'
<1>1. PICK F \in SUBSET usb :
        /\ queued < MaxQueued /\ queued' = queued + 1
        /\ Commit(Imported(F)) /\ accepted' = accepted \union {Of(f) : f \in F}
  BY DEF ImportFromUSB
<1> DEFINE T == Imported(F)
<1>2. /\ T \in Table
      /\ \A i \in Id : \/ T[i] = db[i]
                       \/ \E f \in F : f.id = i /\ T[i] = Fresh(f.payload, f.created)
  BY ImportedTable
<1>3. Commit(T)
  BY <1>1
<1> HIDE DEF T
<1>4. \A f \in F : f.id \in Id /\ f.payload \in Content /\ f.created \in 0..MaxNow
  BY DEF QueueInv, TypeOK, Item
<1>5. \A i \in Id : Has(T, i) => <<i, T[i].payload>> \in accepted'
  BY <1>1, <1>2, <1>4, FreshRow DEF QueueInv, AllAccepted, Has, Of
<1>6. \A i \in Id : Has(T, i) => T[i].attempts = 0 \/ T[i] = db[i]
  BY <1>2, <1>4, FreshRow
<1>7. /\ db' \in Table /\ disk' \in Table
      /\ Agrees' /\ AllAccepted' /\ BatchOK' /\ Honest' /\ IdleIsCommitted'
  BY <1>1, <1>2, <1>3, <1>5, <1>6, CommitKeeps DEF ImportFromUSB, drain
<1>8. accepted' \subseteq Message
  BY <1>1, <1>4 DEF QueueInv, TypeOK, Of, Message
<1>9. TypeOK'
  BY <1>1, <1>7, <1>8, QueueAssumption DEF QueueInv, TypeOK, Table, ImportFromUSB, drain
<1> QED
  BY <1>7, <1>9 DEF QueueInv

LEMMA LeavesFiles ==
  ASSUME db \in Table, NEW i \in Id, Has(db, i), NEW S \in Leaves(i), NEW f \in S
  PROVE  f \in Item /\ f.id = i /\ (f = ItemOf(db, i) \/ f.payload = Cut)
<1>1. ItemOf(db, i) \in Item /\ ItemOf(db, i).id = i
  BY ItemIsItem
<1>2. f = ItemOf(db, i) \/ f = [ItemOf(db, i) EXCEPT !.payload = Cut]
  BY DEF Leaves
<1> QED
  BY <1>1, <1>2 DEF Item, Content

\* The files of one id: one at most, a row's or what is left of it.
LEMMA ExportFiles ==
  ASSUME QueueInv, ExportToUSB
  PROVE  \E ids \in SUBSET Waiting(db) :
           /\ \A f \in usb' : \/ f \in usb /\ f.id \notin ids
                              \/ /\ f \in Item /\ f.id \in ids
                                 /\ (f = ItemOf(db, f.id) \/ f.payload = Cut)
           /\ \A f, g \in usb' : f.id = g.id /\ f.id \in ids => f = g
<1>1. PICK ids \in SUBSET Waiting(db) :
        \E last \in ids : \E rest \in Leaves(last) :
          usb' = {f \in usb : f.id \notin ids} \union rest
                   \union {ItemOf(db, i) : i \in ids \ {last}}
  BY DEF ExportToUSB
<1>2. PICK last \in ids : \E rest \in Leaves(last) :
        usb' = {f \in usb : f.id \notin ids} \union rest
                 \union {ItemOf(db, i) : i \in ids \ {last}}
  BY <1>1
<1>3. PICK rest \in Leaves(last) :
        usb' = {f \in usb : f.id \notin ids} \union rest
                 \union {ItemOf(db, i) : i \in ids \ {last}}
  BY <1>2
<1>4. db \in Table /\ \A i \in ids : i \in Id /\ Has(db, i)
  BY DEF QueueInv, TypeOK, Table, Waiting
<1>5. \A f \in rest : f \in Item /\ f.id = last /\ (f = ItemOf(db, last) \/ f.payload = Cut)
  BY <1>4, LeavesFiles
<1>6. \A f, g \in rest : f = g
  BY DEF Leaves
<1>7. \A i \in ids : ItemOf(db, i) \in Item /\ ItemOf(db, i).id = i
  BY <1>4, ItemIsItem
<1>8. ASSUME NEW f \in usb'
      PROVE  \/ f \in usb /\ f.id \notin ids
             \/ f \in rest
             \/ \E i \in ids \ {last} : f = ItemOf(db, i)
  BY <1>3
<1>9. \A f \in usb' : \/ f \in usb /\ f.id \notin ids
                      \/ /\ f \in Item /\ f.id \in ids
                         /\ (f = ItemOf(db, f.id) \/ f.payload = Cut)
  BY <1>5, <1>7, <1>8
<1>10. ASSUME NEW f \in usb', f.id \in ids
      PROVE  /\ f.id = last => f \in rest
             /\ f.id # last => f = ItemOf(db, f.id)
  <2>1. CASE f \in rest
    BY <1>5, <2>1
  <2>2. ASSUME NEW i \in ids \ {last}, f = ItemOf(db, i) PROVE f.id = i /\ i # last
    BY <1>7, <2>2
  <2> QED
    BY <1>8, <1>10, <2>1, <2>2
<1>11. \A f, g \in usb' : f.id = g.id /\ f.id \in ids => f = g
  BY <1>6, <1>10
<1> QED
  BY <1>9, <1>11

LEMMA ExportKeeps == ASSUME QueueInv, ExportToUSB PROVE QueueInv'
<1>1. usb' \subseteq Item
  BY ExportFiles DEF QueueInv, TypeOK
<1>2. UNCHANGED <<phase, level, db, disk, sending, batch, now, queued,
                  accepted, received, failed>>
  BY DEF ExportToUSB, store, drain, history
<1> QED
  BY <1>1, <1>2 DEF QueueInv, TypeOK, AllAccepted, Agrees, BatchOK, Honest,
     IdleIsCommitted, InHand, Has

LEMMA DownKeeps == ASSUME QueueInv, Down PROVE QueueInv'
<1>1. /\ db' = disk /\ disk' = disk /\ InHand' = {} /\ sending' = NoSend
      /\ batch' = {} /\ UNCHANGED <<usb, now, queued, accepted, failed>>
  BY DEF Down, InHand
<1>2. received' \subseteq Message
  BY DEF QueueInv, TypeOK, Down, Arrives, Item, Of, Message
<1>3. TypeOK'
  BY <1>1, <1>2, QueueAssumption DEF QueueInv, TypeOK, Down, FULL
<1>4. Agrees' /\ Honest' /\ IdleIsCommitted'
  BY <1>1 DEF QueueInv, Agrees, Honest, IdleIsCommitted, Has
<1>5. AllAccepted'
  BY <1>1 DEF QueueInv, Agrees, AllAccepted, Has
<1>6. BatchOK'
  BY <1>1 DEF BatchOK
<1> QED
  BY <1>3, <1>4, <1>5, <1>6 DEF QueueInv

LEMMA WipeKeeps == ASSUME QueueInv, EmergencyWipe PROVE QueueInv'
<1> DEFINE T == [i \in Id |-> NoRow]
<1>1. T \in Table /\ \A i \in Id : ~Has(T, i)
  BY DEF Table, Has
<1>2. Commit(T) /\ UNCHANGED <<level, drain, usb, now, queued, history>>
  BY DEF EmergencyWipe
<1> HIDE DEF T
<1>3. /\ db' \in Table /\ disk' \in Table
      /\ Agrees' /\ AllAccepted' /\ BatchOK' /\ Honest' /\ IdleIsCommitted'
  BY <1>1, <1>2, CommitKeeps DEF drain, history
<1>4. TypeOK'
  BY <1>2, <1>3 DEF QueueInv, TypeOK, Table, EmergencyWipe, drain, history
<1> QED
  BY <1>3, <1>4 DEF QueueInv

LEMMA ExpireKeeps == ASSUME QueueInv, ExpireRound PROVE QueueInv'
<1> DEFINE T == [i \in Id |-> IF Has(db, i) /\ Expired(db[i]) THEN NoRow ELSE db[i]]
<1>1. T \in Table /\ \A i \in Id : Has(T, i) => T[i] = db[i] /\ Has(db, i)
  BY DEF QueueInv, TypeOK, Table, Has
<1>2. Commit(T) /\ UNCHANGED <<phase, level, drain, usb, now, queued, history>>
  BY DEF ExpireRound
<1> HIDE DEF T
<1>3. \A i \in Id : Has(T, i) => <<i, T[i].payload>> \in accepted
  BY <1>1 DEF QueueInv, AllAccepted
<1>4. /\ db' \in Table /\ disk' \in Table
      /\ Agrees' /\ AllAccepted' /\ BatchOK' /\ Honest' /\ IdleIsCommitted'
  BY <1>1, <1>2, <1>3, CommitKeeps DEF drain, history
<1>5. TypeOK'
  BY <1>2, <1>4 DEF QueueInv, TypeOK, Table, drain, history
<1> QED
  BY <1>4, <1>5 DEF QueueInv

LEMMA DrainBatchKeeps == ASSUME QueueInv, DrainBatch PROVE QueueInv'
<1>1. PICK S \in Batches : \E x \in Firsts(S) : sending' = x /\ batch' = S \ {x}
  BY DEF DrainBatch
<1>2. PICK x \in S : sending' = x /\ batch' = S \ {x}
  BY <1>1, FirstsAreIn
<1>3. db \in Table /\ S \subseteq Ready
  BY DEF QueueInv, TypeOK, Table, Batches
<1>4. /\ \A y \in S : /\ y \in Item /\ y.id \in Id /\ Has(db, y.id)
                      /\ Of(y) = <<y.id, db[y.id].payload>>
                      /\ db[y.id].attempts < MaxAttempts
      /\ \A y, z \in S : y.id = z.id => y = z
  BY <1>3, ReadyRows
<1>5. UNCHANGED <<phase, level, db, disk, usb, now, queued, accepted, received, failed>>
  BY DEF DrainBatch, store, history
<1>6. InHand' = S /\ x # NoSend
  BY <1>2, <1>4, NullAssumption DEF InHand
<1>7. TypeOK'
  BY <1>2, <1>4, <1>5 DEF QueueInv, TypeOK
<1>8. Agrees' /\ Honest'
  BY <1>5 DEF QueueInv, Agrees, Honest, Has
<1>9. AllAccepted'
  <2>1. \A y \in S : Of(y) \in accepted
    BY <1>4 DEF QueueInv, AllAccepted
  <2> QED
    BY <1>5, <1>6, <2>1 DEF QueueInv, AllAccepted, Has
<1>10. BatchOK'
  BY <1>2, <1>4, <1>5, <1>6 DEF BatchOK, Has
<1>11. IdleIsCommitted'
  BY <1>2, <1>6 DEF IdleIsCommitted
<1> QED
  BY <1>7, <1>8, <1>9, <1>10, <1>11 DEF QueueInv

LEMMA DrainDiesKeeps == ASSUME IInv, DrainDies PROVE QueueInv'
<1>1. /\ UNCHANGED <<phase, level, db, disk, usb, now, queued, accepted, failed>>
      /\ sending' = NoSend /\ batch' = {} /\ InHand' = {}
  BY DEF DrainDies, store, InHand
<1>2. received' \subseteq Message
  BY DEF IInv, QueueInv, TypeOK, DrainDies, Arrives, Item, Of, Message
<1>3. TypeOK' /\ Agrees' /\ Honest' /\ BatchOK' /\ AllAccepted'
  BY <1>1, <1>2 DEF IInv, QueueInv, TypeOK, Agrees, Honest, BatchOK, AllAccepted, Has
<1>4. IdleIsCommitted'
  BY <1>1 DEF IInv, Wiped, IdleIsCommitted, DrainDies
<1> QED
  BY <1>3, <1>4 DEF QueueInv

\* A step that leaves the queue, the drain and the stick alone.
LEMMA OtherKeeps ==
  ASSUME QueueInv, UNCHANGED <<db, disk, sending, batch, usb, accepted, received, failed>>,
         phase' \in {"down", "running", "wiped"}, level' \in Level,
         now' \in 0..MaxNow, queued' \in 0..MaxQueued
  PROVE  QueueInv'
  BY DEF QueueInv, TypeOK, Agrees, AllAccepted, BatchOK, Honest, IdleIsCommitted,
     InHand, Has

LEMMA WipedKeeps == ASSUME IInv, [Next]_vars PROVE Wiped'
  BY DEF IInv, Wiped, Next, vars, Start, Down, EmergencyWipe, SetLevel, Commit,
     QueueMessage, ExportToUSB, ImportFromUSB, DrainBatch, SendReturns,
     SendSucceeds, SendFails, DrainDies, ExpireRound, Tick, store

LEMMA FilesKeep == ASSUME IInv, [Next]_vars PROVE FilesOK'
<1> USE DEF IInv, QueueInv
<1>1. ASSUME accepted \subseteq accepted', usb' = usb,
             \A m \in accepted' \ accepted : Whole(m[1])'
      PROVE  FilesOK'
  BY <1>1 DEF FilesOK, Whole
<1>2. ASSUME NEW i \in Id, NEW p \in Payload, QueueMessage(i, p) PROVE FilesOK'
  <2>1. accepted' = accepted \union {<<i, p>>} /\ usb' = usb
    BY <1>2 DEF QueueMessage
  <2> QED
    BY <1>1, <2>1 DEF Whole
<1>3. CASE ImportFromUSB
  <2>1. PICK F \in SUBSET usb : accepted' = accepted \union {Of(f) : f \in F} /\ usb' = usb
    BY <1>3 DEF ImportFromUSB
  <2>2. \A f \in F : Whole(f.id) /\ Of(f)[1] = f.id
    BY DEF FilesOK, Of
  <2> QED
    BY <1>1, <2>1, <2>2 DEF Whole
<1>4. CASE ExportToUSB
  <2>1. PICK ids \in SUBSET Waiting(db) :
           /\ \A f \in usb' : \/ f \in usb /\ f.id \notin ids
                              \/ /\ f \in Item /\ f.id \in ids
                                 /\ (f = ItemOf(db, f.id) \/ f.payload = Cut)
           /\ \A f, g \in usb' : f.id = g.id /\ f.id \in ids => f = g
    BY <1>4, ExportFiles
  <2>2. accepted' = accepted
    BY <1>4 DEF ExportToUSB, history
  <2>3. ASSUME NEW i \in ids PROVE Whole(i) /\ Of(ItemOf(db, i)) \in accepted
    <3>1. i \in Id /\ Has(db, i) /\ db \in Table
      BY DEF Waiting, TypeOK, Table
    <3>2. <<i, db[i].payload>> \in accepted /\ Of(ItemOf(db, i)) = <<i, db[i].payload>>
      BY <3>1, ItemIsItem DEF AllAccepted
    <3>3. Whole(<<i, db[i].payload>>[1])
      BY <3>2 DEF FilesOK
    <3> QED
      BY <3>2, <3>3
  <2>4. \A f \in usb' : Whole(f.id) /\ (Of(f) \in accepted \/ f.payload = Cut)
    BY <2>1, <2>3 DEF FilesOK
  <2>5. \A f, g \in usb' : f.id = g.id => f = g
    BY <2>1 DEF FilesOK
  <2> QED
    BY <2>2, <2>4, <2>5 DEF FilesOK, Whole
<1>5. CASE Start \/ Down \/ EmergencyWipe \/ (\E l \in Level : SetLevel(l)) \/ DrainBatch
           \/ SendReturns \/ DrainDies \/ ExpireRound \/ Tick \/ UNCHANGED vars
  BY <1>1, <1>5 DEF Start, Down, EmergencyWipe, SetLevel, DrainBatch, SendReturns,
     SendSucceeds, SendFails, DrainDies, ExpireRound, Tick, vars, history
<1> QED
  BY <1>2, <1>3, <1>4, <1>5 DEF Next

LEMMA ReceivedKeep == ASSUME IInv, [Next]_vars PROVE ReceivedAccepted'
<1> USE DEF IInv, ReceivedAccepted
<1>1. sending # NoSend => Of(sending) \in accepted
  BY DEF QueueInv, AllAccepted, InHand
<1>2. ASSUME received' \in Arrives, UNCHANGED accepted PROVE ReceivedAccepted'
  BY <1>1, <1>2 DEF Arrives
<1>3. CASE SendSucceeds
  BY <1>1, <1>3 DEF SendSucceeds
<1>4. CASE SendFails \/ Down \/ DrainDies
  BY <1>2, <1>4 DEF SendFails, Down, DrainDies
<1>5. ASSUME received' = received, accepted \subseteq accepted' PROVE ReceivedAccepted'
  BY <1>5
<1>6. ASSUME NEW i \in Id, NEW p \in Payload, QueueMessage(i, p) PROVE ReceivedAccepted'
  BY <1>5, <1>6 DEF QueueMessage
<1>7. CASE ImportFromUSB
  BY <1>5, <1>7 DEF ImportFromUSB
<1>8. CASE Start \/ EmergencyWipe \/ (\E l \in Level : SetLevel(l)) \/ ExportToUSB
           \/ DrainBatch \/ ExpireRound \/ Tick \/ UNCHANGED vars
  BY <1>5, <1>8 DEF Start, EmergencyWipe, SetLevel, ExportToUSB, DrainBatch,
     ExpireRound, Tick, vars, history
<1> QED
  BY <1>3, <1>4, <1>6, <1>7, <1>8 DEF Next, SendReturns

LEMMA ReceivedKeeps ==
  ASSUME MarkedById, received \subseteq received',
         NEW T, db' = T,
         \A i \in Id : Has(T, i) /\ T[i].delivered =>
           (\E m \in received' : m[1] = i) \/ (Has(db, i) /\ db[i].delivered)
  PROVE  MarkedById'
  BY DEF MarkedById, Has

LEMMA MarkedKeeps ==
  ASSUME IInv, [Next]_vars
  PROVE  MarkedById'
<1> USE DEF IInv, QueueInv
<1>1. db \in Table /\ disk \in Table
  BY DEF TypeOK, Table
<1>2. CASE SendSucceeds
  <2> DEFINE T == DeliveredTable
  <2>1. /\ sending # NoSend /\ db' = T /\ sending.id \in Id /\ T \in Table
        /\ received' = received \union {Of(sending)}
    BY <1>2, SendTables DEF SendSucceeds, DeliveredTable, Continue, Commit
  <2>2. /\ \A j \in Id : Has(T, j) <=> Has(db, j)
        /\ \A j \in Id : j # sending.id => T[j] = db[j]
    BY <2>1, SendTables
  <2> HIDE DEF T
  <2>3. Of(sending) \in received' /\ Of(sending)[1] = sending.id
    BY <2>1 DEF Of
  <2>4. \A j \in Id : Has(T, j) /\ T[j].delivered =>
          (\E m \in received' : m[1] = j) \/ (Has(db, j) /\ db[j].delivered)
    <3>1. \E m \in received' : m[1] = sending.id
      BY <2>3
    <3>2. \A j \in Id : j # sending.id /\ Has(T, j) /\ T[j].delivered =>
            Has(db, j) /\ db[j].delivered
      BY <2>2 DEF Has
    <3> QED
      BY <3>1, <3>2
  <2> QED
    BY <2>1, <2>4, ReceivedKeeps
<1>3. CASE SendFails
  <2> DEFINE T == FailedTable
  <2>1. /\ sending # NoSend /\ db' = T /\ sending.id \in Id /\ received \subseteq received'
    BY <1>3, SendTables DEF SendFails, FailedTable, Continue, Commit, Arrives
  <2>2. /\ \A j \in Id : Has(T, j) <=> Has(db, j)
        /\ \A j \in Id : j # sending.id => T[j] = db[j]
        /\ Has(db, sending.id) => /\ T[sending.id].payload = db[sending.id].payload
                                  /\ T[sending.id].delivered = db[sending.id].delivered
    BY <2>1, SendTables
  <2> HIDE DEF T
  <2> QED
    BY <2>1, <2>2, ReceivedKeeps DEF Has
<1>4. ASSUME NEW i \in Id, NEW p \in Payload, QueueMessage(i, p)
      PROVE  MarkedById'
  <2> DEFINE T == [db EXCEPT ![i] = Fresh(p, now)]
  <2>1. db' = T /\ received' = received
    BY <1>4 DEF QueueMessage, Commit
  <2>2. ~T[i].delivered /\ \A j \in Id : j # i => T[j] = db[j]
    BY <1>1, FreshRow DEF TypeOK, Table, Content
  <2> HIDE DEF T
  <2> QED
    BY <2>1, <2>2, ReceivedKeeps DEF Has
<1>5. CASE ImportFromUSB
  <2>1. PICK F \in SUBSET usb : db' = Imported(F) /\ received' = received
    BY <1>5 DEF ImportFromUSB, Commit
  <2> DEFINE T == Imported(F)
  <2>2. \A j \in Id : \/ T[j] = db[j]
                      \/ \E f \in F : f.id = j /\ T[j] = Fresh(f.payload, f.created)
    BY ImportedTable
  <2> HIDE DEF T
  <2>3. \A f \in F : ~Fresh(f.payload, f.created).delivered
    BY DEF Fresh
  <2> QED
    BY <2>1, <2>2, <2>3, ReceivedKeeps DEF Has, T
<1>6. CASE ExpireRound
  <2> DEFINE T == [i \in Id |-> IF Has(db, i) /\ Expired(db[i]) THEN NoRow ELSE db[i]]
  <2>1. db' = T /\ received' = received /\ \A j \in Id : Has(T, j) => T[j] = db[j] /\ Has(db, j)
    BY <1>6 DEF ExpireRound, Commit, history, Has
  <2> HIDE DEF T
  <2> QED
    BY <2>1, ReceivedKeeps
<1>7. CASE EmergencyWipe
  BY <1>7 DEF EmergencyWipe, Commit, MarkedById, Has
<1>8. CASE Down
  <2>1. db' = disk /\ received \subseteq received'
    BY <1>8 DEF Down, Arrives
  <2> QED
    BY <2>1, ReceivedKeeps DEF Agrees
<1>9. ASSUME UNCHANGED db, received \subseteq received' PROVE MarkedById'
  BY <1>9 DEF MarkedById, Has
<1>10. CASE Start \/ (\E l \in Level : SetLevel(l)) \/ ExportToUSB \/ DrainBatch
            \/ DrainDies \/ Tick \/ UNCHANGED vars
  BY <1>9, <1>10 DEF Start, SetLevel, ExportToUSB, DrainBatch, DrainDies, Tick,
     vars, store, history, Arrives
<1> QED
  BY <1>2, <1>3, <1>4, <1>5, <1>6, <1>7, <1>8, <1>10 DEF Next, SendReturns

LEMMA InvNext == ASSUME IInv, [Next]_vars PROVE IInv'
<1> SUFFICES QueueInv'
  BY WipedKeeps, FilesKeep, ReceivedKeep, MarkedKeeps DEF IInv
<1> USE DEF IInv
<1>1. CASE Start
  BY <1>1, OtherKeeps DEF Start, store, drain, history, QueueInv, TypeOK
<1>2. ASSUME NEW l \in Level, SetLevel(l) PROVE QueueInv'
  BY <1>2, OtherKeeps DEF SetLevel, store, drain, history, QueueInv, TypeOK
<1>3. CASE Tick
  <2>1. now' \in 0..MaxNow
    BY <1>3, QueueAssumption DEF Tick, QueueInv, TypeOK
  <2> QED
    BY <1>3, <2>1, OtherKeeps DEF Tick, store, drain, history, QueueInv, TypeOK
<1>4. CASE UNCHANGED vars
  BY <1>4, OtherKeeps DEF vars, QueueInv, TypeOK
<1>5. CASE SendReturns
  BY <1>5, SendSucceedsKeeps, SendFailsKeeps DEF SendReturns
<1> QED
  BY <1>1, <1>2, <1>3, <1>4, <1>5, DownKeeps, WipeKeeps, QueueMessageKeeps,
     ExportKeeps, ImportKeeps, DrainBatchKeeps, DrainDiesKeeps, ExpireKeeps
  DEF Next

LEMMA Invariance == Spec => []IInv
  BY InvInit, InvNext, PTL DEF Spec

(***************************************************************************)
(* Theorems                                                                *)
(***************************************************************************)
\* Types, for any messages, batch size, number of attempts and life time.
THEOREM TypeCorrect == Spec => []TypeOK
  BY Invariance, PTL DEF IInv, QueueInv

\* A crash while no send is awaited loses nothing: every write outside of a
\* batch is followed by a commit, and so is the last send of a batch.
THEOREM IdleCommitted == Spec => []IdleIsCommitted
  BY Invariance, PTL DEF IInv, QueueInv

\* _expire_loop gives no message up for attempts that were not made, whatever
\* was queued again, imported or rolled back.
THEOREM AttemptsHonest == Spec => []AttemptsWereMade
<1>1. IInv => AttemptsWereMade
  BY DEF IInv, QueueInv, Honest, AttemptsWereMade
<1> QED
  BY <1>1, Invariance, PTL

\* Nothing is marked delivered unless a message of its id was received, and
\* that message itself where the id stands for one, although the UPDATE comes
\* after an await and names its row by the id alone.
THEOREM DeliveredHonest == Spec => []DeliveredWasReceived
<1>1. ASSUME IInv PROVE DeliveredWasReceived
  <2> SUFFICES ASSUME NEW i \in Id, Has(db, i), db[i].delivered
               PROVE  \E m \in received : m[1] = i /\ (m[2] = db[i].payload \/ Mixed(i))
    BY DEF DeliveredWasReceived
  <2>1. PICK m \in received : m[1] = i
    BY <1>1 DEF IInv, MarkedById
  <2>2. m \in accepted /\ <<i, db[i].payload>> \in accepted
    BY <1>1 DEF IInv, ReceivedAccepted, QueueInv, AllAccepted
  <2>3. m[2] = db[i].payload \/ Mixed(i)
    BY <2>1, <2>2 DEF Mixed
  <2> QED
    BY <2>1, <2>3
<1> QED
  BY <1>1, Invariance, PTL

(***************************************************************************)
(* Refinement                                                              *)
(***************************************************************************)
LEMMA PendingIs ==
  \A m : m \in Pending <=>
    \E i \in Id : Has(disk, i) /\ ~disk[i].delivered /\ m = <<i, disk[i].payload>>
  BY DEF Pending, Waiting

LEMMA ExcusedIs ==
  ASSUME NEW i \in Id, Has(db, i), Expired(db[i]), ~db[i].delivered
  PROVE  <<i, db[i].payload>> \in Excused
  BY DEF Excused, Waiting, Expired

\* What becomes of message i when table T is committed: it is queued anew, it
\* stays, it is delivered, or it is deleted.
Queued(T, i, A) == Has(T, i) /\ ~T[i].delivered /\ <<i, T[i].payload>> \in A
Stays(T, i) == /\ Has(db, i) /\ Has(T, i) /\ T[i].payload = db[i].payload
               /\ T[i].delivered = db[i].delivered
Delivers(T, i) == /\ Has(db, i) /\ Has(T, i) /\ T[i].payload = db[i].payload
                  /\ T[i].delivered /\ \E m \in received' : m[1] = i
Deletes(T, i) == ~Has(T, i) /\ (Has(db, i) => Expired(db[i]))

\* What the messages S settle.
LEMMA SameIdIs ==
  ASSUME NEW S, NEW m \in Message, NEW n \in S, n[1] = m[1]
  PROVE  m \in Promise!SameId(S)
  BY DEF Promise!SameId, Promise!Message, Message

LEMMA CommitSettles ==
  ASSUME IInv,
         NEW T \in Table, disk' = T, NEW A, received \subseteq received',
         \A m \in A : \E i \in Id : Has(T, i) /\ ~T[i].delivered
                                    /\ m = <<i, T[i].payload>>,
         \A i \in Id : Queued(T, i, A) \/ Stays(T, i) \/ Delivers(T, i) \/ Deletes(T, i)
  PROVE  /\ A \subseteq Pending' /\ Pending' \subseteq Pending \union A
         /\ Pending \ Pending' \subseteq Promise!SameId(received' \union A) \union Excused
<1> USE DEF IInv, QueueInv
<1>1. disk \in Table /\ db \in Table
  BY DEF TypeOK, Table
<1>2. \A m : m \in Pending' <=>
        \E i \in Id : Has(T, i) /\ ~T[i].delivered /\ m = <<i, T[i].payload>>
  BY DEF Pending, Waiting, Has
<1>3. A \subseteq Pending'
  BY <1>2
<1>4. ASSUME NEW m \in Pending', m \notin A PROVE m \in Pending
  <2>1. PICK i \in Id : Has(T, i) /\ ~T[i].delivered /\ m = <<i, T[i].payload>>
    BY <1>2, <1>4
  <2>2. Stays(T, i)
    BY <1>4, <2>1 DEF Queued, Delivers, Deletes
  <2>3. Has(disk, i) /\ disk[i].payload = T[i].payload /\ ~disk[i].delivered
    BY <2>1, <2>2 DEF Stays, Agrees
  <2> QED
    BY <2>1, <2>3, PendingIs
<1>5. ASSUME NEW m \in Pending, m \notin Pending'
      PROVE  m \in Promise!SameId(received' \union A) \union Excused
  <2>1. PICK i \in Id : Has(disk, i) /\ ~disk[i].delivered /\ m = <<i, disk[i].payload>>
    BY PendingIs
  <2>2. Has(db, i) /\ m = <<i, db[i].payload>> /\ m[1] = i
    BY <2>1 DEF Agrees
  <2>3. m \in Message
    BY <1>1, <2>1, RowFields DEF Message
  <2>4. ~(Has(T, i) /\ ~T[i].delivered /\ m = <<i, T[i].payload>>)
    BY <1>2, <1>5
  <2>5. ASSUME NEW n \in received' \union A, n[1] = i
        PROVE  m \in Promise!SameId(received' \union A)
    BY <2>2, <2>3, <2>5, SameIdIs
  <2>6. db[i].delivered => \E n \in received' : n[1] = i
    BY <2>2 DEF MarkedById
  <2>7. CASE Queued(T, i, A)
    <3>1. <<i, T[i].payload>> \in A /\ <<i, T[i].payload>>[1] = i
      BY <2>7 DEF Queued
    <3> QED
      BY <2>5, <3>1
  <2>8. CASE Stays(T, i)
    BY <2>2, <2>4, <2>5, <2>6, <2>8 DEF Stays
  <2>9. CASE Delivers(T, i)
    BY <2>5, <2>9 DEF Delivers
  <2>10. CASE Deletes(T, i)
    BY <2>2, <2>5, <2>6, <2>10, ExcusedIs DEF Deletes
  <2> QED
    BY <2>7, <2>8, <2>9, <2>10
<1> QED
  BY <1>3, <1>4, <1>5

\* A commit that queues nothing.
LEMMA CommitOnlySettles ==
  ASSUME IInv, NEW T \in Table, disk' = T, received \subseteq received',
         \A i \in Id : Stays(T, i) \/ Delivers(T, i) \/ Deletes(T, i)
  PROVE  /\ Pending' \subseteq Pending
         /\ Pending \ Pending' \subseteq Promise!SameId(received') \union Excused
<1> DEFINE A == {}
<1>1. /\ \A m \in A : \E i \in Id : Has(T, i) /\ ~T[i].delivered /\ m = <<i, T[i].payload>>
      /\ \A i \in Id : Queued(T, i, A) \/ Stays(T, i) \/ Delivers(T, i) \/ Deletes(T, i)
  OBVIOUS
<1>2. Pending \union A = Pending /\ received' \union A = received'
  OBVIOUS
<1> HIDE DEF A
<1>3. /\ Pending' \subseteq Pending \union A
      /\ Pending \ Pending' \subseteq Promise!SameId(received' \union A) \union Excused
  BY <1>1, CommitSettles
<1> QED
  BY <1>2, <1>3

\* Every step but a wipe.
NoWipe == phase' = "wiped" => phase = "wiped"

\* The steps of the promise.
LEMMA PromiseSettles ==
  ASSUME Pending' \subseteq Pending,
         Pending \ Pending' \subseteq Promise!SameId(received) \union Excused,
         UNCHANGED <<accepted, received>>, NoWipe
  PROVE  Promise!Next
<1> DEFINE M == Pending \ Pending'
<1>1. M \in SUBSET Pending /\ Pending' = Pending \ M
  OBVIOUS
<1>2. Promise!Settle(M)
  BY <1>1 DEF Promise!Settle
<1> QED
  BY <1>1, <1>2 DEF Promise!Next, Promise!NoWipe, NoWipe

LEMMA PromiseAccepts ==
  ASSUME NEW A \in SUBSET Message, accepted' = accepted \union A, received' = received,
         A \subseteq Pending', Pending' \subseteq Pending \union A,
         Pending \ Pending' \subseteq Promise!SameId(received \union A) \union Excused,
         NoWipe, phase = "running"
  PROVE  Promise!Next
<1> DEFINE M == Pending \ Pending'
<1>1. M \in SUBSET Pending /\ Pending' = (Pending \ M) \union A
  OBVIOUS
<1>2. Promise!Accept(A, M)
  BY <1>1 DEF Promise!Accept
<1> QED
  BY <1>1, <1>2 DEF Promise!Next, Promise!NoWipe, Promise!Message, Message, NoWipe

LEMMA PromiseReceives ==
  ASSUME NEW m \in accepted, m \in Message, received' = received \union {m},
         Pending' \subseteq Pending,
         Pending \ Pending' \subseteq Promise!SameId(received') \union Excused,
         accepted' = accepted, NoWipe
  PROVE  Promise!Next
<1> DEFINE M == Pending \ Pending'
<1>1. M \in SUBSET Pending /\ Pending' = Pending \ M
  OBVIOUS
<1>2. Promise!Receive(m, M)
  BY <1>1 DEF Promise!Receive
<1> QED
  BY <1>1, <1>2 DEF Promise!Next, Promise!NoWipe, Promise!Message, Message, NoWipe

LEMMA PendingMessages == ASSUME TypeOK PROVE Pending \subseteq Message
<1>1. ASSUME NEW i \in Id, Has(disk, i) PROVE disk[i].payload \in Content
  BY <1>1, RowFields DEF TypeOK, Table
<1> QED
  BY <1>1, PendingIs DEF Message

LEMMA PromiseNext ==
  ASSUME IInv, [Next]_vars
  PROVE  [Promise!Next]_Promise!vars
<1> SUFFICES Promise!Next
  OBVIOUS
<1> USE DEF IInv, QueueInv
<1>1. Pending \subseteq Message /\ db \in Table /\ disk \in Table
  BY PendingMessages DEF TypeOK, Table
<1>2. ASSUME UNCHANGED <<disk, accepted, received>>, NoWipe PROVE Promise!Next
  <2>1. Pending' = Pending
    BY <1>2 DEF Pending, Waiting, Has
  <2> QED
    BY <1>1, <1>2, <2>1, PromiseSettles
<1>3. ASSUME UNCHANGED <<disk, accepted>>, sending # NoSend,
             received' = received \union {Of(sending)}, NoWipe
      PROVE  Promise!Next
  <2>1. Pending' = Pending
    BY <1>3 DEF Pending, Waiting, Has
  <2>2. Of(sending) \in accepted /\ Of(sending) \in Message
    BY <1>3 DEF AllAccepted, InHand, TypeOK, Item, Of, Message
  <2> QED
    BY <1>1, <1>3, <2>1, <2>2, PromiseReceives
<1>4. CASE SendSucceeds
  <2> DEFINE T == DeliveredTable
  <2>1. /\ sending # NoSend /\ sending.id \in Id /\ T \in Table
        /\ received' = received \union {Of(sending)} /\ accepted' = accepted
        /\ disk' \in {disk, T} /\ NoWipe
    BY <1>4, SendTables DEF SendSucceeds, DeliveredTable, Continue, Commit, NoWipe
  <2>2. /\ \A j \in Id : Has(T, j) <=> Has(db, j)
        /\ \A j \in Id : j # sending.id => T[j] = db[j]
        /\ Has(db, sending.id) => /\ T[sending.id].payload = db[sending.id].payload
                                  /\ T[sending.id].delivered = TRUE
    BY <2>1, SendTables
  <2> HIDE DEF T
  <2>3. CASE disk' = disk
    BY <1>3, <2>1, <2>3
  <2>4. CASE disk' = T
    <3>1. Of(sending) \in received' /\ Of(sending)[1] = sending.id
      BY <2>1 DEF Of
    <3>2. \E m \in received' : m[1] = sending.id
      BY <3>1
    <3>3. ASSUME NEW i \in Id PROVE Stays(T, i) \/ Delivers(T, i) \/ Deletes(T, i)
      BY <2>2, <3>2 DEF Stays, Delivers, Deletes, Has
    <3>4. /\ Pending' \subseteq Pending
          /\ Pending \ Pending' \subseteq Promise!SameId(received') \union Excused
      BY <2>1, <2>4, <3>3, CommitOnlySettles
    <3>5. Of(sending) \in accepted /\ Of(sending) \in Message
      BY <2>1 DEF AllAccepted, InHand, TypeOK, Item, Of, Message
    <3> QED
      BY <1>1, <2>1, <3>4, <3>5, PromiseReceives
  <2> QED
    BY <2>1, <2>3, <2>4
<1>5. ASSUME NEW T \in Table, disk' = T, accepted' = accepted, received' = received,
             \A i \in Id : Stays(T, i) \/ Deletes(T, i), NoWipe
      PROVE  Promise!Next
  <2>1. /\ Pending' \subseteq Pending
        /\ Pending \ Pending' \subseteq Promise!SameId(received) \union Excused
    BY <1>5, CommitOnlySettles
  <2> QED
    BY <1>5, <2>1, PromiseSettles
<1>6. CASE SendFails
  <2> DEFINE T == FailedTable
  <2>1. /\ sending # NoSend /\ sending.id \in Id /\ T \in Table
        /\ received' \in {received, received \union {Of(sending)}}
        /\ accepted' = accepted /\ disk' \in {disk, T} /\ NoWipe
    BY <1>6, SendTables DEF SendFails, FailedTable, Continue, Commit, Arrives, NoWipe
  <2>2. /\ \A j \in Id : Has(T, j) <=> Has(db, j)
        /\ \A j \in Id : j # sending.id => T[j] = db[j]
        /\ Has(db, sending.id) => /\ T[sending.id].payload = db[sending.id].payload
                                  /\ T[sending.id].delivered = db[sending.id].delivered
    BY <2>1, SendTables
  <2> HIDE DEF T
  <2>3. CASE disk' = disk
    BY <1>2, <1>3, <2>1, <2>3
  <2>4. CASE disk' = T
    <3>1. \A i \in Id : Stays(T, i) \/ Deletes(T, i)
      BY <2>2 DEF Stays, Deletes, Has
    <3>2. CASE received' = received
      BY <1>5, <2>1, <2>4, <3>1, <3>2
    <3>3. CASE received' = received \union {Of(sending)}
      <4>1. /\ Pending' \subseteq Pending
            /\ Pending \ Pending' \subseteq Promise!SameId(received') \union Excused
        BY <2>1, <2>4, <3>1, <3>3, CommitOnlySettles
      <4>2. Of(sending) \in accepted /\ Of(sending) \in Message
        BY <2>1 DEF AllAccepted, InHand, TypeOK, Item, Of, Message
      <4> QED
        BY <2>1, <3>3, <4>1, <4>2, PromiseReceives
    <3> QED
      BY <2>1, <3>2, <3>3
  <2> QED
    BY <2>1, <2>3, <2>4
<1>7. ASSUME NEW i \in Id, NEW p \in Payload, QueueMessage(i, p) PROVE Promise!Next
  <2> DEFINE T == [db EXCEPT ![i] = Fresh(p, now)]
             A == {<<i, p>>}
  <2>1. /\ disk' = T /\ accepted' = accepted \union A /\ received' = received
        /\ A \in SUBSET Message /\ NoWipe /\ phase = "running"
    BY <1>7 DEF QueueMessage, Commit, Message, Content, NoWipe
  <2>2. /\ T \in Table /\ T[i] = Fresh(p, now) /\ T[i].payload = p /\ ~T[i].delivered
        /\ Has(T, i) /\ \A j \in Id : j # i => T[j] = db[j]
    BY <1>1, FreshRow DEF TypeOK, Table, Has, Content
  <2> HIDE DEF T
  <2>3. \A m \in A : \E j \in Id : Has(T, j) /\ ~T[j].delivered /\ m = <<j, T[j].payload>>
    BY <2>2
  <2>4. \A j \in Id : Queued(T, j, A) \/ Stays(T, j) \/ Delivers(T, j) \/ Deletes(T, j)
    BY <2>2 DEF Queued, Stays, Deletes, Has
  <2> HIDE DEF A
  <2>5. /\ A \subseteq Pending' /\ Pending' \subseteq Pending \union A
        /\ Pending \ Pending' \subseteq Promise!SameId(received' \union A) \union Excused
    BY <2>1, <2>2, <2>3, <2>4, CommitSettles
  <2> QED
    BY <1>1, <2>1, <2>5, PromiseAccepts
<1>8. CASE ImportFromUSB
  <2>1. PICK F \in SUBSET usb : /\ disk' = Imported(F) /\ received' = received
                                /\ accepted' = accepted \union {Of(f) : f \in F}
                                /\ NoWipe /\ phase = "running"
    BY <1>8 DEF ImportFromUSB, Commit, NoWipe
  <2> DEFINE T == Imported(F)
             A == {Of(f) : f \in F}
  <2>2. /\ T \in Table
        /\ \A i \in Id : \/ T[i] = db[i] /\ ~\E f \in F : f.id = i
                         \/ \E f \in F : f.id = i /\ T[i] = Fresh(f.payload, f.created)
    BY ImportedTable
  <2>3. disk' = T /\ accepted' = accepted \union A
    BY <2>1
  <2> HIDE DEF T
  <2>4. \A f \in F : /\ f.id \in Id /\ f.payload \in Content /\ f.created \in 0..MaxNow
                     /\ Of(f) = <<f.id, f.payload>> /\ Of(f) \in A
    BY DEF TypeOK, Item, Of
  <2>5. ASSUME NEW i \in Id, NEW f \in F, f.id = i
        PROVE  Has(T, i) /\ ~T[i].delivered /\ Of(f) = <<i, T[i].payload>>
    <3>1. PICK g \in F : g.id = i /\ T[i] = Fresh(g.payload, g.created)
      BY <2>2, <2>5
    <3>2. /\ Fresh(g.payload, g.created).payload = g.payload
          /\ ~Fresh(g.payload, g.created).delivered
          /\ Fresh(g.payload, g.created) # NoRow
      BY <2>4, FreshRow
    <3>3. f.payload = g.payload
      BY <2>5, <3>1 DEF FilesOK
    <3> QED
      BY <2>4, <2>5, <3>1, <3>2, <3>3 DEF Has
  <2>6. \A m \in A : \E j \in Id : Has(T, j) /\ ~T[j].delivered /\ m = <<j, T[j].payload>>
    BY <2>4, <2>5
  <2>7. ASSUME NEW j \in Id
        PROVE  Queued(T, j, A) \/ Stays(T, j) \/ Delivers(T, j) \/ Deletes(T, j)
    <3>1. CASE \E f \in F : f.id = j
      BY <2>4, <2>5, <3>1 DEF Queued
    <3>2. CASE T[j] = db[j]
      BY <3>2 DEF Stays, Deletes, Has
    <3> QED
      BY <2>2, <3>1, <3>2
  <2>8. A \in SUBSET Message
    BY <2>4 DEF Message
  <2> HIDE DEF A
  <2>9. /\ A \subseteq Pending' /\ Pending' \subseteq Pending \union A
        /\ Pending \ Pending' \subseteq Promise!SameId(received' \union A) \union Excused
    BY <2>1, <2>2, <2>3, <2>6, <2>7, CommitSettles
  <2> QED
    BY <1>1, <2>1, <2>3, <2>8, <2>9, PromiseAccepts
<1>9. CASE ExpireRound
  <2> DEFINE T == [i \in Id |-> IF Has(db, i) /\ Expired(db[i]) THEN NoRow ELSE db[i]]
  <2>1. disk' = T /\ accepted' = accepted /\ received' = received /\ NoWipe
    BY <1>9 DEF ExpireRound, Commit, history, NoWipe
  <2>2. T \in Table /\ \A j \in Id : \/ T[j] = db[j]
                                     \/ T[j] = NoRow /\ Expired(db[j])
    BY <1>1 DEF Table
  <2> HIDE DEF T
  <2>3. \A i \in Id : Stays(T, i) \/ Deletes(T, i)
    BY <2>2 DEF Stays, Deletes, Has
  <2> QED
    BY <1>5, <2>1, <2>2, <2>3
<1>10. CASE EmergencyWipe
  <2>1. /\ Pending' = {} /\ UNCHANGED <<accepted, received>>
        /\ phase = "running" /\ phase' = "wiped"
    BY <1>10 DEF EmergencyWipe, Commit, Pending, Waiting, Has, history
  <2> QED
    BY <2>1 DEF Promise!Next, Promise!Wipe
<1>11. CASE Down \/ DrainDies
  <2>1. /\ UNCHANGED <<disk, accepted>> /\ NoWipe
        /\ \/ received' = received
           \/ sending # NoSend /\ received' = received \union {Of(sending)}
    BY <1>11 DEF Down, DrainDies, Arrives, store, NoWipe
  <2> QED
    BY <1>2, <1>3, <2>1
<1>12. CASE Start \/ (\E l \in Level : SetLevel(l)) \/ ExportToUSB \/ DrainBatch
            \/ Tick \/ UNCHANGED vars
  BY <1>2, <1>12 DEF Start, SetLevel, ExportToUSB, DrainBatch, Tick, vars, store,
     history, NoWipe
<1> QED
  BY <1>4, <1>6, <1>7, <1>8, <1>9, <1>10, <1>11, <1>12 DEF Next, SendReturns

\* The manager implements Outbox: whatever queue_message has accepted stays on
\* disk, through stops, crashes, half-finished batches and cut files, until a
\* message of its id was received or takes its place, or _expire_loop may give
\* it up.
THEOREM PromiseKept == Spec => KeepsPromise
<1>1. Init => Promise!Init
  BY DEF Init, Promise!Init, Pending, Excused, Waiting, Has
<1>2. IInv /\ [Next]_vars => [Promise!Next]_Promise!vars
  BY PromiseNext
<1> QED
  BY <1>1, <1>2, Invariance, PTL DEF Spec, KeepsPromise, Promise!Spec

(***************************************************************************)
(* What the promise gives a caller                                         *)
(***************************************************************************)
\* What is accepted is on disk at once.  It stays there unless it was received,
\* may be given up, or is wiped, or another message accepted under its id is
\* pending in its place or was received: a crash, a commit of another task and
\* a batch that is cut short are not among the reasons.
Owed ==
  \A m \in Message :
    /\ m \in accepted' \ accepted => m \in Pending'
    /\ m \in Pending => \/ m \in Pending' \/ m \in received'
                       \/ m \in Excused \/ phase' = "wiped"
                       \/ \E n \in Pending' \union received' :
                            n \in accepted' /\ n # m /\ n[1] = m[1]

LEMMA PendingAccepted == ASSUME IInv' PROVE Pending' \subseteq accepted'
<1>1. \A m \in Pending' : \E i \in Id : Has(disk, i)' /\ m = <<i, disk'[i].payload>>
  BY DEF Pending, Waiting
<1> QED
  BY <1>1 DEF IInv, QueueInv, Agrees, AllAccepted, Has

\* It is what Outbox promises.
LEMMA OutboxOwes ==
  ASSUME [Promise!Next]_Promise!vars, Pending' \subseteq accepted', received' \subseteq accepted'
  PROVE  Owed
<1> SUFFICES ASSUME NEW m \in Message
             PROVE  /\ m \in accepted' \ accepted => m \in Pending'
                    /\ m \in Pending =>
                         \/ m \in Pending' \/ m \in Excused \/ phase' = "wiped"
                         \/ \E n \in Pending' \union received' : n[1] = m[1]
  BY DEF Owed
<1>1. CASE UNCHANGED Promise!vars
  BY <1>1 DEF Promise!vars
<1>2. \A M, A : Promise!Accept(A, M) =>
        /\ m \in accepted' \ accepted => m \in Pending'
        /\ m \in Pending => \/ m \in Pending' \/ m \in Excused
                           \/ \E n \in Pending' \union received' : n[1] = m[1]
  BY DEF Promise!Accept, Promise!SameId
<1>3. \A M, x : Promise!Receive(x, M) =>
        /\ accepted' = accepted
        /\ m \in Pending => \/ m \in Pending' \/ m \in Excused
                           \/ \E n \in received' : n[1] = m[1]
  BY DEF Promise!Receive, Promise!SameId
<1>4. \A M : Promise!Settle(M) =>
        /\ accepted' = accepted
        /\ m \in Pending => \/ m \in Pending' \/ m \in Excused
                           \/ \E n \in received' : n[1] = m[1]
  BY DEF Promise!Settle, Promise!SameId
<1>5. CASE Promise!Environment \/ Promise!Wipe
  BY <1>5 DEF Promise!Environment, Promise!Wipe
<1> QED
  BY <1>1, <1>2, <1>3, <1>4, <1>5 DEF Promise!Next

\* A caller of queue_message may rely on it, as the manager implements Outbox.
THEOREM AcceptedIsOwed == Spec => [][Owed]_vars
<1>1. IInv /\ IInv' /\ [Next]_vars => Owed
  BY PromiseNext, OutboxOwes, PendingAccepted DEF IInv, ReceivedAccepted
<1> QED
  BY <1>1, Invariance, PTL DEF Spec

\* A receiver gets what a caller has queued or, when a file was cut, what is
\* left of a message that a caller has queued; in particular no file brings a
\* whole message that nobody queued.
OnlyQueued ==
  /\ \A m \in received : m \in accepted
  /\ \A m \in accepted : \E p \in Payload : <<m[1], p>> \in accepted

OnlyCutIsNew ==
  \A m \in accepted' \ accepted :
    m[2] = Cut \/ \E i \in Id, p \in Payload : m = <<i, p>> /\ QueueMessage(i, p)

THEOREM OnlyAcceptedReceived == Spec => []OnlyQueued /\ [][OnlyCutIsNew]_vars
<1>1. IInv => OnlyQueued
  BY DEF IInv, OnlyQueued, ReceivedAccepted, FilesOK, Whole
<1>2. ASSUME IInv, [Next]_vars PROVE OnlyCutIsNew
  <2>1. ASSUME NEW i \in Id, NEW p \in Payload, QueueMessage(i, p) PROVE OnlyCutIsNew
    BY <2>1 DEF OnlyCutIsNew, QueueMessage
  <2>2. CASE ImportFromUSB
    <3>1. PICK F \in SUBSET usb : accepted' = accepted \union {Of(f) : f \in F}
      BY <2>2 DEF ImportFromUSB
    <3>2. \A f \in F : Of(f) \in accepted \/ Of(f)[2] = Cut
      BY <1>2 DEF IInv, FilesOK, Of
    <3> QED
      BY <3>1, <3>2 DEF OnlyCutIsNew
  <2>3. CASE UNCHANGED accepted
    BY <2>3 DEF OnlyCutIsNew
  <2>4. CASE Start \/ Down \/ EmergencyWipe \/ (\E l \in Level : SetLevel(l)) \/ ExportToUSB
             \/ DrainBatch \/ SendReturns \/ DrainDies \/ ExpireRound \/ Tick \/ UNCHANGED vars
    BY <2>3, <2>4 DEF Start, Down, EmergencyWipe, SetLevel, ExportToUSB, DrainBatch,
       SendReturns, SendSucceeds, SendFails, DrainDies, ExpireRound, Tick, vars, history
  <2> QED
    BY <1>2, <2>1, <2>2, <2>4 DEF Next
<1> QED
  BY <1>1, <1>2, Invariance, PTL DEF Spec

=============================================================================
