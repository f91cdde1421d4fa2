---------------------------- MODULE StoreForward ----------------------------
(***************************************************************************)
(* resilience/store_forward.py: one ResilienceManager, its SQLite queue,   *)
(* the drain and the expire task, USB export and import, the wipe.         *)
(*                                                                         *)
(* All coroutines share one connection.  db is the queue table as that     *)
(* connection sees it and disk what is committed: any coroutine's commit   *)
(* commits what another has written, and a crash, or stop, which closes    *)
(* without a commit, takes db back to disk.  The only suspension point     *)
(* between two statements is the await of send_fn in _drain_batch, so a    *)
(* batch is one step per send and everything else is one action.           *)
(***************************************************************************)
EXTENDS Integers, FiniteSets

CONSTANTS
  Id,           \* msg_id
  Payload,      \* destination and payload
  Cut,          \* what is left of one whose file was cut: the end is missing
  Prio,         \* Prio[i]: priority of message i, 1 is the most urgent
  BatchSize,    \* batch_size
  MaxAttempts,  \* max_attempts
  Level,        \* the members of DegradationLevel that occur
  NoRow,        \* no row of this id
  NoSend,       \* no send is awaited
  Lifetime,     \* ttl_hours, in ticks
  MaxNow,       \* bound: ticks of the clock
  MaxQueued     \* bound: calls of queue_message and import_from_usb

FULL == 0
DEGRADED == 1

ASSUME QueueAssumption ==
  /\ FULL \in Level /\ Level \subseteq 0..3
  /\ Prio \in [Id -> Nat] /\ IsFiniteSet(Id)
  /\ BatchSize \in Nat \ {0} /\ MaxAttempts \in Nat \ {0}
  /\ Lifetime \in Nat /\ MaxNow \in Nat /\ MaxQueued \in Nat

VARIABLES
  phase,     \* "down", "running", or "wiped": running without a database
  level,     \* DegradationLevel
  db,        \* db[i]: the row of message i on the connection, or NoRow
  disk,      \* disk[i]: the row of message i on disk
  sending,   \* the row whose send_fn is awaited, or NoSend
  batch,     \* the rows that _drain_batch has yet to send
  usb,       \* the files of javidnet_export
  now,       \* time.time()
  queued,    \* calls so far, for the bound
  accepted,  \* history: what queue_message has accepted, of callers and files
  received,  \* history: what the far side has received
  failed     \* history: failed sends of message i, up to MaxAttempts

store == <<db, disk>>
drain == <<sending, batch>>
history == <<accepted, received, failed>>
vars == <<phase, level, db, disk, sending, batch, usb, now, queued,
          accepted, received, failed>>


Content == Payload \union {Cut}
Row == [payload : Content, created : 0..MaxNow, attempts : 0..MaxAttempts,
        delivered : BOOLEAN]
Item == [id : Id, payload : Content, created : 0..MaxNow]

ASSUME NullAssumption == NoRow \notin Row /\ NoSend \notin Item /\ Cut \notin Payload

Message == Id \X Content
Of(x) == <<x.id, x.payload>>

Has(table, i) == table[i] # NoRow
Waiting(table) == {i \in Id : Has(table, i) /\ ~table[i].delivered}

\* A row that _expire_loop may delete although it was not delivered.
OverAge(row) == row.created + Lifetime < now
OutOfAttempts(row) == row.attempts >= MaxAttempts

Init ==
  /\ phase = "down" /\ level = FULL
  /\ db = [i \in Id |-> NoRow] /\ disk = db
  /\ sending = NoSend /\ batch = {}
  /\ usb = {} /\ now = 0 /\ queued = 0
  /\ accepted = {} /\ received = {} /\ failed = [i \in Id |-> 0]

\* execute(...) and commit(): all of the connection's writes are on disk.
Commit(table) == db' = table /\ disk' = table

(***************************************************************************)
(* Process                                                                 *)
(***************************************************************************)
Start ==
  /\ phase = "down"
  /\ phase' = "running"
  /\ UNCHANGED <<level, store, drain, usb, now, queued, history>>

\* What a send that is cut short may still have done.
Arrives == {received} \union
             (IF sending = NoSend THEN {} ELSE {received \union {Of(sending)}})

\* stop, a crash or a power cut, at any await.
Down ==
  /\ phase # "down"
  /\ phase' = "down" /\ level' = FULL
  /\ db' = disk /\ sending' = NoSend /\ batch' = {}
  /\ received' \in Arrives
  /\ UNCHANGED <<disk, usb, now, queued, accepted, failed>>

SetLevel(l) ==
  /\ phase # "down"
  /\ level' = l
  /\ UNCHANGED <<phase, store, drain, usb, now, queued, history>>

\* emergency_wipe: the tasks are left to fail on the missing database.
EmergencyWipe ==
  /\ phase = "running"
  /\ phase' = "wiped"
  /\ Commit([i \in Id |-> NoRow])
  /\ UNCHANGED <<level, drain, usb, now, queued, history>>

(***************************************************************************)
(* Queue and USB                                                           *)
(***************************************************************************)
Fresh(p, t) == [payload |-> p, created |-> t, attempts |-> 0, delivered |-> FALSE]

\* queue_message: INSERT OR REPLACE.
QueueMessage(i, p) ==
  /\ phase = "running" /\ queued < MaxQueued
  /\ queued' = queued + 1
  /\ Commit([db EXCEPT ![i] = Fresh(p, now)])
  /\ accepted' = accepted \union {<<i, p>>}
  /\ UNCHANGED <<phase, level, drain, usb, now, received, failed>>

ItemOf(table, i) ==
  [id |-> i, payload |-> table[i].payload, created |-> table[i].created]

\* What a write of i's file leaves behind: all of it or, on a full stick or
\* after a power cut, a whole header with less than the payload, or nothing
\* that can be read.
Leaves(i) == {{ItemOf(db, i)}, {[ItemOf(db, i) EXCEPT !.payload = Cut]}, {}}

\* export_to_usb: a file per waiting message, in the place of an older one.
\* The files of some of them are written before it ends, last the last one.
ExportToUSB ==
  \E ids \in SUBSET Waiting(db) :
    \E last \in ids : \E rest \in Leaves(last) :
      /\ phase = "running"
      /\ usb' = {f \in usb : f.id \notin ids} \union rest
                  \union {ItemOf(db, i) : i \in ids \ {last}}
      /\ UNCHANGED <<phase, level, store, drain, now, queued, history>>

\* The queue once the files F have been queued again, as new but for their age.
\* The payload is whatever follows the header, and it replaces the row.
Imported(F) ==
  [i \in Id |->
     IF \E f \in F : f.id = i
     THEN LET f == CHOOSE g \in F : g.id = i IN Fresh(f.payload, f.created)
     ELSE db[i]]

\* import_from_usb; a file that cannot be read, or a power cut, ends it after
\* some of the files.
ImportFromUSB ==
  \E F \in SUBSET usb \ {{}} :
    /\ phase = "running" /\ queued < MaxQueued
    /\ queued' = queued + 1
    /\ Commit(Imported(F))
    /\ accepted' = accepted \union {Of(f) : f \in F}
    /\ UNCHANGED <<phase, level, drain, usb, now, received, failed>>

(***************************************************************************)
(* Drain                                                                   *)
(***************************************************************************)
\* ORDER BY priority ASC, created ASC
Before(x, y) ==
  \/ Prio[x.id] < Prio[y.id]
  \/ Prio[x.id] = Prio[y.id] /\ x.created < y.created

Firsts(S) == {x \in S : \A y \in S : ~Before(y, x)}

\* Fault: the limit on attempts is left to the expire task.
ReadyForEver == {ItemOf(db, i) : i \in Waiting(db)}

Ready == {ItemOf(db, i) : i \in {j \in Waiting(db) : ~OutOfAttempts(db[j])}}

\* LIMIT batch_size; rows of equal priority and age come in any order.
Batches ==
  {S \in SUBSET Ready :
     /\ Cardinality(S) = IF Cardinality(Ready) < BatchSize
                         THEN Cardinality(Ready) ELSE BatchSize
     /\ \A x \in S, y \in Ready \ S : ~Before(y, x)}

\* _drain_loop finds the level good; _drain_batch awaits its first send.
DrainBatch ==
  /\ phase = "running" /\ sending = NoSend /\ level <= DEGRADED
  /\ \E S \in Batches : \E x \in Firsts(S) : sending' = x /\ batch' = S \ {x}
  /\ UNCHANGED <<phase, level, store, usb, now, queued, history>>

\* UPDATE queue SET ... WHERE msg_id=?
Update(i, row) == IF Has(db, i) THEN [db EXCEPT ![i] = row] ELSE db

\* Fault: the commit after the last send is missing.
ContinueUncommitted(table) ==
  /\ db' = table /\ UNCHANGED disk
  /\ IF batch = {}
     THEN sending' = NoSend /\ batch' = {}
     ELSE \E x \in Firsts(batch) : sending' = x /\ batch' = batch \ {x}

\* The next row of the batch, or the end of the batch and its commit.
Continue(table) ==
  IF batch = {}
  THEN sending' = NoSend /\ batch' = {} /\ Commit(table)
  ELSE /\ \E x \in Firsts(batch) : sending' = x /\ batch' = batch \ {x}
       /\ db' = table /\ UNCHANGED disk

MarkDelivered(row) == [row EXCEPT !.delivered = TRUE]

\* Fault: counted in the try block and again by its handler.
CountTwice(row) == [row EXCEPT !.attempts = @ + 2]

\* Fault: whatever send_fn says, the row is done with.
MarkAnyway(row) == [row EXCEPT !.delivered = TRUE]

CountAttempt(row) == [row EXCEPT !.attempts = @ + 1]

SendSucceeds ==
  /\ phase = "running" /\ sending # NoSend
  /\ received' = received \union {Of(sending)}
  /\ Continue(Update(sending.id, MarkDelivered(db[sending.id])))
  /\ UNCHANGED <<phase, level, usb, now, queued, accepted, failed>>

\* send_fn returns False or raises; the message may have arrived all the same.
SendFails ==
  LET i == sending.id
  IN /\ phase = "running" /\ sending # NoSend
     /\ received' \in Arrives
     /\ failed' = [failed EXCEPT ![i] = IF @ < MaxAttempts THEN @ + 1 ELSE @]
     /\ Continue(Update(i, CountAttempt(db[i])))
     /\ UNCHANGED <<phase, level, usb, now, queued, accepted>>

\* send_fn returns after a wipe: the UPDATE raises, and again in the handler.
DrainDies ==
  /\ phase = "wiped" /\ sending # NoSend
  /\ received' \in Arrives
  /\ sending' = NoSend /\ batch' = {}
  /\ UNCHANGED <<phase, level, store, usb, now, queued, accepted, failed>>

(***************************************************************************)
(* Expiry and time                                                         *)
(***************************************************************************)
\* Fault: ttl_hours after its creation a message is already over age.
ExpiredEarly(row) ==
  row.delivered \/ row.created + Lifetime <= now \/ OutOfAttempts(row)

\* Fault: rows out of attempts stay.
ExpiredByAge(row) == row.delivered \/ OverAge(row)

Expired(row) == row.delivered \/ OverAge(row) \/ OutOfAttempts(row)

\* A turn of _expire_loop that deletes something, or commits for the drain.
ExpireRound ==
  /\ phase = "running"
  /\ Commit([i \in Id |->
       IF Has(db, i) /\ Expired(db[i]) THEN NoRow ELSE db[i]])
  /\ UNCHANGED <<phase, level, drain, usb, now, queued, history>>

Tick ==
  /\ now < MaxNow
  /\ now' = now + 1
  /\ UNCHANGED <<phase, level, store, drain, usb, queued, history>>

SendReturns == SendSucceeds \/ SendFails

Next ==
  \/ Start \/ Down \/ EmergencyWipe \/ \E l \in Level : SetLevel(l)
  \/ \E i \in Id, p \in Payload : QueueMessage(i, p)
  \/ ExportToUSB \/ ImportFromUSB
  \/ DrainBatch \/ SendReturns \/ DrainDies
  \/ ExpireRound \/ Tick

Spec == Init /\ [][Next]_vars

(***************************************************************************)
(* Safety                                                                  *)
(***************************************************************************)
TypeOK ==
  /\ phase \in {"down", "running", "wiped"} /\ level \in Level
  /\ db \in [Id -> Row \union {NoRow}] /\ disk \in [Id -> Row \union {NoRow}]
  /\ sending \in Item \union {NoSend} /\ batch \subseteq Item
  /\ usb \subseteq Item
  /\ now \in 0..MaxNow /\ queued \in 0..MaxQueued
  /\ accepted \subseteq Message /\ received \subseteq Message
  /\ failed \in [Id -> 0..MaxAttempts]

\* Whenever no send is awaited, nothing is left uncommitted: a crash of an
\* idle manager forgets nothing.
IdleIsCommitted == sending = NoSend => db = disk

\* Two messages were accepted under one id: a caller used it twice, or a cut
\* file was imported.
Mixed(i) == \E m, n \in accepted : m[1] = i /\ n[1] = i /\ m # n

\* A row is marked delivered only if its message was received, although the
\* UPDATE names the row by its id and other coroutines ran during the await.
\* Where an import or a caller put another message into the row meanwhile, it
\* is marked too, and all that is known is that some message of the id arrived.
DeliveredWasReceived ==
  \A i \in Id : Has(db, i) /\ db[i].delivered =>
    \E m \in received : m[1] = i /\ (m[2] = db[i].payload \/ Mixed(i))

\* No attempt is counted that was not made: crashes, re-queued messages and
\* imports may only lower the count by which _expire_loop gives a message up.
AttemptsWereMade ==
  \A i \in Id : Has(db, i) => db[i].attempts <= failed[i]

Pending == {<<i, disk[i].payload>> : i \in Waiting(disk)}

Excused ==
  {<<i, db[i].payload>> :
     i \in {j \in Waiting(db) : OverAge(db[j]) \/ OutOfAttempts(db[j])}}

\* The abstract specification: an accepted message stays on disk, through
\* crashes, until it was received, may be given up, or another message of its
\* id takes its place: a cut file does, if it is imported.
Promise == INSTANCE Outbox WITH pending <- Pending, excused <- Excused,
                                wiped <- (phase = "wiped")

KeepsPromise == Promise!Spec

\* "Messages are never lost": what is pending stops being so only because it
\* was received, is over age, or was wiped.  Violated by _expire_loop, which
\* deletes what failed MaxAttempts times.
NeverLost ==
  [][\A m \in Pending :
       \/ m \in Pending' \/ m \in received' \/ phase' = "wiped"
       \/ OverAge(disk[m[1]])]_vars

(***************************************************************************)
(* Liveness                                                                *)
(***************************************************************************)
\* The two loops are scheduled, and send_fn returns.
FairSpec ==
  /\ Spec
  /\ WF_vars(DrainBatch) /\ WF_vars(SendReturns) /\ WF_vars(ExpireRound)

\* "When connectivity returns, the queue drains automatically": a manager
\* that stays up and in touch settles every message, the less urgent ones
\* behind a batch that keeps failing included.
QueueDrains ==
  <>[](phase = "running" /\ level <= DEGRADED) => <>[](Pending = {})

=============================================================================
