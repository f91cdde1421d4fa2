---------------------------- MODULE ContentCache ----------------------------
(***************************************************************************)
(* gateway/satellite.py: ContentCache, an index in memory of files on      *)
(* disk.  Its methods are coroutines that never suspend, so a call is an   *)
(* action.  The path of an entry is a function of its key, and its time    *)
(* the order of the puts: the clock is assumed not to step back.           *)
(*                                                                         *)
(* put is called by nobody in src/, get by the gateway's sessions.         *)
(***************************************************************************)
EXTENDS Integers, Sequences, Functions

CONSTANTS
  Key,       \* url hashes
  Data,      \* contents
  Size,      \* Size[d]: the bytes of d
  Cut,       \* what a write that failed has left of a file
  Nothing,   \* no file, or no answer
  MaxBytes   \* max_size_mb

ASSUME CacheAssumption ==
  /\ Size \in [Data -> Nat] /\ MaxBytes \in Nat
  /\ Cut \notin Data /\ Nothing \notin Data /\ Cut # Nothing

VARIABLES
  order,     \* the keys of _index, by the time of their put
  size,      \* size[k]: the size in k's entry
  file,      \* file[k]: the content of k's file
  leftover   \* history: the keys whose file is older than the index, or cut

vars == <<order, size, file, leftover>>

KeysOf(s) == {s[i] : i \in DOMAIN s}

Indexed == KeysOf(order)

\* The bytes of the entries of the keys in s, by their sizes z.
Total(s, z) == SumFunctionOnSet(z, KeysOf(s))

\* What get returns.
Get(k) == IF k \in Indexed THEN file[k] ELSE Nothing

Init ==
  /\ order = <<>> /\ size = [k \in Key |-> 0]
  /\ file = [k \in Key |-> Nothing] /\ leftover = {}

(***************************************************************************)
(* put                                                                     *)
(***************************************************************************)
\* Fault: the newest goes first.
KeepsOldest(s, n) == SubSeq(s, 1, Len(s) - n)

Rest(s, n) == SubSeq(s, n + 1, Len(s))

\* Above the limit, the first n entries go until 80 percent of it are left,
\* by size, or none.
Evicted(s, z, n) ==
  IF Total(s, z) <= MaxBytes THEN n = 0
  ELSE /\ n = Len(s) \/ 5 * Total(Rest(s, n), z) <= 4 * MaxBytes
       /\ \A m \in 0..(n - 1) : 5 * Total(Rest(s, m), z) > 4 * MaxBytes

\* Fault: the files of the entries stay.
DropIndexOnly(s, z, f, n) ==
  /\ order' = Rest(s, n)
  /\ size' = z
  /\ file' = f

\* The entries go, and their files, if they are still there.
Drop(s, z, f, n) ==
  LET gone == {s[i] : i \in 1..n}
  IN /\ order' = Rest(s, n)
     /\ size' = z
     /\ file' = [k \in Key |-> IF k \in gone THEN Nothing ELSE f[k]]

\* s without its key k.
Without(s, k) ==
  IF \E i \in DOMAIN s : s[i] = k
  THEN LET i == CHOOSE i \in DOMAIN s : s[i] = k
       IN [j \in 1..(Len(s) - 1) |-> IF j < i THEN s[j] ELSE s[j + 1]]
  ELSE s

\* Fault: room is made before the new entry is counted.
PutThenCount(k, d) ==
  /\ \E n \in 0..Len(order) :
       /\ Evicted(order, size, n)
       /\ order' = Append(Without(Rest(order, n), k), k)
       /\ size' = [size EXCEPT ![k] = Size[d]]
       /\ file' = [j \in Key |-> IF j = k THEN d
            ELSE IF j \in {order[i] : i \in 1..n} THEN Nothing ELSE file[j]]
  /\ leftover' = leftover \ {k}

\* Fault: the entry of an earlier put stays.
PutTwice(k, d) ==
  LET s == Append(order, k)
      z == [size EXCEPT ![k] = Size[d]]
      f == [file EXCEPT ![k] = d]
  IN /\ \E n \in 0..Len(s) : Evicted(s, z, n) /\ Drop(s, z, f, n)
     /\ leftover' = leftover \ {k}

\* Fault: a file that is there is not written again.
PutUnlessThere(k, d) ==
  LET s == Append(Without(order, k), k)
      z == [size EXCEPT ![k] = Size[d]]
      f == [file EXCEPT ![k] = IF @ = Nothing THEN d ELSE @]
  IN /\ \E n \in 0..Len(s) : Evicted(s, z, n) /\ Drop(s, z, f, n)
     /\ leftover' = leftover \ {k}

\* The file is written, the entry replaced, and what is too much evicted: the
\* new entry too, if it is over 80 percent of the limit and there is no room.
Put(k, d) ==
  LET s == Append(Without(order, k), k)
      z == [size EXCEPT ![k] = Size[d]]
      f == [file EXCEPT ![k] = d]
  IN /\ \E n \in 0..Len(s) : Evicted(s, z, n) /\ Drop(s, z, f, n)
     /\ leftover' = leftover \ {k}

\* write_bytes raises, as it does when the disk is full, and so does put: the
\* file has been truncated, and the entry of an earlier put remains.
PutFails(k) ==
  /\ file' = [file EXCEPT ![k] = Cut]
  /\ leftover' = leftover \union {k}
  /\ UNCHANGED <<order, size>>

(***************************************************************************)
(* start, and the world outside                                            *)
(***************************************************************************)
\* A new process on the directory of an old one, whenever that ended.  start
\* reads index.json, which no code writes, so that the index is empty.
Restart ==
  /\ order' = <<>> /\ size' = [k \in Key |-> 0]
  /\ leftover' = {k \in Key : file[k] # Nothing}
  /\ UNCHANGED file

\* Somebody deletes a file, which the code expects.
FileGoes(k) ==
  /\ file[k] # Nothing
  /\ file' = [file EXCEPT ![k] = Nothing]
  /\ leftover' = leftover \ {k}
  /\ UNCHANGED <<order, size>>

Next ==
  \/ \E k \in Key :
       \/ \E d \in Data : Put(k, d)
       \/ PutFails(k) \/ FileGoes(k)
  \/ Restart

Spec == Init /\ [][Next]_vars

(***************************************************************************)
(* Properties                                                              *)
(***************************************************************************)
\* A key has one entry.
Distinct(s) == \A i, j \in DOMAIN s : s[i] = s[j] => i = j

TypeOK ==
  /\ order \in Seq(Key) /\ Distinct(order)
  /\ size \in [Key -> Nat]
  /\ file \in [Key -> Data \union {Cut, Nothing}]
  /\ leftover \subseteq Key

\* "--cache-size": the entries of the index are within the limit after each
\* call, whether a put is of a new key or gives an old one a larger content.
IndexWithinLimit == Total(order, size) <= MaxBytes

\* ... and so is the disk, but for the files that a restart has made the index
\* forget and those of writes that failed: nothing ever deletes these.
DiskWithinLimit ==
  LET stored == {k \in Key \ leftover : file[k] \in Data}
  IN SumFunction([k \in stored |-> Size[file[k]]]) <= MaxBytes

\* A cache: no request is answered with a content older than the last put, or
\* with one that was evicted, deleted, or forgotten in a restart, though its
\* file may still be, or be again, on disk.
Map == INSTANCE LossyMap WITH val <- [k \in Key |-> Get(k)]

NeverStale == Map!Spec

\* What has just been put is served, if it is at most 80 percent of the limit,
\* whatever had to go for it.
FreshIsServed ==
  [][\A k \in Key : \A d \in Data :
       Put(k, d) /\ 5 * Size[d] <= 4 * MaxBytes => Get(k)' = d]_vars

=============================================================================
