--------------------------------- MODULE KVS ---------------------------------
(***************************************************************************)
(* fram_kvs: an append-only log of records, one per set or delete. A scan  *)
(* from offset 0 to the first record that is not good gives the value of a *)
(* key (its last record) and, in fram_kvs_init, the end of the log.        *)
(*                                                                         *)
(* The partition is a row of cells. A record takes one cell for its header *)
(* (with the CRC over the rest), one for its key, one per unit of its      *)
(* value and one for its commit byte, so records differ in size and a new  *)
(* one need not end where an old one did. A cell is a record with a kind;  *)
(* what it is "of" is what was written there.                              *)
(***************************************************************************)
EXTENDS Integers, SequencesExt, FiniteSetsExt

CONSTANTS
  Tasks,  \* the FreeRTOS tasks that share the store
  Keys,   \* the keys
  Data,   \* what a unit of a value can hold
  MaxLen, \* CONFIG_FRAM_KVS_MAX_VALUE, in units
  Size,   \* kvs->part->size, in cells
  Absent, \* the value of a key that was deleted or never set
  None    \* no task, no operation, no data

ASSUME ConstantsAssumption ==
  /\ MaxLen \in Nat
  /\ Size \in Nat \ {0}
  /\ None \notin Tasks \cup Data

Values == [len : 1..MaxLen, data : Data] \cup {[len |-> 0, data |-> None]}

ASSUME AbsentAssumption == Absent \notin Values

(* A delete writes the flag FRAM_KVS_FLAG_DELETED and no value. *)
Operation == [key : Keys, value : Values \cup {Absent}]
Header == [seq : Nat, op : Operation]

ASSUME NoOperationAssumption == None \notin Operation

ERASED == [kind |-> "erased"]
CLEAR == [kind |-> "clear"]
COMMIT == [kind |-> "commit"]
Garbage == [kind |-> "garbage"]
HeaderCell(h) == [kind |-> "header", of |-> h]
KeyCell(k) == [kind |-> "key", of |-> k]
DataCell(d) == [kind |-> "data", of |-> d]

Offsets == 0..(Size - 1)
Cell ==
  {ERASED, CLEAR, COMMIT, Garbage}
    \cup [kind : {"header"}, of : Header]
    \cup [kind : {"key"}, of : Keys]
    \cup [kind : {"data"}, of : Data]

VARIABLES
  mem,          \* the partition's content
  phase,        \* "down", "scan" (inside fram_kvs_init) or "up" (kvs->ready)
  write_offset, \* kvs->write_offset; during the scan its local offset
  next_seq,     \* kvs->next_seq; during the scan its local
  mutex,        \* the task that holds kvs->mutex, or None
  pc,           \* what each task is about to do
  op,           \* the set or delete of each task's call
  log           \* ghost: the headers of the records callers may count on

object == <<write_offset, next_seq>>
vars == <<mem, phase, write_offset, next_seq, mutex, pc, op, log>>

Appending == {"mark", "header", "key", "value", "commit"}

-----------------------------------------------------------------------------
(* Records, and the scan. *)

Length(h) == IF h.op.value = Absent THEN 0 ELSE h.op.value.len

RecordSize(h) == Length(h) + 3

(* Cell i of a committed record with header h. *)
RecordCell(h, i) ==
  CASE i = 0              -> HeaderCell(h)
    [] i = 1              -> KeyCell(h.op.key)
    [] i = Length(h) + 2  -> COMMIT
    [] OTHER              -> DataCell(h.op.value.data)

(* Mutant of GoodAt: the commit byte is trusted without the CRC. *)
CommittedAt(m, o) ==
  /\ o + 2 <= Size
  /\ m[o].kind = "header"
  /\ o + RecordSize(m[o].of) <= Size
  /\ m[o + Length(m[o].of) + 2] = COMMIT

(* A good record starts at offset o: its header is this store's and fits, *)
(* it is committed, and its CRC is that of its key and value.             *)
GoodAt(m, o) ==
  /\ o + 2 <= Size
  /\ m[o].kind = "header"
  /\ o + RecordSize(m[o].of) <= Size
  /\ \A i \in 1..(Length(m[o].of) + 2) : m[o + i] = RecordCell(m[o].of, i)

(* Where the first n of the records hs end, written from offset 0. *)
End(hs, n) ==
  LET end[i \in 0..n] ==
        IF i = 0 THEN 0 ELSE end[i - 1] + RecordSize(hs[i])
  IN end[n]

(* The headers that a scan of m from offset 0 passes over. *)
Scan(m) ==
  LET from[o \in 0..Size] ==
        IF GoodAt(m, o) THEN <<m[o].of>> \o from[o + RecordSize(m[o].of)]
        ELSE <<>>
  IN from[0]

(* Mutant of Last: the first record of a key wins. *)
FirstOf(hits) == Min(hits)

LastOf(hits) == Max(hits)

(* What fram_kvs_get finds for key k if the scan passes over the records hs. *)
Value(hs, k) ==
  LET hits == {i \in DOMAIN hs : hs[i].op.key = k}
  IN IF hits = {} THEN Absent ELSE hs[LastOf(hits)].op.value

Contents(hs) == [k \in Keys |-> Value(hs, k)]

-----------------------------------------------------------------------------
(* The writes of a set or a delete. *)

Entry(t) == [seq |-> next_seq, op |-> op[t]]

(* The place in the record, and the number of cells, of t's pending write. *)
First(t) ==
  CASE pc[t] \in {"mark", "commit"} -> Length(Entry(t)) + 2
    [] pc[t] = "header"             -> 0
    [] pc[t] = "key"                -> 1
    [] pc[t] = "value"              -> 2

Count(t) == IF pc[t] = "value" THEN Length(Entry(t)) ELSE 1

(* The partition after n cells of that write, and with the next one torn. *)
Put(t, n) ==
  [c \in Offsets |->
     LET i == c - write_offset
     IN IF i \notin First(t)..(First(t) + n - 1) THEN mem[c]
        ELSE IF pc[t] = "mark" THEN CLEAR ELSE RecordCell(Entry(t), i)]

Torn(t, n) == [Put(t, n) EXCEPT ![write_offset + First(t) + n] = Garbage]

Written(t) == Put(t, Count(t))

(* What the write leaves when it stops after some of its chunks. A commit *)
(* byte is there or not.                                                  *)
Cut(t) ==
  {Put(t, n) : n \in 0..Count(t)}
    \cup (IF pc[t] \in {"mark", "commit"} THEN {}
          ELSE {Torn(t, n) : n \in 0..(Count(t) - 1)})

-----------------------------------------------------------------------------
(* fram_kvs_init and fram_kvs_deinit *)

Init ==
  /\ mem \in {[c \in Offsets |-> ERASED], [c \in Offsets |-> COMMIT]}
  /\ phase = "down"
  /\ write_offset = 0 /\ next_seq = 0
  /\ mutex = None
  /\ pc = [t \in Tasks |-> "idle"]
  /\ op = [t \in Tasks |-> None]
  /\ log = <<>>

(* The object is new. The task that initialises it owns it. *)
KvsInit ==
  /\ phase = "down"
  /\ \A t \in Tasks : pc[t] = "idle"
  /\ phase' = "scan"
  /\ write_offset' = 0 /\ next_seq' = 0
  /\ UNCHANGED <<mem, mutex, pc, op, log>>

(* Mutant of SeqAfter: > for >=. *)
SeqAfterLarger(h) == IF h.seq > next_seq THEN h.seq + 1 ELSE next_seq

SeqAfter(h) == IF h.seq >= next_seq THEN h.seq + 1 ELSE next_seq

(* fram_kvs_find_end passes over a good record. *)
ScanRecord ==
  /\ phase = "scan"
  /\ GoodAt(mem, write_offset)
  /\ write_offset' = write_offset + RecordSize(mem[write_offset].of)
  /\ next_seq' = SeqAfter(mem[write_offset].of)
  /\ UNCHANGED <<mem, phase, mutex, pc, op, log>>

ScanEnds ==
  /\ phase = "scan"
  /\ ~GoodAt(mem, write_offset)
  /\ phase' = "up"
  /\ log' = Scan(mem)
  /\ UNCHANGED <<mem, object, mutex, pc, op>>

(* A read fails, and so does init. *)
ScanFails ==
  /\ phase = "scan"
  /\ phase' = "down"
  /\ write_offset' = 0 /\ next_seq' = 0
  /\ UNCHANGED <<mem, mutex, pc, op, log>>

(* deinit takes no lock, and calls under way go on. *)
Deinit ==
  /\ phase = "up"
  /\ phase' = "down"
  /\ UNCHANGED <<mem, object, mutex, pc, op, log>>

-----------------------------------------------------------------------------
(* fram_kvs_set and fram_kvs_delete *)

Call(t, o) ==
  /\ phase = "up"
  /\ pc[t] = "idle"
  /\ pc' = [pc EXCEPT ![t] = "lock"]
  /\ op' = [op EXCEPT ![t] = o]
  /\ UNCHANGED <<mem, phase, object, mutex, log>>

CallSet(t) == \E k \in Keys, v \in Values : Call(t, [key |-> k, value |-> v])
CallDelete(t) == \E k \in Keys : Call(t, [key |-> k, value |-> Absent])

(* The mutex was not given within the timeout: ESP_ERR_TIMEOUT. Another    *)
(* set or delete held it, or a get, which holds it and changes nothing.    *)
Timeout(t) ==
  /\ pc[t] = "lock"
  /\ pc' = [pc EXCEPT ![t] = "idle"]
  /\ op' = [op EXCEPT ![t] = None]
  /\ UNCHANGED <<mem, phase, object, mutex, log>>

(* Mutant of Fits: the commit byte may fall off the end. *)
AlmostFits(h) == write_offset + RecordSize(h) <= Size + 1

Fits(h) == write_offset + RecordSize(h) <= Size

Lock(t) ==
  /\ pc[t] = "lock"
  /\ mutex = None
  /\ Fits(Entry(t))
  /\ mutex' = t
  /\ pc' = [pc EXCEPT ![t] = "mark"]
  /\ UNCHANGED <<mem, phase, object, op, log>>

(* The log is full: ESP_ERR_NO_MEM, for a delete as well. *)
Refuse(t) ==
  /\ pc[t] = "lock"
  /\ mutex = None
  /\ ~Fits(Entry(t))
  /\ pc' = [pc EXCEPT ![t] = "idle"]
  /\ op' = [op EXCEPT ![t] = None]
  /\ UNCHANGED <<mem, phase, object, mutex, log>>

(* A device write of t that completes, and what t does next. *)
WriteStep(t, from, to) ==
  /\ pc[t] = from
  /\ mem' = Written(t)
  /\ pc' = [pc EXCEPT ![t] = to]
  /\ UNCHANGED <<phase, object, mutex, op, log>>

ClearCommit(t) == WriteStep(t, "mark", "header")
WriteHeader(t) == WriteStep(t, "header", "key")

WriteKey(t) ==
  WriteStep(t, "key", IF Length(Entry(t)) = 0 THEN "commit" ELSE "value")

WriteValue(t) == WriteStep(t, "value", "commit")

Unlock(t) ==
  /\ mutex' = None
  /\ pc' = [pc EXCEPT ![t] = "idle"]
  /\ op' = [op EXCEPT ![t] = None]

WriteCommit(t) ==
  /\ pc[t] = "commit"
  /\ mem' = Written(t)
  /\ write_offset' = write_offset + RecordSize(Entry(t))
  /\ next_seq' = next_seq + 1
  /\ Unlock(t)
  /\ log' = Append(log, Entry(t))
  /\ UNCHANGED phase

-----------------------------------------------------------------------------
(* Failures. *)

(* Mutants of IoError: the error path returns without the unlock; it moves *)
(* write_offset past the record that failed.                               *)
ErrorKeepsMutex(t) ==
  /\ pc[t] \in Appending
  /\ mem' \in Cut(t)
  /\ pc' = [pc EXCEPT ![t] = "idle"]
  /\ op' = [op EXCEPT ![t] = None]
  /\ UNCHANGED <<phase, object, mutex, log>>

ErrorSkipsRecord(t) ==
  /\ pc[t] \in Appending
  /\ mem' \in Cut(t)
  /\ Unlock(t)
  /\ write_offset' = write_offset + RecordSize(Entry(t))
  /\ UNCHANGED <<phase, next_seq, log>>

(* The device reports an error in a write: the call unlocks and returns it. *)
IoError(t) ==
  /\ pc[t] \in Appending
  /\ mem' \in Cut(t)
  /\ Unlock(t)
  /\ UNCHANGED <<phase, object, log>>

(* The power goes: the write under way is cut, RAM is lost. *)
PowerLoss ==
  /\ IF mutex = None THEN UNCHANGED mem ELSE mem' \in Cut(mutex)
  /\ phase' = "down"
  /\ write_offset' = 0 /\ next_seq' = 0
  /\ mutex' = None
  /\ pc' = [t \in Tasks |-> "idle"]
  /\ op' = [t \in Tasks |-> None]
  /\ UNCHANGED log

-----------------------------------------------------------------------------
Step(t) ==
  \/ Timeout(t) \/ Lock(t) \/ Refuse(t)
  \/ ClearCommit(t) \/ WriteHeader(t) \/ WriteKey(t) \/ WriteValue(t)
  \/ WriteCommit(t)
  \/ IoError(t)

Next ==
  \/ KvsInit \/ ScanRecord \/ ScanEnds \/ ScanFails
  \/ Deinit
  \/ PowerLoss
  \/ \E t \in Tasks : CallSet(t) \/ CallDelete(t) \/ Step(t)

Spec == Init /\ [][Next]_vars

-----------------------------------------------------------------------------
(* Properties *)

(* The variables hold values of their C types, and no record reaches past  *)
(* the end of the partition.                                               *)
TypeOK ==
  /\ mem \in [Offsets -> Cell]
  /\ phase \in {"down", "scan", "up"}
  /\ write_offset \in 0..Size
  /\ next_seq \in Nat
  /\ mutex \in Tasks \cup {None}
  /\ pc \in [Tasks -> {"idle", "lock"} \cup Appending]
  /\ op \in [Tasks -> Operation \cup {None}]
  /\ \A t \in Tasks :
       /\ IF pc[t] = "idle" THEN op[t] = None ELSE op[t] \in Operation
       /\ pc[t] \in Appending => write_offset + RecordSize(Entry(t)) <= Size

(* The task inside the locked part of a call holds the mutex, and no call  *)
(* that returned, with OK or with an error, still holds it.                *)
MutexHeldOnlyInside ==
  \A t \in Tasks : pc[t] \in Appending <=> mutex = t

(* A restart at any moment, in the middle of an append over the remains of *)
(* failed ones of other sizes as well, finds every record that returned OK *)
(* in order, and after them at most one whose call did not return OK.      *)
RestartFindsLog ==
  LET hs == Scan(mem)
  IN IsPrefix(log, hs) /\ Len(hs) <= Len(log) + 1

(* While the store is up, write_offset is where the records that returned  *)
(* OK end and next_seq follows theirs: a failed set or delete costs no     *)
(* space and no sequence number.                                           *)
NoSpaceLost ==
  phase = "up" =>
    /\ write_offset = End(log, Len(log))
    /\ next_seq = Len(log)

(* One bad byte anywhere hides the record it is in and those after it, and *)
(* none before: the CRC stops the scan there (test_fram.c, fram_kvs_crc_stop). *)
OneBadCellHidesOnlyLater ==
  \A c \in Offsets :
    LET hs == Scan(mem)
        kept == Max({n \in 0..Len(hs) : End(hs, n) <= c})
    IN Scan([mem EXCEPT ![c] = Garbage]) = SubSeq(hs, 1, kept)

(* The store is a crash-safe map. Its map is the last word of the log on   *)
(* each key; what is durable is what fram_kvs_get would return now.        *)
Map == INSTANCE CrashSafeMap WITH
  map <- Contents(log),
  updates <- Len(log),
  durable <- Contents(Scan(mem)),
  pend <- op

(* Sets and deletes implement CrashSafeMap: one that returned OK is found  *)
(* by every get and every restart, and one that failed, or that the power  *)
(* cut, has either had its whole effect on its own key or none.            *)
ImplementsMap == Map!Spec
=============================================================================
