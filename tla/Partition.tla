------------------------------ MODULE Partition ------------------------------
(***************************************************************************)
(* fram_partition: a table of ranges of the device. fram_pm_init takes a   *)
(* table only if its ranges lie inside the device and do not overlap;      *)
(* every later access is checked against its own range, in the arithmetic  *)
(* of unsigned words, and the device address is computed from both.        *)
(*                                                                         *)
(* A handle is the index of its partition: fram_pm_find and fram_pm_get    *)
(* return a pointer into the table, and callers that keep one over another *)
(* fram_pm_init are left out. A write of fram_dev is one step (the device  *)
(* mutex); an erase is a loop of them.                                     *)
(***************************************************************************)
EXTENDS Integers, Sequences

CONSTANTS
  Tasks,   \* the tasks that erase partitions
  W,       \* 2^32: words are 0..(W - 1)
  MaxPart, \* FRAM_PART_MAX
  Chunk,   \* FRAM_PM_ERASE_CHUNK
  None     \* no erase

ASSUME ConstantsAssumption ==
  /\ W \in Nat \ {0}
  /\ MaxPart \in Nat
  /\ Chunk \in 1..(W - 1)

Word == 0..(W - 1)

(* Unsigned arithmetic wraps around. *)
Plus(a, b) == IF a + b < W THEN a + b ELSE a + b - W
Minus(a, b) == IF b <= a THEN a - b ELSE a - b + W

Entry == [offset : Word, size : Word, readonly : BOOLEAN]

VARIABLES
  dev_size,    \* fram_dev_get_size(pm->dev); 0 when no chip was found
  mem,         \* the device's bytes: TRUE where erased
  parts,       \* the first partition_count entries of pm->partitions
  initialized, \* pm->initialized
  job,         \* the erase each task is in: handle, offset and remaining
  written      \* ghost: a write went into the partition since t's erase began

vars == <<dev_size, mem, parts, initialized, job, written>>

Addresses == {a \in Word : a < dev_size}
Bytes(p) == {a \in Word : p.offset <= a /\ a < p.offset + p.size}

-----------------------------------------------------------------------------
(* The checks. *)

(* Mutant of Fits: the end is computed before it is compared. *)
EndFits(p) == p.size # 0 /\ Plus(p.offset, p.size) <= dev_size

Fits(p) ==
  /\ p.size # 0
  /\ p.offset <= dev_size
  /\ p.size <= dev_size
  /\ p.offset <= Minus(dev_size, p.size)

Overlap(p, q) ==
  /\ p.offset < Plus(q.offset, q.size)
  /\ q.offset < Plus(p.offset, p.size)

Accepted(table) ==
  /\ \A i \in DOMAIN table : Fits(table[i])
  /\ \A i, j \in DOMAIN table : i < j => ~Overlap(table[i], table[j])

(* Mutant of ValidRange: offset + len is compared, and wraps. *)
EndInRange(p, o, n) == n = 0 \/ Plus(o, n) <= p.size

ValidRange(p, o, n) ==
  n = 0 \/ (o <= p.size /\ n <= p.size /\ o <= Minus(p.size, n))

(* Mutant of Writable: the flag is not looked at. *)
WritableAnyway(p) == initialized

Writable(p) == initialized /\ ~p.readonly

(* The bytes a transfer of n bytes at offset o of p addresses. *)
Span(p, o, n) == {Plus(Plus(p.offset, o), k) : k \in {x \in Word : x < n}}

-----------------------------------------------------------------------------
(* fram_pm_init and fram_pm_deinit *)

Init ==
  /\ dev_size \in Word
  /\ mem = [a \in Addresses |-> FALSE]
  /\ parts = <<>>
  /\ initialized = FALSE
  /\ job = [t \in Tasks |-> None]
  /\ written = [t \in Tasks |-> FALSE]

Idle == \A t \in Tasks : job[t] = None

(* The table is copied entry by entry; the count is set at the end. *)
PmInit(table) ==
  /\ Idle
  /\ dev_size # 0
  /\ Accepted(table)
  /\ parts' = table
  /\ initialized' = TRUE
  /\ UNCHANGED <<dev_size, mem, job, written>>

(* A table with a bad name, size, range or overlap, or a device of size 0: *)
(* an error, and the manager that was there is gone.                       *)
InitRefused ==
  /\ Idle
  /\ parts' = <<>>
  /\ initialized' = FALSE
  /\ UNCHANGED <<dev_size, mem, job, written>>

(* Mutant of Deinit: it clears the object. *)
DeinitClears ==
  /\ parts' = <<>>
  /\ initialized' = FALSE
  /\ UNCHANGED <<dev_size, mem, job, written>>

(* deinit leaves the table, and handles of it can still be found. *)
Deinit ==
  /\ initialized' = FALSE
  /\ UNCHANGED <<dev_size, mem, parts, job, written>>

-----------------------------------------------------------------------------
(* fram_pm_write and fram_pm_erase *)

(* A write of n bytes goes to the device, which stores bytes of the given  *)
(* kind up to the m-th; it stores all n, or fails.                         *)
Store(p, o, m, erased) ==
  mem' = [a \in Addresses |-> IF a \in Span(p, o, m) THEN erased ELSE mem[a]]

PmWrite(i, o, n) ==
  /\ Writable(parts[i])
  /\ ValidRange(parts[i], o, n)
  /\ \E m \in 0..n : Store(parts[i], o, m, FALSE)
  /\ written' = [t \in Tasks |->
                   written[t] \/ (job[t] # None /\ job[t].part = i)]
  /\ UNCHANGED <<dev_size, parts, initialized, job>>

EraseBegins(t, i) ==
  /\ job[t] = None
  /\ Writable(parts[i])
  /\ job' = [job EXCEPT ![t] =
               [part |-> i, offset |-> 0, remaining |-> parts[i].size]]
  /\ written' = [written EXCEPT ![t] = FALSE]
  /\ UNCHANGED <<dev_size, mem, parts, initialized>>

ChunkOf(t) == IF job[t].remaining > Chunk THEN Chunk ELSE job[t].remaining

(* Mutant of Remaining: the loop stops before the last partial chunk. *)
WholeChunks(t) ==
  IF job[t].remaining < 2 * Chunk THEN 0 ELSE job[t].remaining - Chunk

Remaining(t) == Minus(job[t].remaining, ChunkOf(t))

Passes(t) ==
  LET p == parts[job[t].part]
  IN Writable(p) /\ ValidRange(p, job[t].offset, ChunkOf(t))

EraseChunk(t) ==
  /\ job[t] # None
  /\ job[t].remaining > 0
  /\ Passes(t)
  /\ Store(parts[job[t].part], job[t].offset, ChunkOf(t), TRUE)
  /\ job' = [job EXCEPT ![t].offset = Plus(@, ChunkOf(t)),
                        ![t].remaining = Remaining(t)]
  /\ UNCHANGED <<dev_size, parts, initialized, written>>

(* ESP_OK after the last chunk. *)
EraseDone(t) ==
  /\ job[t] # None
  /\ job[t].remaining = 0
  /\ job' = [job EXCEPT ![t] = None]
  /\ UNCHANGED <<dev_size, mem, parts, initialized, written>>

(* A chunk is refused, since the manager was shut down meanwhile, or fails *)
(* in the device: the rest stays as it was.                                *)
EraseFails(t) ==
  /\ job[t] # None
  /\ job[t].remaining > 0
  /\ IF Passes(t)
     THEN \E m \in 0..ChunkOf(t) :
            Store(parts[job[t].part], job[t].offset, m, TRUE)
     ELSE UNCHANGED mem
  /\ job' = [job EXCEPT ![t] = None]
  /\ UNCHANGED <<dev_size, parts, initialized, written>>

-----------------------------------------------------------------------------
Tables == UNION {[1..n -> Entry] : n \in 1..MaxPart}

Next ==
  \/ \E table \in Tables : PmInit(table)
  \/ InitRefused
  \/ Deinit
  \/ \E i \in DOMAIN parts :
       \/ \E o, n \in Word : PmWrite(i, o, n)
       \/ \E t \in Tasks : EraseBegins(t, i)
  \/ \E t \in Tasks : EraseChunk(t) \/ EraseDone(t) \/ EraseFails(t)

Spec == Init /\ [][Next]_vars

-----------------------------------------------------------------------------
(* Properties *)

(* The variables hold values of their C types, and an erase in progress    *)
(* has its handle from the table that is there.                            *)
TypeOK ==
  /\ dev_size \in Word
  /\ mem \in [Addresses -> BOOLEAN]
  /\ parts \in Seq(Entry)
  /\ initialized \in BOOLEAN
  /\ job \in [Tasks ->
               {None} \cup [part : DOMAIN parts, offset : Word, remaining : Word]]
  /\ written \in [Tasks -> BOOLEAN]

(* The partitions of the table are ranges of the device, and no byte is in *)
(* two of them, however large the offsets and sizes given to fram_pm_init. *)
PartitionsDisjoint ==
  /\ \A i \in DOMAIN parts : Bytes(parts[i]) \subseteq Addresses
  /\ \A i, j \in DOMAIN parts :
       i # j => Bytes(parts[i]) \cap Bytes(parts[j]) = {}

(* Every transfer that fram_pm_is_valid_range lets through, read or write, *)
(* addresses bytes of its own partition: nothing wraps around.             *)
AccessStaysInside ==
  \A i \in DOMAIN parts : \A o, n \in Word :
    ValidRange(parts[i], o, n) => Span(parts[i], o, n) \subseteq Bytes(parts[i])

(* While its table is there, the bytes of a read-only partition never      *)
(* change, whatever is written or erased elsewhere.                        *)
ReadonlyKeepsContent ==
  [][\A i \in DOMAIN parts : parts[i].readonly =>
       \A a \in Bytes(parts[i]) : mem'[a] = mem[a]]_vars

(* An erase in progress has erased the first offset bytes of its partition *)
(* and has the rest to do, so that one that returns ESP_OK has erased it   *)
(* all; unless somebody wrote to the partition meanwhile.                  *)
EraseCovers ==
  \A t \in Tasks : job[t] # None =>
    LET p == parts[job[t].part] IN
      /\ job[t].offset + job[t].remaining = p.size
      /\ ~written[t] => \A k \in {x \in Word : x < job[t].offset} : mem[p.offset + k]
=============================================================================
