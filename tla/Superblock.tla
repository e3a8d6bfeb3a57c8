----------------------------- MODULE Superblock -----------------------------
(***************************************************************************)
(* fram_superblock: the partition table kept in two copies, each write     *)
(* going to the older one under the next sequence number.                  *)
(*                                                                         *)
(* A copy is a body and a commit byte. A body in Body is one whose magic,  *)
(* version, size, count and CRC all hold; "parts" stands for the partition *)
(* table in it. Garbage is every other content.                            *)
(*                                                                         *)
(* The functions take no lock of their own: each of their device reads and *)
(* writes is a step, exclusive under the device's mutex, and other tasks   *)
(* run between them. Cut gives what a write leaves when it is not          *)
(* completed.                                                              *)
(***************************************************************************)
EXTENDS Naturals

CONSTANTS
  Writers,   \* the tasks that call fram_superblock_write
  Readers,   \* the tasks that call fram_superblock_read
  Parts,     \* the partition tables
  Garbage,   \* a body that is not valid
  None,      \* no value: not written yet, or a device read that failed
  NotFound,  \* ESP_ERR_NOT_FOUND
  Failed,    \* the error of a device read
  SeqCount,  \* number of values of seq (2^32)
  MaxSeq,    \* bound: no write is called once a copy holds this number
  ReadFaults \* whether a device read may fail (by itself or on the mutex)

CLEAR == 0
COMMIT == 165
ERASED == 255

CopyIds == {0, 1}
Seqs == 0..(SeqCount - 1)
Body == [seq : Seqs, parts : Parts]
Copy == [body : Body \cup {Garbage}, commit : {CLEAR, COMMIT, ERASED}]
Tasks == Writers \cup Readers

ASSUME ConstantsAssumption ==
  /\ SeqCount \in Nat \ {0, 1}
  /\ MaxSeq \in Nat
  /\ ReadFaults \in BOOLEAN
  /\ Writers \cap Readers = {}
  /\ Garbage \notin Body
  /\ {None, NotFound, Failed} \cap (Body \cup Copy) = {}
  /\ NotFound # Failed /\ None \notin {NotFound, Failed}

VARIABLES
  copies,  \* the two copies at base_offset
  pc,      \* what each task is about to do
  a,       \* each task's local a: the first copy as it was read
  index,   \* each writer's local target_index
  temp,    \* each writer's local temp, without its commit byte
  out,     \* what each reader's last call returned
  acked,   \* ghost: the body of the last write that returned OK
  tried,   \* ghost: the bodies of later writes that have begun to be written
  start,   \* ghost: acked when each reader's call began
  overlap  \* ghost: write calls that overlap each reader's call, 2 for more

ghosts == <<acked, tried, start, overlap>>
vars == <<copies, pc, a, index, temp, out, acked, tried, start, overlap>>

-----------------------------------------------------------------------------
Erased == [body |-> Garbage, commit |-> ERASED]
Foreign == [body |-> Garbage, commit |-> COMMIT]

(* fram_superblock_valid, of a copy that could be read. *)
Valid(c) == c # None /\ c.commit = COMMIT /\ c.body # Garbage

(* What a device read of copy i gives. *)
Look(i) == {copies[i]} \cup (IF ReadFaults THEN {None} ELSE {})

(* The copy that read selects of x and y. *)
Newest(x, y) ==
  IF Valid(x) /\ (Valid(y) => x.body.seq >= y.body.seq) THEN x ELSE y

Outcome(x, y) ==
  CASE x = None /\ y = None     -> Failed
    [] Valid(x) \/ Valid(y)     -> Newest(x, y).body
    [] OTHER                    -> NotFound

(* What is read while nothing is being written. *)
Stored == Outcome(copies[0], copies[1])

(* Mutants of TargetIndex: the newer of two valid copies; always the first; *)
(* the one after the newest, without the wrap to the first.                 *)
NewerIndex(x, y) ==
  IF Valid(x) /\ (Valid(y) => x.body.seq <= y.body.seq) THEN 1 ELSE 0
FirstIndex(x, y) == 0
IndexBeyondLast(x, y) ==
  IF Valid(x) /\ (Valid(y) => x.body.seq > y.body.seq) THEN 1
  ELSE IF Valid(y) THEN 2 ELSE 0

(* Mutant of NextSeq: the number is not bumped. *)
SameSeq(x, y) ==
  IF Valid(x) \/ Valid(y) THEN Newest(x, y).body.seq ELSE 1

(* The older copy, or the one that is not valid. *)
TargetIndex(x, y) ==
  IF Valid(x) /\ (Valid(y) => x.body.seq > y.body.seq) THEN 1 ELSE 0

NextSeq(x, y) ==
  IF Valid(x) \/ Valid(y) THEN (Newest(x, y).body.seq + 1) % SeqCount ELSE 1

-----------------------------------------------------------------------------
Init ==
  /\ copies \in [CopyIds -> {Erased, Foreign}]
  /\ pc = [t \in Tasks |-> "idle"]
  /\ a = [t \in Tasks |-> None]
  /\ index = [t \in Writers |-> 0]
  /\ temp = [t \in Writers |-> None]
  /\ out = [t \in Readers |-> None]
  /\ acked = None
  /\ tried = {}
  /\ start = [t \in Readers |-> None]
  /\ overlap = [t \in Readers |-> 0]

(* Both functions begin with a read of the first copy. *)
LookA(t) ==
  /\ \/ pc[t] = "writeA" /\ pc' = [pc EXCEPT ![t] = "writeB"]
     \/ pc[t] = "readA" /\ pc' = [pc EXCEPT ![t] = "readB"]
  /\ \E x \in Look(0) : a' = [a EXCEPT ![t] = x]
  /\ UNCHANGED <<copies, index, temp, out, ghosts>>

-----------------------------------------------------------------------------
(* fram_superblock_read *)

Add(m, n) == IF m + n > 2 THEN 2 ELSE m + n

Busy == {w \in Writers : pc[w] # "idle"}

CallRead(t) ==
  /\ pc[t] = "idle"
  /\ pc' = [pc EXCEPT ![t] = "readA"]
  /\ out' = [out EXCEPT ![t] = None]
  /\ start' = [start EXCEPT ![t] = acked]
  /\ overlap' = [overlap EXCEPT ![t] =
                   IF Busy = {} THEN 0
                   ELSE IF \E w \in Busy : Busy = {w} THEN 1 ELSE 2]
  /\ UNCHANGED <<copies, a, index, temp, acked, tried>>

ReadB(t) ==
  /\ pc[t] = "readB"
  /\ pc' = [pc EXCEPT ![t] = "idle"]
  /\ \E y \in Look(1) : out' = [out EXCEPT ![t] = Outcome(a[t], y)]
  /\ a' = [a EXCEPT ![t] = None]
  /\ UNCHANGED <<copies, index, temp, ghosts>>

-----------------------------------------------------------------------------
(* fram_superblock_write. temp holds *sb from the start: its seq is always *)
(* replaced.                                                               *)

CallWrite(t, p) ==
  /\ pc[t] = "idle"
  /\ \A i \in CopyIds : Valid(copies[i]) => copies[i].body.seq < MaxSeq
  /\ pc' = [pc EXCEPT ![t] = "writeA"]
  /\ temp' = [temp EXCEPT ![t] = [seq |-> 0, parts |-> p]]
  /\ overlap' = [r \in Readers |-> Add(overlap[r], 1)]
  /\ UNCHANGED <<copies, a, index, out, acked, tried, start>>

(* The second copy is read and the target chosen from the two locals. *)
LookB(t) ==
  /\ pc[t] = "writeB"
  /\ pc' = [pc EXCEPT ![t] = "copy"]
  /\ \E y \in Look(1) :
       /\ index' = [index EXCEPT ![t] = TargetIndex(a[t], y)]
       /\ temp' = [temp EXCEPT ![t].seq = NextSeq(a[t], y)]
  /\ a' = [a EXCEPT ![t] = None]
  /\ tried' = tried \cup {temp'[t]}
  /\ UNCHANGED <<copies, out, acked, start, overlap>>

Target(t) == copies[index[t]]

(* The target copy once t's pending device write is complete. *)
Written(t) ==
  IF pc[t] = "copy" THEN [body |-> temp[t], commit |-> CLEAR]
  ELSE [Target(t) EXCEPT !.commit = COMMIT]

(* The target copy when that write stops: the commit byte comes after the *)
(* body, so the old one may still stand behind a torn or a new body.      *)
Cut(t) ==
  {Target(t), Written(t)}
    \cup (IF pc[t] = "copy"
          THEN {[Target(t) EXCEPT !.body = b] : b \in {Garbage, temp[t]}} ELSE {})

WriteCopy(t) ==
  /\ pc[t] = "copy"
  /\ copies' = [copies EXCEPT ![index[t]] = Written(t)]
  /\ pc' = [pc EXCEPT ![t] = "commit"]
  /\ UNCHANGED <<a, index, temp, out, ghosts>>

WriteCommit(t) ==
  /\ pc[t] = "commit"
  /\ copies' = [copies EXCEPT ![index[t]] = Written(t)]
  /\ pc' = [pc EXCEPT ![t] = "idle"]
  /\ temp' = [temp EXCEPT ![t] = None]
  /\ acked' = temp[t]
  /\ tried' = {b \in tried : b.seq > temp[t].seq}
  /\ UNCHANGED <<a, index, out, start, overlap>>

-----------------------------------------------------------------------------
(* The device reports an error in one of the two writes. *)
IoError(t) ==
  /\ pc[t] \in {"copy", "commit"}
  /\ \E c \in Cut(t) : copies' = [copies EXCEPT ![index[t]] = c]
  /\ pc' = [pc EXCEPT ![t] = "idle"]
  /\ temp' = [temp EXCEPT ![t] = None]
  /\ UNCHANGED <<a, index, out, ghosts>>

(* The power goes, in at most one device write. *)
PowerLoss ==
  /\ \/ UNCHANGED copies
     \/ \E t \in Writers : \E c \in Cut(t) :
          /\ pc[t] \in {"copy", "commit"}
          /\ copies' = [copies EXCEPT ![index[t]] = c]
  /\ pc' = [t \in Tasks |-> "idle"]
  /\ a' = [t \in Tasks |-> None]
  /\ temp' = [t \in Writers |-> None]
  /\ out' = [t \in Readers |-> None]
  /\ UNCHANGED <<index, ghosts>>

WriterStep(t) ==
  \/ \E p \in Parts : CallWrite(t, p)
  \/ LookA(t) \/ LookB(t)
  \/ WriteCopy(t) \/ WriteCommit(t)
  \/ IoError(t)

ReaderStep(t) == CallRead(t) \/ LookA(t) \/ ReadB(t)

Next ==
  \/ PowerLoss
  \/ \E t \in Writers : WriterStep(t)
  \/ \E t \in Readers : ReaderStep(t)

Spec == Init /\ [][Next]_vars

-----------------------------------------------------------------------------
(* Properties *)

(* The variables hold values of their C types. *)
TypeOK ==
  /\ copies \in [CopyIds -> Copy]
  /\ pc \in [Tasks -> {"idle", "writeA", "writeB", "copy", "commit",
                       "readA", "readB"}]
  /\ a \in [Tasks -> Copy \cup {None}]
  /\ index \in [Writers -> CopyIds]
  /\ temp \in [Writers -> Body \cup {None}]
  /\ out \in [Readers -> Body \cup {None, NotFound, Failed}]
  /\ acked \in Body \cup {None}
  /\ tried \subseteq Body
  /\ start \in [Readers -> Body \cup {None}]
  /\ overlap \in [Readers -> 0..2]

(* Whatever step of a write an error or the power loss hits, a read then   *)
(* gives the table of the last write that returned OK, or that of a write  *)
(* begun after it; never an older table, and never none.                   *)
AckedSurvives ==
  acked # None => Stored \in {acked} \cup tried

(* The two generations the A/B scheme lives on: when both copies are valid *)
(* their numbers are consecutive, so the copy that is left when the newest *)
(* one goes bad is the generation just before it.                          *)
CopiesConsecutive ==
  Valid(copies[0]) /\ Valid(copies[1]) =>
    \/ copies[0].body.seq = copies[1].body.seq + 1
    \/ copies[1].body.seq = copies[0].body.seq + 1

(* A write goes to the older or invalid copy: the first byte written never *)
(* falls into the copy that a read would select at that moment.            *)
WritesOlderCopy ==
  [][\A t \in Writers :
       WriteCopy(t) /\ Stored # NotFound => Target(t).body # Stored]_vars

(* Every write that returns OK has a number above that of all writes that  *)
(* returned OK before it.                                                  *)
SeqBumped ==
  [][\A t \in Writers :
       WriteCommit(t) /\ acked # None => temp[t].seq > acked.seq]_vars

(* A read that at most one write call overlaps returns a table, and none   *)
(* older than the last one written when the read began.                    *)
ReadsAreFresh ==
  [][\A t \in Readers :
       ReadB(t) /\ start[t] # None /\ overlap[t] <= 1 =>
         /\ out'[t] \in Body
         /\ out'[t].seq >= start[t].seq]_vars

(* A read reports NOT_FOUND only if no table was ever written before it. *)
NotFoundMeansNone ==
  [][\A t \in Readers :
       ReadB(t) /\ start[t] # None => out'[t] # NotFound]_vars
=============================================================================
