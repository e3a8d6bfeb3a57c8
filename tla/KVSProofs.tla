------------------------------ MODULE KVSProofs ------------------------------
(***************************************************************************)
(* Theorems about KVS, for every number of tasks, keys, values and cells.  *)
(*                                                                         *)
(* That no record reaches past the end rests on the mutex: between a       *)
(* task's check of the size and its last write only it moves write_offset. *)
(* So the types and the mutex are proved together (IInv).                  *)
(*                                                                         *)
(* What a scan finds rests on the order of the writes (LInv): the records  *)
(* that count stand one after the other from offset 0, no header lies past *)
(* their end, and one at it has the next sequence number; a task's commit  *)
(* byte is clear until all the rest of its record is in place. The lemmas  *)
(* before it say what the recursive functions End and Scan compute.        *)
(***************************************************************************)
EXTENDS KVS, WellFoundedInduction, SequenceTheorems, TLAPS

Guarded == TypeOK /\ MutexHeldOnlyInside

(* Nobody is in a call while init scans the log. *)
InitAlone == phase = "scan" => \A t \in Tasks : pc[t] = "idle"

IInv == Guarded /\ InitAlone

-----------------------------------------------------------------------------
(* Records and writes *)

LEMMA LengthType ==
  ASSUME NEW h \in Header
  PROVE  /\ Length(h) \in Nat
         /\ RecordSize(h) \in Nat /\ RecordSize(h) >= 3
         /\ Length(h) # 0 => h.op.value \in Values /\ h.op.value.data \in Data
<1>1. h.op \in Operation /\ h.op.value \in Values \cup {Absent}
  BY DEF Header, Operation
<1>2. CASE h.op.value = Absent
  BY <1>2 DEF Length, RecordSize
<1>3. CASE h.op.value # Absent
  <2>1. h.op.value \in Values
    BY <1>1, <1>3
  <2>2. /\ h.op.value.len \in Nat
        /\ h.op.value.len # 0 => h.op.value.data \in Data
    BY <2>1, ConstantsAssumption DEF Values
  <2>3. QED
    BY <1>3, <2>1, <2>2 DEF Length, RecordSize
<1>4. QED
  BY <1>2, <1>3

LEMMA RecordCellType ==
  ASSUME NEW h \in Header, NEW i \in 0..(Length(h) + 2)
  PROVE  RecordCell(h, i) \in Cell
<1>1. Length(h) \in Nat /\ (Length(h) # 0 => h.op.value.data \in Data)
  BY LengthType
<1>2. h.op.key \in Keys
  BY DEF Header, Operation
<1>3. CASE i = 0
  BY <1>3 DEF RecordCell, HeaderCell, Cell
<1>4. CASE i = 1
  BY <1>2, <1>4 DEF RecordCell, KeyCell, Cell
<1>5. CASE i = Length(h) + 2
  BY <1>1, <1>5 DEF RecordCell, Cell
<1>6. CASE i # 0 /\ i # 1 /\ i # Length(h) + 2
  <2>1. h.op.value.data \in Data
    BY <1>1, <1>6
  <2>2. RecordCell(h, i) = DataCell(h.op.value.data)
    BY <1>6 DEF RecordCell
  <2>3. QED
    BY <2>1, <2>2 DEF DataCell, Cell
<1>7. QED
  BY <1>3, <1>4, <1>5, <1>6

LEMMA EntryType ==
  ASSUME TypeOK, NEW t \in Tasks, pc[t] # "idle"
  PROVE  Entry(t) \in Header
BY DEF TypeOK, Entry, Header

(* Whatever a write of a set or a delete leaves, whole or cut, is cells. *)
LEMMA PutType ==
  ASSUME TypeOK, NEW t \in Tasks, pc[t] \in Appending, NEW n \in 0..Count(t)
  PROVE  Put(t, n) \in [Offsets -> Cell]
<1>1. Entry(t) \in Header /\ Length(Entry(t)) \in Nat
  BY EntryType, LengthType DEF Appending
<1>2. ASSUME NEW c \in Offsets, NEW i, i \in First(t)..(First(t) + n - 1)
      PROVE  i \in 0..(Length(Entry(t)) + 2)
  BY <1>1, <1>2 DEF First, Count, Appending
<1>3. \A c \in Offsets : mem[c] \in Cell
  BY DEF TypeOK
<1>4. CLEAR \in Cell
  BY DEF Cell
<1>5. ASSUME NEW c \in Offsets PROVE Put(t, n)[c] \in Cell
  <2>. DEFINE i == c - write_offset
  <2>1. CASE i \notin First(t)..(First(t) + n - 1)
    BY <1>3, <2>1 DEF Put
  <2>2. CASE i \in First(t)..(First(t) + n - 1)
    <3>1. RecordCell(Entry(t), i) \in Cell
      BY <1>1, <1>2, <2>2, RecordCellType
    <3>2. QED
      BY <1>4, <2>2, <3>1 DEF Put
  <2>3. QED
    BY <2>1, <2>2
<1>6. QED
  BY <1>5 DEF Put

LEMMA CutType ==
  ASSUME TypeOK, NEW t \in Tasks, pc[t] \in Appending
  PROVE  Cut(t) \subseteq [Offsets -> Cell] /\ Written(t) \in [Offsets -> Cell]
<1>1. Count(t) \in Nat
  BY EntryType, LengthType DEF Count, Appending
<1>2. \A n \in 0..Count(t) : Put(t, n) \in [Offsets -> Cell]
  BY PutType
<1>3. \A n \in 0..(Count(t) - 1) : Torn(t, n) \in [Offsets -> Cell]
  <2>1. Garbage \in Cell
    BY DEF Cell
  <2>2. \A n \in 0..(Count(t) - 1) : n \in 0..Count(t)
    BY <1>1
  <2>3. QED
    BY <1>2, <2>1, <2>2 DEF Torn
<1>4. Written(t) \in [Offsets -> Cell]
  BY <1>1, <1>2 DEF Written
<1>5. QED
  BY <1>2, <1>3, <1>4 DEF Cut

-----------------------------------------------------------------------------
(* The steps *)

LEMMA InitIInv == Init => IInv
<1>. SUFFICES ASSUME Init PROVE IInv
  OBVIOUS
<1>1. mem \in [Offsets -> Cell]
  BY DEF Init, Cell
<1>2. QED
  BY <1>1, ConstantsAssumption
     DEF Init, IInv, Guarded, InitAlone, TypeOK, MutexHeldOnlyInside, Appending

(* A step of t that stays out of the locked part: a call begins, or ends   *)
(* without the mutex.                                                      *)
LEMMA OutsideStep ==
  ASSUME Guarded, NEW t \in Tasks,
         pc[t] \in {"idle", "lock"},
         \/ /\ pc' = [pc EXCEPT ![t] = "idle"]
            /\ op' = [op EXCEPT ![t] = None]
         \/ /\ pc' = [pc EXCEPT ![t] = "lock"]
            /\ \E o \in Operation : op' = [op EXCEPT ![t] = o],
         UNCHANGED <<mem, phase, write_offset, next_seq, mutex>>
  PROVE  Guarded'
<1>0. PICK w : /\ op' = [op EXCEPT ![t] = w]
               /\ \/ pc' = [pc EXCEPT ![t] = "idle"] /\ w = None
                  \/ pc' = [pc EXCEPT ![t] = "lock"] /\ w \in Operation
  OBVIOUS
<1>1. /\ pc'[t] \in {"idle", "lock"}
      /\ IF pc'[t] = "idle" THEN w = None ELSE w \in Operation
      /\ \A u \in Tasks \ {t} : pc'[u] = pc[u]
  BY <1>0 DEF Guarded, TypeOK
<1>2. MutexHeldOnlyInside'
  BY <1>1 DEF Guarded, MutexHeldOnlyInside, Appending
<1>3. pc' \in [Tasks -> {"idle", "lock"} \cup Appending]
  BY <1>0 DEF Guarded, TypeOK
<1>4. ASSUME NEW u \in Tasks
      PROVE  /\ IF pc'[u] = "idle" THEN op'[u] = None ELSE op'[u] \in Operation
             /\ pc'[u] \in Appending =>
                  write_offset' + RecordSize(Entry(u)') <= Size
  <2>1. CASE u = t
    <3>1. pc'[u] \notin Appending
      BY <1>1, <2>1 DEF Appending
    <3>2. op'[u] = w
      BY <1>0, <2>1 DEF Guarded, TypeOK
    <3>3. QED
      BY <1>1, <2>1, <3>1, <3>2
  <2>2. CASE u # t
    <3>1. op'[u] = op[u] /\ pc'[u] = pc[u]
      BY <1>0, <1>1, <2>2 DEF Guarded, TypeOK
    <3>2. Entry(u)' = Entry(u)
      BY <3>1 DEF Entry
    <3>3. QED
      BY <3>1, <3>2 DEF Guarded, TypeOK
  <2>3. QED
    BY <2>1, <2>2
<1>5. op' \in [Tasks -> Operation \cup {None}]
  BY <1>0 DEF Guarded, TypeOK
<1>6. QED
  BY <1>2, <1>3, <1>4, <1>5 DEF Guarded, TypeOK, RecordSize, Length

LEMMA LockStep ==
  ASSUME Guarded, NEW t \in Tasks, Lock(t)
  PROVE  Guarded'
<1>1. /\ pc[t] = "lock" /\ mutex = None /\ mutex' = t
      /\ pc' = [pc EXCEPT ![t] = "mark"]
      /\ write_offset + RecordSize(Entry(t)) <= Size
      /\ UNCHANGED <<mem, phase, write_offset, next_seq, op, log>>
  BY DEF Lock, Fits, object
<1>2. \A u \in Tasks : Entry(u)' = Entry(u)
  BY <1>1 DEF Entry
<1>3. \A u \in Tasks : pc[u] \notin Appending
  BY <1>1, ConstantsAssumption DEF Guarded, MutexHeldOnlyInside
<1>4. TypeOK'
  BY <1>1, <1>2, <1>3 DEF Guarded, TypeOK, Appending, RecordSize, Length
<1>5. MutexHeldOnlyInside'
  BY <1>1, <1>3 DEF Guarded, TypeOK, MutexHeldOnlyInside, Appending
<1>6. QED
  BY <1>4, <1>5 DEF Guarded

LEMMA WritesStep ==
  ASSUME Guarded, NEW t \in Tasks,
         NEW from \in Appending, NEW to \in Appending, WriteStep(t, from, to)
  PROVE  Guarded'
<1>1. /\ pc[t] \in Appending /\ mem' = Written(t)
      /\ pc' = [pc EXCEPT ![t] = to]
      /\ UNCHANGED <<phase, write_offset, next_seq, mutex, op, log>>
  BY DEF WriteStep, object
<1>2. \A u \in Tasks : Entry(u)' = Entry(u)
  BY <1>1 DEF Entry
<1>3. mem' \in [Offsets -> Cell]
  BY <1>1, CutType DEF Guarded
<1>4. TypeOK'
  BY <1>1, <1>2, <1>3 DEF Guarded, TypeOK, Appending, RecordSize, Length
<1>5. MutexHeldOnlyInside'
  BY <1>1 DEF Guarded, TypeOK, MutexHeldOnlyInside
<1>6. QED
  BY <1>4, <1>5 DEF Guarded

(* A call that held the mutex returns. No other task is in the locked part, *)
(* so write_offset may move.                                                *)
LEMMA UnlockStep ==
  ASSUME Guarded, NEW t \in Tasks, pc[t] \in Appending,
         mem' \in [Offsets -> Cell], Unlock(t), UNCHANGED phase,
         write_offset' \in 0..Size, next_seq' \in Nat
  PROVE  Guarded'
<1>1. /\ pc' = [pc EXCEPT ![t] = "idle"] /\ op' = [op EXCEPT ![t] = None]
      /\ mutex' = None
  BY DEF Unlock
<1>2. \A u \in Tasks : pc'[u] \notin Appending
  BY <1>1 DEF Guarded, TypeOK, MutexHeldOnlyInside, Appending
<1>3. TypeOK'
  BY <1>1, <1>2 DEF Guarded, TypeOK
<1>4. MutexHeldOnlyInside'
  BY <1>1, <1>2, ConstantsAssumption DEF MutexHeldOnlyInside
<1>5. QED
  BY <1>3, <1>4 DEF Guarded

LEMMA ReturnStep ==
  ASSUME Guarded, NEW t \in Tasks, WriteCommit(t) \/ IoError(t)
  PROVE  Guarded'
<1>1. CASE WriteCommit(t)
  <2>1. pc[t] = "commit" /\ pc[t] \in Appending
    BY <1>1 DEF WriteCommit, Appending
  <2>2. mem' \in [Offsets -> Cell]
    BY <1>1, <2>1, CutType DEF WriteCommit, Guarded
  <2>3. RecordSize(Entry(t)) \in Nat
    BY <2>1, EntryType, LengthType DEF Guarded
  <2>4. write_offset' \in 0..Size /\ next_seq' \in Nat
    BY <1>1, <2>1, <2>3, ConstantsAssumption DEF WriteCommit, Guarded, TypeOK
  <2>5. QED
    BY <1>1, <2>1, <2>2, <2>4, UnlockStep DEF WriteCommit
<1>2. CASE IoError(t)
  <2>1. pc[t] \in Appending /\ mem' \in [Offsets -> Cell]
    BY <1>2, CutType DEF IoError, Guarded
  <2>2. write_offset' \in 0..Size /\ next_seq' \in Nat
    BY <1>2 DEF IoError, object, Guarded, TypeOK
  <2>3. QED
    BY <1>2, <2>1, <2>2, UnlockStep DEF IoError
<1>3. QED
  BY <1>1, <1>2

(* The steps of init, in which nobody is in a call, and deinit. *)
LEMMA ScanStep ==
  ASSUME IInv, KvsInit \/ ScanRecord \/ ScanEnds \/ ScanFails \/ Deinit
  PROVE  Guarded'
<1>1. UNCHANGED <<mem, mutex, pc, op>> /\ phase' \in {"down", "scan", "up"}
  BY DEF KvsInit, ScanRecord, ScanEnds, ScanFails, Deinit, IInv, Guarded, TypeOK
<1>2. MutexHeldOnlyInside'
  BY <1>1 DEF IInv, Guarded, MutexHeldOnlyInside
<1>3. CASE UNCHANGED <<write_offset, next_seq>>
  <2>1. \A u \in Tasks : Entry(u)' = Entry(u)
    BY <1>1, <1>3 DEF Entry
  <2>2. QED
    BY <1>1, <1>2, <1>3, <2>1 DEF IInv, Guarded, TypeOK, RecordSize, Length
<1>4. CASE KvsInit \/ ScanRecord \/ ScanFails
  <2>1. \A u \in Tasks : pc'[u] \notin Appending
    BY <1>1, <1>4 DEF KvsInit, ScanRecord, ScanFails, Appending,
                           IInv, InitAlone
  <2>2. write_offset' \in 0..Size /\ next_seq' \in Nat
    <3>1. CASE ScanRecord
      <4>. DEFINE h == mem[write_offset].of
      <4>1. write_offset + 2 <= Size /\ mem[write_offset].kind = "header"
        BY <3>1 DEF ScanRecord, GoodAt
      <4>2. mem[write_offset] \in Cell
        BY <4>1, ConstantsAssumption DEF IInv, Guarded, TypeOK, Offsets
      <4>3. h \in Header
        BY <4>1, <4>2 DEF Cell, ERASED, CLEAR, COMMIT, Garbage
      <4>4. RecordSize(h) \in Nat /\ h.seq \in Nat
        BY <4>3, LengthType DEF Header
      <4>5. QED
        BY <3>1, <4>4, ConstantsAssumption
           DEF ScanRecord, GoodAt, SeqAfter, IInv, Guarded, TypeOK
    <3>2. CASE KvsInit \/ ScanFails
      BY <3>2, ConstantsAssumption DEF KvsInit, ScanFails
    <3>3. QED
      BY <1>4, <3>1, <3>2
  <2>3. QED
    BY <1>1, <1>2, <2>1, <2>2 DEF IInv, Guarded, TypeOK
<1>5. QED
  BY <1>3, <1>4 DEF ScanEnds, Deinit, object

(* RAM is lost, and the write under way is cut. *)
LEMMA PowerStep ==
  ASSUME Guarded, PowerLoss
  PROVE  Guarded'
<1>1. mem' \in [Offsets -> Cell]
  <2>1. CASE mutex = None
    BY <2>1 DEF PowerLoss, Guarded, TypeOK
  <2>2. CASE mutex # None
    <3>1. mutex \in Tasks /\ pc[mutex] \in Appending
      BY <2>2 DEF Guarded, TypeOK, MutexHeldOnlyInside
    <3>2. QED
      BY <2>2, <3>1, CutType DEF PowerLoss, Guarded
  <2>3. QED
    BY <2>1, <2>2
<1>2. QED
  BY <1>1, ConstantsAssumption
     DEF PowerLoss, Guarded, TypeOK, MutexHeldOnlyInside, Appending

LEMMA AloneStep ==
  ASSUME IInv, [Next]_vars
  PROVE  InitAlone'
<1>1. CASE KvsInit \/ ScanRecord \/ ScanEnds \/ ScanFails \/ Deinit \/ PowerLoss
  BY <1>1 DEF KvsInit, ScanRecord, ScanEnds, ScanFails, Deinit, PowerLoss,
              IInv, InitAlone
<1>2. ASSUME NEW t \in Tasks, NEW o \in Operation, Call(t, o)
      PROVE  InitAlone'
  BY <1>2 DEF Call, InitAlone
<1>3. ASSUME NEW t \in Tasks, Step(t)
      PROVE  InitAlone'
  <2>1. pc[t] # "idle" /\ phase' = phase
    BY <1>3 DEF Step, Timeout, Lock, Refuse, ClearCommit, WriteHeader, WriteKey,
         WriteValue, WriteStep, WriteCommit, IoError, Appending
  <2>2. QED
    BY <2>1 DEF IInv, InitAlone
<1>4. CASE UNCHANGED vars
  BY <1>4 DEF vars, IInv, InitAlone
<1>5. QED
  <2>1. ASSUME NEW t \in Tasks, CallSet(t) \/ CallDelete(t)
        PROVE  \E o \in Operation : Call(t, o)
    BY <2>1 DEF CallSet, CallDelete, Operation
  <2>2. QED
    BY <1>1, <1>2, <1>3, <1>4, <2>1 DEF Next

LEMMA EveryStep ==
  ASSUME IInv, [Next]_vars
  PROVE  IInv'
<1>1. ASSUME KvsInit \/ ScanRecord \/ ScanEnds \/ ScanFails \/ Deinit
      PROVE  Guarded'
  BY <1>1, ScanStep
<1>2. ASSUME PowerLoss PROVE Guarded'
  BY <1>2, PowerStep DEF IInv
<1>3. ASSUME NEW t \in Tasks, CallSet(t) \/ CallDelete(t) \/ Step(t)
      PROVE  Guarded'
  <2>1. CASE CallSet(t) \/ CallDelete(t)
    <3>1. PICK o \in Operation : Call(t, o)
      BY <2>1 DEF CallSet, CallDelete, Operation
    <3>2. /\ pc[t] = "idle"
          /\ pc' = [pc EXCEPT ![t] = "lock"] /\ op' = [op EXCEPT ![t] = o]
          /\ UNCHANGED <<mem, phase, write_offset, next_seq, mutex>>
      BY <3>1 DEF Call, object
    <3>3. QED
      BY <3>1, <3>2, OutsideStep DEF IInv
  <2>2. CASE Timeout(t) \/ Refuse(t)
    BY <2>2, OutsideStep DEF Timeout, Refuse, object, IInv
  <2>3. CASE Lock(t)
    BY <2>3, LockStep DEF IInv
  <2>4. CASE ClearCommit(t) \/ WriteHeader(t) \/ WriteKey(t) \/ WriteValue(t)
    <3>1. PICK from \in Appending, to \in Appending : WriteStep(t, from, to)
      BY <2>4 DEF ClearCommit, WriteHeader, WriteKey, WriteValue, Appending
    <3>2. QED
      BY <3>1, WritesStep DEF IInv
  <2>5. CASE WriteCommit(t) \/ IoError(t)
    BY <2>5, ReturnStep DEF IInv
  <2>6. QED
    BY <1>3, <2>1, <2>2, <2>3, <2>4, <2>5 DEF Step
<1>4. ASSUME UNCHANGED vars PROVE Guarded'
  <2>1. \A u \in Tasks : Entry(u)' = Entry(u)
    BY <1>4 DEF vars, Entry
  <2>2. QED
    BY <1>4, <2>1 DEF vars, object, IInv, Guarded, TypeOK, MutexHeldOnlyInside,
                      RecordSize, Length
<1>5. Guarded'
  BY <1>1, <1>2, <1>3, <1>4 DEF Next
<1>6. QED
  BY <1>5, AloneStep DEF IInv

LEMMA IInvAlways == Spec => []IInv
<1>1. IInv /\ [Next]_vars => IInv'
  BY EveryStep
<1>2. QED
  BY <1>1, InitIInv, PTL DEF Spec

(* The end of the log stays in the partition and every record under way    *)
(* fits before its end, over any sequence of sets, deletes, failures and   *)
(* restarts: fram_kvs_set's test of the size is enough.                    *)
THEOREM TypeCorrect == Spec => []TypeOK
<1>1. IInv => TypeOK
  BY DEF IInv, Guarded
<1>2. QED
  BY <1>1, IInvAlways, PTL

(* Whatever path a set or a delete returns on, the mutex is given back, and *)
(* no two tasks are ever inside the writes of one.                          *)
THEOREM MutexDiscipline == Spec => []MutexHeldOnlyInside
<1>1. IInv => MutexHeldOnlyInside
  BY DEF IInv, Guarded
<1>2. QED
  BY <1>1, IInvAlways, PTL

-----------------------------------------------------------------------------
(* Induction, with a set for the predicate. *)

LEMMA LeastNumber ==
  ASSUME NEW T \in SUBSET Nat, T # {}
  PROVE  \E x \in T : \A y \in T : x <= y
<1>. DEFINE R == OpToRel(<, Nat)
<1>1. PICK x \in T : \A y \in T : ~(<<y, x>> \in R)
  <2>1. IsWellFoundedOn(R, Nat)
    BY NatLessThanWellFounded
  <2>. HIDE DEF R
  <2>2. QED
    BY <2>1, WFMin
<1>2. \A y \in T : <<y, x>> \in R <=> y < x
  BY DEF OpToRel
<1>. HIDE DEF R
<1>3. x \in Nat /\ \A y \in T : ~(y < x) /\ y \in Nat
  BY <1>1, <1>2
<1>4. QED
  BY <1>3

LEMMA SetInduction ==
  ASSUME NEW S, 0 \in S, \A n \in Nat : n \in S => n + 1 \in S
  PROVE  Nat \subseteq S
<1>. DEFINE T == Nat \ S
<1>1. SUFFICES ASSUME T # {} PROVE FALSE
  OBVIOUS
<1>2. PICK x \in T : \A y \in T : x <= y
  BY <1>1, LeastNumber
<1>3. x # 0 /\ x - 1 \in Nat /\ x = (x - 1) + 1
  BY <1>2
<1>4. x - 1 \in S
  BY <1>2, <1>3
<1>5. QED
  BY <1>2, <1>3, <1>4

-----------------------------------------------------------------------------
(* Where records end. End is a recursive function, so what it satisfies    *)
(* has to be proved: such a function exists up to every n, and two of them *)
(* agree.                                                                  *)

Sum(hs, n) ==
  CHOOSE end : end = [i \in 0..n |-> IF i = 0 THEN 0
                                     ELSE end[i - 1] + RecordSize(hs[i])]

LEMMA EndIsSum == \A hs, n : End(hs, n) = Sum(hs, n)[n]
BY DEF End, Sum

IsSum(f, hs, n) ==
  f = [i \in 0..n |-> IF i = 0 THEN 0 ELSE f[i - 1] + RecordSize(hs[i])]

LEMMA SumExists ==
  ASSUME NEW hs, NEW n \in Nat
  PROVE  IsSum(Sum(hs, n), hs, n)
<1>. DEFINE S == {k \in Nat : \E f : IsSum(f, hs, k)}
<1>1. 0 \in S
  <2>1. IsSum([i \in 0..0 |-> 0], hs, 0)
    BY DEF IsSum
  <2>2. QED
    BY <2>1
<1>2. ASSUME NEW k \in Nat, k \in S PROVE k + 1 \in S
  <2>1. PICK f : IsSum(f, hs, k)
    BY <1>2
  <2>. DEFINE g == [i \in 0..(k + 1) |-> IF i <= k THEN f[i]
                                         ELSE f[k] + RecordSize(hs[k + 1])]
  <2>2. ASSUME NEW i \in 0..(k + 1)
        PROVE  g[i] = IF i = 0 THEN 0 ELSE g[i - 1] + RecordSize(hs[i])
    <3>1. CASE i = 0
      BY <2>1, <3>1 DEF IsSum
    <3>2. CASE i # 0 /\ i <= k
      <4>1. i \in 0..k /\ i - 1 \in 0..(k + 1) /\ i - 1 <= k
        BY <3>2
      <4>2. f[i] = f[i - 1] + RecordSize(hs[i])
        BY <2>1, <3>2, <4>1 DEF IsSum
      <4>3. QED
        BY <3>2, <4>1, <4>2
    <3>3. CASE i = k + 1
      <4>1. g[k] = f[k] /\ g[k + 1] = f[k] + RecordSize(hs[k + 1])
        OBVIOUS
      <4>2. QED
        BY <3>3, <4>1
    <3>4. QED
      BY <3>1, <3>2, <3>3
  <2>3. IsSum(g, hs, k + 1)
    BY <2>2 DEF IsSum
  <2>4. QED
    BY <2>3
<1>. HIDE DEF S
<1>3. n \in S
  BY <1>1, <1>2, SetInduction
<1>4. QED
  BY <1>3 DEF S, Sum, IsSum

LEMMA SumsAgree ==
  ASSUME NEW hs, NEW gs, NEW n \in Nat, NEW k \in Nat, k <= n,
         \A i \in 1..k : hs[i] = gs[i]
  PROVE  Sum(hs, n)[k] = Sum(gs, k)[k]
<1>. DEFINE S == {i \in Nat : i <= k => Sum(hs, n)[i] = Sum(gs, k)[i]}
<1>1. PICK f : f = Sum(hs, n)
  OBVIOUS
<1>2. PICK g : g = Sum(gs, k)
  OBVIOUS
<1>3. /\ \A i \in 0..n : f[i] = IF i = 0 THEN 0
                                ELSE f[i - 1] + RecordSize(hs[i])
      /\ \A i \in 0..k : g[i] = IF i = 0 THEN 0
                                ELSE g[i - 1] + RecordSize(gs[i])
  BY <1>1, <1>2, SumExists DEF IsSum
<1>4. 0 \in S
  BY <1>1, <1>2, <1>3
<1>5. ASSUME NEW i \in Nat, i \in S PROVE i + 1 \in S
  <2>1. SUFFICES ASSUME i + 1 <= k PROVE f[i + 1] = g[i + 1]
    BY <1>1, <1>2
  <2>2. i + 1 \in 0..n /\ i + 1 \in 0..k /\ i + 1 \in 1..k /\ (i + 1) - 1 = i
    BY <2>1
  <2>3. f[i] = g[i] /\ hs[i + 1] = gs[i + 1]
    BY <1>1, <1>2, <1>5, <2>1, <2>2
  <2>4. /\ f[i + 1] = f[i] + RecordSize(hs[i + 1])
        /\ g[i + 1] = g[i] + RecordSize(gs[i + 1])
    BY <1>3, <2>2
  <2>5. QED
    BY <2>3, <2>4
<1>. HIDE DEF S
<1>6. k \in S
  BY <1>4, <1>5, SetInduction
<1>7. QED
  BY <1>6 DEF S

LEMMA EndIs ==
  ASSUME NEW hs
  PROVE  /\ End(hs, 0) = 0
         /\ \A n \in Nat : End(hs, n + 1) = End(hs, n) + RecordSize(hs[n + 1])
<1>1. End(hs, 0) = 0
  BY EndIsSum, SumExists DEF IsSum
<1>2. ASSUME NEW n \in Nat
      PROVE  End(hs, n + 1) = End(hs, n) + RecordSize(hs[n + 1])
  <2>1. PICK f : f = Sum(hs, n + 1)
    OBVIOUS
  <2>2. n + 1 \in Nat /\ n + 1 \in 0..(n + 1) /\ n + 1 # 0 /\ (n + 1) - 1 = n
    OBVIOUS
  <2>3. f[n + 1] = f[n] + RecordSize(hs[n + 1])
    BY <2>1, <2>2, SumExists DEF IsSum
  <2>4. f[n] = Sum(hs, n)[n]
    BY <2>1, <2>2, SumsAgree
  <2>5. QED
    BY <2>1, <2>3, <2>4, EndIsSum
<1>3. QED
  BY <1>1, <1>2

(* End looks at the first n records only. *)
LEMMA EndOfPrefix ==
  ASSUME NEW hs, NEW gs, NEW n \in Nat, \A i \in 1..n : hs[i] = gs[i]
  PROVE  End(hs, n) = End(gs, n)
BY EndIsSum, SumsAgree

(* Records follow each other without overlap. *)
LEMMA EndType ==
  ASSUME NEW hs \in Seq(Header), NEW n \in 0..Len(hs)
  PROVE  End(hs, n) \in Nat
<1>. DEFINE S == {i \in Nat : i <= Len(hs) => End(hs, i) \in Nat}
<1>1. 0 \in S
  BY EndIs
<1>2. ASSUME NEW i \in Nat, i \in S PROVE i + 1 \in S
  <2>1. SUFFICES ASSUME i + 1 <= Len(hs) PROVE End(hs, i + 1) \in Nat
    OBVIOUS
  <2>2. i + 1 \in 1..Len(hs)
    BY <2>1
  <2>3. hs[i + 1] \in Header /\ End(hs, i) \in Nat
    BY <1>2, <2>1, <2>2
  <2>4. RecordSize(hs[i + 1]) \in Nat
    BY <2>3, LengthType
  <2>5. End(hs, i + 1) = End(hs, i) + RecordSize(hs[i + 1])
    BY EndIs
  <2>6. QED
    BY <2>3, <2>4, <2>5
<1>. HIDE DEF S
<1>3. n \in S
  BY <1>1, <1>2, SetInduction
<1>4. QED
  BY <1>3 DEF S

LEMMA EndGrows ==
  ASSUME NEW hs \in Seq(Header), NEW n \in Nat, NEW m \in Nat,
         n < m, m <= Len(hs)
  PROVE  End(hs, n + 1) <= End(hs, m) /\ End(hs, n) + 3 <= End(hs, m)
<1>. DEFINE S == {i \in Nat : n + 1 + i <= Len(hs) =>
                    End(hs, n + 1) <= End(hs, n + 1 + i)}
<1>1. \A i \in Nat : i <= Len(hs) => End(hs, i) \in Nat
  BY EndType
<1>2. \A i \in Nat : i + 1 <= Len(hs) =>
        /\ End(hs, i + 1) = End(hs, i) + RecordSize(hs[i + 1])
        /\ RecordSize(hs[i + 1]) \in Nat /\ RecordSize(hs[i + 1]) >= 3
  <2>1. SUFFICES ASSUME NEW i \in Nat, i + 1 <= Len(hs)
                 PROVE  /\ End(hs, i + 1) = End(hs, i) + RecordSize(hs[i + 1])
                        /\ RecordSize(hs[i + 1]) \in Nat
                        /\ RecordSize(hs[i + 1]) >= 3
    OBVIOUS
  <2>2. End(hs, i + 1) = End(hs, i) + RecordSize(hs[i + 1])
    BY EndIs
  <2>3. hs[i + 1] \in Header
    BY <2>1
  <2>4. QED
    BY <2>2, <2>3, LengthType
<1>3. 0 \in S
  BY <1>1
<1>4. ASSUME NEW i \in Nat, i \in S PROVE i + 1 \in S
  <2>1. SUFFICES ASSUME n + 1 + (i + 1) <= Len(hs)
                 PROVE  End(hs, n + 1) <= End(hs, n + 1 + (i + 1))
    OBVIOUS
  <2>2. PICK j \in Nat : j = n + 1 + i
    OBVIOUS
  <2>3. j + 1 <= Len(hs) /\ n + 1 + (i + 1) = j + 1 /\ n + 1 <= Len(hs)
    BY <2>1, <2>2
  <2>4. End(hs, n + 1) <= End(hs, j)
    BY <1>4, <2>2, <2>3
  <2>5. End(hs, j + 1) = End(hs, j) + RecordSize(hs[j + 1])
        /\ RecordSize(hs[j + 1]) \in Nat
    BY <1>2, <2>3
  <2>6. End(hs, n + 1) \in Nat /\ End(hs, j) \in Nat
    BY <1>1, <2>3
  <2>7. QED
    BY <2>3, <2>4, <2>5, <2>6
<1>. HIDE DEF S
<1>5. m - (n + 1) \in Nat /\ n + 1 + (m - (n + 1)) = m
  OBVIOUS
<1>6. m - (n + 1) \in S
  BY <1>3, <1>4, <1>5, SetInduction
<1>7. End(hs, n + 1) <= End(hs, m)
  BY <1>5, <1>6 DEF S
<1>8. n + 1 <= Len(hs) /\ n <= Len(hs)
  OBVIOUS
<1>9. /\ End(hs, n + 1) = End(hs, n) + RecordSize(hs[n + 1])
      /\ RecordSize(hs[n + 1]) \in Nat /\ RecordSize(hs[n + 1]) >= 3
  BY <1>2, <1>8
<1>10. End(hs, n) \in Nat /\ End(hs, m) \in Nat
  BY <1>1, <1>8
<1>11. QED
  BY <1>7, <1>9, <1>10

LEMMA EndAtLeast ==
  ASSUME NEW hs \in Seq(Header), NEW n \in 0..Len(hs)
  PROVE  End(hs, n) >= n
<1>. DEFINE S == {i \in Nat : i <= Len(hs) => End(hs, i) >= i}
<1>1. 0 \in S
  BY EndIs
<1>2. ASSUME NEW i \in Nat, i \in S PROVE i + 1 \in S
  <2>1. SUFFICES ASSUME i + 1 <= Len(hs) PROVE End(hs, i + 1) >= i + 1
    OBVIOUS
  <2>2. hs[i + 1] \in Header /\ End(hs, i) >= i /\ i \in 0..Len(hs)
    BY <1>2, <2>1
  <2>3. /\ RecordSize(hs[i + 1]) \in Nat /\ RecordSize(hs[i + 1]) >= 3
        /\ End(hs, i) \in Nat
    BY <2>2, LengthType, EndType
  <2>4. End(hs, i + 1) = End(hs, i) + RecordSize(hs[i + 1])
    BY EndIs
  <2>5. QED
    BY <2>2, <2>3, <2>4
<1>. HIDE DEF S
<1>3. n \in S
  BY <1>1, <1>2, SetInduction
<1>4. QED
  BY <1>3 DEF S

-----------------------------------------------------------------------------
(* What a scan passes over: the records that stand one after the other     *)
(* from offset 0, up to the first place where none does.                   *)

Standing(m, hs) ==
  \A n \in 1..Len(hs) :
    GoodAt(m, End(hs, n - 1)) /\ m[End(hs, n - 1)].of = hs[n]

LEMMA GoodIs ==
  ASSUME NEW m \in [Offsets -> Cell], NEW o \in Nat, GoodAt(m, o)
  PROVE  /\ o \in Offsets
         /\ m[o].of \in Header
         /\ RecordSize(m[o].of) \in Nat /\ RecordSize(m[o].of) >= 3
         /\ o + RecordSize(m[o].of) <= Size
<1>1. o \in Offsets /\ m[o].kind = "header"
  BY ConstantsAssumption DEF GoodAt, Offsets
<1>2. m[o] \in Cell
  BY <1>1
<1>3. m[o].of \in Header
  BY <1>1, <1>2 DEF Cell, ERASED, CLEAR, COMMIT, Garbage
<1>4. QED
  BY <1>1, <1>3, LengthType DEF GoodAt

FromBody(f, m, o) ==
  IF GoodAt(m, o) THEN <<m[o].of>> \o f[o + RecordSize(m[o].of)] ELSE <<>>

From(m) ==
  CHOOSE from : from = [o \in 0..Size |->
    IF GoodAt(m, o) THEN <<m[o].of>> \o from[o + RecordSize(m[o].of)]
    ELSE <<>>]

LEMMA ScanIsFrom == \A m : Scan(m) = From(m)[0]
BY DEF Scan, From

(* The function exists: it is built from the end of the partition down. *)
LEMMA FromIs ==
  ASSUME NEW m \in [Offsets -> Cell]
  PROVE  \A o \in 0..Size : From(m)[o] = FromBody(From(m), m, o)
<1>. DEFINE S == {k \in Nat : k <= Size =>
                    \E f : \A o \in (Size - k)..Size : f[o] = FromBody(f, m, o)}
<1>0. Size \in Nat
  BY ConstantsAssumption
<1>1. 0 \in S
  <2>1. ~GoodAt(m, Size)
    BY <1>0 DEF GoodAt
  <2>2. \A o \in (Size - 0)..Size :
          [x \in 0..Size |-> <<>>][o] = FromBody([x \in 0..Size |-> <<>>], m, o)
    BY <1>0, <2>1 DEF FromBody
  <2>3. QED
    BY <2>2
<1>2. ASSUME NEW k \in Nat, k \in S PROVE k + 1 \in S
  <2>1. SUFFICES ASSUME k + 1 <= Size
                 PROVE  \E f : \A o \in (Size - (k + 1))..Size :
                          f[o] = FromBody(f, m, o)
    OBVIOUS
  <2>2. PICK f : \A o \in (Size - k)..Size : f[o] = FromBody(f, m, o)
    BY <1>0, <1>2, <2>1
  <2>3. PICK p \in 0..Size : p = Size - (k + 1)
    BY <1>0, <2>1
  <2>. DEFINE g == [o \in 0..Size |-> IF o = p THEN FromBody(f, m, o) ELSE f[o]]
  <2>4. ASSUME NEW o \in p..Size PROVE g[o] = FromBody(g, m, o)
    <3>1. o \in 0..Size /\ o \in Nat
      BY <1>0
    <3>2. FromBody(g, m, o) = FromBody(f, m, o)
      <4>1. CASE GoodAt(m, o)
        <5>1. /\ RecordSize(m[o].of) \in Nat /\ RecordSize(m[o].of) >= 3
              /\ o + RecordSize(m[o].of) <= Size
          BY <3>1, <4>1, GoodIs
        <5>2. o + RecordSize(m[o].of) \in 0..Size /\ o + RecordSize(m[o].of) # p
          BY <1>0, <3>1, <5>1
        <5>3. g[o + RecordSize(m[o].of)] = f[o + RecordSize(m[o].of)]
          BY <5>2
        <5>4. QED
          BY <5>3 DEF FromBody
      <4>2. CASE ~GoodAt(m, o)
        BY <4>2 DEF FromBody
      <4>3. QED
        BY <4>1, <4>2
    <3>3. o # p => o \in (Size - k)..Size
      BY <1>0, <2>3, <3>1
    <3>4. QED
      BY <2>2, <3>1, <3>2, <3>3
  <2>. HIDE DEF g
  <2>5. QED
    BY <2>3, <2>4
<1>. HIDE DEF S
<1>3. Size \in S
  BY <1>0, <1>1, <1>2, SetInduction
<1>4. PICK f : \A o \in 0..Size : f[o] = FromBody(f, m, o)
  BY <1>0, <1>3 DEF S
<1>5. PICK g : g = [o \in 0..Size |-> f[o]]
  OBVIOUS
<1>6. ASSUME NEW o \in 0..Size PROVE f[o] = FromBody(g, m, o)
  <2>1. CASE GoodAt(m, o)
    <3>1. o + RecordSize(m[o].of) \in 0..Size
      BY <1>0, <2>1, GoodIs
    <3>2. QED
      BY <1>4, <1>5, <3>1 DEF FromBody
  <2>2. CASE ~GoodAt(m, o)
    BY <1>4, <2>2 DEF FromBody
  <2>3. QED
    BY <2>1, <2>2
<1>7. g = [o \in 0..Size |-> FromBody(g, m, o)]
  BY <1>5, <1>6
<1>8. From(m) = [o \in 0..Size |-> FromBody(From(m), m, o)]
  BY <1>7 DEF From, FromBody
<1>9. QED
  BY <1>8

LEMMA StandingFits ==
  ASSUME NEW m \in [Offsets -> Cell], NEW hs \in Seq(Header), Standing(m, hs),
         NEW n \in 0..Len(hs)
  PROVE  End(hs, n) \in 0..Size
<1>1. End(hs, n) \in Nat /\ Size \in Nat
  BY EndType, ConstantsAssumption
<1>2. CASE n = 0
  BY <1>1, <1>2, EndIs
<1>3. CASE n # 0
  <2>1. PICK k \in Nat : n = k + 1
    <3>1. n - 1 \in Nat /\ n = (n - 1) + 1
      BY <1>3
    <3>2. QED
      BY <3>1
  <2>2. k + 1 \in 1..Len(hs) /\ (k + 1) - 1 = k /\ k \in 0..Len(hs)
    BY <2>1
  <2>3. GoodAt(m, End(hs, k)) /\ m[End(hs, k)].of = hs[k + 1]
    BY <2>2 DEF Standing
  <2>4. End(hs, k) + RecordSize(hs[k + 1]) <= Size
    BY <2>2, <2>3, EndType, GoodIs
  <2>5. QED
    BY <1>1, <2>1, <2>4, EndIs
<1>4. QED
  BY <1>2, <1>3

(* The scan passes over hs if hs stands there and nothing good follows. *)
LEMMA ScanIs ==
  ASSUME NEW m \in [Offsets -> Cell], NEW hs \in Seq(Header), Standing(m, hs),
         ~GoodAt(m, End(hs, Len(hs)))
  PROVE  Scan(m) = hs
<1>. DEFINE L == Len(hs)
            f == From(m)
            S == {k \in Nat : k <= L =>
                    f[End(hs, L - k)] = SubSeq(hs, L - k + 1, L)}
<1>0. L \in Nat
  OBVIOUS
<1>1. 0 \in S
  <2>1. SubSeq(hs, L + 1, L) = <<>>
    BY SubSeqEmpty
  <2>2. f[End(hs, L)] = <<>>
    <3>1. L \in 0..L
      BY <1>0
    <3>2. PICK o \in 0..Size : o = End(hs, L)
      BY <3>1, StandingFits
    <3>3. f[o] = FromBody(f, m, o)
      BY FromIs
    <3>4. QED
      BY <3>2, <3>3 DEF FromBody
  <2>3. L - 0 = L
    OBVIOUS
  <2>4. QED
    BY <2>1, <2>2, <2>3
<1>2. ASSUME NEW k \in Nat, k \in S PROVE k + 1 \in S
  <2>1. SUFFICES ASSUME k + 1 <= L
                 PROVE  f[End(hs, L - (k + 1))] = SubSeq(hs, L - (k + 1) + 1, L)
    OBVIOUS
  <2>2. PICK n \in Nat : n = L - (k + 1)
    BY <2>1
  <2>3. /\ L - k = n + 1 /\ n + 1 \in 1..L /\ (n + 1) - 1 = n /\ n \in 0..L
        /\ n + 1 \in Nat
    BY <2>1, <2>2
  <2>4. f[End(hs, n + 1)] = SubSeq(hs, n + 1 + 1, L)
    <3>1. k <= L /\ L - k + 1 = n + 1 + 1
      BY <2>1, <2>3
    <3>2. f[End(hs, L - k)] = SubSeq(hs, L - k + 1, L)
      BY <1>2, <3>1
    <3>3. End(hs, L - k) = End(hs, n + 1)
      BY <2>3
    <3>4. QED
      BY <3>1, <3>2, <3>3
  <2>5. GoodAt(m, End(hs, n)) /\ m[End(hs, n)].of = hs[n + 1]
    BY <2>3 DEF Standing
  <2>6. End(hs, n) + RecordSize(hs[n + 1]) = End(hs, n + 1)
    BY EndIs
  <2>7. End(hs, n) \in 0..Size
    BY <2>3, StandingFits
  <2>8. f[End(hs, n)] = <<hs[n + 1]>> \o f[End(hs, n + 1)]
    BY <2>5, <2>6, <2>7, FromIs DEF FromBody
  <2>9. SubSeq(hs, n + 1, L) = <<hs[n + 1]>> \o SubSeq(hs, n + 1 + 1, L)
    BY <2>3, SubSeqRecursiveFirst
  <2>10. QED
    BY <2>2, <2>4, <2>8, <2>9
<1>. HIDE DEF S, L
<1>3. L \in S
  BY <1>0, <1>1, <1>2, SetInduction
<1>4. f[End(hs, 0)] = SubSeq(hs, 1, L)
  <2>1. L - L = 0 /\ L - L + 1 = 1
    BY <1>0
  <2>2. QED
    BY <1>0, <1>3, <2>1 DEF S
<1>5. SubSeq(hs, 1, L) = hs
  BY SubSeqFull DEF L
<1>6. QED
  BY <1>4, <1>5, EndIs, ScanIsFrom

(* And every scan is of this form. *)
LEMMA ScanStands ==
  ASSUME NEW m \in [Offsets -> Cell]
  PROVE  /\ Scan(m) \in Seq(Header)
         /\ Standing(m, Scan(m))
         /\ ~GoodAt(m, End(Scan(m), Len(Scan(m))))
<1>1. SUFFICES ASSUME \A hs \in Seq(Header) :
                        Standing(m, hs) => GoodAt(m, End(hs, Len(hs)))
               PROVE  FALSE
  BY ScanIs
<1>. DEFINE S == {n \in Nat : \E hs \in Seq(Header) :
                    Len(hs) = n /\ Standing(m, hs)}
<1>2. 0 \in S
  <2>1. <<>> \in Seq(Header) /\ Len(<<>>) = 0 /\ Standing(m, <<>>)
    BY DEF Standing
  <2>2. QED
    BY <2>1
<1>3. ASSUME NEW n \in Nat, n \in S PROVE n + 1 \in S
  <2>1. PICK hs \in Seq(Header) : Len(hs) = n /\ Standing(m, hs)
    BY <1>3
  <2>2. GoodAt(m, End(hs, n)) /\ End(hs, n) \in Nat
    BY <1>1, <2>1, EndType
  <2>3. PICK h \in Header : h = m[End(hs, n)].of
    BY <2>2, GoodIs
  <2>4. PICK gs \in Seq(Header) : gs = Append(hs, h)
    <3>1. Append(hs, h) \in Seq(Header)
      BY <2>3
    <3>2. QED
      BY <3>1
  <2>5. /\ Len(gs) = n + 1 /\ gs[n + 1] = h
        /\ \A i \in 1..n : gs[i] = hs[i]
    BY <2>1, <2>4
  <2>6. \A i \in 0..n : End(gs, i) = End(hs, i)
    BY <2>5, EndOfPrefix
  <2>7. ASSUME NEW i \in 1..(n + 1)
        PROVE  GoodAt(m, End(gs, i - 1)) /\ m[End(gs, i - 1)].of = gs[i]
    <3>1. CASE i = n + 1
      BY <2>2, <2>3, <2>5, <2>6, <3>1
    <3>2. CASE i # n + 1
      <4>1. i \in 1..n /\ i - 1 \in 0..n
        BY <3>2
      <4>2. QED
        BY <2>1, <2>5, <2>6, <4>1 DEF Standing
    <3>3. QED
      BY <3>1, <3>2
  <2>8. Standing(m, gs)
    BY <2>5, <2>7 DEF Standing
  <2>9. QED
    BY <2>5, <2>8
<1>. HIDE DEF S
<1>4. Size + 1 \in S /\ Size \in Nat
  BY <1>2, <1>3, SetInduction, ConstantsAssumption
<1>5. PICK hs \in Seq(Header) : Len(hs) = Size + 1 /\ Standing(m, hs)
  BY <1>4 DEF S
<1>6. End(hs, Size + 1) >= Size + 1
  BY <1>4, <1>5, EndAtLeast
<1>7. End(hs, Size + 1) \in 0..Size
  BY <1>4, <1>5, StandingFits
<1>8. QED
  BY <1>4, <1>6, <1>7

-----------------------------------------------------------------------------
(* What the partition holds when the records of hs count. *)

EndOf(hs) == End(hs, Len(hs))

Holds(m, hs) ==
  /\ \A n \in 1..Len(hs) : hs[n].seq = n - 1
  /\ Standing(m, hs)
  /\ \A c \in Offsets : c > EndOf(hs) => m[c].kind # "header"
  /\ EndOf(hs) \in Offsets /\ m[EndOf(hs)].kind = "header" =>
       m[EndOf(hs)].of.seq = Len(hs)

LEMMA RecordCellIs ==
  ASSUME NEW h \in Header
  PROVE  /\ RecordCell(h, 0) = HeaderCell(h)
         /\ RecordCell(h, 1) = KeyCell(h.op.key)
         /\ RecordCell(h, Length(h) + 2) = COMMIT
         /\ \A i \in 1..(Length(h) + 2) :
              RecordCell(h, i).kind \notin {"header", "clear", "garbage"}
<1>1. PICK s \in Nat : s = Length(h)
  BY LengthType
<1>2. s + 2 # 0 /\ s + 2 # 1
  OBVIOUS
<1>3. /\ RecordCell(h, 0) = HeaderCell(h)
      /\ RecordCell(h, 1) = KeyCell(h.op.key)
      /\ RecordCell(h, s + 2) = COMMIT
  BY <1>1, <1>2 DEF RecordCell
<1>4. ASSUME NEW i \in 1..(s + 2), i # 1, i # s + 2
      PROVE  RecordCell(h, i) = DataCell(h.op.value.data)
  BY <1>1, <1>2, <1>4 DEF RecordCell
<1>5. QED
  BY <1>1, <1>3, <1>4 DEF KeyCell, COMMIT, DataCell

LEMMA EndOfFits ==
  ASSUME NEW m \in [Offsets -> Cell], NEW hs \in Seq(Header), Standing(m, hs)
  PROVE  EndOf(hs) \in 0..Size
BY StandingFits DEF EndOf

(* A record more. *)
LEMMA EndOfAppend ==
  ASSUME NEW hs \in Seq(Header), NEW h \in Header
  PROVE  /\ EndOf(Append(hs, h)) = EndOf(hs) + RecordSize(h)
         /\ \A n \in 0..Len(hs) : End(Append(hs, h), n) = End(hs, n)
<1>1. PICK gs \in Seq(Header) : gs = Append(hs, h)
  <2>1. Append(hs, h) \in Seq(Header)
    OBVIOUS
  <2>2. QED
    BY <2>1
<1>2. PICK L \in Nat : L = Len(hs)
  OBVIOUS
<1>3. Len(gs) = L + 1 /\ gs[L + 1] = h /\ \A i \in 1..L : gs[i] = hs[i]
  BY <1>1, <1>2
<1>4. \A n \in 0..L : End(gs, n) = End(hs, n)
  BY <1>3, EndOfPrefix
<1>5. End(gs, L + 1) = End(gs, L) + RecordSize(gs[L + 1])
  BY EndIs
<1>6. End(gs, L) = End(hs, L)
  BY <1>4
<1>7. QED
  BY <1>1, <1>2, <1>3, <1>4, <1>5, <1>6 DEF EndOf

LEMMA StandingAppend ==
  ASSUME NEW m \in [Offsets -> Cell], NEW hs \in Seq(Header), Standing(m, hs),
         NEW h \in Header, GoodAt(m, EndOf(hs)), m[EndOf(hs)].of = h
  PROVE  Standing(m, Append(hs, h))
<1>1. PICK gs \in Seq(Header) : gs = Append(hs, h)
  <2>1. Append(hs, h) \in Seq(Header)
    OBVIOUS
  <2>2. QED
    BY <2>1
<1>2. PICK L \in Nat : L = Len(hs)
  OBVIOUS
<1>3. Len(gs) = L + 1 /\ gs[L + 1] = h /\ \A i \in 1..L : gs[i] = hs[i]
  BY <1>1, <1>2
<1>4. \A i \in 0..L : End(gs, i) = End(hs, i)
  BY <1>1, <1>2, EndOfAppend
<1>5. ASSUME NEW i \in 1..(L + 1)
      PROVE  GoodAt(m, End(gs, i - 1)) /\ m[End(gs, i - 1)].of = gs[i]
  <2>1. CASE i = L + 1
    <3>1. i - 1 = L /\ L \in 0..L
      BY <2>1
    <3>2. End(gs, i - 1) = EndOf(hs)
      BY <1>2, <1>4, <3>1 DEF EndOf
    <3>3. gs[i] = h
      BY <1>3, <2>1
    <3>4. QED
      BY <3>2, <3>3
  <2>2. CASE i # L + 1
    <3>1. i \in 1..L /\ i - 1 \in 0..L
      BY <2>2
    <3>2. QED
      BY <1>2, <1>3, <1>4, <3>1 DEF Standing
  <2>3. QED
    BY <2>1, <2>2
<1>6. QED
  BY <1>1, <1>3, <1>5 DEF Standing

(* Records stand on the cells before their end alone. *)
LEMMA StandingBelow ==
  ASSUME NEW m \in [Offsets -> Cell], NEW hs \in Seq(Header), Standing(m, hs),
         NEW w \in [Offsets -> Cell],
         \A c \in Offsets : c < EndOf(hs) => w[c] = m[c]
  PROVE  Standing(w, hs)
<1>1. SUFFICES ASSUME NEW n \in 1..Len(hs)
               PROVE  /\ GoodAt(w, End(hs, n - 1))
                      /\ w[End(hs, n - 1)].of = hs[n]
  BY DEF Standing
<1>2. PICK k \in Nat : n = k + 1
  <2>1. n - 1 \in Nat /\ n = (n - 1) + 1
    OBVIOUS
  <2>2. QED
    BY <2>1
<1>3. n - 1 = k /\ k \in 0..Len(hs) /\ k < Len(hs) /\ Len(hs) \in 0..Len(hs)
  BY <1>2
<1>4. PICK o \in Nat : o = End(hs, k)
  BY <1>3, EndType
<1>5. GoodAt(m, o) /\ m[o].of = hs[n]
  BY <1>3, <1>4 DEF Standing
<1>6. /\ o \in Offsets /\ hs[n] \in Header
      /\ RecordSize(hs[n]) \in Nat /\ RecordSize(hs[n]) >= 3
      /\ o + RecordSize(hs[n]) <= Size
  BY <1>5, GoodIs
<1>7. o + RecordSize(hs[n]) <= EndOf(hs) /\ EndOf(hs) \in Nat
  <2>1. End(hs, k + 1) <= EndOf(hs)
    <3>1. Len(hs) \in Nat
      OBVIOUS
    <3>2. QED
      BY <1>3, <3>1, EndGrows DEF EndOf
  <2>2. End(hs, k + 1) = o + RecordSize(hs[k + 1])
    BY <1>4, EndIs
  <2>3. EndOf(hs) \in Nat
    BY <1>3, EndType DEF EndOf
  <2>4. QED
    BY <1>2, <2>1, <2>2, <2>3
<1>8. w[o] = m[o]
  BY <1>4, <1>6, <1>7
<1>9. /\ Length(hs[n]) \in Nat /\ RecordSize(hs[n]) = Length(hs[n]) + 3
  BY <1>6, LengthType DEF RecordSize
<1>10. ASSUME NEW i \in 1..(Length(hs[n]) + 2)
       PROVE  w[o + i] = m[o + i]
  <2>1. o + i \in Offsets /\ o + i < EndOf(hs)
    <3>1. PICK s \in Nat : s = Length(hs[n])
      BY <1>9
    <3>2. i \in Nat /\ i >= 1 /\ i <= s + 2
      BY <3>1
    <3>3. o + (s + 3) <= Size /\ o + (s + 3) <= EndOf(hs)
      BY <1>6, <1>7, <1>9, <3>1
    <3>4. Size \in Nat /\ EndOf(hs) \in Nat
      BY <1>7, ConstantsAssumption
    <3>5. QED
      BY <3>2, <3>3, <3>4 DEF Offsets
  <2>2. QED
    BY <2>1
<1>11. GoodAt(w, o)
  <2>1. /\ o + 2 <= Size /\ m[o].kind = "header"
        /\ \A i \in 1..(Length(hs[n]) + 2) : m[o + i] = RecordCell(hs[n], i)
    <3>1. PICK h : h = m[o].of
      OBVIOUS
    <3>2. /\ o + 2 <= Size /\ m[o].kind = "header"
          /\ \A i \in 1..(Length(h) + 2) : m[o + i] = RecordCell(h, i)
      BY <1>5, <3>1 DEF GoodAt
    <3>3. h = hs[n]
      BY <1>5, <3>1
    <3>4. QED
      BY <3>2, <3>3
  <2>2. w[o].kind = "header" /\ w[o].of = hs[n]
    BY <1>5, <1>8, <2>1
  <2>3. \A i \in 1..(Length(hs[n]) + 2) : w[o + i] = RecordCell(hs[n], i)
    BY <1>10, <2>1
  <2>4. QED
    BY <1>6, <2>1, <2>2, <2>3 DEF GoodAt
<1>12. QED
  BY <1>3, <1>4, <1>5, <1>8, <1>11

(* A scan finds the records that count, and at most one more. *)
LEMMA ScanOf ==
  ASSUME NEW m \in [Offsets -> Cell], NEW hs \in Seq(Header), Holds(m, hs)
  PROVE  /\ ~GoodAt(m, EndOf(hs)) => Scan(m) = hs
         /\ GoodAt(m, EndOf(hs)) =>
              /\ m[EndOf(hs)] = HeaderCell(m[EndOf(hs)].of)
              /\ m[EndOf(hs)].of \in Header
              /\ m[EndOf(hs)].of.seq = Len(hs)
              /\ Scan(m) = Append(hs, m[EndOf(hs)].of)
<1>1. CASE ~GoodAt(m, EndOf(hs))
  BY <1>1, ScanIs DEF EndOf, Holds
<1>2. CASE GoodAt(m, EndOf(hs))
  <2>1. PICK e \in 0..Size : e = EndOf(hs)
    BY EndOfFits DEF Holds
  <2>2. PICK h : h = m[e].of
    OBVIOUS
  <2>3. /\ h \in Header /\ RecordSize(h) \in Nat /\ RecordSize(h) >= 3
        /\ e + RecordSize(h) <= Size /\ e \in Offsets /\ e \in Nat
    BY <1>2, <2>1, <2>2, GoodIs
  <2>4. m[e].kind = "header"
    BY <1>2, <2>1 DEF GoodAt
  <2>5. m[e] = HeaderCell(h)
    <3>1. m[e] \in Cell
      BY <2>3
    <3>2. m[e] \in [kind : {"header"}, of : Header]
      BY <2>4, <3>1 DEF Cell, ERASED, CLEAR, COMMIT, Garbage
    <3>3. QED
      BY <2>2, <3>2 DEF HeaderCell
  <2>6. h.seq = Len(hs)
    BY <2>1, <2>2, <2>3, <2>4 DEF Holds
  <2>7. PICK gs \in Seq(Header) : gs = Append(hs, h)
    <3>1. Append(hs, h) \in Seq(Header)
      BY <2>3
    <3>2. QED
      BY <3>1
  <2>8. Standing(m, gs)
    BY <1>2, <2>1, <2>2, <2>3, <2>7, StandingAppend DEF Holds
  <2>9. EndOf(gs) = e + RecordSize(h)
    BY <2>1, <2>3, <2>7, EndOfAppend
  <2>10. ~GoodAt(m, EndOf(gs))
    <3>1. SUFFICES ASSUME GoodAt(m, EndOf(gs)) PROVE FALSE
      OBVIOUS
    <3>2. EndOf(gs) \in Nat /\ EndOf(gs) > e
      BY <2>3, <2>9
    <3>3. EndOf(gs) \in Offsets /\ m[EndOf(gs)].kind = "header"
      BY <3>1, <3>2, GoodIs DEF GoodAt
    <3>4. QED
      BY <2>1, <3>2, <3>3 DEF Holds
  <2>11. Scan(m) = gs
    BY <2>8, <2>10, ScanIs DEF EndOf
  <2>12. QED
    BY <1>2, <2>1, <2>2, <2>3, <2>5, <2>6, <2>7, <2>11
<1>3. QED
  BY <1>1, <1>2

(* A write past the end, with no header past it but one of the next record *)
(* at it, takes nothing away.                                              *)
LEMMA HoldsBelow ==
  ASSUME NEW m \in [Offsets -> Cell], NEW hs \in Seq(Header), Holds(m, hs),
         NEW w \in [Offsets -> Cell],
         \A c \in Offsets :
           /\ c < EndOf(hs) => w[c] = m[c]
           /\ c > EndOf(hs) => w[c] = m[c] \/ w[c].kind # "header"
           /\ c = EndOf(hs) => \/ w[c] = m[c]
                               \/ w[c].kind # "header"
                               \/ w[c].of.seq = Len(hs)
  PROVE  Holds(w, hs)
<1>1. Standing(w, hs)
  BY StandingBelow DEF Holds
<1>2. QED
  BY <1>1 DEF Holds

(* The next record, whole, counts. *)
LEMMA HoldsAppend ==
  ASSUME NEW m \in [Offsets -> Cell], NEW hs \in Seq(Header), Holds(m, hs),
         NEW w \in [Offsets -> Cell],
         NEW h \in Header, h.seq = Len(hs), EndOf(hs) + RecordSize(h) <= Size,
         \A c \in Offsets :
           /\ c < EndOf(hs) => w[c] = m[c]
           /\ c > EndOf(hs) => w[c].kind # "header",
         \A i \in 0..(Length(h) + 2) : w[EndOf(hs) + i] = RecordCell(h, i)
  PROVE  Holds(w, Append(hs, h))
<1>1. PICK e \in 0..Size : e = EndOf(hs)
  BY EndOfFits DEF Holds
<1>2. /\ Length(h) \in Nat /\ RecordSize(h) = Length(h) + 3
      /\ e + 2 <= Size /\ e \in Offsets
  BY <1>1, LengthType, ConstantsAssumption DEF RecordSize, Offsets
<1>3. w[e] = HeaderCell(h)
  <2>1. w[e + 0] = RecordCell(h, 0)
    BY <1>1, <1>2
  <2>2. e + 0 = e
    BY <1>1
  <2>3. QED
    BY <2>1, <2>2, RecordCellIs
<1>4. w[e].kind = "header" /\ w[e].of = h
  BY <1>3 DEF HeaderCell
<1>5. GoodAt(w, e)
  <2>1. \A i \in 1..(Length(h) + 2) : w[e + i] = RecordCell(h, i)
    BY <1>1, <1>2
  <2>2. QED
    BY <1>1, <1>2, <1>4, <2>1 DEF GoodAt
<1>6. Standing(w, hs)
  BY StandingBelow DEF Holds
<1>7. PICK gs \in Seq(Header) : gs = Append(hs, h)
  <2>1. Append(hs, h) \in Seq(Header)
    OBVIOUS
  <2>2. QED
    BY <2>1
<1>8. Standing(w, gs)
  BY <1>1, <1>4, <1>5, <1>6, <1>7, StandingAppend
<1>9. EndOf(gs) = e + RecordSize(h) /\ EndOf(gs) > e /\ EndOf(gs) \in Nat
  BY <1>1, <1>2, <1>7, EndOfAppend
<1>10. ASSUME NEW n \in 1..Len(gs) PROVE gs[n].seq = n - 1
  <2>1. CASE n \in 1..Len(hs)
    <3>1. gs[n] = hs[n]
      BY <1>7, <2>1
    <3>2. QED
      BY <2>1, <3>1 DEF Holds
  <2>2. CASE n = Len(hs) + 1
    BY <1>7, <2>2
  <2>3. QED
    BY <1>7, <2>1, <2>2
<1>11. \A c \in Offsets : c >= EndOf(gs) => w[c].kind # "header"
  <2>1. SUFFICES ASSUME NEW c \in Offsets, c >= EndOf(gs)
                 PROVE  w[c].kind # "header"
    OBVIOUS
  <2>2. c > e
    BY <1>1, <1>9, <2>1 DEF Offsets
  <2>3. QED
    BY <1>1, <2>2
<1>12. \A c \in Offsets : c > EndOf(gs) => c >= EndOf(gs)
  BY <1>9 DEF Offsets
<1>13. QED
  BY <1>7, <1>8, <1>9, <1>10, <1>11, <1>12 DEF Holds

(* What a scan finds counts. *)
LEMMA HoldsScan ==
  ASSUME NEW m \in [Offsets -> Cell], NEW hs \in Seq(Header), Holds(m, hs)
  PROVE  Holds(m, Scan(m))
<1>1. CASE ~GoodAt(m, EndOf(hs))
  BY <1>1, ScanOf
<1>2. CASE GoodAt(m, EndOf(hs))
  <2>1. PICK h : h = m[EndOf(hs)].of
    OBVIOUS
  <2>2. /\ h \in Header /\ h.seq = Len(hs) /\ m[EndOf(hs)] = HeaderCell(h)
        /\ Scan(m) = Append(hs, h)
    BY <1>2, <2>1, ScanOf
  <2>3. EndOf(hs) \in Nat /\ EndOf(hs) + RecordSize(h) <= Size
    BY <1>2, <2>1, EndOfFits, GoodIs DEF Holds
  <2>4. ASSUME NEW i \in 0..(Length(h) + 2)
        PROVE  m[EndOf(hs) + i] = RecordCell(h, i)
    <3>1. CASE i = 0
      <4>1. EndOf(hs) + 0 = EndOf(hs)
        BY <2>3
      <4>2. QED
        BY <2>2, <3>1, <4>1, RecordCellIs
    <3>2. CASE i # 0
      <4>1. i \in 1..(Length(h) + 2)
        BY <2>2, <3>2, LengthType
      <4>2. QED
        BY <1>2, <2>1, <4>1 DEF GoodAt
    <3>3. QED
      BY <3>1, <3>2
  <2>5. \A c \in Offsets : c > EndOf(hs) => m[c].kind # "header"
    BY DEF Holds
  <2>6. Holds(m, Append(hs, h))
    BY <2>2, <2>3, <2>4, <2>5, HoldsAppend
  <2>7. QED
    BY <2>2, <2>6
<1>3. QED
  BY <1>1, <1>2

-----------------------------------------------------------------------------
(* What the log invariant says of each part of the state. *)

Logged == log \in Seq(Header) /\ Holds(mem, log)

(* Whoever appends finds the object at the end of the log. *)
ObjectOK ==
  phase = "up" \/ (\E t \in Tasks : pc[t] # "idle") =>
    write_offset = EndOf(log) /\ next_seq = Len(log)

(* The scan of init is somewhere on the way that Scan goes. *)
ScanOK ==
  phase = "scan" =>
    \E n \in 0..Len(Scan(mem)) :
      write_offset = End(Scan(mem), n) /\ next_seq = n

(* How much of a task's record is in place, and that the commit byte is    *)
(* clear until its last write: remains of an older record do not commit it. *)
AppendOK(t) ==
  /\ pc[t] \in {"header", "key", "value", "commit"} =>
       mem[write_offset + Length(Entry(t)) + 2] = CLEAR
  /\ pc[t] \in {"key", "value", "commit"} =>
       mem[write_offset] = HeaderCell(Entry(t))
  /\ pc[t] \in {"value", "commit"} =>
       mem[write_offset + 1] = RecordCell(Entry(t), 1)
  /\ pc[t] = "commit" =>
       \A i \in 1..(Length(Entry(t)) + 1) :
         mem[write_offset + i] = RecordCell(Entry(t), i)

AppendsOK == \A t \in Tasks : pc[t] \in Appending => AppendOK(t)

LInv == Logged /\ ObjectOK /\ ScanOK /\ AppendsOK

-----------------------------------------------------------------------------
(* The writes *)

NewCell(t, i) == IF pc[t] = "mark" THEN CLEAR ELSE RecordCell(Entry(t), i)

LEMMA PlacesAre ==
  ASSUME TypeOK, NEW t \in Tasks, pc[t] \in Appending
  PROVE  /\ Entry(t) \in Header /\ Length(Entry(t)) \in Nat
         /\ RecordSize(Entry(t)) = Length(Entry(t)) + 3
         /\ write_offset \in Nat /\ Size \in Nat
         /\ write_offset + Length(Entry(t)) + 3 <= Size
         /\ First(t) \in Nat /\ Count(t) \in Nat
         /\ pc[t] \in {"mark", "commit"} =>
              First(t) = Length(Entry(t)) + 2 /\ Count(t) = 1
         /\ pc[t] = "header" => First(t) = 0 /\ Count(t) = 1
         /\ pc[t] = "key" => First(t) = 1 /\ Count(t) = 1
         /\ pc[t] = "value" => First(t) = 2 /\ Count(t) = Length(Entry(t))
<1>1. Entry(t) \in Header /\ Length(Entry(t)) \in Nat
  BY EntryType, LengthType DEF Appending
<1>2. write_offset \in Nat /\ Size \in Nat
  BY ConstantsAssumption DEF TypeOK
<1>3. write_offset + Length(Entry(t)) + 3 <= Size
  <2>1. write_offset + RecordSize(Entry(t)) <= Size
    BY DEF TypeOK
  <2>2. QED
    BY <1>1, <1>2, <2>1 DEF RecordSize
<1>4. /\ pc[t] \in {"mark", "commit"} =>
           First(t) = Length(Entry(t)) + 2 /\ Count(t) = 1
      /\ pc[t] = "header" => First(t) = 0 /\ Count(t) = 1
      /\ pc[t] = "key" => First(t) = 1 /\ Count(t) = 1
      /\ pc[t] = "value" => First(t) = 2 /\ Count(t) = Length(Entry(t))
  BY DEF First, Count
<1>5. First(t) \in Nat /\ Count(t) \in Nat
  BY <1>1, <1>4 DEF Appending
<1>6. QED
  BY <1>1, <1>2, <1>3, <1>4, <1>5 DEF RecordSize

LEMMA PutIs ==
  ASSUME TypeOK, NEW t \in Tasks, NEW n \in Nat, NEW c \in Offsets
  PROVE  Put(t, n)[c] =
           IF c - write_offset \in First(t)..(First(t) + n - 1)
           THEN NewCell(t, c - write_offset) ELSE mem[c]
BY DEF Put, NewCell

LEMMA CutIs ==
  ASSUME TypeOK, NEW t \in Tasks, pc[t] \in Appending,
         NEW m \in Cut(t), NEW c \in Offsets
  PROVE  \/ m[c] = mem[c]
         \/ /\ c - write_offset \in First(t)..(First(t) + Count(t) - 1)
            /\ \/ m[c] = NewCell(t, c - write_offset)
               \/ m[c] = Garbage /\ pc[t] \notin {"mark", "commit"}
<1>1. First(t) \in Nat /\ Count(t) \in Nat /\ write_offset \in Nat /\ c \in Int
  BY PlacesAre DEF Offsets
<1>2. ASSUME NEW n \in 0..Count(t), m = Put(t, n)
      PROVE  \/ m[c] = mem[c]
             \/ /\ c - write_offset \in First(t)..(First(t) + Count(t) - 1)
                /\ m[c] = NewCell(t, c - write_offset)
  <2>1. \/ m[c] = mem[c]
        \/ /\ c - write_offset \in First(t)..(First(t) + n - 1)
           /\ m[c] = NewCell(t, c - write_offset)
    BY <1>1, <1>2, PutIs
  <2>2. QED
    BY <1>1, <1>2, <2>1
<1>3. ASSUME NEW n \in 0..(Count(t) - 1), m = Torn(t, n),
             pc[t] \notin {"mark", "commit"}
      PROVE  \/ m[c] = mem[c]
             \/ /\ c - write_offset \in First(t)..(First(t) + Count(t) - 1)
                /\ \/ m[c] = NewCell(t, c - write_offset)
                   \/ m[c] = Garbage /\ pc[t] \notin {"mark", "commit"}
  <2>1. n \in 0..Count(t) /\ n \in Nat
    BY <1>1, <1>3
  <2>2. Put(t, n) \in [Offsets -> Cell]
    BY <2>1, PutType
  <2>3. m[c] = IF c = write_offset + First(t) + n THEN Garbage
               ELSE Put(t, n)[c]
    BY <1>3, <2>2 DEF Torn
  <2>4. CASE c = write_offset + First(t) + n
    <3>1. c - write_offset \in First(t)..(First(t) + Count(t) - 1)
      BY <1>1, <1>3, <2>1, <2>4
    <3>2. QED
      BY <1>3, <2>3, <2>4, <3>1
  <2>5. CASE c # write_offset + First(t) + n
    <3>1. \/ m[c] = mem[c]
          \/ /\ c - write_offset \in First(t)..(First(t) + n - 1)
             /\ m[c] = NewCell(t, c - write_offset)
      BY <2>1, <2>3, <2>5, PutIs
    <3>2. QED
      BY <1>1, <2>1, <3>1
  <2>6. QED
    BY <2>4, <2>5
<1>4. \/ \E n \in 0..Count(t) : m = Put(t, n)
      \/ /\ pc[t] \notin {"mark", "commit"}
         /\ \E n \in 0..(Count(t) - 1) : m = Torn(t, n)
  BY DEF Cut
<1>5. QED
  BY <1>2, <1>3, <1>4

LEMMA WrittenIs ==
  ASSUME TypeOK, NEW t \in Tasks, pc[t] \in Appending
  PROVE  /\ Written(t) \in Cut(t)
         /\ \A c \in Offsets :
              Written(t)[c] =
                IF c - write_offset \in First(t)..(First(t) + Count(t) - 1)
                THEN NewCell(t, c - write_offset) ELSE mem[c]
<1>1. Count(t) \in Nat
  BY PlacesAre
<1>2. Written(t) \in Cut(t)
  BY <1>1 DEF Cut, Written
<1>3. QED
  BY <1>1, <1>2, PutIs DEF Written

(* A write of a set or a delete, whole or cut, leaves the records that     *)
(* count where they are.                                                   *)
LEMMA CutHolds ==
  ASSUME TypeOK, LInv, NEW t \in Tasks, pc[t] \in Appending, NEW m \in Cut(t)
  PROVE  /\ m \in [Offsets -> Cell]
         /\ Holds(m, log)
         /\ \A c \in Offsets : c > EndOf(log) => m[c].kind # "header"
         /\ write_offset = EndOf(log) /\ Entry(t).seq = Len(log)
<1>1. m \in [Offsets -> Cell] /\ mem \in [Offsets -> Cell]
  BY CutType DEF TypeOK
<1>2. write_offset = EndOf(log) /\ next_seq = Len(log) /\ Entry(t).seq = Len(log)
  BY DEF LInv, ObjectOK, Appending, Entry
<1>3. ASSUME NEW c \in Offsets
      PROVE  /\ c < write_offset => m[c] = mem[c]
             /\ c > write_offset => m[c] = mem[c] \/ m[c].kind # "header"
             /\ c = write_offset => \/ m[c] = mem[c]
                                    \/ m[c].kind # "header"
                                    \/ m[c].of.seq = Len(log)
  <2>1. CASE m[c] = mem[c]
    BY <2>1
  <2>2. CASE /\ m[c] # mem[c]
             /\ c - write_offset \in First(t)..(First(t) + Count(t) - 1)
             /\ \/ m[c] = NewCell(t, c - write_offset)
                \/ m[c] = Garbage /\ pc[t] \notin {"mark", "commit"}
    <3>1. PICK i \in Int : i = c - write_offset
      BY PlacesAre DEF Offsets
    <3>2. i \in 0..(Length(Entry(t)) + 2) /\ c = write_offset + i
      BY <2>2, <3>1, PlacesAre DEF Appending, Offsets
    <3>3. CASE m[c] = Garbage \/ pc[t] = "mark"
      <4>1. m[c].kind # "header"
        BY <2>2, <3>3 DEF Garbage, NewCell, CLEAR
      <4>2. QED
        BY <3>2, <4>1, PlacesAre
    <3>4. CASE m[c] # Garbage /\ pc[t] # "mark"
      <4>1. m[c] = RecordCell(Entry(t), i)
        BY <2>2, <3>1, <3>4 DEF NewCell
      <4>2. CASE i = 0
        <5>1. m[c] = HeaderCell(Entry(t))
          BY <4>1, <4>2, PlacesAre, RecordCellIs
        <5>2. QED
          BY <1>2, <3>2, <4>2, <5>1, PlacesAre DEF HeaderCell
      <4>3. CASE i # 0
        <5>1. m[c].kind # "header"
          BY <3>2, <4>1, <4>3, PlacesAre, RecordCellIs
        <5>2. QED
          BY <3>2, <4>3, <5>1, PlacesAre
      <4>4. QED
        BY <4>2, <4>3
    <3>5. QED
      BY <3>3, <3>4
  <2>3. QED
    BY <2>1, <2>2, CutIs
<1>4. Holds(m, log)
  BY <1>1, <1>2, <1>3, HoldsBelow DEF LInv, Logged
<1>5. QED
  BY <1>1, <1>2, <1>4 DEF Holds

(* The commit byte makes the record count. *)
LEMMA CommitHolds ==
  ASSUME TypeOK, LInv, NEW t \in Tasks, pc[t] = "commit"
  PROVE  /\ Holds(Written(t), Append(log, Entry(t)))
         /\ Scan(Written(t)) = Append(log, Entry(t))
<1>1. pc[t] \in Appending
  BY DEF Appending
<1>2. PICK m \in [Offsets -> Cell] : m = Written(t)
  BY <1>1, WrittenIs, CutHolds
<1>3. /\ Holds(m, log) /\ Holds(mem, log) /\ log \in Seq(Header)
      /\ \A c \in Offsets : c > EndOf(log) => m[c].kind # "header"
      /\ write_offset = EndOf(log) /\ Entry(t).seq = Len(log)
  BY <1>1, <1>2, WrittenIs, CutHolds DEF LInv, Logged
<1>4. PICK h \in Header : h = Entry(t)
  BY <1>1, PlacesAre
<1>5. PICK s \in Nat : s = Length(h)
  BY <1>4, LengthType
<1>6. /\ write_offset \in Nat /\ Size \in Nat /\ write_offset + s + 3 <= Size
      /\ RecordSize(h) = s + 3 /\ First(t) = s + 2 /\ Count(t) = 1
  BY <1>1, <1>4, <1>5, PlacesAre
<1>7. ASSUME NEW i \in 0..(s + 2)
      PROVE  m[write_offset + i] = RecordCell(h, i)
  <2>1. write_offset + i \in Offsets /\ (write_offset + i) - write_offset = i
    BY <1>6 DEF Offsets
  <2>2. m[write_offset + i] = IF i \in (s + 2)..(s + 2 + 1 - 1)
                              THEN NewCell(t, i) ELSE mem[write_offset + i]
    BY <1>1, <1>2, <1>6, <2>1, WrittenIs
  <2>3. CASE i = s + 2
    <3>1. i \in (s + 2)..(s + 2 + 1 - 1)
      BY <2>3
    <3>2. QED
      BY <1>4, <2>2, <3>1 DEF NewCell
  <2>4. CASE i # s + 2
    <3>1. i \notin (s + 2)..(s + 2 + 1 - 1)
      BY <2>4
    <3>2. AppendOK(t)
      BY <1>1 DEF LInv, AppendsOK
    <3>3. CASE i = 0
      <4>1. mem[write_offset] = HeaderCell(h)
        BY <1>4, <3>2 DEF AppendOK
      <4>2. write_offset + i = write_offset
        BY <1>6, <3>3
      <4>3. QED
        BY <2>2, <3>1, <3>3, <4>1, <4>2, RecordCellIs
    <3>4. CASE i # 0
      <4>1. i \in 1..(s + 1)
        BY <2>4, <3>4
      <4>2. mem[write_offset + i] = RecordCell(h, i)
        BY <1>4, <1>5, <3>2, <4>1 DEF AppendOK
      <4>3. QED
        BY <2>2, <3>1, <4>2
    <3>5. QED
      BY <3>3, <3>4
  <2>5. QED
    BY <2>3, <2>4
<1>8. ASSUME NEW c \in Offsets, c < write_offset
      PROVE  m[c] = mem[c]
  <2>1. c - write_offset \notin (s + 2)..(s + 2 + 1 - 1)
    BY <1>6, <1>8 DEF Offsets
  <2>2. QED
    BY <1>1, <1>2, <1>6, <2>1, WrittenIs
<1>9. mem \in [Offsets -> Cell]
  BY DEF TypeOK
<1>10. /\ \A i \in 0..(Length(h) + 2) : m[EndOf(log) + i] = RecordCell(h, i)
       /\ EndOf(log) + RecordSize(h) <= Size
  BY <1>3, <1>5, <1>6, <1>7
<1>11. Holds(m, Append(log, h))
  BY <1>3, <1>4, <1>8, <1>9, <1>10, HoldsAppend
<1>12. Scan(m) = Append(log, h)
  <2>1. m[EndOf(log)] = HeaderCell(h)
    <3>1. m[EndOf(log) + 0] = RecordCell(h, 0)
      BY <1>5, <1>10
    <3>2. EndOf(log) + 0 = EndOf(log)
      BY <1>3, <1>6
    <3>3. QED
      BY <3>1, <3>2, RecordCellIs
  <2>2. m[EndOf(log)].kind = "header" /\ m[EndOf(log)].of = h
    BY <2>1 DEF HeaderCell
  <2>3. EndOf(log) + 2 <= Size
    BY <1>3, <1>6
  <2>4. \A i \in 1..(Length(h) + 2) : m[EndOf(log) + i] = RecordCell(h, i)
    BY <1>5, <1>10
  <2>5. GoodAt(m, EndOf(log))
    BY <1>10, <2>2, <2>3, <2>4 DEF GoodAt
  <2>6. QED
    BY <1>3, <2>2, <2>5, ScanOf
<1>13. QED
  BY <1>2, <1>4, <1>11, <1>12

-----------------------------------------------------------------------------
(* The steps and the log *)

LEMMA InitLInv == Init => LInv
<1>. SUFFICES ASSUME Init PROVE LInv
  OBVIOUS
<1>1. /\ log = <<>> /\ phase = "down"
      /\ \A t \in Tasks : pc[t] = "idle"
      /\ \A c \in Offsets : mem[c].kind # "header"
  BY DEF Init, ERASED, COMMIT
<1>2. Standing(mem, <<>>)
  BY DEF Standing
<1>3. EndOf(<<>>) = 0
  BY EndIs DEF EndOf
<1>4. Holds(mem, <<>>)
  BY <1>1, <1>2, <1>3 DEF Holds
<1>5. Logged
  BY <1>1, <1>4 DEF Logged
<1>6. QED
  BY <1>1, <1>5 DEF LInv, ObjectOK, ScanOK, AppendsOK, Appending

(* Init and deinit *)
LEMMA ScanLInv ==
  ASSUME IInv, LInv, KvsInit \/ ScanRecord \/ ScanEnds \/ ScanFails \/ Deinit
  PROVE  LInv'
<1>1. UNCHANGED <<mem, mutex, pc, op>> /\ mem \in [Offsets -> Cell]
  BY DEF KvsInit, ScanRecord, ScanEnds, ScanFails, Deinit, IInv, Guarded, TypeOK
<1>2. PICK s \in Seq(Header) :
        /\ s = Scan(mem) /\ Standing(mem, s) /\ ~GoodAt(mem, EndOf(s))
  BY <1>1, ScanStands DEF EndOf
<1>3. Holds(mem, s) /\ log \in Seq(Header) /\ Holds(mem, log)
  BY <1>1, <1>2, HoldsScan DEF LInv, Logged
<1>4. CASE KvsInit
  <2>1. /\ UNCHANGED log /\ phase' = "scan" /\ write_offset' = 0 /\ next_seq' = 0
        /\ \A t \in Tasks : pc[t] = "idle"
    BY <1>4 DEF KvsInit
  <2>2. Logged'
    BY <1>1, <2>1 DEF LInv, Logged
  <2>3. ScanOK'
    <3>1. Scan(mem)' = s /\ 0 \in 0..Len(s) /\ End(s, 0) = 0
      BY <1>1, <1>2, EndIs
    <3>2. QED
      BY <2>1, <3>1 DEF ScanOK
  <2>4. QED
    BY <1>1, <2>1, <2>2, <2>3 DEF LInv, ObjectOK, AppendsOK, Appending
<1>5. CASE ScanRecord
  <2>1. /\ UNCHANGED <<log, phase>> /\ phase = "scan"
        /\ \A t \in Tasks : pc[t] = "idle"
        /\ GoodAt(mem, write_offset)
        /\ write_offset' = write_offset + RecordSize(mem[write_offset].of)
        /\ next_seq' = SeqAfter(mem[write_offset].of)
    BY <1>5 DEF ScanRecord, IInv, InitAlone
  <2>2. PICK n \in 0..Len(s) : write_offset = End(s, n) /\ next_seq = n
    BY <1>2, <2>1 DEF LInv, ScanOK
  <2>3. n # Len(s)
    BY <1>2, <2>1, <2>2 DEF EndOf
  <2>4. /\ n \in Nat /\ n + 1 \in 1..Len(s)
        /\ (n + 1) - 1 = n /\ n + 1 \in 0..Len(s)
    BY <2>2, <2>3
  <2>5. mem[End(s, n)].of = s[n + 1]
    BY <1>2, <2>4 DEF Standing
  <2>6. End(s, n + 1) = End(s, n) + RecordSize(s[n + 1])
    BY <2>4, EndIs
  <2>7. s[n + 1].seq = n
    BY <1>3, <2>4 DEF Holds
  <2>8. next_seq' = n + 1
    <3>1. next_seq' = SeqAfter(s[n + 1])
      BY <2>1, <2>2, <2>5
    <3>2. QED
      BY <2>2, <2>4, <2>7, <3>1 DEF SeqAfter
  <2>9. write_offset' = End(s, n + 1)
    BY <2>1, <2>2, <2>5, <2>6
  <2>10. Scan(mem)' = s
    BY <1>1, <1>2
  <2>11. ScanOK'
    BY <2>4, <2>8, <2>9, <2>10 DEF ScanOK
  <2>12. Logged'
    BY <1>1, <2>1 DEF LInv, Logged
  <2>13. QED
    BY <1>1, <2>1, <2>11, <2>12 DEF LInv, ObjectOK, AppendsOK, Appending
<1>6. CASE ScanEnds
  <2>1. /\ UNCHANGED <<write_offset, next_seq>> /\ phase = "scan"
        /\ phase' = "up" /\ log' = s
        /\ \A t \in Tasks : pc[t] = "idle"
        /\ ~GoodAt(mem, write_offset)
    BY <1>2, <1>6 DEF ScanEnds, object, IInv, InitAlone
  <2>2. PICK n \in 0..Len(s) : write_offset = End(s, n) /\ next_seq = n
    BY <1>2, <2>1 DEF LInv, ScanOK
  <2>3. n = Len(s)
    <3>1. SUFFICES ASSUME n # Len(s) PROVE FALSE
      OBVIOUS
    <3>2. n + 1 \in 1..Len(s) /\ (n + 1) - 1 = n
      BY <2>2, <3>1
    <3>3. GoodAt(mem, End(s, n))
      BY <1>2, <3>2 DEF Standing
    <3>4. QED
      BY <2>1, <2>2, <3>3
  <2>4. ObjectOK'
    BY <2>1, <2>2, <2>3 DEF ObjectOK, EndOf
  <2>5. Logged'
    BY <1>1, <1>3, <2>1 DEF Logged
  <2>6. QED
    BY <1>1, <2>1, <2>4, <2>5 DEF LInv, ScanOK, AppendsOK, Appending
<1>7. CASE ScanFails
  <2>1. UNCHANGED log /\ phase' = "down" /\ \A t \in Tasks : pc[t] = "idle"
    BY <1>7 DEF ScanFails, IInv, InitAlone
  <2>2. Logged'
    BY <1>1, <2>1 DEF LInv, Logged
  <2>3. QED
    BY <1>1, <2>1, <2>2 DEF LInv, ObjectOK, ScanOK, AppendsOK, Appending
<1>8. CASE Deinit
  <2>1. UNCHANGED <<log, write_offset, next_seq>> /\ phase' = "down"
    BY <1>8 DEF Deinit, object
  <2>2. Logged'
    BY <1>1, <2>1 DEF LInv, Logged
  <2>3. ObjectOK'
    BY <1>1, <2>1 DEF LInv, ObjectOK
  <2>4. \A t \in Tasks : Entry(t)' = Entry(t)
    BY <1>1, <2>1 DEF Entry
  <2>5. AppendsOK'
    BY <1>1, <2>1, <2>4 DEF LInv, AppendsOK, AppendOK
  <2>6. QED
    BY <2>1, <2>2, <2>3, <2>5 DEF LInv, ScanOK
<1>9. QED
  BY <1>4, <1>5, <1>6, <1>7, <1>8

(* A step of t that writes nothing. *)
LEMMA QuietLInv ==
  ASSUME IInv, LInv, NEW t \in Tasks,
         \/ \E o \in Operation : Call(t, o)
         \/ Timeout(t) \/ Refuse(t) \/ Lock(t)
  PROVE  LInv'
<1>1. /\ UNCHANGED <<mem, phase, write_offset, next_seq, log>>
      /\ phase = "up" \/ pc[t] # "idle"
      /\ pc' \in [Tasks -> {"idle", "lock"} \cup Appending]
      /\ pc'[t] \in {"idle", "lock", "mark"}
      /\ \A u \in Tasks \ {t} : pc'[u] = pc[u] /\ op'[u] = op[u]
  BY DEF Call, Timeout, Refuse, Lock, object, IInv, Guarded, TypeOK, Appending
<1>2. phase # "scan"
  BY <1>1 DEF IInv, InitAlone
<1>3. write_offset = EndOf(log) /\ next_seq = Len(log)
  BY <1>1 DEF LInv, ObjectOK
<1>4. \A u \in Tasks \ {t} : Entry(u)' = Entry(u)
  BY <1>1 DEF Entry
<1>5. ASSUME NEW u \in Tasks, pc'[u] \in Appending PROVE AppendOK(u)'
  <2>1. CASE u = t
    BY <1>1, <1>5, <2>1 DEF AppendOK, Appending
  <2>2. CASE u # t
    <3>1. AppendOK(u)
      BY <1>1, <1>5, <2>2 DEF LInv, AppendsOK
    <3>2. QED
      BY <1>1, <1>4, <2>2, <3>1 DEF AppendOK
  <2>3. QED
    BY <2>1, <2>2
<1>6. QED
  BY <1>1, <1>2, <1>3, <1>5 DEF LInv, Logged, ObjectOK, ScanOK, AppendsOK

(* A write of t that completes: one part more of its record is in place. *)
LEMMA WritesLInv ==
  ASSUME IInv, LInv, NEW t \in Tasks,
         ClearCommit(t) \/ WriteHeader(t) \/ WriteKey(t) \/ WriteValue(t)
  PROVE  LInv'
<1>1. /\ pc[t] \in Appending /\ pc[t] # "idle" /\ mem' = Written(t)
      /\ UNCHANGED <<phase, write_offset, next_seq, op, log>>
      /\ pc'[t] \in Appending
      /\ \/ pc[t] = "mark" /\ pc'[t] = "header"
         \/ pc[t] = "header" /\ pc'[t] = "key"
         \/ pc[t] = "key" /\ pc'[t] = "commit" /\ Length(Entry(t)) = 0
         \/ pc[t] = "key" /\ pc'[t] = "value"
         \/ pc[t] = "value" /\ pc'[t] = "commit"
      /\ \A u \in Tasks \ {t} : pc'[u] = pc[u]
  BY DEF ClearCommit, WriteHeader, WriteKey, WriteValue, WriteStep, object,
         IInv, Guarded, TypeOK, Appending
<1>2. TypeOK /\ phase # "scan"
  BY <1>1 DEF IInv, Guarded, InitAlone
<1>3. mem' \in [Offsets -> Cell] /\ Holds(mem', log)
  BY <1>1, <1>2, WrittenIs, CutHolds
<1>4. Logged'
  BY <1>1, <1>3 DEF LInv, Logged
<1>5. write_offset = EndOf(log) /\ next_seq = Len(log)
  BY <1>1 DEF LInv, ObjectOK
<1>6. \A u \in Tasks : Entry(u)' = Entry(u)
  BY <1>1 DEF Entry
<1>7. ASSUME NEW u \in Tasks, pc'[u] \in Appending PROVE u = t
  BY <1>1, <1>7 DEF IInv, Guarded, MutexHeldOnlyInside
<1>8. AppendOK(t)'
  <2>1. PICK h \in Header : h = Entry(t)
    BY <1>1, <1>2, PlacesAre
  <2>2. PICK s \in Nat : s = Length(h)
    BY <2>1, LengthType
  <2>3. PICK w \in Nat : w = write_offset
    BY <1>1, <1>2, PlacesAre
  <2>4. Size \in Nat /\ w + s + 3 <= Size
    BY <1>1, <1>2, <2>1, <2>2, <2>3, PlacesAre
  <2>5. /\ pc[t] = "mark" => First(t) = s + 2 /\ Count(t) = 1
        /\ pc[t] = "header" => First(t) = 0 /\ Count(t) = 1
        /\ pc[t] = "key" => First(t) = 1 /\ Count(t) = 1
        /\ pc[t] = "value" => First(t) = 2 /\ Count(t) = s
    BY <1>1, <1>2, <2>1, <2>2, PlacesAre
  <2>6. ASSUME NEW i \in 0..(s + 2)
        PROVE  mem'[w + i] = IF i \in First(t)..(First(t) + Count(t) - 1)
                             THEN NewCell(t, i) ELSE mem[w + i]
    <3>1. w + i \in Offsets /\ (w + i) - w = i
      BY <2>4 DEF Offsets
    <3>2. QED
      BY <1>1, <1>2, <2>3, <3>1, WrittenIs
  <2>7. /\ s + 2 \in 0..(s + 2) /\ 0 \in 0..(s + 2) /\ 1 \in 0..(s + 2)
        /\ w + 0 = w /\ w + (s + 2) = w + s + 2
    OBVIOUS
  <2>8. /\ pc[t] \in {"header", "key", "value", "commit"} =>
             mem[w + (s + 2)] = CLEAR
        /\ pc[t] \in {"key", "value", "commit"} => mem[w + 0] = HeaderCell(h)
        /\ pc[t] \in {"value", "commit"} => mem[w + 1] = RecordCell(h, 1)
    BY <1>1, <2>1, <2>2, <2>3, <2>7 DEF LInv, AppendsOK, AppendOK
  <2>9. \A i \in Nat : NewCell(t, i) = IF pc[t] = "mark" THEN CLEAR
                                       ELSE RecordCell(h, i)
    BY <2>1 DEF NewCell
  <2>10. mem'[w + (s + 2)] = CLEAR
    <3>1. CASE pc[t] = "mark"
      <4>1. s + 2 \in First(t)..(First(t) + Count(t) - 1)
        BY <2>5, <3>1
      <4>2. QED
        BY <2>6, <2>7, <2>9, <3>1, <4>1
    <3>2. CASE pc[t] # "mark"
      <4>1. s + 2 \notin First(t)..(First(t) + Count(t) - 1)
        BY <1>1, <2>5, <3>2
      <4>2. mem[w + (s + 2)] = CLEAR
        BY <1>1, <2>8, <3>2
      <4>3. QED
        BY <2>6, <2>7, <4>1, <4>2
    <3>3. QED
      BY <3>1, <3>2
  <2>11. pc[t] # "mark" => mem'[w + 0] = HeaderCell(h)
    <3>1. CASE pc[t] = "header"
      <4>1. 0 \in First(t)..(First(t) + Count(t) - 1)
        BY <2>5, <3>1
      <4>2. QED
        BY <2>6, <2>7, <2>9, <3>1, <4>1, RecordCellIs
    <3>2. CASE pc[t] \in {"key", "value"}
      <4>1. 0 \notin First(t)..(First(t) + Count(t) - 1)
        BY <2>5, <3>2
      <4>2. QED
        BY <2>6, <2>7, <2>8, <3>2, <4>1
    <3>3. QED
      BY <1>1, <3>1, <3>2
  <2>12. pc[t] \in {"key", "value"} => mem'[w + 1] = RecordCell(h, 1)
    <3>1. CASE pc[t] = "key"
      <4>1. 1 \in First(t)..(First(t) + Count(t) - 1)
        BY <2>5, <3>1
      <4>2. QED
        BY <2>6, <2>7, <2>9, <3>1, <4>1
    <3>2. CASE pc[t] = "value"
      <4>1. 1 \notin First(t)..(First(t) + Count(t) - 1)
        BY <2>5, <3>2
      <4>2. QED
        BY <2>6, <2>7, <2>8, <3>2, <4>1
    <3>3. QED
      BY <3>1, <3>2
  <2>13. ASSUME pc'[t] = "commit", NEW i \in 1..(s + 1)
         PROVE  mem'[w + i] = RecordCell(h, i)
    <3>1. CASE i = 1
      BY <1>1, <2>12, <2>13, <3>1
    <3>2. CASE i # 1
      <4>1. pc[t] = "value"
        BY <1>1, <2>1, <2>2, <2>13, <3>2
      <4>2. i \in First(t)..(First(t) + Count(t) - 1) /\ i \in 0..(s + 2)
        BY <2>5, <3>2, <4>1
      <4>3. QED
        BY <2>6, <2>9, <4>1, <4>2
    <3>3. QED
      BY <3>1, <3>2
  <2>14. /\ Entry(t)' = h /\ write_offset' = w /\ Length(h) = s
         /\ pc'[t] \in {"key", "value", "commit"} => pc[t] # "mark"
         /\ pc'[t] \in {"value", "commit"} => pc[t] \in {"key", "value"}
    BY <1>1, <1>6, <2>1, <2>2, <2>3
  <2>15. QED
    BY <2>7, <2>10, <2>11, <2>12, <2>13, <2>14 DEF AppendOK
<1>9. AppendsOK'
  BY <1>7, <1>8 DEF AppendsOK
<1>10. QED
  BY <1>1, <1>2, <1>4, <1>5, <1>9 DEF LInv, ObjectOK, ScanOK

(* A set or a delete that returns, with OK or with an error. *)
LEMMA ReturnLInv ==
  ASSUME IInv, LInv, NEW t \in Tasks, WriteCommit(t) \/ IoError(t)
  PROVE  LInv'
<1>1. /\ pc[t] \in Appending /\ pc[t] # "idle"
      /\ UNCHANGED phase /\ TypeOK
      /\ \A u \in Tasks : pc'[u] \notin Appending
  BY DEF WriteCommit, IoError, Unlock, IInv, Guarded, TypeOK,
         MutexHeldOnlyInside, Appending
<1>2. phase # "scan"
  BY <1>1 DEF IInv, InitAlone
<1>3. /\ write_offset = EndOf(log) /\ next_seq = Len(log)
      /\ log \in Seq(Header) /\ Entry(t) \in Header
  BY <1>1, PlacesAre DEF LInv, ObjectOK, Logged
<1>4. CASE WriteCommit(t)
  <2>1. /\ pc[t] = "commit" /\ mem' = Written(t)
        /\ write_offset' = write_offset + RecordSize(Entry(t))
        /\ next_seq' = next_seq + 1
        /\ log' = Append(log, Entry(t))
    BY <1>4 DEF WriteCommit
  <2>2. Logged'
    BY <1>1, <1>3, <2>1, CommitHolds DEF Logged
  <2>3. EndOf(log') = EndOf(log) + RecordSize(Entry(t))
    BY <1>3, <2>1, EndOfAppend
  <2>4. write_offset' = EndOf(log') /\ next_seq' = Len(log')
    BY <1>3, <2>1, <2>3
  <2>5. QED
    BY <1>1, <1>2, <2>2, <2>4 DEF LInv, ObjectOK, ScanOK, AppendsOK
<1>5. CASE IoError(t)
  <2>1. mem' \in Cut(t) /\ UNCHANGED <<write_offset, next_seq, log>>
    BY <1>5 DEF IoError, object
  <2>2. Logged'
    BY <1>1, <1>3, <2>1, CutHolds DEF Logged
  <2>3. QED
    BY <1>1, <1>2, <1>3, <2>1, <2>2 DEF LInv, ObjectOK, ScanOK, AppendsOK
<1>6. QED
  BY <1>4, <1>5

LEMMA PowerLInv ==
  ASSUME IInv, LInv, PowerLoss
  PROVE  LInv'
<1>1. /\ phase' = "down" /\ UNCHANGED log
      /\ \A u \in Tasks : pc'[u] = "idle"
  BY DEF PowerLoss
<1>2. Holds(mem', log)
  <2>1. CASE mutex = None
    BY <2>1 DEF PowerLoss, LInv, Logged
  <2>2. CASE mutex # None
    <3>1. mutex \in Tasks /\ pc[mutex] \in Appending /\ TypeOK
      BY <2>2 DEF IInv, Guarded, TypeOK, MutexHeldOnlyInside
    <3>2. QED
      BY <2>2, <3>1, CutHolds DEF PowerLoss
  <2>3. QED
    BY <2>1, <2>2
<1>3. Logged'
  BY <1>1, <1>2 DEF LInv, Logged
<1>4. QED
  BY <1>1, <1>3 DEF LInv, ObjectOK, ScanOK, AppendsOK, Appending

LEMMA LogStep ==
  ASSUME IInv, LInv, [Next]_vars
  PROVE  LInv'
<1>1. ASSUME KvsInit \/ ScanRecord \/ ScanEnds \/ ScanFails \/ Deinit
      PROVE  LInv'
  BY <1>1, ScanLInv
<1>2. ASSUME PowerLoss PROVE LInv'
  BY <1>2, PowerLInv
<1>3. ASSUME NEW t \in Tasks, CallSet(t) \/ CallDelete(t) \/ Step(t)
      PROVE  LInv'
  <2>1. CASE CallSet(t) \/ CallDelete(t)
    <3>1. \E o \in Operation : Call(t, o)
      BY <2>1 DEF CallSet, CallDelete, Operation
    <3>2. QED
      BY <3>1, QuietLInv
  <2>2. CASE Timeout(t) \/ Refuse(t) \/ Lock(t)
    BY <2>2, QuietLInv
  <2>3. CASE ClearCommit(t) \/ WriteHeader(t) \/ WriteKey(t) \/ WriteValue(t)
    BY <2>3, WritesLInv
  <2>4. CASE WriteCommit(t) \/ IoError(t)
    BY <2>4, ReturnLInv
  <2>5. QED
    BY <1>3, <2>1, <2>2, <2>3, <2>4 DEF Step
<1>4. ASSUME UNCHANGED vars PROVE LInv'
  <2>1. \A u \in Tasks : Entry(u)' = Entry(u)
    BY <1>4 DEF vars, object, Entry
  <2>2. AppendsOK'
    BY <1>4, <2>1 DEF vars, object, LInv, AppendsOK, AppendOK
  <2>3. QED
    BY <1>4, <2>2 DEF vars, object, LInv, Logged, ObjectOK, ScanOK
<1>5. QED
  BY <1>1, <1>2, <1>3, <1>4 DEF Next

LEMMA LInvAlways == Spec => [](IInv /\ LInv)
<1>1. Init => IInv /\ LInv
  BY InitIInv, InitLInv
<1>2. IInv /\ LInv /\ [Next]_vars => IInv' /\ LInv'
  BY EveryStep, LogStep
<1>3. QED
  BY <1>1, <1>2, PTL DEF Spec

(* A restart at any moment finds the records whose calls returned OK, and   *)
(* at most one more after them: the sequence numbers and the commit bytes,  *)
(* cleared before the header is written, make the remains of failed appends *)
(* of any size unreadable.                                                  *)
THEOREM RestartKeepsLog == Spec => []RestartFindsLog
<1>1. IInv /\ LInv => RestartFindsLog
  <2>. SUFFICES ASSUME IInv, LInv PROVE RestartFindsLog
    OBVIOUS
  <2>1. mem \in [Offsets -> Cell] /\ log \in Seq(Header) /\ Holds(mem, log)
    BY DEF IInv, Guarded, TypeOK, LInv, Logged
  <2>2. CASE ~GoodAt(mem, EndOf(log))
    BY <2>1, <2>2, ScanOf DEF RestartFindsLog, IsPrefix
  <2>3. CASE GoodAt(mem, EndOf(log))
    <3>1. PICK h \in Header : Scan(mem) = Append(log, h)
      BY <2>1, <2>3, ScanOf
    <3>2. IsPrefix(log, Append(log, h)) /\ Len(Append(log, h)) = Len(log) + 1
      BY <2>1 DEF IsPrefix
    <3>3. QED
      BY <3>1, <3>2 DEF RestartFindsLog
  <2>4. QED
    BY <2>2, <2>3
<1>2. QED
  BY <1>1, LInvAlways, PTL

(* No failed set or delete moves write_offset or next_seq: the next one    *)
(* overwrites its remains.                                                 *)
THEOREM SpaceKept == Spec => []NoSpaceLost
<1>1. LInv => NoSpaceLost
  BY DEF LInv, ObjectOK, NoSpaceLost, EndOf
<1>2. QED
  BY <1>1, LInvAlways, PTL

-----------------------------------------------------------------------------
(* What a write that was cut lets a scan find: nothing new, unless it was  *)
(* that of the commit byte.                                                *)

LEMMA CutScan ==
  ASSUME TypeOK, LInv, NEW t \in Tasks, pc[t] \in Appending, NEW m \in Cut(t)
  PROVE  \/ Scan(m) = Scan(mem)
         \/ Scan(m) = log
         \/ pc[t] = "commit" /\ Scan(m) = Append(log, Entry(t))
<1>1. /\ m \in [Offsets -> Cell] /\ Holds(m, log)
      /\ mem \in [Offsets -> Cell] /\ Holds(mem, log) /\ log \in Seq(Header)
      /\ write_offset = EndOf(log)
  BY CutHolds DEF TypeOK, LInv, Logged
<1>2. PICK e \in Nat : e = write_offset
  BY PlacesAre
<1>3. PICK h \in Header : h = Entry(t)
  BY PlacesAre
<1>4. PICK s \in Nat : s = Length(h)
  BY <1>3, LengthType
<1>5. /\ Size \in Nat /\ e + s + 3 <= Size
      /\ e \in Offsets /\ e + (s + 2) \in Offsets
  BY <1>2, <1>3, <1>4, PlacesAre DEF Offsets
<1>6. /\ pc[t] \in {"mark", "commit"} => First(t) = s + 2 /\ Count(t) = 1
      /\ pc[t] = "header" => First(t) = 0 /\ Count(t) = 1
      /\ pc[t] = "key" => First(t) = 1 /\ Count(t) = 1
      /\ pc[t] = "value" => First(t) = 2 /\ Count(t) = s
  BY <1>3, <1>4, PlacesAre
<1>7. ASSUME NEW i \in Nat, e + i \in Offsets
      PROVE  \/ m[e + i] = mem[e + i]
             \/ /\ i \in First(t)..(First(t) + Count(t) - 1)
                /\ \/ m[e + i] = NewCell(t, i)
                   \/ m[e + i] = Garbage /\ pc[t] \notin {"mark", "commit"}
  <2>1. (e + i) - write_offset = i
    BY <1>2
  <2>2. QED
    BY <1>7, <2>1, CutIs
<1>8. SUFFICES ASSUME GoodAt(m, e)
               PROVE  \/ Scan(m) = Scan(mem)
                      \/ pc[t] = "commit" /\ Scan(m) = Append(log, Entry(t))
  BY <1>1, <1>2, ScanOf
<1>9. PICK g \in Header :
        /\ m[e] = HeaderCell(g) /\ Scan(m) = Append(log, g) /\ m[e].of = g
  BY <1>1, <1>2, <1>8, ScanOf
<1>10. PICK r \in Nat : r = Length(g)
  BY <1>9, LengthType
<1>11. /\ e + 2 <= Size /\ e + r + 3 <= Size
       /\ \A i \in 1..(r + 2) : m[e + i] = RecordCell(g, i)
  <2>1. /\ e + 2 <= Size /\ e + RecordSize(g) <= Size
        /\ \A i \in 1..(Length(g) + 2) : m[e + i] = RecordCell(g, i)
    BY <1>8, <1>9 DEF GoodAt
  <2>2. RecordSize(g) = r + 3
    BY <1>10 DEF RecordSize
  <2>3. QED
    BY <1>10, <2>1, <2>2
<1>12. e + 0 = e
  OBVIOUS
<1>13. /\ pc[t] \in {"header", "key", "value", "commit"} =>
            mem[e + (s + 2)] = CLEAR
       /\ pc[t] \in {"key", "value", "commit"} => mem[e] = HeaderCell(h)
  <2>1. e + (s + 2) = e + s + 2
    BY <1>2
  <2>2. QED
    BY <1>2, <1>3, <1>4, <2>1 DEF LInv, AppendsOK, AppendOK
<1>14. ASSUME pc[t] \in {"header", "key", "value"}, m[e] = HeaderCell(h)
       PROVE  FALSE
  <2>1. g = h /\ r = s
    BY <1>4, <1>9, <1>10, <1>14 DEF HeaderCell
  <2>2. s + 2 \notin First(t)..(First(t) + Count(t) - 1)
    BY <1>6, <1>14
  <2>3. m[e + (s + 2)] = CLEAR
    BY <1>5, <1>7, <1>13, <1>14, <2>2
  <2>4. m[e + (s + 2)] = COMMIT
    <3>1. s + 2 \in 1..(r + 2)
      BY <2>1
    <3>2. m[e + (s + 2)] = RecordCell(g, s + 2)
      BY <1>11, <3>1
    <3>3. RecordCell(h, Length(h) + 2) = COMMIT
      BY RecordCellIs
    <3>4. QED
      BY <1>4, <2>1, <3>2, <3>3
  <2>5. QED
    BY <2>3, <2>4 DEF CLEAR, COMMIT
<1>15. CASE pc[t] \in {"key", "value"}
  <2>1. 0 \notin First(t)..(First(t) + Count(t) - 1)
    BY <1>6, <1>15
  <2>2. m[e] = mem[e]
    BY <1>5, <1>7, <1>12, <2>1
  <2>3. QED
    BY <1>13, <1>14, <1>15, <2>2
<1>16. CASE pc[t] = "header"
  <2>1. CASE m[e] = mem[e]
    <3>1. ASSUME NEW c \in Offsets PROVE m[c] = mem[c]
      <4>1. \/ m[c] = mem[c]
            \/ c - e \in 0..(0 + 1 - 1)
        BY <1>2, <1>6, <1>16, CutIs
      <4>2. c - e \in 0..(0 + 1 - 1) => c = e
        BY DEF Offsets
      <4>3. QED
        BY <2>1, <4>1, <4>2
    <3>2. m = mem
      BY <1>1, <3>1
    <3>3. QED
      BY <3>2
  <2>2. CASE m[e] # mem[e]
    <3>1. m[e] = NewCell(t, 0) \/ m[e] = Garbage
      BY <1>5, <1>7, <1>12, <2>2
    <3>2. NewCell(t, 0) = HeaderCell(h)
      BY <1>3, <1>16, RecordCellIs DEF NewCell
    <3>3. m[e] # Garbage
      BY <1>9 DEF HeaderCell, Garbage
    <3>4. QED
      BY <1>14, <1>16, <3>1, <3>2, <3>3
  <2>3. QED
    BY <2>1, <2>2
<1>17. CASE pc[t] = "mark"
  <2>1. 0 \notin First(t)..(First(t) + Count(t) - 1)
    BY <1>6, <1>17
  <2>2. m[e] = mem[e]
    BY <1>5, <1>7, <1>12, <2>1
  <2>3. ASSUME NEW i \in 1..(r + 2) PROVE mem[e + i] = RecordCell(g, i)
    <3>1. e + i \in Offsets /\ i \in Nat
      BY <1>5, <1>11 DEF Offsets
    <3>2. m[e + i] = mem[e + i] \/ m[e + i] = CLEAR
      BY <1>7, <1>17, <3>1 DEF NewCell
    <3>3. m[e + i] = RecordCell(g, i)
      BY <1>11
    <3>4. RecordCell(g, i).kind # "clear"
      BY <1>10, RecordCellIs
    <3>5. QED
      BY <3>2, <3>3, <3>4 DEF CLEAR
  <2>4. mem[e].kind = "header" /\ mem[e].of = g
    BY <1>9, <2>2 DEF HeaderCell
  <2>5. GoodAt(mem, e)
    <3>1. e + RecordSize(g) <= Size
      BY <1>10, <1>11 DEF RecordSize
    <3>2. \A i \in 1..(Length(g) + 2) : mem[e + i] = RecordCell(g, i)
      BY <1>10, <2>3
    <3>3. QED
      BY <1>11, <2>4, <3>1, <3>2 DEF GoodAt
  <2>6. Scan(mem) = Append(log, g)
    BY <1>1, <1>2, <2>4, <2>5, ScanOf
  <2>7. QED
    BY <1>9, <2>6
<1>18. CASE pc[t] = "commit"
  <2>1. 0 \notin First(t)..(First(t) + Count(t) - 1)
    BY <1>6, <1>18
  <2>2. m[e] = mem[e]
    BY <1>5, <1>7, <1>12, <2>1
  <2>3. g = h
    BY <1>9, <1>13, <1>18, <2>2 DEF HeaderCell
  <2>4. QED
    BY <1>3, <1>9, <1>18, <2>3
<1>19. QED
  BY <1>15, <1>16, <1>17, <1>18 DEF Appending

-----------------------------------------------------------------------------
(* The map of a log *)

LEMMA MaxIs ==
  ASSUME NEW n \in Nat, NEW T \in SUBSET (1..n), NEW x \in T,
         \A y \in T : y <= x
  PROVE  Max(T) = x
<1>1. \A y \in T : x >= y
  OBVIOUS
<1>2. Max(T) \in T /\ \A y \in T : Max(T) >= y
  BY <1>1 DEF Max
<1>3. PICK z \in 1..n : z = Max(T)
  BY <1>2
<1>4. z >= x /\ x >= z /\ x \in 1..n
  BY <1>1, <1>2, <1>3
<1>5. QED
  BY <1>3, <1>4

LEMMA MaxExists ==
  ASSUME NEW n \in Nat, NEW T \in SUBSET (0..n), T # {}
  PROVE  Max(T) \in T /\ \A y \in T : Max(T) >= y
<1>. DEFINE D == {d \in Nat : d <= n /\ n - d \in T}
<1>1. D # {}
  <2>1. PICK y : y \in T
    OBVIOUS
  <2>2. n - y \in Nat /\ n - y <= n /\ n - (n - y) = y
    BY <2>1
  <2>3. n - y \in D
    BY <2>1, <2>2
  <2>4. QED
    BY <2>3
<1>2. PICK d \in D : \A y \in D : d <= y
  BY <1>1, LeastNumber
<1>3. n - d \in T
  OBVIOUS
<1>4. ASSUME NEW y \in T PROVE n - d >= y
  <2>1. n - y \in Nat /\ n - y <= n /\ n - (n - y) = y
    OBVIOUS
  <2>2. n - y \in D
    BY <2>1
  <2>3. d <= n - y
    BY <1>2, <2>2
  <2>4. QED
    BY <2>1, <2>3
<1>5. QED
  BY <1>3, <1>4 DEF Max

(* A record more changes its own key. *)
LEMMA ContentsAppend ==
  ASSUME NEW hs \in Seq(Header), NEW h \in Header
  PROVE  Contents(Append(hs, h)) =
           [Contents(hs) EXCEPT ![h.op.key] = h.op.value]
<1>1. PICK gs \in Seq(Header) : gs = Append(hs, h)
  <2>1. Append(hs, h) \in Seq(Header)
    OBVIOUS
  <2>2. QED
    BY <2>1
<1>2. PICK L \in Nat : L = Len(hs)
  OBVIOUS
<1>3. /\ DOMAIN gs = 1..(L + 1) /\ DOMAIN hs = 1..L /\ gs[L + 1] = h
      /\ \A i \in 1..L : gs[i] = hs[i]
  BY <1>1, <1>2
<1>4. h.op.key \in Keys
  BY DEF Header, Operation
<1>5. Value(gs, h.op.key) = h.op.value
  <2>. DEFINE T == {i \in DOMAIN gs : gs[i].op.key = h.op.key}
  <2>1. T \in SUBSET (1..(L + 1)) /\ L + 1 \in T /\ \A y \in T : y <= L + 1
    BY <1>3
  <2>. HIDE DEF T
  <2>2. Max(T) = L + 1
    <3>1. L + 1 \in Nat
      OBVIOUS
    <3>2. QED
      BY <2>1, <3>1, MaxIs
  <2>. USE DEF T
  <2>3. QED
    BY <1>3, <2>1, <2>2 DEF Value, LastOf
<1>6. ASSUME NEW k \in Keys, k # h.op.key
      PROVE  Value(gs, k) = Value(hs, k)
  <2>. DEFINE T == {i \in DOMAIN gs : gs[i].op.key = k}
              U == {i \in DOMAIN hs : hs[i].op.key = k}
  <2>1. T = U
    BY <1>3, <1>6
  <2>2. CASE U = {}
    BY <2>1, <2>2 DEF Value
  <2>3. CASE U # {}
    <3>1. U \in SUBSET (0..L)
      BY <1>3
    <3>2. Max(U) \in U
      BY <2>3, <3>1, MaxExists
    <3>3. gs[Max(U)] = hs[Max(U)]
      BY <1>3, <3>2
    <3>4. QED
      BY <2>1, <2>3, <3>3 DEF Value, LastOf
  <2>4. QED
    BY <2>2, <2>3
<1>7. QED
  BY <1>1, <1>4, <1>5, <1>6 DEF Contents

LEMMA EntryApplied ==
  ASSUME LInv, NEW t \in Tasks, Entry(t) \in Header
  PROVE  Contents(Append(log, Entry(t))) = Map!Applied(op[t])
<1>1. Entry(t).op = op[t] /\ log \in Seq(Header)
  BY DEF Entry, LInv, Logged
<1>2. QED
  BY <1>1, ContentsAppend DEF Map!Applied

-----------------------------------------------------------------------------
(* The steps and the map *)

LEMMA InitImplements == Init => Map!Init
<1>. SUFFICES ASSUME Init PROVE Map!Init
  OBVIOUS
<1>1. /\ mem \in [Offsets -> Cell] /\ log = <<>> /\ log \in Seq(Header)
      /\ Holds(mem, log)
  BY InitIInv, InitLInv DEF IInv, Guarded, TypeOK, Init, LInv, Logged
<1>2. ~GoodAt(mem, EndOf(log))
  <2>1. \A c \in Offsets : mem[c].kind # "header"
    BY DEF Init, ERASED, COMMIT
  <2>2. EndOf(log) \in Nat
    BY <1>1, EndIs DEF EndOf
  <2>3. SUFFICES ASSUME GoodAt(mem, EndOf(log)) PROVE FALSE
    OBVIOUS
  <2>4. EndOf(log) \in Offsets /\ mem[EndOf(log)].kind = "header"
    BY <1>1, <2>2, <2>3, GoodIs DEF GoodAt
  <2>5. QED
    BY <2>1, <2>4
<1>3. Scan(mem) = log
  BY <1>1, <1>2, ScanOf
<1>4. Contents(<<>>) = [k \in Keys |-> Absent]
  BY DEF Contents, Value
<1>5. QED
  BY <1>1, <1>3, <1>4 DEF Map!Init, Init

LEMMA ScanImplements ==
  ASSUME IInv, LInv, KvsInit \/ ScanRecord \/ ScanEnds \/ ScanFails \/ Deinit
  PROVE  [Map!Next]_Map!mapVars
<1>1. UNCHANGED <<mem, op>>
  BY DEF KvsInit, ScanRecord, ScanEnds, ScanFails, Deinit
<1>2. CASE ~ScanEnds
  <2>1. UNCHANGED log
    BY <1>2 DEF KvsInit, ScanRecord, ScanFails, Deinit
  <2>2. QED
    BY <1>1, <2>1 DEF Map!mapVars
<1>3. CASE ScanEnds
  <2>1. log' = Scan(mem)
    BY <1>3 DEF ScanEnds
  <2>2. \/ Scan(mem) = log
        \/ Len(Scan(mem)) = Len(log) + 1
    <3>1. /\ mem \in [Offsets -> Cell] /\ log \in Seq(Header)
          /\ Holds(mem, log)
      BY DEF IInv, Guarded, TypeOK, LInv, Logged
    <3>2. \/ Scan(mem) = log
          \/ \E h \in Header : Scan(mem) = Append(log, h)
      BY <3>1, ScanOf
    <3>3. QED
      BY <3>1, <3>2
  <2>3. Map!Recover
    BY <1>1, <2>1, <2>2 DEF Map!Recover
  <2>4. QED
    BY <2>3 DEF Map!Next
<1>4. QED
  BY <1>2, <1>3

LEMMA QuietImplements ==
  ASSUME IInv, LInv, NEW t \in Tasks,
         \/ \E o \in Operation : Call(t, o)
         \/ Timeout(t) \/ Refuse(t) \/ Lock(t)
  PROVE  [Map!Next]_Map!mapVars
<1>1. UNCHANGED <<mem, log>>
  BY DEF Call, Timeout, Refuse, Lock
<1>2. ASSUME NEW o \in Operation, Call(t, o) PROVE Map!Next
  <2>1. op[t] = None /\ op' = [op EXCEPT ![t] = o]
    BY <1>2 DEF Call, IInv, Guarded, TypeOK
  <2>2. o \in Map!Operation
    BY DEF Operation, Map!Operation
  <2>3. Map!Call(t, o)
    BY <1>1, <2>1 DEF Map!Call
  <2>4. QED
    BY <2>2, <2>3 DEF Map!Next
<1>3. ASSUME Timeout(t) \/ Refuse(t) PROVE Map!Next
  <2>1. op[t] # None /\ op' = [op EXCEPT ![t] = None]
    BY <1>3, NoOperationAssumption DEF Timeout, Refuse, IInv, Guarded, TypeOK
  <2>2. Map!Fail(t)
    BY <1>1, <2>1 DEF Map!Fail
  <2>3. QED
    BY <2>2 DEF Map!Next
<1>4. ASSUME Lock(t) PROVE UNCHANGED Map!mapVars
  BY <1>1, <1>4 DEF Lock, Map!mapVars
<1>5. QED
  BY <1>2, <1>3, <1>4

LEMMA WritesImplement ==
  ASSUME IInv, LInv, NEW t \in Tasks,
         ClearCommit(t) \/ WriteHeader(t) \/ WriteKey(t) \/ WriteValue(t)
  PROVE  [Map!Next]_Map!mapVars
<1>1. /\ pc[t] \in Appending /\ pc[t] # "commit" /\ mem' = Written(t)
      /\ UNCHANGED <<op, log>> /\ TypeOK
  BY DEF ClearCommit, WriteHeader, WriteKey, WriteValue, WriteStep,
         IInv, Guarded, Appending
<1>2. Scan(mem') = Scan(mem) \/ Scan(mem') = log
  BY <1>1, WrittenIs, CutScan
<1>3. CASE Scan(mem') = Scan(mem)
  BY <1>1, <1>3 DEF Map!mapVars
<1>4. CASE Scan(mem') = log
  <2>1. Map!Retract
    BY <1>1, <1>4 DEF Map!Retract
  <2>2. QED
    BY <2>1 DEF Map!Next
<1>5. QED
  BY <1>2, <1>3, <1>4

LEMMA ReturnImplements ==
  ASSUME IInv, LInv, NEW t \in Tasks, WriteCommit(t) \/ IoError(t)
  PROVE  Map!Next
<1>1. /\ pc[t] \in Appending /\ TypeOK
      /\ op' = [op EXCEPT ![t] = None]
  BY DEF WriteCommit, IoError, Unlock, IInv, Guarded, Appending
<1>2. op[t] # None /\ Entry(t) \in Header /\ log \in Seq(Header)
  BY <1>1, PlacesAre, NoOperationAssumption
     DEF TypeOK, Appending, LInv, Logged
<1>3. Contents(Append(log, Entry(t))) = Map!Applied(op[t])
  BY <1>2, EntryApplied
<1>4. CASE WriteCommit(t)
  <2>1. pc[t] = "commit" /\ mem' = Written(t) /\ log' = Append(log, Entry(t))
    BY <1>4 DEF WriteCommit
  <2>2. Scan(mem') = log' /\ Len(log') = Len(log) + 1
    BY <1>1, <1>2, <2>1, CommitHolds
  <2>3. Contents(log') = Map!Applied(op[t])
    BY <1>3, <2>1
  <2>4. Map!Done(t)
    BY <1>1, <1>2, <2>2, <2>3 DEF Map!Done
  <2>5. QED
    BY <2>4 DEF Map!Next
<1>5. CASE IoError(t)
  <2>1. mem' \in Cut(t) /\ UNCHANGED log
    BY <1>5 DEF IoError
  <2>2. \/ Scan(mem') = Scan(mem)
        \/ Scan(mem') = log
        \/ Scan(mem') = Append(log, Entry(t))
    BY <1>1, <2>1, CutScan
  <2>3. Contents(Scan(mem')) \in
          {Contents(Scan(mem)), Contents(log), Map!Applied(op[t])}
    BY <1>3, <2>2
  <2>4. Map!Fail(t)
    BY <1>1, <1>2, <2>1, <2>3 DEF Map!Fail
  <2>5. QED
    BY <2>4 DEF Map!Next
<1>6. QED
  BY <1>4, <1>5

LEMMA PowerImplements ==
  ASSUME IInv, LInv, PowerLoss
  PROVE  Map!Next
<1>1. UNCHANGED log /\ op' = [t \in Tasks |-> None] /\ TypeOK
  BY DEF PowerLoss, IInv, Guarded
<1>2. \/ Contents(Scan(mem')) \in {Contents(Scan(mem)), Contents(log)}
      \/ \E t \in Tasks :
           op[t] # None /\ Contents(Scan(mem')) = Map!Applied(op[t])
  <2>1. CASE mutex = None
    BY <2>1 DEF PowerLoss
  <2>2. CASE mutex # None
    <3>1. PICK t \in Tasks : t = mutex /\ pc[t] \in Appending
      BY <2>2 DEF IInv, Guarded, TypeOK, MutexHeldOnlyInside
    <3>2. mem' \in Cut(t)
      BY <2>2, <3>1 DEF PowerLoss
    <3>3. \/ Scan(mem') = Scan(mem)
          \/ Scan(mem') = log
          \/ Scan(mem') = Append(log, Entry(t))
      BY <1>1, <3>1, <3>2, CutScan
    <3>4. op[t] # None /\ Entry(t) \in Header
      BY <1>1, <3>1, PlacesAre, NoOperationAssumption DEF TypeOK, Appending
    <3>5. Contents(Append(log, Entry(t))) = Map!Applied(op[t])
      BY <3>4, EntryApplied
    <3>6. QED
      BY <3>3, <3>4, <3>5
  <2>3. QED
    BY <2>1, <2>2
<1>3. Map!PowerLoss
  BY <1>1, <1>2 DEF Map!PowerLoss
<1>4. QED
  BY <1>3 DEF Map!Next

LEMMA NextImplements ==
  ASSUME IInv, LInv, [Next]_vars
  PROVE  [Map!Next]_Map!mapVars
<1>1. ASSUME KvsInit \/ ScanRecord \/ ScanEnds \/ ScanFails \/ Deinit
      PROVE  [Map!Next]_Map!mapVars
  BY <1>1, ScanImplements
<1>2. ASSUME PowerLoss PROVE [Map!Next]_Map!mapVars
  BY <1>2, PowerImplements
<1>3. ASSUME NEW t \in Tasks, CallSet(t) \/ CallDelete(t) \/ Step(t)
      PROVE  [Map!Next]_Map!mapVars
  <2>1. CASE CallSet(t) \/ CallDelete(t)
    <3>1. \E o \in Operation : Call(t, o)
      BY <2>1 DEF CallSet, CallDelete, Operation
    <3>2. QED
      BY <3>1, QuietImplements
  <2>2. CASE Timeout(t) \/ Refuse(t) \/ Lock(t)
    BY <2>2, QuietImplements
  <2>3. CASE ClearCommit(t) \/ WriteHeader(t) \/ WriteKey(t) \/ WriteValue(t)
    BY <2>3, WritesImplement
  <2>4. CASE WriteCommit(t) \/ IoError(t)
    BY <2>4, ReturnImplements
  <2>5. QED
    BY <1>3, <2>1, <2>2, <2>3, <2>4 DEF Step
<1>4. ASSUME UNCHANGED vars PROVE UNCHANGED Map!mapVars
  BY <1>4 DEF vars, Map!mapVars
<1>5. QED
  BY <1>1, <1>2, <1>3, <1>4 DEF Next

(* Sets and deletes are atomic and durable for every key: each step of the *)
(* byte-wise store is a step, or none, of the crash-safe map.              *)
THEOREM StoreImplementsMap == Spec => ImplementsMap
<1>1. IInv /\ LInv /\ [Next]_vars => [Map!Next]_Map!mapVars
  BY NextImplements
<1>2. QED
  BY <1>1, InitImplements, LInvAlways, PTL DEF Spec, ImplementsMap, Map!Spec

-----------------------------------------------------------------------------
(* One bad cell *)

LEMMA BadCell ==
  ASSUME NEW m \in [Offsets -> Cell], NEW c \in Offsets,
         NEW w \in [Offsets -> Cell], w[c] = Garbage,
         \A d \in Offsets : d # c => w[d] = m[d],
         NEW hs, hs = Scan(m),
         NEW kept \in 0..Len(hs), End(hs, kept) <= c,
         \A n \in 0..Len(hs) : End(hs, n) <= c => n <= kept
  PROVE  Scan(w) = SubSeq(hs, 1, kept)
<1>1. hs \in Seq(Header) /\ Standing(m, hs) /\ ~GoodAt(m, EndOf(hs))
  BY ScanStands DEF EndOf
<1>2. Len(hs) \in Nat /\ c \in Nat /\ Size \in Nat
  BY <1>1, ConstantsAssumption DEF Offsets
<1>3. kept \in 0..Len(hs) /\ kept \in Nat /\ End(hs, kept) <= c
  BY <1>2
<1>4. \A n \in 0..Len(hs) : n > kept => ~(End(hs, n) <= c)
  BY <1>2
<1>5. PICK e \in Nat : e = End(hs, kept)
  BY <1>1, <1>3, EndType
<1>6. /\ w \in [Offsets -> Cell] /\ w[c] = Garbage
      /\ \A d \in Offsets : d # c => w[d] = m[d]
  OBVIOUS
<1>7. PICK ks \in Seq(Header) :
        /\ ks = SubSeq(hs, 1, kept) /\ Len(ks) = kept
        /\ \A i \in 1..kept : ks[i] = hs[i]
  <2>1. SubSeq(hs, 1, kept) \in Seq(Header)
    <3>1. \A i \in 1..kept : hs[i] \in Header
      BY <1>1, <1>2, <1>3
    <3>2. kept \in Int /\ 1 \in Int
      BY <1>3
    <3>3. QED
      BY <3>1, <3>2, SubSeqProperties
  <2>2. Len(SubSeq(hs, 1, kept)) = kept
    BY <1>1, <1>3
  <2>3. \A i \in 1..kept : SubSeq(hs, 1, kept)[i] = hs[i]
    BY <1>1, <1>3
  <2>4. QED
    BY <2>1, <2>2, <2>3
<1>8. ASSUME NEW i \in 0..kept PROVE End(ks, i) = End(hs, i)
  <2>1. i \in Nat /\ \A j \in 1..i : ks[j] = hs[j]
    BY <1>3, <1>7
  <2>2. QED
    BY <2>1, EndOfPrefix
<1>9. EndOf(ks) = e
  BY <1>3, <1>5, <1>7, <1>8 DEF EndOf
<1>10. Standing(m, ks)
  <2>1. ASSUME NEW n \in 1..kept
        PROVE  GoodAt(m, End(ks, n - 1)) /\ m[End(ks, n - 1)].of = ks[n]
    <3>1. n \in 1..Len(hs) /\ n - 1 \in 0..kept
      BY <1>2, <1>3
    <3>2. QED
      BY <1>1, <1>7, <1>8, <3>1 DEF Standing
  <2>2. QED
    BY <1>7, <2>1 DEF Standing
<1>11. Standing(w, ks)
  <2>1. \A d \in Offsets : d < EndOf(ks) => w[d] = m[d]
    BY <1>2, <1>3, <1>5, <1>6, <1>9 DEF Offsets
  <2>2. QED
    BY <1>6, <1>7, <1>10, <2>1, StandingBelow
<1>12. ASSUME GoodAt(w, e) PROVE FALSE
  <2>1. PICK h : h = w[e].of
    OBVIOUS
  <2>2. e \in Offsets /\ h \in Header /\ e + RecordSize(h) <= Size
    BY <1>6, <1>12, <2>1, GoodIs
  <2>3. PICK s \in Nat : s = Length(h)
    BY <2>2, LengthType
  <2>4. /\ e + 2 <= Size /\ w[e].kind = "header" /\ e + (s + 3) <= Size
        /\ \A i \in 1..(s + 2) : w[e + i] = RecordCell(h, i)
    <3>1. /\ e + 2 <= Size /\ w[e].kind = "header"
          /\ \A i \in 1..(Length(h) + 2) : w[e + i] = RecordCell(h, i)
      BY <1>12, <2>1 DEF GoodAt
    <3>2. RecordSize(h) = s + 3
      BY <2>3 DEF RecordSize
    <3>3. QED
      BY <2>2, <2>3, <3>1, <3>2
  <2>5. e # c
    BY <1>6, <2>4 DEF Garbage
  <2>6. m[e] = w[e]
    BY <1>6, <2>2, <2>5
  <2>7. ASSUME NEW i \in 1..(s + 2)
        PROVE  e + i # c /\ m[e + i] = RecordCell(h, i)
    <3>1. e + i \in Offsets
      BY <1>2, <2>4 DEF Offsets
    <3>2. w[e + i] = RecordCell(h, i)
      BY <2>4
    <3>3. RecordCell(h, i).kind # "garbage"
      BY <2>2, <2>3, RecordCellIs
    <3>4. e + i # c
      BY <1>6, <3>2, <3>3 DEF Garbage
    <3>5. QED
      BY <1>6, <3>1, <3>2, <3>4
  <2>8. GoodAt(m, e)
    <3>1. /\ m[e].kind = "header" /\ m[e].of = h
          /\ \A i \in 1..(Length(h) + 2) : m[e + i] = RecordCell(h, i)
      BY <2>1, <2>3, <2>4, <2>6, <2>7
    <3>2. QED
      BY <2>2, <2>4, <3>1 DEF GoodAt
  <2>9. kept # Len(hs)
    BY <1>1, <1>5, <2>8 DEF EndOf
  <2>10. /\ kept + 1 \in 1..Len(hs) /\ (kept + 1) - 1 = kept
         /\ kept + 1 \in 0..Len(hs) /\ kept + 1 > kept
    BY <1>2, <1>3, <2>9
  <2>11. hs[kept + 1] = h
    BY <1>1, <1>5, <2>1, <2>6, <2>10 DEF Standing
  <2>12. End(hs, kept + 1) = e + (s + 3)
    <3>1. End(hs, kept + 1) = End(hs, kept) + RecordSize(hs[kept + 1])
      BY <1>3, EndIs
    <3>2. QED
      BY <1>5, <2>3, <2>11, <3>1 DEF RecordSize
  <2>13. e + (s + 3) <= c
    <3>1. SUFFICES ASSUME c < e + (s + 3) PROVE FALSE
      BY <1>2
    <3>2. e < c
      BY <1>2, <1>3, <1>5, <2>5
    <3>3. PICK i \in Nat : i = c - e
      BY <1>2, <3>2
    <3>4. i \in 1..(s + 2) /\ e + i = c
      BY <1>2, <3>1, <3>2, <3>3
    <3>5. QED
      BY <2>7, <3>4
  <2>14. QED
    BY <1>4, <2>10, <2>12, <2>13
<1>13. Scan(w) = ks
  BY <1>6, <1>7, <1>9, <1>11, <1>12, ScanIs DEF EndOf
<1>14. QED
  BY <1>7, <1>13

(* The CRC of a record keeps a fault in it from hiding or changing those   *)
(* before it, wherever the fault is.                                       *)
THEOREM FaultsHideOnlyLater == Spec => []OneBadCellHidesOnlyLater
<1>1. IInv => OneBadCellHidesOnlyLater
  <2>. SUFFICES ASSUME IInv, NEW c \in Offsets
                PROVE  LET hs == Scan(mem)
                           kept == Max({n \in 0..Len(hs) : End(hs, n) <= c})
                       IN Scan([mem EXCEPT ![c] = Garbage]) = SubSeq(hs, 1, kept)
    BY DEF OneBadCellHidesOnlyLater
  <2>1. mem \in [Offsets -> Cell]
    BY DEF IInv, Guarded, TypeOK
  <2>2. PICK hs : hs = Scan(mem)
    OBVIOUS
  <2>3. PICK w : w = [mem EXCEPT ![c] = Garbage]
    OBVIOUS
  <2>4. PICK T : T = {n \in 0..Len(hs) : End(hs, n) <= c}
    OBVIOUS
  <2>5. PICK kept : kept = Max(T)
    OBVIOUS
  <2>6. Len(hs) \in Nat /\ c \in Nat
    BY <2>1, <2>2, ScanStands, ConstantsAssumption DEF Offsets
  <2>7. 0 \in T /\ T \in SUBSET (0..Len(hs))
    BY <2>4, <2>6, EndIs
  <2>8. kept \in T /\ \A n \in T : kept >= n
    BY <2>5, <2>6, <2>7, MaxExists
  <2>9. /\ kept \in 0..Len(hs) /\ End(hs, kept) <= c
        /\ \A n \in 0..Len(hs) : End(hs, n) <= c => n <= kept
    BY <2>4, <2>6, <2>8
  <2>10. Scan(w) = SubSeq(hs, 1, kept)
    <3>1. /\ w \in [Offsets -> Cell] /\ w[c] = Garbage
          /\ \A d \in Offsets : d # c => w[d] = mem[d]
      BY <2>1, <2>3 DEF Cell
    <3>2. QED
      BY <2>1, <2>2, <2>9, <3>1, BadCell
  <2>11. QED
    BY <2>2, <2>3, <2>4, <2>5, <2>10
<1>2. QED
  BY <1>1, IInvAlways, PTL
=============================================================================
