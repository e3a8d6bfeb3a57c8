----------------------------- MODULE RingProofs -----------------------------
(***************************************************************************)
(* Proofs about Ring, for rings of every capacity.                         *)
(***************************************************************************)
EXTENDS Ring, WellFoundedInduction, TLAPS

-----------------------------------------------------------------------------
(* Arithmetic. *)

(* A set of numbers that is not empty has a least one. *)
LEMMA LeastNumber ==
  ASSUME NEW T \in SUBSET Nat, T # {}
  PROVE  \E x \in T : \A y \in T : x <= y
<1>. DEFINE R == OpToRel(<, Nat)
<1>1. PICK x \in T : \A y \in T : ~(<<y, x>> \in R)
  <2>1. IsWellFoundedOn(R, Nat)
    BY NatLessThanWellFounded
  <2>. HIDE DEF R
  <2>2. QED
    BY <2>1, WFMin
<1>2. \A y \in T : <<y, x>> \in R <=> y < x
  BY DEF OpToRel
<1>. HIDE DEF R
<1>3. \A y \in T : ~(y < x) /\ y \in Nat
  BY <1>1, <1>2
<1>4. x \in Nat
  OBVIOUS
<1>5. QED
  BY <1>3, <1>4

(* Slot numbers stay in range. *)
LEMMA SlotArithmetic ==
  /\ 0 \in SlotIds
  /\ \A i \in SlotIds : After(i) \in SlotIds
  /\ \A i \in SlotIds, k \in 0..Capacity : Back(i, k) \in SlotIds
BY ConstantsAssumption DEF SlotIds, After, Back

-----------------------------------------------------------------------------
(* The recovery. *)

(* The first pass ends at a slot of the highest number. *)
LEMMA BestIsBest ==
  ASSUME NEW ids \in SUBSET SlotIds, ids # {},
         \A i \in ids : slots[i].hdr \in Header
  PROVE  Best(ids) \in ids /\ \A j \in ids : Beats(Best(ids), j)
<1>. DEFINE seq(i) == slots[i].hdr.seq
<1>1. \A i \in ids : seq(i) \in 0..(SeqCount - 1) /\ i \in Nat
  BY ConstantsAssumption DEF Header, Seqs, SlotIds
<1>. HIDE DEF seq
<1>2. PICK m \in {SeqCount - seq(i) : i \in ids} :
             \A n \in {SeqCount - seq(i) : i \in ids} : m <= n
  <2>1. \A i \in ids : SeqCount - seq(i) \in Nat
    BY <1>1, ConstantsAssumption
  <2>2. {SeqCount - seq(i) : i \in ids} # {}
    OBVIOUS
  <2>3. QED
    BY <2>1, <2>2, LeastNumber
<1>3. PICK i \in {j \in ids : SeqCount - seq(j) = m} :
             \A j \in {j \in ids : SeqCount - seq(j) = m} : i <= j
  <2>1. {j \in ids : SeqCount - seq(j) = m} \in SUBSET Nat
    BY <1>1
  <2>2. {j \in ids : SeqCount - seq(j) = m} # {}
    BY <1>2
  <2>3. QED
    BY <2>1, <2>2, LeastNumber
<1>4. ASSUME NEW j \in ids PROVE Beats(i, j)
  <2>1. SeqCount - seq(i) <= SeqCount - seq(j)
    BY <1>2, <1>3
  <2>2. seq(i) = seq(j) => i <= j
    BY <1>3
  <2>3. QED
    BY <1>1, <1>3, <2>1, <2>2, ConstantsAssumption DEF Beats, seq
<1>5. QED
  BY <1>3, <1>4 DEF Best

LEMMA CandidatesAreSlots ==
  ASSUME NEW bad
  PROVE  /\ Candidates(bad) \in SUBSET SlotIds
         /\ \A i \in Candidates(bad) : slots[i].hdr \in Header
BY DEF Candidates, Valid

(* The second pass stops at the first slot that does not follow. *)
LEMMA RunLengthIsRun ==
  ASSUME NEW bad, NEW h
  PROVE  LET n == RunLength(bad, h) IN
         /\ n \in 0..Capacity
         /\ \A k \in 0..(n - 1) : Follows(bad, h, k)
         /\ n < Capacity => ~Follows(bad, h, n)
<1>. DEFINE T == {n \in 0..Capacity : n = Capacity \/ ~Follows(bad, h, n)}
<1>1. T \in SUBSET Nat /\ Capacity \in T /\ Capacity \in Nat
  BY ConstantsAssumption
<1>2. PICK n \in T : \A k \in T : n <= k
  BY <1>1, LeastNumber
<1>3. ASSUME NEW k \in 0..(n - 1) PROVE Follows(bad, h, k)
  <2>1. k \in 0..Capacity /\ k < n /\ k < Capacity
    BY <1>1, <1>2
  <2>2. QED
    BY <1>2, <2>1
<1>4. /\ n \in 0..Capacity
      /\ n < Capacity => ~Follows(bad, h, n)
  BY <1>1, <1>2
<1>5. QED
  BY <1>3, <1>4 DEF RunLength

LEMMA RunType ==
  ASSUME NEW bad, NEW h
  PROVE  Run(h, RunLength(bad, h)) \in Seq(Header)
<1>. DEFINE n == RunLength(bad, h)
<1>1. n \in Nat /\ \A k \in 0..(n - 1) : Follows(bad, h, k)
  BY RunLengthIsRun, ConstantsAssumption
<1>. HIDE DEF n
<1>2. ASSUME NEW k \in 1..n PROVE slots[Back(h, n - k)].hdr \in Header
  <2>1. n - k \in 0..(n - 1)
    BY <1>1
  <2>2. QED
    BY <1>1, <2>1 DEF Follows, Valid
<1>3. Run(h, n) \in Seq(Header)
  BY <1>1, <1>2 DEF Run
<1>4. QED
  BY <1>3 DEF n

-----------------------------------------------------------------------------
(* Type correctness and the mutex. *)

(* An append in progress carries a payload. *)
AppendsCarryPayloads ==
  \A t \in Tasks : pc[t] \in {"append"} \cup Appending => buf[t] \in Payloads

TInv == TypeOK /\ MutexHeldOnlyInside /\ AppendsCarryPayloads

LEMMA EntryType ==
  ASSUME TypeOK, NEW t \in Tasks, buf[t] \in Payloads
  PROVE  Entry(t) \in Header
BY DEF TypeOK, Entry, Header

(* What a device write leaves in the slot, complete or cut, is a slot. *)
LEMMA WrittenType ==
  ASSUME TypeOK, NEW t \in Tasks, pc[t] \in Appending \cup {"erase"},
         pc[t] \in Appending => buf[t] \in Payloads
  PROVE  Written(t) \in Slot /\ Cut(t) \subseteq Slot
<1>1. Target \in Slot
  BY DEF TypeOK, Target
<1>2. Written(t) \in Slot
  <2>1. CASE pc[t] = "mark"
    BY <1>1, <2>1 DEF Written, Slot, CLEAR, COMMIT, ERASED
  <2>2. CASE pc[t] = "header"
    BY <1>1, <2>2, EntryType DEF Written, Slot, Appending
  <2>3. CASE pc[t] = "payload"
    BY <1>1, <2>3 DEF Written, Slot, Appending
  <2>4. CASE pc[t] = "commit"
    BY <1>1, <2>4 DEF Written, Slot, CLEAR, COMMIT, ERASED
  <2>5. CASE pc[t] = "erase"
    BY <1>1, <2>5 DEF Written, Slot, Blank, CLEAR, COMMIT, ERASED
  <2>6. QED
    BY <2>1, <2>2, <2>3, <2>4, <2>5 DEF Appending
<1>3. /\ [Target EXCEPT !.hdr = Garbage] \in Slot
      /\ [Target EXCEPT !.body = Garbage] \in Slot
  BY <1>1 DEF Slot
<1>4. QED
  BY <1>1, <1>2, <1>3 DEF Cut

LEMMA InitTInv == Init => TInv
<1>. SUFFICES ASSUME Init PROVE TInv
  OBVIOUS
<1>1. 0 \in SlotIds /\ 0 \in Seqs /\ 0 \in 0..Capacity
  BY SlotArithmetic, ConstantsAssumption DEF Seqs
<1>2. Blank \in Slot /\ Foreign \in Slot
  BY DEF Blank, Foreign, Slot, CLEAR, COMMIT, ERASED
<1>3. TypeOK
  <2>1. slots \in [SlotIds -> Slot]
    BY <1>2 DEF Init
  <2>2. /\ pc \in [Tasks -> {"idle"} \cup Waiting \cup Locked]
        /\ buf \in [Tasks -> Payloads \cup Header \cup {None}]
    BY DEF Init
  <2>3. /\ cursor \in [slot : SlotIds, remaining : 0..Capacity]
        /\ seen \in Seq(Header) /\ log \in Seq(Header)
    BY <1>1 DEF Init, NoCursor
  <2>4. QED
    BY <1>1, <2>1, <2>2, <2>3 DEF Init, TypeOK
<1>4. MutexHeldOnlyInside /\ AppendsCarryPayloads
  BY ConstantsAssumption
     DEF Init, MutexHeldOnlyInside, AppendsCarryPayloads, Locked, Appending
<1>5. QED
  BY <1>3, <1>4 DEF TInv

(* The indices after a recovery. *)
LEMMA RingInitType ==
  ASSUME TypeOK, RingInit
  PROVE  /\ head_slot' \in SlotIds /\ tail_slot' \in SlotIds
         /\ head_seq' \in Seqs /\ count' \in 0..Capacity
         /\ log' \in Seq(Header)
<1>1. PICK bad1 \in ReadFaults, bad2 \in ReadFaults :
        LET found == Candidates(bad1)
            h == Best(found)
            n == RunLength(bad2, h)
        IN IF found = {}
           THEN /\ head_slot' = 0 /\ tail_slot' = 0
                /\ head_seq' = 0 /\ count' = 0
                /\ log' = <<>>
           ELSE /\ head_slot' = After(h)
                /\ tail_slot' = Back(After(h), n)
                /\ head_seq' = (slots[h].hdr.seq + 1) % SeqCount
                /\ count' = n
                /\ log' = Run(h, n)
  BY DEF RingInit
<1>. DEFINE found == Candidates(bad1)
            h == Best(found)
            n == RunLength(bad2, h)
<1>2. 0 \in Seqs /\ 0 \in 0..Capacity
  BY ConstantsAssumption DEF Seqs
<1>3. CASE found = {}
  BY <1>1, <1>2, <1>3, SlotArithmetic
<1>4. CASE found # {}
  <2>1. h \in SlotIds /\ slots[h].hdr \in Header
    BY <1>4, BestIsBest, CandidatesAreSlots
  <2>2. n \in 0..Capacity /\ Run(h, n) \in Seq(Header)
    BY RunLengthIsRun, RunType
  <2>3. (slots[h].hdr.seq + 1) % SeqCount \in Seqs
    BY <2>1, ConstantsAssumption DEF Header, Seqs
  <2>. HIDE DEF h, n
  <2>4. QED
    BY <1>1, <1>4, <2>1, <2>2, <2>3, SlotArithmetic DEF h, n
<1>5. QED
  BY <1>3, <1>4

(* The indices after an append. *)
LEMMA NextType ==
  ASSUME TypeOK
  PROVE  /\ NextHead \in SlotIds /\ NextTail \in SlotIds
         /\ NextSeq \in Seqs /\ NextCount \in 0..Capacity
<1>1. NextHead \in SlotIds /\ NextTail \in SlotIds
  BY SlotArithmetic DEF TypeOK, NextHead, NextTail
<1>2. NextSeq \in Seqs /\ NextCount \in 0..Capacity
  BY ConstantsAssumption DEF TypeOK, NextSeq, NextCount, Seqs
<1>3. QED
  BY <1>1, <1>2

LEMMA PushedType ==
  ASSUME NEW l \in Seq(Header), NEW e \in Header
  PROVE  Pushed(l, e) \in Seq(Header)
<1>1. CASE Len(l) < Capacity
  BY <1>1 DEF Pushed
<1>2. CASE ~(Len(l) < Capacity)
  <2>1. l # <<>>
    BY <1>2, ConstantsAssumption
  <2>2. Tail(l) \in Seq(Header)
    BY <2>1
  <2>3. QED
    BY <1>2, <2>2 DEF Pushed
<1>3. QED
  BY <1>1, <1>2

LEMMA NextTInv == TInv /\ [Next]_vars => TInv'
<1>. SUFFICES ASSUME TInv, [Next]_vars PROVE TInv'
  OBVIOUS
<1>. USE DEF TInv
<1>0. NoCursor \in [slot : SlotIds, remaining : 0..Capacity]
      /\ <<>> \in Seq(Header)
  BY SlotArithmetic, ConstantsAssumption DEF NoCursor
<1>1. CASE RingInit
  <2>1. TypeOK'
    BY <1>1, RingInitType DEF RingInit, TypeOK
  <2>2. QED
    BY <1>1, <2>1 DEF RingInit, MutexHeldOnlyInside, AppendsCarryPayloads
<1>2. CASE Deinit
  BY <1>2 DEF Deinit, ghosts, TypeOK, MutexHeldOnlyInside, AppendsCarryPayloads
<1>3. CASE PowerLoss
  <2>1. slots' \in [SlotIds -> Slot]
    <3>1. CASE mutex # None /\ pc[mutex] \in Appending \cup {"erase"}
      <4>1. mutex \in Tasks
        BY <3>1 DEF TypeOK
      <4>2. Cut(mutex) \subseteq Slot
        BY <3>1, <4>1, WrittenType DEF AppendsCarryPayloads
      <4>3. QED
        BY <1>3, <3>1, <4>2 DEF PowerLoss, TypeOK
    <3>2. CASE ~(mutex # None /\ pc[mutex] \in Appending \cup {"erase"})
      BY <1>3, <3>2 DEF PowerLoss, TypeOK
    <3>3. QED
      BY <3>1, <3>2
  <2>2. 0 \in SlotIds /\ 0 \in Seqs /\ 0 \in 0..Capacity
    BY SlotArithmetic, ConstantsAssumption DEF Seqs
  <2>3. TypeOK'
    BY <1>0, <1>3, <2>1, <2>2 DEF PowerLoss, ghosts, TypeOK
  <2>4. QED
    BY <1>3, <2>3, ConstantsAssumption
       DEF PowerLoss, MutexHeldOnlyInside, AppendsCarryPayloads, Locked,
           Appending
<1>4. ASSUME NEW t \in Tasks, Call(t) PROVE TInv'
  <2>1. ASSUME NEW call \in Waiting, NEW arg \in Payloads \cup {None},
               Enter(t, call, arg), call = "append" => arg \in Payloads
        PROVE  TInv'
    BY <2>1
       DEF Enter, object, ghosts, TypeOK, MutexHeldOnlyInside,
           AppendsCarryPayloads, Waiting, Locked, Appending
  <2>2. QED
    BY <1>4, <2>1 DEF Call, CallAppend, CallPeek, CallIterate, CallClear, Waiting
<1>5. ASSUME NEW t \in Tasks, Step(t) PROVE TInv'
  <2>1. ASSUME pc[t] \in Locked
        PROVE  \A u \in Tasks : u # t => pc[u] \notin Locked
    BY <2>1 DEF MutexHeldOnlyInside
  <2>2. CASE Timeout(t)
    BY <2>2 DEF Timeout, object, ghosts, TypeOK, MutexHeldOnlyInside,
                AppendsCarryPayloads, Waiting, Locked, Appending
  <2>3. ASSUME NEW from \in Waiting, NEW to \in Locked, Lock(t, from, to)
        PROVE  /\ MutexHeldOnlyInside'
               /\ mutex' \in Tasks
               /\ pc' \in [Tasks -> {"idle"} \cup Waiting \cup Locked]
    BY <2>3, ConstantsAssumption
       DEF Lock, TypeOK, MutexHeldOnlyInside, Waiting, Locked, Appending
  <2>4. ASSUME NEW from \in Locked, Unlock(t, from)
        PROVE  /\ MutexHeldOnlyInside' /\ AppendsCarryPayloads'
               /\ mutex' = None
               /\ pc' \in [Tasks -> {"idle"} \cup Waiting \cup Locked]
               /\ buf' \in [Tasks -> Payloads \cup Header \cup {None}]
               /\ cursor' \in [slot : SlotIds, remaining : 0..Capacity]
               /\ seen' \in Seq(Header)
    <3>1. pc[t] \in Locked
      BY <2>4 DEF Unlock
    <3>2. QED
      BY <1>0, <2>1, <2>4, <3>1, ConstantsAssumption
         DEF Unlock, TypeOK, MutexHeldOnlyInside, AppendsCarryPayloads, Locked,
             Appending
  <2>5. CASE LockAppend(t)
    <3>1. tried' \subseteq Header
      BY <2>5, EntryType DEF LockAppend, Lock, TypeOK, AppendsCarryPayloads
    <3>2. TypeOK' /\ MutexHeldOnlyInside'
      BY <2>3, <2>5, <3>1
         DEF LockAppend, object, TypeOK, Waiting, Locked, Appending
    <3>3. AppendsCarryPayloads'
      BY <2>5 DEF LockAppend, Lock, TypeOK, AppendsCarryPayloads, Appending
    <3>4. QED
      BY <3>2, <3>3
  <2>6. ASSUME NEW from \in Appending, NEW to \in Appending,
               WriteStep(t, from, to)
        PROVE  TInv'
    <3>1. Written(t) \in Slot
      BY <2>6, WrittenType DEF WriteStep, AppendsCarryPayloads
    <3>2. TypeOK'
      BY <2>6, <3>1 DEF WriteStep, object, ghosts, TypeOK, Locked
    <3>3. QED
      BY <2>6, <3>2
         DEF WriteStep, TypeOK, MutexHeldOnlyInside, AppendsCarryPayloads,
             Locked
  <2>7. CASE ClearCommit(t)
    BY <2>6, <2>7 DEF ClearCommit, Appending
  <2>8. CASE WriteHeader(t)
    BY <2>6, <2>8 DEF WriteHeader, Appending
  <2>9. CASE WritePayload(t)
    BY <2>6, <2>9 DEF WritePayload, Appending
  <2>10. CASE WriteCommit(t)
    <3>1. pc[t] = "commit" /\ buf[t] \in Payloads
      BY <2>10 DEF WriteCommit, Unlock, AppendsCarryPayloads, Appending
    <3>2. Written(t) \in Slot
      BY <3>1, WrittenType DEF Appending
    <3>3. log' \in Seq(Header)
      BY <2>10, <3>1, EntryType, PushedType DEF WriteCommit, TypeOK
    <3>4. Unlock(t, "commit") /\ "commit" \in Locked
      BY <2>10 DEF WriteCommit, Locked, Appending
    <3>5. QED
      BY <2>4, <2>10, <3>2, <3>3, <3>4, NextType DEF WriteCommit, TypeOK
  <2>11. ASSUME NEW i \in SlotIds, PeekSlot(t, i), pc[t] \in Waiting
         PROVE  TInv'
    <3>1. buf' \in [Tasks -> Payloads \cup Header \cup {None}]
      BY <2>11 DEF PeekSlot, TypeOK, Valid
    <3>2. \A u \in Tasks : u # t => buf'[u] = buf[u] /\ pc'[u] = pc[u]
      BY <2>11 DEF PeekSlot, TypeOK
    <3>3. QED
      BY <2>11, <3>1, <3>2
         DEF PeekSlot, object, ghosts, TypeOK, MutexHeldOnlyInside,
             AppendsCarryPayloads, Waiting, Locked, Appending
  <2>12. CASE PeekOldest(t)
    BY <2>11, <2>12 DEF PeekOldest, TypeOK, Waiting
  <2>13. CASE PeekNewest(t)
    <3>1. Back(head_slot, 1) \in SlotIds
      BY SlotArithmetic, ConstantsAssumption DEF TypeOK
    <3>2. QED
      BY <2>11, <2>13, <3>1 DEF PeekNewest, Waiting
  <2>14. CASE LockIterate(t)
    <3>1. TypeOK' /\ MutexHeldOnlyInside'
      BY <1>0, <2>3, <2>14
         DEF LockIterate, object, ghosts, TypeOK, Waiting, Locked
    <3>2. AppendsCarryPayloads'
      BY <2>14 DEF LockIterate, Lock, TypeOK, AppendsCarryPayloads, Appending
    <3>3. QED
      BY <3>1, <3>2
  <2>15. CASE Visit(t)
    <3>1. seen' \in Seq(Header)
      BY <2>15 DEF Visit, TypeOK, Valid
    <3>2. cursor' \in [slot : SlotIds, remaining : 0..Capacity]
      BY <2>15, SlotArithmetic, ConstantsAssumption DEF Visit, TypeOK
    <3>3. pc' \in [Tasks -> {"idle"} \cup Waiting \cup Locked]
      BY <2>15 DEF Visit, TypeOK, Locked
    <3>4. MutexHeldOnlyInside' /\ AppendsCarryPayloads'
      BY <2>15 DEF Visit, TypeOK, MutexHeldOnlyInside, AppendsCarryPayloads,
                   Locked, Appending
    <3>5. QED
      BY <2>15, <3>1, <3>2, <3>3, <3>4 DEF Visit, object, ghosts, TypeOK
  <2>16. CASE NestedTimeout(t)
    BY <2>16 DEF NestedTimeout, object, ghosts, TypeOK, MutexHeldOnlyInside,
                 AppendsCarryPayloads, Locked, Appending
  <2>17. CASE EndIterate(t)
    <3>1. Unlock(t, "visit") /\ "visit" \in Locked
      BY <2>17 DEF EndIterate, Locked
    <3>2. QED
      BY <2>4, <2>17, <3>1 DEF EndIterate, object, ghosts, TypeOK
  <2>18. CASE LockClear(t)
    <3>1. TypeOK' /\ MutexHeldOnlyInside'
      BY <1>0, <2>3, <2>18, SlotArithmetic
         DEF LockClear, object, TypeOK, Waiting, Locked
    <3>2. AppendsCarryPayloads'
      BY <2>18 DEF LockClear, Lock, TypeOK, AppendsCarryPayloads, Appending
    <3>3. QED
      BY <3>1, <3>2
  <2>19. CASE EraseSlot(t)
    <3>1. Written(t) \in Slot
      BY <2>19, WrittenType DEF EraseSlot, Appending
    <3>2. cursor.slot + 1 \in SlotIds
      BY <2>19, ConstantsAssumption DEF EraseSlot, TypeOK, SlotIds
    <3>3. TypeOK'
      BY <2>19, <3>1, <3>2 DEF EraseSlot, object, ghosts, TypeOK
    <3>4. QED
      BY <2>19, <3>3 DEF EraseSlot, MutexHeldOnlyInside, AppendsCarryPayloads
  <2>20. CASE EraseLast(t)
    <3>1. Unlock(t, "erase") /\ "erase" \in Locked /\ pc[t] = "erase"
      BY <2>20 DEF EraseLast, Unlock, Locked
    <3>2. Written(t) \in Slot
      BY <3>1, WrittenType DEF Appending
    <3>3. 0 \in SlotIds /\ 0 \in Seqs /\ 0 \in 0..Capacity
      BY SlotArithmetic, ConstantsAssumption DEF Seqs
    <3>4. QED
      BY <1>0, <2>4, <2>20, <3>1, <3>2, <3>3 DEF EraseLast, TypeOK
  <2>21. CASE IoError(t)
    <3>1. Unlock(t, pc[t]) /\ pc[t] \in Appending \cup {"erase"}
      BY <2>21 DEF IoError
    <3>2. Cut(t) \subseteq Slot
      BY <3>1, WrittenType DEF AppendsCarryPayloads
    <3>3. slots' \in [SlotIds -> Slot]
      BY <2>21, <3>2 DEF IoError, TypeOK
    <3>4. pc[t] \in Locked
      BY <3>1 DEF Locked
    <3>5. QED
      BY <2>4, <2>21, <3>1, <3>3, <3>4 DEF IoError, object, ghosts, TypeOK
  <2>22. QED
    BY <1>5, <2>2, <2>5, <2>7, <2>8, <2>9, <2>10, <2>12, <2>13, <2>14, <2>15,
       <2>16, <2>17, <2>18, <2>19, <2>20, <2>21 DEF Step
<1>6. CASE UNCHANGED vars
  BY <1>6 DEF vars, TypeOK, MutexHeldOnlyInside, AppendsCarryPayloads
<1>7. QED
  BY <1>1, <1>2, <1>3, <1>4, <1>5, <1>6 DEF Next

LEMMA TInvAlways == Spec => []TInv
BY InitTInv, NextTInv, PTL DEF Spec

(* The indices stay within the ring and the log stays a sequence of        *)
(* entries, for every capacity, with every read fault and with sequence    *)
(* numbers that wrap.                                                      *)
THEOREM TypeCorrect == Spec => []TypeOK
<1>1. TInv => TypeOK
  BY DEF TInv
<1>2. QED
  BY <1>1, TInvAlways, PTL

(* Every return path of append, iterate and clear gives the mutex back,    *)
(* whatever fails and whenever the power is lost.                          *)
THEOREM MutexDiscipline == Spec => []MutexHeldOnlyInside
<1>1. TInv => MutexHeldOnlyInside
  BY DEF TInv
<1>2. QED
  BY <1>1, TInvAlways, PTL
=============================================================================
