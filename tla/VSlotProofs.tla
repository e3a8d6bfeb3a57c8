---------------------------- MODULE VSlotProofs ----------------------------
(***************************************************************************)
(* Proofs about VSlot. For all values of the constants: the types and the  *)
(* mutex discipline. When every slot can be read during init, no task      *)
(* saves or clears across a deinit, and versions do not wrap: what a       *)
(* restart finds, what a load returns, what one bad slot costs, and that   *)
(* the slots implement CrashSafeCell.                                      *)
(***************************************************************************)
EXTENDS VSlot, TLAPS

-----------------------------------------------------------------------------
(* Type correctness. *)

(* What init keeps of a non-empty set of valid slots is one of them, and   *)
(* none of them has a higher version.                                      *)
LEMMA BestIsBest ==
  ASSUME NEW ids \in SUBSET SlotIds, ids # {},
         \A i \in ids : slots[i].hdr \in Header
  PROVE  Best(ids) \in ids /\ \A j \in ids : Beats(Best(ids), j)
<1>1. \A i \in ids : slots[i].hdr.version \in Nat /\ i \in {0, 1, 2}
  BY ConstantsAssumption DEF Header, Versions, SlotIds
<1>2. \E i \in ids : \A j \in ids : Beats(i, j)
  <2>1. SUFFICES ASSUME \A i \in ids : \E j \in ids : ~Beats(i, j)
                 PROVE  FALSE
    OBVIOUS
  <2>2. PICK i0 \in ids : TRUE
    OBVIOUS
  <2>3. PICK i1 \in ids : ~Beats(i0, i1)
    BY <2>1
  <2>4. PICK i2 \in ids : ~Beats(i1, i2)
    BY <2>1
  <2>5. PICK i3 \in ids : ~Beats(i2, i3)
    BY <2>1
  <2>6. QED
    BY <1>1, <2>3, <2>4, <2>5 DEF Beats
<1>3. QED
  BY <1>2 DEF Best

LEMMA CandidatesAreSlots ==
  ASSUME NEW bad
  PROVE  /\ Candidates(bad) \in SUBSET SlotIds
         /\ \A i \in Candidates(bad) : slots[i].hdr \in Header
BY DEF Candidates, Valid

(* What a device write leaves in the slot, complete or cut, is a slot. *)
LEMMA WrittenType ==
  ASSUME TypeOK, NEW t \in Tasks, pc[t] \in Locked,
         pc[t] \in Saving => buf[t] \in Payloads
  PROVE  Written(t) \in Slot /\ Cut(t) \subseteq Slot
<1>1. Target \in Slot /\ target.version \in Versions
  BY DEF TypeOK, Target
<1>2. Written(t) \in Slot
  <2>1. CASE pc[t] = "mark"
    BY <1>1, <2>1 DEF Written, Slot, CLEAR, COMMIT, ERASED
  <2>2. CASE pc[t] = "header"
    BY <1>1, <2>2 DEF Written, Slot, Header, Saving
  <2>3. CASE pc[t] = "payload"
    BY <1>1, <2>3 DEF Written, Slot, Saving
  <2>4. CASE pc[t] = "commit"
    BY <1>1, <2>4 DEF Written, Slot, CLEAR, COMMIT, ERASED
  <2>5. CASE pc[t] = "erase"
    BY <1>1, <2>5 DEF Written, Slot, Blank, CLEAR, COMMIT, ERASED
  <2>6. QED
    BY <2>1, <2>2, <2>3, <2>4, <2>5 DEF Locked, Saving
<1>3. [Target EXCEPT !.hdr = Garbage] \in Slot /\ [Target EXCEPT !.body = Garbage] \in Slot
  BY <1>1 DEF Slot
<1>4. QED
  BY <1>1, <1>2, <1>3 DEF Cut

(* A save in progress carries a payload. *)
SavesCarryPayloads ==
  \A t \in Tasks : pc[t] \in {"save"} \cup Saving => buf[t] \in Payloads

TInv == TypeOK /\ MutexHeldOnlyInside /\ SavesCarryPayloads

LEMMA InitTInv == Init => TInv
<1>. SUFFICES ASSUME Init PROVE TInv
  OBVIOUS
<1>1. 0 \in SlotIds /\ 0 \in Versions
  BY ConstantsAssumption DEF SlotIds, Versions
<1>2. Blank \in Slot /\ Foreign \in Slot
  BY DEF Blank, Foreign, Slot, CLEAR, COMMIT, ERASED
<1>3. TypeOK
  BY <1>1, <1>2 DEF Init, TypeOK, Waiting, Locked, Saving
<1>4. MutexHeldOnlyInside /\ SavesCarryPayloads
  BY ConstantsAssumption
     DEF Init, MutexHeldOnlyInside, SavesCarryPayloads, Locked, Saving
<1>5. QED
  BY <1>3, <1>4 DEF TInv

(* The steps of a save stay within the slots and the versions. *)
LEMMA TargetType ==
  ASSUME TypeOK
  PROVE  NextVersion \in Versions /\ TargetSlot \in SlotIds
BY ConstantsAssumption
   DEF TypeOK, NextVersion, TargetSlot, Versions, SlotIds

LEMMA NextTInv == TInv /\ [Next]_vars => TInv'
<1>. SUFFICES ASSUME TInv, [Next]_vars PROVE TInv'
  OBVIOUS
<1>. USE DEF TInv
<1>1. CASE VSlotInit
  <2>1. PICK bad \in ReadFaults :
          LET found == Candidates(bad) IN
          /\ has_data' = (found # {})
          /\ active_slot' = IF found = {} THEN 0 ELSE Best(found)
          /\ active_version' = IF found = {} THEN 0
                               ELSE slots[Best(found)].hdr.version
          /\ acked' = RecoveredWithout(bad)
    BY <1>1 DEF VSlotInit
  <2>2. Candidates(bad) # {} =>
          /\ Best(Candidates(bad)) \in SlotIds
          /\ slots[Best(Candidates(bad))].hdr \in Header
    BY BestIsBest, CandidatesAreSlots
  <2>3. /\ active_slot' \in SlotIds
        /\ active_version' \in Versions
        /\ acked' \in Payloads \cup {None}
    BY <2>1, <2>2, ConstantsAssumption
       DEF SlotIds, Versions, Header, RecoveredWithout
  <2>4. TypeOK'
    BY <1>1, <2>1, <2>3 DEF VSlotInit, TypeOK
  <2>5. QED
    BY <1>1, <2>4
       DEF VSlotInit, MutexHeldOnlyInside, SavesCarryPayloads
<1>2. CASE Deinit
  BY <1>2 DEF Deinit, ghosts, TypeOK, MutexHeldOnlyInside, SavesCarryPayloads
<1>3. CASE PowerLoss
  <2>1. slots' \in [SlotIds -> Slot]
    <3>1. CASE mutex = None
      BY <1>3, <3>1 DEF PowerLoss, TypeOK
    <3>2. CASE mutex # None
      <4>1. mutex \in Tasks /\ pc[mutex] \in Locked
        BY <3>2 DEF TypeOK, MutexHeldOnlyInside
      <4>2. Cut(mutex) \subseteq Slot
        BY <4>1, WrittenType DEF SavesCarryPayloads
      <4>3. QED
        BY <1>3, <3>2, <4>2 DEF PowerLoss, TypeOK
    <3>3. QED
      BY <3>1, <3>2
  <2>2. 0 \in SlotIds /\ 0 \in Versions
    BY ConstantsAssumption DEF SlotIds, Versions
  <2>3. TypeOK'
    BY <1>3, <2>1, <2>2 DEF PowerLoss, ghosts, TypeOK
  <2>4. QED
    BY <1>3, <2>3, ConstantsAssumption
       DEF PowerLoss, MutexHeldOnlyInside, SavesCarryPayloads, Locked, Saving
<1>4. ASSUME NEW t \in Tasks, Call(t) PROVE TInv'
  <2>. USE DEF object, ghosts, MutexHeldOnlyInside, SavesCarryPayloads,
               Waiting, Locked, Saving, TypeOK
  <2>1. ASSUME NEW p \in Payloads, CallSave(t, p) PROVE TInv'
    BY <2>1 DEF CallSave
  <2>2. CASE CallLoad(t)
    BY <2>2 DEF CallLoad
  <2>3. CASE CallClear(t)
    BY <2>3 DEF CallClear
  <2>4. QED
    BY <1>4, <2>1, <2>2, <2>3 DEF Call
<1>5. ASSUME NEW t \in Tasks, Step(t) PROVE TInv'
  <2>. USE DEF object, ghosts
  <2>1. ASSUME pc[t] \in Locked
        PROVE  /\ mutex = t
               /\ \A u \in Tasks : u # t => pc[u] \notin Locked
    BY <2>1 DEF MutexHeldOnlyInside
  <2>2. CASE Timeout(t)
    BY <2>2 DEF Timeout, TypeOK, MutexHeldOnlyInside, SavesCarryPayloads,
                Waiting, Locked, Saving
  <2>3. CASE LoadRead(t)
    <3>1. buf' \in [Tasks -> Payloads \cup {None}]
      BY <2>3 DEF LoadRead, TypeOK, Valid, Header
    <3>2. \A u \in Tasks : u # t => buf'[u] = buf[u] /\ pc'[u] = pc[u]
      BY <2>3 DEF LoadRead, TypeOK
    <3>3. QED
      BY <2>3, <3>1, <3>2
         DEF LoadRead, TypeOK, MutexHeldOnlyInside, SavesCarryPayloads,
             Locked, Saving
  <2>4. CASE LockSave(t)
    <3>1. TypeOK'
      BY <2>4, TargetType
         DEF LockSave, TypeOK, SavesCarryPayloads, Locked, Saving
    <3>2. MutexHeldOnlyInside'
      BY <2>4, ConstantsAssumption
         DEF LockSave, TypeOK, MutexHeldOnlyInside, Locked, Saving
    <3>3. SavesCarryPayloads'
      BY <2>4 DEF LockSave, TypeOK, SavesCarryPayloads, Saving
    <3>4. QED
      BY <3>1, <3>2, <3>3
  <2>5. ASSUME NEW from \in Saving, NEW to \in Saving, WriteStep(t, from, to)
        PROVE  TInv'
    <3>1. Written(t) \in Slot
      BY <2>5, WrittenType DEF WriteStep, SavesCarryPayloads, Locked
    <3>2. TypeOK'
      BY <2>5, <3>1 DEF WriteStep, TypeOK, Locked
    <3>3. QED
      BY <2>5, <3>2
         DEF WriteStep, TypeOK, MutexHeldOnlyInside, SavesCarryPayloads, Locked
  <2>6. CASE ClearCommit(t)
    BY <2>5, <2>6 DEF ClearCommit, Saving
  <2>7. CASE WriteHeader(t)
    BY <2>5, <2>7 DEF WriteHeader, Saving
  <2>8. CASE WritePayload(t)
    BY <2>5, <2>8 DEF WritePayload, Saving
  <2>9. CASE WriteCommit(t)
    <3>1. pc[t] \in Locked /\ buf[t] \in Payloads
      BY <2>9 DEF WriteCommit, SavesCarryPayloads, Locked, Saving
    <3>2. Written(t) \in Slot
      BY <3>1, WrittenType
    <3>3. TypeOK'
      BY <2>9, <3>1, <3>2 DEF WriteCommit, TypeOK
    <3>4. QED
      BY <2>9, <2>1, <3>1, <3>3, ConstantsAssumption
         DEF WriteCommit, TypeOK, MutexHeldOnlyInside, SavesCarryPayloads,
             Locked, Saving
  <2>10. CASE LockClear(t)
    <3>1. TypeOK'
      BY <2>10, ConstantsAssumption
         DEF LockClear, TypeOK, SlotIds, Locked
    <3>2. QED
      BY <2>10, <3>1, ConstantsAssumption
         DEF LockClear, TypeOK, MutexHeldOnlyInside, SavesCarryPayloads,
             Locked, Saving
  <2>11. CASE EraseSlot(t)
    <3>1. Written(t) \in Slot
      BY <2>11, WrittenType DEF EraseSlot, Locked, Saving
    <3>2. TypeOK'
      BY <2>11, <3>1, ConstantsAssumption DEF EraseSlot, TypeOK, SlotIds
    <3>3. QED
      BY <2>11, <3>2 DEF EraseSlot, MutexHeldOnlyInside, SavesCarryPayloads
  <2>12. CASE EraseLast(t)
    <3>1. pc[t] \in Locked
      BY <2>12 DEF EraseLast, Locked
    <3>2. Written(t) \in Slot
      BY <2>12, WrittenType DEF EraseLast, Locked, Saving
    <3>3. 0 \in SlotIds /\ 0 \in Versions
      BY ConstantsAssumption DEF SlotIds, Versions
    <3>4. TypeOK'
      BY <2>12, <3>2, <3>3 DEF EraseLast, TypeOK
    <3>5. QED
      BY <2>12, <2>1, <3>1, <3>4, ConstantsAssumption
         DEF EraseLast, TypeOK, MutexHeldOnlyInside, SavesCarryPayloads,
             Locked, Saving
  <2>13. CASE IoError(t)
    <3>1. pc[t] \in Locked
      BY <2>13 DEF IoError
    <3>2. Cut(t) \subseteq Slot
      BY <3>1, WrittenType DEF SavesCarryPayloads
    <3>3. TypeOK'
      BY <2>13, <3>2 DEF IoError, TypeOK
    <3>4. QED
      BY <2>13, <2>1, <3>1, <3>3, ConstantsAssumption
         DEF IoError, TypeOK, MutexHeldOnlyInside, SavesCarryPayloads,
             Locked, Saving
  <2>14. QED
    BY <1>5, <2>2, <2>3, <2>4, <2>6, <2>7, <2>8, <2>9, <2>10, <2>11, <2>12,
       <2>13 DEF Step
<1>6. CASE UNCHANGED vars
  BY <1>6
     DEF vars, TypeOK, MutexHeldOnlyInside, SavesCarryPayloads
<1>7. QED
  BY <1>1, <1>2, <1>3, <1>4, <1>5, <1>6 DEF Next

LEMMA TInvAlways == Spec => []TInv
BY InitTInv, NextTInv, PTL DEF Spec

(* The variables keep the types of their C declarations, for any number of *)
(* tasks, payloads and versions and with every read fault.                 *)
THEOREM TypeCorrect == Spec => []TypeOK
<1>1. TInv => TypeOK
  BY DEF TInv
<1>2. QED
  BY <1>1, TInvAlways, PTL

(* Every return path of save and clear gives the mutex back, whatever      *)
(* fails and whenever the power is lost.                                   *)
THEOREM MutexDiscipline == Spec => []MutexHeldOnlyInside
<1>1. TInv => MutexHeldOnlyInside
  BY DEF TInv
<1>2. QED
  BY <1>1, TInvAlways, PTL

-----------------------------------------------------------------------------
(* LatestWins. The assumptions are named where they are used: every slot   *)
(* can be read during init, the object is left alone once it is closed,    *)
(* and the version never reaches the top of its range.                     *)

NoFaults ==
  /\ ReadFaults = {{}}
  /\ ~CallsAcrossDeinit
  /\ MaxVersion + 1 < VersionMod

(* m is what the slots hold, or would hold after a write that is cut. *)
ValidIn(m) == {i \in SlotIds : Valid(m[i])}

Ver(m, i) == m[i].hdr.version
Pay(m, i) == m[i].hdr.payload

Distinct(m) ==
  \A i, j \in ValidIn(m) : i # j => Ver(m, i) # Ver(m, j)

Bounded(m) == \A i \in ValidIn(m) : Ver(m, i) <= MaxVersion

(* What a restart may find: a slot with the promised payload that only *)
(* slots of later, failed saves can beat.                              *)
Promised(m) ==
  /\ acked \in Payloads =>
       \E i \in ValidIn(m) :
         /\ Pay(m, i) = acked
         /\ \A j \in ValidIn(m) : j = i \/ Ver(m, j) < Ver(m, i)
                                    \/ Pay(m, j) \in tried
  /\ acked = None => \A j \in ValidIn(m) : Pay(m, j) \in tried

MediumOK(m) == Distinct(m) /\ Bounded(m) /\ Promised(m)

(* A slot i of the medium against the object: it is the active one, an     *)
(* older one, or the target of a save that failed with its commit landed.  *)
Placed(m, i) ==
  IF has_data
  THEN \/ i = active_slot /\ Ver(m, i) = active_version
       \/ i # active_slot /\ Ver(m, i) < active_version
       \/ /\ i = TargetSlot
          /\ Ver(m, i) = active_version + 1
          /\ Pay(m, i) \in tried
  ELSE i = 0 /\ Ver(m, i) = 1 /\ Pay(m, i) \in tried

ObjectOK(m) ==
  /\ Distinct(m)
  /\ Bounded(m)
  /\ \A i \in ValidIn(m) : Placed(m, i)
  /\ acked \in Payloads =>
       has_data /\ active_slot \in ValidIn(m) /\ Pay(m, active_slot) = acked
  /\ acked = None => ~has_data
  /\ has_data => active_version <= MaxVersion

(* How far the save of the mutex holder has come. *)
SaveOK(t) ==
  /\ phase = "up"
  /\ target = [slot |-> TargetSlot, version |-> NextVersion]
  /\ NextVersion <= MaxVersion
  /\ buf[t] \in tried
  /\ pc[t] # "mark" => Target.commit = CLEAR
  /\ pc[t] \in {"payload", "commit"} =>
       Target.hdr = [version |-> target.version, payload |-> buf[t]]
  /\ pc[t] = "commit" /\ buf[t] # Empty => Target.body = buf[t]

HolderOK ==
  \A t \in Tasks :
    /\ pc[t] \in Saving => SaveOK(t)
    /\ pc[t] = "erase" =>
         /\ phase = "up"
         /\ acked = Unknown
         /\ \A i \in SlotIds : i < target.slot => ~Valid(slots[i])
    /\ pc[t] # "idle" => phase = "up"

IInv ==
  /\ TInv
  /\ MediumOK(slots)
  /\ phase = "up" => ObjectOK(slots)
  /\ phase # "up" => ~has_data
  /\ HolderOK

(* An object that agrees with the medium can be left by a power loss. *)
LEMMA ObjectImpliesMedium ==
  ASSUME TypeOK, NEW m \in [SlotIds -> Slot], ObjectOK(m)
  PROVE  MediumOK(m)
<1>1. ASSUME acked \in Payloads
      PROVE  \A j \in ValidIn(m) :
               j = active_slot \/ Ver(m, j) < Ver(m, active_slot)
                              \/ Pay(m, j) \in tried
  <2>1. active_version \in Nat /\ \A j \in ValidIn(m) : Ver(m, j) \in Nat
    BY ConstantsAssumption
       DEF TypeOK, ValidIn, Valid, Ver, Header, Versions
  <2>2. active_slot \in ValidIn(m) /\ has_data
    BY <1>1 DEF ObjectOK
  <2>3. QED
    BY <2>1, <2>2 DEF ObjectOK, Placed
<1>2. acked = None => \A j \in ValidIn(m) : Pay(m, j) \in tried
  BY DEF ObjectOK, Placed
<1>3. QED
  BY <1>1, <1>2 DEF ObjectOK, MediumOK, Promised

(* What init finds is promised: LatestWins is a fact about the medium. *)
LEMMA MediumImpliesLatest ==
  ASSUME TypeOK, MediumOK(slots)
  PROVE  LatestWins
<1>. DEFINE C == Candidates({})
            b == Best(C)
<1>1. C = ValidIn(slots)
  BY DEF Candidates, ValidIn
<1>2. ASSUME C # {} PROVE b \in C /\ \A j \in C : Beats(b, j)
  BY <1>2, BestIsBest, CandidatesAreSlots
<1>3. CASE C = {}
  BY <1>1, <1>3, ConstantsAssumption
     DEF TypeOK, MediumOK, Promised, LatestWins, Recoverable, RecoveredWithout
<1>4. CASE C # {}
  <2>1. Recoverable = Pay(slots, b)
    BY <1>4 DEF Recoverable, RecoveredWithout, Pay
  <2>2. CASE acked \in Payloads
    <3>1. PICK i \in C :
            /\ Pay(slots, i) = acked
            /\ \A j \in C : j = i \/ Ver(slots, j) < Ver(slots, i)
                                  \/ Pay(slots, j) \in tried
      BY <1>1, <2>2 DEF MediumOK, Promised
    <3>2. Ver(slots, b) \in Nat /\ Ver(slots, i) \in Nat
      BY <1>2, <1>4, CandidatesAreSlots, ConstantsAssumption
         DEF Ver, Header, Versions
    <3>3. ~(Ver(slots, b) < Ver(slots, i))
      BY <1>2, <1>4, <3>2 DEF Beats, Ver
    <3>4. QED
      BY <1>2, <1>4, <2>1, <3>1, <3>3 DEF LatestWins
  <2>3. CASE acked = None
    BY <1>1, <1>2, <1>4, <2>1, <2>3 DEF LatestWins, MediumOK, Promised
  <2>4. QED
    BY <2>2, <2>3 DEF TypeOK, LatestWins
<1>5. QED
  BY <1>3, <1>4

-----------------------------------------------------------------------------
(* What a write does to the medium. *)

(* Taking a slot away leaves the object in order if it is not the active *)
(* one, or if nothing is promised.                                       *)
LEMMA InvalidKeepsObject ==
  ASSUME TypeOK, ObjectOK(slots), NEW k \in SlotIds, NEW s \in Slot, ~Valid(s),
         acked \in Payloads => k # active_slot
  PROVE  ObjectOK([slots EXCEPT ![k] = s])
<1>. DEFINE m == [slots EXCEPT ![k] = s]
<1>1. \A i \in ValidIn(m) : i \in ValidIn(slots) /\ m[i] = slots[i]
  BY DEF ValidIn, TypeOK
<1>2. acked \in Payloads =>
        active_slot \in ValidIn(m) /\ m[active_slot] = slots[active_slot]
  BY DEF ObjectOK, ValidIn, TypeOK
<1>. HIDE DEF m
<1>3. ObjectOK(m)
  BY <1>1, <1>2 DEF ObjectOK, Distinct, Bounded, Placed, Ver, Pay
<1>4. QED
  BY <1>3 DEF m

(* The same for the slot of a save whose commit byte has landed. *)
LEMMA LandedKeepsObject ==
  ASSUME NoFaults, TypeOK, ObjectOK(slots), NextVersion <= MaxVersion,
         NEW p \in tried, NEW s \in Slot,
         s.hdr = [version |-> NextVersion, payload |-> p]
  PROVE  ObjectOK([slots EXCEPT ![TargetSlot] = s])
<1>. DEFINE m == [slots EXCEPT ![TargetSlot] = s]
<1>1. TargetSlot \in SlotIds
  BY TargetType
<1>2. /\ m[TargetSlot] = s
      /\ \A i \in ValidIn(m) : i # TargetSlot =>
                               i \in ValidIn(slots) /\ m[i] = slots[i]
  BY <1>1 DEF ValidIn, TypeOK
<1>3. Ver(m, TargetSlot) = NextVersion /\ Pay(m, TargetSlot) = p
  BY <1>2 DEF Ver, Pay
<1>4. has_data => /\ TargetSlot # active_slot
                  /\ NextVersion = active_version + 1
                  /\ active_version \in Nat
  BY ConstantsAssumption
     DEF NoFaults, TypeOK, ObjectOK, TargetSlot, NextVersion, SlotIds, Versions
<1>5. ~has_data => TargetSlot = 0 /\ NextVersion = 1
  BY DEF TargetSlot, NextVersion
<1>6. \A i \in ValidIn(m) : i # TargetSlot => Ver(m, i) # NextVersion
  <2>1. SUFFICES ASSUME NEW i \in ValidIn(m), i # TargetSlot
                 PROVE  Ver(m, i) # NextVersion
    OBVIOUS
  <2>2. Placed(slots, i) /\ Ver(m, i) = Ver(slots, i) /\ Ver(m, i) \in Nat
    BY <1>2, <2>1, ConstantsAssumption
       DEF ObjectOK, Ver, ValidIn, Valid, Header, Versions
  <2>3. QED
    BY <1>4, <1>5, <2>1, <2>2 DEF Placed
<1>. HIDE DEF m
<1>7. Distinct(m)
  BY <1>2, <1>3, <1>6 DEF ObjectOK, Distinct, Ver
<1>8. Bounded(m)
  BY <1>2, <1>3 DEF ObjectOK, Bounded, Ver
<1>9. \A i \in ValidIn(m) : Placed(m, i)
  BY <1>2, <1>3, <1>4, <1>5 DEF ObjectOK, Placed, Ver, Pay
<1>10. acked \in Payloads =>
         active_slot \in ValidIn(m) /\ m[active_slot] = slots[active_slot]
  BY <1>4 DEF ObjectOK, ValidIn, TypeOK, m
<1>11. ObjectOK(m)
  BY <1>7, <1>8, <1>9, <1>10 DEF ObjectOK, Pay
<1>12. QED
  BY <1>11 DEF m

(* A write of a save, complete or cut, leaves the slot as it was, invalid, *)
(* or with the header of the version being saved.                          *)
LEMMA CutOfSave ==
  ASSUME TInv, NEW t \in Tasks, pc[t] \in Saving, SaveOK(t), NEW s \in Cut(t)
  PROVE  \/ s = Target
         \/ ~Valid(s)
         \/ s.hdr = [version |-> NextVersion, payload |-> buf[t]]
<1>. USE DEF SaveOK, Cut, Written, Valid, CLEAR, COMMIT
<1>1. Target \in Slot /\ Garbage \notin Header
  BY ConstantsAssumption DEF TInv, TypeOK, Target
<1>2. CASE pc[t] = "mark"
  BY <1>1, <1>2 DEF Slot
<1>3. CASE pc[t] = "header"
  BY <1>1, <1>3 DEF Slot
<1>4. CASE pc[t] = "payload"
  BY <1>1, <1>4 DEF Slot
<1>5. CASE pc[t] = "commit"
  BY <1>1, <1>5 DEF Slot
<1>6. QED
  BY <1>2, <1>3, <1>4, <1>5 DEF Saving

LEMMA CutKeepsObject ==
  ASSUME NoFaults, IInv, NEW t \in Tasks, pc[t] \in Locked, NEW s \in Cut(t)
  PROVE  ObjectOK([slots EXCEPT ![target.slot] = s])
<1>1. TypeOK /\ ObjectOK(slots) /\ target.slot \in SlotIds
  BY DEF IInv, TInv, TypeOK, HolderOK, Locked, Saving
<1>2. s \in Slot
  BY WrittenType DEF IInv, TInv, SavesCarryPayloads
<1>3. CASE s = Target
  <2>1. [slots EXCEPT ![target.slot] = s] = slots
    BY <1>1, <1>3 DEF TypeOK, Target
  <2>2. QED
    BY <1>1, <2>1
<1>4. CASE pc[t] = "erase" /\ s # Target
  <2>1. acked \notin Payloads
    BY <1>4, ConstantsAssumption DEF IInv, HolderOK
  <2>2. ~Valid(s)
    BY <1>1, <1>4, ConstantsAssumption
       DEF Cut, Written, Blank, Valid, ERASED, COMMIT, Target, TypeOK, Slot
  <2>3. QED
    BY <1>1, <1>2, <2>1, <2>2, InvalidKeepsObject
<1>5. CASE pc[t] \in Saving
  <2>1. SaveOK(t)
    BY <1>5 DEF IInv, HolderOK
  <2>2. target.slot = TargetSlot /\ NextVersion <= MaxVersion /\ buf[t] \in tried
    BY <2>1 DEF SaveOK
  <2>3. acked \in Payloads => target.slot # active_slot
    BY <1>1, <2>2, ConstantsAssumption
       DEF ObjectOK, TargetSlot, TypeOK, SlotIds
  <2>4. CASE ~Valid(s)
    BY <1>1, <1>2, <2>3, <2>4, InvalidKeepsObject
  <2>5. CASE s.hdr = [version |-> NextVersion, payload |-> buf[t]]
    BY <1>1, <1>2, <2>2, <2>5, LandedKeepsObject
  <2>6. QED
    BY <1>3, <1>5, <2>1, <2>4, <2>5, CutOfSave DEF IInv
<1>6. QED
  BY <1>3, <1>4, <1>5 DEF Locked

LEMMA UpMedium == TypeOK /\ ObjectOK(slots) => MediumOK(slots)
BY ObjectImpliesMedium DEF TypeOK

-----------------------------------------------------------------------------
(* The inductive invariant. *)

LEMMA InitIInv == Init => IInv
<1>. SUFFICES ASSUME Init PROVE IInv
  OBVIOUS
<1>1. TInv
  BY InitTInv
<1>2. ValidIn(slots) = {}
  BY ConstantsAssumption DEF Init, ValidIn, Valid, Blank, Foreign
<1>3. MediumOK(slots)
  BY <1>2, ConstantsAssumption
     DEF Init, MediumOK, Distinct, Bounded, Promised
<1>4. QED
  BY <1>1, <1>3 DEF Init, IInv, HolderOK, Saving

(* Init takes over the newest slot, and with it nothing is above it. *)
LEMMA InitEstablishesObject ==
  ASSUME NoFaults, IInv, VSlotInit
  PROVE  ObjectOK(slots)'
<1>. DEFINE C == Candidates({})
            b == Best(C)
<1>1. C = ValidIn(slots) /\ slots' = slots /\ tried' = {}
  BY DEF Candidates, ValidIn, VSlotInit
<1>2. /\ has_data' = (C # {})
      /\ active_slot' = IF C = {} THEN 0 ELSE b
      /\ active_version' = IF C = {} THEN 0 ELSE Ver(slots, b)
      /\ acked' = IF C = {} THEN None ELSE Pay(slots, b)
  BY DEF VSlotInit, NoFaults, RecoveredWithout, Ver, Pay
<1>3. Distinct(slots) /\ Bounded(slots)
  BY DEF IInv, MediumOK
<1>4. ASSUME C # {}
      PROVE  /\ b \in C
             /\ Pay(slots, b) \in Payloads
             /\ \A j \in C : j = b \/ Ver(slots, j) < Ver(slots, b)
  <2>1. b \in C /\ \A j \in C : Beats(b, j)
    BY <1>4, BestIsBest, CandidatesAreSlots
  <2>2. \A j \in C : slots[j].hdr \in Header /\ Ver(slots, j) \in Nat
    BY CandidatesAreSlots, ConstantsAssumption DEF Header, Versions, Ver
  <2>3. \A j \in C : j = b \/ Ver(slots, j) < Ver(slots, b)
    BY <1>1, <1>3, <2>1, <2>2 DEF Distinct, Beats, Ver
  <2>4. QED
    BY <2>1, <2>2, <2>3 DEF Header, Pay
<1>5. \A i \in C : Ver(slots, i) <= MaxVersion
  BY <1>1, <1>3 DEF Bounded
<1>. HIDE DEF C, b
<1>6. ValidIn(slots)' = C
  BY <1>1 DEF ValidIn
<1>7. \A i \in C : Placed(slots, i)'
  BY <1>1, <1>2, <1>4 DEF Placed, Ver
<1>8. Distinct(slots)' /\ Bounded(slots)'
  BY <1>1, <1>3, <1>6 DEF Distinct, Bounded, Ver
<1>9. (acked \in Payloads =>
        has_data /\ active_slot \in ValidIn(slots)
                 /\ Pay(slots, active_slot) = acked)'
  BY <1>1, <1>2, <1>4, <1>6, ConstantsAssumption DEF Pay
<1>10. (acked = None => ~has_data)'
  BY <1>2, <1>4, ConstantsAssumption
<1>11. (has_data => active_version <= MaxVersion)'
  BY <1>2, <1>4, <1>5
<1>12. QED
  BY <1>6, <1>7, <1>8, <1>9, <1>10, <1>11 DEF ObjectOK

(* Nothing ObjectOK speaks of changes. *)
LEMMA SameObject ==
  ASSUME ObjectOK(slots), UNCHANGED <<slots, object, acked, tried>>
  PROVE  ObjectOK(slots)'
BY DEF object, ObjectOK, Distinct, Bounded, Placed, ValidIn, Ver, Pay, TargetSlot

LEMMA SameMedium ==
  ASSUME MediumOK(slots), UNCHANGED <<slots, acked, tried>>
  PROVE  MediumOK(slots)'
BY DEF MediumOK, Distinct, Bounded, Promised, ValidIn, Ver, Pay

(* A write goes to the medium and changes nothing else ObjectOK speaks of. *)
LEMMA WrittenObject ==
  ASSUME NEW m, ObjectOK(m), slots' = m, UNCHANGED <<object, acked, tried>>
  PROVE  ObjectOK(slots)'
BY DEF object, ObjectOK, Distinct, Bounded, Placed, ValidIn, Ver, Pay, TargetSlot

LEMMA WrittenMedium ==
  ASSUME NEW m, MediumOK(m), slots' = m, UNCHANGED <<acked, tried>>
  PROVE  MediumOK(slots)'
BY DEF MediumOK, Distinct, Bounded, Promised, ValidIn, Ver, Pay

(* A promise is no harder to keep with more saves tried. *)
LEMMA TriedGrows ==
  ASSUME ObjectOK(slots), UNCHANGED <<slots, object, acked>>, tried \subseteq tried'
  PROVE  ObjectOK(slots)'
BY DEF object, ObjectOK, Distinct, Bounded, Placed, ValidIn, Ver, Pay, TargetSlot

LEMMA CommitEstablishesObject ==
  ASSUME NoFaults, IInv, NEW t \in Tasks, WriteCommit(t)
  PROVE  ObjectOK(slots)'
<1>1. /\ TypeOK /\ SaveOK(t) /\ ObjectOK(slots) /\ buf[t] \in Payloads
      /\ pc[t] = "commit"
  BY DEF IInv, TInv, HolderOK, SaveOK, WriteCommit, Saving, SavesCarryPayloads
<1>. DEFINE k == target.slot
            s == Written(t)
<1>2. k \in SlotIds /\ k = TargetSlot /\ target.version = NextVersion
  BY <1>1 DEF SaveOK, TypeOK
<1>3. s = [Target EXCEPT !.commit = COMMIT] /\ Target \in Slot
  BY <1>1 DEF Written, Target, TypeOK
<1>4. s.hdr = [version |-> NextVersion, payload |-> buf[t]] /\ Valid(s)
  BY <1>1, <1>2, <1>3
     DEF SaveOK, Valid, Header, TypeOK, Slot
<1>. DEFINE m == [slots EXCEPT ![k] = s]
<1>5. /\ m[k] = s
      /\ \A i \in SlotIds : i # k => m[i] = slots[i]
  BY <1>1, <1>2 DEF TypeOK
<1>6. /\ slots' = m /\ has_data' = TRUE
      /\ active_slot' = k /\ active_version' = NextVersion
      /\ acked' = buf[t] /\ tried' = {}
  BY <1>2 DEF WriteCommit
<1>. HIDE DEF k, s, m
<1>7. k \in ValidIn(m) /\ Ver(m, k) = NextVersion /\ Pay(m, k) = buf[t]
  BY <1>2, <1>4, <1>5 DEF ValidIn, Ver, Pay
<1>8. \A i \in ValidIn(m) : i # k =>
         /\ i \in ValidIn(slots)
         /\ Ver(m, i) = Ver(slots, i)
         /\ Ver(m, i) < NextVersion
  <2>1. SUFFICES ASSUME NEW i \in ValidIn(m), i # k
                 PROVE  /\ i \in ValidIn(slots)
                        /\ Ver(m, i) = Ver(slots, i)
                        /\ Ver(slots, i) < NextVersion
    OBVIOUS
  <2>2. i \in ValidIn(slots) /\ Ver(m, i) = Ver(slots, i)
    BY <1>5, <2>1 DEF ValidIn, Ver
  <2>3. Placed(slots, i) /\ Ver(slots, i) \in Nat
    BY <1>1, <2>2, ConstantsAssumption
       DEF ObjectOK, Ver, ValidIn, Valid, Header, Versions
  <2>4. active_version \in Nat /\ (has_data => NextVersion = active_version + 1)
    BY <1>1, ConstantsAssumption
       DEF NoFaults, TypeOK, ObjectOK, NextVersion, Versions
  <2>5. ~has_data => TargetSlot = 0
    BY DEF TargetSlot
  <2>6. QED
    BY <1>2, <2>1, <2>2, <2>3, <2>4, <2>5 DEF Placed
<1>9. NextVersion \in Nat /\ NextVersion <= MaxVersion
  BY <1>1, TargetType, ConstantsAssumption DEF SaveOK, Versions
<1>10. Distinct(m) /\ Bounded(m)
  <2>1. Distinct(slots) /\ Bounded(slots)
    BY <1>1 DEF ObjectOK
  <2>2. \A i \in ValidIn(slots) : Ver(slots, i) \in Nat
    BY ConstantsAssumption DEF Ver, ValidIn, Valid, Header, Versions
  <2>3. Distinct(m)
    BY <1>7, <1>8, <1>9, <2>1, <2>2 DEF Distinct
  <2>4. Bounded(m)
    BY <1>7, <1>8, <1>9, <2>1, <2>2 DEF Bounded
  <2>5. QED
    BY <2>3, <2>4
<1>11. /\ ValidIn(slots)' = ValidIn(m)
       /\ Distinct(slots)' /\ Bounded(slots)'
  BY <1>6, <1>10 DEF ValidIn, Distinct, Bounded, Ver
<1>12. \A i \in ValidIn(m) : Placed(slots, i)'
  BY <1>6, <1>7, <1>8 DEF Placed, Ver
<1>13. Pay(slots, active_slot)' = buf[t]
  BY <1>6, <1>7 DEF Pay
<1>14. QED
  BY <1>1, <1>6, <1>7, <1>9, <1>11, <1>12, <1>13, ConstantsAssumption
     DEF ObjectOK

LEMMA NextIInv == NoFaults /\ IInv /\ [Next]_vars => IInv'
<1>. SUFFICES ASSUME NoFaults, IInv, [Next]_vars PROVE IInv'
  OBVIOUS
<1>1. TInv /\ TInv' /\ HolderOK /\ TypeOK /\ TypeOK' /\ MediumOK(slots)
  BY NextTInv DEF IInv, TInv
<1>2. (TypeOK /\ ObjectOK(slots) => MediumOK(slots))'
  BY UpMedium, PTL
<1>3. SUFFICES /\ (phase = "up" => ObjectOK(slots))'
               /\ (phase # "up" => MediumOK(slots) /\ ~has_data)'
               /\ HolderOK'
  BY <1>1, <1>2 DEF IInv
<1>4. CASE VSlotInit
  <2>1. ObjectOK(slots)' /\ phase' = "up"
    BY <1>4, InitEstablishesObject DEF VSlotInit
  <2>2. HolderOK'
    BY <1>4 DEF VSlotInit, HolderOK, Saving
  <2>3. QED
    BY <2>1, <2>2
<1>5. CASE Deinit
  <2>1. \A t \in Tasks : pc'[t] = "idle"
    BY <1>5 DEF Deinit, NoFaults
  <2>2. MediumOK(slots)' /\ phase' = "closed" /\ ~has_data'
    BY <1>1, <1>5, SameMedium DEF Deinit, ghosts
  <2>3. QED
    BY <2>1, <2>2 DEF HolderOK, Saving
<1>6. CASE PowerLoss
  <2>1. phase' = "off" /\ ~has_data' /\ \A t \in Tasks : pc'[t] = "idle"
    BY <1>6 DEF PowerLoss
  <2>2. MediumOK(slots)'
    <3>1. CASE mutex = None
      BY <1>1, <1>6, <3>1, SameMedium DEF PowerLoss, ghosts
    <3>2. CASE mutex # None
      <4>1. mutex \in Tasks /\ pc[mutex] \in Locked
        BY <1>1, <3>2 DEF TInv, TypeOK, MutexHeldOnlyInside
      <4>2. PICK s \in Cut(mutex) : slots' = [slots EXCEPT ![target.slot] = s]
        BY <1>6, <3>2 DEF PowerLoss
      <4>3. ObjectOK(slots')
        BY <4>1, <4>2, CutKeepsObject
      <4>4. MediumOK(slots')
        BY <1>1, <4>3, ObjectImpliesMedium DEF TypeOK
      <4>5. QED
        BY <1>6, <4>4, WrittenMedium DEF PowerLoss, ghosts
    <3>3. QED
      BY <3>1, <3>2
  <2>3. QED
    BY <2>1, <2>2 DEF HolderOK, Saving
<1>7. ASSUME NEW t \in Tasks, Call(t) PROVE phase = "up"
  BY <1>7 DEF IInv, Call, CallSave, CallLoad, CallClear, Callable, NoFaults
<1>8. ASSUME NEW t \in Tasks, Step(t) PROVE phase = "up"
  <2>1. pc[t] # "idle"
    BY <1>8
       DEF Step, Timeout, LoadRead, LockSave, ClearCommit, WriteHeader,
           WritePayload, WriteStep, WriteCommit, LockClear, EraseSlot,
           EraseLast, IoError, Waiting, Locked, Saving
  <2>2. QED
    BY <1>1, <2>1 DEF HolderOK
<1>9. ASSUME NEW t \in Tasks, Call(t) \/ Step(t)
      PROVE  ObjectOK(slots)' /\ HolderOK' /\ phase' = "up"
  <2>1. phase = "up" /\ phase' = "up" /\ ObjectOK(slots)
    BY <1>7, <1>8, <1>9
       DEF IInv, Call, CallSave, CallLoad, CallClear, Step, Timeout, LoadRead,
           LockSave, ClearCommit, WriteHeader, WritePayload, WriteStep,
           WriteCommit, LockClear, EraseSlot, EraseLast, IoError
  <2>2. \A u \in Tasks : u # t => pc'[u] = pc[u] /\ buf'[u] = buf[u]
    BY <1>1, <1>9
       DEF TypeOK, Call, CallSave, CallLoad, CallClear, Step, Timeout,
           LoadRead, LockSave, ClearCommit, WriteHeader, WritePayload,
           WriteStep, WriteCommit, LockClear, EraseSlot, EraseLast, IoError
  <2>3. pc[t] \in Locked => \A u \in Tasks : u # t => pc[u] \notin Locked
    BY <1>1 DEF TInv, MutexHeldOnlyInside
  <2>4. mutex = None => \A u \in Tasks : pc[u] \notin Locked
    BY <1>1, ConstantsAssumption DEF TInv, MutexHeldOnlyInside
  <2>5. ASSUME UNCHANGED <<slots, object, phase, target, acked, tried>>,
               pc'[t] \notin Locked
        PROVE  ObjectOK(slots)' /\ HolderOK'
    <3>1. ObjectOK(slots)'
      BY <2>1, <2>5, SameObject DEF object
    <3>2. HolderOK'
      BY <1>1, <2>1, <2>2, <2>5
         DEF HolderOK, SaveOK, TargetSlot, NextVersion, Target, object,
             Locked, Saving
    <3>3. QED
      BY <3>1, <3>2
  <2>6. CASE Call(t)
    BY <1>1, <2>1, <2>5, <2>6
       DEF Call, CallSave, CallLoad, CallClear, ghosts, TypeOK, Locked, Saving
  <2>7. CASE Timeout(t) \/ LoadRead(t)
    BY <1>1, <2>1, <2>5, <2>7
       DEF Timeout, LoadRead, ghosts, TypeOK, Locked, Saving
  <2>8. CASE LockSave(t)
    <3>1. ObjectOK(slots)'
      BY <2>1, <2>8, TriedGrows DEF LockSave
    <3>2. SaveOK(t)'
      BY <1>1, <2>1, <2>8
         DEF LockSave, SaveOK, TypeOK, object, TargetSlot, NextVersion
    <3>3. HolderOK'
      BY <2>1, <2>2, <2>4, <2>8, <3>2
         DEF LockSave, TypeOK, HolderOK, Locked, Saving
    <3>4. QED
      BY <2>1, <3>1, <3>3
  <2>9. ASSUME NEW from \in {"mark", "header", "payload"},
               NEW to \in {"header", "payload", "commit"},
               WriteStep(t, from, to),
               to = "header" => from = "mark",
               to = "payload" => from = "header",
               to = "commit" /\ buf[t] # Empty => from = "payload",
               to = "commit" => from # "mark"
        PROVE  ObjectOK(slots)' /\ HolderOK'
    <3>1. pc[t] \in Locked /\ Written(t) \in Cut(t) /\ SaveOK(t)
      BY <1>1, <2>9 DEF WriteStep, Cut, HolderOK, Locked, Saving
    <3>2. ObjectOK(slots)'
      <4>1. ObjectOK(slots')
        BY <2>9, <3>1, CutKeepsObject DEF WriteStep
      <4>2. QED
        BY <2>9, <4>1, WrittenObject DEF WriteStep, ghosts
    <3>3. SaveOK(t)'
      <4>1. Target' = Written(t) /\ Target \in Slot
        BY <1>1, <2>9 DEF WriteStep, Target, TypeOK
      <4>2. pc'[t] = to /\ pc[t] = from
        BY <1>1, <2>9 DEF WriteStep, TypeOK
      <4>3. (pc[t] # "mark" => Target.commit = CLEAR)'
        BY <2>9, <3>1, <4>1, <4>2 DEF SaveOK, Written, Slot
      <4>4. (pc[t] \in {"payload", "commit"} =>
              Target.hdr = [version |-> target.version, payload |-> buf[t]])'
        BY <2>9, <3>1, <4>1, <4>2 DEF SaveOK, Written, Slot, WriteStep
      <4>5. (pc[t] = "commit" /\ buf[t] # Empty => Target.body = buf[t])'
        BY <2>9, <3>1, <4>1, <4>2 DEF SaveOK, Written, Slot, WriteStep
      <4>6. QED
        BY <2>9, <3>1, <4>3, <4>4, <4>5
           DEF SaveOK, WriteStep, object, ghosts, TargetSlot, NextVersion
    <3>4. HolderOK'
      BY <1>1, <2>1, <2>2, <2>3, <2>9, <3>1, <3>3
         DEF WriteStep, TypeOK, HolderOK, Locked, Saving
    <3>5. QED
      BY <3>2, <3>4
  <2>10. CASE ClearCommit(t) \/ WriteHeader(t) \/ WritePayload(t)
    BY <2>1, <2>9, <2>10 DEF ClearCommit, WriteHeader, WritePayload
  <2>11. CASE WriteCommit(t)
    <3>1. ObjectOK(slots)'
      BY <2>11, CommitEstablishesObject
    <3>2. HolderOK'
      BY <1>1, <2>1, <2>2, <2>3, <2>11
         DEF WriteCommit, TypeOK, HolderOK, Locked, Saving
    <3>3. QED
      BY <2>1, <3>1, <3>2
  <2>12. CASE LockClear(t)
    <3>1. ObjectOK(slots)'
      BY <2>1, <2>12, ConstantsAssumption
         DEF LockClear, object, ObjectOK, Distinct, Bounded, Placed, ValidIn,
             Ver, Pay, TargetSlot
    <3>2. target'.slot = 0 /\ \A i \in SlotIds : ~(i < 0)
      BY <1>1, <2>12, ConstantsAssumption DEF LockClear, TypeOK, SlotIds
    <3>3. \A u \in Tasks : u # t => pc'[u] \notin Locked
      BY <2>2, <2>4, <2>12 DEF LockClear
    <3>4. HolderOK'
      BY <1>1, <2>1, <2>2, <2>12, <3>2, <3>3
         DEF LockClear, TypeOK, HolderOK, Locked, Saving
    <3>5. QED
      BY <2>1, <3>1, <3>4
  <2>13. ASSUME pc[t] = "erase",
                slots' = [slots EXCEPT ![target.slot] = Written(t)]
         PROVE  \A i \in SlotIds : i <= target.slot => ~Valid(slots'[i])
    <3>1. ~Valid(Written(t))
      BY <2>13 DEF Written, Blank, Valid, COMMIT, ERASED
    <3>2. target.slot \in SlotIds /\ SlotIds \subseteq Nat
      BY <1>1, ConstantsAssumption DEF TypeOK, SlotIds
    <3>3. \A i \in SlotIds : i < target.slot => ~Valid(slots[i])
      BY <1>1, <2>13 DEF HolderOK
    <3>4. ASSUME NEW i \in SlotIds, i <= target.slot PROVE ~Valid(slots'[i])
      <4>1. CASE i = target.slot
        BY <1>1, <2>13, <3>1, <3>2, <4>1 DEF TypeOK
      <4>2. CASE i # target.slot
        <5>1. i < target.slot
          <6>1. i \in Nat /\ target.slot \in Nat
            BY <3>2
          <6>2. QED
            BY <3>4, <4>2, <6>1
        <5>2. slots'[i] = slots[i]
          BY <1>1, <2>13, <4>2 DEF TypeOK
        <5>3. QED
          BY <3>3, <5>1, <5>2
      <4>3. QED
        BY <4>1, <4>2
    <3>5. QED
      BY <3>4
  <2>14. CASE EraseSlot(t)
    <3>1. pc[t] \in Locked /\ Written(t) \in Cut(t)
      BY <2>14 DEF EraseSlot, Cut, Locked
    <3>2. ObjectOK(slots)'
      <4>1. ObjectOK(slots')
        BY <2>14, <3>1, CutKeepsObject DEF EraseSlot
      <4>2. QED
        BY <2>14, <4>1, WrittenObject DEF EraseSlot, ghosts
    <3>3. \A i \in SlotIds : i < target'.slot => ~Valid(slots'[i])
      <4>1. target'.slot = target.slot + 1 /\ target.slot \in Nat
        BY <1>1, <2>14, ConstantsAssumption DEF EraseSlot, TypeOK, SlotIds
      <4>2. QED
        BY <2>13, <2>14, <4>1, ConstantsAssumption DEF EraseSlot, SlotIds
    <3>4. \A u \in Tasks : u # t => pc'[u] \notin Locked
      BY <2>2, <2>3, <3>1
    <3>5. pc'[t] = "erase" /\ phase' = "up" /\ acked' = Unknown
      BY <1>1, <2>1, <2>14 DEF EraseSlot, ghosts, HolderOK
    <3>6. HolderOK'
      BY <3>3, <3>4, <3>5, <2>1 DEF HolderOK, Locked, Saving
    <3>7. QED
      BY <2>1, <3>2, <3>6
  <2>15. CASE EraseLast(t)
    <3>1. \A i \in SlotIds : ~Valid(slots'[i])
      BY <2>13, <2>15, ConstantsAssumption DEF EraseLast, SlotIds
    <3>2. ValidIn(slots)' = {} /\ has_data' = FALSE /\ acked' = None
      BY <2>15, <3>1 DEF EraseLast, ValidIn
    <3>3. ObjectOK(slots)'
      BY <3>2, ConstantsAssumption DEF ObjectOK, Distinct, Bounded
    <3>4. pc[t] \in Locked
      BY <2>15 DEF EraseLast, Locked
    <3>5. HolderOK'
      BY <1>1, <2>1, <2>2, <2>3, <2>15, <3>4
         DEF EraseLast, TypeOK, HolderOK, Locked, Saving
    <3>6. QED
      BY <2>1, <3>3, <3>5
  <2>16. CASE IoError(t)
    <3>1. PICK s \in Cut(t) : slots' = [slots EXCEPT ![target.slot] = s]
      BY <2>16 DEF IoError
    <3>2. ObjectOK(slots')
      BY <2>16, <3>1, CutKeepsObject DEF IoError
    <3>3. ObjectOK(slots)'
      BY <2>16, <3>2, WrittenObject DEF IoError, ghosts
    <3>4. HolderOK'
      BY <1>1, <2>1, <2>2, <2>3, <2>16
         DEF IoError, TypeOK, HolderOK, Locked, Saving
    <3>5. QED
      BY <2>1, <3>3, <3>4
  <2>17. QED
    BY <1>9, <2>6, <2>7, <2>8, <2>10, <2>11, <2>12, <2>14, <2>15, <2>16
       DEF Step
<1>10. CASE UNCHANGED vars
  <2>1. (phase = "up" => ObjectOK(slots))'
    BY <1>10, SameObject DEF IInv, vars, object
  <2>2. (phase # "up" => MediumOK(slots) /\ ~has_data)'
    BY <1>10, SameMedium DEF IInv, vars
  <2>3. HolderOK'
    BY <1>1, <1>10
       DEF vars, HolderOK, SaveOK, TargetSlot, NextVersion, Target
  <2>4. QED
    BY <2>1, <2>2, <2>3
<1>11. QED
  BY <1>4, <1>5, <1>6, <1>9, <1>10 DEF Next

LEMMA IInvAlways == NoFaults => (Spec => []IInv)
<1>. SUFFICES ASSUME NoFaults PROVE Spec => []IInv
  OBVIOUS
<1>1. IInv /\ [Next]_vars => IInv'
  BY NextIInv
<1>2. QED
  BY <1>1, InitIInv, PTL DEF Spec

(* Latest wins: for any number of tasks, payloads and power losses, when   *)
(* every slot can be read and versions do not wrap, a restart finds the    *)
(* payload of the last save that returned OK or of one begun after it.     *)
THEOREM LatestWinsAlways == NoFaults => (Spec => []LatestWins)
<1>. SUFFICES ASSUME NoFaults PROVE Spec => []LatestWins
  OBVIOUS
<1>1. IInv => LatestWins
  BY MediumImpliesLatest DEF IInv, TInv
<1>2. QED
  BY <1>1, IInvAlways, PTL

(* The promised payload can be loaded from the active slot at every moment, *)
(* whatever other tasks' saves are in the middle of.                        *)
THEOREM ActiveSlotAlwaysIntact == NoFaults => (Spec => []ActiveSlotIntact)
<1>. SUFFICES ASSUME NoFaults PROVE Spec => []ActiveSlotIntact
  OBVIOUS
<1>1. IInv => ActiveSlotIntact
  BY DEF IInv, ObjectOK, ValidIn, Pay, ActiveSlotIntact
<1>2. QED
  BY <1>1, IInvAlways, PTL


-----------------------------------------------------------------------------
(* What a restart finds, and what a save that returned OK leaves there. *)

(* The slot that no other candidate's version reaches is what init keeps. *)
LEMMA NewestIsFound ==
  ASSUME NEW bad, NEW i \in Candidates(bad),
         \A k \in Candidates(bad) : k = i \/ Ver(slots, k) < Ver(slots, i)
  PROVE  RecoveredWithout(bad) = Pay(slots, i)
<1>. DEFINE C == Candidates(bad)
            b == Best(C)
<1>1. b \in C /\ \A j \in C : Beats(b, j)
  BY BestIsBest, CandidatesAreSlots
<1>2. \A j \in C : Ver(slots, j) \in Nat
  BY CandidatesAreSlots, ConstantsAssumption DEF Header, Versions, Ver
<1>3. b = i
  BY <1>1, <1>2 DEF Beats, Ver
<1>4. QED
  BY <1>3 DEF RecoveredWithout, Pay

LEMMA IInvIsLatest == IInv => LatestWins
BY MediumImpliesLatest DEF IInv, TInv

LEMMA IInvIsLatestNext == IInv' => LatestWins'
BY IInvIsLatest, PTL

LEMMA CommitTakesEffect ==
  ASSUME IInv, IInv', NEW t \in Tasks, WriteCommit(t)
  PROVE  Recoverable' = buf[t]
<1>1. buf[t] \in Payloads
  BY DEF IInv, TInv, SavesCarryPayloads, WriteCommit, Saving
<1>2. acked' = buf[t] /\ tried' = {}
  BY DEF WriteCommit
<1>3. QED
  BY <1>1, <1>2, IInvIsLatestNext, ConstantsAssumption DEF LatestWins

(* When save returns OK, init would find exactly what was saved, whatever  *)
(* other tasks, failed saves and power losses came before. (Where slots    *)
(* cannot be read it is false: MCVSlot_unreadable.cfg shows how.)          *)
THEOREM SaveAlwaysTakesEffect == NoFaults => (Spec => SaveTakesEffect)
<1>. SUFFICES ASSUME NoFaults PROVE Spec => SaveTakesEffect
  OBVIOUS
<1>1. IInv /\ IInv' => \A t \in Tasks : WriteCommit(t) => Recoverable' = buf[t]
  BY CommitTakesEffect
<1>2. QED
  BY <1>1, IInvAlways, PTL DEF Spec, SaveTakesEffect

-----------------------------------------------------------------------------
(* Loads. A load looks at has_data, waits for the mutex and reads the slot *)
(* that is active then, so the object is what it relies on.                *)

LoadsStartEmpty == \A t \in Tasks : pc[t] = "load" => buf[t] = None

LEMMA NextLoadsStartEmpty ==
  ASSUME TInv, LoadsStartEmpty, [Next]_vars
  PROVE  LoadsStartEmpty'
<1>1. pc \in [Tasks -> {"idle"} \cup Waiting \cup Locked] /\ DOMAIN buf = Tasks
  BY DEF TInv, TypeOK
<1>2. CASE VSlotInit \/ Deinit \/ PowerLoss \/ UNCHANGED vars
  BY <1>2 DEF VSlotInit, Deinit, PowerLoss, vars, LoadsStartEmpty
<1>3. ASSUME NEW t \in Tasks, Call(t) PROVE LoadsStartEmpty'
  BY <1>1, <1>3 DEF Call, CallSave, CallLoad, CallClear, LoadsStartEmpty
<1>4. ASSUME NEW t \in Tasks, Step(t) PROVE LoadsStartEmpty'
  <2>1. /\ pc'[t] # "load"
        /\ \A u \in Tasks : u # t => pc'[u] = pc[u] /\ buf'[u] = buf[u]
    BY <1>1, <1>4
       DEF Step, Timeout, LoadRead, LockSave, ClearCommit, WriteHeader,
           WritePayload, WriteStep, WriteCommit, LockClear, EraseSlot,
           EraseLast, IoError
  <2>2. QED
    BY <2>1 DEF LoadsStartEmpty
<1>5. QED
  BY <1>2, <1>3, <1>4 DEF Next

(* The only step by which a load gets a payload is its read, and what it   *)
(* reads then is what the object was last promised to hold, or a save that *)
(* failed with everything written.                                         *)
LEMMA LoadIsFresh ==
  ASSUME NoFaults, IInv, LoadsStartEmpty, [Next]_vars,
         NEW t \in Tasks, pc[t] = "load", buf'[t] # None, acked # Unknown
  PROVE  buf'[t] \in {acked} \cup tried
<1>1. /\ phase = "up" /\ ObjectOK(slots) /\ buf[t] = None
      /\ acked \in Payloads \cup {None} /\ active_slot \in SlotIds
      /\ DOMAIN buf = Tasks /\ pc[t] # "idle"
  BY DEF IInv, HolderOK, LoadsStartEmpty, TInv, TypeOK
<1>2. LoadRead(t)
  <2>1. buf'[t] # buf[t]
    BY <1>1
  <2>2. ~VSlotInit /\ ~Deinit /\ ~PowerLoss /\ ~UNCHANGED vars
    BY <1>1, <2>1 DEF VSlotInit, Deinit, PowerLoss, vars
  <2>3. \A u \in Tasks : ~Call(u)
    BY <1>1, <2>1 DEF Call, CallSave, CallLoad, CallClear
  <2>4. ASSUME NEW u \in Tasks, Step(u) PROVE u = t /\ LoadRead(t)
    BY <1>1, <2>1, <2>4
       DEF Step, Timeout, LoadRead, LockSave, ClearCommit, WriteHeader,
           WritePayload, WriteStep, WriteCommit, LockClear, EraseSlot,
           EraseLast, IoError
  <2>5. QED
    BY <2>2, <2>3, <2>4 DEF Next
<1>3. active_slot \in ValidIn(slots) /\ buf'[t] = Pay(slots, active_slot)
  BY <1>1, <1>2 DEF LoadRead, ValidIn, Pay
<1>4. CASE acked \in Payloads
  BY <1>1, <1>3, <1>4 DEF ObjectOK
<1>5. CASE acked = None
  BY <1>1, <1>3, <1>5 DEF ObjectOK, Placed
<1>6. QED
  BY <1>1, <1>4, <1>5

(* No load returns anything older than the payload last promised, whatever *)
(* saves, clears and failures of other tasks run between its look at       *)
(* has_data and its read.                                                  *)
THEOREM LoadsAlwaysFresh == NoFaults => (Spec => LoadsAreFresh)
<1>. SUFFICES ASSUME NoFaults PROVE Spec => LoadsAreFresh
  OBVIOUS
<1>1. Init => LoadsStartEmpty
  BY DEF Init, LoadsStartEmpty
<1>2. IInv /\ LoadsStartEmpty /\ [Next]_vars => LoadsStartEmpty'
  BY NextLoadsStartEmpty DEF IInv
<1>3. IInv /\ LoadsStartEmpty /\ [Next]_vars =>
        \A t \in Tasks : pc[t] = "load" /\ buf'[t] # None /\ acked # Unknown
                           => buf'[t] \in {acked} \cup tried
  BY LoadIsFresh
<1>4. QED
  BY <1>1, <1>2, <1>3, IInvAlways, PTL DEF Spec, LoadsAreFresh

-----------------------------------------------------------------------------
(* Two generations. ObjectOK speaks of the active slot only, so the slot   *)
(* before it needs an invariant of its own: while no save was begun since  *)
(* the last that returned OK, the two newest slots hold the last payload   *)
(* and the one before it.                                                  *)

(* i is the newest slot of m and j the one before it. *)
Newest(m, i, j) ==
  /\ i \in ValidIn(m) /\ j \in ValidIn(m)
  /\ Ver(m, j) < Ver(m, i)
  /\ \A k \in ValidIn(m) : k \in {i, j} \/ Ver(m, k) < Ver(m, j)

GenerationsOK ==
  acked \in Payloads /\ prev \in Payloads /\ tried = {} =>
    \E i, j \in SlotIds :
      Newest(slots, i, j) /\ Pay(slots, i) = acked /\ Pay(slots, j) = prev

(* Without the newest slot init keeps the other; without any other slot it *)
(* keeps the newest.                                                       *)
LEMMA GenerationsSurvive ==
  ASSUME GenerationsOK
  PROVE  SurvivesOneBadSlot
<1>1. SUFFICES ASSUME acked \in Payloads, prev \in Payloads, tried = {},
                      NEW x \in SlotIds
               PROVE  RecoveredWithout({x}) \in {acked, prev}
  BY DEF SurvivesOneBadSlot
<1>2. PICK i \in SlotIds, j \in SlotIds :
        Newest(slots, i, j) /\ Pay(slots, i) = acked /\ Pay(slots, j) = prev
  BY <1>1 DEF GenerationsOK
<1>3. \A k \in ValidIn(slots) : Ver(slots, k) \in Nat
  BY ConstantsAssumption DEF Ver, ValidIn, Valid, Header, Versions
<1>4. Candidates({x}) = ValidIn(slots) \ {x}
  BY DEF Candidates, ValidIn
<1>5. CASE x = i
  <2>1. j \in Candidates({x})
    BY <1>2, <1>3, <1>4, <1>5 DEF Newest
  <2>2. \A k \in Candidates({x}) : k = j \/ Ver(slots, k) < Ver(slots, j)
    BY <1>2, <1>4, <1>5 DEF Newest
  <2>3. QED
    BY <1>2, <2>1, <2>2, NewestIsFound
<1>6. CASE x # i
  <2>1. i \in Candidates({x})
    BY <1>2, <1>4, <1>6 DEF Newest
  <2>2. \A k \in Candidates({x}) : k = i \/ Ver(slots, k) < Ver(slots, i)
    BY <1>2, <1>3, <1>4 DEF Newest
  <2>3. QED
    BY <1>2, <2>1, <2>2, NewestIsFound
<1>7. QED
  BY <1>5, <1>6

(* A save leaves its payload above the one it replaces, and every other    *)
(* slot below.                                                             *)
LEMMA CommitMakesGenerations ==
  ASSUME NoFaults, IInv, IInv', NEW t \in Tasks, WriteCommit(t)
  PROVE  GenerationsOK'
<1>1. SUFFICES ASSUME prev' \in Payloads PROVE GenerationsOK'
  BY DEF GenerationsOK
<1>2. acked \in Payloads /\ prev' = acked /\ acked' = buf[t]
  BY <1>1, ConstantsAssumption DEF WriteCommit, IInv, TInv, TypeOK
<1>3. /\ ObjectOK(slots) /\ pc[t] = "commit" /\ SaveOK(t) /\ TypeOK
      /\ target.slot = TargetSlot /\ target.version = NextVersion
  BY DEF IInv, TInv, HolderOK, SaveOK, WriteCommit, Saving
<1>4. PICK i \in SlotIds : i = target.slot
  BY <1>3 DEF TypeOK
<1>5. PICK j \in SlotIds : j = active_slot
  BY <1>3 DEF TypeOK
<1>6. has_data /\ j \in ValidIn(slots) /\ Pay(slots, j) = acked
  BY <1>2, <1>3, <1>5 DEF ObjectOK
<1>7. i # j /\ active_version \in Nat /\ target.version = active_version + 1
  BY <1>3, <1>4, <1>5, <1>6, ConstantsAssumption
     DEF NoFaults, TypeOK, ObjectOK, TargetSlot, NextVersion, SlotIds, Versions
<1>8. \A k \in SlotIds : k # i => slots'[k] = slots[k]
  BY <1>3, <1>4 DEF WriteCommit, TypeOK
<1>9. slots'[i] = [Target EXCEPT !.commit = COMMIT]
  BY <1>3, <1>4 DEF WriteCommit, Written, TypeOK
<1>10. /\ Valid(slots'[i])
       /\ slots'[i].hdr = [version |-> target.version, payload |-> buf[t]]
  BY <1>3, <1>9 DEF SaveOK, Valid, Header, TypeOK, Slot, Target,
       IInv, TInv, SavesCarryPayloads, Saving
<1>11. \A k \in ValidIn(slots) : k = i \/ k = j \/ Ver(slots, k) < active_version
  BY <1>3, <1>4, <1>5, <1>6 DEF ObjectOK, Placed
<1>12. Ver(slots, j) = active_version
  BY <1>3, <1>4, <1>5, <1>6, <1>7 DEF ObjectOK, Placed, TargetSlot
<1>13. Newest(slots', i, j)
  BY <1>6, <1>7, <1>8, <1>10, <1>11, <1>12 DEF Newest, ValidIn, Ver
<1>14. Pay(slots', i) = acked' /\ Pay(slots', j) = prev'
  BY <1>2, <1>6, <1>7, <1>8, <1>10 DEF Pay
<1>15. (\E k, l \in SlotIds :
          Newest(slots, k, l) /\ Pay(slots, k) = acked /\ Pay(slots, l) = prev)'
  BY <1>13, <1>14 DEF Newest, ValidIn, Ver, Pay
<1>16. QED
  BY <1>15 DEF GenerationsOK

LEMMA NextGenerations ==
  ASSUME NoFaults, IInv, IInv', GenerationsOK, [Next]_vars
  PROVE  GenerationsOK'
<1>. USE DEF ghosts
<1>1. ASSUME UNCHANGED slots,
             acked' \in Payloads /\ prev' \in Payloads /\ tried' = {} =>
               tried = {} /\ acked' = acked /\ prev' = prev
      PROVE  GenerationsOK'
  BY <1>1 DEF GenerationsOK, Newest, ValidIn, Ver, Pay
<1>2. CASE VSlotInit
  <2>1. acked' = Recoverable
    BY <1>2 DEF VSlotInit, NoFaults, Recoverable
  <2>2. prev' \in Payloads => tried = {} /\ acked # Unknown /\ prev' = prev
    BY <1>2, ConstantsAssumption DEF VSlotInit
  <2>3. LatestWins
    BY IInvIsLatest
  <2>4. UNCHANGED slots
    BY <1>2 DEF VSlotInit
  <2>5. QED
    BY <1>1, <2>1, <2>2, <2>3, <2>4 DEF LatestWins
<1>3. CASE Deinit \/ UNCHANGED vars
  BY <1>1, <1>3 DEF Deinit, vars
<1>4. ASSUME NEW t \in Tasks, pc[t] \in Locked,
             UNCHANGED <<acked, prev, tried>>
      PROVE  GenerationsOK'
  <2>1. tried # {} \/ acked = Unknown
    BY <1>4 DEF IInv, HolderOK, SaveOK, Locked
  <2>2. QED
    BY <1>4, <2>1, ConstantsAssumption DEF GenerationsOK
<1>5. CASE PowerLoss
  <2>1. CASE mutex = None
    BY <1>1, <1>5, <2>1 DEF PowerLoss
  <2>2. CASE mutex # None
    BY <1>4, <1>5, <2>2
       DEF PowerLoss, IInv, TInv, TypeOK, MutexHeldOnlyInside
  <2>3. QED
    BY <2>1, <2>2
<1>6. ASSUME NEW t \in Tasks, Call(t) PROVE GenerationsOK'
  BY <1>1, <1>6 DEF Call, CallSave, CallLoad, CallClear
<1>7. ASSUME NEW t \in Tasks, Step(t) PROVE GenerationsOK'
  <2>1. CASE Timeout(t) \/ LoadRead(t)
    BY <1>1, <2>1 DEF Timeout, LoadRead
  <2>2. CASE LockSave(t)
    BY <2>2 DEF LockSave, GenerationsOK
  <2>3. CASE \/ ClearCommit(t) \/ WriteHeader(t) \/ WritePayload(t)
             \/ EraseSlot(t) \/ IoError(t)
    BY <1>4, <2>3
       DEF ClearCommit, WriteHeader, WritePayload, WriteStep, EraseSlot,
           IoError, Locked, Saving
  <2>4. CASE WriteCommit(t)
    BY <2>4, CommitMakesGenerations
  <2>5. CASE LockClear(t) \/ EraseLast(t)
    BY <2>5, ConstantsAssumption DEF LockClear, EraseLast, GenerationsOK
  <2>6. QED
    BY <1>7, <2>1, <2>2, <2>3, <2>4, <2>5 DEF Step
<1>8. QED
  BY <1>2, <1>3, <1>5, <1>6, <1>7 DEF Next

(* With no save begun since the last one that returned OK, the medium      *)
(* survives the loss of any one slot: init then finds the last payload or  *)
(* the one before it.                                                      *)
THEOREM OneBadSlotSurvived == NoFaults => (Spec => []SurvivesOneBadSlot)
<1>. SUFFICES ASSUME NoFaults PROVE Spec => []SurvivesOneBadSlot
  OBVIOUS
<1>1. Init => GenerationsOK
  BY ConstantsAssumption DEF Init, GenerationsOK
<1>2. IInv /\ IInv' /\ GenerationsOK /\ [Next]_vars => GenerationsOK'
  BY NextGenerations
<1>3. GenerationsOK => SurvivesOneBadSlot
  BY GenerationsSurvive
<1>4. QED
  BY <1>1, <1>2, <1>3, IInvAlways, PTL DEF Spec

-----------------------------------------------------------------------------
(* The refinement: what the slots do, seen as one crash-safe cell.         *)

(* The payload of each task's save under way, as the cell sees it. *)
Pend == [t \in Tasks |-> IF pc[t] \in {"save"} \cup Saving THEN buf[t]
                                                           ELSE None]

LEMMA FoundIs ==
  /\ \A i \in ValidIn(slots) :
       (\A k \in ValidIn(slots) : k = i \/ Ver(slots, k) < Ver(slots, i)) =>
         Recoverable = Pay(slots, i)
  /\ ValidIn(slots) = {} => Recoverable = None
  /\ Recoverable \in Payloads \cup {None}
<1>1. Candidates({}) = ValidIn(slots)
  BY DEF Candidates, ValidIn
<1>2. \A i \in ValidIn(slots) :
        (\A k \in ValidIn(slots) : k = i \/ Ver(slots, k) < Ver(slots, i)) =>
          Recoverable = Pay(slots, i)
  BY <1>1, NewestIsFound DEF Recoverable
<1>3. ValidIn(slots) = {} => Recoverable = None
  BY <1>1 DEF Recoverable, RecoveredWithout
<1>4. ValidIn(slots) # {} => Recoverable \in Payloads
  <2>1. SUFFICES ASSUME ValidIn(slots) # {} PROVE Recoverable \in Payloads
    OBVIOUS
  <2>2. Best(Candidates({})) \in Candidates({})
    BY <1>1, <2>1, BestIsBest, CandidatesAreSlots
  <2>3. QED
    BY <1>1, <2>1, <2>2, CandidatesAreSlots
       DEF Recoverable, RecoveredWithout, Header
<1>5. QED
  BY <1>2, <1>3, <1>4

LEMMA FoundIsNext ==
  /\ \A i \in ValidIn(slots') :
       (\A k \in ValidIn(slots') : k = i \/ Ver(slots', k) < Ver(slots', i)) =>
         Recoverable' = Pay(slots', i)
  /\ ValidIn(slots') = {} => Recoverable' = None
  /\ Recoverable' \in Payloads \cup {None}
<1>1. (/\ \A i \in ValidIn(slots) :
            (\A k \in ValidIn(slots) :
               k = i \/ Ver(slots, k) < Ver(slots, i)) =>
              Recoverable = Pay(slots, i)
       /\ ValidIn(slots) = {} => Recoverable = None
       /\ Recoverable \in Payloads \cup {None})'
  BY FoundIs, PTL
<1>2. ValidIn(slots)' = ValidIn(slots')
  BY DEF ValidIn
<1>3. \A i : Ver(slots, i)' = Ver(slots', i) /\ Pay(slots, i)' = Pay(slots', i)
  BY DEF Ver, Pay
<1>4. QED
  BY <1>1, <1>2, <1>3

LEMMA RecoverableFrame == UNCHANGED slots => Recoverable' = Recoverable
BY DEF Recoverable, RecoveredWithout, Candidates, Best, Beats

(* What is found at any moment may be found again. *)
LEMMA SlackHolds ==
  /\ Recoverable \in Cell!Slack
  /\ acked = Unknown => Cell!Slack = Payloads \cup {None}
  /\ acked # Unknown => Cell!Slack = {Recoverable, acked}
BY FoundIs DEF Cell!Slack, Cell!Found

(* After a write of the mutex holder, complete or cut, a restart finds     *)
(* what it found before or what was promised: unless the commit byte of a  *)
(* save has landed, when it finds that save's payload.                     *)
LEMMA CutFinds ==
  ASSUME NoFaults, IInv, NEW t \in Tasks, pc[t] \in Locked, NEW s \in Cut(t),
         slots' = [slots EXCEPT ![target.slot] = s]
  PROVE  \/ Recoverable' \in Cell!Slack
         \/ pc[t] \in Saving /\ Valid(s) /\ Recoverable' = buf[t]
<1>1. /\ TypeOK /\ ObjectOK(slots) /\ target.slot \in SlotIds
      /\ pc[t] \in Saving => SaveOK(t)
      /\ pc[t] \notin Saving => acked = Unknown
  BY DEF IInv, TInv, TypeOK, HolderOK, SaveOK, Locked, Saving
<1>2. CASE s = Target
  <2>1. UNCHANGED slots
    BY <1>1, <1>2 DEF TypeOK, Target
  <2>2. QED
    BY <2>1, RecoverableFrame, SlackHolds
<1>3. CASE acked = Unknown
  BY <1>3, FoundIsNext, SlackHolds
<1>4. CASE acked # Unknown /\ s # Target
  <2>1. /\ pc[t] \in Saving /\ SaveOK(t) /\ target.slot = TargetSlot
        /\ NextVersion <= MaxVersion
    BY <1>1, <1>4 DEF SaveOK
  <2>2. acked \in Payloads \cup {None}
    BY <1>1, <1>4 DEF TypeOK
  <2>3. PICK k \in SlotIds : k = target.slot
    BY <1>1
  <2>4. slots'[k] = s /\ \A i \in SlotIds : i # k => slots'[i] = slots[i]
    BY <1>1, <2>3 DEF TypeOK
  <2>5. has_data => /\ k # active_slot
                    /\ NextVersion = active_version + 1
                    /\ active_version \in Nat
    BY <1>1, <2>1, <2>3, ConstantsAssumption
       DEF NoFaults, TypeOK, ObjectOK, TargetSlot, NextVersion, SlotIds,
           Versions
  <2>6. ~has_data => k = 0
    BY <2>1, <2>3 DEF TargetSlot
  <2>7. \A i \in ValidIn(slots') : i # k =>
          /\ i \in ValidIn(slots) /\ Ver(slots', i) = Ver(slots, i)
          /\ Pay(slots', i) = Pay(slots, i)
          /\ has_data
          /\ i # active_slot => Ver(slots, i) < active_version
          /\ i = active_slot => Ver(slots, i) = active_version
    BY <1>1, <2>1, <2>3, <2>4, <2>6
       DEF ObjectOK, Placed, ValidIn, Ver, Pay
  <2>8. CASE ~Valid(s)
    <3>1. k \notin ValidIn(slots')
      BY <2>4, <2>8 DEF ValidIn
    <3>2. CASE acked \in Payloads
      <4>1. PICK a \in SlotIds : a = active_slot
        BY <1>1 DEF TypeOK
      <4>2. has_data /\ a \in ValidIn(slots) /\ Pay(slots, a) = acked
        BY <1>1, <3>2, <4>1 DEF ObjectOK
      <4>3. a \in ValidIn(slots') /\ a # k
        BY <2>4, <2>5, <4>1, <4>2 DEF ValidIn
      <4>4. \A i \in ValidIn(slots') : i = a \/ Ver(slots', i) < Ver(slots', a)
        BY <2>7, <3>1, <4>1, <4>3
      <4>5. Recoverable' = acked
        BY <2>7, <4>2, <4>3, <4>4, FoundIsNext
      <4>6. QED
        BY <1>4, <4>5, SlackHolds
    <3>3. CASE acked = None
      <4>1. ~has_data
        BY <1>1, <3>3 DEF ObjectOK
      <4>2. ValidIn(slots') = {}
        BY <2>7, <3>1, <4>1
      <4>3. QED
        BY <1>4, <3>3, <4>2, FoundIsNext, SlackHolds
    <3>4. QED
      BY <2>2, <3>2, <3>3
  <2>9. CASE Valid(s)
    <3>1. s.hdr = [version |-> NextVersion, payload |-> buf[t]]
      BY <1>4, <2>1, <2>9, CutOfSave DEF IInv
    <3>2. /\ k \in ValidIn(slots') /\ Ver(slots', k) = NextVersion
          /\ Pay(slots', k) = buf[t]
      BY <2>4, <2>9, <3>1 DEF ValidIn, Ver, Pay
    <3>3. \A i \in ValidIn(slots') :
            i = k \/ Ver(slots', i) < Ver(slots', k)
      <4>1. \A i \in ValidIn(slots) : Ver(slots, i) \in Nat
        BY ConstantsAssumption DEF Ver, ValidIn, Valid, Header, Versions
      <4>2. SUFFICES ASSUME NEW i \in ValidIn(slots'), i # k
                     PROVE  Ver(slots', i) < NextVersion
        BY <3>2
      <4>3. /\ Ver(slots', i) = Ver(slots, i) /\ Ver(slots, i) \in Nat
            /\ has_data
            /\ Ver(slots, i) < active_version \/ Ver(slots, i) = active_version
        BY <2>7, <4>1, <4>2
      <4>4. QED
        BY <2>5, <4>3
    <3>4. QED
      BY <2>1, <2>9, <3>2, <3>3, FoundIsNext
  <2>10. QED
    BY <2>8, <2>9
<1>5. QED
  BY <1>2, <1>3, <1>4

LEMMA StutterStep ==
  ASSUME UNCHANGED <<slots, acked, Pend>>
  PROVE  UNCHANGED Cell!cellVars
BY RecoverableFrame DEF Cell!cellVars, Pend

(* A step of t that neither begins nor ends a save and writes nothing. *)
LEMMA QuietStutters ==
  ASSUME NEW t \in Tasks, UNCHANGED <<slots, acked>>,
         \A u \in Tasks : u # t => pc'[u] = pc[u] /\ buf'[u] = buf[u],
         pc[t] \in {"save"} \cup Saving <=> pc'[t] \in {"save"} \cup Saving,
         pc[t] \in {"save"} \cup Saving => buf'[t] = buf[t]
  PROVE  UNCHANGED Cell!cellVars
<1>1. Pend' = Pend
  BY DEF Pend
<1>2. QED
  BY <1>1, StutterStep

(* A step of t that ends its save, whatever became of it. *)
LEMMA SaveEnds ==
  ASSUME TInv, NEW t \in Tasks, pc[t] \in {"save"} \cup Saving,
         pc' = [pc EXCEPT ![t] = "idle"], UNCHANGED buf
  PROVE  Pend[t] # None /\ Pend[t] = buf[t] /\ Pend' = [Pend EXCEPT ![t] = None]
<1>1. buf[t] \in Payloads /\ DOMAIN pc = Tasks
  BY DEF TInv, TypeOK, SavesCarryPayloads
<1>2. Pend' = [Pend EXCEPT ![t] = None]
  BY <1>1 DEF Pend, Saving
<1>3. QED
  BY <1>1, <1>2, ConstantsAssumption DEF Pend

LEMMA InitImplements == Init => Cell!Init
<1>. SUFFICES ASSUME Init PROVE Cell!Init
  OBVIOUS
<1>1. ValidIn(slots) = {}
  BY ConstantsAssumption DEF Init, ValidIn, Valid, Blank, Foreign
<1>2. Recoverable = None
  BY <1>1, FoundIs
<1>3. Pend = [t \in Tasks |-> None]
  BY DEF Init, Pend, Saving
<1>4. QED
  BY <1>2, <1>3 DEF Init, Cell!Init, Pend

LEMMA CallImplements ==
  ASSUME TInv, NEW t \in Tasks, Call(t)
  PROVE  Cell!Next \/ UNCHANGED Cell!cellVars
<1>1. DOMAIN pc = Tasks /\ DOMAIN buf = Tasks
  BY DEF TInv, TypeOK
<1>2. ASSUME NEW p \in Payloads, CallSave(t, p) PROVE Cell!Next
  <2>1. Pend[t] = None /\ Pend' = [Pend EXCEPT ![t] = p]
    BY <1>1, <1>2 DEF CallSave, Pend, Saving
  <2>2. Cell!Call(t, p)
    BY <1>2, <2>1, RecoverableFrame DEF CallSave, Cell!Call, Pend, ghosts
  <2>3. QED
    BY <2>2 DEF Cell!Next
<1>3. CASE CallLoad(t) \/ CallClear(t)
  BY <1>1, <1>3, QuietStutters DEF CallLoad, CallClear, ghosts, Saving
<1>4. QED
  BY <1>2, <1>3 DEF Call

LEMMA StepImplements ==
  ASSUME NoFaults, IInv, IInv', NEW t \in Tasks, Step(t)
  PROVE  Cell!Next \/ UNCHANGED Cell!cellVars
<1>1. TInv /\ TypeOK /\ DOMAIN pc = Tasks /\ DOMAIN buf = Tasks
  BY DEF IInv, TInv, TypeOK
<1>2. CASE Timeout(t)
  <2>1. CASE pc[t] = "save"
    <3>1. Pend[t] # None /\ Pend' = [Pend EXCEPT ![t] = None]
      BY <1>1, <1>2, <2>1, SaveEnds DEF Timeout
    <3>2. Cell!Fail(t)
      BY <1>2, <3>1, RecoverableFrame, SlackHolds
         DEF Timeout, Cell!Fail, Pend, ghosts
    <3>3. QED
      BY <3>2 DEF Cell!Next
  <2>2. CASE pc[t] # "save"
    BY <1>1, <1>2, <2>2, QuietStutters DEF Timeout, ghosts, Waiting, Saving
  <2>3. QED
    BY <2>1, <2>2
<1>3. CASE LoadRead(t)
  BY <1>1, <1>3, QuietStutters DEF LoadRead, ghosts, Saving
<1>4. CASE LockSave(t)
  BY <1>1, <1>4, QuietStutters DEF LockSave, Saving
<1>5. ASSUME pc[t] \in Locked, Recoverable' \in Cell!Slack,
             UNCHANGED <<acked, Pend>>
      PROVE  Cell!Next
  <2>1. Cell!Retract
    BY <1>5 DEF Cell!Retract, Pend
  <2>2. QED
    BY <2>1 DEF Cell!Next
<1>6. ASSUME NEW from \in {"mark", "header", "payload"}, NEW to \in Saving,
             WriteStep(t, from, to)
      PROVE  Cell!Next
  <2>1. pc[t] \in Saving /\ pc[t] \in Locked /\ SaveOK(t)
    BY <1>6 DEF WriteStep, Saving, Locked, IInv, HolderOK
  <2>2. Written(t) \in Cut(t) /\ ~Valid(Written(t))
    BY <1>1, <1>6, <2>1
       DEF WriteStep, Cut, Written, SaveOK, Valid, Target, TypeOK, Slot,
           CLEAR, COMMIT
  <2>3. Recoverable' \in Cell!Slack
    BY <1>6, <2>1, <2>2, CutFinds DEF WriteStep
  <2>4. Pend' = Pend
    BY <1>1, <1>6, <2>1 DEF WriteStep, Pend
  <2>5. QED
    BY <1>5, <1>6, <2>1, <2>3, <2>4 DEF WriteStep, ghosts
<1>7. CASE ClearCommit(t) \/ WriteHeader(t) \/ WritePayload(t)
  BY <1>6, <1>7 DEF ClearCommit, WriteHeader, WritePayload, Saving
<1>8. CASE WriteCommit(t)
  <2>1. /\ Pend[t] # None /\ Pend[t] = buf[t]
        /\ Pend' = [Pend EXCEPT ![t] = None]
    BY <1>1, <1>8, SaveEnds DEF WriteCommit, Saving
  <2>2. Recoverable' = buf[t] /\ acked' = buf[t]
    BY <1>8, CommitTakesEffect DEF WriteCommit
  <2>3. Cell!Done(t)
    BY <2>1, <2>2 DEF Cell!Done, Pend
  <2>4. QED
    BY <2>3 DEF Cell!Next
<1>9. CASE LockClear(t)
  <2>1. Pend' = Pend
    BY <1>1, <1>9 DEF LockClear, Pend, Saving
  <2>2. Cell!BeginClear
    BY <1>9, <2>1, RecoverableFrame DEF LockClear, Cell!BeginClear, Pend
  <2>3. QED
    BY <2>2 DEF Cell!Next
<1>10. ASSUME pc[t] = "erase"
       PROVE  acked = Unknown /\ Recoverable' \in Cell!Slack
  BY <1>10, FoundIsNext, SlackHolds DEF IInv, HolderOK
<1>11. CASE EraseSlot(t)
  <2>1. Pend' = Pend
    BY <1>11 DEF EraseSlot, Pend
  <2>2. QED
    BY <1>5, <1>10, <1>11, <2>1 DEF EraseSlot, ghosts, Locked
<1>12. CASE EraseLast(t)
  <2>1. Pend' = Pend
    BY <1>1, <1>12 DEF EraseLast, Pend, Saving
  <2>2. acked = Unknown /\ acked' = None /\ tried' = {}
    BY <1>10, <1>12 DEF EraseLast
  <2>3. Recoverable' = None
    BY <2>2, IInvIsLatestNext, ConstantsAssumption DEF LatestWins
  <2>4. Cell!EndClear
    BY <2>1, <2>2, <2>3 DEF Cell!EndClear, Pend
  <2>5. QED
    BY <2>4 DEF Cell!Next
<1>13. CASE IoError(t)
  <2>1. PICK s \in Cut(t) : slots' = [slots EXCEPT ![target.slot] = s]
    BY <1>13 DEF IoError
  <2>2. CASE pc[t] \in Saving
    <3>1. /\ Pend[t] # None /\ Pend[t] = buf[t]
          /\ Pend' = [Pend EXCEPT ![t] = None]
      BY <1>1, <1>13, <2>2, SaveEnds DEF IoError
    <3>2. Recoverable' \in Cell!Slack \cup {Pend[t]}
      BY <1>13, <2>1, <3>1, CutFinds DEF IoError
    <3>3. Cell!Fail(t)
      BY <1>13, <3>1, <3>2 DEF IoError, Cell!Fail, Pend, ghosts
    <3>4. QED
      BY <3>3 DEF Cell!Next
  <2>3. CASE pc[t] = "erase"
    <3>1. Pend' = Pend
      BY <1>1, <1>13, <2>3 DEF IoError, Pend, Saving
    <3>2. QED
      BY <1>5, <1>10, <1>13, <2>3, <3>1 DEF IoError, ghosts
  <2>4. QED
    BY <1>13, <2>2, <2>3 DEF IoError, Locked
<1>14. QED
  BY <1>2, <1>3, <1>4, <1>7, <1>8, <1>9, <1>11, <1>12, <1>13 DEF Step

LEMMA PowerLossImplements ==
  ASSUME NoFaults, IInv, PowerLoss
  PROVE  Cell!Next
<1>1. Pend' = [t \in Tasks |-> None]
  BY DEF PowerLoss, Pend, Saving
<1>2. Recoverable' \in Cell!Slack \cup ({Pend[t] : t \in Tasks} \ {None})
  <2>1. CASE mutex = None
    BY <2>1, RecoverableFrame, SlackHolds DEF PowerLoss
  <2>2. CASE mutex # None
    <3>1. PICK t \in Tasks : t = mutex /\ pc[t] \in Locked
      BY <2>2 DEF IInv, TInv, TypeOK, MutexHeldOnlyInside
    <3>2. PICK s \in Cut(t) : slots' = [slots EXCEPT ![target.slot] = s]
      BY <2>2, <3>1 DEF PowerLoss
    <3>3. pc[t] \in Saving => Pend[t] = buf[t] /\ buf[t] # None
      BY ConstantsAssumption DEF Pend, IInv, TInv, SavesCarryPayloads
    <3>4. QED
      BY <3>1, <3>2, <3>3, CutFinds
  <2>3. QED
    BY <2>1, <2>2
<1>3. Cell!PowerLoss
  BY <1>1, <1>2 DEF PowerLoss, Cell!PowerLoss, Pend, ghosts
<1>4. QED
  BY <1>3 DEF Cell!Next

LEMMA NextImplements ==
  ASSUME NoFaults, IInv, IInv', [Next]_vars
  PROVE  [Cell!Next]_Cell!cellVars
<1>1. CASE VSlotInit
  <2>1. acked' = Recoverable
    BY <1>1 DEF VSlotInit, NoFaults, Recoverable
  <2>2. Pend' = Pend
    BY <1>1 DEF VSlotInit, Pend
  <2>3. Cell!Recover
    BY <1>1, <2>1, <2>2, RecoverableFrame DEF VSlotInit, Cell!Recover, Pend
  <2>4. QED
    BY <2>3 DEF Cell!Next
<1>2. CASE Deinit \/ UNCHANGED vars
  <2>1. UNCHANGED <<slots, acked, pc, buf>>
    BY <1>2 DEF Deinit, vars, ghosts
  <2>2. QED
    BY <2>1, StutterStep DEF Pend
<1>3. CASE PowerLoss
  BY <1>3, PowerLossImplements
<1>4. ASSUME NEW t \in Tasks, Call(t) \/ Step(t)
      PROVE  Cell!Next \/ UNCHANGED Cell!cellVars
  BY <1>4, CallImplements, StepImplements DEF IInv
<1>5. QED
  BY <1>1, <1>2, <1>3, <1>4 DEF Next

(* The slots, with their versions, commit bytes and half-done writes,      *)
(* behave like one crash-safe cell: every step is a step of CrashSafeCell  *)
(* or changes nothing there.                                               *)
THEOREM SlotsImplementCell == NoFaults => (Spec => ImplementsCell)
<1>. SUFFICES ASSUME NoFaults PROVE Spec => ImplementsCell
  OBVIOUS
<1>1. IInv /\ IInv' /\ [Next]_vars => [Cell!Next]_Cell!cellVars
  BY NextImplements
<1>2. QED
  BY <1>1, InitImplements, IInvAlways, PTL
     DEF Spec, ImplementsCell, Cell!Spec
=============================================================================
