------------------------------- MODULE VSlot -------------------------------
(***************************************************************************)
(* fram_vslot: a buffer kept in two or three FRAM slots, each save written *)
(* to the slot after the active one under the next version.                *)
(*                                                                         *)
(* A slot on the medium is a header, a payload area and a commit byte. A   *)
(* header in Header is one whose magic is this buffer's; its "payload"     *)
(* stands for the length and CRC that save computes over it, so a slot is  *)
(* valid exactly when the payload area still holds what the header was     *)
(* computed from. Garbage stands for every other content: erased, of       *)
(* another magic, or half written. The CRC is taken to be free of          *)
(* collisions.                                                             *)
(*                                                                         *)
(* A device write is one step. Cut gives what it leaves behind when the    *)
(* device reports an error or the power goes before it is complete.        *)
(***************************************************************************)
EXTENDS Naturals, FiniteSets

CONSTANTS
  Tasks,            \* the FreeRTOS tasks that share the buffer
  Payloads,         \* the payloads that can be saved
  Empty,            \* the payload of length 0 (it may be left out of Payloads)
  Garbage,          \* bytes that are no header or no payload
  None,             \* no payload, no task
  Unknown,          \* no promise about the payload
  SlotCount,        \* cfg->slot_count
  VersionMod,       \* number of values of the version field (2^32)
  MaxVersion,       \* bound: no save is started beyond this version
  ReadFaults,       \* the sets of slots whose reads may fail in one init
  CallsAcrossDeinit \* whether tasks save or clear during and after deinit

CLEAR == 0
COMMIT == 165
ERASED == 255

SlotIds == 0..(SlotCount - 1)
Versions == 0..(VersionMod - 1)
Header == [version : Versions, payload : Payloads]
Slot == [hdr : Header \cup {Garbage},
         body : Payloads \cup {Garbage},
         commit : {CLEAR, COMMIT, ERASED}]

ASSUME ConstantsAssumption ==
  /\ SlotCount \in {2, 3}
  /\ VersionMod \in Nat \ {0, 1}
  /\ MaxVersion \in Nat
  /\ ReadFaults \subseteq SUBSET SlotIds
  /\ CallsAcrossDeinit \in BOOLEAN
  /\ Garbage \notin Payloads \cup Header
  /\ None \notin Payloads \cup Tasks \cup {Unknown}
  /\ Unknown \notin Payloads

VARIABLES
  slots,          \* the partition's content
  has_data,       \* vs->has_data
  active_slot,    \* vs->active_slot
  active_version, \* vs->active_version
  mutex,          \* the task that holds vs->mutex, or None
  phase,          \* "off" before init, "up" after it, "closed" after deinit
  pc,             \* what each task is about to do
  buf,            \* each task's payload argument: save's input, load's output
  target,         \* save's locals slot and next_version; clear's erase cursor
  acked,          \* ghost: the payload callers were last promised
  prev,           \* ghost: the payload promised before it, while it must last
  tried           \* ghost: payloads of saves begun since acked was set

object == <<has_data, active_slot, active_version>>
ghosts == <<acked, prev, tried>>
vars == <<slots, has_data, active_slot, active_version, mutex, phase,
          pc, buf, target, acked, prev, tried>>

Waiting == {"save", "load", "clear"}
Saving == {"mark", "header", "payload", "commit"}
Locked == Saving \cup {"erase"}

-----------------------------------------------------------------------------
(* Reading the medium. *)

Blank == [hdr |-> Garbage, body |-> Garbage, commit |-> ERASED]
Foreign == [hdr |-> Garbage, body |-> Garbage, commit |-> COMMIT]

Valid(s) ==
  /\ s.commit = COMMIT
  /\ s.hdr \in Header
  /\ s.hdr.payload # Empty => s.body = s.hdr.payload

(* Mutant of Beats: the scan compares the versions the wrong way round.   *)
LowerBeats(i, j) ==
  \/ slots[i].hdr.version < slots[j].hdr.version
  \/ slots[i].hdr.version = slots[j].hdr.version /\ i <= j

(* i is what the scan over ids keeps: the highest version, the first slot *)
(* that has it.                                                           *)
Beats(i, j) ==
  \/ slots[i].hdr.version > slots[j].hdr.version
  \/ slots[i].hdr.version = slots[j].hdr.version /\ i <= j

Best(ids) == CHOOSE i \in ids : \A j \in ids : Beats(i, j)

Candidates(bad) == {i \in SlotIds \ bad : Valid(slots[i])}

(* The payload that init makes active when the slots in bad are unreadable. *)
RecoveredWithout(bad) ==
  IF Candidates(bad) = {} THEN None
  ELSE slots[Best(Candidates(bad))].hdr.payload

Recoverable == RecoveredWithout({})

-----------------------------------------------------------------------------
(* The writes of a save and of a clear. *)

(* Mutant of NextVersion: the version is written without the increment. *)
SameVersion == IF has_data THEN active_version ELSE 1

NextVersion == IF has_data THEN (active_version + 1) % VersionMod ELSE 1

(* Mutants of TargetSlot: the increment without the wrap to slot 0; the *)
(* active slot written in place.                                        *)
SlotBeyondLast == IF has_data THEN active_slot + 1 ELSE 0

SlotInPlace == active_slot

TargetSlot == IF has_data THEN (active_slot + 1) % SlotCount ELSE 0

Target == slots[target.slot]

(* The target slot once t's pending device write is complete. *)
Written(t) ==
  CASE pc[t] = "mark"    -> [Target EXCEPT !.commit = CLEAR]
    [] pc[t] = "header"  -> [Target EXCEPT !.hdr = [version |-> target.version,
                                                   payload |-> buf[t]]]
    [] pc[t] = "payload" -> [Target EXCEPT !.body = buf[t]]
    [] pc[t] = "commit"  -> [Target EXCEPT !.commit = COMMIT]
    [] pc[t] = "erase"   -> Blank

(* The target slot when that write stops after some of its chunks: none of *)
(* them, all of them, or a part of the header or of the payload. The       *)
(* commit byte is a write of its own and is never half written.            *)
Cut(t) ==
  {Target, Written(t)}
    \cup (IF pc[t] \in {"header", "erase"}
          THEN {[Target EXCEPT !.hdr = Garbage]} ELSE {})
    \cup (IF pc[t] = "payload" THEN {[Target EXCEPT !.body = Garbage]} ELSE {})

-----------------------------------------------------------------------------
(* fram_vslot_init and fram_vslot_deinit *)

Init ==
  /\ slots \in [SlotIds -> {Blank, Foreign}]
  /\ has_data = FALSE
  /\ active_slot = 0
  /\ active_version = 0
  /\ mutex = None
  /\ phase = "off"
  /\ pc = [t \in Tasks |-> "idle"]
  /\ buf = [t \in Tasks |-> None]
  /\ target = [slot |-> 0, version |-> 0]
  /\ acked = None
  /\ prev = None
  /\ tried = {}

(* A slot that cannot be read is passed over like an invalid one. The task *)
(* that calls init owns the object, so no other call is under way.         *)
VSlotInit ==
  /\ phase \in {"off", "closed"}
  /\ \A t \in Tasks : pc[t] = "idle"
  /\ \E bad \in ReadFaults :
       LET found == Candidates(bad) IN
       /\ has_data' = (found # {})
       /\ active_slot' = IF found = {} THEN 0 ELSE Best(found)
       /\ active_version' = IF found = {} THEN 0
                            ELSE slots[Best(found)].hdr.version
       /\ acked' = RecoveredWithout(bad)
  /\ phase' = "up"
  /\ prev' = IF tried = {} /\ acked # Unknown THEN prev ELSE None
  /\ tried' = {}
  /\ UNCHANGED <<slots, mutex, pc, buf, target>>

(* deinit takes no lock and leaves the object usable. *)
Deinit ==
  /\ phase = "up"
  /\ CallsAcrossDeinit \/ \A t \in Tasks : pc[t] = "idle"
  /\ has_data' = FALSE
  /\ phase' = "closed"
  /\ UNCHANGED <<slots, active_slot, active_version, mutex, pc, buf, target,
                 ghosts>>

-----------------------------------------------------------------------------
(* The calls, up to the mutex. *)

Callable == phase = "up" \/ (phase = "closed" /\ CallsAcrossDeinit)

(* Bound: no more saves are let in than versions up to MaxVersion are left,  *)
(* so that none that was entered is held up by the bound.                  *)
Room ==
  NextVersion + Cardinality({t \in Tasks : pc[t] \in {"save"} \cup Saving})
    <= MaxVersion

CallSave(t, p) ==
  /\ Callable
  /\ Room
  /\ pc[t] = "idle"
  /\ pc' = [pc EXCEPT ![t] = "save"]
  /\ buf' = [buf EXCEPT ![t] = p]
  /\ UNCHANGED <<slots, object, mutex, phase, target, ghosts>>

(* load looks at has_data before it asks for the mutex. *)
CallLoad(t) ==
  /\ phase # "off"
  /\ has_data
  /\ pc[t] = "idle"
  /\ pc' = [pc EXCEPT ![t] = "load"]
  /\ buf' = [buf EXCEPT ![t] = None]
  /\ UNCHANGED <<slots, object, mutex, phase, target, ghosts>>

CallClear(t) ==
  /\ Callable
  /\ pc[t] = "idle"
  /\ pc' = [pc EXCEPT ![t] = "clear"]
  /\ buf' = [buf EXCEPT ![t] = None]
  /\ UNCHANGED <<slots, object, mutex, phase, target, ghosts>>

(* Mutant of Timeout: the mutex is waited for with portMAX_DELAY. *)
WaitForever(t) == FALSE /\ pc[t] \in Waiting /\ UNCHANGED vars

(* The mutex was not given within the timeout: ESP_ERR_TIMEOUT. *)
Timeout(t) ==
  /\ pc[t] \in Waiting
  /\ mutex # None
  /\ pc' = [pc EXCEPT ![t] = "idle"]
  /\ UNCHANGED <<slots, object, mutex, phase, buf, target, ghosts>>

-----------------------------------------------------------------------------
(* fram_vslot_load: nothing else touches the slots while the mutex is held, *)
(* so lock, read and unlock are one step. A read error leaves no payload.   *)

LoadRead(t) ==
  /\ pc[t] = "load"
  /\ mutex = None
  /\ \/ /\ Valid(slots[active_slot])
        /\ buf' = [buf EXCEPT ![t] = slots[active_slot].hdr.payload]
     \/ UNCHANGED buf
  /\ pc' = [pc EXCEPT ![t] = "idle"]
  /\ UNCHANGED <<slots, object, mutex, phase, target, ghosts>>

-----------------------------------------------------------------------------
(* fram_vslot_save *)

LockSave(t) ==
  /\ pc[t] = "save"
  /\ mutex = None
  /\ NextVersion <= MaxVersion
  /\ mutex' = t
  /\ target' = [slot |-> TargetSlot, version |-> NextVersion]
  /\ pc' = [pc EXCEPT ![t] = "mark"]
  /\ tried' = tried \cup {buf[t]}
  /\ UNCHANGED <<slots, object, phase, buf, acked, prev>>

(* A device write of t that completes, and what t does next. *)
WriteStep(t, from, to) ==
  /\ pc[t] = from
  /\ slots' = [slots EXCEPT ![target.slot] = Written(t)]
  /\ pc' = [pc EXCEPT ![t] = to]
  /\ UNCHANGED <<object, mutex, phase, buf, target, ghosts>>

ClearCommit(t) == WriteStep(t, "mark", "header")

WriteHeader(t) ==
  WriteStep(t, "header", IF buf[t] = Empty THEN "commit" ELSE "payload")

WritePayload(t) == WriteStep(t, "payload", "commit")

(* Mutant of WriteCommit: active_slot is not brought up to date. *)
CommitKeepsSlot(t) ==
  /\ pc[t] = "commit"
  /\ slots' = [slots EXCEPT ![target.slot] = Written(t)]
  /\ has_data' = TRUE
  /\ active_version' = target.version
  /\ mutex' = None
  /\ pc' = [pc EXCEPT ![t] = "idle"]
  /\ acked' = buf[t]
  /\ prev' = IF acked = Unknown THEN None ELSE acked
  /\ tried' = {}
  /\ UNCHANGED <<active_slot, phase, buf, target>>

WriteCommit(t) ==
  /\ pc[t] = "commit"
  /\ slots' = [slots EXCEPT ![target.slot] = Written(t)]
  /\ has_data' = TRUE
  /\ active_slot' = target.slot
  /\ active_version' = target.version
  /\ mutex' = None
  /\ pc' = [pc EXCEPT ![t] = "idle"]
  /\ acked' = buf[t]
  /\ prev' = IF acked = Unknown THEN None ELSE acked
  /\ tried' = {}
  /\ UNCHANGED <<phase, buf, target>>

-----------------------------------------------------------------------------
(* fram_vslot_clear: the erase goes upwards through the partition. *)

LockClear(t) ==
  /\ pc[t] = "clear"
  /\ mutex = None
  /\ mutex' = t
  /\ target' = [target EXCEPT !.slot = 0]
  /\ pc' = [pc EXCEPT ![t] = "erase"]
  /\ acked' = Unknown
  /\ prev' = None
  /\ UNCHANGED <<slots, object, phase, buf, tried>>

EraseSlot(t) ==
  /\ pc[t] = "erase"
  /\ target.slot < SlotCount - 1
  /\ slots' = [slots EXCEPT ![target.slot] = Written(t)]
  /\ target' = [target EXCEPT !.slot = @ + 1]
  /\ UNCHANGED <<object, mutex, phase, pc, buf, ghosts>>

EraseLast(t) ==
  /\ pc[t] = "erase"
  /\ target.slot = SlotCount - 1
  /\ slots' = [slots EXCEPT ![target.slot] = Written(t)]
  /\ has_data' = FALSE
  /\ active_slot' = 0
  /\ active_version' = 0
  /\ mutex' = None
  /\ pc' = [pc EXCEPT ![t] = "idle"]
  /\ acked' = None
  /\ prev' = None
  /\ tried' = {}
  /\ UNCHANGED <<phase, buf, target>>

-----------------------------------------------------------------------------
(* Failures. *)

(* Mutant of IoError: the error path returns without the unlock. *)
ErrorKeepsMutex(t) ==
  /\ pc[t] \in Locked
  /\ \E s \in Cut(t) : slots' = [slots EXCEPT ![target.slot] = s]
  /\ pc' = [pc EXCEPT ![t] = "idle"]
  /\ UNCHANGED <<object, mutex, phase, buf, target, ghosts>>

(* The device reports an error: the call unlocks and returns it, and the *)
(* object keeps what it held before the call.                            *)
IoError(t) ==
  /\ pc[t] \in Locked
  /\ \E s \in Cut(t) : slots' = [slots EXCEPT ![target.slot] = s]
  /\ mutex' = None
  /\ pc' = [pc EXCEPT ![t] = "idle"]
  /\ UNCHANGED <<object, phase, buf, target, ghosts>>

(* The power goes: the write under way is cut, RAM is lost. *)
PowerLoss ==
  /\ phase # "off"
  /\ IF mutex = None THEN UNCHANGED slots
     ELSE \E s \in Cut(mutex) : slots' = [slots EXCEPT ![target.slot] = s]
  /\ has_data' = FALSE
  /\ active_slot' = 0
  /\ active_version' = 0
  /\ mutex' = None
  /\ phase' = "off"
  /\ pc' = [t \in Tasks |-> "idle"]
  /\ buf' = [t \in Tasks |-> None]
  /\ UNCHANGED <<target, ghosts>>

-----------------------------------------------------------------------------
Step(t) ==
  \/ Timeout(t)
  \/ LoadRead(t)
  \/ LockSave(t) \/ ClearCommit(t) \/ WriteHeader(t) \/ WritePayload(t)
  \/ WriteCommit(t)
  \/ LockClear(t) \/ EraseSlot(t) \/ EraseLast(t)
  \/ IoError(t)

Call(t) ==
  \/ \E p \in Payloads : CallSave(t, p)
  \/ CallLoad(t)
  \/ CallClear(t)

Next ==
  \/ VSlotInit
  \/ Deinit
  \/ PowerLoss
  \/ \E t \in Tasks : Call(t) \/ Step(t)

Spec == Init /\ [][Next]_vars

FairSpec == Spec /\ \A t \in Tasks : WF_vars(Step(t))

-----------------------------------------------------------------------------
(* Properties *)

(* The variables hold values of their C types. *)
TypeOK ==
  /\ slots \in [SlotIds -> Slot]
  /\ has_data \in BOOLEAN
  /\ active_slot \in SlotIds
  /\ active_version \in Versions
  /\ mutex \in Tasks \cup {None}
  /\ phase \in {"off", "up", "closed"}
  /\ pc \in [Tasks -> {"idle"} \cup Waiting \cup Locked]
  /\ buf \in [Tasks -> Payloads \cup {None}]
  /\ target \in [slot : SlotIds, version : Versions]
  /\ acked \in Payloads \cup {None, Unknown}
  /\ prev \in Payloads \cup {None}
  /\ tried \subseteq Payloads

(* "Latest wins": whatever step the power is lost at, the next init finds  *)
(* the payload of the last save that returned OK, or that of a save begun  *)
(* after it; never an older one and never nothing.                         *)
LatestWins == acked # Unknown => Recoverable \in {acked} \cup tried

(* While a payload is promised, the active slot can be loaded at every     *)
(* moment, in the middle of a save by another task too.                    *)
ActiveSlotIntact ==
  phase = "up" /\ acked \in Payloads =>
    /\ has_data
    /\ Valid(slots[active_slot])
    /\ slots[active_slot].hdr.payload = acked

(* Two generations: with no save begun since the last one that returned    *)
(* OK, the medium survives the loss of any one slot, and what is then      *)
(* found is the last payload or the one before it.                         *)
SurvivesOneBadSlot ==
  acked \in Payloads /\ prev \in Payloads /\ tried = {} =>
    \A i \in SlotIds : RecoveredWithout({i}) \in {acked, prev}

(* Every return path gives the mutex back: a task holds it exactly while   *)
(* it is inside a save or a clear.                                         *)
MutexHeldOnlyInside == \A t \in Tasks : mutex = t <=> pc[t] \in Locked

(* Whatever saves, clears and failures ran between a load's look at        *)
(* has_data and its read, it returns nothing older than the promised       *)
(* payload. (It may return the payload of a failed save: has_data read     *)
(* before a clear lets it look at slot 0 after it.)                        *)
LoadsAreFresh ==
  [][\A t \in Tasks : pc[t] = "load" /\ buf'[t] # None /\ acked # Unknown
                        => buf'[t] \in {acked} \cup tried]_vars

(* When save returns OK, init would find exactly what was saved. *)
SaveTakesEffect ==
  [][\A t \in Tasks : WriteCommit(t) => Recoverable' = buf[t]]_vars

(* The slots behave like one crash-safe cell. *)
Cell == INSTANCE CrashSafeCell WITH
          value <- acked,
          durable <- Recoverable,
          pend <- [t \in Tasks |-> IF pc[t] \in {"save"} \cup Saving
                                   THEN buf[t] ELSE None]

ImplementsCell == Cell!Spec

(* Every call that was entered returns: with OK, an error or a timeout. *)
EveryCallReturns == \A t \in Tasks : pc[t] # "idle" ~> pc[t] = "idle"
=============================================================================
