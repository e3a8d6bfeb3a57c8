-------------------------------- MODULE Ring --------------------------------
(***************************************************************************)
(* fram_ring: a circular log of entries with consecutive sequence numbers, *)
(* one per slot, rebuilt from the slots alone when it is initialised.      *)
(*                                                                         *)
(* A slot is a header, a payload area and a commit byte, as in VSlot: a    *)
(* header in Header carries this ring's magic, its "payload" stands for    *)
(* the length and the CRC computed over it, and Garbage is every other     *)
(* content. The header of a valid slot is the entry it holds.              *)
(*                                                                         *)
(* A device write is one step; Cut gives what it leaves behind when it is  *)
(* not completed.                                                          *)
(***************************************************************************)
EXTENDS Naturals, SequencesExt

CONSTANTS
  Tasks,      \* the FreeRTOS tasks that share the ring
  Payloads,   \* the payloads that can be appended
  Empty,      \* the payload of length 0 (it may be left out of Payloads)
  Garbage,    \* bytes that are no header or no payload
  None,       \* no task, no result
  Capacity,   \* ring->capacity
  SeqCount,   \* number of values of a sequence number (2^32)
  MaxSeq,     \* bound: no append is started with a number beyond this one
  ReadFaults, \* the sets of slots whose reads may fail in one pass of init
  Nested      \* whether callbacks of iterate may call the ring

CLEAR == 0
COMMIT == 165
ERASED == 255

SlotIds == 0..(Capacity - 1)
Seqs == 0..(SeqCount - 1)
Header == [seq : Seqs, payload : Payloads]
Slot == [hdr : Header \cup {Garbage},
         body : Payloads \cup {Garbage},
         commit : {CLEAR, COMMIT, ERASED}]

ASSUME ConstantsAssumption ==
  /\ Capacity \in Nat \ {0}
  /\ SeqCount \in Nat \ {0}
  /\ MaxSeq \in Nat
  /\ ReadFaults \subseteq SUBSET SlotIds
  /\ Nested \in BOOLEAN
  /\ Garbage \notin Payloads \cup Header
  /\ None \notin Payloads \cup Tasks \cup Header
  /\ Payloads \cap Header = {}

VARIABLES
  slots,     \* the partition's content
  ready,     \* ring->ready
  head_slot, \* ring->head_slot
  tail_slot, \* ring->tail_slot
  head_seq,  \* ring->head_seq
  count,     \* ring->count
  mutex,     \* the task that holds ring->mutex, or None
  pc,        \* what each task is about to do
  buf,       \* an append's payload; the entry a peek returned
  cursor,    \* the locals slot and remaining of the call that holds the mutex
  seen,      \* the entries that the iteration under way gave to its callback
  log,       \* ghost: the entries callers may count on, the oldest first
  tried,     \* ghost: entries of appends begun since one last returned OK
  dirty      \* ghost: entries of an interrupted clear may precede the log

object == <<ready, head_slot, tail_slot, head_seq, count>>
ghosts == <<log, tried, dirty>>
vars == <<slots, ready, head_slot, tail_slot, head_seq, count, mutex, pc, buf,
          cursor, seen, log, tried, dirty>>

Waiting == {"append", "oldest", "newest", "iterate", "clear"}
Appending == {"mark", "header", "payload", "commit"}
Locked == Appending \cup {"visit", "nested", "erase"}

-----------------------------------------------------------------------------
(* Reading the medium. *)

Blank == [hdr |-> Garbage, body |-> Garbage, commit |-> ERASED]
Foreign == [hdr |-> Garbage, body |-> Garbage, commit |-> COMMIT]

Valid(s) ==
  /\ s.commit = COMMIT
  /\ s.hdr \in Header
  /\ s.hdr.payload # Empty => s.body = s.hdr.payload

After(i) == (i + 1) % Capacity
NoCursor == [slot |-> 0, remaining |-> 0]
Back(i, k) == (i + Capacity - k) % Capacity

(* Mutant of Beats: the scan compares the numbers the wrong way round. *)
LowerBeats(i, j) ==
  \/ slots[i].hdr.seq < slots[j].hdr.seq
  \/ slots[i].hdr.seq = slots[j].hdr.seq /\ i <= j

(* The first pass of the recovery: the highest number, and the first slot *)
(* that has it.                                                           *)
Beats(i, j) ==
  \/ slots[i].hdr.seq > slots[j].hdr.seq
  \/ slots[i].hdr.seq = slots[j].hdr.seq /\ i <= j

Best(ids) == CHOOSE i \in ids : \A j \in ids : Beats(i, j)

Candidates(bad) == {i \in SlotIds \ bad : Valid(slots[i])}

(* The second pass goes back from slot h while the numbers are consecutive. *)
Follows(bad, h, k) ==
  LET i == Back(h, k) IN
  /\ i \notin bad
  /\ Valid(slots[i])
  /\ slots[i].hdr.seq = (slots[h].hdr.seq + SeqCount - (k % SeqCount)) % SeqCount

RunLength(bad, h) ==
  CHOOSE n \in 0..Capacity :
    /\ \A k \in 0..(n - 1) : Follows(bad, h, k)
    /\ n < Capacity => ~Follows(bad, h, n)

(* The entries of a run of n slots that ends in slot h, the oldest first. *)
Run(h, n) == [k \in 1..n |-> slots[Back(h, n - k)].hdr]

(* The log that init finds when every slot can be read. *)
LogUpTo[h \in SlotIds] ==
  LET upTo[n \in 0..Capacity] == Run(h, n) IN upTo[RunLength({}, h)]

LogAmong[found \in SUBSET SlotIds] ==
  IF found = {} THEN <<>> ELSE LogUpTo[Best(found)]

Recoverable == LogAmong[Candidates({})]

-----------------------------------------------------------------------------
(* The writes of an append and of a clear. *)

Target == slots[cursor.slot]

Entry(t) == [seq |-> head_seq, payload |-> buf[t]]

(* The target slot once t's pending device write is complete. *)
Written(t) ==
  CASE pc[t] = "mark"    -> [Target EXCEPT !.commit = CLEAR]
    [] pc[t] = "header"  -> [Target EXCEPT !.hdr = Entry(t)]
    [] pc[t] = "payload" -> [Target EXCEPT !.body = buf[t]]
    [] pc[t] = "commit"  -> [Target EXCEPT !.commit = COMMIT]
    [] pc[t] = "erase"   -> Blank

(* The target slot when that write stops after some of its chunks. *)
Cut(t) ==
  {Target, Written(t)}
    \cup (IF pc[t] \in {"header", "erase"}
          THEN {[Target EXCEPT !.hdr = Garbage]} ELSE {})
    \cup (IF pc[t] = "payload" THEN {[Target EXCEPT !.body = Garbage]} ELSE {})

-----------------------------------------------------------------------------
(* fram_ring_init and fram_ring_deinit *)

Init ==
  /\ slots \in [SlotIds -> {Blank, Foreign}]
  /\ ready = FALSE
  /\ head_slot = 0 /\ tail_slot = 0 /\ head_seq = 0 /\ count = 0
  /\ mutex = None
  /\ pc = [t \in Tasks |-> "idle"]
  /\ buf = [t \in Tasks |-> None]
  /\ cursor = NoCursor
  /\ seen = <<>>
  /\ log = <<>>
  /\ tried = {}
  /\ dirty = FALSE

(* Read errors of either pass are taken for invalid slots. The task that   *)
(* calls init owns the object, so no other call is under way.              *)
RingInit ==
  /\ ~ready
  /\ \A t \in Tasks : pc[t] = "idle"
  /\ \E bad1, bad2 \in ReadFaults :
       LET found == Candidates(bad1)
           h == Best(found)
           n == RunLength(bad2, h)
       IN IF found = {}
          THEN /\ head_slot' = 0 /\ tail_slot' = 0
               /\ head_seq' = 0 /\ count' = 0
               /\ log' = <<>>
          ELSE /\ head_slot' = After(h)
               /\ tail_slot' = Back(After(h), n)
               /\ head_seq' = (slots[h].hdr.seq + 1) % SeqCount
               /\ count' = n
               /\ log' = Run(h, n)
  /\ ready' = TRUE
  /\ tried' = {}
  /\ dirty' = FALSE
  /\ UNCHANGED <<slots, mutex, pc, buf, cursor, seen>>

(* deinit takes no lock: calls that have looked at ready go on. *)
Deinit ==
  /\ ready
  /\ ready' = FALSE
  /\ UNCHANGED <<slots, head_slot, tail_slot, head_seq, count, mutex, pc, buf,
                 cursor, seen, ghosts>>

-----------------------------------------------------------------------------
(* The calls, up to the mutex: what they look at before they ask for it. *)

Enter(t, call, arg) ==
  /\ ready
  /\ pc[t] = "idle"
  /\ pc' = [pc EXCEPT ![t] = call]
  /\ buf' = [buf EXCEPT ![t] = arg]
  /\ UNCHANGED <<slots, object, mutex, cursor, seen, ghosts>>

(* Bound: no more appends are let in than sequence numbers up to MaxSeq are *)
(* left, so that none that was entered is held up by the bound.            *)
Room ==
  head_seq + Cardinality({t \in Tasks : pc[t] \in {"append"} \cup Appending})
    <= MaxSeq

CallAppend(t, p) == Room /\ Enter(t, "append", p)
CallPeek(t) == count # 0 /\ \E end \in {"oldest", "newest"} : Enter(t, end, None)
CallIterate(t) == count # 0 /\ Enter(t, "iterate", None)
CallClear(t) == Enter(t, "clear", None)

(* The mutex was not given within the timeout: ESP_ERR_TIMEOUT. *)
Timeout(t) ==
  /\ pc[t] \in Waiting
  /\ mutex # None
  /\ pc' = [pc EXCEPT ![t] = "idle"]
  /\ buf' = [buf EXCEPT ![t] = None]
  /\ UNCHANGED <<slots, object, mutex, cursor, seen, ghosts>>

Lock(t, from, to) ==
  /\ pc[t] = from
  /\ mutex = None
  /\ mutex' = t
  /\ pc' = [pc EXCEPT ![t] = to]

(* The call returns, and its argument and locals are gone. *)
Unlock(t, from) ==
  /\ pc[t] = from
  /\ mutex' = None
  /\ pc' = [pc EXCEPT ![t] = "idle"]
  /\ buf' = [buf EXCEPT ![t] = None]
  /\ cursor' = NoCursor
  /\ seen' = <<>>

-----------------------------------------------------------------------------
(* fram_ring_append *)

LockAppend(t) ==
  /\ head_seq <= MaxSeq
  /\ Lock(t, "append", "mark")
  /\ cursor' = [cursor EXCEPT !.slot = head_slot]
  /\ tried' = tried \cup {Entry(t)}
  /\ UNCHANGED <<slots, object, buf, seen, log, dirty>>

(* A device write of t that completes, and what t does next. *)
WriteStep(t, from, to) ==
  /\ pc[t] = from
  /\ slots' = [slots EXCEPT ![cursor.slot] = Written(t)]
  /\ pc' = [pc EXCEPT ![t] = to]
  /\ UNCHANGED <<object, mutex, buf, cursor, seen, ghosts>>

ClearCommit(t) == WriteStep(t, "mark", "header")

WriteHeader(t) ==
  WriteStep(t, "header", IF buf[t] = Empty THEN "commit" ELSE "payload")

WritePayload(t) == WriteStep(t, "payload", "commit")

(* Mutants of NextHead, NextTail and NextSeq: an index that does not wrap;  *)
(* a head, a tail or a number that is not brought up to date.               *)
HeadBeyondLast == head_slot + 1
HeadStays == head_slot
TailStays == tail_slot
SeqStays == head_seq

(* What a completed append makes of the object's indices. *)
NextHead == After(head_slot)
NextTail == IF count < Capacity THEN tail_slot ELSE After(tail_slot)
NextSeq == (head_seq + 1) % SeqCount
NextCount == IF count < Capacity THEN count + 1 ELSE count

(* The log with e appended, without its oldest entry if it was full. *)
Pushed(l, e) == Append(IF Len(l) < Capacity THEN l ELSE Tail(l), e)

WriteCommit(t) ==
  /\ Unlock(t, "commit")
  /\ slots' = [slots EXCEPT ![cursor.slot] = Written(t)]
  /\ head_seq' = NextSeq
  /\ head_slot' = NextHead
  /\ tail_slot' = NextTail
  /\ count' = NextCount
  /\ log' = Pushed(log, Entry(t))
  /\ tried' = {}
  /\ UNCHANGED <<ready, dirty>>

-----------------------------------------------------------------------------
(* The readers. Nothing else touches the slots while the mutex is held, so  *)
(* the lock, the reads and the unlock of a peek are one step. A read error, *)
(* like an invalid slot, ends the call.                                     *)

PeekSlot(t, i) ==
  /\ mutex = None
  /\ pc' = [pc EXCEPT ![t] = "idle"]
  /\ \/ Valid(slots[i]) /\ buf' = [buf EXCEPT ![t] = slots[i].hdr]
     \/ UNCHANGED buf
  /\ UNCHANGED <<slots, object, mutex, cursor, seen, ghosts>>

PeekOldest(t) == pc[t] = "oldest" /\ PeekSlot(t, tail_slot)
PeekNewest(t) == pc[t] = "newest" /\ PeekSlot(t, Back(head_slot, 1))

(* An iteration keeps the mutex from its first entry to its last. *)
LockIterate(t) ==
  /\ Lock(t, "iterate", "visit")
  /\ cursor' = [slot |-> tail_slot, remaining |-> count]
  /\ seen' = <<>>
  /\ UNCHANGED <<slots, object, buf, ghosts>>

(* The entry goes to the callback, which may call the ring: the mutex is *)
(* not recursive, so all such a call can do is wait for its timeout.     *)
Visit(t) ==
  /\ pc[t] = "visit"
  /\ cursor.remaining > 0
  /\ Valid(Target)
  /\ seen' = Append(seen, Target.hdr)
  /\ cursor' = [slot |-> After(cursor.slot), remaining |-> cursor.remaining - 1]
  /\ \E next \in {"visit"} \cup (IF Nested THEN {"nested"} ELSE {}) :
       pc' = [pc EXCEPT ![t] = next]
  /\ UNCHANGED <<slots, object, mutex, buf, ghosts>>

(* Mutant of NestedTimeout: the mutex is waited for with portMAX_DELAY. *)
NestedForever(t) == FALSE /\ pc[t] = "nested" /\ UNCHANGED vars

NestedTimeout(t) ==
  /\ pc[t] = "nested"
  /\ mutex # None
  /\ pc' = [pc EXCEPT ![t] = "visit"]
  /\ UNCHANGED <<slots, object, mutex, buf, cursor, seen, ghosts>>

(* After the last entry, at one that is not valid or cannot be read, or *)
(* when the callback returns an error.                                  *)
EndIterate(t) ==
  /\ Unlock(t, "visit")
  /\ UNCHANGED <<slots, object, ghosts>>

-----------------------------------------------------------------------------
(* fram_ring_clear: the erase goes upwards through the partition. *)

LockClear(t) ==
  /\ Lock(t, "clear", "erase")
  /\ cursor' = [cursor EXCEPT !.slot = 0]
  /\ log' = <<>>
  /\ dirty' = TRUE
  /\ UNCHANGED <<slots, object, buf, seen, tried>>

EraseSlot(t) ==
  /\ pc[t] = "erase"
  /\ cursor.slot < Capacity - 1
  /\ slots' = [slots EXCEPT ![cursor.slot] = Written(t)]
  /\ cursor' = [cursor EXCEPT !.slot = @ + 1]
  /\ UNCHANGED <<object, mutex, pc, buf, seen, ghosts>>

EraseLast(t) ==
  /\ cursor.slot = Capacity - 1
  /\ Unlock(t, "erase")
  /\ slots' = [slots EXCEPT ![cursor.slot] = Written(t)]
  /\ head_slot' = 0 /\ tail_slot' = 0 /\ head_seq' = 0 /\ count' = 0
  /\ log' = <<>>
  /\ tried' = {}
  /\ dirty' = FALSE
  /\ UNCHANGED ready

-----------------------------------------------------------------------------
(* Failures. *)

(* Mutant of IoError: the error path returns without the unlock. *)
ErrorKeepsMutex(t) ==
  /\ pc[t] \in Appending \cup {"erase"}
  /\ \E s \in Cut(t) : slots' = [slots EXCEPT ![cursor.slot] = s]
  /\ pc' = [pc EXCEPT ![t] = "idle"]
  /\ UNCHANGED <<object, mutex, buf, cursor, seen, ghosts>>

(* The device reports an error in a write: the call unlocks and returns it, *)
(* and the object keeps what it held before the call.                       *)
IoError(t) ==
  /\ pc[t] \in Appending \cup {"erase"}
  /\ \E s \in Cut(t) : slots' = [slots EXCEPT ![cursor.slot] = s]
  /\ Unlock(t, pc[t])
  /\ UNCHANGED <<object, ghosts>>

(* The power goes: the write under way is cut, RAM is lost. *)
PowerLoss ==
  /\ IF mutex # None /\ pc[mutex] \in Appending \cup {"erase"}
     THEN \E s \in Cut(mutex) : slots' = [slots EXCEPT ![cursor.slot] = s]
     ELSE UNCHANGED slots
  /\ ready' = FALSE
  /\ head_slot' = 0 /\ tail_slot' = 0 /\ head_seq' = 0 /\ count' = 0
  /\ mutex' = None
  /\ pc' = [t \in Tasks |-> "idle"]
  /\ buf' = [t \in Tasks |-> None]
  /\ cursor' = NoCursor
  /\ seen' = <<>>
  /\ UNCHANGED ghosts

-----------------------------------------------------------------------------
Step(t) ==
  \/ Timeout(t)
  \/ LockAppend(t) \/ ClearCommit(t) \/ WriteHeader(t) \/ WritePayload(t)
  \/ WriteCommit(t)
  \/ PeekOldest(t) \/ PeekNewest(t)
  \/ LockIterate(t) \/ Visit(t) \/ NestedTimeout(t) \/ EndIterate(t)
  \/ LockClear(t) \/ EraseSlot(t) \/ EraseLast(t)
  \/ IoError(t)

Call(t) ==
  \/ \E p \in Payloads : CallAppend(t, p)
  \/ CallPeek(t)
  \/ CallIterate(t)
  \/ CallClear(t)

Next ==
  \/ RingInit
  \/ Deinit
  \/ PowerLoss
  \/ \E t \in Tasks : Call(t) \/ Step(t)

Spec == Init /\ [][Next]_vars

FairSpec == Spec /\ \A t \in Tasks : WF_vars(Step(t))

-----------------------------------------------------------------------------
(* Properties *)

(* The variables hold values of their C types, and slots stay in range. *)
TypeOK ==
  /\ slots \in [SlotIds -> Slot]
  /\ ready \in BOOLEAN
  /\ head_slot \in SlotIds /\ tail_slot \in SlotIds
  /\ head_seq \in Seqs
  /\ count \in 0..Capacity
  /\ mutex \in Tasks \cup {None}
  /\ pc \in [Tasks -> {"idle"} \cup Waiting \cup Locked]
  /\ buf \in [Tasks -> Payloads \cup Header \cup {None}]
  /\ cursor \in [slot : SlotIds, remaining : 0..Capacity]
  /\ seen \in Seq(Header)
  /\ log \in Seq(Header)
  /\ tried \subseteq Header
  /\ dirty \in BOOLEAN

(* Crash recovery: whatever step the power is lost at, the next init finds *)
(* the log of the appends that returned OK, possibly followed by one that  *)
(* did not; an append that fails when the ring is full costs the oldest    *)
(* entry and no other. After an interrupted clear, older entries may come  *)
(* before the log.                                                         *)
RecoveryKeepsLog ==
  LET full == Len(log) = Capacity
      old == {log} \cup (IF full /\ tried # {} THEN {Tail(log)} ELSE {})
      new == {<<>>} \cup {<<e>> : e \in tried}
  IN \E o \in old, n \in new :
       IF dirty THEN IsSuffix(o \o n, Recoverable) ELSE Recoverable = o \o n

(* An iteration gives its callback the log from the oldest entry on, every *)
(* entry once; only the place of the oldest entry of a full ring may show  *)
(* the entry of an append that failed.                                     *)
IterationFollowsLog ==
  \A t \in Tasks :
    pc[t] \in {"visit", "nested"} /\ ~dirty =>
      \E whole \in {log} \cup (IF Len(log) = Capacity
                               THEN {<<e>> \o Tail(log) : e \in tried} ELSE {}) :
        /\ IsPrefix(seen, whole)
        /\ cursor.remaining = Len(whole) - Len(seen)

(* Every return path gives the mutex back: a task holds it exactly while   *)
(* it is inside an append, an iteration or a clear.                        *)
MutexHeldOnlyInside == \A t \in Tasks : mutex = t <=> pc[t] \in Locked

(* Whatever ran between a peek's look at count and its read, what it       *)
(* returns is the newest or the oldest entry of the log; only in the place *)
(* of the oldest one of a full ring may it find that of a failed append.   *)
PeeksAreFresh ==
  [][\A t \in Tasks : pc[t] \in Waiting /\ buf'[t] \in Header /\ log # <<>> =>
       \/ pc[t] = "newest" /\ buf'[t] = Last(log)
       \/ pc[t] = "oldest" /\ (buf'[t] = Head(log) \/ dirty)
       \/ /\ pc[t] = "oldest" \/ Capacity = 1
          /\ Len(log) = Capacity
          /\ buf'[t] \in tried
    ]_vars

(* The entry that an append is about to overwrite is the oldest one on the *)
(* medium, or the remains of an append that failed.                        *)
OverwritesOnlyOldest ==
  [][\A t \in Tasks : LockAppend(t) /\ Valid(slots[head_slot]) =>
       \/ slots[head_slot].hdr \in tried
       \/ \A i \in Candidates({}) : slots[head_slot].hdr.seq <= slots[i].hdr.seq]_vars

(* The slots behave like one crash-safe log. *)
PayloadsOf[hdrs \in Seq(Header)] == [i \in DOMAIN hdrs |-> hdrs[i].payload]

Log == INSTANCE CrashSafeLog WITH
         entries <- PayloadsOf[log],
         durable <- PayloadsOf[Recoverable],
         partial <- dirty,
         pend <- [t \in Tasks |-> IF pc[t] \in {"append"} \cup Appending
                                  THEN buf[t] ELSE None]

(* Appends, clears, failures and restarts implement CrashSafeLog: what a   *)
(* restart would find changes only with the append or the clear under way, *)
(* by the entry in question or the oldest of a full log, and an entry that *)
(* was lost or taken back does not return.                                 *)
ImplementsLog == Log!Spec

(* Every call that was entered returns: with OK, an error or a timeout. *)
EveryCallReturns == \A t \in Tasks : pc[t] # "idle" ~> pc[t] = "idle"
=============================================================================
