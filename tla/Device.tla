------------------------------- MODULE Device -------------------------------
(***************************************************************************)
(* fram_dev: reads and writes of the whole FRAM, cut into chunks the HAL   *)
(* can transfer, exclusive under the device's mutex; and the error         *)
(* statistics, which are also updated outside it.                          *)
(*                                                                         *)
(* An address holds a value. A HAL call is one step; when it fails, or the *)
(* power goes in it, a part of its chunk is written. The statistics are    *)
(* plain C integers: a task's load and its store are steps of their own,   *)
(* since fram_dev_record_error also runs without the mutex (after a lock   *)
(* timeout) and fram_dev_reset_stats never takes it.                       *)
(***************************************************************************)
EXTENDS Naturals, Sequences

CONSTANTS
  Tasks,       \* the FreeRTOS tasks that share the device
  Values,      \* the values that can be written
  Erased,      \* the value of an address that was never written
  None,        \* no task
  Size,        \* hal->size_bytes
  MaxTransfer, \* hal->max_transfer, or Size if that is 0
  Threshold,   \* dev->error_threshold
  TotalCount,  \* number of values of error_count (2^32)
  Ranges       \* the offsets and lengths that callers ask for

ASSUME ConstantsAssumption ==
  /\ Size \in Nat \ {0}
  /\ MaxTransfer \in Nat \ {0}
  /\ Threshold \in Nat \ {0}
  /\ TotalCount \in Nat \ {0, 1}
  /\ None \notin Tasks
  /\ Ranges \subseteq Nat \X (Nat \ {0})

Addresses == 0..(Size - 1)
Cells == Values \cup {Erased}

VARIABLES
  mem,         \* the FRAM
  mutex,       \* the task that holds dev->mutex, or None
  error_count, \* dev->error_count
  consecutive, \* dev->consecutive_errors, no further than Threshold
  healthy,     \* dev->healthy
  closed,      \* hal->deinit was called: the HAL fails every transfer
  pc,          \* what each task is about to do
  op,          \* each task's call: its arguments, and its locals addr and remaining
  out,         \* what each task's read has put into its buffer
  reg,         \* a counter that a task has loaded and not yet stored
  before,      \* ghost: the FRAM when the mutex was last taken or given
  errors,      \* ghost: errors since the last reset, as error_count counts
  streak,      \* ghost: errors since the last success, no further than Threshold
  worst,       \* ghost: the largest streak since the last reset
  raced        \* ghost: the counters were updated by two tasks at a time

counters == <<error_count, consecutive, healthy, closed>>
tallies == <<errors, streak, worst, raced>>
vars == <<mem, mutex, error_count, consecutive, healthy, closed, pc, op, out, reg,
          before, errors, streak, worst, raced>>

Recording == {"loadTotal", "storeTotal", "loadRun", "storeRun", "mark"}
Resetting == {"zeroTotal", "zeroRun", "heal"}

Idle == [kind |-> "read", addr |-> 0, remaining |-> 0, offset |-> 0, len |-> 0,
         value |-> Erased]

Up(n) == IF n < Threshold THEN n + 1 ELSE n
Larger(m, n) == IF m > n THEN m ELSE n

-----------------------------------------------------------------------------
(* fram_dev_init: the mutex and the statistics are new. *)
Init ==
  /\ mem = [i \in Addresses |-> Erased]
  /\ mutex = None
  /\ error_count = 0 /\ consecutive = 0 /\ healthy = TRUE
  /\ closed = FALSE
  /\ pc = [t \in Tasks |-> "idle"]
  /\ op = [t \in Tasks |-> Idle]
  /\ out = [t \in Tasks |-> <<>>]
  /\ reg = [t \in Tasks |-> 0]
  /\ before = mem
  /\ errors = 0 /\ streak = 0 /\ worst = 0
  /\ raced = FALSE

(* Mutant of InRange: offset and length are checked apart only. *)
EachInRange(offset, len) == offset <= Size /\ len <= Size

InRange(offset, len) ==
  /\ offset <= Size /\ len <= Size
  /\ offset <= Size - len

Call(t, kind, offset, len, value) ==
  /\ pc[t] = "idle"
  /\ InRange(offset, len)
  /\ pc' = [pc EXCEPT ![t] = "lock"]
  /\ op' = [op EXCEPT ![t] = [kind |-> kind, addr |-> offset, remaining |-> len,
                              offset |-> offset, len |-> len, value |-> value]]
  /\ UNCHANGED <<mem, mutex, counters, out, reg, before, tallies>>

CallRead(t, offset, len) == Call(t, "read", offset, len, Erased)
CallWrite(t, offset, len) == \E v \in Values : Call(t, "write", offset, len, v)

-----------------------------------------------------------------------------
(* fram_dev_lock, and its timeout *)

(* Mutant of Lock: the mutex is not waited for. *)
LockAnyway(t) ==
  /\ pc[t] = "lock"
  /\ mutex' = t
  /\ before' = mem
  /\ pc' = [pc EXCEPT ![t] = "transfer"]
  /\ out' = [out EXCEPT ![t] = <<>>]
  /\ UNCHANGED <<mem, counters, op, reg, tallies>>

Lock(t) ==
  /\ pc[t] = "lock"
  /\ mutex = None
  /\ mutex' = t
  /\ before' = mem
  /\ pc' = [pc EXCEPT ![t] = "transfer"]
  /\ out' = [out EXCEPT ![t] = <<>>]
  /\ UNCHANGED <<mem, counters, op, reg, tallies>>

(* t enters an update of the counters, maybe in the middle of another one. *)
Touch(t) ==
  raced' = (raced \/ \E u \in Tasks \ {t} : pc[u] \in Recording \cup Resetting)

(* An error has happened, and t is about to record it. *)
Fail(t) ==
  /\ Touch(t)
  /\ pc' = [pc EXCEPT ![t] = "loadTotal"]
  /\ errors' = (errors + 1) % TotalCount
  /\ streak' = Up(streak)
  /\ worst' = Larger(worst, streak')

(* Mutant of Timeout: a lock timeout returns without fram_dev_record_error. *)
TimeoutUnrecorded(t) ==
  /\ pc[t] = "lock"
  /\ mutex # None
  /\ pc' = [pc EXCEPT ![t] = "idle"]
  /\ op' = [op EXCEPT ![t] = Idle]
  /\ errors' = (errors + 1) % TotalCount
  /\ UNCHANGED <<mem, mutex, counters, out, reg, before, streak, worst, raced>>

(* The mutex was not given within the timeout: an error, recorded without it. *)
Timeout(t) ==
  /\ pc[t] = "lock"
  /\ mutex # None
  /\ Fail(t)
  /\ UNCHANGED <<mem, mutex, counters, op, out, reg, before>>

-----------------------------------------------------------------------------
(* The chunk loop of fram_dev_read and fram_dev_write *)

ChunkSize(t) ==
  IF op[t].remaining > MaxTransfer THEN MaxTransfer ELSE op[t].remaining

(* Mutant of Advanced: every chunk goes to the address of the first. *)
AddrStays(t, n) == [op[t] EXCEPT !.remaining = @ - n]

Advanced(t, n) == [op[t] EXCEPT !.addr = @ + n, !.remaining = @ - n]

(* The first n addresses of t's chunk are written. *)
Put(t, n) ==
  [i \in Addresses |->
     IF i \in op[t].addr..(op[t].addr + n - 1) THEN op[t].value ELSE mem[i]]

Return(t) ==
  /\ pc' = [pc EXCEPT ![t] = "idle"]
  /\ op' = [op EXCEPT ![t] = Idle]
  /\ out' = [out EXCEPT ![t] = <<>>]
  /\ mutex' = IF mutex = t THEN None ELSE mutex
  /\ reg' = [reg EXCEPT ![t] = 0]
  /\ before' = IF mutex = t THEN mem ELSE before

(* A chunk is transferred: a success. *)
Chunk(t) ==
  LET n == ChunkSize(t) IN
  /\ pc[t] = "transfer"
  /\ op[t].remaining > 0
  /\ ~closed
  /\ op' = [op EXCEPT ![t] = Advanced(t, n)]
  /\ IF op[t].kind = "write"
     THEN mem' = Put(t, n) /\ UNCHANGED out
     ELSE /\ out' = [out EXCEPT ![t] =
                       @ \o [k \in 1..n |-> mem[op[t].addr + k - 1]]]
          /\ UNCHANGED mem
  /\ consecutive' = 0
  /\ streak' = 0
  /\ Touch(t)
  /\ UNCHANGED <<mutex, error_count, healthy, closed, pc, reg, before, errors,
                 worst>>

(* All chunks are done: ESP_OK. *)
Done(t) ==
  /\ pc[t] = "transfer"
  /\ op[t].remaining = 0
  /\ Return(t)
  /\ UNCHANGED <<mem, counters, tallies>>

(* The HAL fails in a chunk, after n of its addresses. *)
ChunkFails(t) ==
  /\ pc[t] = "transfer"
  /\ op[t].remaining > 0
  /\ IF op[t].kind = "write" /\ ~closed
     THEN \E n \in 0..ChunkSize(t) : mem' = Put(t, n)
     ELSE UNCHANGED mem
  /\ Fail(t)
  /\ UNCHANGED <<mutex, counters, op, out, reg, before>>

-----------------------------------------------------------------------------
(* fram_dev_record_error, with the return of the call *)

LoadTotal(t) ==
  /\ pc[t] = "loadTotal"
  /\ reg' = [reg EXCEPT ![t] = error_count]
  /\ pc' = [pc EXCEPT ![t] = "storeTotal"]
  /\ UNCHANGED <<mem, mutex, counters, op, out, before, tallies>>

StoreTotal(t) ==
  /\ pc[t] = "storeTotal"
  /\ error_count' = (reg[t] + 1) % TotalCount
  /\ reg' = [reg EXCEPT ![t] = 0]
  /\ pc' = [pc EXCEPT ![t] = "loadRun"]
  /\ UNCHANGED <<mem, mutex, consecutive, healthy, closed, op, out, before,
                 tallies>>

LoadRun(t) ==
  /\ pc[t] = "loadRun"
  /\ reg' = [reg EXCEPT ![t] = consecutive]
  /\ pc' = [pc EXCEPT ![t] = "storeRun"]
  /\ UNCHANGED <<mem, mutex, counters, op, out, before, tallies>>

(* Mutant of AtThreshold: one error more is needed. *)
AboveThreshold(n) == n > Threshold

AtThreshold(n) == n >= Threshold

StoreRun(t) ==
  /\ pc[t] = "storeRun"
  /\ consecutive' = Up(reg[t])
  /\ IF AtThreshold(Up(reg[t]))
     THEN pc' = [pc EXCEPT ![t] = "mark"] /\ UNCHANGED <<mutex, op, out, reg, before>>
     ELSE Return(t)
  /\ UNCHANGED <<mem, error_count, healthy, closed, tallies>>

MarkUnhealthy(t) ==
  /\ pc[t] = "mark"
  /\ healthy' = FALSE
  /\ Return(t)
  /\ UNCHANGED <<mem, error_count, consecutive, closed, tallies>>

-----------------------------------------------------------------------------
(* fram_dev_reset_stats: three stores, no mutex. *)

CallReset(t) ==
  /\ pc[t] = "idle"
  /\ pc' = [pc EXCEPT ![t] = "zeroTotal"]
  /\ Touch(t)
  /\ UNCHANGED <<mem, mutex, counters, op, out, reg, before, errors, streak,
                 worst>>

ZeroTotal(t) ==
  /\ pc[t] = "zeroTotal"
  /\ error_count' = 0
  /\ pc' = [pc EXCEPT ![t] = "zeroRun"]
  /\ UNCHANGED <<mem, mutex, consecutive, healthy, closed, op, out, reg,
                 before, tallies>>

ZeroRun(t) ==
  /\ pc[t] = "zeroRun"
  /\ consecutive' = 0
  /\ pc' = [pc EXCEPT ![t] = "heal"]
  /\ UNCHANGED <<mem, mutex, error_count, healthy, closed, op, out, reg,
                 before, tallies>>

(* Mutant of Heal: the flag is left to the next success. *)
HealLater(t) ==
  /\ pc[t] = "heal"
  /\ Return(t)
  /\ errors' = 0 /\ streak' = 0 /\ worst' = 0
  /\ UNCHANGED <<mem, counters, raced>>

Heal(t) ==
  /\ pc[t] = "heal"
  /\ healthy' = TRUE
  /\ Return(t)
  /\ errors' = 0 /\ streak' = 0 /\ worst' = 0
  /\ UNCHANGED <<mem, error_count, consecutive, closed, raced>>

-----------------------------------------------------------------------------
(* fram_dev_init clears the object. *)
Fresh ==
  /\ mutex' = None
  /\ error_count' = 0 /\ consecutive' = 0 /\ healthy' = TRUE
  /\ closed' = FALSE
  /\ pc' = [t \in Tasks |-> "idle"]
  /\ op' = [t \in Tasks |-> Idle]
  /\ out' = [t \in Tasks |-> <<>>]
  /\ reg' = [t \in Tasks |-> 0]
  /\ errors' = 0 /\ streak' = 0 /\ worst' = 0
  /\ raced' = FALSE
  /\ before' = mem'

(* The power goes, maybe in the chunk under way, and fram_dev_init runs. *)
PowerLoss ==
  /\ IF mutex # None /\ pc[mutex] = "transfer" /\ op[mutex].kind = "write" /\ ~closed
     THEN \E n \in 0..ChunkSize(mutex) : mem' = Put(mutex, n)
     ELSE UNCHANGED mem
  /\ Fresh

(* fram_dev_deinit takes no mutex; a transfer between two chunks goes on   *)
(* to the next, which fails.                                               *)
Deinit ==
  /\ ~closed
  /\ closed' = TRUE
  /\ healthy' = FALSE
  /\ UNCHANGED <<mem, mutex, error_count, consecutive, pc, op, out, reg,
                 before, tallies>>

Reinit ==
  /\ closed
  /\ \A t \in Tasks : pc[t] = "idle"
  /\ UNCHANGED mem
  /\ Fresh

Step(t) ==
  \/ Lock(t) \/ Timeout(t)
  \/ Chunk(t) \/ Done(t) \/ ChunkFails(t)
  \/ LoadTotal(t) \/ StoreTotal(t) \/ LoadRun(t) \/ StoreRun(t)
  \/ MarkUnhealthy(t)
  \/ ZeroTotal(t) \/ ZeroRun(t) \/ Heal(t)

Next ==
  \/ PowerLoss \/ Deinit \/ Reinit
  \/ \E t \in Tasks :
       \/ \E r \in Ranges : CallRead(t, r[1], r[2]) \/ CallWrite(t, r[1], r[2])
       \/ CallReset(t)
       \/ Step(t)

Spec == Init /\ [][Next]_vars

-----------------------------------------------------------------------------
(* Properties *)

(* The variables hold values of their C types, and no access leaves the    *)
(* device.                                                                 *)
TypeOK ==
  /\ mem \in [Addresses -> Cells]
  /\ mutex \in Tasks \cup {None}
  /\ error_count \in 0..(TotalCount - 1)
  /\ consecutive \in 0..Threshold
  /\ healthy \in BOOLEAN /\ closed \in BOOLEAN
  /\ pc \in [Tasks -> {"idle", "lock", "transfer"} \cup Recording \cup Resetting]
  /\ op \in [Tasks -> [kind : {"read", "write"}, addr : 0..Size,
                       remaining : 0..Size, offset : 0..Size, len : 0..Size,
                       value : Cells]]
  /\ \A t \in Tasks : op[t].addr + op[t].remaining <= Size
  /\ out \in [Tasks -> Seq(Cells)]
  /\ reg \in [Tasks -> Nat]
  /\ before \in [Addresses -> Cells]
  /\ errors \in 0..(TotalCount - 1)
  /\ streak \in 0..Threshold
  /\ worst \in 0..Threshold
  /\ raced \in BOOLEAN

(* What the FRAM holds after the first n addresses of t's write, and       *)
(* nothing else, since t took the mutex.                                   *)
Effect(t, n) ==
  [i \in Addresses |->
     IF op[t].kind = "write" /\ i \in op[t].offset..(op[t].offset + n - 1)
     THEN op[t].value ELSE before[i]]

(* What the layers above build on: when a call gives the device back with  *)
(* OK, a read has seen its range as it was at one moment and a write has   *)
(* changed its range and nothing else; after an error or a power loss, a   *)
(* write has changed a leading part of its range and nothing else.         *)
TransfersAreAtomic ==
  [][\A t \in Tasks : mutex = t /\ mutex' # t =>
       IF Done(t)
       THEN /\ mem' = Effect(t, op[t].len)
            /\ op[t].kind = "read" =>
                 out[t] = [k \in 1..op[t].len |-> before[op[t].offset + k - 1]]
       ELSE \E n \in 0..op[t].len : mem' = Effect(t, n)]_vars

Quiet == \A t \in Tasks : pc[t] \notin Recording \cup Resetting

(* The device is reported unhealthy exactly when, since the last reset, as *)
(* many errors as the threshold says came in a row; unless two updates of  *)
(* the counters overlapped.                                                *)
HealthTracksStreak == Quiet /\ ~raced /\ ~closed => (healthy <=> worst < Threshold)

(* The same without the exception, as is_healthy is used.                  *)
HealthAlwaysTracks == Quiet /\ ~closed => (healthy <=> worst < Threshold)

(* error_count is the number of errors since the last reset, of transfers  *)
(* and of lock timeouts, unless two updates overlapped.                    *)
ErrorsCounted == Quiet /\ ~raced => error_count = errors
=============================================================================
