---------------------------- MODULE DeviceProofs ----------------------------
(***************************************************************************)
(* Proofs about Device, for every number of tasks, size, chunk length,     *)
(* threshold and range of the counters: no access leaves the device, what  *)
(* a caller sees of a transfer is atomic, and the statistics agree with    *)
(* what happened as long as no two updates of them overlap.                *)
(***************************************************************************)
EXTENDS Device, TLAPS

-----------------------------------------------------------------------------
(* Type correctness. *)

Ops == [kind : {"read", "write"}, addr : 0..Size, remaining : 0..Size,
        offset : 0..Size, len : 0..Size, value : Cells]

PCs == {"idle", "lock", "transfer"} \cup Recording \cup Resetting

(* TypeOK in parts that the steps change together. *)
CallTypes ==
  /\ op \in [Tasks -> Ops]
  /\ \A t \in Tasks : op[t].addr + op[t].remaining <= Size

DataTypes ==
  /\ mem \in [Addresses -> Cells]
  /\ before \in [Addresses -> Cells]
  /\ out \in [Tasks -> Seq(Cells)]

PlaceTypes ==
  /\ mutex \in Tasks \cup {None}
  /\ pc \in [Tasks -> PCs]
  /\ reg \in [Tasks -> Nat]
  (* What storeRun is about to add one to came from consecutive_errors. *)
  /\ \A t \in Tasks : pc[t] = "storeRun" => reg[t] <= Threshold

FlagTypes == healthy \in BOOLEAN /\ closed \in BOOLEAN /\ raced \in BOOLEAN

CountTypes ==
  /\ error_count \in 0..(TotalCount - 1) /\ errors \in 0..(TotalCount - 1)
  /\ consecutive \in 0..Threshold
  /\ streak \in 0..Threshold /\ worst \in 0..Threshold

TInv == CallTypes /\ DataTypes /\ PlaceTypes /\ FlagTypes /\ CountTypes

LEMMA TInvTypes == TInv => TypeOK
BY DEF TInv, CallTypes, DataTypes, PlaceTypes, FlagTypes, CountTypes, TypeOK,
       Ops, PCs

LEMMA UpType ==
  ASSUME NEW n \in 0..Threshold
  PROVE  Up(n) \in 0..Threshold
BY ConstantsAssumption DEF Up

LEMMA PutType ==
  ASSUME TInv, NEW t \in Tasks, NEW n
  PROVE  Put(t, n) \in [Addresses -> Cells]
BY DEF TInv, DataTypes, CallTypes, Ops, Put

LEMMA ChunkIs ==
  ASSUME TInv, NEW t \in Tasks
  PROVE  /\ ChunkSize(t) \in Nat /\ ChunkSize(t) <= op[t].remaining
         /\ op[t].remaining > 0 => ChunkSize(t) > 0
         /\ op[t] \in Ops /\ op[t].addr + op[t].remaining <= Size
         /\ op[t].addr \in Nat /\ op[t].remaining \in Nat
BY ConstantsAssumption DEF TInv, CallTypes, ChunkSize, Ops

LEMMA IdleType == Idle \in Ops /\ Idle.addr + Idle.remaining <= Size
BY ConstantsAssumption DEF Idle, Ops, Cells

(* A call that returns, whatever it leaves in the counters. *)
LEMMA ReturnType ==
  ASSUME TInv, NEW t \in Tasks, Return(t), UNCHANGED mem
  PROVE  /\ CallTypes' /\ DataTypes' /\ PlaceTypes'
         /\ pc'[t] = "idle" /\ \A u \in Tasks : u # t => pc'[u] = pc[u]
<1>1. CallTypes'
  <2>1. op' = [op EXCEPT ![t] = Idle]
    BY DEF Return
  <2>2. op' \in [Tasks -> Ops]
    BY <2>1, IdleType DEF TInv, CallTypes
  <2>3. \A u \in Tasks : op'[u] = Idle \/ op'[u] = op[u]
    BY <2>1 DEF TInv, CallTypes
  <2>4. QED
    BY <2>2, <2>3, IdleType DEF TInv, CallTypes
<1>2. DataTypes'
  BY DEF Return, TInv, DataTypes
<1>3. PlaceTypes'
  BY DEF Return, TInv, PlaceTypes, PCs
<1>4. QED
  BY <1>1, <1>2, <1>3 DEF Return, TInv, PlaceTypes

LEMMA InitTInv == Init => TInv
<1>. SUFFICES ASSUME Init PROVE TInv
  OBVIOUS
<1>1. CallTypes
  <2>1. op \in [Tasks -> Ops] /\ \A t \in Tasks : op[t] = Idle
    BY IdleType DEF Init
  <2>2. QED
    BY <2>1, IdleType DEF CallTypes
<1>2. DataTypes
  BY DEF Init, DataTypes, Cells
<1>3. PlaceTypes
  BY ConstantsAssumption DEF Init, PlaceTypes, PCs
<1>4. FlagTypes
  BY DEF Init, FlagTypes
<1>5. CountTypes
  BY ConstantsAssumption DEF Init, CountTypes
<1>6. QED
  BY <1>1, <1>2, <1>3, <1>4, <1>5 DEF TInv

LEMMA FailType ==
  ASSUME TInv, NEW t \in Tasks, Fail(t), UNCHANGED <<mutex, reg, counters>>
  PROVE  PlaceTypes' /\ FlagTypes' /\ CountTypes'
<1>1. streak' \in 0..Threshold
  BY UpType DEF Fail, TInv, CountTypes
<1>2. worst' \in 0..Threshold
  BY <1>1 DEF Fail, TInv, CountTypes, Larger
<1>3. errors' \in 0..(TotalCount - 1)
  BY ConstantsAssumption DEF Fail, TInv, CountTypes
<1>4. CountTypes'
  BY <1>1, <1>2, <1>3 DEF TInv, CountTypes, counters
<1>5. FlagTypes'
  BY DEF Fail, Touch, TInv, FlagTypes, counters
<1>6. PlaceTypes'
  BY DEF Fail, TInv, PlaceTypes, PCs, Recording
<1>7. QED
  BY <1>4, <1>5, <1>6

LEMMA CallTInv ==
  ASSUME TInv, NEW t \in Tasks, NEW kind \in {"read", "write"},
         NEW r \in Ranges, NEW v \in Cells, Call(t, kind, r[1], r[2], v)
  PROVE  TInv'
<1>1. r[1] \in Nat /\ r[2] \in Nat /\ Size \in Nat
  BY ConstantsAssumption
<1>2. /\ r[1] \in 0..Size /\ r[2] \in 0..Size /\ r[1] + r[2] <= Size
  BY <1>1 DEF Call, InRange
<1>. DEFINE o == [kind |-> kind, addr |-> r[1], remaining |-> r[2],
                  offset |-> r[1], len |-> r[2], value |-> v]
<1>3. op' = [op EXCEPT ![t] = o]
  BY DEF Call
<1>4. o \in Ops /\ o.addr + o.remaining <= Size
  BY <1>2 DEF Ops
<1>. HIDE DEF o
<1>5. op' \in [Tasks -> Ops] /\ \A u \in Tasks : op'[u] = o \/ op'[u] = op[u]
  BY <1>3, <1>4 DEF TInv, CallTypes
<1>6. CallTypes'
  BY <1>4, <1>5 DEF TInv, CallTypes
<1>7. PlaceTypes'
  BY DEF Call, TInv, PlaceTypes, PCs
<1>8. DataTypes' /\ FlagTypes' /\ CountTypes'
  BY DEF Call, TInv, DataTypes, FlagTypes, CountTypes, counters, tallies
<1>9. QED
  BY <1>6, <1>7, <1>8 DEF TInv

LEMMA ChunkTInv ==
  ASSUME TInv, NEW t \in Tasks, Chunk(t)
  PROVE  TInv'
<1>1. PICK n \in Nat : n = ChunkSize(t)
  BY ChunkIs
<1>2. /\ n <= op[t].remaining /\ op[t] \in Ops
      /\ op[t].addr + op[t].remaining <= Size
      /\ op[t].addr \in Nat /\ op[t].remaining \in Nat /\ Size \in Nat
  BY <1>1, ChunkIs, ConstantsAssumption
<1>3. op' = [op EXCEPT ![t] = Advanced(t, n)]
  BY <1>1 DEF Chunk
<1>4. Advanced(t, n) \in Ops
  <2>1. op[t].addr + n \in 0..Size /\ op[t].remaining - n \in 0..Size
    BY <1>2
  <2>2. QED
    BY <1>2, <2>1 DEF Advanced, Ops
<1>5. Advanced(t, n).addr + Advanced(t, n).remaining <= Size
  <2>1. /\ Advanced(t, n).addr = op[t].addr + n
        /\ Advanced(t, n).remaining = op[t].remaining - n
    BY <1>2 DEF Advanced, Ops
  <2>2. QED
    BY <1>2, <2>1
<1>6. CallTypes'
  <2>1. op' \in [Tasks -> Ops]
    BY <1>3, <1>4 DEF TInv, CallTypes
  <2>2. \A u \in Tasks : op'[u] = Advanced(t, n) \/ op'[u] = op[u]
    BY <1>3 DEF TInv, CallTypes
  <2>3. QED
    BY <1>5, <2>1, <2>2 DEF TInv, CallTypes
<1>7. DataTypes'
  <2>1. CASE op[t].kind = "write"
    BY <2>1, PutType DEF Chunk, TInv, DataTypes
  <2>2. CASE op[t].kind # "write"
    <3>1. \A k \in 1..n : op[t].addr + k - 1 \in Addresses
      BY <1>2 DEF Addresses
    <3>2. [k \in 1..n |-> mem[op[t].addr + k - 1]] \in Seq(Cells)
      BY <3>1 DEF TInv, DataTypes
    <3>3. out[t] \o [k \in 1..n |-> mem[op[t].addr + k - 1]] \in Seq(Cells)
      <4>1. out[t] \in Seq(Cells)
        BY DEF TInv, DataTypes
      <4>2. \A p, q \in Seq(Cells) : p \o q \in Seq(Cells)
        OBVIOUS
      <4>3. QED
        BY <3>2, <4>1, <4>2
    <3>4. QED
      BY <1>1, <2>2, <3>3 DEF Chunk, TInv, DataTypes
  <2>3. QED
    BY <2>1, <2>2
<1>8. PlaceTypes'
  BY DEF Chunk, TInv, PlaceTypes
<1>9. FlagTypes' /\ CountTypes'
  BY ConstantsAssumption DEF Chunk, Touch, TInv, FlagTypes, CountTypes
<1>10. QED
  BY <1>6, <1>7, <1>8, <1>9 DEF TInv

LEMMA FailTInv ==
  ASSUME TInv, NEW t \in Tasks, Timeout(t) \/ ChunkFails(t)
  PROVE  TInv'
<1>1. Fail(t) /\ UNCHANGED <<mutex, counters, op, out, reg, before>>
  BY DEF Timeout, ChunkFails
<1>2. mem' \in [Addresses -> Cells]
  BY PutType DEF Timeout, ChunkFails, TInv, DataTypes
<1>3. CallTypes' /\ DataTypes'
  BY <1>1, <1>2 DEF TInv, CallTypes, DataTypes
<1>4. QED
  BY <1>1, <1>3, FailType DEF TInv

LEMMA FreshTInv ==
  ASSUME TInv, mem' \in [Addresses -> Cells], Fresh
  PROVE  TInv'
<1>1. op' \in [Tasks -> Ops] /\ \A t \in Tasks : op'[t] = Idle
  BY IdleType DEF Fresh
<1>2. CallTypes'
  BY <1>1, IdleType DEF CallTypes
<1>3. DataTypes'
  BY DEF Fresh, DataTypes
<1>4. PlaceTypes'
  BY ConstantsAssumption DEF Fresh, PlaceTypes, PCs
<1>5. FlagTypes'
  BY DEF Fresh, FlagTypes
<1>6. CountTypes'
  BY ConstantsAssumption DEF Fresh, CountTypes
<1>7. QED
  BY <1>2, <1>3, <1>4, <1>5, <1>6 DEF TInv

LEMMA CounterTInv ==
  ASSUME TInv, NEW t \in Tasks,
         \/ LoadTotal(t) \/ StoreTotal(t) \/ LoadRun(t) \/ StoreRun(t)
         \/ MarkUnhealthy(t) \/ CallReset(t) \/ ZeroTotal(t) \/ ZeroRun(t)
         \/ Heal(t)
  PROVE  TInv'
<1>. USE DEF counters, tallies
<1>0. UNCHANGED mem
  BY DEF LoadTotal, StoreTotal, LoadRun, StoreRun, MarkUnhealthy, CallReset,
         ZeroTotal, ZeroRun, Heal
<1>1. CallTypes' /\ DataTypes' /\ PlaceTypes'
  <2>1. CASE Return(t)
    BY <1>0, <2>1, ReturnType
  <2>2. CASE ~Return(t)
    <3>1. UNCHANGED <<op, out, before, mutex>>
      BY <2>2 DEF LoadTotal, StoreTotal, LoadRun, StoreRun, MarkUnhealthy,
                  CallReset, ZeroTotal, ZeroRun, Heal
    <3>2. CallTypes' /\ DataTypes'
      BY <1>0, <3>1 DEF TInv, CallTypes, DataTypes
    <3>3. error_count \in Nat /\ consecutive \in Nat /\ consecutive <= Threshold
      BY ConstantsAssumption DEF TInv, CountTypes
    <3>4. PlaceTypes'
      BY <2>2, <3>1, <3>3
         DEF TInv, PlaceTypes, LoadTotal, StoreTotal, LoadRun, StoreRun,
             MarkUnhealthy, CallReset, ZeroTotal, ZeroRun, Heal, PCs,
             Recording, Resetting
    <3>5. QED
      BY <3>2, <3>4
  <2>3. QED
    BY <2>1, <2>2
<1>2. FlagTypes'
  BY DEF LoadTotal, StoreTotal, LoadRun, StoreRun, MarkUnhealthy, CallReset,
         ZeroTotal, ZeroRun, Heal, Touch, TInv, FlagTypes
<1>3. CountTypes'
  <2>1. pc[t] = "storeRun" => Up(reg[t]) \in 0..Threshold
    BY ConstantsAssumption DEF Up, TInv, PlaceTypes
  <2>2. reg[t] \in Nat /\ (reg[t] + 1) % TotalCount \in 0..(TotalCount - 1)
    BY ConstantsAssumption DEF TInv, PlaceTypes
  <2>3. 0 \in 0..(TotalCount - 1) /\ 0 \in 0..Threshold
    BY ConstantsAssumption
  <2>4. QED
    BY <2>1, <2>2, <2>3
       DEF LoadTotal, StoreTotal, LoadRun, StoreRun, MarkUnhealthy, CallReset,
           ZeroTotal, ZeroRun, Heal, TInv, CountTypes
<1>4. QED
  BY <1>1, <1>2, <1>3 DEF TInv

LEMMA NextTInv == TInv /\ [Next]_vars => TInv'
<1>. SUFFICES ASSUME TInv, [Next]_vars PROVE TInv'
  OBVIOUS
<1>1. CASE PowerLoss
  <2>1. mem' \in [Addresses -> Cells]
    <3>1. mutex # None => mutex \in Tasks
      BY DEF TInv, PlaceTypes
    <3>2. QED
      BY <1>1, <3>1, PutType DEF PowerLoss, TInv, DataTypes
  <2>2. QED
    BY <1>1, <2>1, FreshTInv DEF PowerLoss
<1>2. CASE Deinit
  BY <1>2 DEF Deinit, TInv, CallTypes, DataTypes, PlaceTypes, FlagTypes,
              CountTypes, tallies
<1>3. CASE Reinit
  BY <1>3, FreshTInv DEF Reinit, TInv, DataTypes
<1>4. ASSUME NEW t \in Tasks, NEW r \in Ranges,
             CallRead(t, r[1], r[2]) \/ CallWrite(t, r[1], r[2])
      PROVE  TInv'
  BY <1>4, CallTInv DEF CallRead, CallWrite, Cells
<1>5. ASSUME NEW t \in Tasks, Step(t) \/ CallReset(t) PROVE TInv'
  <2>1. CASE Lock(t)
    <3>1. CallTypes' /\ DataTypes' /\ FlagTypes' /\ CountTypes'
      BY <2>1 DEF Lock, TInv, CallTypes, DataTypes, FlagTypes, CountTypes,
                  counters, tallies
    <3>2. PlaceTypes'
      BY <2>1 DEF Lock, TInv, PlaceTypes, PCs
    <3>3. QED
      BY <3>1, <3>2 DEF TInv
  <2>2. CASE Done(t)
    <3>1. Return(t) /\ UNCHANGED mem
      BY <2>2 DEF Done
    <3>2. FlagTypes' /\ CountTypes'
      BY <2>2 DEF Done, TInv, FlagTypes, CountTypes, counters, tallies
    <3>3. QED
      BY <3>1, <3>2, ReturnType DEF TInv
  <2>3. QED
    BY <1>5, <2>1, <2>2, ChunkTInv, FailTInv, CounterTInv DEF Step
<1>6. CASE UNCHANGED vars
  BY <1>6 DEF vars, TInv, CallTypes, DataTypes, PlaceTypes, FlagTypes,
              CountTypes
<1>7. QED
  BY <1>1, <1>2, <1>3, <1>4, <1>5, <1>6 DEF Next

LEMMA TInvAlways == Spec => []TInv
BY InitTInv, NextTInv, PTL DEF Spec

(* No access leaves the device, and every counter keeps its C type, for    *)
(* every size, chunk length, threshold and set of requested ranges.        *)
THEOREM TypeCorrect == Spec => []TypeOK
BY TInvTypes, TInvAlways, PTL


-----------------------------------------------------------------------------
(* The statistics. *)

Updating == Recording \cup Resetting

(* How far the one task that updates the counters has come. *)
UpdateOK(t) ==
  /\ pc[t] \in {"loadTotal", "storeTotal"} =>
       errors = (error_count + 1) % TotalCount
  /\ pc[t] = "storeTotal" => reg[t] = error_count
  /\ pc[t] \in {"loadRun", "storeRun", "mark", "zeroTotal"} =>
       error_count = errors
  /\ pc[t] \in {"zeroRun", "heal"} => error_count = 0
  /\ pc[t] \in {"loadTotal", "storeTotal", "loadRun", "storeRun"} =>
       streak = Up(consecutive)
  /\ pc[t] = "storeRun" => reg[t] = consecutive
  /\ pc[t] = "mark" => streak = Threshold /\ consecutive = Threshold
  /\ pc[t] \in {"zeroTotal", "zeroRun"} => consecutive = streak
  /\ pc[t] = "heal" => consecutive = 0

(* healthy lags behind worst only while an error is being recorded. *)
HealthOK ==
  /\ ~healthy => worst >= Threshold
  /\ worst >= Threshold =>
       \/ ~healthy
       \/ streak >= Threshold /\ \E t \in Tasks : pc[t] \in Recording

(* The counters while no two updates of them have overlapped. *)
CountersOK ==
  /\ \A t, u \in Tasks : pc[t] \in Updating /\ pc[u] \in Updating => t = u
  /\ \A t \in Tasks : UpdateOK(t)
  /\ Quiet => error_count = errors /\ consecutive = streak
  /\ ~closed => HealthOK

StatsOK == worst >= streak /\ (~raced => CountersOK)

(* t goes on with its update, or ends it, and nobody else is in one. *)
LEMMA OneUpdates ==
  ASSUME NEW t \in Tasks,
         \A u \in Tasks : u # t => pc'[u] = pc[u] /\ pc[u] \notin Updating,
         UpdateOK(t)',
         pc'[t] \notin Updating => error_count' = errors' /\ consecutive' = streak',
         ~closed' => HealthOK'
  PROVE  CountersOK'
<1>1. \A u \in Tasks : u # t => UpdateOK(u)'
  BY DEF UpdateOK, Updating, Recording, Resetting
<1>2. Quiet' => pc'[t] \notin Updating
  BY DEF Quiet, Updating
<1>3. QED
  BY <1>1, <1>2 DEF CountersOK

(* A step outside the updates that leaves the statistics alone. *)
LEMMA StatsFrame ==
  ASSUME StatsOK, UNCHANGED <<counters, tallies>>, NEW t \in Tasks,
         pc[t] \notin Updating, pc'[t] \notin Updating,
         \A u \in Tasks : u # t => pc'[u] = pc[u] /\ reg'[u] = reg[u]
  PROVE  StatsOK'
<1>1. \A u \in Tasks : \/ pc'[u] = pc[u] /\ reg'[u] = reg[u]
                       \/ pc[u] \notin Updating /\ pc'[u] \notin Updating
  OBVIOUS
<1>2. UNCHANGED <<error_count, consecutive, healthy, closed, errors, streak,
                  worst, raced>>
  BY DEF counters, tallies
<1>3. (\A u \in Tasks : UpdateOK(u)) => \A u \in Tasks : UpdateOK(u)'
  <2>1. ASSUME NEW u \in Tasks, UpdateOK(u) PROVE UpdateOK(u)'
    <3>1. CASE pc'[u] = pc[u] /\ reg'[u] = reg[u]
      BY <1>2, <2>1, <3>1 DEF UpdateOK
    <3>2. CASE pc'[u] \notin Updating
      BY <3>2 DEF UpdateOK, Updating, Recording, Resetting
    <3>3. QED
      BY <1>1, <3>1, <3>2
  <2>2. QED
    BY <2>1
<1>4. Quiet' <=> Quiet
  BY <1>1 DEF Quiet, Updating
<1>5. HealthOK => HealthOK'
  BY <1>1, <1>2 DEF HealthOK, Updating
<1>6. QED
  BY <1>1, <1>2, <1>3, <1>4, <1>5 DEF StatsOK, CountersOK

(* Whoever enters an update without racing finds the counters settled. *)
LEMMA EntersAlone ==
  ASSUME TInv, StatsOK, NEW t \in Tasks, pc[t] \notin Updating, Touch(t), ~raced'
  PROVE  /\ ~raced /\ CountersOK /\ \A u \in Tasks : pc[u] \notin Updating
         /\ error_count = errors /\ consecutive = streak
         /\ ~closed => (~healthy <=> worst >= Threshold)
<1>1. ~raced /\ \A u \in Tasks : pc[u] \notin Updating
  BY DEF Touch, Updating, TInv, FlagTypes
<1>2. CountersOK /\ Quiet
  BY <1>1 DEF StatsOK, Quiet, Updating
<1>3. QED
  BY <1>1, <1>2 DEF CountersOK, HealthOK, Updating

LEMMA FailStats ==
  ASSUME TInv, StatsOK, NEW t \in Tasks, pc[t] \notin Updating, Fail(t),
         UNCHANGED <<counters, reg>>
  PROVE  StatsOK'
<1>1. /\ pc'[t] = "loadTotal" /\ \A u \in Tasks : u # t => pc'[u] = pc[u]
      /\ errors' = (errors + 1) % TotalCount
      /\ streak' = Up(streak) /\ worst' = Larger(worst, streak')
      /\ Touch(t)
      /\ UNCHANGED <<error_count, consecutive, healthy, closed, reg>>
  BY DEF Fail, counters, TInv, PlaceTypes
<1>2. /\ streak \in Nat /\ worst \in Nat /\ Up(streak) \in Nat
      /\ worst <= Threshold /\ Up(streak) <= Threshold /\ Threshold \in Nat
  BY UpType, ConstantsAssumption DEF TInv, CountTypes
<1>3. worst' >= streak'
  BY <1>1, <1>2 DEF Larger
<1>4. ASSUME ~raced' PROVE CountersOK'
  <2>1. /\ ~raced /\ \A u \in Tasks : pc[u] \notin Updating
        /\ error_count = errors /\ consecutive = streak
        /\ ~closed => (~healthy <=> worst >= Threshold)
    BY <1>1, <1>4, EntersAlone
  <2>2. UpdateOK(t)'
    BY <1>1, <2>1 DEF UpdateOK, Up
  <2>3. ~closed' => HealthOK'
    BY <1>1, <1>2, <2>1 DEF HealthOK, Larger, Recording
  <2>4. QED
    BY <1>1, <2>1, <2>2, <2>3, OneUpdates DEF Updating, Recording
<1>5. QED
  BY <1>3, <1>4 DEF StatsOK

LEMMA ChunkStats ==
  ASSUME TInv, StatsOK, NEW t \in Tasks, Chunk(t)
  PROVE  StatsOK'
<1>1. /\ pc[t] = "transfer" /\ pc' = pc /\ consecutive' = 0 /\ streak' = 0
      /\ Touch(t)
      /\ UNCHANGED <<error_count, healthy, closed, reg, errors, worst>>
  BY DEF Chunk
<1>2. worst \in Nat /\ pc[t] \notin Updating
  BY <1>1 DEF TInv, CountTypes, Updating, Recording, Resetting
<1>3. ASSUME ~raced' PROVE CountersOK'
  <2>1. /\ ~raced /\ \A u \in Tasks : pc[u] \notin Updating
        /\ error_count = errors /\ consecutive = streak
        /\ ~closed => (~healthy <=> worst >= Threshold)
    BY <1>1, <1>2, <1>3, EntersAlone
  <2>2. UpdateOK(t)'
    BY <1>1, <1>2 DEF UpdateOK
  <2>3. ~closed' => HealthOK'
    BY <1>1, <2>1 DEF HealthOK
  <2>4. QED
    BY <1>1, <2>1, <2>2, <2>3, OneUpdates
<1>4. QED
  BY <1>1, <1>2, <1>3 DEF StatsOK

(* The steps of an update. *)
LEMMA UpdateStats ==
  ASSUME TInv, StatsOK, NEW t \in Tasks,
         \/ LoadTotal(t) \/ StoreTotal(t) \/ LoadRun(t) \/ StoreRun(t)
         \/ MarkUnhealthy(t) \/ ZeroTotal(t) \/ ZeroRun(t) \/ Heal(t)
  PROVE  StatsOK'
<1>. USE DEF tallies, counters
<1>0. /\ pc[t] \in Updating /\ raced' = raced /\ closed' = closed
      /\ \A u \in Tasks : u # t => pc'[u] = pc[u]
  BY DEF LoadTotal, StoreTotal, LoadRun, StoreRun, MarkUnhealthy, ZeroTotal,
         ZeroRun, Heal, Return, Updating, Recording, Resetting, TInv,
         PlaceTypes
<1>1. worst' >= streak'
  BY DEF LoadTotal, StoreTotal, LoadRun, StoreRun, MarkUnhealthy, ZeroTotal,
         ZeroRun, Heal, StatsOK
<1>2. SUFFICES ASSUME ~raced PROVE CountersOK'
  BY <1>0, <1>1 DEF StatsOK
<1>3. /\ CountersOK /\ UpdateOK(t)
      /\ \A u \in Tasks : u # t => pc'[u] = pc[u] /\ pc[u] \notin Updating
  BY <1>0, <1>2 DEF StatsOK, CountersOK
<1>4. ~closed => HealthOK
  BY <1>3 DEF CountersOK
<1>5. /\ streak \in Nat /\ worst \in Nat /\ streak <= Threshold
      /\ worst <= Threshold /\ Threshold \in Nat \ {0}
      /\ worst >= streak /\ consecutive \in Nat
      /\ reg[t] \in Nat
  BY ConstantsAssumption DEF TInv, CountTypes, PlaceTypes, StatsOK
<1>6. pc[t] \in Resetting => \A u \in Tasks : pc[u] \notin Recording
  BY <1>3 DEF Updating, Recording, Resetting
<1>7. CASE LoadTotal(t)
  <2>1. /\ pc[t] = "loadTotal" /\ pc'[t] = "storeTotal" /\ reg'[t] = error_count
        /\ UNCHANGED <<error_count, consecutive, healthy, errors, streak, worst>>
    BY <1>7 DEF LoadTotal, TInv, PlaceTypes
  <2>2. UpdateOK(t)'
    BY <1>3, <2>1 DEF UpdateOK, Up
  <2>3. HealthOK => HealthOK'
    BY <2>1 DEF HealthOK, Recording
  <2>4. QED
    BY <1>0, <1>3, <1>4, <2>1, <2>2, <2>3, OneUpdates DEF Updating, Recording
<1>8. CASE StoreTotal(t)
  <2>1. /\ pc[t] = "storeTotal" /\ pc'[t] = "loadRun"
        /\ error_count' = (reg[t] + 1) % TotalCount
        /\ UNCHANGED <<consecutive, healthy, errors, streak, worst>>
    BY <1>8 DEF StoreTotal, TInv, PlaceTypes
  <2>2. UpdateOK(t)'
    BY <1>3, <2>1 DEF UpdateOK, Up
  <2>3. HealthOK => HealthOK'
    BY <2>1 DEF HealthOK, Recording
  <2>4. QED
    BY <1>0, <1>3, <1>4, <2>1, <2>2, <2>3, OneUpdates DEF Updating, Recording
<1>9. CASE LoadRun(t)
  <2>1. /\ pc[t] = "loadRun" /\ pc'[t] = "storeRun" /\ reg'[t] = consecutive
        /\ UNCHANGED <<error_count, consecutive, healthy, errors, streak, worst>>
    BY <1>9 DEF LoadRun, TInv, PlaceTypes
  <2>2. UpdateOK(t)'
    BY <1>3, <2>1 DEF UpdateOK, Up
  <2>3. HealthOK => HealthOK'
    BY <2>1 DEF HealthOK, Recording
  <2>4. QED
    BY <1>0, <1>3, <1>4, <2>1, <2>2, <2>3, OneUpdates DEF Updating, Recording
<1>10. CASE StoreRun(t)
  <2>1. /\ pc[t] = "storeRun" /\ consecutive' = Up(reg[t])
        /\ streak = Up(reg[t]) /\ error_count = errors
        /\ UNCHANGED <<error_count, healthy, errors, streak, worst>>
    BY <1>3, <1>10 DEF StoreRun, UpdateOK
  <2>2. CASE AtThreshold(Up(reg[t]))
    <3>1. pc'[t] = "mark" /\ streak = Threshold
      BY <1>5, <1>10, <2>1, <2>2 DEF StoreRun, AtThreshold, TInv, PlaceTypes
    <3>2. UpdateOK(t)'
      BY <2>1, <3>1 DEF UpdateOK
    <3>3. HealthOK => HealthOK'
      BY <1>5, <2>1, <3>1 DEF HealthOK, Recording
    <3>4. QED
      BY <1>0, <1>3, <1>4, <3>1, <3>2, <3>3, OneUpdates DEF Updating, Recording
  <2>3. CASE ~AtThreshold(Up(reg[t]))
    <3>1. pc'[t] = "idle" /\ ~(streak >= Threshold)
      BY <1>10, <2>1, <2>3
         DEF StoreRun, AtThreshold, Return, TInv, PlaceTypes
    <3>2. UpdateOK(t)'
      BY <3>1 DEF UpdateOK
    <3>3. HealthOK => HealthOK'
      BY <2>1, <3>1 DEF HealthOK
    <3>4. QED
      BY <1>0, <1>3, <1>4, <2>1, <3>1, <3>2, <3>3, OneUpdates
  <2>4. QED
    BY <2>2, <2>3
<1>11. CASE MarkUnhealthy(t)
  <2>1. /\ pc[t] = "mark" /\ pc'[t] = "idle" /\ healthy' = FALSE
        /\ UNCHANGED <<error_count, consecutive, errors, streak, worst>>
    BY <1>11 DEF MarkUnhealthy, Return, TInv, PlaceTypes
  <2>2. UpdateOK(t)' /\ error_count = errors /\ consecutive = streak
    BY <1>3, <2>1 DEF UpdateOK
  <2>3. HealthOK'
    BY <1>3, <1>5, <2>1 DEF HealthOK, UpdateOK
  <2>4. QED
    BY <1>0, <1>3, <2>1, <2>2, <2>3, OneUpdates
<1>12. CASE ZeroTotal(t)
  <2>1. /\ pc[t] = "zeroTotal" /\ pc'[t] = "zeroRun" /\ error_count' = 0
        /\ UNCHANGED <<consecutive, healthy, errors, streak, worst>>
    BY <1>12 DEF ZeroTotal, TInv, PlaceTypes
  <2>2. UpdateOK(t)'
    BY <1>3, <2>1 DEF UpdateOK
  <2>3. HealthOK => HealthOK'
    BY <1>6, <2>1 DEF HealthOK, Resetting
  <2>4. QED
    BY <1>0, <1>3, <1>4, <2>1, <2>2, <2>3, OneUpdates DEF Updating, Resetting
<1>13. CASE ZeroRun(t)
  <2>1. /\ pc[t] = "zeroRun" /\ pc'[t] = "heal" /\ consecutive' = 0
        /\ UNCHANGED <<error_count, healthy, errors, streak, worst>>
    BY <1>13 DEF ZeroRun, TInv, PlaceTypes
  <2>2. UpdateOK(t)'
    BY <1>3, <2>1 DEF UpdateOK
  <2>3. HealthOK => HealthOK'
    BY <1>6, <2>1 DEF HealthOK, Resetting
  <2>4. QED
    BY <1>0, <1>3, <1>4, <2>1, <2>2, <2>3, OneUpdates DEF Updating, Resetting
<1>14. CASE Heal(t)
  <2>1. /\ pc[t] = "heal" /\ pc'[t] = "idle" /\ healthy' = TRUE
        /\ errors' = 0 /\ streak' = 0 /\ worst' = 0
        /\ UNCHANGED <<error_count, consecutive>>
    BY <1>14 DEF Heal, Return, TInv, PlaceTypes
  <2>2. UpdateOK(t)' /\ error_count = 0 /\ consecutive = 0
    BY <1>3, <2>1 DEF UpdateOK
  <2>3. HealthOK'
    BY <1>5, <2>1 DEF HealthOK
  <2>4. QED
    BY <1>0, <1>3, <2>1, <2>2, <2>3, OneUpdates
<1>15. QED
  BY <1>7, <1>8, <1>9, <1>10, <1>11, <1>12, <1>13, <1>14

LEMMA ResetStats ==
  ASSUME TInv, StatsOK, NEW t \in Tasks, CallReset(t)
  PROVE  StatsOK'
<1>1. /\ pc[t] = "idle" /\ pc'[t] = "zeroTotal" /\ Touch(t)
      /\ \A u \in Tasks : u # t => pc'[u] = pc[u]
      /\ UNCHANGED <<error_count, consecutive, healthy, closed, reg, errors,
                     streak, worst>>
  BY DEF CallReset, counters, TInv, PlaceTypes
<1>2. pc[t] \notin Updating
  BY <1>1 DEF Updating, Recording, Resetting
<1>3. ASSUME ~raced' PROVE CountersOK'
  <2>1. /\ ~raced /\ \A u \in Tasks : pc[u] \notin Updating
        /\ error_count = errors /\ consecutive = streak
        /\ ~closed => (~healthy <=> worst >= Threshold)
    BY <1>1, <1>2, <1>3, EntersAlone
  <2>2. UpdateOK(t)'
    BY <1>1, <2>1 DEF UpdateOK
  <2>3. ~closed' => HealthOK'
    BY <1>1, <2>1 DEF HealthOK
  <2>4. QED
    BY <1>1, <2>1, <2>2, <2>3, OneUpdates DEF Updating, Resetting
<1>4. QED
  BY <1>1, <1>3 DEF StatsOK

LEMMA FreshStats == Fresh => StatsOK'
<1>. SUFFICES ASSUME Fresh PROVE StatsOK'
  OBVIOUS
<1>1. \A t \in Tasks : pc'[t] = "idle"
  BY DEF Fresh
<1>2. \A t \in Tasks : UpdateOK(t)'
  BY <1>1 DEF UpdateOK
<1>3. HealthOK'
  BY ConstantsAssumption DEF Fresh, HealthOK
<1>4. QED
  BY <1>1, <1>2, <1>3
     DEF Fresh, StatsOK, CountersOK, Updating, Recording, Resetting

LEMMA InitStats == Init => StatsOK
<1>. SUFFICES ASSUME Init PROVE StatsOK
  OBVIOUS
<1>1. \A t \in Tasks : pc[t] = "idle"
  BY DEF Init
<1>2. \A t \in Tasks : UpdateOK(t)
  BY <1>1 DEF UpdateOK
<1>3. HealthOK
  BY ConstantsAssumption DEF Init, HealthOK
<1>4. QED
  BY <1>1, <1>2, <1>3
     DEF Init, StatsOK, CountersOK, Updating, Recording, Resetting

LEMMA NextStats == TInv /\ StatsOK /\ [Next]_vars => StatsOK'
<1>. SUFFICES ASSUME TInv, StatsOK, [Next]_vars PROVE StatsOK'
  OBVIOUS
<1>1. CASE PowerLoss \/ Reinit
  BY <1>1, FreshStats DEF PowerLoss, Reinit
<1>2. CASE Deinit
  <2>1. UNCHANGED <<error_count, consecutive, pc, reg, tallies>> /\ closed'
    BY <1>2 DEF Deinit
  <2>2. QED
    BY <2>1 DEF StatsOK, CountersOK, UpdateOK, Quiet, tallies
<1>3. ASSUME NEW t \in Tasks, NEW r \in Ranges,
             CallRead(t, r[1], r[2]) \/ CallWrite(t, r[1], r[2])
      PROVE  StatsOK'
  <2>1. /\ pc[t] = "idle" /\ pc'[t] = "lock"
        /\ \A u \in Tasks : u # t => pc'[u] = pc[u]
        /\ UNCHANGED <<counters, reg, tallies>>
    BY <1>3 DEF CallRead, CallWrite, Call, TInv, PlaceTypes
  <2>2. QED
    BY <2>1, StatsFrame DEF Updating, Recording, Resetting
<1>4. ASSUME NEW t \in Tasks, CallReset(t) PROVE StatsOK'
  BY <1>4, ResetStats
<1>5. ASSUME NEW t \in Tasks, Step(t) PROVE StatsOK'
  <2>1. CASE Lock(t) \/ Done(t)
    <3>1. /\ pc[t] \in {"lock", "transfer"} /\ pc'[t] \in {"transfer", "idle"}
          /\ \A u \in Tasks : u # t => pc'[u] = pc[u] /\ reg'[u] = reg[u]
          /\ UNCHANGED <<counters, tallies>>
      BY <2>1 DEF Lock, Done, Return, TInv, PlaceTypes
    <3>2. QED
      BY <3>1, StatsFrame DEF Updating, Recording, Resetting
  <2>2. CASE Timeout(t) \/ ChunkFails(t)
    BY <2>2, FailStats
       DEF Timeout, ChunkFails, Updating, Recording, Resetting
  <2>3. QED
    BY <1>5, <2>1, <2>2, ChunkStats, UpdateStats DEF Step
<1>6. CASE UNCHANGED vars
  BY <1>6 DEF vars, StatsOK, CountersOK, UpdateOK, HealthOK, Quiet
<1>7. QED
  BY <1>1, <1>2, <1>3, <1>4, <1>5, <1>6 DEF Next

LEMMA StatsAlways == Spec => [](TInv /\ StatsOK)
BY InitTInv, NextTInv, InitStats, NextStats, PTL DEF Spec

(* is_healthy answers no exactly when errors have come in a row up to the  *)
(* threshold since the last reset, as long as no two updates overlapped.   *)
THEOREM HealthIsTracked == Spec => []HealthTracksStreak
<1>1. TInv /\ StatsOK => HealthTracksStreak
  <2>. SUFFICES ASSUME TInv, StatsOK, Quiet, ~raced, ~closed
                PROVE  healthy <=> worst < Threshold
    BY DEF HealthTracksStreak
  <2>1. HealthOK /\ \A t \in Tasks : pc[t] \notin Recording
    BY DEF StatsOK, CountersOK, Quiet
  <2>2. worst \in Nat /\ Threshold \in Nat
    BY ConstantsAssumption DEF TInv, CountTypes
  <2>3. QED
    BY <2>1, <2>2 DEF HealthOK
<1>2. QED
  BY <1>1, StatsAlways, PTL

(* error_count counts every failed transfer and every lock timeout, modulo *)
(* its range, as long as no two updates overlapped.                        *)
THEOREM EveryErrorCounted == Spec => []ErrorsCounted
<1>1. TInv /\ StatsOK => ErrorsCounted
  BY DEF StatsOK, CountersOK, ErrorsCounted
<1>2. QED
  BY <1>1, StatsAlways, PTL

-----------------------------------------------------------------------------
(* The transfers. *)

(* How far the call of t has come, and what it has left in the FRAM. *)
CallOK(t) ==
  LET n == op[t].addr - op[t].offset IN
  /\ mutex = t => pc[t] \in {"transfer"} \cup Recording
  /\ pc[t] = "lock" => op[t].addr = op[t].offset /\ op[t].remaining = op[t].len
  /\ pc[t] = "transfer" =>
       /\ mutex = t
       /\ op[t].addr >= op[t].offset
       /\ n + op[t].remaining = op[t].len
       /\ mem = Effect(t, n)
       /\ op[t].kind = "read" =>
            out[t] = [k \in 1..n |-> before[op[t].offset + k - 1]]
  /\ mutex = t /\ pc[t] \in Recording =>
       \E m \in 0..op[t].len : mem = Effect(t, m)

TransfersOK == \A t \in Tasks : CallOK(t)

LEMMA InitTransfers == Init => TransfersOK
BY ConstantsAssumption DEF Init, TransfersOK, CallOK, Recording

(* What a chunk adds to a write that has come to op[t].addr. *)
LEMMA PutIs ==
  ASSUME TInv, NEW t \in Tasks, CallOK(t), pc[t] = "transfer",
         op[t].kind = "write", NEW n \in 0..op[t].remaining
  PROVE  Put(t, n) = Effect(t, op[t].addr - op[t].offset + n)
<1>1. PICK m \in Nat : m = op[t].addr - op[t].offset
  <2>1. op[t].addr \in Nat /\ op[t].offset \in Nat
    BY ConstantsAssumption DEF TInv, CallTypes, Ops
  <2>2. op[t].addr >= op[t].offset
    BY DEF CallOK
  <2>3. QED
    BY <2>1, <2>2
<1>2. /\ mem = Effect(t, m) /\ op[t].addr = op[t].offset + m
      /\ op[t].offset \in Nat /\ n \in Nat
  BY <1>1, ConstantsAssumption DEF CallOK, TInv, CallTypes, Ops
<1>3. ASSUME NEW i \in Addresses
      PROVE  (IF i \in op[t].addr..(op[t].addr + n - 1)
              THEN op[t].value ELSE mem[i])
             = IF i \in op[t].offset..(op[t].offset + (m + n) - 1)
               THEN op[t].value ELSE before[i]
  <2>1. i \in Nat
    BY DEF Addresses
  <2>2. mem[i] = IF i \in op[t].offset..(op[t].offset + m - 1)
                 THEN op[t].value ELSE before[i]
    BY <1>2 DEF Effect
  <2>3. i \in op[t].offset..(op[t].offset + (m + n) - 1)
          <=> \/ i \in op[t].offset..(op[t].offset + m - 1)
              \/ i \in op[t].addr..(op[t].addr + n - 1)
    BY <1>2, <2>1
  <2>4. QED
    BY <2>2, <2>3
<1>4. Put(t, n) = Effect(t, m + n)
  BY <1>3 DEF Put, Effect
<1>5. QED
  BY <1>1, <1>4

LEMMA ReadEffect ==
  ASSUME TInv, NEW t \in Tasks, op[t].kind # "write", NEW n
  PROVE  Effect(t, n) = before
BY DEF TInv, DataTypes, Effect

LEMMA EffectOfNone ==
  ASSUME TInv, NEW t \in Tasks
  PROVE  Effect(t, 0) = before
<1>1. op[t].offset \in Nat
  BY ConstantsAssumption DEF TInv, CallTypes, Ops
<1>2. op[t].offset..(op[t].offset + 0 - 1) = {}
  BY <1>1
<1>3. QED
  BY <1>2 DEF TInv, DataTypes, Effect

(* What a read has put into the buffer is what it was before the call. *)
LEMMA ReadOn ==
  ASSUME NEW f, NEW o \in Nat, NEW m \in Nat, NEW n \in Nat
  PROVE  [k \in 1..m |-> f[o + k - 1]] \o [k \in 1..n |-> f[o + m + k - 1]]
           = [k \in 1..(m + n) |-> f[o + k - 1]]
<1>. DEFINE p == [k \in 1..m |-> f[o + k - 1]]
            q == [k \in 1..n |-> f[o + m + k - 1]]
            r == [k \in 1..(m + n) |-> f[o + k - 1]]
            S == {f[k] : k \in Nat}
<1>1. \A k \in 1..(m + n) : o + k - 1 \in Nat
  OBVIOUS
<1>2. \A k \in 1..n : o + m + k - 1 \in Nat
  OBVIOUS
<1>3. p \in Seq(S) /\ q \in Seq(S) /\ Len(p) = m /\ Len(q) = n
  BY <1>1, <1>2
<1>4. /\ DOMAIN (p \o q) = 1..(m + n)
      /\ \A k \in 1..(m + n) :
           (p \o q)[k] = IF k <= m THEN p[k] ELSE q[k - m]
  BY <1>3
<1>5. \A k \in 1..(m + n) : (p \o q)[k] = f[o + k - 1]
  <2>1. SUFFICES ASSUME NEW k \in 1..(m + n) PROVE (p \o q)[k] = f[o + k - 1]
    OBVIOUS
  <2>2. CASE k <= m
    BY <1>4, <2>2
  <2>3. CASE k > m
    <3>1. k - m \in 1..n /\ o + m + (k - m) - 1 = o + k - 1
      BY <2>3
    <3>2. QED
      BY <1>4, <2>3, <3>1
  <2>4. QED
    BY <2>2, <2>3
<1>6. p \o q = [k \in 1..(m + n) |-> (p \o q)[k]]
  BY <1>3, <1>4
<1>7. QED
  BY <1>5, <1>6

(* A step of another task leaves the call of t where it was. *)
LEMMA CallFrame ==
  ASSUME NEW t \in Tasks, CallOK(t),
         pc'[t] = pc[t], op'[t] = op[t], out'[t] = out[t],
         mutex = t <=> mutex' = t,
         mutex = t => UNCHANGED <<mem, before>>
  PROVE  CallOK(t)'
<1>1. mutex = t => \A n : Effect(t, n)' = Effect(t, n)
  BY DEF Effect
<1>2. QED
  BY <1>1 DEF CallOK


LEMMA ChunkTransfers ==
  ASSUME TInv, TransfersOK, NEW t \in Tasks, Chunk(t)
  PROVE  CallOK(t)'
<1>1. PICK n \in Nat : n = ChunkSize(t)
  BY ChunkIs
<1>2. /\ op[t] \in Ops /\ n <= op[t].remaining /\ CallOK(t)
      /\ pc[t] = "transfer" /\ pc'[t] = "transfer" /\ mutex = t
      /\ UNCHANGED <<mutex, before>>
  BY <1>1, ChunkIs DEF Chunk, TransfersOK, CallOK
<1>3. PICK m \in Nat : m = op[t].addr - op[t].offset
  <2>1. op[t].addr \in Nat /\ op[t].offset \in Nat
    BY <1>2, ConstantsAssumption DEF Ops
  <2>2. op[t].addr >= op[t].offset
    BY <1>2 DEF CallOK
  <2>3. QED
    BY <2>1, <2>2
<1>4. /\ op[t].offset \in Nat /\ op[t].remaining \in Nat /\ op[t].len \in Nat
      /\ op[t].addr \in Nat
      /\ op[t].addr = op[t].offset + m /\ m + op[t].remaining = op[t].len
      /\ mem = Effect(t, m)
      /\ op[t].kind = "read" =>
           out[t] = [k \in 1..m |-> before[op[t].offset + k - 1]]
  BY <1>2, <1>3, ConstantsAssumption DEF CallOK, Ops
<1>5. op'[t] = Advanced(t, n)
  BY <1>1 DEF Chunk, TInv, CallTypes
<1>6. /\ op'[t].addr = op[t].addr + n
      /\ op'[t].remaining = op[t].remaining - n
      /\ op'[t].offset = op[t].offset /\ op'[t].len = op[t].len
      /\ op'[t].kind = op[t].kind /\ op'[t].value = op[t].value
  BY <1>2, <1>5 DEF Advanced, Ops
<1>7. \A k : Effect(t, k)' = Effect(t, k)
  BY <1>2, <1>6 DEF Effect
<1>8. mem' = Effect(t, m + n)
  <2>1. CASE op[t].kind = "write"
    <3>1. mem' = Put(t, n)
      BY <1>1, <2>1 DEF Chunk
    <3>2. n \in 0..op[t].remaining
      BY <1>2, <1>4
    <3>3. Put(t, n) = Effect(t, op[t].addr - op[t].offset + n)
      BY <1>2, <2>1, <3>2, PutIs
    <3>4. QED
      BY <1>3, <3>1, <3>3
  <2>2. CASE op[t].kind # "write"
    BY <1>4, <2>2, ReadEffect DEF Chunk
  <2>3. QED
    BY <2>1, <2>2
<1>9. op[t].kind = "read" =>
        out'[t] = [k \in 1..(m + n) |-> before[op[t].offset + k - 1]]
  <2>1. SUFFICES ASSUME op[t].kind = "read"
                 PROVE  out'[t] = [k \in 1..(m + n) |->
                                     before[op[t].offset + k - 1]]
    OBVIOUS
  <2>2. mem = before
    BY <1>4, <2>1, ReadEffect
  <2>3. out'[t] = out[t] \o [k \in 1..n |-> mem[op[t].addr + k - 1]]
    BY <1>1, <2>1 DEF Chunk, TInv, DataTypes
  <2>4. out'[t] = [k \in 1..m |-> before[op[t].offset + k - 1]]
                    \o [k \in 1..n |-> before[op[t].offset + m + k - 1]]
    BY <1>4, <2>1, <2>2, <2>3
  <2>5. PICK o \in Nat : o = op[t].offset
    BY <1>4
  <2>6. PICK f : f = before
    OBVIOUS
  <2>7. [k \in 1..m |-> f[o + k - 1]] \o [k \in 1..n |-> f[o + m + k - 1]]
          = [k \in 1..(m + n) |-> f[o + k - 1]]
    BY ReadOn
  <2>8. QED
    BY <2>4, <2>5, <2>6, <2>7
<1>10. op'[t].addr - op'[t].offset = m + n
  BY <1>4, <1>6
<1>11. mem' = Effect(t, m + n)'
  BY <1>7, <1>8
<1>12. /\ op'[t].addr >= op'[t].offset
       /\ (m + n) + op'[t].remaining = op'[t].len
  BY <1>4, <1>6
<1>13. QED
  BY <1>2, <1>6, <1>9, <1>10, <1>11, <1>12 DEF CallOK, Recording

LEMMA ChunkFailsTransfers ==
  ASSUME TInv, TransfersOK, NEW t \in Tasks, ChunkFails(t)
  PROVE  CallOK(t)'
<1>1. /\ op[t] \in Ops /\ CallOK(t) /\ pc[t] = "transfer" /\ mutex = t
      /\ pc'[t] = "loadTotal" /\ UNCHANGED <<mutex, before, op>>
  BY DEF ChunkFails, Fail, TransfersOK, CallOK, TInv, CallTypes, PlaceTypes
<1>2. PICK m \in Nat : m = op[t].addr - op[t].offset
  <2>1. op[t].addr \in Nat /\ op[t].offset \in Nat
    BY <1>1, ConstantsAssumption DEF Ops
  <2>2. op[t].addr >= op[t].offset
    BY <1>1 DEF CallOK
  <2>3. QED
    BY <2>1, <2>2
<1>3. /\ op[t].remaining \in Nat /\ op[t].len \in Nat
      /\ m + op[t].remaining = op[t].len /\ mem = Effect(t, m)
  BY <1>1, <1>2, ConstantsAssumption DEF CallOK, Ops
<1>4. \E k \in 0..op[t].len : mem' = Effect(t, k)
  <2>1. CASE UNCHANGED mem
    <3>1. m \in 0..op[t].len
      BY <1>3
    <3>2. QED
      BY <1>3, <2>1, <3>1
  <2>2. ASSUME NEW n \in 0..ChunkSize(t), op[t].kind = "write", mem' = Put(t, n)
        PROVE  \E k \in 0..op[t].len : mem' = Effect(t, k)
    <3>1. n \in 0..op[t].remaining
      BY ChunkIs
    <3>2. mem' = Effect(t, m + n)
      BY <1>1, <1>2, <2>2, <3>1, PutIs
    <3>3. m + n \in 0..op[t].len
      BY <1>3, <3>1
    <3>4. QED
      BY <3>2, <3>3
  <2>3. QED
    BY <2>1, <2>2 DEF ChunkFails
<1>5. \A k : Effect(t, k)' = Effect(t, k)
  BY <1>1 DEF Effect
<1>6. QED
  BY <1>1, <1>4, <1>5 DEF CallOK, Recording

LEMMA LockTransfers ==
  ASSUME TInv, TransfersOK, NEW t \in Tasks, Lock(t)
  PROVE  CallOK(t)'
<1>1. /\ op'[t] = op[t] /\ op[t] \in Ops /\ pc'[t] = "transfer" /\ mutex' = t
      /\ op[t].addr = op[t].offset /\ op[t].remaining = op[t].len
      /\ out'[t] = <<>> /\ mem' = mem /\ before' = mem
  BY DEF Lock, TransfersOK, CallOK, TInv, CallTypes, PlaceTypes, DataTypes
<1>2. /\ op[t].addr \in Nat /\ op[t].len \in Nat
      /\ op[t].addr - op[t].offset = 0
  BY <1>1, ConstantsAssumption DEF Ops
<1>3. Effect(t, 0)' = before'
  <2>1. (TInv => Effect(t, 0) = before)'
    BY EffectOfNone, PTL
  <2>2. TInv'
    BY NextTInv DEF Next, Step
  <2>3. QED
    BY <2>1, <2>2
<1>4. \A f : [k \in 1..0 |-> f[op[t].offset + k - 1]] = <<>>
  OBVIOUS
<1>5. /\ op[t].addr >= op[t].offset /\ 0 + op[t].remaining = op[t].len
  BY <1>1, <1>2
<1>6. QED
  BY <1>1, <1>2, <1>3, <1>4, <1>5 DEF CallOK, Recording

(* A step of t, and the calls of the other tasks. *)
LEMMA OthersKeep ==
  ASSUME TInv, TransfersOK, NEW t \in Tasks,
         NEW u \in Tasks, u # t,
         \/ Step(t) \/ CallReset(t)
         \/ \E r \in Ranges : CallRead(t, r[1], r[2]) \/ CallWrite(t, r[1], r[2])
  PROVE  CallOK(u)'
<1>1. pc'[u] = pc[u] /\ op'[u] = op[u] /\ out'[u] = out[u]
  BY DEF Step, Lock, Timeout, Fail, Chunk, Done, ChunkFails, LoadTotal,
         StoreTotal, LoadRun, StoreRun, MarkUnhealthy, ZeroTotal, ZeroRun,
         Heal, Return, CallReset, CallRead, CallWrite, Call, TInv, PlaceTypes,
         CallTypes, DataTypes
<1>2. mutex = u <=> mutex' = u
  BY ConstantsAssumption
     DEF Step, Lock, Timeout, Fail, Chunk, Done, ChunkFails, LoadTotal,
         StoreTotal, LoadRun, StoreRun, MarkUnhealthy, ZeroTotal, ZeroRun,
         Heal, Return, CallReset, CallRead, CallWrite, Call
<1>3. mutex = u => UNCHANGED <<mem, before>>
  <2>1. pc[t] = "transfer" => mutex = t
    BY DEF TransfersOK, CallOK
  <2>2. QED
    BY <2>1, ConstantsAssumption
       DEF Step, Lock, Timeout, Fail, Chunk, Done, ChunkFails, LoadTotal,
           StoreTotal, LoadRun, StoreRun, MarkUnhealthy, ZeroTotal, ZeroRun,
           Heal, Return, CallReset, CallRead, CallWrite, Call
<1>4. QED
  BY <1>1, <1>2, <1>3, CallFrame DEF TransfersOK

(* The other steps of t: it holds the mutex while it records an error, or *)
(* never did.                                                             *)
LEMMA OtherTransfers ==
  ASSUME TInv, TransfersOK, NEW t \in Tasks,
         \/ Timeout(t) \/ Done(t) \/ LoadTotal(t) \/ StoreTotal(t)
         \/ LoadRun(t) \/ StoreRun(t) \/ MarkUnhealthy(t) \/ CallReset(t)
         \/ ZeroTotal(t) \/ ZeroRun(t) \/ Heal(t)
  PROVE  CallOK(t)'
<1>1. CallOK(t)
  BY DEF TransfersOK
<1>2. CASE Return(t)
  <2>1. pc'[t] = "idle" /\ mutex' # t
    BY <1>2, ConstantsAssumption DEF Return, TInv, PlaceTypes
  <2>2. QED
    BY <2>1 DEF CallOK, Recording
<1>3. CASE ~Return(t)
  <2>1. /\ UNCHANGED <<mem, before, mutex, op>>
        /\ \/ pc[t] \in Recording /\ pc'[t] \in Recording
           \/ pc[t] \in {"lock", "idle"} \cup Resetting
              /\ pc'[t] \in Recording \cup Resetting
    BY <1>3
       DEF Timeout, Fail, Done, LoadTotal, StoreTotal, LoadRun, StoreRun,
           MarkUnhealthy, CallReset, ZeroTotal, ZeroRun, Heal, TInv,
           PlaceTypes, Recording, Resetting
  <2>2. \A k : Effect(t, k)' = Effect(t, k)
    BY <2>1 DEF Effect
  <2>3. QED
    BY <1>1, <2>1, <2>2 DEF CallOK, Recording, Resetting
<1>4. QED
  BY <1>2, <1>3

LEMMA NextTransfers == TInv /\ TransfersOK /\ [Next]_vars => TransfersOK'
<1>. SUFFICES ASSUME TInv, TransfersOK, [Next]_vars PROVE TransfersOK'
  OBVIOUS
<1>1. CASE PowerLoss \/ Reinit
  <2>1. mutex' = None /\ \A t \in Tasks : pc'[t] = "idle"
    BY <1>1 DEF PowerLoss, Reinit, Fresh
  <2>2. QED
    BY <2>1, ConstantsAssumption DEF TransfersOK, CallOK
<1>2. CASE Deinit
  <2>1. UNCHANGED <<mem, mutex, pc, op, out, before>>
    BY <1>2 DEF Deinit
  <2>2. QED
    BY <2>1, CallFrame DEF TransfersOK
<1>3. ASSUME NEW t \in Tasks,
             \/ CallReset(t) \/ Step(t)
             \/ \E r \in Ranges :
                  CallRead(t, r[1], r[2]) \/ CallWrite(t, r[1], r[2])
      PROVE  TransfersOK'
  <2>1. CallOK(t)'
    <3>1. ASSUME NEW r \in Ranges,
                 CallRead(t, r[1], r[2]) \/ CallWrite(t, r[1], r[2])
          PROVE  CallOK(t)'
      <4>1. /\ pc[t] = "idle" /\ pc'[t] = "lock" /\ mutex' = mutex
            /\ op'[t].addr = op'[t].offset /\ op'[t].remaining = op'[t].len
        BY <3>1 DEF CallRead, CallWrite, Call, TInv, PlaceTypes, CallTypes
      <4>2. QED
        BY <4>1 DEF TransfersOK, CallOK, Recording
    <3>2. QED
      BY <1>3, <3>1, ChunkTransfers, ChunkFailsTransfers, LockTransfers,
         OtherTransfers DEF Step
  <2>2. \A u \in Tasks : u # t => CallOK(u)'
    BY <1>3, OthersKeep
  <2>3. QED
    BY <2>1, <2>2 DEF TransfersOK
<1>4. CASE UNCHANGED vars
  <2>1. UNCHANGED <<mem, mutex, pc, op, out, before>>
    BY <1>4 DEF vars
  <2>2. QED
    BY <2>1, CallFrame DEF TransfersOK
<1>5. QED
  BY <1>1, <1>2, <1>3, <1>4 DEF Next

LEMMA TransfersAlways == Spec => [](TInv /\ TransfersOK)
BY InitTInv, NextTInv, InitTransfers, NextTransfers, PTL DEF Spec

(* The power loss, in a chunk or anywhere else in a call. *)
LEMMA PowerLossIsPrefix ==
  ASSUME TInv, TransfersOK, NEW t \in Tasks, mutex = t, PowerLoss
  PROVE  \E n \in 0..op[t].len : mem' = Effect(t, n)
<1>1. CallOK(t) /\ op[t] \in Ops /\ t # None
  BY ConstantsAssumption DEF TransfersOK, TInv, CallTypes
<1>2. CASE pc[t] \in Recording
  BY <1>1, <1>2 DEF CallOK, PowerLoss, Recording
<1>3. CASE pc[t] = "transfer"
  <2>1. PICK m \in Nat : m = op[t].addr - op[t].offset
    <3>1. op[t].addr \in Nat /\ op[t].offset \in Nat
      BY <1>1, ConstantsAssumption DEF Ops
    <3>2. op[t].addr >= op[t].offset
      BY <1>1, <1>3 DEF CallOK
    <3>3. QED
      BY <3>1, <3>2
  <2>2. /\ op[t].remaining \in Nat /\ op[t].len \in Nat
        /\ m + op[t].remaining = op[t].len /\ mem = Effect(t, m)
    BY <1>1, <1>3, <2>1, ConstantsAssumption DEF CallOK, Ops
  <2>3. CASE UNCHANGED mem
    <3>1. m \in 0..op[t].len
      BY <2>2
    <3>2. QED
      BY <2>2, <2>3, <3>1
  <2>4. ASSUME NEW n \in 0..ChunkSize(t), op[t].kind = "write", mem' = Put(t, n)
        PROVE  \E k \in 0..op[t].len : mem' = Effect(t, k)
    <3>1. n \in 0..op[t].remaining
      BY ChunkIs
    <3>2. mem' = Effect(t, m + n)
      BY <1>1, <1>3, <2>1, <2>4, <3>1, PutIs
    <3>3. m + n \in 0..op[t].len
      BY <2>2, <3>1
    <3>4. QED
      BY <3>2, <3>3
  <2>5. QED
    BY <1>1, <2>3, <2>4 DEF PowerLoss
<1>4. QED
  BY <1>1, <1>2, <1>3 DEF CallOK

(* Transfers are atomic to their callers: whatever other tasks do between  *)
(* the chunks, a call that returns OK has read or written its whole range  *)
(* at one moment, and one that fails, or loses the power, has written a    *)
(* leading part of its range and nothing else.                             *)
THEOREM TransfersAtomic == Spec => TransfersAreAtomic
<1>. DEFINE atomic == \A t \in Tasks : mutex = t /\ mutex' # t =>
       IF Done(t)
       THEN /\ mem' = Effect(t, op[t].len)
            /\ op[t].kind = "read" =>
                 out[t] = [k \in 1..op[t].len |-> before[op[t].offset + k - 1]]
       ELSE \E n \in 0..op[t].len : mem' = Effect(t, n)
<1>1. ASSUME TInv, TransfersOK, [Next]_vars PROVE atomic
  <2>1. SUFFICES ASSUME NEW t \in Tasks, mutex = t, mutex' # t
                 PROVE  IF Done(t)
                        THEN /\ mem' = Effect(t, op[t].len)
                             /\ op[t].kind = "read" =>
                                  out[t] = [k \in 1..op[t].len |->
                                              before[op[t].offset + k - 1]]
                        ELSE \E n \in 0..op[t].len : mem' = Effect(t, n)
    OBVIOUS
  <2>2. CallOK(t) /\ op[t] \in Ops
    BY <1>1 DEF TransfersOK, TInv, CallTypes
  <2>3. CASE Done(t)
    <3>1. /\ pc[t] = "transfer" /\ op[t].remaining = 0 /\ mem' = mem
      BY <2>3 DEF Done
    <3>2. op[t].addr - op[t].offset + op[t].remaining = op[t].len
      BY <2>2, <3>1 DEF CallOK
    <3>3. op[t].addr - op[t].offset = op[t].len
      BY <2>2, <3>1, <3>2, ConstantsAssumption DEF Ops
    <3>4. QED
      BY <2>2, <2>3, <3>1, <3>3 DEF CallOK
  <2>4. CASE ~Done(t)
    <3>1. CASE PowerLoss
      BY <1>1, <2>1, <2>4, <3>1, PowerLossIsPrefix
    <3>2. CASE ~PowerLoss
      <4>1. PICK u \in Tasks : Step(u) /\ mutex' # mutex
        BY <1>1, <2>1, <2>2, <3>2
           DEF Next, Deinit, Reinit, CallRead, CallWrite, Call, CallReset,
               vars, CallOK, Recording
      <4>2. Lock(u) => mutex = None
        BY DEF Lock
      <4>3. StoreRun(u) \/ MarkUnhealthy(u) \/ Done(u) \/ Heal(u)
        BY <2>1, <4>1, <4>2, ConstantsAssumption
           DEF Step, Timeout, Chunk, ChunkFails, LoadTotal, StoreTotal,
               LoadRun, ZeroTotal, ZeroRun
      <4>4. u = t
        BY <2>1, <4>1, <4>3
           DEF StoreRun, MarkUnhealthy, Done, Heal, Return
      <4>5. /\ pc[t] \in Recording \/ pc[t] = "heal"
            /\ mem' = mem
        BY <2>4, <4>3, <4>4 DEF StoreRun, MarkUnhealthy, Heal, Recording
      <4>6. QED
        BY <2>1, <2>2, <2>4, <4>5 DEF CallOK, Recording
    <3>3. QED
      BY <3>1, <3>2
  <2>5. QED
    BY <2>3, <2>4
<1>2. TInv /\ TransfersOK /\ [Next]_vars => [atomic]_vars
  BY <1>1
<1>3. QED
  BY <1>2, TransfersAlways, PTL DEF Spec, TransfersAreAtomic
=============================================================================
