# TLA+ models of the FRAM library

These modules describe what the library keeps on the FRAM and in RAM, how its calls change both, and
what must hold of them when tasks interleave, writes fail, and the power goes at the wrong moment. TLC
checks small instances; TLAPS proves the same, except for liveness, for every value of the constants, under
the assumptions of section 4.

## 1. The system

| Part | Source | State it keeps | Operations | Talks to |
|---|---|---|---|---|
| SPI HAL | `fram_hal_spi.c` | the chip's write enable latch, who initialised the bus | create, probe, deinit, read, write | chip and bus, called by the device |
| Mock HAL | `fram_hal_mock.c` | a RAM buffer | as the SPI HAL | called by the device in tests |
| Device | `fram_dev.c` | mutex, counts, consecutive errors, health flag | init, deinit, read, write, stats, reset | HAL; called by all above |
| Partition manager | `fram_partition.c` | table of ranges (read-only after init) | init, deinit, find, read, write, erase | device |
| Versioned slot (vslot) | `fram_vslot.c` | 2 or 3 slots on FRAM; active slot, version, mutex | init, deinit, save, load, peek_len, clear | partition |
| Ring log | `fram_ring.c` | slots on FRAM; head, tail, sequence, count, mutex | init, deinit, append, peeks, iterate, clear | partition, user callback |
| Key-value store | `fram_kvs.c` | log of records on FRAM; end of log, next number, mutex | init, deinit, set, get, exists, get_len, delete | partition |
| A/B superblock | `fram_superblock.c` | two copies on FRAM, nothing in RAM | read, write | device directly, no lock |
| CRC, Kconfig, tests, example | `fram_crc.c`, `Kconfig`, ... | none | | |

A call goes down: primitive (its own mutex) -> partition (bounds) -> device (the device's mutex, chunks)
-> HAL (transactions). Every mutex is taken with a timeout and is not recursive. Nothing comes up except
return codes and the callback of `fram_ring_iterate`.

What is hard, and what makes each part correct:

* **vslot** — a save is four device writes (commit cleared, header, payload, commit set). Power may go,
  or a write may fail, at any point of any of them. Correct: the last payload whose save returned OK, or
  one saved later, is found by the next init; and it can be loaded at every moment.
* **ring** — the same four writes, and a recovery that must rebuild head, tail, count and sequence from
  the slots alone. Correct: the recovered log is the acknowledged log, in order, with at most one extra
  entry of a failed append, and at most its oldest entry lost to one.
* **kvs** — an append-only log of records of different sizes, whose scan stops at the first bad record;
  new records are written over the remains of failed ones. Correct: every get and every restart sees
  exactly the acknowledged sets and deletes and at most one more.
* **superblock** — read-modify-write without a lock. Correct: the newest acknowledged table survives,
  the write never touches it, and readers do not go back.
* **partition manager** — 32-bit bounds arithmetic that must keep partitions apart whatever a caller
  passes; an erase that is many writes. Correct: accepted tables are disjoint, no access leaves its
  partition, read-only partitions keep their bytes, a finished erase has erased everything.
* **device** — chunks of one transfer must not interleave with another's; a failed write leaves a
  leading part. This is what the layers above rest on. Error statistics are also changed outside the
  mutex.
* **SPI HAL** — each WRITE needs a WREN of its own, and a transfer is many of them; the bus is shared
  with other drivers. Correct: a write has stored a leading part of its buffer, all of it if it returned
  OK; only a bus this driver initialised is ever freed by it.

`PROJECT.json` lists every hazard at its line with the properties that would catch it going wrong.

## 2. The modules

| Module | Models |
|---|---|
| `VSlot` | `fram_vslot.c` |
| `CrashSafeCell` | what a vslot promises: one cell, no slots or versions; `VSlot` implements it |
| `VSlotProofs` | theorems about `VSlot` |
| `Ring` | `fram_ring.c` |
| `CrashSafeLog` | what a ring promises: a bounded log, no slots, numbers or commit bytes; `Ring` implements it |
| `RingProofs` | theorems about `Ring`: types, mutex |
| `RingLogProofs` | theorems about `Ring`: recovery, iteration, peeks, the refinement |
| `KVS` | `fram_kvs.c` |
| `CrashSafeMap` | what the store promises: a map changed one key at a time; `KVS` implements it |
| `KVSProofs` | theorems about `KVS` |
| `Superblock` | `fram_superblock.c` |
| `SuperblockProofs` | theorems about `Superblock` |
| `Partition` | `fram_partition.c` |
| `PartitionProofs` | theorems about `Partition` |
| `Device` | `fram_dev.c`, with the HAL's read and write as steps that may fail part-way |
| `DeviceProofs` | theorems about `Device` |
| `HalSpi` | `fram_hal_spi.c`, with the chip and the bus as it uses them |
| `HalSpiProofs` | theorems about `HalSpi` |
| `MCVSlot`, `MCRing`, `MCSuperblock`, `MCDevice`, `MCKVS` | instances for TLC: symmetry sets, transfer ranges. `Partition` and `HalSpi` need none |

### How state and actions correspond to the code

Variables carry the names of the C fields (`has_data`, `active_slot`, `head_seq`, `write_offset`, ...).
`pc[t]` says what task `t` does next; `mutex` is the holder. Ghost variables, marked so in the modules,
record what callers were told (`acked`, `log`, `tried`, `errors`, `streak`, `written`, ...); no guard
reads them.

A call is split where other tasks or a power loss can come between: the checks made before the lock
(`Call...`), the lock or its `Timeout`, then one action per device write. Reads under the object's mutex
are one action with the lock and the unlock, since nothing else can touch the medium meanwhile. The
superblock takes no lock, so each of its device reads is a step of its own. In `Device`, where the
statistics are plain integers changed by several tasks, loads and stores are separate steps. An erase in
`Partition` is one step per chunk, a transfer in `HalSpi` one per transaction.

Data is abstract:

* In vslot and ring a slot is `[hdr, body, commit]`; `hdr` is this object's header or `Garbage`, and a
  header's `payload` stands for the length and CRC computed over the payload, so a slot is valid exactly
  if the payload area holds what the header was computed from. Time stamps and buffer sizes are left out.
* In `KVS` the partition is a row of cells. A record takes a cell each for header, key and commit byte
  and one per unit of its value, so that records have different sizes and a new one need not end where an
  old one did. `fram_kvs_init` is one step per record. `get`, `exists` and `get_len` change nothing: what
  they return is the function `Contents` of what a scan passes over.
* In `Partition` a byte is erased or not, names are left out and a handle is an index. Words wrap at `W`.
* The CRC is assumed to be free of collisions.

### Failures

* **Power loss** (`PowerLoss`) may happen in any state. `Cut` is what the device write under way then
  leaves: nothing, everything, or a torn header, key or payload. RAM is lost, the medium stays. A commit
  byte is a write of its own in vslot, ring and kvs and is never torn. In the superblock it is the tail
  of the same write as the body, so a torn write may leave a new or torn body in front of the *old*
  commit byte.
* **Device error** (`IoError`, `EraseFails`, `TransactionFails`) may hit any write, with the same `Cut`:
  an error does not mean that nothing was written. That a failed write leaves only a leading part of its
  range is what `Device` (`TransfersAreAtomic`) and, below it, `HalSpi` (`TransferStoresPrefix`) show.
* **Lock timeout** (`Timeout`) may happen whenever another task holds the mutex; in `KVS` always, since
  a `get`, which is no step there, may hold it.
* **Read errors** end a reading call with an error. Those of init (vslot, ring) and of
  `fram_superblock_write` are swallowed by the code; `ReadFaults` says which may happen. In `KVS` one
  fails the init.
* **deinit** takes no lock anywhere. In `Device`, `HalSpi` and `Partition` it may come between any two
  steps of a transfer or an erase. Calls of the ring and the store that are under way go on. `VSlot`
  takes it as the end of use unless `CallsAcrossDeinit` is `TRUE`.

What each module takes for granted of its callers: `KVS` lets calls begin only after an init that
returned OK (the code never looks at `ready`); `Partition` lets a new init begin only while no erase is
under way and has no handles kept over it; `Superblock`'s range is its own; `Device` and `HalSpi` have no
transfers of length 0.

## 3. What TLC checks

Invariants, action properties and refinements; `EveryCallReturns`, the one liveness property, under
`FairSpec`.

| Run | Instance | Shows |
|---|---|---|
| `vslot_two` | 2 tasks, 2 slots, 2 payloads (one empty), versions to 3 | `LatestWins`, `ActiveSlotIntact`, `SurvivesOneBadSlot`, `LoadsAreFresh`, mutex, types; `VSlot` implements `CrashSafeCell`; every call returns |
| `ring_two` | 2 tasks, 2 slots, numbers to 3, nested callbacks | `RecoveryKeepsLog`, `IterationFollowsLog`, `PeeksAreFresh`, mutex, types; every call returns |
| `ring_three` | 1 task, 3 slots, 2 payloads (one empty), numbers to 4 | `Ring` implements `CrashSafeLog`, with a log that wraps and runs that end in the middle; `OverwritesOnlyOldest` |
| `kvs_map` | 2 tasks, 2 keys, values of length 0 and 1, 8 cells | `KVS` implements `CrashSafeMap`; `RestartFindsLog`, `NoSpaceLost`, `OneBadCellHidesOnlyLater`, mutex, types |
| `superblock_one` | 1 writer, 1 reader, 2 tables, numbers to 4 | the acknowledged table survives; copies are one write apart; reads are fresh |
| `partition_tables` | every table of 2 partitions in words below 5, chunks of 2, 1 eraser | tables are disjoint, accesses stay inside, erases are complete, read-only bytes stay |
| `device_calls` | 2 tasks, 3 addresses, chunks of 2, resets and deinit at any moment, counts to 3 | transfers are atomic or leave a leading part, no access leaves the device; health and error count are exact while no two updates overlap |
| `hal_transfers` | a chip of 5 addresses, transactions of 2, every range, another driver | a transfer has stored a leading part of its buffer; who frees the bus |

### Bounds

`MaxVersion`/`MaxSeq` bound how far versions and sequence numbers grow, through `Room`: no more calls are
let in than numbers are left, so that the bound never holds up a call that was entered. `SeqCount` and
`VersionMod` stand for 2^32 and are larger than the bound. Three to five generations on two or three
slots reach a slot for the second time with a failed operation before, between and after, which is the
last new situation: the code looks only at which number is higher and whether numbers are consecutive.
Two tasks are enough for every lock race: at most one holds the mutex and the other waits, times out or
takes it next. One payload besides the empty one is enough where versions and numbers tell entries apart;
the refinements, which do not see those, have two. Payloads and tasks are used symmetrically by the code,
hence the symmetry sets (not used in the runs with liveness).

In `KVS`, 8 cells take two records of 3 or 4 cells each, completely or with cells to spare, so that a
third is refused; a record over the remains of a longer or a shorter failed one leaves a stale cell behind
it. The medium starts as all erased or all commit bytes. `Partition` has all tables, offsets and lengths
in words of 5 values; sizes and offsets near the largest word make every sum that can wrap do so. In
`Device`, three addresses in chunks of two give a full and a short chunk; `consecutive` saturates at the
threshold, the only value the code compares it with, and `TotalCount` bounds the number of errors. In
`HalSpi`, five addresses in pairs give full and short transactions, for every address and length up to one
beyond the chip.

### Fairness

`FairSpec` assumes weak fairness of each task's own steps: a task that is inside a call keeps being
scheduled, a device access ends (with or without an error), and a wait for a mutex ends with the mutex or
with the timeout that every `xSemaphoreTake` in the library is given. It assumes nothing of callers,
failures or power. In a loop over entries or slots each round is progress towards its end, so no
stronger fairness is needed.

### Findings: where the code does not do what its documents say

Each is a run that is expected to end in a violation.

| Run | Property | The disagreement |
|---|---|---|
| `vslot_unreadable` | `SaveTakesEffect` | a slot that init cannot read is treated as invalid; the next acknowledged save may reuse its version and be lost at the following restart |
| `superblock_unreadable` | `WritesOlderCopy` | a failed read in `fram_superblock_write` makes it overwrite the newest copy |
| `superblock_overtaken` | `NotFoundMeansNone` | a read overtaken by two writes reports NOT_FOUND although a copy was valid throughout |
| `device_races` | `HealthAlwaysTracks` | errors recorded outside the mutex are lost, and the device stays healthy at its threshold |

`Device` says what remains true in spite of the last one: `HealthTracksStreak` and `ErrorsCounted` hold
as long as the ghost `raced` is `FALSE`, that is, no two tasks were updating the statistics at a time.

Other instances of the same modules show more limits, recorded among the hazards and not kept as runs:

* `VSlot` with `VersionMod = 4`, `Ring` with `SeqCount = 4`: after the wrap (2^32 operations) a restart
  finds an older payload, or drops the entries appended since. The runs stay below it.
* `Ring` with `ReadFaults = {{}, {0, 1, 2}}` and three slots violates `OverwritesOnlyOldest`: an init with
  a read error places the head on an entry that is not the oldest.
* `Superblock` with two writers violates `SeqBumped`: both return OK with one number on one copy. The
  writer is therefore one task in `superblock_one`.
* `HalSpi`: the ghost `forgotten` in `BusOwnership` marks the one way a bus is left behind. A create that
  fails at `spi_bus_add_device` leaves the bus initialised, and the retry zeroes the context and finds the
  bus in use, so no deinit frees it. The same after a deinit without `deinit_bus`.

## 4. What is proved

By TLAPS, with no omitted steps: every property of a passing run except `EveryCallReturns`, for every
number of tasks, slots, cells, addresses, keys and payloads. Each module declares what it assumes of its
constants; the further assumptions are these.

| Module | Assumed | Because |
|---|---|---|
| `VSlotProofs` (not types, mutex) | `NoFaults`: init can read the slots, no call is made across deinit, versions stay below the wrap | `vslot_unreadable` refutes `SaveTakesEffect` without the first; `VersionMod = 4` (section 3) without the last |
| `RingLogProofs` | `NoFaults`: init can read the slots, numbers stay below the wrap | `ReadFaults = {{}, {0, 1, 2}}` and `SeqCount = 4` (section 3) |
| `SuperblockProofs` (not types) | `OneWriter`: at most one writer, its reads do not fail, numbers stay below the wrap | two writers refute `SeqBumped`, `superblock_unreadable` shows the second |
| all others | nothing | |

Under each the model still has every power loss, write error, timeout and interleaving. The runs are
instances of these assumptions.

* **`VSlotProofs`** — `LatestWins`, `ActiveSlotIntact`, `SaveTakesEffect`, `LoadsAreFresh`,
  `SurvivesOneBadSlot` and the refinement `ImplementsCell`, for two slots and for three.

  The argument: `LatestWins` alone is not inductive, since it does not say why a torn target cannot beat
  the promised slot. `IInv` adds (1) `ObjectOK`: while the object is up, every valid slot is the active
  one, or older, or the target with the next version and a payload that some failed save tried;
  (2) `MediumOK`: what of that survives when RAM is lost — distinct versions, and a slot with the
  promised payload that only tried payloads beat; (3) `HolderOK`: how much of the target the mutex holder
  has written. The lemma `CutKeepsObject` then covers all writes at once: whatever a write leaves, whole
  or cut, is the old slot, an invalid one, or a valid one with the next version, so one lemma serves the
  completed write, the device error and the power loss. `GenerationsOK` names the two slots that
  `SurvivesOneBadSlot` relies on; `LoadsStartEmpty` says that a load has returned nothing before its read.

* **`RingProofs`** — types and mutex. The hard part is init: that the scan's choice and the length of the
  run exist and are in range. Both are least elements of a set of numbers; `LeastNumber` derives that from
  the well-foundedness of the order on the naturals.

* **`RingLogProofs`** — `RecoveryKeepsLog`, `IterationFollowsLog`, `PeeksAreFresh`,
  `OverwritesOnlyOldest` and the refinement `ImplementsLog`, for every capacity. Behind the head lie, slot
  by slot, the newest entry, the one before it, and so on (`Behind`). `SlotsOK` says which of them are
  valid and with which numbers: the log's entries at their places (`Stored`), entries further back older
  and without the number that would join them to the log (`NothingBefore`), and the oldest entry of a
  full ring possibly replaced by that of a failed append (`OldestKept`). From it follows what the two
  passes of init find, and it is what every write, whole or cut, preserves. `CallsOK` relates the calls
  under way to it. The invariant is needed because two rings with the same acknowledged log can differ in
  the remains that a later recovery meets.

* **`SuperblockProofs`** — types, with any number of writers and read faults; `AckedSurvives`,
  `CopiesConsecutive`, `WritesOlderCopy`, `SeqBumped` and `ReadsAreFresh`. `IInv` says how the two copies'
  numbers are related at each step of the write (`CopiesOK`, `WriterOK`), which of them holds the promised
  table (`PromiseOK`), and what the copy that a reader has already seen, or the one it has not, still
  guarantees when it is overtaken (`ReaderOK`).

* **`KVSProofs`** — `TypeOK`, `MutexHeldOnlyInside`, `RestartFindsLog`, `NoSpaceLost`,
  `OneBadCellHidesOnlyLater` and the refinement `ImplementsMap`, for values of any length and partitions
  of any size.

  Types and mutex need each other: that a record under way fits before the end of the partition holds
  between the test of its size and its last write because only the task that holds the mutex moves
  `write_offset`. `IInv` adds `InitAlone`: nobody is in a call while init scans the log.

  What a scan finds depends on all remains of failed appends, whose sizes differ. `LInv` (checked with TLC
  as an invariant of the instance of `kvs_map` before it was proved) says why they do no harm: the records
  that count stand one after the other from offset 0, no header lies beyond their end, and one exactly at
  it has the next number (`Holds`); the object, or init's scan so far, is at a record boundary (`ObjectOK`,
  `ScanOK`); and the commit byte of a record being written is clear until all the rest is in place
  (`AppendOK`). That the code clears the commit byte first is what the last part needs: the byte may lie
  in the middle of an older, longer record. `ScanOf` and `CutScan` then bound what a scan can find after
  any write, whole or cut.

  `End` and `Scan` are recursive functions, so that they satisfy their own definitions is itself proved
  (`SumExists`, `FromIs`), and so is that the scan passes over exactly the records that stand one after the
  other (`ScanIs`, `ScanStands`). The inductions are over sets of numbers (`SetInduction`), from the
  well-foundedness of the naturals.

* **`PartitionProofs`** — all five properties of `Partition`, for every word size, number of partitions,
  chunk size and set of tasks. `IInv` is `TypeOK`, `EraseCovers` and `TableOK`: the ranges of the table end
  within the device and lie one before the other. `FitsInside` shows that the check by subtraction bounds
  the true sum `offset + size` by the device's size, so that the sums of the overlap test (`ApartIsApart`)
  and of the device addresses (`RangeInside`) cannot wrap; for that it does not matter that no run has a
  word of 32 bits.

* **`DeviceProofs`** — all four properties of `Device`. For the statistics, `StatsOK` follows each update
  through its loads and stores as long as none overlapped another (`UpdateOK`), and ties `consecutive` and
  the health flag to the ghosts in between. For `TransfersAreAtomic`, `TransfersOK` says how much of a
  transfer is done at each chunk: the chunks before it and nothing else.

* **`HalSpiProofs`** — all three properties of `HalSpi`. `BusOwnership` is inductive as it stands, with its
  ghost `forgotten`. `TransferStoresPrefix` speaks of the end of a transfer; `TransferOK` says it after every
  transaction, and that the latch is set whenever a WRITE is about to be sent.

## 5. What is only model-checked

Liveness, `EveryCallReturns` of `VSlot` and `Ring`: fairness and `ENABLED` are out of the prover's reach.
The four runs that end in a violation show what fails without the assumptions above; the limits in section
3 after a wrap or with two writers are instances too.

## 6. What is not modelled, and why

* `fram_hal_mock.c`: a test double; `Device`'s HAL steps allow all it does, except that an injected read
  error may also flip bytes, which the CRC catches.
* `read_count` and `write_count` of the device: nothing in the library looks at them. Liveness of
  `Device`: its calls wait in one place, for one mutex with a timeout, like those of vslot and ring.
* In `HalSpi`, the SPI driver, the chip and other drivers are external: they are modelled from how this
  code uses them. That `spi_bus_free` may refuse is left out (line 48 ignores its result).
* What a get of the store reports after a read error, and what a damaged store holds after records are
  written over the damage: see the hazards.
* CRC arithmetic, Kconfig limits, argument checks that change nothing, tests and example.

## 7. Plan

Done: every component that keeps state, each primitive with its abstract specification except the
superblock, and a proof of every safety property, action property and refinement that a passing run checks.

Theorems to come:

1. What remains of the primitives without `NoFaults`: `VSlot` and `Ring` with reads of init that fail but
   that no acknowledged operation follows; versions and numbers that wrap, as long as those on the medium
   are close together.
2. `Superblock`: an abstract specification for one writer, and its refinement.
3. The step between the layers: that what `Device` and `HalSpi` leave of a write is what `Cut` of the
   primitives allows.
