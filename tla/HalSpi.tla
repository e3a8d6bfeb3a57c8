------------------------------- MODULE HalSpi -------------------------------
(***************************************************************************)
(* fram_hal_spi: the SPI driver of the FM25V02A. Transfers are cut into    *)
(* transactions; each WRITE needs a WREN before it, since the chip clears  *)
(* its write enable latch at the end of every WRITE. And the life of the   *)
(* driver: the SPI bus is shared with other drivers, and the context       *)
(* remembers whether this one initialised it.                              *)
(*                                                                         *)
(* The chip and the bus are external. One transaction is one step; the     *)
(* device mutex of fram_dev admits one transfer at a time, but not         *)
(* fram_dev_deinit, which can come between two transactions.               *)
(***************************************************************************)
EXTENDS Integers, Sequences, FiniteSetsExt

CONSTANTS
  ChipSize,    \* FM25V02A_SIZE_BYTES
  Values,      \* what a byte can be
  MaxTransfer, \* hal->max_transfer
  BufMax,      \* FRAM_SPI_BUF_MAX
  None         \* no transfer

(* The arguments and locals of a transfer. *)
Calls == [kind : {"read", "write"}, addr : Nat, len : Nat, buf : Seq(Values),
          done : Nat, enabled : BOOLEAN]

ASSUME ConstantsAssumption ==
  /\ ChipSize \in Nat \ {0}
  /\ MaxTransfer \in Nat \ {0}
  /\ BufMax \in Nat \ {0}
  /\ None \notin Calls

Addresses == 0..(ChipSize - 1)

VARIABLES
  mem,        \* the chip's content
  wel,        \* the chip's write enable latch
  bus,        \* the SPI bus: "free", or initialised by this driver or an "other"
  created,    \* hal->ctx # NULL, with the function table
  dev,        \* ctx->dev # NULL
  bus_inited, \* ctx->bus_inited
  deinit_bus, \* ctx->deinit_bus
  size_bytes, \* hal->size_bytes; 0 until the probe
  call,       \* the transfer under way
  before,     \* ghost: the chip's content when it began
  forgotten   \* ghost: a create zeroed a context that had initialised the bus

context == <<created, dev, bus_inited, deinit_bus, size_bytes>>
vars == <<mem, wel, bus, created, dev, bus_inited, deinit_bus, size_bytes,
          call, before, forgotten>>

Init ==
  /\ mem \in [Addresses -> Values]
  /\ wel = FALSE
  /\ bus = "free"
  /\ created = FALSE /\ dev = FALSE
  /\ bus_inited = FALSE /\ deinit_bus = FALSE
  /\ size_bytes = 0
  /\ call = None
  /\ before = mem
  /\ forgotten = FALSE

-----------------------------------------------------------------------------
(* The life of the driver *)

(* Mutant of InitBus: a bus that is there already counts as initialised. *)
InitAnyBus(init) ==
  /\ bus' = IF init /\ bus = "free" THEN "hal" ELSE bus
  /\ bus_inited' = init

(* spi_bus_initialize succeeds. ESP_ERR_INVALID_STATE, since the bus is    *)
(* initialised already, is as good, but then it is not this driver's.      *)
InitBus(init) ==
  /\ bus' = IF init /\ bus = "free" THEN "hal" ELSE bus
  /\ bus_inited' = (init /\ bus = "free")

(* fram_hal_spi_create zeroes the context: after a deinit, or after a      *)
(* create that failed.                                                     *)
CreateAnew ==
  /\ ~dev /\ call = None
  /\ forgotten' = (bus = "hal")
  /\ UNCHANGED <<mem, wel, call, before>>

Create(init, deinit, size) ==
  /\ InitBus(init)
  /\ bus' # "free"
  /\ created' = TRUE /\ dev' = TRUE
  /\ deinit_bus' = deinit
  /\ size_bytes' = size
  /\ CreateAnew

(* hal and ctx are zeroed before anything can fail. *)
Zeroed ==
  /\ created' = FALSE /\ dev' = FALSE
  /\ deinit_bus' = FALSE
  /\ size_bytes' = 0
  /\ CreateAnew

(* The mode is not 0 or 3, or spi_bus_initialize fails. *)
CreateRefused ==
  /\ bus_inited' = FALSE
  /\ UNCHANGED bus
  /\ Zeroed

(* spi_bus_add_device fails: what was done to the bus stays. *)
CreateFailsAtDevice(init) ==
  /\ InitBus(init)
  /\ Zeroed

(* The chip answers RDID with its family; a size that was not configured   *)
(* is set.                                                                 *)
Probe ==
  /\ created /\ dev
  /\ size_bytes = 0
  /\ size_bytes' = ChipSize
  /\ UNCHANGED <<mem, wel, bus, created, dev, bus_inited, deinit_bus, call,
                 before, forgotten>>

Deinit ==
  /\ created
  /\ dev' = FALSE
  /\ IF deinit_bus /\ bus_inited
     THEN bus' = "free" /\ bus_inited' = FALSE
     ELSE UNCHANGED <<bus, bus_inited>>
  /\ UNCHANGED <<mem, wel, created, deinit_bus, size_bytes, call, before,
                 forgotten>>

(* Another driver initialises the bus, or frees it: the bus refuses to be  *)
(* freed while a device is attached to it.                                 *)
OtherDriver ==
  /\ \/ bus = "free" /\ bus' = "other"
     \/ bus = "other" /\ ~dev /\ bus' = "free"
  /\ UNCHANGED <<mem, wel, context, call, before, forgotten>>

-----------------------------------------------------------------------------
(* Transfers *)

(* Mutant of InRange: address and length are checked apart only. *)
EachInRange(addr, len) == size_bytes # 0 /\ addr <= size_bytes /\ len <= size_bytes

InRange(addr, len) ==
  /\ size_bytes # 0
  /\ addr <= size_bytes /\ len <= size_bytes
  /\ addr <= size_bytes - len

Begin(kind, addr, len, buf) ==
  /\ created /\ call = None
  /\ InRange(addr, len)
  /\ call' = [kind |-> kind, addr |-> addr, len |-> len, buf |-> buf,
              done |-> 0, enabled |-> FALSE]
  /\ before' = mem
  /\ UNCHANGED <<mem, wel, bus, context, forgotten>>

BeginRead(addr, len) == Begin("read", addr, len, <<>>)

BeginWrite(addr, len) ==
  \E buf \in [1..len -> Values] : Begin("write", addr, len, buf)

ChunkSize == Min({call.len - call.done, MaxTransfer, BufMax})

(* The chip decodes as many address bits as it has. *)
ChipAddress(a) == a % ChipSize

(* The i-th byte of the transfer is the chip's byte at Address(i). *)
Address(i) == ChipAddress(call.addr + i - 1)

WriteEnable ==
  /\ call # None /\ call.kind = "write"
  /\ call.done < call.len /\ ~call.enabled
  /\ dev
  /\ wel' = TRUE
  /\ call' = [call EXCEPT !.enabled = TRUE]
  /\ UNCHANGED <<mem, bus, context, before, forgotten>>

(* Bytes done + 1 to done + n of the buffer reach the chip. *)
Store(n) ==
  mem' = [a \in Addresses |->
            LET hits == {i \in (call.done + 1)..(call.done + n) : Address(i) = a}
            IN IF wel /\ hits # {} THEN call.buf[Max(hits)] ELSE mem[a]]

(* Mutant of AfterWrite: the loop sends WREN before its first WRITE only. *)
StaysEnabled == [call EXCEPT !.done = @ + ChunkSize]

AfterWrite == [call EXCEPT !.done = @ + ChunkSize, !.enabled = FALSE]

WriteChunk ==
  /\ call # None /\ call.enabled
  /\ call.done < call.len
  /\ dev
  /\ Store(ChunkSize)
  /\ wel' = FALSE
  /\ call' = AfterWrite
  /\ UNCHANGED <<bus, context, before, forgotten>>

ReadChunk ==
  /\ call # None /\ call.kind = "read"
  /\ call.done < call.len
  /\ dev
  /\ call' = [call EXCEPT
       !.done = @ + ChunkSize,
       !.buf = @ \o [k \in 1..ChunkSize |-> mem[Address(call.done + k)]]]
  /\ UNCHANGED <<mem, wel, bus, context, before, forgotten>>

Return == call' = None /\ before' = mem'

(* ESP_OK, after the loop. *)
TransferDone ==
  /\ call # None /\ call.done = call.len
  /\ UNCHANGED <<mem, wel, bus, context, forgotten>>
  /\ Return

(* A transaction fails, for the bus or for the device that is not there    *)
(* any more. Of a WRITE, the chip may have stored the first n bytes.       *)
TransactionFails ==
  /\ call # None /\ call.done < call.len
  /\ IF dev /\ call.enabled
     THEN \E n \in 0..ChunkSize : Store(n)
     ELSE UNCHANGED mem
  /\ IF dev /\ call.kind = "write" THEN wel' \in BOOLEAN ELSE UNCHANGED wel
  /\ Return
  /\ UNCHANGED <<bus, context, forgotten>>

-----------------------------------------------------------------------------
Next ==
  \/ \E init, deinit \in BOOLEAN, size \in {0, ChipSize} : Create(init, deinit, size)
  \/ CreateRefused
  \/ \E init \in BOOLEAN : CreateFailsAtDevice(init)
  \/ Probe
  \/ Deinit
  \/ OtherDriver
  \/ \E addr \in 0..(ChipSize + 1), len \in 1..(ChipSize + 1) :
       BeginRead(addr, len) \/ BeginWrite(addr, len)
  \/ WriteEnable \/ WriteChunk \/ ReadChunk
  \/ TransferDone \/ TransactionFails

Spec == Init /\ [][Next]_vars

-----------------------------------------------------------------------------
(* Properties *)

(* The variables hold values of their C types, and no transfer leaves the  *)
(* chip.                                                                   *)
TypeOK ==
  /\ mem \in [Addresses -> Values]
  /\ wel \in BOOLEAN
  /\ bus \in {"free", "hal", "other"}
  /\ created \in BOOLEAN /\ dev \in BOOLEAN
  /\ bus_inited \in BOOLEAN /\ deinit_bus \in BOOLEAN
  /\ size_bytes \in {0, ChipSize}
  /\ call = None \/ (call.done <= call.len /\ call.addr + call.len <= ChipSize)
  /\ before \in [Addresses -> Values]
  /\ forgotten \in BOOLEAN

(* The chip as it was, with the first n bytes of the write under way. *)
Stored(n) ==
  [a \in Addresses |->
     IF call.kind = "write" /\ a \in call.addr..(call.addr + n - 1)
     THEN call.buf[a - call.addr + 1] ELSE before[a]]

(* What fram_dev builds on: a write that returns ESP_OK has stored its     *)
(* buffer and nothing else, in however many WREN and WRITE pairs; one that *)
(* fails has stored the leading part that it had done, and maybe some of   *)
(* the next chunk; and a read that returns ESP_OK has its range.           *)
TransferStoresPrefix ==
  [][call # None /\ call' = None =>
       IF TransferDone
       THEN /\ mem' = Stored(call.len)
            /\ call.kind = "read" =>
                 call.buf = [i \in 1..call.len |-> before[call.addr + i - 1]]
       ELSE \E n \in 0..ChunkSize : mem' = Stored(call.done + n)]_vars

(* Who frees the bus: only the bus that this context initialised and has   *)
(* not freed yet, so that another driver's stays over any sequence of      *)
(* failed creates, repeated deinits and other drivers; and a bus that this *)
(* driver initialised is always remembered, unless a create zeroed the     *)
(* context that had it: a retry after spi_bus_add_device failed.           *)
BusOwnership ==
  /\ bus_inited => bus = "hal"
  /\ bus = "hal" => bus_inited \/ forgotten
=============================================================================
