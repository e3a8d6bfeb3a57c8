----------------------------- MODULE HalSpiProofs -----------------------------
(***************************************************************************)
(* Theorems about HalSpi, for every chip, transaction size and value: who  *)
(* frees the bus, and what a transfer leaves on the chip, whichever of its *)
(* transactions fails.                                                     *)
(***************************************************************************)
EXTENDS HalSpi, TLAPS

(* The steps that make, free or leave the bus. Whoever zeroes a context    *)
(* that owned the bus records it in forgotten, so BusOwnership is          *)
(* inductive as it stands.                                                 *)
LEMMA BusStep ==
  ASSUME BusOwnership, [Next]_vars
  PROVE  BusOwnership'
<1>1. ASSUME NEW init \in BOOLEAN, NEW deinit \in BOOLEAN, NEW size,
             Create(init, deinit, size)
      PROVE  BusOwnership'
  BY <1>1 DEF Create, CreateAnew, InitBus, BusOwnership
<1>2. CASE CreateRefused
  BY <1>2 DEF CreateRefused, Zeroed, CreateAnew, BusOwnership
<1>3. ASSUME NEW init \in BOOLEAN, CreateFailsAtDevice(init)
      PROVE  BusOwnership'
  BY <1>3 DEF CreateFailsAtDevice, Zeroed, CreateAnew, InitBus, BusOwnership
<1>4. CASE Deinit
  BY <1>4 DEF Deinit, BusOwnership
<1>5. CASE OtherDriver
  <2>1. UNCHANGED <<bus_inited, forgotten>>
    BY <1>5 DEF OtherDriver, context
  <2>2. bus # "hal" /\ bus' # "hal"
    BY <1>5 DEF OtherDriver
  <2>3. QED
    BY <2>1, <2>2 DEF BusOwnership
<1>6. ASSUME \/ Probe \/ WriteEnable \/ WriteChunk \/ ReadChunk
             \/ TransferDone \/ TransactionFails
             \/ \E addr \in 0..(ChipSize + 1), len \in 1..(ChipSize + 1) :
                  BeginRead(addr, len) \/ BeginWrite(addr, len)
             \/ UNCHANGED vars
      PROVE  BusOwnership'
  <2>1. UNCHANGED <<bus, bus_inited, forgotten>>
    BY <1>6 DEF Probe, WriteEnable, WriteChunk, ReadChunk, TransferDone,
         TransactionFails, BeginRead, BeginWrite, Begin, context, vars
  <2>2. QED
    BY <2>1 DEF BusOwnership
<1>7. QED
  BY <1>1, <1>2, <1>3, <1>4, <1>5, <1>6 DEF Next

(* fram_hal_spi frees only a bus that it initialised itself, over every    *)
(* sequence of creates that succeed or fail, deinits and other drivers;    *)
(* and it loses a bus it initialised only where a later create zeroes the  *)
(* context that remembered it.                                             *)
THEOREM BusIsOwned == Spec => []BusOwnership
<1>1. Init => BusOwnership
  BY DEF Init, BusOwnership
<1>2. BusOwnership /\ [Next]_vars => BusOwnership'
  BY BusStep
<1>3. QED
  BY <1>1, <1>2, PTL DEF Spec

-----------------------------------------------------------------------------
(* Types and transfers. TypeOK is not inductive: a chunk stays within the  *)
(* chip only because the call has a buffer of its length, and what a       *)
(* transfer has done is known only from chunk to chunk. TransferOK says it *)
(* at every step: the chip holds the part that is done, over what it held  *)
(* when the call began; the latch is set whenever the call is about to     *)
(* send a WRITE.                                                           *)

TransferOK ==
  call # None =>
    /\ call \in Calls
    /\ call.kind = "write" =>
         call.buf \in [1..call.len -> Values] /\ (call.enabled => wel)
    /\ call.kind = "read" =>
         /\ ~call.enabled
         /\ call.buf = [i \in 1..call.done |-> before[call.addr + i - 1]]
    /\ mem = Stored(call.done)

IInv == TypeOK /\ TransferOK

(* What IInv says of a transfer under way. *)
LEMMA CallIs ==
  ASSUME IInv, call # None
  PROVE  /\ call \in Calls /\ call.done <= call.len
         /\ call.addr + call.len <= ChipSize
         /\ mem = Stored(call.done)
BY DEF IInv, TypeOK, TransferOK

LEMMA ChunkIs ==
  ASSUME IInv, call # None, call.done < call.len
  PROVE  ChunkSize \in 1..(call.len - call.done)
<1>. DEFINE S == {call.len - call.done, MaxTransfer, BufMax}
<1>1. /\ call.len - call.done \in Nat \ {0}
      /\ MaxTransfer \in Nat \ {0} /\ BufMax \in Nat \ {0}
  BY CallIs, ConstantsAssumption DEF Calls
<1>2. \E x \in S : \A y \in S : x <= y
  BY <1>1
<1>3. ChunkSize \in S /\ \A y \in S : ChunkSize <= y
  BY <1>2 DEF ChunkSize, Min
<1>4. QED
  BY <1>1, <1>3

(* No transfer that was let in leaves the chip, so no address wraps. *)
LEMMA AddressIs ==
  ASSUME IInv, call # None, NEW i \in 1..call.len
  PROVE  /\ Address(i) = call.addr + i - 1
         /\ call.addr + i - 1 \in Addresses
<1>1. call.addr + i - 1 \in 0..(ChipSize - 1)
  BY CallIs, ConstantsAssumption DEF Calls
<1>2. QED
  BY <1>1, ConstantsAssumption DEF Address, ChipAddress, Addresses

(* n bytes more of a write that the chip accepts. *)
LEMMA StoreIs ==
  ASSUME IInv, call # None, call.kind = "write", wel,
         NEW n \in 0..(call.len - call.done), Store(n)
  PROVE  mem' = Stored(call.done + n)
<1>1. /\ call \in Calls /\ call.done <= call.len /\ mem = Stored(call.done)
      /\ call.addr \in Nat /\ call.done \in Nat /\ call.len \in Nat /\ n \in Nat
      /\ call.done + n <= call.len
  BY CallIs DEF Calls
<1>2. ASSUME NEW a \in Addresses
      PROVE  mem'[a] = Stored(call.done + n)[a]
  <2>. DEFINE hits == {i \in (call.done + 1)..(call.done + n) : Address(i) = a}
  <2>1. mem'[a] = IF hits # {} THEN call.buf[Max(hits)] ELSE mem[a]
    BY DEF Store
  <2>2. mem[a] = IF a \in call.addr..(call.addr + call.done - 1)
                 THEN call.buf[a - call.addr + 1] ELSE before[a]
    BY <1>1 DEF Stored
  <2>3. Stored(call.done + n)[a] =
          IF a \in call.addr..(call.addr + (call.done + n) - 1)
          THEN call.buf[a - call.addr + 1] ELSE before[a]
    BY DEF Stored
  <2>4. a \in Nat
    BY ConstantsAssumption DEF Addresses
  <2>5. \A i \in (call.done + 1)..(call.done + n) :
          /\ i \in Nat
          /\ Address(i) = a <=> i = a - call.addr + 1
    <3>1. SUFFICES ASSUME NEW i \in (call.done + 1)..(call.done + n)
                   PROVE  i \in Nat /\ (Address(i) = a <=> i = a - call.addr + 1)
      OBVIOUS
    <3>2. i \in 1..call.len
      BY <1>1
    <3>3. Address(i) = call.addr + i - 1
      BY <3>2, AddressIs
    <3>4. QED
      BY <1>1, <2>4, <3>2, <3>3
  <2>6. CASE a - call.addr + 1 \in (call.done + 1)..(call.done + n)
    <3>1. hits = {a - call.addr + 1}
      BY <2>5, <2>6
    <3>2. Max(hits) = a - call.addr + 1 /\ hits # {}
      BY <1>1, <2>4, <3>1 DEF Max
    <3>3. a \in call.addr..(call.addr + (call.done + n) - 1)
      BY <1>1, <2>4, <2>6
    <3>4. QED
      BY <2>1, <2>3, <3>2, <3>3
  <2>7. CASE a - call.addr + 1 \notin (call.done + 1)..(call.done + n)
    <3>1. hits = {}
      BY <2>5, <2>7
    <3>2. a \in call.addr..(call.addr + (call.done + n) - 1)
            <=> a \in call.addr..(call.addr + call.done - 1)
      BY <1>1, <2>4, <2>7
    <3>3. QED
      BY <2>1, <2>2, <2>3, <3>1, <3>2
  <2>8. QED
    BY <2>6, <2>7
<1>3. mem' = [a \in Addresses |-> mem'[a]]
  BY DEF Store
<1>4. Stored(call.done + n) = [a \in Addresses |-> Stored(call.done + n)[a]]
  BY DEF Stored
<1>5. QED
  BY <1>2, <1>3, <1>4

LEMMA StoredType ==
  ASSUME IInv, call # None, NEW n \in 0..call.len
  PROVE  Stored(n) \in [Addresses -> Values]
<1>1. \A a \in Addresses : a \in Nat
  BY ConstantsAssumption DEF Addresses
<1>2. ASSUME NEW a \in Addresses, call.kind = "write",
             a \in call.addr..(call.addr + n - 1)
      PROVE  call.buf[a - call.addr + 1] \in Values
  <2>1. a - call.addr + 1 \in 1..call.len
    BY <1>1, <1>2, CallIs DEF Calls
  <2>2. QED
    BY <1>2, <2>1 DEF IInv, TransferOK
<1>3. before \in [Addresses -> Values]
  BY DEF IInv, TypeOK
<1>4. QED
  BY <1>2, <1>3 DEF Stored

(* The bytes that a chunk adds to those a read has. *)
LEMMA ReadOn ==
  ASSUME NEW f, NEW o \in Nat, NEW m \in Nat, NEW n \in Nat
  PROVE  [k \in 1..m |-> f[o + k - 1]] \o [k \in 1..n |-> f[o + m + k - 1]]
           = [k \in 1..(m + n) |-> f[o + k - 1]]
<1>. DEFINE p == [k \in 1..m |-> f[o + k - 1]]
            q == [k \in 1..n |-> f[o + m + k - 1]]
            r == [k \in 1..(m + n) |-> f[o + k - 1]]
            S == {f[k] : k \in Nat}
<1>1. \A k \in 1..(m + n) : o + k - 1 \in Nat
  OBVIOUS
<1>2. \A k \in 1..n : o + m + k - 1 \in Nat
  OBVIOUS
<1>3. p \in Seq(S) /\ q \in Seq(S) /\ Len(p) = m /\ Len(q) = n
  BY <1>1, <1>2
<1>4. /\ DOMAIN (p \o q) = 1..(m + n)
      /\ \A k \in 1..(m + n) :
           (p \o q)[k] = IF k <= m THEN p[k] ELSE q[k - m]
  BY <1>3
<1>5. \A k \in 1..(m + n) : (p \o q)[k] = f[o + k - 1]
  <2>1. SUFFICES ASSUME NEW k \in 1..(m + n) PROVE (p \o q)[k] = f[o + k - 1]
    OBVIOUS
  <2>2. CASE k <= m
    BY <1>4, <2>2
  <2>3. CASE k > m
    <3>1. k - m \in 1..n /\ o + m + (k - m) - 1 = o + k - 1
      BY <2>3
    <3>2. QED
      BY <1>4, <2>3, <3>1
  <2>4. QED
    BY <2>2, <2>3
<1>6. p \o q = [k \in 1..(m + n) |-> (p \o q)[k]]
  BY <1>3, <1>4
<1>7. QED
  BY <1>5, <1>6

LEMMA ReadEffect ==
  ASSUME IInv, call # None, call.kind = "read"
  PROVE  mem = before /\ \A n : Stored(n) = before
BY CallIs DEF IInv, TypeOK, Stored

(* Nothing IInv speaks of but the life of the driver changes. *)
LEMMA TransferFrame ==
  ASSUME TransferOK, UNCHANGED <<mem, wel, call, before>>
  PROVE  TransferOK'
BY DEF TransferOK, Stored

LEMMA ReturnOK ==
  ASSUME Return
  PROVE  TransferOK'
BY DEF Return, TransferOK

(* The steps of the driver's life. *)
LEMMA LifeIInv ==
  ASSUME IInv,
         \/ \E init, deinit \in BOOLEAN, size \in {0, ChipSize} :
              Create(init, deinit, size)
         \/ CreateRefused
         \/ \E init \in BOOLEAN : CreateFailsAtDevice(init)
         \/ Probe \/ Deinit \/ OtherDriver \/ UNCHANGED vars
  PROVE  IInv'
<1>1. UNCHANGED <<mem, wel, call, before>>
  BY DEF Create, CreateRefused, CreateFailsAtDevice, Zeroed, CreateAnew, Probe,
         Deinit, OtherDriver, vars
<1>2. TransferOK'
  BY <1>1, TransferFrame DEF IInv
<1>3. /\ bus' \in {"free", "hal", "other"}
      /\ created' \in BOOLEAN /\ dev' \in BOOLEAN
      /\ bus_inited' \in BOOLEAN /\ deinit_bus' \in BOOLEAN
      /\ size_bytes' \in {0, ChipSize}
      /\ forgotten' \in BOOLEAN
  <2>. USE DEF IInv, TypeOK
  <2>1. CASE \E init, deinit \in BOOLEAN, size \in {0, ChipSize} :
               Create(init, deinit, size)
    BY <2>1 DEF Create, CreateAnew, InitBus
  <2>2. CASE CreateRefused
    BY <2>2 DEF CreateRefused, Zeroed, CreateAnew
  <2>3. CASE \E init \in BOOLEAN : CreateFailsAtDevice(init)
    BY <2>3 DEF CreateFailsAtDevice, Zeroed, CreateAnew, InitBus
  <2>4. CASE Probe \/ Deinit \/ OtherDriver \/ UNCHANGED vars
    BY <2>4 DEF Probe, Deinit, OtherDriver, vars, context
  <2>5. QED
    BY <2>1, <2>2, <2>3, <2>4
<1>4. TypeOK'
  BY <1>1, <1>3 DEF IInv, TypeOK
<1>5. QED
  BY <1>2, <1>4 DEF IInv

LEMMA BeginIInv ==
  ASSUME IInv, NEW kind \in {"read", "write"},
         NEW addr \in 0..(ChipSize + 1), NEW len \in 1..(ChipSize + 1),
         NEW buf \in Seq(Values), Begin(kind, addr, len, buf),
         kind = "read" => buf = <<>>,
         kind = "write" => buf \in [1..len -> Values]
  PROVE  IInv'
<1>1. /\ call' = [kind |-> kind, addr |-> addr, len |-> len, buf |-> buf,
                  done |-> 0, enabled |-> FALSE]
      /\ call' \in Calls
  BY ConstantsAssumption DEF Begin, Calls
<1>2. call'.done <= call'.len /\ call'.addr + call'.len <= ChipSize
  BY <1>1, ConstantsAssumption DEF Begin, InRange, IInv, TypeOK
<1>3. TypeOK'
  BY <1>2 DEF Begin, IInv, TypeOK, context
<1>4. mem' = Stored(0)'
  <2>1. addr..(addr + 0 - 1) = {}
    BY ConstantsAssumption
  <2>2. mem' \in [Addresses -> Values] /\ before' = mem'
    BY DEF Begin, IInv, TypeOK
  <2>3. call'.addr = addr
    BY <1>1
  <2>4. QED
    BY <2>1, <2>2, <2>3 DEF Stored
<1>5. <<>> = [i \in 1..0 |-> before'[addr + i - 1]]
  OBVIOUS
<1>6. TransferOK'
  BY <1>1, <1>4, <1>5 DEF TransferOK
<1>7. QED
  BY <1>3, <1>6 DEF IInv

(* WREN, and the chunks of a WRITE and of a READ. *)
LEMMA ChunkIInv ==
  ASSUME IInv, WriteEnable \/ WriteChunk \/ ReadChunk
  PROVE  IInv' /\ call' # None
<1>1. /\ call # None /\ call \in Calls /\ call.done < call.len
      /\ call.done <= call.len /\ call.addr + call.len <= ChipSize
      /\ call.addr \in Nat /\ call.len \in Nat /\ call.done \in Nat
      /\ mem = Stored(call.done)
  BY CallIs DEF WriteEnable, WriteChunk, ReadChunk, Calls
<1>2. PICK n \in 1..(call.len - call.done) : n = ChunkSize
  BY <1>1, ChunkIs
<1>3. /\ n \in Nat /\ call.done + n \in Nat
      /\ call.done + n \in 0..call.len
  BY <1>1, <1>2
<1>4. ASSUME call'.kind = call.kind, call'.addr = call.addr,
             call'.kind = "write" => call'.buf = call.buf, UNCHANGED before
      PROVE  \A k : Stored(k)' = Stored(k)
  BY <1>4 DEF Stored, Calls
<1>5. ASSUME call' \in Calls, call'.len = call.len, call'.addr = call.addr,
             call'.done \in {call.done, call.done + n},
             mem' \in [Addresses -> Values], wel' \in BOOLEAN,
             UNCHANGED <<bus, context, before, forgotten>>
      PROVE  TypeOK'
  <2>1. call'.done <= call'.len /\ call'.addr + call'.len <= ChipSize
    BY <1>1, <1>3, <1>5
  <2>2. QED
    BY <1>5, <2>1 DEF IInv, TypeOK, context
<1>6. CASE WriteEnable
  <2>1. call' = [call EXCEPT !.enabled = TRUE] /\ call' \in Calls
    BY <1>1, <1>6 DEF WriteEnable, Calls
  <2>2. /\ call'.kind = "write" /\ call'.addr = call.addr
        /\ call'.len = call.len /\ call'.buf = call.buf
        /\ call'.done = call.done
    BY <1>1, <1>6, <2>1 DEF WriteEnable, Calls
  <2>3. TypeOK'
    BY <1>5, <1>6, <2>1, <2>2 DEF WriteEnable, IInv, TypeOK
  <2>4. TransferOK'
    BY <1>1, <1>4, <1>6, <2>1, <2>2
       DEF WriteEnable, IInv, TransferOK
  <2>5. QED
    BY <2>1, <2>3, <2>4, ConstantsAssumption DEF IInv
<1>7. CASE WriteChunk
  <2>1. call.kind = "write" /\ wel /\ call.buf \in [1..call.len -> Values]
    BY <1>1, <1>7 DEF WriteChunk, IInv, TransferOK, Calls
  <2>2. call' = [call EXCEPT !.done = @ + n, !.enabled = FALSE]
    BY <1>2, <1>7 DEF WriteChunk, AfterWrite
  <2>3. /\ call' \in Calls
        /\ call'.kind = "write" /\ call'.addr = call.addr
        /\ call'.len = call.len /\ call'.buf = call.buf
        /\ call'.done = call.done + n /\ ~call'.enabled
    <3>1. PICK d \in Nat : d = call.done + n
      BY <1>3
    <3>2. call' = [call EXCEPT !.done = d, !.enabled = FALSE]
      BY <1>1, <2>2, <3>1 DEF Calls
    <3>3. QED
      BY <1>1, <2>1, <3>1, <3>2 DEF Calls
  <2>4. mem' = Stored(call.done + n)
    <3>1. n \in 0..(call.len - call.done) /\ Store(n)
      BY <1>1, <1>2, <1>7 DEF WriteChunk
    <3>2. QED
      BY <1>1, <2>1, <3>1, StoreIs
  <2>5. mem' \in [Addresses -> Values]
    BY <1>1, <1>3, <2>4, StoredType
  <2>6. TypeOK'
    BY <1>5, <1>7, <2>3, <2>5 DEF WriteChunk
  <2>7. mem' = Stored(call.done)'
    BY <1>4, <1>7, <2>1, <2>3, <2>4 DEF WriteChunk
  <2>8. TransferOK'
    BY <2>1, <2>3, <2>7 DEF TransferOK
  <2>9. QED
    BY <2>3, <2>6, <2>8, ConstantsAssumption DEF IInv
<1>8. CASE ReadChunk
  <2>1. /\ call.kind = "read" /\ ~call.enabled
        /\ call.buf = [i \in 1..call.done |-> before[call.addr + i - 1]]
        /\ mem = before /\ before \in [Addresses -> Values]
    BY <1>1, <1>8, ReadEffect DEF ReadChunk, IInv, TypeOK, TransferOK
  <2>2. PICK a \in Nat : a = call.addr
    BY <1>1
  <2>3. PICK m \in Nat : m = call.done
    BY <1>1
  <2>4. PICK f : f = before
    OBVIOUS
  <2>5. [k \in 1..n |-> mem[Address(call.done + k)]]
          = [k \in 1..n |-> f[a + m + k - 1]]
    <3>1. ASSUME NEW k \in 1..n
          PROVE  mem[Address(call.done + k)] = f[a + m + k - 1]
      <4>1. call.done + k \in 1..call.len
        BY <1>1, <1>3
      <4>2. Address(call.done + k) = a + m + k - 1
        BY <1>1, <2>2, <2>3, <4>1, AddressIs
      <4>3. QED
        BY <2>1, <2>4, <4>2
    <3>2. QED
      BY <3>1
  <2>6. PICK b : b = call.buf \o [k \in 1..n |-> f[a + m + k - 1]]
    OBVIOUS
  <2>7. b = [i \in 1..(m + n) |-> f[a + i - 1]]
    <3>1. [k \in 1..m |-> f[a + k - 1]] \o [k \in 1..n |-> f[a + m + k - 1]]
            = [k \in 1..(m + n) |-> f[a + k - 1]]
      BY <1>3, ReadOn
    <3>2. QED
      BY <2>1, <2>2, <2>3, <2>4, <2>6, <3>1
  <2>8. call' = [call EXCEPT !.done = @ + n, !.buf = b]
    BY <1>1, <1>2, <1>8, <2>5, <2>6 DEF ReadChunk, Calls
  <2>9. b \in Seq(Values)
    <3>1. \A i \in 1..(m + n) : f[a + i - 1] \in Values
      <4>1. SUFFICES ASSUME NEW i \in 1..(m + n) PROVE f[a + i - 1] \in Values
        OBVIOUS
      <4>2. a + i - 1 \in Addresses
        BY <1>1, <1>3, <2>2, <2>3, AddressIs
      <4>3. QED
        BY <2>1, <2>4, <4>2
    <3>2. m + n \in Nat
      BY <1>3
    <3>3. QED
      BY <2>7, <3>1, <3>2
  <2>10. /\ call' \in Calls
         /\ call'.kind = "read" /\ call'.addr = call.addr
         /\ call'.len = call.len /\ call'.buf = b
         /\ call'.done = call.done + n /\ ~call'.enabled
    <3>1. PICK d \in Nat : d = call.done + n
      BY <1>3
    <3>2. call' = [call EXCEPT !.done = d, !.buf = b]
      BY <1>1, <2>8, <3>1 DEF Calls
    <3>3. QED
      BY <1>1, <2>1, <2>9, <3>1, <3>2 DEF Calls
  <2>11. TypeOK'
    BY <1>5, <1>8, <2>10 DEF ReadChunk, IInv, TypeOK
  <2>12. mem' = Stored(call.done)'
    BY <1>4, <1>8, <2>1, <2>10, ReadEffect, <1>1 DEF ReadChunk
  <2>13. call'.buf = [i \in 1..call'.done |-> before'[call'.addr + i - 1]]
    BY <1>8, <2>2, <2>3, <2>4, <2>7, <2>10 DEF ReadChunk
  <2>14. TransferOK'
    BY <2>10, <2>12, <2>13 DEF TransferOK
  <2>15. QED
    BY <2>10, <2>11, <2>14, ConstantsAssumption DEF IInv
<1>9. QED
  BY <1>6, <1>7, <1>8

(* A transfer that fails stored a leading part of what it had to. *)
LEMMA FailureStores ==
  ASSUME IInv, TransactionFails
  PROVE  /\ \E n \in 0..ChunkSize : mem' = Stored(call.done + n)
         /\ mem' \in [Addresses -> Values]
<1>1. /\ call # None /\ call \in Calls /\ call.done < call.len
      /\ call.len \in Nat /\ call.done \in Nat
      /\ mem = Stored(call.done) /\ mem \in [Addresses -> Values]
  BY CallIs DEF TransactionFails, Calls, IInv, TypeOK
<1>2. ChunkSize \in 1..(call.len - call.done)
  BY <1>1, ChunkIs
<1>3. CASE UNCHANGED mem
  <2>1. 0 \in 0..ChunkSize /\ call.done + 0 = call.done
    BY <1>1, <1>2
  <2>2. QED
    BY <1>1, <1>3, <2>1
<1>4. CASE dev /\ call.enabled
  <2>1. PICK n \in 0..ChunkSize : Store(n)
    BY <1>4 DEF TransactionFails
  <2>2. call.kind = "write" /\ wel
    BY <1>1, <1>4 DEF IInv, TransferOK, Calls
  <2>3. n \in 0..(call.len - call.done) /\ call.done + n \in 0..call.len
    BY <1>1, <1>2, <2>1
  <2>4. mem' = Stored(call.done + n)
    BY <1>1, <2>1, <2>2, <2>3, StoreIs
  <2>5. QED
    BY <1>1, <2>1, <2>3, <2>4, StoredType
<1>5. QED
  BY <1>3, <1>4 DEF TransactionFails

LEMMA NextIInv == IInv /\ [Next]_vars => IInv'
<1>. SUFFICES ASSUME IInv, [Next]_vars PROVE IInv'
  OBVIOUS
<1>1. CASE \/ \E init, deinit \in BOOLEAN, size \in {0, ChipSize} :
                Create(init, deinit, size)
           \/ CreateRefused
           \/ \E init \in BOOLEAN : CreateFailsAtDevice(init)
           \/ Probe \/ Deinit \/ OtherDriver \/ UNCHANGED vars
  BY <1>1, LifeIInv
<1>2. ASSUME NEW addr \in 0..(ChipSize + 1), NEW len \in 1..(ChipSize + 1),
             BeginRead(addr, len) \/ BeginWrite(addr, len)
      PROVE  IInv'
  <2>1. CASE BeginRead(addr, len)
    <3>1. <<>> \in Seq(Values)
      OBVIOUS
    <3>2. QED
      BY <2>1, <3>1, BeginIInv DEF BeginRead
  <2>2. CASE BeginWrite(addr, len)
    <3>1. PICK buf \in [1..len -> Values] : Begin("write", addr, len, buf)
      BY <2>2 DEF BeginWrite
    <3>2. buf \in Seq(Values)
      BY ConstantsAssumption
    <3>3. QED
      BY <3>1, <3>2, BeginIInv
  <2>3. QED
    BY <1>2, <2>1, <2>2
<1>3. CASE WriteEnable \/ WriteChunk \/ ReadChunk
  BY <1>3, ChunkIInv
<1>4. CASE TransferDone
  BY <1>4, ReturnOK DEF TransferDone, Return, IInv, TypeOK, context
<1>5. CASE TransactionFails
  <2>1. mem' \in [Addresses -> Values]
    BY <1>5, FailureStores
  <2>2. QED
    BY <1>5, <2>1, ReturnOK
       DEF TransactionFails, Return, IInv, TypeOK, context
<1>6. QED
  BY <1>1, <1>2, <1>3, <1>4, <1>5 DEF Next

LEMMA IInvAlways == Spec => []IInv
<1>1. Init => IInv
  BY ConstantsAssumption DEF Init, IInv, TypeOK, TransferOK
<1>2. QED
  BY <1>1, NextIInv, PTL DEF Spec

(* The variables keep the types of their C declarations, and no transfer   *)
(* leaves the chip: for a chip and transactions of any size.               *)
THEOREM TypeCorrect == Spec => []TypeOK
<1>1. IInv => TypeOK
  BY DEF IInv
<1>2. QED
  BY <1>1, IInvAlways, PTL

(* However many WREN and WRITE pairs a write takes: one that returns       *)
(* ESP_OK has stored its buffer and nothing else, and one that fails, with *)
(* the device taken away between any two transactions, a leading part of   *)
(* it; a read that returns ESP_OK has its range.                           *)
THEOREM TransfersStorePrefix == Spec => TransferStoresPrefix
<1>1. ASSUME IInv, [Next]_vars, call # None, call' = None
      PROVE  IF TransferDone
             THEN /\ mem' = Stored(call.len)
                  /\ call.kind = "read" =>
                       call.buf = [i \in 1..call.len |->
                                     before[call.addr + i - 1]]
             ELSE \E n \in 0..ChunkSize : mem' = Stored(call.done + n)
  <2>1. CASE TransferDone
    BY <1>1, <2>1 DEF TransferDone, IInv, TransferOK
  <2>2. CASE TransactionFails
    <3>1. ~TransferDone
      BY <1>1, <2>2, CallIs DEF TransferDone, TransactionFails, Calls
    <3>2. QED
      BY <1>1, <2>2, <3>1, FailureStores
  <2>3. CASE ~TransferDone /\ ~TransactionFails
    <3>1. ~WriteEnable /\ ~WriteChunk /\ ~ReadChunk
      BY <1>1, ChunkIInv
    <3>2. QED
      BY <1>1, <2>3, <3>1
         DEF Next, vars, Create, CreateRefused, CreateFailsAtDevice, Zeroed,
             CreateAnew, Probe, Deinit, OtherDriver, BeginRead, BeginWrite,
             Begin
  <2>4. QED
    BY <2>1, <2>2, <2>3
<1>2. QED
  BY <1>1, IInvAlways, PTL DEF Spec, TransferStoresPrefix
=============================================================================
