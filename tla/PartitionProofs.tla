--------------------------- MODULE PartitionProofs ---------------------------
(***************************************************************************)
(* Proofs about Partition for every word size, every device size and every *)
(* table: partitions are disjoint ranges of the device, no access leaves   *)
(* its partition, read-only partitions keep their content, and an erase    *)
(* covers the whole partition.                                             *)
(***************************************************************************)
EXTENDS Partition, TLAPS

(* A range that passes the check of fram_pm_init ends inside the device. *)
LEMMA FitsInside ==
  ASSUME dev_size \in Word, NEW p \in Entry, Fits(p)
  PROVE  p.size > 0 /\ p.offset + p.size <= dev_size
BY ConstantsAssumption DEF Word, Entry, Fits, Minus

(* Two ranges that fit and do not overlap in word arithmetic are apart. *)
LEMMA ApartIsApart ==
  ASSUME dev_size \in Word, NEW p \in Entry, NEW q \in Entry,
         Fits(p), Fits(q), ~Overlap(p, q)
  PROVE  p.offset + p.size <= q.offset \/ q.offset + q.size <= p.offset
<1>1. p.offset + p.size < W /\ q.offset + q.size < W
  BY FitsInside, ConstantsAssumption DEF Word, Entry
<1>2. QED
  BY <1>1, ConstantsAssumption DEF Word, Entry, Overlap, Plus

(* A transfer that passes the check of fram_pm_is_valid_range stays inside *)
(* a partition that lies inside the device.                                *)
LEMMA RangeInside ==
  ASSUME dev_size \in Word, NEW p \in Entry, p.offset + p.size <= dev_size,
         NEW o \in Word, NEW n \in Word, ValidRange(p, o, n)
  PROVE  Span(p, o, n) \subseteq Bytes(p)
<1>. SUFFICES ASSUME NEW k \in Word, k < n
              PROVE  Plus(Plus(p.offset, o), k) \in Bytes(p)
  BY DEF Span
<1>1. o + n <= p.size
  BY ConstantsAssumption DEF ValidRange, Minus, Word, Entry
<1>2. Plus(p.offset, o) = p.offset + o
  BY <1>1, ConstantsAssumption DEF Plus, Word, Entry
<1>3. Plus(Plus(p.offset, o), k) = p.offset + o + k
  BY <1>1, <1>2, ConstantsAssumption DEF Plus, Word, Entry
<1>4. QED
  BY <1>1, <1>3, ConstantsAssumption DEF Bytes, Word, Entry

(* The table as fram_pm_init accepts it. *)
TableOK ==
  /\ \A i \in DOMAIN parts : parts[i].offset + parts[i].size <= dev_size
  /\ \A i, j \in DOMAIN parts : i # j =>
       \/ parts[i].offset + parts[i].size <= parts[j].offset
       \/ parts[j].offset + parts[j].size <= parts[i].offset

IInv == TypeOK /\ TableOK /\ EraseCovers

LEMMA InitIInv == Init => IInv
<1>. SUFFICES ASSUME Init PROVE IInv
  OBVIOUS
<1>1. DOMAIN parts = {} /\ parts \in Seq(Entry)
  BY DEF Init
<1>2. \A t \in Tasks : job[t] = None
  BY DEF Init
<1>3. TypeOK
  BY <1>1 DEF Init, TypeOK, Addresses
<1>4. QED
  BY <1>1, <1>2, <1>3 DEF IInv, TableOK, EraseCovers

LEMMA StoreType ==
  ASSUME NEW p, NEW o, NEW m, NEW e \in BOOLEAN, TypeOK, Store(p, o, m, e)
  PROVE  mem' \in [Addresses -> BOOLEAN]
BY DEF Store, TypeOK

(* What an erase step needs of the chunk it is at. *)
LEMMA ChunkInside ==
  ASSUME IInv, NEW t \in Tasks, job[t] # None, job[t].remaining > 0
  PROVE  LET j == job[t]
             p == parts[j.part]
         IN /\ j.part \in DOMAIN parts /\ p \in Entry
            /\ j.offset \in Word /\ j.remaining \in Word
            /\ ChunkOf(t) \in Word /\ ChunkOf(t) > 0
            /\ j.offset + ChunkOf(t) <= p.size
            /\ Plus(j.offset, ChunkOf(t)) = j.offset + ChunkOf(t)
            /\ Remaining(t) = j.remaining - ChunkOf(t)
            /\ p.offset + p.size <= dev_size
<1>1. job[t] \in [part : DOMAIN parts, offset : Word, remaining : Word]
  BY DEF IInv, TypeOK
<1>2. parts[job[t].part] \in Entry
  BY <1>1 DEF IInv, TypeOK
<1>3. job[t].offset + job[t].remaining = parts[job[t].part].size
  BY DEF IInv, EraseCovers
<1>4. ChunkOf(t) \in Word /\ 0 < ChunkOf(t) /\ ChunkOf(t) <= job[t].remaining
  BY <1>1, ConstantsAssumption DEF ChunkOf, Word
<1>5. parts[job[t].part].offset + parts[job[t].part].size <= dev_size
  BY <1>1 DEF IInv, TableOK
<1>6. QED
  BY <1>1, <1>2, <1>3, <1>4, <1>5, ConstantsAssumption
     DEF Plus, Minus, Remaining, Word, Entry

(* Storing bytes of one kind over a span that stays inside its partition. *)
LEMMA StoreInside ==
  ASSUME IInv, NEW i \in DOMAIN parts, NEW o \in Word, NEW m \in Word,
         NEW e \in BOOLEAN, o + m <= parts[i].size, Store(parts[i], o, m, e)
  PROVE  /\ \A a \in Addresses \ Bytes(parts[i]) : mem'[a] = mem[a]
         /\ \A k \in Word : k < parts[i].size =>
              mem'[parts[i].offset + k] =
                IF o <= k /\ k < o + m THEN e ELSE mem[parts[i].offset + k]
<1>. DEFINE p == parts[i]
<1>1. p \in Entry /\ p.offset + p.size <= dev_size /\ dev_size \in Word
  BY DEF IInv, TypeOK, TableOK
<1>2. \A k \in Word : k < m => Plus(Plus(p.offset, o), k) = p.offset + o + k
  BY <1>1, ConstantsAssumption DEF Plus, Word, Entry
<1>3. Span(p, o, m) = {p.offset + o + k : k \in {x \in Word : x < m}}
  BY <1>2 DEF Span
<1>4. \A a \in Addresses : mem'[a] = IF a \in Span(p, o, m) THEN e ELSE mem[a]
  BY DEF Store
<1>5. Span(p, o, m) \subseteq Bytes(p)
  BY <1>1, <1>3, ConstantsAssumption DEF Bytes, Word, Entry
<1>6. ASSUME NEW k \in Word, k < p.size
      PROVE  mem'[p.offset + k] =
               IF o <= k /\ k < o + m THEN e ELSE mem[p.offset + k]
  <2>1. p.offset + k \in Addresses
    BY <1>1, <1>6, ConstantsAssumption DEF Addresses, Word, Entry
  <2>2. (o <= k /\ k < o + m) <=> p.offset + k \in Span(p, o, m)
    <3>1. ASSUME o <= k, k < o + m PROVE p.offset + k \in Span(p, o, m)
      <4>1. k - o \in {x \in Word : x < m} /\ p.offset + o + (k - o) = p.offset + k
        BY <1>1, <3>1, ConstantsAssumption DEF Word, Entry
      <4>2. QED
        BY <1>3, <4>1
    <3>2. ASSUME p.offset + k \in Span(p, o, m) PROVE o <= k /\ k < o + m
      <4>1. PICK x \in Word : x < m /\ p.offset + k = p.offset + o + x
        BY <1>3, <3>2
      <4>2. QED
        BY <1>1, <4>1 DEF Word, Entry
    <3>3. QED
      BY <3>1, <3>2
  <2>3. QED
    BY <1>4, <2>1, <2>2
<1>7. QED
  BY <1>4, <1>5, <1>6

(* A store inside partition i leaves the bytes of the others alone. *)
LEMMA OthersKept ==
  ASSUME IInv, NEW i \in DOMAIN parts, NEW j \in DOMAIN parts, i # j,
         \A a \in Addresses \ Bytes(parts[i]) : mem'[a] = mem[a]
  PROVE  \A a \in Bytes(parts[j]) : mem'[a] = mem[a]
<1>1. parts[i] \in Entry /\ parts[j] \in Entry /\ dev_size \in Word
  BY DEF IInv, TypeOK
<1>2. parts[j].offset + parts[j].size <= dev_size
  BY DEF IInv, TableOK
<1>3. \/ parts[i].offset + parts[i].size <= parts[j].offset
      \/ parts[j].offset + parts[j].size <= parts[i].offset
  BY DEF IInv, TableOK
<1>4. Bytes(parts[j]) \subseteq Addresses \ Bytes(parts[i])
  BY <1>1, <1>2, <1>3, ConstantsAssumption DEF Bytes, Addresses, Word, Entry
<1>5. QED
  BY <1>4

LEMMA InitStep ==
  ASSUME IInv, NEW table \in Tables, PmInit(table)
  PROVE  IInv'
<1>1. table \in Seq(Entry) /\ \A i \in DOMAIN table : table[i] \in Entry
  BY DEF Tables
<1>2. \A t \in Tasks : job'[t] = None
  BY DEF PmInit, Idle
<1>3. TypeOK'
  BY <1>1, <1>2 DEF PmInit, IInv, TypeOK, Addresses
<1>4. dev_size \in Word /\ dev_size' = dev_size /\ parts' = table
  BY DEF PmInit, IInv, TypeOK
<1>5. \A i \in DOMAIN table : table[i].offset + table[i].size <= dev_size
  BY <1>1, <1>4, FitsInside DEF PmInit, Accepted
<1>6. ASSUME NEW i \in DOMAIN table, NEW j \in DOMAIN table, i < j
      PROVE  \/ table[i].offset + table[i].size <= table[j].offset
             \/ table[j].offset + table[j].size <= table[i].offset
  BY <1>1, <1>4, <1>6, ApartIsApart DEF PmInit, Accepted
<1>7. \A i, j \in DOMAIN table : i # j => i < j \/ j < i
  BY <1>1
<1>8. TableOK'
  BY <1>4, <1>5, <1>6, <1>7 DEF TableOK
<1>9. QED
  BY <1>2, <1>3, <1>8 DEF IInv, EraseCovers

LEMMA WriteStep ==
  ASSUME IInv, NEW i \in DOMAIN parts, NEW o \in Word, NEW n \in Word,
         PmWrite(i, o, n)
  PROVE  /\ IInv'
         /\ ~parts[i].readonly
         /\ \A a \in Addresses \ Bytes(parts[i]) : mem'[a] = mem[a]
<1>. DEFINE p == parts[i]
<1>1. p \in Entry /\ p.offset + p.size <= dev_size /\ dev_size \in Word
  BY DEF IInv, TypeOK, TableOK
<1>2. PICK m \in 0..n : Store(p, o, m, FALSE)
  BY DEF PmWrite
<1>3. m \in Word /\ (m = 0 \/ o + m <= p.size)
  BY <1>1, ConstantsAssumption DEF PmWrite, ValidRange, Minus, Word, Entry
<1>4. \A a \in Addresses \ Bytes(p) : mem'[a] = mem[a]
  <2>1. CASE m = 0
    <3>1. Span(p, o, m) = {}
      BY <2>1, ConstantsAssumption DEF Span, Word
    <3>2. QED
      BY <1>2, <3>1 DEF Store
  <2>2. CASE o + m <= p.size
    BY <1>2, <1>3, <2>2, StoreInside
  <2>3. QED
    BY <1>3, <2>1, <2>2
<1>5. mem' \in [Addresses -> BOOLEAN]
  BY <1>2, StoreType DEF IInv
<1>6. written' \in [Tasks -> BOOLEAN]
  BY DEF PmWrite
<1>7. TypeOK'
  BY <1>5, <1>6 DEF PmWrite, IInv, TypeOK, Addresses
<1>8. EraseCovers'
  <2>. SUFFICES ASSUME NEW t \in Tasks, job[t] # None, ~written'[t],
                       NEW k \in Word, k < job[t].offset
                PROVE  mem'[parts[job[t].part].offset + k]
    BY DEF EraseCovers, PmWrite, IInv
  <2>1. ~written[t] /\ job[t].part # i
    BY DEF PmWrite
  <2>2. job[t] \in [part : DOMAIN parts, offset : Word, remaining : Word]
    BY DEF IInv, TypeOK
  <2>3. /\ mem[parts[job[t].part].offset + k]
        /\ job[t].offset + job[t].remaining = parts[job[t].part].size
    BY <2>1 DEF IInv, EraseCovers
  <2>4. parts[job[t].part].offset + k \in Bytes(parts[job[t].part])
    <3>1. parts[job[t].part] \in Entry
      BY <2>2 DEF IInv, TypeOK
    <3>2. parts[job[t].part].offset + parts[job[t].part].size <= dev_size
      BY <2>2 DEF IInv, TableOK
    <3>3. QED
      BY <1>1, <2>2, <2>3, <3>1, <3>2, ConstantsAssumption
         DEF Bytes, Word, Entry
  <2>5. QED
    BY <1>4, <2>1, <2>2, <2>3, <2>4, OthersKept
<1>9. TableOK'
  BY DEF PmWrite, IInv, TableOK
<1>10. QED
  BY <1>4, <1>7, <1>8, <1>9 DEF IInv, PmWrite, Writable

(* An erase step of t that stores m erased bytes at its offset: what the   *)
(* other erases have covered stays covered.                                *)
LEMMA EraseStores ==
  ASSUME IInv, NEW t \in Tasks, job[t] # None, job[t].remaining > 0,
         NEW m \in 0..ChunkOf(t),
         Store(parts[job[t].part], job[t].offset, m, TRUE)
  PROVE  LET j == job[t]
             p == parts[j.part]
         IN /\ mem' \in [Addresses -> BOOLEAN]
            /\ \A a \in Addresses \ Bytes(p) : mem'[a] = mem[a]
            /\ \A k \in Word : k < p.size /\ mem[p.offset + k] => mem'[p.offset + k]
            /\ \A k \in Word : j.offset <= k /\ k < j.offset + m => mem'[p.offset + k]
            /\ \A u \in Tasks : job[u] # None /\ ~written[u] =>
                 \A k \in Word : k < job[u].offset =>
                   mem'[parts[job[u].part].offset + k]
<1>. DEFINE j == job[t]
            p == parts[j.part]
<1>1. /\ j.part \in DOMAIN parts /\ p \in Entry
      /\ j.offset \in Word /\ m \in Word /\ j.offset + m <= p.size
  BY ChunkInside, ConstantsAssumption DEF Word, Entry
<1>2. mem' \in [Addresses -> BOOLEAN]
  BY StoreType DEF IInv
<1>3. /\ \A a \in Addresses \ Bytes(p) : mem'[a] = mem[a]
      /\ \A k \in Word : k < p.size =>
           mem'[p.offset + k] =
             IF j.offset <= k /\ k < j.offset + m THEN TRUE ELSE mem[p.offset + k]
  BY <1>1, StoreInside
<1>4. \A k \in Word : k < p.size /\ mem[p.offset + k] => mem'[p.offset + k]
  BY <1>3
<1>5. \A k \in Word : j.offset <= k /\ k < j.offset + m => mem'[p.offset + k]
  <2>. SUFFICES ASSUME NEW k \in Word, j.offset <= k, k < j.offset + m
                PROVE  mem'[p.offset + k]
    OBVIOUS
  <2>1. k < p.size
    BY <1>1 DEF Word, Entry
  <2>2. QED
    BY <1>3, <2>1
<1>6. ASSUME NEW u \in Tasks, job[u] # None, ~written[u],
             NEW k \in Word, k < job[u].offset
      PROVE  mem'[parts[job[u].part].offset + k]
  <2>. DEFINE q == parts[job[u].part]
  <2>1. job[u] \in [part : DOMAIN parts, offset : Word, remaining : Word]
    BY <1>6 DEF IInv, TypeOK
  <2>2. q \in Entry /\ q.offset + q.size <= dev_size /\ dev_size \in Word
    BY <2>1 DEF IInv, TypeOK, TableOK
  <2>3. mem[q.offset + k] /\ job[u].offset + job[u].remaining = q.size
    BY <1>6 DEF IInv, EraseCovers
  <2>4. k < q.size /\ q.offset + k \in Bytes(q)
    BY <1>6, <2>1, <2>2, <2>3, ConstantsAssumption DEF Bytes, Word, Entry
  <2>5. CASE job[u].part = j.part
    BY <1>4, <2>3, <2>4, <2>5
  <2>6. CASE job[u].part # j.part
    BY <1>1, <1>3, <2>1, <2>3, <2>4, <2>6, OthersKept
  <2>7. QED
    BY <2>5, <2>6
<1>7. QED
  BY <1>2, <1>3, <1>4, <1>5, <1>6

LEMMA ChunkStep ==
  ASSUME IInv, NEW t \in Tasks, EraseChunk(t)
  PROVE  /\ IInv'
         /\ ~parts[job[t].part].readonly
         /\ job[t].part \in DOMAIN parts
         /\ \A a \in Addresses \ Bytes(parts[job[t].part]) : mem'[a] = mem[a]
<1>. DEFINE j == job[t]
            p == parts[j.part]
            c == ChunkOf(t)
<1>1. j # None /\ j.remaining > 0 /\ Store(p, j.offset, c, TRUE)
  BY DEF EraseChunk
<1>2. /\ j.part \in DOMAIN parts /\ p \in Entry
      /\ j.offset \in Word /\ j.remaining \in Word
      /\ c \in Word /\ c > 0 /\ j.offset + c <= p.size
      /\ Plus(j.offset, c) = j.offset + c
      /\ Remaining(t) = j.remaining - c
  BY <1>1, ChunkInside
<1>3. c \in 0..c
  BY <1>2 DEF Word
<1>4. j.offset + j.remaining = p.size
  BY <1>1 DEF IInv, EraseCovers
<1>5. /\ mem' \in [Addresses -> BOOLEAN]
      /\ \A a \in Addresses \ Bytes(p) : mem'[a] = mem[a]
      /\ \A k \in Word : j.offset <= k /\ k < j.offset + c => mem'[p.offset + k]
      /\ \A u \in Tasks : job[u] # None /\ ~written[u] =>
           \A k \in Word : k < job[u].offset => mem'[parts[job[u].part].offset + k]
  BY <1>1, <1>3, EraseStores
<1>6. j \in [part : DOMAIN parts, offset : Word, remaining : Word]
  BY <1>1 DEF IInv, TypeOK
<1>7. /\ job'[t] = [part |-> j.part, offset |-> j.offset + c, remaining |-> j.remaining - c]
      /\ \A u \in Tasks \ {t} : job'[u] = job[u]
      /\ DOMAIN job' = Tasks
  BY <1>2, <1>6 DEF EraseChunk, IInv, TypeOK
<1>8. j.offset + c \in Word /\ j.remaining - c \in Word
  BY <1>2, <1>4, ConstantsAssumption DEF Word, Entry
<1>9. job' \in [Tasks -> {None} \cup [part : DOMAIN parts, offset : Word, remaining : Word]]
  BY <1>6, <1>7, <1>8 DEF EraseChunk, IInv, TypeOK
<1>10. TypeOK'
  BY <1>5, <1>9 DEF EraseChunk, IInv, TypeOK, Addresses
<1>11. EraseCovers'
  <2>. SUFFICES ASSUME NEW u \in Tasks, job'[u] # None
                PROVE  /\ job'[u].offset + job'[u].remaining = parts[job'[u].part].size
                       /\ ~written[u] =>
                            \A k \in Word : k < job'[u].offset =>
                              mem'[parts[job'[u].part].offset + k]
    BY DEF EraseCovers, EraseChunk
  <2>1. CASE u = t
    BY <1>1, <1>2, <1>4, <1>5, <1>7, <2>1 DEF Word
  <2>2. CASE u # t
    BY <1>5, <1>7, <2>2 DEF IInv, EraseCovers
  <2>3. QED
    BY <2>1, <2>2
<1>12. TableOK'
  BY DEF EraseChunk, IInv, TableOK
<1>13. QED
  BY <1>2, <1>5, <1>10, <1>11, <1>12
     DEF IInv, EraseChunk, Passes, Writable

LEMMA FailStep ==
  ASSUME IInv, NEW t \in Tasks, EraseFails(t)
  PROVE  /\ IInv'
         /\ \/ mem' = mem
            \/ /\ ~parts[job[t].part].readonly
               /\ job[t].part \in DOMAIN parts
               /\ \A a \in Addresses \ Bytes(parts[job[t].part]) : mem'[a] = mem[a]
<1>. DEFINE j == job[t]
<1>1. j # None /\ j.remaining > 0
  BY DEF EraseFails
<1>2. j.part \in DOMAIN parts
  BY <1>1, ChunkInside
<1>3. /\ mem' \in [Addresses -> BOOLEAN]
      /\ \/ mem' = mem
         \/ /\ ~parts[j.part].readonly
            /\ \A a \in Addresses \ Bytes(parts[j.part]) : mem'[a] = mem[a]
      /\ \A u \in Tasks : job[u] # None /\ ~written[u] =>
           \A k \in Word : k < job[u].offset => mem'[parts[job[u].part].offset + k]
  <2>1. CASE Passes(t)
    <3>1. PICK m \in 0..ChunkOf(t) : Store(parts[j.part], j.offset, m, TRUE)
      BY <2>1 DEF EraseFails
    <3>2. ~parts[j.part].readonly
      BY <2>1 DEF Passes, Writable
    <3>3. QED
      BY <1>1, <3>1, <3>2, EraseStores
  <2>2. CASE ~Passes(t)
    BY <2>2 DEF EraseFails, IInv, TypeOK, EraseCovers
  <2>3. QED
    BY <2>1, <2>2
<1>4. job'[t] = None /\ \A u \in Tasks \ {t} : job'[u] = job[u]
  BY DEF EraseFails, IInv, TypeOK
<1>5. TypeOK'
  BY <1>3 DEF EraseFails, IInv, TypeOK, Addresses
<1>6. EraseCovers'
  BY <1>3, <1>4 DEF EraseFails, IInv, EraseCovers
<1>7. TableOK'
  BY DEF EraseFails, IInv, TableOK
<1>8. QED
  BY <1>2, <1>3, <1>5, <1>6, <1>7 DEF IInv

(* The steps that touch neither the device nor, while erases are under     *)
(* way, the table.                                                         *)
LEMMA QuietSteps ==
  ASSUME IInv,
         \/ InitRefused \/ Deinit
         \/ \E t \in Tasks : EraseDone(t) \/ \E i \in DOMAIN parts : EraseBegins(t, i)
         \/ UNCHANGED vars
  PROVE  IInv' /\ mem' = mem
<1>1. CASE InitRefused
  <2>1. DOMAIN parts' = {} /\ parts' \in Seq(Entry)
    BY <1>1 DEF InitRefused
  <2>2. \A t \in Tasks : job'[t] = None
    BY <1>1 DEF InitRefused, Idle
  <2>3. TypeOK'
    BY <1>1, <2>1, <2>2 DEF InitRefused, IInv, TypeOK, Addresses
  <2>4. QED
    BY <1>1, <2>1, <2>2, <2>3 DEF InitRefused, IInv, TableOK, EraseCovers
<1>2. CASE Deinit
  BY <1>2 DEF Deinit, IInv, TypeOK, Addresses, TableOK, EraseCovers
<1>3. ASSUME NEW t \in Tasks, EraseDone(t) PROVE IInv' /\ mem' = mem
  BY <1>3 DEF EraseDone, IInv, TypeOK, Addresses, TableOK, EraseCovers
<1>4. ASSUME NEW t \in Tasks, NEW i \in DOMAIN parts, EraseBegins(t, i)
      PROVE  IInv' /\ mem' = mem
  <2>1. parts[i] \in Entry
    BY DEF IInv, TypeOK
  <2>2. /\ job'[t] = [part |-> i, offset |-> 0, remaining |-> parts[i].size]
        /\ \A u \in Tasks \ {t} : job'[u] = job[u] /\ written'[u] = written[u]
        /\ job' \in [Tasks -> {None} \cup
             [part : DOMAIN parts, offset : Word, remaining : Word]]
        /\ written' \in [Tasks -> BOOLEAN]
    BY <1>4, <2>1, ConstantsAssumption DEF EraseBegins, IInv, TypeOK, Entry, Word
  <2>3. TypeOK'
    BY <1>4, <2>2 DEF EraseBegins, IInv, TypeOK, Addresses
  <2>4. EraseCovers'
    <3>. SUFFICES ASSUME NEW u \in Tasks, job'[u] # None
                  PROVE  /\ job'[u].offset + job'[u].remaining = parts[job'[u].part].size
                         /\ ~written'[u] =>
                              \A k \in {x \in Word : x < job'[u].offset} :
                                mem[parts[job'[u].part].offset + k]
      BY <1>4 DEF EraseCovers, EraseBegins
    <3>1. CASE u = t
      BY <2>1, <2>2, <3>1, ConstantsAssumption DEF Word, Entry
    <3>2. CASE u # t
      BY <2>2, <3>2 DEF IInv, EraseCovers
    <3>3. QED
      BY <3>1, <3>2
  <2>5. QED
    BY <1>4, <2>3, <2>4 DEF EraseBegins, IInv, TableOK
<1>5. CASE UNCHANGED vars
  BY <1>5 DEF vars, IInv, TypeOK, Addresses, TableOK, EraseCovers
<1>6. QED
  BY <1>1, <1>2, <1>3, <1>4, <1>5

(* Every step keeps the invariant and changes bytes of at most one         *)
(* partition, a writable one.                                              *)
LEMMA EveryStep ==
  ASSUME IInv, [Next]_vars
  PROVE  /\ IInv'
         /\ \/ \E table \in Tables : PmInit(table)
            \/ mem' = mem
            \/ \E i \in DOMAIN parts :
                 /\ ~parts[i].readonly
                 /\ \A a \in Addresses \ Bytes(parts[i]) : mem'[a] = mem[a]
BY InitStep, QuietSteps, WriteStep, ChunkStep, FailStep DEF Next

LEMMA IInvAlways == Spec => []IInv
<1>1. IInv /\ [Next]_vars => IInv'
  BY EveryStep
<1>2. QED
  BY <1>1, InitIInv, PTL DEF Spec

(* The table's fields, and the words an erase computes with, are in range. *)
THEOREM TypeCorrect == Spec => []TypeOK
<1>1. IInv => TypeOK
  BY DEF IInv
<1>2. QED
  BY <1>1, IInvAlways, PTL

(* For every word size and device size, the table that fram_pm_init took   *)
(* consists of ranges of the device that share no byte.                    *)
THEOREM TablesAreSound == Spec => []PartitionsDisjoint
<1>1. ASSUME IInv PROVE PartitionsDisjoint
  <2>1. \A i \in DOMAIN parts : parts[i] \in Entry
    BY <1>1 DEF IInv, TypeOK
  <2>2. dev_size \in Word
    BY <1>1 DEF IInv, TypeOK
  <2>3. QED
    BY <1>1, <2>1, <2>2, ConstantsAssumption
       DEF IInv, TableOK, PartitionsDisjoint, Bytes, Addresses, Word, Entry
<1>2. QED
  BY <1>1, IInvAlways, PTL

(* No offset and length that fram_pm_is_valid_range takes lead a read or a *)
(* write out of its partition, by wrapping around or otherwise.            *)
THEOREM AccessesAreInside == Spec => []AccessStaysInside
<1>1. ASSUME IInv PROVE AccessStaysInside
  <2>1. \A i \in DOMAIN parts :
          parts[i] \in Entry /\ parts[i].offset + parts[i].size <= dev_size
    BY <1>1 DEF IInv, TypeOK, TableOK
  <2>2. dev_size \in Word
    BY <1>1 DEF IInv, TypeOK
  <2>3. QED
    BY <2>1, <2>2, RangeInside DEF AccessStaysInside
<1>2. QED
  BY <1>1, IInvAlways, PTL

(* An erase that returns ESP_OK has gone over the whole partition, for     *)
(* every size and chunk, with other erases and writes in between.          *)
THEOREM ErasesAreComplete == Spec => []EraseCovers
<1>1. IInv => EraseCovers
  BY DEF IInv
<1>2. QED
  BY <1>1, IInvAlways, PTL

(* Nothing done through other partitions, and no call on itself, changes a *)
(* read-only partition.                                                    *)
THEOREM ReadonlyIsKept == Spec => ReadonlyKeepsContent
<1>. DEFINE Kept == \A i \in DOMAIN parts : parts[i].readonly =>
                      \A a \in Bytes(parts[i]) : mem'[a] = mem[a]
<1>1. ASSUME IInv, [Next]_vars PROVE Kept
  <2>1. CASE \E table \in Tables : PmInit(table)
    BY <2>1 DEF PmInit
  <2>2. CASE \E i \in DOMAIN parts :
               /\ ~parts[i].readonly
               /\ \A a \in Addresses \ Bytes(parts[i]) : mem'[a] = mem[a]
    BY <1>1, <2>2, OthersKept
  <2>3. QED
    BY <1>1, <2>1, <2>2, EveryStep
<1>2. IInv /\ [Next]_vars => [Kept]_vars
  BY <1>1
<1>3. QED
  BY <1>2, IInvAlways, PTL DEF Spec, ReadonlyKeepsContent
=============================================================================
