--------------------------- MODULE RingLogProofs ---------------------------
(***************************************************************************)
(* Proofs about Ring's log: what a recovery, a peek and an iteration find, *)
(* and that the ring implements CrashSafeLog, for rings of every capacity  *)
(* whose reads succeed and whose sequence numbers have not been used up.   *)
(***************************************************************************)
EXTENDS RingProofs

-----------------------------------------------------------------------------
(* Arithmetic of slot numbers. *)

LEMMA ModSmall ==
  ASSUME NEW b \in Nat \ {0}, NEW a \in 0..(b - 1)
  PROVE  a % b = a /\ (a + b) % b = a
OBVIOUS

LEMMA AfterIs ==
  ASSUME NEW i \in SlotIds
  PROVE  After(i) = IF i = Capacity - 1 THEN 0 ELSE i + 1
<1>1. CASE i = Capacity - 1
  BY <1>1, ModSmall, ConstantsAssumption DEF After, SlotIds
<1>2. CASE i # Capacity - 1
  <2>1. i + 1 \in 0..(Capacity - 1)
    BY <1>2, ConstantsAssumption DEF SlotIds
  <2>2. QED
    BY <1>2, <2>1, ModSmall, ConstantsAssumption DEF After
<1>3. QED
  BY <1>1, <1>2

LEMMA BackIs ==
  ASSUME NEW i \in SlotIds, NEW k \in 0..Capacity
  PROVE  Back(i, k) = IF k <= i THEN i - k ELSE i + Capacity - k
<1>1. CASE k <= i
  <2>1. i - k \in 0..(Capacity - 1) /\ i + Capacity - k = (i - k) + Capacity
    BY <1>1, ConstantsAssumption DEF SlotIds
  <2>2. ((i - k) + Capacity) % Capacity = i - k
    BY <2>1, ModSmall, ConstantsAssumption
  <2>3. QED
    BY <1>1, <2>1, <2>2 DEF Back
<1>2. CASE ~(k <= i)
  <2>1. i + Capacity - k \in 0..(Capacity - 1)
    BY <1>2, ConstantsAssumption DEF SlotIds
  <2>2. QED
    BY <1>2, <2>1, ModSmall, ConstantsAssumption DEF Back
<1>3. QED
  BY <1>1, <1>2

(* Going back from a slot: the ways 1 to Capacity reach every slot once. *)
LEMMA BackBijective ==
  ASSUME NEW h \in SlotIds
  PROVE  /\ \A d \in 0..Capacity : Back(h, d) \in SlotIds
         /\ Back(h, 0) = h /\ Back(h, Capacity) = h
         /\ \A i \in SlotIds : \E d \in 1..Capacity : i = Back(h, d)
         /\ \A d, e \in 1..Capacity : Back(h, d) = Back(h, e) => d = e
<1>1. /\ \A d \in 0..Capacity : Back(h, d) \in SlotIds
      /\ Back(h, 0) = h /\ Back(h, Capacity) = h
  BY BackIs, ConstantsAssumption DEF SlotIds
<1>2. ASSUME NEW i \in SlotIds PROVE \E d \in 1..Capacity : i = Back(h, d)
  <2>1. CASE i < h
    <3>1. h - i \in 1..Capacity /\ Back(h, h - i) = i
      BY <2>1, BackIs, ConstantsAssumption DEF SlotIds
    <3>2. QED
      BY <3>1
  <2>2. CASE ~(i < h)
    <3>1. h + Capacity - i \in 1..Capacity /\ Back(h, h + Capacity - i) = i
      BY <2>2, BackIs, ConstantsAssumption DEF SlotIds
    <3>2. QED
      BY <3>1
  <2>3. QED
    BY <2>1, <2>2
<1>3. ASSUME NEW d \in 1..Capacity, NEW e \in 1..Capacity,
             Back(h, d) = Back(h, e)
      PROVE  d = e
  BY <1>3, BackIs, ConstantsAssumption DEF SlotIds
<1>4. QED
  BY <1>1, <1>2, <1>3

LEMMA BackOfBack ==
  ASSUME NEW h \in SlotIds, NEW j \in 0..Capacity, NEW k \in 0..Capacity,
         j + k <= Capacity
  PROVE  Back(Back(h, j), k) = Back(h, j + k)
<1>1. Back(h, j) \in SlotIds /\ j + k \in 0..Capacity
  BY BackBijective, ConstantsAssumption
<1>. DEFINE i == Back(h, j)
<1>2. i = IF j <= h THEN h - j ELSE h + Capacity - j
  BY BackIs, ConstantsAssumption
<1>3. Back(i, k) = IF k <= i THEN i - k ELSE i + Capacity - k
  BY <1>1, BackIs, ConstantsAssumption
<1>4. Back(h, j + k)
        = IF j + k <= h THEN h - (j + k) ELSE h + Capacity - (j + k)
  BY <1>1, BackIs, ConstantsAssumption
<1>. HIDE DEF i
<1>5. Back(i, k) = Back(h, j + k)
  BY <1>1, <1>2, <1>3, <1>4, ConstantsAssumption DEF SlotIds
<1>6. QED
  BY <1>5 DEF i

LEMMA BackOfAfter ==
  ASSUME NEW h \in SlotIds
  PROVE  /\ After(h) \in SlotIds
         /\ \A d \in 0..(Capacity - 1) : Back(After(h), d + 1) = Back(h, d)
<1>1. After(h) \in SlotIds
  BY AfterIs, ConstantsAssumption DEF SlotIds
<1>2. ASSUME NEW d \in 0..(Capacity - 1)
      PROVE  Back(After(h), d + 1) = Back(h, d)
  <2>1. d + 1 \in 0..Capacity /\ d \in 0..Capacity
    BY ConstantsAssumption
  <2>2. QED
    BY <1>1, <2>1, AfterIs, BackIs, ConstantsAssumption DEF SlotIds
<1>3. QED
  BY <1>1, <1>2

-----------------------------------------------------------------------------
(* Sequences. *)

LEMMA SameSequence ==
  ASSUME NEW S, NEW s \in Seq(S), NEW t \in Seq(S), Len(s) = Len(t),
         \A i \in 1..Len(s) : s[i] = t[i]
  PROVE  s = t
<1>1. s = [i \in 1..Len(s) |-> s[i]] /\ t = [i \in 1..Len(t) |-> t[i]]
  OBVIOUS
<1>2. QED
  BY <1>1

LEMMA SuffixCriterion ==
  ASSUME NEW S, NEW s \in Seq(S), NEW t \in Seq(S), Len(s) <= Len(t),
         \A k \in 0..(Len(s) - 1) : s[Len(s) - k] = t[Len(t) - k]
  PROVE  IsSuffix(s, t)
<1>. DEFINE r == Reverse(s)
            u == Reverse(t)
<1>1. r \in Seq(S) /\ u \in Seq(S) /\ Len(r) = Len(s) /\ Len(u) = Len(t)
  BY DEF Reverse
<1>2. ASSUME NEW i \in 1..Len(s) PROVE r[i] = u[i]
  <2>1. i - 1 \in 0..(Len(s) - 1) /\ i \in 1..Len(t)
    OBVIOUS
  <2>2. s[Len(s) - (i - 1)] = t[Len(t) - (i - 1)]
    BY <2>1
  <2>3. r[i] = s[(Len(s) - i) + 1] /\ u[i] = t[(Len(t) - i) + 1]
    BY <2>1 DEF Reverse
  <2>4. QED
    BY <2>2, <2>3
<1>. HIDE DEF r, u
<1>3. /\ SubSeq(r, 1, Len(r)) = [i \in 1..Len(r) |-> r[i]]
      /\ SubSeq(u, 1, Len(r)) = [i \in 1..Len(r) |-> u[i]]
  BY <1>1
<1>4. SubSeq(r, 1, Len(r)) = SubSeq(u, 1, Len(r))
  BY <1>1, <1>2, <1>3
<1>5. QED
  BY <1>1, <1>4 DEF IsSuffix, IsPrefix, r, u

-----------------------------------------------------------------------------
(* What a run of the second pass finds. *)

(* No read fails, and no sequence number wraps. *)
NoFaults == ReadFaults = {{}} /\ MaxSeq + 1 < SeqCount

(* Among slots of small numbers the scan compares them without wrapping. *)
LEMMA FollowsIs ==
  ASSUME NoFaults, TypeOK, NEW c \in SlotIds, Valid(slots[c]),
         \A i \in SlotIds : Valid(slots[i]) => slots[i].hdr.seq <= MaxSeq,
         NEW k \in 0..Capacity, k <= slots[c].hdr.seq + 1
  PROVE  Follows({}, c, k) <=>
           /\ Valid(slots[Back(c, k)])
           /\ slots[Back(c, k)].hdr.seq = slots[c].hdr.seq - k
<1>. DEFINE s == slots[c].hdr.seq
            i == Back(c, k)
<1>1. s \in 0..MaxSeq
  BY ConstantsAssumption DEF Valid, Header, Seqs
<1>2. i \in SlotIds
  BY SlotArithmetic
<1>3. Valid(slots[i]) => slots[i].hdr.seq \in 0..MaxSeq
  BY <1>2, ConstantsAssumption DEF Valid, Header, Seqs
<1>. HIDE DEF s, i
<1>4. k % SeqCount = k
  BY <1>1, ModSmall, ConstantsAssumption DEF NoFaults, s
<1>5. CASE k <= s
  <2>1. s - k \in 0..(SeqCount - 1) /\ s + SeqCount - k = (s - k) + SeqCount
    BY <1>1, <1>5, ConstantsAssumption DEF NoFaults
  <2>2. ((s - k) + SeqCount) % SeqCount = s - k
    BY <2>1, ModSmall, ConstantsAssumption
  <2>3. QED
    BY <1>4, <2>1, <2>2 DEF Follows, s, i
<1>6. CASE k = s + 1
  <2>1. s + SeqCount - k = SeqCount - 1 /\ SeqCount - 1 \in 0..(SeqCount - 1)
    BY <1>1, <1>6, ConstantsAssumption DEF NoFaults
  <2>2. (s + SeqCount - k) % SeqCount = SeqCount - 1
    BY <2>1, ModSmall, ConstantsAssumption
  <2>3. Valid(slots[i]) => /\ slots[i].hdr.seq # SeqCount - 1
                           /\ slots[i].hdr.seq # s - k
    BY <1>1, <1>3, <1>6, ConstantsAssumption DEF NoFaults
  <2>4. QED
    BY <1>4, <2>2, <2>3 DEF Follows, s, i
<1>7. QED
  BY <1>1, <1>5, <1>6 DEF s

(* The first pass ends at the slot whose number is above all others. *)
LEMMA BestIs ==
  ASSUME TypeOK, NEW c \in Candidates({}),
         \A i \in Candidates({}) : i # c => slots[i].hdr.seq < slots[c].hdr.seq
  PROVE  Best(Candidates({})) = c
<1>. DEFINE b == Best(Candidates({}))
<1>1. b \in Candidates({}) /\ Beats(b, c)
  BY CandidatesAreSlots, BestIsBest
<1>2. slots[b].hdr.seq \in Nat /\ slots[c].hdr.seq \in Nat
  BY <1>1, CandidatesAreSlots, ConstantsAssumption DEF Header, Seqs
<1>. HIDE DEF b
<1>3. b = c
  BY <1>1, <1>2 DEF Beats
<1>4. QED
  BY <1>3 DEF b

LEMMA RecoverableIs ==
  IF Candidates({}) = {} THEN Recoverable = <<>>
  ELSE LET c == Best(Candidates({})) IN Recoverable = Run(c, RunLength({}, c))
<1>1. CASE Candidates({}) = {}
  BY <1>1, CandidatesAreSlots DEF Recoverable, LogAmong
<1>2. CASE Candidates({}) # {}
  <2>. DEFINE c == Best(Candidates({}))
              n == RunLength({}, c)
  <2>1. c \in SlotIds
    BY <1>2, CandidatesAreSlots, BestIsBest
  <2>2. n \in 0..Capacity
    BY RunLengthIsRun
  <2>. HIDE DEF n
  <2>3. [m \in 0..Capacity |-> Run(c, m)][n] = Run(c, n)
    BY <2>2
  <2>. HIDE DEF c
  <2>4. LogUpTo[c] = Run(c, n)
    BY <2>1, <2>3 DEF LogUpTo, n
  <2>5. QED
    BY <1>2, <2>4, CandidatesAreSlots DEF Recoverable, LogAmong, c, n
<1>3. QED
  BY <1>1, <1>2

(* When the slots from c back hold the entries of l, and c the highest     *)
(* number of all, the recovery finds l, and more only if the slot before   *)
(* them follows too.                                                       *)
LEMMA FindsRun ==
  ASSUME NoFaults, TypeOK, NEW c \in SlotIds, Valid(slots[c]),
         slots[c].hdr.seq <= MaxSeq,
         \A i \in SlotIds :
           Valid(slots[i]) /\ i # c => slots[i].hdr.seq < slots[c].hdr.seq,
         NEW l \in Seq(Header), Len(l) \in 1..Capacity,
         Len(l) <= slots[c].hdr.seq + 1,
         \A k \in 0..(Len(l) - 1) :
           /\ Valid(slots[Back(c, k)])
           /\ slots[Back(c, k)].hdr = l[Len(l) - k]
           /\ l[Len(l) - k].seq = slots[c].hdr.seq - k
  PROVE  /\ IsSuffix(l, Recoverable)
         /\ \/ Len(l) = Capacity
            \/ ~Valid(slots[Back(c, Len(l))])
            \/ slots[Back(c, Len(l))].hdr.seq # slots[c].hdr.seq - Len(l)
            => Recoverable = l
<1>. DEFINE n == Len(l)
            s == slots[c].hdr.seq
            r == RunLength({}, c)
<1>1. s \in 0..MaxSeq /\ n \in 1..Capacity /\ Capacity \in Nat
  BY ConstantsAssumption DEF Valid, Header, Seqs
<1>2. c \in Candidates({})
  BY DEF Candidates
<1>3. Best(Candidates({})) = c
  BY <1>2, BestIs, CandidatesAreSlots DEF Candidates
<1>4. Recoverable = Run(c, r) /\ Run(c, r) \in Seq(Header)
  BY <1>2, <1>3, RecoverableIs, RunType
<1>5. \A i \in SlotIds : Valid(slots[i]) => slots[i].hdr.seq <= MaxSeq
  BY <1>1, ConstantsAssumption DEF Valid, Header, Seqs
<1>6. \A k \in 0..n : k \in 0..Capacity /\ k <= s + 1
  BY <1>1
<1>7. \A k \in 0..n : Follows({}, c, k) <=>
        /\ Valid(slots[Back(c, k)])
        /\ slots[Back(c, k)].hdr.seq = s - k
  BY <1>5, <1>6, FollowsIs
<1>8. /\ r \in 0..Capacity
      /\ \A k \in 0..(r - 1) : Follows({}, c, k)
      /\ r < Capacity => ~Follows({}, c, r)
  BY RunLengthIsRun
<1>9. \A k \in 0..(n - 1) : Follows({}, c, k)
  BY <1>1, <1>7
<1>. HIDE DEF r
<1>10. r >= n
  BY <1>1, <1>8, <1>9
<1>11. Len(Run(c, r)) = r
       /\ \A k \in 0..(r - 1) : Run(c, r)[r - k] = slots[Back(c, k)].hdr
  <2>1. Len(Run(c, r)) = r
    BY <1>8, <1>1 DEF Run
  <2>2. ASSUME NEW k \in 0..(r - 1)
        PROVE  Run(c, r)[r - k] = slots[Back(c, k)].hdr
    <3>1. r - k \in 1..r /\ r - (r - k) = k
      BY <1>1, <1>8
    <3>2. QED
      BY <3>1 DEF Run
  <2>3. QED
    BY <2>1, <2>2
<1>12. \A k \in 0..(n - 1) : l[n - k] = Run(c, r)[r - k]
  BY <1>1, <1>8, <1>10, <1>11
<1>13. IsSuffix(l, Recoverable)
  BY <1>4, <1>10, <1>11, <1>12, SuffixCriterion
<1>14. ASSUME \/ n = Capacity
              \/ ~Valid(slots[Back(c, n)])
              \/ slots[Back(c, n)].hdr.seq # s - n
       PROVE  Recoverable = l
  <2>1. n = Capacity \/ ~Follows({}, c, n)
    BY <1>1, <1>7, <1>14
  <2>2. r = n
    BY <1>1, <1>8, <1>10, <2>1
  <2>3. ASSUME NEW i \in 1..n PROVE l[i] = Run(c, r)[i]
    <3>1. n - i \in 0..(n - 1) /\ n - (n - i) = i /\ r - (n - i) = i
      BY <1>1, <2>2
    <3>2. QED
      BY <1>12, <3>1
  <2>4. QED
    BY <1>4, <1>11, <2>2, <2>3, SameSequence
<1>15. QED
  BY <1>13, <1>14

-----------------------------------------------------------------------------
(* The slots and the log. h is the slot that the next append goes to and q *)
(* the number it gets: head_slot and head_seq while the object is in use,  *)
(* and what they were when it no longer is.                                *)

Behind(h, d) == slots[Back(h, d)]

(* The log's entries have the numbers before q, and the entries of appends *)
(* that failed since have q itself.                                        *)
Numbered(q) ==
  /\ Len(log) <= Capacity /\ Len(log) <= q
  /\ \A i \in 1..Len(log) : log[i].seq = q - (Len(log) - i + 1)
  /\ \A e \in tried : e.seq = q /\ q <= MaxSeq

(* Only the slot h may hold an entry of such an append. *)
Older(h, q) ==
  \A d \in 1..Capacity : Valid(Behind(h, d)) =>
    \/ d = Capacity /\ Behind(h, d).hdr \in tried
    \/ Behind(h, d).hdr.seq < q

(* Apart from that entry, the numbers fall on the way back from h. *)
Sorted(h) ==
  \A d, e \in 1..Capacity :
    d < e /\ Valid(Behind(h, d)) /\ Valid(Behind(h, e)) =>
      \/ e = Capacity /\ Behind(h, e).hdr \in tried
      \/ Behind(h, e).hdr.seq < Behind(h, d).hdr.seq

(* The log is in the slots before h; the oldest entry of a full log is in  *)
(* h itself, and is lost when an append begins.                            *)
Stored(h) ==
  \A d \in 1..Len(log) : d < Capacity \/ tried = {} =>
    Valid(Behind(h, d)) /\ Behind(h, d).hdr = log[Len(log) + 1 - d]

OldestKept(h) ==
  Len(log) = Capacity /\ Valid(Behind(h, Capacity)) =>
    Behind(h, Capacity).hdr \in tried \cup {log[1]}

(* No older entry continues the log, unless a clear was interrupted. *)
NothingBefore(h, q) ==
  ~dirty =>
    /\ log = <<>> => \A d \in 1..Capacity : Valid(Behind(h, d)) =>
                       d = Capacity /\ Behind(h, d).hdr \in tried
    /\ log # <<>> /\ Len(log) < Capacity /\ Valid(Behind(h, Len(log) + 1)) =>
         Behind(h, Len(log) + 1).hdr.seq # q - (Len(log) + 1)

SlotsOK(h, q) ==
  /\ Numbered(q)
  /\ Older(h, q)
  /\ Sorted(h)
  /\ Stored(h)
  /\ OldestKept(h)
  /\ NothingBefore(h, q)

(* What an init that reads every slot finds, when l is the log. *)
Finds(l) == IF dirty THEN IsSuffix(l, Recoverable) ELSE Recoverable = l

Kept == IF Len(log) < Capacity THEN log ELSE Tail(log)

LEMMA KeptIs ==
  ASSUME TypeOK, Len(log) <= Capacity
  PROVE  /\ Kept \in Seq(Header) /\ Len(Kept) <= Len(log)
         /\ Len(Kept) < Capacity /\ Len(Kept) \in Nat
         /\ \A d \in 1..Len(Kept) : Kept[Len(Kept) + 1 - d] = log[Len(log) + 1 - d]
         /\ Len(Kept) + 1 < Capacity => Len(Kept) = Len(log)
<1>1. log \in Seq(Header) /\ Capacity \in Nat \ {0} /\ Len(log) \in Nat
  BY ConstantsAssumption DEF TypeOK
<1>2. CASE Len(log) < Capacity
  BY <1>1, <1>2 DEF Kept
<1>3. CASE Len(log) = Capacity
  <2>1. log # <<>>
    BY <1>1, <1>3
  <2>2. /\ Tail(log) \in Seq(Header) /\ Len(Tail(log)) = Len(log) - 1
        /\ \A i \in 1..(Len(log) - 1) : Tail(log)[i] = log[i + 1]
    BY <1>1, <2>1
  <2>3. Kept = Tail(log)
    BY <1>3, <1>1 DEF Kept
  <2>4. ASSUME NEW d \in 1..Len(Kept)
        PROVE  Kept[Len(Kept) + 1 - d] = log[Len(log) + 1 - d]
    <3>1. Len(Kept) + 1 - d \in 1..(Len(log) - 1)
          /\ Len(Kept) + 1 - d + 1 = Len(log) + 1 - d
      BY <1>1, <2>2, <2>3
    <3>2. Tail(log)[Len(Kept) + 1 - d] = log[Len(Kept) + 1 - d + 1]
      BY <2>2, <3>1
    <3>3. QED
      BY <2>3, <3>1, <3>2
  <2>5. QED
    BY <1>1, <1>3, <2>2, <2>3, <2>4
<1>4. QED
  BY <1>1, <1>2, <1>3

LEMMA EmptyIsSuffix ==
  Recoverable \in Seq(Header) /\ IsSuffix(<<>>, Recoverable)
<1>1. Recoverable \in Seq(Header)
  <2>1. CASE Candidates({}) = {}
    BY <2>1, RecoverableIs
  <2>2. CASE Candidates({}) # {}
    BY <2>2, RecoverableIs, RunType
  <2>3. QED
    BY <2>1, <2>2
<1>2. <<>> \in Seq(Header) /\ Len(<<>>) = 0
  OBVIOUS
<1>3. Len(Recoverable) \in Nat
  BY <1>1
<1>. DEFINE z == <<>>
<1>4. z \in Seq(Header) /\ Len(z) = 0
  BY <1>2
<1>. HIDE DEF z
<1>5. Len(z) <= Len(Recoverable) /\ 0..(Len(z) - 1) = {}
  BY <1>3, <1>4
<1>6. IsSuffix(z, Recoverable)
  BY <1>1, <1>4, <1>5, SuffixCriterion
<1>7. QED
  BY <1>1, <1>6 DEF z

(* The slots behind h, seen from the slot that the newest entry is in. *)
LEMMA BehindBack ==
  ASSUME NEW h \in SlotIds
  PROVE  /\ \A k \in 1..Capacity : slots[Back(h, k)] = Behind(h, k)
         /\ Back(h, Capacity) = h /\ Back(h, 0) = h
         /\ \A k \in 0..(Capacity - 1) :
              slots[Back(Back(h, 1), k)] = Behind(h, k + 1)
<1>1. ASSUME NEW k \in 0..(Capacity - 1)
      PROVE  Back(Back(h, 1), k) = Back(h, k + 1)
  <2>1. 1 + k = k + 1 /\ 1 + k <= Capacity /\ 1 \in 0..Capacity
        /\ k \in 0..Capacity
    BY ConstantsAssumption
  <2>2. QED
    BY <2>1, BackOfBack
<1>2. QED
  BY <1>1, BackBijective DEF Behind

(* The entry of a failed append is found, on top of the log. *)
LEMMA FindsTried ==
  ASSUME NoFaults, TypeOK, NEW h \in SlotIds, NEW q \in 0..(MaxSeq + 1),
         SlotsOK(h, q), Valid(slots[h]), slots[h].hdr \in tried
  PROVE  Finds(Append(Kept, slots[h].hdr))
<1>. DEFINE e == slots[h].hdr
            l == Append(Kept, e)
            n == Len(Kept)
            m == Len(log)
<1>0. log \in Seq(Header) /\ m \in 0..Capacity /\ m <= q /\ e \in Header
      /\ Capacity \in Nat \ {0} /\ MaxSeq \in Nat
  BY ConstantsAssumption DEF TypeOK, SlotsOK, Numbered, Valid
<1>1. /\ Kept \in Seq(Header) /\ n <= m /\ n < Capacity /\ n \in Nat
      /\ \A d \in 1..n : Kept[n + 1 - d] = log[m + 1 - d]
      /\ n + 1 < Capacity => n = m
  BY <1>0, KeptIs
<1>2. e.seq = q /\ q <= MaxSeq
  BY DEF SlotsOK, Numbered
<1>3. /\ l \in Seq(Header) /\ Len(l) = n + 1
      /\ l[n + 1] = e /\ \A i \in 1..n : l[i] = Kept[i]
  BY <1>0, <1>1
<1>4. \A i \in SlotIds : Valid(slots[i]) /\ i # h => slots[i].hdr.seq < e.seq
  <2>. SUFFICES ASSUME NEW i \in SlotIds, Valid(slots[i]), i # h
                PROVE  slots[i].hdr.seq < e.seq
    OBVIOUS
  <2>1. PICK d \in 1..Capacity : i = Back(h, d)
    BY BackBijective
  <2>2. d # Capacity
    BY <2>1, BackBijective
  <2>3. QED
    BY <1>2, <2>1, <2>2 DEF SlotsOK, Older, Behind
<1>5. \A d \in 1..n : /\ Valid(Behind(h, d))
                      /\ Behind(h, d).hdr = l[n + 1 - d]
                      /\ l[n + 1 - d].seq = q - d
  <2>. SUFFICES ASSUME NEW d \in 1..n
                PROVE  /\ Valid(Behind(h, d))
                       /\ Behind(h, d).hdr = l[n + 1 - d]
                       /\ l[n + 1 - d].seq = q - d
    OBVIOUS
  <2>1. d \in 1..m /\ d < Capacity /\ m + 1 - d \in 1..m
        /\ n + 1 - d \in 1..n
    BY <1>0, <1>1
  <2>2. Valid(Behind(h, d)) /\ Behind(h, d).hdr = log[m + 1 - d]
    BY <2>1 DEF SlotsOK, Stored
  <2>3. log[m + 1 - d].seq = q - (m - (m + 1 - d) + 1)
    BY <2>1 DEF SlotsOK, Numbered
  <2>4. l[n + 1 - d] = log[m + 1 - d]
    BY <1>1, <1>3, <2>1
  <2>5. QED
    BY <1>0, <2>1, <2>2, <2>3, <2>4
<1>. HIDE DEF l, n
<1>6. ASSUME NEW k \in 0..(Len(l) - 1)
      PROVE  /\ Valid(slots[Back(h, k)])
             /\ slots[Back(h, k)].hdr = l[Len(l) - k]
             /\ l[Len(l) - k].seq = e.seq - k
  <2>1. CASE k = 0
    BY <1>1, <1>2, <1>3, <2>1, BackBijective
  <2>2. CASE k # 0
    <3>1. k \in 1..n /\ k \in 1..Capacity /\ Len(l) - k = n + 1 - k
      BY <1>0, <1>1, <1>3, <2>2
    <3>2. QED
      BY <1>2, <1>5, <3>1, BehindBack
  <2>3. QED
    BY <2>1, <2>2
<1>7. Len(l) \in 1..Capacity /\ Len(l) <= e.seq + 1
  BY <1>0, <1>1, <1>2, <1>3
<1>8. ~dirty => \/ Len(l) = Capacity
                \/ ~Valid(slots[Back(h, Len(l))])
                \/ slots[Back(h, Len(l))].hdr.seq # e.seq - Len(l)
  <2>. SUFFICES ASSUME ~dirty, n + 1 < Capacity, Valid(Behind(h, n + 1))
                PROVE  Behind(h, n + 1).hdr.seq # q - (n + 1)
    BY <1>0, <1>1, <1>2, <1>3, BehindBack
  <2>1. n = m /\ n + 1 \in 1..Capacity /\ n + 1 # Capacity
    BY <1>0, <1>1
  <2>2. log # <<>>
    BY <2>1 DEF SlotsOK, NothingBefore
  <2>3. QED
    BY <1>0, <2>1, <2>2 DEF SlotsOK, NothingBefore
<1>9. /\ IsSuffix(l, Recoverable)
      /\ ~dirty => Recoverable = l
  BY <1>2, <1>3, <1>4, <1>6, <1>7, <1>8, FindsRun
<1>10. QED
  BY <1>9 DEF Finds, l

(* Without such an entry, what is found ends in the slot before h. *)
LEMMA FindsBehind ==
  ASSUME NoFaults, TypeOK, NEW h \in SlotIds, NEW q \in 0..(MaxSeq + 1),
         SlotsOK(h, q), ~(Valid(slots[h]) /\ slots[h].hdr \in tried),
         NEW l \in Seq(Header), Len(l) \in 1..Capacity, Len(l) <= q,
         \A d \in 1..Len(l) : /\ Valid(Behind(h, d))
                              /\ Behind(h, d).hdr = l[Len(l) + 1 - d]
                              /\ l[Len(l) + 1 - d].seq = q - d,
         ~dirty => \/ Len(l) = Capacity
                   \/ ~Valid(Behind(h, Len(l) + 1))
                   \/ Behind(h, Len(l) + 1).hdr.seq # q - (Len(l) + 1)
  PROVE  Finds(l)
<1>. DEFINE c == Back(h, 1)
            n == Len(l)
<1>0. /\ Capacity \in Nat \ {0} /\ MaxSeq \in Nat
      /\ 1 \in 1..n /\ 1 \in 1..Capacity
  BY ConstantsAssumption
<1>1. c \in SlotIds /\ slots[c] = Behind(h, 1)
  BY <1>0, SlotArithmetic DEF Behind
<1>2. Valid(slots[c]) /\ slots[c].hdr.seq = q - 1
  BY <1>0, <1>1
<1>3. ASSUME NEW i \in SlotIds, Valid(slots[i]), i # c
      PROVE  slots[i].hdr.seq < slots[c].hdr.seq
  <2>1. PICK d \in 1..Capacity : i = Back(h, d)
    BY BackBijective
  <2>2. 1 < d
    BY <1>0, <1>3, <2>1
  <2>3. ~(d = Capacity /\ Behind(h, d).hdr \in tried)
    BY <1>3, <2>1, BackBijective DEF Behind
  <2>4. Valid(Behind(h, d)) /\ Valid(Behind(h, 1))
    BY <1>1, <1>2, <1>3, <2>1 DEF Behind
  <2>5. QED
    BY <1>0, <1>1, <2>1, <2>2, <2>3, <2>4 DEF SlotsOK, Sorted, Behind
<1>4. ASSUME NEW k \in 0..(n - 1)
      PROVE  /\ Valid(slots[Back(c, k)])
             /\ slots[Back(c, k)].hdr = l[n - k]
             /\ l[n - k].seq = slots[c].hdr.seq - k
  <2>1. k + 1 \in 1..n /\ k \in 0..(Capacity - 1) /\ n + 1 - (k + 1) = n - k
    BY <1>0
  <2>2. slots[Back(c, k)] = Behind(h, k + 1)
    BY <2>1, BehindBack
  <2>3. QED
    BY <1>0, <1>2, <2>1, <2>2
<1>5. ~dirty => \/ n = Capacity
                \/ ~Valid(slots[Back(c, n)])
                \/ slots[Back(c, n)].hdr.seq # slots[c].hdr.seq - n
  <2>1. n # Capacity => slots[Back(c, n)] = Behind(h, n + 1)
    BY <1>0, BehindBack
  <2>2. QED
    BY <1>0, <1>2, <2>1
<1>6. slots[c].hdr.seq <= MaxSeq /\ n <= slots[c].hdr.seq + 1
  BY <1>0, <1>2
<1>. HIDE DEF c, n
<1>7. /\ IsSuffix(l, Recoverable)
      /\ ~dirty => Recoverable = l
  BY <1>1, <1>2, <1>3, <1>4, <1>5, <1>6, FindsRun DEF n
<1>8. QED
  BY <1>7 DEF Finds

(* The log itself is found while the slot h keeps its oldest entry. *)
LEMMA FindsLog ==
  ASSUME NoFaults, TypeOK, NEW h \in SlotIds, NEW q \in 0..(MaxSeq + 1),
         SlotsOK(h, q), ~(Valid(slots[h]) /\ slots[h].hdr \in tried),
         Len(log) < Capacity \/ Valid(slots[h])
  PROVE  Finds(log)
<1>. DEFINE m == Len(log)
<1>0. log \in Seq(Header) /\ m \in 0..Capacity /\ m <= q
      /\ Capacity \in Nat \ {0} /\ MaxSeq \in Nat
  BY ConstantsAssumption DEF TypeOK, SlotsOK, Numbered
<1>1. Behind(h, Capacity) = slots[h]
  BY BackBijective DEF Behind
<1>2. CASE log = <<>>
  <2>1. CASE dirty
    BY <1>2, <2>1, EmptyIsSuffix DEF Finds
  <2>2. CASE ~dirty
    <3>1. ASSUME NEW i \in SlotIds PROVE ~Valid(slots[i])
      <4>1. PICK d \in 1..Capacity : i = Back(h, d)
        BY BackBijective
      <4>2. QED
        BY <1>1, <1>2, <2>2, <4>1 DEF SlotsOK, NothingBefore, Behind
    <3>2. Candidates({}) = {}
      BY <3>1 DEF Candidates
    <3>3. QED
      BY <1>2, <2>2, <3>2, RecoverableIs DEF Finds
  <2>3. QED
    BY <2>1, <2>2
<1>3. CASE log # <<>>
  <2>1. m \in 1..Capacity
    BY <1>0, <1>3
  <2>2. ASSUME NEW d \in 1..m
        PROVE  /\ Valid(Behind(h, d))
               /\ Behind(h, d).hdr = log[m + 1 - d]
               /\ log[m + 1 - d].seq = q - d
    <3>1. m + 1 - d \in 1..m /\ m - (m + 1 - d) + 1 = d
      BY <2>1
    <3>2. log[m + 1 - d].seq = q - d
      BY <3>1 DEF SlotsOK, Numbered
    <3>3. CASE d < Capacity
      BY <3>2, <3>3 DEF SlotsOK, Stored
    <3>4. CASE d = Capacity
      <4>1. m = Capacity /\ m + 1 - d = 1
        BY <1>0, <2>1, <3>4
      <4>2. Valid(slots[h])
        BY <1>0, <4>1
      <4>3. Behind(h, d).hdr = log[1]
        BY <1>1, <3>4, <4>1, <4>2 DEF SlotsOK, OldestKept
      <4>4. QED
        BY <1>1, <3>2, <3>4, <4>1, <4>2, <4>3
    <3>5. QED
      BY <1>0, <2>1, <3>3, <3>4
  <2>3. ~dirty => \/ m = Capacity
                  \/ ~Valid(Behind(h, m + 1))
                  \/ Behind(h, m + 1).hdr.seq # q - (m + 1)
    BY <1>0, <1>3 DEF SlotsOK, NothingBefore
  <2>. HIDE DEF m
  <2>4. QED
    BY <1>0, <2>1, <2>2, <2>3, FindsBehind DEF m
<1>4. QED
  BY <1>2, <1>3

(* And without it where an append has begun to overwrite that entry. *)
LEMMA FindsTail ==
  ASSUME NoFaults, TypeOK, NEW h \in SlotIds, NEW q \in 0..(MaxSeq + 1),
         SlotsOK(h, q), ~Valid(slots[h]), Len(log) = Capacity
  PROVE  Finds(Tail(log))
<1>. DEFINE l == Tail(log)
<1>0. log \in Seq(Header) /\ Len(log) <= q /\ log # <<>>
      /\ Capacity \in Nat \ {0} /\ MaxSeq \in Nat
  BY ConstantsAssumption DEF TypeOK, SlotsOK, Numbered
<1>1. Behind(h, Capacity) = slots[h]
  BY BackBijective DEF Behind
<1>2. /\ l \in Seq(Header) /\ Len(l) = Capacity - 1
      /\ \A i \in 1..(Capacity - 1) : l[i] = log[i + 1]
  BY <1>0
<1>. HIDE DEF l
<1>3. CASE Capacity = 1
  <2>1. l = <<>>
    BY <1>2, <1>3
  <2>2. CASE dirty
    BY <2>1, <2>2, EmptyIsSuffix DEF Finds, l
  <2>3. CASE ~dirty
    <3>1. \A i \in SlotIds : i = h
      BY <1>3 DEF SlotIds
    <3>2. Candidates({}) = {}
      BY <3>1 DEF Candidates
    <3>3. QED
      BY <2>1, <2>3, <3>2, RecoverableIs DEF Finds, l
  <2>4. QED
    BY <2>2, <2>3
<1>4. CASE Capacity # 1
  <2>1. Len(l) \in 1..Capacity /\ Len(l) <= q
    BY <1>0, <1>2, <1>4
  <2>2. ASSUME NEW d \in 1..Len(l)
        PROVE  /\ Valid(Behind(h, d))
               /\ Behind(h, d).hdr = l[Len(l) + 1 - d]
               /\ l[Len(l) + 1 - d].seq = q - d
    <3>1. /\ d \in 1..Len(log) /\ d < Capacity
          /\ Len(l) + 1 - d \in 1..(Capacity - 1)
          /\ Len(l) + 1 - d + 1 = Len(log) + 1 - d
          /\ Len(log) + 1 - d \in 1..Len(log)
          /\ Len(log) - (Len(log) + 1 - d) + 1 = d
      BY <1>0, <1>2, <2>1
    <3>2. l[Len(l) + 1 - d] = log[Len(log) + 1 - d]
      BY <1>2, <3>1
    <3>3. QED
      BY <3>1, <3>2 DEF SlotsOK, Stored, Numbered
  <2>3. Len(l) + 1 = Capacity
    BY <1>0, <1>2
  <2>4. QED
    BY <1>1, <1>2, <2>1, <2>2, <2>3, FindsBehind DEF l
<1>5. QED
  BY <1>3, <1>4

LEMMA SlotsKeepLog ==
  ASSUME NoFaults, TypeOK, NEW h \in SlotIds, NEW q \in 0..(MaxSeq + 1),
         SlotsOK(h, q)
  PROVE  RecoveryKeepsLog
<1>. DEFINE full == Len(log) = Capacity
            old == {log} \cup (IF full /\ tried # {} THEN {Tail(log)} ELSE {})
            new == {<<>>} \cup {<<e>> : e \in tried}
<1>0. log \in Seq(Header) /\ Len(log) <= Capacity /\ Capacity \in Nat \ {0}
  BY ConstantsAssumption DEF TypeOK, SlotsOK, Numbered
<1>1. ASSUME NEW o \in old, NEW n \in new, Finds(o \o n)
      PROVE  RecoveryKeepsLog
  BY <1>1 DEF RecoveryKeepsLog, Finds
<1>. HIDE DEF old, new
<1>2. log \in old /\ log \o <<>> = log /\ <<>> \in new
  BY <1>0 DEF old, new
<1>3. CASE Valid(slots[h]) /\ slots[h].hdr \in tried
  <2>1. Kept \in old /\ Kept \in Seq(Header)
    BY <1>0, <1>3, KeptIs DEF Kept, old
  <2>2. <<slots[h].hdr>> \in new
    BY <1>3 DEF new
  <2>3. slots[h].hdr \in Header
    BY <1>3 DEF Valid
  <2>4. Append(Kept, slots[h].hdr) = Kept \o <<slots[h].hdr>>
    BY <2>1, <2>3
  <2>5. Finds(Append(Kept, slots[h].hdr))
    BY <1>3, FindsTried
  <2>6. QED
    BY <1>1, <2>1, <2>2, <2>4, <2>5
<1>4. CASE ~(Valid(slots[h]) /\ slots[h].hdr \in tried)
  <2>1. CASE ~full \/ Valid(slots[h])
    <3>1. Finds(log)
      BY <1>0, <1>4, <2>1, FindsLog
    <3>2. QED
      BY <1>1, <1>2, <3>1
  <2>2. CASE full /\ ~Valid(slots[h])
    <3>1. Behind(h, Capacity) = slots[h]
      BY BackBijective DEF Behind
    <3>2. tried # {}
      BY <1>0, <2>2, <3>1 DEF SlotsOK, Stored
    <3>3. Tail(log) \in old
      BY <2>2, <3>2 DEF old
    <3>4. Tail(log) \o <<>> = Tail(log)
      <4>1. log # <<>>
        BY <1>0, <2>2
      <4>2. Tail(log) \in Seq(Header)
        BY <1>0, <4>1
      <4>3. QED
        BY <4>2
    <3>5. Finds(Tail(log))
      BY <2>2, FindsTail
    <3>6. QED
      BY <1>1, <1>2, <3>3, <3>4, <3>5
  <2>3. QED
    BY <2>1, <2>2
<1>5. QED
  BY <1>3, <1>4

-----------------------------------------------------------------------------
(* What keeps the slots in order. *)

LEMMA SlotsFrame ==
  ASSUME NEW h, NEW q, SlotsOK(h, q),
         UNCHANGED <<slots, log, tried, dirty>>
  PROVE  SlotsOK(h, q)'
BY DEF SlotsOK, Numbered, Older, Sorted, Stored, OldestKept, NothingBefore,
       Behind

(* A write to slot h that leaves it invalid, or with an entry of an append *)
(* under way.                                                              *)
LEMMA HeadWriteKeeps ==
  ASSUME TypeOK, NEW h \in SlotIds, NEW q \in 0..(MaxSeq + 1), SlotsOK(h, q),
         NEW s, slots' = [slots EXCEPT ![h] = s], tried # {},
         s = slots[h] \/ ~Valid(s) \/ s.hdr \in tried,
         UNCHANGED <<log, tried, dirty>>
  PROVE  SlotsOK(h, q)'
<1>0. Capacity \in Nat \ {0} /\ log \in Seq(Header) /\ MaxSeq \in Nat
      /\ Len(log) \in 0..Capacity
  BY ConstantsAssumption DEF TypeOK, SlotsOK, Numbered
<1>1. /\ Behind(h, Capacity)' = s
      /\ \A d \in 1..(Capacity - 1) : Behind(h, d)' = Behind(h, d)
  <2>1. slots \in [SlotIds -> Slot]
    BY DEF TypeOK
  <2>2. Back(h, Capacity) = h
    BY BackBijective
  <2>3. ASSUME NEW d \in 1..(Capacity - 1)
        PROVE  Back(h, d) \in SlotIds /\ Back(h, d) # h
    <3>1. d \in 1..Capacity /\ Capacity \in 1..Capacity /\ d # Capacity
      BY <1>0
    <3>2. QED
      BY <2>2, <3>1, BackBijective
  <2>4. QED
    BY <2>1, <2>2, <2>3 DEF Behind
<1>2. Behind(h, Capacity) = slots[h]
  BY BackBijective DEF Behind
<1>3. \A d \in 1..Capacity : d = Capacity \/ d \in 1..(Capacity - 1)
  BY <1>0
<1>4. Numbered(q)'
  BY DEF SlotsOK, Numbered
<1>5. Older(h, q)'
  BY <1>1, <1>2, <1>3 DEF SlotsOK, Older
<1>6. Sorted(h)'
  <2>. SUFFICES ASSUME NEW d \in 1..Capacity, NEW e \in 1..Capacity, d < e,
                       Valid(Behind(h, d)'), Valid(Behind(h, e)')
                PROVE  \/ e = Capacity /\ Behind(h, e)'.hdr \in tried
                       \/ Behind(h, e)'.hdr.seq < Behind(h, d)'.hdr.seq
    BY DEF Sorted
  <2>1. d # Capacity
    BY <1>0
  <2>2. QED
    BY <1>1, <1>2, <1>3, <2>1 DEF SlotsOK, Sorted
<1>7. Stored(h)'
  BY <1>0, <1>1 DEF SlotsOK, Stored
<1>8. OldestKept(h)'
  BY <1>1, <1>2 DEF SlotsOK, OldestKept
<1>9. NothingBefore(h, q)'
  <2>. SUFFICES ASSUME ~dirty PROVE NothingBefore(h, q)'
    BY DEF NothingBefore
  <2>1. log = <<>> => \A d \in 1..Capacity : Valid(Behind(h, d)') =>
          d = Capacity /\ Behind(h, d)'.hdr \in tried
    BY <1>1, <1>2, <1>3 DEF SlotsOK, NothingBefore
  <2>2. ASSUME log # <<>>, Len(log) < Capacity, Valid(Behind(h, Len(log) + 1)')
        PROVE  Behind(h, Len(log) + 1)'.hdr.seq # q - (Len(log) + 1)
    <3>1. Len(log) + 1 \in 1..Capacity /\ Len(log) + 1 # 0
      BY <1>0, <2>2
    <3>2. CASE Len(log) + 1 # Capacity \/ s = slots[h]
      BY <1>1, <1>2, <1>3, <2>2, <3>1, <3>2 DEF SlotsOK, NothingBefore
    <3>3. CASE Len(log) + 1 = Capacity /\ s # slots[h]
      <4>1. s.hdr \in tried
        BY <1>1, <2>2, <3>3
      <4>2. s.hdr.seq = q
        BY <4>1 DEF SlotsOK, Numbered
      <4>3. QED
        BY <1>0, <1>1, <3>1, <3>3, <4>2
    <3>4. QED
      BY <3>2, <3>3
  <2>3. QED
    BY <2>1, <2>2 DEF NothingBefore
<1>10. QED
  BY <1>4, <1>5, <1>6, <1>7, <1>8, <1>9 DEF SlotsOK

(* An erase of any slot while a clear is under way. *)
LEMMA EraseKeeps ==
  ASSUME TypeOK, NEW h \in SlotIds, NEW q \in 0..(MaxSeq + 1), SlotsOK(h, q),
         dirty, log = <<>>,
         NEW i \in SlotIds, NEW s, slots' = [slots EXCEPT ![i] = s],
         s = slots[i] \/ ~Valid(s),
         UNCHANGED <<log, tried, dirty>>
  PROVE  SlotsOK(h, q)'
<1>0. Capacity \in Nat \ {0} /\ Len(log) = 0
  BY ConstantsAssumption
<1>1. \A d \in 1..Capacity :
        Valid(Behind(h, d)') => Behind(h, d)' = Behind(h, d)
  <2>1. \A d \in 1..Capacity : Back(h, d) \in SlotIds
    BY BackBijective
  <2>2. QED
    BY <2>1 DEF TypeOK, Behind
<1>2. Numbered(q)' /\ Older(h, q)' /\ Sorted(h)'
  BY <1>1 DEF SlotsOK, Numbered, Older, Sorted
<1>3. Stored(h)' /\ OldestKept(h)' /\ NothingBefore(h, q)'
  BY <1>0 DEF Stored, OldestKept, NothingBefore
<1>4. QED
  BY <1>2, <1>3 DEF SlotsOK

(* An append that begins. *)
LEMMA TriedKeeps ==
  ASSUME NEW h \in SlotIds, NEW q \in 0..MaxSeq, SlotsOK(h, q),
         NEW e, e.seq = q, tried' = tried \cup {e},
         UNCHANGED <<slots, log, dirty>>
  PROVE  SlotsOK(h, q)'
<1>0. q <= MaxSeq /\ tried' # {}
  BY ConstantsAssumption
<1>1. Numbered(q)'
  BY <1>0 DEF SlotsOK, Numbered
<1>2. Older(h, q)' /\ Sorted(h)'
  BY DEF SlotsOK, Older, Sorted, Behind
<1>3. Stored(h)' /\ OldestKept(h)'
  BY <1>0 DEF SlotsOK, Stored, OldestKept, Behind
<1>4. NothingBefore(h, q)'
  BY DEF SlotsOK, NothingBefore, Behind
<1>5. QED
  BY <1>1, <1>2, <1>3, <1>4 DEF SlotsOK

(* A clear that begins, and an empty ring. *)
LEMMA ClearKeeps ==
  ASSUME NEW h \in SlotIds, NEW q \in 0..(MaxSeq + 1), SlotsOK(h, q),
         log' = <<>>, dirty' = TRUE, UNCHANGED <<slots, tried>>
  PROVE  SlotsOK(h, q)'
<1>0. Len(log') = 0 /\ Capacity \in Nat \ {0} /\ q \in Nat
  BY ConstantsAssumption
<1>1. Numbered(q)'
  BY <1>0 DEF SlotsOK, Numbered
<1>2. Older(h, q)' /\ Sorted(h)'
  BY DEF SlotsOK, Older, Sorted, Behind
<1>3. Stored(h)' /\ OldestKept(h)' /\ NothingBefore(h, q)'
  BY <1>0 DEF Stored, OldestKept, NothingBefore
<1>4. QED
  BY <1>1, <1>2, <1>3 DEF SlotsOK

LEMMA EmptyIsOK ==
  (\A i \in SlotIds : ~Valid(slots[i])) /\ log = <<>> /\ tried = {}
    => SlotsOK(0, 0)
<1>. SUFFICES ASSUME \A i \in SlotIds : ~Valid(slots[i]), log = <<>>, tried = {}
              PROVE  SlotsOK(0, 0)
  OBVIOUS
<1>1. \A d \in 1..Capacity : ~Valid(Behind(0, d))
  BY SlotArithmetic DEF Behind
<1>2. Len(log) = 0 /\ Capacity \in Nat \ {0}
  BY ConstantsAssumption
<1>3. QED
  BY <1>1, <1>2 DEF SlotsOK, Numbered, Older, Sorted, Stored, OldestKept,
                    NothingBefore

LEMMA EmptyIsOKNext ==
  ((\A i \in SlotIds : ~Valid(slots[i])) /\ log = <<>> /\ tried = {})'
    => SlotsOK(0, 0)'
BY EmptyIsOK, PTL

(* An append that completes: its slot becomes the one before the new head. *)
LEMMA CommitKeeps ==
  ASSUME TypeOK, NEW h \in SlotIds, NEW q \in 0..MaxSeq, SlotsOK(h, q),
         NEW s, Valid(s), s.hdr \in tried, slots' = [slots EXCEPT ![h] = s],
         log' = Pushed(log, s.hdr), tried' = {}, dirty' = dirty
  PROVE  SlotsOK(After(h), q + 1)'
<1>. DEFINE a == After(h)
            e == s.hdr
            n == Len(Kept)
            m == Len(log)
<1>0. Capacity \in Nat \ {0} /\ log \in Seq(Header) /\ MaxSeq \in Nat
      /\ m \in 0..Capacity /\ m <= q /\ e \in Header /\ e.seq = q
  BY ConstantsAssumption DEF TypeOK, SlotsOK, Numbered, Valid
<1>1. /\ Kept \in Seq(Header) /\ n <= m /\ n < Capacity /\ n \in Nat
      /\ \A d \in 1..n : Kept[n + 1 - d] = log[m + 1 - d]
      /\ n + 1 < Capacity => n = m
  BY <1>0, KeptIs
<1>2. /\ log' \in Seq(Header) /\ Len(log') = n + 1
      /\ log'[n + 1] = e /\ \A i \in 1..n : log'[i] = Kept[i]
  <2>1. log' = Append(Kept, e)
    BY DEF Pushed, Kept
  <2>2. QED
    BY <1>0, <1>1, <2>1
<1>3. /\ Behind(a, 1)' = s
      /\ \A d \in 1..(Capacity - 1) : Behind(a, d + 1)' = Behind(h, d)
  <2>1. slots \in [SlotIds -> Slot]
    BY DEF TypeOK
  <2>2. Back(h, Capacity) = h /\ Back(h, 0) = h
    BY BackBijective
  <2>3. Back(a, 1) = h
    <3>1. 0 \in 0..(Capacity - 1) /\ 0 + 1 = 1
      BY <1>0
    <3>2. QED
      BY <2>2, <3>1, BackOfAfter
  <2>4. ASSUME NEW d \in 1..(Capacity - 1)
        PROVE  Back(a, d + 1) \in SlotIds \ {h} /\ Back(a, d + 1) = Back(h, d)
    <3>1. d \in 1..Capacity /\ Capacity \in 1..Capacity /\ d # Capacity
          /\ d \in 0..(Capacity - 1)
      BY <1>0
    <3>2. Back(h, d) \in SlotIds /\ Back(h, d) # h
      BY <2>2, <3>1, BackBijective
    <3>3. Back(a, d + 1) = Back(h, d)
      BY <3>1, BackOfAfter
    <3>4. QED
      BY <3>2, <3>3
  <2>. HIDE DEF a
  <2>5. QED
    BY <2>1, <2>3, <2>4 DEF Behind
<1>. HIDE DEF a, n, e
<1>4. \A d \in 1..Capacity : d = 1 \/ (d - 1 \in 1..(Capacity - 1)
                                       /\ Behind(a, d)' = Behind(h, d - 1))
  <2>. SUFFICES ASSUME NEW d \in 1..Capacity, d # 1
                PROVE  /\ d - 1 \in 1..(Capacity - 1)
                       /\ Behind(a, d)' = Behind(h, d - 1)
    OBVIOUS
  <2>1. d - 1 \in 1..(Capacity - 1) /\ (d - 1) + 1 = d
    BY <1>0
  <2>2. QED
    BY <1>3, <2>1
<1>5. Numbered(q + 1)'
  <2>. SUFFICES ASSUME NEW i \in 1..(n + 1)
                PROVE  log'[i].seq = (q + 1) - ((n + 1) - i + 1)
    BY <1>0, <1>1, <1>2 DEF Numbered
  <2>1. CASE i = n + 1
    BY <1>0, <1>1, <1>2, <2>1 DEF e
  <2>2. CASE i # n + 1
    <3>1. /\ n + 1 - i \in 1..n /\ n + 1 - (n + 1 - i) = i /\ i \in 1..n
          /\ m + 1 - (n + 1 - i) \in 1..m
          /\ m - (m + 1 - (n + 1 - i)) + 1 = n + 1 - i
      BY <1>0, <1>1, <2>2
    <3>2. log'[i] = log[m + 1 - (n + 1 - i)]
      BY <1>1, <1>2, <3>1
    <3>3. log[m + 1 - (n + 1 - i)].seq = q - (n + 1 - i)
      BY <3>1 DEF SlotsOK, Numbered
    <3>4. QED
      BY <1>0, <1>1, <3>2, <3>3
  <2>3. QED
    BY <2>1, <2>2
<1>6. \A d \in 1..(Capacity - 1) :
        Valid(Behind(h, d)) => Behind(h, d).hdr.seq < q
  BY <1>0 DEF SlotsOK, Older
<1>7. \A d \in 1..(Capacity - 1) :
        Valid(Behind(h, d)) => Behind(h, d).hdr.seq \in Nat
  BY ConstantsAssumption DEF Valid, Header, Seqs
<1>8. Older(a, q + 1)'
  BY <1>0, <1>3, <1>4, <1>6, <1>7 DEF Older, e
<1>9. Sorted(a)'
  <2>. SUFFICES ASSUME NEW d \in 1..Capacity, NEW f \in 1..Capacity, d < f,
                       Valid(Behind(a, d)'), Valid(Behind(a, f)')
                PROVE  Behind(a, f)'.hdr.seq < Behind(a, d)'.hdr.seq
    BY DEF Sorted
  <2>1. f # 1 /\ f - 1 \in 1..(Capacity - 1)
        /\ Behind(a, f)' = Behind(h, f - 1)
    BY <1>0, <1>4
  <2>2. CASE d = 1
    BY <1>0, <1>3, <1>6, <2>1, <2>2 DEF e
  <2>3. CASE d # 1
    <3>1. d - 1 \in 1..(Capacity - 1) /\ Behind(a, d)' = Behind(h, d - 1)
      BY <1>4, <2>3
    <3>2. d - 1 \in 1..Capacity /\ f - 1 \in 1..Capacity /\ d - 1 < f - 1
          /\ f - 1 # Capacity
      BY <1>0, <2>1, <3>1
    <3>3. QED
      BY <2>1, <3>1, <3>2 DEF SlotsOK, Sorted
  <2>4. QED
    BY <2>2, <2>3
<1>10. Stored(a)'
  <2>. SUFFICES ASSUME NEW d \in 1..(n + 1)
                PROVE  /\ Valid(Behind(a, d)')
                       /\ Behind(a, d)'.hdr = log'[n + 1 + 1 - d]
    BY <1>2 DEF Stored
  <2>1. CASE d = 1
    BY <1>1, <1>2, <1>3, <2>1 DEF e
  <2>2. CASE d # 1
    <3>1. /\ d \in 1..Capacity /\ d - 1 \in 1..n
          /\ d - 1 \in 1..m /\ d - 1 < Capacity
          /\ n + 1 + 1 - d = n + 1 - (d - 1) /\ n + 1 - (d - 1) \in 1..n
      BY <1>0, <1>1, <2>2
    <3>2. /\ Valid(Behind(h, d - 1))
          /\ Behind(h, d - 1).hdr = log[m + 1 - (d - 1)]
      BY <3>1 DEF SlotsOK, Stored
    <3>3. log'[n + 1 - (d - 1)] = log[m + 1 - (d - 1)]
      BY <1>1, <1>2, <3>1
    <3>4. Behind(a, d)' = Behind(h, d - 1)
      BY <1>4, <2>2, <3>1
    <3>5. QED
      BY <3>1, <3>2, <3>3, <3>4
  <2>3. QED
    BY <2>1, <2>2
<1>11. OldestKept(a)'
  <2>. SUFFICES ASSUME n + 1 = Capacity
                PROVE  Behind(a, Capacity)'.hdr = log'[1]
    BY <1>2 DEF OldestKept
  <2>1. Capacity \in 1..(n + 1) /\ n + 1 + 1 - Capacity = 1
    BY <1>0, <1>1
  <2>2. \A d \in 1..(n + 1) : Behind(a, d)'.hdr = log'[n + 1 + 1 - d]
    BY <1>2, <1>10 DEF Stored
  <2>3. QED
    BY <2>1, <2>2
<1>12. NothingBefore(a, q + 1)'
  <2>1. log' # <<>>
    BY <1>1, <1>2
  <2>2. ASSUME ~dirty, n + 1 < Capacity, NEW k, k = n + 1 + 1,
               Valid(Behind(a, k)')
        PROVE  Behind(a, k)'.hdr.seq # (q + 1) - k
    <3>1. /\ n = m /\ k \in 1..Capacity /\ k # 1 /\ k \in Nat
          /\ k - 1 = m + 1 /\ m + 1 # Capacity /\ m + 1 \in 1..Capacity
      BY <1>0, <1>1, <2>2
    <3>2. Behind(a, k)' = Behind(h, m + 1)
      BY <1>4, <3>1
    <3>3. log # <<>> /\ m < Capacity
      BY <1>0, <2>2, <3>1, <3>2 DEF SlotsOK, NothingBefore
    <3>4. Behind(h, m + 1).hdr.seq # q - (m + 1)
      BY <2>2, <3>2, <3>3 DEF SlotsOK, NothingBefore
    <3>5. q - (m + 1) = (q + 1) - k
      BY <1>0, <3>1
    <3>6. QED
      BY <3>2, <3>4, <3>5
  <2>3. QED
    BY <1>2, <2>1, <2>2 DEF NothingBefore, Behind
<1>13. QED
  BY <1>5, <1>8, <1>9, <1>10, <1>11, <1>12 DEF SlotsOK, a

-----------------------------------------------------------------------------
(* A recovery. *)

LEMMA NumbersOfSlots ==
  ASSUME NEW h \in SlotIds, NEW q \in 0..(MaxSeq + 1), SlotsOK(h, q),
         NEW i \in SlotIds, Valid(slots[i])
  PROVE  slots[i].hdr \in Header /\ slots[i].hdr.seq \in 0..MaxSeq
<1>1. slots[i].hdr \in Header /\ slots[i].hdr.seq \in Nat
  BY ConstantsAssumption DEF Valid, Header, Seqs
<1>2. PICK d \in 1..Capacity : i = Back(h, d)
  BY BackBijective
<1>3. slots[i].hdr \in tried \/ slots[i].hdr.seq < q
  BY <1>2 DEF SlotsOK, Older, Behind
<1>4. \A e \in tried : e.seq = q /\ q <= MaxSeq
  BY DEF SlotsOK, Numbered
<1>5. QED
  BY <1>1, <1>3, <1>4, ConstantsAssumption

(* Going back from the slot that the first pass chooses, numbers fall. *)
LEMMA NumbersFallFromBest ==
  ASSUME TypeOK, NEW h \in SlotIds, NEW q \in 0..(MaxSeq + 1), SlotsOK(h, q),
         NEW c \in SlotIds, Valid(slots[c]),
         \A i \in SlotIds :
           Valid(slots[i]) => slots[i].hdr.seq <= slots[c].hdr.seq,
         NEW j \in 0..(Capacity - 1), NEW k \in 0..(Capacity - 1), j < k,
         Valid(slots[Back(c, j)]), Valid(slots[Back(c, k)])
  PROVE  slots[Back(c, k)].hdr.seq < slots[Back(c, j)].hdr.seq
<1>. DEFINE seq(i) == slots[i].hdr.seq
<1>0. Capacity \in Nat \ {0}
  BY ConstantsAssumption
<1>1. PICK d \in 1..Capacity : c = Back(h, d)
  BY BackBijective
<1>2. Back(h, Capacity) = h
  BY BackBijective
<1>3. \A i \in SlotIds : Valid(slots[i]) => seq(i) \in Nat
  BY NumbersOfSlots
<1>4. ASSUME NEW e \in 1..Capacity, e < d PROVE
        \/ ~Valid(slots[Back(h, e)])
        \/ d = Capacity /\ slots[c].hdr \in tried
  <2>1. Back(h, e) \in SlotIds
    BY BackBijective
  <2>2. Valid(slots[Back(h, e)]) => seq(Back(h, e)) <= seq(c)
    BY <2>1
  <2>3. Valid(slots[Back(h, e)]) =>
          (d = Capacity /\ slots[c].hdr \in tried) \/ seq(c) < seq(Back(h, e))
    BY <1>1, <1>4 DEF SlotsOK, Sorted, Behind
  <2>4. QED
    BY <1>3, <2>1, <2>2, <2>3
<1>5. ASSUME NEW e \in 1..Capacity, NEW f \in 1..Capacity, e < f,
             Valid(slots[Back(h, e)]), Valid(slots[Back(h, f)])
      PROVE  seq(Back(h, f)) < seq(Back(h, e)) \/ f = Capacity
  BY <1>5 DEF SlotsOK, Sorted, Behind
<1>6. \A i \in 0..(Capacity - 1) :
        Back(c, i) = Back(h, IF i <= Capacity - d THEN d + i
                             ELSE d + i - Capacity)
  <2>. SUFFICES ASSUME NEW i \in 0..(Capacity - 1)
                PROVE  Back(c, i) = Back(h, IF i <= Capacity - d THEN d + i
                                            ELSE d + i - Capacity)
    OBVIOUS
  <2>1. CASE i <= Capacity - d
    <3>1. d \in 0..Capacity /\ i \in 0..Capacity /\ d + i <= Capacity
      BY <1>0, <2>1
    <3>2. QED
      BY <1>1, <2>1, <3>1, BackOfBack
  <2>2. CASE ~(i <= Capacity - d)
    <3>. DEFINE x == Capacity - d
                y == i - x
    <3>1. /\ d \in 0..Capacity /\ x \in 0..Capacity /\ y \in 0..Capacity
          /\ d + x = Capacity /\ d + x <= Capacity
          /\ x + y = i /\ x + y <= Capacity /\ y = d + i - Capacity
      BY <1>0, <2>2
    <3>. HIDE DEF x, y
    <3>2. Back(c, x) = h
      BY <1>1, <1>2, <3>1, BackOfBack
    <3>3. Back(Back(c, x), y) = Back(c, i)
      BY <3>1, BackOfBack
    <3>4. QED
      BY <2>2, <3>1, <3>2, <3>3
  <2>3. QED
    BY <2>1, <2>2
<1>7. Back(c, 0) = c
  BY BackBijective
<1>8. CASE d = Capacity /\ slots[c].hdr \in tried
  <2>1. c = h /\ slots[h].hdr \in tried
    BY <1>1, <1>2, <1>8
  <2>2. CASE j = 0
    <3>1. slots[h].hdr.seq = q
      BY <2>1 DEF SlotsOK, Numbered
    <3>2. k \in 1..Capacity /\ k # Capacity
      BY <1>0, <2>2
    <3>3. slots[Back(h, k)].hdr.seq < q
      BY <2>1, <3>2 DEF SlotsOK, Older, Behind
    <3>4. QED
      BY <1>7, <2>1, <2>2, <3>1, <3>3
  <2>3. CASE j # 0
    <3>1. k \in 1..Capacity /\ k # Capacity /\ j \in 1..Capacity
      BY <1>0, <2>3
    <3>2. QED
      BY <1>5, <2>1, <3>1
  <2>4. QED
    BY <2>2, <2>3
<1>9. CASE ~(d = Capacity /\ slots[c].hdr \in tried)
  <2>1. \A i \in 0..(Capacity - 1) : Valid(slots[Back(c, i)]) =>
          d + i \in 1..Capacity /\ Back(c, i) = Back(h, d + i)
    <3>. SUFFICES ASSUME NEW i \in 0..(Capacity - 1), ~(i <= Capacity - d)
                  PROVE  ~Valid(slots[Back(c, i)])
      BY <1>0, <1>6
    <3>1. d + i - Capacity \in 1..Capacity /\ d + i - Capacity < d
      BY <1>0
    <3>2. QED
      BY <1>4, <1>6, <1>9, <3>1
  <2>2. d + j \in 1..Capacity /\ d + k \in 1..Capacity /\ d + j < d + k
    BY <1>0, <2>1
  <2>3. Back(c, j) = Back(h, d + j) /\ Back(c, k) = Back(h, d + k)
    BY <2>1
  <2>4. CASE d + k = Capacity /\ slots[h].hdr \in tried
    <3>1. Back(c, k) = h /\ Valid(slots[h])
      BY <1>2, <2>3, <2>4
    <3>2. slots[h].hdr.seq = q
      BY <2>4 DEF SlotsOK, Numbered
    <3>3. d # Capacity
      BY <1>0, <2>2, <2>4
    <3>4. slots[c].hdr.seq < q
      BY <1>1, <3>3 DEF SlotsOK, Older, Behind
    <3>5. slots[h].hdr.seq <= slots[c].hdr.seq
      BY <3>1
    <3>6. QED
      BY <1>3, <3>1, <3>2, <3>4, <3>5
  <2>5. CASE ~(d + k = Capacity /\ slots[h].hdr \in tried)
    BY <1>2, <2>2, <2>3, <2>5 DEF SlotsOK, Sorted, Behind
  <2>6. QED
    BY <2>4, <2>5
<1>10. QED
  BY <1>8, <1>9

(* What the second pass has gone through, in numbers that do not wrap. *)
LEMMA RunIs ==
  ASSUME NoFaults, TypeOK, NEW h \in SlotIds, NEW q \in 0..(MaxSeq + 1),
         SlotsOK(h, q), NEW c \in SlotIds, Valid(slots[c])
  PROVE  LET n == RunLength({}, c)
             s == slots[c].hdr.seq
         IN /\ n \in 1..Capacity /\ n <= s + 1
            /\ \A k \in 0..(n - 1) : /\ Valid(slots[Back(c, k)])
                                     /\ slots[Back(c, k)].hdr.seq = s - k
            /\ n < Capacity /\ Valid(slots[Back(c, n)]) =>
                 slots[Back(c, n)].hdr.seq # s - n
<1>. DEFINE n == RunLength({}, c)
            s == slots[c].hdr.seq
<1>0. s \in 0..MaxSeq /\ Capacity \in Nat \ {0}
  BY NumbersOfSlots, ConstantsAssumption
<1>1. /\ n \in 0..Capacity
      /\ \A k \in 0..(n - 1) : Follows({}, c, k)
      /\ n < Capacity => ~Follows({}, c, n)
  BY RunLengthIsRun
<1>2. \A i \in SlotIds : Valid(slots[i]) => slots[i].hdr.seq <= MaxSeq
  BY NumbersOfSlots
<1>3. ASSUME NEW k \in 0..Capacity, k <= s + 1
      PROVE  Follows({}, c, k) <=>
               /\ Valid(slots[Back(c, k)])
               /\ slots[Back(c, k)].hdr.seq = s - k
  BY <1>2, <1>3, FollowsIs
<1>. HIDE DEF n
<1>4. n >= 1
  <2>1. Back(c, 0) = c
    BY BackBijective
  <2>2. Follows({}, c, 0)
    BY <1>0, <1>3, <2>1
  <2>3. QED
    BY <1>0, <1>1, <2>2
<1>5. n <= s + 1
  <2>. SUFFICES ASSUME n > s + 1 PROVE FALSE
    BY <1>0, <1>1
  <2>1. s + 1 \in 0..Capacity /\ s + 1 \in 0..(n - 1)
    BY <1>0, <1>1
  <2>2. Valid(slots[Back(c, s + 1)]) /\ slots[Back(c, s + 1)].hdr.seq = -1
    BY <1>0, <1>1, <1>3, <2>1
  <2>3. Back(c, s + 1) \in SlotIds
    BY <2>1, SlotArithmetic
  <2>4. slots[Back(c, s + 1)].hdr.seq \in 0..MaxSeq
    BY <2>2, <2>3, NumbersOfSlots
  <2>5. QED
    BY <1>0, <2>2, <2>4
<1>6. ASSUME NEW k \in 0..(n - 1)
      PROVE  /\ Valid(slots[Back(c, k)])
             /\ slots[Back(c, k)].hdr.seq = s - k
  <2>1. k \in 0..Capacity /\ k <= s + 1
    BY <1>0, <1>1, <1>5
  <2>2. QED
    BY <1>1, <1>3, <2>1
<1>7. n < Capacity /\ Valid(slots[Back(c, n)]) =>
        slots[Back(c, n)].hdr.seq # s - n
  BY <1>1, <1>3, <1>5
<1>8. QED
  BY <1>1, <1>4, <1>5, <1>6, <1>7 DEF n

(* A recovery that finds entries: the log is the run that it has found. *)
LEMMA RecoverKeeps ==
  ASSUME NoFaults, TypeOK, NEW h \in SlotIds, NEW q \in 0..(MaxSeq + 1),
         SlotsOK(h, q), NEW c \in SlotIds, Valid(slots[c]),
         \A i \in SlotIds :
           Valid(slots[i]) => slots[i].hdr.seq <= slots[c].hdr.seq,
         NEW n, n = RunLength({}, c),
         slots' = slots, log' = Run(c, n), tried' = {}
  PROVE  SlotsOK(After(c), slots[c].hdr.seq + 1)'
<1>. DEFINE a == After(c)
<1>0. Capacity \in Nat \ {0} /\ MaxSeq \in Nat
  BY ConstantsAssumption
<1>. PICK s \in 0..MaxSeq : s = slots[c].hdr.seq
  BY NumbersOfSlots
<1>1. /\ n \in 1..Capacity /\ n <= s + 1
      /\ \A k \in 0..(n - 1) : /\ Valid(slots[Back(c, k)])
                               /\ slots[Back(c, k)].hdr.seq = s - k
      /\ n < Capacity /\ Valid(slots[Back(c, n)]) =>
           slots[Back(c, n)].hdr.seq # s - n
  BY RunIs
<1>2. /\ Len(log') = n
      /\ \A i \in 1..n : log'[i] = slots[Back(c, n - i)].hdr
  BY <1>1 DEF Run
<1>3. \A d \in 1..Capacity : /\ d - 1 \in 0..(Capacity - 1)
                             /\ slots'[Back(a, d)] = slots[Back(c, d - 1)]
  <2>. SUFFICES ASSUME NEW d \in 1..Capacity
                PROVE  /\ d - 1 \in 0..(Capacity - 1)
                       /\ Back(a, d) = Back(c, d - 1)
    OBVIOUS
  <2>1. d - 1 \in 0..(Capacity - 1) /\ (d - 1) + 1 = d
    BY <1>0
  <2>2. QED
    BY <2>1, BackOfAfter
<1>4. Numbered(s + 1)'
  <2>1. ASSUME NEW i \in 1..n
        PROVE  log'[i].seq = (s + 1) - (n - i + 1)
    <3>1. n - i \in 0..(n - 1) /\ (s + 1) - (n - i + 1) = s - (n - i)
      BY <1>0, <1>1
    <3>2. slots[Back(c, n - i)].hdr.seq = s - (n - i)
      BY <1>1, <3>1
    <3>3. QED
      BY <1>2, <3>1, <3>2
  <2>2. n <= Capacity /\ n <= s + 1
    BY <1>0, <1>1
  <2>3. QED
    BY <1>2, <2>1, <2>2 DEF Numbered
<1>5. Older(a, s + 1)'
  <2>. SUFFICES ASSUME NEW d \in 1..Capacity, Valid(slots'[Back(a, d)])
                PROVE  slots'[Back(a, d)].hdr.seq < s + 1
    BY DEF Older, Behind
  <2>1. Back(c, d - 1) \in SlotIds
    BY <1>0, <1>3, SlotArithmetic
  <2>2. Valid(slots[Back(c, d - 1)])
    BY <1>3
  <2>3. /\ slots[Back(c, d - 1)].hdr.seq <= s
        /\ slots[Back(c, d - 1)].hdr.seq \in 0..MaxSeq
    BY <2>1, <2>2, NumbersOfSlots
  <2>4. QED
    BY <1>0, <1>3, <2>3
<1>6. Sorted(a)'
  <2>. SUFFICES ASSUME NEW d \in 1..Capacity, NEW e \in 1..Capacity, d < e,
                       Valid(slots'[Back(a, d)]), Valid(slots'[Back(a, e)])
                PROVE  slots'[Back(a, e)].hdr.seq < slots'[Back(a, d)].hdr.seq
    BY DEF Sorted, Behind
  <2>1. /\ d - 1 \in 0..(Capacity - 1)
        /\ slots'[Back(a, d)] = slots[Back(c, d - 1)]
    BY <1>3
  <2>2. /\ e - 1 \in 0..(Capacity - 1)
        /\ slots'[Back(a, e)] = slots[Back(c, e - 1)]
    BY <1>3
  <2>3. d - 1 < e - 1
    OBVIOUS
  <2>4. PICK j \in 0..(Capacity - 1), k \in 0..(Capacity - 1) :
               j = d - 1 /\ k = e - 1
    BY <2>1, <2>2
  <2>5. /\ j < k
        /\ slots'[Back(a, d)] = slots[Back(c, j)]
        /\ slots'[Back(a, e)] = slots[Back(c, k)]
    BY <2>1, <2>2, <2>3, <2>4
  <2>6. slots[Back(c, k)].hdr.seq < slots[Back(c, j)].hdr.seq
    BY <2>5, NumbersFallFromBest
  <2>7. QED
    BY <2>5, <2>6
<1>7. \A d \in 1..n : /\ Valid(slots'[Back(a, d)])
                      /\ slots'[Back(a, d)].hdr = log'[n + 1 - d]
  <2>. SUFFICES ASSUME NEW d \in 1..n
                PROVE  /\ Valid(slots'[Back(a, d)])
                       /\ slots'[Back(a, d)].hdr = log'[n + 1 - d]
    OBVIOUS
  <2>1. /\ d \in 1..Capacity /\ d - 1 \in 0..(n - 1)
        /\ n + 1 - d \in 1..n /\ n - (n + 1 - d) = d - 1
    BY <1>0, <1>1
  <2>2. slots'[Back(a, d)] = slots[Back(c, d - 1)]
    BY <1>3, <2>1
  <2>3. log'[n + 1 - d] = slots[Back(c, d - 1)].hdr
    BY <1>2, <2>1
  <2>4. QED
    BY <1>1, <2>1, <2>2, <2>3
<1>8. Stored(a)'
  BY <1>2, <1>7 DEF Stored, Behind
<1>9. OldestKept(a)'
  <2>. SUFFICES ASSUME n = Capacity
                PROVE  slots'[Back(a, Capacity)].hdr = log'[1]
    BY <1>2 DEF OldestKept, Behind
  <2>1. Capacity \in 1..n /\ n + 1 - Capacity = 1
    BY <1>0
  <2>2. QED
    BY <1>7, <2>1
<1>10. NothingBefore(a, s + 1)'
  <2>1. log' # <<>>
    BY <1>1, <1>2
  <2>2. ASSUME n < Capacity, Valid(slots'[Back(a, n + 1)])
        PROVE  slots'[Back(a, n + 1)].hdr.seq # (s + 1) - (n + 1)
    <3>1. n + 1 \in 1..Capacity /\ (n + 1) - 1 = n
          /\ (s + 1) - (n + 1) = s - n
      BY <1>0, <1>1, <2>2
    <3>2. slots'[Back(a, n + 1)] = slots[Back(c, n)]
      BY <1>3, <3>1
    <3>3. QED
      BY <1>1, <2>2, <3>1, <3>2
  <2>3. QED
    BY <1>2, <2>1, <2>2 DEF NothingBefore, Behind
<1>11. SlotsOK(a, s + 1)'
  BY <1>4, <1>5, <1>6, <1>8, <1>9, <1>10 DEF SlotsOK
<1>12. QED
  BY <1>11

-----------------------------------------------------------------------------
(* The inductive invariant. *)

(* The object is initialised, or a call that began when it was goes on. *)
InUse == ready \/ \E t \in Tasks : pc[t] # "idle"

MediumOK ==
  \E h \in SlotIds, q \in 0..(MaxSeq + 1) :
    SlotsOK(h, q) /\ (InUse => h = head_slot /\ q = head_seq)

(* The tail is where count and the head say. *)
TailOK ==
  InUse => /\ tail_slot = Back(head_slot, count)
           /\ ~dirty => count = Len(log)

(* What the writes of an append have done so far, and those of a clear. *)
WritesOK ==
  \A t \in Tasks :
    /\ pc[t] \in Appending =>
         /\ cursor.slot = head_slot
         /\ Entry(t) \in tried
         /\ pc[t] # "mark" => Target.commit = CLEAR
         /\ pc[t] \in {"payload", "commit"} => Target.hdr = Entry(t)
         /\ pc[t] = "commit" /\ buf[t] # Empty => Target.body = buf[t]
    /\ pc[t] = "erase" =>
         /\ dirty /\ log = <<>>
         /\ \A i \in SlotIds : i < cursor.slot => ~Valid(slots[i])

(* An iteration is remaining slots before the head, and has given out the  *)
(* entries of the slots before that.                                       *)
VisitOK ==
  \A t \in Tasks : pc[t] \in {"visit", "nested"} =>
    /\ cursor.remaining <= count
    /\ cursor.slot = Back(head_slot, cursor.remaining)
    /\ Len(seen) = count - cursor.remaining
    /\ \A i \in 1..Len(seen) :
         /\ Valid(Behind(head_slot, count - i + 1))
         /\ seen[i] = Behind(head_slot, count - i + 1).hdr

(* Only an append has an argument. *)
ArgumentsOK ==
  \A t \in Tasks :
    pc[t] \in (Waiting \cup Locked) \ ({"append"} \cup Appending) =>
      buf[t] = None

CallsOK == TailOK /\ WritesOK /\ VisitOK /\ ArgumentsOK

RInv == TInv /\ MediumOK /\ CallsOK

LEMMA LoneHolder ==
  ASSUME TInv, NEW t \in Tasks, pc[t] \in Locked,
         NEW u \in Tasks, pc[u] \in Locked
  PROVE  u = t /\ mutex = t
BY DEF TInv, MutexHeldOnlyInside

LEMMA BlankIsInvalid == ~Valid(Blank) /\ ~Valid(Foreign)
BY ConstantsAssumption DEF Valid, Blank, Foreign, ERASED, COMMIT

LEMMA InitRInv == Init => RInv
<1>. SUFFICES ASSUME Init PROVE RInv
  OBVIOUS
<1>1. \A i \in SlotIds : ~Valid(slots[i])
  BY BlankIsInvalid DEF Init
<1>2. SlotsOK(0, 0)
  BY <1>1, EmptyIsOK DEF Init
<1>3. 0 \in SlotIds /\ 0 \in 0..(MaxSeq + 1)
  BY SlotArithmetic, ConstantsAssumption
<1>4. ~InUse /\ MediumOK
  BY <1>2, <1>3 DEF Init, InUse, MediumOK
<1>5. CallsOK
  BY <1>4 DEF Init, CallsOK, TailOK, WritesOK, VisitOK, ArgumentsOK, Waiting,
              Locked, Appending
<1>6. QED
  BY <1>4, <1>5, InitTInv DEF RInv

(* A step that leaves the slots and the ghosts alone. *)
LEMMA MediumFrame ==
  ASSUME RInv, UNCHANGED <<slots, log, tried, dirty, head_slot, head_seq>>,
         InUse' => InUse
  PROVE  MediumOK'
<1>1. PICK h \in SlotIds, q \in 0..(MaxSeq + 1) :
             SlotsOK(h, q) /\ (InUse => h = head_slot /\ q = head_seq)
  BY DEF RInv, MediumOK
<1>2. SlotsOK(h, q)'
  BY <1>1, SlotsFrame
<1>3. InUse' => h = head_slot' /\ q = head_seq'
  BY <1>1
<1>4. QED
  BY <1>2, <1>3 DEF MediumOK

(* While a call is under way the invariant is about head_slot and head_seq. *)
LEMMA MediumInUse ==
  ASSUME RInv, InUse
  PROVE  /\ SlotsOK(head_slot, head_seq)
         /\ head_slot \in SlotIds /\ head_seq \in 0..(MaxSeq + 1)
BY DEF RInv, MediumOK

(* A step after which a call is under way. *)
LEMMA MediumFromHead ==
  ASSUME SlotsOK(head_slot, head_seq)',
         head_slot' \in SlotIds, head_seq' \in 0..(MaxSeq + 1)
  PROVE  MediumOK'
BY DEF MediumOK

LEMMA RingInitRInv ==
  ASSUME NoFaults, RInv, RingInit
  PROVE  MediumOK' /\ CallsOK'
<1>. DEFINE found == Candidates({})
            c == Best(found)
            n == RunLength({}, c)
<1>0. TypeOK /\ \A t \in Tasks : pc'[t] = "idle"
  BY DEF RInv, TInv, RingInit
<1>1. IF found = {}
      THEN /\ head_slot' = 0 /\ tail_slot' = 0
           /\ head_seq' = 0 /\ count' = 0
           /\ log' = <<>>
      ELSE /\ head_slot' = After(c)
           /\ tail_slot' = Back(After(c), n)
           /\ head_seq' = (slots[c].hdr.seq + 1) % SeqCount
           /\ count' = n
           /\ log' = Run(c, n)
  BY DEF RingInit, NoFaults
<1>2. slots' = slots /\ tried' = {} /\ dirty' = FALSE
  BY DEF RingInit
<1>3. WritesOK' /\ VisitOK' /\ ArgumentsOK'
  BY <1>0 DEF WritesOK, VisitOK, ArgumentsOK, Waiting, Locked, Appending
<1>4. CASE found = {}
  <2>1. \A i \in SlotIds : ~Valid(slots'[i])
    BY <1>2, <1>4 DEF Candidates
  <2>2. SlotsOK(0, 0)'
    BY <1>1, <1>2, <1>4, <2>1, EmptyIsOKNext
  <2>3. 0 \in SlotIds /\ 0 \in 0..(MaxSeq + 1) /\ Back(0, 0) = 0
    BY SlotArithmetic, BackBijective, ConstantsAssumption
  <2>4. MediumOK'
    BY <1>1, <1>4, <2>2, <2>3 DEF MediumOK
  <2>5. TailOK'
    BY <1>1, <1>4, <2>3 DEF TailOK
  <2>6. QED
    BY <1>3, <2>4, <2>5 DEF CallsOK
<1>5. CASE found # {}
  <2>1. PICK b \in SlotIds : /\ b = c /\ Valid(slots[b])
                             /\ \A j \in found : Beats(b, j)
    BY <1>5, CandidatesAreSlots, BestIsBest DEF Candidates
  <2>2. PICK h \in SlotIds, q \in 0..(MaxSeq + 1) : SlotsOK(h, q)
    BY DEF RInv, MediumOK
  <2>3. PICK s \in 0..MaxSeq : s = slots[b].hdr.seq
    BY <2>1, <2>2, NumbersOfSlots
  <2>4. \A i \in SlotIds : Valid(slots[i]) => slots[i].hdr.seq <= s
    <3>. SUFFICES ASSUME NEW i \in SlotIds, Valid(slots[i])
                  PROVE  slots[i].hdr.seq <= s
      OBVIOUS
    <3>1. slots[i].hdr.seq \in 0..MaxSeq
      BY <2>2, NumbersOfSlots
    <3>2. i \in found
      BY DEF Candidates
    <3>3. QED
      BY <2>1, <2>3, <3>1, <3>2 DEF Beats
  <2>5. head_seq' = s + 1 /\ s + 1 \in 0..(MaxSeq + 1)
    <3>1. s + 1 \in 0..(SeqCount - 1)
      BY ConstantsAssumption DEF NoFaults
    <3>2. (s + 1) % SeqCount = s + 1
      BY <3>1, ModSmall, ConstantsAssumption
    <3>3. head_seq' = (s + 1) % SeqCount
      BY <1>1, <1>5, <2>1, <2>3
    <3>4. QED
      BY <3>2, <3>3, ConstantsAssumption
  <2>6. After(b) \in SlotIds /\ head_slot' = After(b)
    BY <1>1, <1>5, <2>1, SlotArithmetic
  <2>7. PICK r : r = n /\ r = RunLength({}, b)
    BY <2>1
  <2>8. r \in 0..Capacity /\ Len(Run(b, r)) = r
    BY <2>7, RunLengthIsRun, ConstantsAssumption DEF Run
  <2>9. log' = Run(b, r) /\ count' = r /\ tail_slot' = Back(After(b), r)
    BY <1>1, <1>5, <2>1, <2>7
  <2>10. SlotsOK(After(b), slots[b].hdr.seq + 1)'
    BY <1>0, <1>2, <2>1, <2>2, <2>3, <2>4, <2>7, <2>9, RecoverKeeps
  <2>. HIDE DEF found, n, c
  <2>11. MediumOK'
    <3>1. SlotsOK(After(b), s + 1)'
      BY <1>2, <2>3, <2>10
    <3>2. QED
      BY <2>5, <2>6, <3>1 DEF MediumOK
  <2>12. TailOK'
    BY <2>6, <2>8, <2>9 DEF TailOK
  <2>13. QED
    BY <1>3, <2>11, <2>12 DEF CallsOK
<1>6. QED
  BY <1>4, <1>5

(* A step of t that leaves the medium and the indices alone, and after     *)
(* which t is not inside a call that holds the mutex.                      *)
LEMMA QuietStep ==
  ASSUME RInv, NEW t \in Tasks, InUse,
         UNCHANGED <<slots, log, tried, dirty, head_slot, head_seq>>,
         UNCHANGED <<tail_slot, count>>,
         pc'[t] \in {"idle"} \cup Waiting,
         pc'[t] \in Waiting \ {"append"} => buf'[t] = None,
         \A u \in Tasks : u # t => pc'[u] = pc[u] /\ buf'[u] = buf[u],
         \/ \A u \in Tasks : u # t => pc[u] \notin Locked
         \/ UNCHANGED <<cursor, seen>>
  PROVE  MediumOK' /\ CallsOK'
<1>1. MediumOK'
  BY MediumFrame
<1>2. TailOK'
  BY DEF RInv, CallsOK, TailOK
<1>3. pc'[t] \notin Locked
  BY DEF Waiting, Locked, Appending
<1>4. \A u \in Tasks : pc'[u] \in Locked =>
        /\ u # t /\ pc[u] = pc'[u] /\ buf'[u] = buf[u]
        /\ UNCHANGED <<cursor, seen>>
  BY <1>3
<1>5. WritesOK'
  <2>. SUFFICES ASSUME NEW u \in Tasks, pc'[u] \in Appending \cup {"erase"}
                PROVE  /\ pc[u] = pc'[u] /\ buf'[u] = buf[u] /\ cursor' = cursor
    BY DEF RInv, CallsOK, WritesOK, Entry, Target
  <2>1. QED
    BY <1>4 DEF Locked
<1>6. VisitOK'
  <2>. SUFFICES ASSUME NEW u \in Tasks, pc'[u] \in {"visit", "nested"}
                PROVE  /\ pc[u] = pc'[u] /\ UNCHANGED <<cursor, seen>>
    BY DEF RInv, CallsOK, VisitOK, Behind
  <2>1. QED
    BY <1>4 DEF Locked
<1>7. ArgumentsOK'
  BY <1>3 DEF RInv, CallsOK, ArgumentsOK, Waiting, Locked, Appending
<1>8. QED
  BY <1>1, <1>2, <1>5, <1>6, <1>7 DEF CallsOK

LEMMA CallRInv ==
  ASSUME RInv, NEW t \in Tasks, Call(t)
  PROVE  MediumOK' /\ CallsOK'
<1>1. PICK call, arg : /\ call \in Waiting /\ Enter(t, call, arg)
                       /\ call # "append" => arg = None
  BY DEF Call, CallAppend, CallPeek, CallIterate, CallClear, Waiting
<1>2. /\ ready /\ pc'[t] = call /\ buf'[t] = arg
      /\ \A u \in Tasks : u # t => pc'[u] = pc[u] /\ buf'[u] = buf[u]
      /\ UNCHANGED <<slots, object, cursor, seen, ghosts>>
  BY <1>1 DEF Enter, RInv, TInv, TypeOK
<1>3. QED
  BY <1>1, <1>2, QuietStep DEF InUse, object, ghosts

LEMMA TimeoutRInv ==
  ASSUME RInv, NEW t \in Tasks, Timeout(t)
  PROVE  MediumOK' /\ CallsOK'
<1>1. /\ pc'[t] = "idle" /\ pc[t] # "idle"
      /\ \A u \in Tasks : u # t => pc'[u] = pc[u] /\ buf'[u] = buf[u]
      /\ UNCHANGED <<slots, object, cursor, seen, ghosts>>
  BY DEF Timeout, RInv, TInv, TypeOK, Waiting
<1>2. QED
  BY <1>1, QuietStep DEF InUse, object, ghosts, Waiting

LEMMA PeekRInv ==
  ASSUME RInv, NEW t \in Tasks, pc[t] # "idle", NEW i, PeekSlot(t, i)
  PROVE  MediumOK' /\ CallsOK'
<1>1. /\ pc'[t] = "idle"
      /\ \A u \in Tasks : u # t => pc'[u] = pc[u] /\ buf'[u] = buf[u]
      /\ UNCHANGED <<slots, object, cursor, seen, ghosts>>
  BY DEF PeekSlot, RInv, TInv, TypeOK
<1>2. QED
  BY <1>1, QuietStep DEF InUse, object, ghosts, Waiting

LEMMA EndIterateRInv ==
  ASSUME RInv, NEW t \in Tasks, EndIterate(t)
  PROVE  MediumOK' /\ CallsOK'
<1>1. /\ pc[t] = "visit" /\ pc'[t] = "idle"
      /\ \A u \in Tasks : u # t => pc'[u] = pc[u] /\ buf'[u] = buf[u]
      /\ UNCHANGED <<slots, object, ghosts>>
  BY DEF EndIterate, Unlock, RInv, TInv, TypeOK
<1>2. \A u \in Tasks : u # t => pc[u] \notin Locked
  BY <1>1, LoneHolder DEF RInv, Locked
<1>3. QED
  BY <1>1, <1>2, QuietStep DEF InUse, object, ghosts, Waiting

(* A task takes the mutex: nobody else is inside a call that holds it. *)
LEMMA LockRInv ==
  ASSUME RInv, NEW t \in Tasks, NEW from \in Waiting, NEW to \in Locked,
         Lock(t, from, to), UNCHANGED buf,
         to \notin Appending => from # "append"
  PROVE  /\ InUse /\ pc'[t] = to
         /\ \A u \in Tasks : u # t => pc'[u] = pc[u] /\ pc'[u] \notin Locked
         /\ ArgumentsOK'
<1>1. /\ pc[t] = from /\ mutex = None /\ pc'[t] = to
      /\ \A u \in Tasks : u # t => pc'[u] = pc[u]
  BY DEF Lock, RInv, TInv, TypeOK
<1>2. \A u \in Tasks : pc[u] \notin Locked
  BY <1>1, ConstantsAssumption DEF RInv, TInv, MutexHeldOnlyInside
<1>3. InUse
  BY <1>1 DEF InUse, Waiting
<1>4. ArgumentsOK'
  BY <1>1 DEF RInv, CallsOK, ArgumentsOK, Waiting, Locked, Appending
<1>5. QED
  BY <1>1, <1>2, <1>3, <1>4

LEMMA LockAppendRInv ==
  ASSUME RInv, NEW t \in Tasks, LockAppend(t)
  PROVE  MediumOK' /\ CallsOK'
<1>1. /\ InUse /\ pc'[t] = "mark"
      /\ \A u \in Tasks : u # t => pc'[u] = pc[u] /\ pc'[u] \notin Locked
      /\ ArgumentsOK'
  BY LockRInv DEF LockAppend, Waiting, Locked, Appending
<1>2. /\ UNCHANGED <<slots, object, buf, seen, log, dirty>>
      /\ head_seq <= MaxSeq /\ tried' = tried \cup {Entry(t)}
      /\ cursor'.slot = head_slot
  BY DEF LockAppend, RInv, TInv, TypeOK
<1>3. /\ SlotsOK(head_slot, head_seq)
      /\ head_slot \in SlotIds /\ head_seq \in 0..MaxSeq
  BY <1>1, <1>2, MediumInUse, ConstantsAssumption
<1>4. MediumOK'
  <2>1. PICK h \in SlotIds, q \in 0..MaxSeq :
               h = head_slot /\ q = head_seq /\ SlotsOK(h, q)
    BY <1>3
  <2>2. Entry(t).seq = q
    BY <2>1 DEF Entry
  <2>3. SlotsOK(h, q)'
    BY <1>2, <2>1, <2>2, TriedKeeps DEF Entry
  <2>4. h = head_slot' /\ q = head_seq' /\ q \in 0..(MaxSeq + 1)
    BY <1>2, <2>1, ConstantsAssumption DEF object
  <2>5. QED
    BY <2>3, <2>4 DEF MediumOK
<1>5. TailOK'
  BY <1>1, <1>2 DEF RInv, CallsOK, TailOK, object
<1>6. WritesOK'
  <2>1. Entry(t)' \in tried'
    BY <1>2 DEF Entry, object
  <2>2. QED
    BY <1>1, <1>2, <2>1 DEF WritesOK, object, Locked, Appending
<1>7. VisitOK'
  BY <1>1 DEF VisitOK, Locked
<1>8. QED
  BY <1>1, <1>4, <1>5, <1>6, <1>7 DEF CallsOK

LEMMA LockIterateRInv ==
  ASSUME RInv, NEW t \in Tasks, LockIterate(t)
  PROVE  MediumOK' /\ CallsOK'
<1>1. /\ InUse /\ pc'[t] = "visit"
      /\ \A u \in Tasks : u # t => pc'[u] = pc[u] /\ pc'[u] \notin Locked
      /\ ArgumentsOK'
  BY LockRInv DEF LockIterate, Waiting, Locked, Appending
<1>2. /\ UNCHANGED <<slots, object, ghosts>>
      /\ cursor' = [slot |-> tail_slot, remaining |-> count] /\ seen' = <<>>
  BY DEF LockIterate
<1>3. MediumOK'
  BY <1>1, <1>2, MediumFrame DEF object, ghosts
<1>4. TailOK'
  BY <1>1, <1>2 DEF RInv, CallsOK, TailOK, object, ghosts
<1>5. WritesOK'
  BY <1>1 DEF WritesOK, Locked, Appending
<1>6. VisitOK'
  <2>1. count \in Nat /\ tail_slot = Back(head_slot, count)
    BY <1>1, ConstantsAssumption DEF RInv, CallsOK, TailOK, TInv, TypeOK
  <2>2. Len(seen') = 0
    BY <1>2
  <2>3. QED
    BY <1>1, <1>2, <2>1, <2>2 DEF VisitOK, Locked, object
<1>7. QED
  BY <1>1, <1>3, <1>4, <1>5, <1>6 DEF CallsOK

LEMMA LockClearRInv ==
  ASSUME RInv, NEW t \in Tasks, LockClear(t)
  PROVE  MediumOK' /\ CallsOK'
<1>1. /\ InUse /\ pc'[t] = "erase"
      /\ \A u \in Tasks : u # t => pc'[u] = pc[u] /\ pc'[u] \notin Locked
      /\ ArgumentsOK'
  BY LockRInv DEF LockClear, Waiting, Locked, Appending
<1>2. /\ UNCHANGED <<slots, object, tried>>
      /\ log' = <<>> /\ dirty' = TRUE /\ cursor'.slot = 0
  BY DEF LockClear, RInv, TInv, TypeOK
<1>3. MediumOK'
  <2>1. PICK h \in SlotIds, q \in 0..(MaxSeq + 1) :
               h = head_slot /\ q = head_seq /\ SlotsOK(h, q)
    BY <1>1, MediumInUse
  <2>2. SlotsOK(h, q)'
    BY <1>2, <2>1, ClearKeeps
  <2>3. QED
    BY <1>2, <2>1, <2>2 DEF MediumOK, object
<1>4. TailOK'
  BY <1>1, <1>2 DEF RInv, CallsOK, TailOK, object
<1>5. WritesOK'
  <2>1. \A i \in SlotIds : ~(i < 0)
    BY ConstantsAssumption DEF SlotIds
  <2>2. QED
    BY <1>1, <1>2, <2>1 DEF WritesOK, Locked, Appending
<1>6. VisitOK'
  BY <1>1 DEF VisitOK, Locked
<1>7. QED
  BY <1>1, <1>3, <1>4, <1>5, <1>6 DEF CallsOK

(* What a write of an append leaves in the head slot, complete or cut, is  *)
(* invalid or carries the entry.                                           *)
LEMMA WrittenIsTried ==
  ASSUME RInv, NEW t \in Tasks, pc[t] \in Appending, NEW s \in Cut(t)
  PROVE  s = slots[head_slot] \/ ~Valid(s) \/ s.hdr \in tried
<1>1. /\ cursor.slot = head_slot
      /\ Entry(t) \in tried
      /\ pc[t] # "mark" => Target.commit = CLEAR
      /\ pc[t] \in {"payload", "commit"} => Target.hdr = Entry(t)
  BY DEF RInv, CallsOK, WritesOK
<1>2. Target \in Slot
  BY DEF RInv, TInv, TypeOK, Target
<1>3. CASE pc[t] = "mark"
  BY <1>1, <1>2, <1>3 DEF Cut, Written, Slot, Target, Valid, CLEAR, COMMIT
<1>4. CASE pc[t] = "header"
  BY <1>1, <1>2, <1>4 DEF Cut, Written, Slot, Target, Valid, CLEAR, COMMIT
<1>5. CASE pc[t] = "payload"
  BY <1>1, <1>2, <1>5 DEF Cut, Written, Slot, Target, Valid, CLEAR, COMMIT
<1>6. CASE pc[t] = "commit"
  BY <1>1, <1>2, <1>6 DEF Cut, Written, Slot, Target
<1>7. QED
  BY <1>3, <1>4, <1>5, <1>6 DEF Appending

(* And what an erase leaves is invalid or what was there. *)
LEMMA ErasedIsInvalid ==
  ASSUME RInv, NEW t \in Tasks, pc[t] = "erase", NEW s \in Cut(t)
  PROVE  s = slots[cursor.slot] \/ ~Valid(s)
<1>1. Target \in Slot
  BY DEF RInv, TInv, TypeOK, Target
<1>2. ~Valid([Target EXCEPT !.hdr = Garbage])
  BY <1>1, ConstantsAssumption DEF Valid, Slot
<1>3. QED
  BY <1>2, BlankIsInvalid DEF Cut, Written, Target

(* A write under way, complete or cut, keeps the slots in order. *)
LEMMA CutKeeps ==
  ASSUME RInv, NEW t \in Tasks, pc[t] \in Appending \cup {"erase"},
         NEW s \in Cut(t), slots' = [slots EXCEPT ![cursor.slot] = s],
         UNCHANGED ghosts,
         NEW h \in SlotIds, NEW q \in 0..(MaxSeq + 1),
         h = head_slot, q = head_seq
  PROVE  SlotsOK(h, q)'
<1>1. InUse
  BY DEF InUse, Appending
<1>2. SlotsOK(h, q)
  BY <1>1, MediumInUse
<1>3. CASE pc[t] = "erase"
  <2>1. dirty /\ log = <<>> /\ cursor.slot \in SlotIds
    BY <1>3 DEF RInv, TInv, TypeOK, CallsOK, WritesOK
  <2>2. PICK i \in SlotIds : i = cursor.slot
    BY <2>1
  <2>3. s = slots[i] \/ ~Valid(s)
    BY <1>3, <2>2, ErasedIsInvalid
  <2>4. TypeOK /\ slots' = [slots EXCEPT ![i] = s]
        /\ UNCHANGED <<log, tried, dirty>>
    BY <2>2 DEF RInv, TInv, ghosts
  <2>5. QED
    BY <1>2, <2>1, <2>3, <2>4, EraseKeeps
<1>4. CASE pc[t] \in Appending
  <2>1. cursor.slot = h /\ tried # {}
    BY <1>4 DEF RInv, CallsOK, WritesOK
  <2>2. s = slots[h] \/ ~Valid(s) \/ s.hdr \in tried
    BY <1>4, WrittenIsTried
  <2>3. TypeOK /\ slots' = [slots EXCEPT ![h] = s]
        /\ UNCHANGED <<log, tried, dirty>>
    BY <2>1 DEF RInv, TInv, ghosts
  <2>4. QED
    BY <1>2, <2>1, <2>2, <2>3, HeadWriteKeeps
<1>5. QED
  BY <1>3, <1>4

LEMMA WriteStepRInv ==
  ASSUME RInv, NEW t \in Tasks,
         ClearCommit(t) \/ WriteHeader(t) \/ WritePayload(t)
  PROVE  MediumOK' /\ CallsOK'
<1>1. /\ pc[t] \in Appending /\ pc'[t] \in Appending
      /\ \A u \in Tasks : u # t => pc'[u] = pc[u]
      /\ slots' = [slots EXCEPT ![cursor.slot] = Written(t)]
      /\ UNCHANGED <<object, mutex, buf, cursor, seen, ghosts>>
  BY DEF ClearCommit, WriteHeader, WritePayload, WriteStep, Appending, RInv,
         TInv, TypeOK
<1>2. /\ InUse
      /\ \A u \in Tasks : u # t => pc'[u] = pc[u] /\ pc[u] \notin Locked
  BY <1>1, LoneHolder DEF RInv, Locked, InUse, Appending
<1>3. MediumOK'
  <2>1. PICK h \in SlotIds, q \in 0..(MaxSeq + 1) :
               h = head_slot /\ q = head_seq
    BY <1>2, MediumInUse
  <2>2. Written(t) \in Cut(t)
    BY DEF Cut
  <2>3. SlotsOK(h, q)'
    BY <1>1, <2>1, <2>2, CutKeeps
  <2>4. h = head_slot' /\ q = head_seq'
    BY <1>1, <2>1 DEF object
  <2>5. QED
    BY <2>3, <2>4 DEF MediumOK
<1>4. TailOK'
  BY <1>1, <1>2 DEF RInv, CallsOK, TailOK, object, ghosts
<1>5. WritesOK'
  <2>1. Target \in Slot /\ Target' = Written(t)
    BY <1>1 DEF RInv, TInv, TypeOK, Target
  <2>2. /\ cursor.slot = head_slot
        /\ Entry(t) \in tried
        /\ pc[t] # "mark" => Target.commit = CLEAR
        /\ pc[t] \in {"payload", "commit"} => Target.hdr = Entry(t)
    BY <1>1 DEF RInv, CallsOK, WritesOK
  <2>3. Entry(t)' = Entry(t)
    BY <1>1 DEF Entry, object
  <2>4. CASE ClearCommit(t)
    <3>1. pc[t] = "mark" /\ pc'[t] = "header"
      BY <2>4 DEF ClearCommit, WriteStep, RInv, TInv, TypeOK
    <3>2. Written(t).commit = CLEAR
      BY <2>1, <3>1 DEF Written, Slot
    <3>3. QED
      BY <1>1, <1>2, <2>1, <2>2, <2>3, <3>1, <3>2
         DEF WritesOK, object, ghosts, Locked, Appending
  <2>5. CASE WriteHeader(t)
    <3>1. /\ pc[t] = "header"
          /\ pc'[t] = IF buf[t] = Empty THEN "commit" ELSE "payload"
      BY <2>5 DEF WriteHeader, WriteStep, RInv, TInv, TypeOK
    <3>2. Written(t).commit = CLEAR /\ Written(t).hdr = Entry(t)
      BY <2>1, <2>2, <3>1 DEF Written, Slot
    <3>3. QED
      BY <1>1, <1>2, <2>1, <2>2, <2>3, <3>1, <3>2
         DEF WritesOK, object, ghosts, Locked, Appending
  <2>6. CASE WritePayload(t)
    <3>1. pc[t] = "payload" /\ pc'[t] = "commit"
      BY <2>6 DEF WritePayload, WriteStep, RInv, TInv, TypeOK
    <3>2. /\ Written(t).commit = CLEAR /\ Written(t).hdr = Entry(t)
          /\ Written(t).body = buf[t]
      BY <2>1, <2>2, <3>1 DEF Written, Slot
    <3>3. QED
      BY <1>1, <1>2, <2>1, <2>2, <2>3, <3>1, <3>2
         DEF WritesOK, object, ghosts, Locked, Appending
  <2>7. QED
    BY <2>4, <2>5, <2>6
<1>6. VisitOK'
  BY <1>1, <1>2 DEF VisitOK, Locked, Appending
<1>7. ArgumentsOK'
  BY <1>1, <1>2 DEF RInv, CallsOK, ArgumentsOK
<1>8. QED
  BY <1>3, <1>4, <1>5, <1>6, <1>7 DEF CallsOK

LEMMA WriteCommitRInv ==
  ASSUME NoFaults, RInv, NEW t \in Tasks, WriteCommit(t)
  PROVE  MediumOK' /\ CallsOK'
<1>1. /\ pc[t] = "commit" /\ pc'[t] = "idle"
      /\ \A u \in Tasks : u # t => pc'[u] = pc[u] /\ buf'[u] = buf[u]
  BY DEF WriteCommit, Unlock, RInv, TInv, TypeOK
<1>2. \A u \in Tasks : u # t => pc'[u] = pc[u] /\ pc[u] \notin Locked
  BY <1>1, LoneHolder DEF RInv, Locked, Appending
<1>3. InUse
  BY <1>1 DEF InUse
<1>4. WritesOK' /\ VisitOK'
  BY <1>1, <1>2 DEF WritesOK, VisitOK, Locked, Appending
<1>5. ArgumentsOK'
  BY <1>1, <1>2
     DEF RInv, CallsOK, ArgumentsOK, Waiting, Locked, Appending
<1>6. PICK h \in SlotIds, q \in 0..(MaxSeq + 1) :
             h = head_slot /\ q = head_seq /\ SlotsOK(h, q)
  BY <1>3, MediumInUse
<1>7. /\ cursor.slot = h /\ Entry(t) \in tried
      /\ Target.hdr = Entry(t)
      /\ buf[t] # Empty => Target.body = buf[t]
  BY <1>1, <1>6 DEF RInv, CallsOK, WritesOK, Appending
<1>8. /\ Target \in Slot /\ Entry(t) \in Header /\ buf[t] \in Payloads
      /\ log \in Seq(Header) /\ TypeOK
  BY <1>1, EntryType
     DEF RInv, TInv, TypeOK, Target, AppendsCarryPayloads, Appending
<1>9. q \in 0..MaxSeq
  BY <1>6, <1>7, ConstantsAssumption DEF SlotsOK, Numbered
<1>10. PICK s : s = Written(t)
  OBVIOUS
<1>11. Valid(s) /\ s.hdr = Entry(t)
  <2>1. s = [Target EXCEPT !.commit = COMMIT]
    BY <1>1, <1>10 DEF Written
  <2>2. s.commit = COMMIT /\ s.hdr = Entry(t) /\ s.body = Target.body
    BY <1>7, <1>8, <2>1 DEF Slot
  <2>3. Entry(t).payload = buf[t]
    BY DEF Entry
  <2>4. QED
    BY <1>7, <1>8, <2>2, <2>3 DEF Valid
<1>12. /\ slots' = [slots EXCEPT ![h] = s] /\ log' = Pushed(log, s.hdr)
       /\ tried' = {} /\ dirty' = dirty
       /\ head_slot' = After(h) /\ head_seq' = q + 1
  <2>1. q + 1 \in 0..(SeqCount - 1)
    BY <1>9, ConstantsAssumption DEF NoFaults
  <2>2. (q + 1) % SeqCount = q + 1
    BY <2>1, ModSmall, ConstantsAssumption
  <2>3. QED
    BY <1>6, <1>7, <1>10, <1>11, <2>2 DEF WriteCommit, NextHead, NextSeq
<1>13. SlotsOK(After(h), q + 1)'
  BY <1>6, <1>7, <1>8, <1>9, <1>11, <1>12, CommitKeeps
<1>14. MediumOK'
  <2>1. After(h) \in SlotIds /\ q + 1 \in 0..(MaxSeq + 1)
    BY <1>9, SlotArithmetic, ConstantsAssumption
  <2>2. QED
    BY <1>12, <1>13, <2>1 DEF MediumOK
<1>15. TailOK'
  <2>1. /\ tail_slot = Back(h, count) /\ (~dirty => count = Len(log))
        /\ count \in 0..Capacity /\ Capacity \in Nat \ {0}
    BY <1>3, <1>6, <1>8, ConstantsAssumption DEF RInv, CallsOK, TailOK, TypeOK
  <2>2. tail_slot' = NextTail /\ count' = NextCount
    BY DEF WriteCommit
  <2>3. Len(log) <= Capacity
    BY <1>6 DEF SlotsOK, Numbered
  <2>4. CASE count < Capacity
    <3>1. tail_slot' = Back(h, count) /\ count' = count + 1
      BY <2>1, <2>2, <2>4 DEF NextTail, NextCount
    <3>2. count \in 0..(Capacity - 1)
      BY <2>1, <2>4
    <3>3. Back(After(h), count + 1) = Back(h, count)
      BY <3>2, BackOfAfter
    <3>4. ~dirty => Len(log') = count'
      BY <1>8, <1>11, <1>12, <2>1, <2>4, <3>1 DEF Pushed
    <3>5. QED
      BY <1>12, <3>1, <3>3, <3>4 DEF TailOK
  <2>5. CASE count = Capacity
    <3>1. tail_slot' = After(h) /\ count' = Capacity
      BY <2>1, <2>2, <2>5, BackBijective DEF NextTail, NextCount
    <3>2. Back(After(h), Capacity) = After(h)
      BY SlotArithmetic, BackBijective
    <3>3. ~dirty => Len(log') = Capacity
      <4>1. SUFFICES ASSUME ~dirty PROVE Len(log') = Capacity
        OBVIOUS
      <4>2. Len(log) = Capacity /\ log # <<>>
        BY <2>1, <2>5, <4>1
      <4>3. Tail(log) \in Seq(Header) /\ Len(Tail(log)) = Capacity - 1
        BY <1>8, <4>2
      <4>4. log' = Append(Tail(log), Entry(t))
        BY <1>11, <1>12, <2>1, <4>2 DEF Pushed
      <4>5. QED
        BY <1>8, <2>1, <4>3, <4>4
    <3>4. QED
      BY <1>12, <3>1, <3>2, <3>3 DEF TailOK
  <2>6. QED
    BY <2>1, <2>4, <2>5
<1>16. QED
  BY <1>4, <1>5, <1>14, <1>15 DEF CallsOK

LEMMA AfterOfBack ==
  ASSUME NEW h \in SlotIds, NEW k \in 1..Capacity
  PROVE  After(Back(h, k)) = Back(h, k - 1)
<1>1. Back(h, k) \in SlotIds /\ k \in 0..Capacity /\ k - 1 \in 0..Capacity
  BY SlotArithmetic, ConstantsAssumption
<1>2. Back(h, k) = IF k <= h THEN h - k ELSE h + Capacity - k
  BY <1>1, BackIs
<1>3. Back(h, k - 1)
        = IF k - 1 <= h THEN h - (k - 1) ELSE h + Capacity - (k - 1)
  BY <1>1, BackIs
<1>4. After(Back(h, k))
        = IF Back(h, k) = Capacity - 1 THEN 0 ELSE Back(h, k) + 1
  BY <1>1, AfterIs
<1>5. QED
  BY <1>1, <1>2, <1>3, <1>4, ConstantsAssumption DEF SlotIds

LEMMA VisitRInv ==
  ASSUME RInv, NEW t \in Tasks, Visit(t)
  PROVE  MediumOK' /\ CallsOK'
<1>1. /\ pc[t] = "visit" /\ pc'[t] \in {"visit", "nested"}
      /\ \A u \in Tasks : u # t => pc'[u] = pc[u]
      /\ UNCHANGED <<slots, object, mutex, buf, ghosts>>
  BY DEF Visit, RInv, TInv, TypeOK
<1>2. /\ InUse
      /\ \A u \in Tasks : u # t => pc'[u] = pc[u] /\ pc[u] \notin Locked
  BY <1>1, LoneHolder DEF RInv, Locked, InUse
<1>3. MediumOK'
  BY <1>1, <1>2, MediumFrame DEF object, ghosts
<1>4. TailOK'
  BY <1>1, <1>2 DEF RInv, CallsOK, TailOK, object, ghosts
<1>5. WritesOK'
  BY <1>1, <1>2 DEF WritesOK, Locked, Appending
<1>6. VisitOK'
  <2>1. /\ count \in 0..Capacity /\ cursor.remaining \in 0..Capacity
        /\ head_slot \in SlotIds /\ seen \in Seq(Header)
        /\ Capacity \in Nat \ {0}
    BY ConstantsAssumption DEF RInv, TInv, TypeOK
  <2>2. PICK h \in SlotIds, n \in 0..Capacity, r \in 0..Capacity :
               h = head_slot /\ n = count /\ r = cursor.remaining
    BY <2>1
  <2>3. /\ r <= n /\ cursor.slot = Back(h, r) /\ Len(seen) = n - r
        /\ \A i \in 1..Len(seen) :
             /\ Valid(Behind(h, n - i + 1))
             /\ seen[i] = Behind(h, n - i + 1).hdr
    BY <1>1, <2>2 DEF RInv, CallsOK, VisitOK
  <2>4. /\ r > 0 /\ Valid(Target) /\ seen' = Append(seen, Target.hdr)
        /\ cursor' = [slot |-> After(cursor.slot), remaining |-> r - 1]
    BY <2>2 DEF Visit
  <2>5. r \in 1..Capacity /\ cursor'.slot = Back(h, r - 1)
        /\ cursor'.remaining = r - 1
    BY <2>1, <2>3, <2>4, AfterOfBack
  <2>6. Target = Behind(h, r) /\ Target.hdr \in Header
    BY <2>3, <2>4 DEF Target, Behind, Valid
  <2>7. /\ Len(seen') = n - (r - 1) /\ seen'[n - r + 1] = Target.hdr
        /\ \A i \in 1..(n - r) : seen'[i] = seen[i]
    BY <2>1, <2>3, <2>4, <2>6
  <2>8. ASSUME NEW i \in 1..Len(seen')
        PROVE  /\ Valid(Behind(h, n - i + 1))
               /\ seen'[i] = Behind(h, n - i + 1).hdr
    <3>1. CASE i = n - r + 1
      <4>1. n - i + 1 = r
        BY <2>1, <3>1
      <4>2. QED
        BY <2>4, <2>6, <2>7, <3>1, <4>1
    <3>2. CASE i # n - r + 1
      <4>1. i \in 1..(n - r)
        BY <2>1, <2>7, <3>2
      <4>2. QED
        BY <2>3, <2>7, <4>1
    <3>3. QED
      BY <3>1, <3>2
  <2>9. \A i : Behind(h, i)' = Behind(h, i)
    BY <1>1 DEF Behind
  <2>10. head_slot' = h /\ count' = n
    BY <1>1, <2>2 DEF object
  <2>11. /\ r - 1 <= n
         /\ \A i \in 1..Len(seen') :
              /\ Valid(slots'[Back(h, n - i + 1)])
              /\ seen'[i] = slots'[Back(h, n - i + 1)].hdr
    BY <1>1, <2>3, <2>8 DEF Behind
  <2>12. QED
    BY <1>2, <2>5, <2>7, <2>10, <2>11 DEF VisitOK, Behind, Locked
<1>7. ArgumentsOK'
  BY <1>1, <1>2 DEF RInv, CallsOK, ArgumentsOK, Locked, Appending
<1>8. QED
  BY <1>3, <1>4, <1>5, <1>6, <1>7 DEF CallsOK

LEMMA NestedTimeoutRInv ==
  ASSUME RInv, NEW t \in Tasks, NestedTimeout(t)
  PROVE  MediumOK' /\ CallsOK'
<1>1. /\ pc[t] = "nested" /\ pc'[t] = "visit"
      /\ \A u \in Tasks : u # t => pc'[u] = pc[u]
      /\ UNCHANGED <<slots, object, mutex, buf, cursor, seen, ghosts>>
  BY DEF NestedTimeout, RInv, TInv, TypeOK
<1>2. /\ InUse
      /\ \A u \in Tasks : u # t => pc'[u] = pc[u] /\ pc[u] \notin Locked
  BY <1>1, LoneHolder DEF RInv, Locked, InUse
<1>3. MediumOK'
  BY <1>1, <1>2, MediumFrame DEF object, ghosts
<1>4. TailOK' /\ ArgumentsOK'
  BY <1>1, <1>2
     DEF RInv, CallsOK, TailOK, ArgumentsOK, object, ghosts, Locked, Appending
<1>5. WritesOK'
  BY <1>1, <1>2 DEF WritesOK, Locked, Appending
<1>6. VisitOK'
  BY <1>1, <1>2 DEF RInv, CallsOK, VisitOK, Behind, object, Locked
<1>7. QED
  BY <1>3, <1>4, <1>5, <1>6 DEF CallsOK

LEMMA EraseSlotRInv ==
  ASSUME RInv, NEW t \in Tasks, EraseSlot(t)
  PROVE  MediumOK' /\ CallsOK'
<1>1. /\ pc[t] = "erase" /\ pc' = pc
      /\ slots' = [slots EXCEPT ![cursor.slot] = Blank]
      /\ cursor'.slot = cursor.slot + 1
      /\ UNCHANGED <<object, mutex, buf, seen, ghosts>>
  BY DEF EraseSlot, Written, RInv, TInv, TypeOK
<1>2. /\ InUse
      /\ \A u \in Tasks : u # t => pc[u] \notin Locked
  BY <1>1, LoneHolder DEF RInv, Locked, InUse
<1>3. MediumOK'
  <2>1. PICK h \in SlotIds, q \in 0..(MaxSeq + 1) :
               h = head_slot /\ q = head_seq
    BY <1>2, MediumInUse
  <2>2. Blank \in Cut(t)
    BY <1>1 DEF Cut, Written
  <2>3. SlotsOK(h, q)'
    BY <1>1, <2>1, <2>2, CutKeeps
  <2>4. h = head_slot' /\ q = head_seq'
    BY <1>1, <2>1 DEF object
  <2>5. QED
    BY <2>3, <2>4 DEF MediumOK
<1>4. TailOK' /\ ArgumentsOK'
  BY <1>1, <1>2
     DEF RInv, CallsOK, TailOK, ArgumentsOK, object, ghosts
<1>5. WritesOK'
  <2>1. /\ dirty /\ log = <<>>
        /\ \A i \in SlotIds : i < cursor.slot => ~Valid(slots[i])
    BY <1>1 DEF RInv, CallsOK, WritesOK
  <2>2. cursor.slot \in SlotIds /\ slots \in [SlotIds -> Slot]
    BY DEF RInv, TInv, TypeOK
  <2>3. ASSUME NEW i \in SlotIds, i < cursor'.slot PROVE ~Valid(slots'[i])
    <3>1. i = cursor.slot \/ i < cursor.slot
      BY <1>1, <2>2, <2>3, ConstantsAssumption DEF SlotIds
    <3>2. CASE i = cursor.slot
      BY <1>1, <2>2, <3>2, BlankIsInvalid
    <3>3. CASE i # cursor.slot
      BY <1>1, <2>1, <2>2, <3>1, <3>3
    <3>4. QED
      BY <3>2, <3>3
  <2>4. QED
    BY <1>1, <1>2, <2>1, <2>3 DEF WritesOK, ghosts, Locked, Appending
<1>6. VisitOK'
  BY <1>1, <1>2 DEF VisitOK, Locked
<1>7. QED
  BY <1>3, <1>4, <1>5, <1>6 DEF CallsOK

LEMMA EraseLastRInv ==
  ASSUME RInv, NEW t \in Tasks, EraseLast(t)
  PROVE  MediumOK' /\ CallsOK'
<1>1. /\ pc[t] = "erase" /\ pc'[t] = "idle" /\ cursor.slot = Capacity - 1
      /\ \A u \in Tasks : u # t => pc'[u] = pc[u] /\ buf'[u] = buf[u]
  BY DEF EraseLast, Unlock, RInv, TInv, TypeOK
<1>2. /\ slots' = [slots EXCEPT ![cursor.slot] = Blank]
      /\ head_slot' = 0 /\ tail_slot' = 0 /\ head_seq' = 0 /\ count' = 0
      /\ log' = <<>> /\ tried' = {} /\ dirty' = FALSE
  BY <1>1 DEF EraseLast, Written
<1>3. \A u \in Tasks : u # t => pc'[u] = pc[u] /\ pc[u] \notin Locked
  BY <1>1, LoneHolder DEF RInv, Locked
<1>4. \A i \in SlotIds : ~Valid(slots'[i])
  <2>. SUFFICES ASSUME NEW i \in SlotIds PROVE ~Valid(slots'[i])
    OBVIOUS
  <2>1. \A j \in SlotIds : j < cursor.slot => ~Valid(slots[j])
    BY <1>1 DEF RInv, CallsOK, WritesOK
  <2>2. cursor.slot \in SlotIds /\ slots \in [SlotIds -> Slot]
    BY DEF RInv, TInv, TypeOK
  <2>3. i = cursor.slot \/ i < cursor.slot
    BY <1>1, ConstantsAssumption DEF SlotIds
  <2>4. CASE i = cursor.slot
    BY <1>2, <2>2, <2>4, BlankIsInvalid
  <2>5. CASE i # cursor.slot
    BY <1>2, <2>1, <2>2, <2>3, <2>5
  <2>6. QED
    BY <2>4, <2>5
<1>5. 0 \in SlotIds /\ 0 \in 0..(MaxSeq + 1) /\ Back(0, 0) = 0
  BY SlotArithmetic, BackBijective, ConstantsAssumption
<1>6. MediumOK'
  BY <1>2, <1>4, <1>5, EmptyIsOKNext DEF MediumOK
<1>7. TailOK'
  BY <1>2, <1>5 DEF TailOK
<1>8. WritesOK' /\ VisitOK'
  BY <1>1, <1>3 DEF WritesOK, VisitOK, Locked, Appending
<1>9. ArgumentsOK'
  BY <1>1, <1>3
     DEF RInv, CallsOK, ArgumentsOK, Waiting, Locked, Appending
<1>10. QED
  BY <1>6, <1>7, <1>8, <1>9 DEF CallsOK

LEMMA IoErrorRInv ==
  ASSUME RInv, NEW t \in Tasks, IoError(t)
  PROVE  MediumOK' /\ CallsOK'
<1>1. /\ pc[t] \in Appending \cup {"erase"} /\ pc'[t] = "idle"
      /\ \A u \in Tasks : u # t => pc'[u] = pc[u] /\ buf'[u] = buf[u]
      /\ \E s \in Cut(t) : slots' = [slots EXCEPT ![cursor.slot] = s]
      /\ UNCHANGED <<object, ghosts>>
  BY DEF IoError, Unlock, RInv, TInv, TypeOK
<1>2. /\ InUse
      /\ \A u \in Tasks : u # t => pc'[u] = pc[u] /\ pc[u] \notin Locked
  BY <1>1, LoneHolder DEF RInv, Locked, InUse, Appending
<1>3. MediumOK'
  <2>1. PICK h \in SlotIds, q \in 0..(MaxSeq + 1) :
               h = head_slot /\ q = head_seq
    BY <1>2, MediumInUse
  <2>2. SlotsOK(h, q)'
    BY <1>1, <2>1, CutKeeps
  <2>3. h = head_slot' /\ q = head_seq'
    BY <1>1, <2>1 DEF object
  <2>4. QED
    BY <2>2, <2>3 DEF MediumOK
<1>4. TailOK'
  BY <1>1, <1>2 DEF RInv, CallsOK, TailOK, object, ghosts
<1>5. WritesOK' /\ VisitOK'
  BY <1>1, <1>2 DEF WritesOK, VisitOK, Locked, Appending
<1>6. ArgumentsOK'
  BY <1>1, <1>2
     DEF RInv, CallsOK, ArgumentsOK, Waiting, Locked, Appending
<1>7. QED
  BY <1>3, <1>4, <1>5, <1>6 DEF CallsOK

LEMMA DeinitRInv ==
  ASSUME RInv, Deinit
  PROVE  MediumOK' /\ CallsOK'
<1>1. /\ ready /\ InUse
      /\ UNCHANGED <<slots, head_slot, tail_slot, head_seq, count, mutex, pc,
                     buf, cursor, seen, ghosts>>
  BY DEF Deinit, InUse
<1>2. MediumOK'
  BY <1>1, MediumFrame DEF ghosts
<1>3. CallsOK'
  BY <1>1 DEF RInv, CallsOK, TailOK, WritesOK, VisitOK, ArgumentsOK, Entry,
              Target, Behind, ghosts
<1>4. QED
  BY <1>2, <1>3

LEMMA PowerLossRInv ==
  ASSUME RInv, PowerLoss
  PROVE  MediumOK' /\ CallsOK'
<1>1. /\ ~InUse' /\ UNCHANGED ghosts
      /\ \A t \in Tasks : pc'[t] = "idle"
  BY DEF PowerLoss, InUse
<1>2. CallsOK'
  BY <1>1 DEF CallsOK, TailOK, WritesOK, VisitOK, ArgumentsOK, Waiting, Locked,
              Appending
<1>3. PICK h \in SlotIds, q \in 0..(MaxSeq + 1) :
             SlotsOK(h, q) /\ (InUse => h = head_slot /\ q = head_seq)
  BY DEF RInv, MediumOK
<1>4. SlotsOK(h, q)'
  <2>1. CASE mutex # None /\ pc[mutex] \in Appending \cup {"erase"}
    <3>1. PICK t \in Tasks : t = mutex
      BY <2>1 DEF RInv, TInv, TypeOK
    <3>2. InUse /\ h = head_slot /\ q = head_seq
      BY <1>3, <2>1, <3>1 DEF InUse, Appending
    <3>3. PICK s \in Cut(t) : slots' = [slots EXCEPT ![cursor.slot] = s]
      BY <2>1, <3>1 DEF PowerLoss
    <3>4. QED
      BY <1>1, <2>1, <3>1, <3>2, <3>3, CutKeeps
  <2>2. CASE ~(mutex # None /\ pc[mutex] \in Appending \cup {"erase"})
    BY <1>1, <1>3, <2>2, SlotsFrame DEF PowerLoss, ghosts
  <2>3. QED
    BY <2>1, <2>2
<1>5. QED
  BY <1>1, <1>2, <1>4 DEF MediumOK

LEMMA NextRInv == NoFaults /\ RInv /\ [Next]_vars => RInv'
<1>. SUFFICES ASSUME NoFaults, RInv, [Next]_vars PROVE RInv'
  OBVIOUS
<1>0. TInv'
  BY NextTInv DEF RInv
<1>1. CASE RingInit
  BY <1>0, <1>1, RingInitRInv DEF RInv
<1>2. CASE Deinit
  BY <1>0, <1>2, DeinitRInv DEF RInv
<1>3. CASE PowerLoss
  BY <1>0, <1>3, PowerLossRInv DEF RInv
<1>4. ASSUME NEW t \in Tasks, Call(t) PROVE RInv'
  BY <1>0, <1>4, CallRInv DEF RInv
<1>5. ASSUME NEW t \in Tasks, Step(t) PROVE MediumOK' /\ CallsOK'
  <2>1. CASE Timeout(t)
    BY <2>1, TimeoutRInv
  <2>2. CASE LockAppend(t)
    BY <2>2, LockAppendRInv
  <2>3. CASE ClearCommit(t) \/ WriteHeader(t) \/ WritePayload(t)
    BY <2>3, WriteStepRInv
  <2>4. CASE WriteCommit(t)
    BY <2>4, WriteCommitRInv
  <2>5. CASE PeekOldest(t) \/ PeekNewest(t)
    BY <2>5, PeekRInv DEF PeekOldest, PeekNewest
  <2>6. CASE LockIterate(t)
    BY <2>6, LockIterateRInv
  <2>7. CASE Visit(t)
    BY <2>7, VisitRInv
  <2>8. CASE NestedTimeout(t)
    BY <2>8, NestedTimeoutRInv
  <2>9. CASE EndIterate(t)
    BY <2>9, EndIterateRInv
  <2>10. CASE LockClear(t)
    BY <2>10, LockClearRInv
  <2>11. CASE EraseSlot(t)
    BY <2>11, EraseSlotRInv
  <2>12. CASE EraseLast(t)
    BY <2>12, EraseLastRInv
  <2>13. CASE IoError(t)
    BY <2>13, IoErrorRInv
  <2>14. QED
    BY <1>5, <2>1, <2>2, <2>3, <2>4, <2>5, <2>6, <2>7, <2>8, <2>9, <2>10,
       <2>11, <2>12, <2>13 DEF Step
<1>6. CASE UNCHANGED vars
  <2>1. MediumOK'
    BY <1>6, MediumFrame DEF vars, InUse
  <2>2. CallsOK'
    BY <1>6 DEF vars, RInv, CallsOK, TailOK, InUse, WritesOK, VisitOK,
                ArgumentsOK, Entry, Target, Behind
  <2>3. QED
    BY <1>0, <2>1, <2>2 DEF RInv
<1>7. QED
  BY <1>0, <1>1, <1>2, <1>3, <1>4, <1>5, <1>6 DEF Next, RInv

LEMMA RInvAlways == NoFaults => (Spec => []RInv)
<1>. SUFFICES ASSUME NoFaults PROVE Spec => []RInv
  OBVIOUS
<1>1. RInv /\ [Next]_vars => RInv'
  BY NextRInv
<1>2. QED
  BY InitRInv, <1>1, PTL DEF Spec

-----------------------------------------------------------------------------
(* The theorems. *)

(* Crash recovery, for every capacity: at whatever write the power is      *)
(* lost, the next init finds the entries whose appends returned OK and at  *)
(* most one more, and an append that fails on a full ring costs the oldest *)
(* entry and no other.                                                     *)
THEOREM LogSurvives == NoFaults => (Spec => []RecoveryKeepsLog)
<1>. SUFFICES ASSUME NoFaults PROVE Spec => []RecoveryKeepsLog
  OBVIOUS
<1>1. RInv => RecoveryKeepsLog
  BY SlotsKeepLog DEF RInv, TInv, MediumOK
<1>2. QED
  BY <1>1, RInvAlways, PTL

LEMMA PrefixCriterion ==
  ASSUME NEW S, NEW s \in Seq(S), NEW t \in Seq(S), Len(s) <= Len(t),
         \A i \in 1..Len(s) : s[i] = t[i]
  PROVE  IsPrefix(s, t)
<1>1. /\ SubSeq(s, 1, Len(s)) = [i \in 1..Len(s) |-> s[i]]
      /\ SubSeq(t, 1, Len(s)) = [i \in 1..Len(s) |-> t[i]]
  OBVIOUS
<1>2. QED
  BY <1>1 DEF IsPrefix

(* What the slots before h hold of a log that nothing is missing from. *)
LEMMA SlotHoldsEntry ==
  ASSUME TypeOK, NEW h \in SlotIds, NEW q \in 0..(MaxSeq + 1), SlotsOK(h, q),
         NEW i \in 1..Len(log), Valid(Behind(h, Len(log) + 1 - i))
  PROVE  \/ Behind(h, Len(log) + 1 - i).hdr = log[i]
         \/ /\ i = 1 /\ Len(log) = Capacity
            /\ Behind(h, Len(log) + 1 - i).hdr \in tried
<1>1. /\ Len(log) \in 1..Capacity /\ Capacity \in Nat \ {0}
      /\ log \in Seq(Header)
  BY ConstantsAssumption DEF TypeOK, SlotsOK, Numbered
<1>. DEFINE d == Len(log) + 1 - i
<1>2. d \in 1..Len(log) /\ Len(log) + 1 - d = i
  BY <1>1
<1>3. CASE d < Capacity
  BY <1>2, <1>3 DEF SlotsOK, Stored
<1>4. CASE d = Capacity
  <2>1. i = 1 /\ Len(log) = Capacity
    BY <1>1, <1>4
  <2>2. QED
    BY <1>4, <2>1 DEF SlotsOK, OldestKept
<1>5. QED
  BY <1>1, <1>2, <1>3, <1>4

(* An iteration gives out the log from the oldest entry on, every entry    *)
(* once, whatever calls wait and whatever its callback tries; the entry of *)
(* a failed append may show only in the place of the oldest one.           *)
THEOREM IterationInOrder == NoFaults => (Spec => []IterationFollowsLog)
<1>. SUFFICES ASSUME NoFaults PROVE Spec => []IterationFollowsLog
  OBVIOUS
<1>1. ASSUME RInv PROVE IterationFollowsLog
  <2>. DEFINE wholes == {log} \cup (IF Len(log) = Capacity
                               THEN {<<e>> \o Tail(log) : e \in tried} ELSE {})
  <2>. SUFFICES ASSUME NEW t \in Tasks, pc[t] \in {"visit", "nested"}, ~dirty
                PROVE  \E whole \in wholes :
                         /\ IsPrefix(seen, whole)
                         /\ cursor.remaining = Len(whole) - Len(seen)
    BY DEF IterationFollowsLog
  <2>1. InUse
    BY DEF InUse
  <2>2. PICK h \in SlotIds, q \in 0..(MaxSeq + 1) :
               h = head_slot /\ q = head_seq /\ SlotsOK(h, q)
    BY <1>1, <2>1, MediumInUse
  <2>3. /\ TypeOK /\ log \in Seq(Header) /\ seen \in Seq(Header)
        /\ cursor.remaining \in Nat /\ Capacity \in Nat \ {0}
    BY <1>1, ConstantsAssumption DEF RInv, TInv, TypeOK
  <2>4. /\ cursor.remaining <= Len(log)
        /\ Len(seen) = Len(log) - cursor.remaining
        /\ \A i \in 1..Len(seen) :
             /\ Valid(Behind(h, Len(log) - i + 1))
             /\ seen[i] = Behind(h, Len(log) - i + 1).hdr
    BY <1>1, <2>1, <2>2 DEF RInv, CallsOK, TailOK, VisitOK
  <2>5. ASSUME NEW i \in 1..Len(seen)
        PROVE  /\ i \in 1..Len(log)
               /\ \/ seen[i] = log[i]
                  \/ i = 1 /\ Len(log) = Capacity /\ seen[1] \in tried
    <3>1. i \in 1..Len(log) /\ Len(log) - i + 1 = Len(log) + 1 - i
      BY <2>3, <2>4
    <3>2. QED
      BY <2>2, <2>3, <2>4, <3>1, SlotHoldsEntry
  <2>6. CASE \A i \in 1..Len(seen) : seen[i] = log[i]
    <3>1. IsPrefix(seen, log)
      BY <2>3, <2>4, <2>6, PrefixCriterion
    <3>2. QED
      BY <2>3, <2>4, <3>1
  <2>7. CASE ~ \A i \in 1..Len(seen) : seen[i] = log[i]
    <3>1. /\ 1 \in 1..Len(seen) /\ seen[1] \in tried /\ Len(log) = Capacity
          /\ \A i \in 1..Len(seen) : i # 1 => seen[i] = log[i]
      BY <2>5, <2>7
    <3>2. log # <<>> /\ seen[1] \in Header
      BY <2>3, <3>1
    <3>. DEFINE whole == <<seen[1]>> \o Tail(log)
    <3>3. /\ Tail(log) \in Seq(Header) /\ Len(Tail(log)) = Len(log) - 1
          /\ \A i \in 1..(Len(log) - 1) : Tail(log)[i] = log[i + 1]
      BY <2>3, <3>2
    <3>4. /\ whole \in Seq(Header) /\ Len(whole) = Len(log)
          /\ whole[1] = seen[1]
          /\ \A i \in 2..Len(log) : whole[i] = Tail(log)[i - 1]
      BY <2>3, <3>2, <3>3
    <3>5. whole \in wholes
      BY <3>1
    <3>. HIDE DEF whole, wholes
    <3>6. ASSUME NEW i \in 1..Len(seen) PROVE seen[i] = whole[i]
      <4>1. CASE i = 1
        BY <3>4, <4>1
      <4>2. CASE i # 1
        <5>1. i \in 2..Len(log) /\ i - 1 \in 1..(Len(log) - 1)
              /\ (i - 1) + 1 = i
          BY <2>3, <2>4, <4>2
        <5>2. QED
          BY <3>1, <3>3, <3>4, <4>2, <5>1
      <4>3. QED
        BY <4>1, <4>2
    <3>7. IsPrefix(seen, whole)
      BY <2>3, <2>4, <3>4, <3>6, PrefixCriterion
    <3>8. QED
      BY <2>3, <2>4, <3>4, <3>5, <3>7
  <2>8. QED
    BY <2>6, <2>7
<1>2. QED
  BY <1>1, RInvAlways, PTL

(* No append ever overwrites an entry while an older one is on the medium, *)
(* the remains of appends that failed apart.                               *)
THEOREM OldestIsOverwritten == NoFaults => (Spec => OverwritesOnlyOldest)
<1>. SUFFICES ASSUME NoFaults PROVE Spec => OverwritesOnlyOldest
  OBVIOUS
<1>1. ASSUME RInv, NEW t \in Tasks, LockAppend(t), Valid(slots[head_slot])
      PROVE  \/ slots[head_slot].hdr \in tried
             \/ \A i \in Candidates({}) :
                  slots[head_slot].hdr.seq <= slots[i].hdr.seq
  <2>1. InUse
    BY <1>1 DEF LockAppend, Lock, InUse
  <2>2. PICK h \in SlotIds, q \in 0..(MaxSeq + 1) :
               h = head_slot /\ q = head_seq /\ SlotsOK(h, q)
    BY <1>1, <2>1, MediumInUse
  <2>3. SUFFICES ASSUME slots[h].hdr \notin tried,
                        NEW i \in SlotIds, Valid(slots[i])
                 PROVE  slots[h].hdr.seq <= slots[i].hdr.seq
    BY <2>2 DEF Candidates
  <2>4. PICK d \in 1..Capacity : i = Back(h, d)
    BY BackBijective
  <2>5. slots[h].hdr.seq \in 0..MaxSeq /\ slots[i].hdr.seq \in 0..MaxSeq
    BY <1>1, <2>2, <2>3, NumbersOfSlots
  <2>6. Back(h, Capacity) = h /\ Capacity \in 1..Capacity
    BY BackBijective, ConstantsAssumption
  <2>7. CASE d = Capacity
    BY <2>4, <2>5, <2>6, <2>7
  <2>8. CASE d # Capacity
    <3>1. d < Capacity
      BY <2>8, ConstantsAssumption
    <3>2. slots[h].hdr.seq < slots[i].hdr.seq
      BY <1>1, <2>2, <2>3, <2>4, <2>6, <3>1 DEF SlotsOK, Sorted, Behind
    <3>3. QED
      BY <2>5, <3>2
  <2>9. QED
    BY <2>7, <2>8
<1>2. RInv => [\A t \in Tasks : LockAppend(t) /\ Valid(slots[head_slot]) =>
        \/ slots[head_slot].hdr \in tried
        \/ \A i \in Candidates({}) :
             slots[head_slot].hdr.seq <= slots[i].hdr.seq]_vars
  BY <1>1
<1>3. QED
  BY <1>2, RInvAlways, PTL DEF OverwritesOnlyOldest

(* A task that waits for the mutex has no entry in hand, and gets one only *)
(* by its own peek.                                                        *)
LEMMA WaitingHasNoEntry ==
  ASSUME RInv, NEW t \in Tasks, pc[t] \in Waiting
  PROVE  buf[t] \notin Header
<1>1. CASE pc[t] = "append"
  BY <1>1, ConstantsAssumption DEF RInv, TInv, AppendsCarryPayloads
<1>2. CASE pc[t] # "append"
  BY <1>2, ConstantsAssumption
     DEF RInv, CallsOK, ArgumentsOK, Waiting, Appending
<1>3. QED
  BY <1>1, <1>2

LEMMA OnlyPeeksFetch ==
  ASSUME RInv, [Next]_vars, NEW t \in Tasks, pc[t] \in Waiting,
         buf'[t] \in Header
  PROVE  PeekOldest(t) \/ PeekNewest(t)
<1>0. /\ buf[t] \notin Header /\ None \notin Header /\ TypeOK
      /\ pc[t] \notin {"idle"} \cup Locked
  BY WaitingHasNoEntry, ConstantsAssumption
     DEF RInv, TInv, Waiting, Locked, Appending
<1>1. CASE RingInit \/ Deinit \/ PowerLoss \/ UNCHANGED vars
  BY <1>0, <1>1 DEF RingInit, Deinit, PowerLoss, vars
<1>2. ASSUME NEW u \in Tasks, Call(u) PROVE FALSE
  <2>1. PICK call, arg : Enter(u, call, arg)
    BY <1>2 DEF Call, CallAppend, CallPeek, CallIterate, CallClear
  <2>2. u # t /\ buf'[t] = buf[t]
    BY <1>0, <2>1 DEF Enter, TypeOK
  <2>3. QED
    BY <1>0, <2>2
<1>3. ASSUME NEW u \in Tasks, u # t, Step(u) PROVE FALSE
  <2>1. buf'[t] = buf[t]
    BY <1>0, <1>3
       DEF Step, Timeout, LockAppend, ClearCommit, WriteHeader, WritePayload,
           WriteCommit, WriteStep, PeekOldest, PeekNewest, PeekSlot,
           LockIterate, Visit, NestedTimeout, EndIterate, LockClear,
           EraseSlot, EraseLast, IoError, Lock, Unlock, TypeOK
  <2>2. QED
    BY <1>0, <2>1
<1>4. CASE Step(t)
  <2>1. CASE Timeout(t)
    BY <1>0, <2>1 DEF Timeout, TypeOK
  <2>2. CASE LockAppend(t) \/ LockIterate(t) \/ LockClear(t)
    BY <1>0, <2>2 DEF LockAppend, LockIterate, LockClear
  <2>3. ASSUME ClearCommit(t) \/ WriteHeader(t) \/ WritePayload(t)
                 \/ WriteCommit(t) \/ Visit(t) \/ NestedTimeout(t)
                 \/ EndIterate(t) \/ EraseSlot(t) \/ EraseLast(t)
                 \/ IoError(t)
        PROVE  FALSE
    BY <1>0, <2>3
       DEF ClearCommit, WriteHeader, WritePayload, WriteCommit, WriteStep,
           Visit, NestedTimeout, EndIterate, EraseSlot, EraseLast, IoError,
           Unlock, Locked, Appending
  <2>4. QED
    BY <1>4, <2>1, <2>2, <2>3 DEF Step
<1>5. QED
  BY <1>1, <1>2, <1>3, <1>4 DEF Next

(* Whatever was appended, cleared or restarted between a peek's look at    *)
(* count and its read, the entry that it returns is the oldest or the      *)
(* newest one of the log at that moment.                                   *)
THEOREM PeeksFindEnds == NoFaults => (Spec => PeeksAreFresh)
<1>. SUFFICES ASSUME NoFaults PROVE Spec => PeeksAreFresh
  OBVIOUS
<1>. DEFINE fresh(t) ==
       \/ pc[t] = "newest" /\ buf'[t] = Last(log)
       \/ pc[t] = "oldest" /\ (buf'[t] = Head(log) \/ dirty)
       \/ /\ pc[t] = "oldest" \/ Capacity = 1
          /\ Len(log) = Capacity
          /\ buf'[t] \in tried
<1>1. ASSUME RInv, [Next]_vars, NEW t \in Tasks, pc[t] \in Waiting,
             buf'[t] \in Header, log # <<>>
      PROVE  fresh(t)
  <2>1. PeekOldest(t) \/ PeekNewest(t)
    BY <1>1, OnlyPeeksFetch
  <2>2. InUse
    BY <1>1 DEF InUse, Waiting
  <2>3. PICK h \in SlotIds, q \in 0..(MaxSeq + 1) :
               h = head_slot /\ q = head_seq /\ SlotsOK(h, q)
    BY <1>1, <2>2, MediumInUse
  <2>4. /\ TypeOK /\ log \in Seq(Header) /\ Capacity \in Nat \ {0}
        /\ Len(log) \in 1..Capacity
    BY <1>1, <2>3, ConstantsAssumption DEF RInv, TInv, TypeOK, SlotsOK, Numbered
  <2>5. buf[t] \notin Header
    BY <1>1, WaitingHasNoEntry
  <2>6. ASSUME NEW i, PeekSlot(t, i)
        PROVE  Valid(slots[i]) /\ buf'[t] = slots[i].hdr
    BY <1>1, <2>4, <2>5, <2>6 DEF PeekSlot, TypeOK
  <2>7. CASE PeekOldest(t)
    <3>1. Valid(slots[tail_slot]) /\ buf'[t] = slots[tail_slot].hdr
      BY <2>6, <2>7 DEF PeekOldest
    <3>2. SUFFICES ASSUME ~dirty PROVE fresh(t)
      BY <2>7 DEF PeekOldest
    <3>3. slots[tail_slot] = Behind(h, Len(log))
      BY <1>1, <2>2, <2>3, <3>2 DEF RInv, CallsOK, TailOK, Behind
    <3>4. 1 \in 1..Len(log) /\ Len(log) + 1 - 1 = Len(log)
      BY <2>4
    <3>5. \/ buf'[t] = log[1]
          \/ Len(log) = Capacity /\ buf'[t] \in tried
      BY <2>3, <2>4, <3>1, <3>3, <3>4, SlotHoldsEntry
    <3>6. QED
      BY <2>4, <2>7, <3>5 DEF PeekOldest
  <2>8. CASE PeekNewest(t)
    <3>1. slots[Back(h, 1)] = Behind(h, 1)
      BY DEF Behind
    <3>2. Valid(Behind(h, 1)) /\ buf'[t] = Behind(h, 1).hdr
      BY <2>3, <2>6, <2>8, <3>1 DEF PeekNewest
    <3>3. Len(log) \in 1..Len(log) /\ Len(log) + 1 - Len(log) = 1
      BY <2>4
    <3>4. \/ buf'[t] = log[Len(log)]
          \/ Len(log) = 1 /\ Len(log) = Capacity /\ buf'[t] \in tried
      BY <2>3, <2>4, <3>2, <3>3, SlotHoldsEntry
    <3>5. QED
      BY <2>8, <3>4 DEF PeekNewest, Last
  <2>9. QED
    BY <2>1, <2>7, <2>8
<1>2. RInv /\ [Next]_vars =>
        [\A t \in Tasks :
           pc[t] \in Waiting /\ buf'[t] \in Header /\ log # <<>> => fresh(t)]_vars
  BY <1>1
<1>3. QED
  BY <1>2, RInvAlways, PTL DEF Spec, PeeksAreFresh

-----------------------------------------------------------------------------
(* The slots implement CrashSafeLog. *)

(* The appends under way, as the refinement mapping gives them. *)
Pend == [t \in Tasks |-> IF pc[t] \in {"append"} \cup Appending
                         THEN buf[t] ELSE None]

LEMMA PayloadsOfIs ==
  ASSUME NEW l \in Seq(Header)
  PROVE  /\ PayloadsOf[l] \in Seq(Payloads) /\ Len(PayloadsOf[l]) = Len(l)
         /\ \A i \in 1..Len(l) : PayloadsOf[l][i] = l[i].payload
<1>1. PayloadsOf[l] = [i \in 1..Len(l) |-> l[i].payload]
  BY DEF PayloadsOf
<1>2. \A i \in 1..Len(l) : l[i].payload \in Payloads
  <2>1. \A e \in Header : e.payload \in Payloads
    BY DEF Header
  <2>2. QED
    BY <2>1
<1>. HIDE DEF PayloadsOf
<1>3. QED
  BY <1>1, <1>2

LEMMA PayloadsOfEmpty == PayloadsOf[<<>>] = <<>>
<1>1. <<>> \in Seq(Header) /\ Len(<<>>) = 0
  OBVIOUS
<1>2. PayloadsOf[<<>>] \in Seq(Payloads) /\ Len(PayloadsOf[<<>>]) = 0
  BY <1>1, PayloadsOfIs
<1>3. QED
  BY <1>2

LEMMA PayloadsOfAppend ==
  ASSUME NEW l \in Seq(Header), NEW e \in Header
  PROVE  PayloadsOf[Append(l, e)] = Append(PayloadsOf[l], e.payload)
<1>. DEFINE s == PayloadsOf[Append(l, e)]
            t == Append(PayloadsOf[l], e.payload)
<1>1. Append(l, e) \in Seq(Header) /\ Len(Append(l, e)) = Len(l) + 1
      /\ e.payload \in Payloads
  BY DEF Header
<1>2. /\ s \in Seq(Payloads) /\ Len(s) = Len(l) + 1
      /\ \A i \in 1..(Len(l) + 1) : s[i] = Append(l, e)[i].payload
  BY <1>1, PayloadsOfIs
<1>3. /\ t \in Seq(Payloads) /\ Len(t) = Len(l) + 1
      /\ \A i \in 1..Len(l) : t[i] = l[i].payload
      /\ t[Len(l) + 1] = e.payload
  BY <1>1, PayloadsOfIs
<1>. HIDE DEF s, t
<1>4. \A i \in 1..Len(s) : s[i] = t[i]
  BY <1>2, <1>3
<1>5. s = t
  BY <1>2, <1>3, <1>4, SameSequence
<1>6. QED
  BY <1>5 DEF s, t

LEMMA PayloadsOfTail ==
  ASSUME NEW l \in Seq(Header), l # <<>>
  PROVE  PayloadsOf[Tail(l)] = Tail(PayloadsOf[l])
<1>. DEFINE s == PayloadsOf[Tail(l)]
            t == Tail(PayloadsOf[l])
<1>1. /\ Tail(l) \in Seq(Header) /\ Len(Tail(l)) = Len(l) - 1
      /\ \A i \in 1..(Len(l) - 1) : Tail(l)[i] = l[i + 1]
  OBVIOUS
<1>2. /\ s \in Seq(Payloads) /\ Len(s) = Len(l) - 1
      /\ \A i \in 1..(Len(l) - 1) : s[i] = Tail(l)[i].payload
  BY <1>1, PayloadsOfIs
<1>3. PayloadsOf[l] # <<>>
  BY PayloadsOfIs
<1>4. /\ t \in Seq(Payloads) /\ Len(t) = Len(l) - 1
      /\ \A i \in 1..(Len(l) - 1) : t[i] = PayloadsOf[l][i + 1]
  BY <1>3, PayloadsOfIs
<1>5. \A i \in 1..(Len(l) - 1) : i + 1 \in 1..Len(l)
  OBVIOUS
<1>. HIDE DEF s, t
<1>6. \A i \in 1..Len(s) : s[i] = t[i]
  BY <1>1, <1>2, <1>4, <1>5, PayloadsOfIs
<1>7. s = t
  BY <1>2, <1>4, <1>6, SameSequence
<1>8. QED
  BY <1>7 DEF s, t

LEMMA KeptPayloads ==
  ASSUME log \in Seq(Header), Len(log) <= Capacity
  PROVE  PayloadsOf[Kept] = Log!Kept
<1>1. Len(PayloadsOf[log]) = Len(log) /\ Len(log) \in Nat
  BY PayloadsOfIs
<1>2. CASE Len(log) < Capacity
  BY <1>1, <1>2 DEF Kept, Log!Kept
<1>3. CASE ~(Len(log) < Capacity)
  <2>1. log # <<>>
    BY <1>3, ConstantsAssumption
  <2>2. QED
    BY <1>1, <1>3, <2>1, PayloadsOfTail DEF Kept, Log!Kept
<1>4. QED
  BY <1>2, <1>3

LEMMA SuffixPayloads ==
  ASSUME NEW l \in Seq(Header), NEW m \in Seq(Header), IsSuffix(l, m)
  PROVE  Log!IsSuffix(PayloadsOf[l], PayloadsOf[m])
<1>. DEFINE r == Reverse(l)
            u == Reverse(m)
<1>1. /\ r \in Seq(Header) /\ u \in Seq(Header)
      /\ Len(r) = Len(l) /\ Len(u) = Len(m)
      /\ \A i \in 1..Len(l) : r[i] = l[Len(l) - i + 1]
      /\ \A i \in 1..Len(m) : u[i] = m[Len(m) - i + 1]
  BY DEF Reverse
<1>2. Len(r) <= Len(u) /\ SubSeq(r, 1, Len(r)) = SubSeq(u, 1, Len(r))
  BY DEF IsSuffix, IsPrefix
<1>. HIDE DEF r, u
<1>3. \A i \in 1..Len(r) : r[i] = u[i]
  <2>1. /\ SubSeq(r, 1, Len(r)) = [i \in 1..Len(r) |-> r[i]]
        /\ SubSeq(u, 1, Len(r)) = [i \in 1..Len(r) |-> u[i]]
    BY <1>1, <1>2
  <2>2. QED
    BY <1>2, <2>1
<1>4. ASSUME NEW k \in 0..(Len(l) - 1)
      PROVE  PayloadsOf[l][Len(l) - k] = PayloadsOf[m][Len(m) - k]
  <2>1. /\ k + 1 \in 1..Len(l) /\ k + 1 \in 1..Len(m)
        /\ Len(l) - (k + 1) + 1 = Len(l) - k
        /\ Len(m) - (k + 1) + 1 = Len(m) - k
        /\ Len(l) - k \in 1..Len(l) /\ Len(m) - k \in 1..Len(m)
    BY <1>1, <1>2
  <2>2. l[Len(l) - k] = m[Len(m) - k]
    BY <1>1, <1>3, <2>1
  <2>3. QED
    BY <2>1, <2>2, PayloadsOfIs
<1>5. IsSuffix(PayloadsOf[l], PayloadsOf[m])
  <2>. DEFINE a == PayloadsOf[l]
              b == PayloadsOf[m]
  <2>1. /\ a \in Seq(Payloads) /\ Len(a) = Len(l)
        /\ b \in Seq(Payloads) /\ Len(b) = Len(m)
    BY PayloadsOfIs
  <2>2. Len(a) <= Len(b)
        /\ \A k \in 0..(Len(a) - 1) : a[Len(a) - k] = b[Len(b) - k]
    BY <1>1, <1>2, <1>4, <2>1
  <2>. HIDE DEF a, b
  <2>3. IsSuffix(a, b)
    BY <2>1, <2>2, SuffixCriterion
  <2>4. QED
    BY <2>3 DEF a, b
<1>6. QED
  BY <1>5 DEF IsSuffix, IsPrefix, Reverse,
              Log!IsSuffix, Log!IsPrefix, Log!Reverse

LEMMA RecoverableType == Recoverable \in Seq(Header)
BY EmptyIsSuffix

LEMMA RecoverableTypeNext == (Recoverable \in Seq(Header))'
BY RecoverableType, PTL

(* What a recovery of the slots finds next, in terms of the abstract log. *)
LEMMA FindsPayloads ==
  ASSUME NEW l \in Seq(Header), dirty' = dirty,
         IF dirty THEN IsSuffix(l, Recoverable') ELSE Recoverable' = l
  PROVE  Log!Finds(PayloadsOf[l])
<1>1. Recoverable' \in Seq(Header)
  BY RecoverableTypeNext
<1>2. PayloadsOf[Recoverable]' = PayloadsOf[Recoverable']
  BY DEF PayloadsOf
<1>3. QED
  BY <1>1, <1>2, SuffixPayloads DEF Log!Finds

LEMMA RecoverableFrame ==
  ASSUME slots' = slots
  PROVE  Recoverable' = Recoverable
BY DEF Recoverable, LogAmong, LogUpTo, Candidates, Best, Beats, RunLength,
       Follows, Run

LEMMA PayloadsConstant == PayloadsOf' = PayloadsOf
BY DEF PayloadsOf

(* A step of t changes no other task's append. *)
LEMMA PendStep ==
  ASSUME NEW t \in Tasks,
         \A u \in Tasks : u # t => pc'[u] = pc[u] /\ buf'[u] = buf[u]
  PROVE  /\ Pend' = [Pend EXCEPT ![t] = Pend'[t]]
         /\ Pend'[t] = IF pc'[t] \in {"append"} \cup Appending
                       THEN buf'[t] ELSE None
         /\ Pend[t] = IF pc[t] \in {"append"} \cup Appending
                      THEN buf[t] ELSE None
BY DEF Pend

LEMMA StutterStep ==
  ASSUME UNCHANGED <<slots, log, dirty, Pend>>
  PROVE  UNCHANGED Log!logVars
BY RecoverableFrame, PayloadsConstant DEF Log!logVars, Pend

(* A step of t that neither begins nor ends an append and writes nothing. *)
LEMMA QuietStutters ==
  ASSUME NEW t \in Tasks, UNCHANGED <<slots, log, dirty>>,
         \A u \in Tasks : u # t => pc'[u] = pc[u] /\ buf'[u] = buf[u],
         pc[t] \in {"append"} \cup Appending
           <=> pc'[t] \in {"append"} \cup Appending,
         pc[t] \in {"append"} \cup Appending => buf'[t] = buf[t]
  PROVE  UNCHANGED Log!logVars
<1>1. Pend' = Pend
  BY DEF Pend
<1>2. QED
  BY <1>1, StutterStep

LEMMA AbstractFail ==
  ASSUME NEW t \in Tasks, UNCHANGED <<log, dirty>>,
         Pend' = [Pend EXCEPT ![t] = None], Log!Touched(t)
  PROVE  Log!Next
<1>1. Log!Fail(t)
  BY PayloadsConstant DEF Log!Fail, Pend
<1>2. QED
  BY <1>1 DEF Log!Next

LEMMA AbstractTear ==
  ASSUME NEW t \in Tasks, UNCHANGED <<log, dirty, Pend>>,
         Pend[t] # None, Log!Finds(Log!Kept)
  PROVE  Log!Next
<1>1. Log!Tear(t)
  BY PayloadsConstant DEF Log!Tear, Pend
<1>2. QED
  BY <1>1 DEF Log!Next

LEMMA FindsNext ==
  ASSUME NoFaults, NEW h \in SlotIds, NEW q \in 0..(MaxSeq + 1)
  PROVE  /\ (TypeOK /\ SlotsOK(h, q) /\ ~Valid(slots[h]) => Finds(Kept))'
         /\ (TypeOK /\ SlotsOK(h, q) /\ Valid(slots[h]) /\ slots[h].hdr \in tried
               => Finds(Append(Kept, slots[h].hdr)))'
         /\ (TypeOK /\ SlotsOK(h, q) /\ tried = {} => Finds(log))'
<1>1. TypeOK /\ SlotsOK(h, q) /\ ~Valid(slots[h]) => Finds(Kept)
  <2>. SUFFICES ASSUME TypeOK, SlotsOK(h, q), ~Valid(slots[h])
                PROVE  Finds(Kept)
    OBVIOUS
  <2>1. Len(log) \in Nat /\ Len(log) <= Capacity /\ Capacity \in Nat
    BY ConstantsAssumption DEF TypeOK, SlotsOK, Numbered
  <2>2. QED
    BY <2>1, FindsLog, FindsTail DEF Kept
<1>2. TypeOK /\ SlotsOK(h, q) /\ Valid(slots[h]) /\ slots[h].hdr \in tried
        => Finds(Append(Kept, slots[h].hdr))
  BY FindsTried
<1>3. TypeOK /\ SlotsOK(h, q) /\ tried = {} => Finds(log)
  <2>. SUFFICES ASSUME TypeOK, SlotsOK(h, q), tried = {} PROVE Finds(log)
    OBVIOUS
  <2>1. Len(log) \in Nat /\ Len(log) <= Capacity /\ Capacity \in Nat \ {0}
    BY ConstantsAssumption DEF TypeOK, SlotsOK, Numbered
  <2>2. Len(log) = Capacity => Valid(slots[h])
    <3>1. Behind(h, Capacity) = slots[h]
      BY BackBijective DEF Behind
    <3>2. QED
      BY <2>1, <3>1 DEF SlotsOK, Stored
  <2>3. QED
    BY <2>1, <2>2, FindsLog
<1>4. QED
  BY <1>1, <1>2, <1>3, PTL

(* A write of t's append, complete or cut, as the abstract log sees it. *)
LEMMA CutTouches ==
  ASSUME NoFaults, RInv, TypeOK', NEW t \in Tasks, pc[t] \in Appending,
         NEW s \in Cut(t), slots' = [slots EXCEPT ![cursor.slot] = s],
         UNCHANGED ghosts
  PROVE  /\ Pend[t] # None /\ Log!Touched(t)
         /\ ~Valid(s) => Log!Finds(Log!Kept)
<1>0. /\ slots \in [SlotIds -> Slot] /\ log \in Seq(Header)
      /\ buf[t] \in Payloads /\ Entry(t) \in Header /\ TypeOK
  BY EntryType DEF RInv, TInv, TypeOK, AppendsCarryPayloads
<1>1. Pend[t] = buf[t] /\ Pend[t] # None
  BY <1>0, ConstantsAssumption DEF Pend
<1>2. /\ cursor.slot = head_slot /\ Entry(t) \in tried
      /\ pc[t] # "mark" => Target.commit = CLEAR
      /\ pc[t] \in {"payload", "commit"} => Target.hdr = Entry(t)
  BY DEF RInv, CallsOK, WritesOK
<1>3. PICK h \in SlotIds, q \in 0..(MaxSeq + 1) :
             h = head_slot /\ q = head_seq /\ SlotsOK(h, q)
  BY MediumInUse DEF InUse, Appending
<1>4. SlotsOK(h, q)'
  BY <1>3, CutKeeps
<1>5. slots' = [slots EXCEPT ![h] = s] /\ slots'[h] = s
      /\ UNCHANGED <<log, tried, dirty>>
  BY <1>0, <1>2, <1>3 DEF ghosts
<1>6. Kept \in Seq(Header) /\ Kept' = Kept /\ Len(log) <= Capacity
  BY <1>0, <1>3, <1>5, KeptIs DEF SlotsOK, Numbered, Kept
<1>7. ASSUME ~Valid(s) PROVE Log!Finds(Log!Kept)
  <2>1. Finds(Kept)'
    BY <1>4, <1>5, <1>7, FindsNext
  <2>2. IF dirty THEN IsSuffix(Kept, Recoverable') ELSE Recoverable' = Kept
    BY <1>5, <1>6, <2>1 DEF Finds
  <2>3. QED
    BY <1>0, <1>5, <1>6, <2>2, FindsPayloads, KeptPayloads
<1>8. s = slots[h] \/ ~Valid(s) \/ s.hdr = Entry(t)
  <2>1. Target \in Slot /\ Target = slots[h]
    BY <1>0, <1>2, <1>3 DEF Target
  <2>2. CASE pc[t] = "mark"
    BY <2>1, <2>2 DEF Cut, Written, Slot, Valid, CLEAR, COMMIT
  <2>3. CASE pc[t] = "header"
    BY <1>2, <2>1, <2>3 DEF Cut, Written, Slot, Valid, CLEAR, COMMIT
  <2>4. CASE pc[t] = "payload"
    BY <1>2, <2>1, <2>4 DEF Cut, Written, Slot, Valid, CLEAR, COMMIT
  <2>5. CASE pc[t] = "commit"
    BY <1>2, <2>1, <2>5 DEF Cut, Written, Slot
  <2>6. QED
    BY <2>2, <2>3, <2>4, <2>5 DEF Appending
<1>9. CASE s = slots[h]
  <2>1. slots' = slots
    BY <1>0, <1>5, <1>9
  <2>2. PayloadsOf[Recoverable]' = PayloadsOf[Recoverable]
    BY <2>1, RecoverableFrame, PayloadsConstant
  <2>3. QED
    BY <1>1, <1>7, <2>2 DEF Log!Touched, Pend
<1>10. CASE ~Valid(s)
  BY <1>1, <1>7, <1>10 DEF Log!Touched, Pend
<1>11. CASE Valid(s) /\ s.hdr = Entry(t)
  <2>1. Finds(Append(Kept, slots[h].hdr))'
    BY <1>2, <1>4, <1>5, <1>11, FindsNext
  <2>. DEFINE l == Append(Kept, Entry(t))
  <2>2. IF dirty THEN IsSuffix(l, Recoverable') ELSE Recoverable' = l
    BY <1>5, <1>6, <1>11, <2>1 DEF Finds
  <2>3. l \in Seq(Header)
    BY <1>0, <1>6
  <2>4. PayloadsOf[l] = Append(Log!Kept, Pend[t])
    BY <1>0, <1>1, <1>6, KeptPayloads, PayloadsOfAppend DEF Entry
  <2>. HIDE DEF l
  <2>5. Log!Finds(Append(Log!Kept, Pend[t]))
    BY <1>5, <2>2, <2>3, <2>4, FindsPayloads
  <2>6. QED
    BY <1>1, <1>11, <2>5 DEF Log!Touched, Log!Landed, Pend
<1>12. QED
  BY <1>1, <1>7, <1>8, <1>9, <1>10, <1>11

LEMMA InitImplements == Init => Log!Init
<1>. SUFFICES ASSUME Init PROVE Log!Init
  OBVIOUS
<1>0. \A i \in SlotIds : ~Valid(slots[i])
  BY BlankIsInvalid DEF Init
<1>1. Candidates({}) = {}
  BY <1>0 DEF Candidates
<1>2. Recoverable = <<>> /\ log = <<>> /\ dirty = FALSE
  BY <1>1, RecoverableIs DEF Init
<1>3. PayloadsOf[<<>>] = <<>>
  BY PayloadsOfEmpty
<1>4. \A t \in Tasks : pc[t] = "idle"
  BY DEF Init
<1>5. QED
  BY <1>2, <1>3, <1>4 DEF Log!Init, Appending

(* An init takes over what the slots hold. *)
LEMMA RingInitImplements ==
  ASSUME NoFaults, RInv, RingInit
  PROVE  Log!Next
<1>1. log' = Recoverable
  <2>. DEFINE found == Candidates({})
              c == Best(found)
              n == RunLength({}, c)
  <2>1. IF found = {} THEN log' = <<>> ELSE log' = Run(c, n)
    BY DEF RingInit, NoFaults
  <2>2. QED
    BY <2>1, RecoverableIs
<1>2. UNCHANGED <<slots, Pend>> /\ dirty' = FALSE
  BY DEF RingInit, Pend
<1>3. Recoverable' = Recoverable
  BY <1>2, RecoverableFrame
<1>4. Pend = [t \in Tasks |-> None]
  BY DEF RingInit, Pend, Appending
<1>5. Log!Recover
  BY <1>1, <1>2, <1>3, <1>4, PayloadsConstant DEF Log!Recover, Pend
<1>6. QED
  BY <1>5 DEF Log!Next

LEMMA CallImplements ==
  ASSUME RInv, NEW t \in Tasks, Call(t)
  PROVE  Log!Next \/ UNCHANGED Log!logVars
<1>1. PICK call, arg :
        /\ call \in Waiting
        /\ Enter(t, call, arg)
        /\ call = "append" => arg \in Payloads
  BY DEF Call, CallAppend, CallPeek, CallIterate, CallClear, Waiting
<1>2. /\ pc[t] = "idle" /\ pc'[t] = call /\ buf'[t] = arg
      /\ \A u \in Tasks : u # t => pc'[u] = pc[u] /\ buf'[u] = buf[u]
      /\ UNCHANGED <<slots, log, dirty>>
  BY <1>1 DEF Enter, RInv, TInv, TypeOK, ghosts
<1>3. CASE call # "append"
  <2>1. UNCHANGED Log!logVars
    BY <1>1, <1>2, <1>3, QuietStutters DEF Waiting, Appending
  <2>2. QED
    BY <2>1
<1>4. CASE call = "append"
  <2>1. Pend[t] = None /\ Pend' = [Pend EXCEPT ![t] = arg]
    BY <1>2, <1>4, PendStep DEF Appending
  <2>2. Recoverable' = Recoverable
    BY <1>2, RecoverableFrame
  <2>3. Log!Call(t, arg)
    BY <1>2, <2>1, <2>2, PayloadsConstant DEF Log!Call, Pend
  <2>4. QED
    BY <1>1, <1>4, <2>3 DEF Log!Next
<1>5. QED
  BY <1>3, <1>4

LEMMA TimeoutImplements ==
  ASSUME RInv, NEW t \in Tasks, Timeout(t)
  PROVE  Log!Next \/ UNCHANGED Log!logVars
<1>1. /\ pc[t] \in Waiting /\ pc'[t] = "idle"
      /\ \A u \in Tasks : u # t => pc'[u] = pc[u] /\ buf'[u] = buf[u]
      /\ UNCHANGED <<slots, log, dirty>>
  BY DEF Timeout, RInv, TInv, TypeOK, ghosts
<1>2. CASE pc[t] # "append"
  <2>1. UNCHANGED Log!logVars
    BY <1>1, <1>2, QuietStutters DEF Waiting, Appending
  <2>2. QED
    BY <2>1
<1>3. CASE pc[t] = "append"
  <2>1. Pend' = [Pend EXCEPT ![t] = None]
    BY <1>1, PendStep DEF Appending
  <2>2. Pend[t] # None
    BY <1>3, ConstantsAssumption DEF RInv, TInv, AppendsCarryPayloads, Pend
  <2>3. Recoverable' = Recoverable
    BY <1>1, RecoverableFrame
  <2>4. Log!Touched(t)
    BY <2>2, <2>3, PayloadsConstant DEF Log!Touched, Pend
  <2>5. QED
    BY <1>1, <2>1, <2>4, AbstractFail
<1>4. QED
  BY <1>2, <1>3

LEMMA WriteImplements ==
  ASSUME NoFaults, RInv, TypeOK', NEW t \in Tasks,
         ClearCommit(t) \/ WriteHeader(t) \/ WritePayload(t)
  PROVE  Log!Next
<1>1. /\ pc[t] \in {"mark", "header", "payload"} /\ pc'[t] \in Appending
      /\ \A u \in Tasks : u # t => pc'[u] = pc[u]
      /\ slots' = [slots EXCEPT ![cursor.slot] = Written(t)]
      /\ UNCHANGED <<buf, ghosts>>
  BY DEF ClearCommit, WriteHeader, WritePayload, WriteStep, Appending, RInv,
         TInv, TypeOK
<1>2. ~Valid(Written(t))
  <2>1. pc[t] # "mark" => Target.commit = CLEAR
    BY <1>1 DEF RInv, CallsOK, WritesOK, Appending
  <2>2. Target \in Slot
    BY DEF RInv, TInv, TypeOK, Target
  <2>3. Written(t).commit = CLEAR
    BY <1>1, <2>1, <2>2 DEF Written, Slot
  <2>4. QED
    BY <2>3 DEF Valid, CLEAR, COMMIT
<1>3. Written(t) \in Cut(t) /\ pc[t] \in Appending
  BY <1>1 DEF Cut, Appending
<1>4. Pend[t] # None /\ Log!Finds(Log!Kept)
  BY <1>1, <1>2, <1>3, CutTouches
<1>5. Pend' = Pend
  BY <1>1, <1>3 DEF Pend
<1>6. QED
  BY <1>1, <1>4, <1>5, AbstractTear DEF ghosts

LEMMA WriteCommitImplements ==
  ASSUME NoFaults, RInv, RInv', NEW t \in Tasks, WriteCommit(t)
  PROVE  Log!Next
<1>1. /\ pc[t] = "commit" /\ pc'[t] = "idle"
      /\ \A u \in Tasks : u # t => pc'[u] = pc[u] /\ buf'[u] = buf[u]
      /\ log' = Pushed(log, Entry(t)) /\ tried' = {} /\ dirty' = dirty
  BY DEF WriteCommit, Unlock, RInv, TInv, TypeOK
<1>2. /\ log \in Seq(Header) /\ buf[t] \in Payloads /\ Entry(t) \in Header
      /\ TypeOK /\ TypeOK' /\ log' \in Seq(Header)
  BY <1>1, EntryType DEF RInv, TInv, TypeOK, AppendsCarryPayloads, Appending
<1>3. PICK h \in SlotIds, q \in 0..(MaxSeq + 1) : SlotsOK(h, q)'
  BY DEF RInv, MediumOK
<1>4. Finds(log)'
  BY <1>1, <1>2, <1>3, FindsNext
<1>5. PICK l \in Seq(Header) : l = log'
  BY <1>2
<1>6. Log!Finds(PayloadsOf[l])
  BY <1>1, <1>4, <1>5, FindsPayloads DEF Finds
<1>7. Pend[t] = buf[t] /\ Pend[t] # None /\ Pend' = [Pend EXCEPT ![t] = None]
  BY <1>1, <1>2, PendStep, ConstantsAssumption DEF Appending
<1>8. PayloadsOf[l] = Append(Log!Kept, Pend[t])
  <2>1. Len(log) <= Capacity
    BY MediumInUse, <1>1 DEF InUse, SlotsOK, Numbered
  <2>2. l = Append(Kept, Entry(t))
    BY <1>1, <1>5 DEF Pushed, Kept
  <2>3. Kept \in Seq(Header)
    BY <1>2, <2>1, KeptIs
  <2>4. Entry(t).payload = Pend[t]
    BY <1>7 DEF Entry
  <2>5. QED
    BY <1>2, <2>1, <2>2, <2>3, <2>4, KeptPayloads, PayloadsOfAppend
<1>9. Log!Done(t)
  BY <1>1, <1>5, <1>6, <1>7, <1>8, PayloadsConstant
     DEF Log!Done, Log!Landed, Pend
<1>10. QED
  BY <1>9 DEF Log!Next

LEMMA EmptyIsSuffixNext == IsSuffix(<<>>, Recoverable)'
BY EmptyIsSuffix, PTL

(* A write of a clear that is cut leaves nothing that was not there. *)
LEMMA EraseFinds ==
  ASSUME RInv, NEW t \in Tasks, pc[t] = "erase", dirty' = dirty
  PROVE  dirty /\ Log!Finds(PayloadsOf[log])
<1>1. dirty /\ log = <<>> /\ log \in Seq(Header)
  BY DEF RInv, TInv, TypeOK, CallsOK, WritesOK
<1>2. IsSuffix(<<>>, Recoverable')
  BY EmptyIsSuffixNext
<1>3. QED
  BY <1>1, <1>2, FindsPayloads

LEMMA ClearImplements ==
  ASSUME NoFaults, RInv, NEW t \in Tasks,
         LockClear(t) \/ EraseSlot(t) \/ EraseLast(t)
  PROVE  Log!Next
<1>0. PayloadsOf[<<>>] = <<>>
  BY PayloadsOfEmpty
<1>1. CASE LockClear(t)
  <2>1. log' = <<>> /\ dirty' = TRUE /\ slots' = slots
    BY <1>1 DEF LockClear
  <2>2. Pend' = Pend
    BY <1>1 DEF LockClear, Lock, Pend, RInv, TInv, TypeOK, Appending
  <2>3. Recoverable' = Recoverable
    BY <2>1, RecoverableFrame
  <2>4. Log!BeginClear
    BY <1>0, <2>1, <2>2, <2>3, PayloadsConstant DEF Log!BeginClear, Pend
  <2>5. QED
    BY <2>4 DEF Log!Next
<1>2. CASE EraseSlot(t)
  <2>1. dirty /\ log = <<>> /\ UNCHANGED <<log, dirty, Pend>>
    BY <1>2 DEF EraseSlot, RInv, CallsOK, WritesOK, ghosts, Pend
  <2>4. Log!Finds(PayloadsOf[log])
    BY <1>2, EraseFinds DEF EraseSlot, ghosts
  <2>5. Log!Erase
    BY <2>1, <2>4, PayloadsConstant DEF Log!Erase, Pend
  <2>6. QED
    BY <2>5 DEF Log!Next
<1>3. CASE EraseLast(t)
  <2>1. /\ pc[t] = "erase" /\ pc'[t] = "idle" /\ dirty
        /\ \A u \in Tasks : u # t => pc'[u] = pc[u] /\ buf'[u] = buf[u]
        /\ log' = <<>> /\ tried' = {} /\ dirty' = FALSE
    BY <1>3 DEF EraseLast, Unlock, RInv, TInv, TypeOK, CallsOK, WritesOK
  <2>2. Pend' = Pend
    BY <2>1 DEF Pend, Appending
  <2>3. MediumOK' /\ TypeOK'
    BY <1>3, EraseLastRInv, NextTInv DEF RInv, TInv, Next, Step
  <2>4. PICK h \in SlotIds, q \in 0..(MaxSeq + 1) : SlotsOK(h, q)'
    BY <2>3 DEF MediumOK
  <2>5. Finds(log)'
    BY <2>1, <2>3, <2>4, FindsNext
  <2>6. Recoverable' = <<>>
    BY <2>1, <2>5 DEF Finds
  <2>7. Log!EndClear
    BY <1>0, <2>1, <2>2, <2>6, PayloadsConstant DEF Log!EndClear, Pend
  <2>8. QED
    BY <2>7 DEF Log!Next
<1>4. QED
  BY <1>1, <1>2, <1>3

LEMMA IoErrorImplements ==
  ASSUME NoFaults, RInv, TypeOK', NEW t \in Tasks, IoError(t)
  PROVE  Log!Next
<1>1. /\ pc[t] \in Appending \cup {"erase"} /\ pc'[t] = "idle"
      /\ \A u \in Tasks : u # t => pc'[u] = pc[u] /\ buf'[u] = buf[u]
      /\ \E s \in Cut(t) : slots' = [slots EXCEPT ![cursor.slot] = s]
      /\ UNCHANGED ghosts
  BY DEF IoError, Unlock, RInv, TInv, TypeOK
<1>2. CASE pc[t] \in Appending
  <2>1. Log!Touched(t)
    BY <1>1, <1>2, CutTouches
  <2>2. Pend' = [Pend EXCEPT ![t] = None]
    BY <1>1, PendStep DEF Appending
  <2>3. QED
    BY <1>1, <2>1, <2>2, AbstractFail DEF ghosts
<1>3. CASE pc[t] = "erase"
  <2>1. Pend' = Pend
    BY <1>1, <1>3 DEF Pend, Appending
  <2>2. Log!Erase
    BY <1>1, <1>3, <2>1, EraseFinds, PayloadsConstant
       DEF Log!Erase, Pend, ghosts
  <2>3. QED
    BY <2>2 DEF Log!Next
<1>4. QED
  BY <1>1, <1>2, <1>3

LEMMA PowerLossImplements ==
  ASSUME NoFaults, RInv, TypeOK', PowerLoss
  PROVE  Log!Next
<1>1. Pend' = [t \in Tasks |-> None] /\ UNCHANGED ghosts
  BY DEF PowerLoss, Pend, Appending
<1>2. \/ PayloadsOf[Recoverable]' = PayloadsOf[Recoverable]
      \/ dirty /\ Log!Finds(PayloadsOf[log])
      \/ \E t \in Tasks : Log!Touched(t)
  <2>1. CASE mutex # None /\ pc[mutex] \in Appending \cup {"erase"}
    <3>1. PICK t \in Tasks : t = mutex
      BY <2>1 DEF RInv, TInv, TypeOK
    <3>2. PICK s \in Cut(t) : slots' = [slots EXCEPT ![cursor.slot] = s]
      BY <2>1, <3>1 DEF PowerLoss
    <3>3. CASE pc[t] \in Appending
      BY <1>1, <3>2, <3>3, CutTouches
    <3>4. CASE pc[t] = "erase"
      BY <1>1, <3>4, EraseFinds DEF ghosts
    <3>5. QED
      BY <2>1, <3>1, <3>3, <3>4
  <2>2. CASE ~(mutex # None /\ pc[mutex] \in Appending \cup {"erase"})
    <3>1. slots' = slots
      BY <2>2 DEF PowerLoss
    <3>2. QED
      BY <3>1, RecoverableFrame, PayloadsConstant
  <2>3. QED
    BY <2>1, <2>2
<1>3. Log!PowerLoss
  BY <1>1, <1>2, PayloadsConstant DEF Log!PowerLoss, Pend, ghosts
<1>4. QED
  BY <1>3 DEF Log!Next

LEMMA StepImplements ==
  ASSUME NoFaults, RInv, RInv', NEW t \in Tasks, Step(t)
  PROVE  Log!Next \/ UNCHANGED Log!logVars
<1>0. TypeOK /\ TypeOK'
  BY DEF RInv, TInv
<1>1. CASE Timeout(t)
  BY <1>1, TimeoutImplements
<1>2. CASE ClearCommit(t) \/ WriteHeader(t) \/ WritePayload(t)
  BY <1>0, <1>2, WriteImplements
<1>3. CASE WriteCommit(t)
  BY <1>3, WriteCommitImplements
<1>4. CASE LockClear(t) \/ EraseSlot(t) \/ EraseLast(t)
  BY <1>4, ClearImplements
<1>5. CASE IoError(t)
  BY <1>0, <1>5, IoErrorImplements
<1>6. CASE LockAppend(t) \/ PeekOldest(t) \/ PeekNewest(t) \/ LockIterate(t)
             \/ Visit(t) \/ NestedTimeout(t) \/ EndIterate(t)
  <2>1. /\ UNCHANGED <<slots, log, dirty>>
        /\ \A u \in Tasks : u # t => pc'[u] = pc[u] /\ buf'[u] = buf[u]
    BY <1>0, <1>6
       DEF LockAppend, PeekOldest, PeekNewest, PeekSlot, LockIterate, Visit,
           NestedTimeout, EndIterate, Lock, Unlock, TypeOK, ghosts
  <2>2. /\ pc[t] \in {"append"} \cup Appending
             <=> pc'[t] \in {"append"} \cup Appending
        /\ pc[t] \in {"append"} \cup Appending => buf'[t] = buf[t]
    BY <1>0, <1>6
       DEF LockAppend, PeekOldest, PeekNewest, PeekSlot, LockIterate, Visit,
           NestedTimeout, EndIterate, Lock, Unlock, TypeOK, Appending
  <2>3. QED
    BY <2>1, <2>2, QuietStutters
<1>7. QED
  BY <1>1, <1>2, <1>3, <1>4, <1>5, <1>6 DEF Step

LEMMA NextImplements ==
  NoFaults /\ RInv /\ RInv' /\ [Next]_vars => [Log!Next]_Log!logVars
<1>. SUFFICES ASSUME NoFaults, RInv, RInv', [Next]_vars
              PROVE  Log!Next \/ UNCHANGED Log!logVars
  OBVIOUS
<1>1. CASE RingInit
  BY <1>1, RingInitImplements
<1>2. CASE Deinit \/ UNCHANGED vars
  <2>1. UNCHANGED <<slots, log, dirty, Pend>>
    BY <1>2 DEF Deinit, vars, ghosts, Pend
  <2>2. QED
    BY <2>1, StutterStep
<1>3. CASE PowerLoss
  BY <1>3, PowerLossImplements DEF RInv, TInv
<1>4. ASSUME NEW t \in Tasks, Call(t)
      PROVE  Log!Next \/ UNCHANGED Log!logVars
  BY <1>4, CallImplements
<1>5. ASSUME NEW t \in Tasks, Step(t)
      PROVE  Log!Next \/ UNCHANGED Log!logVars
  BY <1>5, StepImplements
<1>6. QED
  BY <1>1, <1>2, <1>3, <1>4, <1>5 DEF Next

(* The ring, with all its slots, numbers and writes, is a crash-safe log:  *)
(* every step of it is a step of CrashSafeLog or changes nothing there.    *)
THEOREM RingImplementsLog == NoFaults => (Spec => ImplementsLog)
<1>. SUFFICES ASSUME NoFaults PROVE Spec => ImplementsLog
  OBVIOUS
<1>1. RInv /\ RInv' /\ [Next]_vars => [Log!Next]_Log!logVars
  BY NextImplements
<1>2. QED
  BY <1>1, InitImplements, RInvAlways, PTL DEF Spec, ImplementsLog, Log!Spec
=============================================================================
