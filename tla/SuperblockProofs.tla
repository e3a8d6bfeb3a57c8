-------------------------- MODULE SuperblockProofs --------------------------
(***************************************************************************)
(* Proofs about Superblock: type correctness for all values of the         *)
(* constants, and, for one writer whose reads succeed and whose sequence   *)
(* numbers do not wrap, that no failure loses the table, that both copies  *)
(* stay one generation apart and that a read racing a write is not stale.  *)
(***************************************************************************)
EXTENDS Superblock, TLAPS

-----------------------------------------------------------------------------
(* Type correctness. *)

WriterPCs == {"idle", "writeA", "writeB", "copy", "commit"}
ReaderPCs == {"idle", "readA", "readB"}

(* Writers write and readers read. *)
Roles ==
  /\ \A t \in Writers : pc[t] \in WriterPCs
  /\ \A t \in Readers : pc[t] \in ReaderPCs

WritersCarryBodies == \A t \in Writers : pc[t] # "idle" => temp[t] \in Body

TInv == TypeOK /\ Roles /\ WritersCarryBodies

LEMMA LookType ==
  ASSUME TypeOK, NEW i \in CopyIds, NEW x \in Look(i)
  PROVE  x \in Copy \cup {None}
BY DEF TypeOK, Look

LEMMA ValidType ==
  ASSUME NEW x \in Copy \cup {None}, Valid(x)
  PROVE  x \in Copy /\ x.body \in Body
BY DEF Valid, Copy

(* What the two functions compute from the copies they have read. *)
LEMMA ChoiceType ==
  ASSUME NEW x \in Copy \cup {None}, NEW y \in Copy \cup {None}
  PROVE  /\ Outcome(x, y) \in Body \cup {NotFound, Failed}
         /\ TargetIndex(x, y) \in CopyIds
         /\ NextSeq(x, y) \in Seqs
<1>1. Valid(x) => x.body \in Body
  BY ValidType
<1>2. Valid(y) => y.body \in Body
  BY ValidType
<1>3. Valid(x) \/ Valid(y) =>
        Newest(x, y).body \in Body /\ Newest(x, y).body.seq \in Seqs
  BY <1>1, <1>2 DEF Newest, Body
<1>4. NextSeq(x, y) \in Seqs
  BY <1>3, ConstantsAssumption DEF NextSeq, Seqs
<1>5. QED
  BY <1>3, <1>4 DEF Outcome, TargetIndex, CopyIds

(* What a device write leaves in the target, complete or cut, is a copy. *)
LEMMA CutType ==
  ASSUME TInv, NEW t \in Writers, pc[t] \in {"copy", "commit"}
  PROVE  Written(t) \in Copy /\ Cut(t) \subseteq Copy
<1>1. Target(t) \in Copy /\ temp[t] \in Body
  BY DEF TInv, TypeOK, WritersCarryBodies, Target
<1>2. Written(t) \in Copy
  BY <1>1 DEF Written, Copy, CLEAR, COMMIT, ERASED
<1>3. \A b \in {Garbage, temp[t]} : [Target(t) EXCEPT !.body = b] \in Copy
  BY <1>1 DEF Copy
<1>4. QED
  BY <1>1, <1>2, <1>3 DEF Cut

LEMMA InitTInv == Init => TInv
<1>. SUFFICES ASSUME Init PROVE TInv
  OBVIOUS
<1>1. Erased \in Copy /\ Foreign \in Copy
  BY DEF Erased, Foreign, Copy, CLEAR, COMMIT, ERASED
<1>2. TypeOK
  BY <1>1 DEF Init, TypeOK, CopyIds
<1>3. QED
  BY <1>2 DEF Init, TInv, Roles, WritersCarryBodies, WriterPCs, ReaderPCs,
              Tasks

LEMMA NextTInv == TInv /\ [Next]_vars => TInv'
<1>. SUFFICES ASSUME TInv, [Next]_vars PROVE TInv'
  OBVIOUS
<1>. USE DEF TInv
<1>0. \A t \in Writers : t \in Tasks /\ t \notin Readers
  BY ConstantsAssumption DEF Tasks
<1>1. CASE PowerLoss
  <2>1. copies' \in [CopyIds -> Copy]
    <3>1. CASE UNCHANGED copies
      BY <3>1 DEF TypeOK
    <3>2. ASSUME NEW t \in Writers, NEW c \in Cut(t),
                 pc[t] \in {"copy", "commit"},
                 copies' = [copies EXCEPT ![index[t]] = c]
          PROVE  copies' \in [CopyIds -> Copy]
      BY <3>2, CutType DEF TypeOK
    <3>3. QED
      BY <1>1, <3>1, <3>2 DEF PowerLoss
  <2>2. TypeOK'
    BY <1>1, <2>1 DEF PowerLoss, ghosts, TypeOK
  <2>3. QED
    BY <1>1, <2>2
       DEF PowerLoss, Roles, WritersCarryBodies, WriterPCs, ReaderPCs, Tasks
<1>2. ASSUME NEW t \in Writers, WriterStep(t) PROVE TInv'
  <2>. USE DEF ghosts
  <2>1. t \in Tasks /\ pc[t] \in WriterPCs
    BY <1>0 DEF Roles
  <2>2. ASSUME NEW p \in Parts, CallWrite(t, p) PROVE TInv'
    <3>1. [seq |-> 0, parts |-> p] \in Body
      BY <2>2, ConstantsAssumption DEF Body, Seqs
    <3>2. \A r \in Readers : Add(overlap[r], 1) \in 0..2
      BY DEF Add, TypeOK
    <3>3. TypeOK'
      BY <2>1, <2>2, <3>1, <3>2 DEF CallWrite, TypeOK
    <3>4. QED
      BY <1>0, <2>1, <2>2, <3>1, <3>3
         DEF CallWrite, TypeOK, Roles, WritersCarryBodies, WriterPCs
  <2>3. CASE LookA(t)
    <3>1. PICK x \in Look(0) : a' = [a EXCEPT ![t] = x]
      BY <2>3 DEF LookA
    <3>2. x \in Copy \cup {None}
      BY LookType DEF CopyIds
    <3>3. pc[t] = "writeA" /\ pc' = [pc EXCEPT ![t] = "writeB"]
      BY <2>1, <2>3 DEF LookA, WriterPCs
    <3>4. TypeOK'
      BY <2>1, <2>3, <3>1, <3>2, <3>3 DEF LookA, TypeOK
    <3>5. QED
      BY <1>0, <2>1, <2>3, <3>3, <3>4
         DEF LookA, TypeOK, Roles, WritersCarryBodies, WriterPCs
  <2>4. CASE LookB(t)
    <3>1. PICK y \in Look(1) :
            /\ index' = [index EXCEPT ![t] = TargetIndex(a[t], y)]
            /\ temp' = [temp EXCEPT ![t].seq = NextSeq(a[t], y)]
      BY <2>4 DEF LookB
    <3>2. y \in Copy \cup {None} /\ a[t] \in Copy \cup {None}
      BY <2>1, LookType DEF CopyIds, TypeOK
    <3>3. TargetIndex(a[t], y) \in CopyIds /\ NextSeq(a[t], y) \in Seqs
      BY <3>2, ChoiceType
    <3>4. temp[t] \in Body
      BY <2>4 DEF LookB, WritersCarryBodies
    <3>5. [temp[t] EXCEPT !.seq = NextSeq(a[t], y)] \in Body
      BY <3>3, <3>4 DEF Body
    <3>6. temp' \in [Writers -> Body \cup {None}] /\ temp'[t] \in Body
      BY <3>1, <3>5 DEF TypeOK
    <3>7. TypeOK'
      BY <2>1, <2>4, <3>1, <3>3, <3>6 DEF LookB, TypeOK
    <3>8. QED
      BY <1>0, <2>1, <2>4, <3>1, <3>6, <3>7
         DEF LookB, TypeOK, Roles, WritersCarryBodies, WriterPCs
  <2>5. CASE WriteCopy(t)
    <3>1. Written(t) \in Copy
      BY <2>5, CutType DEF WriteCopy
    <3>2. TypeOK'
      BY <2>1, <2>5, <3>1 DEF WriteCopy, TypeOK
    <3>3. QED
      BY <1>0, <2>1, <2>5, <3>2
         DEF WriteCopy, TypeOK, Roles, WritersCarryBodies, WriterPCs
  <2>6. CASE WriteCommit(t)
    <3>1. Written(t) \in Copy /\ temp[t] \in Body
      BY <2>6, CutType DEF WriteCommit, WritersCarryBodies
    <3>2. TypeOK'
      BY <2>1, <2>6, <3>1 DEF WriteCommit, TypeOK
    <3>3. QED
      BY <1>0, <2>1, <2>6, <3>2
         DEF WriteCommit, TypeOK, Roles, WritersCarryBodies, WriterPCs
  <2>7. CASE IoError(t)
    <3>1. Cut(t) \subseteq Copy
      BY <2>7, CutType DEF IoError
    <3>2. TypeOK'
      BY <2>1, <2>7, <3>1 DEF IoError, TypeOK
    <3>3. QED
      BY <1>0, <2>1, <2>7, <3>2
         DEF IoError, TypeOK, Roles, WritersCarryBodies, WriterPCs
  <2>8. QED
    BY <1>2, <2>2, <2>3, <2>4, <2>5, <2>6, <2>7 DEF WriterStep
<1>3. ASSUME NEW t \in Readers, ReaderStep(t) PROVE TInv'
  <2>. USE DEF ghosts
  <2>1. t \in Tasks /\ pc[t] \in ReaderPCs
    BY DEF Roles, Tasks
  <2>2. CASE CallRead(t)
    BY <1>0, <2>1, <2>2
       DEF CallRead, TypeOK, Roles, WritersCarryBodies, ReaderPCs
  <2>3. CASE LookA(t)
    <3>1. PICK x \in Look(0) : a' = [a EXCEPT ![t] = x]
      BY <2>3 DEF LookA
    <3>2. x \in Copy \cup {None}
      BY LookType DEF CopyIds
    <3>3. pc[t] = "readA" /\ pc' = [pc EXCEPT ![t] = "readB"]
      BY <2>1, <2>3 DEF LookA, ReaderPCs
    <3>4. TypeOK'
      BY <2>1, <2>3, <3>1, <3>2, <3>3 DEF LookA, TypeOK
    <3>5. QED
      BY <1>0, <2>1, <2>3, <3>3, <3>4
         DEF LookA, TypeOK, Roles, WritersCarryBodies, ReaderPCs
  <2>4. CASE ReadB(t)
    <3>1. PICK y \in Look(1) : out' = [out EXCEPT ![t] = Outcome(a[t], y)]
      BY <2>4 DEF ReadB
    <3>2. Outcome(a[t], y) \in Body \cup {NotFound, Failed}
      BY <2>1, LookType, ChoiceType DEF CopyIds, TypeOK
    <3>3. TypeOK'
      BY <2>1, <2>4, <3>1, <3>2 DEF ReadB, TypeOK
    <3>4. QED
      BY <1>0, <2>1, <2>4, <3>3
         DEF ReadB, TypeOK, Roles, WritersCarryBodies, ReaderPCs
  <2>5. QED
    BY <1>3, <2>2, <2>3, <2>4 DEF ReaderStep
<1>4. CASE UNCHANGED vars
  BY <1>4 DEF vars, TypeOK, Roles, WritersCarryBodies
<1>5. QED
  BY <1>1, <1>2, <1>3, <1>4 DEF Next

LEMMA TInvAlways == Spec => []TInv
BY InitTInv, NextTInv, PTL DEF Spec

(* The variables keep the types of their C declarations, for any number of *)
(* writers and readers and with every read fault.                          *)
THEOREM TypeCorrect == Spec => []TypeOK
<1>1. TInv => TypeOK
  BY DEF TInv
<1>2. QED
  BY <1>1, TInvAlways, PTL


-----------------------------------------------------------------------------
(* What is read. *)

LEMMA NewestIs ==
  ASSUME NEW x \in Copy \cup {None}, NEW y \in Copy \cup {None}
  PROVE  /\ Valid(x) /\ (Valid(y) => y.body.seq < x.body.seq)
              => Outcome(x, y) = x.body
         /\ Valid(y) /\ (Valid(x) => x.body.seq < y.body.seq)
              => Outcome(x, y) = y.body
         /\ ~Valid(x) /\ ~Valid(y) => Outcome(x, y) \in {NotFound, Failed}
<1>1. \A c \in {x, y} : Valid(c) => c # None /\ c.body.seq \in Nat
  BY ValidType, ConstantsAssumption DEF Valid, Body, Seqs
<1>2. QED
  BY <1>1 DEF Outcome, Newest

LEMMA OutcomeIsNewest ==
  ASSUME NEW x \in Copy \cup {None}, NEW y \in Copy \cup {None}
  PROVE  /\ Valid(x) => /\ Outcome(x, y) \in Body
                        /\ Outcome(x, y).seq >= x.body.seq
         /\ Valid(y) => /\ Outcome(x, y) \in Body
                        /\ Outcome(x, y).seq >= y.body.seq
<1>1. \A c \in {x, y} : Valid(c) =>
         c # None /\ c.body \in Body /\ c.body.seq \in Nat
  BY ValidType, ConstantsAssumption DEF Valid, Body, Seqs
<1>2. QED
  BY <1>1 DEF Outcome, Newest
-----------------------------------------------------------------------------
(* The A/B scheme. The assumptions are named where they are used: one task *)
(* writes, device reads succeed, and the numbers do not reach the top of   *)
(* their range.                                                            *)

OneWriter ==
  /\ \A v, w \in Writers : v = w
  /\ ~ReadFaults
  /\ MaxSeq + 1 < SeqCount

HasBody(i) == copies[i].body \in Body
SeqOf(i) == copies[i].body.seq

Consecutive(m, n) == m = n + 1 \/ n = m + 1

(* The two copies, whatever was written last and however far it got. A     *)
(* body counts before its commit byte does, so that a torn write never     *)
(* repeats a number.                                                       *)
CopiesOK ==
  /\ \A i \in CopyIds : HasBody(i) => SeqOf(i) <= MaxSeq + 1
  /\ HasBody(0) /\ HasBody(1) => Consecutive(SeqOf(0), SeqOf(1))
  /\ ~Valid(copies[0]) /\ ~Valid(copies[1]) => ~HasBody(1)

(* What a read gives was promised, and numbers tell how recent it is. *)
PromiseOK ==
  /\ AckedSurvives
  /\ acked # None => \A b \in tried : b.seq > acked.seq

(* The copy a write under way has chosen, against the other one. *)
Aimed(t) ==
  LET i == index[t]
      o == 1 - i
  IN
  /\ temp[t] \in tried
  /\ temp[t].seq <= MaxSeq + 1
  /\ IF Valid(copies[o])
     THEN /\ temp[t].seq = SeqOf(o) + 1
          /\ Valid(copies[i]) => SeqOf(i) < SeqOf(o)
     ELSE i = 0 /\ temp[t].seq = 1 /\ ~Valid(copies[0])
  /\ pc[t] = "commit" => copies[i] = [body |-> temp[t], commit |-> CLEAR]

WriterOK(t) ==
  /\ pc[t] \in {"writeA", "writeB"} =>
       \A i \in CopyIds : Valid(copies[i]) => SeqOf(i) < MaxSeq
  /\ pc[t] = "writeB" => a[t] = copies[0]
  /\ pc[t] \in {"copy", "commit"} => Aimed(t)

(* The second copy holds a table that is recent enough for reader r, and   *)
(* the one write that r's call may overlap leaves it alone.                *)
SecondHolds(r) ==
  /\ Valid(copies[1])
  /\ SeqOf(1) >= start[r].seq
  /\ \/ Valid(copies[0]) => SeqOf(0) < SeqOf(1)
     \/ /\ overlap[r] = 1
        /\ \A w \in Writers : pc[w] # "idle" =>
             pc[w] \in {"copy", "commit"} /\ index[w] = 0

ReaderOK(r) ==
  pc[r] # "idle" =>
    /\ (\E w \in Writers : pc[w] # "idle") => overlap[r] > 0
    /\ start[r] # None => acked # None /\ acked.seq >= start[r].seq
    /\ pc[r] = "readB" /\ start[r] # None /\ overlap[r] <= 1 =>
         \/ Valid(a[r]) /\ a[r].body.seq >= start[r].seq
         \/ SecondHolds(r)

IInv ==
  /\ TInv
  /\ CopiesOK
  /\ PromiseOK
  /\ \A t \in Writers : WriterOK(t)
  /\ \A r \in Readers : ReaderOK(r)

LEMMA CopyTypes ==
  ASSUME TypeOK
  PROVE  /\ copies[0] \in Copy /\ copies[1] \in Copy
         /\ \A b \in Body : b.seq \in Nat /\ b # Garbage
         /\ \A i \in CopyIds : Valid(copies[i]) => HasBody(i)
         /\ copies \in [CopyIds -> Copy] /\ CopyIds = {0, 1}
<1>1. copies[0] \in Copy /\ copies[1] \in Copy
  BY DEF TypeOK, CopyIds
<1>2. \A b \in Body : b.seq \in Nat /\ b # Garbage
  BY ConstantsAssumption DEF Body, Seqs
<1>3. \A c \in Copy : Valid(c) => c.body \in Body
  BY ValidType
<1>4. QED
  BY <1>1, <1>2, <1>3 DEF TypeOK, CopyIds, HasBody

(* While something is promised, the newest copy is as recent as that. *)
LEMMA StoredIsRecent ==
  ASSUME TypeOK, PromiseOK, acked # None
  PROVE  /\ Valid(copies[0]) \/ Valid(copies[1])
         /\ Stored \in Body /\ Stored.seq >= acked.seq
<1>1. Stored \in {acked} \cup tried /\ acked \in Body /\ tried \subseteq Body
  BY DEF PromiseOK, AckedSurvives, TypeOK
<1>2. Stored \in Body /\ \A b \in Body : b.seq \in Nat
  BY <1>1, CopyTypes
<1>3. Stored.seq >= acked.seq
  BY <1>1, <1>2 DEF PromiseOK
<1>4. Stored \notin {NotFound, Failed}
  BY <1>2, ConstantsAssumption
<1>5. QED
  BY <1>2, <1>3, <1>4, CopyTypes, NewestIs DEF Stored

(* Of two valid copies one is strictly newer, and it is what is read. *)
LEMMA StoredIs ==
  ASSUME TypeOK, CopiesOK, NEW i \in CopyIds, NEW o \in CopyIds, o # i,
         Valid(copies[o]), Valid(copies[i]) => SeqOf(i) < SeqOf(o)
  PROVE  Stored = copies[o].body
BY CopyTypes, NewestIs DEF Stored, SeqOf, CopyIds

(* What a device write leaves of the target of t. *)
LEMMA CutIs ==
  ASSUME TInv, NEW t \in Writers, pc[t] \in {"copy", "commit"}, Aimed(t),
         NEW c \in Cut(t)
  PROVE  /\ c \in Copy
         /\ \/ c = copies[index[t]]
            \/ c.body = temp[t]
            \/ ~Valid(c) /\ c.body = Garbage
         /\ temp[t] \in Body
<1>1. Target(t) \in Copy /\ temp[t] \in Body /\ Target(t) = copies[index[t]]
  BY DEF TInv, TypeOK, WritersCarryBodies, Target
<1>2. CASE pc[t] = "copy"
  <2>1. c = Target(t) \/ c = Written(t)
          \/ \E b \in {Garbage, temp[t]} : c = [Target(t) EXCEPT !.body = b]
    BY <1>2 DEF Cut
  <2>2. c = Written(t) => c.body = temp[t]
    BY <1>2 DEF Written
  <2>3. \A b : [Target(t) EXCEPT !.body = b].body = b
    BY <1>1 DEF Copy
  <2>4. QED
    BY <1>1, <2>1, <2>2, <2>3, CutType DEF Valid
<1>3. CASE pc[t] = "commit"
  <2>1. c = Target(t) \/ c = [Target(t) EXCEPT !.commit = COMMIT]
    BY <1>3 DEF Cut, Written
  <2>2. Target(t).body = temp[t]
    BY <1>1, <1>3 DEF Aimed
  <2>3. QED
    BY <1>1, <2>1, <2>2, CutType DEF Copy
<1>4. QED
  BY <1>2, <1>3

(* A write that is complete or cut leaves the copies one number apart. *)
LEMMA WriteKeepsCopies ==
  ASSUME TInv, CopiesOK, NEW t \in Writers, pc[t] \in {"copy", "commit"},
         Aimed(t), NEW c \in Cut(t), copies' = [copies EXCEPT ![index[t]] = c]
  PROVE  CopiesOK'
<1>1. TypeOK /\ index[t] \in CopyIds
  BY DEF TInv, TypeOK
<1>2. /\ c = copies[index[t]] \/ c.body = temp[t] \/ c.body = Garbage
      /\ Valid(c) => c.body \in Body
      /\ temp[t] \in Body
  BY CutIs, ValidType
<1>3. CASE index[t] = 0
  <2>1. copies'[0] = c /\ copies'[1] = copies[1]
    BY <1>1, <1>3, CopyTypes
  <2>2. Valid(copies[1]) => temp[t].seq = SeqOf(1) + 1
    BY <1>3 DEF Aimed
  <2>3. ~Valid(copies[1]) => ~HasBody(1)
    BY <1>3 DEF Aimed, CopiesOK
  <2>4. temp[t].seq <= MaxSeq + 1
    BY DEF Aimed
  <2>5. QED
    BY <1>1, <1>2, <1>3, <2>1, <2>2, <2>3, <2>4, CopyTypes
       DEF CopiesOK, HasBody, SeqOf, Consecutive
<1>4. CASE index[t] = 1
  <2>1. copies'[1] = c /\ copies'[0] = copies[0]
    BY <1>1, <1>4, CopyTypes
  <2>2. Valid(copies[0]) /\ temp[t].seq = SeqOf(0) + 1
    BY <1>4 DEF Aimed
  <2>3. temp[t].seq <= MaxSeq + 1
    BY DEF Aimed
  <2>4. QED
    BY <1>1, <1>2, <1>4, <2>1, <2>2, <2>3, CopyTypes
       DEF CopiesOK, HasBody, SeqOf, Consecutive
<1>5. QED
  BY <1>1, <1>3, <1>4, CopyTypes

(* The table of a write under way is newer than what was promised. *)
LEMMA AimedIsNewer ==
  ASSUME TInv, CopiesOK, PromiseOK, NEW t \in Writers,
         pc[t] \in {"copy", "commit"}, Aimed(t), acked # None
  PROVE  /\ Valid(copies[1 - index[t]])
         /\ Stored = copies[1 - index[t]].body
         /\ temp[t].seq = Stored.seq + 1
         /\ temp[t].seq > acked.seq
<1>1. TypeOK /\ index[t] \in CopyIds /\ CopyIds = {0, 1} /\ acked \in Body
  BY CopyTypes DEF TInv, TypeOK
<1>2. Valid(copies[0]) \/ Valid(copies[1])
  BY <1>1, StoredIsRecent
<1>3. Valid(copies[1 - index[t]])
  BY <1>1, <1>2 DEF Aimed
<1>4. /\ temp[t].seq = SeqOf(1 - index[t]) + 1
      /\ Valid(copies[index[t]]) => SeqOf(index[t]) < SeqOf(1 - index[t])
  BY <1>3 DEF Aimed
<1>5. 1 - index[t] \in CopyIds /\ 1 - index[t] # index[t]
  BY <1>1
<1>6. Stored = copies[1 - index[t]].body
  BY <1>1, <1>3, <1>4, <1>5, StoredIs
<1>7. Stored.seq \in Nat /\ acked.seq \in Nat /\ Stored.seq >= acked.seq
  BY <1>1, StoredIsRecent, CopyTypes
<1>8. QED
  BY <1>3, <1>4, <1>6, <1>7 DEF SeqOf

(* A write that stops anywhere keeps the promise. *)
LEMMA WriteKeepsPromise ==
  ASSUME TInv, CopiesOK, PromiseOK, NEW t \in Writers,
         pc[t] \in {"copy", "commit"}, Aimed(t), NEW c \in Cut(t),
         copies' = [copies EXCEPT ![index[t]] = c], UNCHANGED <<acked, tried>>
  PROVE  PromiseOK'
<1>1. SUFFICES ASSUME acked # None PROVE Stored' \in {acked} \cup tried
  BY DEF PromiseOK, AckedSurvives
<1>. DEFINE i == index[t]
            o == 1 - i
<1>2. TypeOK /\ i \in CopyIds /\ o \in CopyIds /\ CopyIds = {0, 1} /\ i # o
  BY CopyTypes DEF TInv, TypeOK
<1>3. /\ copies[o] \in Copy /\ Valid(copies[o]) /\ Stored = copies[o].body
      /\ temp[t].seq = copies[o].body.seq + 1
      /\ Valid(copies[i]) => copies[i].body.seq < copies[o].body.seq
      /\ copies[o].body.seq \in Nat
  <2>1. Valid(copies[o]) /\ Stored = copies[o].body
        /\ temp[t].seq = copies[o].body.seq + 1
    BY <1>1, AimedIsNewer
  <2>2. Valid(copies[i]) => SeqOf(i) < SeqOf(o)
    BY <2>1 DEF Aimed
  <2>3. copies[o] \in Copy /\ copies[o].body.seq \in Nat
    BY <1>2, <2>1, CopyTypes DEF HasBody
  <2>4. QED
    BY <2>1, <2>2, <2>3 DEF SeqOf
<1>4. copies'[i] = c /\ copies'[o] = copies[o]
  BY <1>2, CopyTypes
<1>5. /\ c \in Copy /\ temp[t] \in tried
      /\ c = copies[i] \/ c.body = temp[t] \/ ~Valid(c)
  BY CutIs DEF Aimed
<1>6. Stored' = Outcome(copies'[0], copies'[1])
  BY DEF Stored
<1>. HIDE DEF i, o
<1>7. Stored \in {acked} \cup tried
  BY <1>1 DEF PromiseOK, AckedSurvives
<1>8. CASE i = 0
  <2>1. o = 1
    BY <1>2, <1>8
  <2>2. Stored' \in {copies[o].body, temp[t]}
    BY <1>3, <1>4, <1>5, <1>6, <1>8, <2>1, NewestIs
  <2>3. QED
    BY <1>3, <1>5, <1>7, <2>2
<1>9. CASE i = 1
  <2>1. o = 0
    BY <1>2, <1>9
  <2>2. Stored' \in {copies[o].body, temp[t]}
    BY <1>3, <1>4, <1>5, <1>6, <1>9, <2>1, NewestIs
  <2>3. QED
    BY <1>3, <1>5, <1>7, <2>2
<1>10. QED
  BY <1>2, <1>8, <1>9

(* A write that returns OK is what the next read gives. *)
LEMMA CommitKeepsPromise ==
  ASSUME TInv, CopiesOK, PromiseOK, NEW t \in Writers, Aimed(t),
         WriteCommit(t)
  PROVE  PromiseOK'
<1>. DEFINE i == index[t]
            o == 1 - i
            c == Written(t)
<1>1. /\ TypeOK /\ i \in CopyIds /\ o \in CopyIds /\ CopyIds = {0, 1}
      /\ pc[t] = "commit" /\ temp[t] \in Body
  BY CopyTypes DEF TInv, TypeOK, WriteCommit, WritersCarryBodies
<1>2. copies[i] = [body |-> temp[t], commit |-> CLEAR]
  BY <1>1 DEF Aimed
<1>3. c = [body |-> temp[t], commit |-> COMMIT] /\ c \in Copy
  BY <1>1, <1>2, CutType DEF Written, Target
<1>4. Valid(c) /\ c.body = temp[t]
  BY <1>1, <1>3, CopyTypes, ConstantsAssumption DEF Valid
<1>5. /\ copies'[i] = c /\ copies'[o] = copies[o] /\ i # o
      /\ acked' = temp[t] /\ tried' = {b \in tried : b.seq > temp[t].seq}
  BY <1>1, CopyTypes DEF WriteCommit
<1>6. Valid(copies[o]) => copies[o].body.seq < temp[t].seq
  <2>1. Valid(copies[o]) => temp[t].seq = SeqOf(o) + 1 /\ SeqOf(o) \in Nat
    BY <1>1, CopyTypes DEF Aimed, HasBody, SeqOf
  <2>2. QED
    BY <2>1 DEF SeqOf
<1>7. Stored' = Outcome(copies'[0], copies'[1]) /\ copies[o] \in Copy
  BY <1>1, CopyTypes DEF Stored
<1>. HIDE DEF i, o, c
<1>8. Stored' = temp[t]
  <2>1. CASE i = 0 /\ o = 1
    BY <1>3, <1>4, <1>5, <1>6, <1>7, <2>1, NewestIs
  <2>2. CASE i = 1 /\ o = 0
    BY <1>3, <1>4, <1>5, <1>6, <1>7, <2>2, NewestIs
  <2>3. QED
    BY <1>1, <1>5, <2>1, <2>2
<1>9. QED
  BY <1>5, <1>8 DEF PromiseOK, AckedSurvives

(* The target is chosen from what the copies hold now: no other task wrote. *)
LEMMA LookBAims ==
  ASSUME OneWriter, TInv, CopiesOK, PromiseOK, NEW t \in Writers,
         WriterOK(t), LookB(t)
  PROVE  Aimed(t)' /\ PromiseOK'
<1>. DEFINE x == copies[0]
            y == copies[1]
<1>1. /\ pc[t] = "writeB" /\ a[t] = x /\ copies' = copies /\ acked' = acked
      /\ \A i \in CopyIds : Valid(copies[i]) => SeqOf(i) < MaxSeq
      /\ TypeOK /\ pc'[t] = "copy"
  BY DEF LookB, WriterOK, TInv, TypeOK, Tasks
<1>2. index'[t] = TargetIndex(x, y) /\ temp'[t].seq = NextSeq(x, y)
  <2>1. Look(1) = {y}
    BY DEF OneWriter, Look
  <2>2. temp[t] \in Body /\ temp \in [Writers -> Body \cup {None}]
    BY <1>1 DEF TInv, TypeOK, WritersCarryBodies
  <2>3. /\ index' = [index EXCEPT ![t] = TargetIndex(x, y)]
        /\ temp' = [temp EXCEPT ![t].seq = NextSeq(x, y)]
    BY <1>1, <2>1 DEF LookB
  <2>4. QED
    BY <1>1, <2>2, <2>3 DEF TypeOK, Body
<1>3. tried' = tried \cup {temp'[t]}
  BY DEF LookB
<1>4. /\ x \in Copy /\ y \in Copy
      /\ Valid(x) => HasBody(0) /\ SeqOf(0) \in Nat /\ SeqOf(0) < MaxSeq
      /\ Valid(y) => HasBody(1) /\ SeqOf(1) \in Nat /\ SeqOf(1) < MaxSeq
  BY <1>1, CopyTypes DEF HasBody, SeqOf
<1>5. Valid(x) /\ Valid(y) => Consecutive(SeqOf(0), SeqOf(1))
  BY <1>4 DEF CopiesOK
<1>6. /\ Valid(x) /\ (Valid(y) => SeqOf(1) < SeqOf(0))
           => index'[t] = 1 /\ temp'[t].seq = SeqOf(0) + 1
      /\ Valid(y) /\ (Valid(x) => SeqOf(0) < SeqOf(1))
           => index'[t] = 0 /\ temp'[t].seq = SeqOf(1) + 1
      /\ ~Valid(x) /\ ~Valid(y) => index'[t] = 0 /\ temp'[t].seq = 1
  <2>1. \A n \in Nat : n < MaxSeq => (n + 1) % SeqCount = n + 1
    BY ConstantsAssumption DEF OneWriter
  <2>2. QED
    BY <1>2, <1>4, <2>1 DEF TargetIndex, NextSeq, Newest, SeqOf
<1>7. MaxSeq \in Nat
  BY ConstantsAssumption
<1>8. CASE Valid(x) /\ (Valid(y) => SeqOf(1) < SeqOf(0))
  <2>1. /\ index'[t] = 1 /\ temp'[t].seq = SeqOf(0) + 1
        /\ temp'[t].seq <= MaxSeq + 1
    BY <1>4, <1>6, <1>7, <1>8
  <2>2. Aimed(t)'
    BY <1>1, <1>3, <1>8, <2>1 DEF Aimed, SeqOf
  <2>3. acked # None => temp'[t].seq > acked.seq
    BY <1>1, <1>4, <1>8, <2>1, StoredIsRecent, CopyTypes, NewestIs
       DEF Stored, SeqOf, TypeOK
  <2>4. QED
    BY <1>1, <1>3, <2>2, <2>3 DEF PromiseOK, AckedSurvives, Stored
<1>9. CASE Valid(y) /\ (Valid(x) => SeqOf(0) < SeqOf(1))
  <2>1. /\ index'[t] = 0 /\ temp'[t].seq = SeqOf(1) + 1
        /\ temp'[t].seq <= MaxSeq + 1
    BY <1>4, <1>6, <1>7, <1>9
  <2>2. Aimed(t)'
    BY <1>1, <1>3, <1>9, <2>1 DEF Aimed, SeqOf
  <2>3. acked # None => temp'[t].seq > acked.seq
    BY <1>1, <1>4, <1>9, <2>1, StoredIsRecent, CopyTypes, NewestIs
       DEF Stored, SeqOf, TypeOK
  <2>4. QED
    BY <1>1, <1>3, <2>2, <2>3 DEF PromiseOK, AckedSurvives, Stored
<1>10. CASE ~Valid(x) /\ ~Valid(y)
  <2>1. index'[t] = 0 /\ temp'[t].seq = 1 /\ temp'[t].seq <= MaxSeq + 1
    BY <1>6, <1>7, <1>10
  <2>2. Aimed(t)'
    BY <1>1, <1>3, <1>10, <2>1 DEF Aimed, SeqOf
  <2>3. acked = None
    BY <1>1, <1>10, StoredIsRecent
  <2>4. QED
    BY <1>1, <1>3, <2>2, <2>3 DEF PromiseOK, AckedSurvives
<1>11. QED
  BY <1>4, <1>5, <1>8, <1>9, <1>10 DEF Consecutive

(* A reader in the middle of its call, when the copies change under it. *)
LEMMA WriteKeepsReader ==
  ASSUME OneWriter, IInv, NEW t \in Writers, pc[t] \in {"copy", "commit"},
         NEW c \in Cut(t), copies' = [copies EXCEPT ![index[t]] = c],
         UNCHANGED <<a, index, start, overlap>>,
         pc'[t] \in {"idle", "commit"},
         \A r \in Readers : pc'[r] = pc[r],
         acked # None => acked' # None /\ acked'.seq >= acked.seq,
         acked' \in Body \cup {None},
         NEW r \in Readers
  PROVE  ReaderOK(r)'
<1>1. /\ TypeOK /\ Aimed(t) /\ ReaderOK(r) /\ CopyIds = {0, 1}
      /\ \A w \in Writers : w = t
  BY CopyTypes DEF IInv, TInv, WriterOK, OneWriter
<1>2. SUFFICES ASSUME pc[r] # "idle" PROVE ReaderOK(r)'
  BY DEF ReaderOK
<1>3. overlap[r] > 0 /\ overlap[r] \in 0..2
  BY <1>1, <1>2 DEF ReaderOK, TypeOK
<1>4. start[r] # None => acked' # None /\ acked'.seq >= start[r].seq
  <2>1. ASSUME start[r] # None
        PROVE  /\ acked # None /\ acked.seq >= start[r].seq
               /\ acked.seq \in Nat /\ start[r].seq \in Nat
    BY <1>1, <1>2, <2>1, CopyTypes DEF ReaderOK, TypeOK
  <2>2. acked' \in Body => acked'.seq \in Nat
    BY <1>1, CopyTypes
  <2>3. QED
    BY <2>1, <2>2
<1>5. ASSUME SecondHolds(r), overlap[r] <= 1 PROVE SecondHolds(r)'
  <2>1. Valid(copies[1]) /\ SeqOf(1) \in Nat
    BY <1>1, <1>5, CopyTypes DEF SecondHolds, HasBody, SeqOf
  <2>2. index[t] = 0
    <3>1. SUFFICES ASSUME index[t] = 1 PROVE FALSE
      BY <1>1 DEF TypeOK
    <3>2. Valid(copies[0]) /\ SeqOf(1) < SeqOf(0) /\ SeqOf(0) \in Nat
      BY <1>1, <2>1, <3>1, CopyTypes DEF Aimed, HasBody, SeqOf
    <3>3. ~(Valid(copies[0]) => SeqOf(0) < SeqOf(1))
      BY <2>1, <3>2
    <3>4. QED
      BY <1>5, <3>1, <3>3 DEF SecondHolds
  <2>3. copies'[1] = copies[1] /\ overlap[r] = 1
    BY <1>1, <1>3, <1>5, <2>2, CopyTypes
  <2>4. QED
    BY <1>1, <1>5, <2>2, <2>3 DEF SecondHolds, SeqOf
<1>6. QED
  BY <1>1, <1>2, <1>3, <1>4, <1>5 DEF ReaderOK

LEMMA InitIInv == Init => IInv
<1>. SUFFICES ASSUME Init PROVE IInv
  OBVIOUS
<1>1. \A i \in CopyIds : ~HasBody(i) /\ ~Valid(copies[i])
  BY ConstantsAssumption DEF Init, HasBody, Valid, Erased, Foreign
<1>2. CopiesOK
  BY <1>1 DEF CopiesOK, CopyIds
<1>3. PromiseOK
  BY DEF Init, PromiseOK, AckedSurvives
<1>4. (\A t \in Writers : WriterOK(t)) /\ (\A r \in Readers : ReaderOK(r))
  BY DEF Init, WriterOK, ReaderOK, Tasks
<1>5. QED
  BY <1>2, <1>3, <1>4, InitTInv DEF IInv

(* A step of the writer that leaves the copies alone. *)
LEMMA QuietWrite ==
  ASSUME OneWriter, IInv, NEW t \in Writers,
         pc[t] \in {"idle", "writeA", "writeB"}, pc'[t] # "idle",
         UNCHANGED <<copies, acked, start>>,
         \A r \in Readers : pc'[r] = pc[r] /\ a'[r] = a[r],
         \/ pc[t] = "idle" /\ \A r \in Readers : overlap'[r] = Add(overlap[r], 1)
         \/ pc[t] # "idle" /\ overlap' = overlap,
         NEW r \in Readers
  PROVE  ReaderOK(r)'
<1>1. /\ ReaderOK(r) /\ overlap[r] \in 0..2 /\ \A w \in Writers : w = t
  BY DEF IInv, TInv, TypeOK, OneWriter
<1>2. SUFFICES ASSUME pc[r] # "idle" PROVE ReaderOK(r)'
  BY DEF ReaderOK
<1>3. overlap'[r] > 0
  BY <1>1, <1>2 DEF ReaderOK, Add
<1>4. ASSUME SecondHolds(r), overlap'[r] <= 1
      PROVE  SecondHolds(r)'
  <2>1. overlap[r] = 0 \/ pc[t] \in {"writeA", "writeB"}
    BY <1>1, <1>4 DEF Add
  <2>2. Valid(copies[0]) => SeqOf(0) < SeqOf(1)
    BY <1>1, <1>4, <2>1 DEF SecondHolds
  <2>3. QED
    BY <1>4, <2>2 DEF SecondHolds, SeqOf
<1>5. overlap'[r] <= 1 => overlap[r] <= 1
  BY <1>1 DEF Add
<1>6. QED
  BY <1>1, <1>2, <1>3, <1>4, <1>5 DEF ReaderOK

LEMMA SameCopies ==
  ASSUME CopiesOK, PromiseOK, UNCHANGED <<copies, acked, tried>>
  PROVE  CopiesOK' /\ PromiseOK'
BY DEF CopiesOK, PromiseOK, AckedSurvives, Stored, HasBody, SeqOf, Consecutive

LEMMA WriterIInv ==
  ASSUME OneWriter, IInv, TInv', NEW t \in Writers, WriterStep(t)
  PROVE  IInv'
<1>1. /\ TInv /\ CopiesOK /\ PromiseOK /\ TypeOK /\ TypeOK'
      /\ WriterOK(t) /\ t \in Tasks /\ \A w \in Writers : w = t
      /\ \A r \in Readers : r \in Tasks /\ r # t
  BY ConstantsAssumption DEF IInv, TInv, OneWriter, Tasks
<1>2. SUFFICES /\ CopiesOK' /\ PromiseOK' /\ WriterOK(t)'
               /\ \A r \in Readers : ReaderOK(r)'
  BY <1>1 DEF IInv
<1>3. ASSUME NEW p \in Parts, CallWrite(t, p)
      PROVE  /\ CopiesOK' /\ PromiseOK' /\ WriterOK(t)'
             /\ \A r \in Readers : ReaderOK(r)'
  <2>1. /\ pc[t] = "idle" /\ pc'[t] = "writeA"
        /\ UNCHANGED <<copies, a, acked, tried, start>>
        /\ \A r \in Readers : pc'[r] = pc[r]
        /\ \A r \in Readers : overlap'[r] = Add(overlap[r], 1)
    BY <1>1, <1>3 DEF CallWrite, TypeOK
  <2>2. WriterOK(t)'
    BY <1>3, <2>1 DEF CallWrite, WriterOK, SeqOf
  <2>3. QED
    BY <1>1, <2>1, <2>2, SameCopies, QuietWrite
<1>4. CASE LookA(t)
  <2>1. pc[t] = "writeA" /\ pc'[t] = "writeB"
    BY <1>1, <1>4 DEF LookA, TInv, Roles, WriterPCs, TypeOK
  <2>2. /\ UNCHANGED <<copies, acked, tried, start, overlap>>
        /\ \A r \in Readers : pc'[r] = pc[r] /\ a'[r] = a[r]
        /\ a'[t] = copies[0]
    <3>1. Look(0) = {copies[0]}
      BY DEF OneWriter, Look
    <3>2. QED
      BY <1>1, <1>4, <3>1 DEF LookA, TypeOK, ghosts
  <2>3. WriterOK(t)'
    BY <1>1, <2>1, <2>2 DEF WriterOK, SeqOf
  <2>4. QED
    BY <1>1, <2>1, <2>2, <2>3, SameCopies, QuietWrite
<1>5. CASE LookB(t)
  <2>1. /\ pc[t] = "writeB" /\ pc'[t] = "copy"
        /\ UNCHANGED <<copies, acked, start, overlap>>
        /\ \A r \in Readers : pc'[r] = pc[r] /\ a'[r] = a[r]
    BY <1>1, <1>5 DEF LookB, TypeOK
  <2>2. Aimed(t)' /\ PromiseOK'
    BY <1>1, <1>5, LookBAims
  <2>3. CopiesOK'
    BY <1>1, <2>1 DEF CopiesOK, HasBody, SeqOf, Consecutive
  <2>4. WriterOK(t)'
    BY <2>1, <2>2 DEF WriterOK
  <2>5. QED
    BY <1>1, <2>1, <2>2, <2>3, <2>4, QuietWrite
<1>6. CASE WriteCopy(t)
  <2>1. /\ pc[t] = "copy" /\ pc'[t] = "commit" /\ Written(t) \in Cut(t)
        /\ copies' = [copies EXCEPT ![index[t]] = Written(t)]
        /\ UNCHANGED <<a, index, temp, ghosts>>
        /\ \A r \in Readers : pc'[r] = pc[r]
    BY <1>1, <1>6 DEF WriteCopy, Cut, TypeOK
  <2>2. Aimed(t)
    BY <1>1, <2>1 DEF WriterOK
  <2>3. Aimed(t)'
    <3>1. Written(t) = [body |-> temp[t], commit |-> CLEAR]
      BY <2>1 DEF Written
    <3>2. ~Valid(Written(t))
      BY <3>1 DEF Valid, CLEAR, COMMIT
    <3>3. /\ index[t] \in CopyIds /\ 1 - index[t] \in CopyIds
          /\ 1 - index[t] # index[t]
      BY <1>1 DEF TypeOK, CopyIds
    <3>4. /\ copies'[index[t]] = Written(t)
          /\ copies'[1 - index[t]] = copies[1 - index[t]]
      BY <1>1, <2>1, <3>3 DEF TypeOK
    <3>5. index[t] = 0 => ~Valid(copies'[0])
      BY <3>2, <3>4
    <3>6. QED
      BY <2>1, <2>2, <3>1, <3>2, <3>4, <3>5 DEF Aimed, SeqOf, ghosts
  <2>4. WriterOK(t)'
    BY <2>1, <2>3 DEF WriterOK
  <2>5. CopiesOK' /\ PromiseOK'
    BY <1>1, <2>1, <2>2, WriteKeepsCopies, WriteKeepsPromise DEF ghosts
  <2>6. acked' \in Body \cup {None}
        /\ (acked # None => acked' # None /\ acked'.seq >= acked.seq)
    <3>1. acked' = acked /\ (acked # None => acked.seq \in Nat)
      BY <1>1, <2>1, CopyTypes DEF ghosts, TypeOK
    <3>2. QED
      BY <1>1, <3>1 DEF TypeOK
  <2>7. \A r \in Readers : ReaderOK(r)'
    BY <2>1, <2>6, WriteKeepsReader DEF ghosts
  <2>8. QED
    BY <2>4, <2>5, <2>7
<1>7. CASE WriteCommit(t)
  <2>1. /\ pc[t] = "commit" /\ pc'[t] = "idle" /\ Written(t) \in Cut(t)
        /\ copies' = [copies EXCEPT ![index[t]] = Written(t)]
        /\ UNCHANGED <<a, index, start, overlap>> /\ acked' = temp[t]
        /\ \A r \in Readers : pc'[r] = pc[r]
    BY <1>1, <1>7 DEF WriteCommit, Cut, TypeOK
  <2>2. Aimed(t) /\ temp[t] \in Body
    BY <1>1, <2>1 DEF WriterOK, TInv, WritersCarryBodies
  <2>3. WriterOK(t)'
    BY <2>1 DEF WriterOK
  <2>4. CopiesOK'
    BY <1>1, <2>1, <2>2, WriteKeepsCopies
  <2>5. PromiseOK'
    BY <1>1, <1>7, <2>2, CommitKeepsPromise
  <2>6. acked # None => acked' # None /\ acked'.seq >= acked.seq
    <3>1. SUFFICES ASSUME acked # None
                   PROVE  acked' # None /\ acked'.seq >= acked.seq
      OBVIOUS
    <3>2. temp[t].seq > acked.seq
      BY <1>1, <2>1, <2>2, <3>1, AimedIsNewer
    <3>3. temp[t].seq \in Nat /\ acked.seq \in Nat /\ temp[t] # None
      BY <1>1, <2>2, <3>1, CopyTypes, ConstantsAssumption DEF TypeOK
    <3>4. QED
      BY <2>1, <3>2, <3>3
  <2>7. \A r \in Readers : ReaderOK(r)'
    BY <2>1, <2>2, <2>6, WriteKeepsReader
  <2>8. QED
    BY <2>3, <2>4, <2>5, <2>7
<1>8. CASE IoError(t)
  <2>1. PICK c \in Cut(t) : copies' = [copies EXCEPT ![index[t]] = c]
    BY <1>8 DEF IoError
  <2>2. /\ pc[t] \in {"copy", "commit"} /\ pc'[t] = "idle"
        /\ UNCHANGED <<a, index, ghosts>>
        /\ \A r \in Readers : pc'[r] = pc[r]
    BY <1>1, <1>8 DEF IoError, TypeOK
  <2>3. WriterOK(t)'
    BY <2>2 DEF WriterOK
  <2>4. CopiesOK' /\ PromiseOK'
    BY <1>1, <2>1, <2>2, WriteKeepsCopies, WriteKeepsPromise
       DEF ghosts, WriterOK
  <2>5. acked' \in Body \cup {None}
        /\ (acked # None => acked' # None /\ acked'.seq >= acked.seq)
    <3>1. acked' = acked /\ (acked # None => acked.seq \in Nat)
      BY <1>1, <2>2, CopyTypes DEF ghosts, TypeOK
    <3>2. QED
      BY <1>1, <3>1 DEF TypeOK
  <2>6. \A r \in Readers : ReaderOK(r)'
    BY <2>1, <2>2, <2>5, WriteKeepsReader DEF ghosts
  <2>7. QED
    BY <2>3, <2>4, <2>6
<1>9. QED
  BY <1>3, <1>4, <1>5, <1>6, <1>7, <1>8 DEF WriterStep

LEMMA ReaderIInv ==
  ASSUME OneWriter, IInv, TInv', NEW t \in Readers, ReaderStep(t)
  PROVE  IInv'
<1>1. /\ TInv /\ CopiesOK /\ PromiseOK /\ TypeOK /\ TypeOK'
      /\ ReaderOK(t) /\ t \in Tasks /\ CopyIds = {0, 1}
      /\ \A w \in Writers : w \in Tasks /\ w # t
      /\ \A v, w \in Writers : v = w
  BY CopyTypes, ConstantsAssumption DEF IInv, TInv, OneWriter, Tasks
<1>2. UNCHANGED <<copies, acked, tried, index, temp>>
  BY DEF ReaderStep, CallRead, LookA, ReadB, ghosts
<1>3. CopiesOK' /\ PromiseOK'
  BY <1>1, <1>2, SameCopies
<1>4. \A u \in Tasks : u # t => pc'[u] = pc[u] /\ a'[u] = a[u]
  BY <1>1 DEF ReaderStep, CallRead, LookA, ReadB, TypeOK
<1>5. \A w \in Writers : WriterOK(w)'
  BY <1>1, <1>2, <1>4 DEF IInv, WriterOK, Aimed, SeqOf
<1>6. \A r \in Readers : r # t =>
        start'[r] = start[r] /\ overlap'[r] = overlap[r]
  BY <1>1 DEF ReaderStep, CallRead, LookA, ReadB, TypeOK, ghosts
<1>7. ASSUME NEW r \in Readers, r # t PROVE ReaderOK(r)'
  BY <1>1, <1>2, <1>4, <1>6, <1>7
     DEF IInv, ReaderOK, SecondHolds, SeqOf, Tasks
<1>8. ReaderOK(t)'
  <2>1. CASE CallRead(t)
    <3>1. pc'[t] = "readA" /\ start'[t] = acked
      BY <1>1, <2>1 DEF CallRead, TypeOK
    <3>2. (\E w \in Writers : pc[w] # "idle") => overlap'[t] = 1
      <4>1. SUFFICES ASSUME NEW w \in Writers, pc[w] # "idle"
                     PROVE  overlap'[t] = 1
        OBVIOUS
      <4>2. Busy = {w}
        BY <1>1, <4>1 DEF Busy
      <4>3. QED
        BY <1>1, <2>1, <4>2 DEF CallRead, TypeOK
    <3>3. acked # None => acked.seq \in Nat
      BY <1>1, CopyTypes DEF TypeOK
    <3>4. QED
      BY <1>1, <1>2, <1>4, <3>1, <3>2, <3>3 DEF ReaderOK
  <2>2. CASE LookA(t)
    <3>1. /\ pc[t] = "readA" /\ pc'[t] = "readB" /\ a'[t] = copies[0]
          /\ start' = start /\ overlap' = overlap
      <4>1. Look(0) = {copies[0]}
        BY DEF OneWriter, Look
      <4>2. QED
        BY <1>1, <2>2, <4>1 DEF LookA, TInv, Roles, ReaderPCs, TypeOK, ghosts
    <3>2. ASSUME start[t] # None
          PROVE  \/ Valid(copies[0]) /\ SeqOf(0) >= start[t].seq
                 \/ SecondHolds(t)
      <4>1. /\ acked # None /\ acked.seq >= start[t].seq
            /\ acked.seq \in Nat /\ start[t].seq \in Nat
        BY <1>1, <3>1, <3>2, CopyTypes DEF ReaderOK, TypeOK
      <4>2. /\ Valid(copies[0]) \/ Valid(copies[1])
            /\ Stored \in Body /\ Stored.seq >= acked.seq
            /\ Stored.seq \in Nat
        BY <1>1, <4>1, StoredIsRecent, CopyTypes
      <4>3. /\ Valid(copies[0]) => HasBody(0) /\ SeqOf(0) \in Nat
            /\ Valid(copies[1]) => HasBody(1) /\ SeqOf(1) \in Nat
        BY <1>1, CopyTypes DEF HasBody, SeqOf
      <4>4. CASE Valid(copies[1]) /\ (Valid(copies[0]) => SeqOf(0) < SeqOf(1))
        <5>1. Stored = copies[1].body
          BY <1>1, <4>4, StoredIs
        <5>2. QED
          BY <4>1, <4>2, <4>4, <5>1 DEF SecondHolds, SeqOf
      <4>5. CASE Valid(copies[0]) /\ (Valid(copies[1]) => SeqOf(1) < SeqOf(0))
        <5>1. Stored = copies[0].body
          BY <1>1, <4>5, StoredIs
        <5>2. QED
          BY <4>1, <4>2, <4>5, <5>1 DEF SeqOf
      <4>6. QED
        BY <1>1, <4>2, <4>3, <4>4, <4>5 DEF CopiesOK, Consecutive
    <3>3. SecondHolds(t)' <=> SecondHolds(t)
      BY <1>1, <1>2, <1>4, <3>1 DEF SecondHolds, SeqOf
    <3>4. QED
      BY <1>1, <1>2, <1>4, <3>1, <3>2, <3>3 DEF ReaderOK, SeqOf
  <2>3. CASE ReadB(t)
    BY <1>1, <2>3 DEF ReadB, TypeOK, ReaderOK
  <2>4. QED
    BY <2>1, <2>2, <2>3 DEF ReaderStep
<1>9. QED
  BY <1>3, <1>5, <1>7, <1>8 DEF IInv

LEMMA NextIInv == OneWriter /\ IInv /\ [Next]_vars => IInv'
<1>. SUFFICES ASSUME OneWriter, IInv, [Next]_vars PROVE IInv'
  OBVIOUS
<1>1. TInv' /\ TInv /\ CopiesOK /\ PromiseOK
  BY NextTInv DEF IInv
<1>2. CASE PowerLoss
  <2>1. CopiesOK' /\ PromiseOK'
    <3>1. CASE UNCHANGED copies
      BY <1>1, <1>2, <3>1, SameCopies DEF PowerLoss, ghosts
    <3>2. ASSUME NEW t \in Writers, NEW c \in Cut(t),
                 pc[t] \in {"copy", "commit"},
                 copies' = [copies EXCEPT ![index[t]] = c]
          PROVE  CopiesOK' /\ PromiseOK'
      <4>1. Aimed(t) /\ UNCHANGED <<acked, tried>>
        BY <1>2, <3>2 DEF IInv, WriterOK, PowerLoss, ghosts
      <4>2. QED
        BY <1>1, <3>2, <4>1, WriteKeepsCopies, WriteKeepsPromise
    <3>3. QED
      BY <1>2, <3>1, <3>2 DEF PowerLoss
  <2>2. \A t \in Tasks : pc'[t] = "idle"
    BY <1>2 DEF PowerLoss
  <2>3. QED
    BY <1>1, <2>1, <2>2 DEF IInv, WriterOK, ReaderOK, Tasks
<1>3. ASSUME NEW t \in Writers, WriterStep(t) PROVE IInv'
  BY <1>1, <1>3, WriterIInv
<1>4. ASSUME NEW t \in Readers, ReaderStep(t) PROVE IInv'
  BY <1>1, <1>4, ReaderIInv
<1>5. CASE UNCHANGED vars
  <2>1. CopiesOK' /\ PromiseOK'
    BY <1>1, <1>5, SameCopies DEF vars
  <2>2. QED
    BY <1>1, <1>5, <2>1
       DEF vars, IInv, WriterOK, ReaderOK, Aimed, SecondHolds, SeqOf
<1>6. QED
  BY <1>2, <1>3, <1>4, <1>5 DEF Next

LEMMA IInvAlways == OneWriter => (Spec => []IInv)
<1>. SUFFICES ASSUME OneWriter PROVE Spec => []IInv
  OBVIOUS
<1>1. IInv /\ [Next]_vars => IInv'
  BY NextIInv
<1>2. QED
  BY <1>1, InitIInv, PTL DEF Spec

-----------------------------------------------------------------------------
(* The results. *)

(* Whatever write an error or a power loss stops, and wherever, the next   *)
(* read gives the last table written or one of a write begun after it.     *)
THEOREM TableSurvives == OneWriter => (Spec => []AckedSurvives)
<1>. SUFFICES ASSUME OneWriter PROVE Spec => []AckedSurvives
  OBVIOUS
<1>1. IInv => AckedSurvives
  BY DEF IInv, PromiseOK
<1>2. QED
  BY <1>1, IInvAlways, PTL

(* Two valid copies are always one generation apart, however many writes   *)
(* fail between them.                                                      *)
THEOREM TwoGenerations == OneWriter => (Spec => []CopiesConsecutive)
<1>. SUFFICES ASSUME OneWriter PROVE Spec => []CopiesConsecutive
  OBVIOUS
<1>1. IInv => CopiesConsecutive
  <2>. SUFFICES ASSUME IInv PROVE CopiesConsecutive
    OBVIOUS
  <2>1. TypeOK /\ CopyIds = {0, 1}
    BY CopyTypes DEF IInv, TInv
  <2>2. QED
    BY <2>1, CopyTypes
       DEF IInv, CopiesOK, CopiesConsecutive, Consecutive, SeqOf
<1>2. QED
  BY <1>1, IInvAlways, PTL

(* The first byte of a write never goes to the copy a read would select. *)
THEOREM OlderIsWritten == OneWriter => (Spec => WritesOlderCopy)
<1>. SUFFICES ASSUME OneWriter PROVE Spec => WritesOlderCopy
  OBVIOUS
<1>. DEFINE older == \A t \in Writers :
                       WriteCopy(t) /\ Stored # NotFound
                         => Target(t).body # Stored
<1>1. IInv => older
  <2>. SUFFICES ASSUME IInv, NEW t \in Writers, WriteCopy(t),
                       Stored # NotFound
                PROVE  Target(t).body # Stored
    OBVIOUS
  <2>. DEFINE i == index[t]
              o == 1 - i
  <2>1. /\ TypeOK /\ CopiesOK /\ i \in CopyIds /\ CopyIds = {0, 1}
        /\ Aimed(t) /\ Target(t) = copies[i] /\ o \in CopyIds /\ o # i
    BY CopyTypes
       DEF IInv, TInv, TypeOK, WriterOK, WriteCopy, Target, CopyIds
  <2>2. /\ copies[0] \in Copy /\ copies[1] \in Copy
        /\ copies[0] # None /\ copies[1] # None
    BY <2>1, CopyTypes, ConstantsAssumption
  <2>3. Valid(copies[0]) \/ Valid(copies[1])
    BY <2>2 DEF Stored, Outcome
  <2>4. Valid(copies[o]) /\ (Valid(copies[i]) => SeqOf(i) < SeqOf(o))
    <3>1. Valid(copies[o])
      BY <2>1, <2>3 DEF Aimed
    <3>2. Valid(copies[i]) => SeqOf(i) < SeqOf(o)
      BY <3>1, <2>1 DEF Aimed
    <3>3. QED
      BY <3>1, <3>2
  <2>5. Stored = copies[o].body /\ HasBody(o) /\ SeqOf(o) \in Nat
    BY <2>1, <2>4, StoredIs, CopyTypes DEF HasBody, SeqOf
  <2>6. HasBody(i) => SeqOf(i) # SeqOf(o)
    <3>1. HasBody(i) => SeqOf(i) \in Nat
      BY CopyTypes, <2>1 DEF HasBody, SeqOf
    <3>2. HasBody(i) => Consecutive(SeqOf(0), SeqOf(1))
      BY <2>1, <2>5 DEF CopiesOK
    <3>3. QED
      BY <2>1, <2>5, <3>1, <3>2 DEF Consecutive
  <2>7. QED
    BY <2>1, <2>5, <2>6 DEF HasBody, SeqOf
<1>2. IInv /\ [Next]_vars => [older]_vars
  BY <1>1
<1>3. QED
  BY <1>2, IInvAlways, PTL DEF Spec, WritesOlderCopy

(* Every table written has a higher number than all written before it. *)
THEOREM SeqAlwaysBumped == OneWriter => (Spec => SeqBumped)
<1>. SUFFICES ASSUME OneWriter PROVE Spec => SeqBumped
  OBVIOUS
<1>. DEFINE bumped == \A t \in Writers :
                        WriteCommit(t) /\ acked # None
                          => temp[t].seq > acked.seq
<1>1. IInv => bumped
  BY AimedIsNewer DEF IInv, WriterOK, WriteCommit
<1>2. IInv /\ [Next]_vars => [bumped]_vars
  BY <1>1
<1>3. QED
  BY <1>2, IInvAlways, PTL DEF Spec, SeqBumped

(* A read that one write call overlaps, in any way, gives a table that is  *)
(* as recent as the last one written when the read began.                  *)
THEOREM RacingReadsAreFresh == OneWriter => (Spec => ReadsAreFresh)
<1>. SUFFICES ASSUME OneWriter PROVE Spec => ReadsAreFresh
  OBVIOUS
<1>. DEFINE fresh == \A t \in Readers :
                       ReadB(t) /\ start[t] # None /\ overlap[t] <= 1 =>
                         /\ out'[t] \in Body
                         /\ out'[t].seq >= start[t].seq
<1>1. IInv => fresh
  <2>. SUFFICES ASSUME IInv, NEW t \in Readers, ReadB(t),
                       start[t] # None, overlap[t] <= 1
                PROVE  out'[t] \in Body /\ out'[t].seq >= start[t].seq
    OBVIOUS
  <2>1. /\ TypeOK /\ pc[t] = "readB" /\ ReaderOK(t) /\ t \in Tasks
    BY DEF IInv, TInv, ReadB, Tasks
  <2>2. \/ Valid(a[t]) /\ a[t].body.seq >= start[t].seq
        \/ Valid(copies[1]) /\ copies[1].body.seq >= start[t].seq
    BY <2>1 DEF ReaderOK, SecondHolds, SeqOf
  <2>3. out'[t] = Outcome(a[t], copies[1])
    <3>1. Look(1) = {copies[1]}
      BY DEF OneWriter, Look
    <3>2. QED
      BY <2>1, <3>1 DEF ReadB, TypeOK
  <2>4. /\ a[t] \in Copy \cup {None} /\ copies[1] \in Copy \cup {None}
        /\ start[t] \in Body
    BY <2>1 DEF TypeOK, CopyIds
  <2>5. \A b \in Body : b.seq \in Nat
    BY <2>1, CopyTypes
  <2>6. /\ Valid(a[t]) => a[t].body.seq \in Nat
        /\ Valid(copies[1]) => copies[1].body.seq \in Nat
    BY <2>4, <2>5, ValidType
  <2>7. QED
    BY <2>2, <2>3, <2>4, <2>5, <2>6, OutcomeIsNewest
<1>2. IInv /\ [Next]_vars => [fresh]_vars
  BY <1>1
<1>3. QED
  BY <1>2, IInvAlways, PTL DEF Spec, ReadsAreFresh
=============================================================================
