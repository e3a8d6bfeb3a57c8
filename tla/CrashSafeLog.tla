---------------------------- MODULE CrashSafeLog ----------------------------
(***************************************************************************)
(* What a ring log promises, with no slot, sequence number or commit byte  *)
(* in it: the last Capacity entries appended, with a power loss allowed at *)
(* any moment.                                                             *)
(*                                                                         *)
(* entries what callers were last told: the entries whose appends returned *)
(*         OK, on top of what the last initialisation found.               *)
(* durable what an initialisation run at this moment would find.           *)
(* partial a clear was begun and did not complete: entries from before it  *)
(*         may precede the log.                                            *)
(* pend    the entry of each task's append under way.                      *)
(***************************************************************************)
EXTENDS Naturals, SequencesExt

CONSTANTS
  Tasks,    \* the tasks that call the log
  Payloads, \* the entries
  Capacity, \* how many of them the log holds
  None      \* no entry

VARIABLES entries, durable, partial, pend

logVars == <<entries, durable, partial, pend>>

(* An append to a full log takes the place of the oldest entry. *)
Kept == IF Len(entries) < Capacity THEN entries ELSE Tail(entries)

Landed(t) == Append(Kept, pend[t])

(* An initialisation would find the log l. *)
Finds(l) == IF partial THEN IsSuffix(l, durable') ELSE durable' = l

(* What is found while t's append is under way, or after it failed: its    *)
(* entry or not, and the oldest entry of a full log not any more.          *)
Touched(t) ==
  /\ pend[t] # None
  /\ durable' = durable \/ Finds(Kept) \/ Finds(Landed(t))

Init ==
  /\ entries = <<>>
  /\ durable = <<>>
  /\ partial = FALSE
  /\ pend = [t \in Tasks |-> None]

Call(t, p) ==
  /\ pend[t] = None
  /\ pend' = [pend EXCEPT ![t] = p]
  /\ UNCHANGED <<entries, partial, durable>>

(* The append returns OK: from here on a restart finds its entry. *)
Done(t) ==
  /\ pend[t] # None
  /\ pend' = [pend EXCEPT ![t] = None]
  /\ entries' = Landed(t)
  /\ UNCHANGED partial
  /\ Finds(entries')

(* The append returns an error. *)
Fail(t) ==
  /\ pend' = [pend EXCEPT ![t] = None]
  /\ UNCHANGED <<entries, partial>>
  /\ Touched(t)

(* An append begins to write: what a failed one had left is gone. *)
Tear(t) ==
  /\ pend[t] # None
  /\ UNCHANGED <<entries, partial, pend>>
  /\ Finds(Kept)

PowerLoss ==
  /\ pend' = [t \in Tasks |-> None]
  /\ UNCHANGED <<entries, partial>>
  /\ \/ durable' = durable
     \/ partial /\ Finds(entries)
     \/ \E t \in Tasks : Touched(t)

Recover ==
  /\ pend = [t \in Tasks |-> None]
  /\ partial' = FALSE
  /\ entries' = durable
  /\ UNCHANGED <<pend, durable>>

BeginClear ==
  /\ entries' = <<>>
  /\ partial' = TRUE
  /\ UNCHANGED <<pend, durable>>

Erase ==
  /\ partial
  /\ UNCHANGED <<entries, partial, pend>>
  /\ Finds(entries)

EndClear ==
  /\ partial
  /\ entries' = <<>> /\ durable' = <<>>
  /\ partial' = FALSE
  /\ UNCHANGED pend

Next ==
  \/ \E t \in Tasks : Done(t) \/ Fail(t) \/ Tear(t) \/ \E p \in Payloads : Call(t, p)
  \/ PowerLoss
  \/ Recover
  \/ BeginClear \/ Erase \/ EndClear

Spec == Init /\ [][Next]_logVars
=============================================================================
