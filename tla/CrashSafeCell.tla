--------------------------- MODULE CrashSafeCell ---------------------------
(***************************************************************************)
(* What a versioned slot buffer promises, with no slot, version or commit  *)
(* byte in it: one cell that holds the value last saved, with a power loss *)
(* allowed at any moment.                                                  *)
(*                                                                         *)
(* value   what a caller was last told: the payload of the last save that  *)
(*         returned OK, or what the last initialisation found; None when   *)
(*         the cell is empty; Unknown from the start of a clear to the     *)
(*         next save, clear or initialisation that completes.              *)
(* durable what an initialisation run at this moment would find.           *)
(* pend    the payload of each task's save under way.                      *)
(***************************************************************************)
CONSTANTS
  Tasks,    \* the tasks that call the cell
  Payloads, \* the values that can be saved
  None,     \* no value
  Unknown   \* no promise about the value

VARIABLES value, durable, pend

cellVars == <<value, durable, pend>>

Found == Payloads \cup {None}

(* What may be found when nothing new was completed: what was found before *)
(* or what was promised. A half-done clear promises nothing.               *)
Slack == IF value = Unknown THEN Found ELSE {durable, value}

Init ==
  /\ value = None
  /\ durable = None
  /\ pend = [t \in Tasks |-> None]

Call(t, p) ==
  /\ pend[t] = None
  /\ pend' = [pend EXCEPT ![t] = p]
  /\ UNCHANGED <<value, durable>>

(* The save returns OK: from here on a restart finds its payload. *)
Done(t) ==
  /\ pend[t] # None
  /\ value' = pend[t]
  /\ durable' = pend[t]
  /\ pend' = [pend EXCEPT ![t] = None]

(* The save returns an error: its payload may be found, or may not. *)
Fail(t) ==
  /\ pend[t] # None
  /\ durable' \in Slack \cup {pend[t]}
  /\ pend' = [pend EXCEPT ![t] = None]
  /\ UNCHANGED value

(* A payload whose save failed stops being found. *)
Retract ==
  /\ durable' \in Slack
  /\ UNCHANGED <<value, pend>>

PowerLoss ==
  /\ durable' \in Slack \cup ({pend[t] : t \in Tasks} \ {None})
  /\ pend' = [t \in Tasks |-> None]
  /\ UNCHANGED value

Recover ==
  /\ value' = durable
  /\ UNCHANGED <<durable, pend>>

BeginClear ==
  /\ value' = Unknown
  /\ UNCHANGED <<durable, pend>>

EndClear ==
  /\ value = Unknown
  /\ value' = None
  /\ durable' = None
  /\ UNCHANGED pend

Next ==
  \/ \E t \in Tasks, p \in Payloads : Call(t, p)
  \/ \E t \in Tasks : Done(t) \/ Fail(t)
  \/ Retract
  \/ PowerLoss
  \/ Recover
  \/ BeginClear
  \/ EndClear

Spec == Init /\ [][Next]_cellVars
=============================================================================
