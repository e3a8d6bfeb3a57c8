---------------------------- MODULE CrashSafeMap ----------------------------
(***************************************************************************)
(* What a key-value store promises, with no record, offset or commit byte  *)
(* in it: a map that sets and deletes change one key at a time, with a     *)
(* power loss allowed at any moment.                                       *)
(*                                                                         *)
(* map     what callers were last told: the sets and deletes that returned *)
(*         OK, on top of what the last initialisation found.               *)
(* updates how many sets and deletes made the map.                         *)
(* durable what a get, or an initialisation, would find at this moment.    *)
(* pend    the operation of each task's call under way.                    *)
(***************************************************************************)
EXTENDS Naturals

CONSTANTS
  Tasks,  \* the tasks that share the map
  Keys,   \* the keys
  Values, \* the values that can be set
  Absent, \* the value of a key that is not there
  None    \* no operation

VARIABLES map, updates, durable, pend

mapVars == <<map, updates, durable, pend>>

(* A delete sets Absent. *)
Operation == [key : Keys, value : Values \cup {Absent}]

Applied(o) == [map EXCEPT ![o.key] = o.value]

Init ==
  /\ map = [k \in Keys |-> Absent]
  /\ updates = 0
  /\ durable = map
  /\ pend = [t \in Tasks |-> None]

Call(t, o) ==
  /\ pend[t] = None
  /\ pend' = [pend EXCEPT ![t] = o]
  /\ UNCHANGED <<map, updates, durable>>

(* The call returns OK: every get and every restart finds its effect. *)
Done(t) ==
  /\ pend[t] # None
  /\ pend' = [pend EXCEPT ![t] = None]
  /\ map' = Applied(pend[t])
  /\ updates' = updates + 1
  /\ durable' = map'

(* The call returns an error. It may have had its effect nevertheless. *)
Fail(t) ==
  /\ pend[t] # None
  /\ pend' = [pend EXCEPT ![t] = None]
  /\ UNCHANGED <<map, updates>>
  /\ durable' \in {durable, map, Applied(pend[t])}

(* The effect of a call that returned an error vanishes. *)
Retract ==
  /\ durable' = map
  /\ UNCHANGED <<map, updates, pend>>

PowerLoss ==
  /\ pend' = [t \in Tasks |-> None]
  /\ UNCHANGED <<map, updates>>
  /\ \/ durable' \in {durable, map}
     \/ \E t \in Tasks : pend[t] # None /\ durable' = Applied(pend[t])

(* A restart takes over what is durable, as it is or with one update more. *)
Recover ==
  /\ map' = durable
  /\ updates' \in IF durable = map THEN {updates, updates + 1} ELSE {updates + 1}
  /\ UNCHANGED <<durable, pend>>

Next ==
  \/ \E t \in Tasks :
       \/ \E o \in Operation : Call(t, o)
       \/ Done(t)
       \/ Fail(t)
  \/ Retract
  \/ PowerLoss
  \/ Recover

Spec == Init /\ [][Next]_mapVars
=============================================================================
