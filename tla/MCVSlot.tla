------------------------------ MODULE MCVSlot ------------------------------
(* Small instances of VSlot for TLC. *)
EXTENDS VSlot, TLC

(* The payloads that are not Empty are interchangeable. *)
PayloadSymmetry == Permutations(Payloads \ {Empty})

(* And so are the tasks. *)
Symmetry == Permutations(Tasks) \cup PayloadSymmetry
=============================================================================
