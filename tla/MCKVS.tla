------------------------------- MODULE MCKVS -------------------------------
(* Instances of KVS for TLC. *)
EXTENDS KVS, TLC

Symmetry == Permutations(Tasks) \cup Permutations(Keys)
=============================================================================
