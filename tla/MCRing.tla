------------------------------- MODULE MCRing -------------------------------
(* Small instances of Ring for TLC. *)
EXTENDS Ring

(* The payloads that are not Empty are interchangeable. *)
PayloadSymmetry == Permutations(Payloads \ {Empty})

(* And so are the tasks. *)
Symmetry == Permutations(Tasks) \cup PayloadSymmetry
=============================================================================
