------------------------------ MODULE MCDevice ------------------------------
(* Small instances of Device for TLC. *)
EXTENDS Device, TLC

(* Two ranges that overlap, one of them longer than a chunk, and one that  *)
(* reaches over the end of a device of 3 addresses.                        *)
SomeRanges == {<<0, 3>>, <<2, 1>>, <<2, 2>>}

(* The whole of a device of 1 address. *)
OneAddress == {<<0, 1>>}

(* The tasks, and the values, are interchangeable. *)
Symmetry == Permutations(Tasks) \cup Permutations(Values)
=============================================================================
