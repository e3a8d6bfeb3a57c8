---------------------------- MODULE MCSuperblock ----------------------------
(* Small instances of Superblock for TLC. *)
EXTENDS Superblock, TLC

(* Tasks of one kind, and the partition tables, are interchangeable. *)
Symmetry ==
  Permutations(Writers) \cup Permutations(Readers) \cup Permutations(Parts)
=============================================================================
