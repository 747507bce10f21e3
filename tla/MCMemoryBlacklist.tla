-------------------------- MODULE MCMemoryBlacklist --------------------------
(* Instances of MemoryBlacklist for TLC. *)
EXTENDS MemoryBlacklist, TLC

Symmetry == Permutations(Slots) \cup Permutations(Access) \cup Permutations(Refresh)
=============================================================================
