-------------------------- MODULE MCTokenBlacklist --------------------------
(* Instances of TokenBlacklist for TLC. *)
EXTENDS TokenBlacklist, TLC

SlotSymmetry == Permutations(Slots)
=============================================================================
