------------------------------- MODULE MCPosts -------------------------------
(* Instances of Posts for TLC. *)
EXTENDS Posts, TLC

Symmetry ==
  Permutations(Slots) \cup Permutations(Users) \cup Permutations(Values)
=============================================================================
