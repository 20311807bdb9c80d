--------------------------- MODULE MCAccessStore ---------------------------
(* AccessStore with the bounded calls of MCCalls. *)
EXTENDS AccessStore, MCCalls

SlotSymmetry == Permutations(Slots)
=============================================================================
