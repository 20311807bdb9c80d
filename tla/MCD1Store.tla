--------------------------- MODULE MCD1Store ---------------------------
(* D1Store with the bounded calls of MCCalls. *)
EXTENDS D1Store, MCCalls

SlotSymmetry == Permutations(Slots)
=============================================================================
