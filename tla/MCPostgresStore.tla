--------------------------- MODULE MCPostgresStore ---------------------------
(* PostgresStore with the bounded calls of MCCalls. *)
EXTENDS PostgresStore, MCCalls

SlotSymmetry == Permutations(Slots)
=============================================================================
