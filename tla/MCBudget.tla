------------------------------ MODULE MCBudget ------------------------------
(* Values for the constants of MemoryBudget that a .cfg cannot write. *)
EXTENDS MemoryBudget

MCLengths == 1..19
=============================================================================
