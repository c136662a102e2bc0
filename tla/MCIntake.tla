------------------------------ MODULE MCIntake ------------------------------
(* Values for the constants of PostflightIntake that a .cfg cannot write. *)
EXTENDS PostflightIntake

MCBackoff == [n \in 1..(MaxAttempts - 1) |-> 2 ^ n]
=============================================================================
