----------------------------- MODULE MCWritePath -----------------------------
(* Values for the constants of WritePath that a .cfg cannot write. *)
EXTENDS WritePath, TLC

CONSTANTS p1, p2, fact, file

(* A lesson, or an artefact. *)
MCItemsOf == p1 :> <<fact>> @@ p2 :> <<file>>

(* Two healthy front ends do the same. *)
FrontEndSymmetry == Permutations(FrontEnds \ Degraded)

MCBackoff == [n \in 1..(MaxAttempts - 1) |-> 2 ^ n]
=============================================================================
