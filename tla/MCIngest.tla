------------------------------ MODULE MCIngest ------------------------------
(* Values for the constants of IngestPipeline that a .cfg cannot write. *)
EXTENDS IngestRefinement, TLC

CONSTANTS small, large, fact, lesson, file, BackoffCap

(* Two payloads: a single knowledge row, and another row with an artefact. *)
MCPayloads == {small, large}
MCItems == {fact, lesson, file}
MCPayloadsItems == (small :> <<fact>>) @@ (large :> <<lesson, file>>)

MCOnePayload == {large}
MCOnePayloadItems == large :> <<lesson, file>>

Least(a, b) == IF a < b THEN a ELSE b

(* backoff_seconds(): base 2, exponent capped at 20, delay capped. *)
BackoffSeconds(n) == IF n <= 0 THEN 0 ELSE Least(BackoffCap, 2 ^ Least(n, 20))

MCBackoff == [n \in 1..(MaxAttempts - 1) |-> BackoffSeconds(n)]
=============================================================================
