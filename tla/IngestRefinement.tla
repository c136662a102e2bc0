-------------------------- MODULE IngestRefinement --------------------------
(***************************************************************************)
(* The pipeline with one consumer implements QueueContract: queued and      *)
(* processing are both "pending", everything else maps to itself.           *)
(***************************************************************************)
EXTENDS IngestPipeline

Outcome ==
  [r \in Requests |-> IF status[r] \in LiveStatuses THEN "pending" ELSE status[r]]

Contract == INSTANCE QueueContract WITH outcome <- Outcome, content <- payload

(* The promise of EVENT_SCHEMA section 2 as queue.py and ingest_worker.py   *)
(* keep it: accepted once, never replaced, settled once, done only with     *)
(* every item stored.                                                       *)
ImplementsContract == Contract!Spec
=============================================================================
