---------------------------- MODULE MCPreflight ----------------------------
(* Values for the constants of Preflight that a .cfg cannot write. *)
EXTENDS Preflight, TLC

CONSTANTS decHere, decOther, appHere, note, summary, taskHere, edgeHere, edgeOther, here, other, cto, linux,
  little, ops, both

MCKinds == {decHere, decOther, appHere, note, summary, taskHere, edgeHere, edgeOther}

MCSide == [k \in MCKinds |-> IF k \in {edgeHere, edgeOther} THEN "experience" ELSE "knowledge"]

MCType ==
  decHere :> "decision" @@ decOther :> "decision" @@ appHere :> "decision" @@ note :> "knowledge" @@
  summary :> "experience" @@ taskHere :> "task" @@ edgeHere :> "experience" @@ edgeOther :> "experience"

MCProject ==
  decHere :> here @@ decOther :> other @@ appHere :> here @@ note :> here @@
  summary :> NoProject @@ taskHere :> here @@ edgeHere :> here @@ edgeOther :> other

MCAxesByName == <<cto, linux>>

MCWeight == cto :> 12 @@ linux :> 7

Words(c, l) == cto :> c @@ linux :> l

(* One word of linux is below the threshold, two are not; a note of any     *)
(* number of words of cto is not tagged with it.                            *)
MCHits ==
  decHere :> Words(0, 0) @@ decOther :> Words(0, 1) @@ appHere :> Words(1, 0) @@ note :> Words(3, 2) @@
  summary :> Words(2, 2) @@ taskHere :> Words(0, 0) @@ edgeHere :> Words(1, 1) @@ edgeOther :> Words(1, 2)

MCAsked == little :> Words(0, 1) @@ ops :> Words(0, 2) @@ both :> Words(11, 2)

MCScore ==
  decHere :> 3 @@ decOther :> 2 @@ appHere :> 2 @@ note :> 2 @@
  summary :> 1 @@ taskHere :> 0 @@ edgeHere :> 2 @@ edgeOther :> 3

MCStatus ==
  decHere :> "proposed" @@ decOther :> "proposed" @@ appHere :> "approved" @@ note :> "approved" @@
  summary :> "approved" @@ taskHere :> "proposed" @@ edgeHere :> "approved" @@ edgeOther :> "approved"
=============================================================================
