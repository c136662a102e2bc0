----------------------------- MODULE MCAuthority -----------------------------
(* Values for the constants of DecisionAuthority that a .cfg cannot write. *)
EXTENDS DecisionAuthority, TLC

CONSTANTS t1, t2, claim, closed, other, refused

(* claim asks for authority and repeats the text in a lesson; closed submits *)
(* a rejected decision again as an open one; other has no decisions;        *)
(* refused does not parse.                                                   *)
MCDecisionsIn ==
  (claim :> << <<t1, "approved">>, <<t2, "none">> >>) @@
  (closed :> << <<t1, "rejected">>, <<t1, "proposed">> >>) @@
  (other :> << >>) @@
  (refused :> << <<t1, "other">> >>)

MCLessonsIn ==
  (claim :> <<t1>>) @@ (closed :> << >>) @@ (other :> << >>) @@ (refused :> << >>)

MCTasksIn ==
  (claim :> << >>) @@ (closed :> << >>) @@
  (other :> << <<t1, "open">>, <<t2, "completed">> >>) @@ (refused :> << >>)

MCSummaryIn ==
  (claim :> << >>) @@ (closed :> <<t2>>) @@ (other :> <<t2>>) @@ (refused :> << >>)
=============================================================================
