--------------------------- MODULE MCProjectState ---------------------------
(* The bodies of MCAuthority, read by the HTTP server and an MCP server. *)
EXTENDS ProjectState, MCAuthority

(* Approvers are only compared with each other. *)
ApproverSymmetry == Permutations(Approvers)
=============================================================================
