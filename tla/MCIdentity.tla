----------------------------- MODULE MCIdentity -----------------------------
(* Values for the constants of StoreIdentity that a .cfg cannot write. *)
EXTENDS StoreIdentity

(* The lexical default, and two models that share a dimension. *)
MCEmbedders ==
  { <<"deterministic", "deterministic", 512>>, <<"st", "mini", 384>>, <<"st", "other", 384>> }
=============================================================================
