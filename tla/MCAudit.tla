------------------------------ MODULE MCAudit ------------------------------
(* Small instances of Audit: blocks with and without a deposit of two units. *)
EXTENDS Audit

MCContents ==
  {<<>>, <<[from |-> "other", to |-> "self", amount |-> 2, formed |-> TRUE, by |-> 0]>>}
=============================================================================
