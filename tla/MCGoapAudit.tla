----------------------------- MODULE MCGoapAudit -----------------------------
(* GoapAudit on the delivery domain. *)
EXTENDS GoapAudit, MCDelivery
=============================================================================
