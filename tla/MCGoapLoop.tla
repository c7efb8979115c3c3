----------------------------- MODULE MCGoapLoop -----------------------------
(* GoapLoop on the delivery domain. *)
EXTENDS GoapLoop, MCDelivery
=============================================================================
