---------------------------- MODULE MCGoapThread ----------------------------
(* GoapThread on the delivery domain. *)
EXTENDS GoapThread, MCDelivery
=============================================================================
