---------------------------- MODULE MCSettlement ----------------------------
(***************************************************************************)
(* Settlement.tla for TLC.  Webhook deliveries are interchangeable.         *)
(***************************************************************************)
EXTENDS Settlement, TLC

DeliveriesAlike == Permutations(Delivery)
=============================================================================
