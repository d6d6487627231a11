------------------------- MODULE MCGatewayDelivery -------------------------
(* Instances of GatewayDelivery for TLC.  Adapters and keys are interchangeable. *)
EXTENDS GatewayDelivery, TLC

Symmetry == Permutations(Adapters) \union Permutations(Keys)
=============================================================================
