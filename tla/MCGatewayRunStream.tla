------------------------- MODULE MCGatewayRunStream -------------------------
(* Instances of GatewayRunStream for TLC. *)
EXTENDS GatewayRunStream
=============================================================================
