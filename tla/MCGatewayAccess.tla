-------------------------- MODULE MCGatewayAccess --------------------------
(* TLC instances of GatewayAccess: requests are interchangeable. *)
EXTENDS GatewayAccess, TLC

Interchangeable == Permutations(Requests)

=============================================================================
