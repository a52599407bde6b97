------------------------- MODULE MCLightningAdapter -------------------------
EXTENDS LightningAdapter, TLC

CONSTANTS p1, p2

(* two addresses of channels with one peer, one with another *)
MCPeerOf == (1 :> p1) @@ (2 :> p1) @@ (3 :> p2)
=============================================================================
