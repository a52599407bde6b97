----------------------------- MODULE MCTransfer -----------------------------
(* Values for model checking Transfer: a coin is sent on, back or within. *)
EXTENDS TransferInv, TLC

CONSTANTS alice, bob, a1, a2, b1

Homes == (a1 :> alice) @@ (a2 :> alice) @@ (b1 :> bob)
=============================================================================
