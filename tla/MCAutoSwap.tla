----------------------------- MODULE MCAutoSwap -----------------------------
(* Two coins of one value in single swap mode, which keeps them apart;     *)
(* otherwise coins do not meet, and one and its successors will do.        *)
EXTENDS AutoSwap

MCInitValues == [s \in BOOLEAN |-> IF s THEN <<"v", "v">> ELSE <<"v">>]

\* A coin alone goes on as one of two does.
MCMaxClicks == [s \in BOOLEAN |-> IF s THEN 3 ELSE 1]
=============================================================================
