----------------------------- MODULE MCDeposit -----------------------------
(* Deposit as model checking runs it, with the values of deposit.cfg. *)
EXTENDS Deposit
=============================================================================
