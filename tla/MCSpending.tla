----------------------------- MODULE MCSpending -----------------------------
(* Values for model checking Spending: one coin reaches its lock time and one
   is young; the second withdrawal, where there is one, pays more. *)
EXTENDS Spending, TLC

CONSTANTS old, young, w1, w2

Locktimes == [c \in Coin |-> IF c = old THEN 3 ELSE 9]
Fees == [w \in Withdrawal |-> IF w = w1 THEN 1 ELSE 2]
=============================================================================
