------------------------------ MODULE IdealSwap -------------------------------
(***************************************************************************)
(* What a swap promises the owner of a coin, with no messages in it.       *)
(*                                                                         *)
(* "held" is the coin the wallet shows its user as spendable: the one that *)
(* entered the swap, none while the outcome is open, or the one received.  *)
(* "owned" is the coin that belongs to the user on the state entity.  The  *)
(* batch transfer may happen only while the wallet shows neither coin, and *)
(* the wallet settles on the coin that is really owned.                    *)
(***************************************************************************)
VARIABLES held, owned

vars == <<held, owned>>

TypeOK ==
    /\ held \in {"input", "pending", "output"}
    /\ owned \in {"input", "output"}

Init == held = "input" /\ owned = "input"

\* The coin enters a swap.
Enter == held = "input" /\ held' = "pending" /\ owned = "input" /\ UNCHANGED owned

\* The swap is given up.
GiveUp == held = "pending" /\ held' = "input" /\ owned = "input" /\ UNCHANGED owned

\* The batch transfer: atomic, on the state entity.
Transfer == held = "pending" /\ owned = "input" /\ owned' = "output" /\ UNCHANGED held

\* The wallet takes up the coin it received.
Settle == held = "pending" /\ held' = "output" /\ owned = "output" /\ UNCHANGED owned

Next == Enter \/ GiveUp \/ Transfer \/ Settle

Spec == Init /\ [][Next]_vars

\* The wallet never shows a coin that is not the user's.
HeldIsOwned == held \in {owned, "pending"}
===============================================================================
