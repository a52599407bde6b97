------------------------------ MODULE MCCoinSwap ------------------------------
(* Small instances of CoinSwap for TLC. *)
EXTENDS CoinSwapInv, TLC

AttemptSymmetry == Permutations(Attempts)

AllButCommitSaves == SavePlaces \ {"msg4", "out"}
NoSaveFails == {}
===============================================================================
