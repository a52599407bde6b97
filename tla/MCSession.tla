----------------------------- MODULE MCSession -----------------------------
(* Instance of Session for TLC. *)
EXTENDS Session, TLC

Symmetry == Permutations(SessionId)
============================================================================
