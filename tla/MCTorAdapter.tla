--------------------------- MODULE MCTorAdapter ---------------------------
(* Instance of TorAdapter for TLC. *)
EXTENDS TorAdapter
============================================================================
