--------------------------- MODULE MCRelayServer ---------------------------
(* RelayServer for TLC: a relay with a state file, and one with the limiter. *)
EXTENDS RelayServer

MCOptions == {<<TRUE, None>>, <<FALSE, 2>>}
=============================================================================
