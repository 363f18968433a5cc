--------------------------- MODULE MCNativeServer ---------------------------
(* Small instances of NativeServer for TLC. *)
EXTENDS NativeServer

CONSTANT agent

MCAgents == {agent}

=============================================================================
