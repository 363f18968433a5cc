------------------------- MODULE MCNativeTaskWorker -------------------------
(* Small instances of NativeTaskWorker for TLC. *)
EXTENDS NativeTaskWorker

CONSTANTS litertCore, otherCore

MCExecutorOf == [w \in Workers |-> "litert"]

=============================================================================
