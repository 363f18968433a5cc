---------------------------- MODULE MCTaskEngine ----------------------------
(* Small instances of TaskEngine for TLC. *)
EXTENDS TaskEngine

CONSTANTS openaiCore, litertCore, otherCore

MCWorkers == {openaiCore, litertCore}
MCExecutorOf == [w \in Workers |-> IF w = openaiCore THEN "openai" ELSE "litert"]

\* BOUND: no CORE reports its readiness, which a task with a fixed policy does not
\* ask for.
MCUnreported == Init /\ [][Next /\ UNCHANGED workers]_vars /\ Fairness

=============================================================================
