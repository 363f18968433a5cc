-------------------------- MODULE MCNotifications ---------------------------
(* Two COREs, a native and a legacy one, that share an outbox. *)
EXTENDS Notifications

TwoCores == 1..2
NativeCores == {1}
OneOfEach == [kind \in {"note", "session", "end"} |-> 1]
=============================================================================
