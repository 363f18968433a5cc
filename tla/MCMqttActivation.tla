-------------------------- MODULE MCMqttActivation --------------------------
(* Small instances of MqttActivation for TLC. *)
EXTENDS MqttActivation

MCExecutorOf == [w \in Workers |-> "litert"]

=============================================================================
