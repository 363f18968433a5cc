---------------------------- MODULE MCComponents ----------------------------
(***************************************************************************)
(* Small instances of the components that run by themselves: none reads    *)
(* what another changes, so each behaviour is one of "part" while the      *)
(* others stay where they began.  TLC checks the properties of all of them *)
(* in one run.                                                             *)
(*                                                                         *)
(* QueryResults has two COREs that publish, three RUNs, two unacknowledged *)
(* answers and one acknowledged.                                           *)
(***************************************************************************)
EXTENDS AgentTurns, FragmentRuns, McpCalls, ModelContext, ModelRequests, MqttActivation, MqttReads,
        NativeLifetime, NativeTurns, ProcessRuns, QueryResults, TLC

VARIABLE part

CONSTANTS litertCore, otherCore

MCExecutorOf == [w \in Workers |-> "litert"]

\* The two COREs differ in nothing but their names.
CoreSymmetry == Permutations({litertCore, otherCore})

ASSUME ComponentConstants == TurnLimits /\ ActiveIsAValue

-----------------------------------------------------------------------------
\* MQTT and the store of answers are both beside the one Task SYSTEM service; each of
\* the two has bounds of its own for it.
mqttVars == <<bindings, objects, last, edges>>
componentVars == <<part, turnVars, callVars, processVars, fragmentVars, nativeVars, readVars,
                   lifetimeVars, contextVars, requestVars, vars, mqttVars, results>>

\* BOUND: two RUNs.
MqttBound == nextRun' <= 3

\* BOUND: one number, used once, and one unfinished RUN.
AnswersBound == /\ gens'[1] <= 1 /\ \A t \in TaskIds \ {1} : gens'[t] = 0
                /\ Cardinality(Live(runs')) <= 1

Components == {"turns", "calls", "process", "fragments", "native", "reads", "lifetime", "context",
               "requests", "mqtt", "answers"}

\* A part that does not run has one initial state.
ComponentsInit ==
    /\ part \in Components
    /\ TurnInit /\ (part # "turns" => manager.audience = "person")
    /\ CallInit /\ ProcessInit /\ FragmentInit
    /\ NativeInit /\ (part # "native" => record = "none")
    /\ ReadInit /\ LifetimeInit
    /\ ContextInit /\ (part # "context" => asker.role = "manager")
    /\ RequestInit /\ (part # "requests" => model.kind = "llama" /\ model.handler)
    /\ MInit /\ QInit

Only(p) ==
    /\ part = p /\ UNCHANGED part
    /\ p # "turns" => UNCHANGED turnVars
    /\ p # "calls" => UNCHANGED callVars
    /\ p # "process" => UNCHANGED processVars
    /\ p # "fragments" => UNCHANGED fragmentVars
    /\ p # "native" => UNCHANGED nativeVars
    /\ p # "reads" => UNCHANGED readVars
    /\ p # "lifetime" => UNCHANGED lifetimeVars
    /\ p # "context" => UNCHANGED contextVars
    /\ p # "requests" => UNCHANGED requestVars
    /\ p # "mqtt" => UNCHANGED mqttVars
    /\ p # "answers" => UNCHANGED results
    /\ p \notin {"mqtt", "answers"} => UNCHANGED vars

ComponentsNext ==
    \/ Only("turns") /\ TurnNext
    \/ Only("calls") /\ CallNext
    \/ Only("process") /\ ProcessNext
    \/ Only("fragments") /\ FragmentNext
    \/ Only("native") /\ NativeNext
    \/ Only("reads") /\ ReadNext
    \/ Only("lifetime") /\ LifetimeNext
    \/ Only("context") /\ ContextNext
    \/ Only("requests") /\ RequestNext
    \/ Only("mqtt") /\ MNext /\ MqttBound
    \/ Only("answers") /\ QNext /\ AnswersBound

ComponentsSpec == ComponentsInit /\ [][ComponentsNext]_componentVars

=============================================================================
