--------------------------- MODULE MqttActivation ---------------------------
(***************************************************************************)
(* MQTT edges become RUNs: the monitor thread reads the broker's lines,    *)
(* compares each payload with the previous one of its topic and hands the  *)
(* changes to the Task SYSTEM service, one binding after the other.  It    *)
(* copies the bindings when a line arrives and takes the service's lock    *)
(* again for every edge, so requests and ticks run in between.             *)
(*                                                                         *)
(* One topic and one boolean field.  A binding is an object: the service   *)
(* accepts an edge only for the very object the monitor copied, and a      *)
(* request that raises is rolled back by building every object anew.       *)
(***************************************************************************)
EXTENDS TaskEngine

CONSTANTS
    Active,      \* the field's active value: it is an event on a first payload
    MaxObjects   \* BOUND: times that binding objects are built

ActiveIsAValue == Active \in {"true", "false"} /\ MaxObjects \in Nat

VARIABLES
    bindings,    \* the MQTT binding of each task number
    objects,     \* binding objects built so far
    last,        \* the field in the last payload of the topic
    edges        \* edges of the present line not yet handed to the service

mvars == <<vars, bindings, objects, last, edges>>

\* life is the generation its task was created with: two tasks that have the
\* same number one after the other differ in it.
NoBinding == [object |-> 0, life |-> 0]
Bound(t) == bindings[t] # NoBinding

\* "odd": the field is there with a value that is no boolean.
\* "absent": a payload without the field.  "none": no payload yet.
Payloads == {"true", "false", "odd", "absent"}

NewObjects(bs) ==
    [t \in TaskIds |-> IF bs[t] = NoBinding THEN NoBinding
                       ELSE [bs[t] EXCEPT !.object = objects + 1]]

Rebuilt == /\ objects < MaxObjects
           /\ bindings' = NewObjects(bindings)
           /\ objects' = objects + 1

-----------------------------------------------------------------------------
(* Requests of others.                                                     *)

\* create_external_task registers the binding in the same transaction.
CreateExternalTask(t, policy) ==
    /\ CreateTask(t, policy, FALSE, TRUE)
    /\ objects < MaxObjects
    /\ objects' = objects + 1
    /\ bindings' = [bindings EXCEPT ![t] = [object |-> objects + 1, life |-> gens'[t]]]
    /\ UNCHANGED <<last, edges>>

DeleteBoundTask(t) ==
    /\ DeleteTask(t)
    /\ bindings' = [bindings EXCEPT ![t] = NoBinding]
    /\ UNCHANGED <<objects, last, edges>>

\* Any other request of management, and the tick.  Worker requests leave the
\* bindings alone; all they change for an edge is how full the journal is, which
\* pauses change here.
Others ==
    /\ \/ Tick
       \/ \E t \in TaskIds :
            \/ \E policy \in Policies, enabled \in BOOLEAN : CreateTask(t, policy, FALSE, enabled)
            \/ StartTask(t) \/ StopTask(t) \/ ResumeTask(t) \/ PauseTask(t)
            \/ \E policy \in Policies : SetExecutor(t, policy)
            \/ QueueEvent(t)
    /\ UNCHANGED <<bindings, objects, last, edges>>

\* A request or a tick that raises is rolled back; the objects are new ones.
RequestRaises == Rebuilt /\ UNCHANGED <<vars, last, edges>>

RestartMonitor ==
    /\ ServiceRestart /\ Rebuilt
    /\ last' = "none" /\ edges' = {}

-----------------------------------------------------------------------------
(* The monitor.                                                            *)

IsEdge(previous, current) ==
    /\ current \in {"true", "false"}
    /\ IF previous \in {"none", "absent"} THEN current = Active
       ELSE previous # "odd" /\ previous # current

\* _consume_line: the payload is remembered before any edge is handed on.
Receive(payload) ==
    /\ edges = {}
    /\ last' = payload
    /\ edges' = {[task |-> t, object |-> bindings[t].object, life |-> bindings[t].life]
                    : t \in {u \in TaskIds : Bound(u) /\ IsEdge(last, payload)}}
    /\ UNCHANGED <<vars, bindings, objects>>

Full == Cardinality(Live(runs)) >= MaxQueue

\* What the service does with an edge it accepts: queue it, ignore it for a
\* disabled task, or raise, which the monitor swallows.
External(t) ==
    \/ QueueEvent(t) /\ UNCHANGED <<bindings, objects>>
    \/ ~tasks[t].enabled /\ UNCHANGED <<vars, bindings, objects>>
    \/ tasks[t].enabled /\ Full /\ Rebuilt /\ UNCHANGED vars

\* Mutant: the binding is looked up by its name alone.
ConsumeByName(e) ==
    /\ e \in edges /\ \A other \in edges : e.task <= other.task
    /\ edges' = edges \ {e}
    /\ IF Bound(e.task) THEN External(e.task) ELSE UNCHANGED <<vars, bindings, objects>>
    /\ UNCHANGED last

\* consume_mqtt, for the bindings of the line in the order of their names.
Consume(e) ==
    /\ e \in edges /\ \A other \in edges : e.task <= other.task
    /\ edges' = edges \ {e}
    /\ IF bindings[e.task].object = e.object THEN External(e.task)
       ELSE UNCHANGED <<vars, bindings, objects>>
    /\ UNCHANGED last

-----------------------------------------------------------------------------
MInit == /\ Init
         /\ bindings = [t \in TaskIds |-> NoBinding]
         /\ objects = 0 /\ last = "none" /\ edges = {}

MNext == \/ Others
         \/ \E t \in TaskIds, policy \in Policies : CreateExternalTask(t, policy)
         \/ \E t \in TaskIds : DeleteBoundTask(t)
         \/ RequestRaises
         \/ RestartMonitor
         \/ \E payload \in Payloads : Receive(payload)
         \/ \E e \in edges : Consume(e)

MSpec == MInit /\ [][MNext]_mvars

-----------------------------------------------------------------------------
(* Properties.                                                             *)

\* A deleted or recreated binding receives no payload that arrived before: the
\* RUN that an edge queues is for the binding that was there when its line was
\* read.
NoOldPayload ==
    [][\A e \in edges :
        e \notin edges' /\ nextRun' = nextRun + 1
            => Bound(e.task) /\ bindings[e.task].life = e.life]_mvars

\* Every change of a bound field is an event: an edge whose binding was neither
\* deleted nor recreated, and whose task is enabled, is saved as a RUN of its
\* own while the journal has room.
EveryEdgeIsARun ==
    [][\A e \in edges :
        /\ e \notin edges' /\ last' # "none"
        /\ bindings[e.task].life = e.life
        /\ tasks[e.task].enabled /\ ~Full
        => nextRun' = nextRun + 1]_mvars

=============================================================================
