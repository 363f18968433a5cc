------------------------------ MODULE MqttReads ------------------------------
(***************************************************************************)
(* The MQTT tools of the native model: a measurement comes from the event  *)
(* that started the RUN, from a mosquitto_sub process, or from MqttCache,  *)
(* a subscription kept by the network thread of paho, whose callbacks      *)
(* share a condition variable with the readers.  One topic; messages are   *)
(* numbered as the broker delivers them.                                   *)
(***************************************************************************)
EXTENDS Naturals

CONSTANTS Readers,      \* concurrent tool calls
          MaxAge,       \* max_age, in ticks
          Timeout,      \* of a read, in ticks
          MaxMessages   \* bound: messages

ASSUME ReadConstants == MaxAge \in Nat /\ Timeout \in Nat /\ MaxMessages \in Nat

VARIABLES
    cache,     \* paho client, connection, the stored message
    reader,    \* per tool call: where it is, the time it has left, what it got
    delivered, \* the last message the broker delivered on the present connection
    silence,   \* ticks since then
    messages   \* messages so far

readVars == <<cache, reader, delivered, silence, messages>>

NoMessage == 0
Nothing == [message |-> NoMessage, age |-> 0]

Leaves(r, at, got) == reader' = [reader EXCEPT ![r] = [at |-> at, left |-> 0, got |-> got]]
Fails(r) == Leaves(r, "error", NoMessage)
Broker == UNCHANGED <<delivered, silence, messages>>

-----------------------------------------------------------------------------
(* The tool.                                                               *)

FromEvent(r) == reader[r].at = "idle" /\ Leaves(r, "event", NoMessage) /\ UNCHANGED cache /\ Broker

\* mosquitto_sub: a message, or an error of its own.
FromProcess(r) ==
    /\ reader[r].at = "idle"
    /\ Leaves(r, "process", NoMessage) \/ Fails(r)
    /\ UNCHANGED cache /\ Broker

\* read starts the client when there is none.
Read(r) ==
    /\ reader[r].at = "idle"
    /\ \/ cache.closed /\ Fails(r) /\ UNCHANGED cache
       \/ ~cache.closed /\ ~cache.started /\ Fails(r) /\ UNCHANGED cache
       \/ /\ ~cache.closed /\ cache' = [cache EXCEPT !.started = TRUE]
          /\ reader' = [reader EXCEPT ![r] = [at |-> "wait", left |-> Timeout, got |-> NoMessage]]
    /\ Broker

\* Whenever it has the lock: at once, notified, or out of time.
Wakes(r) ==
    /\ reader[r].at = "wait"
    /\ IF cache.closed THEN Fails(r)
       ELSE IF cache.connected /\ cache.item.message # NoMessage
       THEN IF cache.item.age <= MaxAge THEN Leaves(r, "value", cache.item.message) ELSE Fails(r)
       ELSE reader[r].left = 0 /\ Fails(r)
    /\ UNCHANGED cache /\ Broker

ToolEnds(r) ==
    /\ reader[r].at \notin {"idle", "wait"} /\ Leaves(r, "idle", NoMessage)
    /\ UNCHANGED cache /\ Broker

-----------------------------------------------------------------------------
(* Callbacks of paho, and close.                                           *)

Disconnected == delivered' = NoMessage /\ silence' = 0 /\ UNCHANGED <<reader, messages>>

OnConnect ==
    /\ cache.started /\ ~cache.connected
    /\ \E accepted \in BOOLEAN :
          cache' = [cache EXCEPT !.connected = accepted, !.item = Nothing]
    /\ Disconnected

OnDisconnect ==
    /\ cache.started
    /\ cache' = [cache EXCEPT !.connected = FALSE, !.item = Nothing]
    /\ Disconnected

Delivers == /\ cache.started /\ cache.connected /\ messages < MaxMessages
            /\ messages' = messages + 1 /\ silence' = 0 /\ UNCHANGED reader

\* Mutant: a message that is too large is dropped.
OnMessageDropsLarge ==
    /\ Delivers
    /\ \/ delivered' = messages' /\ cache' = [cache EXCEPT !.item = [message |-> messages', age |-> 0]]
       \/ delivered' = NoMessage /\ UNCHANGED cache

\* A message that is too large takes the place of the one before it.
OnMessage ==
    /\ Delivers
    /\ \/ delivered' = messages' /\ cache' = [cache EXCEPT !.item = [message |-> messages', age |-> 0]]
       \/ delivered' = NoMessage /\ cache' = [cache EXCEPT !.item = Nothing]

CloseCache ==
    /\ ~cache.closed
    /\ cache' = [started |-> FALSE, connected |-> FALSE, closed |-> TRUE, item |-> Nothing]
    /\ Disconnected

TimePasses ==
    /\ \/ \E r \in Readers : reader[r].left > 0
       \/ cache.item.message # NoMessage /\ silence <= MaxAge
    /\ cache' = IF cache.item.message # NoMessage /\ cache.item.age <= MaxAge
                THEN [cache EXCEPT !.item.age = @ + 1] ELSE cache
    /\ silence' = IF silence <= MaxAge THEN silence + 1 ELSE silence
    /\ reader' = [r \in Readers |-> IF reader[r].left > 0 THEN [reader[r] EXCEPT !.left = @ - 1] ELSE reader[r]]
    /\ UNCHANGED <<delivered, messages>>

-----------------------------------------------------------------------------
ReadInit ==
    /\ cache = [started |-> FALSE, connected |-> FALSE, closed |-> FALSE, item |-> Nothing]
    /\ reader = [r \in Readers |-> [at |-> "idle", left |-> 0, got |-> NoMessage]]
    /\ delivered = NoMessage /\ silence = 0 /\ messages = 0

ReadNext ==
    \/ \E r \in Readers : FromEvent(r) \/ FromProcess(r) \/ Read(r) \/ Wakes(r) \/ ToolEnds(r)
    \/ OnConnect \/ OnDisconnect \/ OnMessage \/ CloseCache \/ TimePasses

ReadSpec == ReadInit /\ [][ReadNext]_readVars

-----------------------------------------------------------------------------
(* Properties.                                                             *)

\* "Never serve a disconnected/stale cache": a value the tool gets is, when it gets it,
\* the last message of the present connection, and not older than max_age.
FreshReads ==
    [][\A r \in Readers : reader[r].at = "wait" /\ reader'[r].at = "value" =>
          /\ reader'[r].got = delivered /\ delivered # NoMessage
          /\ silence <= MaxAge]_readVars

=============================================================================
