----------------------------- MODULE NativeTurns -----------------------------
(***************************************************************************)
(* One turn of the native manager, tool call by tool call: the manager's   *)
(* model loop, the calls it delegates, the agents' model loops, the guard  *)
(* every conversation consults around a tool, and the tools that change    *)
(* tasks of the Task SYSTEM.  All of it runs on the one model thread; the  *)
(* client may leave, the deadline pass and other clients change tasks      *)
(* between any two steps.                                                  *)
(*                                                                         *)
(* Context is counted in units of 128 tokens: the guard's margin of 256 is *)
(* two units, its allowance of 128 for the wrapping of a result one.       *)
(***************************************************************************)
EXTENDS Naturals, Sequences

CONSTANTS
    Helpers,          \* agents
    MaxCallsOfTurn,     \* max_calls of the guard
    MaxDelegated,     \* MAX_DELEGATIONS_PER_TURN
    Window,           \* max_context_tokens, beyond the prewarmed BASE
    Reply,            \* max_output_tokens
    MaxResult,        \* max_result_bytes
    MaxManagerTurns   \* bound: turns

TurnLimits ==
    /\ "manager" \notin Helpers
    /\ MaxCallsOfTurn \in Nat \ {0} /\ MaxDelegated \in Nat
    /\ Window \in Nat /\ Reply \in Nat \ {0} /\ Window > Reply + 2
    /\ MaxResult \in Nat \ {0} /\ MaxManagerTurns \in Nat

VARIABLES
    step,       \* where the model thread is, in which conversation, in which tool
    usage,      \* conversation -> token_count and batch_bytes of its guard
    helper,     \* agent -> FREE or FAILED
    allowance,  \* TURN_ACTIVE and TURN_BUDGET
    broker,     \* DelegationBroker: queued calls, count; the calls taken, their reports
    status,     \* status_code of the running conversation's ledger
    record,     \* a task number: none, own (periodic or MQTT, of this model), foreign
    attempted,  \* _create_attempted of the turn's task tools
    managerTurns, \* turns so far
    done        \* history of the turn: tools run, tools run after it was over, tasks
                \* created, whether a tool of this call failed, whether a failure was
                \* passed over

nativeVars == <<step, usage, helper, allowance, broker, status, record, attempted, managerTurns, done>>

NativeChats == {"manager"} \cup Helpers
Who == step.who
NoStep == [at |-> "idle", who |-> "manager", tool |-> "none"]
AtPlace(place) == [step EXCEPT !.at = place]

\* ToolGuard._available, which starts a new batch when the token count has moved.
Available == LET used == usage[Who].kv + usage[Who].batch + Reply + 2
             IN  IF used > Window THEN 0 ELSE Window - used

Over == ~allowance.active \/ allowance.late

-----------------------------------------------------------------------------
(* The turn.                                                               *)

\* Mutant: the guard of a conversation starts with a budget of its own.
AllowanceAlone == [active |-> TRUE, late |-> FALSE, calls |-> 0]

\* ToolGuard.reset joins the budget of the turn.
Allowance == allowance

\* NativeConversationChat.ask; the question takes its place in the context.
Asks(c) ==
    /\ step' = [at |-> IF usage[c].kv < Window THEN "model" ELSE "raised", who |-> c, tool |-> "none"]
    /\ usage' = [usage EXCEPT ![c].batch = 0, ![c].kv = IF @ < Window THEN @ + 1 ELSE @]
    /\ status' = 0
    /\ allowance' = Allowance
    /\ done' = [done EXCEPT !.spoilt = FALSE]

EndTurn(passedOver) ==
    /\ step' = NoStep
    /\ broker' = [broker EXCEPT !.queued = <<>>, !.taken = <<>>, !.reports = 0, !.failures = 0]
    /\ done' = [done EXCEPT !.hushed = @ \/ passedOver]

StartTurn ==
    /\ step = NoStep /\ managerTurns < MaxManagerTurns /\ managerTurns' = managerTurns + 1
    /\ usage["manager"].kv < Window
    /\ step' = [NoStep EXCEPT !.at = "model"]
    /\ usage' = [usage EXCEPT !["manager"].batch = 0, !["manager"].kv = @ + 1]
    /\ allowance' = [active |-> TRUE, late |-> FALSE, calls |-> 0]
    /\ broker' = [queued |-> <<>>, count |-> 0, taken |-> <<>>, reports |-> 0, failures |-> 0]
    /\ attempted' = FALSE
    /\ status' = 0
    /\ done' = [ran |-> 0, after |-> 0, created |-> 0, spoilt |-> FALSE, hushed |-> FALSE]
    /\ UNCHANGED <<helper, record>>

\* "/new", or the release of the session: a clone of BASE, which may fail.
ResetManager ==
    /\ step = NoStep
    /\ usage' = [usage EXCEPT !["manager"] = [kv |-> 0, batch |-> 0]]
    /\ UNCHANGED <<step, helper, allowance, broker, status, record, attempted, managerTurns, done>>

\* send_message: the model reads what is new and says something of n units.
Generate(n) ==
    /\ step.at = "model"
    /\ LET kv == usage[Who].kv + usage[Who].batch + n
       IN  IF kv > Window THEN step' = AtPlace("raised") /\ UNCHANGED usage
           ELSE step' = AtPlace("said") /\ usage' = [usage EXCEPT ![Who] = [kv |-> kv, batch |-> 0]]
    /\ UNCHANGED <<helper, allowance, broker, status, record, attempted, managerTurns, done>>

\* All results of the batch are there: the next inference of the same turn.
Continues ==
    /\ step.at = "said" /\ usage[Who].batch > 0
    /\ step' = AtPlace("model")
    /\ UNCHANGED <<usage, helper, allowance, broker, status, record, attempted, managerTurns, done>>

InferenceFails ==
    /\ step.at = "model" /\ step' = AtPlace("raised")
    /\ UNCHANGED <<usage, helper, allowance, broker, status, record, attempted, managerTurns, done>>

\* The manager has answered: the calls it queued are taken.
ManagerAnswers ==
    /\ step = [AtPlace("said") EXCEPT !.who = "manager"] /\ usage["manager"].batch = 0
    /\ IF broker.queued = <<>> \/ ~allowance.active THEN EndTurn(FALSE)
       ELSE /\ step' = AtPlace("next")
            /\ broker' = [broker EXCEPT !.queued = <<>>, !.taken = broker.queued]
            /\ UNCHANGED done
    /\ UNCHANGED <<usage, helper, allowance, status, record, attempted, managerTurns>>

ManagerRaises ==
    /\ step.at = "raised" /\ Who = "manager" /\ EndTurn(FALSE)
    /\ UNCHANGED <<usage, helper, allowance, status, record, attempted, managerTurns>>

\* The next delegated call, unless the client has left; then the reports, if any.
NextCall ==
    /\ step.at = "next"
    /\ IF ~allowance.active \/ (broker.taken = <<>> /\ broker.reports = 0)
       THEN /\ EndTurn(allowance.active /\ broker.failures > 0)
            /\ UNCHANGED <<usage, allowance, status>>
       ELSE IF broker.taken = <<>>
       THEN /\ Asks("manager")
            /\ broker' = [broker EXCEPT !.reports = 0, !.failures = 0]
       ELSE IF helper[Head(broker.taken)] = "FREE"
       THEN Asks(Head(broker.taken)) /\ UNCHANGED broker
       ELSE /\ broker' = [broker EXCEPT !.taken = Tail(@), !.reports = @ + 1, !.failures = @ + 1]
            /\ UNCHANGED <<step, usage, allowance, status, done>>
    /\ UNCHANGED <<helper, record, attempted, managerTurns>>

\* NativeAgent.run ends, with an answer, silence or an exception; it is reset to a
\* clone of BASE, which may fail.  A silent success is not reported.
HelperReturns(silent, reset) ==
    /\ Who \in Helpers /\ (step.at = "raised" \/ (step.at = "said" /\ usage[Who].batch = 0))
    /\ LET fails == step.at = "raised" \/ status # 0 \/ ~reset
       IN  /\ broker' = [broker EXCEPT !.taken = Tail(@),
                                       !.reports = IF ~fails /\ silent THEN @ ELSE @ + 1,
                                       !.failures = IF fails THEN @ + 1 ELSE @]
           /\ done' = [done EXCEPT !.hushed = @ \/ (done.spoilt /\ ~fails)]
    /\ helper' = [helper EXCEPT ![Who] = IF reset THEN @ ELSE "FAILED"]
    /\ usage' = IF reset THEN [usage EXCEPT ![Who] = [kv |-> 0, batch |-> 0]] ELSE usage
    /\ step' = [NoStep EXCEPT !.at = "next"]
    /\ UNCHANGED <<allowance, status, record, attempted, managerTurns>>

-----------------------------------------------------------------------------
(* The guard around a tool.                                                *)

StopsTurn == step' = AtPlace("raised") /\ status' = 1

ManagerTools == {"delegate", "create", "change"}

\* approve_tool_call
ApproveToolCall(tool) ==
    /\ step.at = "said"
    /\ tool \in {"plain"} \cup IF Who = "manager" THEN ManagerTools ELSE {}
    /\ IF Over \/ allowance.calls >= MaxCallsOfTurn \/ Available < 2
       THEN StopsTurn /\ UNCHANGED allowance
       ELSE /\ step' = [AtPlace("tool") EXCEPT !.tool = tool]
            /\ allowance' = [allowance EXCEPT !.calls = @ + 1]
            /\ UNCHANGED status
    /\ UNCHANGED <<usage, helper, broker, record, attempted, managerTurns, done>>

ToolRuns(result) ==
    /\ step' = AtPlace(result)
    /\ UNCHANGED <<usage, helper, allowance, status, managerTurns>>

\* The tool has had its effect, or failed.
Counted == [done EXCEPT !.ran = @ + 1, !.after = IF Over THEN @ + 1 ELSE @]

\* ToolExecutionLedger around a Bash command, a configured command or a reading of
\* MQTT: an exception, ok = false or an exit code.
PlainTool(ok) ==
    /\ step.at = "tool" /\ step.tool = "plain"
    /\ ToolRuns(IF ok THEN "ok" ELSE "error")
    /\ done' = [Counted EXCEPT !.spoilt = @ \/ ~ok]
    /\ UNCHANGED <<broker, record, attempted>>

\* delegate_task with period 0.
EnqueueCall(a) ==
    /\ step.at = "tool" /\ step.tool = "delegate"
    /\ IF broker.count < MaxDelegated
       THEN /\ broker' = [broker EXCEPT !.count = @ + 1, !.queued = Append(@, a)]
            /\ ToolRuns("ok")
       ELSE UNCHANGED broker /\ ToolRuns("error")
    /\ done' = Counted
    /\ UNCHANGED <<record, attempted>>

\* delegate_task with a period, or for an MQTT event: one attempt in a turn, whose
\* reply may be lost although the service committed.
CreateByTool(committed, replied) ==
    /\ step.at = "tool" /\ step.tool = "create" /\ (replied => committed)
    /\ IF attempted THEN ToolRuns("error") /\ UNCHANGED attempted /\ done' = Counted
       ELSE /\ attempted' = TRUE
            /\ ToolRuns(IF replied THEN "ok" ELSE "error")
            /\ done' = [Counted EXCEPT !.created = IF committed THEN @ + 1 ELSE @]
    /\ UNCHANGED <<broker, record>>

\* stop, start and delete look the number up first: the look-up may fail, and start
\* answers for a task that is enabled already without a second request.
GetTask ==
    /\ step.at = "tool" /\ step.tool = "change"
    /\ \/ record = "own" /\ ToolRuns("write") /\ UNCHANGED done
       \/ record = "own" /\ ToolRuns("ok") /\ done' = Counted
       \/ ToolRuns("error") /\ done' = Counted
    /\ UNCHANGED <<broker, record, attempted>>

\* The second request names the number only; a lost reply is like a rejection here.
ChangeTask(deletes, replied) ==
    /\ step.at = "write" /\ ToolRuns(IF replied /\ record # "none" THEN "ok" ELSE "error")
    /\ record' = IF deletes THEN "none" ELSE record
    /\ done' = Counted
    /\ UNCHANGED <<broker, attempted>>

\* Other clients of the Task SYSTEM; numbers are reused.  Only a look-up and a change
\* read the record, so it is enough to let it change before each of them.
OtherClient(r) ==
    /\ step.at \in {"model", "write"} /\ record # r /\ "none" \in {record, r}
    /\ record' = r
    /\ UNCHANGED <<step, usage, helper, allowance, broker, status, attempted, managerTurns, done>>

\* Mutant: the status is that of the last tool.
ProcessLast(size) ==
    /\ step.at \in {"ok", "error"} /\ size <= MaxResult /\ size < Available
    /\ status' = IF step.at = "error" THEN 1 ELSE 0
    /\ step' = [AtPlace(IF Over THEN "raised" ELSE "said") EXCEPT !.tool = "none"]
    /\ usage' = [usage EXCEPT ![Who].batch = @ + size + 1]
    /\ UNCHANGED <<helper, allowance, broker, record, attempted, managerTurns, done>>

\* process_tool_response: a result that does not fit is saved and shortened to what
\* does; a shortened one of no more than its metadata may still not fit.
ProcessToolResponse(size) ==
    /\ step.at \in {"ok", "error"} /\ size <= MaxResult
    /\ IF size < Available
       THEN /\ usage' = [usage EXCEPT ![Who].batch = @ + size + 1]
            /\ step' = [AtPlace(IF Over THEN "raised" ELSE "said") EXCEPT !.tool = "none"]
            /\ status' = IF step.at = "error" \/ Over THEN 1 ELSE status
       ELSE Available < 3 /\ StopsTurn /\ UNCHANGED usage
    /\ UNCHANGED <<helper, allowance, broker, record, attempted, managerTurns, done>>

-----------------------------------------------------------------------------
ClientLeaves ==
    /\ step # NoStep /\ allowance.active /\ allowance' = [allowance EXCEPT !.active = FALSE]
    /\ UNCHANGED <<step, usage, helper, broker, status, record, attempted, managerTurns, done>>

DeadlinePasses ==
    /\ step # NoStep /\ ~allowance.late /\ allowance' = [allowance EXCEPT !.late = TRUE]
    /\ UNCHANGED <<step, usage, helper, broker, status, record, attempted, managerTurns, done>>

\* build_native_manager has warmed every BASE and opened the gates of the tools.
NativeInit ==
    /\ step = NoStep /\ usage = [c \in NativeChats |-> [kv |-> 0, batch |-> 0]]
    /\ helper = [a \in Helpers |-> "FREE"]
    /\ allowance = [active |-> FALSE, late |-> FALSE, calls |-> 0]
    /\ broker = [queued |-> <<>>, count |-> 0, taken |-> <<>>, reports |-> 0, failures |-> 0]
    /\ status = 0 /\ record \in {"none", "own", "foreign"}
    /\ attempted = FALSE /\ managerTurns = 0
    /\ done = [ran |-> 0, after |-> 0, created |-> 0, spoilt |-> FALSE, hushed |-> FALSE]

Model == \/ \E n \in 0..Reply : Generate(n)
         \/ Continues \/ InferenceFails

ToolStep ==
    \/ \E tool \in {"plain"} \cup ManagerTools : ApproveToolCall(tool)
    \/ \E ok \in BOOLEAN : PlainTool(ok)
    \/ \E a \in Helpers : EnqueueCall(a)
    \/ \E b, c \in BOOLEAN : CreateByTool(b, c) \/ ChangeTask(b, c)
    \/ GetTask
    \/ \E size \in 1..MaxResult : ProcessToolResponse(size)

NativeNext ==
    \/ StartTurn \/ ResetManager \/ Model \/ ToolStep
    \/ ManagerAnswers \/ ManagerRaises \/ NextCall
    \/ \E b, c \in BOOLEAN : HelperReturns(b, c)
    \/ ClientLeaves \/ DeadlinePasses \/ \E r \in {"none", "own", "foreign"} : OtherClient(r)

NativeSpec == NativeInit /\ [][NativeNext]_nativeVars

-----------------------------------------------------------------------------
(* Properties.                                                             *)

\* A turn runs no more tools than its limit over the conversations of the manager and
\* of all agents it calls, and once the client has left or the deadline has passed at
\* most the one that was already approved; it creates one task at most, although the
\* reply of the service may be lost.
TurnIsBounded == done.ran <= MaxCallsOfTurn /\ done.after <= 1 /\ done.created <= 1

\* A delegated call in which a tool failed is not taken for a success, and a failed
\* call is told to the manager, however many calls were queued together.
FailuresAreTold == ~done.hushed

=============================================================================
