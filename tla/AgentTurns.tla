----------------------------- MODULE AgentTurns -----------------------------
(***************************************************************************)
(* The conversations of the legacy CORE: one dialogue of the manager, and  *)
(* the agent it shares with autonomous tasks.  The dialogue's turn and the *)
(* activation of a task are generators which the scheduler advances in any *)
(* order; an action is what happens between two yields.  The pool has one  *)
(* agent, which is its event agent as well.                                *)
(*                                                                         *)
(* Of a message list only the role of the last message matters: "system"   *)
(* is the base alone, "none" no list.  What a model says is any directive  *)
(* the parser returns.                                                     *)
(***************************************************************************)
EXTENDS Naturals

CONSTANTS
    MaxCalls,      \* max_steps: model calls of a turn, and of an activation
    MaxRequests    \* bound: turns and activations

ASSUME TurnConstants == MaxCalls \in Nat \ {0} /\ MaxRequests \in Nat

VARIABLES
    manager,    \* messages, _chat_mode, _close_chat_after_reply, _uncertain_commands;
                \* who talks to it: a person, or the answers of autonomous tasks
    turn,       \* the generator of its turn
    agent,      \* the AgentWorker
    activation, \* an autonomous task holds the agent
    requests,   \* turns and activations so far
    doubt,      \* history: commands whose outcome is unknown, of the turn's person and
                \* of the activation
    replayed    \* history: one of them was executed again

turnVars == <<manager, turn, agent, activation, requests, doubt, replayed>>

Uncertain == {"mcp", "script", "shell"}
Commands == Uncertain \cup {"partly", "task", "timer"}
Says == Commands \cup {"oneshot", "external", "malformed", "other", "ask", "reply"}

NoTurn == [at |-> "none", said |-> "none", calls |-> 0]
Asleep == [state |-> "FREE", last |-> "none", method |-> "none", used |-> 0, repeated |-> 0,
           deferred |-> FALSE, within |-> "none", doubts |-> {}]

-----------------------------------------------------------------------------
(* Commands, for the manager and the agent alike.  A result says what to   *)
(* do next, what was executed, and the runtime's doubts after it.          *)

Ran(next, ran, unsure, doubts) ==
    [next |-> next, ran |-> ran, unsure |-> unsure,
     doubts |-> IF unsure = "none" THEN doubts ELSE doubts \cup {unsure}]

Refused(doubts) == {Ran("text", "none", "none", doubts)}

\* ToolDispatcher.dispatch
Dispatch(doubts) ==
    IF "mcp" \in doubts THEN Refused(doubts)
    ELSE {Ran("text", "mcp", u, doubts) : u \in {"none", "mcp"}}

\* Mutant: a timed-out command is recorded, but not looked up.
ExecuteAgain(doubts) == {Ran("text", "shell", u, doubts) : u \in {"none", "shell"}}

\* CommandRuntime.execute
Execute(doubts) ==
    IF "shell" \in doubts THEN Refused(doubts)
    ELSE {Ran("text", "shell", u, doubts) : u \in {"none", "shell"}}

\* read_partly_steps: up to the next fragment, or the combined result.
ReadPartly(doubts) == {Ran(next, "none", "none", doubts) : next \in {"partly", "text"}}

\* The lines of a scenario: a fragment of cyclic_process, the last output or none, a
\* command of the scenario that timed out.
ScenarioLines(ran, doubts) ==
    {Ran(next, ran, "none", doubts) : next \in {"script", "text", "silent"}}
    \cup {Ran("text", ran, "script", doubts)}

Scenario(doubts) ==
    IF "script" \in doubts THEN Refused(doubts) ELSE ScenarioLines("script", doubts)

Resumed(c, doubts) == IF c = "partly" THEN ReadPartly(doubts) ELSE ScenarioLines("none", doubts)

\* task_timer.sh and query_timer.sh with a period, timer.sh: one request to the Task
\* SYSTEM, or a complaint.
TaskCommand(doubts) == {Ran("text", "none", "none", doubts)}
TimerCommand(doubts) == {Ran("text", "none", "none", doubts)}

\* _execute_work_command_steps, and the same order of tools in AgentWorker._step_steps
Work(c, doubts) ==
    CASE c = "mcp" -> Dispatch(doubts)
      [] c = "script" -> Scenario(doubts)
      [] c = "shell" -> Execute(doubts)
      [] c = "partly" -> ReadPartly(doubts)
      [] c = "task" -> TaskCommand(doubts)
      [] c = "timer" -> TimerCommand(doubts)

Remember(who, known, r) ==
    /\ replayed' = (replayed \/ r.ran \in known)
    /\ doubt' = [doubt EXCEPT ![who] = known \cup ({r.unsure} \ {"none"})]

-----------------------------------------------------------------------------
(* The agent.                                                               *)

\* _release: the model may fail to return to base.
Released(preserve) ==
    {[Asleep EXCEPT !.last = l] : l \in IF preserve THEN {"system", "none"} ELSE {"none"}}

BeginWork(method) == [Asleep EXCEPT !.state = "RUNNING", !.last = "user", !.method = method]

BeginWithToolResult(method) == [BeginWork(method) EXCEPT !.deferred = TRUE]

\* One model call for a command that is not executed.
PlanFirstCommand == Released(TRUE) \cup Released(FALSE)

Outcome(out, agents) == {[out |-> out, agent |-> a, ran |-> "none", unsure |-> "none"] : a \in agents}

\* A user message is appended; _continue_or_limit.
Continue(a) ==
    IF a.used < MaxCalls THEN Outcome("more", {[a EXCEPT !.last = "user"]})
    ELSE Outcome("failed", Released(FALSE))

\* The same shell result for the third time ends the activation.
Executed(a, c, r) ==
    LET b == [a EXCEPT !.doubts = r.doubts, !.within = "none"]
        outcomes ==
            CASE r.next = "silent" -> Outcome("silent", Released(TRUE))
              [] r.next \in Commands -> Outcome("more", {[b EXCEPT !.within = c]})
              [] c = "shell" /\ a.repeated = 2 -> Continue(b) \cup Outcome("failed", Released(FALSE))
              [] c = "shell" -> Continue(b) \cup Continue([b EXCEPT !.repeated = @ + 1])
              [] OTHER -> Continue(b)
    IN  {[o EXCEPT !.ran = r.ran, !.unsure = r.unsure] : o \in outcomes}

\* What the agent says: a protocol error, an answer, a question, a command.  A
\* deferred MQTT payload answers the first command, if it is the bound one.
Answers(a) ==
    Continue(a)
    \cup Outcome("silent", Released(TRUE))
    \cup (IF a.method = "task" THEN {} ELSE Outcome("text", Released(TRUE)))
    \cup Outcome("need", {[a EXCEPT !.state = "WAITING"]})
    \cup IF a.deferred THEN Continue([a EXCEPT !.deferred = FALSE]) \cup Outcome("failed", Released(FALSE))
         ELSE UNION {UNION {Executed(a, c, r) : r \in Work(c, a.doubts)} :
                       c \in Uncertain \cup {"partly"}}

\* step: up to the next model call or fragment.  "raised" is any exception.
AgentStep(a) ==
    Outcome("raised", {a}) \cup
    IF a.within # "none"
    THEN UNION {Executed(a, a.within, r) : r \in Resumed(a.within, a.doubts)}
    ELSE IF a.state # "RUNNING" \/ a.last # "user" THEN {}
    ELSE Outcome("failed", Released(FALSE))
         \cup Answers([a EXCEPT !.used = @ + 1, !.last = "assistant"])

-----------------------------------------------------------------------------
(* The manager.                                                             *)

Heard(m) == [m EXCEPT !.last = "user"]
ResetToBase(m) == [m EXCEPT !.last = "system"]
AbortContext(m) == [m EXCEPT !.last = "system", !.chat = FALSE, !.closing = FALSE]

Goes(m, at) == manager' = m /\ turn' = [turn EXCEPT !.at = at]
Ends(m) == manager' = m /\ turn' = NoTurn

\* The n-th model call of the turn.
Ask(m, n) ==
    IF n > MaxCalls \/ m.last # "user" THEN Ends(AbortContext(m))
    ELSE \/ Ends(AbortContext(m))
         \/ \E s \in Says : /\ manager' = [m EXCEPT !.last = "assistant"]
                            /\ turn' = [at |-> "said", said |-> s, calls |-> n]

NewRequest == requests < MaxRequests /\ requests' = requests + 1

\* "чат", "конец чата" or anything else.
UserMessage(text) ==
    /\ turn = NoTurn /\ manager.audience = "person" /\ NewRequest
    /\ Ask([Heard(manager) EXCEPT !.doubts = {},
                                  !.chat = @ \/ text = "chat",
                                  !.closing = text = "end" \/ (@ /\ text # "chat")], 1)
    /\ doubt' = [doubt EXCEPT !.turn = {}]
    /\ UNCHANGED <<agent, activation, replayed>>

\* Notifications keep their doubts: no person says that a retry is wanted.
QueryResult ==
    /\ turn = NoTurn /\ manager.audience = "answers" /\ NewRequest
    /\ Ask(Heard(manager), 1)
    /\ UNCHANGED <<agent, activation, doubt, replayed>>

AskAgain ==
    /\ turn.at = "ask" /\ Ask(manager, turn.calls + 1)
    /\ UNCHANGED <<agent, activation, requests, doubt, replayed>>

\* No command: a protocol error yields, an unknown directive goes on at once.
Directive ==
    /\ turn.at = "said"
    /\ \/ turn.said = "malformed" /\ Goes(Heard(manager), "ask")
       \/ turn.said = "other" /\ Ask(Heard(manager), turn.calls + 1)
       \/ turn.said = "ask" /\ Ends(manager)
       \/ /\ turn.said = "reply"
          /\ Ends(IF manager.closing THEN AbortContext(manager)
                  ELSE IF manager.chat THEN manager ELSE ResetToBase(manager))
    /\ UNCHANGED <<agent, activation, requests, doubt, replayed>>

\* The result of a command goes to the model; no result ends the turn.
Result(silent, m) ==
    IF silent THEN Ends(IF m.chat THEN m ELSE ResetToBase(m)) ELSE Goes(Heard(m), "ask")

ManagerCommand ==
    /\ turn.said \in Commands /\ turn.at \in {"said", "within"}
    /\ \E r \in IF turn.at = "said" THEN Work(turn.said, manager.doubts)
                ELSE Resumed(turn.said, manager.doubts) :
          /\ LET m == [manager EXCEPT !.doubts = r.doubts]
             IN  IF r.next \in Commands THEN Goes(m, "within") ELSE Result(r.next = "silent", m)
          /\ Remember("turn", doubt.turn, r)
    /\ UNCHANGED <<agent, activation, requests>>

\* Setting up an MQTT task: the agent names its first command, which is not executed.
SetUpExternalTask ==
    /\ turn.at = "said" /\ turn.said = "external"
    /\ IF agent.state = "FREE" THEN agent' \in PlanFirstCommand ELSE UNCHANGED agent
    /\ Goes(Heard(manager), "ask")
    /\ UNCHANGED <<activation, requests, doubt, replayed>>

WaitForAgent ==
    /\ turn.said = "oneshot" /\ turn.at \in {"said", "wait"} /\ agent.state # "FREE"
    /\ Goes(manager, "wait")
    /\ UNCHANGED <<agent, activation, requests, doubt, replayed>>

\* A one-shot task; an exception that is not reported to the model discards the turn.
OneShot ==
    LET starts == turn.at \in {"said", "wait"} /\ agent.state = "FREE"
    IN  /\ turn.said = "oneshot" /\ (starts \/ turn.at = "oneshot")
        /\ \E r \in AgentStep(IF starts THEN BeginWork("query") ELSE agent) :
              /\ Remember("activation", IF starts THEN {} ELSE doubt.activation, r)
              /\ IF r.agent.state = "FREE" \/ r.out = "more" THEN agent' = r.agent
                 ELSE agent' \in Released(TRUE)
              /\ \/ r.out = "more" /\ Goes(manager, "oneshot")
                 \/ r.out # "more" /\ Result(r.out = "silent", manager)
                 \/ r.out = "raised" /\ Ends(AbortContext(manager))
        /\ UNCHANGED <<activation, requests>>

\* Mutant: closing a turn leaves its one-shot agent as it is.
CloseTurnOnly ==
    /\ turn # NoTurn /\ Ends(AbortContext(manager))
    /\ doubt' = IF turn.at = "oneshot" THEN [doubt EXCEPT !.activation = {}] ELSE doubt
    /\ UNCHANGED <<agent, activation, requests, replayed>>

\* The scheduler closes the generator: cancelled, or an exception.
CloseTurn ==
    /\ turn # NoTurn /\ Ends(AbortContext(manager))
    /\ IF turn.at = "oneshot" THEN agent' \in Released(TRUE) /\ doubt' = [doubt EXCEPT !.activation = {}]
       ELSE UNCHANGED <<agent, doubt>>
    /\ UNCHANGED <<activation, requests, replayed>>

\* reset_for_new_session
NewSession ==
    /\ turn = NoTurn
    /\ manager' = [AbortContext(manager) EXCEPT !.doubts = {}]
    /\ doubt' = [doubt EXCEPT !.turn = {}]
    /\ UNCHANGED <<turn, agent, activation, requests, replayed>>

-----------------------------------------------------------------------------
(* Autonomous tasks.                                                        *)

Activate(a) ==
    /\ NewRequest
    /\ agent' = a /\ activation' = TRUE
    /\ doubt' = [doubt EXCEPT !.activation = {}]
    /\ UNCHANGED <<manager, turn, replayed>>

\* The scheduler admits a task when the agent is free; one that cannot begin changes
\* nothing here.
CanBeginAutonomousTask == ~activation /\ agent.state = "FREE"

BeginAutonomousTask(method) == CanBeginAutonomousTask /\ Activate(BeginWork(method))

\* The payload of an MQTT event is the deferred result of the bound command.
ResumeMqttTask(method) == CanBeginAutonomousTask /\ Activate(BeginWithToolResult(method))

\* Nobody can answer a question: it ends the activation like an exception.
StepAutonomousTask ==
    /\ activation
    /\ \E r \in AgentStep(agent) :
          /\ Remember("activation", doubt.activation, r)
          /\ IF r.out \in {"need", "raised"} THEN agent' \in Released(TRUE) ELSE agent' = r.agent
          /\ activation' = (r.out = "more")
    /\ UNCHANGED <<manager, turn, requests>>

\* The task was changed or stopped, or the scheduler closes the generator.
StopAutonomousTask ==
    /\ activation /\ activation' = FALSE
    /\ agent' \in Released(TRUE)
    /\ UNCHANGED <<manager, turn, requests, doubt, replayed>>

-----------------------------------------------------------------------------
TurnInit ==
    /\ manager \in {[last |-> "system", chat |-> FALSE, closing |-> FALSE, doubts |-> {},
                     audience |-> a] : a \in {"person", "answers"}}
    /\ turn = NoTurn /\ agent = Asleep /\ activation = FALSE /\ requests = 0
    /\ doubt = [turn |-> {}, activation |-> {}] /\ replayed = FALSE

TurnNext ==
    \/ \E text \in {"plain", "chat", "end"} : UserMessage(text)
    \/ QueryResult \/ AskAgain \/ Directive \/ ManagerCommand
    \/ SetUpExternalTask \/ WaitForAgent \/ OneShot \/ CloseTurn \/ NewSession
    \/ \E method \in {"task", "query"} : BeginAutonomousTask(method) \/ ResumeMqttTask(method)
    \/ StepAutonomousTask \/ StopAutonomousTask

TurnSpec == TurnInit /\ [][TurnNext]_turnVars

-----------------------------------------------------------------------------
(* Properties.                                                             *)

\* The agent is busy exactly while a turn or an activation holds it, and comes home
\* with no more than its base, also after a question nobody can answer, an exception
\* or the closing of a suspended generator.
AgentComesHome ==
    /\ agent.state # "FREE" <=> (activation \/ turn.at = "oneshot")
    /\ ~(activation /\ turn.at = "oneshot")
    /\ agent.state = "FREE" => agent.last \in {"none", "system"}

\* A command whose outcome is unknown is not executed again by the same activation,
\* nor by the manager before a person speaks again.
DoubtfulNotRepeated == ~replayed

=============================================================================
