# Cat-agent: a TLA+ model of its task system, its COREs and their turns

Cat-agent runs language-model agents on a small machine. Several processes
cooperate: one **Task SYSTEM** service that owns saved TASKs and the journal of
their RUNs, and any number of **CORE** processes that execute RUNs with a model
and talk to people. A CORE is of one of two generations: the *native* one
(`agent_core_tools/`, `orchestration_tools/`, `litert_agent_tools/`), in which the model
calls tools itself, and the *legacy* one (`agent_core/`, `orchestration/`), in which it
writes directives that a state machine carries out. This directory models the
service, the path of a RUN, an answer and a notification through both COREs, what
happens inside a turn of either, and the clients of the inference engines. Line
numbers below refer to `src/src/...`.

## The system

| Component | State it keeps | Operations | Talks to |
|---|---|---|---|
| Task SYSTEM service (`task_system/engine.py`, `main.py`, `orchestration/tasks.py`) | tasks, generations, RUN journal, worker leases, one SQLite row | management requests, worker requests, tick, rollback, restart | every CORE, by one request per Unix-socket connection |
| Task timers (`orchestration/system_events.py`) | one timer per periodic task | arm, stop, resume, change, poll | inside the service |
| QUERY result store (`engine.py` 390-446) | answers by RUN, acknowledged or not | publish, list, acknowledge, evict | native worker, notification client |
| MQTT monitor, bindings (`mqtt_events.py`, `event_store.py`) | last payload per topic, bindings by name | read a line, detect edges, call back | the service, on its own thread |
| Native task worker (`agent_core_tools/task_worker.py`) | tokens in hand, reserved agents, FINISH and PUBLISH to send, offers to give back | heartbeat, settle, pull, admit, begin, validate, run, close | the service (RPC), the scheduler |
| Priority scheduler (`priority_scheduler.py`) | a bounded queue, one model thread | submit, run, close | worker, native server |
| Native CORE server (`agent_core_tools/server.py`) | human owner, session epochs, background jobs, finished ledger | client messages, background steps, cancel, close | terminal clients, scheduler, outbox |
| Native manager, agents, tools (`orchestration_tools/`, `litert_agent_tools/`) | agent states, conversations, budgets and ledgers of tools, an MQTT cache | turn, slice, delegate, task tools, reads | model engine, service |
| Notification outbox (`agent_core/outbox.py`, `firebase_push.py`) | rows and dispatchers in shared SQLite | enqueue, elect, send, acknowledge | every CORE, Firebase |
| Legacy CORE (`agent_core/core_scheduler.py`, `core_server.py`, `task_system/client.py`) | request queue, suspended turns, two manager contexts, offers seen | admit, step, complete, release | service, human clients |
| Legacy manager and agents (`orchestration/manager.py`, `assistant_manager.py`, `agent.py`, `pool.py`, `cyclic_process.py`, `read_partly.py`) | message lists, the agents' states, uncertain commands | turn, activation, step, close | model clients, command runtimes |
| Command, MCP and process runtimes (`orchestration/*_runtime.py`, `process_runner.py`) | the MCP connection and its queue; a process group per call | execute, call, close | child processes, MCP servers |
| Model clients (`*/model_client.py`) | a resident session or a count of resident tokens | prepare, chat, reset | LiteRT, llama-server, OpenAI endpoints |
| Readiness (`task_system/readiness.py`) | cached probe result | probe, heartbeat | service |
| Socket ownership (`agent_core/socket_owner.py`) | lock file, socket identity | acquire, release | other CORE starts |
| Terminals, voice, web, configuration | mostly per call | I/O and parsing | a CORE |

**Hard behaviours.** Requests commit whole or are rolled back whole, but a
rollback rebuilds every object in memory. A client that sees a request fail does
not know whether it was executed. RUNs refer to tasks by a number that is reused
and a generation that some operations keep. Leases expire by time alone, and a
late heartbeat renews them. Several threads share tokens, agents and dialogues
without holding a lock during requests and inferences. Work is cut into slices or
generators that can be overtaken, closed or forgotten between any two steps. Resets,
clones, closes and inferences of the engine fail, and what the engine holds
can only be remembered, never read. Side effects of a model turn must
never be repeated, so everything uncertain has to end in "interrupted", never in
"pending".

**What makes each component correct.** Service: at most one grant per task
number, no begun RUN ever runs again, a revoked RUN is revoked for good, timers
agree with tasks, the journal loses no open RUN. Result store: an
answer stays until it is acknowledged. Worker: an agent is called at most once for
a RUN, only on a RUN the service holds as running for it, and every token is settled.
MQTT: an old payload never reaches a new binding. Native server: no job is lost or
stepped twice, work whose session has ended begins no further call of the model, no
dialogue is shared by two users.
Notifications: an answer is shown or pushed, and forgotten only once that is safe.
Legacy CORE: contexts and agents are given back on every path, a revoked RUN makes one
step more at most, no offer is taken twice or forgotten, every request ends. Turns: budgets hold over all the conversations
of a turn, doubtful commands are not repeated, failures are told. Runtimes: "not sent"
and "timed out" are true. Model clients: an inference reads its own dialogue, and
what is shown is the answer.

## Modules

| Module | Models | Extends |
|---|---|---|
| `TaskEngine` | `TaskEngine.call/tick/_dispatch/_worker`, `TaskStore`, task timers of `SystemRuntime` | |
| `RunLedger` | the abstract promise of the journal, which `TaskEngine` implements | |
| `TaskEngineProofs` | theorems about `TaskEngine`, among them the refinement | `TaskEngine`, `TLAPS` |
| `QueryResults` | `publish_result`, `notifications.ack`, eviction | `TaskEngine` |
| `QueryResultsProofs` | theorems about `QueryResults` | `QueryResults`, `TaskEngineProofs` |
| `NativeTaskWorker` | `NativeTaskWorker`, its use of `PriorityScheduler` and `TaskRPC` | `QueryResults` |
| `NativeTaskWorkerProofs` | theorems about `NativeTaskWorker` | `NativeTaskWorker`, `QueryResultsProofs` |
| `MqttActivation` | `MqttEventMonitor._consume_line`, bindings, `consume_mqtt`, `_restore` | `TaskEngine` |
| `NativeServer` | `CoreServer` sessions, turns, probes and background jobs, `PriorityScheduler`, agent and manager dialogues, the worker's reservations | |
| `NativeServerProofs` | theorems about `NativeServer`: its two locks; its sessions, dialogues and jobs | `NativeServer`, `FiniteSetTheorems`, `TLAPS` |
| `Notifications` | `NotificationOutbox`, hand-over from the inbox, terminals, Firebase | |
| `NotificationsProofs` | theorems about `Notifications` | `Notifications`, `TLAPS` |
| `LegacyCore` | `CoreScheduler`, its server's sessions, `RemoteSystemRuntime` | |
| `LegacyCoreProofs` | theorems about `LegacyCore` | `LegacyCore`, `FiniteSetTheorems`, `TLAPS` |
| `AgentTurns` | `AssistantManagerRuntime`, `ManagerRuntime`, `AgentWorker`, the dispatch of commands and scenarios | |
| `FragmentRuns` | `cyclic_process`, `read_partly`, `fragment_processing` | |
| `McpCalls` | `McpRuntime` | |
| `ProcessRuns` | `run_process` and the native shell and command runners | |
| `NativeTurns` | a native turn: `NativeManager`, `DelegationBroker`, `ToolGuard`, `ToolExecutionLedger`, `NativeTaskController` | |
| `MqttReads` | `MqttCache` and the tools that read it | |
| `NativeLifetime` | `NativeConversationChat`, the pool's start and close | |
| `ModelContext` | `LiteRTChatClient` and its callers | |
| `ModelRequests` | `LlamaChatClient`, `OpenAICompatibleChatClient` | |
| `ComponentProofs` | theorems about `McpCalls`, `ProcessRuns`, `FragmentRuns`, `MqttReads`, `AgentTurns`, `ModelRequests`, `NativeLifetime`, `MqttActivation` | these, `TaskEngineProofs`, `WellFoundedInduction` |
| `TurnProofs` | theorems about `NativeTurns` and `ModelContext` | these, `TLAPS` |
| `MCComponents` | small instances of eleven of these, side by side | the eleven |
| other `MC...` | the constants of the other runs | the module of the same name |

`TaskEngine` is the base of `QueryResults`, `NativeTaskWorker` and `MqttActivation`: in
these the service takes all of its steps beside those of its client. The other modules
meet the service, and each other, at a request whose answers are free: `LegacyCore`
has the states of the grants it was offered, `NativeServer` takes any answer to BEGIN
and VALID, `AgentTurns` and `NativeTurns` take any result of a command or request,
and an inference says anything.

### The service

**TaskEngine.** Each request and each tick is one action: the code runs it under
one lock and saves the whole state in one transaction, and an exception restores
the snapshot taken before it, so a request that raises is a stuttering step
(`MqttActivation` is where the rebuilt objects matter). `runs` is the journal in
insertion order; a RUN's random identifier is its place. The random generation
of a task is a counter per number that `FreshGen` advances exactly where the
code draws a new one, and that survives deletion, because random values do not
repeat; the random `offer_id` is likewise a counter per RUN. `workers` holds what
the last heartbeat said, with `LeaseExpires` for the passing of `lease_seconds`,
and is lost at a restart, as in the code. A timer's deadline is reduced to
"armed" or "due". Every worker request first settles the journal (`Settled`, the
call of `_reconcile` at 453), including requests that then answer False; `Pull`
takes any set of offers as seen and any set of RUNs to skip. The generic
worker sends BEGIN, VALID, FINISH for any RUN and offer at any time, so the
service is checked against clients that are late, duplicated and out of order.

**RunLedger** says what all this amounts to for whoever hands in work: an entry
waits, is held under one grant, begins under that grant and ends; only before
it began may it go back; no job is in two hands. `Entry` in `TaskEngine` is the
refinement mapping: "pending" is waiting, "offered" held and "running" begun
under the pair of worker and offer, and a place of the journal that was used and
pruned is gone, not unborn. One step of the service may move many entries, and that is
why `LedgerNext` moves each by itself under one condition on them all.

**QueryResults.** `results` is the store in insertion order. `MayPublish` holds the
conditions of a first publication, `PublishAccepted` the answer to a retry,
`PruneAcked` the eviction by position. The content of an answer is not compared:
a worker never changes the answer of a RUN.

**MqttActivation.** One topic and one field. A payload is "true", "false",
"absent" (without the field) or "odd" (a value of another type). The bindings a
line is handed to are copied when the line is read, and each is then passed to
`consume_mqtt` while requests of others come in between. A binding is an object
(`object`) of a life (`life`): the code compares the former, the documentation
speaks of the latter.

### The native CORE

**NativeTaskWorker.** The poll thread (`poll`) and the model thread (`job`) take
one action per request or per locked section. A request is `Answered`, or
`Unanswered`: its caller sees an error while the service has executed it, has
refused it, or will execute it later (`late`, `ExecuteLate`). BEGIN, VALID,
PUBLISH, FINISH, PULL, HEARTBEAT and OFFLINE all take these outcomes. Shutdown
follows `CoreServer.close`: stop flag, scheduler drained, worker closed; `Crash`
may come at any step. An agent may be busy at any time, an inference may end
with any outcome, with an answer or without.

**NativeServer.** Each message of a client is one action, because its handler works
under the server's lock; so are the locked sections of the model thread before and
after a native call, and the call itself. `running.at` is the place of the model
thread in the operation it has taken. The admission of a job or a probe is two actions
with the lock held between them (`admitting`): it asks the worker whether the agent is
reserved under the worker's lock, and the worker selects an agent in one step
(`SelectAgent`, server's lock) and reserves it in another (`ReserveAgent`, worker's lock).
`context` and `dialogue` say whose texts a working dialogue holds; cloning BASE may
fail at every reset, with the different effects of `agents.py` (the agent becomes
FAILED) and of `conversation.py` (the manager's dialogue stays). A cancelled job is
the state CANCELLING, which the code always sets with `cancelled`; a job that ended is
forgotten and its identifier may be used again once no queued operation names it, as a
random identifier would be fresh. A message to a client is written in the locked section
that looks at its session, so messages are not part of the state; `gone` is history, what
was true of the session when the thread last looked at it. A deadline has passed or not whenever it is looked
at.

**NativeTurns** opens one turn. The model thread moves through the manager's model
loop, its tools, the calls it queued for agents and the loops of those; `step` is
where it is. The guard's arithmetic is kept: tokens of the conversation, bytes of the
batch, the reply it must leave room for, in units of 128 tokens. `allowance` is the
budget that the guards of all conversations share through a context variable, and
`Asks` joins it as `ToolGuard.reset` does. The tools with an effect are a plain one,
delegation, and the task tools, whose look-up and change are two requests with other
clients' steps in between; the look-up may fail, or be all there is when a task to start
runs already; a request to create a task may commit although its reply is
lost.

**NativeLifetime** counts the engine's conversations. Each chat has an immutable BASE
and a working clone; creating, warming, cloning and closing fail one at a time, in the
order of the code, and a close that raises leaves its conversation open (`raised`). So
does the inspection of a new clone: `_clone_base` attaches the guard and the trace and
reads the token count before anything refers to the clone, and closes it only when the
count differs (`conversation.py` 265-275).

**MqttReads.** The callbacks of the network thread and the readers share one lock, so
a callback, the start of a read, and a wake-up are each one action. Time is in ticks, and
`silence` is what an observer of the broker would know of the last message's age.

### Notifications

**Notifications** has the native and the legacy CORE over one outbox file. A pump's
transaction elects a dispatcher and chooses a row (`PumpChooses`); sending comes after
it, outside the transaction, and the bookkeeping after that, so two COREs can send
the same row and a user's acknowledgement can overtake a failed attempt. An answer of
the inbox is found, put into the outbox or sent to a terminal, and acknowledged to the
service, in three steps with crashes between them. A terminal shows before
it acknowledges, and both directions of its connection lose what is on the way
when it goes.

### The legacy CORE

**LegacyCore.** The scheduler thread, the executor thread, the client threads and
the poll of the service take steps on `reqs`, `jobs` and the two manager
contexts. A request is a generator: it yields after a step and may be overtaken by one
of higher priority, also while it holds an agent or a context. Warm-ups and
recoveries of a context, resets that fail, releases of a session during
its turn, and `close` are actions. The service's answer (`Allow`) and the step it allows
(`BeginStep`) are two, with everything else in between. A turn of a user and a
notification may both want the one agent for a one-shot task, and wait suspended while
another holds it; the context of the notifications is shared, and so is the flag that one
of them waits (`noteWaits`), which a notification closed in its wait leaves set. Once the scheduler is told to stop, releases of a
session no longer give its context back, as in the code (609). The service is the state of each offer: offered,
running, revoked, finished; it may be away at any validation, and the reply to BEGIN or FINISH
may be lost after it was recorded.

**AgentTurns.** What the scheduler steps there is a generator here: an action is what
happens between two yields, of the manager's turn or of an autonomous task, and both
may hold the one agent. A model says any directive the parser returns; a command gives
a result, is refused, times out with its effect unknown, or hands the agent a
deferred result. `CloseTurn` and `StopAutonomousTask` are the closing of a suspended
generator with its `finally` blocks.

**FragmentRuns.** Two runs of `cyclic_process` or `read_partly` interleave at part
boundaries and may write one output file: the temporary file, the child client, the
replacement and every unwinding path are steps.

**McpCalls.** The calling thread, the owner task and the event loop's end; a Future
has the states of `concurrent.futures`, and `Commit` is
`set_running_or_notify_cancel`.

**ProcessRuns.** `run_process` and the native runner over a process group whose
members fork, leave the group, close pipes, ignore SIGTERM and exit at any moment. The
six places that start a command differ in what they give it.

### Model clients

**ModelContext.** The resident session is a sequence of turns (`kv`), what the client
remembers is another (`synced`), and a third is the vision conversation that an
image opens. The callers (the manager's own context and the fork that is KV2, the agent,
the fragment reader) are modelled with the ways each of them treats a failure, because these
decide what the next call finds. The fork's client, like the agent's, may start over by
itself after a rewind that failed (`allow_prefix_reset`, `model_client.py` 82); the manager's own
may not (`litert_agent/runtime.py` 139), and only it is recovered.

**ModelRequests.** A call is a list of HTTP requests; one with a JSON answer is repeated,
a stream is not, and its pieces are on the screen before it ends.

## Runs

| Run | Shows | Bounds |
|---|---|---|
| `task_engine` | exclusive grants, no replay, forfeited offers, revocation for good; the service implements `RunLedger` | one number, an OpenAI and a LiteRT CORE, 2 RUNs, 2 offers each, 2 regenerations |
| `task_timers` | timers match tasks, no backlog of ticks, pruning takes finished RUNs only | two periodic numbers, one CORE, 2 RUNs, 1 finished RUN kept |
| `task_engine_live` | a RUN of a dead CORE is released although every tick fails | two COREs, two periodic numbers, 3 RUNs, journal limit 1, no readiness reports |
| `native_worker` | one agent call per RUN, on a running RUN only, no leak of tokens and agents, done means saved | two workers, two agents, 1 RUN with 2 offers, one late request |
| `native_worker_live` | every token settles | one worker, 2 RUNs, one token in hand, one unacknowledged answer |
| `native_server` | jobs are carried on until they end, dialogues are not shared, a RUN has its agent alone, a session that ends stops its work, cleanup is not starved | two sessions of one or two clients, one agent, jobs of 2 slices, 2 waiting operations, one delegated call a turn |
| `notifications` | an acknowledged answer is safe, a delivered row stays delivered, everything arrives | two COREs, one of them native, one answer and one reply, one terminal session, one end of a CORE |
| `legacy_core` | contexts are accounted for until the stop, a revoked RUN stops, offers are neither taken twice nor forgotten, open dialogues kept, every request ends | two sessions and the voice client, one RUN, 3 events, one step before the last, three waiting requests, two of them RUNs |
| `components` | thirteen properties of the modules below | one small instance each |
| `mqtt_edges` | a disagreement between documentation and code (below) | two numbers, 3 RUNs, 4 rebuilt objects |
| `session_dialogue` | a disagreement between a comment and the code (below) | as `native_server` |
| `model_context` | a bug (below) | 6 inferences, two system messages of agents |

`components` checks in one run the modules that do not act on each other: `MCComponents`
extends each of them, `part` says which one runs, and the others stay in
their first state, so its behaviours are exactly those of the instances taken one at a time.
`MqttActivation` and `QueryResults` both extend `TaskEngine` and take their own bounds of its
journal from `MqttBound` and `AnswersBound`.

| Part | Property | Bounds |
|---|---|---|
| `AgentTurns` | `AgentComesHome`: the agent is busy exactly while a turn or an activation holds it. `DoubtfulNotRepeated`: a command with an unknown outcome is not executed again | 3 model calls a turn, 2 turns or activations |
| `McpCalls` | `NotSentIsTrue`: a call reported as not sent was not and will not be sent | 3 calls, 3 connections |
| `ProcessRuns` | `TimedOutGroupIsGone`: of a command reported as timed out nothing runs any more | 2 descendants, 2 commands |
| `FragmentRuns` | `NothingHalfDone`: a whole output, no child and no temporary file, however a run ends | two users, 2 parts, 4 runs |
| `NativeTurns` | `TurnIsBounded`: one limit for all conversations, one task created. `FailuresAreTold`: a failed tool is not passed over | one agent, 3 tools, 2 delegations, a window of 10 units |
| `MqttReads` | `FreshReads`: a value is the last message of the present connection, not too old | two readers, 3 messages, limits of 1 and 2 ticks |
| `NativeLifetime` | `ConversationsAccounted`: no chat loses its dialogue, no conversation leaks | a manager and two agents, 9 conversations |
| `ModelContext` | `ReadsItsOwnTurns`: an inference reads every turn of its dialogue and no completed turn of another | 6 inferences |
| `ModelRequests` | `ShownIsTheAnswer`: the answer returned comes from one request and is what was shown | one repetition, 2 pieces, 6 requests |
| `MqttActivation` | `NoOldPayload`: no old payload for a new binding | two numbers, 2 RUNs, 3 rebuilt objects |
| `QueryResults` | `UnackedNeverLost`: only acknowledged answers are evicted | two COREs, one number used once, 3 RUNs one after the other, 2 unacknowledged, 1 acknowledged, 1 finished RUN kept |

The bounds are enough for the cases the properties are about. Exclusivity needs two
RUNs of one number and two workers; a revoked RUN coming back needs a generation
before, at and after its own (`MaxGen` 2) and a reused number; a stale BEGIN needs
an offer made twice; the journal and store limits are 1 or 2, so they are reached,
and so is the eviction past them; `Keep` 1 with two open RUNs lets the younger
finish first, and a backlog of ticks has room to appear; the rebuilt objects allow a
binding to be created, rebuilt, deleted and created again. In
`native_server` two sessions are enough for work to outlive its session and meet the
next one, of the same connection or of another; one agent is enough because every
property of an agent is about its own users; two waiting operations let a turn, a
slice and a cleanup compete. In `notifications` the two COREs are the two sides of an
election, and one end of a CORE, at any moment, is a death, a close or a restart. In
`legacy_core` three events are a turn that is suspended, one that overtakes it and one
failure, or a warm-up, or a RUN and its notification; two contexts are all there are. Two
requests fill the places a RUN may take, so that an offer is rejected and comes again, and a
RUN, its notification and a turn meet at the agent; that one offer is neither lost nor taken
twice does not depend on another, and the theorem holds for any number of them.
Three tools with two delegated calls, in a window with room for a third that is
refused, let a limit be passed by two conversations together; three connections allow
a call that is queued before a failure and taken after it.

`MaxRuns`, `MaxGen`, `MaxOffers`, `MaxObjects`, `MaxLate`, `MaxClients`, `MaxSessions`,
`MaxJobs`, `Bound`, `MaxEvents`, `MaxSteps`, `MaxRequests`, `MaxToolCalls` of `McpCalls`,
`MaxLinks`, `MaxCommands`, `MaxFragmentRuns`, `MaxPosts`, `MaxManagerTurns`,
`MaxMessages`, `MaxConversations` and `MaxTurns` cap counters or channels the code leaves
unbounded; the other constants are limits of the code with smaller values (5 task
numbers, 1024 open and 100 finished RUNs, 32 tokens, 16 queued jobs).
`task_engine` uses one task number, without a timer, because numbers interact only
through the journal's limits and its pruning, which `task_timers` and the part
`MqttActivation` check with two; ticks are steps of the ledger too, which is proved
(`LedgerImplemented`). When every bound of the service is used up the state
still changes (ticks, heartbeats and restarts stay possible), so deadlock is checked in
these runs, and in `notifications`, where terminals come and go. `native_server` ends
when the server has stopped, `legacy_core` and `components` when the bounds are used up.
The symmetry of `components` exchanges its two COREs of `QueryResults`; it checks
no liveness.

**Fairness.** `task_engine_live` assumes that the service ticks (`main.py` 81-85,
every 0.25 s) and that each living CORE keeps pulling (`poll_due`, `_loop`, every
0.5 s). The second is needed: the dead CORE's RUN fills the journal, the other number's
timer is due, so every tick raises and its reconciliation is rolled back with it; only the
settling at the start of a request is left (the mutant `PullUnsettled` drops it). The run leaves out
heartbeats (`MCUnreported`, a bound), which tasks with a fixed policy do not depend on. If
no CORE is left nobody is promised anything. `native_worker_live`
assumes that both threads keep looping, that an agent turn ends, that a request
repeated for ever is answered in the end (strong fairness: an outage may come
again but not always), and that answers are acknowledged; without the last a full
result store holds the worker up for good, as the code intends. `native_server`
assumes that a native call returns and the scheduler's thread goes on, and that an
admission in progress comes to its end; of clients nothing is assumed, they may submit
turns for ever. `notifications` assumes the loops of the pumps and of the inbox, a
terminal that reads what it is sent, a native CORE that is started again after its end
(systemd does), and strong fairness for a send and for the acknowledgement to the
service: repeated for ever, they succeed at last. A legacy CORE may stay away.
`legacy_core` assumes both threads, and strong fairness for the executor: a
service that is away may be away again, but not at every step; and that a completion which is
sent again and again is acknowledged at last.

## What disagrees with documentation and comments

`docs/native-mqtt-events.md` 44-45
says that changes to both values produce events. `engine.py` 199 drops an edge
when the binding object is not the one the monitor copied, to protect a deleted
or recreated binding; but `_restore` (141-144) makes new objects for all bindings
after any failed request or tick. In `mqtt_edges` an unrelated request raises
between the reading of a line and its `consume_mqtt`, and the change produces no
RUN. The neighbouring sentence, "repeated identical values do not", is also not
quite what happens: after a payload without the field, `_consume_line` (277-282)
treats the next one as the first and emits an active value again.

`manager.py` 165 (`orchestration_tools`) says "Do not reuse the last owner's dialogue
in a new session." `release_session` calls `new_dialogue`, which keeps the current
dialogue when the clone of BASE raises (`conversation.py` 350). The scheduler logs the
exception and goes on; nothing repeats the reset or takes the manager out of use, as
`agents.py` 71 does with an agent. In `session_dialogue` the next client's first turn is
then asked in the dialogue of the last owner. `DialoguesAreOwn` states what does hold:
unless the last reset failed, the manager's dialogue is of one session.

`LiteRTChatClient.chat` refuses to go on when the "history no longer extends resident
KV" (`model_client.py` 266), and after a failed image turn it forgets the history,
"Never resume the stale text KV after a failed image turn." (436, with a test). A text
turn that fails once `run_prefill` has put it into the session (356-361) changes
nothing of what the client remembers, and neither it nor `agent.py` 248 resets the
session. In `model_context` the next call whose history equals the remembered one, the
same agent's next task for instance, is inferred over a session that holds the
failed turn. `ReadsItsOwnTurns` states what does hold: apart from failed turns the
session is the caller's dialogue, through failed resets too.

Smaller observations, which no run is about:

- An OpenAI stream that ends early without an error counts as a whole answer, and its
  failures report no `decode_error` (`openai_agent/model_client.py` 254-260).
- Answers of autonomous tasks are told in a context whose uncertain commands are never
  cleared, because no person speaks there (`assistant_manager.py` 95-117).
- `_close_chat_after_reply` outlives a turn without a reply, and `_waiting_for_worker`
  a turn that is closed while it waits.
- A clone whose inspection raises is never closed (`conversation.py` 263-276), and nothing
  refers to it any more.
- The election of the outbox "prevents two COREs from pushing the same shared notification"
  (`outbox.py` 123-124) while it holds. The row is sent after the transaction that chose it
  (146) and stays due until the push is acknowledged, so a CORE that starts and precedes the
  sender, or a lease of one second that runs out during the push, lets a second CORE push it too.
- A connection that leaves the session and takes it again while its old, cancelled turn
  is still alive stays in `_released_sessions`, so the release of the old turn may close
  the dialogue of the new one; "a newer client's context is a different key"
  (`core_scheduler.py` 334) does not cover it. `OpenDialogueIsKept` says so.
- `AgentPool.close` stops at the first agent whose close raises (`agents.py` 185).

## Proofs

The theorems hold for every value of the constants that satisfies the assumptions of
the module (`ConstantsAreSane`, `ServerConstants` and the like), which only say that bounds
are numbers, limits are positive and the names of different things differ, and which TLC evaluates
in every run.

### The service and its store

`TaskEngineProofs` proves eleven theorems:

- `TypeCorrect`: `TypeOK` always holds;
- `Invariance`: `IInv` always holds;
- `OneGrant`: at most one RUN of a task number is offered or running;
- `TimersMatch`: timers and task records agree;
- `PauseRevokesProved`: no unstarted RUN of the current generation survives a pause;
- `NoReplayProved`: the action property that a begun RUN never returns to the queue;
- `RevokedForGoodProved`: the action property that a revoked RUN can only be cancelled;
- `TimerCoalescedProved`: one unfinished RUN of a timer per task generation;
- `NothingLostProved`: the action property that the journal loses no unfinished RUN;
- `ExpiredLeaseForfeitsProved`: the action property that a late heartbeat brings no offer back;
- `LedgerImplemented`: every behaviour of the service is one of `RunLedger`.

*The inductive invariant.* None of the safety properties is inductive alone.
`OneGrantPerTask` needs `TypeOK` for the worker requests. `PauseRevokes` needs
`NoFutureGen`, that no open RUN carries a generation its number has not reached:
otherwise a regeneration could make an old RUN current under a disabled task.
`NoReplay` and the queueing of a RUN need `JournalIsPrefix`, that the places at
and after `nextRun` are empty. `IInv` is the conjunction of these. Lemmas about the
operators (`Reconcile`, `Prune`, `QueueEvent`, `Settled`) say which RUNs they change and
how; the step lemmas then have one case per action. `RevokedForGood` follows from
`IInv` because a RUN that is not current either carries a generation its number
has left behind, and generations only grow, or belongs to a number that is free,
which is given again under a new generation only (`GensGrow`, `StaysRevoked`).
`TimerCoalesced` is inductive beside `IInv`: no step but a tick adds a timer's
RUN, and what a tick adds is judged on the settled journal (`TickFacts`). `NothingLost` and
`ExpiredLeaseForfeitsOffer` need no more than `IInv`, but a step settles the journal up to
twice, before and after the request, and the lemmas `SettleTwiceAbandons` and
`SettleForfeits` follow a RUN through both.

All these proofs are made for `ServiceNext`, the steps of the service with worker requests
that any worker may send at any time. `Next` of `TaskEngine` implies it, and so do the
service's steps in `QueryResults` and `NativeTaskWorker`, where clients behave as
their code does; this is how the two use `NextInv` and the other step lemmas again.

For `LedgerImplemented` (`ImplementsLedger`), `Advances` says
what a step may do to one queued RUN: the settling that precedes each request
(`SettleAdvances`) and what a worker's request does to one RUN (`WorkerAdvances`).
`QueuedMoves` translates that into a move of the ledger; a free place is either left
free or becomes a waiting entry (`FreeMoves`); `Exclusive` (`LedgerExclusive`) is `OneGrantPerTask` of
the next state, so it comes from `Invariance`.

`QueryResultsProofs` proves `AnswerOfABegunRunProved` (an answer is stored only for a begun RUN,
by its owner under its offer; no run checks it) and `UnackedNeverLostProved`. `QInv`
adds to `IInv` that the answers are of RUNs the journal knows or has known, one of each:
without that a place of the journal could have its answer before it has its RUN. A begun RUN only moves forward (`NextForward`), which keeps its
answer true. The eviction moves every later answer to another position; `PruneEvicts` and
`WithoutEvicts` say that it removes an acknowledged answer only and that all others are still
there.

### The native worker

`NativeTaskWorkerProofs` proves the four safety properties of the run `native_worker`, with
the service, its store and any number of late requests around the worker, and that this
worker keeps `AnswerOfABegunRun`. `WInv` has, beside `QInv`:

- `Distinct`: jobs and FINISH requests share no token, and jobs share no agent;
- `Counted`: what is counted as in hand is in hand, and every token in hand is `Old`: an offer
  that the service makes later is another one (`OffersMade`);
- `Polled`: an offer that is being admitted or given back is in nobody else's hand;
- `Called`: a RUN that was called has begun; a job before its call is either not called or no
  longer running under its token, and the job in its agent runs under it (`RunningUnder`);
- `LateFinishes`: a FINISH under way is of a token that still waits for its FINISH, or comes
  too late to have an effect.

The last is what makes `AgentWorksOnARunningRun` inductive: only this worker's own FINISH or
the loss of its lease ends the RUN in its hand, and no FINISH still on its way is of the token
it works on. That a request may be executed long after its caller gave up is the only
interference left (`LateKeeps`, `ElsewhereKeeps`).

`DoneMeansSavedProved` has a hypothesis, `NothingForgotten`: no step removes an answer from
the store. It is needed, for the store does evict acknowledged answers of RUNs it still
lists as done; that it evicts nothing else is `UnackedNeverLostProved`. `Saved` is its invariant: a claim to
be done with an answer, in hand or on its way, waits for the answer or follows it.

### The native server

`NativeServerProofs` proves `RunAlone`, that `RunHasItsAgentAlone` always holds. Its inductive
invariant `SInv` says what the two locks keep true together: each queued RUN has an
agent of its own among the reserved ones (`QueueOK`), the RUN of the model thread
still holds its reservation while no queued RUN has its agent, and once it has
looked at the agent neither a job nor the admission in progress has it
(`RunningOK`). An admission asks whether the agent is reserved while it holds the
server's lock and `TakeRun` waits for that lock, so an admission is either seen as a
job or refused. `Keeps` states once what a step may do to all this without harm;
only the four actions of a RUN need more.

It proves the other three safety properties too, each with an invariant on
top of `SInv` and of what each queue holds (`QueueKinds`):

- `DroppedSessionStopsProved`: the property is about the way from one call of the model
  to the next, so the invariant follows `gone` through it (`GoneForGood`): it is set where a
  call returns, every way to a next call looks at the session first, and a session that is
  over stays so, because epochs only grow.
- `DialoguesAreOwnProved`. For agents (`AgentInv`): one live job an agent at most, a cleanup
  names the agent of its job, the job of a slice lives until the slice is finished, and
  between slices, and only then, its agent is suspended with its texts. For the manager
  (`DialogueInv`): its dialogue is of a session that is held or whose release waits
  (`OwnDialogue`), and a turn that starts has no release before it (`StartOK`), because control
  comes before human work.
- `EveryJobIsCarriedOnProved`: the property counts operations, so it is inductive once
  `ServerInv` types the queue, but counting over sequences has to be followed through
  appending, taking and the several cleanups that one end of a session queues at once
  (`CountAppended`, `CountTaken`, `CountCleanups`). `CarriedOn` then says for each job what
  a step may do to its operations.

### Notifications

`NotificationsProofs` proves `AckedAnswerIsSafeProved`, `DeliveredStaysDeliveredProved`, and
`OneRowPerNotification`, that an identifier has one row however many COREs enqueue it. In
`OInv`, what a CORE is about to acknowledge to the service is in the outbox and what a terminal is
about to acknowledge has been shown (`ToAcknowledge`); rows are only added or changed in place
(`GoesOn`), so an answer that is safe stays so, whoever wins the election.

### The legacy CORE

`LegacyCoreProofs` proves the four safety properties of `legacy_core`, for any
number of sessions, offers and requests, with invariants of which each rests on the first:

- `StepInv`: one request is active at most, and then the executor has one advance of it or its
  result waits (`SchedulerOK`); a step of a RUN has its BEGIN behind it (`BegunOK`).
- `GateOK`: while a step is allowed its request is at the head of the executor's queue and has
  begun, and a RUN that has made a step under a void grant is allowed no more. A void
  grant stays void, so `Allow` refuses for good: `RevokedRunStopsProved`.
- `OffersAccountedProved`: the property is inductive beside `StepInv` and `GateOK`. A request enters with its offer
  marked in the same step (`_enqueue_event` holds no lock around both, but the scheduler's one
  thread is the only one that polls), stays the same to the service while it moves on
  (`OffersKept`), and leaves for `finished` or because its grant was refused.
- `DialogueInv`: a turn that is not cancelled belongs to the owner of the session and was admitted
  after every cancelled one (`OrderOK`); in the executor's queue nothing follows its advance
  (`LastOK`); a release that has something to release was announced (`ReleasesOK`). It gives
  `OpenDialogueIsKeptProved`.
- `AccountsInv`, until the CORE is told to stop: at most one connection has a context, and if it
  is not the owner any more its release is on the way (`FormerOK`, `OnTheWay`); no turn is active
  while a cancelled one waits (`FirstCome`); each slot in service is free or of one
  dialogue (`SlotsOK`); a warm-up runs while no request is active, and one that failed has
  left no slot behind (`WarmOK`). It gives `ContextsAccountedProved`: two contexts are enough for
  an owner and the voice client because a former owner is released before the next owner's turn asks.

### Turns, runtimes and clients

`ComponentProofs` and `TurnProofs` prove the properties of the parts of `components`, each from
an inductive invariant of its own. In `ComponentProofs`:

- `NotSentIsTrueProved`, from `CallInv` and `MailOK`. A Future that is pending or cancelled
  has not been sent, and what is reported as not sent has an end (`FutureOK`); the one
  running call is the one the owner task has committed to (`CommittedOK`); what is in the
  queue or in the owner's hand exists (`MailOK`). A reported call has a finished
  or cancelled Future, which `Commit` refuses, so the report stays true.
- `TimedOutGroupIsGoneProved`, from `ProcessInv`: between the SIGKILL and the next command
  the group is empty, and an empty group stays empty, because whoever forks into it has to be
  in it (`CommandKeeps`).
- `NothingHalfDoneProved`, from `FragmentInv`: runs have numbers of their own, and what a run has
  collected is in its own temporary file (`WorkOK`). Its one lemma says that a run touches
  nothing of another's (`RunMoveKeeps`), so any number of runs may interleave.
- `FreshReadsProved`, from `ReadInv`: the cached item is the last message delivered on the
  present connection, and its age what the observer's clock says.
- `AgentComesHomeProved` and `DoubtfulNotRepeatedProved`, from `TurnInv`: what is doubtful for
  the person or the activation is recorded by the runtime that asks. `StepOK` says what one
  step of the agent may do with a set of doubts, through all results of commands and
  scenarios, and is used for delegated and autonomous work alike.
- `ShownIsTheAnswerProved`, from `RequestInv`: what is collected are the first pieces of the
  present request, an attempt is repeated only with nothing collected, and
  while only the answer is missing the screen shows what is collected.
- `ConversationsAccountedProved`, from `LifetimeInv`: no conversation belongs to two chats or
  twice to one (`ChatOK`); every conversation that is open without a raised close is of a chat in
  use. `EndingKeeps` covers the two ways of closing many chats at once, and the first agent
  whose close raises exists because a set of numbers has a least one.

- `NoOldPayloadProved`, from `EdgesOK`: an edge names an object that was built once, so while
  the binding of its number still is this object, it is the binding of the same task, with the same
  life; a rollback builds objects that no edge names. Only `Consume` takes an edge and
  queues a RUN (`QueuedByItsEdge`), which needs `TypeOK` of the service: `MqttIsService`
  says that every step here is one of `ServiceNext`. Both assume that tasks without a
  timer may be created (`FALSE \in Periods`), since an MQTT task is one.

In `TurnProofs`:

- `TurnIsBoundedProved` and `FailuresAreToldProved`, from `NativeInv`, under `TurnLimits`, which
  TLC evaluates for its instance. Every tool was paid from the one budget before it
  ran, and the one at work is paid for and not yet counted (`BudgetOK`), so it is the only one that can
  end after the turn is over. A task is created in the one attempt (`CreatedOK`). The
  failure of a tool is in the ledger of its call or about to be (`ToldOK`), and `AsksKeeps`
  says that no call starts with the ledger of another.
- `ReadsItsOwnTurnsProved`, from `ContextInv`. What the client remembers is what is in the
  conversation with images, while there is one, and otherwise what is in the text session,
  unless no history can be equal to it: a rewind that failed leaves messages longer than the
  one a caller starts with (`Known`). `StartsOver` covers all resets and preparations, failed ones
  included. The constants need no assumption. The property compares the set of turns
  and their order instead of selecting the turns of a sequence, which would be a recursion over data.

### Only model-checked

- Everything about liveness (`DeadOwnerReleased`, `EveryTokenSettles`, `CancelledJobsEnd`,
  `EverythingArrives`, `EveryRequestEnds`), which is outside what the prover does, as is
  ENABLED.

Every safety property of a passing run is a theorem; those of the three runs that expect a
violation are false.

## What is not modelled, and why

- Names, texts, JSON, SQL, sockets and logging: a request is well formed, or it
  raises and stutters.
- Clock values: a deadline or lease is passed or not, in any order, so the safety
  results hold for every clock behaviour, but nothing is said about delays.
  Deadlines are saved as wall-clock time and converted back at each rollback
  (`engine.py` 145); a clock step then moves every timer.
- Named legacy timers: their events carry no task number, `_queue` refuses them,
  and the remote runtime has no way to create them.
- In `NativeTaskWorker`, the priorities of the scheduler: any queued job may be next,
  which includes the order the code chooses (`NativeServer` has them).
- In `NativeServer`: the ledger of finished jobs, which only `background_status`
  reads; the limit of 16 connections; `/new` and tool calls beyond their effect on a
  dialogue; a write to a client that fails, except where the code acts on it; the
  moment between the stop event and the end of the scheduler.
- In `MqttActivation`, worker requests: without workers RUNs stay pending until
  they are cancelled, which is all that bindings and edges depend on. The
  mosquitto process itself is not modelled.
- In `Notifications`, the HTTP exchange with Firebase (it accepts or fails) and the
  bounded memory of a terminal. In `LegacyCore`, the event socket, the writers of the
  connections, and telemetry.
- In `AgentTurns`, the wording of a directive (the parser's result is any of its kinds)
  and a pool of more than one agent. In `NativeTurns`, the validation of tool
  arguments. In `ProcessRuns`, what commands print; in `McpCalls`, how a catalog
  is read; in the model clients, the building of prompts and the metrics.
- By design and so forbidden by no property: a background job that a busy client
  starves (`priority_scheduler.py` 17), the answer that an orderly shutdown loses when
  the service is away (`task_worker.py` 520), the list of workers that grows with each
  start of a CORE (`engine.py` 462).
- Readiness (`readiness.py`): `TaskEngine` lets a heartbeat carry any readiness at any
  time, the cached probe's age adds nothing but delay. Socket ownership
  (`socket_owner.py`): a lock and a check of a path, in the hands of the operating
  system. Terminals, voice, the web gateway and configuration: I/O, rendering and
  parsing, with no state that another component depends on beyond its requests.

## Plan

1. Runs of their own for `AgentTurns` and `NativeTurns` with two agents, and liveness of a
   turn under the fairness of `LegacyCore`.
2. `LegacyCore` over `TaskEngine` in place of the states of its offers, and
   `Notifications` over `QueryResults`.
3. `Readiness` and `SocketOwner`, small modules.
