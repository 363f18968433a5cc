---------------------------- MODULE NativeServer ----------------------------
(***************************************************************************)
(* The server of the native CORE: the client that holds the session, the   *)
(* operations its messages submit, the priority scheduler whose one thread *)
(* runs them on the model, and the dialogue that the manager and every     *)
(* agent keep between calls.                                               *)
(*                                                                         *)
(* Client threads, the model thread and the poll thread of the TASK worker *)
(* interleave.  What the code does under the server's lock is one step; a  *)
(* native call, and what comes before the lock is taken, is another.  The  *)
(* one lock held across two steps is that of an admission, because it asks *)
(* the worker, under the worker's own lock, whether an agent is reserved   *)
(* before it admits an operation for that agent.                           *)
(*                                                                         *)
(* Connections are numbered in the order in which they first get the       *)
(* session.  One that closes and its successor may share a number: the     *)
(* epoch tells them apart.                                                 *)
(***************************************************************************)
EXTENDS Integers, SequencesExt

CONSTANTS
    MaxClients,      \* BOUND: connections that get the session
    Agents,          \* agents of the pool
    Manager, None,
    Steps,           \* instructions of a background job (2..8)
    MaxDelegations,  \* agent calls of one manager turn (3)
    MaxPending,      \* operations the scheduler queues (16)
    MaxSessions,     \* BOUND: sessions of a behaviour
    MaxJobs          \* BOUND: background jobs at a time, ended ones included while
                     \* an operation of theirs is queued

ASSUME ServerConstants ==
    /\ MaxClients \in Nat /\ Manager \notin Agents /\ None \notin Agents
    /\ Steps \in Nat \ {0, 1} /\ MaxPending \in Nat \ {0}
    /\ MaxDelegations \in Nat /\ MaxSessions \in Nat /\ MaxJobs \in Nat

VARIABLES
    human,       \* the client that holds the session
    epoch,       \* of each client: its session changes
    admitting,   \* the admission that holds the server's lock
    jobs,        \* background jobs
    queue,       \* operations that wait, for each priority
    running,     \* the operation of the model thread and the step it is at
    agents,      \* state of each agent
    context,     \* whose texts the working dialogue of an agent holds
    dialogue,    \* sessions whose texts the manager's dialogue holds
    picked,      \* the agent the poll thread has selected for an offer
    reserved,    \* agents of admitted TASK RUNs
    open,        \* the server has not been stopped
    kept         \* history: the last reset of the manager's dialogue failed

session == <<human, epoch>>
worker == <<picked, reserved>>
native == <<agents, context, dialogue, kept>>
svars == <<session, admitting, jobs, queue, running, native, worker, open>>

Clients == 1..MaxClients
NoClient == 0
JobIds == 1..MaxJobs
OneShot == 0                                \* the user of a turn, probe or RUN
LiveStates == {"QUEUED", "RUNNING", "WAITING", "CANCELLING"}

NoJob == [client |-> NoClient, epoch |-> 0, agent |-> None, index |-> 0,
          state |-> "none"]
Op(what, c, e, a, j) == [what |-> what, client |-> c, epoch |-> e, agent |-> a, job |-> j]
NoOp == Op("none", NoClient, 0, None, 0)
\* "gone" is history: the operation's session was over when the operation was taken,
\* or when its last call returned.
Idle == [op |-> NoOp, at |-> "idle", ok |-> TRUE, pending |-> <<>>, count |-> 0,
         gone |-> FALSE]
NoRequest == NoOp

Live == {j \in JobIds : jobs[j].state \in LiveStates}
Blocked(a) == \E j \in Live : jobs[j].agent = a          \* _task_agent_blocked
Unlocked == admitting = NoRequest

\* Sessions begun: each adds one to an epoch when it begins and one when it ends.
Sessions == (SumFunction(epoch) + 1) \div 2

\* _client_still_active, and the test of a background event.
HoldsSession(c, e) == human = c /\ epoch[c] = e
Active(op) == open /\ HoldsSession(op.client, op.epoch)

\* Operations that a session asked for; the session of one has ended.
SessionWork == {"turn", "probe", "step"}
Ended(op) == op.what \in SessionWork /\ ~Active(op)

-----------------------------------------------------------------------------
(* The scheduler's queue.                                                  *)

Priorities == {"control", "human", "hardware", "background"}

Waiting == Len(queue.control) + Len(queue.human) + Len(queue.hardware) + Len(queue.background)
Room == open /\ Waiting < MaxPending

\* A job gets a name that nothing refers to.
Named(kind) == {queue[kind][i].job : i \in DOMAIN queue[kind]}
Fresh == JobIds \ (Live \cup Named("control") \cup Named("background") \cup {running.op.job})

Put(kind, op) == queue' = [queue EXCEPT ![kind] = Append(@, op)]

\* Mutant: cleanup is the least urgent.
CleanupLast == [control |-> 4, human |-> 1, hardware |-> 2, background |-> 3]
Rank == [control |-> 1, human |-> 2, hardware |-> 3, background |-> 4]

TakeOperation ==
    /\ running = Idle
    /\ \E kind \in DOMAIN queue :
        /\ queue[kind] # <<>>
        /\ \A k \in DOMAIN queue : queue[k] # <<>> => Rank[kind] <= Rank[k]
        /\ running' = [Idle EXCEPT !.op = Head(queue[kind]), !.at = "start",
                                   !.gone = Ended(Head(queue[kind]))]
        /\ queue' = [queue EXCEPT ![kind] = Tail(@)]
    /\ UNCHANGED <<session, admitting, jobs, native, worker, open>>

-----------------------------------------------------------------------------
(* Background jobs and their end.                                          *)

CleanupOp(what, j) == Op(what, NoClient, 0, jobs[j].agent, j)

\* Mutant: cancelling marks the jobs and leaves their agents alone.
CancelWithoutCleanup(js, then) ==
    /\ jobs' = [j \in JobIds |-> IF j \in js THEN [jobs[j] EXCEPT !.state = "CANCELLING"]
                                 ELSE jobs[j]]
    /\ queue' = [queue EXCEPT !.control = @ \o then]

\* Jobs are marked, and each gets the operation that will clear its agent; in
\* any order, since no property looks at the order of two agents' cleanups.
Cancel(js, then) ==
    LET cleanups == [i \in 1..Cardinality(js) |-> CleanupOp("clear", SetToSeq(js)[i])]
    IN  /\ jobs' = [j \in JobIds |-> IF j \in js THEN [jobs[j] EXCEPT !.state = "CANCELLING"]
                                     ELSE jobs[j]]
        /\ queue' = [queue EXCEPT !.control = @ \o cleanups \o then]

\* The jobs a cancellation by their client reaches.
Cancellable(c) == {j \in Live : jobs[j].client = c /\ jobs[j].state # "CANCELLING"}

TimesOut(j) ==
    /\ jobs' = [jobs EXCEPT ![j].state = "CANCELLING"]
    /\ Put("control", CleanupOp("timeout", j))

\* A job ends and is forgotten; its client is told so while it holds the session.
Ends(j) == jobs' = [jobs EXCEPT ![j] = NoJob]

-----------------------------------------------------------------------------
(* Client threads.                                                         *)

Acquire(c) ==
    /\ Unlocked /\ open /\ human = NoClient /\ Sessions < MaxSessions
    /\ \A d \in 1..(c - 1) : epoch[d] > 0
    /\ human' = c
    /\ epoch' = [epoch EXCEPT ![c] = @ + 1]
    /\ UNCHANGED <<admitting, jobs, queue, running, native, worker, open>>

\* A release, or the connection of the session is lost.
EndSession(c) ==
    /\ Unlocked /\ human = c
    /\ human' = NoClient
    /\ epoch' = [epoch EXCEPT ![c] = @ + 1]
    /\ Cancel(Cancellable(c), <<Op("release", c, epoch[c], None, 0)>>)
    /\ UNCHANGED <<admitting, running, native, worker, open>>

\* A message for the manager, or a task for one agent.
SubmitTurn(c, a) ==
    /\ Unlocked /\ human = c /\ Room
    /\ Put("human", Op("turn", c, epoch[c], a, 0))
    /\ UNCHANGED <<session, admitting, jobs, running, native, worker, open>>

\* A background job or a hardware probe is asked for: the agent has no job and
\* is not reserved, under the server's lock.
AskAdmission(c, a, what) ==
    /\ Unlocked /\ human = c /\ ~Blocked(a) /\ a \notin reserved
    /\ what = "step" => Fresh # {}
    /\ admitting' = Op(what, c, epoch[c], a, 0)
    /\ UNCHANGED <<session, jobs, queue, running, native, worker, open>>

\* The operation is queued, a job is registered, and the lock given back.  With
\* no room the client gets an error.
Admit ==
    /\ admitting # NoRequest /\ admitting' = NoRequest
    /\ \/ /\ admitting.what = "probe" /\ Room
          /\ Put("hardware", admitting)
          /\ UNCHANGED jobs
       \/ /\ admitting.what = "step" /\ Room
          /\ \E j \in Fresh :
                /\ \A i \in Fresh : j <= i
                /\ jobs' = [jobs EXCEPT ![j] =
                        [NoJob EXCEPT !.client = admitting.client, !.epoch = admitting.epoch,
                                      !.agent = admitting.agent, !.state = "QUEUED"]]
                /\ Put("background", [admitting EXCEPT !.job = j])
       \/ ~Room /\ UNCHANGED <<jobs, queue>>
    /\ UNCHANGED <<session, running, native, worker, open>>

CancelBackground(c, j) ==
    /\ Unlocked /\ human = c /\ j \in Cancellable(c)
    /\ Cancel({j}, <<>>)
    /\ UNCHANGED <<session, admitting, running, native, worker, open>>

-----------------------------------------------------------------------------
(* The model thread: calls of an agent.                                    *)

At(what, step) == running.op.what = what /\ running.at = step
Step(step) == running' = [running EXCEPT !.at = step]
Result(step, ok) == running' = [running EXCEPT !.at = step, !.ok = ok]

Uses(a, user) ==
    /\ agents' = [agents EXCEPT ![a] = "RUNNING"]
    /\ context' = [context EXCEPT ![a] = @ \cup {user}]

\* A new clone of BASE replaces the working dialogue; cloning can fail, and
\* then the agent is never used again.
Reset(a) ==
    \/ /\ agents' = [agents EXCEPT ![a] = "FREE"]
       /\ context' = [context EXCEPT ![a] = {}]
    \/ /\ agents' = [agents EXCEPT ![a] = "FAILED"]
       /\ UNCHANGED context

Called == IF running.pending # <<>> THEN Head(running.pending) ELSE running.op.agent

\* A delegated call returns to the manager's turn; any other has a result.
AgentDone ==
    IF running.pending # <<>>
    THEN running' = [running EXCEPT !.at = "delegate", !.pending = Tail(@),
                                    !.gone = Ended(running.op)]
    ELSE Step("result")

\* NativeAgent.run: an agent that is not free refuses.
CallAgent ==
    /\ running.at = "call"
    /\ IF agents[Called] = "FREE"
       THEN Uses(Called, OneShot) /\ Step("calling")
       ELSE AgentDone /\ UNCHANGED <<agents, context>>
    /\ UNCHANGED <<session, admitting, jobs, queue, dialogue, kept, worker, open>>

\* With text or an error, the dialogue is dropped.
AgentReturns ==
    /\ running.at = "calling"
    /\ Reset(Called) /\ AgentDone
    /\ UNCHANGED <<session, admitting, jobs, queue, dialogue, kept, worker, open>>

-----------------------------------------------------------------------------
(* The model thread: turns of a client, probes, TASK RUNs.                 *)

\* A turn or a probe whose session has ended is dropped.
StartTurn ==
    /\ running.at = "start" /\ running.op.what \in {"turn", "probe"} /\ Unlocked
    /\ IF Active(running.op)
       THEN Step(IF running.op.agent = Manager THEN "ask" ELSE "call")
       ELSE running' = Idle
    /\ UNCHANGED <<session, admitting, jobs, queue, native, worker, open>>

\* The manager's dialogue is replaced, or stays as it is when cloning fails.
ResetDialogue(current) ==
    \/ dialogue' = {} /\ kept' = FALSE
    \/ dialogue' = current /\ kept' = TRUE

\* The manager answers, or hands tasks to agents; a /new resets the dialogue,
\* and so does a turn that raises.
AskManager ==
    LET asked == dialogue \cup {<<running.op.client, running.op.epoch>>}
    IN  /\ running.at = "ask"
        /\ \/ /\ dialogue' = asked /\ UNCHANGED kept
              /\ \/ Step("result")
                 \/ \E n \in 1..(MaxDelegations - running.count) :
                    \E pending \in [1..n -> Agents] :
                        running' = [running EXCEPT !.at = "delegate", !.pending = pending,
                                                   !.count = @ + n,
                                                   !.gone = Ended(running.op)]
           \/ ResetDialogue(asked) /\ Step("result")
        /\ UNCHANGED <<session, admitting, jobs, queue, agents, context, worker, open>>

Silent == running' = [Idle EXCEPT !.op = running.op, !.at = "result"]

\* Mutant: the session is not looked at again before the results are reported.
DelegateReports ==
    /\ running.at = "delegate" /\ Unlocked
    /\ IF running.pending = <<>> THEN Step("ask") \/ Silent
       ELSE IF Active(running.op) THEN Step("call") ELSE Silent
    /\ UNCHANGED <<session, admitting, jobs, queue, native, worker, open>>

\* Before each delegated call, and before their results are reported to the
\* manager, the session must still be there; silent calls are not reported.
Delegate ==
    /\ running.at = "delegate" /\ Unlocked
    /\ IF ~Active(running.op) THEN Silent
       ELSE IF running.pending # <<>> THEN Step("call")
       ELSE Step("ask") \/ Silent
    /\ UNCHANGED <<session, admitting, jobs, queue, native, worker, open>>

\* The result is sent while the session is there.
GiveResult ==
    /\ running.at = "result" /\ running.op.what \in {"turn", "probe"} /\ Unlocked
    /\ running' = Idle
    /\ UNCHANGED <<session, admitting, jobs, queue, native, worker, open>>

\* Mutant: the agent of a RUN is not looked at again.
TakeRunUnchecked ==
    /\ At("run", "start") /\ Unlocked
    /\ IF open
       THEN Step("begin") /\ UNCHANGED worker
       ELSE /\ reserved' = reserved \ {running.op.agent}
            /\ running' = Idle /\ UNCHANGED picked
    /\ UNCHANGED <<session, admitting, jobs, queue, native, open>>

\* The agent is looked at again when the RUN starts.
TakeRun ==
    /\ At("run", "start") /\ Unlocked
    /\ IF open /\ agents[running.op.agent] = "FREE" /\ ~Blocked(running.op.agent)
       THEN Step("begin") /\ UNCHANGED worker
       ELSE /\ reserved' = reserved \ {running.op.agent}
            /\ running' = Idle /\ UNCHANGED picked
    /\ UNCHANGED <<session, admitting, jobs, queue, native, open>>

\* The Task SYSTEM is asked, and may refuse.
BeginRun ==
    /\ At("run", "begin")
    /\ Step("call") \/ Step("result")
    /\ UNCHANGED <<session, admitting, jobs, queue, native, worker, open>>

FinishRun ==
    /\ At("run", "result")
    /\ reserved' = reserved \ {running.op.agent}
    /\ running' = Idle
    /\ UNCHANGED <<session, admitting, jobs, queue, native, picked, open>>

\* The session of a client that left is released on the model thread.
ReleaseSession ==
    /\ At("release", "start")
    /\ ResetDialogue(dialogue) /\ running' = Idle
    /\ UNCHANGED <<session, admitting, jobs, queue, agents, context, worker, open>>

-----------------------------------------------------------------------------
(* The model thread: background jobs.                                      *)

Job == jobs[running.op.job]
Final == Job.index = Steps - 1

\* One slice, unless the job was cancelled or its deadline has passed.
StartStep ==
    LET j == running.op.job
    IN  /\ At("step", "start") /\ Unlocked
        /\ IF ~open \/ j \notin Live \/ Job.state = "CANCELLING"
           THEN running' = Idle /\ UNCHANGED <<jobs, queue>>
           ELSE \/ TimesOut(j) /\ running' = Idle
                \/ /\ jobs' = [jobs EXCEPT ![j].state = "RUNNING"]
                   /\ Step("slice") /\ UNCHANGED queue
        /\ UNCHANGED <<session, admitting, native, worker, open>>

\* NativeAgent.run_slice: the agent is free, or waits for the next slice.
CallSlice ==
    /\ running.at = "slice"
    /\ IF agents[Job.agent] \in {"FREE", "WAITING"}
       THEN Uses(Job.agent, running.op.job) /\ Step("slicing")
       ELSE Result("sliced", FALSE) /\ UNCHANGED <<agents, context>>
    /\ UNCHANGED <<session, admitting, jobs, queue, dialogue, kept, worker, open>>

\* Between slices the agent keeps the dialogue; after the last, or an error, it
\* is reset.  A reset that fails makes the slice one that failed.
SliceReturns ==
    /\ running.at = "slicing"
    /\ \/ /\ ~Final
          /\ agents' = [agents EXCEPT ![Job.agent] = "WAITING"]
          /\ UNCHANGED context
          /\ Result("sliced", TRUE)
       \/ /\ Reset(Job.agent)
          /\ \E ok \in BOOLEAN :
                /\ ok => Final /\ agents'[Job.agent] = "FREE"
                /\ Result("sliced", ok)
    /\ UNCHANGED <<session, admitting, jobs, queue, dialogue, kept, worker, open>>

\* Progress is told to the client.  One that cannot be told loses the job; a job
\* with slices left, and time, queues the next, and any other ends.
FinishSlice ==
    LET j == running.op.job
        next == [Job EXCEPT !.index = @ + 1]
    IN  /\ At("step", "sliced") /\ Unlocked /\ running' = Idle
        /\ IF ~open \/ j \notin Live \/ Job.state = "CANCELLING"
           THEN UNCHANGED <<jobs, queue>>
           ELSE \/ Cancel({j}, <<>>)
                \/ /\ HoldsSession(Job.client, Job.epoch) /\ running.ok /\ ~Final
                   /\ \/ TimesOut(j)
                      \/ /\ jobs' = [jobs EXCEPT ![j] = [next EXCEPT !.state = "WAITING"]]
                         /\ Put("background", running.op)
                \/ /\ HoldsSession(Job.client, Job.epoch) /\ (Final \/ ~running.ok)
                   /\ Ends(j)
                   /\ UNCHANGED queue
        /\ UNCHANGED <<session, admitting, native, worker, open>>

\* Mutant: the cleanup of a job leaves the suspended agent as it is.
NoAbort ==
    /\ running.at = "start" /\ running.op.what \in {"clear", "timeout"}
    /\ UNCHANGED <<agents, context>> /\ Step("cleared")
    /\ UNCHANGED <<session, admitting, jobs, queue, dialogue, kept, worker, open>>

\* abort_agent_slices: a suspended agent drops its dialogue.
AbortSlices ==
    LET a == running.op.agent
    IN  /\ running.at = "start" /\ running.op.what \in {"clear", "timeout"}
        /\ IF agents[a] = "WAITING"
           THEN Reset(a)
           ELSE UNCHANGED <<agents, context>>
        /\ Step("cleared")
        /\ UNCHANGED <<session, admitting, jobs, queue, dialogue, kept, worker, open>>

\* The job whose agent has been cleared ends.
FinishCleared ==
    LET j == running.op.job
    IN  /\ running.at = "cleared" /\ Unlocked /\ running' = Idle
        /\ IF j \in Live THEN Ends(j) ELSE UNCHANGED jobs
        /\ UNCHANGED <<session, admitting, queue, native, worker, open>>

-----------------------------------------------------------------------------
(* The poll thread of the TASK worker, and shutdown.                       *)

\* An agent is selected for an offer: free, without a job, not reserved.
SelectAgent(a) ==
    /\ open /\ Unlocked /\ picked = None
    /\ agents[a] = "FREE" /\ ~Blocked(a) /\ a \notin reserved
    /\ picked' = a
    /\ UNCHANGED <<session, admitting, jobs, queue, running, native, reserved, open>>

\* Later, under the worker's lock only, it is reserved and the RUN queued, with
\* the urgency of the event's source.
ReserveAgent ==
    /\ picked # None /\ picked' = None
    /\ IF picked \notin reserved /\ Room
       THEN /\ reserved' = reserved \cup {picked}
            /\ \E kind \in {"hardware", "background"} :
                    Put(kind, Op("run", NoClient, 0, picked, 0))
       ELSE UNCHANGED <<reserved, queue>>
    /\ UNCHANGED <<session, admitting, jobs, running, native, open>>

\* The server stops: what waits is dropped, and the operation that runs comes to
\* its end.  (One taken between the stop event and the end of the scheduler would
\* do no more than a reset.)
Stop ==
    /\ open /\ Unlocked
    /\ open' = FALSE /\ human' = NoClient
    /\ queue' = [k \in DOMAIN queue |-> <<>>]
    /\ UNCHANGED <<epoch, admitting, jobs, running, native, worker>>

-----------------------------------------------------------------------------
SInit ==
    /\ human = NoClient /\ epoch = [c \in Clients |-> 0] /\ admitting = NoRequest
    /\ jobs = [j \in JobIds |-> NoJob]
    /\ queue = [k \in Priorities |-> <<>>]
    /\ running = Idle
    /\ agents = [a \in Agents |-> "FREE"] /\ context = [a \in Agents |-> {}]
    /\ dialogue = {} /\ kept = FALSE
    /\ picked = None /\ reserved = {}
    /\ open = TRUE

ClientThread(c) ==
    \/ Acquire(c)
    \/ EndSession(c)
    \/ \E a \in Agents \cup {Manager} : SubmitTurn(c, a)
    \/ \E a \in Agents, what \in {"step", "probe"} : AskAdmission(c, a, what)
    \/ \E j \in JobIds : CancelBackground(c, j)

ModelThread ==
    \/ TakeOperation
    \/ CallAgent \/ AgentReturns
    \/ StartTurn \/ AskManager \/ Delegate \/ GiveResult
    \/ TakeRun \/ BeginRun \/ FinishRun
    \/ ReleaseSession
    \/ StartStep \/ CallSlice \/ SliceReturns \/ FinishSlice
    \/ AbortSlices \/ FinishCleared

SNext ==
    \/ \E c \in Clients : ClientThread(c)
    \/ Admit
    \/ ModelThread
    \/ \E a \in Agents : SelectAgent(a)
    \/ ReserveAgent
    \/ Stop

\* A native call returns and the scheduler's thread goes on; an admission in
\* progress comes to its end.  Nothing is assumed of clients.
SFairness == WF_svars(ModelThread) /\ WF_svars(Admit)

SSpec == SInit /\ [][SNext]_svars /\ SFairness

-----------------------------------------------------------------------------
(* Properties.                                                             *)

\* Operations of a job that wait or run.
Pending(j, whats) ==
    LET of(kind) == {i \in DOMAIN queue[kind] : queue[kind][i].job = j
                                                /\ queue[kind][i].what \in whats}
    IN  Cardinality(of("control")) + Cardinality(of("background"))
        + (IF running.op.job = j /\ running.op.what \in whats THEN 1 ELSE 0)

\* A live job has exactly one operation that will carry it on: its next slice, or,
\* once it is cancelled or late, the cleanup that ends it; and a job whose session
\* has ended is one of the latter.  So no order of slices, cancellations, releases,
\* lost clients and deadlines loses a job or runs one of its slices twice.
EveryJobIsCarriedOn ==
    open => \A j \in Live :
        /\ jobs[j].state = "CANCELLING" => Pending(j, {"clear", "timeout"}) = 1
        /\ jobs[j].state # "CANCELLING" => /\ Pending(j, {"step"}) = 1
                                           /\ Pending(j, {"clear", "timeout"}) = 0
                                           /\ HoldsSession(jobs[j].client, jobs[j].epoch)

\* The working dialogue of an agent that can be called holds nobody's texts, or
\* those of the one live job it is suspended for: no call sees the texts of
\* another, and no agent stays suspended when its job is gone.
\* The manager's dialogue likewise holds the texts of one session at most, unless
\* its last reset failed: the release of a session is run before any turn of the next.
DialoguesAreOwn ==
    /\ \A a \in Agents :
        /\ agents[a] = "FREE" => context[a] = {}
        /\ agents[a] = "RUNNING" => Cardinality(context[a]) = 1
        /\ agents[a] = "WAITING" => \E j \in Live : jobs[j].agent = a /\ context[a] = {j}
    /\ kept \/ Cardinality(dialogue) <= 1

\* While a RUN has its agent, from its last look at it until it gives it back, no
\* background job has the agent too: the reservation and the admission are
\* made under different locks, and either may come first.
RunHasItsAgentAlone ==
    running.op.what = "run" /\ running.at # "start" => ~Blocked(running.op.agent)

\* "A dropped session prevents pending agents from starting", and "cancelled before
\* next native call": the session of a turn, probe or slice that gets as far as a
\* call of the model was still there when its call before that returned or, for its
\* first, when it was taken.  So a session that ends while the thread is busy for it
\* costs no call more, in whichever of the loops of a turn it ends, or between
\* which slices of a job; one that ends after the look at it costs one.
InACall == {"ask", "call", "calling", "slice", "slicing"}
DroppedSessionStops ==
    running.op.what \in SessionWork /\ running.at \in InACall => ~running.gone

\* "Do not reuse the last owner's dialogue in a new session."
NoOldDialogueInANewSession == Cardinality(dialogue) <= 1

\* A job that is cancelled or late ends, however many turns and probes clients go
\* on submitting: cleanup is more urgent than they are.  (An agent has one live
\* job at most.)
Ending(a) == \E j \in JobIds : jobs[j].agent = a /\ jobs[j].state = "CANCELLING"
CancelledJobsEnd == \A a \in Agents : Ending(a) ~> ~Ending(a) \/ ~open

=============================================================================
