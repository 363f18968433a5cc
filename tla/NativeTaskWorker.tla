-------------------------- MODULE NativeTaskWorker --------------------------
(***************************************************************************)
(* The TASK worker of the native CORE, composed with the Task SYSTEM       *)
(* service.  Two threads share its state: the poll thread heartbeats,      *)
(* settles what is pending, pulls one offer and admits it to the model     *)
(* scheduler; the model thread begins an admitted RUN, validates it and    *)
(* runs the agent.                                                         *)
(*                                                                         *)
(* A request to the service can be answered, or raise.  Whoever sees it    *)
(* raise cannot tell whether the service has executed it, has refused it,  *)
(* or will still execute it when it gets the lock: Unanswered is the       *)
(* choice between these.  A blocked pull that executes late is a pull      *)
(* whose reply is lost at that later time.                                 *)
(*                                                                         *)
(* Which queued job the model scheduler takes next depends on the source   *)
(* of its event, which no property here looks at: any of them.             *)
(***************************************************************************)
EXTENDS QueryResults

CONSTANTS
    Native,              \* the worker whose threads are modelled
    Agents,              \* the agents permitted to run saved tasks
    MaxUnacknowledged,   \* tokens in hand before it stops pulling (32)
    MaxPending,          \* jobs the model scheduler queues (16)
    MaxLate              \* BOUND: requests under way to the service

ASSUME WorkerConstants ==
    /\ Native \in Workers
    /\ MaxUnacknowledged \in Nat \ {0} /\ MaxPending \in Nat \ {0}
    /\ MaxLate \in Nat

VARIABLES
    seen,        \* tokens (RUN, offer) admitted and not yet finished
    reserved,    \* agents of admitted jobs
    queued,      \* jobs that wait in the model scheduler
    job,         \* the job of the model thread and the step it is at
    fins,        \* FINISH requests to send until they are answered
    answers,     \* tokens with an answer to publish before their FINISH
    defers,      \* tokens of unstarted offers to give back
    deferred,    \* RUNs not to be pulled for a while
    poll,        \* where the poll thread is
    late,        \* requests the service may still execute
    stage,       \* "open", "stopping" or "drained" (the scheduler is closed)
    calls,       \* history: agent runs started for each RUN
    answered     \* history: RUNs whose agent gave an answer

model == <<queued, job, calls, answered>>
local == <<seen, reserved, queued, job, fins, answers, defers, deferred, poll>>
nvars == <<qvars, local, late, stage, calls, answered>>

Token(x) == <<x.run, x.offer>>
NoJob == [step |-> "none", run |-> 1, offer |-> 0, agent |-> "none"]
Idle == [at |-> "idle", todo |-> {}, run |-> 1, event |-> NoRun]

CanRun == stage = "open"

-----------------------------------------------------------------------------
(* Requests.                                                               *)

Request(kind, token, outcome) ==
    [kind |-> kind, run |-> token[1], offer |-> token[2], outcome |-> outcome]

Execute(q) ==
    \/ q.kind = "begin" /\ Begin(Native, q.run, q.offer) /\ UNCHANGED results
    \/ q.kind = "valid" /\ Valid(Native) /\ UNCHANGED results
    \/ q.kind = "finish" /\ Finish(Native, q.run, q.offer, q.outcome) /\ UNCHANGED results
    \/ q.kind = "publish" /\ Publish(Native, q.run, q.offer)

Answered(q) == Execute(q) /\ UNCHANGED late

Unanswered(q) ==
    \/ Execute(q) /\ UNCHANGED late
    \/ UNCHANGED <<qvars, late>>
    \/ /\ Cardinality(late \cup {q}) <= MaxLate
       /\ late' = late \cup {q}
       /\ UNCHANGED qvars

ExecuteLate(q) ==
    /\ Execute(q)
    /\ late' = late \ {q}
    /\ UNCHANGED <<local, stage, calls, answered>>

-----------------------------------------------------------------------------
(* The model thread.                                                       *)

\* The finally clause of a job that may have begun: from here only its FINISH
\* is repeated, never the agent.
CloseJob(outcome) ==
    /\ job' = NoJob
    /\ reserved' = reserved \ {job.agent}
    /\ fins' = fins \cup {[run |-> job.run, offer |-> job.offer, outcome |-> outcome]}

\* Mutant: a job taken by the model thread is only validated.
TakeJobUnbegun(j) ==
    /\ job = NoJob /\ j \in queued /\ stage # "drained"
    /\ queued' = queued \ {j}
    /\ \/ /\ CanRun
          /\ job' = [step |-> "valid", run |-> j.run, offer |-> j.offer, agent |-> j.agent]
          /\ UNCHANGED <<seen, reserved>>
       \/ /\ seen' = seen \ {Token(j)}
          /\ reserved' = reserved \ {j.agent}
          /\ UNCHANGED job
    /\ UNCHANGED <<qvars, fins, answers, defers, deferred, poll, late, stage, calls, answered>>

\* Mutant: a job dropped unstarted keeps its token.
TakeJobKeepsToken(j) ==
    /\ job = NoJob /\ j \in queued /\ stage # "drained"
    /\ queued' = queued \ {j}
    /\ \/ /\ CanRun
          /\ job' = [step |-> "begin", run |-> j.run, offer |-> j.offer, agent |-> j.agent]
          /\ UNCHANGED <<seen, reserved>>
       \/ /\ seen' = seen
          /\ reserved' = reserved \ {j.agent}
          /\ UNCHANGED job
    /\ UNCHANGED <<qvars, fins, answers, defers, deferred, poll, late, stage, calls, answered>>

\* The scheduler pops a job.  It is dropped unstarted when the CORE stops or a
\* human turn has taken the agent.
TakeJob(j) ==
    /\ job = NoJob /\ j \in queued /\ stage # "drained"
    /\ queued' = queued \ {j}
    /\ \/ /\ CanRun
          /\ job' = [step |-> "begin", run |-> j.run, offer |-> j.offer, agent |-> j.agent]
          /\ UNCHANGED <<seen, reserved>>
       \/ /\ seen' = seen \ {Token(j)}
          /\ reserved' = reserved \ {j.agent}
          /\ UNCHANGED job
    /\ UNCHANGED <<qvars, fins, answers, defers, deferred, poll, late, stage, calls, answered>>

\* Mutant: a BEGIN that raises is taken for granted.
BeginJobHopefully ==
    LET q == Request("begin", Token(job), "none")
    IN  /\ job.step = "begin"
        /\ \/ /\ Answered(q)
              /\ IF MayBegin(Settled, Native, job.run, job.offer)
                 THEN /\ job' = [job EXCEPT !.step = "valid"]
                      /\ UNCHANGED <<reserved, fins>>
                 ELSE CloseJob("cancelled")
              /\ UNCHANGED deferred
           \/ /\ Unanswered(q)
              /\ job' = [job EXCEPT !.step = "valid"]
              /\ UNCHANGED <<reserved, fins, deferred>>
        /\ UNCHANGED <<seen, queued, answers, defers, poll, stage, calls, answered>>

BeginJob ==
    LET q == Request("begin", Token(job), "none")
    IN  /\ job.step = "begin"
        /\ \/ /\ Answered(q)
              /\ IF MayBegin(Settled, Native, job.run, job.offer)
                 THEN /\ job' = [job EXCEPT !.step = "valid"]
                      /\ UNCHANGED <<reserved, fins>>
                 ELSE CloseJob("cancelled")
              /\ UNCHANGED deferred
           \/ /\ Unanswered(q)
              /\ deferred' = deferred \cup {job.run}
              /\ CloseJob("interrupted")
        /\ UNCHANGED <<seen, queued, answers, defers, poll, stage, calls, answered>>

\* An MQTT edge to the inactive state is done without the agent; one whose
\* binding is gone is an error.
ValidateJob ==
    LET q == Request("valid", Token(job), "none")
    IN  /\ job.step = "valid"
        /\ \/ /\ Answered(q)
              /\ IF MayBegin(Settled, Native, job.run, job.offer)
                 THEN \/ /\ job' = [job EXCEPT !.step = "agent"]
                         /\ calls' = [calls EXCEPT ![job.run] = @ + 1]
                         /\ UNCHANGED <<reserved, fins>>
                      \/ \E outcome \in {"done", "error"} :
                            CloseJob(outcome) /\ UNCHANGED calls
                 ELSE CloseJob("cancelled") /\ UNCHANGED calls
           \/ Unanswered(q) /\ CloseJob("interrupted") /\ UNCHANGED calls
        /\ UNCHANGED <<seen, queued, answers, defers, deferred, poll, stage, answered>>

\* The agent returns: with text, which is an answer to publish, without, or
\* with an error.
AgentReturns ==
    /\ job.step = "agent"
    /\ \/ /\ CloseJob("done")
          /\ answers' = answers \cup {Token(job)}
          /\ answered' = answered \cup {job.run}
       \/ \E outcome \in {"done", "error"} :
            CloseJob(outcome) /\ UNCHANGED <<answers, answered>>
    /\ UNCHANGED <<qvars, seen, queued, defers, deferred, poll, late, stage, calls>>

-----------------------------------------------------------------------------
(* The poll thread.                                                        *)

\* A poll cycle starts with the heartbeat, when it is due, and takes a copy of
\* the FINISH requests that wait.  One whose heartbeat raises ends at once.
StartPoll ==
    /\ poll = Idle /\ Native \in alive
    /\ \/ UNCHANGED qvars
       \/ Heartbeat(Native, "ready") /\ UNCHANGED results
    /\ poll' \in {Idle, IF CanRun THEN [Idle EXCEPT !.at = "settle", !.todo = fins] ELSE Idle}
    /\ UNCHANGED <<seen, reserved, queued, job, fins, answers, defers, deferred,
                   late, stage, calls, answered>>

\* _finish_pending gives up at the first request that raises: the cycle ends,
\* and so does the only attempt of a shutdown.
GiveUp == IF poll.at = "closing" THEN [poll EXCEPT !.todo = {}] ELSE Idle

\* Mutant: a publication that raises is not repeated.
PublishAnswerOnce(f) ==
    LET q == Request("publish", Token(f), "none")
        refused == [f EXCEPT !.outcome = "cancelled"]
    IN  /\ f \in poll.todo /\ Token(f) \in answers
        /\ \/ /\ Answered(q)
              /\ answers' = answers \ {Token(f)}
              /\ IF PublishAccepted(Native, f.run, f.offer)
                 THEN UNCHANGED <<fins, poll>>
                 ELSE /\ fins' = (fins \ {f}) \cup {refused}
                      /\ poll' = [poll EXCEPT !.todo = (@ \ {f}) \cup {refused}]
           \/ Unanswered(q) /\ poll' = GiveUp /\ answers' = answers \ {Token(f)}
              /\ UNCHANGED fins
        /\ UNCHANGED <<seen, reserved, defers, deferred, stage, model>>

\* The answer of a token is published before its FINISH.  A refused answer
\* turns the outcome into "cancelled".
PublishAnswer(f) ==
    LET q == Request("publish", Token(f), "none")
        refused == [f EXCEPT !.outcome = "cancelled"]
    IN  /\ f \in poll.todo /\ Token(f) \in answers
        /\ \/ /\ Answered(q)
              /\ answers' = answers \ {Token(f)}
              /\ IF PublishAccepted(Native, f.run, f.offer)
                 THEN UNCHANGED <<fins, poll>>
                 ELSE /\ fins' = (fins \ {f}) \cup {refused}
                      /\ poll' = [poll EXCEPT !.todo = (@ \ {f}) \cup {refused}]
           \/ Unanswered(q) /\ poll' = GiveUp /\ UNCHANGED <<fins, answers>>
        /\ UNCHANGED <<seen, reserved, defers, deferred, stage, model>>

\* Mutant: an answered FINISH leaves its token counted.
SendFinishKeepsToken(f) ==
    LET q == Request("finish", Token(f), f.outcome)
    IN  /\ f \in poll.todo /\ Token(f) \notin answers
        /\ \/ /\ Answered(q)
              /\ fins' = fins \ {f}
              /\ seen' = seen
              /\ poll' = [poll EXCEPT !.todo = @ \ {f}]
           \/ Unanswered(q) /\ poll' = GiveUp /\ UNCHANGED <<fins, seen>>
        /\ UNCHANGED <<reserved, answers, defers, deferred, stage, model>>

SendFinish(f) ==
    LET q == Request("finish", Token(f), f.outcome)
    IN  /\ f \in poll.todo /\ Token(f) \notin answers
        /\ \/ /\ Answered(q)
              /\ fins' = fins \ {f}
              /\ seen' = seen \ {Token(f)}
              /\ poll' = [poll EXCEPT !.todo = @ \ {f}]
           \/ Unanswered(q) /\ poll' = GiveUp /\ UNCHANGED <<fins, seen>>
        /\ UNCHANGED <<reserved, answers, defers, deferred, stage, model>>

\* An offer is given back by a FINISH before any BEGIN.
GiveBack(token) ==
    LET q == Request("finish", token, "cancelled")
    IN  /\ poll.at \in {"settle", "defer", "closing"} /\ poll.todo = {} /\ token \in defers
        /\ \/ /\ Answered(q)
              /\ defers' = defers \ {token}
              /\ poll' = IF poll.at = "defer" THEN Idle ELSE poll
           \/ /\ Unanswered(q)
              /\ poll' = IF poll.at = "closing" THEN [poll EXCEPT !.at = "offline"] ELSE Idle
              /\ UNCHANGED defers
        /\ UNCHANGED <<seen, reserved, fins, answers, deferred, stage, model>>

\* Nothing is pulled behind requests that are not answered, nor with too many
\* tokens in hand.
PullOffer ==
    LET taken == {r \in RunIds : <<r, Settled[r].offer>> \in seen}
        repeated == Repeatable(Settled, Native, taken, deferred)
        given == IF repeated # {} THEN repeated ELSE Grantable(Settled, Native, deferred)
        first == CHOOSE r \in given : \A q \in given : r <= q
    IN  /\ poll.at = "settle" /\ poll.todo = {} /\ defers = {}
        /\ \/ /\ Cardinality(seen) < MaxUnacknowledged
              /\ Pull(Native, taken, deferred) /\ UNCHANGED results
              /\ poll' \in {Idle, IF given = {} THEN Idle
                                  ELSE [at |-> "offer", todo |-> {},
                                        run |-> first, event |-> runs'[first]]}
           \/ poll' = Idle /\ UNCHANGED qvars
        /\ UNCHANGED <<seen, reserved, fins, answers, defers, deferred, late, stage, model>>

Defer(token) ==
    /\ deferred' = deferred \cup {token[1]}
    /\ defers' = defers \cup {token}
    /\ poll' = [Idle EXCEPT !.at = "defer"]
    /\ UNCHANGED <<seen, reserved, queued>>

\* The record of the task is read.  A stale offer, or one that no free agent
\* may run, is put off; otherwise the agent is reserved and the job admitted,
\* unless the model queue is full or stopped.
AdmitOffer ==
    LET token == <<poll.run, poll.event.offer>>
    IN  /\ poll.at = "offer"
        /\ \/ Defer(token)
           \/ /\ Current(tasks, poll.event)
              /\ Cardinality(queued) < MaxPending /\ stage # "drained"
              /\ \E agent \in Agents \ reserved :
                    /\ reserved' = reserved \cup {agent}
                    /\ seen' = seen \cup {token}
                    /\ queued' = queued \cup {[run |-> token[1], offer |-> token[2],
                                               agent |-> agent]}
              /\ poll' = Idle
              /\ UNCHANGED <<defers, deferred>>
           \/ poll' = Idle /\ UNCHANGED <<seen, reserved, queued, defers, deferred>>
        /\ UNCHANGED <<qvars, job, fins, answers, late, stage, calls, answered>>

DeferralExpires(r) ==
    /\ r \in deferred
    /\ deferred' = deferred \ {r}
    /\ UNCHANGED <<qvars, seen, reserved, queued, job, fins, answers, defers, poll,
                   late, stage, calls, answered>>

-----------------------------------------------------------------------------
(* Shutdown and crash.                                                     *)

RequestStop ==
    /\ stage = "open" /\ Native \in alive
    /\ stage' = "stopping"
    /\ UNCHANGED <<qvars, local, late, calls, answered>>

\* The scheduler drops what is queued and waits for the running operation.
DrainScheduler ==
    /\ stage = "stopping" /\ job = NoJob
    /\ stage' = "drained" /\ queued' = {}
    /\ UNCHANGED <<qvars, seen, reserved, job, fins, answers, defers, deferred, poll,
                   late, calls, answered>>

\* close joins the poll thread, then makes one attempt to settle what is
\* pending.
CloseWorker ==
    /\ stage = "drained" /\ poll = Idle /\ Native \in alive
    /\ poll' = [Idle EXCEPT !.at = "closing", !.todo = fins]
    /\ UNCHANGED <<qvars, seen, reserved, queued, job, fins, answers, defers, deferred,
                   late, stage, calls, answered>>

Gone == /\ seen' = {} /\ reserved' = {} /\ queued' = {} /\ job' = NoJob
        /\ fins' = {} /\ answers' = {} /\ defers' = {} /\ deferred' = {}
        /\ poll' = Idle /\ late' = {} /\ stage' = "drained"
        /\ UNCHANGED <<calls, answered>>

\* The last request of the process.
GoOffline ==
    /\ \/ poll.at = "offline"
       \/ poll.at = "closing" /\ poll.todo = {} /\ defers = {}
    /\ Offline(Native)
    /\ poll' = [poll EXCEPT !.at = "closed"]
    /\ UNCHANGED <<results, seen, reserved, queued, job, fins, answers, defers, deferred,
                   late, stage, calls, answered>>

\* The process exits, or is killed at any point.
Crash == ProcessDies(Native) /\ UNCHANGED results /\ Gone

-----------------------------------------------------------------------------
NInit ==
    /\ QInit
    /\ seen = {} /\ reserved = {} /\ queued = {} /\ job = NoJob
    /\ fins = {} /\ answers = {} /\ defers = {} /\ deferred = {}
    /\ poll = Idle /\ late = {} /\ stage = "open"
    /\ calls = [r \in RunIds |-> 0] /\ answered = {}

\* The rest of the system: management, timers, the service's own thread and
\* every other worker.
Elsewhere ==
    /\ \/ Tick
       \/ ServiceRestart
       \/ LeaseExpires(Native)
       \/ \E t \in TaskIds : ManageTask(t)
       \/ \E w \in Workers \ {Native} : WorkerStep(w)
    /\ UNCHANGED <<results, local, late, stage, calls, answered>>

\* The notification client.
AcknowledgeAnswer(r) ==
    /\ Acknowledge(r) /\ UNCHANGED <<local, late, stage, calls, answered>>

ModelThread == \/ \E j \in queued : TakeJob(j)
               \/ BeginJob
               \/ ValidateJob
               \/ AgentReturns

PollThread == \/ StartPoll
              \/ \E f \in poll.todo : (PublishAnswer(f) \/ SendFinish(f))
              \/ \E token \in defers : GiveBack(token)
              \/ PullOffer
              \/ AdmitOffer
              \/ CloseWorker
              \/ GoOffline

NNext == \/ Elsewhere
         \/ \E r \in RunIds : AcknowledgeAnswer(r)
         \/ ModelThread
         \/ PollThread
         \/ \E q \in late : ExecuteLate(q)
         \/ \E r \in deferred : DeferralExpires(r)
         \/ RequestStop
         \/ DrainScheduler
         \/ Crash

\* Both threads keep running and an agent turn ends.  The heartbeats, answers
\* and FINISH requests that are repeated for ever are answered in the end: the
\* service comes back after an outage.  Answers that wait are acknowledged.
NFairness ==
    /\ WF_nvars(ModelThread)
    /\ WF_nvars(PullOffer \/ AdmitOffer)
    /\ SF_nvars(StartPoll /\ poll' # Idle)
    /\ SF_nvars(\E f \in poll.todo : PublishAnswer(f) /\ answers' # answers)
    /\ SF_nvars(\E f \in poll.todo : SendFinish(f) /\ fins' # fins)
    /\ SF_nvars(\E token \in defers : GiveBack(token) /\ defers' # defers)
    /\ WF_nvars(\E r \in RunIds : AcknowledgeAnswer(r) /\ results' # results)

NSpec == NInit /\ [][NNext]_nvars /\ NFairness

-----------------------------------------------------------------------------
(* Properties.                                                             *)

Jobs == queued \cup (IF job = NoJob THEN {} ELSE {job})

\* A RUN calls an agent once at most, and one that did is never queued or
\* offered again: lost and late replies, give-backs, crashes and a second
\* offer of the same RUN included.
NeverCalledAgain ==
    \A r \in RunIds : /\ calls[r] <= 1
                      /\ calls[r] = 1 => runs[r].state \notin {"pending", "offered"}

\* While an agent works, the service holds its RUN as running for this worker
\* and this offer, so no other worker is given the task number meanwhile.
AgentWorksOnARunningRun ==
    job.step = "agent" =>
        /\ runs[job.run].state = "running"
        /\ runs[job.run].worker = Native
        /\ runs[job.run].offer = job.offer

\* The tokens the worker counts against MaxUnacknowledged are those of a job in
\* the scheduler, the job in hand, or a FINISH to send, and the agents it holds
\* back are those of its jobs, one job each: no order of the two threads leaks a
\* token or an agent, or hands one agent to two jobs.
NothingLeaks ==
    stage # "drained" =>
        /\ seen = {Token(x) : x \in Jobs \cup fins}
        /\ reserved = {x.agent : x \in Jobs}
        /\ \A x, y \in Jobs : x.agent = y.agent => x = y

\* A RUN that ended "done" with an answer has its answer in the store: the
\* worker never claims an answer that was not saved.  (Holds while the store
\* evicts no acknowledged answer.)
DoneMeansSaved ==
    \A r \in answered : runs[r].state = "done" => r \in StoredRuns(results)

\* A token in hand is settled in the end, unless the CORE stops or dies: its job
\* is taken, its answer is stored or refused, its FINISH is answered.
EveryTokenSettles ==
    \A token \in RunIds \X Offers :
        token \in seen ~> token \notin seen \/ stage # "open"

=============================================================================
