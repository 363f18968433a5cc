----------------------------- MODULE TaskEngine -----------------------------
(***************************************************************************)
(* The Task SYSTEM service: the one owner of saved TASKs, their timers and *)
(* the journal of RUNs, shared by every CORE process over one Unix socket. *)
(*                                                                         *)
(* Every RPC and every tick of the service runs under one lock and commits *)
(* its whole effect in one transaction, so each is one action here.  A     *)
(* request that raises an error is rolled back as a whole: it is a         *)
(* stuttering step and its condition is a guard of the action.             *)
(*                                                                         *)
(* A RUN is named by its place in the journal, 1, 2, 3, ...: the code's    *)
(* random identifiers are never compared for order, and its dict keeps     *)
(* insertion order.  Generations and offer identifiers are fresh random    *)
(* values in the code and counters here.                                   *)
(***************************************************************************)
EXTENDS Integers, FiniteSets

CONSTANTS
    MaxTasks,    \* task numbers are 1..MaxTasks (the code has 5)
    Workers,     \* CORE clients, each an (owner, process identity) pair
    NoWorker,    \* the empty owner and peer of a RUN that is not granted
    ExecutorOf,  \* the executor each worker announces
    Policies,    \* executor policies a task may be created with
    Periods,     \* whether created tasks may be timer-driven: a subset of BOOLEAN
    Outcomes,    \* outcomes a worker reports: a subset of TERMINAL
    Keep,        \* finished RUNs the journal keeps (the code has 100)
    MaxQueue,    \* unfinished RUNs the journal accepts (the code has 1024)
    MaxRuns,     \* BOUND: RUNs ever queued
    MaxGen,      \* BOUND: generations of one task number
    MaxOffers    \* BOUND: offers of one RUN

TaskIds == 1..MaxTasks
RunIds == 1..MaxRuns
Gens == 0..MaxGen
Offers == 0..MaxOffers
Executors == {"openai", "litert"}

TERMINAL == {"done", "error", "cancelled", "interrupted"}
Unfinished == {"pending", "offered", "running"}
Granted == {"offered", "running"}

ASSUME ConstantsAreSane ==
    /\ MaxTasks \in Nat \ {0} /\ MaxRuns \in Nat \ {0}
    /\ MaxGen \in Nat /\ MaxOffers \in Nat
    /\ Keep \in Nat \ {0} /\ MaxQueue \in Nat \ {0}
    /\ NoWorker \notin Workers
    /\ ExecutorOf \in [Workers -> Executors]
    /\ Policies \subseteq Executors \cup {"auto"}
    /\ Periods \subseteq BOOLEAN
    /\ Outcomes \subseteq TERMINAL

VARIABLES
    tasks,       \* the saved task under each number
    gens,        \* the latest generation given to each task number
    timers,      \* the timer of each task number
    runs,        \* the journal of RUNs
    nextRun,     \* the place the next RUN takes in the journal
    workers,     \* readiness and lease of each worker; lost at a restart
    alive        \* worker processes that exist

vars == <<tasks, gens, timers, runs, nextRun, workers, alive>>
management == <<tasks, gens, timers, nextRun>>

NoTask == [saved |-> FALSE, enabled |-> FALSE, periodic |-> FALSE,
           policy |-> "auto"]
Tasks == [saved : BOOLEAN, enabled : BOOLEAN, periodic : BOOLEAN,
          policy : Executors \cup {"auto"}]

\* "due" is an armed timer whose deadline has passed.
TimerStates == {"none", "stopped", "armed", "due"}

\* A place of the journal that holds no RUN: not yet queued, or pruned.
NoRun == [state |-> "absent", task |-> 1, gen |-> 0, timer |-> FALSE,
          policy |-> "auto", worker |-> NoWorker, offer |-> 0, grants |-> 0]
\* offer is 0 for the code's empty offer_id; grants counts the offers made so
\* far, and stands for the freshness of the next random offer_id.
Runs == [state : {"absent"} \cup Unfinished \cup TERMINAL,
         task : TaskIds, gen : Gens, timer : BOOLEAN,
         policy : Executors \cup {"auto"},
         worker : Workers \cup {NoWorker}, offer : Offers, grants : Offers]

\* What the last heartbeat of a worker says: "unknown" when this service
\* process never heard of it, "expired" once its lease ran out or it went
\* offline (its ready flag is then never read).
Reports == {"unknown", "not_ready", "ready", "expired"}

-----------------------------------------------------------------------------
(* Conditions on a RUN.  They take the tasks (ts) and the worker reports   *)
(* (ws) they are evaluated on: some handlers settle the journal after they *)
(* changed one of the two.                                                 *)

Current(ts, run) == /\ ts[run.task].saved
                    /\ ts[run.task].enabled
                    /\ gens[run.task] = run.gen

LeaseLive(ws, w) == w \in alive /\ ws[w] \in {"not_ready", "ready"}
WorkerReady(ws, w) == w \in alive /\ ws[w] = "ready"

BestReady(ws) ==
    LET ready == {ExecutorOf[w] : w \in {x \in Workers : WorkerReady(ws, x)}}
    IN  IF "openai" \in ready THEN "openai"
        ELSE IF "litert" \in ready THEN "litert" ELSE "none"

\* An explicit policy needs no readiness report; a worker that ever reported
\* still loses its unstarted offers with its lease.
OfferLost(ws, run) ==
    \/ run.worker \notin alive
    \/ run.policy = "auto" /\ ~WorkerReady(ws, run.worker)
    \/ /\ run.policy # "auto"
       /\ ws[run.worker] # "unknown"
       /\ ~LeaseLive(ws, run.worker)

ReturnPending(run) ==
    [run EXCEPT !.state = "pending", !.worker = NoWorker, !.offer = 0]

\* Mutant: a dead worker's RUN is queued again, as its unstarted offers are.
ReconcileRequeues(ts, ws, run) ==
    IF run.state \in {"pending", "offered"} /\ ~Current(ts, run)
    THEN [run EXCEPT !.state = "cancelled"]
    ELSE IF run.state \in Granted /\ OfferLost(ws, run) THEN ReturnPending(run)
    ELSE run

Reconcile(ts, ws, run) ==
    IF run.state \in {"pending", "offered"} /\ ~Current(ts, run)
    THEN [run EXCEPT !.state = "cancelled"]
    ELSE IF run.state = "offered" /\ OfferLost(ws, run) THEN ReturnPending(run)
    ELSE IF run.state = "running" /\ run.worker \notin alive
    THEN [run EXCEPT !.state = "interrupted", !.worker = NoWorker]
    ELSE run

Finished(rs) == {r \in RunIds : rs[r].state \in TERMINAL}
Live(rs) == {r \in RunIds : rs[r].state \in Unfinished}

\* Mutant: the journal is cut by age alone, whatever the state of a RUN.
PruneByAge(rs) ==
    [r \in RunIds |->
        IF Cardinality({q \in RunIds : q > r /\ rs[q].state # "absent"}) >= Keep
        THEN NoRun ELSE rs[r]]

\* Only the last Keep finished RUNs stay, in journal order.
Prune(rs) ==
    [r \in RunIds |->
        IF /\ r \in Finished(rs)
           /\ Cardinality({q \in Finished(rs) : q > r}) >= Keep
        THEN NoRun ELSE rs[r]]

ReconcileAll(ts, ws, rs) == Prune([r \in RunIds |-> Reconcile(ts, ws, rs[r])])

-----------------------------------------------------------------------------
(* Queueing.                                                               *)

NewRun(t, fromTimer) ==
    [NoRun EXCEPT !.state = "pending", !.task = t, !.gen = gens[t],
                  !.timer = fromTimer, !.policy = tasks[t].policy]

\* Mutant: a RUN that a worker took no longer holds the next tick back.
CoalescedPending(rs, t) ==
    \E r \in RunIds : /\ rs[r].state = "pending"
                      /\ rs[r].task = t /\ rs[r].gen = gens[t]

\* A timer tick is dropped while its task generation has an unfinished RUN.
Coalesced(rs, t) ==
    \E r \in RunIds : /\ rs[r].state \in Unfinished
                      /\ rs[r].task = t /\ rs[r].gen = gens[t]

Due == {t \in TaskIds : timers[t] = "due"}

\* BOUND: each due timer keeps a place of the journal, so that a tick is never
\* held back by MaxRuns.
PlaceLeft == nextRun + Cardinality(Due) \in RunIds

\* _queue for a manual run, an MQTT edge or a submitted event.  A disabled
\* task queues nothing; a full journal raises, which rolls back.
QueueEvent(t) ==
    /\ tasks[t].saved /\ tasks[t].enabled
    /\ Cardinality(Live(runs)) < MaxQueue
    /\ PlaceLeft
    /\ runs' = [runs EXCEPT ![nextRun] = NewRun(t, FALSE)]
    /\ nextRun' = nextRun + 1
    /\ UNCHANGED <<tasks, gens, timers, workers, alive>>

-----------------------------------------------------------------------------
(* Management.                                                             *)

FreshGen(t) == /\ gens[t] < MaxGen
               /\ gens' = [gens EXCEPT ![t] = @ + 1]

ArmedIf(condition) == IF condition THEN "armed" ELSE "stopped"

\* create, create_task, create_periodic_task, create_external_task: the first
\* free number.
CreateTask(t, policy, periodic, enabled) ==
    /\ ~tasks[t].saved /\ \A u \in 1..(t - 1) : tasks[u].saved
    /\ FreshGen(t)
    /\ tasks' = [tasks EXCEPT ![t] = [saved |-> TRUE, enabled |-> enabled,
                                      periodic |-> periodic, policy |-> policy]]
    /\ timers' = [timers EXCEPT ![t] = IF periodic THEN ArmedIf(enabled) ELSE "none"]
    /\ UNCHANGED <<runs, nextRun, workers, alive>>

\* start_task and stop_task share set_enabled and the timer update; a native
\* resume or pause keeps the generation.
SetEnabled(t, enabled) ==
    /\ tasks[t].saved
    /\ tasks' = [tasks EXCEPT ![t].enabled = enabled]
    /\ timers' = IF tasks[t].periodic
                 THEN [timers EXCEPT ![t] = ArmedIf(enabled)] ELSE timers
    /\ UNCHANGED <<nextRun, workers, alive>>

StartTask(t) == SetEnabled(t, TRUE) /\ FreshGen(t) /\ UNCHANGED runs

\* Mutant: a stop keeps the generation.
StopKeepsGeneration(t) == SetEnabled(t, FALSE) /\ UNCHANGED <<gens, runs>>

StopTask(t) == SetEnabled(t, FALSE) /\ FreshGen(t) /\ UNCHANGED runs
ResumeTask(t) == SetEnabled(t, TRUE) /\ UNCHANGED <<gens, runs>>

PauseTask(t) == /\ SetEnabled(t, FALSE)
                /\ runs' = ReconcileAll(tasks', workers, runs)
                /\ UNCHANGED gens

\* Mutant: a period change starts the timer of a disabled task.
SetTimerPeriodArms(t) ==
    /\ tasks[t].saved /\ tasks[t].periodic
    /\ FreshGen(t)
    /\ timers' = [timers EXCEPT ![t] = "armed"]
    /\ UNCHANGED <<tasks, runs, nextRun, workers, alive>>

SetTimerPeriod(t) ==
    /\ tasks[t].saved /\ tasks[t].periodic
    /\ FreshGen(t)
    /\ timers' = [timers EXCEPT ![t] = ArmedIf(tasks[t].enabled)]
    /\ UNCHANGED <<tasks, runs, nextRun, workers, alive>>

SetExecutor(t, policy) ==
    /\ tasks[t].saved
    /\ FreshGen(t)
    /\ tasks' = [tasks EXCEPT ![t].policy = policy]
    /\ UNCHANGED <<timers, runs, nextRun, workers, alive>>

DeleteTask(t) ==
    /\ tasks[t].saved
    /\ tasks' = [tasks EXCEPT ![t] = NoTask]
    /\ timers' = [timers EXCEPT ![t] = "none"]
    /\ UNCHANGED <<gens, runs, nextRun, workers, alive>>

-----------------------------------------------------------------------------
(* Time and the service's own thread.                                      *)

TimerComesDue(t) ==
    /\ timers[t] = "armed"
    /\ PlaceLeft
    /\ timers' = [timers EXCEPT ![t] = "due"]
    /\ UNCHANGED <<tasks, gens, runs, nextRun, workers, alive>>

\* The tick of every 0.25 s: reconcile, then queue the event of every due
\* timer and move its deadline on, all or nothing.  order says which due task
\* takes which of the next places.
Tick ==
    LET settled == ReconcileAll(tasks, workers, runs)
        fired == {t \in Due : ~Coalesced(settled, t)}
        places == nextRun..(nextRun + Cardinality(fired) - 1)
    IN  /\ fired # {} => Cardinality(Live(settled)) + Cardinality(fired) <= MaxQueue
        /\ places \subseteq RunIds
        /\ \E order \in [places -> fired] :
            /\ \A p, q \in places : order[p] = order[q] => p = q
            /\ runs' = [r \in RunIds |-> IF r \in places THEN NewRun(order[r], TRUE)
                                         ELSE settled[r]]
        /\ nextRun' = nextRun + Cardinality(fired)
        /\ timers' = [t \in TaskIds |-> IF t \in Due THEN "armed" ELSE timers[t]]
        /\ UNCHANGED <<tasks, gens, workers, alive>>

LeaseExpires(w) ==
    /\ workers[w] \in {"not_ready", "ready"}
    /\ workers' = [workers EXCEPT ![w] = "expired"]
    /\ UNCHANGED <<management, runs, alive>>

\* A process identity (pid, boot, start time) never comes back.
ProcessDies(w) ==
    /\ w \in alive
    /\ alive' = alive \ {w}
    /\ UNCHANGED <<management, runs, workers>>

\* The journal, tasks and timers are restored from disk; readiness is not.
ServiceRestart ==
    /\ workers' = [w \in Workers |-> "unknown"]
    /\ UNCHANGED <<management, runs, alive>>

-----------------------------------------------------------------------------
(* Worker requests.  Each reconciles the journal before it looks at it.    *)
(* The peer of a request is a live process.                                *)

Settled == ReconcileAll(tasks, workers, runs)

\* Mutant: the renewed lease is accepted before the journal is reconciled.
HeartbeatFirst(w, report) ==
    /\ w \in alive
    /\ workers' = [workers EXCEPT ![w] = report]
    /\ runs' = ReconcileAll(tasks, workers', runs)
    /\ UNCHANGED <<management, alive>>

Heartbeat(w, report) ==
    /\ w \in alive
    /\ runs' = Settled
    /\ workers' = [workers EXCEPT ![w] = report]
    /\ UNCHANGED <<management, alive>>

Offline(w) ==
    /\ w \in alive
    /\ workers' = IF workers[w] = "unknown" THEN workers
                  ELSE [workers EXCEPT ![w] = "expired"]
    /\ runs' = ReconcileAll(tasks, workers', Settled)
    /\ UNCHANGED <<management, alive>>

\* An offer this worker holds and has neither seen nor excluded is repeated.
Repeatable(rs, w, seen, skip) ==
    {r \in RunIds \ (seen \cup skip) : rs[r].state = "offered" /\ rs[r].worker = w}

\* Mutant: an offer that nobody began yet does not occupy its task.
OccupiedRunning(rs, t) == \E r \in RunIds : rs[r].state = "running" /\ rs[r].task = t

Occupied(rs, t) == \E r \in RunIds : rs[r].state \in Granted /\ rs[r].task = t

Grantable(rs, w, skip) ==
    {r \in RunIds \ skip :
        /\ rs[r].state = "pending"
        /\ ~Occupied(rs, rs[r].task)
        /\ \/ rs[r].policy = ExecutorOf[w]
           \/ /\ rs[r].policy = "auto"
              /\ BestReady(workers) = ExecutorOf[w]
              /\ WorkerReady(workers, w)
        /\ workers[w] # "unknown" => LeaseLive(workers, w)}

Grant(rs, w, r) ==
    [rs EXCEPT ![r].state = "offered", ![r].worker = w,
               ![r].grants = @ + 1, ![r].offer = rs[r].grants + 1]

\* Mutant: a pull grants from the journal as it is, without settling it.
PullUnsettled(w, seen, skip) ==
    /\ w \in alive
    /\ IF Repeatable(runs, w, seen, skip) # {} \/ Grantable(runs, w, skip) = {}
       THEN UNCHANGED runs
       ELSE \E r \in Grantable(runs, w, skip) :
                /\ \A q \in Grantable(runs, w, skip) : r <= q
                /\ runs[r].grants < MaxOffers
                /\ runs' = Grant(runs, w, r)
    /\ UNCHANGED <<management, workers, alive>>

\* seen: RUNs whose present offer the worker already took; skip: RUNs it put off.
Pull(w, seen, skip) ==
    /\ w \in alive
    /\ IF Repeatable(Settled, w, seen, skip) # {} \/ Grantable(Settled, w, skip) = {}
       THEN runs' = Settled
       ELSE \E r \in Grantable(Settled, w, skip) :
                /\ \A q \in Grantable(Settled, w, skip) : r <= q
                /\ Settled[r].grants < MaxOffers
                /\ runs' = Grant(Settled, w, r)
    /\ UNCHANGED <<management, workers, alive>>

\* The RUN exists and the caller names its present owner, process and offer.
Holds(rs, w, r, offer) ==
    /\ rs[r].state # "absent"
    /\ rs[r].worker = w
    /\ rs[r].offer = offer

MayBegin(rs, w, r, offer) ==
    /\ Holds(rs, w, r, offer)
    /\ rs[r].state \in Granted
    /\ Current(tasks, rs[r])

Begin(w, r, offer) ==
    /\ w \in alive
    /\ runs' = IF MayBegin(Settled, w, r, offer)
               THEN [Settled EXCEPT ![r].state = "running"] ELSE Settled
    /\ UNCHANGED <<management, workers, alive>>

\* valid changes nothing of its own: it only answers MayBegin.
Valid(w) ==
    /\ w \in alive
    /\ runs' = Settled
    /\ UNCHANGED <<management, workers, alive>>

\* A finish before begin returns the RUN to the queue whatever its outcome.
Finish(w, r, offer, outcome) ==
    /\ w \in alive
    /\ runs' = IF ~Holds(Settled, w, r, offer) \/ Settled[r].state \in TERMINAL
               THEN Settled
               ELSE IF Settled[r].state = "offered" /\ Current(tasks, Settled[r])
               THEN [Settled EXCEPT ![r] = ReturnPending(@)]
               ELSE [Settled EXCEPT ![r].state = outcome]
    /\ UNCHANGED <<management, workers, alive>>

-----------------------------------------------------------------------------
Init ==
    /\ tasks = [t \in TaskIds |-> NoTask]
    /\ gens = [t \in TaskIds |-> 0]
    /\ timers = [t \in TaskIds |-> "none"]
    /\ runs = [r \in RunIds |-> NoRun]
    /\ nextRun = 1
    /\ workers = [w \in Workers |-> "unknown"]
    /\ alive = Workers

ManageTask(t) ==
    \/ \E policy \in Policies, periodic \in Periods, enabled \in BOOLEAN :
            CreateTask(t, policy, periodic, enabled)
    \/ StartTask(t)
    \/ StopTask(t)
    \/ ResumeTask(t)
    \/ PauseTask(t)
    \/ SetTimerPeriod(t)
    \/ \E policy \in Policies : SetExecutor(t, policy)
    \/ DeleteTask(t)
    \/ QueueEvent(t)
    \/ TimerComesDue(t)

OwnOffers(w) == {r \in RunIds : runs[r].state = "offered" /\ runs[r].worker = w}
Pulls(w) == \E seen \in SUBSET OwnOffers(w), skip \in SUBSET Live(runs) : Pull(w, seen, skip)

WorkerStep(w) ==
    \/ \E report \in {"ready", "not_ready"} : Heartbeat(w, report)
    \/ Offline(w)
    \/ Pulls(w)
    \/ \E r \in RunIds, offer \in Offers : Begin(w, r, offer)
    \/ Valid(w)
    \/ \E r \in RunIds, offer \in Offers, outcome \in Outcomes : Finish(w, r, offer, outcome)
    \/ LeaseExpires(w)
    \/ ProcessDies(w)

Next == \/ Tick
        \/ ServiceRestart
        \/ \E t \in TaskIds : ManageTask(t)
        \/ \E w \in Workers : WorkerStep(w)

\* The service thread ticks every 0.25 s and each CORE that lives keeps
\* polling for work.
Fairness == /\ WF_vars(Tick)
            /\ \A w \in Workers : WF_vars(Pulls(w))

Spec == Init /\ [][Next]_vars /\ Fairness

-----------------------------------------------------------------------------
(* Properties.                                                             *)

\* Types, and what every place beyond nextRun holds.
TypeOK ==
    /\ tasks \in [TaskIds -> Tasks]
    /\ gens \in [TaskIds -> Gens]
    /\ timers \in [TaskIds -> TimerStates]
    /\ runs \in [RunIds -> Runs]
    /\ nextRun \in 1..(MaxRuns + 1)
    /\ workers \in [Workers -> Reports]
    /\ alive \subseteq Workers

\* Two RUNs of one task number are never offered or running together, over all
\* CORE processes, through crashes, lost leases, restarts of the service and a
\* number that is deleted and given to another task.
OneGrantPerTask ==
    \A r, q \in RunIds :
        /\ runs[r].state \in Granted /\ runs[q].state \in Granted
        /\ runs[r].task = runs[q].task
        => r = q

\* The timers that count down are those of the saved, enabled, periodic tasks,
\* whatever order of start, stop, pause, resume, period change and delete led
\* here: a tick never looks up a task that is gone (poll_due requires it).
TimerMatchesTask ==
    \A t \in TaskIds :
        /\ timers[t] = "none" <=> ~(tasks[t].saved /\ tasks[t].periodic)
        /\ timers[t] \in {"armed", "due"}
             <=> tasks[t].saved /\ tasks[t].periodic /\ tasks[t].enabled

\* Missed ticks build no backlog: one task generation has at most one
\* unfinished RUN that a timer queued.
TimerCoalesced ==
    \A r, q \in RunIds :
        /\ {runs[r].state, runs[q].state} \subseteq Unfinished
        /\ runs[r].timer /\ runs[q].timer
        /\ runs[r].task = runs[q].task /\ runs[r].gen = runs[q].gen
        => r = q

\* RUNs beyond nextRun are not queued yet.
JournalIsPrefix == \A r \in RunIds : r >= nextRun => runs[r].state = "absent"

\* No unfinished RUN carries a generation its task number has not reached.
NoFutureGen ==
    \A r \in Live(runs) : runs[r].gen <= gens[runs[r].task]

\* While a saved task is disabled under the generation of an unstarted RUN
\* nothing may resume it: a pause, which keeps the generation, therefore leaves
\* no such RUN behind.
PauseRevokes ==
    \A r \in RunIds :
        /\ runs[r].state \in {"pending", "offered"}
        /\ runs[r].gen = gens[runs[r].task]
        /\ tasks[runs[r].task].saved
        => tasks[runs[r].task].enabled

\* The inductive invariant of the proofs.
IInv == /\ TypeOK
        /\ OneGrantPerTask
        /\ TimerMatchesTask
        /\ JournalIsPrefix
        /\ NoFutureGen
        /\ PauseRevokes

\* A RUN that began is never queued or offered again and never changes hands:
\* it runs for the worker and offer that began it until it is finished, and a
\* finished RUN keeps its outcome until it is pruned for good.
NoReplay ==
    [][\A r \in RunIds :
        /\ runs[r].state = "running" =>
            \/ runs'[r] = runs[r]
            \/ runs'[r].state \in TERMINAL
            \/ runs'[r].state = "absent" /\ nextRun' > r
        /\ runs[r].state \in TERMINAL => runs'[r].state \in {runs[r].state, "absent"}
        /\ runs[r].state = "absent" /\ r < nextRun => runs'[r].state = "absent"]_vars

\* Pruning takes finished RUNs only: work that is queued, offered or running
\* leaves the journal only through an outcome.  (The reconciliation that
\* cancels or interrupts a RUN may prune it in the same step.)
NothingLost ==
    [][\A r \in RunIds :
        runs[r].state \in Unfinished /\ runs'[r].state = "absent" =>
            \/ runs[r].state \in {"pending", "offered"} /\ ~Current(tasks', runs[r])
            \/ runs[r].state = "running" /\ runs[r].worker \notin alive']_vars

\* A worker whose lease ran out forfeits an auto offer even when its own late
\* heartbeat is what the service hears next: grants are revoked BEFORE a
\* renewed heartbeat is accepted.
ExpiredLeaseForfeitsOffer ==
    [][\A w \in Workers, r \in RunIds :
        /\ workers[w] = "expired" /\ workers'[w] = "ready"
        /\ runs[r].state = "offered" /\ runs[r].worker = w
        => runs'[r].state # "offered" \/ runs'[r].offer # runs[r].offer]_vars

\* An unstarted RUN whose task was stopped, paused, changed or deleted is
\* revoked for good: no resume and no reuse of the number makes it current
\* again, so it can only be cancelled.
RevokedForGood ==
    [][\A r \in RunIds :
        runs[r].state \in {"pending", "offered"} /\ ~Current(tasks, runs[r]) =>
            \/ runs'[r].state \in {"pending", "offered"} /\ ~Current(tasks, runs[r])'
            \/ runs'[r].state \in {"cancelled", "absent"}]_vars

\* A RUN left running by a process that died is closed while any CORE lives,
\* so its task number is free again: the pulls of the living COREs do this even
\* while the journal is too full for the due timers and every tick fails, which
\* rolls back what the tick had settled.
HeldByDead == {r \in RunIds : runs[r].state = "running" /\ runs[r].worker \notin alive}

DeadOwnerReleased == HeldByDead # {} ~> HeldByDead = {} \/ alive = {}

-----------------------------------------------------------------------------
(* The ledger the service implements.                                      *)

Phase(r) == CASE runs[r].state = "pending" -> "waiting"
              [] runs[r].state = "offered" -> "held"
              [] runs[r].state = "running" -> "begun"
              [] runs[r].state = "absent" -> IF r < nextRun THEN "gone" ELSE "unborn"
              [] OTHER -> runs[r].state

Entry(r) ==
    LET phase == Phase(r)
    IN  [phase |-> phase,
         job |-> IF phase \in {"waiting", "held", "begun"} THEN runs[r].task ELSE 0,
         grant |-> IF phase \in {"held", "begun"}
                   THEN <<runs[r].worker, runs[r].offer>> ELSE <<>>]

Ledger == INSTANCE RunLedger WITH
    Entries <- RunIds, Jobs <- TaskIds, Grants <- Workers \X Offers,
    Outcomes <- TERMINAL, NoJob <- 0, NoGrant <- <<>>,
    ledger <- [r \in RunIds |-> Entry(r)]

\* Through every request, tick, lease expiry, crash and restart the journal
\* behaves as the exclusive, at-most-once ledger of RunLedger: a RUN that began
\* is never queued, offered or begun again, begins only under the grant it is
\* held under, and no task number is in two hands.
ImplementsLedger == Ledger!LedgerSpec

=============================================================================
