-------------------------- MODULE TaskEngineProofs --------------------------
(***************************************************************************)
(* Proofs about TaskEngine, for every number of tasks, RUNs and workers:   *)
(* its invariants, its action properties, and that it implements the       *)
(* exclusive, at-most-once ledger of RunLedger.                            *)
(***************************************************************************)
EXTENDS TaskEngine, FiniteSetTheorems, TLAPS

-----------------------------------------------------------------------------
(* What reconciliation may do to one RUN, and to the journal.              *)

\* From a to b by reconciliation: a granted RUN is untouched or loses its
\* grant, a running one can only end, nothing is queued or granted.
SettleEdge(a, b) ==
    /\ b \in Runs
    /\ b.state \in Granted => b = a
    /\ b.state = "pending" => /\ a.state \in {"pending", "offered"}
                              /\ b.task = a.task /\ b.gen = a.gen
                              /\ b.timer = a.timer /\ b.policy = a.policy
    /\ a.state = "running" => b = a \/ b.state \in {"interrupted", "absent"}
    /\ a.state \in TERMINAL => b.state \in {a.state, "absent"}
    /\ a.state = "absent" => b.state = "absent"
    /\ a.state \in {"pending", "offered"}
         => b.state \in {"pending", "offered", "cancelled", "absent"}
    /\ b.state # "absent" => b.grants = a.grants /\ b.offer \in {0, a.offer}

LEMMA ReconcileCases ==
    ASSUME NEW ts, NEW ws, NEW run \in Runs
    PROVE  \/ /\ run.state \in {"pending", "offered"}
              /\ Reconcile(ts, ws, run) = [run EXCEPT !.state = "cancelled"]
           \/ /\ run.state = "offered"
              /\ Reconcile(ts, ws, run) = ReturnPending(run)
           \/ /\ run.state = "running"
              /\ Reconcile(ts, ws, run)
                   = [run EXCEPT !.state = "interrupted", !.worker = NoWorker]
           \/ Reconcile(ts, ws, run) = run
  BY DEF Reconcile

LEMMA ReturnPendingFacts ==
    ASSUME NEW run \in Runs
    PROVE  /\ ReturnPending(run) \in Runs
           /\ ReturnPending(run).state = "pending"
           /\ ReturnPending(run).worker = NoWorker
           /\ ReturnPending(run).offer = 0
           /\ \A f \in {"task", "gen", "timer", "policy", "grants"} :
                ReturnPending(run)[f] = run[f]
<1>1. 0 \in Offers
  BY ConstantsAreSane DEF Offers
<1>2. "pending" \in {"absent"} \cup Unfinished \cup TERMINAL
  BY DEF Unfinished
<1>. HIDE DEF Unfinished, TERMINAL, Offers
<1>. QED
  BY <1>1, <1>2 DEF ReturnPending, Runs

LEMMA ReconcileEdge ==
    ASSUME NEW ts, NEW ws, NEW run \in Runs
    PROVE  /\ Reconcile(ts, ws, run) \in Runs
           /\ SettleEdge(run, Reconcile(ts, ws, run))
<1>. SUFFICES ASSUME NEW after, after = Reconcile(ts, ws, run)
              PROVE  after \in Runs /\ SettleEdge(run, after)
  OBVIOUS
<1>1. CASE run.state \in {"pending", "offered"} /\ after = [run EXCEPT !.state = "cancelled"]
  BY <1>1 DEF SettleEdge, Runs, Unfinished, TERMINAL, Granted
<1>2. CASE run.state = "offered" /\ after = ReturnPending(run)
  BY <1>2, ReturnPendingFacts DEF SettleEdge, TERMINAL, Granted
<1>3. CASE /\ run.state = "running"
           /\ after = [run EXCEPT !.state = "interrupted", !.worker = NoWorker]
  BY <1>3 DEF SettleEdge, Runs, Unfinished, TERMINAL, Granted
<1>4. CASE after = run
  BY <1>4 DEF SettleEdge, Runs, Unfinished, TERMINAL, Granted
<1>. QED
  BY <1>1, <1>2, <1>3, <1>4, ReconcileCases

LEMMA NoRunType == NoRun \in Runs
  BY ConstantsAreSane DEF NoRun, Runs, TaskIds, Gens, Offers

\* Reconciling the journal changes each RUN along a SettleEdge.
LEMMA ReconcileAllEdge ==
    ASSUME NEW ts, NEW ws, NEW rs \in [RunIds -> Runs]
    PROVE  /\ ReconcileAll(ts, ws, rs) \in [RunIds -> Runs]
           /\ \A r \in RunIds : SettleEdge(rs[r], ReconcileAll(ts, ws, rs)[r])
<1>. DEFINE one == [r \in RunIds |-> Reconcile(ts, ws, rs[r])]
<1>1. \A r \in RunIds : one[r] \in Runs /\ SettleEdge(rs[r], one[r])
  BY ReconcileEdge
<1>2. \A r \in RunIds : \/ ReconcileAll(ts, ws, rs)[r] = one[r]
                        \/ /\ ReconcileAll(ts, ws, rs)[r] = NoRun
                           /\ one[r].state \in TERMINAL
  BY DEF ReconcileAll, Prune, Finished
<1>3. ASSUME NEW r \in RunIds, one[r].state \in TERMINAL
      PROVE  SettleEdge(rs[r], NoRun)
  BY <1>1, <1>3, NoRunType DEF SettleEdge, NoRun, TERMINAL, Granted, Runs
<1>4. ReconcileAll(ts, ws, rs) = [r \in RunIds |-> ReconcileAll(ts, ws, rs)[r]]
  BY DEF ReconcileAll, Prune
<1>. QED
  BY <1>1, <1>2, <1>3, <1>4, NoRunType

-----------------------------------------------------------------------------
(* Type correctness.                                                       *)

LEMMA SettledFacts ==
    ASSUME TypeOK, NEW ts, NEW ws
    PROVE  /\ ReconcileAll(ts, ws, runs) \in [RunIds -> Runs]
           /\ \A r \in RunIds : SettleEdge(runs[r], ReconcileAll(ts, ws, runs)[r])
  BY ReconcileAllEdge DEF TypeOK

LEMMA NewRunType ==
    ASSUME TypeOK, NEW t \in TaskIds, NEW timer \in BOOLEAN
    PROVE  /\ NewRun(t, timer) \in Runs
           /\ NewRun(t, timer).state = "pending"
           /\ NewRun(t, timer).task = t
           /\ NewRun(t, timer).gen = gens[t]
<1>1. /\ gens[t] \in Gens /\ tasks[t].policy \in Executors \cup {"auto"}
      /\ 0 \in Offers
  BY ConstantsAreSane DEF TypeOK, Tasks, Offers
<1>2. "pending" \in {"absent"} \cup Unfinished \cup TERMINAL
  BY DEF Unfinished
<1>. HIDE DEF Unfinished, TERMINAL, Offers, Gens, TaskIds, Executors
<1>. QED
  BY <1>1, <1>2 DEF NewRun, NoRun, Runs

\* How many RUNs a tick queues is a number.
LEMMA DueIsFinite ==
    ASSUME NEW S \in SUBSET TaskIds
    PROVE  /\ IsFiniteSet(S)
           /\ Cardinality(S) \in Nat
           /\ Cardinality(S) = 0 <=> S = {}
<1>1. IsFiniteSet(TaskIds)
  BY ConstantsAreSane, FS_Interval DEF TaskIds
<1>2. IsFiniteSet(S)
  BY <1>1, FS_Subset
<1>. QED
  BY <1>2, FS_CardinalityType, FS_EmptySet

LEMMA GrantType ==
    ASSUME NEW rs \in [RunIds -> Runs], NEW w \in Workers, NEW r \in RunIds,
           rs[r].grants < MaxOffers
    PROVE  /\ Grant(rs, w, r) \in [RunIds -> Runs]
           /\ \A q \in RunIds \ {r} : Grant(rs, w, r)[q] = rs[q]
           /\ Grant(rs, w, r)[r].state = "offered"
           /\ Grant(rs, w, r)[r].worker = w
           /\ Grant(rs, w, r)[r].grants = rs[r].grants + 1
           /\ Grant(rs, w, r)[r].offer = rs[r].grants + 1
           /\ \A f \in {"task", "gen", "timer", "policy"} : Grant(rs, w, r)[r][f] = rs[r][f]
<1>. DEFINE new == [rs[r] EXCEPT !.state = "offered", !.worker = w,
                                 !.grants = @ + 1, !.offer = rs[r].grants + 1]
<1>1. Grant(rs, w, r) = [rs EXCEPT ![r] = new]
  BY DEF Grant
<1>2. rs[r].grants + 1 \in Offers
  BY ConstantsAreSane DEF Runs, Offers
<1>3. /\ new \in Runs /\ new.state = "offered" /\ new.worker = w
      /\ new.grants = rs[r].grants + 1 /\ new.offer = rs[r].grants + 1
      /\ \A f \in {"task", "gen", "timer", "policy"} : new[f] = rs[r][f]
  <2>1. "offered" \in {"absent"} \cup Unfinished \cup TERMINAL
    BY DEF Unfinished
  <2>. HIDE DEF Unfinished, TERMINAL, Offers
  <2>. QED
    BY <1>2, <2>1 DEF Runs
<1>. HIDE DEF new
<1>. QED
  BY <1>1, <1>3

LEMMA InitType == Init => TypeOK
<1>1. 1 \in 1..(MaxRuns + 1) /\ 0 \in Gens
  BY ConstantsAreSane DEF Gens
<1>2. NoTask \in Tasks
  BY DEF NoTask, Tasks
<1>3. "none" \in TimerStates /\ "unknown" \in Reports
  BY DEF TimerStates, Reports
<1>. QED
  BY <1>1, <1>2, <1>3, NoRunType DEF Init, TypeOK

\* The journal after a management operation.
LEMMA ManageType ==
    ASSUME TypeOK, NEW t \in TaskIds, ManageTask(t)
    PROVE  TypeOK'
<1>1. ASSUME NEW policy \in Policies, NEW periodic \in Periods, NEW enabled \in BOOLEAN,
             CreateTask(t, policy, periodic, enabled)
      PROVE  TypeOK'
  <2>1. [saved |-> TRUE, enabled |-> enabled, periodic |-> periodic, policy |-> policy] \in Tasks
    BY ConstantsAreSane DEF Tasks
  <2>2. gens' \in [TaskIds -> Gens]
    BY <1>1, ConstantsAreSane DEF CreateTask, FreshGen, TypeOK, Gens
  <2>. QED
    BY <1>1, <2>1, <2>2 DEF CreateTask, TypeOK, TimerStates, ArmedIf
<1>2. ASSUME NEW enabled \in BOOLEAN, SetEnabled(t, enabled)
      PROVE  /\ tasks' \in [TaskIds -> Tasks] /\ timers' \in [TaskIds -> TimerStates]
             /\ UNCHANGED <<nextRun, workers, alive>>
  BY <1>2 DEF SetEnabled, TypeOK, Tasks, TimerStates, ArmedIf
<1>3. ASSUME FreshGen(t) PROVE gens' \in [TaskIds -> Gens]
  BY <1>3, ConstantsAreSane DEF FreshGen, TypeOK, Gens
<1>4. CASE StartTask(t)
  BY <1>4, <1>2, <1>3 DEF StartTask, TypeOK
<1>5. CASE StopTask(t)
  BY <1>5, <1>2, <1>3 DEF StopTask, TypeOK
<1>6. CASE ResumeTask(t)
  BY <1>6, <1>2 DEF ResumeTask, TypeOK
<1>7. CASE PauseTask(t)
  BY <1>7, <1>2, SettledFacts DEF PauseTask, TypeOK
<1>8. CASE SetTimerPeriod(t)
  BY <1>8, <1>3 DEF SetTimerPeriod, TypeOK, TimerStates, ArmedIf
<1>9. ASSUME NEW policy \in Policies, SetExecutor(t, policy)
      PROVE  TypeOK'
  BY <1>9, <1>3, ConstantsAreSane DEF SetExecutor, TypeOK, Tasks
<1>10. CASE DeleteTask(t)
  BY <1>10 DEF DeleteTask, TypeOK, NoTask, Tasks, TimerStates
<1>11. CASE QueueEvent(t)
  <2>1. nextRun \in RunIds /\ nextRun + 1 \in 1..(MaxRuns + 1)
    BY <1>11, ConstantsAreSane, DueIsFinite DEF QueueEvent, PlaceLeft, TypeOK, RunIds, Due
  <2>2. NewRun(t, FALSE) \in Runs
    BY NewRunType
  <2>. QED
    BY <1>11, <2>1, <2>2 DEF QueueEvent, TypeOK
<1>12. CASE TimerComesDue(t)
  BY <1>12 DEF TimerComesDue, TypeOK, TimerStates
<1>. QED
  BY <1>1, <1>4, <1>5, <1>6, <1>7, <1>8, <1>9, <1>10, <1>11, <1>12 DEF ManageTask

\* What a tick does to the journal: it settles it, and the places it fills are
\* the next ones, each with a new RUN of a due task that has no unfinished RUN.
LEMMA TickFacts ==
    ASSUME TypeOK, Tick
    PROVE  \E n \in Nat :
             /\ nextRun' = nextRun + n
             /\ nextRun + n <= MaxRuns + 1
             /\ \A r \in RunIds : r \in nextRun..(nextRun + n - 1) =>
                    \E t \in Due : /\ ~Coalesced(Settled, t)
                                   /\ runs'[r] = NewRun(t, TRUE)
             /\ \A r, q \in nextRun..(nextRun + n - 1) :
                    runs'[r].task = runs'[q].task => r = q
             /\ \A r \in RunIds \ (nextRun..(nextRun + n - 1)) : runs'[r] = Settled[r]
             /\ runs' \in [RunIds -> Runs]
<1>. DEFINE fired == {t \in Due : ~Coalesced(Settled, t)}
            n == Cardinality(fired)
            places == nextRun..(nextRun + n - 1)
<1>1. n \in Nat
  BY DueIsFinite DEF Due
<1>2. /\ nextRun' = nextRun + n
      /\ places \subseteq RunIds
  BY DEF Tick, Settled
<1>3. PICK order \in [places -> fired] :
        /\ \A r, q \in places : order[r] = order[q] => r = q
        /\ runs' = [r \in RunIds |-> IF r \in places THEN NewRun(order[r], TRUE)
                                     ELSE Settled[r]]
  BY DEF Tick, Settled
<1>. HIDE DEF n
<1>4. nextRun + n <= MaxRuns + 1
  <2>1. CASE n = 0
    BY <2>1, ConstantsAreSane DEF TypeOK
  <2>2. CASE n > 0
    <3>1. nextRun + n - 1 \in places
      BY <1>1, <2>2, ConstantsAreSane DEF TypeOK
    <3>. QED
      BY <3>1, <1>1, <1>2, ConstantsAreSane, SMTT(30) DEF RunIds, TypeOK
  <2>. QED
    BY <1>1, <2>1, <2>2
<1>5. \A r \in places : /\ order[r] \in Due /\ order[r] \in TaskIds
                        /\ ~Coalesced(Settled, order[r])
  BY <1>3 DEF Due
<1>6. \A r \in places : /\ NewRun(order[r], TRUE) \in Runs
                        /\ NewRun(order[r], TRUE).task = order[r]
  BY <1>5, NewRunType
<1>7. Settled \in [RunIds -> Runs]
  BY SettledFacts DEF Settled
<1>8. \A r \in places : runs'[r] = NewRun(order[r], TRUE)
  BY <1>2, <1>3
<1>9. \A r \in RunIds \ places : runs'[r] = Settled[r]
  BY <1>3
<1>10. runs' \in [RunIds -> Runs]
  BY <1>3, <1>6, <1>7
<1>11. \A r, q \in places : runs'[r].task = runs'[q].task => r = q
  <2>1. \A r \in places : runs'[r].task = order[r]
    BY <1>6, <1>8
  <2>2. \A r, q \in places : order[r] = order[q] => r = q
    BY <1>3
  <2>3. TAKE r, q \in places
  <2>4. HAVE runs'[r].task = runs'[q].task
  <2>5. order[r] = order[q]
    BY <2>1, <2>4
  <2>. HIDE DEF places, fired
  <2>. QED
    BY <2>2, <2>5
<1>12. \A r \in RunIds : r \in places =>
            \E t \in Due : ~Coalesced(Settled, t) /\ runs'[r] = NewRun(t, TRUE)
  BY <1>5, <1>8
<1>. WITNESS n \in Nat
<1>. QED
  BY <1>2, <1>4, <1>9, <1>10, <1>11, <1>12

LEMMA TickType ==
    ASSUME TypeOK, Tick
    PROVE  TypeOK'
<1>1. runs' \in [RunIds -> Runs] /\ nextRun' \in 1..(MaxRuns + 1)
  <2>1. PICK n \in Nat : /\ nextRun' = nextRun + n /\ nextRun + n <= MaxRuns + 1
                         /\ runs' \in [RunIds -> Runs]
    BY TickFacts
  <2>2. nextRun \in 1..(MaxRuns + 1)
    BY DEF TypeOK
  <2>. QED
    BY <2>1, <2>2, ConstantsAreSane
<1>2. timers' \in [TaskIds -> TimerStates]
  BY DEF Tick, TypeOK, TimerStates
<1>. QED
  BY <1>1, <1>2 DEF Tick, TypeOK

\* What a worker's request does to the journal: it settles it and then gives,
\* begins, returns or finishes at most one RUN of that worker.
WorkerEdge(w, mid) ==
    \/ runs' = mid
    \/ \E r \in RunIds :
        /\ \A q \in RunIds \ {r} : runs'[q] = mid[q]
        /\ \A f \in {"task", "gen", "timer", "policy"} : runs'[r][f] = mid[r][f]
        /\ \/ /\ mid[r].state = "pending" /\ ~Occupied(mid, mid[r].task)
              /\ runs'[r].state = "offered" /\ runs'[r].worker = w
              /\ runs'[r].grants = mid[r].grants + 1 /\ runs'[r].offer = mid[r].grants + 1
           \/ /\ mid[r].state \in Granted /\ Current(tasks, mid[r]) /\ mid[r].worker = w
              /\ runs'[r].state = "running"
              /\ runs'[r].worker = mid[r].worker /\ runs'[r].offer = mid[r].offer
              /\ runs'[r].grants = mid[r].grants
           \/ /\ mid[r].state = "offered" /\ mid[r].worker = w
              /\ runs'[r].state = "pending"
              /\ runs'[r].offer = 0 /\ runs'[r].grants = mid[r].grants
           \/ /\ mid[r].state \in Unfinished /\ mid[r].worker = w
              /\ runs'[r].state \in TERMINAL
              /\ runs'[r].offer = mid[r].offer /\ runs'[r].grants = mid[r].grants

LEMMA FieldUpdate ==
    ASSUME NEW rs \in [RunIds -> Runs], NEW r \in RunIds, NEW state \in Unfinished \cup TERMINAL
    PROVE  LET new == [rs EXCEPT ![r].state = state]
           IN  /\ new \in [RunIds -> Runs]
               /\ \A q \in RunIds \ {r} : new[q] = rs[q]
               /\ new[r].state = state
               /\ \A f \in {"task", "gen", "timer", "policy", "worker", "offer", "grants"} :
                    new[r][f] = rs[r][f]
<1>. DEFINE one == [rs[r] EXCEPT !.state = state]
<1>1. /\ one \in Runs /\ one.state = state
      /\ \A f \in {"task", "gen", "timer", "policy", "worker", "offer", "grants"} :
            one[f] = rs[r][f]
  <2>. HIDE DEF Unfinished, TERMINAL
  <2>. QED
    BY DEF Runs
<1>2. [rs EXCEPT ![r].state = state] = [rs EXCEPT ![r] = one]
  OBVIOUS
<1>. HIDE DEF one
<1>. QED
  BY <1>1, <1>2

LEMMA PullEdge ==
    ASSUME TypeOK, NEW w \in Workers, NEW seen, NEW skip, Pull(w, seen, skip)
    PROVE  WorkerEdge(w, Settled) /\ runs' \in [RunIds -> Runs]
<1>1. Settled \in [RunIds -> Runs]
  BY SettledFacts DEF Settled
<1>2. CASE runs' = Settled
  BY <1>1, <1>2 DEF WorkerEdge
<1>3. ASSUME NEW r \in Grantable(Settled, w, skip), Settled[r].grants < MaxOffers,
             runs' = Grant(Settled, w, r)
      PROVE  WorkerEdge(w, Settled) /\ runs' \in [RunIds -> Runs]
  <2>1. r \in RunIds /\ Settled[r].state = "pending" /\ ~Occupied(Settled, Settled[r].task)
    BY <1>3 DEF Grantable
  <2>. HIDE DEF Settled
  <2>. QED
    BY <1>1, <1>3, <2>1, GrantType DEF WorkerEdge
<1>. QED
  BY <1>2, <1>3 DEF Pull

LEMMA BeginEdge ==
    ASSUME TypeOK, NEW w \in Workers, NEW r \in RunIds, NEW offer, Begin(w, r, offer)
    PROVE  WorkerEdge(w, Settled) /\ runs' \in [RunIds -> Runs]
<1>1. Settled \in [RunIds -> Runs]
  BY SettledFacts DEF Settled
<1>2. CASE runs' = Settled
  BY <1>1, <1>2 DEF WorkerEdge
<1>3. CASE MayBegin(Settled, w, r, offer) /\ runs' = [Settled EXCEPT ![r].state = "running"]
  <2>1. Settled[r].state \in Granted /\ Current(tasks, Settled[r]) /\ Settled[r].worker = w
    BY <1>3 DEF MayBegin, Holds
  <2>2. "running" \in Unfinished \cup TERMINAL
    BY DEF Unfinished
  <2>. HIDE DEF Settled
  <2>. QED
    BY <1>1, <1>3, <2>1, <2>2, FieldUpdate DEF WorkerEdge
<1>. QED
  BY <1>2, <1>3 DEF Begin

LEMMA FinishEdge ==
    ASSUME TypeOK, NEW w \in Workers, NEW r \in RunIds, NEW offer, NEW outcome \in TERMINAL,
           Finish(w, r, offer, outcome)
    PROVE  WorkerEdge(w, Settled) /\ runs' \in [RunIds -> Runs]
<1>1. Settled \in [RunIds -> Runs]
  BY SettledFacts DEF Settled
<1>2. CASE runs' = Settled
  BY <1>1, <1>2 DEF WorkerEdge
<1>3. CASE /\ Settled[r].state = "offered" /\ Settled[r].worker = w
           /\ runs' = [Settled EXCEPT ![r] = ReturnPending(Settled[r])]
  <2>. HIDE DEF Settled
  <2>1. Settled[r] \in Runs
    BY <1>1
  <2>. QED
    BY <1>1, <1>3, <2>1, ReturnPendingFacts DEF WorkerEdge
<1>4. CASE /\ Settled[r].state \in Unfinished /\ Settled[r].worker = w
           /\ runs' = [Settled EXCEPT ![r].state = outcome]
  <2>. HIDE DEF Settled
  <2>. QED
    BY <1>1, <1>4, FieldUpdate DEF WorkerEdge
<1>5. Holds(Settled, w, r, offer) /\ Settled[r].state \notin TERMINAL
        => Settled[r].state \in Unfinished /\ Settled[r].worker = w
  BY <1>1 DEF Holds, Runs
<1>. QED
  BY <1>2, <1>3, <1>4, <1>5 DEF Finish

\* The requests of a worker, whatever it says it has seen, skips or reports: the
\* theorems hold of every client, also of those that other modules compose with
\* the service.
WorkerRequest(w) ==
    \/ WorkerStep(w)
    \/ \E seen, skip : Pull(w, seen, skip)
    \/ \E r \in RunIds, offer \in Offers, outcome \in TERMINAL : Finish(w, r, offer, outcome)

ServiceNext == \/ Tick
               \/ ServiceRestart
               \/ \E t \in TaskIds : ManageTask(t)
               \/ \E w \in Workers : WorkerRequest(w)

LEMMA SpecSteps == Spec => Init /\ [][ServiceNext]_vars
<1>1. [Next]_vars => [ServiceNext]_vars
  BY DEF Next, ServiceNext, WorkerRequest
<1>. QED
  BY <1>1, PTL DEF Spec

LEMMA WorkerEdges ==
    ASSUME TypeOK, NEW w \in Workers, WorkerRequest(w)
    PROVE  /\ runs' \in [RunIds -> Runs]
           /\ UNCHANGED management
           /\ workers' \in [Workers -> Reports]
           /\ alive' \subseteq Workers
           /\ \/ runs' = runs
              \/ WorkerEdge(w, Settled)
              \/ \E ws : runs' = ReconcileAll(tasks, ws, Settled)
<1>1. Settled \in [RunIds -> Runs]
  BY SettledFacts DEF Settled
<1>2. ASSUME NEW report \in {"ready", "not_ready"}, Heartbeat(w, report)
      PROVE  /\ WorkerEdge(w, Settled) /\ runs' \in [RunIds -> Runs]
             /\ workers' \in [Workers -> Reports] /\ alive' \subseteq Workers
             /\ UNCHANGED management
  BY <1>1, <1>2 DEF Heartbeat, WorkerEdge, TypeOK, Reports
<1>3. CASE Offline(w)
  <2>1. ReconcileAll(tasks, workers', Settled) \in [RunIds -> Runs]
    BY <1>1, ReconcileAllEdge
  <2>. QED
    BY <1>3, <2>1 DEF Offline, TypeOK, Reports
<1>4. ASSUME NEW seen, NEW skip, Pull(w, seen, skip)
      PROVE  /\ WorkerEdge(w, Settled) /\ runs' \in [RunIds -> Runs]
             /\ UNCHANGED <<management, workers, alive>>
  BY <1>4, PullEdge DEF Pull
<1>5. ASSUME NEW r \in RunIds, NEW offer \in Offers, Begin(w, r, offer)
      PROVE  /\ WorkerEdge(w, Settled) /\ runs' \in [RunIds -> Runs]
             /\ UNCHANGED <<management, workers, alive>>
  BY <1>5, BeginEdge DEF Begin
<1>6. CASE Valid(w)
  BY <1>1, <1>6 DEF Valid, WorkerEdge, TypeOK
<1>7. ASSUME NEW r \in RunIds, NEW offer \in Offers, NEW outcome \in TERMINAL,
             Finish(w, r, offer, outcome)
      PROVE  /\ WorkerEdge(w, Settled) /\ runs' \in [RunIds -> Runs]
             /\ UNCHANGED <<management, workers, alive>>
  BY <1>7, FinishEdge DEF Finish
<1>8. CASE LeaseExpires(w)
  BY <1>8 DEF LeaseExpires, TypeOK, Reports
<1>9. CASE ProcessDies(w)
  BY <1>9 DEF ProcessDies, TypeOK
<1>10. workers \in [Workers -> Reports] /\ alive \subseteq Workers
  BY DEF TypeOK
<1>11. Outcomes \subseteq TERMINAL
  BY ConstantsAreSane
<1>. QED
  BY <1>2, <1>3, <1>4, <1>5, <1>6, <1>7, <1>8, <1>9, <1>10, <1>11
  DEF WorkerRequest, WorkerStep, Pulls

LEMMA NextType == TypeOK /\ [ServiceNext]_vars => TypeOK'
<1>. SUFFICES ASSUME TypeOK, [ServiceNext]_vars PROVE TypeOK'
  OBVIOUS
<1>1. CASE Tick
  BY <1>1, TickType
<1>2. CASE ServiceRestart
  BY <1>2 DEF ServiceRestart, management, TypeOK, Reports
<1>3. ASSUME NEW t \in TaskIds, ManageTask(t) PROVE TypeOK'
  BY <1>3, ManageType
<1>4. ASSUME NEW w \in Workers, WorkerRequest(w) PROVE TypeOK'
  BY <1>4, WorkerEdges DEF management, TypeOK
<1>5. CASE UNCHANGED vars
  BY <1>5 DEF vars, TypeOK
<1>. QED
  BY <1>1, <1>2, <1>3, <1>4, <1>5 DEF ServiceNext

\* Every reachable state of the service is well typed: no handler puts a RUN,
\* a timer or a task in a state the other handlers do not know.
THEOREM TypeCorrect == Spec => []TypeOK
  BY InitType, NextType, SpecSteps, PTL

-----------------------------------------------------------------------------
(* The invariant, for any journal rs in place of runs.                     *)

OneGrantIn(rs) ==
    \A r, q \in RunIds :
        rs[r].state \in Granted /\ rs[q].state \in Granted /\ rs[r].task = rs[q].task
        => r = q

GensIn(rs) == \A r \in RunIds : rs[r].state \in Unfinished => rs[r].gen <= gens[rs[r].task]

PausesIn(rs) ==
    \A r \in RunIds :
        /\ rs[r].state \in {"pending", "offered"}
        /\ rs[r].gen = gens[rs[r].task]
        /\ tasks[rs[r].task].saved
        => tasks[rs[r].task].enabled

PrefixIn(rs) == \A r \in RunIds : r >= nextRun => rs[r].state = "absent"

JournalInv(rs) == OneGrantIn(rs) /\ GensIn(rs) /\ PausesIn(rs) /\ PrefixIn(rs)

LEMMA IInvSplit ==
    /\ IInv <=> TypeOK /\ TimerMatchesTask /\ JournalInv(runs)
    /\ IInv' <=> TypeOK' /\ TimerMatchesTask' /\ JournalInv(runs)'
  BY DEF IInv, JournalInv, OneGrantIn, OneGrantPerTask, GensIn, NoFutureGen,
         PausesIn, PauseRevokes, PrefixIn, JournalIsPrefix, Live

\* Settling a journal keeps the invariant.
LEMMA SettleKeeps ==
    ASSUME NEW rs, NEW mid, JournalInv(rs),
           \A r \in RunIds : SettleEdge(rs[r], mid[r])
    PROVE  JournalInv(mid)
<1>1. \A r \in RunIds : mid[r].state \in Granted => mid[r] = rs[r]
  BY DEF SettleEdge
<1>2. \A r \in RunIds : mid[r].state \in Unfinished =>
        /\ rs[r].state \in Unfinished
        /\ mid[r].task = rs[r].task /\ mid[r].gen = rs[r].gen
        /\ mid[r].state \in {"pending", "offered"} => rs[r].state \in {"pending", "offered"}
  BY DEF SettleEdge, Unfinished, Granted
<1>3. \A r \in RunIds : rs[r].state = "absent" => mid[r].state = "absent"
  BY DEF SettleEdge
<1>4. OneGrantIn(mid)
  BY <1>1 DEF JournalInv, OneGrantIn
<1>5. GensIn(mid)
  BY <1>2 DEF JournalInv, GensIn
<1>6. PausesIn(mid)
  BY <1>2 DEF JournalInv, PausesIn, Unfinished
<1>7. PrefixIn(mid)
  BY <1>3 DEF JournalInv, PrefixIn
<1>. QED
  BY <1>4, <1>5, <1>6, <1>7 DEF JournalInv

LEMMA SettledKeeps ==
    ASSUME TypeOK, JournalInv(runs)
    PROVE  Settled \in [RunIds -> Runs] /\ JournalInv(Settled)
  BY SettledFacts, SettleKeeps DEF Settled

\* A worker's request keeps the invariant of the settled journal.
LEMMA WorkerKeeps ==
    ASSUME NEW w, NEW mid \in [RunIds -> Runs], JournalInv(mid), WorkerEdge(w, mid)
    PROVE  JournalInv(runs')
<1>1. CASE runs' = mid
  BY <1>1
<1>2. ASSUME NEW r \in RunIds,
             \A q \in RunIds \ {r} : runs'[q] = mid[q],
             runs'[r].task = mid[r].task, runs'[r].gen = mid[r].gen,
             \/ /\ mid[r].state = "pending" /\ ~Occupied(mid, mid[r].task)
                /\ runs'[r].state = "offered"
             \/ mid[r].state \in Granted /\ runs'[r].state = "running"
             \/ mid[r].state = "offered" /\ runs'[r].state = "pending"
             \/ mid[r].state \in Unfinished /\ runs'[r].state \in TERMINAL
      PROVE  JournalInv(runs')
  <2>1. OneGrantIn(runs')
    <3>1. ASSUME runs'[r].state \in Granted
          PROVE  \/ mid[r].state \in Granted
                 \/ \A q \in RunIds : ~(mid[q].state \in Granted /\ mid[q].task = mid[r].task)
      BY <1>2, <3>1 DEF Granted, TERMINAL, Occupied
    <3>. QED
      BY <1>2, <3>1 DEF JournalInv, OneGrantIn
  <2>2. mid[r].state \in Unfinished
    BY <1>2 DEF Unfinished, Granted
  <2>3. GensIn(runs')
    BY <1>2, <2>2 DEF JournalInv, GensIn
  <2>4. PausesIn(runs')
    <3>1. runs'[r].state \in {"pending", "offered"} => mid[r].state \in {"pending", "offered"}
      BY <1>2 DEF TERMINAL
    <3>. QED
      BY <1>2, <3>1 DEF JournalInv, PausesIn
  <2>5. PrefixIn(runs')
    BY <1>2, <2>2 DEF JournalInv, PrefixIn, Unfinished
  <2>. QED
    BY <2>1, <2>3, <2>4, <2>5 DEF JournalInv
<1>. QED
  BY <1>1, <1>2 DEF WorkerEdge

LEMMA InitInv == Init => IInv
<1>. SUFFICES ASSUME Init PROVE IInv
  OBVIOUS
<1>1. TypeOK
  BY InitType
<1>2. TimerMatchesTask
  BY DEF Init, TimerMatchesTask, NoTask
<1>3. \A r \in RunIds : runs[r].state = "absent"
  BY DEF Init, NoRun
<1>4. JournalInv(runs)
  BY <1>3 DEF JournalInv, OneGrantIn, GensIn, PausesIn, PrefixIn, Granted, Unfinished
<1>. QED
  BY <1>1, <1>2, <1>4, IInvSplit

\* The journal of a request that leaves runs, nextRun and the generations of
\* other numbers alone: the generation of t may only grow, and t is not left
\* saved and disabled under an old generation.
LEMMA ManagementKeeps ==
    ASSUME TypeOK, TypeOK', JournalInv(runs), NEW t \in TaskIds,
           runs' = runs, nextRun' = nextRun,
           \A u \in TaskIds \ {t} : gens'[u] = gens[u] /\ tasks'[u] = tasks[u],
           \/ gens'[t] = gens[t] + 1
           \/ gens'[t] = gens[t] /\ (tasks'[t].saved => tasks'[t].enabled)
    PROVE  JournalInv(runs)'
<1>1. OneGrantIn(runs)' /\ PrefixIn(runs)'
  BY DEF JournalInv, OneGrantIn, PrefixIn
<1>2. \A r \in RunIds : /\ runs[r].task \in TaskIds /\ runs[r].gen \in Nat
  BY ConstantsAreSane DEF TypeOK, Runs, Gens
<1>3. \A u \in TaskIds : gens[u] \in Nat /\ gens'[u] \in Nat
  BY ConstantsAreSane DEF TypeOK, Gens
<1>4. \A r \in RunIds : runs[r].state \in Unfinished => runs[r].gen <= gens[runs[r].task]
  BY DEF JournalInv, GensIn
<1>5. GensIn(runs)'
  BY <1>2, <1>3, <1>4 DEF GensIn
<1>6. ASSUME NEW r \in RunIds, runs[r].state \in {"pending", "offered"},
             runs[r].gen = gens'[runs[r].task], tasks'[runs[r].task].saved
      PROVE  tasks'[runs[r].task].enabled
  <2>1. CASE runs[r].task # t
    BY <1>2, <1>6, <2>1 DEF JournalInv, PausesIn
  <2>2. CASE runs[r].task = t /\ gens'[t] = gens[t] + 1
    BY <1>2, <1>3, <1>4, <1>6, <2>2 DEF Unfinished
  <2>3. CASE runs[r].task = t /\ gens'[t] = gens[t]
    BY <1>3, <1>6, <2>3
  <2>. QED
    BY <2>1, <2>2, <2>3
<1>7. PausesIn(runs)'
  BY <1>6 DEF PausesIn
<1>. QED
  BY <1>1, <1>5, <1>7 DEF JournalInv

\* After a pause no unstarted RUN of the paused generation is left: settling
\* under the disabled task cancels it.
LEMMA PauseKeeps ==
    ASSUME TypeOK, TypeOK', JournalInv(runs), NEW t \in TaskIds, PauseTask(t)
    PROVE  JournalInv(runs)'
<1>. DEFINE mid == ReconcileAll(tasks', workers, runs)
<1>1. /\ runs' = mid /\ gens' = gens /\ nextRun' = nextRun
      /\ \A u \in TaskIds \ {t} : tasks'[u] = tasks[u]
      /\ ~tasks'[t].enabled
  BY DEF PauseTask, SetEnabled, TypeOK, Tasks
<1>2. /\ mid \in [RunIds -> Runs]
      /\ \A r \in RunIds : SettleEdge(runs[r], mid[r])
  BY SettledFacts
<1>3. JournalInv(mid)
  BY <1>2, SettleKeeps
<1>4. ASSUME NEW r \in RunIds, mid[r].state \in {"pending", "offered"}
      PROVE  mid[r].task # t
  <2>1. /\ mid[r].task = runs[r].task
        /\ runs[r].state \in {"pending", "offered"}
    BY <1>2, <1>4 DEF SettleEdge, Granted
  <2>2. CASE runs[r].task = t
    <3>1. ~Current(tasks', runs[r])
      BY <1>1, <2>2 DEF Current
    <3>2. Reconcile(tasks', workers, runs[r]).state = "cancelled"
      BY <2>1, <3>1 DEF Reconcile, TypeOK, Runs
    <3>3. mid[r] \in {Reconcile(tasks', workers, runs[r]), NoRun}
      BY DEF ReconcileAll, Prune
    <3>. QED
      BY <1>4, <3>2, <3>3 DEF NoRun
  <2>. QED
    BY <2>1, <2>2
<1>5. \A r \in RunIds : mid[r].task \in TaskIds
  BY <1>2 DEF Runs
<1>. HIDE DEF mid
<1>6. PausesIn(runs)'
  BY <1>1, <1>3, <1>4, <1>5 DEF JournalInv, PausesIn
<1>7. OneGrantIn(runs)' /\ GensIn(runs)' /\ PrefixIn(runs)'
  BY <1>1, <1>3 DEF JournalInv, OneGrantIn, GensIn, PrefixIn
<1>. QED
  BY <1>6, <1>7 DEF JournalInv

\* Queueing one RUN of an enabled task at the next place.
LEMMA QueueKeeps ==
    ASSUME TypeOK, JournalInv(runs), NEW t \in TaskIds, QueueEvent(t)
    PROVE  JournalInv(runs)'
<1>1. /\ runs' = [runs EXCEPT ![nextRun] = NewRun(t, FALSE)]
      /\ nextRun' = nextRun + 1 /\ gens' = gens /\ tasks' = tasks
      /\ tasks[t].enabled
  BY DEF QueueEvent
<1>2. /\ NewRun(t, FALSE).state = "pending" /\ NewRun(t, FALSE).task = t
      /\ NewRun(t, FALSE).gen = gens[t]
  BY NewRunType
<1>3. \A r \in RunIds : runs'[r] = IF r = nextRun THEN NewRun(t, FALSE) ELSE runs[r]
  BY <1>1 DEF TypeOK
<1>4. gens[t] \in Int /\ nextRun \in Int
  BY ConstantsAreSane DEF TypeOK, Gens
<1>. HIDE DEF NewRun
<1>5. OneGrantIn(runs)'
  <2>1. \A r \in RunIds : runs'[r].state \in Granted => runs'[r] = runs[r]
    BY <1>2, <1>3 DEF Granted
  <2>. QED
    BY <2>1 DEF JournalInv, OneGrantIn
<1>6. \A r \in RunIds : r = nextRun => runs'[r].task = t /\ runs'[r].gen = gens[t]
  BY <1>2, <1>3
<1>7. \A r \in RunIds : r # nextRun => runs'[r] = runs[r]
  BY <1>3
<1>8. GensIn(runs)'
  <2>1. gens[t] <= gens[t]
    BY <1>4
  <2>. QED
    BY <1>1, <1>6, <1>7, <2>1 DEF JournalInv, GensIn
<1>9. PausesIn(runs)'
  BY <1>1, <1>6, <1>7 DEF JournalInv, PausesIn
<1>10. PrefixIn(runs)'
  <2>1. \A r \in RunIds : r >= nextRun + 1 => r >= nextRun /\ r # nextRun
    BY <1>4 DEF RunIds
  <2>. QED
    BY <1>1, <1>7, <2>1 DEF JournalInv, PrefixIn
<1>. QED
  BY <1>5, <1>8, <1>9, <1>10 DEF JournalInv

LEMMA TickKeeps ==
    ASSUME TypeOK, TimerMatchesTask, JournalInv(runs), Tick
    PROVE  JournalInv(runs)'
<1>1. PICK n \in Nat :
        /\ nextRun' = nextRun + n
        /\ \A r \in RunIds : r \in nextRun..(nextRun + n - 1) =>
               \E t \in Due : ~Coalesced(Settled, t) /\ runs'[r] = NewRun(t, TRUE)
        /\ \A r \in RunIds \ (nextRun..(nextRun + n - 1)) : runs'[r] = Settled[r]
  BY TickFacts
<1>2. gens' = gens /\ tasks' = tasks
  BY DEF Tick
<1>3. JournalInv(Settled)
  BY SettledKeeps
<1>4. ASSUME NEW r \in RunIds, runs'[r] # Settled[r]
      PROVE  /\ runs'[r].state = "pending" /\ runs'[r].task \in TaskIds
             /\ tasks[runs'[r].task].enabled
             /\ runs'[r].gen = gens[runs'[r].task]
             /\ r < nextRun + n
  <2>1. r \in nextRun..(nextRun + n - 1)
    BY <1>1, <1>4
  <2>2. PICK t \in Due : runs'[r] = NewRun(t, TRUE)
    BY <1>1, <2>1
  <2>3. t \in TaskIds /\ tasks[t].enabled
    BY <2>2 DEF Due, TimerMatchesTask
  <2>4. r < nextRun + n
    BY <2>1 DEF TypeOK
  <2>. QED
    <3>1. /\ NewRun(t, TRUE).state = "pending" /\ NewRun(t, TRUE).task = t
          /\ NewRun(t, TRUE).gen = gens[t]
      BY <2>3, NewRunType
    <3>. QED
      BY <2>2, <2>3, <2>4, <3>1
<1>5. OneGrantIn(runs)'
  <2>1. \A r \in RunIds : runs'[r].state \in Granted => runs'[r] = Settled[r]
    BY <1>4 DEF Granted
  <2>. QED
    BY <1>3, <2>1 DEF JournalInv, OneGrantIn
<1>6. \A t \in TaskIds : gens[t] <= gens[t]
  BY ConstantsAreSane DEF TypeOK, Gens
<1>7. GensIn(runs)'
  BY <1>2, <1>3, <1>4, <1>6 DEF JournalInv, GensIn
<1>8. PausesIn(runs)'
  BY <1>2, <1>3, <1>4 DEF JournalInv, PausesIn
<1>9. PrefixIn(runs)'
  <2>1. \A r \in RunIds : r >= nextRun + n => r >= nextRun /\ ~(r < nextRun + n)
    <3>1. nextRun \in Int /\ RunIds \subseteq Int
      BY DEF RunIds, TypeOK
    <3>. QED
      BY <3>1
  <2>2. \A r \in RunIds : r >= nextRun + n => runs'[r] = Settled[r]
    BY <1>4, <2>1
  <2>. QED
    BY <1>1, <1>3, <2>1, <2>2 DEF JournalInv, PrefixIn
<1>. QED
  BY <1>5, <1>7, <1>8, <1>9 DEF JournalInv

LEMMA SetEnabledFacts ==
    ASSUME TypeOK, TimerMatchesTask, NEW t \in TaskIds, NEW enabled \in BOOLEAN,
           SetEnabled(t, enabled)
    PROVE  /\ TimerMatchesTask'
           /\ \A u \in TaskIds \ {t} : tasks'[u] = tasks[u]
           /\ tasks'[t].saved /\ tasks'[t].enabled = enabled
           /\ nextRun' = nextRun
<1>1. /\ tasks' = [tasks EXCEPT ![t].enabled = enabled]
      /\ timers' = IF tasks[t].periodic
                   THEN [timers EXCEPT ![t] = ArmedIf(enabled)] ELSE timers
      /\ tasks[t].saved /\ nextRun' = nextRun
  BY DEF SetEnabled
<1>2. /\ \A u \in TaskIds \ {t} : tasks'[u] = tasks[u] /\ timers'[u] = timers[u]
      /\ tasks'[t].saved = tasks[t].saved /\ tasks'[t].periodic = tasks[t].periodic
      /\ tasks'[t].enabled = enabled
      /\ timers'[t] = IF tasks[t].periodic THEN ArmedIf(enabled) ELSE timers[t]
  BY <1>1 DEF TypeOK, Tasks
<1>3. TimerMatchesTask'
  <2>1. ASSUME NEW u \in TaskIds
        PROVE  /\ timers'[u] = "none" <=> ~(tasks'[u].saved /\ tasks'[u].periodic)
               /\ timers'[u] \in {"armed", "due"}
                    <=> tasks'[u].saved /\ tasks'[u].periodic /\ tasks'[u].enabled
    <3>1. CASE u # t
      BY <1>2, <3>1 DEF TimerMatchesTask
    <3>2. CASE u = t /\ tasks[t].periodic
      BY <1>1, <1>2, <3>2 DEF ArmedIf
    <3>3. CASE u = t /\ ~tasks[t].periodic
      BY <1>1, <1>2, <3>3 DEF TimerMatchesTask
    <3>. QED
      BY <3>1, <3>2, <3>3
  <2>. QED
    BY <2>1 DEF TimerMatchesTask
<1>. QED
  BY <1>1, <1>2, <1>3

LEMMA FreshGenFacts ==
    ASSUME TypeOK, NEW t \in TaskIds, FreshGen(t)
    PROVE  /\ gens'[t] = gens[t] + 1
           /\ \A u \in TaskIds \ {t} : gens'[u] = gens[u]
  BY DEF FreshGen, TypeOK

LEMMA ManageInv ==
    ASSUME IInv, NEW t \in TaskIds, ManageTask(t)
    PROVE  IInv'
<1>. SUFFICES TimerMatchesTask' /\ JournalInv(runs)'
  BY IInvSplit, ManageType
<1>1. TypeOK /\ TypeOK' /\ TimerMatchesTask /\ JournalInv(runs)
  BY IInvSplit, ManageType
<1>2. ASSUME NEW policy \in Policies, NEW periodic \in Periods, NEW enabled \in BOOLEAN,
             CreateTask(t, policy, periodic, enabled)
      PROVE  TimerMatchesTask' /\ JournalInv(runs)'
  <2>1. TimerMatchesTask'
    BY <1>1, <1>2 DEF CreateTask, TimerMatchesTask, ArmedIf, TypeOK
  <2>2. \A u \in TaskIds \ {t} : tasks'[u] = tasks[u]
    BY <1>2 DEF CreateTask
  <2>3. runs' = runs /\ nextRun' = nextRun /\ FreshGen(t)
    BY <1>2 DEF CreateTask
  <2>. QED
    BY <1>1, <2>1, <2>2, <2>3, FreshGenFacts, ManagementKeeps
<1>3. CASE StartTask(t)
  <2>1. SetEnabled(t, TRUE) /\ FreshGen(t) /\ runs' = runs
    BY <1>3 DEF StartTask
  <2>. QED
    BY <1>1, <2>1, SetEnabledFacts, FreshGenFacts, ManagementKeeps
<1>4. CASE StopTask(t)
  <2>1. SetEnabled(t, FALSE) /\ FreshGen(t) /\ runs' = runs
    BY <1>4 DEF StopTask
  <2>. QED
    BY <1>1, <2>1, SetEnabledFacts, FreshGenFacts, ManagementKeeps
<1>5. CASE ResumeTask(t)
  <2>1. SetEnabled(t, TRUE) /\ gens' = gens /\ runs' = runs
    BY <1>5 DEF ResumeTask
  <2>. QED
    BY <1>1, <2>1, SetEnabledFacts, ManagementKeeps
<1>6. CASE PauseTask(t)
  <2>1. SetEnabled(t, FALSE)
    BY <1>6 DEF PauseTask
  <2>. QED
    BY <1>1, <1>6, <2>1, SetEnabledFacts, PauseKeeps
<1>7. CASE SetTimerPeriod(t)
  <2>1. /\ tasks' = tasks /\ runs' = runs /\ nextRun' = nextRun /\ FreshGen(t)
        /\ tasks[t].saved /\ tasks[t].periodic
        /\ timers' = [timers EXCEPT ![t] = ArmedIf(tasks[t].enabled)]
    BY <1>7 DEF SetTimerPeriod
  <2>2. TimerMatchesTask'
    BY <1>1, <2>1 DEF TimerMatchesTask, ArmedIf, TypeOK
  <2>. QED
    BY <1>1, <2>1, <2>2, FreshGenFacts, ManagementKeeps
<1>8. ASSUME NEW policy \in Policies, SetExecutor(t, policy)
      PROVE  TimerMatchesTask' /\ JournalInv(runs)'
  <2>1. /\ tasks' = [tasks EXCEPT ![t].policy = policy] /\ timers' = timers
        /\ runs' = runs /\ nextRun' = nextRun /\ FreshGen(t)
    BY <1>8 DEF SetExecutor
  <2>2. \A u \in TaskIds : /\ u # t => tasks'[u] = tasks[u]
                           /\ tasks'[u].saved = tasks[u].saved
                           /\ tasks'[u].periodic = tasks[u].periodic
                           /\ tasks'[u].enabled = tasks[u].enabled
    BY <1>1, <2>1 DEF TypeOK, Tasks
  <2>3. TimerMatchesTask'
    BY <1>1, <2>1, <2>2 DEF TimerMatchesTask
  <2>. QED
    BY <1>1, <2>1, <2>2, <2>3, FreshGenFacts, ManagementKeeps
<1>9. CASE DeleteTask(t)
  <2>1. /\ tasks' = [tasks EXCEPT ![t] = NoTask]
        /\ timers' = [timers EXCEPT ![t] = "none"]
        /\ runs' = runs /\ nextRun' = nextRun /\ gens' = gens
    BY <1>9 DEF DeleteTask
  <2>2. /\ ~tasks'[t].saved /\ timers'[t] = "none"
        /\ \A u \in TaskIds \ {t} : tasks'[u] = tasks[u] /\ timers'[u] = timers[u]
    BY <1>1, <2>1 DEF TypeOK, NoTask
  <2>3. TimerMatchesTask'
    BY <1>1, <2>2 DEF TimerMatchesTask
  <2>. QED
    BY <1>1, <2>1, <2>2, <2>3, ManagementKeeps
<1>10. CASE QueueEvent(t)
  <2>1. TimerMatchesTask'
    BY <1>1, <1>10 DEF QueueEvent, TimerMatchesTask
  <2>. QED
    BY <1>1, <1>10, <2>1, QueueKeeps
<1>11. CASE TimerComesDue(t)
  <2>1. /\ timers[t] = "armed" /\ timers' = [timers EXCEPT ![t] = "due"]
        /\ tasks' = tasks /\ gens' = gens /\ runs' = runs /\ nextRun' = nextRun
    BY <1>11 DEF TimerComesDue
  <2>2. TimerMatchesTask'
    BY <1>1, <2>1 DEF TimerMatchesTask, TypeOK
  <2>3. JournalInv(runs)'
    BY <1>1, <2>1 DEF JournalInv, OneGrantIn, GensIn, PausesIn, PrefixIn
  <2>. QED
    BY <1>1, <2>2, <2>3
<1>. QED
  BY <1>1, <1>2, <1>3, <1>4, <1>5, <1>6, <1>7, <1>8, <1>9, <1>10, <1>11 DEF ManageTask

LEMMA WorkerInv ==
    ASSUME IInv, NEW w \in Workers, WorkerRequest(w)
    PROVE  IInv'
<1>1. TypeOK /\ TimerMatchesTask /\ JournalInv(runs)
  BY IInvSplit
<1>2. /\ UNCHANGED management
      /\ \/ runs' = runs
         \/ WorkerEdge(w, Settled)
         \/ \E ws : runs' = ReconcileAll(tasks, ws, Settled)
  BY <1>1, WorkerEdges
<1>3. Settled \in [RunIds -> Runs] /\ JournalInv(Settled)
  BY <1>1, SettledKeeps
<1>4. JournalInv(runs')
  <2>1. CASE WorkerEdge(w, Settled)
    BY <1>3, <2>1, WorkerKeeps
  <2>2. ASSUME NEW ws, runs' = ReconcileAll(tasks, ws, Settled) PROVE JournalInv(runs')
    <3>1. \A r \in RunIds : SettleEdge(Settled[r], runs'[r])
      BY <1>3, <2>2, ReconcileAllEdge
    <3>. QED
      BY <1>3, <3>1, SettleKeeps
  <2>. QED
    BY <1>1, <1>2, <2>1, <2>2
<1>5. JournalInv(runs)'
  BY <1>2, <1>4
  DEF management, JournalInv, OneGrantIn, GensIn, PausesIn, PrefixIn
<1>6. TimerMatchesTask'
  BY <1>1, <1>2 DEF management, TimerMatchesTask
<1>7. TypeOK'
  BY <1>1, NextType DEF ServiceNext
<1>. QED
  BY <1>5, <1>6, <1>7, IInvSplit

LEMMA NextInv == IInv /\ [ServiceNext]_vars => IInv'
<1>. SUFFICES ASSUME IInv, [ServiceNext]_vars PROVE IInv'
  OBVIOUS
<1>1. TypeOK /\ TimerMatchesTask /\ JournalInv(runs) /\ TypeOK'
  BY IInvSplit, NextType
<1>2. CASE Tick
  <2>1. JournalInv(runs)'
    BY <1>1, <1>2, TickKeeps
  <2>2. \A t \in TaskIds : timers'[t] = IF timers[t] = "due" THEN "armed" ELSE timers[t]
    BY <1>2 DEF Tick, Due
  <2>3. TimerMatchesTask'
    BY <1>1, <1>2, <2>2 DEF Tick, TimerMatchesTask
  <2>. QED
    BY <1>1, <2>1, <2>3, IInvSplit
<1>3. CASE ServiceRestart \/ UNCHANGED vars
  <2>1. UNCHANGED <<management, runs>>
    BY <1>3 DEF ServiceRestart, vars, management
  <2>2. JournalInv(runs)' /\ TimerMatchesTask'
    BY <1>1, <2>1 DEF management, JournalInv, OneGrantIn, GensIn, PausesIn, PrefixIn,
                      TimerMatchesTask
  <2>. QED
    BY <1>1, <2>2, IInvSplit
<1>4. ASSUME NEW t \in TaskIds, ManageTask(t) PROVE IInv'
  BY <1>4, ManageInv
<1>5. ASSUME NEW w \in Workers, WorkerRequest(w) PROVE IInv'
  BY <1>5, WorkerInv
<1>. QED
  BY <1>2, <1>3, <1>4, <1>5 DEF ServiceNext

\* The inductive invariant: types, one grant per task number, timers that match
\* their tasks, a journal filled from the front, no generation ahead of its
\* task, and no unstarted RUN of a paused generation.
THEOREM Invariance == Spec => []IInv
  BY InitInv, NextInv, SpecSteps, PTL

\* At no time do two RUNs of one task number hold a grant, for any number of
\* tasks, RUNs and CORE processes.
THEOREM OneGrant == Spec => []OneGrantPerTask
<1>1. IInv => OneGrantPerTask
  BY DEF IInv
<1>. QED
  BY <1>1, Invariance, PTL

\* poll_due never meets an armed timer whose task is gone or disabled.
THEOREM TimersMatch == Spec => []TimerMatchesTask
<1>1. IInv => TimerMatchesTask
  BY DEF IInv
<1>. QED
  BY <1>1, Invariance, PTL

\* A pause that keeps the generation leaves no unstarted RUN for a resume.
THEOREM PauseRevokesProved == Spec => []PauseRevokes
<1>1. IInv => PauseRevokes
  BY DEF IInv
<1>. QED
  BY <1>1, Invariance, PTL

-----------------------------------------------------------------------------
(* No replay: the only steps out of "running" end the RUN.                 *)

\* From a to b nothing that began is queued again.
Forward(a, b) ==
    /\ a.state = "running" => b = a \/ b.state \in TERMINAL \cup {"absent"}
    /\ a.state \in TERMINAL => b.state \in {a.state, "absent"}
    /\ a.state = "absent" => b.state = "absent"

LEMMA SettleForward ==
    ASSUME NEW a, NEW b, SettleEdge(a, b)
    PROVE  Forward(a, b)
  BY DEF SettleEdge, Forward, TERMINAL

LEMMA ForwardTransitive ==
    ASSUME NEW a, NEW b, NEW c, Forward(a, b), Forward(b, c)
    PROVE  Forward(a, c)
  BY DEF Forward, TERMINAL

LEMMA WorkerForward ==
    ASSUME NEW w, NEW mid \in [RunIds -> Runs], runs' \in [RunIds -> Runs], WorkerEdge(w, mid)
    PROVE  \A r \in RunIds : Forward(mid[r], runs'[r])
<1>1. CASE runs' = mid
  BY <1>1 DEF Forward, TERMINAL
<1>2. ASSUME NEW r \in RunIds,
             \A q \in RunIds \ {r} : runs'[q] = mid[q],
             \A f \in {"task", "gen", "timer", "policy"} : runs'[r][f] = mid[r][f],
             \/ /\ mid[r].state = "pending"
                /\ runs'[r].state = "offered"
             \/ /\ mid[r].state \in Granted
                /\ runs'[r].state = "running"
                /\ runs'[r].worker = mid[r].worker /\ runs'[r].offer = mid[r].offer
                /\ runs'[r].grants = mid[r].grants
             \/ mid[r].state = "offered" /\ runs'[r].state = "pending"
             \/ mid[r].state \in Unfinished /\ runs'[r].state \in TERMINAL
      PROVE  \A q \in RunIds : Forward(mid[q], runs'[q])
  <2>1. CASE /\ mid[r].state = "running" /\ runs'[r].state = "running"
             /\ runs'[r].worker = mid[r].worker /\ runs'[r].offer = mid[r].offer
             /\ runs'[r].grants = mid[r].grants
    <3>1. runs'[r] = mid[r]
      <4>1. runs'[r] \in Runs /\ mid[r] \in Runs
        OBVIOUS
      <4>2. /\ runs'[r].task = mid[r].task /\ runs'[r].gen = mid[r].gen
            /\ runs'[r].timer = mid[r].timer /\ runs'[r].policy = mid[r].policy
        BY <1>2
      <4>. QED
        BY <2>1, <4>1, <4>2 DEF Runs
    <3>. QED
      BY <1>2, <3>1 DEF Forward
  <2>2. CASE mid[r].state # "running" \/ runs'[r].state # "running"
    <3>1. Forward(mid[r], runs'[r])
      BY <1>2, <2>2 DEF Forward, Granted, Unfinished, TERMINAL
    <3>2. \A q \in RunIds \ {r} : Forward(mid[q], runs'[q])
      BY <1>2 DEF Forward, TERMINAL
    <3>. QED
      BY <3>1, <3>2
  <2>. QED
    BY <1>2, <2>1, <2>2 DEF Granted, TERMINAL
<1>. QED
  BY <1>1, <1>2 DEF WorkerEdge

\* Every step moves each queued RUN forward.
LEMMA NextForward ==
    ASSUME IInv, [ServiceNext]_vars
    PROVE  \A r \in RunIds : r < nextRun => Forward(runs[r], runs'[r])
<1>1. TypeOK /\ TypeOK'
  BY NextType DEF IInv
<1>2. \A r \in RunIds : Forward(runs[r], runs[r])
  BY DEF Forward, TERMINAL
<1>3. /\ Settled \in [RunIds -> Runs]
      /\ \A r \in RunIds : Forward(runs[r], Settled[r])
  BY <1>1, SettledFacts, SettleForward DEF Settled
<1>4. CASE Tick
  <2>1. PICK n \in Nat :
          \A r \in RunIds \ (nextRun..(nextRun + n - 1)) : runs'[r] = Settled[r]
    BY <1>1, <1>4, TickFacts
  <2>2. nextRun \in Int
    BY <1>1 DEF TypeOK
  <2>3. \A r \in RunIds : r < nextRun => r \notin nextRun..(nextRun + n - 1)
    BY <2>2 DEF RunIds
  <2>. QED
    BY <1>3, <2>1, <2>3
<1>5. CASE ServiceRestart \/ UNCHANGED vars
  BY <1>2, <1>5 DEF ServiceRestart, vars
<1>6. ASSUME NEW t \in TaskIds, ManageTask(t)
      PROVE  \A r \in RunIds : r < nextRun => Forward(runs[r], runs'[r])
  <2>1. CASE PauseTask(t)
    <3>1. \A r \in RunIds : SettleEdge(runs[r], runs'[r])
      BY <1>1, <2>1, SettledFacts DEF PauseTask
    <3>. QED
      BY <3>1, SettleForward
  <2>2. CASE QueueEvent(t)
    <3>1. nextRun \in Int
      BY <1>1 DEF TypeOK
    <3>2. \A r \in RunIds : r < nextRun => r # nextRun
      BY <3>1 DEF RunIds
    <3>3. \A r \in RunIds : r # nextRun => runs'[r] = runs[r]
      BY <1>1, <2>2 DEF QueueEvent, TypeOK
    <3>. QED
      BY <1>2, <3>2, <3>3
  <2>3. CASE runs' = runs
    BY <1>2, <2>3
  <2>. QED
    BY <1>6, <2>1, <2>2, <2>3
    DEF ManageTask, CreateTask, StartTask, StopTask, ResumeTask, SetTimerPeriod,
        SetExecutor, DeleteTask, TimerComesDue
<1>7. ASSUME NEW w \in Workers, WorkerRequest(w)
      PROVE  \A r \in RunIds : Forward(runs[r], runs'[r])
  <2>1. CASE runs' = runs
    BY <1>2, <2>1
  <2>2. CASE WorkerEdge(w, Settled)
    BY <1>1, <1>3, <2>2, WorkerForward, ForwardTransitive DEF TypeOK
  <2>3. ASSUME NEW ws, runs' = ReconcileAll(tasks, ws, Settled)
        PROVE  \A r \in RunIds : Forward(runs[r], runs'[r])
    <3>1. \A r \in RunIds : Forward(Settled[r], runs'[r])
      BY <1>3, <2>3, ReconcileAllEdge, SettleForward
    <3>. QED
      BY <1>3, <3>1, ForwardTransitive
  <2>. QED
    BY <1>1, <1>7, <2>1, <2>2, <2>3, WorkerEdges
<1>. QED
  BY <1>4, <1>5, <1>6, <1>7 DEF ServiceNext

LEMMA NextRunGrows ==
    ASSUME IInv, IInv', [ServiceNext]_vars
    PROVE  nextRun \in Int /\ nextRun' \in Int /\ nextRun' >= nextRun
<1>1. TypeOK /\ TypeOK'
  BY DEF IInv
<1>2. nextRun \in Int /\ nextRun' \in Int
  BY <1>1 DEF TypeOK
<1>3. CASE Tick
  <2>1. PICK n \in Nat : nextRun' = nextRun + n
    BY <1>1, <1>3, TickFacts
  <2>. QED
    BY <1>2, <2>1
<1>4. ASSUME NEW w \in Workers, WorkerRequest(w) PROVE nextRun' = nextRun
  BY <1>1, <1>4, WorkerEdges DEF management
<1>5. CASE ServiceRestart \/ UNCHANGED vars
  BY <1>2, <1>5 DEF ServiceRestart, management, vars
<1>6. ASSUME NEW t \in TaskIds, ManageTask(t)
      PROVE  nextRun' = nextRun \/ nextRun' = nextRun + 1
  BY <1>6 DEF ManageTask, CreateTask, SetEnabled, StartTask, StopTask, ResumeTask,
              PauseTask, SetTimerPeriod, SetExecutor, DeleteTask, QueueEvent, TimerComesDue
<1>7. nextRun' = nextRun => nextRun' >= nextRun
  BY <1>2
<1>8. nextRun' = nextRun + 1 => nextRun' >= nextRun
  BY <1>2
<1>. QED
  BY <1>1, <1>2, <1>3, <1>4, <1>5, <1>6, <1>7, <1>8 DEF ServiceNext

\* Nothing that began is offered to a worker a second time, and a place of the
\* journal that was pruned stays empty, in every step of every behaviour.
THEOREM NoReplayProved == Spec => NoReplay
<1>1. ASSUME IInv, IInv', [ServiceNext]_vars
      PROVE  [\A r \in RunIds :
                /\ runs[r].state = "running" =>
                    \/ runs'[r] = runs[r]
                    \/ runs'[r].state \in TERMINAL
                    \/ runs'[r].state = "absent" /\ nextRun' > r
                /\ runs[r].state \in TERMINAL => runs'[r].state \in {runs[r].state, "absent"}
                /\ runs[r].state = "absent" /\ r < nextRun => runs'[r].state = "absent"]_vars
  <2>1. \A r \in RunIds : runs[r].state # "absent" => r < nextRun
    BY <1>1 DEF IInv, JournalIsPrefix, TypeOK, RunIds
  <2>2. nextRun \in Int /\ nextRun' \in Int /\ nextRun' >= nextRun
    BY <1>1, NextRunGrows
  <2>3. \A r \in RunIds : r < nextRun => nextRun' > r
    BY <2>2 DEF RunIds
  <2>4. \A r \in RunIds : r < nextRun => Forward(runs[r], runs'[r])
    BY <1>1, NextForward
  <2>. QED
    BY <2>1, <2>3, <2>4 DEF Forward, TERMINAL
<1>. QED
  BY <1>1, Invariance, SpecSteps, PTL DEF NoReplay

-----------------------------------------------------------------------------
(* Revocation is final: generations only grow, and a number is given again  *)
(* under a new one.                                                         *)

LEMMA GensGrow ==
    ASSUME TypeOK, NEW t \in TaskIds, ManageTask(t)
    PROVE  \A u \in TaskIds :
             /\ gens'[u] = gens[u] \/ gens'[u] = gens[u] + 1
             /\ tasks'[u].saved /\ ~tasks[u].saved => gens'[u] = gens[u] + 1
<1>1. FreshGen(t) => /\ gens'[t] = gens[t] + 1
                     /\ \A u \in TaskIds \ {t} : gens'[u] = gens[u]
  BY FreshGenFacts
<1>2. CASE \E policy \in Policies, periodic \in Periods, enabled \in BOOLEAN :
             CreateTask(t, policy, periodic, enabled)
  <2>1. FreshGen(t) /\ \A u \in TaskIds \ {t} : tasks'[u] = tasks[u]
    BY <1>2 DEF CreateTask
  <2>. QED
    BY <1>1, <2>1
<1>3. ASSUME NEW enabled \in BOOLEAN, SetEnabled(t, enabled)
      PROVE  \A u \in TaskIds : tasks'[u].saved = tasks[u].saved
  BY <1>3 DEF SetEnabled, TypeOK, Tasks
<1>4. CASE \/ StartTask(t) \/ StopTask(t) \/ ResumeTask(t) \/ PauseTask(t)
  BY <1>1, <1>3, <1>4 DEF StartTask, StopTask, ResumeTask, PauseTask
<1>5. CASE SetTimerPeriod(t)
  BY <1>1, <1>5 DEF SetTimerPeriod
<1>6. CASE \E policy \in Policies : SetExecutor(t, policy)
  BY <1>1, <1>6 DEF SetExecutor, TypeOK, Tasks
<1>7. CASE DeleteTask(t)
  BY <1>7 DEF DeleteTask, NoTask, TypeOK
<1>8. CASE QueueEvent(t) \/ TimerComesDue(t)
  BY <1>8 DEF QueueEvent, TimerComesDue
<1>. QED
  BY <1>2, <1>4, <1>5, <1>6, <1>7, <1>8 DEF ManageTask

\* No management request makes a revoked RUN current again.
LEMMA StaysRevoked ==
    ASSUME IInv, NEW t \in TaskIds, ManageTask(t), NEW r \in RunIds,
           runs[r].state \in {"pending", "offered"}, ~Current(tasks, runs[r]),
           runs'[r] = runs[r]
    PROVE  ~Current(tasks, runs[r])'
<1>. DEFINE u == runs[r].task
<1>1. /\ u \in TaskIds /\ runs[r].gen \in Int
      /\ gens[u] \in Int /\ gens'[u] \in Int
  BY GensGrow DEF IInv, TypeOK, Runs, Gens
<1>2. runs[r].gen <= gens[u]
  BY DEF IInv, NoFutureGen, Live, Unfinished
<1>3. /\ gens'[u] = gens[u] \/ gens'[u] = gens[u] + 1
      /\ tasks'[u].saved /\ ~tasks[u].saved => gens'[u] = gens[u] + 1
  BY <1>1, GensGrow DEF IInv
<1>4. CASE runs[r].gen = gens[u]
  <2>1. ~tasks[u].saved
    BY <1>4 DEF IInv, PauseRevokes, Current
  <2>. QED
    BY <1>1, <1>3, <1>4, <2>1 DEF Current
<1>5. CASE runs[r].gen < gens[u]
  BY <1>1, <1>3, <1>5 DEF Current
<1>. QED
  BY <1>1, <1>2, <1>4, <1>5

\* Settling the journal cancels a revoked RUN, and pruning may remove it.
LEMMA RevokedSettle ==
    ASSUME NEW ts, NEW ws, NEW rs \in [RunIds -> Runs], NEW r \in RunIds,
           rs[r].state \in {"pending", "offered"}, ~Current(ts, rs[r])
    PROVE  ReconcileAll(ts, ws, rs)[r].state \in {"cancelled", "absent"}
<1>1. Reconcile(ts, ws, rs[r]).state = "cancelled"
  BY DEF Reconcile, Runs
<1>2. ReconcileAll(ts, ws, rs)[r] \in {Reconcile(ts, ws, rs[r]), NoRun}
  BY DEF ReconcileAll, Prune
<1>. QED
  BY <1>1, <1>2 DEF NoRun

\* A cancelled RUN stays cancelled until it is pruned.
LEMMA CancelledForward ==
    ASSUME NEW a, NEW b, Forward(a, b), a.state \in {"cancelled", "absent"}
    PROVE  b.state \in {"cancelled", "absent"}
  BY DEF Forward, TERMINAL

LEMMA NextRevoked ==
    ASSUME IInv, [ServiceNext]_vars, NEW r \in RunIds,
           runs[r].state \in {"pending", "offered"}, ~Current(tasks, runs[r])
    PROVE  \/ runs'[r].state \in {"pending", "offered"} /\ ~Current(tasks, runs[r])'
           \/ runs'[r].state \in {"cancelled", "absent"}
<1>1. TypeOK /\ runs \in [RunIds -> Runs] /\ nextRun \in Int /\ r < nextRun
  BY DEF IInv, TypeOK, JournalIsPrefix, RunIds
<1>2. /\ Settled \in [RunIds -> Runs]
      /\ Settled[r].state \in {"cancelled", "absent"}
  BY <1>1, SettledFacts, RevokedSettle DEF Settled
<1>3. CASE UNCHANGED <<tasks, gens, runs>>
  BY <1>3 DEF Current
<1>4. CASE Tick
  <2>1. PICK n \in Nat :
          \A q \in RunIds \ (nextRun..(nextRun + n - 1)) : runs'[q] = Settled[q]
    BY <1>1, <1>4, TickFacts
  <2>2. r \notin nextRun..(nextRun + n - 1)
    BY <1>1 DEF RunIds
  <2>. QED
    BY <1>2, <2>1, <2>2
<1>5. ASSUME NEW t \in TaskIds, ManageTask(t)
      PROVE  \/ runs'[r].state \in {"pending", "offered"} /\ ~Current(tasks, runs[r])'
             \/ runs'[r].state \in {"cancelled", "absent"}
  <2>1. CASE runs'[r] = runs[r]
    BY <1>5, <2>1, StaysRevoked
  <2>2. CASE PauseTask(t)
    <3>1. /\ runs' = ReconcileAll(tasks', workers, runs)
          /\ tasks' = [tasks EXCEPT ![t].enabled = FALSE]
      BY <2>2 DEF PauseTask, SetEnabled
    <3>2. ~Current(tasks', runs[r])
      BY <1>1, <3>1 DEF Current, TypeOK, Tasks
    <3>. QED
      BY <1>1, <3>1, <3>2, RevokedSettle
  <2>3. CASE QueueEvent(t)
    <3>1. r # nextRun
      BY <1>1 DEF RunIds
    <3>2. runs'[r] = runs[r]
      BY <1>1, <2>3, <3>1 DEF QueueEvent
    <3>. QED
      BY <2>1, <3>2
  <2>4. PauseTask(t) \/ QueueEvent(t) \/ runs' = runs
    BY <1>5 DEF ManageTask, CreateTask, StartTask, StopTask, ResumeTask, SetTimerPeriod,
                SetExecutor, DeleteTask, TimerComesDue
  <2>5. CASE runs' = runs
    BY <2>1, <2>5
  <2>. QED
    BY <2>2, <2>3, <2>4, <2>5
<1>6. ASSUME NEW w \in Workers, WorkerRequest(w)
      PROVE  \/ runs'[r].state \in {"pending", "offered"} /\ ~Current(tasks, runs[r])'
             \/ runs'[r].state \in {"cancelled", "absent"}
  <2>1. runs' \in [RunIds -> Runs] /\ UNCHANGED management
    BY <1>1, <1>6, WorkerEdges
  <2>2. CASE runs' = runs
    BY <1>3, <2>1, <2>2 DEF management
  <2>3. CASE WorkerEdge(w, Settled)
    BY <1>2, <2>1, <2>3, WorkerForward, CancelledForward
  <2>4. ASSUME NEW ws, runs' = ReconcileAll(tasks, ws, Settled)
        PROVE  runs'[r].state \in {"cancelled", "absent"}
    <3>1. Forward(Settled[r], runs'[r])
      BY <1>2, <2>4, ReconcileAllEdge, SettleForward
    <3>. QED
      BY <1>2, <3>1, CancelledForward
  <2>. QED
    BY <1>1, <1>6, <2>2, <2>3, <2>4, WorkerEdges
<1>7. CASE ServiceRestart \/ UNCHANGED vars
  BY <1>3, <1>7 DEF ServiceRestart, management, vars
<1>. QED
  BY <1>4, <1>5, <1>6, <1>7 DEF ServiceNext

\* An unstarted RUN whose task was stopped, paused, changed or deleted can only
\* be cancelled, whatever is started, resumed or created under its number.
THEOREM RevokedForGoodProved == Spec => RevokedForGood
<1>1. ASSUME IInv, [ServiceNext]_vars
      PROVE  [\A r \in RunIds :
                runs[r].state \in {"pending", "offered"} /\ ~Current(tasks, runs[r]) =>
                    \/ runs'[r].state \in {"pending", "offered"} /\ ~Current(tasks, runs[r])'
                    \/ runs'[r].state \in {"cancelled", "absent"}]_vars
  BY <1>1, NextRevoked
<1>. QED
  BY <1>1, Invariance, SpecSteps, PTL DEF RevokedForGood

-----------------------------------------------------------------------------
(* Coalescing: only a tick queues a timer's RUN, and only for a generation  *)
(* that has no unfinished one.                                              *)

\* b is unfinished only if a was, as a RUN of the same task, generation and
\* kind.
Inherits(a, b) ==
    b.state \in Unfinished => /\ a.state \in Unfinished
                              /\ b.task = a.task /\ b.gen = a.gen /\ b.timer = a.timer

LEMMA SettleInherits ==
    ASSUME NEW a, NEW b, SettleEdge(a, b)
    PROVE  Inherits(a, b)
  BY DEF SettleEdge, Inherits, Unfinished, Granted

LEMMA WorkerInherits ==
    ASSUME NEW w, NEW mid \in [RunIds -> Runs], WorkerEdge(w, mid)
    PROVE  \A r \in RunIds : Inherits(mid[r], runs'[r])
<1>1. CASE runs' = mid
  BY <1>1 DEF Inherits
<1>2. ASSUME NEW r \in RunIds,
             \A q \in RunIds \ {r} : runs'[q] = mid[q],
             \A f \in {"task", "gen", "timer", "policy"} : runs'[r][f] = mid[r][f],
             mid[r].state \in Unfinished \/ runs'[r].state \in TERMINAL
      PROVE  \A q \in RunIds : Inherits(mid[q], runs'[q])
  <2>1. /\ runs'[r].task = mid[r].task /\ runs'[r].gen = mid[r].gen
        /\ runs'[r].timer = mid[r].timer
    BY <1>2
  <2>2. Inherits(mid[r], runs'[r])
    BY <1>2, <2>1 DEF Inherits, Unfinished, TERMINAL
  <2>3. \A q \in RunIds \ {r} : Inherits(mid[q], runs'[q])
    BY <1>2 DEF Inherits
  <2>. QED
    BY <2>2, <2>3
<1>. QED
  BY <1>1, <1>2 DEF WorkerEdge, Unfinished, Granted

\* A step in which every RUN inherits adds no second tick.
LEMMA InheritedCoalescing ==
    ASSUME TimerCoalesced, \A r \in RunIds : Inherits(runs[r], runs'[r])
    PROVE  TimerCoalesced'
<1>1. SUFFICES ASSUME NEW r \in RunIds, NEW q \in RunIds,
                      runs'[r].state \in Unfinished, runs'[q].state \in Unfinished,
                      runs'[r].timer, runs'[q].timer,
                      runs'[r].task = runs'[q].task, runs'[r].gen = runs'[q].gen
               PROVE  r = q
  BY DEF TimerCoalesced
<1>2. /\ runs[r].state \in Unfinished /\ runs[q].state \in Unfinished
      /\ runs[r].timer /\ runs[q].timer
      /\ runs[r].task = runs[q].task /\ runs[r].gen = runs[q].gen
  BY <1>1 DEF Inherits
<1>. QED
  BY <1>2 DEF TimerCoalesced

LEMMA TickCoalesces ==
    ASSUME TypeOK, TimerCoalesced, Tick
    PROVE  TimerCoalesced'
<1>1. PICK n \in Nat :
        /\ \A r \in RunIds : r \in nextRun..(nextRun + n - 1) =>
               \E t \in Due : ~Coalesced(Settled, t) /\ runs'[r] = NewRun(t, TRUE)
        /\ \A r, q \in nextRun..(nextRun + n - 1) : runs'[r].task = runs'[q].task => r = q
        /\ \A r \in RunIds \ (nextRun..(nextRun + n - 1)) : runs'[r] = Settled[r]
  BY TickFacts
<1>. DEFINE new == {r \in RunIds : r \in nextRun..(nextRun + n - 1)}
<1>2. \A r \in RunIds : Inherits(runs[r], Settled[r])
  BY SettledFacts, SettleInherits DEF Settled
<1>3. SUFFICES ASSUME NEW r \in RunIds, NEW q \in RunIds,
                      runs'[r].state \in Unfinished, runs'[q].state \in Unfinished,
                      runs'[r].timer, runs'[q].timer,
                      runs'[r].task = runs'[q].task, runs'[r].gen = runs'[q].gen
               PROVE  r = q
  BY DEF TimerCoalesced
<1>4. ASSUME NEW x \in new, NEW y \in RunIds \ new,
             runs'[y].state \in Unfinished,
             runs'[x].task = runs'[y].task, runs'[x].gen = runs'[y].gen
      PROVE  FALSE
  <2>1. PICK t \in Due : ~Coalesced(Settled, t) /\ runs'[x] = NewRun(t, TRUE)
    BY <1>1
  <2>2. runs'[x].task = t /\ runs'[x].gen = gens[t]
    BY <2>1, NewRunType DEF Due
  <2>3. runs'[y] = Settled[y]
    BY <1>1
  <2>. QED
    BY <1>4, <2>1, <2>2, <2>3 DEF Coalesced
<1>5. CASE r \in new /\ q \in new
  BY <1>1, <1>3, <1>5
<1>6. CASE r \notin new /\ q \notin new
  <2>1. runs'[r] = Settled[r] /\ runs'[q] = Settled[q]
    BY <1>1, <1>6
  <2>2. /\ runs[r].state \in Unfinished /\ runs[q].state \in Unfinished
        /\ runs[r].timer /\ runs[q].timer
        /\ runs[r].task = runs[q].task /\ runs[r].gen = runs[q].gen
    BY <1>2, <1>3, <2>1 DEF Inherits
  <2>. QED
    BY <2>2 DEF TimerCoalesced
<1>. QED
  BY <1>3, <1>4, <1>5, <1>6

LEMMA NextCoalesces == IInv /\ TimerCoalesced /\ [ServiceNext]_vars => TimerCoalesced'
<1>. SUFFICES ASSUME IInv, TimerCoalesced, [ServiceNext]_vars PROVE TimerCoalesced'
  OBVIOUS
<1>1. TypeOK /\ Settled \in [RunIds -> Runs]
  BY SettledFacts DEF IInv, Settled
<1>2. \A r \in RunIds : Inherits(runs[r], Settled[r])
  BY <1>1, SettledFacts, SettleInherits DEF Settled
<1>3. CASE runs' = runs
  BY <1>3 DEF TimerCoalesced
<1>4. ASSUME NEW t \in TaskIds, ManageTask(t) PROVE TimerCoalesced'
  <2>1. PauseTask(t) \/ QueueEvent(t) \/ runs' = runs
    BY <1>4 DEF ManageTask, CreateTask, StartTask, StopTask, ResumeTask, SetTimerPeriod,
                SetExecutor, DeleteTask, TimerComesDue
  <2>2. CASE PauseTask(t)
    <3>1. \A r \in RunIds : Inherits(runs[r], runs'[r])
      BY <1>1, <2>2, SettledFacts, SettleInherits DEF PauseTask
    <3>. QED
      BY <3>1, InheritedCoalescing
  <2>3. CASE QueueEvent(t)
    <3>1. NewRun(t, FALSE).timer = FALSE
      BY DEF NewRun, NoRun
    <3>2. \A r \in RunIds : runs'[r] = runs[r] \/ ~runs'[r].timer
      BY <1>1, <2>3, <3>1 DEF QueueEvent, TypeOK
    <3>. QED
      BY <3>2 DEF TimerCoalesced
  <2>. QED
    BY <1>3, <2>1, <2>2, <2>3
<1>5. ASSUME NEW w \in Workers, WorkerRequest(w) PROVE TimerCoalesced'
  <2>1. CASE WorkerEdge(w, Settled)
    <3>1. \A r \in RunIds : Inherits(Settled[r], runs'[r])
      BY <1>1, <2>1, WorkerInherits
    <3>2. \A r \in RunIds : Inherits(runs[r], runs'[r])
      BY <1>2, <3>1 DEF Inherits
    <3>. QED
      BY <3>2, InheritedCoalescing
  <2>2. ASSUME NEW ws, runs' = ReconcileAll(tasks, ws, Settled)
        PROVE  TimerCoalesced'
    <3>1. \A r \in RunIds : Inherits(Settled[r], runs'[r])
      BY <1>1, <2>2, ReconcileAllEdge, SettleInherits
    <3>2. \A r \in RunIds : Inherits(runs[r], runs'[r])
      BY <1>2, <3>1 DEF Inherits
    <3>. QED
      BY <3>2, InheritedCoalescing
  <2>. QED
    BY <1>1, <1>3, <1>5, <2>1, <2>2, WorkerEdges
<1>6. CASE ServiceRestart \/ UNCHANGED vars
  BY <1>3, <1>6 DEF ServiceRestart, vars
<1>. QED
  BY <1>1, <1>4, <1>5, <1>6, TickCoalesces DEF ServiceNext

\* However long no CORE is there, a generation of a periodic task never has two
\* unfinished RUNs of its timer.
THEOREM TimerCoalescedProved == Spec => []TimerCoalesced
<1>1. Init => TimerCoalesced
  BY DEF Init, NoRun, TimerCoalesced, Unfinished
<1>. QED
  BY <1>1, Invariance, NextCoalesces, SpecSteps, PTL

-----------------------------------------------------------------------------
(* Nothing is lost: the journal forgets work only by an outcome.           *)

\* What settling takes out of work was revoked, or its worker is gone.
Abandoned(ts, run) ==
    \/ run.state \in {"pending", "offered"} /\ ~Current(ts, run)
    \/ run.state = "running" /\ run.worker \notin alive

LEMMA SettleAbandons ==
    ASSUME NEW ts, NEW ws, NEW rs \in [RunIds -> Runs], NEW r \in RunIds,
           rs[r].state \in Unfinished,
           ReconcileAll(ts, ws, rs)[r].state \notin Unfinished
    PROVE  Abandoned(ts, rs[r])
<1>. DEFINE one == Reconcile(ts, ws, rs[r])
<1>1. one.state \notin Unfinished
  <2>1. \/ ReconcileAll(ts, ws, rs)[r] = one
        \/ one.state \in TERMINAL
    BY DEF ReconcileAll, Prune, Finished
  <2>. QED
    BY <2>1 DEF Unfinished, TERMINAL
<1>2. rs[r] \in Runs
  OBVIOUS
<1>3. CASE one = rs[r]
  BY <1>1, <1>3
<1>4. CASE one = ReturnPending(rs[r])
  BY <1>1, <1>2, <1>4, ReturnPendingFacts DEF Unfinished
<1>5. CASE /\ rs[r].state \in {"pending", "offered"} /\ ~Current(ts, rs[r])
  BY <1>5 DEF Abandoned
<1>6. CASE rs[r].state = "running" /\ rs[r].worker \notin alive
  BY <1>6 DEF Abandoned
<1>. QED
  BY <1>3, <1>4, <1>5, <1>6 DEF Reconcile

\* The same for a journal that is settled a second time.
LEMMA SettleTwiceAbandons ==
    ASSUME TypeOK, NEW ws, NEW r \in RunIds, runs[r].state \in Unfinished,
           ReconcileAll(tasks, ws, Settled)[r].state \notin Unfinished
    PROVE  Abandoned(tasks, runs[r])
<1>1. /\ runs \in [RunIds -> Runs] /\ Settled \in [RunIds -> Runs]
      /\ SettleEdge(runs[r], Settled[r])
  BY SettledFacts DEF Settled, TypeOK
<1>2. CASE Settled[r].state \notin Unfinished
  BY <1>1, <1>2, SettleAbandons DEF Settled
<1>3. CASE Settled[r].state \in Unfinished
  <2>1. Abandoned(tasks, Settled[r])
    BY <1>1, <1>3, SettleAbandons
  <2>2. CASE Settled[r] = runs[r]
    BY <2>1, <2>2
  <2>3. CASE Settled[r].state = "pending"
    BY <1>1, <2>1, <2>3 DEF SettleEdge, Abandoned, Current
  <2>. QED
    BY <1>1, <1>3, <2>2, <2>3 DEF SettleEdge, Granted, Unfinished
<1>. QED
  BY <1>2, <1>3

\* A worker's request takes no RUN out of the journal.
LEMMA WorkerKeepsPlaces ==
    ASSUME NEW w, NEW mid, WorkerEdge(w, mid), NEW r \in RunIds,
           runs'[r].state = "absent"
    PROVE  mid[r].state = "absent"
  BY DEF WorkerEdge, TERMINAL

LEMMA NextAbandons ==
    ASSUME IInv, [ServiceNext]_vars, NEW r \in RunIds,
           runs[r].state \in Unfinished, runs'[r].state = "absent"
    PROVE  \/ runs[r].state \in {"pending", "offered"} /\ ~Current(tasks', runs[r])
           \/ runs[r].state = "running" /\ runs[r].worker \notin alive'
<1>1. TypeOK /\ runs \in [RunIds -> Runs] /\ nextRun \in Int /\ r < nextRun
  BY DEF IInv, TypeOK, JournalIsPrefix, RunIds, Unfinished
<1>2. runs' # runs /\ runs'[r] # runs[r]
  BY DEF Unfinished
<1>3. runs'[r].state \notin Unfinished
  BY DEF Unfinished
<1>4. Settled[r].state \notin Unfinished => Abandoned(tasks, runs[r])
  BY <1>1, SettleAbandons DEF Settled
<1>5. CASE Tick
  <2>1. PICK n \in Nat :
          \A q \in RunIds \ (nextRun..(nextRun + n - 1)) : runs'[q] = Settled[q]
    BY <1>1, <1>5, TickFacts
  <2>2. r \notin nextRun..(nextRun + n - 1)
    BY <1>1 DEF RunIds
  <2>3. tasks' = tasks /\ alive' = alive
    BY <1>5 DEF Tick
  <2>. QED
    BY <1>3, <1>4, <2>1, <2>2, <2>3 DEF Abandoned
<1>6. ASSUME NEW t \in TaskIds, ManageTask(t)
      PROVE  \/ runs[r].state \in {"pending", "offered"} /\ ~Current(tasks', runs[r])
             \/ runs[r].state = "running" /\ runs[r].worker \notin alive'
  <2>1. PauseTask(t) \/ QueueEvent(t) \/ runs' = runs
    BY <1>6 DEF ManageTask, CreateTask, StartTask, StopTask, ResumeTask, SetTimerPeriod,
                      SetExecutor, DeleteTask, TimerComesDue
  <2>2. CASE PauseTask(t)
    <3>1. runs' = ReconcileAll(tasks', workers, runs) /\ alive' = alive
      BY <2>2 DEF PauseTask, SetEnabled
    <3>2. Abandoned(tasks', runs[r])
      BY <1>1, <1>3, <3>1, SettleAbandons
    <3>. QED
      BY <3>1, <3>2 DEF Abandoned
  <2>3. CASE QueueEvent(t)
    <3>1. r # nextRun
      BY <1>1 DEF RunIds
    <3>. QED
      BY <1>1, <1>2, <2>3, <3>1 DEF QueueEvent
  <2>. QED
    BY <1>2, <2>1, <2>2, <2>3
<1>7. ASSUME NEW w \in Workers, WorkerRequest(w)
      PROVE  \/ runs[r].state \in {"pending", "offered"} /\ ~Current(tasks', runs[r])
             \/ runs[r].state = "running" /\ runs[r].worker \notin alive'
  <2>1. /\ UNCHANGED management
        /\ \/ WorkerEdge(w, Settled)
           \/ \E ws : runs' = ReconcileAll(tasks, ws, Settled)
    BY <1>1, <1>2, <1>7, WorkerEdges
  <2>2. Abandoned(tasks, runs[r])
    <3>1. CASE WorkerEdge(w, Settled)
      BY <1>4, <3>1, WorkerKeepsPlaces DEF Unfinished
    <3>2. ASSUME NEW ws, runs' = ReconcileAll(tasks, ws, Settled)
          PROVE  Abandoned(tasks, runs[r])
      BY <1>1, <1>3, <3>2, SettleTwiceAbandons
    <3>. QED
      BY <2>1, <3>1, <3>2
  <2>3. ProcessDies(w) => runs' = runs
    BY DEF ProcessDies
  <2>4. alive' = alive
    BY <1>2, <1>7, <2>3 DEF WorkerRequest, WorkerStep, Heartbeat, Offline, Pulls, Pull, Begin, Valid,
                      Finish, LeaseExpires
  <2>. QED
    BY <2>1, <2>2, <2>4 DEF Abandoned, Current, management
<1>8. CASE ServiceRestart \/ UNCHANGED vars
  BY <1>2, <1>8 DEF ServiceRestart, vars
<1>. QED
  BY <1>5, <1>6, <1>7, <1>8 DEF ServiceNext

\* The journal forgets a RUN that was not finished only when the same step
\* cancels or interrupts it.
THEOREM NothingLostProved == Spec => NothingLost
<1>1. ASSUME IInv, [ServiceNext]_vars
      PROVE  [\A r \in RunIds :
                runs[r].state \in Unfinished /\ runs'[r].state = "absent" =>
                    \/ runs[r].state \in {"pending", "offered"} /\ ~Current(tasks', runs[r])
                    \/ runs[r].state = "running" /\ runs[r].worker \notin alive']_vars
  BY <1>1, NextAbandons
<1>. QED
  BY <1>1, Invariance, SpecSteps, PTL DEF NothingLost

-----------------------------------------------------------------------------
(* Leases: the settling that precedes a heartbeat is judged on the old one. *)

LEMMA SettleForfeits ==
    ASSUME TypeOK, NEW w \in Workers, NEW r \in RunIds, workers[w] = "expired",
           runs[r].state = "offered", runs[r].worker = w
    PROVE  Settled[r].state # "offered"
<1>1. OfferLost(workers, runs[r])
  BY DEF OfferLost, WorkerReady, LeaseLive
<1>2. Reconcile(tasks, workers, runs[r]).state # "offered"
  <2>1. CASE ~Current(tasks, runs[r])
    BY <2>1 DEF Reconcile, Runs, TypeOK
  <2>2. CASE Current(tasks, runs[r])
    BY <1>1, <2>2, ReturnPendingFacts DEF Reconcile, TypeOK
  <2>. QED
    BY <2>1, <2>2
<1>3. Settled[r] \in {Reconcile(tasks, workers, runs[r]), NoRun}
  BY DEF Settled, ReconcileAll, Prune
<1>. QED
  BY <1>2, <1>3 DEF NoRun

\* Whoever comes back with a late heartbeat has lost the offers of the old lease.
THEOREM ExpiredLeaseForfeitsProved == Spec => ExpiredLeaseForfeitsOffer
<1>1. ASSUME TypeOK, [ServiceNext]_vars, NEW w \in Workers, NEW r \in RunIds,
             workers[w] = "expired", workers'[w] = "ready",
             runs[r].state = "offered", runs[r].worker = w
      PROVE  runs'[r].state # "offered"
  <2>1. workers' # workers
    BY <1>1
  <2>3. ASSUME NEW v \in Workers, WorkerRequest(v) PROVE Heartbeat(w, "ready")
    <3>1. v # w => workers'[w] = workers[w]
      BY <1>1, <2>3 DEF TypeOK, WorkerRequest, WorkerStep, Heartbeat, Offline, Pulls, Pull, Begin,
                        Valid, Finish, LeaseExpires, ProcessDies
    <3>2. ~Offline(w) /\ ~LeaseExpires(w)
      BY <1>1 DEF TypeOK, Offline, LeaseExpires
    <3>3. ~Heartbeat(w, "not_ready")
      BY <1>1 DEF TypeOK, Heartbeat
    <3>. QED
      BY <1>1, <2>1, <2>3, <3>1, <3>2, <3>3
      DEF WorkerRequest, WorkerStep, Pulls, Pull, Begin, Valid, Finish, ProcessDies
  <2>4. Heartbeat(w, "ready")
    <3>1. ~Tick /\ ~UNCHANGED vars
      BY <2>1 DEF Tick, vars
    <3>2. \A t \in TaskIds : ~ManageTask(t)
      BY <2>1 DEF ManageTask, CreateTask, SetEnabled, StartTask, StopTask, ResumeTask, PauseTask,
                  SetTimerPeriod, SetExecutor, DeleteTask, QueueEvent, TimerComesDue
    <3>3. ServiceRestart => workers'[w] # "ready"
      BY DEF ServiceRestart
    <3>. QED
      BY <1>1, <2>3, <3>1, <3>2, <3>3 DEF ServiceNext
  <2>. QED
    BY <1>1, <2>4, SettleForfeits DEF Heartbeat
<1>2. ASSUME TypeOK, [ServiceNext]_vars
      PROVE  [\A w \in Workers, r \in RunIds :
                /\ workers[w] = "expired" /\ workers'[w] = "ready"
                /\ runs[r].state = "offered" /\ runs[r].worker = w
                => runs'[r].state # "offered" \/ runs'[r].offer # runs[r].offer]_vars
  <2>. SUFFICES ASSUME NEW w \in Workers, NEW r \in RunIds,
                       workers[w] = "expired", workers'[w] = "ready",
                       runs[r].state = "offered", runs[r].worker = w
                PROVE  runs'[r].state # "offered"
    OBVIOUS
  <2>. QED
    BY <1>1, <1>2
<1>. QED
  BY <1>2, TypeCorrect, SpecSteps, PTL DEF ExpiredLeaseForfeitsOffer

-----------------------------------------------------------------------------
(* Offers: each grant of a RUN is made under an identifier of its own.     *)

LEMMA SettleReflexive ==
    ASSUME NEW a \in Runs
    PROVE  SettleEdge(a, a)
<1>1. a.state \in {"absent", "pending", "offered", "running"} \cup TERMINAL
  BY DEF Runs, Unfinished
<1>. QED
  BY <1>1 DEF SettleEdge, TERMINAL, Granted

LEMMA SettleTransitive ==
    ASSUME NEW a, NEW b, NEW c, SettleEdge(a, b), SettleEdge(b, c)
    PROVE  SettleEdge(a, c)
<1>1. b.state \in {"absent", "pending", "offered", "running"} \cup TERMINAL
  BY DEF SettleEdge, Runs, Unfinished
<1>2. c.state # "absent" => b.state # "absent"
  BY DEF SettleEdge
<1>. QED
  BY <1>1, <1>2 DEF SettleEdge, TERMINAL, Granted

\* A step settles the queued RUNs, or does one request of one worker as well.
LEMMA NextShape ==
    ASSUME TypeOK, [ServiceNext]_vars
    PROVE  \/ \E w \in Workers : WorkerEdge(w, Settled)
           \/ \A r \in RunIds : r < nextRun => SettleEdge(runs[r], runs'[r])
<1>1. runs \in [RunIds -> Runs] /\ nextRun \in Int
  BY DEF TypeOK
<1>2. /\ Settled \in [RunIds -> Runs]
      /\ \A r \in RunIds : SettleEdge(runs[r], Settled[r]) /\ SettleEdge(runs[r], runs[r])
  BY <1>1, SettledFacts, SettleReflexive DEF Settled
<1>3. CASE Tick
  <2>1. PICK n \in Nat :
          \A r \in RunIds \ (nextRun..(nextRun + n - 1)) : runs'[r] = Settled[r]
    BY <1>3, TickFacts
  <2>2. \A r \in RunIds : r < nextRun => r \notin nextRun..(nextRun + n - 1)
    BY <1>1 DEF RunIds
  <2>. QED
    BY <1>2, <2>1, <2>2
<1>4. CASE runs' = runs
  BY <1>2, <1>4
<1>5. ASSUME NEW t \in TaskIds, ManageTask(t), runs' # runs
      PROVE  \A r \in RunIds : r < nextRun => SettleEdge(runs[r], runs'[r])
  <2>1. CASE PauseTask(t)
    BY <1>1, <2>1, ReconcileAllEdge DEF PauseTask
  <2>2. CASE QueueEvent(t)
    <3>1. \A r \in RunIds : r < nextRun => r # nextRun
      BY <1>1 DEF RunIds
    <3>2. \A r \in RunIds : r # nextRun => runs'[r] = runs[r]
      BY <1>1, <2>2 DEF QueueEvent
    <3>. QED
      BY <1>2, <3>1, <3>2
  <2>. QED
    BY <1>5, <2>1, <2>2
    DEF ManageTask, CreateTask, StartTask, StopTask, ResumeTask, SetTimerPeriod, SetExecutor,
        DeleteTask, TimerComesDue
<1>6. ASSUME NEW w \in Workers, WorkerRequest(w), runs' # runs, ~WorkerEdge(w, Settled)
      PROVE  \A r \in RunIds : SettleEdge(runs[r], runs'[r])
  <2>1. PICK ws : runs' = ReconcileAll(tasks, ws, Settled)
    BY <1>6, WorkerEdges
  <2>2. \A r \in RunIds : SettleEdge(Settled[r], runs'[r])
    BY <1>2, <2>1, ReconcileAllEdge
  <2>. QED
    BY <1>2, <2>2, SettleTransitive
<1>7. CASE ServiceRestart \/ UNCHANGED vars
  BY <1>4, <1>7 DEF ServiceRestart, vars
<1>. QED
  BY <1>3, <1>4, <1>5, <1>6, <1>7 DEF ServiceNext

\* What a step puts into a free place is a RUN nobody was offered.
LEMMA NewPlaces ==
    ASSUME IInv, [ServiceNext]_vars, NEW r \in RunIds, r >= nextRun
    PROVE  \/ runs'[r].state = "absent"
           \/ runs'[r].state = "pending" /\ runs'[r].offer = 0
<1>1. /\ TypeOK /\ runs \in [RunIds -> Runs] /\ nextRun \in Int
      /\ runs[r].state = "absent"
  BY DEF IInv, TypeOK, JournalIsPrefix
<1>2. Settled \in [RunIds -> Runs] /\ Settled[r].state = "absent"
  BY <1>1, SettledFacts DEF Settled, SettleEdge
<1>3. CASE Tick
  <2>1. PICK n \in Nat :
          /\ \A q \in RunIds : q \in nextRun..(nextRun + n - 1) =>
                \E t \in Due : runs'[q] = NewRun(t, TRUE)
          /\ \A q \in RunIds \ (nextRun..(nextRun + n - 1)) : runs'[q] = Settled[q]
    BY <1>1, <1>3, TickFacts
  <2>2. \A t \in Due : NewRun(t, TRUE).state = "pending" /\ NewRun(t, TRUE).offer = 0
    BY DEF NewRun, NoRun
  <2>. QED
    BY <1>2, <2>1, <2>2
<1>4. ASSUME NEW t \in TaskIds, ManageTask(t), runs' # runs
      PROVE  \/ runs'[r].state = "absent"
             \/ runs'[r].state = "pending" /\ runs'[r].offer = 0
  <2>1. CASE PauseTask(t)
    BY <1>1, <2>1, ReconcileAllEdge DEF PauseTask, SettleEdge
  <2>2. CASE QueueEvent(t)
    BY <1>1, <2>2 DEF QueueEvent, NewRun, NoRun
  <2>. QED
    BY <1>4, <2>1, <2>2
    DEF ManageTask, CreateTask, StartTask, StopTask, ResumeTask, SetTimerPeriod, SetExecutor,
        DeleteTask, TimerComesDue
<1>5. ASSUME NEW w \in Workers, WorkerRequest(w), runs' # runs
      PROVE  runs'[r].state = "absent"
  <2>1. CASE WorkerEdge(w, Settled)
    BY <1>2, <2>1 DEF WorkerEdge, Granted, Unfinished
  <2>2. ASSUME NEW ws, runs' = ReconcileAll(tasks, ws, Settled) PROVE runs'[r].state = "absent"
    BY <1>2, <2>2, ReconcileAllEdge DEF SettleEdge
  <2>. QED
    BY <1>1, <1>5, <2>1, <2>2, WorkerEdges
<1>6. CASE ServiceRestart \/ UNCHANGED vars
  BY <1>1, <1>6 DEF ServiceRestart, vars
<1>. QED
  BY <1>1, <1>3, <1>4, <1>5, <1>6 DEF ServiceNext

\* From a to b a grant is kept, given up, or made under a new identifier.
GrantEdge(a, b) ==
    /\ a.state = "absent" => b.state = "absent"
    /\ b.state # "absent" =>
        /\ a.grants <= b.grants
        /\ a.offer <= a.grants => b.offer <= b.grants
        /\ b.state \in Granted =>
            \/ a.grants < b.offer
            \/ a.state \in Granted /\ b.worker = a.worker /\ b.offer = a.offer

LEMMA SettleGrants ==
    ASSUME NEW a \in Runs, NEW b, SettleEdge(a, b)
    PROVE  GrantEdge(a, b)
<1>1. a.grants \in Int /\ a.offer \in Int /\ 0 <= a.grants
  BY ConstantsAreSane DEF Runs, Offers
<1>2. b.state # "absent" => b.grants = a.grants /\ b.offer \in {0, a.offer}
  BY DEF SettleEdge
<1>3. b.state \in Granted => b = a
  BY DEF SettleEdge
<1>4. a.state = "absent" => b.state = "absent"
  BY DEF SettleEdge
<1>. HIDE DEF Granted
<1>. QED
  BY <1>1, <1>2, <1>3, <1>4 DEF GrantEdge

LEMMA WorkerGrants ==
    ASSUME NEW w \in Workers, NEW a \in [RunIds -> Runs], NEW mid \in [RunIds -> Runs],
           \A r \in RunIds : SettleEdge(a[r], mid[r]), WorkerEdge(w, mid)
    PROVE  \A r \in RunIds : GrantEdge(a[r], runs'[r])
<1>1. \A r \in RunIds : GrantEdge(a[r], mid[r])
  BY SettleGrants
<1>2. ASSUME NEW r \in RunIds,
             \/ /\ mid[r].state = "pending"
                /\ runs'[r].state = "offered"
                /\ runs'[r].grants = mid[r].grants + 1 /\ runs'[r].offer = mid[r].grants + 1
             \/ /\ mid[r].state \in Granted /\ runs'[r].state = "running"
                /\ runs'[r].worker = mid[r].worker /\ runs'[r].offer = mid[r].offer
                /\ runs'[r].grants = mid[r].grants
             \/ /\ mid[r].state = "offered" /\ runs'[r].state = "pending"
                /\ runs'[r].offer = 0 /\ runs'[r].grants = mid[r].grants
             \/ /\ mid[r].state \in Unfinished /\ runs'[r].state \in TERMINAL
                /\ runs'[r].offer = mid[r].offer /\ runs'[r].grants = mid[r].grants
      PROVE  GrantEdge(a[r], runs'[r])
  <2>1. /\ a[r].grants \in Int /\ a[r].offer \in Int
        /\ mid[r].grants \in Int /\ mid[r].offer \in Int /\ 0 <= mid[r].grants
    BY ConstantsAreSane DEF Runs, Offers
  <2>2. mid[r].state \in Unfinished
    BY <1>2 DEF Unfinished, Granted
  <2>3. a[r].state # "absent" /\ mid[r].grants = a[r].grants /\ mid[r].offer \in {0, a[r].offer}
    BY <2>2 DEF SettleEdge, Unfinished
  <2>4. mid[r].state \in Granted => mid[r] = a[r]
    BY DEF SettleEdge
  <2>. QED
    BY <1>2, <2>1, <2>3, <2>4 DEF GrantEdge, TERMINAL, Granted
<1>3. CASE runs' = mid
  BY <1>1, <1>3
<1>. QED
  BY <1>1, <1>2, <1>3 DEF WorkerEdge

\* Every step moves each queued RUN along a GrantEdge.
LEMMA NextGrants ==
    ASSUME TypeOK, [ServiceNext]_vars
    PROVE  \A r \in RunIds : r < nextRun => GrantEdge(runs[r], runs'[r])
<1>1. runs \in [RunIds -> Runs]
  BY DEF TypeOK
<1>2. /\ Settled \in [RunIds -> Runs]
      /\ \A r \in RunIds : SettleEdge(runs[r], Settled[r])
  BY SettledFacts DEF Settled
<1>3. ASSUME NEW w \in Workers, WorkerEdge(w, Settled)
      PROVE  \A r \in RunIds : GrantEdge(runs[r], runs'[r])
  BY <1>1, <1>2, <1>3, WorkerGrants
<1>. QED
  BY <1>1, <1>3, NextShape, SettleGrants

\* An offer identifier is one the RUN was granted under.
OffersMade == \A r \in RunIds : runs[r].state # "absent" => runs[r].offer <= runs[r].grants

LEMMA NextOffersMade == IInv /\ IInv' /\ OffersMade /\ [ServiceNext]_vars => OffersMade'
<1>. SUFFICES ASSUME IInv, IInv', OffersMade, [ServiceNext]_vars,
                     NEW r \in RunIds, runs'[r].state # "absent"
              PROVE  runs'[r].offer <= runs'[r].grants
  BY DEF OffersMade
<1>1. TypeOK /\ TypeOK' /\ nextRun \in Int
  BY DEF IInv, TypeOK
<1>2. CASE r < nextRun
  BY <1>1, <1>2, NextGrants DEF GrantEdge, OffersMade
<1>3. CASE r >= nextRun
  <2>1. runs'[r].grants \in Int /\ 0 <= runs'[r].grants
    BY <1>1, ConstantsAreSane DEF TypeOK, Runs, Offers
  <2>. QED
    BY <1>3, <2>1, NewPlaces
<1>. QED
  BY <1>1, <1>2, <1>3 DEF RunIds

-----------------------------------------------------------------------------
(* The service implements the exclusive, at-most-once ledger of RunLedger.  *)

\* What one step does to a queued RUN, as far as the ledger sees it.
Advances(a, b) ==
    \/ b = a
    \/ /\ a.state \in {"pending", "offered"} /\ b.task = a.task
       /\ b.state = "pending" \/ (b.state = "offered" /\ b.worker \in Workers)
    \/ /\ a.state \in Granted /\ b.state = "running" /\ b.task = a.task
       /\ b.worker = a.worker /\ b.offer = a.offer
    \/ a.state \in Unfinished /\ b.state \in TERMINAL \cup {"absent"}
    \/ a.state \in TERMINAL /\ b.state \in {a.state, "absent"}
    \/ a.state = "absent" /\ b.state = "absent"

LEMMA SettleAdvances ==
    ASSUME NEW a \in Runs, NEW b, SettleEdge(a, b)
    PROVE  Advances(a, b)
<1>1. b \in Runs
  BY DEF SettleEdge
<1>2. b.state \in {"absent", "pending"} \cup Granted \cup TERMINAL
  BY <1>1 DEF Runs, Unfinished, Granted
<1>3. a.state \in {"absent", "pending", "offered", "running"} \cup TERMINAL
  BY DEF Runs, Unfinished
<1>. QED
  BY <1>2, <1>3 DEF SettleEdge, Advances, Unfinished, Granted, TERMINAL

\* A worker's request settles the journal and then changes at most one RUN.
LEMMA WorkerAdvances ==
    ASSUME NEW w \in Workers, runs \in [RunIds -> Runs],
           NEW mid \in [RunIds -> Runs], runs' \in [RunIds -> Runs],
           \A r \in RunIds : SettleEdge(runs[r], mid[r]), WorkerEdge(w, mid)
    PROVE  \A r \in RunIds : Advances(runs[r], runs'[r])
<1>1. CASE runs' = mid
  BY <1>1, SettleAdvances
<1>2. ASSUME NEW r \in RunIds,
             \A q \in RunIds \ {r} : runs'[q] = mid[q],
             \A f \in {"task", "gen", "timer", "policy"} : runs'[r][f] = mid[r][f],
             \/ /\ mid[r].state = "pending"
                /\ runs'[r].state = "offered" /\ runs'[r].worker = w
             \/ /\ mid[r].state \in Granted
                /\ runs'[r].state = "running"
                /\ runs'[r].worker = mid[r].worker /\ runs'[r].offer = mid[r].offer
             \/ mid[r].state = "offered" /\ runs'[r].state = "pending"
             \/ mid[r].state \in Unfinished /\ runs'[r].state \in TERMINAL
      PROVE  \A q \in RunIds : Advances(runs[q], runs'[q])
  <2>1. \A q \in RunIds \ {r} : Advances(runs[q], runs'[q])
    BY <1>2, SettleAdvances
  <2>2. runs'[r].task = mid[r].task
    BY <1>2
  <2>3. SettleEdge(runs[r], mid[r])
    OBVIOUS
  <2>4. mid[r].state \in Unfinished => /\ runs[r].state \in Unfinished
                                       /\ mid[r].task = runs[r].task
                                       /\ mid[r].state \in Granted => mid[r] = runs[r]
                                       /\ mid[r].state = "pending"
                                            => runs[r].state \in {"pending", "offered"}
    BY <2>3 DEF SettleEdge, Unfinished, Granted
  <2>5. Advances(runs[r], runs'[r])
    BY <1>2, <2>2, <2>4 DEF Advances, Unfinished, Granted
  <2>. QED
    BY <2>1, <2>5
<1>. QED
  BY <1>1, <1>2 DEF WorkerEdge

\* A queued RUN that advances moves along the ledger.
LEMMA QueuedMoves ==
    ASSUME TypeOK, TypeOK', NEW r \in RunIds, r < nextRun, r < nextRun',
           Advances(runs[r], runs'[r])
    PROVE  Ledger!Moves(Entry(r), Entry(r)')
<1>1. runs[r] \in Runs /\ runs'[r] \in Runs
  BY DEF TypeOK
<1>. DEFINE a == Entry(r)
            b == Entry(r)'
<1>2. /\ runs[r].state = "pending" => a = Ledger!Waiting(runs[r].task)
      /\ runs[r].state = "offered"
           => a = Ledger!Held(runs[r].task, <<runs[r].worker, runs[r].offer>>)
      /\ runs[r].state = "running"
           => a = Ledger!Begun(runs[r].task, <<runs[r].worker, runs[r].offer>>)
      /\ runs[r].state = "absent" => a = Ledger!Gone
      /\ runs[r].state \in TERMINAL => a = Ledger!Over(runs[r].state)
  BY DEF Entry, Phase, TERMINAL, Ledger!Waiting, Ledger!Held, Ledger!Begun, Ledger!Gone, Ledger!Over
<1>3. /\ runs'[r].state = "pending" => b = Ledger!Waiting(runs'[r].task)
      /\ runs'[r].state = "offered"
           => b = Ledger!Held(runs'[r].task, <<runs'[r].worker, runs'[r].offer>>)
      /\ runs'[r].state = "running"
           => b = Ledger!Begun(runs'[r].task, <<runs'[r].worker, runs'[r].offer>>)
      /\ runs'[r].state = "absent" => b = Ledger!Gone
      /\ runs'[r].state \in TERMINAL => b = Ledger!Over(runs'[r].state)
  BY DEF Entry, Phase, TERMINAL, Ledger!Waiting, Ledger!Held, Ledger!Begun, Ledger!Gone, Ledger!Over
<1>. HIDE DEF a, b
<1>4. CASE runs'[r] = runs[r]
  <2>1. a = b
    BY <1>1, <1>2, <1>3, <1>4 DEF Runs, Unfinished
  <2>. QED
    BY <2>1 DEF Ledger!Moves, a, b
<1>5. CASE /\ runs[r].state \in {"pending", "offered"} /\ runs'[r].task = runs[r].task
           /\ runs'[r].state = "pending" \/ (runs'[r].state = "offered" /\ runs'[r].worker \in Workers)
  <2>1. runs'[r].offer \in Offers
    BY <1>1 DEF Runs
  <2>. QED
    BY <1>2, <1>3, <1>5, <2>1 DEF Ledger!Moves, Ledger!Waiting, Ledger!Held, a, b
<1>6. CASE /\ runs[r].state \in Granted /\ runs'[r].state = "running"
           /\ runs'[r].task = runs[r].task
           /\ runs'[r].worker = runs[r].worker /\ runs'[r].offer = runs[r].offer
  BY <1>2, <1>3, <1>6 DEF Ledger!Moves, Ledger!Held, Ledger!Begun, Granted, a, b
<1>7. CASE runs[r].state \in Unfinished /\ runs'[r].state \in TERMINAL \cup {"absent"}
  BY <1>2, <1>3, <1>7
  DEF Ledger!Moves, Ledger!Waiting, Ledger!Held, Ledger!Begun, Ledger!Gone, Ledger!Over,
      Unfinished, a, b
<1>8. CASE runs[r].state \in TERMINAL /\ runs'[r].state \in {runs[r].state, "absent"}
  BY <1>2, <1>3, <1>8 DEF Ledger!Moves, Ledger!Over, a, b
<1>9. CASE runs[r].state = "absent" /\ runs'[r].state = "absent"
  BY <1>2, <1>3, <1>9 DEF Ledger!Moves, a, b
<1>. QED
  BY <1>4, <1>5, <1>6, <1>7, <1>8, <1>9 DEF Advances, a, b

\* A place beyond the journal stays free or gets a new RUN that waits.
LEMMA FreeMoves ==
    ASSUME IInv, IInv', NEW r \in RunIds, r >= nextRun,
           r >= nextRun' \/ runs'[r].state = "pending"
    PROVE  Ledger!Moves(Entry(r), Entry(r)')
<1>1. nextRun \in Int /\ nextRun' \in Int /\ r \in Int /\ runs[r].state = "absent"
  BY DEF IInv, TypeOK, JournalIsPrefix, RunIds
<1>2. Entry(r) = Ledger!Unborn
  BY <1>1 DEF Entry, Phase, Ledger!Unborn
<1>3. CASE r >= nextRun'
  <2>1. runs'[r].state = "absent"
    BY <1>3 DEF IInv, JournalIsPrefix
  <2>2. Entry(r)' = Ledger!Unborn
    BY <1>1, <1>3, <2>1 DEF Entry, Phase, Ledger!Unborn
  <2>. QED
    BY <1>2, <2>2 DEF Ledger!Moves
<1>4. CASE runs'[r].state = "pending"
  <2>1. runs'[r].task \in TaskIds
    BY DEF IInv, TypeOK, Runs
  <2>2. Entry(r)' = Ledger!Waiting(runs'[r].task)
    BY <1>4 DEF Entry, Phase, Ledger!Waiting
  <2>. QED
    BY <1>2, <2>1, <2>2 DEF Ledger!Moves, Ledger!Waiting
<1>. QED
  BY <1>3, <1>4

\* What every step does to the journal: it fills the next places with RUNs that
\* wait and advances the others.
LEMMA NextAdvances ==
    ASSUME IInv, IInv', [ServiceNext]_vars
    PROVE  /\ nextRun' >= nextRun
           /\ \A r \in RunIds : r < nextRun => Advances(runs[r], runs'[r])
           /\ \A r \in RunIds : r >= nextRun => r >= nextRun' \/ runs'[r].state = "pending"
<1>1. TypeOK /\ TypeOK' /\ runs \in [RunIds -> Runs] /\ runs' \in [RunIds -> Runs]
  BY DEF IInv, TypeOK
<1>2. nextRun \in Int /\ nextRun' \in Int
  BY <1>1 DEF TypeOK
<1>3. /\ Settled \in [RunIds -> Runs]
      /\ \A r \in RunIds : SettleEdge(runs[r], Settled[r])
  BY <1>1, SettledFacts DEF Settled
<1>4. CASE Tick
  <2>1. PICK n \in Nat :
          /\ nextRun' = nextRun + n
          /\ \A r \in RunIds : r \in nextRun..(nextRun + n - 1) =>
                \E t \in Due : runs'[r] = NewRun(t, TRUE)
          /\ \A r \in RunIds \ (nextRun..(nextRun + n - 1)) : runs'[r] = Settled[r]
    BY <1>1, <1>4, TickFacts
  <2>2. \A r \in RunIds : r < nextRun => runs'[r] = Settled[r]
    BY <1>2, <2>1 DEF RunIds
  <2>3. \A r \in RunIds : r >= nextRun /\ ~(r >= nextRun') => r \in nextRun..(nextRun + n - 1)
    BY <1>2, <2>1 DEF RunIds
  <2>4. \A t : NewRun(t, TRUE).state = "pending"
    BY DEF NewRun, NoRun
  <2>5. \A r \in RunIds : r < nextRun => Advances(runs[r], runs'[r])
    BY <1>1, <1>3, <2>2, SettleAdvances
  <2>6. nextRun' >= nextRun
    BY <1>2, <2>1
  <2>. QED
    BY <2>1, <2>3, <2>4, <2>5, <2>6
<1>5. CASE ServiceRestart \/ UNCHANGED vars
  BY <1>2, <1>5 DEF ServiceRestart, management, vars, Advances
<1>6. ASSUME NEW t \in TaskIds, ManageTask(t)
      PROVE  /\ nextRun' >= nextRun
             /\ \A r \in RunIds : r < nextRun => Advances(runs[r], runs'[r])
             /\ \A r \in RunIds : r >= nextRun => r >= nextRun' \/ runs'[r].state = "pending"
  <2>1. CASE PauseTask(t)
    <3>1. \A r \in RunIds : SettleEdge(runs[r], runs'[r])
      BY <1>1, <2>1, SettledFacts DEF PauseTask
    <3>2. nextRun' = nextRun
      BY <2>1 DEF PauseTask, SetEnabled
    <3>. QED
      BY <1>1, <1>2, <3>1, <3>2, SettleAdvances
  <2>2. CASE QueueEvent(t)
    <3>1. nextRun' = nextRun + 1 /\ runs' = [runs EXCEPT ![nextRun] = NewRun(t, FALSE)]
      BY <2>2 DEF QueueEvent
    <3>2. \A r \in RunIds : r # nextRun => runs'[r] = runs[r]
      BY <1>1, <3>1
    <3>3. \A r \in RunIds : r < nextRun => r # nextRun
      BY <1>2 DEF RunIds
    <3>4. \A r \in RunIds : r >= nextRun => r >= nextRun' \/ r = nextRun
      BY <1>2, <3>1 DEF RunIds
    <3>5. nextRun \in RunIds => runs'[nextRun].state = "pending"
      BY <1>1, <3>1 DEF NewRun, NoRun
    <3>6. nextRun' >= nextRun
      BY <1>2, <3>1
    <3>. QED
      BY <3>2, <3>3, <3>4, <3>5, <3>6 DEF Advances
  <2>3. CASE runs' = runs /\ nextRun' = nextRun
    BY <1>2, <2>3 DEF Advances
  <2>. QED
    BY <1>6, <2>1, <2>2, <2>3
    DEF ManageTask, CreateTask, SetEnabled, StartTask, StopTask, ResumeTask,
        SetTimerPeriod, SetExecutor, DeleteTask, TimerComesDue
<1>7. ASSUME NEW w \in Workers, WorkerRequest(w)
      PROVE  /\ nextRun' = nextRun
             /\ \A r \in RunIds : Advances(runs[r], runs'[r])
  <2>1. /\ nextRun' = nextRun
        /\ \/ runs' = runs
           \/ WorkerEdge(w, Settled)
           \/ \E ws : runs' = ReconcileAll(tasks, ws, Settled)
    BY <1>1, <1>7, WorkerEdges DEF management
  <2>2. CASE runs' = runs
    BY <2>1, <2>2 DEF Advances
  <2>3. CASE WorkerEdge(w, Settled)
    BY <1>1, <1>3, <2>1, <2>3, WorkerAdvances
  <2>4. ASSUME NEW ws, runs' = ReconcileAll(tasks, ws, Settled)
        PROVE  \A r \in RunIds : Advances(runs[r], runs'[r])
    <3>1. \A r \in RunIds : SettleEdge(Settled[r], runs'[r])
      BY <1>3, <2>4, ReconcileAllEdge
    <3>2. \A r \in RunIds : SettleEdge(runs[r], runs'[r])
      BY <1>3, <3>1 DEF SettleEdge, Granted, TERMINAL
    <3>. QED
      BY <1>1, <3>2, SettleAdvances
  <2>. QED
    BY <2>1, <2>2, <2>3, <2>4
<1>. QED
  BY <1>2, <1>4, <1>5, <1>6, <1>7 DEF ServiceNext

\* Two entries are never busy with one job.
LEMMA LedgerExclusive ==
    ASSUME TypeOK, OneGrantPerTask
    PROVE  Ledger!Exclusive([r \in RunIds |-> Entry(r)])
<1>1. \A r \in RunIds : Ledger!Busy(Entry(r)) =>
        runs[r].state \in Granted /\ Entry(r).job = runs[r].task
  <2>1. \A r \in RunIds : runs[r].state \in {"absent", "pending", "offered", "running"} \cup TERMINAL
    BY DEF TypeOK, Runs, Unfinished
  <2>. QED
    BY <2>1 DEF Entry, Phase, Ledger!Busy, Granted, TERMINAL
<1>. QED
  BY <1>1 DEF OneGrantPerTask, Ledger!Exclusive

\* The service implements the ledger: whatever requests, ticks, crashes, lost
\* leases and restarts do, a RUN waits, is held, begins and ends at most once, and
\* no task number is ever in two hands.
THEOREM LedgerImplemented == Spec => ImplementsLedger
<1>. DEFINE ledger == [r \in RunIds |-> Entry(r)]
<1>1. Init => Ledger!LedgerInit
  <2>. SUFFICES ASSUME Init PROVE Ledger!LedgerInit
    OBVIOUS
  <2>1. \A r \in RunIds : Entry(r) = Ledger!Unborn
    BY DEF Init, Entry, Phase, NoRun, Ledger!Unborn, RunIds
  <2>. QED
    BY <2>1 DEF Ledger!LedgerInit
<1>2. TypeOK /\ OneGrantPerTask => Ledger!Exclusive(ledger)
  BY LedgerExclusive
<1>3. TypeOK' /\ OneGrantPerTask' => Ledger!Exclusive(ledger)'
  BY <1>2, PTL
<1>4. IInv /\ IInv' /\ [ServiceNext]_vars => [Ledger!LedgerNext]_ledger
  <2>. SUFFICES ASSUME IInv, IInv', [ServiceNext]_vars PROVE Ledger!LedgerNext
    OBVIOUS
  <2>1. \A r \in RunIds : Ledger!Moves(Entry(r), Entry(r)')
    <3>. TAKE r \in RunIds
    <3>1. TypeOK /\ TypeOK' /\ nextRun \in Int /\ nextRun' \in Int /\ r \in Int
      BY DEF IInv, TypeOK, RunIds
    <3>2. CASE r < nextRun
      <4>1. r < nextRun'
        BY <3>1, <3>2, NextAdvances
      <4>. QED
        BY <3>1, <3>2, <4>1, NextAdvances, QueuedMoves
    <3>3. CASE r >= nextRun
      BY <3>3, NextAdvances, FreeMoves
    <3>. QED
      BY <3>1, <3>2, <3>3
  <2>2. Ledger!Exclusive(ledger)'
    BY <1>3 DEF IInv
  <2>. QED
    BY <2>1, <2>2 DEF Ledger!LedgerNext
<1>. QED
  BY <1>1, <1>4, Invariance, SpecSteps, PTL DEF ImplementsLedger, Ledger!LedgerSpec

=============================================================================
