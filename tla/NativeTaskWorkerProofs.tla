----------------------- MODULE NativeTaskWorkerProofs -----------------------
(***************************************************************************)
(* Proofs about NativeTaskWorker, for every number of workers, agents,     *)
(* RUNs and requests under way.                                            *)
(***************************************************************************)
EXTENDS NativeTaskWorker, QueryResultsProofs

Tokens == RunIds \X Offers
Busy == job.step # "none"
Asked(q) == <<q.run, q.offer>>

\* The token of the job in hand, and of the offer that is being admitted.
Held == IF Busy THEN {Token(job)} ELSE {}
Considered == IF poll.at = "offer" THEN {<<poll.run, poll.event.offer>>} ELSE {}

\* The service holds the RUN of a token as running under it.
RunningUnder(token) ==
    /\ runs[token[1]].state = "running"
    /\ runs[token[1]].worker = Native
    /\ runs[token[1]].offer = token[2]

\* The service will not act on a BEGIN or FINISH with this token.
Dead(token) ==
    ~ /\ runs[token[1]].state \in Granted
      /\ runs[token[1]].worker = Native
      /\ runs[token[1]].offer = token[2]

\* A token was made by an earlier pull: the next offer of its RUN is another.
Old(token) ==
    /\ token[1] < nextRun
    /\ runs[token[1]].state # "absent" => token[2] <= runs[token[1]].grants

\* The RUN began, and what runs of it runs under the token.
Begun(token) ==
    /\ token[1] < nextRun
    /\ runs[token[1]].state \notin {"pending", "offered"}
    /\ runs[token[1]].state = "running" => RunningUnder(token)

\* No agent was called for the token.
NotCalled(token) == calls[token[1]] = 0 \/ ~RunningUnder(token)

-----------------------------------------------------------------------------
(* The inductive invariant.                                                *)

NTypeOK ==
    /\ seen \subseteq Tokens /\ answers \subseteq Tokens /\ defers \subseteq Tokens
    /\ reserved \subseteq Agents /\ deferred \subseteq RunIds
    /\ queued \subseteq [run : RunIds, offer : Offers, agent : Agents]
    /\ job \in {NoJob} \cup [step : {"begin", "valid", "agent"}, run : RunIds,
                             offer : Offers, agent : Agents]
    /\ fins \subseteq [run : RunIds, offer : Offers, outcome : TERMINAL]
    /\ poll \in [at : {"idle", "settle", "offer", "defer", "closing", "offline", "closed"},
                 todo : SUBSET [run : RunIds, offer : Offers, outcome : TERMINAL],
                 run : RunIds, event : Runs]
    /\ late \subseteq [kind : {"begin", "valid", "finish", "publish"}, run : RunIds,
                       offer : Offers, outcome : TERMINAL \cup {"none"}]
    /\ \A q \in late : q.kind = "finish" => q.outcome \in TERMINAL
    /\ stage \in {"open", "stopping", "drained"}
    /\ calls \in [RunIds -> {0, 1}]
    /\ answered \subseteq RunIds

\* Jobs and FINISH requests share no token, jobs share no agent.
Distinct ==
    /\ \A x, y \in queued : Token(x) = Token(y) \/ x.agent = y.agent => x = y
    /\ Busy => \A x \in queued : x.agent # job.agent
    /\ \A x \in queued \cup fins : Token(x) \notin Held
    /\ \A x \in queued, f \in fins : Token(x) # Token(f)
    /\ \A f, g \in fins : Token(f) = Token(g) => f = g

\* What is counted as in hand is in hand, and was given out before.
Counted ==
    /\ \A x \in queued \cup fins : Token(x) \in seen
    /\ Held \subseteq seen
    /\ stage # "drained" =>
        /\ \A token \in seen : token \in Held \/ \E x \in queued \cup fins : token = Token(x)
        /\ \A x \in queued : x.agent \in reserved
        /\ Busy => job.agent \in reserved
        /\ \A a \in reserved : (Busy /\ a = job.agent) \/ \E x \in queued : a = x.agent
    /\ stage = "drained" => queued = {} /\ ~Busy
    /\ Native \notin alive => stage = "drained"
    /\ \A token \in seen : Old(token)

\* The offer that is being admitted or put off is in nobody else's hand.
Polled ==
    /\ poll.todo \subseteq fins
    /\ \A token \in defers : token \notin seen /\ Old(token)
    /\ \A token \in Considered :
            defers = {} /\ token \notin seen /\ Old(token) /\ NotCalled(token)

\* One call for each RUN, under the token that began it.
Called ==
    /\ \A r \in RunIds : calls[r] = 1 => /\ r < nextRun
                                         /\ runs[r].state \notin {"pending", "offered"}
    /\ \A x \in queued : NotCalled(Token(x))
    /\ \A token \in Held :
        /\ job.step = "begin" => NotCalled(token)
        /\ job.step = "valid" => Begun(token) /\ calls[token[1]] = 0
        /\ job.step = "agent" => RunningUnder(token) /\ calls[token[1]] = 1

\* A FINISH under way is of a token that still waits for it, or comes too late.
LateFinishes ==
    \A q \in late : q.kind = "finish" =>
        /\ Old(Asked(q))
        /\ \/ \E f \in fins : Asked(q) = Token(f)
           \/ Asked(q) \in defers
           \/ Dead(Asked(q))

LocalInv == NTypeOK /\ Distinct /\ Counted /\ Polled /\ Called /\ LateFinishes

WInv == QInv /\ OffersMade /\ LocalInv

Claims(token, outcome) ==
    outcome = "done" /\ token[1] \in answered /\ RunningUnder(token)

\* A claim to be done with an answer waits for the answer or follows it.
Saved ==
    /\ \A token \in answers : \E f \in fins : token = Token(f)
    /\ \A r \in answered : /\ calls[r] = 1
                           /\ runs[r].state = "running" => runs[r].worker = Native
    /\ job.step = "agent" => job.run \notin answered
    /\ \A f \in fins : Claims(Token(f), f.outcome) =>
            Token(f) \in answers \/ f.run \in StoredRuns(results)
    /\ \A q \in late : q.kind = "finish" /\ Claims(Asked(q), q.outcome) =>
            q.run \in StoredRuns(results)

SInv == WInv /\ Saved /\ DoneMeansSaved

-----------------------------------------------------------------------------
(* What the service's steps leave true of a token.                         *)

\* A running RUN of a live process survives the settling of the journal.
LEMMA SettleKeepsRunning ==
    ASSUME NEW ts, NEW ws, NEW rs \in [RunIds -> Runs], NEW r \in RunIds,
           rs[r].state = "running", rs[r].worker \in alive
    PROVE  ReconcileAll(ts, ws, rs)[r] = rs[r]
<1>1. Reconcile(ts, ws, rs[r]) = rs[r]
  BY DEF Reconcile
<1>. QED
  BY <1>1 DEF ReconcileAll, Prune, Finished, TERMINAL

RunsOn(a, b) == b.state = "running" /\ b.worker = a.worker /\ b.offer = a.offer

\* Another worker's request leaves it running.
LEMMA OthersKeepRunning ==
    ASSUME TypeOK, NEW w \in Workers, WorkerRequest(w), NEW r \in RunIds,
           runs[r].state = "running", runs[r].worker \in alive, runs[r].worker # w
    PROVE  RunsOn(runs[r], runs'[r])
<1>1. runs \in [RunIds -> Runs] /\ Settled \in [RunIds -> Runs]
  BY SettledFacts DEF TypeOK, Settled
<1>2. Settled[r] = runs[r]
  BY <1>1, SettleKeepsRunning DEF Settled
<1>3. CASE runs' = runs
  BY <1>3 DEF RunsOn
<1>4. CASE WorkerEdge(w, Settled)
  BY <1>2, <1>4 DEF WorkerEdge, RunsOn
<1>5. ASSUME NEW ws, runs' = ReconcileAll(tasks, ws, Settled) PROVE RunsOn(runs[r], runs'[r])
  BY <1>1, <1>2, <1>5, SettleKeepsRunning DEF RunsOn
<1>. QED
  BY <1>3, <1>4, <1>5, WorkerEdges

\* Its own worker's requests, the FINISH of this very offer apart, do too.
LEMMA OwnKeepRunning ==
    ASSUME TypeOK, NEW w \in Workers, NEW r \in RunIds,
           runs[r].state = "running", runs[r].worker \in alive,
           \/ \E report : Heartbeat(w, report)
           \/ Offline(w)
           \/ Valid(w)
           \/ \E seen0, skip : Pull(w, seen0, skip)
           \/ \E q \in RunIds, offer \in Offers : Begin(w, q, offer)
           \/ \E q \in RunIds, offer \in Offers, outcome \in TERMINAL :
                Finish(w, q, offer, outcome) /\ <<q, offer>> # <<r, runs[r].offer>>
    PROVE  RunsOn(runs[r], runs'[r])
<1>1. runs \in [RunIds -> Runs] /\ Settled \in [RunIds -> Runs]
  BY SettledFacts DEF TypeOK, Settled
<1>2. Settled[r] = runs[r]
  BY <1>1, SettleKeepsRunning DEF Settled
<1>3. CASE runs' = Settled
  BY <1>2, <1>3 DEF RunsOn
<1>4. CASE Offline(w)
  BY <1>1, <1>2, <1>4, SettleKeepsRunning DEF Offline, RunsOn
<1>5. ASSUME NEW skip, NEW q \in Grantable(Settled, w, skip), runs' = Grant(Settled, w, q)
      PROVE  RunsOn(runs[r], runs'[r])
  <2>1. q # r /\ q \in RunIds
    BY <1>2 DEF Grantable
  <2>. QED
    BY <1>1, <1>2, <1>5, <2>1 DEF Grant, RunsOn
<1>6. ASSUME NEW q \in RunIds, runs' = [Settled EXCEPT ![q].state = "running"]
      PROVE  RunsOn(runs[r], runs'[r])
  <2>1. "running" \in Unfinished \cup TERMINAL
    BY DEF Unfinished
  <2>. QED
    BY <1>1, <1>2, <1>6, <2>1, FieldUpdate DEF RunsOn
<1>7. ASSUME NEW q \in RunIds, NEW offer \in Offers, NEW outcome \in TERMINAL,
             Finish(w, q, offer, outcome), <<q, offer>> # <<r, runs[r].offer>>
      PROVE  RunsOn(runs[r], runs'[r])
  <2>1. CASE q # r
    BY <1>1, <1>2, <1>7, <2>1 DEF Finish, RunsOn
  <2>2. CASE q = r
    BY <1>2, <1>3, <1>7, <2>2 DEF Finish, Holds
  <2>. QED
    BY <2>1, <2>2
<1>. QED
  BY <1>3, <1>4, <1>5, <1>6, <1>7 DEF Heartbeat, Valid, Pull, Begin

\* The service's own steps and the task requests do too.
LEMMA ServiceKeepsRunning ==
    ASSUME TypeOK, NEW r \in RunIds, r < nextRun,
           runs[r].state = "running", runs[r].worker \in alive,
           Tick \/ ServiceRestart \/ (\E t \in TaskIds : ManageTask(t))
    PROVE  RunsOn(runs[r], runs'[r])
<1>1. runs \in [RunIds -> Runs] /\ Settled \in [RunIds -> Runs] /\ nextRun \in Int
  BY SettledFacts DEF TypeOK, Settled
<1>2. CASE Tick
  <2>1. PICK n \in Nat :
          \A q \in RunIds \ (nextRun..(nextRun + n - 1)) : runs'[q] = Settled[q]
    BY <1>2, TickFacts
  <2>2. r \notin nextRun..(nextRun + n - 1)
    BY <1>1 DEF RunIds
  <2>3. Settled[r] = runs[r]
    BY <1>1, SettleKeepsRunning DEF Settled
  <2>. QED
    BY <2>1, <2>2, <2>3 DEF RunsOn
<1>3. CASE runs' = runs
  BY <1>3 DEF RunsOn
<1>4. ASSUME NEW t \in TaskIds, PauseTask(t) PROVE RunsOn(runs[r], runs'[r])
  BY <1>1, <1>4, SettleKeepsRunning DEF PauseTask, RunsOn
<1>5. ASSUME NEW t \in TaskIds, QueueEvent(t) PROVE RunsOn(runs[r], runs'[r])
  <2>1. r # nextRun
    BY <1>1 DEF RunIds
  <2>. QED
    BY <1>1, <1>5, <2>1 DEF QueueEvent, RunsOn
<1>. QED
  BY <1>2, <1>3, <1>4, <1>5
  DEF ServiceRestart, ManageTask, CreateTask, StartTask, StopTask, ResumeTask, SetTimerPeriod,
      SetExecutor, DeleteTask, TimerComesDue

\* What a token was, it stays.
LEMMA TokensKeep ==
    ASSUME QInv, QInv', [ServiceNext]_vars, NEW token \in Tokens
    PROVE  /\ Old(token) => Old(token)'
           /\ Old(token) /\ Dead(token) => Dead(token)'
           /\ Begun(token) => Begun(token)'
<1>1. token[1] \in RunIds /\ token[1] \in Int /\ token[2] \in Int
  BY ConstantsAreSane DEF Tokens, RunIds, Offers
<1>2. nextRun \in Int /\ nextRun' \in Int /\ nextRun' >= nextRun
  BY NextRunGrows DEF QInv
<1>. DEFINE a == runs[token[1]]
            b == runs'[token[1]]
<1>3. a \in Runs /\ b \in Runs /\ a.grants \in Int /\ b.grants \in Int /\ b.offer \in Int
  BY <1>1, ConstantsAreSane DEF QInv, IInv, TypeOK, Runs, Offers
<1>4. token[1] < nextRun => token[1] < nextRun' /\ GrantEdge(a, b) /\ Forward(a, b)
  BY <1>1, <1>2, NextGrants, NextForward DEF QInv, IInv
<1>5. a.state \in {"absent", "pending", "offered", "running"} \cup TERMINAL
  BY <1>3 DEF Runs, Unfinished
<1>. HIDE DEF a, b
<1>6. Old(token) <=> token[1] < nextRun /\ (a.state # "absent" => token[2] <= a.grants)
  BY DEF Old, a
<1>7. Old(token)' <=> token[1] < nextRun' /\ (b.state # "absent" => token[2] <= b.grants)
  BY DEF Old, b
<1>8. Dead(token) <=> ~(a.state \in Granted /\ a.worker = Native /\ a.offer = token[2])
  BY DEF Dead, a
<1>9. Dead(token)' <=> ~(b.state \in Granted /\ b.worker = Native /\ b.offer = token[2])
  BY DEF Dead, b
<1>10. Begun(token) <=> /\ token[1] < nextRun /\ a.state \notin {"pending", "offered"}
                        /\ a.state = "running" => a.worker = Native /\ a.offer = token[2]
  BY DEF Begun, RunningUnder, a
<1>11. Begun(token)' <=> /\ token[1] < nextRun' /\ b.state \notin {"pending", "offered"}
                         /\ b.state = "running" => b.worker = Native /\ b.offer = token[2]
  BY DEF Begun, RunningUnder, b
<1>12. Old(token) => Old(token)'
  BY <1>1, <1>3, <1>4, <1>6, <1>7 DEF GrantEdge
<1>13. Old(token) /\ Dead(token) => Dead(token)'
  <2>1. Granted \subseteq {"offered", "running"} /\ "absent" \notin Granted
    BY DEF Granted
  <2>. QED
    BY <1>1, <1>3, <1>4, <1>6, <1>8, <1>9, <2>1 DEF GrantEdge
<1>14. Begun(token) => Begun(token)'
  BY <1>4, <1>5, <1>10, <1>11 DEF Forward, TERMINAL
<1>. QED
  BY <1>12, <1>13, <1>14

\* A FINISH, whoever sends it and whatever it finds, is the last one to count.
LEMMA FinishKills ==
    ASSUME TypeOK, NEW r \in RunIds, NEW offer \in Offers, NEW outcome \in TERMINAL,
           Finish(Native, r, offer, outcome)
    PROVE  Dead(<<r, offer>>)'
<1>1. Settled \in [RunIds -> Runs]
  BY SettledFacts DEF Settled
<1>2. outcome \in Unfinished \cup TERMINAL /\ outcome \notin Granted
  BY DEF TERMINAL, Granted
<1>3. CASE runs' = Settled /\ (~Holds(Settled, Native, r, offer) \/ Settled[r].state \in TERMINAL)
  BY <1>3 DEF Dead, Holds, Granted, TERMINAL
<1>4. CASE runs' = [Settled EXCEPT ![r] = ReturnPending(@)]
  <2>1. runs'[r].state = "pending"
    BY <1>1, <1>4, ReturnPendingFacts
  <2>. QED
    BY <2>1 DEF Dead, Granted
<1>5. CASE runs' = [Settled EXCEPT ![r].state = outcome]
  <2>1. runs'[r].state = outcome
    BY <1>1, <1>2, <1>5, FieldUpdate
  <2>. QED
    BY <1>2, <2>1 DEF Dead
<1>. QED
  BY <1>3, <1>4, <1>5 DEF Finish

\* What MayBegin accepts runs under the caller's token.
LEMMA BeginRuns ==
    ASSUME TypeOK, NEW r \in RunIds, NEW offer \in Offers, Begin(Native, r, offer),
           MayBegin(Settled, Native, r, offer)
    PROVE  RunningUnder(<<r, offer>>)'
<1>1. Settled \in [RunIds -> Runs]
  BY SettledFacts DEF Settled
<1>2. runs' = [Settled EXCEPT ![r].state = "running"] /\ "running" \in Unfinished \cup TERMINAL
  BY DEF Begin, Unfinished
<1>3. /\ runs'[r].state = "running"
      /\ runs'[r].worker = Settled[r].worker /\ runs'[r].offer = Settled[r].offer
  BY <1>1, <1>2, FieldUpdate
<1>. QED
  BY <1>3 DEF MayBegin, Holds, RunningUnder

LEMMA ValidRuns ==
    ASSUME TypeOK, NEW r \in RunIds, NEW offer \in Offers, Valid(Native),
           MayBegin(Settled, Native, r, offer), Begun(<<r, offer>>)
    PROVE  RunningUnder(<<r, offer>>)'
<1>1. SettleEdge(runs[r], Settled[r])
  BY SettledFacts DEF Settled
<1>2. runs[r].state \notin {"pending", "offered"}
  BY DEF Begun
<1>3. Settled[r].state = "running"
  BY <1>1, <1>2 DEF MayBegin, Granted, SettleEdge
<1>. QED
  BY <1>3 DEF MayBegin, Holds, RunningUnder, Valid

\* The offer a pull returns is new: none of its tokens was given out before.
LEMMA PullIsFresh ==
    ASSUME QInv, QInv', OffersMade', NEW skip, NEW taken, NEW tokens,
           taken = {r \in RunIds : <<r, Settled[r].offer>> \in tokens},
           \A token \in tokens : token \in Tokens /\ Old(token),
           Pull(Native, taken, skip), NEW first,
           LET repeated == Repeatable(Settled, Native, taken, skip)
               given == IF repeated # {} THEN repeated ELSE Grantable(Settled, Native, skip)
           IN  first \in given /\ \A q \in given : first <= q
    PROVE  /\ first \in RunIds /\ runs'[first] \in Runs
           /\ runs'[first].state = "offered"
           /\ <<first, runs'[first].offer>> \notin tokens
           /\ first < nextRun' /\ runs'[first].offer <= runs'[first].grants
<1>1. TypeOK /\ TypeOK' /\ Settled \in [RunIds -> Runs] /\ nextRun' \in Int
  BY SettledFacts DEF QInv, IInv, TypeOK, Settled
<1>2. first \in RunIds
  BY DEF Repeatable, Grantable
<1>3. runs'[first].state = "offered" /\ <<first, runs'[first].offer>> \notin tokens
  <2>1. CASE Repeatable(Settled, Native, taken, skip) # {}
    <3>1. runs' = Settled
      BY <2>1 DEF Pull
    <3>. QED
      BY <1>2, <2>1, <3>1 DEF Repeatable
  <2>2. CASE Repeatable(Settled, Native, taken, skip) = {}
    <3>1. PICK r \in Grantable(Settled, Native, skip) :
            /\ \A q \in Grantable(Settled, Native, skip) : r <= q
            /\ Settled[r].grants < MaxOffers
            /\ runs' = Grant(Settled, Native, r)
      BY <2>2 DEF Pull
    <3>2. r = first
      <4>1. r \in RunIds /\ r <= first /\ first <= r
        BY <2>2, <3>1 DEF Grantable
      <4>. QED
        BY <1>2, <4>1 DEF RunIds
    <3>3. runs'[first].state = "offered" /\ runs'[first].offer = Settled[first].grants + 1
      BY <1>1, <1>2, <3>1, <3>2, GrantType, WorkerConstants
    <3>4. Settled[first].state = "pending"
      BY <2>2 DEF Grantable
    <3>5. runs[first].state # "absent" /\ Settled[first].grants = runs[first].grants
      BY <1>1, <1>2, <3>4, SettledFacts DEF Settled, SettleEdge
    <3>6. ASSUME <<first, runs'[first].offer>> \in tokens PROVE FALSE
      <4>1. runs'[first].offer <= runs[first].grants
        BY <3>5, <3>6 DEF Old
      <4>. QED
        BY <1>1, <1>2, <3>3, <3>5, <4>1, ConstantsAreSane DEF TypeOK, Runs, Offers
    <3>. QED
      BY <3>3, <3>6
  <2>. QED
    BY <2>1, <2>2
<1>4. first < nextRun'
  BY <1>1, <1>2, <1>3 DEF QInv, IInv, JournalIsPrefix, RunIds
<1>5. runs'[first].offer <= runs'[first].grants
  BY <1>2, <1>3 DEF OffersMade
<1>. QED
  BY <1>1, <1>2, <1>3, <1>4, <1>5 DEF TypeOK

-----------------------------------------------------------------------------
(* Requests.                                                               *)

RequestType == [kind : {"begin", "valid", "finish", "publish"}, run : RunIds,
                offer : Offers, outcome : TERMINAL \cup {"none"}]

\* A request is a step of the service and its store.  It leaves the RUN of any
\* other token running, and a FINISH settles its own.
LEMMA ExecuteFacts ==
    ASSUME TypeOK, NEW q \in RequestType, q.kind = "finish" => q.outcome \in TERMINAL, Execute(q)
    PROVE  /\ StoreNext
           /\ UNCHANGED <<nextRun, alive>>
           /\ q.kind = "finish" => Dead(Asked(q))'
           /\ \A token \in Tokens :
                RunningUnder(token) /\ Native \in alive /\ (q.kind = "finish" => Asked(q) # token)
                => RunningUnder(token)'
<1>1. Native \in Workers /\ q.run \in RunIds /\ q.offer \in Offers
  BY WorkerConstants DEF RequestType
<1>2. StoreNext
  BY <1>1 DEF Execute, StoreNext, ServiceNext, WorkerRequest, WorkerStep
<1>3. UNCHANGED <<nextRun, alive>>
  BY DEF Execute, Begin, Valid, Finish, Publish, management
<1>4. q.kind = "finish" => Dead(Asked(q))'
  <2>. SUFFICES ASSUME q.kind = "finish" PROVE Dead(<<q.run, q.offer>>)'
    BY DEF Asked
  <2>1. Finish(Native, q.run, q.offer, q.outcome)
    BY DEF Execute
  <2>. QED
    BY <1>1, <2>1, FinishKills
<1>5. ASSUME NEW token \in Tokens, RunningUnder(token), Native \in alive,
             q.kind = "finish" => Asked(q) # token
      PROVE  RunningUnder(token)'
  <2>1. /\ token[1] \in RunIds /\ token = <<token[1], runs[token[1]].offer>>
        /\ runs[token[1]].state = "running" /\ runs[token[1]].worker = Native
    BY <1>5 DEF Tokens, RunningUnder
  <2>2. Publish(Native, q.run, q.offer) => Valid(Native)
    BY DEF Publish, Valid
  <2>3. \/ Valid(Native) \/ Begin(Native, q.run, q.offer)
        \/ Finish(Native, q.run, q.offer, q.outcome) /\ <<q.run, q.offer>> # token
           /\ q.outcome \in TERMINAL
    BY <1>5, <2>2 DEF Execute, Asked
  <2>4. RunsOn(runs[token[1]], runs'[token[1]])
    BY <1>1, <1>5, <2>1, <2>3, OwnKeepRunning
  <2>. QED
    BY <1>5, <2>4 DEF RunsOn, RunningUnder
<1>. QED
  BY <1>2, <1>3, <1>4, <1>5

LEMMA RequestFacts ==
    ASSUME TypeOK, NEW q \in RequestType, q.kind = "finish" => q.outcome \in TERMINAL,
           Answered(q) \/ Unanswered(q)
    PROVE  /\ StoreNext \/ UNCHANGED qvars
           /\ late' \subseteq late \cup {q}
           /\ UNCHANGED alive
           /\ Answered(q) /\ q.kind = "finish" => Dead(Asked(q))'
           /\ \A token \in Tokens :
                RunningUnder(token) /\ Native \in alive /\ (q.kind = "finish" => Asked(q) # token)
                => RunningUnder(token)'
<1>1. CASE Execute(q) /\ late' = late
  BY <1>1, ExecuteFacts
<1>2. CASE UNCHANGED qvars /\ ~Execute(q)
  <2>1. late' \subseteq late \cup {q}
    BY <1>2 DEF Answered, Unanswered
  <2>2. runs' = runs /\ alive' = alive
    BY <1>2 DEF qvars, vars
  <2>3. ~Answered(q)
    BY <1>2 DEF Answered
  <2>. QED
    BY <1>2, <2>1, <2>2, <2>3 DEF RunningUnder
<1>3. CASE Execute(q) /\ UNCHANGED qvars
  <2>1. late' \subseteq late \cup {q}
    BY <1>3 DEF Answered, Unanswered
  <2>. QED
    BY <1>3, <2>1, ExecuteFacts
<1>. QED
  BY <1>1, <1>2, <1>3 DEF Answered, Unanswered

\* A state with the local invariant names tokens only.
LEMMA LocalTokens ==
    ASSUME NTypeOK
    PROVE  /\ Held \subseteq Tokens /\ Considered \subseteq Tokens
           /\ seen \subseteq Tokens /\ defers \subseteq Tokens
           /\ \A x \in queued \cup fins : Token(x) \in Tokens /\ x.run \in RunIds /\ x.offer \in Offers
           /\ \A q \in late : q \in RequestType /\ Asked(q) \in Tokens
           /\ Busy => Held = {Token(job)} /\ job.run \in RunIds /\ job.offer \in Offers
           /\ job = NoJob <=> ~Busy
<1>1. Held \subseteq Tokens /\ (Busy => Held = {Token(job)} /\ job.run \in RunIds /\ job.offer \in Offers)
  BY DEF NTypeOK, Held, Busy, Token, NoJob, Tokens
<1>2. Considered \subseteq Tokens
  <2>1. poll.run \in RunIds /\ poll.event.offer \in Offers
    BY DEF NTypeOK, Runs
  <2>. QED
    BY <2>1 DEF Considered, Tokens
<1>3. \A x \in queued \cup fins : Token(x) \in Tokens /\ x.run \in RunIds /\ x.offer \in Offers
  BY DEF NTypeOK, Token, Tokens
<1>4. \A q \in late : q \in RequestType /\ Asked(q) \in Tokens
  BY DEF NTypeOK, Asked, Tokens, RequestType
<1>5. job = NoJob <=> ~Busy
  BY DEF NTypeOK, NoJob, Busy
<1>. QED
  BY <1>1, <1>2, <1>3, <1>4, <1>5 DEF NTypeOK

-----------------------------------------------------------------------------
(* How the parts of the invariant survive a step of either thread.         *)

LEMMA Stable ==
    ASSUME WInv, QInv', [ServiceNext]_vars
    PROVE  /\ \A token \in Tokens : /\ Old(token) => Old(token)'
                                    /\ Old(token) /\ Dead(token) => Dead(token)'
                                    /\ Begun(token) => Begun(token)'
           /\ \A r \in RunIds : calls[r] = 1 => /\ r < nextRun'
                                                /\ runs'[r].state \notin {"pending", "offered"}
           /\ \A token \in Tokens : NotCalled(token) => \/ calls[token[1]] = 0
                                                       \/ ~RunningUnder(token)'
<1>1. \A token \in Tokens : /\ Old(token) => Old(token)'
                            /\ Old(token) /\ Dead(token) => Dead(token)'
                            /\ Begun(token) => Begun(token)'
  BY TokensKeep DEF WInv
<1>2. ASSUME NEW r \in RunIds, calls[r] = 1
      PROVE  /\ r < nextRun'
             /\ runs'[r].state = "running" => runs'[r] = runs[r]
             /\ runs'[r].state \notin {"pending", "offered"}
  <2>1. r < nextRun /\ runs[r].state \notin {"pending", "offered"}
    BY <1>2 DEF WInv, LocalInv, Called
  <2>2. nextRun \in Int /\ nextRun' \in Int /\ nextRun' >= nextRun /\ Forward(runs[r], runs'[r])
    BY <2>1, NextRunGrows, NextForward DEF WInv, QInv
  <2>3. runs[r].state \in {"absent", "running"} \cup TERMINAL
    BY <2>1 DEF WInv, QInv, IInv, TypeOK, Runs, Unfinished
  <2>4. /\ runs'[r].state = "running" => runs'[r] = runs[r]
        /\ runs'[r].state \notin {"pending", "offered"}
    BY <2>2, <2>3 DEF Forward, TERMINAL
  <2>. QED
    BY <2>1, <2>2, <2>4 DEF RunIds
<1>3. ASSUME NEW token \in Tokens, NotCalled(token), calls[token[1]] # 0
      PROVE  ~RunningUnder(token)'
  <2>1. token[1] \in RunIds /\ calls[token[1]] = 1 /\ ~RunningUnder(token)
    BY <1>3 DEF Tokens, NotCalled, WInv, LocalInv, NTypeOK
  <2>. QED
    BY <1>2, <2>1 DEF RunningUnder
<1>. QED
  BY <1>1, <1>2, <1>3

LEMMA LateKeeps ==
    ASSUME WInv, QInv', [ServiceNext]_vars,
           \A q \in late' : \/ q \in late
                            \/ q.kind = "finish" => \/ Asked(q) \in defers
                                                    \/ \E f \in fins : Asked(q) = Token(f),
           \A f \in fins : (\E g \in fins' : Token(f) = Token(g)) \/ Dead(Token(f))',
           \A token \in defers : token \in defers' \/ Dead(token)'
    PROVE  LateFinishes'
<1>. SUFFICES ASSUME NEW q \in late', q.kind = "finish"
              PROVE  /\ Old(Asked(q))'
                     /\ \/ \E f \in fins' : Asked(q) = Token(f)
                        \/ Asked(q) \in defers'
                        \/ Dead(Asked(q))'
  BY DEF LateFinishes
<1>1. NTypeOK /\ LateFinishes /\ Counted /\ Polled
  BY DEF WInv, LocalInv
<1>2. /\ Old(Asked(q)) /\ Asked(q) \in Tokens
      /\ \/ \E f \in fins : Asked(q) = Token(f)
         \/ Asked(q) \in defers
         \/ Dead(Asked(q))
  <2>1. CASE q \in late
    BY <1>1, <2>1, LocalTokens DEF LateFinishes
  <2>2. CASE Asked(q) \in defers
    BY <1>1, <2>2, LocalTokens DEF Polled
  <2>3. ASSUME NEW f \in fins, Asked(q) = Token(f)
        PROVE  Old(Asked(q)) /\ Asked(q) \in Tokens
    BY <1>1, <2>3, LocalTokens DEF Counted
  <2>. QED
    BY <2>1, <2>2, <2>3
<1>3. Old(Asked(q))' /\ (Dead(Asked(q)) => Dead(Asked(q))')
  <2>. DEFINE token == Asked(q)
  <2>1. token \in Tokens /\ Old(token)
    BY <1>2
  <2>2. Old(token)' /\ (Dead(token) => Dead(token)')
    BY <2>1, Stable
  <2>. QED
    BY <2>2
<1>. QED
  BY <1>2, <1>3

LEMMA PolledKeeps ==
    ASSUME WInv, QInv', [ServiceNext]_vars, calls' = calls,
           seen' \subseteq seen, defers' \subseteq defers, Considered' \subseteq Considered,
           poll'.todo \subseteq fins'
    PROVE  Polled'
<1>1. NTypeOK /\ Polled
  BY DEF WInv, LocalInv
<1>2. \A token \in defers' : token \notin seen' /\ Old(token)'
  BY <1>1, LocalTokens, Stable DEF Polled
<1>3. \A token \in Considered' : defers' = {} /\ token \notin seen' /\ Old(token)'
  BY <1>1, LocalTokens, Stable DEF Polled
<1>4. ASSUME NEW token \in Considered' PROVE NotCalled(token)'
  <2>1. token \in Tokens /\ NotCalled(token)
    BY <1>1, LocalTokens DEF Polled
  <2>. QED
    BY <2>1, Stable DEF NotCalled
<1>. QED
  BY <1>2, <1>3, <1>4 DEF Polled

LEMMA QueueUncalled ==
    ASSUME WInv, QInv', [ServiceNext]_vars, calls' = calls, NEW x \in queued
    PROVE  NotCalled(Token(x))'
<1>. DEFINE token == Token(x)
<1>1. token \in Tokens /\ NotCalled(token)
  BY LocalTokens DEF WInv, LocalInv, Called
<1>. HIDE DEF token
<1>2. NotCalled(token)'
  BY <1>1, Stable DEF NotCalled
<1>. QED
  BY <1>2 DEF token

LEMMA CalledKeeps ==
    ASSUME WInv, QInv', [ServiceNext]_vars, calls' = calls, queued' \subseteq queued,
           \/ job' = NoJob
           \/ /\ job' = job
              /\ \A token \in Held : RunningUnder(token) => RunningUnder(token)'
    PROVE  Called'
<1>1. NTypeOK /\ Called
  BY DEF WInv, LocalInv
<1>2. \A r \in RunIds : calls'[r] = 1 => /\ r < nextRun'
                                         /\ runs'[r].state \notin {"pending", "offered"}
  BY Stable
<1>3. \A token \in Tokens : NotCalled(token) => NotCalled(token)'
  BY Stable DEF NotCalled
<1>4. \A x \in queued' : NotCalled(Token(x))'
  BY QueueUncalled
<1>5. CASE job' = NoJob
  <2>1. Held' = {}
    BY <1>5 DEF Held, Busy, NoJob
  <2>. QED
    BY <1>2, <1>4, <2>1 DEF Called
<1>6. CASE job' = job /\ \A token \in Held : RunningUnder(token) => RunningUnder(token)'
  <2>1. Held' = Held
    BY <1>6 DEF Held, Busy, Token
  <2>2. \A token \in Held : token \in Tokens
    BY <1>1, LocalTokens
  <2>. QED
    BY <1>1, <1>2, <1>3, <1>4, <1>6, <2>1, <2>2, Stable DEF Called
<1>. QED
  BY <1>5, <1>6

-----------------------------------------------------------------------------
(* The steps.                                                              *)

\* A step of which the two threads know nothing.
LEMMA ElsewhereKeeps ==
    ASSUME WInv, QInv', [ServiceNext]_vars, UNCHANGED <<local, stage, calls, answered>>,
           late' \subseteq late, Native \in alive => Native \in alive',
           \A token \in Held : RunningUnder(token) => RunningUnder(token)'
    PROVE  LocalInv'
<1>1. /\ seen' = seen /\ reserved' = reserved /\ queued' = queued /\ job' = job
      /\ fins' = fins /\ answers' = answers /\ defers' = defers /\ deferred' = deferred
      /\ poll' = poll /\ stage' = stage /\ calls' = calls /\ answered' = answered
  BY DEF local
<1>2. NTypeOK /\ Distinct /\ Counted /\ Polled
  BY DEF WInv, LocalInv
<1>3. Held' = Held /\ Considered' = Considered /\ Busy' = Busy
  BY <1>1 DEF Held, Considered, Busy, Token
<1>4. NTypeOK'
  BY <1>1, <1>2 DEF NTypeOK
<1>5. Distinct'
  BY <1>1, <1>2, <1>3 DEF Distinct
<1>6. Counted'
  BY <1>1, <1>2, <1>3, LocalTokens, Stable DEF Counted
<1>7. Polled'
  BY <1>1, <1>2, <1>3, PolledKeeps DEF Polled
<1>8. Called'
  BY <1>1, CalledKeeps
<1>9. LateFinishes'
  BY <1>1, LateKeeps
<1>. QED
  BY <1>4, <1>5, <1>6, <1>7, <1>8, <1>9 DEF LocalInv

LEMMA ElsewhereStep ==
    ASSUME WInv, QInv', Elsewhere
    PROVE  LocalInv'
<1>1. [ServiceNext]_vars /\ UNCHANGED <<local, stage, calls, answered>> /\ late' \subseteq late
  BY WorkerConstants DEF Elsewhere, ServiceNext, WorkerRequest, WorkerStep
<1>2. Native \in alive => Native \in alive'
  BY DEF Elsewhere, Tick, ServiceRestart, LeaseExpires, ManageTask, CreateTask, StartTask, StopTask,
         ResumeTask, PauseTask, SetEnabled, SetTimerPeriod, SetExecutor, DeleteTask, QueueEvent,
         TimerComesDue, WorkerStep, Heartbeat, Offline, Pulls, Pull, Begin, Valid, Finish, ProcessDies
<1>3. ASSUME NEW token \in Held, RunningUnder(token) PROVE RunningUnder(token)'
  <2>1. /\ token[1] \in RunIds /\ runs[token[1]].state = "running"
        /\ runs[token[1]].worker = Native /\ Native \in alive
    BY <1>3, LocalTokens DEF WInv, LocalInv, Counted, Held, Tokens, RunningUnder
  <2>2. TypeOK /\ token[1] < nextRun
    <3>1. nextRun \in Int /\ (token[1] >= nextRun => runs[token[1]].state = "absent")
      BY <2>1 DEF WInv, QInv, IInv, TypeOK, JournalIsPrefix
    <3>. QED
      BY <2>1, <3>1 DEF WInv, QInv, IInv, RunIds
  <2>3. RunsOn(runs[token[1]], runs'[token[1]])
    <3>1. CASE LeaseExpires(Native)
      BY <2>1, <3>1 DEF LeaseExpires, RunsOn
    <3>2. ASSUME NEW w \in Workers \ {Native}, WorkerStep(w)
          PROVE  RunsOn(runs[token[1]], runs'[token[1]])
      BY <2>1, <2>2, <3>2, OthersKeepRunning DEF WorkerRequest
    <3>. QED
      BY <2>1, <2>2, <3>1, <3>2, ServiceKeepsRunning DEF Elsewhere
  <2>. QED
    BY <1>3, <2>3 DEF RunsOn, RunningUnder
<1>. QED
  BY <1>1, <1>2, <1>3, ElsewhereKeeps

LEMMA AcknowledgeStep ==
    ASSUME WInv, QInv', NEW r \in RunIds, AcknowledgeAnswer(r)
    PROVE  LocalInv'
<1>1. UNCHANGED vars /\ UNCHANGED <<local, late, stage, calls, answered>>
  BY DEF AcknowledgeAnswer, Acknowledge
<1>2. alive' = alive /\ runs' = runs
  BY <1>1 DEF vars
<1>. QED
  BY <1>1, <1>2, ElsewhereKeeps DEF RunningUnder

\* A late FINISH is never of the job in hand.
LEMMA LateStep ==
    ASSUME WInv, QInv', NEW q \in late, ExecuteLate(q)
    PROVE  LocalInv'
<1>1. /\ NTypeOK /\ Distinct /\ Counted /\ Polled /\ LateFinishes /\ TypeOK
      /\ q \in RequestType /\ Asked(q) \in Tokens
      /\ q.kind = "finish" => q.outcome \in TERMINAL
  BY LocalTokens DEF WInv, LocalInv, QInv, IInv, NTypeOK
<1>2. StoreNext /\ alive' = alive
  BY <1>1, ExecuteFacts DEF ExecuteLate
<1>3. [ServiceNext]_vars
  BY <1>2, StoreServes
<1>4. ASSUME NEW token \in Held, RunningUnder(token) PROVE RunningUnder(token)'
  <2>1. token \in Tokens /\ Busy /\ token \in seen /\ Native \in alive
    BY <1>1, <1>4, LocalTokens DEF Counted, Held
  <2>2. q.kind = "finish" => Asked(q) # token
    <3>1. token \notin defers
      BY <1>1, <2>1 DEF Polled
    <3>2. \A f \in fins : Token(f) # token
      BY <1>1, <1>4 DEF Distinct
    <3>3. ~Dead(token)
      BY <1>4 DEF Dead, RunningUnder, Granted
    <3>. QED
      BY <1>1, <3>1, <3>2, <3>3 DEF LateFinishes
  <2>. QED
    BY <1>1, <1>4, <2>1, <2>2, ExecuteFacts DEF ExecuteLate
<1>. QED
  BY <1>2, <1>3, <1>4, ElsewhereKeeps DEF ExecuteLate

\* The scheduler hands a job to the model thread, or drops it.
LEMMA TakeJobStep ==
    ASSUME WInv, QInv', NEW j \in queued, TakeJob(j)
    PROVE  LocalInv'
<1>1. /\ NTypeOK /\ Distinct /\ Counted /\ Polled /\ Called
      /\ [ServiceNext]_vars
  BY DEF WInv, LocalInv, TakeJob, qvars, vars
<1>2. /\ queued' = queued \ {j} /\ fins' = fins /\ answers' = answers /\ defers' = defers
      /\ deferred' = deferred /\ poll' = poll /\ late' = late /\ stage' = stage
      /\ calls' = calls /\ answered' = answered /\ runs' = runs /\ alive' = alive
      /\ nextRun' = nextRun /\ ~Busy
  BY <1>1, LocalTokens DEF TakeJob, qvars, vars
<1>3. Held = {} /\ Considered' = Considered /\ poll'.todo \subseteq fins'
  BY <1>1, <1>2 DEF Held, Considered, Polled
<1>4. LateFinishes'
  BY <1>1, <1>2, LateKeeps
<1>5. CASE job' = [step |-> "begin", run |-> j.run, offer |-> j.offer, agent |-> j.agent]
           /\ UNCHANGED <<seen, reserved>>
  <2>1. Busy' /\ Held' = {Token(j)} /\ job'.agent = j.agent /\ job'.step = "begin"
    BY <1>5 DEF Busy, Held, Token
  <2>2. NTypeOK'
    BY <1>1, <1>2, <1>5 DEF NTypeOK
  <2>3. Distinct'
    BY <1>1, <1>2, <2>1 DEF Distinct
  <2>4. Counted'
    <3>1. \A token \in seen' : Old(token)'
      BY <1>1, <1>5, LocalTokens, Stable DEF Counted
    <3>. QED
      BY <1>1, <1>2, <1>3, <1>5, <2>1, <3>1 DEF Counted
  <2>5. Polled'
    BY <1>1, <1>2, <1>3, <1>5, PolledKeeps
  <2>6. Called'
    BY <1>1, <1>2, <2>1 DEF Called, NotCalled, RunningUnder
  <2>. QED
    BY <1>4, <2>2, <2>3, <2>4, <2>5, <2>6 DEF LocalInv
<1>6. CASE seen' = seen \ {Token(j)} /\ reserved' = reserved \ {j.agent} /\ job' = job
  <2>1. ~Busy' /\ Held' = {} /\ job' = NoJob
    BY <1>1, <1>2, <1>6, LocalTokens DEF Busy, Held, Token
  <2>2. NTypeOK'
    BY <1>1, <1>2, <1>6 DEF NTypeOK
  <2>3. Distinct'
    BY <1>1, <1>2, <2>1 DEF Distinct
  <2>4. Counted'
    <3>1. \A token \in seen' : Old(token)'
      BY <1>1, <1>6, LocalTokens, Stable DEF Counted
    <3>. QED
      BY <1>1, <1>2, <1>3, <1>6, <2>1, <3>1 DEF Counted, Distinct
  <2>5. Polled'
    BY <1>1, <1>2, <1>3, <1>6, PolledKeeps
  <2>6. Called'
    BY <1>1, <1>2, <2>1, CalledKeeps
  <2>. QED
    BY <1>4, <2>2, <2>3, <2>4, <2>5, <2>6 DEF LocalInv
<1>. QED
  BY <1>2, <1>5, <1>6 DEF TakeJob

\* The job in hand becomes a FINISH to send.
LEMMA CloseJobKeeps ==
    ASSUME WInv, QInv', [ServiceNext]_vars, Busy, NEW outcome \in TERMINAL, CloseJob(outcome),
           UNCHANGED <<seen, queued, defers, poll, stage, calls, alive>>,
           deferred' \subseteq RunIds, answers' \subseteq Tokens, answered' \subseteq RunIds,
           \A q \in late' : q \in late \/ (q \in RequestType /\ q.kind # "finish")
    PROVE  LocalInv'
<1>. DEFINE new == [run |-> job.run, offer |-> job.offer, outcome |-> outcome]
<1>1. NTypeOK /\ Distinct /\ Counted /\ Polled
  BY DEF WInv, LocalInv
<1>2. /\ seen' = seen /\ queued' = queued /\ defers' = defers /\ poll' = poll
      /\ stage' = stage /\ calls' = calls /\ alive' = alive
      /\ job' = NoJob /\ reserved' = reserved \ {job.agent} /\ fins' = fins \cup {new}
  BY DEF CloseJob
<1>3. /\ ~Busy' /\ Held' = {} /\ Held = {Token(job)} /\ Considered' = Considered
      /\ Token(new) = Token(job)
      /\ new \in [run : RunIds, offer : Offers, outcome : TERMINAL]
  BY <1>1, <1>2, LocalTokens DEF Busy, Held, NoJob, Considered, Token
<1>. HIDE DEF new
<1>4. NTypeOK'
  BY <1>1, <1>2, <1>3 DEF NTypeOK, RequestType
<1>5. Distinct'
  BY <1>1, <1>2, <1>3 DEF Distinct
<1>6. Counted'
  <2>1. \A token \in seen' : Old(token)'
    BY <1>1, <1>2, LocalTokens, Stable DEF Counted
  <2>. QED
    BY <1>1, <1>2, <1>3, <2>1 DEF Counted, Distinct
<1>7. Polled'
  BY <1>1, <1>2, <1>3, PolledKeeps DEF Polled
<1>8. Called'
  BY <1>2, CalledKeeps
<1>9. LateFinishes'
  BY <1>2, LateKeeps
<1>. QED
  BY <1>4, <1>5, <1>6, <1>7, <1>8, <1>9 DEF LocalInv

\* The job in hand goes a step further.
LEMMA JobStepKeeps ==
    ASSUME WInv, QInv', [ServiceNext]_vars, Busy, NEW step \in {"begin", "valid", "agent"},
           job' = [job EXCEPT !.step = step], Called',
           UNCHANGED <<seen, reserved, queued, fins, answers, defers, deferred, poll, stage,
                       late, alive, answered>>,
           calls' \in [RunIds -> {0, 1}],
           \A token \in Considered : NotCalled(token)'
    PROVE  LocalInv'
<1>1. NTypeOK /\ Distinct /\ Counted /\ Polled
  BY DEF WInv, LocalInv
<1>2. /\ job.run \in RunIds /\ job.offer \in Offers /\ job.agent \in Agents
      /\ job \in [step : {"begin", "valid", "agent"}, run : RunIds, offer : Offers, agent : Agents]
  BY <1>1 DEF NTypeOK, Busy, NoJob
<1>3. /\ Busy' /\ Held' = Held /\ job'.agent = job.agent /\ Considered' = Considered
      /\ job' \in [step : {"begin", "valid", "agent"}, run : RunIds, offer : Offers, agent : Agents]
  BY <1>2 DEF Busy, Held, Token, Considered
<1>4. NTypeOK'
  BY <1>1, <1>3 DEF NTypeOK
<1>5. Distinct'
  BY <1>1, <1>3 DEF Distinct
<1>6. Counted'
  <2>1. \A token \in seen' : Old(token)'
    BY <1>1, LocalTokens, Stable DEF Counted
  <2>. QED
    BY <1>1, <1>3, <2>1 DEF Counted
<1>7. Polled'
  BY <1>1, <1>3, LocalTokens, Stable DEF Polled
<1>8. LateFinishes'
  BY LateKeeps
<1>. QED
  BY <1>4, <1>5, <1>6, <1>7, <1>8 DEF LocalInv

\* What is needed of the request of the job in hand.
LEMMA JobRequest ==
    ASSUME WInv, Busy, NEW kind \in {"begin", "valid"},
           LET q == Request(kind, Token(job), "none") IN Answered(q) \/ Unanswered(q)
    PROVE  /\ [ServiceNext]_vars
           /\ alive' = alive
           /\ \A x \in late' : x \in late \/ (x \in RequestType /\ x.kind # "finish")
<1>. DEFINE q == Request(kind, Token(job), "none")
<1>1. job.run \in RunIds /\ job.offer \in Offers /\ TypeOK
  BY LocalTokens DEF WInv, LocalInv, QInv, IInv
<1>2. q \in RequestType /\ q.kind # "finish"
  BY <1>1 DEF Request, Token, RequestType
<1>3. (StoreNext \/ UNCHANGED qvars) /\ late' \subseteq late \cup {q} /\ alive' = alive
  BY <1>1, <1>2, RequestFacts
<1>. QED
  BY <1>2, <1>3, StoreServes

LEMMA BeginJobStep ==
    ASSUME WInv, QInv', BeginJob
    PROVE  LocalInv'
<1>. DEFINE q == Request("begin", Token(job), "none")
<1>1. /\ NTypeOK /\ Distinct /\ Counted /\ Polled /\ Called /\ TypeOK
      /\ Busy /\ job.step = "begin" /\ Held = {Token(job)}
      /\ job.run \in RunIds /\ job.offer \in Offers
  BY LocalTokens DEF WInv, LocalInv, BeginJob, Busy, QInv, IInv
<1>2. /\ UNCHANGED <<seen, queued, answers, defers, poll, stage, calls, answered>>
      /\ Answered(q) \/ Unanswered(q)
  BY DEF BeginJob
<1>3. /\ [ServiceNext]_vars
      /\ alive' = alive
      /\ \A x \in late' : x \in late \/ (x \in RequestType /\ x.kind # "finish")
  BY <1>1, <1>2, JobRequest
<1>4. ASSUME NEW outcome \in {"cancelled", "interrupted"}, CloseJob(outcome), deferred' \subseteq RunIds
      PROVE  LocalInv'
  BY <1>1, <1>2, <1>3, <1>4, CloseJobKeeps DEF TERMINAL, NTypeOK
<1>5. CASE Unanswered(q) /\ deferred' = deferred \cup {job.run} /\ CloseJob("interrupted")
  BY <1>1, <1>4, <1>5 DEF NTypeOK
<1>6. CASE Answered(q) /\ CloseJob("cancelled") /\ UNCHANGED deferred
  BY <1>1, <1>4, <1>6 DEF NTypeOK
<1>7. CASE /\ Answered(q) /\ MayBegin(Settled, Native, job.run, job.offer)
           /\ job' = [job EXCEPT !.step = "valid"] /\ UNCHANGED <<reserved, fins, deferred>>
  <2>1. Held' = Held /\ job'.step = "valid"
    BY <1>1, <1>7 DEF Held, Busy, Token, NTypeOK, NoJob
  <2>2. ASSUME NEW token \in Held
        PROVE  Begun(token)' /\ calls'[token[1]] = 0
    <3>1. token \in Tokens /\ token = <<job.run, job.offer>> /\ NotCalled(token)
      BY <1>1, LocalTokens DEF Token, Called
    <3>2. RunningUnder(token)'
      <4>1. Begin(Native, token[1], token[2]) /\ MayBegin(Settled, Native, token[1], token[2])
        BY <1>7, <3>1 DEF Answered, Execute, Request, Token
      <4>. QED
        BY <1>1, <3>1, <4>1, BeginRuns DEF Tokens
    <3>3. calls[token[1]] = 0
      BY <1>3, <3>1, <3>2, Stable
    <3>4. token[1] < nextRun'
      BY <3>1, <3>2 DEF Tokens, QInv, IInv, TypeOK, JournalIsPrefix, RunningUnder, RunIds
    <3>. QED
      BY <1>2, <3>2, <3>3, <3>4 DEF Begun, RunningUnder
  <2>3. Called'
    BY <1>1, <1>2, <1>3, <2>1, <2>2, QueueUncalled, Stable DEF Called
  <2>4. \A token \in Considered : NotCalled(token)'
    BY <1>1, <1>2, <1>3, LocalTokens, Stable DEF NotCalled, Polled
  <2>5. late' = late
    BY <1>7 DEF Answered
  <2>. QED
    BY <1>1, <1>2, <1>3, <1>7, <2>3, <2>4, <2>5, JobStepKeeps DEF NTypeOK
<1>. QED
  BY <1>5, <1>6, <1>7 DEF BeginJob

\* Only the run that is validated is counted as called: no other token of it runs.
LEMMA CallsOne ==
    ASSUME WInv, QInv', [ServiceNext]_vars, NEW mine \in Tokens, RunningUnder(mine)',
           calls' = [calls EXCEPT ![mine[1]] = 1],
           NEW token \in Tokens, token # mine, NotCalled(token)
    PROVE  NotCalled(token)'
<1>1. calls \in [RunIds -> {0, 1}] /\ mine[1] \in RunIds /\ token[1] \in RunIds
  BY DEF WInv, LocalInv, NTypeOK, Tokens
<1>2. CASE token[1] = mine[1]
  <2>1. token[2] # mine[2]
    BY <1>2 DEF Tokens
  <2>. QED
    BY <1>2, <2>1 DEF NotCalled, RunningUnder
<1>3. CASE token[1] # mine[1]
  <2>1. calls'[token[1]] = calls[token[1]]
    BY <1>1, <1>3
  <2>. QED
    BY <2>1, Stable DEF NotCalled
<1>. QED
  BY <1>2, <1>3

LEMMA ValidateJobStep ==
    ASSUME WInv, QInv', ValidateJob
    PROVE  LocalInv'
<1>. DEFINE q == Request("valid", Token(job), "none")
<1>1. /\ NTypeOK /\ Distinct /\ Counted /\ Polled /\ Called /\ TypeOK
      /\ Busy /\ job.step = "valid" /\ Held = {Token(job)}
      /\ job.run \in RunIds /\ job.offer \in Offers
  BY LocalTokens DEF WInv, LocalInv, ValidateJob, Busy, QInv, IInv
<1>2. /\ UNCHANGED <<seen, queued, answers, defers, deferred, poll, stage, answered>>
      /\ Answered(q) \/ Unanswered(q)
  BY DEF ValidateJob
<1>3. /\ [ServiceNext]_vars
      /\ alive' = alive
      /\ \A x \in late' : x \in late \/ (x \in RequestType /\ x.kind # "finish")
  BY <1>1, <1>2, JobRequest
<1>4. ASSUME NEW outcome \in TERMINAL, CloseJob(outcome), UNCHANGED calls
      PROVE  LocalInv'
  BY <1>1, <1>2, <1>3, <1>4, CloseJobKeeps DEF NTypeOK
<1>5. CASE /\ Answered(q) /\ MayBegin(Settled, Native, job.run, job.offer)
           /\ job' = [job EXCEPT !.step = "agent"]
           /\ calls' = [calls EXCEPT ![job.run] = @ + 1]
           /\ UNCHANGED <<reserved, fins>>
  <2>1. Held' = Held /\ job'.step = "agent"
    BY <1>1, <1>5 DEF Held, Busy, Token, NTypeOK, NoJob
  <2>2. PICK mine \in Tokens : mine = <<job.run, job.offer>>
    BY <1>1 DEF Tokens
  <2>3. Held = {mine} /\ mine[1] = job.run /\ Begun(mine) /\ calls[mine[1]] = 0
    BY <1>1, <2>2 DEF Token, Called
  <2>4. RunningUnder(mine)'
    <3>1. Valid(Native) /\ MayBegin(Settled, Native, mine[1], mine[2])
      BY <1>5, <2>2 DEF Answered, Execute, Request, Token
    <3>. QED
      BY <1>1, <2>2, <2>3, <3>1, ValidRuns DEF Tokens
  <2>5. calls' = [calls EXCEPT ![mine[1]] = 1] /\ calls' \in [RunIds -> {0, 1}]
    <3>1. calls \in [RunIds -> {0, 1}] /\ calls[job.run] + 1 = 1
      BY <1>1, <2>3 DEF NTypeOK
    <3>. QED
      BY <1>1, <1>5, <2>3, <3>1
  <2>6. calls'[mine[1]] = 1
    BY <1>1, <2>3, <2>5 DEF NTypeOK
  <2>7. \A r \in RunIds : calls'[r] = 1 => /\ r < nextRun'
                                           /\ runs'[r].state \notin {"pending", "offered"}
    <3>1. mine[1] < nextRun' /\ runs'[mine[1]].state = "running"
      BY <2>2, <2>4 DEF Tokens, QInv, IInv, TypeOK, JournalIsPrefix, RunningUnder, RunIds
    <3>2. \A r \in RunIds : r # mine[1] => calls'[r] = calls[r]
      BY <1>1, <2>5 DEF NTypeOK
    <3>. QED
      BY <1>3, <3>1, <3>2, Stable
  <2>8. ASSUME NEW x \in queued' PROVE NotCalled(Token(x))'
    <3>. DEFINE token == Token(x)
    <3>1. token \in Tokens /\ token # mine /\ NotCalled(token)
      BY <1>1, <1>2, <2>3, LocalTokens DEF Called, Distinct
    <3>. HIDE DEF token
    <3>2. NotCalled(token)'
      BY <1>3, <2>4, <2>5, <3>1, CallsOne
    <3>. QED
      BY <3>2 DEF token
  <2>9. Called'
    BY <2>1, <2>3, <2>4, <2>6, <2>7, <2>8 DEF Called
  <2>10. ASSUME NEW token \in Considered PROVE NotCalled(token)'
    <3>1. token \in Tokens /\ token # mine /\ NotCalled(token)
      BY <1>1, <2>3, LocalTokens DEF Polled, Counted
    <3>. QED
      BY <1>3, <2>4, <2>5, <3>1, CallsOne
  <2>11. late' = late
    BY <1>5 DEF Answered
  <2>. QED
    BY <1>1, <1>2, <1>3, <1>5, <2>5, <2>9, <2>10, <2>11, JobStepKeeps
<1>. QED
  BY <1>4, <1>5 DEF ValidateJob, TERMINAL

LEMMA AgentReturnsStep ==
    ASSUME WInv, QInv', AgentReturns
    PROVE  LocalInv'
<1>1. /\ NTypeOK /\ Busy /\ job.run \in RunIds /\ Token(job) \in Tokens
      /\ UNCHANGED <<seen, queued, defers, deferred, poll, late, stage, calls>>
      /\ alive' = alive /\ [ServiceNext]_vars
  BY LocalTokens DEF WInv, LocalInv, AgentReturns, Busy, qvars, vars
<1>2. answers' \subseteq Tokens /\ answered' \subseteq RunIds
  BY <1>1 DEF AgentReturns, NTypeOK
<1>3. PICK outcome \in TERMINAL : CloseJob(outcome)
  BY DEF AgentReturns, TERMINAL
<1>. QED
  BY <1>1, <1>2, <1>3, CloseJobKeeps DEF NTypeOK

PollStates == [at : {"idle", "settle", "offer", "defer", "closing", "offline", "closed"},
               todo : SUBSET [run : RunIds, offer : Offers, outcome : TERMINAL],
               run : RunIds, event : Runs]

LEMMA IdleFacts == Idle \in PollStates /\ Idle.at = "idle" /\ Idle.todo = {}
<1>1. 1 \in RunIds
  BY ConstantsAreSane DEF RunIds
<1>. QED
  BY <1>1, NoRunType DEF Idle, PollStates

\* A step of the poll thread that moves nothing.
LEMMA QuietKeeps ==
    ASSUME WInv, QInv', [ServiceNext]_vars, alive' = alive,
           UNCHANGED <<seen, reserved, queued, job, fins, answers, defers, calls, answered, late>>,
           deferred' \subseteq RunIds, poll' \in PollStates, poll'.todo \subseteq fins,
           Considered' \subseteq Considered,
           stage' \in {"open", "stopping", "drained"}, stage' = "drained" <=> stage = "drained",
           \A token \in Held : RunningUnder(token) => RunningUnder(token)'
    PROVE  LocalInv'
<1>1. NTypeOK /\ Distinct /\ Counted
  BY DEF WInv, LocalInv
<1>2. Held' = Held /\ Busy' = Busy
  BY DEF Held, Busy, Token
<1>3. NTypeOK'
  BY <1>1 DEF NTypeOK, PollStates
<1>4. Distinct'
  BY <1>1, <1>2 DEF Distinct
<1>5. Counted'
  <2>1. \A token \in seen' : Old(token)'
    BY <1>1, LocalTokens, Stable DEF Counted
  <2>. QED
    BY <1>1, <1>2, <2>1 DEF Counted
<1>6. Polled'
  BY PolledKeeps
<1>7. Called'
  BY CalledKeeps
<1>8. LateFinishes'
  BY LateKeeps
<1>. QED
  BY <1>3, <1>4, <1>5, <1>6, <1>7, <1>8 DEF LocalInv

\* A running RUN of the job in hand outlives the worker's own heartbeat and offline.
LEMMA HeldKeepsRunning ==
    ASSUME WInv, NEW token \in Held, RunningUnder(token),
           (\E report : Heartbeat(Native, report)) \/ Offline(Native)
               \/ (\E taken, skip : Pull(Native, taken, skip))
    PROVE  RunningUnder(token)'
<1>1. /\ token[1] \in RunIds /\ runs[token[1]].state = "running"
      /\ runs[token[1]].worker = Native /\ Native \in alive /\ TypeOK
  BY LocalTokens DEF WInv, LocalInv, Counted, Held, Tokens, RunningUnder, QInv, IInv
<1>2. RunsOn(runs[token[1]], runs'[token[1]])
  BY <1>1, WorkerConstants, OwnKeepRunning
<1>. QED
  BY <1>1, <1>2 DEF RunsOn, RunningUnder

LEMMA StartPollStep ==
    ASSUME WInv, QInv', StartPoll
    PROVE  LocalInv'
<1>1. NTypeOK
  BY DEF WInv, LocalInv
<1>2. /\ UNCHANGED <<seen, reserved, queued, job, fins, answers, defers, deferred,
                     late, stage, calls, answered>>
      /\ UNCHANGED qvars \/ Heartbeat(Native, "ready")
  BY DEF StartPoll
<1>3. [ServiceNext]_vars /\ alive' = alive
  BY <1>2, WorkerConstants DEF ServiceNext, WorkerRequest, WorkerStep, qvars, vars, Heartbeat
<1>4. poll' \in PollStates /\ poll'.todo \subseteq fins /\ poll'.at # "offer"
  <2>1. poll' = Idle \/ poll' = [Idle EXCEPT !.at = "settle", !.todo = fins]
    BY DEF StartPoll
  <2>. QED
    BY <1>1, <2>1, IdleFacts DEF NTypeOK, PollStates
<1>5. Considered' = {}
  BY <1>4 DEF Considered
<1>6. ASSUME NEW token \in Held, RunningUnder(token) PROVE RunningUnder(token)'
  <2>1. CASE UNCHANGED qvars
    BY <1>6, <2>1 DEF qvars, vars, RunningUnder
  <2>. QED
    BY <1>2, <1>6, <2>1, HeldKeepsRunning
<1>. QED
  BY <1>1, <1>2, <1>3, <1>4, <1>5, <1>6, QuietKeeps DEF NTypeOK

LEMMA GoOfflineStep ==
    ASSUME WInv, QInv', GoOffline
    PROVE  LocalInv'
<1>1. NTypeOK /\ Polled
  BY DEF WInv, LocalInv
<1>2. [ServiceNext]_vars /\ alive' = alive
  BY WorkerConstants DEF GoOffline, ServiceNext, WorkerRequest, WorkerStep, Offline
<1>3. poll' \in PollStates /\ poll'.todo = poll.todo /\ poll'.at = "closed"
  BY <1>1 DEF GoOffline, NTypeOK, PollStates
<1>4. Considered' = {}
  BY <1>3 DEF Considered
<1>. QED
  BY <1>1, <1>2, <1>3, <1>4, HeldKeepsRunning, QuietKeeps DEF GoOffline, NTypeOK, Polled

LEMMA LocalStep ==
    ASSUME WInv, QInv', CloseWorker \/ RequestStop \/ (\E r \in deferred : DeferralExpires(r))
    PROVE  LocalInv'
<1>1. NTypeOK /\ Polled
  BY DEF WInv, LocalInv
<1>2. [ServiceNext]_vars /\ alive' = alive /\ runs' = runs
  BY DEF CloseWorker, RequestStop, DeferralExpires, qvars, vars
<1>3. poll' \in PollStates /\ poll'.todo \subseteq fins /\ (poll' = poll \/ poll'.at # "offer")
  <2>1. poll' = poll \/ poll' = [Idle EXCEPT !.at = "closing", !.todo = fins]
    BY DEF CloseWorker, RequestStop, DeferralExpires, local
  <2>. QED
    BY <1>1, <2>1, IdleFacts DEF NTypeOK, Polled, PollStates
<1>4. Considered' \subseteq Considered
  BY <1>3 DEF Considered
<1>5. /\ UNCHANGED <<seen, reserved, queued, job, fins, answers, defers, calls, answered, late>>
      /\ deferred' \subseteq RunIds
      /\ stage' \in {"open", "stopping", "drained"} /\ (stage' = "drained" <=> stage = "drained")
  BY <1>1 DEF CloseWorker, RequestStop, DeferralExpires, local, NTypeOK
<1>. QED
  BY <1>2, <1>3, <1>4, <1>5, QuietKeeps DEF RunningUnder

LEMMA DrainStep ==
    ASSUME WInv, QInv', DrainScheduler
    PROVE  LocalInv'
<1>1. NTypeOK /\ Distinct /\ Counted /\ Polled
  BY DEF WInv, LocalInv
<1>2. /\ UNCHANGED <<seen, reserved, job, fins, answers, defers, deferred, poll, late, calls,
                     answered>>
      /\ job' = NoJob /\ stage' = "drained" /\ queued' = {}
      /\ [ServiceNext]_vars
  BY DEF DrainScheduler, qvars, vars
<1>3. ~Busy' /\ Held' = {} /\ Held = {} /\ Considered' = Considered
  BY <1>2 DEF Busy, Held, NoJob, Considered
<1>4. NTypeOK'
  BY <1>1, <1>2 DEF NTypeOK
<1>5. Distinct'
  BY <1>1, <1>2, <1>3 DEF Distinct
<1>6. Counted'
  <2>1. \A token \in seen' : Old(token)'
    BY <1>1, <1>2, LocalTokens, Stable DEF Counted
  <2>. QED
    BY <1>1, <1>2, <1>3, <2>1 DEF Counted
<1>7. Polled'
  BY <1>1, <1>2, <1>3, PolledKeeps DEF Polled
<1>8. Called'
  BY <1>2, CalledKeeps
<1>9. LateFinishes'
  BY <1>2, LateKeeps
<1>. QED
  BY <1>4, <1>5, <1>6, <1>7, <1>8, <1>9 DEF LocalInv

LEMMA CrashStep ==
    ASSUME WInv, QInv', Crash
    PROVE  LocalInv'
<1>1. NTypeOK /\ Distinct /\ Counted /\ Polled
  BY DEF WInv, LocalInv
<1>2. /\ seen' = {} /\ reserved' = {} /\ queued' = {} /\ job' = NoJob
      /\ fins' = {} /\ answers' = {} /\ defers' = {} /\ deferred' = {}
      /\ poll' = Idle /\ late' = {} /\ stage' = "drained"
      /\ calls' = calls /\ answered' = answered
      /\ [ServiceNext]_vars
  BY WorkerConstants DEF Crash, Gone, ServiceNext, WorkerRequest, WorkerStep
<1>3. ~Busy' /\ Held' = {} /\ Considered' = {} /\ poll'.todo = {}
  BY <1>2, IdleFacts DEF Busy, Held, NoJob, Considered
<1>4. NTypeOK'
  BY <1>1, <1>2, IdleFacts DEF NTypeOK, PollStates
<1>5. Distinct' /\ Counted' /\ LateFinishes'
  BY <1>2, <1>3 DEF Distinct, Counted, LateFinishes
<1>6. Polled'
  BY <1>2, <1>3, PolledKeeps
<1>7. Called'
  BY <1>2, CalledKeeps
<1>. QED
  BY <1>4, <1>5, <1>6, <1>7 DEF LocalInv

\* What is needed of a request of the poll thread.
LEMMA PollRequest ==
    ASSUME WInv, NEW kind \in {"publish", "finish"}, NEW token \in Tokens,
           NEW outcome \in TERMINAL \cup {"none"}, kind = "finish" => outcome \in TERMINAL,
           token \notin Held,
           \/ Answered(Request(kind, token, outcome))
           \/ Unanswered(Request(kind, token, outcome))
    PROVE  /\ [ServiceNext]_vars
           /\ alive' = alive
           /\ late' \subseteq late \cup {Request(kind, token, outcome)}
           /\ \A q \in late' : /\ q \in RequestType
                               /\ q.kind = "finish" => q.outcome \in TERMINAL
                               /\ q \in late \/ Asked(q) = token
           /\ kind = "finish" /\ Answered(Request(kind, token, outcome)) => Dead(token)'
           /\ \A t \in Held : RunningUnder(t) => RunningUnder(t)'
<1>. DEFINE q == Request(kind, token, outcome)
<1>1. q \in RequestType /\ q.kind = kind /\ q.outcome = outcome /\ Asked(q) = token
  BY DEF Request, RequestType, Asked, Tokens
<1>2. NTypeOK /\ Counted /\ TypeOK
  BY DEF WInv, LocalInv, QInv, IInv
<1>. HIDE DEF q
<1>3. /\ StoreNext \/ UNCHANGED qvars
      /\ late' \subseteq late \cup {q}
      /\ alive' = alive
      /\ \A t \in Tokens : RunningUnder(t) /\ Native \in alive /\ t # token => RunningUnder(t)'
  BY <1>1, <1>2, RequestFacts DEF q
<1>4. kind = "finish" /\ Answered(q) => Dead(token)'
  <2>. SUFFICES ASSUME kind = "finish", Answered(q) PROVE Dead(token)'
    OBVIOUS
  <2>1. q.outcome \in TERMINAL /\ Execute(q) /\ token = <<q.run, q.offer>>
    BY <1>1 DEF Answered, Asked
  <2>2. Finish(Native, token[1], token[2], q.outcome)
    BY <1>1, <2>1 DEF Execute
  <2>. QED
    BY <1>2, <2>1, <2>2, FinishKills DEF Tokens
<1>5. \A t \in Held : t \in Tokens /\ t # token /\ Native \in alive
  BY <1>2, LocalTokens DEF Counted, Held
<1>6. \A x \in late' : /\ x \in RequestType
                       /\ x.kind = "finish" => x.outcome \in TERMINAL
                       /\ x \in late \/ Asked(x) = token
  BY <1>1, <1>2, <1>3 DEF NTypeOK, RequestType
<1>. QED
  BY <1>3, <1>4, <1>5, <1>6, StoreServes DEF q

\* The poll thread goes on, or ends its cycle.
LEMMA GiveUpFacts ==
    ASSUME NTypeOK
    PROVE  /\ GiveUp \in PollStates /\ GiveUp.todo = {}
           /\ GiveUp.at = poll.at \/ GiveUp.at = "idle"
           /\ GiveUp.at = "offer" => GiveUp.run = poll.run /\ GiveUp.event = poll.event
  BY IdleFacts DEF GiveUp, NTypeOK, PollStates

\* A FINISH to send is answered, changed or left.
LEMMA FinsKeep ==
    ASSUME WInv, QInv', [ServiceNext]_vars, alive' = alive,
           UNCHANGED <<reserved, defers, deferred, stage, queued, job, calls, answered>>,
           \A token \in Held : RunningUnder(token) => RunningUnder(token)',
           NEW f \in fins,
           \A q \in late' : /\ q \in RequestType
                            /\ q.kind = "finish" => q.outcome \in TERMINAL
                            /\ q \in late \/ Asked(q) = Token(f),
           answers' \subseteq Tokens,
           \/ UNCHANGED <<fins, seen>>
           \/ /\ fins' = (fins \ {f}) \cup {[f EXCEPT !.outcome = "cancelled"]}
              /\ seen' = seen
           \/ fins' = fins \ {f} /\ seen' = seen \ {Token(f)} /\ Dead(Token(f))',
           poll' \in PollStates, poll'.todo \subseteq fins', Considered' \subseteq Considered
    PROVE  LocalInv'
<1>. DEFINE refused == [f EXCEPT !.outcome = "cancelled"]
<1>1. NTypeOK /\ Distinct /\ Counted /\ Polled
  BY DEF WInv, LocalInv
<1>2. /\ Held' = Held /\ Busy' = Busy
      /\ refused \in [run : RunIds, offer : Offers, outcome : TERMINAL]
      /\ Token(refused) = Token(f)
  BY <1>1 DEF Held, Busy, Token, NTypeOK, TERMINAL
<1>. HIDE DEF refused
<1>3. \/ fins' = fins /\ seen' = seen
      \/ fins' = (fins \ {f}) \cup {refused} /\ seen' = seen
      \/ fins' = fins \ {f} /\ seen' = seen \ {Token(f)} /\ Dead(Token(f))'
  BY DEF refused
<1>4. NTypeOK'
  BY <1>1, <1>2, <1>3 DEF NTypeOK, PollStates, RequestType
<1>5. Distinct'
  BY <1>1, <1>2, <1>3 DEF Distinct
<1>6. Counted'
  <2>1. \A token \in seen' : Old(token)'
    BY <1>1, <1>3, LocalTokens, Stable DEF Counted
  <2>2. (\A x \in queued' \cup fins' : Token(x) \in seen') /\ Held' \subseteq seen'
    BY <1>1, <1>2, <1>3 DEF Counted, Distinct
  <2>3. \A token \in seen' : token \in seen /\ ((\E x \in fins : token = Token(x))
                                                 => \E x \in fins' : token = Token(x))
    BY <1>2, <1>3
  <2>. QED
    BY <1>1, <1>2, <2>1, <2>2, <2>3 DEF Counted
<1>7. Polled'
  BY <1>1, <1>3, PolledKeeps DEF Polled
<1>8. Called'
  BY CalledKeeps
<1>9. LateFinishes'
  <2>1. \A g \in fins : (\E x \in fins' : Token(g) = Token(x)) \/ Dead(Token(g))'
    BY <1>2, <1>3
  <2>. QED
    BY <2>1, LateKeeps
<1>. QED
  BY <1>4, <1>5, <1>6, <1>7, <1>8, <1>9 DEF LocalInv

LEMMA PublishAnswerStep ==
    ASSUME WInv, QInv', NEW f \in poll.todo, PublishAnswer(f)
    PROVE  LocalInv'
<1>. DEFINE q == Request("publish", Token(f), "none")
            refused == [f EXCEPT !.outcome = "cancelled"]
<1>1. NTypeOK /\ Distinct /\ Polled /\ f \in fins /\ Token(f) \in Tokens /\ Token(f) \notin Held
  BY LocalTokens DEF WInv, LocalInv, Polled, Distinct
<1>2. /\ UNCHANGED <<seen, reserved, defers, deferred, stage, queued, job, calls, answered>>
      /\ Answered(q) \/ Unanswered(q)
      /\ answers' \subseteq Tokens
      /\ \/ fins' = fins /\ poll' \in {poll, GiveUp}
         \/ /\ fins' = (fins \ {f}) \cup {refused}
            /\ poll' = [poll EXCEPT !.todo = (@ \ {f}) \cup {refused}]
  BY <1>1 DEF PublishAnswer, model, NTypeOK
<1>3. /\ [ServiceNext]_vars
      /\ alive' = alive
      /\ \A x \in late' : /\ x \in RequestType
                          /\ x.kind = "finish" => x.outcome \in TERMINAL
                          /\ x \in late \/ Asked(x) = Token(f)
      /\ \A t \in Held : RunningUnder(t) => RunningUnder(t)'
  BY <1>1, <1>2, PollRequest
<1>4. refused \in [run : RunIds, offer : Offers, outcome : TERMINAL]
  BY <1>1 DEF NTypeOK, TERMINAL
<1>5. /\ poll' \in PollStates /\ poll'.todo \subseteq fins'
      /\ poll'.at = "offer" => /\ poll.at = "offer" /\ poll'.run = poll.run
                               /\ poll'.event = poll.event
  <2>. HIDE DEF refused
  <2>. QED
    BY <1>1, <1>2, <1>4, GiveUpFacts DEF NTypeOK, PollStates, Polled
<1>6. Considered' \subseteq Considered
  BY <1>5 DEF Considered
<1>. QED
  BY <1>1, <1>2, <1>3, <1>5, <1>6, FinsKeep

LEMMA SendFinishStep ==
    ASSUME WInv, QInv', NEW f \in poll.todo, SendFinish(f)
    PROVE  LocalInv'
<1>. DEFINE q == Request("finish", Token(f), f.outcome)
<1>1. /\ NTypeOK /\ Distinct /\ Polled /\ f \in fins /\ Token(f) \in Tokens /\ Token(f) \notin Held
      /\ f.outcome \in TERMINAL
  BY LocalTokens DEF WInv, LocalInv, Polled, Distinct, NTypeOK
<1>2. /\ UNCHANGED <<reserved, answers, defers, deferred, stage, queued, job, calls, answered>>
      /\ Answered(q) \/ Unanswered(q)
      /\ \/ fins' = fins /\ seen' = seen /\ poll' = GiveUp
         \/ /\ Answered(q) /\ fins' = fins \ {f} /\ seen' = seen \ {Token(f)}
            /\ poll' = [poll EXCEPT !.todo = @ \ {f}]
  BY <1>1 DEF SendFinish, model
<1>3. /\ [ServiceNext]_vars
      /\ alive' = alive
      /\ \A x \in late' : /\ x \in RequestType
                          /\ x.kind = "finish" => x.outcome \in TERMINAL
                          /\ x \in late \/ Asked(x) = Token(f)
      /\ Answered(q) => Dead(Token(f))'
      /\ \A t \in Held : RunningUnder(t) => RunningUnder(t)'
  BY <1>1, <1>2, PollRequest
<1>4. /\ poll' \in PollStates /\ poll'.todo \subseteq fins'
      /\ poll'.at = "offer" => /\ poll.at = "offer" /\ poll'.run = poll.run
                               /\ poll'.event = poll.event
  BY <1>1, <1>2, GiveUpFacts DEF NTypeOK, PollStates, Polled
<1>5. Considered' \subseteq Considered
  BY <1>4 DEF Considered
<1>6. answers' \subseteq Tokens
  BY <1>1, <1>2 DEF NTypeOK
<1>. QED
  BY <1>1, <1>2, <1>3, <1>4, <1>5, <1>6, FinsKeep

LEMMA GiveBackStep ==
    ASSUME WInv, QInv', NEW token \in defers, GiveBack(token)
    PROVE  LocalInv'
<1>. DEFINE q == Request("finish", token, "cancelled")
<1>1. /\ NTypeOK /\ Distinct /\ Counted /\ Polled /\ token \in Tokens /\ token \notin Held
      /\ "cancelled" \in TERMINAL
  BY LocalTokens DEF WInv, LocalInv, Polled, Counted, TERMINAL
<1>2. /\ UNCHANGED <<seen, reserved, fins, answers, deferred, stage, queued, job, calls, answered>>
      /\ Answered(q) \/ Unanswered(q)
      /\ \/ defers' = defers
         \/ Answered(q) /\ defers' = defers \ {token}
      /\ poll' \in {poll, Idle, [poll EXCEPT !.at = "offline"]}
      /\ poll.at # "offer"
  BY <1>1 DEF GiveBack, model
<1>3. /\ [ServiceNext]_vars
      /\ alive' = alive
      /\ \A x \in late' : /\ x \in RequestType
                          /\ x.kind = "finish" => x.outcome \in TERMINAL
                          /\ x \in late \/ Asked(x) = token
      /\ Answered(q) => Dead(token)'
      /\ \A t \in Held : RunningUnder(t) => RunningUnder(t)'
  BY <1>1, <1>2, PollRequest
<1>4. poll' \in PollStates /\ poll'.todo \subseteq fins' /\ poll'.at # "offer"
  BY <1>1, <1>2, IdleFacts DEF NTypeOK, PollStates, Polled
<1>5. Considered' = {} /\ Held' = Held /\ Busy' = Busy
  BY <1>2, <1>4 DEF Considered, Held, Busy, Token
<1>6. NTypeOK'
  BY <1>1, <1>2, <1>3, <1>4 DEF NTypeOK, PollStates, RequestType
<1>7. Distinct'
  BY <1>1, <1>2, <1>5 DEF Distinct
<1>8. Counted'
  <2>1. \A t \in seen' : Old(t)'
    BY <1>1, <1>2, <1>3, LocalTokens, Stable DEF Counted
  <2>. QED
    BY <1>1, <1>2, <1>3, <1>5, <2>1 DEF Counted
<1>9. Polled'
  BY <1>2, <1>3, <1>4, <1>5, PolledKeeps
<1>10. Called'
  BY <1>2, <1>3, CalledKeeps
<1>11. LateFinishes'
  BY <1>2, <1>3, LateKeeps
<1>. QED
  BY <1>6, <1>7, <1>8, <1>9, <1>10, <1>11 DEF LocalInv

\* A pull brings nothing, or an offer that is in nobody's hand.
LEMMA PullOfferStep ==
    ASSUME WInv, QInv', OffersMade', PullOffer
    PROVE  LocalInv'
<1>. DEFINE taken == {r \in RunIds : <<r, Settled[r].offer>> \in seen}
            repeated == Repeatable(Settled, Native, taken, deferred)
            given == IF repeated # {} THEN repeated ELSE Grantable(Settled, Native, deferred)
            first == CHOOSE r \in given : \A q \in given : r <= q
            event == runs'[first]
            pulled == [at |-> "offer", todo |-> {}, run |-> first, event |-> event]
<1>1. NTypeOK /\ Distinct /\ Counted /\ Polled /\ Called
  BY DEF WInv, LocalInv
<1>2. /\ UNCHANGED <<seen, reserved, fins, answers, defers, deferred, late, stage, queued, job,
                     calls, answered>>
      /\ poll.todo = {} /\ defers = {}
      /\ UNCHANGED qvars \/ Pull(Native, taken, deferred)
      /\ \/ poll' = Idle
         \/ Pull(Native, taken, deferred) /\ given # {} /\ poll' = pulled
  BY DEF PullOffer, model
<1>3. [ServiceNext]_vars /\ alive' = alive
  BY <1>2, WorkerConstants DEF ServiceNext, WorkerRequest, qvars, vars, Pull
<1>4. \A t \in Held : RunningUnder(t) => RunningUnder(t)'
  <2>1. CASE UNCHANGED qvars
    BY <2>1 DEF qvars, vars, RunningUnder
  <2>2. CASE Pull(Native, taken, deferred)
    <3>1. \E taken0, skip : Pull(Native, taken0, skip)
      BY <2>2
    <3>. QED
      BY <3>1, HeldKeepsRunning
  <2>. QED
    BY <1>2, <2>1, <2>2
<1>5. CASE poll' = Idle
  <2>1. Considered' = {}
    BY <1>5, IdleFacts DEF Considered
  <2>. QED
    BY <1>1, <1>2, <1>3, <1>4, <1>5, <2>1, IdleFacts, QuietKeeps DEF NTypeOK
<1>6. CASE Pull(Native, taken, deferred) /\ given # {} /\ poll' = pulled
  <2>1. first \in given /\ \A q \in given : first <= q
    <3>1. given \in SUBSET Nat
      BY DEF Repeatable, Grantable, RunIds
    <3>2. \E r \in given : \A q \in given : r <= q
      <4>. HIDE DEF given
      <4>. QED
        BY <1>6, <3>1, FirstOf
    <3>. HIDE DEF given
    <3>. QED
      BY <3>2
  <2>2. \A token \in seen : token \in Tokens /\ Old(token)
    BY <1>1, LocalTokens DEF Counted
  <2>. HIDE DEF first
  <2>3. /\ first \in RunIds /\ event \in Runs
        /\ event.state = "offered"
        /\ <<first, event.offer>> \notin seen
        /\ first < nextRun' /\ event.offer <= event.grants
    BY <1>6, <2>1, <2>2, PullIsFresh DEF WInv
  <2>4. PICK token \in Tokens : token = <<first, event.offer>>
    BY <2>3 DEF Tokens, Runs
  <2>5. token \notin seen /\ Old(token)' /\ ~RunningUnder(token)'
    BY <2>3, <2>4 DEF Old, RunningUnder
  <2>6. poll'.at = "offer" /\ poll'.todo = {} /\ poll' \in PollStates /\ Considered' = {token}
    BY <1>6, <2>3, <2>4 DEF PollStates, Considered
  <2>7. Held' = Held /\ Busy' = Busy
    BY <1>2 DEF Held, Busy, Token
  <2>8. NTypeOK'
    BY <1>1, <1>2, <2>6 DEF NTypeOK, PollStates
  <2>9. Distinct'
    BY <1>1, <1>2, <2>7 DEF Distinct
  <2>10. Counted'
    <3>1. \A t \in seen' : Old(t)'
      BY <1>1, <1>2, <1>3, LocalTokens, Stable DEF Counted
    <3>. QED
      BY <1>1, <1>2, <1>3, <2>7, <3>1 DEF Counted
  <2>11. Polled'
    BY <1>2, <2>5, <2>6 DEF Polled, NotCalled
  <2>12. Called'
    BY <1>2, <1>3, <1>4, CalledKeeps
  <2>13. LateFinishes'
    BY <1>2, <1>3, LateKeeps
  <2>. QED
    BY <2>8, <2>9, <2>10, <2>11, <2>12, <2>13 DEF LocalInv
<1>. QED
  BY <1>2, <1>5, <1>6

\* The offer is put off, admitted or dropped.
LEMMA AdmitOfferStep ==
    ASSUME WInv, QInv', AdmitOffer
    PROVE  LocalInv'
<1>1. /\ NTypeOK /\ Distinct /\ Counted /\ Polled /\ Called
      /\ UNCHANGED <<job, fins, answers, late, stage, calls, answered>>
      /\ runs' = runs /\ nextRun' = nextRun /\ alive' = alive /\ [ServiceNext]_vars
  BY DEF WInv, LocalInv, AdmitOffer, qvars, vars
<1>2. PICK token \in Tokens : token = <<poll.run, poll.event.offer>> /\ Considered = {token}
  BY <1>1, LocalTokens DEF AdmitOffer, Considered
<1>3. defers = {} /\ token \notin seen /\ Old(token) /\ NotCalled(token) /\ token[1] \in RunIds
  BY <1>1, <1>2 DEF Polled, Tokens
<1>4. Held' = Held /\ Busy' = Busy
  BY <1>1 DEF Held, Busy, Token
<1>5. CASE Defer(token)
  <2>1. /\ defers' = {token} /\ deferred' \subseteq RunIds /\ UNCHANGED <<seen, reserved, queued>>
        /\ poll' = [Idle EXCEPT !.at = "defer"]
    BY <1>1, <1>3, <1>5 DEF Defer, NTypeOK
  <2>2. poll' \in PollStates /\ poll'.todo = {} /\ Considered' = {}
    BY <2>1, IdleFacts DEF PollStates, Considered
  <2>3. NTypeOK'
    BY <1>1, <2>1, <2>2 DEF NTypeOK, PollStates
  <2>4. Distinct'
    BY <1>1, <1>4, <2>1 DEF Distinct
  <2>5. Counted'
    BY <1>1, <1>4, <2>1 DEF Counted, Old
  <2>6. Polled'
    BY <1>1, <1>3, <2>1, <2>2 DEF Polled, Old
  <2>7. Called'
    BY <1>1, <2>1, CalledKeeps DEF RunningUnder
  <2>8. LateFinishes'
    BY <1>1, <1>3, LateKeeps
  <2>. QED
    BY <2>3, <2>4, <2>5, <2>6, <2>7, <2>8 DEF LocalInv
<1>6. ASSUME stage # "drained", NEW agent \in Agents \ reserved,
             reserved' = reserved \cup {agent}, seen' = seen \cup {token},
             queued' = queued \cup {[run |-> token[1], offer |-> token[2], agent |-> agent]},
             poll' = Idle, UNCHANGED <<defers, deferred>>
      PROVE  LocalInv'
  <2>. DEFINE new == [run |-> token[1], offer |-> token[2], agent |-> agent]
  <2>1. /\ new \in [run : RunIds, offer : Offers, agent : Agents] /\ Token(new) = token
        /\ new.agent = agent
    BY DEF Tokens, Token
  <2>. HIDE DEF new
  <2>2. queued' = queued \cup {new}
    BY <1>6 DEF new
  <2>3. poll' \in PollStates /\ poll'.todo = {} /\ Considered' = {}
    BY <1>6, IdleFacts DEF Considered
  <2>4. NTypeOK'
    BY <1>1, <1>6, <2>1, <2>2, <2>3 DEF NTypeOK, PollStates
  <2>5. Distinct'
    <3>1. \A x \in queued : Token(x) # token /\ x.agent # agent
      BY <1>1, <1>3, <1>6 DEF Counted
    <3>2. \A f \in fins : Token(f) # token
      BY <1>1, <1>3 DEF Counted
    <3>3. token \notin Held /\ (Busy => job.agent # agent)
      BY <1>1, <1>3, <1>6 DEF Counted
    <3>. QED
      BY <1>1, <1>4, <2>1, <2>2, <3>1, <3>2, <3>3 DEF Distinct
  <2>6. Counted'
    <3>1. \A t \in seen' : Old(t)'
      BY <1>1, <1>3, <1>6 DEF Counted, Old
    <3>. QED
      BY <1>1, <1>4, <1>6, <2>1, <2>2, <3>1 DEF Counted
  <2>7. Polled'
    BY <1>1, <1>3, <1>6, <2>3 DEF Polled
  <2>8. Called'
    BY <1>1, <1>3, <1>4, <2>1, <2>2 DEF Called, NotCalled, RunningUnder, Begun
  <2>9. LateFinishes'
    BY <1>1, <1>6, LateKeeps
  <2>. QED
    BY <2>4, <2>5, <2>6, <2>7, <2>8, <2>9 DEF LocalInv
<1>7. CASE poll' = Idle /\ UNCHANGED <<seen, reserved, queued, defers, deferred>>
  <2>1. Considered' = {}
    BY <1>7, IdleFacts DEF Considered
  <2>. QED
    BY <1>1, <1>7, <2>1, IdleFacts, QuietKeeps DEF NTypeOK, RunningUnder
<1>. QED
  BY <1>2, <1>5, <1>6, <1>7 DEF AdmitOffer

-----------------------------------------------------------------------------
(* The invariant of the worker with the service.                           *)

\* What the worker does to the service is what the service does by itself.
LEMMA WorkerServes ==
    ASSUME NTypeOK, TypeOK, [NNext]_nvars
    PROVE  StoreNext \/ UNCHANGED qvars
<1>. DEFINE Goal == StoreNext \/ UNCHANGED qvars
<1>1. CASE Elsewhere
  BY <1>1, WorkerConstants DEF Elsewhere, StoreNext, ServiceNext, WorkerRequest, WorkerStep
<1>2. ASSUME NEW r \in RunIds, AcknowledgeAnswer(r) PROVE Goal
  BY <1>2 DEF AcknowledgeAnswer, StoreNext
<1>3. ASSUME NEW q \in late, ExecuteLate(q) PROVE Goal
  BY <1>3, LocalTokens, ExecuteFacts DEF ExecuteLate, NTypeOK
<1>4. ASSUME NEW kind \in {"begin", "valid", "finish", "publish"}, NEW token \in Tokens,
             NEW outcome \in TERMINAL \cup {"none"}, kind = "finish" => outcome \in TERMINAL,
             \/ Answered(Request(kind, token, outcome))
             \/ Unanswered(Request(kind, token, outcome))
      PROVE  Goal
  <2>1. /\ Request(kind, token, outcome) \in RequestType
        /\ Request(kind, token, outcome).kind = "finish" =>
              Request(kind, token, outcome).outcome \in TERMINAL
    BY <1>4 DEF Request, RequestType, Tokens
  <2>. QED
    BY <1>4, <2>1, RequestFacts
<1>5. CASE BeginJob \/ ValidateJob
  <2>1. Busy
    BY <1>5 DEF BeginJob, ValidateJob, Busy
  <2>2. Token(job) \in Tokens
    BY <2>1, LocalTokens
  <2>3. \/ Answered(Request("begin", Token(job), "none"))
        \/ Unanswered(Request("begin", Token(job), "none"))
        \/ Answered(Request("valid", Token(job), "none"))
        \/ Unanswered(Request("valid", Token(job), "none"))
    BY <1>5 DEF BeginJob, ValidateJob
  <2>. QED
    BY <1>4, <2>2, <2>3
<1>6. ASSUME NEW f \in poll.todo, PublishAnswer(f) \/ SendFinish(f) PROVE Goal
  <2>1. Token(f) \in Tokens /\ f.outcome \in TERMINAL
    BY DEF NTypeOK, Token, Tokens
  <2>2. \/ Answered(Request("publish", Token(f), "none"))
        \/ Unanswered(Request("publish", Token(f), "none"))
        \/ Answered(Request("finish", Token(f), f.outcome))
        \/ Unanswered(Request("finish", Token(f), f.outcome))
    BY <1>6 DEF PublishAnswer, SendFinish
  <2>. QED
    BY <1>4, <2>1, <2>2
<1>7. ASSUME NEW token \in defers, GiveBack(token) PROVE Goal
  <2>1. token \in Tokens /\ "cancelled" \in TERMINAL
    BY DEF NTypeOK, TERMINAL
  <2>. QED
    BY <1>4, <1>7, <2>1 DEF GiveBack
<1>8. CASE StartPoll \/ PullOffer \/ GoOffline \/ Crash
  BY <1>8, WorkerConstants
  DEF StartPoll, PullOffer, GoOffline, Crash, StoreNext, ServiceNext, WorkerRequest, WorkerStep
<1>9. CASE \/ \E j \in queued : TakeJob(j)
           \/ AgentReturns \/ AdmitOffer \/ CloseWorker \/ RequestStop \/ DrainScheduler
           \/ \E r \in deferred : DeferralExpires(r)
           \/ UNCHANGED nvars
  BY <1>9 DEF TakeJob, AgentReturns, AdmitOffer, CloseWorker, RequestStop, DrainScheduler,
              DeferralExpires, nvars
<1>. QED
  BY <1>1, <1>2, <1>3, <1>5, <1>6, <1>7, <1>8, <1>9 DEF NNext, ModelThread, PollThread

LEMMA WorkerNextInv == WInv /\ [NNext]_nvars => WInv'
<1>. SUFFICES ASSUME WInv, [NNext]_nvars PROVE WInv'
  OBVIOUS
<1>1. StoreNext \/ UNCHANGED qvars
  BY WorkerServes DEF WInv, LocalInv, QInv, IInv
<1>2. QInv' /\ OffersMade'
  BY <1>1, StoreInv, StoreServes, NextOffersMade DEF WInv, QInv
<1>3. CASE UNCHANGED nvars
  <2>1. [ServiceNext]_vars /\ UNCHANGED <<local, stage, calls, answered>> /\ late' = late
        /\ alive' = alive /\ runs' = runs
    BY <1>3 DEF nvars, qvars, vars
  <2>. QED
    BY <1>2, <2>1, ElsewhereKeeps DEF WInv, RunningUnder
<1>4. CASE ModelThread
  BY <1>2, <1>4, TakeJobStep, BeginJobStep, ValidateJobStep, AgentReturnsStep DEF ModelThread, WInv
<1>5. CASE PollThread
  BY <1>2, <1>5, StartPollStep, PublishAnswerStep, SendFinishStep, GiveBackStep, PullOfferStep,
     AdmitOfferStep, LocalStep, GoOfflineStep
  DEF PollThread, WInv
<1>6. CASE Elsewhere \/ (\E r \in RunIds : AcknowledgeAnswer(r)) \/ (\E q \in late : ExecuteLate(q))
  BY <1>2, <1>6, ElsewhereStep, AcknowledgeStep, LateStep DEF WInv
<1>7. CASE \/ \E r \in deferred : DeferralExpires(r)
           \/ RequestStop \/ DrainScheduler \/ Crash
  BY <1>2, <1>7, LocalStep, DrainStep, CrashStep DEF WInv
<1>. QED
  BY <1>3, <1>4, <1>5, <1>6, <1>7 DEF NNext

LEMMA WorkerInitInv == NInit => WInv
<1>. SUFFICES ASSUME NInit PROVE WInv
  OBVIOUS
<1>1. QInv
  BY QInitInv DEF NInit
<1>2. OffersMade
  BY DEF NInit, QInit, Init, OffersMade, NoRun
<1>3. /\ Held = {} /\ Considered = {} /\ ~Busy /\ poll.todo = {} /\ poll \in PollStates
  BY IdleFacts DEF NInit, Held, Considered, Busy, NoJob
<1>4. NTypeOK
  BY <1>3 DEF NInit, NTypeOK, PollStates
<1>5. Native \in alive
  BY WorkerConstants DEF NInit, QInit, Init
<1>6. Distinct /\ Counted /\ Polled /\ LateFinishes
  BY <1>3, <1>5 DEF NInit, Distinct, Counted, Polled, LateFinishes
<1>7. Called
  BY <1>3 DEF NInit, Called
<1>. QED
  BY <1>1, <1>2, <1>4, <1>6, <1>7 DEF WInv, LocalInv

LEMMA WorkerInvariance == NSpec => []WInv
  BY WorkerInitInv, WorkerNextInv, PTL DEF NSpec

\* Whatever is lost, late, repeated, given back or cut off by a crash: no RUN
\* calls an agent twice, and one that called is never queued or offered again.
THEOREM NeverCalledAgainProved == NSpec => []NeverCalledAgain
<1>1. WInv => NeverCalledAgain
  BY DEF WInv, LocalInv, NTypeOK, Called, NeverCalledAgain
<1>. QED
  BY <1>1, WorkerInvariance, PTL

\* The RUN an agent works for is running for this worker and this offer, for as
\* long as the agent works: with OneGrantPerTask, no other worker has its task.
THEOREM AgentWorksProved == NSpec => []AgentWorksOnARunningRun
<1>1. WInv => AgentWorksOnARunningRun
  BY DEF WInv, LocalInv, Called, Held, Busy, RunningUnder, Token, AgentWorksOnARunningRun
<1>. QED
  BY <1>1, WorkerInvariance, PTL

\* The two threads neither leak a token or an agent nor hand one to two jobs.
THEOREM NothingLeaksProved == NSpec => []NothingLeaks
<1>1. ASSUME WInv, stage # "drained"
      PROVE  /\ seen = {Token(x) : x \in Jobs \cup fins}
             /\ reserved = {x.agent : x \in Jobs}
             /\ \A x, y \in Jobs : x.agent = y.agent => x = y
  <2>1. NTypeOK /\ Distinct /\ Counted
    BY <1>1 DEF WInv, LocalInv
  <2>2. Jobs = queued \cup (IF Busy THEN {job} ELSE {}) /\ (Busy => Held = {Token(job)})
    BY <2>1, LocalTokens DEF Jobs
  <2>3. Held = {Token(x) : x \in IF Busy THEN {job} ELSE {}}
    BY <2>2 DEF Held
  <2>4. seen = {Token(x) : x \in Jobs \cup fins}
    BY <1>1, <2>1, <2>2, <2>3 DEF Counted
  <2>5. reserved = {x.agent : x \in Jobs}
    BY <1>1, <2>1, <2>2 DEF Counted
  <2>6. \A x, y \in Jobs : x.agent = y.agent => x = y
    BY <2>1, <2>2 DEF Distinct
  <2>. QED
    BY <2>4, <2>5, <2>6
<1>2. WInv => NothingLeaks
  BY <1>1 DEF NothingLeaks
<1>. QED
  BY <1>2, WorkerInvariance, PTL

\* With the worker attached, too, an answer in the store is of a RUN that began.
THEOREM WorkerAnswersBegunRunsProved == NSpec => []AnswerOfABegunRun
<1>1. WInv => AnswerOfABegunRun
  BY DEF WInv, QInv
<1>. QED
  BY <1>1, WorkerInvariance, PTL

-----------------------------------------------------------------------------
(* Who reports a RUN done.                                                 *)

\* Other workers, the service and the task requests end nothing that runs here
\* with "done".
LEMMA ElsewhereNotDone ==
    ASSUME TypeOK, Elsewhere, NEW r \in RunIds, r < nextRun,
           runs[r].state = "running", runs[r].worker = Native
    PROVE  runs'[r].state # "done"
<1>1. /\ runs \in [RunIds -> Runs] /\ nextRun \in Int
      /\ Settled \in [RunIds -> Runs] /\ SettleEdge(runs[r], Settled[r])
  BY SettledFacts DEF TypeOK, Settled
<1>2. /\ Settled[r] = runs[r] \/ Settled[r].state \in {"interrupted", "absent"}
      /\ Settled[r].state # "done"
  BY <1>1 DEF SettleEdge
<1>3. CASE Tick
  <2>1. PICK n \in Nat :
          \A q \in RunIds \ (nextRun..(nextRun + n - 1)) : runs'[q] = Settled[q]
    BY <1>3, TickFacts
  <2>2. r \notin nextRun..(nextRun + n - 1)
    BY <1>1 DEF RunIds
  <2>. QED
    BY <1>2, <2>1, <2>2
<1>4. ASSUME NEW t \in TaskIds, PauseTask(t) PROVE runs'[r].state # "done"
  BY <1>1, <1>4, ReconcileAllEdge DEF PauseTask, SettleEdge
<1>5. ASSUME NEW t \in TaskIds, QueueEvent(t) PROVE runs'[r].state # "done"
  <2>1. r # nextRun
    BY <1>1 DEF RunIds
  <2>. QED
    BY <1>1, <1>5, <2>1 DEF QueueEvent
<1>6. CASE runs' = runs
  BY <1>6
<1>7. ASSUME NEW w \in Workers \ {Native}, WorkerRequest(w) PROVE runs'[r].state # "done"
  <2>1. CASE WorkerEdge(w, Settled)
    BY <1>2, <2>1 DEF WorkerEdge, Granted, Unfinished
  <2>2. ASSUME NEW ws, runs' = ReconcileAll(tasks, ws, Settled) PROVE runs'[r].state # "done"
    <3>1. SettleEdge(Settled[r], runs'[r])
      BY <1>1, <2>2, ReconcileAllEdge
    <3>. QED
      BY <1>2, <3>1 DEF SettleEdge, TERMINAL
  <2>. QED
    BY <1>6, <1>7, <2>1, <2>2, WorkerEdges
<1>. QED
  BY <1>3, <1>4, <1>5, <1>6, <1>7
  DEF Elsewhere, ServiceRestart, LeaseExpires, ManageTask, CreateTask, StartTask, StopTask,
      ResumeTask, SetTimerPeriod, SetExecutor, DeleteTask, TimerComesDue, WorkerRequest

\* Nor do the worker's heartbeat, its pulls and its leaving.
LEMMA OwnNotDone ==
    ASSUME TypeOK, NEW r \in RunIds, runs[r].state = "running",
           \/ \E report : Heartbeat(Native, report)
           \/ Offline(Native)
           \/ \E taken, skip : Pull(Native, taken, skip)
    PROVE  runs'[r].state # "done"
<1>1. /\ Settled \in [RunIds -> Runs]
      /\ Settled[r] = runs[r] \/ Settled[r].state \in {"interrupted", "absent"}
  BY SettledFacts DEF Settled, SettleEdge
<1>2. CASE runs' = Settled
  BY <1>1, <1>2
<1>3. CASE Offline(Native)
  <2>1. SettleEdge(Settled[r], runs'[r])
    BY <1>1, <1>3, ReconcileAllEdge DEF Offline
  <2>. QED
    BY <1>1, <2>1 DEF SettleEdge, TERMINAL
<1>4. ASSUME NEW taken, NEW skip, Pull(Native, taken, skip), runs' # Settled
      PROVE  runs'[r].state # "done"
  <2>1. PICK q \in Grantable(Settled, Native, skip) : runs' = Grant(Settled, Native, q)
    BY <1>4 DEF Pull
  <2>2. q # r
    BY <1>1, <2>1 DEF Grantable
  <2>3. runs'[r] = Settled[r]
    BY <1>1, <2>1, <2>2 DEF Grant, Grantable
  <2>. QED
    BY <1>1, <2>3
<1>. QED
  BY <1>2, <1>3, <1>4 DEF Heartbeat

\* Of its other requests only the FINISH that says so, of the token that runs, does.
LEMMA ExecuteDone ==
    ASSUME TypeOK, NEW q \in RequestType, q.kind = "finish" => q.outcome \in TERMINAL, Execute(q),
           NEW r \in RunIds, runs[r].state = "running", runs'[r].state = "done"
    PROVE  /\ q.kind = "finish" /\ q.outcome = "done" /\ q.run = r
           /\ RunningUnder(Asked(q))
<1>1. q.run \in RunIds /\ q.offer \in Offers
  BY DEF RequestType
<1>2. Publish(Native, q.run, q.offer) => Valid(Native)
  BY DEF Publish, Valid
<1>3. Settled \in [RunIds -> Runs] /\ SettleEdge(runs[r], Settled[r]) /\ Settled[r].state # "done"
  BY SettledFacts DEF Settled, SettleEdge
<1>4. Finish(Native, q.run, q.offer, q.outcome) /\ q.kind = "finish"
  <2>1. ~Valid(Native)
    BY <1>3 DEF Valid
  <2>2. ~Begin(Native, q.run, q.offer)
    <3>. SUFFICES ASSUME Begin(Native, q.run, q.offer) PROVE FALSE
      OBVIOUS
    <3>1. runs' = Settled \/ runs' = [Settled EXCEPT ![q.run].state = "running"]
      BY DEF Begin
    <3>2. "running" \in Unfinished \cup TERMINAL
      BY DEF Unfinished
    <3>3. r = q.run \/ runs'[r] = Settled[r]
      BY <1>1, <1>3, <3>1
    <3>4. ASSUME r = q.run, runs' = [Settled EXCEPT ![r].state = "running"]
          PROVE  runs'[r].state = "running"
      BY <1>3, <3>2, <3>4, FieldUpdate
    <3>. QED
      BY <1>3, <3>1, <3>3, <3>4
  <2>. QED
    BY <1>2, <2>1, <2>2 DEF Execute
<1>5. q.run = r /\ Holds(Settled, Native, r, q.offer) /\ Settled[r].state \notin TERMINAL
  BY <1>1, <1>3, <1>4 DEF Finish
<1>6. Settled[r] = runs[r] /\ runs[r].worker = Native /\ runs[r].offer = q.offer
  BY <1>3, <1>5 DEF Holds, SettleEdge, TERMINAL
<1>7. q.outcome = "done"
  <2>1. runs' = [Settled EXCEPT ![r].state = q.outcome] /\ q.outcome \in Unfinished \cup TERMINAL
    BY <1>4, <1>5, <1>6 DEF Finish
  <2>. QED
    BY <1>3, <2>1, FieldUpdate
<1>. QED
  BY <1>4, <1>5, <1>6, <1>7 DEF RunningUnder, Asked

-----------------------------------------------------------------------------
(* A RUN that is done with an answer has the answer saved, while the store *)
(* evicts nothing.                                                         *)

KeepsAll == StoredRuns(results) \subseteq StoredRuns(results')

\* A RUN whose agent answered runs on unchanged, or has ended for good.
LEMMA AnsweredForward ==
    ASSUME WInv, QInv', [ServiceNext]_vars, NEW r \in RunIds, calls[r] = 1
    PROVE  /\ runs'[r].state = "running" => runs[r].state = "running" /\ runs'[r] = runs[r]
           /\ runs'[r].state = "done" => runs[r].state \in {"running", "done"}
<1>1. r < nextRun /\ runs[r].state \notin {"pending", "offered"}
  BY DEF WInv, LocalInv, Called
<1>2. Forward(runs[r], runs'[r])
  BY <1>1, NextForward DEF WInv, QInv
<1>3. runs[r].state \in {"absent", "running"} \cup TERMINAL
  BY <1>1 DEF WInv, QInv, IInv, TypeOK, Runs, Unfinished
<1>. QED
  BY <1>2, <1>3 DEF Forward, TERMINAL

\* What a step has to leave true of the claims that wait, are under way, or come
\* true in it.
LEMMA SavedKeeps ==
    ASSUME SInv, WInv', [ServiceNext]_vars, KeepsAll, answered' = answered,
           \A r \in answered : calls'[r] = 1,
           \A token \in answers' : token \in answers /\ \E f \in fins' : token = Token(f),
           job'.step = "agent" => job'.run \notin answered,
           \A f \in fins' : \/ f \in fins /\ (Token(f) \in answers => Token(f) \in answers')
                            \/ f.outcome # "done" \/ f.run \notin answered
                            \/ f.run \in StoredRuns(results'),
           \A q \in late' : \/ q \in late
                            \/ q.kind # "finish"
                            \/ ~Claims(Asked(q), q.outcome)
                            \/ q.run \in StoredRuns(results),
           \A r \in answered :
                runs[r].state = "running" /\ runs'[r].state = "done" => r \in StoredRuns(results)
    PROVE  SInv'
<1>1. WInv /\ Saved /\ DoneMeansSaved /\ NTypeOK /\ QInv' /\ NTypeOK'
  BY DEF SInv, WInv, LocalInv
<1>2. ASSUME NEW r \in answered
      PROVE  /\ r \in RunIds
             /\ runs'[r].state = "running" => runs[r].state = "running" /\ runs'[r] = runs[r]
             /\ runs'[r].state = "done" => r \in StoredRuns(results')
  <2>1. r \in RunIds /\ calls[r] = 1
    BY <1>1 DEF NTypeOK, Saved
  <2>2. runs'[r].state = "done" => r \in StoredRuns(results)
    BY <1>1, <2>1, AnsweredForward DEF DoneMeansSaved
  <2>. QED
    BY <1>1, <2>1, <2>2, AnsweredForward DEF KeepsAll
<1>3. ASSUME NEW token \in Tokens, NEW outcome, Claims(token, outcome)'
      PROVE  Claims(token, outcome) /\ outcome = "done" /\ token[1] \in answered
  BY <1>2, <1>3 DEF Claims, RunningUnder
<1>4. ASSUME NEW f \in fins', Claims(Token(f), f.outcome)'
      PROVE  Token(f) \in answers' \/ f.run \in StoredRuns(results')
  <2>. DEFINE token == Token(f)
  <2>1. token \in Tokens /\ token[1] = f.run
    BY <1>1 DEF NTypeOK, Token, Tokens
  <2>2. Claims(token, f.outcome)'
    BY <1>4
  <2>. HIDE DEF token
  <2>3. Claims(token, f.outcome) /\ f.outcome = "done" /\ f.run \in answered
    BY <1>3, <2>1, <2>2
  <2>4. CASE f \in fins /\ (Token(f) \in answers => Token(f) \in answers')
    BY <1>1, <2>3, <2>4 DEF Saved, KeepsAll, token
  <2>. QED
    BY <2>3, <2>4
<1>5. ASSUME NEW q \in late', q.kind = "finish", Claims(Asked(q), q.outcome)'
      PROVE  q.run \in StoredRuns(results')
  <2>. DEFINE token == Asked(q)
  <2>1. token \in Tokens
    BY <1>1 DEF NTypeOK, Asked, Tokens
  <2>2. Claims(token, q.outcome)'
    BY <1>5
  <2>. HIDE DEF token
  <2>3. Claims(token, q.outcome)
    BY <1>3, <2>1, <2>2
  <2>. QED
    BY <1>1, <1>5, <2>3 DEF Saved, KeepsAll, token
<1>6. Saved'
  BY <1>2, <1>1, <1>4, <1>5 DEF Saved
<1>7. DoneMeansSaved'
  BY <1>2 DEF DoneMeansSaved
<1>. QED
  BY <1>6, <1>7 DEF SInv

\* A request ends with "done" only what it claims.
LEMMA RequestDone ==
    ASSUME SInv, NEW q \in RequestType, q.kind = "finish" => q.outcome \in TERMINAL,
           Execute(q) \/ UNCHANGED qvars,
           q.kind = "finish" /\ Claims(Asked(q), q.outcome) => q.run \in StoredRuns(results)
    PROVE  \A r \in answered :
             runs[r].state = "running" /\ runs'[r].state = "done" => r \in StoredRuns(results)
<1>. SUFFICES ASSUME NEW r \in answered, runs[r].state = "running", runs'[r].state = "done"
              PROVE  r \in StoredRuns(results)
  OBVIOUS
<1>1. TypeOK /\ r \in RunIds
  BY DEF SInv, WInv, QInv, IInv, LocalInv, NTypeOK
<1>2. Execute(q)
  BY DEF qvars, vars
<1>3. q.kind = "finish" /\ q.outcome = "done" /\ q.run = r /\ RunningUnder(Asked(q))
  BY <1>1, <1>2, ExecuteDone
<1>. QED
  BY <1>3 DEF Claims, Asked

\* A step that neither claims, answers nor sends anything.
LEMMA QuietSaved ==
    ASSUME SInv, WInv', [ServiceNext]_vars, KeepsAll,
           UNCHANGED <<fins, answers, answered, calls>>, late' \subseteq late,
           job'.step = "agent" => job' = job,
           \A r \in answered :
                runs[r].state = "running" /\ runs'[r].state = "done" => r \in StoredRuns(results)
    PROVE  SInv'
<1>1. Saved
  BY DEF SInv
<1>2. job'.step = "agent" => job'.run \notin answered
  BY <1>1 DEF Saved
<1>. QED
  BY <1>1, <1>2, SavedKeeps DEF Saved

LEMMA ElsewhereSaved ==
    ASSUME SInv, WInv', KeepsAll, Elsewhere
    PROVE  SInv'
<1>1. [ServiceNext]_vars /\ UNCHANGED <<fins, answers, answered, calls, late, job>>
  BY WorkerConstants DEF Elsewhere, ServiceNext, WorkerRequest, WorkerStep, local
<1>2. ASSUME NEW r \in answered, runs[r].state = "running" PROVE runs'[r].state # "done"
  <2>1. r \in RunIds /\ calls[r] = 1 /\ runs[r].worker = Native /\ TypeOK
    BY <1>2 DEF SInv, Saved, WInv, LocalInv, NTypeOK, QInv, IInv
  <2>2. r < nextRun
    BY <2>1 DEF SInv, WInv, LocalInv, Called
  <2>. QED
    BY <1>2, <2>1, <2>2, ElsewhereNotDone
<1>. QED
  BY <1>1, <1>2, QuietSaved

\* The worker's steps at which the service ends nothing with "done".
LEMMA LocalSaved ==
    ASSUME SInv, WInv', KeepsAll,
           \/ StartPoll \/ PullOffer \/ AdmitOffer \/ CloseWorker \/ GoOffline
           \/ RequestStop \/ DrainScheduler
           \/ \E r \in deferred : DeferralExpires(r)
           \/ \E r \in RunIds : AcknowledgeAnswer(r)
           \/ \E j \in queued : TakeJob(j)
           \/ UNCHANGED nvars
    PROVE  SInv'
<1>1. UNCHANGED <<fins, answers, answered, calls, late>>
  BY DEF StartPoll, PullOffer, AdmitOffer, CloseWorker, GoOffline, RequestStop, DrainScheduler,
         DeferralExpires, AcknowledgeAnswer, TakeJob, nvars, local, model
<1>2. job'.step = "agent" => job' = job
  BY DEF StartPoll, PullOffer, AdmitOffer, CloseWorker, GoOffline, RequestStop, DrainScheduler,
         DeferralExpires, AcknowledgeAnswer, TakeJob, nvars, local, model
<1>3. \/ UNCHANGED vars
      \/ \E report : Heartbeat(Native, report)
      \/ Offline(Native)
      \/ \E taken, skip : Pull(Native, taken, skip)
  BY DEF StartPoll, PullOffer, AdmitOffer, CloseWorker, GoOffline, RequestStop, DrainScheduler,
         DeferralExpires, AcknowledgeAnswer, Acknowledge, TakeJob, nvars, qvars
<1>4. ASSUME NEW r \in answered, runs[r].state = "running" PROVE runs'[r].state # "done"
  <2>1. r \in RunIds /\ TypeOK
    BY DEF SInv, WInv, LocalInv, NTypeOK, QInv, IInv
  <2>2. CASE UNCHANGED vars
    BY <1>4, <2>2 DEF vars
  <2>. QED
    BY <1>3, <1>4, <2>1, <2>2, OwnNotDone
<1>5. [ServiceNext]_vars
  <2>1. NTypeOK /\ TypeOK
    BY DEF SInv, WInv, LocalInv, QInv, IInv
  <2>2. [NNext]_nvars
    BY DEF NNext, PollThread, ModelThread
  <2>. QED
    BY <2>1, <2>2, WorkerServes, StoreServes
<1>. QED
  BY <1>1, <1>2, <1>4, <1>5, QuietSaved

LEMMA LateSaved ==
    ASSUME SInv, WInv', KeepsAll, NEW q \in late, ExecuteLate(q)
    PROVE  SInv'
<1>1. /\ NTypeOK /\ TypeOK /\ Saved /\ q \in RequestType
      /\ q.kind = "finish" => q.outcome \in TERMINAL
  BY LocalTokens DEF SInv, WInv, LocalInv, QInv, IInv, NTypeOK
<1>2. [ServiceNext]_vars
  BY <1>1, ExecuteFacts, StoreServes DEF ExecuteLate
<1>3. q.kind = "finish" /\ Claims(Asked(q), q.outcome) => q.run \in StoredRuns(results)
  BY <1>1 DEF Saved
<1>4. UNCHANGED <<fins, answers, answered, calls, job>> /\ late' \subseteq late /\ Execute(q)
  BY DEF ExecuteLate, local
<1>5. \A r \in answered :
        runs[r].state = "running" /\ runs'[r].state = "done" => r \in StoredRuns(results)
  BY <1>1, <1>3, <1>4, RequestDone
<1>. QED
  BY <1>2, <1>4, <1>5, QuietSaved

LEMMA CrashSaved ==
    ASSUME SInv, WInv', KeepsAll, Crash
    PROVE  SInv'
<1>1. /\ [ServiceNext]_vars /\ runs' = runs
      /\ job' = NoJob /\ fins' = {} /\ answers' = {} /\ late' = {} /\ UNCHANGED <<calls, answered>>
  BY WorkerConstants DEF Crash, Gone, ServiceNext, WorkerRequest, WorkerStep, ProcessDies
<1>2. \A r \in answered : calls'[r] = 1
  BY <1>1 DEF SInv, Saved
<1>3. job'.step # "agent"
  BY <1>1 DEF NoJob
<1>. QED
  BY <1>1, <1>2, <1>3, SavedKeeps

\* A job closed with anything but "done", or before its agent was called, claims
\* no answer.
LEMMA JobSaved ==
    ASSUME SInv, WInv', KeepsAll, BeginJob \/ ValidateJob
    PROVE  SInv'
<1>1. /\ NTypeOK /\ NTypeOK' /\ TypeOK /\ Saved /\ Called /\ Busy /\ job.step \in {"begin", "valid"}
      /\ job.run \in RunIds /\ job.offer \in Offers
      /\ \A r \in answered : r \in RunIds /\ calls[r] = 1
  BY LocalTokens DEF SInv, WInv, LocalInv, QInv, IInv, BeginJob, ValidateJob, Busy, Saved, NTypeOK
<1>2. UNCHANGED <<answers, answered>>
  BY DEF BeginJob, ValidateJob
<1>3. PICK q \in RequestType :
        q = Request(job.step, Token(job), "none") /\ (Answered(q) \/ Unanswered(q))
  <2>1. Request(job.step, Token(job), "none") \in RequestType
    BY <1>1 DEF Request, RequestType, Token
  <2>. QED
    BY <2>1 DEF BeginJob, ValidateJob
<1>4. q.kind # "finish"
  BY <1>1, <1>3 DEF Request
<1>5. /\ [ServiceNext]_vars
      /\ late' \subseteq late \cup {q}
      /\ \A r \in answered :
            runs[r].state = "running" /\ runs'[r].state = "done" => r \in StoredRuns(results)
  <2>1. Execute(q) \/ UNCHANGED qvars
    BY <1>3 DEF Answered, Unanswered
  <2>. QED
    BY <1>1, <1>3, <1>4, <2>1, RequestFacts, RequestDone, StoreServes
<1>6. job.step = "valid" => calls[job.run] = 0 /\ job.run \notin answered
  <2>. SUFFICES ASSUME job.step = "valid" PROVE calls[job.run] = 0
    BY <1>1
  <2>1. Token(job) \in Held /\ Token(job)[1] = job.run
    BY <1>1 DEF Held, Token
  <2>. QED
    BY <1>1, <2>1 DEF Called
<1>7. /\ job'.step = "agent" => job'.run \notin answered
      /\ \A r \in answered : calls'[r] = 1
  <2>1. CASE calls' = calls /\ job' \in {NoJob, [job EXCEPT !.step = "valid"]}
    BY <1>1, <2>1 DEF NoJob, NTypeOK
  <2>2. CASE /\ job.step = "valid" /\ job' = [job EXCEPT !.step = "agent"]
             /\ calls' = [calls EXCEPT ![job.run] = @ + 1]
    BY <1>1, <1>6, <2>2 DEF NTypeOK
  <2>. QED
    BY <2>1, <2>2 DEF BeginJob, ValidateJob, CloseJob
<1>8. ASSUME NEW f \in fins' PROVE f \in fins \/ f.outcome # "done" \/ f.run \notin answered
  <2>1. \/ fins' = fins
        \/ fins' = fins \cup {[run |-> job.run, offer |-> job.offer, outcome |-> "cancelled"]}
        \/ fins' = fins \cup {[run |-> job.run, offer |-> job.offer, outcome |-> "interrupted"]}
        \/ job.step = "valid" /\ \E outcome \in {"done", "error"} :
             fins' = fins \cup {[run |-> job.run, offer |-> job.offer, outcome |-> outcome]}
    BY DEF BeginJob, ValidateJob, CloseJob
  <2>. QED
    BY <1>6, <1>8, <2>1
<1>9. \A token \in answers' : token \in answers /\ \E f \in fins' : token = Token(f)
  <2>1. fins \subseteq fins'
    BY DEF BeginJob, ValidateJob, CloseJob
  <2>. QED
    BY <1>1, <1>2, <2>1 DEF Saved
<1>. QED
  BY <1>2, <1>4, <1>5, <1>7, <1>8, <1>9, SavedKeeps

\* With the poll thread: what a request of it claims was stored before.
LEMMA PollSaved ==
    ASSUME SInv, WInv', KeepsAll, UNCHANGED <<job, calls, answered>>,
           NEW kind \in {"publish", "finish"}, NEW token \in Tokens,
           NEW outcome \in TERMINAL \cup {"none"}, kind = "finish" => outcome \in TERMINAL,
           \/ Answered(Request(kind, token, outcome))
           \/ Unanswered(Request(kind, token, outcome)),
           kind = "finish" /\ Claims(token, outcome) => token[1] \in StoredRuns(results),
           \A t \in answers' : t \in answers /\ \E f \in fins' : t = Token(f),
           \A f \in fins' : \/ f \in fins /\ (Token(f) \in answers => Token(f) \in answers')
                            \/ f.outcome # "done" \/ f.run \notin answered
                            \/ f.run \in StoredRuns(results')
    PROVE  SInv'
<1>. DEFINE q == Request(kind, token, outcome)
<1>1. /\ q \in RequestType /\ q.kind = kind /\ q.outcome = outcome /\ q.run = token[1]
      /\ Asked(q) = token
  BY DEF Request, RequestType, Asked, Tokens
<1>2. TypeOK /\ Saved
  BY DEF SInv, WInv, QInv, IInv
<1>. HIDE DEF q
<1>3. Answered(q) \/ Unanswered(q)
  BY DEF q
<1>4. (Execute(q) \/ UNCHANGED qvars) /\ late' \subseteq late \cup {q}
  BY <1>3 DEF Answered, Unanswered
<1>5. [ServiceNext]_vars
  BY <1>1, <1>2, <1>3, RequestFacts, StoreServes
<1>6. q.kind = "finish" /\ Claims(Asked(q), q.outcome) => q.run \in StoredRuns(results)
  BY <1>1
<1>7. \A r \in answered :
        runs[r].state = "running" /\ runs'[r].state = "done" => r \in StoredRuns(results)
  BY <1>1, <1>4, <1>6, RequestDone
<1>8. /\ job'.step = "agent" => job'.run \notin answered
      /\ \A r \in answered : calls'[r] = 1
  BY <1>2 DEF Saved
<1>. QED
  BY <1>4, <1>5, <1>6, <1>7, <1>8, SavedKeeps

LEMMA GiveBackSaved ==
    ASSUME SInv, WInv', KeepsAll, NEW token \in defers, GiveBack(token)
    PROVE  SInv'
<1>1. token \in Tokens /\ "cancelled" \in TERMINAL /\ Saved
  BY DEF SInv, WInv, LocalInv, NTypeOK, TERMINAL
<1>2. /\ UNCHANGED <<fins, answers, job, calls, answered>>
      /\ \/ Answered(Request("finish", token, "cancelled"))
         \/ Unanswered(Request("finish", token, "cancelled"))
  BY DEF GiveBack, model
<1>3. ~Claims(token, "cancelled")
  BY DEF Claims
<1>. QED
  BY <1>1, <1>2, <1>3, PollSaved DEF Saved

LEMMA SendFinishSaved ==
    ASSUME SInv, WInv', KeepsAll, NEW f \in poll.todo, SendFinish(f)
    PROVE  SInv'
<1>1. /\ f \in fins /\ Token(f) \in Tokens /\ Token(f)[1] = f.run /\ f.outcome \in TERMINAL /\ Saved
      /\ Token(f) \notin answers
  BY DEF SInv, WInv, LocalInv, Polled, NTypeOK, Token, Tokens, SendFinish
<1>2. /\ UNCHANGED <<answers, job, calls, answered>>
      /\ fins' = fins \/ fins' = fins \ {f}
      /\ \/ Answered(Request("finish", Token(f), f.outcome))
         \/ Unanswered(Request("finish", Token(f), f.outcome))
  BY DEF SendFinish, model
<1>3. Claims(Token(f), f.outcome) => f.run \in StoredRuns(results)
  BY <1>1 DEF Saved
<1>4. \A t \in answers' : t \in answers /\ \E g \in fins' : t = Token(g)
  BY <1>1, <1>2 DEF Saved
<1>. QED
  BY <1>1, <1>2, <1>3, <1>4, PollSaved

\* A publication that is accepted has stored the answer.
LEMMA AcceptedIsStored ==
    ASSUME NEW r \in RunIds, NEW offer \in Offers, results \in Seq(Results), KeepsAll,
           Publish(Native, r, offer), PublishAccepted(Native, r, offer)
    PROVE  r \in StoredRuns(results')
<1>. DEFINE answer == [run |-> r, worker |-> Native, offer |-> offer, acked |-> FALSE]
<1>1. CASE r \in StoredRuns(results)
  BY <1>1 DEF KeepsAll
<1>2. CASE r \notin StoredRuns(results)
  <2>1. results' = Append(results, answer) /\ answer \in Results /\ answer.run = r
    BY <1>2, WorkerConstants DEF Publish, PublishAccepted, Results
  <2>. HIDE DEF answer
  <2>2. Len(results) + 1 \in DOMAIN results' /\ results'[Len(results) + 1] = answer
    BY <2>1, AppendProperties, LenProperties
  <2>. QED
    BY <2>1, <2>2 DEF StoredRuns
<1>. QED
  BY <1>1, <1>2

LEMMA PublishAnswerSaved ==
    ASSUME SInv, WInv', KeepsAll, NEW f \in poll.todo, PublishAnswer(f)
    PROVE  SInv'
<1>. DEFINE q == Request("publish", Token(f), "none")
            refused == [f EXCEPT !.outcome = "cancelled"]
<1>1. /\ f \in fins /\ Token(f) \in Tokens /\ f.run \in RunIds /\ f.offer \in Offers
      /\ Saved /\ Distinct /\ results \in Seq(Results)
      /\ refused.outcome = "cancelled" /\ Token(refused) = Token(f)
  BY DEF SInv, WInv, LocalInv, Polled, NTypeOK, Token, Tokens, QInv, ResultsOK
<1>2. UNCHANGED <<job, calls, answered>> /\ (Answered(q) \/ Unanswered(q))
  BY DEF PublishAnswer, model
<1>3. CASE UNCHANGED <<fins, answers>>
  BY <1>1, <1>2, <1>3, PollSaved DEF Saved
<1>4. CASE /\ Answered(q) /\ PublishAccepted(Native, f.run, f.offer)
           /\ answers' = answers \ {Token(f)} /\ fins' = fins
  <2>1. Publish(Native, f.run, f.offer)
    BY <1>4 DEF Answered, Execute, Request, Token
  <2>2. f.run \in StoredRuns(results')
    BY <1>1, <1>4, <2>1, AcceptedIsStored
  <2>3. \A g \in fins' : g = f \/ (g \in fins /\ (Token(g) \in answers => Token(g) \in answers'))
    BY <1>1, <1>4 DEF Distinct
  <2>4. \A t \in answers' : t \in answers /\ \E g \in fins' : t = Token(g)
    BY <1>1, <1>4 DEF Saved
  <2>. QED
    BY <1>1, <1>2, <2>2, <2>3, <2>4, PollSaved
<1>5. CASE answers' = answers \ {Token(f)} /\ fins' = (fins \ {f}) \cup {refused}
  <2>1. \A g \in fins' : \/ g.outcome = "cancelled"
                         \/ g \in fins /\ (Token(g) \in answers => Token(g) \in answers')
    BY <1>1, <1>5 DEF Distinct
  <2>2. \A t \in answers' : t \in answers /\ \E g \in fins' : t = Token(g)
    BY <1>1, <1>5 DEF Saved
  <2>3. \A g \in fins' : g.outcome = "cancelled" => g.outcome # "done"
    OBVIOUS
  <2>. QED
    BY <1>1, <1>2, <2>1, <2>2, <2>3, PollSaved
<1>. QED
  BY <1>3, <1>4, <1>5 DEF PublishAnswer

\* The agent that answers is of the only token its RUN runs under: no FINISH
\* that waits or is under way speaks for it.
LEMMA AgentReturnsSaved ==
    ASSUME SInv, WInv', KeepsAll, AgentReturns
    PROVE  SInv'
<1>1. /\ NTypeOK /\ NTypeOK' /\ Saved /\ DoneMeansSaved /\ Distinct /\ Counted /\ Polled
      /\ LateFinishes /\ Busy /\ Held = {Token(job)} /\ job.run \notin answered
      /\ job.run \in RunIds
  BY LocalTokens DEF SInv, WInv, LocalInv, AgentReturns, Busy, Saved
<1>2. PICK mine \in Tokens : mine = Token(job) /\ mine[1] = job.run
  BY <1>1, LocalTokens DEF Token
<1>3. RunningUnder(mine) /\ calls[job.run] = 1
  <2>1. mine \in Held /\ job.step = "agent" /\ Called
    BY <1>1, <1>2 DEF SInv, WInv, LocalInv, AgentReturns
  <2>. QED
    BY <1>2, <2>1 DEF Called
<1>4. /\ UNCHANGED <<qvars, late, calls>> /\ runs' = runs /\ results' = results /\ job' = NoJob
      /\ job'.step # "agent"
      /\ [ServiceNext]_vars
  BY DEF AgentReturns, CloseJob, qvars, vars, NoJob
<1>. DEFINE fin(outcome) == [run |-> job.run, offer |-> job.offer, outcome |-> outcome]
<1>5. ASSUME NEW outcome, fins' = fins \cup {fin(outcome)}, UNCHANGED <<answers, answered>>
      PROVE  SInv'
  <2>1. \A f \in fins' : f \in fins \/ f.run \notin answered
    BY <1>1, <1>5
  <2>2. \A t \in answers' : t \in answers /\ \E f \in fins' : t = Token(f)
    BY <1>1, <1>5 DEF Saved
  <2>. QED
    BY <1>1, <1>4, <1>5, <2>1, <2>2, SavedKeeps DEF Saved
<1>6. CASE /\ fins' = fins \cup {fin("done")}
           /\ answers' = answers \cup {Token(job)}
           /\ answered' = answered \cup {job.run}
  <2>1. ASSUME NEW token \in Tokens, token[1] = job.run, RunningUnder(token)
        PROVE  token = mine
    BY <1>2, <1>3, <2>1 DEF Tokens, RunningUnder
  <2>2. \A token \in answers' : \E f \in fins' : token = Token(f)
    <3>1. fins \subseteq fins' /\ fin("done") \in fins' /\ Token(fin("done")) = Token(job)
      BY <1>6 DEF Token
    <3>. HIDE DEF fin
    <3>2. \A token \in answers : \E f \in fins : token = Token(f)
      BY <1>1 DEF Saved
    <3>. QED
      BY <1>6, <3>1, <3>2
  <2>3. \A r \in answered' : /\ calls'[r] = 1
                             /\ runs'[r].state = "running" => runs'[r].worker = Native
    BY <1>1, <1>2, <1>3, <1>4, <1>6 DEF Saved, RunningUnder
  <2>4. ASSUME NEW f \in fins', Claims(Token(f), f.outcome)'
        PROVE  Token(f) \in answers' \/ f.run \in StoredRuns(results')
    <3>1. CASE f = fin("done")
      BY <1>6, <3>1 DEF Token
    <3>2. CASE f \in fins
      <4>1. Token(f) \in Tokens /\ Token(f)[1] = f.run
        BY <1>1, <3>2, LocalTokens DEF Token
      <4>2. RunningUnder(Token(f)) /\ f.outcome = "done" /\ f.run \in answered'
        BY <1>4, <2>4 DEF Claims, RunningUnder, Token
      <4>3. f.run # job.run
        BY <1>1, <1>2, <2>1, <3>2, <4>1, <4>2 DEF Distinct
      <4>4. Claims(Token(f), f.outcome)
        BY <1>6, <4>1, <4>2, <4>3 DEF Claims
      <4>. QED
        BY <1>1, <1>4, <1>6, <3>2, <4>4 DEF Saved
    <3>. QED
      BY <1>6, <3>1, <3>2
  <2>5. ASSUME NEW q \in late', q.kind = "finish", Claims(Asked(q), q.outcome)'
        PROVE  q.run \in StoredRuns(results')
    <3>1. q \in late /\ Asked(q) \in Tokens /\ Asked(q)[1] = q.run
      BY <1>1, <1>4, LocalTokens DEF Asked
    <3>2. RunningUnder(Asked(q)) /\ q.outcome = "done" /\ q.run \in answered'
      BY <1>4, <2>5 DEF Claims, RunningUnder, Asked
    <3>3. q.run # job.run
      <4>1. mine \notin defers /\ (\A f \in fins : mine # Token(f)) /\ ~Dead(mine)
        BY <1>1, <1>2, <1>3 DEF Polled, Counted, Distinct, Dead, RunningUnder, Granted
      <4>. QED
        BY <1>1, <2>1, <2>5, <3>1, <3>2, <4>1 DEF LateFinishes
    <3>4. Claims(Asked(q), q.outcome)
      BY <1>6, <3>1, <3>2, <3>3 DEF Claims
    <3>. QED
      BY <1>1, <1>4, <2>5, <3>1, <3>4 DEF Saved
  <2>6. Saved'
    BY <1>4, <2>2, <2>3, <2>4, <2>5 DEF Saved
  <2>7. DoneMeansSaved'
    BY <1>1, <1>2, <1>3, <1>4, <1>6 DEF DoneMeansSaved, RunningUnder
  <2>. QED
    BY <2>6, <2>7 DEF SInv
<1>. QED
  BY <1>5, <1>6 DEF AgentReturns, CloseJob

LEMMA WorkerNextSaved ==
    ASSUME SInv, WInv', [NNext]_nvars, KeepsAll
    PROVE  SInv'
  BY ElsewhereSaved, LocalSaved, LateSaved, CrashSaved, JobSaved, AgentReturnsSaved,
     PublishAnswerSaved, SendFinishSaved, GiveBackSaved
  DEF NNext, ModelThread, PollThread

\* The store forgets the answer of no RUN: that it evicts acknowledged answers
\* only, and those beyond MaxAcked, is QueryResults.
NothingForgotten == [][KeepsAll]_nvars

\* A RUN that ended "done" after its agent answered has that answer in the store,
\* whatever raised, came late or was repeated between the publication and the
\* FINISH, as long as the store has forgotten no answer.
THEOREM DoneMeansSavedProved == NSpec /\ NothingForgotten => []DoneMeansSaved
<1>1. NInit => SInv
  <2>. SUFFICES ASSUME NInit PROVE SInv
    OBVIOUS
  <2>1. WInv
    BY WorkerInitInv
  <2>. QED
    BY <2>1 DEF NInit, NoJob, SInv, Saved, DoneMeansSaved
<1>2. SInv /\ WInv' /\ [NNext]_nvars /\ [KeepsAll]_nvars => SInv'
  <2>. SUFFICES ASSUME SInv, WInv', [NNext]_nvars, [KeepsAll]_nvars PROVE SInv'
    OBVIOUS
  <2>1. KeepsAll
    BY DEF KeepsAll, nvars, qvars
  <2>. QED
    BY <2>1, WorkerNextSaved
<1>3. SInv => DoneMeansSaved
  BY DEF SInv
<1>. QED
  BY <1>1, <1>2, <1>3, WorkerInvariance, PTL DEF NSpec, NothingForgotten

=============================================================================
