----------------------------- MODULE LegacyCore -----------------------------
(***************************************************************************)
(* The scheduler of the legacy CORE: one executor thread runs every model  *)
(* step, a scheduler thread chooses what it runs next, client threads      *)
(* admit turns and release sessions, and RUNs come from the Task SYSTEM.   *)
(* A request is a generator: it runs one step, goes back to the queue and  *)
(* may be overtaken there by a request of higher priority, also while it   *)
(* holds an agent or one of the two manager KV contexts.                   *)
(*                                                                         *)
(* The pool has one ordinary agent.  A request is its index in reqs, which *)
(* is the order of admission.                                              *)
(***************************************************************************)
EXTENDS Naturals, Sequences, FiniteSets

CONSTANTS
    Sessions,      \* connections that may own the human session, numbered from 1
    Offers,        \* execution grants the Task SYSTEM may offer to this CORE
    MaxEvents,     \* bound: requests, failures of a KV operation, warm-ups asked for
                   \* and a stop, together
    MaxSteps,      \* bound: steps of a request before its last one
    MaxPending,    \* CAT_AGENT_MAX_PENDING
    Reserve,       \* places kept for people (the code has 8)
    Reacquire      \* a connection may acquire the session again after a release

ASSUME LegacyConstants ==
    /\ Sessions \subseteq Nat \ {0} /\ "none" \notin Offers
    /\ MaxEvents \in Nat /\ MaxSteps \in Nat /\ Reserve \in Nat
    /\ MaxPending \in Nat /\ MaxPending >= 2 /\ Reacquire \in BOOLEAN

VARIABLES
    reqs,      \* admitted requests, in order
    jobs,      \* the executor's queue; the head runs
    stepping,  \* the head of jobs is inside a step of its request
    result,    \* future of the active request: none, or what the step returned
    ready,     \* _manager_slot_ready
    avail,     \* _manager_available
    contexts,  \* dialogue -> its manager slot, 0: none
    kept,      \* slot -> the dialogue goes on after the turn (chat, or a question)
    kv2,       \* _kv2_state, _kv2_requested and the warm-up future
    owner,     \* _human
    met,       \* connections that have owned the session
    released,  \* _released_sessions
    grant,     \* Task SYSTEM: state of every offer
    seen,      \* RemoteSystemRuntime._seen
    finished,  \* RemoteSystemRuntime._finished
    stopped,   \* close was called
    allowed,   \* the service has allowed the RUN at the head of jobs its next step
    noteWaits, \* _waiting_for_worker of the notifications' context
    failures,  \* history: how many KV resets, warm-ups and recoveries failed
    starved,   \* history: "all manager KV contexts are occupied"
    late,      \* history: steps of each RUN begun after its grant was void
    extras     \* how many warm-ups were asked for, and a stop

kv == <<ready, avail, contexts, kept, kv2>>
people == <<owner, met, released>>
service == <<grant, seen, finished>>
gate == <<allowed, noteWaits, late>>
control == <<stopped, extras, gate>>
history == <<failures, starved>>
lvars == <<reqs, jobs, stepping, result, kv, people, service, control, history>>

Interactive == {"human", "voice"}
Slots == {1, 2}
Nobody == 0
Voice == 0
Dialogues == Sessions \cup {Voice}
Alive == {i \in DOMAIN reqs : reqs[i].state # "done"}
Pending == {i \in DOMAIN reqs : reqs[i].state = "pending"}
Active == {i \in DOMAIN reqs : reqs[i].state = "active"}
Others == {i \in Alive : reqs[i].kind \notin Interactive}
AgentFree == \A i \in DOMAIN reqs : ~reqs[i].agent

\* _context_key.  The notifications made of answers share a dialogue of their own,
\* whose context is not one of the two slots; a RUN has none.
SameDialogue(p, q) == \/ p.kind \in Interactive /\ p.kind = q.kind /\ p.who = q.who
                      \/ p.kind = "manager" /\ q.kind = "manager"

Priority(q) == CASE q.kind = "voice" -> 0
                 [] q.kind \in {"human", "manager"} -> 10
                 [] q.kind = "run" -> 110

Request(kind, who, run) ==
    [kind |-> kind, who |-> who, run |-> run, state |-> "pending", begun |-> FALSE, cancelled |-> FALSE,
     slot |-> 0, agent |-> FALSE, waits |-> FALSE, started |-> FALSE, steps |-> 0]

Admissible(kind) ==
    Cardinality(Alive) < IF kind \in Interactive THEN MaxPending
                         ELSE IF MaxPending > Reserve THEN MaxPending - Reserve ELSE 1

-----------------------------------------------------------------------------
(* Admission and sessions: client threads.                                  *)

Extra == Len(reqs) + failures + extras < MaxEvents /\ extras' = extras + 1

Admit(kind, who, run) ==
    /\ Len(reqs) + failures + extras < MaxEvents /\ Admissible(kind)
    /\ reqs' = Append(reqs, Request(kind, who, run))

Acquire(s) ==
    /\ owner = Nobody /\ (IF s \in met THEN Reacquire ELSE s = Cardinality(met) + 1) /\ ~stopped
    /\ owner' = s /\ met' = met \cup {s}
    /\ UNCHANGED <<reqs, jobs, stepping, result, kv, released, service, control, history>>

SubmitUser(s) ==
    /\ owner = s /\ ~stopped
    /\ Admit("human", s, "none")
    /\ UNCHANGED <<jobs, stepping, result, kv, people, service, control, history>>

\* One voice turn at a time.
SubmitVoice ==
    /\ \A i \in Alive : reqs[i].kind # "voice"
    /\ ~stopped
    /\ Admit("voice", Voice, "none")
    /\ UNCHANGED <<jobs, stepping, result, kv, people, service, control, history>>

\* release, or the end of the owner's connection.
ReleaseSession(s) ==
    /\ owner = s /\ ~stopped
    /\ owner' = Nobody
    /\ reqs' = [i \in DOMAIN reqs |->
                  IF i \in Alive /\ reqs[i].kind = "human" /\ reqs[i].who = s
                  THEN [reqs[i] EXCEPT !.cancelled = TRUE] ELSE reqs[i]]
    /\ released' = released \cup {s}
    /\ jobs' = Append(jobs, [does |-> "release", of |-> s])
    /\ UNCHANGED <<stepping, result, kv, met, service, control, history>>

WarmKV2 ==
    /\ owner # Nobody /\ ~ready[2] /\ kv2.state = "not_ready" /\ ~stopped
    /\ Extra
    /\ kv2' = [kv2 EXCEPT !.state = "queued", !.requested = TRUE]
    /\ UNCHANGED <<reqs, jobs, stepping, result, ready, avail, contexts, kept, people, service,
                   stopped, gate, history>>

-----------------------------------------------------------------------------
(* Manager KV contexts.                                                    *)

Fails(n) == failures' = failures + n /\ (n > 0 => Len(reqs) + failures' + extras <= MaxEvents)

\* Mutant: a slot whose reset failed stays available.
CloseContextAnyway(key, ok) ==
    LET slot == contexts[key]
    IN  /\ contexts' = [contexts EXCEPT ![key] = 0]
        /\ IF slot = 0 \/ stopped THEN UNCHANGED <<ready, avail, kept, kv2, failures>>
           ELSE /\ kept' = [kept EXCEPT ![slot] = FALSE]
                /\ ready' = [ready EXCEPT ![slot] = ok]
                /\ avail' = avail \cup {slot}
                /\ kv2' = IF slot = 1 THEN kv2
                          ELSE [kv2 EXCEPT !.state = IF ok THEN "ready" ELSE "not_ready"]
                /\ Fails(IF ok THEN 0 ELSE 1)

\* A failed reset takes the slot out of service.  After close was called the slot
\* is given back to nobody: it is not reset any more.
CloseContext(key, ok) ==
    LET slot == contexts[key]
    IN  /\ contexts' = [contexts EXCEPT ![key] = 0]
        /\ IF slot = 0 \/ stopped THEN UNCHANGED <<ready, avail, kept, kv2, failures>>
           ELSE /\ kept' = [kept EXCEPT ![slot] = FALSE]
                /\ ready' = [ready EXCEPT ![slot] = ok]
                /\ avail' = IF ok THEN avail \cup {slot} ELSE avail \ {slot}
                /\ kv2' = IF slot = 1 THEN kv2
                          ELSE [kv2 EXCEPT !.state = IF ok THEN "ready" ELSE "not_ready"]
                /\ Fails(IF ok THEN 0 ELSE 1)

\* Mutant: a turn always takes the first slot, also from an idle dialogue.
TakeContextEvicting(key, recovered, warmed) ==
    /\ contexts' = [d \in Dialogues |-> IF d = key THEN 1
                                       ELSE IF contexts[d] = 1 THEN 0 ELSE contexts[d]]
    /\ ready' = [ready EXCEPT ![1] = TRUE] /\ avail' = avail \ {1}
    /\ UNCHANGED <<kept, kv2, history>>

\* The context of an interactive request: the one of its dialogue, else KV1
\* (rebuilt if it was lost), else KV2 (created if there is none), else an error.
\* slot 0 stands for the error.
TakeContext(key, recovered, warmed) ==
    LET ready1 == ready[1] \/ recovered
        free == avail \cup IF ~ready[1] /\ recovered THEN {1} ELSE {}
        warms == free = {} /\ ~ready[2]
        usable == free \cup IF warms /\ warmed THEN {2} ELSE {}
        slot == IF usable = {} THEN 0 ELSE CHOOSE k \in usable : \A m \in usable : k <= m
    IN  IF contexts[key] # 0
        THEN UNCHANGED <<ready, avail, contexts, kept, kv2, history>>
        ELSE /\ ready' = [ready EXCEPT ![1] = ready1, ![2] = @ \/ (warms /\ warmed)]
             /\ avail' = usable \ {slot}
             /\ contexts' = [contexts EXCEPT ![key] = slot]
             /\ kv2' = IF warms THEN [kv2 EXCEPT !.requested = FALSE,
                                                 !.state = IF warmed THEN "ready" ELSE "not_ready"]
                       ELSE kv2
             /\ Fails((IF ready1 THEN 0 ELSE 1) + (IF warms /\ ~warmed THEN 1 ELSE 0))
             /\ starved' = (starved \/ usable = {})
             /\ UNCHANGED kept

\* The executor warms KV2 on request.
SubmitWarm ==
    /\ kv2.requested /\ Active = {} /\ kv2.future = "none" /\ ~stopped
    /\ kv2' = [state |-> "warming", requested |-> FALSE, future |-> "running"]
    /\ jobs' = Append(jobs, [does |-> "warm", of |-> 0])
    /\ UNCHANGED <<reqs, stepping, result, ready, avail, contexts, kept, people, service,
                   control, history>>

Warm(ok) ==
    /\ jobs # <<>> /\ Head(jobs).does = "warm"
    /\ jobs' = Tail(jobs)
    /\ IF ready[2] THEN /\ kv2' = [kv2 EXCEPT !.state = "ready", !.future = "done"]
                        /\ UNCHANGED <<ready, avail, failures>>
       ELSE /\ kv2' = [kv2 EXCEPT !.state = IF ok THEN "ready" ELSE "warming",
                                  !.future = IF ok THEN "done" ELSE "failed"]
            /\ ready' = [ready EXCEPT ![2] = ok]
            /\ avail' = IF ok THEN avail \cup {2} ELSE avail
            /\ Fails(IF ok THEN 0 ELSE 1)
    /\ UNCHANGED <<reqs, stepping, result, contexts, kept, people, service, control, starved>>

PollWarm ==
    /\ kv2.future \in {"done", "failed"}
    /\ kv2' = [kv2 EXCEPT !.future = "none", !.state = IF kv2.future = "failed" THEN "not_ready" ELSE @]
    /\ ready' = IF kv2.future = "failed" THEN [ready EXCEPT ![2] = FALSE] ELSE ready
    /\ UNCHANGED <<reqs, jobs, stepping, result, avail, contexts, kept, people, service, control,
                   history>>

\* _release_context: not while a request of the session is left.
ReleaseContext(ok) ==
    /\ jobs # <<>> /\ Head(jobs).does = "release"
    /\ jobs' = Tail(jobs)
    /\ LET s == Head(jobs).of
       IN  IF \E i \in Alive : reqs[i].kind = "human" /\ reqs[i].who = s THEN UNCHANGED <<kv, released, failures>>
           ELSE CloseContext(s, ok) /\ released' = released \ {s}
    /\ UNCHANGED <<reqs, stepping, result, owner, met, service, control, starved>>

-----------------------------------------------------------------------------
(* RUNs of the Task SYSTEM.                                                *)

\* The service: one grant at a time for a CORE; it is void once its task changes.
ServiceOffers(r) ==
    /\ grant[r] = "none"
    /\ \A o \in Offers : grant[o] \notin {"offered", "running"}
    /\ grant' = [grant EXCEPT ![r] = "offered"]
    /\ UNCHANGED <<reqs, jobs, stepping, result, kv, people, seen, finished, control, history>>

ServiceRevokes(r) ==
    /\ grant[r] \in {"offered", "running"}
    /\ grant' = [grant EXCEPT ![r] = "revoked"]
    /\ UNCHANGED <<reqs, jobs, stepping, result, kv, people, seen, finished, control, history>>

\* flush_completions, for one RUN: the service ends it, or takes an offer back that
\* never began, unless the grant is void already.  A reply that is lost (told =
\* FALSE) leaves the completion to be sent again.
FlushCompletions(r, told) ==
    /\ r \in finished
    /\ grant' = [grant EXCEPT ![r] = CASE @ = "running" -> "finished"
                                       [] @ = "offered" -> "revoked"
                                       [] OTHER -> @]
    /\ IF told THEN seen' = seen \ {r} /\ finished' = finished \ {r}
       ELSE UNCHANGED <<seen, finished>>
    /\ UNCHANGED <<reqs, jobs, stepping, result, kv, people, control, history>>

\* Mutant: an offer is marked seen before the queue has accepted it.
PollOfferMarksFirst(r) ==
    /\ ~stopped /\ finished = {}
    /\ grant[r] = "offered" /\ r \notin seen
    /\ \A i \in Alive : reqs[i].run # r
    /\ IF Admissible("run") THEN Admit("run", Nobody, r) ELSE UNCHANGED reqs
    /\ seen' = seen \cup {r}
    /\ UNCHANGED <<jobs, stepping, result, kv, people, grant, finished, control, history>>

\* poll_due, once all completions are sent: an offer that a full queue rejects is not
\* marked seen and comes again.
PollOffer(r) ==
    /\ ~stopped /\ finished = {}
    /\ grant[r] = "offered" /\ r \notin seen
    /\ \A i \in Alive : reqs[i].run # r
    /\ Admit("run", Nobody, r)
    /\ seen' = seen \cup {r}
    /\ UNCHANGED <<jobs, stepping, result, kv, people, grant, finished, control, history>>

-----------------------------------------------------------------------------
(* The scheduler thread and the executor.                                   *)

\* The request waits for the agent in the middle of a step.  A notification discarded
\* while it waits leaves the flag of the shared context set, until one that wants the
\* agent gets it.
WaitsForAgent(q) == q.waits \/ (q.kind = "manager" /\ q.begun /\ noteWaits)

\* Mutant: a suspended RUN waits for a free agent like a new one.
RunnableByPool(i) ==
    LET q == reqs[i]
    IN  /\ WaitsForAgent(q) /\ ~q.cancelled => AgentFree
        /\ q.kind = "run" /\ ~q.cancelled => AgentFree
        /\ q.kind # "run" /\ ~q.cancelled /\ ~q.begun =>
             \A j \in Pending \ {i} : ~(reqs[j].begun /\ SameDialogue(reqs[j], q))

\* A turn does not overtake the suspended one of its dialogue.
Runnable(i) ==
    LET q == reqs[i]
    IN  /\ WaitsForAgent(q) /\ ~q.cancelled => AgentFree
        /\ ~q.cancelled /\ ~q.begun =>
             IF q.kind = "run" THEN AgentFree
             ELSE \A j \in Pending \ {i} : ~(reqs[j].begun /\ SameDialogue(reqs[j], q))

Before(i, j) == \/ Priority(reqs[i]) < Priority(reqs[j])
                \/ Priority(reqs[i]) = Priority(reqs[j]) /\ i <= j

StartNext(i) ==
    /\ Active = {} /\ kv2.future = "none" /\ ~stopped
    /\ i \in Pending /\ Runnable(i)
    /\ \A j \in Pending : Runnable(j) => Before(i, j)
    /\ reqs' = [reqs EXCEPT ![i].state = "active"]
    /\ jobs' = Append(jobs, [does |-> "advance", of |-> i])
    /\ UNCHANGED <<stepping, result, kv, people, service, control, history>>

Advancing(i) == jobs # <<>> /\ Head(jobs) = [does |-> "advance", of |-> i] /\ ~stepping

Returns(what) == result' = what /\ jobs' = Tail(jobs) /\ stepping' = FALSE

\* The service does not answer: pause at the boundary.  It may have recorded the
\* begin whose answer was lost.
ServiceAway(i) ==
    /\ Advancing(i) /\ ~allowed /\ reqs[i].kind \in {"run", "manager"} /\ ~reqs[i].cancelled
    /\ Returns("paused")
    /\ \/ UNCHANGED grant
       \/ /\ grant[reqs[i].run] = "offered" /\ ~reqs[i].started
          /\ grant' = [grant EXCEPT ![reqs[i].run] = "running"]
    /\ UNCHANGED <<reqs, kv, people, seen, finished, control, history>>

\* Mutant: a RUN that has begun is not validated again.
RefusedAtBeginOnly(q) ==
    q.kind \in {"run", "manager"} /\ ~q.started /\ grant[q.run] \notin {"offered", "running"}

\* begin_run before the first step, valid_run before every other one, the steps
\* that turn a QUERY answer into a notification included.
Refused(q) ==
    /\ q.kind \in {"run", "manager"}
    /\ grant[q.run] \notin IF q.started THEN {"running"} ELSE {"offered", "running"}

\* Iterator closed: the agent sleeps to base; the context is reset to base.
Discard(i) ==
    /\ Advancing(i) /\ ~allowed /\ (reqs[i].cancelled \/ Refused(reqs[i]))
    /\ reqs' = [reqs EXCEPT ![i].cancelled = TRUE, ![i].agent = FALSE, ![i].waits = FALSE]
    /\ kept' = IF reqs[i].slot = 0 THEN kept ELSE [kept EXCEPT ![reqs[i].slot] = FALSE]
    /\ Returns("cancelled")
    /\ UNCHANGED <<ready, avail, contexts, kv2, people, service, control, history>>

\* The service answers: the RUN has begun, or goes on.  Whatever becomes of the grant
\* from here on, the step that was allowed will be made.
Allow(i) ==
    LET q == reqs[i]
    IN  /\ Advancing(i) /\ ~allowed /\ ~q.cancelled
        /\ q.kind \in {"run", "manager"} /\ ~Refused(q)
        /\ reqs' = [reqs EXCEPT ![i].started = TRUE]
        /\ grant' = [grant EXCEPT ![q.run] = "running"]
        /\ allowed' = TRUE
        /\ UNCHANGED <<jobs, stepping, result, kv, people, seen, finished, stopped, extras,
                       noteWaits, late, history>>

\* The step begins: a RUN takes the agent, a turn its KV context.
BeginStep(i, recovered, warmed) ==
    LET q == reqs[i]
        ofRun == q.kind \in {"run", "manager"}
    IN  /\ Advancing(i) /\ ~q.cancelled /\ (ofRun => allowed)
        /\ allowed' = FALSE
        /\ late' = IF ofRun /\ grant[q.run] # "running" THEN [late EXCEPT ![q.run] = @ + 1] ELSE late
        /\ IF q.kind \in Interactive /\ ~q.begun
           THEN /\ TakeContext(q.who, recovered, warmed)
                /\ reqs' = [reqs EXCEPT ![i].begun = TRUE, ![i].slot = contexts'[q.who]]
           ELSE /\ reqs' = [reqs EXCEPT ![i].begun = TRUE,
                                        ![i].agent = @ \/ (q.kind = "run" /\ ~q.begun)]
                /\ UNCHANGED <<kv, history>>
        /\ IF q.kind \in Interactive /\ reqs'[i].slot = 0
           THEN Returns("error")
           ELSE stepping' = TRUE /\ UNCHANGED <<jobs, result>>
        /\ UNCHANGED <<people, service, stopped, extras, noteWaits>>

\* A step ends at a boundary.  A turn, or a notification, may want the agent for a
\* one-shot task, and waits suspended while another has it.
StepYields(i, wants) ==
    LET q == reqs[i]
        needs == q.kind # "run" /\ ~q.agent /\ (wants \/ q.waits)
    IN  /\ stepping /\ i \in Active /\ (q.steps < MaxSteps \/ q.waits)
        /\ reqs' = [reqs EXCEPT ![i].agent = @ \/ (needs /\ AgentFree),
                                ![i].waits = needs /\ ~AgentFree,
                                ![i].steps = IF q.waits THEN @ ELSE @ + 1]
        /\ noteWaits' = IF needs /\ q.kind = "manager" THEN ~AgentFree ELSE noteWaits
        /\ Returns("paused")
        /\ UNCHANGED <<kv, people, service, stopped, extras, allowed, late, history>>

\* The last step; goesOn: the dialogue is a chat or ends with a question.
StepEnds(i, what, goesOn) ==
    LET q == reqs[i]
    IN  /\ stepping /\ i \in Active /\ ~q.waits
        /\ what \in IF q.kind = "run" THEN {"silent", "query"} ELSE {"reply", "error"}
        /\ goesOn => q.kind \in Interactive /\ what = "reply"
        /\ reqs' = [reqs EXCEPT ![i].agent = FALSE]
        /\ kept' = IF q.kind \in Interactive THEN [kept EXCEPT ![q.slot] = goesOn] ELSE kept
        /\ Returns(what)
        /\ UNCHANGED <<ready, avail, contexts, kv2, people, service, control, history>>

\* Nothing refers to a completed request any more.
Over == [Request("over", Nobody, "none") EXCEPT !.state = "done"]
Done(i) == reqs' = [reqs EXCEPT ![i] = Over]

FollowUp(i) == jobs' = IF reqs[i].kind = "human" /\ reqs[i].who \in released
                       THEN Append(jobs, [does |-> "release", of |-> reqs[i].who]) ELSE jobs

\* _finish_regular_request
Requeue(i) ==
    /\ i \in Active /\ result \in {"paused", "query"}
    /\ reqs' = IF result = "paused" THEN [reqs EXCEPT ![i].state = "pending"]
               ELSE [reqs EXCEPT ![i].state = "pending", ![i].kind = "manager", ![i].begun = FALSE,
                                 ![i].steps = 0]
    /\ result' = "none"
    /\ FollowUp(i)
    /\ UNCHANGED <<stepping, kv, people, service, control, history>>

\* The outcome is reported and delivered; a finished dialogue gives its slot back.
Complete(i, ok) ==
    /\ i \in Active /\ result \notin {"none", "paused", "query"}
    /\ Done(i)
    /\ finished' = IF reqs[i].kind \in Interactive THEN finished ELSE finished \cup {reqs[i].run}
    /\ IF /\ reqs[i].slot # 0 /\ result = "reply" /\ ~kept[reqs[i].slot]
          /\ contexts[reqs[i].who] = reqs[i].slot
       THEN CloseContext(reqs[i].who, ok)
       ELSE UNCHANGED <<kv, failures>>
    /\ result' = "none"
    /\ FollowUp(i)
    /\ UNCHANGED <<stepping, people, grant, seen, control, starved>>

-----------------------------------------------------------------------------
(* close: the thread is joined, the active step awaited, the queue discarded. *)

Stop ==
    /\ ~stopped /\ stopped' = TRUE
    /\ Extra
    /\ UNCHANGED <<reqs, jobs, stepping, result, kv, people, service, gate, history>>

DiscardQueue ==
    /\ stopped /\ Active = {} /\ jobs = <<>> /\ Pending # {}
    /\ reqs' = [i \in DOMAIN reqs |-> Over]
    /\ finished' = finished \cup {reqs[i].run : i \in Others}
    /\ UNCHANGED <<jobs, stepping, result, kv, people, grant, seen, control, history>>

-----------------------------------------------------------------------------
LInit ==
    /\ reqs = <<>> /\ jobs = <<>> /\ stepping = FALSE /\ result = "none"
    /\ ready = [k \in Slots |-> k = 1] /\ avail = {1}
    /\ contexts = [d \in Dialogues |-> 0] /\ kept = [k \in Slots |-> FALSE]
    /\ kv2 = [state |-> "not_ready", requested |-> FALSE, future |-> "none"]
    /\ owner = Nobody /\ met = {} /\ released = {}
    /\ grant = [r \in Offers |-> "none"] /\ seen = {} /\ finished = {}
    /\ stopped = FALSE /\ allowed = FALSE /\ noteWaits = FALSE /\ late = [r \in Offers |-> 0]
    /\ failures = 0 /\ starved = FALSE /\ extras = 0

Executor(i) ==
    \/ Allow(i) \/ Discard(i) \/ \E b, c \in BOOLEAN : BeginStep(i, b, c)
    \/ \E b \in BOOLEAN : StepYields(i, b)
    \/ \E what \in {"silent", "query", "reply", "error"}, b \in BOOLEAN : StepEnds(i, what, b)

SchedulerThread(i) ==
    StartNext(i) \/ Requeue(i) \/ \E b \in BOOLEAN : Complete(i, b)

Housekeeping ==
    \/ SubmitWarm \/ PollWarm \/ DiscardQueue
    \/ \E b \in BOOLEAN : Warm(b) \/ ReleaseContext(b)

LNext ==
    \/ \E s \in Sessions : Acquire(s) \/ SubmitUser(s) \/ ReleaseSession(s)
    \/ SubmitVoice \/ WarmKV2 \/ Stop
    \/ \E r \in Offers : ServiceOffers(r) \/ ServiceRevokes(r) \/ PollOffer(r)
    \/ \E r \in Offers, told \in BOOLEAN : FlushCompletions(r, told)
    \/ \E i \in DOMAIN reqs : Executor(i) \/ ServiceAway(i) \/ SchedulerThread(i)
    \/ Housekeeping

\* Both threads run, a model step ends, and a service that is asked again and
\* again answers at last.
LFairness ==
    /\ SF_lvars(\E i \in DOMAIN reqs : Executor(i))
    /\ WF_lvars(\E i \in DOMAIN reqs : SchedulerThread(i))
    /\ WF_lvars(Housekeeping) /\ WF_lvars(\E r \in Offers : FlushCompletions(r, TRUE))

LSpec == LInit /\ [][LNext]_lvars /\ LFairness

-----------------------------------------------------------------------------
(* Properties.                                                             *)

\* A manager context is never lost and never shared: a slot in service is either
\* free or belongs to exactly one dialogue, a slot out of service to none, through
\* failed resets, failed warm-ups, releases and cancelled turns.  So two contexts are
\* enough for a voice dialogue beside the one of the session's owner: unless a reset
\* or a warm-up failed, no turn is refused because a former owner still occupies one.
\* (All of it until the CORE is told to stop.)
ContextsAccounted ==
    ~stopped =>
        /\ \A k \in Slots :
            Cardinality({d \in Dialogues : contexts[d] = k}) + (IF k \in avail THEN 1 ELSE 0)
                = (IF ready[k] THEN 1 ELSE 0)
        /\ starved => failures > 0

\* A RUN whose grant the service has taken back, or has ended, makes at most one more
\* step, the one it had been allowed before: however long it was suspended, behind
\* turns or behind a service that was away, and also as the notification that its
\* answer became.
RevokedRunStops == \A r \in Offers : late[r] <= 1

\* The CORE and the service agree on what is in hand: an offer marked seen, which the
\* service will not repeat, is either one admitted request or a completion still to be
\* sent, and never both or two of them; and no RUN is running at the service that
\* nobody here runs or reports, for it would keep its task for ever.  Through full
\* queues, lost replies of begin and finish, refusals, discarded requests and the stop.
InHand == {reqs[i].run : i \in Others}
OffersAccounted ==
    /\ seen = InHand \cup finished
    /\ InHand \cap finished = {}
    /\ \A i, j \in Others : reqs[i].run = reqs[j].run => i = j
    /\ \A r \in Offers : grant[r] = "running" => r \in seen

\* Every admitted request comes to an end: not blocked by a suspended one that
\* holds the agent, its dialogue or a KV context, nor by a service that is away.
\* (MaxEvents bounds the requests, so that the last one ends too.)
EveryRequestEnds == <>[](Alive = {})

\* While its owner keeps the session, a dialogue that a turn left open keeps its
\* context until the next turn of the dialogue; unless the same connection had
\* released the session before and that release is not done yet.
OpenDialogueIsKept ==
    [][\A s \in Sessions \ released :
          /\ owner = s /\ owner' = s /\ contexts[s] # 0 /\ kept[contexts[s]]
          => \/ contexts'[s] = contexts[s]
             \/ \E i \in Active : reqs[i].who = s]_lvars

=============================================================================
