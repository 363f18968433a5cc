------------------------- MODULE NativeServerProofs -------------------------
(***************************************************************************)
(* Proofs about NativeServer, for any number of clients, agents and jobs.  *)
(***************************************************************************)
EXTENDS NativeServer, FiniteSetTheorems, TLAPS

Whats == {"none", "turn", "probe", "step", "run", "release", "clear", "timeout"}
Ats == {"idle", "start", "ask", "delegate", "begin", "call", "calling", "slice", "slicing",
        "sliced", "cleared", "result"}
Ops == [what : Whats, client : Nat, epoch : Nat, agent : Agents \cup {Manager, None}, job : Nat]
Threads == [op : Ops, at : Ats, ok : BOOLEAN, pending : Seq(Agents), count : Int,
            gone : BOOLEAN]
Jobs == [client : Nat, epoch : Nat, agent : Agents \cup {Manager, None}, index : Nat,
         state : LiveStates \cup {"none"}]

IsRun(op) == op.what = "run"
RunFree(s) == \A i \in DOMAIN s : ~IsRun(s[i])

\* No queued RUN has agent a.
NotQueued(q, a) ==
    \A k \in Priorities : \A i \in DOMAIN q[k] : IsRun(q[k][i]) => q[k][i].agent # a

\* Agents of queued RUNs are reserved, for one RUN each.
QueueOK(q, res) ==
    /\ q \in [Priorities -> Seq(Ops)]
    /\ \A k \in Priorities : \A i \in DOMAIN q[k] : IsRun(q[k][i]) => q[k][i].agent \in res
    /\ \A k, l \in Priorities : \A i \in DOMAIN q[k], m \in DOMAIN q[l] :
            IsRun(q[k][i]) /\ IsRun(q[l][m]) /\ q[k][i].agent = q[l][m].agent => k = l /\ i = m

Types ==
    /\ human \in Nat /\ epoch \in [Clients -> Nat]
    /\ admitting \in Ops
    /\ jobs \in [JobIds -> Jobs]
    /\ running \in Threads
    /\ picked \in Agents \cup {None} /\ reserved \subseteq Agents

\* The RUN of the model thread has reserved its agent, and once it has looked at
\* it no job has the agent or is about to get it.
RunningOK ==
    IsRun(running.op) =>
        /\ running.op.agent \in reserved /\ NotQueued(queue, running.op.agent)
        /\ running.at # "start" => /\ ~Blocked(running.op.agent)
                                   /\ admitting.agent # running.op.agent

SInv == Types /\ QueueOK(queue, reserved) /\ RunningOK

-----------------------------------------------------------------------------
(* The queue.                                                              *)

Extended(q, k, s) == [q EXCEPT ![k] = @ \o s]
Added(q, k, op) == [q EXCEPT ![k] = Append(@, op)]
Taken(q, k) == [q EXCEPT ![k] = Tail(@)]

\* Operations that are not RUNs leave the queue's RUNs as they are.
LEMMA AppendOthers ==
    ASSUME NEW q, NEW res, QueueOK(q, res), NEW k \in Priorities, NEW s \in Seq(Ops), RunFree(s),
           NEW q2, q2 = Extended(q, k, s)
    PROVE  /\ QueueOK(q2, res)
           /\ \A a : NotQueued(q, a) => NotQueued(q2, a)
<1>1. q2 \in [Priorities -> Seq(Ops)] /\ q[k] \in Seq(Ops)
  BY DEF QueueOK, Extended
<1>2. \A l \in Priorities : \A i \in DOMAIN q2[l] :
        IsRun(q2[l][i]) => i \in DOMAIN q[l] /\ q2[l][i] = q[l][i]
  <2> TAKE l \in Priorities
  <2>2. CASE l # k
    BY <1>1, <2>2 DEF QueueOK, Extended
  <2>3. CASE l = k
    <3>1. q2[k] = q[k] \o s
      BY <1>1 DEF QueueOK, Extended
    <3>2. \A i \in DOMAIN q2[k] :
            \/ i \in DOMAIN q[k] /\ q2[k][i] = q[k][i]
            \/ i - Len(q[k]) \in DOMAIN s /\ q2[k][i] = s[i - Len(q[k])]
      BY <1>1, <3>1
    <3> QED
      BY <2>3, <3>2 DEF RunFree
  <2> QED
    BY <2>2, <2>3
<1> QED
  BY <1>1, <1>2 DEF QueueOK, NotQueued

LEMMA AppendOther ==
    ASSUME NEW q, NEW res, QueueOK(q, res), NEW k \in Priorities, NEW op \in Ops, ~IsRun(op),
           NEW q2, q2 = Added(q, k, op)
    PROVE  /\ QueueOK(q2, res)
           /\ \A a : NotQueued(q, a) => NotQueued(q2, a)
<1>1. q2 \in [Priorities -> Seq(Ops)] /\ q[k] \in Seq(Ops)
  BY DEF QueueOK, Added
<1>2. \A l \in Priorities : \A i \in DOMAIN q2[l] :
        IsRun(q2[l][i]) => i \in DOMAIN q[l] /\ q2[l][i] = q[l][i]
  BY <1>1 DEF QueueOK, Added
<1> QED
  BY <1>1, <1>2 DEF QueueOK, NotQueued

\* A RUN is queued with an agent nobody has reserved.
LEMMA AppendRun ==
    ASSUME NEW q, NEW res, QueueOK(q, res), NEW k \in Priorities, NEW op \in Ops, IsRun(op),
           op.agent \notin res, NEW q2, q2 = Added(q, k, op)
    PROVE  /\ QueueOK(q2, res \cup {op.agent})
           /\ \A a : NotQueued(q, a) /\ a # op.agent => NotQueued(q2, a)
<1>1. q2 \in [Priorities -> Seq(Ops)] /\ q[k] \in Seq(Ops)
  BY DEF QueueOK, Added
<1>2. \A l \in Priorities : \A i \in DOMAIN q2[l] :
        \/ i \in DOMAIN q[l] /\ q2[l][i] = q[l][i]
        \/ l = k /\ i = Len(q[k]) + 1 /\ q2[l][i] = op
  BY <1>1 DEF QueueOK, Added
<1>3. \A l \in Priorities : \A i \in DOMAIN q2[l] :
        IsRun(q2[l][i]) => q2[l][i].agent \in res \cup {op.agent}
  BY <1>2 DEF QueueOK
<1>4. ASSUME NEW l \in Priorities, NEW m \in Priorities, NEW i \in DOMAIN q2[l],
             NEW n \in DOMAIN q2[m], IsRun(q2[l][i]), IsRun(q2[m][n]),
             q2[l][i].agent = q2[m][n].agent
      PROVE  l = m /\ i = n
  <2>1. CASE i \in DOMAIN q[l] /\ q2[l][i] = q[l][i] /\ n \in DOMAIN q[m] /\ q2[m][n] = q[m][n]
    BY <1>4, <2>1 DEF QueueOK
  <2>2. CASE i \in DOMAIN q[l] /\ q2[l][i] = q[l][i] /\ q2[m][n] = op
    BY <1>4, <2>2 DEF QueueOK
  <2>3. CASE q2[l][i] = op /\ n \in DOMAIN q[m] /\ q2[m][n] = q[m][n]
    BY <1>4, <2>3 DEF QueueOK
  <2> QED
    BY <1>2, <2>1, <2>2, <2>3
<1>5. QueueOK(q2, res \cup {op.agent})
  BY <1>1, <1>3, <1>4 DEF QueueOK
<1>6. \A a : NotQueued(q, a) /\ a # op.agent => NotQueued(q2, a)
  BY <1>2 DEF NotQueued
<1> QED
  BY <1>5, <1>6

\* The operation that is taken leaves the queue, and no other RUN has its agent.
LEMMA TakeHead ==
    ASSUME NEW q, NEW res, QueueOK(q, res), NEW k \in Priorities, q[k] # <<>>,
           NEW q2, q2 = Taken(q, k)
    PROVE  /\ QueueOK(q2, res) /\ Head(q[k]) \in Ops
           /\ IsRun(Head(q[k])) => /\ Head(q[k]).agent \in res
                                   /\ NotQueued(q2, Head(q[k]).agent)
<1>1. q2 \in [Priorities -> Seq(Ops)] /\ q[k] \in Seq(Ops) /\ 1 \in DOMAIN q[k]
      /\ Head(q[k]) = q[k][1] /\ q[k][1] \in Ops
  BY DEF QueueOK, Taken
<1>2. \A l \in Priorities : \A i \in DOMAIN q2[l] :
        \/ l # k /\ i \in DOMAIN q[l] /\ q2[l][i] = q[l][i]
        \/ l = k /\ i + 1 \in DOMAIN q[l] /\ i + 1 # 1 /\ q2[l][i] = q[l][i + 1]
  BY <1>1 DEF QueueOK, Taken
<1>3. \A l \in Priorities : DOMAIN q2[l] \subseteq Int
  BY <1>1 DEF Taken
<1>4. ASSUME NEW l \in Priorities, NEW m \in Priorities, NEW i \in DOMAIN q2[l],
             NEW n \in DOMAIN q2[m], IsRun(q2[l][i]), IsRun(q2[m][n]),
             q2[l][i].agent = q2[m][n].agent
      PROVE  l = m /\ i = n
  <2>1. i \in Int /\ n \in Int
    BY <1>3
  <2>2. PICK i1 \in DOMAIN q[l] : q2[l][i] = q[l][i1] /\ i1 = IF l = k THEN i + 1 ELSE i
    BY <1>2
  <2>3. PICK n1 \in DOMAIN q[m] : q2[m][n] = q[m][n1] /\ n1 = IF m = k THEN n + 1 ELSE n
    BY <1>2
  <2>4. l = m /\ i1 = n1
    BY <1>4, <2>2, <2>3 DEF QueueOK
  <2> QED
    BY <2>1, <2>2, <2>3, <2>4
<1>5. QueueOK(q2, res)
  <2>1. \A l \in Priorities : \A i \in DOMAIN q2[l] : IsRun(q2[l][i]) => q2[l][i].agent \in res
    BY <1>2 DEF QueueOK
  <2> QED
    BY <1>1, <1>4, <2>1 DEF QueueOK
<1>6. ASSUME IsRun(Head(q[k]))
      PROVE  Head(q[k]).agent \in res /\ NotQueued(q2, Head(q[k]).agent)
  <2>1. q[k][1].agent \in res
    BY <1>1, <1>6 DEF QueueOK
  <2>2. \A l \in Priorities : \A i \in DOMAIN q2[l] :
          IsRun(q2[l][i]) => q2[l][i].agent # q[k][1].agent
    BY <1>1, <1>2, <1>6 DEF QueueOK
  <2> QED
    BY <1>1, <2>1, <2>2 DEF NotQueued
<1> QED
  BY <1>1, <1>5, <1>6

-----------------------------------------------------------------------------
(* Cancellation.                                                           *)

\* The sequence of a finite set has the set's members.
LEMMA SetToSeqMembers ==
    ASSUME NEW S, IsFiniteSet(S)
    PROVE  Cardinality(S) \in Nat /\ SetToSeq(S) \in [1..Cardinality(S) -> S]
<1>1. Cardinality(S) \in Nat /\ \E f \in [1..Cardinality(S) -> S] : IsInjective(f)
  BY FS_CardinalityType DEF ExistsBijection, Bijection, Injection
<1> QED
  BY <1>1 DEF SetToSeq

\* The cleanup of a job is an operation, and no RUN.
LEMMA CleanupTyped ==
    ASSUME Types, NEW j \in JobIds
    PROVE  \A what \in {"clear", "timeout"} :
               CleanupOp(what, j) \in Ops /\ ~IsRun(CleanupOp(what, j))
<1>1. j \in Nat /\ jobs[j].agent \in Agents \cup {Manager, None}
  BY ServerConstants DEF Types, JobIds, Jobs
<1> QED
  BY <1>1 DEF CleanupOp, Op, Ops, Whats, IsRun, NoClient

\* Cancelling jobs queues their cleanups, which are not RUNs, and gives no job
\* an agent it had not.
LEMMA CancelFrame ==
    ASSUME Types, QueueOK(queue, reserved), NEW js \in SUBSET Live,
           NEW then \in Seq(Ops), RunFree(then), Cancel(js, then)
    PROVE  /\ jobs' \in [JobIds -> Jobs] /\ QueueOK(queue', reserved)
           /\ \A a : NotQueued(queue, a) => NotQueued(queue', a)
           /\ \A j \in JobIds : /\ jobs'[j].state \in LiveStates => jobs[j].state \in LiveStates
                                /\ jobs'[j].agent = jobs[j].agent
<1>1. IsFiniteSet(js)
  <2>1. IsFiniteSet(1..MaxJobs)
    BY FS_Interval, ServerConstants
  <2>2. js \in SUBSET (1..MaxJobs)
    BY DEF Live, JobIds
  <2> QED
    BY <2>1, <2>2, FS_Subset
<1>2. Cardinality(js) \in Nat /\ SetToSeq(js) \in [1..Cardinality(js) -> js]
  BY <1>1, SetToSeqMembers
<1>a. \A j \in js : CleanupOp("clear", j) \in Ops /\ ~IsRun(CleanupOp("clear", j))
  BY CleanupTyped DEF Live
<1> DEFINE cleanups == [i \in 1..Cardinality(js) |-> CleanupOp("clear", SetToSeq(js)[i])]
<1>3. cleanups \in Seq(Ops) /\ RunFree(cleanups)
  <2>2. \A i \in 1..Cardinality(js) : cleanups[i] \in Ops /\ ~IsRun(cleanups[i])
    BY <1>2, <1>a
  <2> QED
    BY <1>2, <2>2 DEF RunFree
<1>4. jobs' \in [JobIds -> Jobs]
      /\ \A j \in JobIds : /\ jobs'[j].state \in LiveStates => jobs[j].state \in LiveStates
                           /\ jobs'[j].agent = jobs[j].agent
  BY DEF Cancel, Types, Jobs, Live, LiveStates
<1>c. "control" \in Priorities
  BY DEF Priorities
<1> DEFINE mid == Extended(queue, "control", cleanups)
<1> HIDE DEF cleanups
<1>5. QueueOK(mid, reserved) /\ \A a : NotQueued(queue, a) => NotQueued(mid, a)
  BY <1>3, <1>c, AppendOthers
<1>6. queue' = Extended(mid, "control", then)
  <2>1. queue \in [Priorities -> Seq(Ops)] /\ "control" \in Priorities
    BY DEF QueueOK, Priorities
  <2>2. queue' = [queue EXCEPT !["control"] = @ \o cleanups \o then]
    BY DEF Cancel, cleanups
  <2> QED
    BY <2>1, <2>2 DEF Extended
<1> HIDE DEF mid
<1>7. QueueOK(queue', reserved) /\ \A a : NotQueued(mid, a) => NotQueued(queue', a)
  BY <1>5, <1>6, <1>c, AppendOthers
<1> QED
  BY <1>4, <1>5, <1>7

-----------------------------------------------------------------------------
(* Steps.                                                                  *)

\* A step that keeps the RUN of the model thread where it is, gives back no
\* agent, and gives jobs no agents but that of the admission in progress.
LEMMA Keeps ==
    ASSUME SInv, Types', QueueOK(queue', reserved'),
           IsRun(running'.op) => /\ running'.op = running.op
                                 /\ running.at = "start" => running'.at = "start",
           \A a \in reserved : NotQueued(queue, a) => NotQueued(queue', a),
           reserved \subseteq reserved',
           \A j \in JobIds : jobs'[j].state \in LiveStates =>
               \/ jobs[j].state \in LiveStates /\ jobs'[j].agent = jobs[j].agent
               \/ jobs'[j].agent = admitting.agent,
           admitting' = admitting \/ admitting'.agent \notin reserved
    PROVE  SInv'
<1>1. ASSUME IsRun(running'.op)
      PROVE  /\ running.op.agent \in reserved' /\ NotQueued(queue', running.op.agent)
             /\ running'.at # "start" =>
                    /\ \A j \in JobIds : jobs'[j].state \in LiveStates
                                            => jobs'[j].agent # running.op.agent
                    /\ admitting'.agent # running.op.agent
  <2>1. IsRun(running.op) /\ running.op.agent \in reserved /\ NotQueued(queue, running.op.agent)
    BY <1>1 DEF SInv, RunningOK
  <2>2. ASSUME running'.at # "start"
        PROVE  /\ \A j \in JobIds : jobs[j].state \in LiveStates
                                        => jobs[j].agent # running.op.agent
               /\ admitting.agent # running.op.agent
    BY <1>1, <2>1, <2>2 DEF SInv, RunningOK, Blocked, Live
  <2> QED
    BY <2>1, <2>2
<1>2. RunningOK'
  BY <1>1 DEF RunningOK, Blocked, Live
<1> QED
  BY <1>2 DEF SInv

\* Steps of the model thread inside an operation, and the end of one.
LEMMA Quiet ==
    ASSUME SInv, UNCHANGED <<jobs, queue, reserved, admitting>>,
           human' \in Nat, epoch' \in [Clients -> Nat], picked' \in Agents \cup {None},
           running' \in Threads,
           IsRun(running'.op) => /\ running'.op = running.op
                                 /\ running.at = "start" => running'.at = "start"
    PROVE  SInv'
<1>1. Types' /\ QueueOK(queue', reserved')
  BY DEF SInv, Types
<1> QED
  BY <1>1, Keeps

\* The model thread with an operation it has just taken.
TakenFor(op) == [Idle EXCEPT !.op = op, !.at = "start", !.gone = Ended(op)]

LEMMA EndedTyped == \A op : Ended(op) \in BOOLEAN
BY Zenon DEF Ended

LEMMA TakenForIs ==
    ASSUME NEW op
    PROVE  /\ TakenFor(op).op = op /\ TakenFor(op).at = "start" /\ TakenFor(op).pending = <<>>
           /\ TakenFor(op).gone = Ended(op)
           /\ op \in Ops => TakenFor(op) \in Threads
<1>1. PICK b \in BOOLEAN : b = Ended(op)
  BY EndedTyped
<1>2. TakenFor(op) = [Idle EXCEPT !.op = op, !.at = "start", !.gone = b]
  BY <1>1, Zenon DEF TakenFor
<1>3. Idle \in Threads /\ Idle.pending = <<>>
  BY DEF Idle, NoOp, Op, Ops, Whats, Ats, Threads, NoClient
<1>4. /\ TakenFor(op).op = op /\ TakenFor(op).at = "start" /\ TakenFor(op).pending = <<>>
      /\ TakenFor(op).gone = b
  BY <1>2, <1>3 DEF Threads
<1>5. op \in Ops => TakenFor(op) \in Threads
  BY <1>2, <1>3 DEF Threads, Ats
<1>. QED
  BY <1>1, <1>4, <1>5

LEMMA IdleTyped == Idle \in Threads /\ ~IsRun(Idle.op) /\ NoRequest \in Ops /\ NoRequest.agent = None
BY DEF Idle, NoOp, NoRequest, Op, Ops, Whats, Ats, Threads, NoClient, IsRun

\* A step inside an operation keeps the operation.
LEMMA StepTyped ==
    ASSUME Types, NEW step \in Ats, Step(step) \/ \E ok \in BOOLEAN : Result(step, ok)
    PROVE  running' \in Threads /\ running'.op = running.op
BY DEF Types, Threads, Step, Result

LEMMA AgentDoneTyped ==
    ASSUME Types, AgentDone
    PROVE  running' \in Threads /\ running'.op = running.op
<1>1. CASE running.pending # <<>>
  <2>1. Tail(running.pending) \in Seq(Agents) /\ "delegate" \in Ats
    BY <1>1 DEF Types, Threads, Ats
  <2> QED
    BY <1>1, <2>1, EndedTyped DEF AgentDone, Types, Threads
<1>2. CASE running.pending = <<>>
  BY <1>2, StepTyped DEF AgentDone, Ats
<1> QED
  BY <1>1, <1>2

LEMMA ThreadSteps ==
    ASSUME SInv
    PROVE  /\ CallAgent => SInv'
           /\ AgentReturns => SInv'
           /\ StartTurn => SInv'
           /\ AskManager => SInv'
           /\ Delegate => SInv'
           /\ GiveResult => SInv'
           /\ BeginRun => SInv'
           /\ ReleaseSession => SInv'
           /\ CallSlice => SInv'
           /\ SliceReturns => SInv'
           /\ AbortSlices => SInv'
<1> USE DEF session, native, worker
<1>0. Types /\ human \in Nat /\ epoch \in [Clients -> Nat] /\ picked \in Agents \cup {None}
  BY DEF SInv, Types
<1>s. Silent => running' \in Threads /\ running'.op = running.op
  BY <1>0, IdleTyped DEF Silent, Types, Threads, Ats
<1>1. ASSUME CallAgent PROVE SInv'
  <2>1. running' \in Threads /\ running'.op = running.op
    BY <1>0, <1>1, StepTyped, AgentDoneTyped DEF CallAgent, Ats
  <2> QED
    BY <1>0, <1>1, <2>1, Quiet DEF CallAgent
<1>2. ASSUME AgentReturns PROVE SInv'
  <2>1. running' \in Threads /\ running'.op = running.op
    BY <1>0, <1>2, AgentDoneTyped DEF AgentReturns
  <2> QED
    BY <1>0, <1>2, <2>1, Quiet DEF AgentReturns
<1>3. ASSUME StartTurn PROVE SInv'
  <2>1. running' \in Threads /\ ~IsRun(running'.op)
    BY <1>0, <1>3, StepTyped, IdleTyped DEF StartTurn, Ats, IsRun
  <2> QED
    BY <1>0, <1>3, <2>1, Quiet DEF StartTurn
<1>4. ASSUME AskManager PROVE SInv'
  <2>1. running' \in Threads /\ running'.op = running.op
    <3>1. CASE Step("result")
      BY <1>0, <3>1, StepTyped DEF Ats
    <3>2. CASE \E n \in 1..(MaxDelegations - running.count) : \E pending \in [1..n -> Agents] :
                 running' = [running EXCEPT !.at = "delegate", !.pending = pending, !.count = @ + n,
                                         !.gone = Ended(running.op)]
      <4>1. PICK n \in 1..(MaxDelegations - running.count) : \E pending \in [1..n -> Agents] :
              running' = [running EXCEPT !.at = "delegate", !.pending = pending, !.count = @ + n,
                                         !.gone = Ended(running.op)]
        BY <3>2
      <4>2. PICK pending \in [1..n -> Agents] :
              running' = [running EXCEPT !.at = "delegate", !.pending = pending, !.count = @ + n,
                                         !.gone = Ended(running.op)]
        BY <4>1
      <4>3. n \in Nat /\ pending \in Seq(Agents) /\ running.count + n \in Int
        BY <1>0, ServerConstants DEF Types, Threads
      <4> QED
        BY <1>0, <4>2, <4>3, EndedTyped DEF Types, Threads, Ats
    <3> QED
      BY <1>4, <3>1, <3>2 DEF AskManager
  <2> QED
    BY <1>0, <1>4, <2>1, Quiet DEF AskManager
<1>5. ASSUME Delegate PROVE SInv'
  <2>1. running' \in Threads /\ running'.op = running.op
    BY <1>0, <1>5, <1>s, StepTyped DEF Delegate, Ats
  <2> QED
    BY <1>0, <1>5, <2>1, Quiet DEF Delegate
<1>6. ASSUME GiveResult PROVE SInv'
  BY <1>0, <1>6, IdleTyped, Quiet DEF GiveResult
<1>7. ASSUME BeginRun PROVE SInv'
  <2>1. running' \in Threads /\ running'.op = running.op
    BY <1>0, <1>7, StepTyped DEF BeginRun, Ats
  <2> QED
    BY <1>0, <1>7, <2>1, Quiet DEF BeginRun, At
<1>8. ASSUME ReleaseSession PROVE SInv'
  BY <1>0, <1>8, IdleTyped, Quiet DEF ReleaseSession
<1>9. ASSUME CallSlice PROVE SInv'
  <2>1. running' \in Threads /\ running'.op = running.op
    BY <1>0, <1>9, StepTyped DEF CallSlice, Ats
  <2> QED
    BY <1>0, <1>9, <2>1, Quiet DEF CallSlice
<1>10. ASSUME SliceReturns PROVE SInv'
  <2>1. running' \in Threads /\ running'.op = running.op
    BY <1>0, <1>10, StepTyped DEF SliceReturns, Ats
  <2> QED
    BY <1>0, <1>10, <2>1, Quiet DEF SliceReturns
<1>11. ASSUME AbortSlices PROVE SInv'
  <2>1. running' \in Threads /\ ~IsRun(running'.op)
    BY <1>0, <1>11, StepTyped DEF AbortSlices, Ats, IsRun
  <2> QED
    BY <1>0, <1>11, <2>1, Quiet DEF AbortSlices
<1> QED
  BY <1>1, <1>2, <1>3, <1>4, <1>5, <1>6, <1>7, <1>8, <1>9, <1>10, <1>11

\* Client threads; an admission; slices that begin or end; cleanups; an offer.
LEMMA ClientSteps ==
    ASSUME SInv, NEW c \in Clients
    PROVE  ClientThread(c) => SInv'
<1> USE DEF session, native, worker
<1>0. /\ Types /\ human \in Nat /\ epoch \in [Clients -> Nat] /\ picked \in Agents \cup {None}
      /\ QueueOK(queue, reserved) /\ c \in Nat /\ Priorities = DOMAIN queue
      /\ running \in Threads
  BY ServerConstants DEF SInv, Types, QueueOK, Clients
<1>1. ASSUME Acquire(c) PROVE SInv'
  BY <1>0, <1>1, Quiet DEF Acquire
<1>2. ASSUME NEW js \in SUBSET Live, NEW then \in Seq(Ops), RunFree(then), Cancel(js, then),
             UNCHANGED <<admitting, running, worker>>, human' \in Nat, epoch' \in [Clients -> Nat]
      PROVE  SInv'
  <2>1. Types'
    BY <1>0, <1>2, CancelFrame DEF Types
  <2> QED
    BY <1>0, <1>2, <2>1, CancelFrame, Keeps
<1>3. ASSUME EndSession(c) PROVE SInv'
  <2>1. Op("release", c, epoch[c], None, 0) \in Ops /\ Cancellable(c) \in SUBSET Live
    BY <1>0 DEF Op, Ops, Whats, Cancellable
  <2>2. <<Op("release", c, epoch[c], None, 0)>> \in Seq(Ops)
        /\ RunFree(<<Op("release", c, epoch[c], None, 0)>>)
    BY <2>1 DEF RunFree, IsRun, Op
  <2> QED
    <3>1. human' \in Nat /\ epoch' \in [Clients -> Nat]
      BY <1>0, <1>3 DEF EndSession, NoClient
    <3>2. Cancel(Cancellable(c), <<Op("release", c, epoch[c], None, 0)>>)
          /\ UNCHANGED <<admitting, running, worker>>
      BY <1>3 DEF EndSession
    <3> QED
      BY <1>2, <2>1, <2>2, <3>1, <3>2
<1>4. ASSUME NEW a \in Agents \cup {Manager}, SubmitTurn(c, a) PROVE SInv'
  <2>1. Op("turn", c, epoch[c], a, 0) \in Ops /\ ~IsRun(Op("turn", c, epoch[c], a, 0))
    BY <1>0 DEF Op, Ops, Whats, IsRun
  <2>2. queue' = Added(queue, "human", Op("turn", c, epoch[c], a, 0)) /\ "human" \in Priorities
    BY <1>4 DEF SubmitTurn, Put, Added, Priorities
  <2>3. QueueOK(queue', reserved) /\ \A b : NotQueued(queue, b) => NotQueued(queue', b)
    BY <1>0, <2>1, <2>2, AppendOther
  <2>4. Types'
    BY <1>0, <1>4 DEF Types, SubmitTurn
  <2> QED
    BY <1>4, <2>3, <2>4, Keeps DEF SubmitTurn
<1>5. ASSUME NEW a \in Agents, NEW what \in {"step", "probe"}, AskAdmission(c, a, what)
      PROVE  SInv'
  <2>1. admitting' \in Ops /\ admitting'.agent = a
    BY <1>0, <1>5 DEF AskAdmission, Op, Ops, Whats
  <2>2. Types'
    BY <1>0, <1>5, <2>1 DEF Types, AskAdmission
  <2> QED
    BY <1>0, <1>5, <2>1, <2>2, Keeps DEF AskAdmission
<1>6. ASSUME NEW j \in JobIds, CancelBackground(c, j) PROVE SInv'
  <2>1. <<>> \in Seq(Ops) /\ RunFree(<<>>) /\ {j} \in SUBSET Live
    BY <1>6 DEF CancelBackground, Cancellable, RunFree
  <2> QED
    BY <1>0, <1>2, <1>6, <2>1 DEF CancelBackground
<1> QED
  BY <1>1, <1>3, <1>4, <1>5, <1>6 DEF ClientThread

LEMMA AdmitStep ==
    ASSUME SInv, Admit
    PROVE  SInv'
<1> USE DEF session, native, worker
<1>0. Types /\ QueueOK(queue, reserved) /\ admitting \in Ops
  BY DEF SInv, Types
<1>a. admitting' \in Ops /\ admitting'.agent \notin reserved
  BY <1>0, IdleTyped, ServerConstants DEF Admit, Types
<1>1. CASE admitting.what = "probe" /\ Put("hardware", admitting) /\ UNCHANGED jobs
  <2>1. ~IsRun(admitting) /\ queue' = Added(queue, "hardware", admitting) /\ "hardware" \in Priorities
    BY <1>1 DEF IsRun, Put, Added, Priorities
  <2>2. QueueOK(queue', reserved) /\ \A b : NotQueued(queue, b) => NotQueued(queue', b)
    BY <1>0, <2>1, AppendOther
  <2>3. Types'
    BY <1>0, <1>1, <1>a DEF Types, Admit
  <2> QED
    BY <1>1, <1>a, <2>2, <2>3, Keeps DEF Admit
<1>2. ASSUME admitting.what = "step", NEW j \in Fresh,
             jobs' = [jobs EXCEPT ![j] =
                        [NoJob EXCEPT !.client = admitting.client, !.epoch = admitting.epoch,
                                      !.agent = admitting.agent, !.state = "QUEUED"]],
             Put("background", [admitting EXCEPT !.job = j])
      PROVE  SInv'
  <2> DEFINE op == [admitting EXCEPT !.job = j]
  <2>1. j \in JobIds /\ j \in Nat
    BY ServerConstants DEF Fresh, JobIds
  <2>2. op \in Ops /\ ~IsRun(op) /\ queue' = Added(queue, "background", op)
        /\ "background" \in Priorities
    BY <1>0, <1>2, <2>1 DEF Ops, IsRun, Put, Added, Priorities
  <2> HIDE DEF op
  <2>3. QueueOK(queue', reserved) /\ \A b : NotQueued(queue, b) => NotQueued(queue', b)
    BY <1>0, <2>2, AppendOther
  <2>4. jobs' \in [JobIds -> Jobs] /\ \A i \in JobIds :
            jobs'[i].agent = admitting.agent \/ jobs'[i] = jobs[i]
    BY <1>0, <1>2, <2>1 DEF Types, Jobs, Ops, NoJob, NoClient, LiveStates
  <2>5. Types'
    BY <1>0, <1>a, <2>4 DEF Types, Admit
  <2> QED
    BY <1>a, <2>3, <2>4, <2>5, Keeps DEF Admit
<1>3. CASE UNCHANGED <<jobs, queue>>
  <2>1. Types'
    BY <1>0, <1>3, <1>a DEF Types, Admit
  <2> QED
    BY <1>0, <1>3, <1>a, <2>1, Keeps DEF Admit
<1> QED
  BY <1>1, <1>2, <1>3 DEF Admit

LEMMA JobSteps ==
    ASSUME SInv
    PROVE  /\ StartStep => SInv'
           /\ FinishSlice => SInv'
           /\ FinishCleared => SInv'
<1> USE DEF session, native, worker
<1>0. Types /\ QueueOK(queue, reserved) /\ "control" \in Priorities /\ "background" \in Priorities
      /\ running.op \in Ops /\ jobs \in [JobIds -> Jobs]
  BY DEF SInv, Types, Threads, Priorities
<1>1. ASSUME NEW j \in Live, TimesOut(j)
      PROVE  /\ QueueOK(queue', reserved) /\ \A a : NotQueued(queue, a) => NotQueued(queue', a)
             /\ jobs' \in [JobIds -> Jobs]
             /\ \A i \in JobIds : /\ jobs'[i].state \in LiveStates => jobs[i].state \in LiveStates
                                  /\ jobs'[i].agent = jobs[i].agent
  <2>1. queue' = Added(queue, "control", CleanupOp("timeout", j)) /\ j \in JobIds
    BY <1>1 DEF TimesOut, Put, Added, Live
  <2>2. CleanupOp("timeout", j) \in Ops /\ ~IsRun(CleanupOp("timeout", j))
    BY <1>0, <2>1, CleanupTyped
  <2>3. QueueOK(queue', reserved) /\ \A a : NotQueued(queue, a) => NotQueued(queue', a)
    BY <1>0, <2>1, <2>2, AppendOther
  <2> QED
    BY <1>0, <1>1, <2>3 DEF TimesOut, Live, LiveStates, Jobs
<1>2. ASSUME QueueOK(queue', reserved), \A a : NotQueued(queue, a) => NotQueued(queue', a),
             jobs' \in [JobIds -> Jobs],
             \A i \in JobIds : jobs'[i].state \in LiveStates =>
                 jobs[i].state \in LiveStates /\ jobs'[i].agent = jobs[i].agent,
             running' \in Threads, ~IsRun(running'.op),
             UNCHANGED <<session, admitting, worker>>
      PROVE  SInv'
  <2>1. Types'
    BY <1>0, <1>2 DEF Types
  <2> QED
    BY <1>2, <2>1, Keeps
<1>3. ASSUME UNCHANGED queue
      PROVE  QueueOK(queue', reserved) /\ \A a : NotQueued(queue, a) => NotQueued(queue', a)
  BY <1>0, <1>3
<1>4. ASSUME StartStep PROVE SInv'
  <2> DEFINE j == running.op.job
  <2>1. UNCHANGED <<session, admitting, worker>> /\ ~IsRun(running.op)
    BY <1>4 DEF StartStep, At, IsRun
  <2>2. CASE running' = Idle /\ UNCHANGED <<jobs, queue>>
    BY <1>0, <1>2, <1>3, <2>1, <2>2, IdleTyped
  <2>3. CASE j \in Live /\ TimesOut(j) /\ running' = Idle
    BY <1>0, <1>1, <1>2, <2>1, <2>3, IdleTyped
  <2>4. CASE /\ j \in Live /\ jobs' = [jobs EXCEPT ![j].state = "RUNNING"]
             /\ Step("slice") /\ UNCHANGED queue
    <3>1. running' \in Threads /\ ~IsRun(running'.op)
      BY <1>0, <2>1, <2>4, StepTyped DEF Ats
    <3>2. jobs' \in [JobIds -> Jobs] /\ \A i \in JobIds : jobs'[i].state \in LiveStates =>
                 jobs[i].state \in LiveStates /\ jobs'[i].agent = jobs[i].agent
      BY <1>0, <2>4 DEF Live, LiveStates, Jobs
    <3> QED
      BY <1>2, <1>3, <2>1, <2>4, <3>1, <3>2
  <2> QED
    BY <1>4, <2>2, <2>3, <2>4 DEF StartStep
<1>5. ASSUME NEW j, Ends(j)
      PROVE  /\ jobs' \in [JobIds -> Jobs]
             /\ \A i \in JobIds : jobs'[i].state \in LiveStates =>
                    jobs[i].state \in LiveStates /\ jobs'[i].agent = jobs[i].agent
  <2>1. NoJob \in Jobs /\ NoJob.state \notin LiveStates
    BY DEF NoJob, Jobs, NoClient, LiveStates
  <2>2. jobs' = [jobs EXCEPT ![j] = NoJob]
    BY <1>5 DEF Ends
  <2> QED
    BY <1>0, <2>1, <2>2
<1>6. ASSUME FinishSlice PROVE SInv'
  <2> DEFINE j == running.op.job
  <2>1. UNCHANGED <<session, admitting, worker>> /\ running' = Idle
    BY <1>6 DEF FinishSlice
  <2>2. CASE UNCHANGED <<jobs, queue>>
    BY <1>0, <1>2, <1>3, <2>1, <2>2, IdleTyped
  <2>3. CASE j \in Live /\ Cancel({j}, <<>>)
    <3>1. <<>> \in Seq(Ops) /\ RunFree(<<>>) /\ {j} \in SUBSET Live
      BY <2>3 DEF RunFree
    <3> QED
      BY <1>0, <1>2, <2>1, <2>3, <3>1, CancelFrame, IdleTyped
  <2>4. CASE j \in Live /\ TimesOut(j)
    BY <1>0, <1>1, <1>2, <2>1, <2>4, IdleTyped
  <2>5. CASE /\ j \in Live
             /\ jobs' = [jobs EXCEPT ![j] = [[Job EXCEPT !.index = @ + 1] EXCEPT !.state = "WAITING"]]
             /\ Put("background", running.op)
    <3>1. ~IsRun(running.op) /\ queue' = Added(queue, "background", running.op)
      BY <1>6, <2>5 DEF FinishSlice, At, IsRun, Put, Added
    <3>2. QueueOK(queue', reserved) /\ \A a : NotQueued(queue, a) => NotQueued(queue', a)
      BY <1>0, <3>1, AppendOther
    <3>3. jobs' \in [JobIds -> Jobs] /\ \A i \in JobIds : jobs'[i].state \in LiveStates =>
                 jobs[i].state \in LiveStates /\ jobs'[i].agent = jobs[i].agent
      <4> DEFINE next == [[Job EXCEPT !.index = @ + 1] EXCEPT !.state = "WAITING"]
      <4>1. j \in JobIds /\ jobs[j] \in Jobs /\ jobs[j].state \in LiveStates
        BY <1>0, <2>5 DEF Live
      <4>2. next \in Jobs /\ next.agent = jobs[j].agent
        <5>1. Job \in Jobs /\ Job.index + 1 \in Nat
          BY <4>1 DEF Jobs, Job
        <5>2. [Job EXCEPT !.index = Job.index + 1] \in Jobs
          BY <5>1 DEF Jobs
        <5>3. "WAITING" \in LiveStates
          BY DEF LiveStates
        <5> QED
          BY <5>1, <5>2, <5>3 DEF Jobs, Job
      <4> HIDE DEF next
      <4>3. jobs' = [jobs EXCEPT ![j] = next]
        BY <2>5 DEF next
      <4> QED
        BY <1>0, <4>1, <4>2, <4>3
    <3> QED
      BY <1>2, <2>1, <3>2, <3>3, IdleTyped
  <2>6. CASE Ends(j) /\ UNCHANGED queue
    BY <1>2, <1>3, <1>5, <2>1, <2>6, IdleTyped
  <2> QED
    BY <1>6, <2>2, <2>3, <2>4, <2>5, <2>6 DEF FinishSlice
<1>7. ASSUME FinishCleared PROVE SInv'
  <2>1. UNCHANGED <<session, admitting, worker, queue>> /\ running' = Idle
    BY <1>7 DEF FinishCleared
  <2>2. CASE UNCHANGED jobs
    BY <1>0, <1>2, <1>3, <2>1, <2>2, IdleTyped
  <2>3. CASE Ends(running.op.job)
    BY <1>2, <1>3, <1>5, <2>1, <2>3, IdleTyped
  <2> QED
    BY <1>7, <2>2, <2>3 DEF FinishCleared
<1> QED
  BY <1>4, <1>6, <1>7

\* An agent nobody waits for is given back.
LEMMA Released ==
    ASSUME NEW q, NEW res, QueueOK(q, res), NEW a, NotQueued(q, a)
    PROVE  QueueOK(q, res \ {a})
BY DEF QueueOK, NotQueued

\* The RUNs of the worker: an agent is reserved with its RUN, looked at again
\* when the RUN starts, and given back when it ends.
LEMMA RunSteps ==
    ASSUME SInv
    PROVE  /\ TakeOperation => SInv'
           /\ ReserveAgent => SInv'
           /\ TakeRun => SInv'
           /\ FinishRun => SInv'
<1> USE DEF session, native, worker
<1>0. Types /\ QueueOK(queue, reserved) /\ RunningOK /\ reserved \subseteq Agents /\ Priorities = DOMAIN queue
  BY DEF SInv, Types, QueueOK
<1>1. ASSUME TakeOperation PROVE SInv'
  <2>1. PICK kind \in Priorities :
            /\ queue[kind] # <<>> /\ queue' = Taken(queue, kind)
            /\ running' = TakenFor(Head(queue[kind]))
    BY <1>0, <1>1 DEF TakeOperation, Taken, TakenFor
  <2>2. /\ QueueOK(queue', reserved) /\ Head(queue[kind]) \in Ops
        /\ IsRun(Head(queue[kind])) => /\ Head(queue[kind]).agent \in reserved
                                       /\ NotQueued(queue', Head(queue[kind]).agent)
    BY <1>0, <2>1, TakeHead
  <2>3. running' \in Threads /\ running'.op = Head(queue[kind]) /\ running'.at = "start"
    BY <2>1, <2>2, TakenForIs
  <2>4. Types'
    BY <1>0, <1>1, <2>3 DEF Types, TakeOperation
  <2>5. RunningOK'
    BY <1>1, <2>2, <2>3 DEF RunningOK, TakeOperation
  <2> QED
    BY <1>1, <2>2, <2>4, <2>5 DEF SInv, TakeOperation
<1>2. ASSUME ReserveAgent PROVE SInv'
  <2>1. CASE UNCHANGED <<reserved, queue>>
    BY <1>0, <1>2, <2>1, Quiet DEF ReserveAgent, Types
  <2>2. ASSUME NEW kind \in {"hardware", "background"}, picked \notin reserved,
               Put(kind, Op("run", NoClient, 0, picked, 0)), reserved' = reserved \cup {picked}
        PROVE  SInv'
    <3>1. picked \in Agents
      BY <1>0, <1>2 DEF ReserveAgent, Types
    <3> DEFINE op == Op("run", NoClient, 0, picked, 0)
    <3>2. op \in Ops /\ IsRun(op) /\ op.agent = picked
      BY <3>1 DEF Op, Ops, Whats, IsRun, NoClient
    <3>3. kind \in Priorities /\ queue' = Added(queue, kind, op)
      BY <2>2 DEF Priorities, Put, Added
    <3> HIDE DEF op
    <3>4. QueueOK(queue', reserved') /\ \A a : NotQueued(queue, a) /\ a # picked => NotQueued(queue', a)
      BY <1>0, <2>2, <3>2, <3>3, AppendRun
    <3>5. Types'
      BY <1>0, <1>2, <2>2, <3>1 DEF ReserveAgent, Types
    <3> QED
      BY <1>2, <2>2, <3>4, <3>5, Keeps DEF ReserveAgent
  <2> QED
    BY <1>2, <2>1, <2>2 DEF ReserveAgent
<1>3. ASSUME IsRun(running.op), reserved' = reserved \ {running.op.agent}, running' = Idle,
             UNCHANGED <<session, admitting, jobs, queue, picked>>
      PROVE  SInv'
  <2>1. QueueOK(queue', reserved')
    BY <1>0, <1>3, Released DEF RunningOK
  <2>2. Types'
    BY <1>0, <1>3, IdleTyped DEF Types
  <2> QED
    BY <1>3, <2>1, <2>2, IdleTyped DEF SInv, RunningOK
<1>4. ASSUME TakeRun PROVE SInv'
  <2>1. IsRun(running.op) /\ admitting = NoRequest /\ UNCHANGED <<session, admitting, jobs, queue>>
    BY <1>4 DEF TakeRun, At, IsRun, Unlocked
  <2>2. CASE ~Blocked(running.op.agent) /\ Step("begin") /\ UNCHANGED worker
    <3>1. running' \in Threads /\ running'.op = running.op
      BY <1>0, <2>2, StepTyped DEF Ats
    <3>2. Types'
      BY <1>0, <2>1, <2>2, <3>1 DEF Types
    <3>3. admitting.agent # running.op.agent
      BY <1>0, <2>1, IdleTyped, ServerConstants DEF RunningOK
    <3>4. RunningOK'
      BY <1>0, <2>1, <2>2, <3>1, <3>3 DEF RunningOK, Blocked, Live
    <3> QED
      BY <1>0, <2>1, <2>2, <3>2, <3>4 DEF SInv
  <2>3. CASE reserved' = reserved \ {running.op.agent} /\ running' = Idle /\ UNCHANGED picked
    BY <1>3, <2>1, <2>3
  <2> QED
    BY <1>4, <2>2, <2>3 DEF TakeRun
<1>5. ASSUME FinishRun PROVE SInv'
  BY <1>3, <1>5 DEF FinishRun, At, IsRun
<1> QED
  BY <1>1, <1>2, <1>4, <1>5

\* Nothing waits any more.
LEMMA StopStep ==
    ASSUME SInv, Stop
    PROVE  SInv'
<1> USE DEF session, native, worker
<1>1. queue' = [k \in Priorities |-> <<>>]
  BY DEF SInv, QueueOK, Stop
<1>2. QueueOK(queue', reserved') /\ \A a : NotQueued(queue', a)
  BY <1>1 DEF QueueOK, NotQueued
<1>3. Types'
  BY DEF SInv, Types, Stop, NoClient
<1> QED
  BY <1>2, <1>3, Keeps DEF Stop

-----------------------------------------------------------------------------
(* The theorem.                                                            *)

LEMMA SInvInitially == SInit => SInv
<1> SUFFICES ASSUME SInit PROVE SInv
  OBVIOUS
<1>1. queue \in [Priorities -> Seq(Ops)] /\ \A k \in Priorities : queue[k] = <<>>
  BY DEF SInit, Priorities
<1>2. QueueOK(queue, reserved)
  BY <1>1 DEF QueueOK
<1>3. NoJob \in Jobs
  BY DEF NoJob, Jobs, NoClient
<1>4. Types
  BY <1>3, IdleTyped DEF SInit, Types, NoClient
<1> QED
  BY <1>2, <1>4, IdleTyped DEF SInit, SInv, RunningOK

LEMMA SInvStep == SInv /\ [SNext]_svars => SInv'
<1> SUFFICES ASSUME SInv, [SNext]_svars PROVE SInv'
  OBVIOUS
<1>1. ASSUME NEW c \in Clients, ClientThread(c) PROVE SInv'
  BY <1>1, ClientSteps
<1>2. CASE Admit
  BY <1>2, AdmitStep
<1>3. CASE ModelThread
  BY <1>3, ThreadSteps, JobSteps, RunSteps DEF ModelThread
<1>4. ASSUME NEW a \in Agents, SelectAgent(a) PROVE SInv'
  BY <1>4, Quiet DEF SelectAgent, SInv, Types, session
<1>5. CASE ReserveAgent
  BY <1>5, RunSteps
<1>6. CASE Stop
  BY <1>6, StopStep
<1>7. CASE UNCHANGED svars
  BY <1>7, Quiet DEF svars, SInv, Types, session, worker
<1> QED
  BY <1>1, <1>2, <1>3, <1>4, <1>5, <1>6, <1>7 DEF SNext

\* The agent of a RUN that has looked at it (_execute_native_task) belongs to no
\* background job until the RUN ends: the worker reserves under its own lock, the
\* server admits jobs under another, and the two never give an agent to both.
THEOREM RunAlone == SSpec => []RunHasItsAgentAlone
<1>1. SInv => RunHasItsAgentAlone
  BY DEF SInv, RunningOK, RunHasItsAgentAlone, IsRun
<1> QED
  BY <1>1, SInvInitially, SInvStep, PTL DEF SSpec

-----------------------------------------------------------------------------
(* Jobs, dialogues and what is sent: no background job is lost or run      *)
(* twice, nobody sees another's dialogue, and nothing is sent to a session *)
(* it does not belong to.                                                  *)

Cleanups == {"clear", "timeout"}

-----------------------------------------------------------------------------
(* The inductive invariants.                                               *)

\* What each priority is for, and who asked for what waits.
QueueKinds ==
    /\ \A i \in DOMAIN queue["control"] : queue["control"][i].what \in Cleanups \cup {"release"}
    /\ \A i \in DOMAIN queue["human"] : queue["human"][i].what = "turn"
    /\ \A i \in DOMAIN queue["hardware"] : queue["hardware"][i].what \in {"probe", "run"}
    /\ \A i \in DOMAIN queue["background"] : queue["background"][i].what \in {"step", "run"}

\* An admission in progress is for the client that holds the session.
AdmissionOK ==
    admitting # NoRequest =>
        /\ admitting.what \in {"probe", "step"} /\ admitting.agent \in Agents
        /\ admitting.client \in Clients /\ HoldsSession(admitting.client, admitting.epoch)

LiveJobsTyped == \A j \in Live : jobs[j].client \in Clients /\ jobs[j].agent \in Agents

ServerInv == SInv /\ QueueKinds /\ AdmissionOK /\ LiveJobsTyped

CarriedInv == ServerInv /\ EveryJobIsCarriedOn

AgentTypes ==
    /\ agents \in [Agents -> {"FREE", "RUNNING", "WAITING", "FAILED"}]
    /\ context = [a \in Agents |-> context[a]]

\* An agent has one live job at most, and a second one is not about to be admitted.
OneJobPerAgent ==
    /\ \A i, j \in Live : jobs[i].agent = jobs[j].agent => i = j
    /\ admitting.what = "step" => ~Blocked(admitting.agent)

\* A cleanup names the agent of its job, as long as the job lives.
CleanupOfItsAgent(op) ==
    op.what \in Cleanups =>
        op.agent \in Agents /\ (op.job \in Live => jobs[op.job].agent = op.agent)

CleanupsMatch ==
    /\ \A i \in DOMAIN queue["control"] : CleanupOfItsAgent(queue["control"][i])
    /\ CleanupOfItsAgent(running.op)

\* The job of a slice lives until the slice is finished; between slices, and only
\* then, its agent stays suspended.
SliceOK ==
    /\ running.at \in {"slice", "slicing", "sliced"} =>
            running.op.what = "step" /\ running.op.job \in Live
    /\ running.at = "slicing" => context[Job.agent] = {running.op.job}
    /\ running.at = "sliced" /\ (Final \/ ~running.ok) => agents[Job.agent] # "WAITING"
    /\ running.at = "cleared" => running.op.what \in Cleanups
                                 /\ agents[running.op.agent] # "WAITING"

ContextOK ==
    \A a \in Agents :
        /\ agents[a] = "FREE" => context[a] = {}
        /\ agents[a] = "RUNNING" => \E user \in JobIds \cup {OneShot} : context[a] = {user}
        /\ agents[a] = "WAITING" => \E j \in Live : jobs[j].agent = a /\ context[a] = {j}

AgentInv ==
    ServerInv /\ AgentTypes /\ OneJobPerAgent /\ CleanupsMatch /\ SliceOK /\ ContextOK

\* The release of a session that has ended waits, or is about to run.
ReleaseQueued == \E i \in DOMAIN queue["control"] : queue["control"][i].what = "release"
Releasing == running.op.what = "release" /\ running.at = "start"

\* A turn is of a session that has begun; a probe is not for the manager.
OfASession(op) ==
    /\ op.what = "turn" => op.client \in Clients /\ op.epoch <= epoch[op.client]
    /\ op.what = "probe" => op.agent \in Agents

TurnsOK ==
    /\ \A k \in Priorities : \A i \in DOMAIN queue[k] : OfASession(queue[k][i])
    /\ OfASession(running.op)

\* A turn that starts in its session has no release before it.
StartOK ==
    running.at = "start" =>
        /\ running.pending = <<>>
        /\ open /\ running.op.what = "turn" /\ HoldsSession(running.op.client, running.op.epoch)
            => ~ReleaseQueued

\* The turn that goes on asking the manager.
Conversing == running.at \in {"ask", "delegate"} \/ running.pending # <<>>

OwnTurn ==
    Conversing =>
        /\ running.op.what = "turn"
        /\ kept \/ dialogue \subseteq {<<running.op.client, running.op.epoch>>}
        /\ open => HoldsSession(running.op.client, running.op.epoch) \/ ReleaseQueued

\* The manager's dialogue is of the session, or of one whose release will run
\* before the turns of the next.
OwnDialogue ==
    \/ kept
    \/ dialogue = {}
    \/ \E c \in Clients : \E e \in 0..epoch[c] :
        /\ dialogue = {<<c, e>>}
        /\ open => HoldsSession(c, e) \/ ReleaseQueued \/ Releasing

DialogueInv == ServerInv /\ TurnsOK /\ StartOK /\ OwnTurn /\ OwnDialogue

-----------------------------------------------------------------------------
(* What a step puts into the queue and takes from it.                      *)

\* An operation that a step of the server puts into the queue.
NewOp(k, op) ==
    \/ /\ k = "control"
       /\ \/ \E c \in Clients : EndSession(c) /\ op = Op("release", c, epoch[c], None, 0)
          \/ \E j \in Live, what \in Cleanups : op = CleanupOp(what, j)
    \/ /\ k = "human"
       /\ \E c \in Clients, a \in Agents \cup {Manager} :
            human = c /\ op = Op("turn", c, epoch[c], a, 0)
    \/ k = "hardware" /\ admitting.what = "probe" /\ op = admitting
    \/ /\ k = "background" /\ admitting.what = "step"
       /\ \E j \in Fresh : op = [admitting EXCEPT !.job = j]
    \/ k \in {"hardware", "background"} /\ \E a \in Agents : op = Op("run", NoClient, 0, a, 0)
    \/ k = "background" /\ running.op.what = "step" /\ op = running.op

Queued(k, op) == \E i \in DOMAIN queue[k] : op = queue[k][i]

OnlyNews == \A k \in Priorities : \A i \in DOMAIN queue'[k] :
                Queued(k, queue'[k][i]) \/ NewOp(k, queue'[k][i])

LEMMA QueueTyped ==
    ASSUME SInv
    PROVE  queue \in [Priorities -> Seq(Ops)] /\ DOMAIN queue = Priorities
  BY DEF SInv, QueueOK

LEMMA PutNews ==
    ASSUME SInv, NEW k \in Priorities, NEW op, op \in Ops, NewOp(k, op), Put(k, op)
    PROVE  OnlyNews
<1>1. queue \in [Priorities -> Seq(Ops)] /\ queue' = [queue EXCEPT ![k] = Append(@, op)]
  BY QueueTyped DEF Put
<1>2. \A l \in Priorities : l # k => queue'[l] = queue[l]
  BY <1>1
<1>3. \A i \in DOMAIN queue'[k] : \/ i \in DOMAIN queue[k] /\ queue'[k][i] = queue[k][i]
                                  \/ queue'[k][i] = op
  <2>1. queue[k] \in Seq(Ops) /\ queue'[k] = Append(queue[k], op)
    BY <1>1
  <2>. QED
    BY <2>1
<1>. QED
  BY <1>2, <1>3 DEF OnlyNews, Queued

\* Every member of a sequence is one of two others.
MadeOf(all, s, t) == \A i \in DOMAIN all : \/ \E m \in DOMAIN s : all[i] = s[m]
                                           \/ \E m \in DOMAIN t : all[i] = t[m]

LEMMA JoinedMembers ==
    ASSUME NEW s \in Seq(Ops), NEW t \in Seq(Ops)
    PROVE  s \o t \in Seq(Ops) /\ MadeOf(s \o t, s, t)
<1>1. PICK both : both = s \o t
  OBVIOUS
<1>2. /\ both \in Seq(Ops) /\ DOMAIN both = 1..(Len(s) + Len(t))
      /\ \A i \in DOMAIN both : \/ i \in DOMAIN s /\ both[i] = s[i]
                                \/ i - Len(s) \in DOMAIN t /\ both[i] = t[i - Len(s)]
  BY <1>1
<1>3. \A i \in DOMAIN both : \/ \E m \in DOMAIN s : both[i] = s[m]
                             \/ \E m \in DOMAIN t : both[i] = t[m]
  BY <1>2, Zenon
<1>4. MadeOf(both, s, t)
  BY <1>3 DEF MadeOf
<1>. QED
  BY <1>1, <1>2, <1>4, Zenon

LEMMA JoinedThrice ==
    ASSUME NEW q \in Seq(Ops), NEW s \in Seq(Ops), NEW t \in Seq(Ops)
    PROVE  \E mid : MadeOf(mid, q, s) /\ MadeOf(q \o s \o t, mid, t)
<1>1. q \o s \in Seq(Ops) /\ MadeOf(q \o s, q, s)
  BY JoinedMembers, Zenon
<1>2. MadeOf(q \o s \o t, q \o s, t)
  BY <1>1, JoinedMembers, Zenon
<1>. QED
  BY <1>1, <1>2, Zenon

LEMMA CancelNews ==
    ASSUME SInv, NEW js \in SUBSET Live, NEW then \in Seq(Ops), Cancel(js, then),
           \A i \in DOMAIN then : NewOp("control", then[i])
    PROVE  OnlyNews
<1>. DEFINE cleanups == [i \in 1..Cardinality(js) |-> CleanupOp("clear", SetToSeq(js)[i])]
<1>1. queue \in [Priorities -> Seq(Ops)] /\ queue["control"] \in Seq(Ops)
  BY QueueTyped DEF Priorities
<1>2. Cardinality(js) \in Nat /\ SetToSeq(js) \in [1..Cardinality(js) -> js] /\ Types
  <2>1. IsFiniteSet(1..MaxJobs) /\ js \in SUBSET (1..MaxJobs)
    BY FS_Interval, ServerConstants DEF Live, JobIds
  <2>. QED
    BY <2>1, FS_Subset, SetToSeqMembers DEF SInv
<1>3. \A i \in 1..Cardinality(js) : cleanups[i] \in Ops /\ NewOp("control", cleanups[i])
  BY <1>2, CleanupTyped DEF NewOp, Live, Cleanups
<1>4. cleanups \in Seq(Ops) /\ DOMAIN cleanups = 1..Cardinality(js)
  BY <1>2, <1>3
<1>5. queue' = [queue EXCEPT !["control"] = @ \o cleanups \o then]
  BY DEF Cancel
<1>. HIDE DEF cleanups
<1>6. \A i \in DOMAIN queue'["control"] :
        \/ \E m \in DOMAIN queue["control"] : queue'["control"][i] = queue["control"][m]
        \/ \E m \in DOMAIN cleanups : queue'["control"][i] = cleanups[m]
        \/ \E m \in DOMAIN then : queue'["control"][i] = then[m]
  <2>1. queue'["control"] = queue["control"] \o cleanups \o then
    BY <1>1, <1>5 DEF Priorities
  <2>2. PICK mid : /\ MadeOf(mid, queue["control"], cleanups)
                    /\ MadeOf(queue["control"] \o cleanups \o then, mid, then)
    BY <1>1, <1>4, JoinedThrice, Zenon
  <2>3. MadeOf(queue'["control"], mid, then)
    BY <2>1, <2>2, Zenon
  <2>. QED
    BY <2>2, <2>3 DEF MadeOf
<1>7. \A l \in Priorities : l # "control" => queue'[l] = queue[l]
  BY <1>1, <1>5
<1>. QED
  BY <1>3, <1>4, <1>6, <1>7 DEF OnlyNews, Queued

LEMMA TakenNews ==
    ASSUME SInv, NEW k \in Priorities, queue[k] # <<>>, queue' = [queue EXCEPT ![k] = Tail(@)]
    PROVE  OnlyNews
<1>1. queue \in [Priorities -> Seq(Ops)] /\ queue[k] \in Seq(Ops)
  BY QueueTyped
<1>2. queue'[k] = Tail(queue[k]) /\ \A l \in Priorities : l # k => queue'[l] = queue[l]
  BY <1>1
<1>3. \A i \in DOMAIN Tail(queue[k]) : i + 1 \in DOMAIN queue[k] /\ Tail(queue[k])[i] = queue[k][i + 1]
  BY <1>1
<1>. QED
  BY <1>2, <1>3 DEF OnlyNews, Queued

\* The ways in which a step changes the queue.
Puts(k, op) == NewOp(k, op) /\ Put(k, op)

Cancels(js, then) ==
    /\ Cancel(js, then)
    /\ \A i \in DOMAIN then : NewOp("control", then[i])

QueueStep ==
    \/ UNCHANGED queue
    \/ Stop
    \/ TakeOperation
    \/ \E k \in Priorities, op \in Ops : Puts(k, op)
    \/ \E js \in SUBSET Live, then \in Seq(Ops) : Cancels(js, then)

LEMMA CancelsOne ==
    ASSUME NEW j \in Live, Cancel({j}, <<>>)
    PROVE  QueueStep
<1>. DEFINE then == <<>>
<1>1. /\ then \in Seq(Ops) /\ Cancel({j}, then) /\ {j} \in SUBSET Live
      /\ \A i \in DOMAIN then : NewOp("control", then[i])
  OBVIOUS
<1>. HIDE DEF then
<1>. QED
  BY <1>1 DEF QueueStep, Cancels

LEMMA NextQueue ==
    ASSUME ServerInv, SNext
    PROVE  QueueStep
<1>1. SInv /\ Types /\ queue \in [Priorities -> Seq(Ops)] /\ DOMAIN queue = Priorities
  BY QueueTyped DEF ServerInv, SInv
<1>2. CASE UNCHANGED queue
  BY <1>2 DEF QueueStep
<1>3. CASE Stop
  BY <1>3 DEF QueueStep
<1>4. CASE TakeOperation
  BY <1>4 DEF QueueStep
<1>5. ASSUME NEW c \in Clients, ClientThread(c) PROVE QueueStep
  <2>1. c \in Nat /\ epoch[c] \in Nat
    BY <1>1, ServerConstants DEF Clients, Types
  <2>2. ASSUME EndSession(c) PROVE QueueStep
    <3>. DEFINE release == Op("release", c, epoch[c], None, 0)
    <3>1. release \in Ops /\ NewOp("control", release) /\ Cancellable(c) \in SUBSET Live
      BY <2>1, <2>2 DEF Op, Ops, Whats, NewOp, EndSession, Cancellable
    <3>. DEFINE then == <<release>>
    <3>2. Cancel(Cancellable(c), then)
      BY <2>2 DEF EndSession
    <3>. HIDE DEF release
    <3>3. then \in Seq(Ops) /\ \A i \in DOMAIN then : NewOp("control", then[i])
      BY <3>1
    <3>. HIDE DEF then
    <3>. QED
      BY <3>1, <3>2, <3>3 DEF QueueStep, Cancels
  <2>3. ASSUME NEW a \in Agents \cup {Manager}, SubmitTurn(c, a) PROVE QueueStep
    <3>. DEFINE op == Op("turn", c, epoch[c], a, 0)
    <3>1. op \in Ops /\ NewOp("human", op) /\ Put("human", op) /\ "human" \in Priorities
      BY <2>1, <2>3 DEF Op, Ops, Whats, NewOp, SubmitTurn, Priorities
    <3>. HIDE DEF op
    <3>. QED
      BY <3>1 DEF QueueStep, Puts
  <2>4. ASSUME NEW j \in JobIds, CancelBackground(c, j) PROVE QueueStep
    <3>1. j \in Live /\ Cancel({j}, <<>>)
      BY <2>4 DEF CancelBackground, Cancellable
    <3>. QED
      BY <3>1, CancelsOne
  <2>. QED
    BY <1>2, <1>5, <2>2, <2>3, <2>4 DEF ClientThread, Acquire, AskAdmission
<1>6. CASE Admit
  <2>1. CASE admitting.what = "probe" /\ Put("hardware", admitting)
    <3>1. admitting \in Ops /\ NewOp("hardware", admitting) /\ "hardware" \in Priorities
      BY <1>1, <2>1 DEF Types, NewOp, Priorities
    <3>. QED
      BY <2>1, <3>1 DEF QueueStep, Puts
  <2>2. ASSUME admitting.what = "step", NEW j \in Fresh, Put("background", [admitting EXCEPT !.job = j])
        PROVE  QueueStep
    <3>. DEFINE op == [admitting EXCEPT !.job = j]
    <3>1. j \in Nat
      BY ServerConstants DEF Fresh, JobIds
    <3>2. op \in Ops /\ NewOp("background", op) /\ Put("background", op) /\ "background" \in Priorities
      BY <1>1, <2>2, <3>1 DEF Types, Ops, NewOp, Priorities
    <3>. HIDE DEF op
    <3>. QED
      BY <3>2 DEF QueueStep, Puts
  <2>. QED
    BY <1>2, <1>6, <2>1, <2>2 DEF Admit
<1>7. ASSUME NEW j \in Live, TimesOut(j) PROVE QueueStep
  <2>. DEFINE op == CleanupOp("timeout", j)
  <2>1. op \in Ops /\ NewOp("control", op) /\ Put("control", op) /\ "control" \in Priorities
    BY <1>1, <1>7, CleanupTyped DEF TimesOut, NewOp, Priorities, Live, Cleanups
  <2>. HIDE DEF op
  <2>. QED
    BY <2>1 DEF QueueStep, Puts
<1>8. CASE StartStep
  BY <1>2, <1>7, <1>8 DEF StartStep
<1>9. CASE FinishSlice
  <2>1. CASE running.op.job \in Live /\ Cancel({running.op.job}, <<>>)
    BY <2>1, CancelsOne
  <2>2. CASE Put("background", running.op)
    <3>1. running.op \in Ops /\ NewOp("background", running.op) /\ "background" \in Priorities
      BY <1>1, <1>9 DEF Types, Threads, FinishSlice, At, NewOp, Priorities
    <3>. QED
      BY <2>2, <3>1 DEF QueueStep, Puts
  <2>. QED
    BY <1>2, <1>7, <1>9, <2>1, <2>2 DEF FinishSlice
<1>10. CASE ReserveAgent
  <2>1. ASSUME NEW k \in {"hardware", "background"}, Put(k, Op("run", NoClient, 0, picked, 0))
        PROVE  QueueStep
    <3>. DEFINE op == Op("run", NoClient, 0, picked, 0)
    <3>1. picked \in Agents
      BY <1>1, <1>10 DEF ReserveAgent, Types
    <3>2. op \in Ops /\ NewOp(k, op) /\ Put(k, op) /\ k \in Priorities
      BY <2>1, <3>1 DEF Op, Ops, Whats, NoClient, NewOp, Priorities
    <3>. HIDE DEF op
    <3>. QED
      BY <3>2 DEF QueueStep, Puts
  <2>. QED
    BY <1>2, <1>10, <2>1 DEF ReserveAgent
<1>. QED
  BY <1>2, <1>3, <1>4, <1>5, <1>6, <1>8, <1>9, <1>10
  DEF SNext, ModelThread, CallAgent, AgentReturns, StartTurn, AskManager, Delegate, GiveResult,
      TakeRun, BeginRun, FinishRun, ReleaseSession, CallSlice, SliceReturns, AbortSlices,
      FinishCleared, SelectAgent

LEMMA NextNews ==
    ASSUME ServerInv, SNext
    PROVE  OnlyNews
<1>1. SInv /\ queue \in [Priorities -> Seq(Ops)] /\ DOMAIN queue = Priorities
  BY QueueTyped DEF ServerInv, SInv
<1>2. CASE UNCHANGED queue
  BY <1>2 DEF OnlyNews, Queued
<1>3. CASE Stop
  BY <1>1, <1>3 DEF Stop, OnlyNews
<1>4. CASE TakeOperation
  <2>1. PICK k \in Priorities : queue[k] # <<>> /\ queue' = [queue EXCEPT ![k] = Tail(@)]
    BY <1>1, <1>4 DEF TakeOperation
  <2>. QED
    BY <1>1, <2>1, TakenNews
<1>5. ASSUME NEW k \in Priorities, NEW op \in Ops, Puts(k, op) PROVE OnlyNews
  BY <1>1, <1>5, PutNews DEF Puts
<1>6. ASSUME NEW js \in SUBSET Live, NEW then \in Seq(Ops), Cancels(js, then) PROVE OnlyNews
  BY <1>1, <1>6, CancelNews DEF Cancels
<1>. QED
  BY <1>2, <1>3, <1>4, <1>5, <1>6, NextQueue DEF QueueStep

\* The operation that is taken is the first of the most urgent queue.
LEMMA TakenOp ==
    ASSUME ServerInv, TakeOperation
    PROVE  \E k \in Priorities :
              /\ queue[k] # <<>> /\ queue[k] \in Seq(Ops)
              /\ \A l \in Priorities : queue[l] # <<>> => Rank[k] <= Rank[l]
              /\ Queued(k, Head(queue[k]))
              /\ running' = TakenFor(Head(queue[k]))
              /\ queue' = [queue EXCEPT ![k] = Tail(@)]
<1>1. queue \in [Priorities -> Seq(Ops)] /\ DOMAIN queue = Priorities
  BY QueueTyped DEF ServerInv
<1>2. \A k \in Priorities : queue[k] # <<>> => Queued(k, Head(queue[k]))
  BY <1>1 DEF Queued
<1>. QED
  BY <1>1, <1>2 DEF TakeOperation, TakenFor

\* The operation of the model thread is the same, none, or the first of a queue.
LEMMA NextOp ==
    ASSUME ServerInv, SNext
    PROVE  \/ running'.op = running.op
           \/ running' = Idle
           \/ /\ TakeOperation
              /\ \E k \in Priorities :
                      /\ queue[k] # <<>> /\ queue[k] \in Seq(Ops)
                      /\ \A l \in Priorities : queue[l] # <<>> => Rank[k] <= Rank[l]
                      /\ Queued(k, Head(queue[k]))
                      /\ running' = TakenFor(Head(queue[k]))
                      /\ queue' = [queue EXCEPT ![k] = Tail(@)]
<1>1. SInv /\ Types /\ queue \in [Priorities -> Seq(Ops)] /\ DOMAIN queue = Priorities
  BY QueueTyped DEF ServerInv, SInv
<1>2. CASE TakeOperation
  BY <1>2, TakenOp
<1>3. CASE \E step : Step(step) \/ \E ok : Result(step, ok)
  BY <1>1, <1>3 DEF Step, Result, Types, Threads
<1>4. CASE CallAgent \/ AgentReturns \/ Delegate \/ AskManager
  <2>1. AgentDone => running'.op = running.op
    BY <1>1 DEF AgentDone, Step, Types, Threads
  <2>2. Silent => running'.op = running.op
    BY IdleTyped DEF Silent, Idle
  <2>3. CASE CallAgent
    BY <1>3, <2>1, <2>3 DEF CallAgent
  <2>4. CASE AgentReturns
    BY <2>1, <2>4 DEF AgentReturns
  <2>5. CASE Delegate
    BY <1>3, <2>2, <2>5 DEF Delegate
  <2>6. CASE AskManager
    BY <1>1, <1>3, <2>6 DEF AskManager, Types, Threads
  <2>. QED
    BY <1>4, <2>3, <2>4, <2>5, <2>6
<1>5. CASE ModelThread
  BY <1>2, <1>3, <1>4, <1>5
  DEF ModelThread, StartTurn, GiveResult, TakeRun, BeginRun, FinishRun, ReleaseSession, StartStep,
      CallSlice, SliceReturns, FinishSlice, AbortSlices, FinishCleared
<1>. QED
  BY <1>5 DEF SNext, ClientThread, Acquire, EndSession, SubmitTurn, AskAdmission, CancelBackground,
              Admit, SelectAgent, ReserveAgent, Stop

-----------------------------------------------------------------------------
(* Jobs.                                                                   *)

\* A live job keeps its client, its session and its agent.
SameJob(a, b) == b.client = a.client /\ b.epoch = a.epoch /\ b.agent = a.agent

\* What the steps that are not admissions do to the jobs.
JobsGoOn ==
    \A j \in JobIds : jobs'[j].state \in LiveStates =>
        j \in Live /\ SameJob(jobs[j], jobs'[j])

Registers(j) ==
    /\ Admit /\ admitting.what = "step" /\ j \in Fresh
    /\ jobs'[j].client = admitting.client /\ jobs'[j].epoch = admitting.epoch
    /\ jobs'[j].agent = admitting.agent /\ jobs'[j].state = "QUEUED"
    /\ \A i \in JobIds \ {j} : jobs'[i] = jobs[i]
    /\ Put("background", [admitting EXCEPT !.job = j])

LEMMA NextJobs ==
    ASSUME ServerInv, SNext
    PROVE  \/ JobsGoOn
           \/ \E j \in JobIds : Registers(j)
<1>1. Types /\ jobs \in [JobIds -> Jobs]
  BY DEF ServerInv, SInv, Types
<1>2. UNCHANGED jobs => JobsGoOn
  BY DEF JobsGoOn, Live, SameJob
<1>3. ASSUME NEW js \in SUBSET Live, NEW then, Cancel(js, then) PROVE JobsGoOn
  BY <1>1, <1>3 DEF Cancel, JobsGoOn, Live, SameJob, Jobs
<1>4. ASSUME NEW j \in Live, TimesOut(j) PROVE JobsGoOn
  BY <1>1, <1>4 DEF TimesOut, JobsGoOn, Live, SameJob, Jobs
<1>5. ASSUME NEW j, Ends(j) PROVE JobsGoOn
  <2>1. NoJob.state \notin LiveStates /\ jobs' = [jobs EXCEPT ![j] = NoJob]
    BY <1>5 DEF NoJob, LiveStates, Ends
  <2>. QED
    BY <1>1, <2>1 DEF JobsGoOn, Live, SameJob
<1>6. CASE StartStep
  <2>1. ASSUME running.op.job \in Live, jobs' = [jobs EXCEPT ![running.op.job].state = "RUNNING"]
        PROVE  JobsGoOn
    BY <1>1, <2>1 DEF JobsGoOn, Live, SameJob, Jobs
  <2>. QED
    BY <1>2, <1>4, <1>6, <2>1 DEF StartStep
<1>7. CASE FinishSlice
  <2>1. ASSUME running.op.job \in Live,
               jobs' = [jobs EXCEPT ![running.op.job] =
                          [[Job EXCEPT !.index = @ + 1] EXCEPT !.state = "WAITING"]]
        PROVE  JobsGoOn
    <3>. DEFINE next == [[Job EXCEPT !.index = @ + 1] EXCEPT !.state = "WAITING"]
    <3>1. SameJob(jobs[running.op.job], next)
      BY <1>1, <2>1 DEF Live, SameJob, Jobs, Job
    <3>2. jobs' = [jobs EXCEPT ![running.op.job] = next]
      BY <2>1
    <3>. HIDE DEF next
    <3>. QED
      BY <1>1, <2>1, <3>1, <3>2 DEF JobsGoOn, Live, SameJob
  <2>2. ASSUME running.op.job \in Live, Cancel({running.op.job}, <<>>) PROVE JobsGoOn
    BY <1>3, <2>2
  <2>. QED
    BY <1>2, <1>4, <1>5, <1>7, <2>1, <2>2 DEF FinishSlice
<1>8. CASE FinishCleared
  BY <1>2, <1>5, <1>8 DEF FinishCleared
<1>9. CASE Admit
  <2>1. ASSUME admitting.what = "step", NEW j \in Fresh,
               jobs' = [jobs EXCEPT ![j] =
                          [NoJob EXCEPT !.client = admitting.client, !.epoch = admitting.epoch,
                                        !.agent = admitting.agent, !.state = "QUEUED"]],
               Put("background", [admitting EXCEPT !.job = j])
        PROVE  j \in JobIds /\ Registers(j)
    BY <1>1, <1>9, <2>1 DEF Registers, Fresh, NoJob
  <2>. QED
    BY <1>2, <1>9, <2>1 DEF Admit
<1>10. ASSUME NEW c \in Clients, ClientThread(c) PROVE JobsGoOn
  <2>1. ASSUME EndSession(c) PROVE JobsGoOn
    <3>1. PICK then : Cancel(Cancellable(c), then)
      BY <2>1 DEF EndSession
    <3>. QED
      BY <1>3, <3>1 DEF Cancellable
  <2>2. ASSUME NEW j \in JobIds, CancelBackground(c, j) PROVE JobsGoOn
    <3>1. {j} \in SUBSET Live /\ Cancel({j}, <<>>)
      BY <2>2 DEF CancelBackground, Cancellable
    <3>. QED
      BY <1>3, <3>1
  <2>3. Acquire(c) => UNCHANGED jobs
    BY DEF Acquire
  <2>4. \A a : SubmitTurn(c, a) => UNCHANGED jobs
    BY DEF SubmitTurn
  <2>5. \A a, what : AskAdmission(c, a, what) => UNCHANGED jobs
    BY SMTT(30) DEF AskAdmission
  <2>. QED
    BY <1>2, <1>10, <2>1, <2>2, <2>3, <2>4, <2>5 DEF ClientThread
<1>. QED
  BY <1>2, <1>6, <1>7, <1>8, <1>9, <1>10
  DEF SNext, ModelThread, TakeOperation, CallAgent, AgentReturns, StartTurn, AskManager, Delegate,
      GiveResult, TakeRun, BeginRun, FinishRun, ReleaseSession, CallSlice, SliceReturns,
      AbortSlices, SelectAgent, ReserveAgent, Stop

\* Under an admission the session stays as it is.
LEMMA NextAdmission ==
    ASSUME ServerInv, SNext
    PROVE  AdmissionOK'
<1>1. CASE admitting' = NoRequest
  BY <1>1 DEF AdmissionOK
<1>2. CASE admitting' = admitting /\ admitting # NoRequest
  <2>1. UNCHANGED session
    BY <1>2 DEF SNext, ClientThread, Acquire, EndSession, SubmitTurn, AskAdmission,
                CancelBackground, Admit, SelectAgent, ReserveAgent, Stop, Unlocked,
                ModelThread, TakeOperation, CallAgent, AgentReturns, StartTurn, AskManager,
                Delegate, GiveResult, TakeRun, BeginRun, FinishRun, ReleaseSession, StartStep,
                CallSlice, SliceReturns, FinishSlice, AbortSlices, FinishCleared
  <2>. QED
    BY <1>2, <2>1 DEF ServerInv, AdmissionOK, HoldsSession, session
<1>3. ASSUME NEW c \in Clients, NEW a \in Agents, NEW what \in {"step", "probe"},
             AskAdmission(c, a, what)
      PROVE  AdmissionOK'
  BY <1>3 DEF AskAdmission, AdmissionOK, Op, HoldsSession, session
<1>. QED
  BY <1>1, <1>2, <1>3
  DEF SNext, ClientThread, Acquire, EndSession, SubmitTurn, AskAdmission, CancelBackground, Admit,
      SelectAgent, ReserveAgent, Stop, ModelThread, TakeOperation, CallAgent, AgentReturns,
      StartTurn, AskManager, Delegate, GiveResult, TakeRun, BeginRun, FinishRun, ReleaseSession,
      StartStep, CallSlice, SliceReturns, FinishSlice, AbortSlices, FinishCleared

LEMMA ServerInvStep == ServerInv /\ [SNext]_svars => ServerInv'
<1>. SUFFICES ASSUME ServerInv, [SNext]_svars PROVE ServerInv'
  OBVIOUS
<1>1. SInv'
  BY SInvStep DEF ServerInv
<1>2. CASE UNCHANGED svars
  BY <1>1, <1>2 DEF ServerInv, QueueKinds, AdmissionOK, HoldsSession, LiveJobsTyped, Live, svars,
                    session
<1>3. CASE SNext
  <2>1. OnlyNews /\ AdmissionOK'
    BY <1>3, NextNews, NextAdmission
  <2>2. ASSUME NEW k, NEW op, NewOp(k, op)
        PROVE  /\ k = "control" => op.what \in Cleanups \cup {"release"}
               /\ k = "human" => op.what = "turn"
               /\ k = "hardware" => op.what \in {"probe", "run"}
               /\ k = "background" => op.what \in {"step", "run"}
    <3>1. ASSUME admitting.what = "step", NEW j, op = [admitting EXCEPT !.job = j]
          PROVE  op.what = "step"
      BY <3>1 DEF ServerInv, SInv, Types, Ops
    <3>2. ASSUME NEW c, NEW e, NEW a, NEW j, NEW what, op = Op(what, c, e, a, j)
          PROVE  op.what = what
      BY <3>2 DEF Op
    <3>3. ASSUME NEW j, NEW what, op = CleanupOp(what, j)
          PROVE  op.what = what
      BY <3>3 DEF Op, CleanupOp
    <3>. QED
      BY <2>2, <3>1, <3>2, <3>3 DEF NewOp
  <2>3. QueueKinds'
    BY <2>1, <2>2 DEF OnlyNews, Queued, QueueKinds, ServerInv, Priorities
  <2>4. LiveJobsTyped'
    <3>1. CASE JobsGoOn
      BY <3>1 DEF JobsGoOn, SameJob, Live, LiveJobsTyped, ServerInv
    <3>2. ASSUME NEW j \in JobIds, Registers(j) PROVE LiveJobsTyped'
      <4>1. admitting # NoRequest
        BY <3>2 DEF Registers, Admit
      <4>. QED
        BY <3>2, <4>1 DEF Registers, Live, LiveJobsTyped, ServerInv, AdmissionOK
    <3>. QED
      BY <1>3, <3>1, <3>2, NextJobs
  <2>. QED
    BY <1>1, <2>1, <2>3, <2>4 DEF ServerInv
<1>. QED
  BY <1>2, <1>3

LEMMA ServerInvInitially == SInit => ServerInv
<1>. SUFFICES ASSUME SInit PROVE ServerInv
  OBVIOUS
<1>1. SInv
  BY SInvInitially
<1>2. NoJob.state \notin LiveStates
  BY DEF NoJob, LiveStates
<1>. QED
  BY <1>1, <1>2 DEF SInit, ServerInv, QueueKinds, AdmissionOK, LiveJobsTyped, Live, Priorities

LEMMA ServerInvariance == SSpec => []ServerInv
<1>. QED
  BY ServerInvInitially, ServerInvStep, PTL DEF SSpec

-----------------------------------------------------------------------------
(* The dialogues of the agents.                                            *)

Stays(j) == j \in Live' /\ SameJob(jobs[j], jobs'[j])

\* Other threads end no job, and leave the model thread and the agents alone.
Bystander ==
    \/ \E c \in Clients : ClientThread(c)
    \/ Admit
    \/ \E a \in Agents : SelectAgent(a)
    \/ ReserveAgent
    \/ Stop

LEMMA BystanderKeeps ==
    ASSUME ServerInv, Bystander
    PROVE  /\ UNCHANGED <<running, agents, context>>
           /\ \A j \in Live : Stays(j) /\ jobs'[j].index = jobs[j].index
<1>. DEFINE Kept == \A j \in Live : Stays(j) /\ jobs'[j].index = jobs[j].index
<1>1. jobs \in [JobIds -> Jobs]
  BY DEF ServerInv, SInv, Types
<1>2. UNCHANGED jobs => Kept
  BY DEF Stays, Live, SameJob
<1>3. ASSUME NEW js, NEW then, Cancel(js, then) PROVE Kept
  <2>1. ASSUME NEW j \in Live PROVE Stays(j) /\ jobs'[j].index = jobs[j].index
    <3>1. j \in JobIds /\ jobs[j] \in Jobs
      BY <1>1 DEF Live
    <3>2. jobs'[j] = IF j \in js THEN [jobs[j] EXCEPT !.state = "CANCELLING"] ELSE jobs[j]
      BY <1>3, <3>1 DEF Cancel
    <3>. QED
      BY <3>1, <3>2 DEF Stays, Live, SameJob, Jobs, LiveStates
  <2>. QED
    BY <2>1
<1>4. ASSUME NEW c, ClientThread(c) PROVE Kept
  <2>1. EndSession(c) => \E then : Cancel(Cancellable(c), then)
    BY DEF EndSession
  <2>2. \A j : CancelBackground(c, j) => Cancel({j}, <<>>)
    BY DEF CancelBackground
  <2>3. Acquire(c) \/ (\E a : SubmitTurn(c, a)) \/ (\E a, what : AskAdmission(c, a, what)) => UNCHANGED jobs
    BY DEF Acquire, SubmitTurn, AskAdmission
  <2>4. EndSession(c) => Kept
    BY <1>3, <2>1
  <2>5. \A j : CancelBackground(c, j) => Kept
    BY <1>3, <2>2
  <2>. HIDE DEF Kept
  <2>. QED
    BY <1>2, <1>4, <2>3, <2>4, <2>5 DEF ClientThread
<1>5. CASE Admit
  <2>1. ASSUME NEW j \in Fresh, NEW job, jobs' = [jobs EXCEPT ![j] = job] PROVE Kept
    BY <1>1, <2>1 DEF Stays, Live, SameJob, Fresh
  <2>2. Kept
    BY <1>2, <1>5, <2>1 DEF Admit
  <2>. QED
    BY <1>5, <2>2 DEF Admit, native
<1>6. \A c : ClientThread(c) => UNCHANGED <<running, agents, context>>
  BY DEF ClientThread, Acquire, EndSession, SubmitTurn, AskAdmission, CancelBackground, native
<1>7. (\E a : SelectAgent(a)) \/ ReserveAgent \/ Stop => UNCHANGED <<jobs, running, agents, context>>
  BY DEF SelectAgent, ReserveAgent, Stop, native
<1>. HIDE DEF Kept
<1>8. CASE \E c \in Clients : ClientThread(c)
  <2>1. Kept
    BY <1>4, <1>8
  <2>. QED
    BY <1>6, <1>8, <2>1 DEF Kept
<1>9. CASE (\E a \in Agents : SelectAgent(a)) \/ ReserveAgent \/ Stop
  <2>1. Kept
    BY <1>2, <1>7, <1>9
  <2>. QED
    BY <1>7, <1>9, <2>1 DEF Kept
<1>. QED
  BY <1>5, <1>8, <1>9 DEF Bystander

LEMMA BystanderOrModel ==
    SNext => Bystander \/ ModelThread
  BY DEF SNext, Bystander

\* A job that ends leaves its agent free of it.
LEMMA JobsStay ==
    ASSUME AgentInv, SNext
    PROVE  \A j \in Live : \/ Stays(j)
                           \/ UNCHANGED agents /\ agents[jobs[j].agent] # "WAITING"
<1>. SUFFICES ASSUME NEW j \in Live
              PROVE  \/ Stays(j)
                     \/ UNCHANGED agents /\ agents[jobs[j].agent] # "WAITING"
  OBVIOUS
<1>1. ServerInv /\ jobs \in [JobIds -> Jobs] /\ j \in JobIds /\ jobs[j] \in Jobs
  BY DEF AgentInv, ServerInv, SInv, Types, Live
<1>2. CASE Bystander
  BY <1>1, <1>2, BystanderKeeps
<1>3. CASE UNCHANGED jobs
  BY <1>3 DEF Stays, Live, SameJob
<1>4. ASSUME NEW i, TimesOut(i) PROVE Stays(j)
  BY <1>1, <1>4 DEF TimesOut, Stays, Live, SameJob, Jobs, LiveStates
<1>5. ASSUME NEW i, Ends(i), i # j PROVE Stays(j)
  BY <1>1, <1>5 DEF Ends, Stays, Live, SameJob
<1>6. CASE StartStep
  <2>1. ASSUME NEW i, jobs' = [jobs EXCEPT ![i].state = "RUNNING"] PROVE Stays(j)
    BY <1>1, <2>1 DEF Stays, Live, SameJob, Jobs, LiveStates
  <2>. QED
    BY <1>3, <1>4, <1>6, <2>1 DEF StartStep
<1>7. CASE FinishSlice
  <2>1. ASSUME NEW js, NEW then, Cancel(js, then) PROVE Stays(j)
    BY <1>1, <2>1 DEF Cancel, Stays, Live, SameJob, Jobs, LiveStates
  <2>2. ASSUME jobs' = [jobs EXCEPT ![running.op.job] =
                          [[Job EXCEPT !.index = @ + 1] EXCEPT !.state = "WAITING"]]
        PROVE  Stays(j)
    <3>1. CASE j = running.op.job
      <4>. DEFINE next == [[Job EXCEPT !.index = @ + 1] EXCEPT !.state = "WAITING"]
      <4>1. SameJob(jobs[j], next) /\ next.state = "WAITING"
        BY <1>1, <3>1 DEF SameJob, Jobs, Job
      <4>2. jobs'[j] = next
        BY <1>1, <2>2, <3>1
      <4>. HIDE DEF next
      <4>. QED
        BY <1>1, <4>1, <4>2 DEF Stays, Live, LiveStates
    <3>2. CASE j # running.op.job
      BY <1>1, <2>2, <3>2 DEF Stays, Live, SameJob
    <3>. QED
      BY <3>1, <3>2
  <2>3. CASE j = running.op.job /\ (Final \/ ~running.ok)
    BY <1>7, <2>3 DEF FinishSlice, At, AgentInv, SliceOK, Job, native
  <2>. QED
    BY <1>3, <1>4, <1>5, <1>7, <2>1, <2>2, <2>3 DEF FinishSlice
<1>8. CASE FinishCleared
  <2>1. CASE j = running.op.job
    BY <1>8, <2>1 DEF FinishCleared, AgentInv, SliceOK, CleanupsMatch, CleanupOfItsAgent, native
  <2>. QED
    BY <1>3, <1>5, <1>8, <2>1 DEF FinishCleared
<1>9. CASE ModelThread
  BY <1>3, <1>6, <1>7, <1>8, <1>9
  DEF ModelThread, TakeOperation, CallAgent, AgentReturns, StartTurn, AskManager, Delegate,
      GiveResult, TakeRun, BeginRun, FinishRun, ReleaseSession, CallSlice, SliceReturns, AbortSlices
<1>. QED
  BY <1>2, <1>9, BystanderOrModel

LEMMA OneJobStep ==
    ASSUME AgentInv, SNext
    PROVE  OneJobPerAgent'
<1>1. ServerInv /\ OneJobPerAgent /\ (JobsGoOn \/ \E j \in JobIds : Registers(j))
  BY NextJobs DEF AgentInv
<1>2. CASE JobsGoOn
  <2>1. /\ \A j \in Live' : j \in Live /\ jobs'[j].agent = jobs[j].agent
        /\ \A a : Blocked(a)' => Blocked(a)
    BY <1>2 DEF JobsGoOn, Live, SameJob, Blocked
  <2>2. ASSUME NEW c, NEW a, NEW what, AskAdmission(c, a, what)
        PROVE  admitting'.agent = a /\ ~Blocked(a)
    BY <2>2 DEF AskAdmission, Op
  <2>3. NoRequest.what # "step"
    BY SMTT(30) DEF NoRequest, NoOp, Op
  <2>4. \/ UNCHANGED admitting
        \/ admitting' = NoRequest
        \/ \E c, a, what : AskAdmission(c, a, what)
    BY DEF SNext, ClientThread, Acquire, EndSession, SubmitTurn, CancelBackground, Admit,
           SelectAgent, ReserveAgent, Stop, ModelThread, TakeOperation, CallAgent, AgentReturns,
           StartTurn, AskManager, Delegate, GiveResult, TakeRun, BeginRun, FinishRun,
           ReleaseSession, StartStep, CallSlice, SliceReturns, FinishSlice, AbortSlices,
           FinishCleared
  <2>5. admitting'.what = "step" => ~Blocked(admitting.agent)'
    <3>1. admitting'.what = "step" => \E a : a = admitting'.agent /\ ~Blocked(a)
      BY <1>1, <2>2, <2>3, <2>4 DEF OneJobPerAgent
    <3>. QED
      BY <2>1, <3>1 DEF Blocked
  <2>6. \A i, j \in Live' : jobs'[i].agent = jobs'[j].agent => i = j
    BY <1>1, <2>1 DEF OneJobPerAgent
  <2>. QED
    BY <2>5, <2>6 DEF OneJobPerAgent
<1>3. ASSUME NEW j \in JobIds, Registers(j) PROVE OneJobPerAgent'
  <2>1. admitting' = NoRequest /\ NoRequest.what # "step"
    BY <1>3 DEF Registers, Admit, NoRequest, NoOp, Op
  <2>2. \A i \in Live' : i # j => i \in Live /\ jobs'[i].agent = jobs[i].agent
    BY <1>3 DEF Registers, Live
  <2>3. \A i \in Live : jobs[i].agent # jobs'[j].agent
    BY <1>1, <1>3 DEF Registers, OneJobPerAgent, Blocked
  <2>4. \A i, k \in Live' : jobs'[i].agent = jobs'[k].agent => i = k
    BY <1>1, <2>2, <2>3 DEF OneJobPerAgent
  <2>. QED
    BY <2>1, <2>4 DEF OneJobPerAgent
<1>. QED
  BY <1>1, <1>2, <1>3

LEMMA CleanupsStep ==
    ASSUME AgentInv, SNext
    PROVE  CleanupsMatch'
<1>1. ServerInv /\ CleanupsMatch /\ OnlyNews /\ QueueKinds /\ SInv
  BY NextNews DEF AgentInv, ServerInv
<1>2. ASSUME NEW op, CleanupOfItsAgent(op), JobsGoOn \/ \E j \in Fresh : Registers(j) /\ op.job # j
      PROVE  op.what \in Cleanups =>
                op.agent \in Agents /\ (op.job \in Live' => jobs'[op.job].agent = op.agent)
  <2>1. op.job \in Live' => op.job \in Live /\ jobs'[op.job].agent = jobs[op.job].agent
    BY <1>2 DEF JobsGoOn, Registers, Live, SameJob
  <2>. QED
    BY <1>2, <2>1 DEF CleanupOfItsAgent
<1>3. ASSUME NEW j \in JobIds, Registers(j)
      PROVE  /\ j \in Fresh /\ running.op.job # j
             /\ \A i \in DOMAIN queue["control"] : queue["control"][i].job # j
             /\ queue'["control"] = queue["control"]
  <2>1. queue \in [Priorities -> Seq(Ops)]
    BY <1>1, QueueTyped
  <2>. QED
    BY <1>3, <2>1 DEF Registers, Fresh, Named, Put, Priorities
<1>4. JobsGoOn \/ \E j \in JobIds : Registers(j)
  BY <1>1, NextJobs
<1>5. ASSUME NEW i \in DOMAIN queue'["control"], NEW op, op = queue'["control"][i]
      PROVE  op.what \in Cleanups =>
                op.agent \in Agents /\ (op.job \in Live' => jobs'[op.job].agent = op.agent)
  <2>1. CASE Queued("control", op)
    BY <1>1, <1>2, <1>3, <1>4, <2>1 DEF Queued, CleanupsMatch
  <2>2. CASE JobsGoOn /\ NewOp("control", op)
    <3>1. CASE \E c, e : op = Op("release", c, e, None, 0)
      BY <3>1 DEF Op, Cleanups
    <3>2. ASSUME NEW j \in Live, NEW what \in Cleanups, op = CleanupOp(what, j)
          PROVE  CleanupOfItsAgent(op)
      BY <1>1, <3>2 DEF CleanupOp, Op, CleanupOfItsAgent, ServerInv, LiveJobsTyped
    <3>. QED
      BY <1>2, <2>2, <3>1, <3>2 DEF NewOp
  <2>3. CASE \E j \in JobIds : Registers(j)
    BY <1>3, <1>5, <2>1, <2>3 DEF Queued
  <2>4. Queued("control", op) \/ NewOp("control", op)
    BY <1>1, <1>5 DEF OnlyNews, Priorities
  <2>. QED
    BY <1>4, <2>1, <2>2, <2>3, <2>4
<1>6. running'.op.what \in Cleanups =>
        /\ running'.op.agent \in Agents
        /\ running'.op.job \in Live' => jobs'[running'.op.job].agent = running'.op.agent
  <2>1. CASE running'.op = running.op
    BY <1>1, <1>2, <1>3, <1>4, <2>1 DEF CleanupsMatch
  <2>2. CASE running' = Idle
    BY <2>2 DEF Idle, NoOp, Op, Cleanups
  <2>3. ASSUME TakeOperation, NEW k \in Priorities, Queued(k, Head(queue[k])),
               running' = TakenFor(Head(queue[k]))
        PROVE  running'.op.what \in Cleanups =>
                  /\ running'.op.agent \in Agents
                  /\ running'.op.job \in Live' => jobs'[running'.op.job].agent = running'.op.agent
    <3>1. running'.op = Head(queue[k]) /\ UNCHANGED jobs
      BY <2>3, TakenForIs DEF TakeOperation
    <3>2. running'.op.what \in Cleanups => k = "control"
      BY <1>1, <2>3, <3>1 DEF Queued, QueueKinds, Priorities, Cleanups
    <3>3. k = "control" => CleanupOfItsAgent(running'.op)
      BY <1>1, <2>3, <3>1 DEF Queued, CleanupsMatch
    <3>. QED
      BY <3>1, <3>2, <3>3 DEF CleanupOfItsAgent, Live
  <2>. QED
    BY <1>1, <2>1, <2>2, <2>3, NextOp
<1>. QED
  BY <1>5, <1>6 DEF CleanupsMatch, CleanupOfItsAgent

SliceSteps == {"slice", "slicing", "sliced", "cleared"}

\* Only the steps of a job and of its cleanup lead to their later steps.
LEMMA OtherSteps ==
    ASSUME AgentInv, ModelThread, ~StartStep, ~CallSlice, ~SliceReturns, ~AbortSlices
    PROVE  running'.at \notin SliceSteps
<1>1. running \in Threads
  BY DEF AgentInv, ServerInv, SInv, Types
<1>2. Idle.at = "idle"
  BY DEF Idle
<1>3. \A step : Step(step) => running'.at = step
  BY <1>1 DEF Step, Threads
<1>4. AgentDone => running'.at \in {"delegate", "result"}
  BY <1>1, <1>3 DEF AgentDone, Threads
<1>5. Silent => running'.at = "result"
  BY <1>2 DEF Silent, Idle
<1>6. TakeOperation => running'.at = "start"
  BY <1>2 DEF TakeOperation, Idle
<1>7. AskManager => running'.at \in {"delegate", "result"}
  BY <1>1, <1>3 DEF AskManager, Threads
<1>8. CallAgent \/ AgentReturns => running'.at \in {"calling", "delegate", "result"}
  BY <1>3, <1>4 DEF CallAgent, AgentReturns
<1>9. StartTurn \/ Delegate \/ GiveResult => running'.at \in {"ask", "call", "idle", "result"}
  BY <1>2, <1>3, <1>5 DEF StartTurn, Delegate, GiveResult
<1>10. TakeRun \/ BeginRun \/ FinishRun \/ ReleaseSession \/ FinishSlice \/ FinishCleared
            => running'.at \in {"begin", "call", "idle", "result"}
  BY <1>2, <1>3 DEF TakeRun, BeginRun, FinishRun, ReleaseSession, FinishSlice, FinishCleared
<1>. QED
  BY <1>6, <1>7, <1>8, <1>9, <1>10 DEF ModelThread, SliceSteps

LEMMA SliceStep ==
    ASSUME AgentInv, SNext
    PROVE  SliceOK'
<1>1. /\ running \in Threads /\ jobs \in [JobIds -> Jobs] /\ SliceOK /\ ServerInv /\ AgentTypes
      /\ \A j \in Live : jobs[j].agent \in Agents
  BY DEF AgentInv, ServerInv, SInv, Types, LiveJobsTyped
<1>2. CASE Bystander
  <2>1. /\ UNCHANGED <<running, agents, context>>
        /\ \A j \in Live : Stays(j) /\ jobs'[j].index = jobs[j].index
    BY <1>1, <1>2, BystanderKeeps
  <2>2. running.op.job \in Live =>
            running.op.job \in Live' /\ UNCHANGED Job.agent /\ UNCHANGED Job.index
    BY <2>1 DEF Stays, SameJob, Job
  <2>. QED
    BY <1>1, <2>1, <2>2 DEF SliceOK, Final
<1>3. CASE ModelThread /\ ~StartStep /\ ~CallSlice /\ ~SliceReturns /\ ~AbortSlices
  BY <1>3, OtherSteps DEF SliceOK, SliceSteps
<1>4. CASE StartStep
  <2>1. CASE running' = Idle
    BY <2>1 DEF SliceOK, Idle
  <2>2. CASE running' # Idle
    <3>1. /\ running.op.job \in Live /\ Step("slice") /\ running.op.what = "step"
          /\ jobs' = [jobs EXCEPT ![running.op.job].state = "RUNNING"]
      BY <1>4, <2>2 DEF StartStep, At
    <3>2. running'.at = "slice" /\ running'.op = running.op
      BY <1>1, <3>1 DEF Step, Threads
    <3>3. running.op.job \in Live'
      BY <1>1, <3>1 DEF Live, LiveStates, Jobs
    <3>. QED
      BY <3>1, <3>2, <3>3 DEF SliceOK
  <2>. QED
    BY <2>1, <2>2
<1>5. CASE CallSlice
  <2>. DEFINE j == running.op.job
  <2>1. /\ running.op.what = "step" /\ j \in Live /\ UNCHANGED jobs /\ Job = jobs[j]
        /\ Job.agent \in Agents
    BY <1>1, <1>5 DEF SliceOK, CallSlice, Job
  <2>2. CASE agents[Job.agent] \in {"FREE", "WAITING"}
    <3>1. running'.at = "slicing" /\ running'.op = running.op
      BY <1>1, <1>5, <2>2 DEF CallSlice, Step, Threads
    <3>2. context'[Job.agent] = context[Job.agent] \cup {j}
      BY <1>1, <1>5, <2>1, <2>2 DEF CallSlice, Uses, AgentTypes
    <3>3. context[Job.agent] \subseteq {j}
      BY <2>1, <2>2 DEF AgentInv, ContextOK, OneJobPerAgent
    <3>4. context'[Job.agent] = {j}
      BY <3>2, <3>3
    <3>. QED
      BY <2>1, <3>1, <3>4 DEF SliceOK, Live, Job
  <2>3. CASE agents[Job.agent] \notin {"FREE", "WAITING"}
    <3>1. running'.at = "sliced" /\ running'.op = running.op /\ UNCHANGED agents
      BY <1>1, <1>5, <2>3 DEF CallSlice, Result, Threads
    <3>. QED
      BY <2>1, <2>3, <3>1 DEF SliceOK, Live, Job
  <2>. QED
    BY <2>2, <2>3
<1>6. CASE SliceReturns
  <2>. DEFINE j == running.op.job
  <2>1. /\ running.op.what = "step" /\ j \in Live /\ UNCHANGED jobs /\ Job = jobs[j]
        /\ Job.agent \in Agents
    BY <1>1, <1>6 DEF SliceOK, SliceReturns, Job
  <2>2. running'.at = "sliced" /\ running'.op = running.op
    BY <1>1, <1>6 DEF SliceReturns, Result, Threads
  <2>3. CASE ~Final /\ Result("sliced", TRUE)
    <3>1. running'.ok = TRUE
      BY <1>1, <2>3 DEF Result, Threads
    <3>. QED
      BY <2>1, <2>2, <2>3, <3>1 DEF SliceOK, Live, Job, Final
  <2>4. CASE Reset(Job.agent)
    <3>1. agents'[Job.agent] \in {"FREE", "FAILED"}
      BY <1>1, <2>1, <2>4 DEF Reset, AgentTypes
    <3>. QED
      BY <2>1, <2>2, <3>1 DEF SliceOK, Live, Job
  <2>. QED
    BY <1>6, <2>3, <2>4 DEF SliceReturns
<1>7. CASE AbortSlices
  <2>1. /\ running.op.what \in Cleanups /\ running.op.agent \in Agents
    BY <1>7 DEF AbortSlices, AgentInv, CleanupsMatch, CleanupOfItsAgent, Cleanups
  <2>2. running'.at = "cleared" /\ running'.op = running.op
    BY <1>1, <1>7 DEF AbortSlices, Step, Threads
  <2>3. agents'[running.op.agent] # "WAITING"
    BY <1>1, <1>7, <2>1 DEF AbortSlices, Reset, AgentTypes
  <2>. QED
    BY <2>1, <2>2, <2>3 DEF SliceOK
<1>. QED
  BY <1>2, <1>3, <1>4, <1>5, <1>6, <1>7, BystanderOrModel

\* What an agent is good for next: what ContextOK says of one agent.
AgentOK(a) ==
    /\ agents[a] = "FREE" => context[a] = {}
    /\ agents[a] = "RUNNING" => \E user \in JobIds \cup {OneShot} : context[a] = {user}
    /\ agents[a] = "WAITING" => \E j \in Live : jobs[j].agent = a /\ context[a] = {j}

\* An agent that a step leaves alone stays as it must be.
LEMMA AgentLeftAlone ==
    ASSUME AgentInv, SNext, NEW a \in Agents, agents'[a] = agents[a], context'[a] = context[a]
    PROVE  AgentOK(a)'
<1>1. AgentOK(a)
  BY DEF AgentInv, ContextOK, AgentOK
<1>2. ASSUME NEW j \in Live, jobs[j].agent = a, context[a] = {j}, agents[a] = "WAITING"
      PROVE  \E i \in Live' : jobs'[i].agent = a /\ context'[a] = {i}
  <2>1. Stays(j)
    BY <1>2, JobsStay
  <2>. QED
    BY <1>2, <2>1 DEF Stays, SameJob
<1>. QED
  BY <1>1, <1>2 DEF AgentOK

LEMMA UsesKeeps ==
    ASSUME AgentTypes, NEW a, NEW user \in JobIds \cup {OneShot}, Uses(a, user),
           a \in Agents => context[a] \in {{}, {user}}
    PROVE  /\ AgentTypes'
           /\ \A b \in Agents : \/ agents'[b] = agents[b] /\ context'[b] = context[b]
                                \/ AgentOK(b)'
<1>1. /\ agents' = [agents EXCEPT ![a] = "RUNNING"]
      /\ context' = [context EXCEPT ![a] = @ \cup {user}]
  BY DEF Uses
<1>2. AgentTypes'
  BY <1>1 DEF AgentTypes
<1>3. \A b \in Agents : b # a => agents'[b] = agents[b] /\ context'[b] = context[b]
  BY <1>1 DEF AgentTypes
<1>4. a \in Agents => AgentOK(a)'
  <2>1. a \in Agents => agents'[a] = "RUNNING" /\ context'[a] = {user}
    BY <1>1 DEF AgentTypes
  <2>. QED
    BY <2>1 DEF AgentOK
<1>. QED
  BY <1>2, <1>3, <1>4

LEMMA ResetKeeps ==
    ASSUME AgentTypes, NEW a, Reset(a)
    PROVE  /\ AgentTypes'
           /\ \A b \in Agents : \/ agents'[b] = agents[b] /\ context'[b] = context[b]
                                \/ AgentOK(b)'
<1>1. CASE agents' = [agents EXCEPT ![a] = "FREE"] /\ context' = [context EXCEPT ![a] = {}]
  <2>1. AgentTypes'
    BY <1>1 DEF AgentTypes
  <2>2. \A b \in Agents : b # a => agents'[b] = agents[b] /\ context'[b] = context[b]
    BY <1>1 DEF AgentTypes
  <2>3. a \in Agents => AgentOK(a)'
    <3>1. a \in Agents => agents'[a] = "FREE" /\ context'[a] = {}
      BY <1>1 DEF AgentTypes
    <3>. QED
      BY <3>1 DEF AgentOK
  <2>. QED
    BY <2>1, <2>2, <2>3
<1>2. CASE agents' = [agents EXCEPT ![a] = "FAILED"] /\ UNCHANGED context
  <2>1. AgentTypes'
    BY <1>2 DEF AgentTypes
  <2>2. \A b \in Agents : b # a => agents'[b] = agents[b] /\ context'[b] = context[b]
    BY <1>2 DEF AgentTypes
  <2>3. a \in Agents => AgentOK(a)'
    <3>1. a \in Agents => agents'[a] = "FAILED"
      BY <1>2 DEF AgentTypes
    <3>. QED
      BY <3>1 DEF AgentOK
  <2>. QED
    BY <2>1, <2>2, <2>3
<1>. QED
  BY <1>1, <1>2 DEF Reset

LEMMA ContextMoves ==
    ASSUME AgentInv, SNext
    PROVE  /\ AgentTypes'
           /\ \A b \in Agents : \/ agents'[b] = agents[b] /\ context'[b] = context[b]
                                \/ AgentOK(b)'
<1>1. /\ running \in Threads /\ jobs \in [JobIds -> Jobs] /\ SliceOK /\ ServerInv /\ AgentTypes
      /\ \A j \in Live : jobs[j].agent \in Agents
      /\ \A j \in Live : j \in JobIds
      /\ \A a \in Agents : AgentOK(a)
  BY DEF AgentInv, ServerInv, SInv, Types, LiveJobsTyped, Live, ContextOK, AgentOK
<1>2. CASE UNCHANGED <<agents, context>>
  BY <1>1, <1>2 DEF AgentTypes
<1>3. CASE CallAgent
  <2>1. CASE agents[Called] = "FREE" /\ Uses(Called, OneShot)
    <3>1. Called \in Agents => context[Called] = {}
      BY <1>1, <2>1 DEF AgentOK
    <3>. DEFINE called == Called
    <3>2. Uses(called, OneShot) /\ (called \in Agents => context[called] \in {{}, {OneShot}})
      BY <2>1, <3>1
    <3>. HIDE DEF called
    <3>. QED
      BY <1>1, <3>2, UsesKeeps
  <2>. QED
    BY <1>2, <1>3, <2>1 DEF CallAgent
<1>4. CASE AgentReturns
  BY <1>1, <1>4, ResetKeeps DEF AgentReturns
<1>5. CASE CallSlice
  <2>1. /\ running.op.job \in Live /\ running.op.job \in JobIds /\ Job = jobs[running.op.job]
        /\ Job.agent \in Agents
    BY <1>1, <1>5 DEF SliceOK, CallSlice, Job
  <2>2. CASE Uses(Job.agent, running.op.job) /\ agents[Job.agent] \in {"FREE", "WAITING"}
    <3>1. context[Job.agent] \subseteq {running.op.job}
      BY <2>1, <2>2 DEF AgentInv, ContextOK, OneJobPerAgent
    <3>. DEFINE a == Job.agent
                user == running.op.job
    <3>2. user \in JobIds \cup {OneShot} /\ Uses(a, user) /\ context[a] \in {{}, {user}}
      BY <2>1, <2>2, <3>1
    <3>. HIDE DEF a, user
    <3>. QED
      BY <1>1, <3>2, UsesKeeps
  <2>. QED
    BY <1>2, <1>5, <2>2 DEF CallSlice
<1>6. CASE SliceReturns
  <2>1. /\ running.op.job \in Live /\ Job = jobs[running.op.job] /\ UNCHANGED jobs
        /\ context[Job.agent] = {running.op.job} /\ Job.agent \in Agents
    BY <1>1, <1>6 DEF SliceOK, SliceReturns, Job
  <2>2. CASE agents' = [agents EXCEPT ![Job.agent] = "WAITING"] /\ UNCHANGED context
    <3>1. AgentTypes' /\ agents'[Job.agent] = "WAITING"
      BY <1>1, <2>1, <2>2 DEF AgentTypes
    <3>2. \A b \in Agents : b # Job.agent => agents'[b] = agents[b] /\ context'[b] = context[b]
      BY <1>1, <2>2 DEF AgentTypes
    <3>3. \A b \in Agents : b = Job.agent => AgentOK(b)'
      BY <2>1, <2>2, <3>1 DEF AgentOK, Live
    <3>. QED
      BY <3>1, <3>2, <3>3
  <2>3. CASE Reset(Job.agent)
    BY <1>1, <2>3, ResetKeeps
  <2>. QED
    BY <1>6, <2>2, <2>3 DEF SliceReturns
<1>7. CASE AbortSlices
  BY <1>1, <1>2, <1>7, ResetKeeps DEF AbortSlices
<1>8. CASE Bystander
  BY <1>1, <1>2, <1>8, BystanderKeeps, SMTT(30)
<1>9. CASE ModelThread
  BY <1>2, <1>3, <1>4, <1>5, <1>6, <1>7, <1>9
  DEF ModelThread, TakeOperation, StartTurn, AskManager, Delegate, GiveResult, TakeRun, BeginRun,
      FinishRun, ReleaseSession, StartStep, FinishSlice, FinishCleared, native
<1>. QED
  BY <1>8, <1>9, BystanderOrModel

LEMMA ContextStep ==
    ASSUME AgentInv, SNext
    PROVE  AgentTypes' /\ ContextOK'
<1>1. AgentTypes' /\ \A b \in Agents : AgentOK(b)'
  BY ContextMoves, AgentLeftAlone
<1>. QED
  BY <1>1 DEF ContextOK, AgentOK

LEMMA AgentInvStep == AgentInv /\ [SNext]_svars => AgentInv'
<1>. SUFFICES ASSUME AgentInv, [SNext]_svars PROVE AgentInv'
  OBVIOUS
<1>1. ServerInv'
  BY ServerInvStep DEF AgentInv
<1>2. CASE UNCHANGED svars
  BY <1>1, <1>2
  DEF AgentInv, AgentTypes, OneJobPerAgent, CleanupsMatch, CleanupOfItsAgent, SliceOK, ContextOK,
      Blocked, Live, Job, Final, svars, native
<1>3. CASE SNext
  BY <1>1, <1>3, OneJobStep, CleanupsStep, SliceStep, ContextStep DEF AgentInv
<1>. QED
  BY <1>2, <1>3

LEMMA AgentInvInitially == SInit => AgentInv
<1>. SUFFICES ASSUME SInit PROVE AgentInv
  OBVIOUS
<1>1. ServerInv
  BY ServerInvInitially
<1>2. Live = {}
  BY DEF SInit, Live, NoJob, LiveStates
<1>3. AgentTypes /\ ContextOK
  BY DEF SInit, AgentTypes, ContextOK
<1>4. OneJobPerAgent
  BY <1>2 DEF SInit, OneJobPerAgent, NoRequest, NoOp, Op
<1>5. CleanupsMatch
  BY DEF SInit, CleanupsMatch, CleanupOfItsAgent, Idle, NoOp, Op, Cleanups, Priorities
<1>6. SliceOK
  BY DEF SInit, SliceOK, Idle
<1>. QED
  BY <1>1, <1>3, <1>4, <1>5, <1>6 DEF AgentInv

LEMMA AgentInvariance == SSpec => []AgentInv
<1>. QED
  BY AgentInvInitially, AgentInvStep, PTL DEF SSpec

-----------------------------------------------------------------------------
(* The dialogue of the manager.                                            *)

\* Nothing is dropped from the control queue but by the model thread and the end.
ControlKept ==
    \A i \in DOMAIN queue["control"] : \E m \in DOMAIN queue'["control"] :
        queue'["control"][m] = queue["control"][i]

LEMMA PutKeepsControl ==
    ASSUME SInv, NEW k \in Priorities, NEW op \in Ops, Put(k, op)
    PROVE  ControlKept
<1>1. queue \in [Priorities -> Seq(Ops)] /\ queue' = [queue EXCEPT ![k] = Append(@, op)]
  BY QueueTyped DEF Put
<1>2. CASE k # "control"
  BY <1>1, <1>2 DEF ControlKept, Priorities
<1>3. CASE k = "control"
  <2>1. queue["control"] \in Seq(Ops) /\ queue'["control"] = Append(queue["control"], op)
    BY <1>1, <1>3
  <2>2. \A i \in DOMAIN queue["control"] :
            i \in DOMAIN queue'["control"] /\ queue'["control"][i] = queue["control"][i]
    BY <2>1
  <2>. QED
    BY <2>2 DEF ControlKept
<1>. QED
  BY <1>2, <1>3

\* The operations of a cancellation, after those that waited.
LEMMA CancelQueue ==
    ASSUME SInv, NEW js \in SUBSET Live, NEW then \in Seq(Ops), Cancel(js, then)
    PROVE  \E cleanups \in Seq(Ops) : queue'["control"] = queue["control"] \o cleanups \o then
<1>. DEFINE cleanups == [i \in 1..Cardinality(js) |-> CleanupOp("clear", SetToSeq(js)[i])]
<1>1. queue \in [Priorities -> Seq(Ops)]
  BY QueueTyped
<1>2. Cardinality(js) \in Nat /\ SetToSeq(js) \in [1..Cardinality(js) -> js] /\ Types
  <2>1. IsFiniteSet(1..MaxJobs) /\ js \in SUBSET (1..MaxJobs)
    BY FS_Interval, ServerConstants DEF Live, JobIds
  <2>. QED
    BY <2>1, FS_Subset, SetToSeqMembers DEF SInv
<1>3. \A i \in 1..Cardinality(js) : cleanups[i] \in Ops
  BY <1>2, CleanupTyped DEF Live, Cleanups
<1>4. cleanups \in Seq(Ops)
  BY <1>2, <1>3
<1>5. queue' = [queue EXCEPT !["control"] = @ \o cleanups \o then]
  BY DEF Cancel
<1>. HIDE DEF cleanups
<1>. QED
  BY <1>1, <1>4, <1>5 DEF Priorities

LEMMA CancelKeepsControl ==
    ASSUME SInv, NEW js \in SUBSET Live, NEW then \in Seq(Ops), Cancel(js, then)
    PROVE  /\ ControlKept
           /\ \A m \in DOMAIN then : \E i \in DOMAIN queue'["control"] : queue'["control"][i] = then[m]
<1>1. PICK cleanups \in Seq(Ops) : queue'["control"] = queue["control"] \o cleanups \o then
  BY CancelQueue
<1>2. PICK q \in Seq(Ops) : q = queue["control"]
  BY QueueTyped DEF Priorities
<1>3. PICK q2 : q2 = queue'["control"]
  OBVIOUS
<1>4. q2 = q \o cleanups \o then
  BY <1>1, <1>2, <1>3
<1>5. /\ \A i \in DOMAIN q : i \in DOMAIN q2 /\ q2[i] = q[i]
      /\ \A m \in DOMAIN then : /\ Len(q) + Len(cleanups) + m \in DOMAIN q2
                                /\ q2[Len(q) + Len(cleanups) + m] = then[m]
  BY <1>4
<1>. QED
  BY <1>2, <1>3, <1>5 DEF ControlKept

LEMMA NextKeepsControl ==
    ASSUME ServerInv, SNext, ~TakeOperation, ~Stop
    PROVE  ControlKept
<1>1. SInv
  BY DEF ServerInv
<1>2. CASE UNCHANGED queue
  BY <1>2 DEF ControlKept
<1>3. ASSUME NEW k \in Priorities, NEW op \in Ops, Puts(k, op) PROVE ControlKept
  BY <1>1, <1>3, PutKeepsControl DEF Puts
<1>4. ASSUME NEW js \in SUBSET Live, NEW then \in Seq(Ops), Cancels(js, then) PROVE ControlKept
  BY <1>1, <1>4, CancelKeepsControl DEF Cancels
<1>. QED
  BY <1>2, <1>3, <1>4, NextQueue DEF QueueStep

LEMMA EndQueuesRelease ==
    ASSUME ServerInv, NEW c \in Clients, EndSession(c)
    PROVE  ReleaseQueued'
<1>1. SInv /\ Types
  BY DEF ServerInv, SInv
<1>2. PICK release \in Ops : release = Op("release", c, epoch[c], None, 0) /\ release.what = "release"
  <2>1. Op("release", c, epoch[c], None, 0) \in Ops
    BY <1>1, ServerConstants DEF Op, Ops, Whats, Clients, Types
  <2>2. Op("release", c, epoch[c], None, 0).what = "release"
    BY DEF Op
  <2>. QED
    BY <2>1, <2>2
<1>3. PICK then \in Seq(Ops) : then = <<release>>
  <2>1. <<release>> \in Seq(Ops)
    BY <1>2
  <2>. QED
    BY <2>1
<1>4. Cancel(Cancellable(c), then) /\ Cancellable(c) \in SUBSET Live
  BY <1>2, <1>3 DEF EndSession, Cancellable
<1>5. 1 \in DOMAIN then /\ then[1] = release
  BY <1>3
<1>6. \E i \in DOMAIN queue'["control"] : queue'["control"][i] = release
  BY <1>1, <1>4, <1>5, CancelKeepsControl
<1>. QED
  BY <1>2, <1>6 DEF ReleaseQueued

\* Sessions begin and end on client threads, and a stopped server stays stopped.
LEMMA SessionSteps ==
    ASSUME SNext
    PROVE  /\ open' => open
           /\ \/ UNCHANGED session
              \/ \E c \in Clients : Acquire(c) \/ EndSession(c)
              \/ Stop
<1>1. \A c : ClientThread(c) => UNCHANGED open /\ (UNCHANGED session \/ Acquire(c) \/ EndSession(c))
  BY DEF ClientThread, Acquire, EndSession, SubmitTurn, AskAdmission, CancelBackground
<1>2. ModelThread => UNCHANGED <<open, session>>
  BY DEF ModelThread, TakeOperation, CallAgent, AgentReturns, StartTurn, AskManager, Delegate,
         GiveResult, TakeRun, BeginRun, FinishRun, ReleaseSession, StartStep, CallSlice,
         SliceReturns, FinishSlice, AbortSlices, FinishCleared
<1>3. Admit \/ (\E a : SelectAgent(a)) \/ ReserveAgent => UNCHANGED <<open, session>>
  BY DEF Admit, SelectAgent, ReserveAgent
<1>4. Stop => open
  BY DEF Stop
<1>. QED
  BY <1>1, <1>2, <1>3, <1>4 DEF SNext

LEMMA EpochsGrow ==
    ASSUME ServerInv, SNext
    PROVE  \A c \in Clients : epoch'[c] \in Nat /\ epoch[c] \in Nat /\ epoch[c] <= epoch'[c]
<1>1. epoch \in [Clients -> Nat]
  BY DEF ServerInv, SInv, Types
<1>2. CASE UNCHANGED epoch
  BY <1>1, <1>2
<1>3. ASSUME NEW d, epoch' = [epoch EXCEPT ![d] = @ + 1]
      PROVE  \A c \in Clients : epoch'[c] \in Nat /\ epoch[c] \in Nat /\ epoch[c] <= epoch'[c]
  BY <1>1, <1>3
<1>. QED
  BY <1>2, <1>3, SessionSteps DEF session, Acquire, EndSession, Stop

\* A session that is there stays there, or its release is queued.
LEMMA SessionGoesOn ==
    ASSUME ServerInv, SNext, ~TakeOperation, open', NEW c \in Clients, NEW e,
           HoldsSession(c, e) \/ ReleaseQueued
    PROVE  open /\ (HoldsSession(c, e)' \/ ReleaseQueued')
<1>1. /\ ~Stop /\ open
  BY SessionSteps DEF Stop
<1>2. ReleaseQueued => ReleaseQueued'
  BY <1>1, NextKeepsControl DEF ControlKept, ReleaseQueued
<1>3. CASE HoldsSession(c, e)
  <2>1. CASE UNCHANGED session
    BY <1>1, <1>3, <2>1 DEF HoldsSession, session
  <2>2. ASSUME NEW d \in Clients, EndSession(d) PROVE ReleaseQueued'
    BY <2>2, EndQueuesRelease
  <2>3. human # NoClient
    BY <1>3, ServerConstants DEF HoldsSession, NoClient, Clients
  <2>4. \A d : ~Acquire(d)
    BY <2>3 DEF Acquire
  <2>. QED
    BY <1>1, <2>1, <2>2, <2>4, SessionSteps
<1>. QED
  BY <1>1, <1>2, <1>3

\* A session that begins is new: no turn that waits or runs is of it.
LEMMA SessionWasThere ==
    ASSUME ServerInv, SNext, open', NEW c \in Clients, NEW e, e <= epoch[c], HoldsSession(c, e)'
    PROVE  open /\ HoldsSession(c, e) /\ \A d \in Clients : ~EndSession(d)
<1>1. open /\ epoch \in [Clients -> Nat] /\ ~Stop /\ c # NoClient
  BY SessionSteps, ServerConstants DEF ServerInv, SInv, Types, Stop, Clients, NoClient
<1>2. \A d : EndSession(d) => human' = NoClient
  BY DEF EndSession
<1>3. ASSUME NEW d \in Clients, Acquire(d) PROVE FALSE
  <2>1. c = d /\ epoch'[c] = epoch[c] + 1 /\ epoch'[c] = e
    BY <1>1, <1>3 DEF Acquire, HoldsSession
  <2>. QED
    BY <1>1, <2>1
<1>4. UNCHANGED session
  BY <1>1, <1>2, <1>3, SessionSteps DEF HoldsSession
<1>. QED
  BY <1>1, <1>2, <1>4 DEF HoldsSession, session

\* Only the end of a session queues a release.
LEMMA NewRelease ==
    ASSUME ServerInv, SNext, ReleaseQueued', \A c \in Clients : ~EndSession(c)
    PROVE  ReleaseQueued
<1>1. PICK i \in DOMAIN queue'["control"] : queue'["control"][i].what = "release"
  BY DEF ReleaseQueued
<1>2. Queued("control", queue'["control"][i]) \/ NewOp("control", queue'["control"][i])
  BY NextNews DEF OnlyNews, Priorities
<1>3. \A j : \A what \in Cleanups : CleanupOp(what, j).what # "release"
  BY DEF CleanupOp, Op, Cleanups
<1>. QED
  BY <1>1, <1>2, <1>3 DEF NewOp, Queued, ReleaseQueued

LEMMA TurnsStep ==
    ASSUME ServerInv, TurnsOK, SNext
    PROVE  TurnsOK'
<1>1. SInv /\ Types /\ QueueKinds /\ AdmissionOK /\ OnlyNews
  BY NextNews DEF ServerInv, SInv
<1>2. ASSUME NEW op \in Ops, OfASession(op)
      PROVE  /\ op.what = "turn" => op.client \in Clients /\ op.epoch <= epoch'[op.client]
             /\ op.what = "probe" => op.agent \in Agents
  <2>1. op.epoch \in Nat
    BY DEF Ops
  <2>2. ASSUME op.client \in Clients, op.epoch <= epoch[op.client] PROVE op.epoch <= epoch'[op.client]
    <3>. DEFINE before == epoch[op.client]
                after == epoch'[op.client]
    <3>1. before \in Nat /\ after \in Nat /\ before <= after /\ op.epoch <= before
      BY <2>2, EpochsGrow
    <3>. HIDE DEF before, after
    <3>2. op.epoch <= after
      BY <2>1, <3>1
    <3>. QED
      BY <3>2 DEF after
  <2>. QED
    BY <1>2, <2>2 DEF OfASession
<1>3. ASSUME NEW k, NEW op, NewOp(k, op) PROVE OfASession(op) \/ op.what \notin {"turn", "probe"}
  <2>1. CASE \E c, e : op = Op("release", c, e, None, 0)
    BY <2>1 DEF Op
  <2>2. ASSUME NEW j, NEW what \in Cleanups, op = CleanupOp(what, j) PROVE op.what \in Cleanups
    BY <2>2 DEF CleanupOp, Op
  <2>3. ASSUME NEW c \in Clients, NEW a, op = Op("turn", c, epoch[c], a, 0) PROVE OfASession(op)
    BY <1>1, <2>3 DEF Op, OfASession, Types
  <2>4. CASE admitting.what = "probe" /\ op = admitting
    BY <1>1, <2>4 DEF OfASession, AdmissionOK, NoRequest, NoOp, Op
  <2>5. ASSUME admitting.what = "step", NEW j, op = [admitting EXCEPT !.job = j]
        PROVE  op.what = "step"
    BY <1>1, <2>5 DEF Types, Ops
  <2>6. ASSUME NEW a, op = Op("run", NoClient, 0, a, 0) PROVE op.what = "run"
    BY <2>6 DEF Op
  <2>. QED
    BY <1>3, <2>1, <2>2, <2>3, <2>4, <2>5, <2>6 DEF NewOp, Cleanups
<1>4. queue \in [Priorities -> Seq(Ops)] /\ queue' \in [Priorities -> Seq(Ops)]
  <2>1. SInv'
    BY <1>1, SInvStep
  <2>. QED
    BY <1>1, <2>1 DEF SInv, QueueOK
<1>5. ASSUME NEW k \in Priorities, NEW i \in DOMAIN queue'[k] PROVE OfASession(queue[k][i])'
  <2>1. PICK op \in Ops : op = queue'[k][i]
    BY <1>4
  <2>2. OfASession(op) \/ op.what \notin {"turn", "probe"}
    <3>1. CASE Queued(k, op)
      BY <3>1 DEF Queued, TurnsOK
    <3>. QED
      BY <1>1, <1>3, <2>1, <3>1 DEF OnlyNews
  <2>. QED
    BY <1>2, <2>1, <2>2 DEF OfASession
<1>6. OfASession(running.op)'
  <2>1. running.op \in Ops /\ running' \in Threads /\ running'.op \in Ops
    <3>1. SInv'
      BY <1>1, SInvStep
    <3>. QED
      BY <1>1, <3>1 DEF SInv, Types, Threads
  <2>2. PICK op \in Ops : op = running'.op
    BY <2>1
  <2>3. OfASession(op)
    <3>1. CASE running'.op = running.op
      BY <2>2, <3>1 DEF TurnsOK
    <3>2. CASE running' = Idle
      BY <2>2, <3>2 DEF Idle, NoOp, Op, OfASession
    <3>3. ASSUME NEW k \in Priorities, Queued(k, Head(queue[k])),
                 running' = TakenFor(Head(queue[k]))
          PROVE  OfASession(op)
      BY <2>2, <3>3, TakenForIs DEF Queued, TurnsOK
    <3>. QED
      BY <3>1, <3>2, <3>3, NextOp
  <2>. QED
    BY <1>2, <2>2, <2>3 DEF OfASession
<1>. QED
  BY <1>5, <1>6 DEF TurnsOK

\* Where a step of the model thread leads.
LEMMA ModelSteps ==
    ASSUME ServerInv, ModelThread, ~TakeOperation
    PROVE  /\ running'.at # "start" /\ UNCHANGED <<session, open>>
           /\ Conversing' => running'.op = running.op
                             /\ (Conversing \/ (StartTurn /\ running'.at = "ask" /\ Active(running.op)))
           /\ ~AskManager /\ ~ReleaseSession => UNCHANGED <<dialogue, kept>>
<1>1. running \in Threads
  BY DEF ServerInv, SInv, Types
<1>2. running' = Idle => running'.at # "start" /\ ~Conversing'
  BY DEF Idle, Conversing
<1>3. ASSUME NEW step, Step(step)
      PROVE  running'.at = step /\ running'.op = running.op /\ running'.pending = running.pending
  BY <1>1, <1>3 DEF Step, Threads
<1>4. ASSUME NEW step, NEW ok, Result(step, ok)
      PROVE  running'.at = step /\ running'.op = running.op /\ running'.pending = running.pending
  BY <1>1, <1>4 DEF Result, Threads
<1>5. ASSUME AgentDone
      PROVE  /\ running'.at \in {"delegate", "result"} /\ running'.op = running.op
             /\ Conversing' => Conversing
  <2>1. CASE running.pending # <<>>
    BY <1>1, <1>5, <2>1 DEF AgentDone, Threads, Conversing
  <2>2. CASE running.pending = <<>>
    BY <1>3, <1>5, <2>2 DEF AgentDone, Conversing
  <2>. QED
    BY <2>1, <2>2
<1>6. ASSUME Silent PROVE running'.at = "result" /\ ~Conversing'
  BY <1>6 DEF Silent, Idle, Conversing
<1>7. AskManager => /\ running'.at \in {"delegate", "result"} /\ running'.op = running.op
                    /\ Conversing
  BY <1>1, <1>3 DEF AskManager, Threads, Conversing
<1>8. CallAgent \/ AgentReturns =>
        /\ running'.at \in {"calling", "delegate", "result"} /\ running'.op = running.op
        /\ Conversing' => Conversing
  <2>1. Step("calling") => /\ running'.at = "calling" /\ running'.op = running.op
                           /\ Conversing' => Conversing
    BY <1>3 DEF Conversing
  <2>. QED
    BY <1>5, <2>1 DEF CallAgent, AgentReturns
<1>9. StartTurn =>
        /\ running'.at # "start"
        /\ Conversing' => running'.op = running.op
                          /\ (Conversing \/ (running'.at = "ask" /\ Active(running.op)))
  BY <1>2, <1>3 DEF StartTurn, Conversing
<1>10. Delegate => /\ running'.at # "start"
                   /\ Conversing' => running'.op = running.op /\ Conversing
  BY <1>3, <1>6 DEF Delegate, Conversing
<1>11. TakeRun \/ BeginRun \/ StartStep \/ AbortSlices \/ CallSlice \/ SliceReturns =>
        /\ running'.at # "start"
        /\ Conversing' => running'.op = running.op /\ Conversing
  <2>1. ASSUME NEW step \in {"begin", "call", "result", "slice", "cleared", "slicing"}, Step(step)
        PROVE  /\ running'.at # "start"
               /\ Conversing' => running'.op = running.op /\ Conversing
    BY <1>3, <2>1 DEF Conversing
  <2>2. ASSUME NEW ok, Result("sliced", ok)
        PROVE  /\ running'.at # "start"
               /\ Conversing' => running'.op = running.op /\ Conversing
    BY <1>4, <2>2 DEF Conversing
  <2>. QED
    BY <1>2, <2>1, <2>2 DEF TakeRun, BeginRun, StartStep, AbortSlices, CallSlice, SliceReturns
<1>12. GiveResult \/ FinishRun \/ ReleaseSession \/ FinishSlice \/ FinishCleared =>
        running'.at # "start" /\ ~Conversing'
  BY <1>2, SMTT(30) DEF GiveResult, FinishRun, ReleaseSession, FinishSlice, FinishCleared
<1>13. UNCHANGED <<session, open>>
  BY DEF ModelThread, TakeOperation, CallAgent, AgentReturns, StartTurn, AskManager, Delegate,
         GiveResult, TakeRun, BeginRun, FinishRun, ReleaseSession, StartStep, CallSlice,
         SliceReturns, FinishSlice, AbortSlices, FinishCleared
<1>14. ~AskManager /\ ~ReleaseSession => UNCHANGED <<dialogue, kept>>
  BY DEF ModelThread, TakeOperation, CallAgent, AgentReturns, StartTurn, AskManager, Delegate,
         GiveResult, TakeRun, BeginRun, FinishRun, ReleaseSession, StartStep, CallSlice,
         SliceReturns, FinishSlice, AbortSlices, FinishCleared, native
<1>. QED
  BY <1>7, <1>8, <1>9, <1>10, <1>11, <1>12, <1>13, <1>14 DEF ModelThread

LEMMA BystanderSession ==
    ASSUME ServerInv, Bystander
    PROVE  /\ UNCHANGED <<running, dialogue, kept>> /\ ~TakeOperation /\ SNext
<1>1. UNCHANGED <<running, dialogue, kept>>
  BY DEF Bystander, ClientThread, Acquire, EndSession, SubmitTurn, AskAdmission, CancelBackground,
         Admit, SelectAgent, ReserveAgent, Stop, native
<1>2. TakeOperation => \E op : running' = TakenFor(op)
  BY DEF TakeOperation, TakenFor
<1>3. TakeOperation => running'.at = "start" /\ running.at = "idle"
  <2>1. TakeOperation => running'.at = "start"
    BY <1>2, TakenForIs
  <2>2. TakeOperation => running.at = "idle"
    BY DEF TakeOperation, Idle
  <2>. QED
    BY <2>1, <2>2
<1>. QED
  BY <1>1, <1>3 DEF Bystander, SNext

LEMMA StartOKStep ==
    ASSUME DialogueInv, SNext
    PROVE  StartOK'
<1>1. ServerInv /\ TurnsOK /\ StartOK /\ QueueKinds /\ running \in Threads
  BY DEF DialogueInv, ServerInv, SInv, Types
<1>2. CASE Bystander
  <2>1. UNCHANGED running
    BY <1>1, <1>2, BystanderSession
  <2>2. ASSUME running.at = "start", open', running.op.what = "turn",
               HoldsSession(running.op.client, running.op.epoch)'
        PROVE  ~ReleaseQueued'
    <3>. DEFINE c == running.op.client
                e == running.op.epoch
    <3>1. c \in Clients /\ e <= epoch[c] /\ human' = c /\ epoch'[c] = e
      BY <1>1, <2>1, <2>2 DEF TurnsOK, OfASession, HoldsSession
    <3>2. PICK d, n : d = c /\ n = e
      OBVIOUS
    <3>3. d \in Clients /\ n <= epoch[d] /\ HoldsSession(d, n)'
      BY <3>1, <3>2 DEF HoldsSession
    <3>4. open /\ HoldsSession(d, n) /\ \A k \in Clients : ~EndSession(k)
      BY <1>1, <2>2, <3>3, SessionWasThere
    <3>5. ~ReleaseQueued
      BY <1>1, <2>2, <3>2, <3>4 DEF StartOK
    <3>. QED
      BY <1>1, <3>4, <3>5, NewRelease
  <2>. QED
    BY <1>1, <2>1, <2>2 DEF StartOK
<1>3. CASE TakeOperation
  <2>1. PICK k \in Priorities : /\ queue[k] # <<>> /\ queue[k] \in Seq(Ops)
                                /\ \A l \in Priorities : queue[l] # <<>> => Rank[k] <= Rank[l]
                                /\ Queued(k, Head(queue[k]))
                                /\ running' = TakenFor(Head(queue[k]))
                                /\ queue' = [queue EXCEPT ![k] = Tail(@)]
    BY <1>1, <1>3, TakenOp
  <2>2. running'.pending = <<>> /\ running'.op = Head(queue[k])
    BY <2>1, TakenForIs
  <2>3. ASSUME running'.op.what = "turn" PROVE ~ReleaseQueued'
    <3>1. k = "human"
      <4>. PICK i \in DOMAIN queue[k] : running'.op = queue[k][i]
        BY <2>1, <2>2 DEF Queued
      <4>. QED
        BY <1>1, <2>3 DEF QueueKinds, Priorities, Cleanups
    <3>2. queue["control"] = <<>>
      BY <2>1, <3>1 DEF Rank, Priorities
    <3>3. queue'["control"] = <<>>
      BY <1>1, <2>1, <3>1, <3>2, QueueTyped DEF ServerInv, Priorities
    <3>. QED
      BY <3>3 DEF ReleaseQueued
  <2>. QED
    BY <2>2, <2>3 DEF StartOK
<1>4. CASE ModelThread /\ ~TakeOperation
  BY <1>1, <1>4, ModelSteps DEF StartOK
<1>. QED
  BY <1>2, <1>3, <1>4, BystanderOrModel

\* A turn that goes on asking the manager still has its session, or its release
\* comes before the next turn.
LEMMA OwnTurnStep ==
    ASSUME DialogueInv, SNext
    PROVE  OwnTurn'
<1>1. ServerInv /\ TurnsOK /\ StartOK /\ OwnTurn /\ OwnDialogue /\ running \in Threads
  BY DEF DialogueInv, ServerInv, SInv, Types
<1>2. PICK c, e : c = running.op.client /\ e = running.op.epoch
  OBVIOUS
<1>3. running.op.what = "turn" => c \in Clients
  BY <1>1, <1>2 DEF TurnsOK, OfASession
<1>4. ASSUME Conversing, ~TakeOperation, open'
      PROVE  HoldsSession(c, e)' \/ ReleaseQueued'
  <2>1. c \in Clients /\ (HoldsSession(c, e) \/ ReleaseQueued)
    BY <1>1, <1>2, <1>3, <1>4, SessionSteps DEF OwnTurn
  <2>. QED
    BY <1>1, <1>4, <2>1, SessionGoesOn
<1>5. CASE Bystander
  <2>1. UNCHANGED <<running, dialogue, kept>> /\ ~TakeOperation
    BY <1>1, <1>5, BystanderSession
  <2>2. (HoldsSession(c, e))' => HoldsSession(running.op.client, running.op.epoch)'
    BY <1>2, <2>1 DEF HoldsSession
  <2>. QED
    BY <1>1, <1>4, <2>1, <2>2 DEF OwnTurn, Conversing
<1>6. CASE TakeOperation
  <2>1. running'.pending = <<>> /\ running'.at = "start"
    BY <1>6 DEF TakeOperation, Idle
  <2>. QED
    BY <2>1 DEF OwnTurn, Conversing
<1>7. CASE ModelThread /\ ~TakeOperation /\ Conversing /\ Conversing'
  <2>1. /\ running'.op = running.op
        /\ ~AskManager /\ ~ReleaseSession => UNCHANGED <<dialogue, kept>>
    BY <1>1, <1>7, ModelSteps
  <2>2. ~ReleaseSession
    BY <1>7 DEF ReleaseSession, Idle, Conversing
  <2>3. kept' \/ dialogue' \subseteq {<<c, e>>}
    <3>1. CASE AskManager
      BY <1>1, <1>2, <1>7, <3>1 DEF AskManager, ResetDialogue, OwnTurn
    <3>2. CASE ~AskManager
      BY <1>1, <1>2, <1>7, <2>1, <2>2, <3>2 DEF OwnTurn
    <3>. QED
      BY <3>1, <3>2
  <2>4. open' => HoldsSession(running.op.client, running.op.epoch)' \/ ReleaseQueued'
    BY <1>2, <1>4, <1>7, <2>1 DEF HoldsSession
  <2>. QED
    BY <1>1, <1>2, <1>7, <2>1, <2>3, <2>4 DEF OwnTurn
<1>8. CASE ModelThread /\ ~TakeOperation /\ ~Conversing /\ Conversing'
  <2>1. /\ running'.op = running.op /\ UNCHANGED <<session, open>>
        /\ StartTurn /\ running'.at = "ask" /\ Active(running.op)
        /\ ~AskManager /\ ~ReleaseSession => UNCHANGED <<dialogue, kept>>
    BY <1>1, <1>8, ModelSteps
  <2>2. UNCHANGED <<dialogue, kept>>
    BY <2>1 DEF StartTurn, native
  <2>3. running.op.what = "turn"
    <3>1. running.op.agent = Manager
      BY <1>1, <2>1 DEF StartTurn, Step, Threads
    <3>. QED
      BY <1>1, <2>1, <3>1, ServerConstants DEF StartTurn, TurnsOK, OfASession
  <2>4. open /\ HoldsSession(c, e) /\ ~ReleaseQueued /\ ~Releasing
    BY <1>1, <1>2, <2>1, <2>3 DEF StartTurn, Active, StartOK, Releasing
  <2>5. kept \/ dialogue \subseteq {<<c, e>>}
    BY <1>1, <2>4 DEF OwnDialogue, HoldsSession
  <2>6. HoldsSession(running.op.client, running.op.epoch)'
    BY <1>2, <2>1, <2>4 DEF HoldsSession, session
  <2>. QED
    BY <1>2, <2>1, <2>2, <2>3, <2>5, <2>6 DEF OwnTurn
<1>9. CASE ~Conversing'
  BY <1>9 DEF OwnTurn
<1>. QED
  BY <1>5, <1>6, <1>7, <1>8, <1>9, BystanderOrModel

\* A release that waits goes on waiting, or runs.
LEMMA ReleaseTaken ==
    ASSUME ServerInv, TakeOperation, ReleaseQueued
    PROVE  ReleaseQueued' \/ Releasing'
<1>1. PICK k \in Priorities :
        /\ queue[k] # <<>> /\ queue[k] \in Seq(Ops)
        /\ running' = TakenFor(Head(queue[k]))
        /\ queue' = [queue EXCEPT ![k] = Tail(@)]
  BY TakenOp
<1>2. PICK i \in DOMAIN queue["control"] : queue["control"][i].what = "release"
  BY DEF ReleaseQueued
<1>3. queue \in [Priorities -> Seq(Ops)]
  BY QueueTyped DEF ServerInv
<1>4. CASE k # "control"
  <2>1. queue'["control"] = queue["control"]
    BY <1>1, <1>3, <1>4
  <2>. QED
    BY <1>2, <2>1 DEF ReleaseQueued
<1>5. CASE k = "control" /\ i = 1
  BY <1>1, <1>2, <1>5, TakenForIs DEF Releasing
<1>6. CASE k = "control" /\ i # 1
  <2>1. queue'["control"] = Tail(queue["control"]) /\ queue["control"] \in Seq(Ops)
    BY <1>1, <1>3, <1>6
  <2>2. i - 1 \in DOMAIN queue'["control"] /\ queue'["control"][i - 1] = queue["control"][i]
    BY <1>2, <1>6, <2>1
  <2>. QED
    BY <1>2, <2>2 DEF ReleaseQueued
<1>. QED
  BY <1>4, <1>5, <1>6

LEMMA OwnDialogueStep ==
    ASSUME DialogueInv, SNext
    PROVE  OwnDialogue'
<1>1. ServerInv /\ TurnsOK /\ OwnTurn /\ OwnDialogue /\ running \in Threads
      /\ epoch \in [Clients -> Nat]
  BY DEF DialogueInv, ServerInv, SInv, Types
<1>2. CASE AskManager
  <2>1. PICK c, e : c = running.op.client /\ e = running.op.epoch
    OBVIOUS
  <2>2. CASE dialogue' = dialogue \cup {<<c, e>>} /\ UNCHANGED kept
    <3>1. /\ c \in Clients /\ e <= epoch[c] /\ e \in Nat
          /\ kept \/ dialogue \subseteq {<<c, e>>}
          /\ open => HoldsSession(c, e) \/ ReleaseQueued
      BY <1>1, <1>2, <2>1 DEF AskManager, OwnTurn, Conversing, TurnsOK, OfASession, Threads, Ops
    <3>2. UNCHANGED <<session, queue, open>>
      BY <1>2 DEF AskManager
    <3>3. c \in Clients /\ e \in 0..epoch'[c] /\ (kept' \/ dialogue' = {<<c, e>>})
      BY <1>1, <2>2, <3>1, <3>2 DEF session
    <3>4. open' => HoldsSession(c, e)' \/ ReleaseQueued'
      BY <3>1, <3>2 DEF HoldsSession, ReleaseQueued, session
    <3>. QED
      BY <3>3, <3>4 DEF OwnDialogue
  <2>. QED
    BY <1>2, <2>1, <2>2 DEF AskManager, ResetDialogue, OwnDialogue
<1>3. CASE ReleaseSession
  BY <1>1, <1>3 DEF ReleaseSession, ResetDialogue, OwnDialogue, HoldsSession, Releasing, session
<1>4. CASE ~AskManager /\ ~ReleaseSession
  <2>1. UNCHANGED <<dialogue, kept>>
    <3>1. TakeOperation => UNCHANGED <<dialogue, kept>>
      BY DEF TakeOperation, native
    <3>. QED
      BY <1>1, <1>4, <3>1, BystanderSession, BystanderOrModel, ModelSteps
  <2>2. ASSUME NEW c \in Clients, NEW e \in 0..epoch[c], dialogue = {<<c, e>>},
               open => HoldsSession(c, e) \/ ReleaseQueued \/ Releasing
        PROVE  OwnDialogue'
    <3>1. e \in 0..epoch'[c]
      BY <1>1, EpochsGrow
    <3>2. ASSUME open' PROVE HoldsSession(c, e)' \/ ReleaseQueued' \/ Releasing'
      <4>1. open /\ (HoldsSession(c, e) \/ ReleaseQueued \/ Releasing)
        BY <2>2, <3>2, SessionSteps
      <4>2. CASE Releasing
        <5>1. ~ModelThread
          <6>1. running.op.what = "release" /\ running.at = "start" /\ running # Idle
            BY <4>2 DEF Releasing, Idle
          <6>2. ~(TakeOperation \/ CallAgent \/ AgentReturns \/ Delegate \/ BeginRun \/ FinishRun)
            BY <6>1 DEF TakeOperation, CallAgent, AgentReturns, Delegate, BeginRun, FinishRun, At
          <6>3. ~(StartTurn \/ GiveResult \/ TakeRun \/ StartStep \/ CallSlice \/ SliceReturns)
            BY <6>1 DEF StartTurn, GiveResult, TakeRun, StartStep, CallSlice, SliceReturns, At
          <6>4. ~(FinishSlice \/ AbortSlices \/ FinishCleared)
            BY <6>1 DEF FinishSlice, AbortSlices, FinishCleared, At
          <6>. QED
            BY <1>4, <6>2, <6>3, <6>4 DEF ModelThread
        <5>2. UNCHANGED running
          BY <1>1, <5>1, BystanderOrModel, BystanderSession
        <5>. QED
          BY <4>2, <5>2 DEF Releasing
      <4>3. CASE TakeOperation
        <5>1. UNCHANGED session
          BY <4>3 DEF TakeOperation
        <5>2. HoldsSession(c, e) => HoldsSession(c, e)'
          BY <5>1 DEF HoldsSession, session
        <5>. QED
          BY <1>1, <4>1, <4>2, <4>3, <5>2, ReleaseTaken
      <4>4. CASE ~TakeOperation /\ (HoldsSession(c, e) \/ ReleaseQueued)
        BY <1>1, <3>2, <4>4, SessionGoesOn
      <4>. QED
        BY <4>1, <4>2, <4>3, <4>4
    <3>. QED
      BY <2>1, <2>2, <3>1, <3>2 DEF OwnDialogue
  <2>3. CASE kept \/ dialogue = {}
    BY <2>1, <2>3 DEF OwnDialogue
  <2>. QED
    BY <1>1, <2>2, <2>3 DEF OwnDialogue
<1>. QED
  BY <1>2, <1>3, <1>4

LEMMA DialogueInvStep == DialogueInv /\ [SNext]_svars => DialogueInv'
<1>. SUFFICES ASSUME DialogueInv, [SNext]_svars PROVE DialogueInv'
  OBVIOUS
<1>1. ServerInv'
  BY ServerInvStep DEF DialogueInv
<1>2. CASE UNCHANGED svars
  BY <1>1, <1>2
  DEF DialogueInv, TurnsOK, OfASession, StartOK, OwnTurn, OwnDialogue, Conversing, Releasing,
      ReleaseQueued, HoldsSession, svars, session, native
<1>3. CASE SNext
  BY <1>1, <1>3, TurnsStep, StartOKStep, OwnTurnStep, OwnDialogueStep DEF DialogueInv
<1>. QED
  BY <1>2, <1>3

LEMMA DialogueInvInitially == SInit => DialogueInv
<1>. SUFFICES ASSUME SInit PROVE DialogueInv
  OBVIOUS
<1>1. ServerInv
  BY ServerInvInitially
<1>2. TurnsOK
  BY DEF SInit, TurnsOK, OfASession, Idle, NoOp, Op
<1>3. StartOK /\ OwnTurn
  BY DEF SInit, StartOK, OwnTurn, Conversing, Idle
<1>4. OwnDialogue
  BY DEF SInit, OwnDialogue
<1>. QED
  BY <1>1, <1>2, <1>3, <1>4 DEF DialogueInv

LEMMA DialogueInvariance == SSpec => []DialogueInv
<1>. QED
  BY DialogueInvInitially, DialogueInvStep, PTL DEF SSpec

\* No agent is called with the texts of another's work in its dialogue, no agent stays
\* suspended when its job is gone, and the manager's dialogue is of one session: the
\* model thread runs the release of a session before any turn of the next
\* (NativeAgent.run, run_slice, abort_agent_slices, release_session).
THEOREM DialoguesAreOwnProved == SSpec => []DialoguesAreOwn
<1>1. AgentInv /\ DialogueInv => DialoguesAreOwn
  <2>. SUFFICES ASSUME AgentInv, DialogueInv PROVE DialoguesAreOwn
    OBVIOUS
  <2>1. \A x : Cardinality({x}) = 1
    BY FS_Singleton
  <2>2. \A a \in Agents : agents[a] = "RUNNING" => Cardinality(context[a]) = 1
    BY <2>1 DEF AgentInv, ContextOK
  <2>3. kept \/ Cardinality(dialogue) <= 1
    <3>1. Cardinality({}) <= 1
      BY FS_EmptySet
    <3>2. \A x : Cardinality({x}) <= 1
      BY <2>1
    <3>3. kept \/ dialogue = {} \/ \E x : dialogue = {x}
      BY DEF DialogueInv, OwnDialogue
    <3>. QED
      BY <3>1, <3>2, <3>3
  <2>. QED
    BY <2>2, <2>3 DEF DialoguesAreOwn, AgentInv, ContextOK
<1>. QED
  BY <1>1, AgentInvariance, DialogueInvariance, PTL

-----------------------------------------------------------------------------
(* Counting the operations of a job.                                       *)

Of(op, j, whats) == op.job = j /\ op.what \in whats
Hits(s, j, whats) == {i \in DOMAIN s : Of(s[i], j, whats)}
Count(s, j, whats) == Cardinality(Hits(s, j, whats))
One(op, j, whats) == IF Of(op, j, whats) THEN 1 ELSE 0

LEMMA CountTyped ==
    ASSUME NEW s, NEW n \in Nat, DOMAIN s = 1..n, NEW j, NEW whats
    PROVE  IsFiniteSet(Hits(s, j, whats)) /\ Count(s, j, whats) \in Nat
<1>1. IsFiniteSet(1..n) /\ Hits(s, j, whats) \in SUBSET (1..n)
  BY FS_Interval DEF Hits
<1>2. IsFiniteSet(Hits(s, j, whats))
  BY <1>1, FS_Subset
<1>. QED
  BY <1>2, FS_CardinalityType DEF Count

LEMMA CountEmpty ==
    ASSUME NEW j, NEW whats
    PROVE  Count(<<>>, j, whats) = 0
<1>1. Hits(<<>>, j, whats) = {}
  BY DEF Hits
<1>. QED
  BY <1>1, FS_EmptySet DEF Count

Joined(s, t, both) == both = s \o t

LEMMA CountJoined ==
    ASSUME NEW s \in Seq(Ops), NEW t \in Seq(Ops), NEW both, Joined(s, t, both), NEW j, NEW whats
    PROVE  Count(both, j, whats) = Count(s, j, whats) + Count(t, j, whats)
<1>. DEFINE A == Hits(s, j, whats)
            B == Hits(t, j, whats)
            C == {i \in DOMAIN both : i > Len(s) /\ Of(both[i], j, whats)}
            f == [i \in B |-> Len(s) + i]
<1>1. /\ Len(s) \in Nat /\ Len(t) \in Nat /\ DOMAIN s = 1..Len(s) /\ DOMAIN t = 1..Len(t)
      /\ DOMAIN both = 1..(Len(s) + Len(t))
      /\ \A i \in 1..Len(s) : both[i] = s[i]
      /\ \A i \in 1..Len(t) : both[Len(s) + i] = t[i]
  BY DEF Joined
<1>2. IsFiniteSet(A) /\ IsFiniteSet(B) /\ Cardinality(A) \in Nat /\ Cardinality(B) \in Nat
  BY <1>1, CountTyped DEF Count
<1>3. ExistsBijection(B, C)
  <2>1. f \in [B -> C]
    BY <1>1 DEF Hits
  <2>2. IsInjective(f)
    BY <1>1 DEF IsInjective, Hits
  <2>3. \A i \in C : i - Len(s) \in B /\ f[i - Len(s)] = i
    <3>1. ASSUME NEW i \in C PROVE i - Len(s) \in 1..Len(t) /\ both[i] = t[i - Len(s)]
      <4>1. i - Len(s) \in 1..Len(t) /\ Len(s) + (i - Len(s)) = i
        BY <1>1
      <4>. QED
        BY <1>1, <4>1
    <3>. QED
      BY <1>1, <3>1 DEF Hits
  <2>. QED
    <3>. HIDE DEF f, A, B, C
    <3>1. \A i \in C : \E k \in B : f[k] = i
      BY <2>3
    <3>2. f \in Bijection(B, C)
      BY <2>1, <2>2, <3>1 DEF Bijection, Injection, Surjection
    <3>. QED
      BY <3>2 DEF ExistsBijection
<1>4. IsFiniteSet(C) /\ Cardinality(C) = Cardinality(B)
  BY <1>2, <1>3, FS_Bijection
<1>5. Hits(both, j, whats) = A \cup C /\ A \cap C = {}
  BY <1>1 DEF Hits
<1>. HIDE DEF A, B, C
<1>6. Cardinality(A \cup C) = Cardinality(A) + Cardinality(C) - 0
  BY <1>2, <1>4, <1>5, FS_Union, FS_EmptySet
<1>. QED
  BY <1>2, <1>4, <1>5, <1>6 DEF Count, A, B

LEMMA CountOne ==
    ASSUME NEW op \in Ops, NEW j, NEW whats
    PROVE  Count(<<op>>, j, whats) = One(op, j, whats)
<1>1. Hits(<<op>>, j, whats) = IF Of(op, j, whats) THEN {1} ELSE {}
  BY DEF Hits
<1>. QED
  BY <1>1, FS_EmptySet, FS_Singleton DEF Count, One

LEMMA CountAppended ==
    ASSUME NEW s \in Seq(Ops), NEW op \in Ops, NEW t, t = Append(s, op), NEW j, NEW whats
    PROVE  Count(t, j, whats) = Count(s, j, whats) + One(op, j, whats)
<1>1. PICK u \in Seq(Ops) : u = <<op>>
  <2>1. <<op>> \in Seq(Ops)
    OBVIOUS
  <2>. QED
    BY <2>1
<1>2. u \in Seq(Ops) /\ Joined(s, u, t)
  BY <1>1 DEF Joined
<1>3. Count(t, j, whats) = Count(s, j, whats) + Count(u, j, whats)
  BY <1>2, CountJoined
<1>4. Count(u, j, whats) = One(op, j, whats)
  BY <1>1, CountOne
<1>. QED
  BY <1>3, <1>4

Splits(s, op, rest) == s # <<>> /\ op = Head(s) /\ rest = Tail(s)

LEMMA CountTaken ==
    ASSUME NEW s \in Seq(Ops), NEW op, NEW rest, Splits(s, op, rest), NEW j, NEW whats
    PROVE  Count(s, j, whats) = One(op, j, whats) + Count(rest, j, whats)
<1>1. op \in Ops /\ rest \in Seq(Ops)
  BY DEF Splits
<1>2. PICK u \in Seq(Ops) : u = <<op>>
  <2>1. <<op>> \in Seq(Ops)
    BY <1>1
  <2>. QED
    BY <2>1
<1>3. u \in Seq(Ops) /\ Joined(u, rest, s)
  BY <1>2 DEF Joined, Splits
<1>4. Count(s, j, whats) = Count(u, j, whats) + Count(rest, j, whats)
  BY <1>1, <1>3, CountJoined
<1>5. Count(u, j, whats) = One(op, j, whats)
  BY <1>1, <1>2, CountOne
<1>. QED
  BY <1>4, <1>5

LEMMA SetToSeqCovers ==
    ASSUME NEW S, IsFiniteSet(S), NEW f, f = SetToSeq(S)
    PROVE  /\ \A a, b \in 1..Cardinality(S) : f[a] = f[b] => a = b
           /\ \A x \in S : \E i \in 1..Cardinality(S) : f[i] = x
<1>. DEFINE n == Cardinality(S)
<1>1. n \in Nat /\ \E g \in [1..n -> S] : IsInjective(g)
  BY FS_CardinalityType DEF ExistsBijection, Bijection, Injection
<1>2. f \in [1..n -> S] /\ IsInjective(f)
  BY <1>1 DEF SetToSeq
<1>3. f \in Injection(1..n, S)
  BY <1>2 DEF Injection
<1>4. Cardinality(1..n) = n
  BY <1>1, FS_Interval
<1>5. f \in Surjection(1..n, S)
  BY <1>3, <1>4, FS_Injection
<1>. QED
  BY <1>2, <1>5 DEF IsInjective, Surjection

CleanupsOf(js, cleanups) ==
    cleanups = [i \in 1..Cardinality(js) |-> CleanupOp("clear", SetToSeq(js)[i])]

\* A cancellation queues one cleanup for each of its jobs.
LEMMA CountCleanups ==
    ASSUME SInv, NEW js \in SUBSET Live, NEW cleanups, CleanupsOf(js, cleanups), NEW j, NEW whats
    PROVE  /\ cleanups \in Seq(Ops)
           /\ Count(cleanups, j, whats) = IF j \in js /\ "clear" \in whats THEN 1 ELSE 0
<1>1. PICK f : f = SetToSeq(js)
  OBVIOUS
<1>2. PICK n : n = Cardinality(js)
  OBVIOUS
<1>3. IsFiniteSet(js)
  <2>1. IsFiniteSet(1..MaxJobs) /\ js \in SUBSET (1..MaxJobs)
    BY FS_Interval, ServerConstants DEF Live, JobIds
  <2>. QED
    BY <2>1, FS_Subset
<1>4. /\ n \in Nat /\ f \in [1..n -> js]
      /\ \A a, b \in 1..n : f[a] = f[b] => a = b
      /\ \A x \in js : \E i \in 1..n : f[i] = x
  BY <1>1, <1>2, <1>3, SetToSeqMembers, SetToSeqCovers
<1>5. DOMAIN cleanups = 1..n /\ \A i \in 1..n : cleanups[i] = CleanupOp("clear", f[i])
  BY <1>1, <1>2 DEF CleanupsOf
<1>6. \A i \in 1..n : cleanups[i] \in Ops
  BY <1>4, <1>5, CleanupTyped DEF SInv, Live
<1>7. cleanups \in Seq(Ops)
  BY <1>1, <1>2, <1>4, <1>5, <1>6 DEF CleanupsOf
<1>8. \A i \in 1..n : Of(cleanups[i], j, whats) <=> f[i] = j /\ "clear" \in whats
  BY <1>5 DEF CleanupOp, Op, Of
<1>9. CASE j \in js /\ "clear" \in whats
  <2>1. PICK i \in 1..n : f[i] = j
    BY <1>4, <1>9
  <2>2. Hits(cleanups, j, whats) = {i}
    BY <1>4, <1>5, <1>8, <1>9, <2>1 DEF Hits
  <2>. QED
    BY <1>7, <1>9, <2>2, FS_Singleton DEF Count
<1>10. CASE ~(j \in js /\ "clear" \in whats)
  <2>1. Hits(cleanups, j, whats) = {}
    <3>1. \A i \in 1..n : f[i] \in js
      BY <1>4
    <3>2. \A i \in DOMAIN cleanups : ~Of(cleanups[i], j, whats)
      BY <1>5, <1>8, <1>10, <3>1
    <3>. QED
      BY <3>2 DEF Hits
  <2>. QED
    BY <1>7, <1>10, <2>1, FS_EmptySet DEF Count
<1>. QED
  BY <1>9, <1>10

\* The operations of a job that wait.
Waits(q, j, whats) == Count(q["control"], j, whats) + Count(q["background"], j, whats)
Carriers == {"control", "background"}

LEMMA PendingIs ==
    ASSUME NEW j, NEW whats
    PROVE  Pending(j, whats) = Waits(queue, j, whats) + One(running.op, j, whats)
  BY DEF Pending, Waits, Count, Hits, One, Of

LEMMA WaitsTyped ==
    ASSUME NEW q \in [Priorities -> Seq(Ops)], NEW j, NEW whats
    PROVE  /\ Waits(q, j, whats) \in Nat /\ Count(q["control"], j, whats) \in Nat
           /\ Count(q["background"], j, whats) \in Nat
<1>1. ASSUME NEW s \in Seq(Ops) PROVE Count(s, j, whats) \in Nat
  <2>1. Len(s) \in Nat /\ DOMAIN s = 1..Len(s)
    OBVIOUS
  <2>. QED
    BY <2>1, CountTyped
<1>2. q["control"] \in Seq(Ops) /\ q["background"] \in Seq(Ops)
  BY DEF Priorities
<1>. QED
  BY <1>1, <1>2 DEF Waits

LEMMA PutWaits ==
    ASSUME NEW q \in [Priorities -> Seq(Ops)], NEW k \in Priorities, NEW op \in Ops,
           NEW q2, q2 = Added(q, k, op), NEW j, NEW whats
    PROVE  Waits(q2, j, whats) = Waits(q, j, whats) + IF k \in Carriers THEN One(op, j, whats) ELSE 0
<1>1. One(op, j, whats) \in Nat
  BY DEF One
<1>2. ASSUME NEW l \in Carriers
      PROVE  Count(q2[l], j, whats) =
                Count(q[l], j, whats) + IF k = l THEN One(op, j, whats) ELSE 0
  <2>0. l \in Priorities /\ q[l] \in Seq(Ops) /\ Count(q[l], j, whats) \in Nat
    BY <1>2, WaitsTyped DEF Carriers, Priorities
  <2>1. CASE k = l
    <3>1. q2[l] = Append(q[l], op)
      BY <2>0, <2>1 DEF Added
    <3>. QED
      BY <2>0, <2>1, <3>1, CountAppended, SMTT(30)
  <2>2. CASE k # l
    <3>1. q2[l] = q[l]
      BY <2>0, <2>2 DEF Added
    <3>. QED
      BY <2>0, <2>2, <3>1
  <2>. QED
    BY <2>1, <2>2
<1>3. /\ Count(q2["control"], j, whats) = Count(q["control"], j, whats)
            + IF k = "control" THEN One(op, j, whats) ELSE 0
      /\ Count(q2["background"], j, whats) = Count(q["background"], j, whats)
            + IF k = "background" THEN One(op, j, whats) ELSE 0
  BY <1>2 DEF Carriers
<1>4. Count(q["control"], j, whats) \in Nat /\ Count(q["background"], j, whats) \in Nat
  BY WaitsTyped
<1>. QED
  BY <1>1, <1>3, <1>4 DEF Waits, Carriers

LEMMA TakeWaits ==
    ASSUME NEW q \in [Priorities -> Seq(Ops)], NEW k \in Priorities, q[k] # <<>>,
           NEW q2, q2 = Taken(q, k), NEW j, NEW whats
    PROVE  Waits(q, j, whats) =
                Waits(q2, j, whats) + IF k \in Carriers THEN One(Head(q[k]), j, whats) ELSE 0
<1>1. PICK op : op = Head(q[k])
  OBVIOUS
<1>2. One(op, j, whats) \in Nat
  BY DEF One
<1>3. q2 \in [Priorities -> Seq(Ops)]
  BY DEF Taken
<1>4. ASSUME NEW l \in Carriers
      PROVE  Count(q[l], j, whats) =
                Count(q2[l], j, whats) + IF k = l THEN One(op, j, whats) ELSE 0
  <2>0. l \in Priorities /\ q[l] \in Seq(Ops) /\ Count(q[l], j, whats) \in Nat
        /\ Count(q2[l], j, whats) \in Nat
    BY <1>3, <1>4, WaitsTyped DEF Carriers, Priorities
  <2>1. CASE k = l
    <3>1. Splits(q[l], op, q2[l])
      BY <1>1, <2>0, <2>1 DEF Taken, Splits
    <3>2. Count(q[l], j, whats) = One(op, j, whats) + Count(q2[l], j, whats)
      <4>. DEFINE s == q[l]
                  rest == q2[l]
      <4>1. s \in Seq(Ops) /\ Splits(s, op, rest)
        BY <2>0, <3>1
      <4>. HIDE DEF s, rest
      <4>2. Count(s, j, whats) = One(op, j, whats) + Count(rest, j, whats)
        BY <4>1, CountTaken
      <4>. QED
        BY <4>2 DEF s, rest
    <3>. QED
      BY <1>2, <2>0, <2>1, <3>2
  <2>2. CASE k # l
    <3>1. q2[l] = q[l]
      BY <2>0, <2>2 DEF Taken
    <3>. QED
      BY <2>0, <2>2, <3>1
  <2>. QED
    BY <2>1, <2>2
<1>5. /\ Count(q["control"], j, whats) = Count(q2["control"], j, whats)
            + IF k = "control" THEN One(op, j, whats) ELSE 0
      /\ Count(q["background"], j, whats) = Count(q2["background"], j, whats)
            + IF k = "background" THEN One(op, j, whats) ELSE 0
  BY <1>4 DEF Carriers
<1>6. Count(q2["control"], j, whats) \in Nat /\ Count(q2["background"], j, whats) \in Nat
  BY <1>3, WaitsTyped
<1>. QED
  BY <1>1, <1>2, <1>5, <1>6 DEF Waits, Carriers

LEMMA CancelWaits ==
    ASSUME SInv, NEW js \in SUBSET Live, NEW then \in Seq(Ops), Cancel(js, then), NEW j, NEW whats,
           Count(then, j, whats) = 0
    PROVE  Waits(queue', j, whats) =
                Waits(queue, j, whats) + IF j \in js /\ "clear" \in whats THEN 1 ELSE 0
<1>1. PICK cleanups : CleanupsOf(js, cleanups)
  BY DEF CleanupsOf
<1>2. PICK q \in [Priorities -> Seq(Ops)] : q = queue
  BY QueueTyped
<1>3. PICK s \in Seq(Ops) : s = q["control"]
  BY <1>2 DEF Priorities
<1>4. /\ cleanups \in Seq(Ops)
      /\ Count(cleanups, j, whats) = IF j \in js /\ "clear" \in whats THEN 1 ELSE 0
  BY <1>1, CountCleanups
<1>5. PICK mid \in Seq(Ops) : mid = s \o cleanups
  <2>1. s \o cleanups \in Seq(Ops)
    BY <1>4
  <2>. QED
    BY <2>1
<1>6. PICK all : all = mid \o then
  OBVIOUS
<1>7. queue' = [q EXCEPT !["control"] = all]
  BY <1>1, <1>2, <1>3, <1>5, <1>6 DEF Cancel, CleanupsOf
<1>8. Joined(s, cleanups, mid) /\ Joined(mid, then, all)
  BY <1>5, <1>6 DEF Joined
<1>9. Count(all, j, whats) = Count(s, j, whats) + Count(cleanups, j, whats) + 0
  <2>1. Count(mid, j, whats) = Count(s, j, whats) + Count(cleanups, j, whats)
    BY <1>4, <1>8, CountJoined
  <2>2. Count(all, j, whats) = Count(mid, j, whats) + Count(then, j, whats)
    BY <1>8, CountJoined
  <2>. QED
    BY <2>1, <2>2
<1>10. queue'["control"] = all /\ queue'["background"] = q["background"]
  BY <1>2, <1>7 DEF Priorities
<1>11. Count(s, j, whats) \in Nat /\ Count(q["background"], j, whats) \in Nat
  BY <1>3, WaitsTyped
<1>. QED
  BY <1>2, <1>3, <1>4, <1>9, <1>10, <1>11 DEF Waits

-----------------------------------------------------------------------------
(* Every job is carried on.                                                *)

CarriedJob(j) ==
    /\ jobs[j].state = "CANCELLING" => Pending(j, Cleanups) = 1
    /\ jobs[j].state # "CANCELLING" => /\ Pending(j, {"step"}) = 1
                                       /\ Pending(j, Cleanups) = 0
                                       /\ HoldsSession(jobs[j].client, jobs[j].epoch)

LEMMA CarriedJobs == EveryJobIsCarriedOn <=> (open => \A j \in Live : CarriedJob(j))
  BY DEF EveryJobIsCarriedOn, CarriedJob, Cleanups

\* An operation that is not a slice or a cleanup of job j.
Foreign(op, j) == op.job # j \/ op.what \notin Cleanups \cup {"step"}

LEMMA ForeignOps ==
    ASSUME NEW op, NEW j, Foreign(op, j)
    PROVE  One(op, j, Cleanups) = 0 /\ One(op, j, {"step"}) = 0
  BY DEF Foreign, One, Of

LEMMA PendingNext ==
    ASSUME NEW j, NEW whats
    PROVE  Pending(j, whats)' = Waits(queue', j, whats) + One(running'.op, j, whats)
  BY DEF Pending, Waits, Count, Hits, One, Of

SamePending(j) == /\ Pending(j, Cleanups)' = Pending(j, Cleanups)
                  /\ Pending(j, {"step"})' = Pending(j, {"step"})

SameWaits(j) == /\ Waits(queue', j, Cleanups) = Waits(queue, j, Cleanups)
                /\ Waits(queue', j, {"step"}) = Waits(queue, j, {"step"})

LEMMA SameOps ==
    ASSUME NEW j, SameWaits(j),
           running'.op = running.op \/ (Foreign(running.op, j) /\ Foreign(running'.op, j))
    PROVE  SamePending(j)
  BY PendingIs, PendingNext, ForeignOps DEF SameWaits, SamePending

LEMMA PutForeign ==
    ASSUME SInv, NEW k \in Priorities, NEW op \in Ops, Put(k, op), NEW j,
           Foreign(op, j) \/ k \notin Carriers
    PROVE  SameWaits(j)
<1>1. queue \in [Priorities -> Seq(Ops)] /\ queue' = Added(queue, k, op)
  BY QueueTyped DEF Put, Added
<1>2. ASSUME NEW whats \in {Cleanups, {"step"}} PROVE Waits(queue', j, whats) = Waits(queue, j, whats)
  <2>1. Waits(queue, j, whats) \in Nat
    BY <1>1, WaitsTyped
  <2>2. Waits(queue', j, whats) =
            Waits(queue, j, whats) + IF k \in Carriers THEN One(op, j, whats) ELSE 0
    BY <1>1, PutWaits
  <2>. QED
    BY <1>2, <2>1, <2>2, ForeignOps
<1>. QED
  BY <1>2 DEF SameWaits

\* A job that a step leaves as it is, with its operations and its session.
SameState(a, b) == b.client = a.client /\ b.epoch = a.epoch
                   /\ (b.state = "CANCELLING" <=> a.state = "CANCELLING")

LEMMA CarriedOn ==
    ASSUME CarriedInv, open, NEW j \in Live, SameState(jobs[j], jobs'[j]), SamePending(j),
           UNCHANGED session
    PROVE  CarriedJob(j)'
<1>1. CarriedJob(j)
  BY CarriedJobs DEF CarriedInv
<1>. QED
  BY <1>1 DEF CarriedJob, SameState, SamePending, HoldsSession, session

LEMMA OneTyped ==
    ASSUME NEW op, NEW j, NEW whats
    PROVE  One(op, j, whats) \in {0, 1}
  BY DEF One

\* Before it is cancelled a job has its slice, and nothing to end it.
LEMMA SliceOnly ==
    ASSUME CarriedInv, open, NEW j \in Live, jobs[j].state # "CANCELLING"
    PROVE  /\ Waits(queue, j, Cleanups) = 0 /\ One(running.op, j, Cleanups) = 0
           /\ HoldsSession(jobs[j].client, jobs[j].epoch)
<1>1. CarriedJob(j)
  BY CarriedJobs DEF CarriedInv
<1>2. queue \in [Priorities -> Seq(Ops)]
  BY QueueTyped DEF CarriedInv, ServerInv
<1>3. Waits(queue, j, Cleanups) \in Nat
  BY <1>2, WaitsTyped
<1>4. Waits(queue, j, Cleanups) + One(running.op, j, Cleanups) = 0
  BY <1>1, PendingIs DEF CarriedJob
<1>. QED
  BY <1>1, <1>3, <1>4, OneTyped DEF CarriedJob

LEMMA CancelCarries ==
    ASSUME CarriedInv, open, NEW js \in SUBSET Live, NEW then \in Seq(Ops), Cancel(js, then),
           NEW j \in js, jobs[j].state # "CANCELLING", Count(then, j, Cleanups) = 0,
           running'.op = running.op \/ One(running'.op, j, Cleanups) = 0
    PROVE  CarriedJob(j)'
<1>1. SInv /\ jobs \in [JobIds -> Jobs] /\ j \in Live /\ j \in JobIds
  BY DEF CarriedInv, ServerInv, SInv, Types, Live
<1>2. Waits(queue, j, Cleanups) = 0 /\ One(running'.op, j, Cleanups) = 0
  BY <1>1, SliceOnly
<1>3. Waits(queue', j, Cleanups) = 1
  BY <1>1, <1>2, CancelWaits DEF Cleanups
<1>4. Pending(j, Cleanups)' = 1
  BY <1>2, <1>3, PendingNext
<1>5. jobs'[j].state = "CANCELLING"
  BY <1>1 DEF Cancel, Jobs
<1>. QED
  BY <1>4, <1>5 DEF CarriedJob

LEMMA CancelSpares ==
    ASSUME SInv, NEW js \in SUBSET Live, NEW then \in Seq(Ops), Cancel(js, then),
           NEW j \in JobIds \ js, Count(then, j, Cleanups) = 0, Count(then, j, {"step"}) = 0
    PROVE  SameWaits(j) /\ jobs'[j] = jobs[j]
<1>1. queue \in [Priorities -> Seq(Ops)]
  BY QueueTyped
<1>2. ASSUME NEW whats, Count(then, j, whats) = 0
      PROVE  Waits(queue', j, whats) = Waits(queue, j, whats)
  <2>1. Waits(queue, j, whats) \in Nat
    BY <1>1, WaitsTyped
  <2>2. Waits(queue', j, whats) = Waits(queue, j, whats) + 0
    BY <1>2, CancelWaits
  <2>. QED
    BY <2>1, <2>2
<1>3. jobs'[j] = jobs[j]
  BY DEF Cancel
<1>. QED
  BY <1>2, <1>3 DEF SameWaits

LEMMA TimeoutCarries ==
    ASSUME CarriedInv, open, NEW j \in Live, jobs[j].state # "CANCELLING", TimesOut(j),
           One(running'.op, j, Cleanups) = 0
    PROVE  CarriedJob(j)'
<1>1. /\ SInv /\ Types /\ jobs \in [JobIds -> Jobs] /\ j \in JobIds
      /\ queue \in [Priorities -> Seq(Ops)]
  BY QueueTyped DEF CarriedInv, ServerInv, SInv, Types, Live
<1>2. PICK op : op = CleanupOp("timeout", j)
  OBVIOUS
<1>3. op \in Ops /\ One(op, j, Cleanups) = 1
  <2>1. op \in Ops
    BY <1>1, <1>2, CleanupTyped
  <2>2. Of(op, j, Cleanups)
    BY <1>2 DEF CleanupOp, Op, Of, Cleanups
  <2>. QED
    BY <2>1, <2>2 DEF One
<1>4. queue' = Added(queue, "control", op)
  BY <1>2 DEF TimesOut, Put, Added
<1>5. Waits(queue', j, Cleanups) = Waits(queue, j, Cleanups) + 1
  BY <1>1, <1>3, <1>4, PutWaits DEF Carriers, Priorities
<1>6. Waits(queue, j, Cleanups) = 0
  BY SliceOnly
<1>7. Pending(j, Cleanups)' = 1
  BY <1>5, <1>6, PendingNext
<1>8. jobs'[j].state = "CANCELLING"
  BY <1>1 DEF TimesOut, Jobs
<1>. QED
  BY <1>7, <1>8 DEF CarriedJob

LEMMA TimeoutSpares ==
    ASSUME SInv, NEW i \in Live, TimesOut(i), NEW j \in JobIds, j # i
    PROVE  SameWaits(j) /\ jobs'[j] = jobs[j]
<1>1. Types /\ i \in JobIds /\ jobs \in [JobIds -> Jobs]
  BY DEF SInv, Types, Live
<1>2. PICK op : op = CleanupOp("timeout", i)
  OBVIOUS
<1>3. op \in Ops /\ op.job = i
  BY <1>1, <1>2, CleanupTyped DEF CleanupOp, Op
<1>4. Put("control", op) /\ "control" \in Priorities
  BY <1>2 DEF TimesOut, Priorities
<1>5. SameWaits(j)
  BY <1>3, <1>4, PutForeign DEF Foreign
<1>. QED
  BY <1>1, <1>5 DEF TimesOut

LEMMA JobsAreTyped ==
    ASSUME CarriedInv
    PROVE  /\ SInv /\ Types /\ jobs \in [JobIds -> Jobs] /\ Live \in SUBSET JobIds
           /\ queue \in [Priorities -> Seq(Ops)]
           /\ \A j \in Live : jobs[j].client \in Clients
  BY QueueTyped DEF CarriedInv, ServerInv, SInv, Types, Live, LiveJobsTyped

\* A cancelled job keeps the operation that will end it.
LEMMA CancelledGoesOn ==
    ASSUME CarriedInv, open, NEW j \in Live, jobs[j].state = "CANCELLING",
           jobs'[j].state = "CANCELLING", SamePending(j)
    PROVE  CarriedJob(j)'
<1>1. CarriedJob(j)
  BY CarriedJobs DEF CarriedInv
<1>. QED
  BY <1>1 DEF CarriedJob, SamePending

LEMMA SameAgain ==
    ASSUME NEW j, UNCHANGED queue, running'.op = running.op
    PROVE  SamePending(j)
  BY SameOps DEF SameWaits

LEMMA CancelOneCarries ==
    ASSUME CarriedInv, open, NEW i \in Live, jobs[i].state # "CANCELLING", Cancel({i}, <<>>),
           running'.op = running.op \/ Foreign(running'.op, i), NEW j \in Live'
    PROVE  IF j = i THEN CarriedJob(j)'
           ELSE j \in Live /\ jobs'[j] = jobs[j] /\ SameWaits(j)
<1>1. PICK then \in Seq(Ops) : then = <<>>
  <2>1. <<>> \in Seq(Ops)
    OBVIOUS
  <2>. QED
    BY <2>1
<1>2. Cancel({i}, then) /\ {i} \in SUBSET Live
  BY <1>1
<1>3. \A whats : Count(then, j, whats) = 0 /\ Count(then, i, whats) = 0
  BY <1>1, CountEmpty
<1>4. CASE j = i
  BY <1>2, <1>3, <1>4, CancelCarries, ForeignOps
<1>5. CASE j # i
  <2>1. j \in JobIds \ {i}
    BY <1>5 DEF Live
  <2>2. SameWaits(j) /\ jobs'[j] = jobs[j]
    BY <1>2, <1>3, <2>1, JobsAreTyped, CancelSpares
  <2>. QED
    BY <1>5, <2>1, <2>2 DEF Live
<1>. QED
  BY <1>4, <1>5

LEMMA EndCarries ==
    ASSUME CarriedInv, open, NEW c \in Clients, EndSession(c), NEW j \in Live'
    PROVE  CarriedJob(j)'
<1>. DEFINE js == Cancellable(c)
<1>1. /\ SInv /\ Types /\ jobs \in [JobIds -> Jobs] /\ js \in SUBSET Live /\ j \in JobIds
      /\ UNCHANGED running
  BY JobsAreTyped DEF Cancellable, EndSession, Live
<1>2. PICK release \in Ops : release = Op("release", c, epoch[c], None, 0)
  <2>1. Op("release", c, epoch[c], None, 0) \in Ops
    BY <1>1, ServerConstants DEF Op, Ops, Whats, Clients, Types
  <2>. QED
    BY <2>1
<1>3. PICK then \in Seq(Ops) : then = <<release>>
  <2>1. <<release>> \in Seq(Ops)
    BY <1>2
  <2>. QED
    BY <2>1
<1>4. Cancel(js, then)
  BY <1>2, <1>3 DEF EndSession
<1>5. Count(then, j, Cleanups) = 0 /\ Count(then, j, {"step"}) = 0
  <2>1. Foreign(release, j)
    BY <1>2 DEF Foreign, Op, Cleanups
  <2>. QED
    BY <1>2, <1>3, <2>1, CountOne, ForeignOps
<1>6. CASE j \in js
  <2>1. j \in Live /\ jobs[j].state # "CANCELLING"
    BY <1>6 DEF Cancellable
  <2>. QED
    BY <1>1, <1>4, <1>5, <1>6, <2>1, CancelCarries
<1>7. CASE j \notin js
  <2>1. SameWaits(j) /\ jobs'[j] = jobs[j]
    BY <1>1, <1>4, <1>5, <1>7, CancelSpares
  <2>2. j \in Live
    BY <1>1, <2>1 DEF Live
  <2>3. jobs[j].state = "CANCELLING"
    <3>1. jobs[j].state # "CANCELLING" => HoldsSession(jobs[j].client, jobs[j].epoch)
      BY <2>2, SliceOnly
    <3>. QED
      BY <1>7, <2>2, <3>1 DEF HoldsSession, Cancellable, EndSession
  <2>. QED
    BY <1>1, <2>1, <2>2, <2>3, CancelledGoesOn, SameOps
<1>. QED
  BY <1>6, <1>7

LEMMA ClientCarries ==
    ASSUME CarriedInv, open, NEW c \in Clients, ClientThread(c), NEW j \in Live'
    PROVE  CarriedJob(j)'
<1>1. SInv /\ Types /\ jobs \in [JobIds -> Jobs]
  BY JobsAreTyped
<1>2. ASSUME UNCHANGED <<jobs, session, running>>, SameWaits(j) PROVE CarriedJob(j)'
  <2>1. j \in Live /\ SameState(jobs[j], jobs'[j])
    BY <1>2 DEF Live, SameState
  <2>. QED
    BY <1>2, <2>1, CarriedOn, SameOps
<1>3. CASE Acquire(c)
  <2>1. j \in Live /\ jobs'[j] = jobs[j] /\ UNCHANGED <<queue, running>>
    BY <1>3 DEF Acquire, Live
  <2>2. jobs[j].state = "CANCELLING"
    <3>1. jobs[j].state # "CANCELLING" => HoldsSession(jobs[j].client, jobs[j].epoch)
      BY <2>1, SliceOnly
    <3>2. jobs[j].client # NoClient
      BY <2>1, JobsAreTyped, ServerConstants DEF Clients, NoClient
    <3>. QED
      BY <1>3, <3>1, <3>2 DEF Acquire, HoldsSession
  <2>. QED
    BY <2>1, <2>2, CancelledGoesOn, SameAgain
<1>4. CASE EndSession(c)
  BY <1>4, EndCarries
<1>5. ASSUME NEW a \in Agents \cup {Manager}, SubmitTurn(c, a) PROVE CarriedJob(j)'
  <2>1. PICK op : op = Op("turn", c, epoch[c], a, 0)
    OBVIOUS
  <2>2. op \in Ops /\ Put("human", op) /\ "human" \in Priorities /\ "human" \notin Carriers
    BY <1>1, <1>5, <2>1, ServerConstants
    DEF SubmitTurn, Op, Ops, Whats, Clients, Types, Priorities, Carriers
  <2>3. SameWaits(j)
    BY <1>1, <2>2, PutForeign
  <2>4. UNCHANGED <<jobs, session, running>>
    BY <1>5 DEF SubmitTurn
  <2>. QED
    BY <1>2, <2>3, <2>4
<1>6. ASSUME NEW a, NEW what, AskAdmission(c, a, what) PROVE CarriedJob(j)'
  BY <1>2, <1>6 DEF AskAdmission, SameWaits
<1>7. ASSUME NEW i \in JobIds, CancelBackground(c, i) PROVE CarriedJob(j)'
  <2>1. /\ i \in Live /\ jobs[i].state # "CANCELLING" /\ Cancel({i}, <<>>)
        /\ UNCHANGED <<session, running>>
    BY <1>7 DEF CancelBackground, Cancellable
  <2>2. CASE j = i
    BY <2>1, <2>2, CancelOneCarries
  <2>3. CASE j # i
    <3>1. j \in Live /\ jobs'[j] = jobs[j] /\ SameWaits(j)
      BY <2>1, <2>3, CancelOneCarries
    <3>. QED
      BY <2>1, <3>1, CarriedOn, SameOps DEF SameState
  <2>. QED
    BY <2>2, <2>3
<1>. QED
  BY <1>3, <1>4, <1>5, <1>6, <1>7 DEF ClientThread

LEMMA NotNamed ==
    ASSUME NEW s, NEW j, \A m \in DOMAIN s : s[m].job # j, NEW whats
    PROVE  Count(s, j, whats) = 0
<1>1. Hits(s, j, whats) = {}
  BY DEF Hits, Of
<1>. QED
  BY <1>1, FS_EmptySet DEF Count

\* A job is registered together with its first slice.
LEMMA AdmitCarries ==
    ASSUME CarriedInv, open, Admit, NEW j \in Live'
    PROVE  CarriedJob(j)'
<1>1. /\ SInv /\ Types /\ jobs \in [JobIds -> Jobs] /\ queue \in [Priorities -> Seq(Ops)]
      /\ UNCHANGED <<session, running>> /\ admitting \in Ops
  BY JobsAreTyped DEF Admit, Types
<1>2. ASSUME j \in Live, jobs'[j] = jobs[j], SameWaits(j) PROVE CarriedJob(j)'
  BY <1>1, <1>2, CarriedOn, SameOps DEF SameState
<1>3. CASE Put("hardware", admitting) /\ UNCHANGED jobs
  <2>1. "hardware" \in Priorities /\ "hardware" \notin Carriers
    BY DEF Priorities, Carriers
  <2>. QED
    BY <1>1, <1>2, <1>3, <2>1, PutForeign DEF Live
<1>4. CASE UNCHANGED <<jobs, queue>>
  BY <1>2, <1>4 DEF Live, SameWaits
<1>5. ASSUME admitting.what = "step", NEW i \in Fresh,
             jobs' = [jobs EXCEPT ![i] =
                        [NoJob EXCEPT !.client = admitting.client, !.epoch = admitting.epoch,
                                      !.agent = admitting.agent, !.state = "QUEUED"]],
             Put("background", [admitting EXCEPT !.job = i])
      PROVE  CarriedJob(j)'
  <2>1. i \in JobIds /\ i \in Nat /\ running.op.job # i
    BY DEF Fresh, JobIds
  <2>2. PICK op \in Ops : op = [admitting EXCEPT !.job = i]
    BY <1>1, <2>1 DEF Ops
  <2>3. op.job = i /\ op.what = "step" /\ Put("background", op)
        /\ queue' = Added(queue, "background", op)
    BY <1>1, <1>5, <2>2 DEF Ops, Put, Added
  <2>4. CASE j # i
    <3>1. Foreign(op, j) /\ "background" \in Priorities
      BY <2>3, <2>4 DEF Foreign, Priorities
    <3>2. j \in Live /\ jobs'[j] = jobs[j]
      BY <1>1, <1>5, <2>1, <2>4 DEF Live
    <3>. QED
      BY <1>1, <1>2, <2>3, <3>1, <3>2, PutForeign
  <2>5. CASE j = i
    <3>1. \A whats : Waits(queue, i, whats) = 0
      <4>1. \A m \in DOMAIN queue["control"] : queue["control"][m].job # i
        BY DEF Fresh, Named
      <4>2. \A m \in DOMAIN queue["background"] : queue["background"][m].job # i
        BY DEF Fresh, Named
      <4>3. ASSUME NEW whats PROVE Waits(queue, i, whats) = 0
        <5>1. Count(queue["control"], i, whats) = 0 /\ Count(queue["background"], i, whats) = 0
          BY <4>1, <4>2, NotNamed
        <5>. QED
          BY <5>1 DEF Waits
      <4>. QED
        BY <4>3
    <3>2. \A whats : One(op, i, whats) = IF "step" \in whats THEN 1 ELSE 0
      BY <2>3 DEF One, Of
    <3>3. ASSUME NEW whats PROVE Pending(i, whats)' = IF "step" \in whats THEN 1 ELSE 0
      <4>1. Waits(queue', i, whats) = Waits(queue, i, whats) + One(op, i, whats)
        BY <1>1, <2>3, PutWaits DEF Carriers, Priorities
      <4>2. One(running'.op, i, whats) = 0
        BY <1>1, <2>1 DEF One, Of
      <4>. QED
        BY <3>1, <3>2, <4>1, <4>2, PendingNext
    <3>4. Pending(i, {"step"})' = 1 /\ Pending(i, Cleanups)' = 0
      BY <3>3 DEF Cleanups
    <3>5. /\ jobs'[i].state = "QUEUED" /\ jobs'[i].client = admitting.client
          /\ jobs'[i].epoch = admitting.epoch
      BY <1>1, <1>5, <2>1 DEF NoJob
    <3>6. HoldsSession(jobs[i].client, jobs[i].epoch)'
      <4>1. HoldsSession(admitting.client, admitting.epoch)
        BY DEF Admit, CarriedInv, ServerInv, AdmissionOK
      <4>. QED
        BY <1>1, <3>5, <4>1 DEF HoldsSession, session
    <3>. QED
      BY <2>5, <3>4, <3>5, <3>6 DEF CarriedJob, HoldsSession
  <2>. QED
    BY <2>4, <2>5
<1>. QED
  BY <1>3, <1>4, <1>5 DEF Admit

LEMMA TakeCarries ==
    ASSUME CarriedInv, open, TakeOperation, NEW j \in Live'
    PROVE  CarriedJob(j)'
<1>1. /\ ServerInv /\ queue \in [Priorities -> Seq(Ops)] /\ running = Idle /\ j \in Live
      /\ UNCHANGED <<jobs, session>>
  BY JobsAreTyped DEF CarriedInv, TakeOperation, Live
<1>2. PICK k \in Priorities : /\ queue[k] # <<>> /\ queue[k] \in Seq(Ops)
                              /\ Queued(k, Head(queue[k]))
                              /\ running' = TakenFor(Head(queue[k]))
                              /\ queue' = [queue EXCEPT ![k] = Tail(@)]
  BY <1>1, TakenOp
<1>3. PICK op : op = Head(queue[k])
  OBVIOUS
<1>4. running'.op = op /\ queue' = Taken(queue, k) /\ queue' \in [Priorities -> Seq(Ops)]
  BY <1>1, <1>2, <1>3, TakenForIs DEF Taken
<1>5. ASSUME NEW whats \in {Cleanups, {"step"}} PROVE Pending(j, whats)' = Pending(j, whats)
  <2>1. Waits(queue, j, whats) =
            Waits(queue', j, whats) + IF k \in Carriers THEN One(op, j, whats) ELSE 0
    <3>1. PICK q2 : q2 = queue'
      OBVIOUS
    <3>2. q2 = Taken(queue, k)
      BY <1>4, <3>1
    <3>3. Waits(queue, j, whats) =
            Waits(q2, j, whats) + IF k \in Carriers THEN One(Head(queue[k]), j, whats) ELSE 0
      BY <1>1, <1>2, <3>2, TakeWaits
    <3>. QED
      BY <1>3, <3>1, <3>3
  <2>2. Waits(queue', j, whats) \in Nat /\ Waits(queue, j, whats) \in Nat
    BY <1>1, <1>4, WaitsTyped
  <2>3. k \notin Carriers => One(op, j, whats) = 0
    <3>1. k \notin Carriers => op.what \in {"turn", "probe", "run"}
      BY <1>1, <1>2, <1>3 DEF ServerInv, QueueKinds, Queued, Carriers, Priorities
    <3>. QED
      BY <1>5, <3>1 DEF One, Of, Cleanups
  <2>4. One(running.op, j, whats) = 0
    BY <1>1, <1>5 DEF One, Of, Cleanups, Idle, NoOp, Op
  <2>5. One(op, j, whats) \in {0, 1}
    BY OneTyped
  <2>6. Pending(j, whats)' = Waits(queue', j, whats) + One(op, j, whats)
    BY <1>4, PendingNext
  <2>7. Pending(j, whats) = Waits(queue, j, whats) + 0
    BY <2>4, PendingIs
  <2>. QED
    BY <2>1, <2>2, <2>3, <2>5, <2>6, <2>7
<1>6. SamePending(j)
  BY <1>5 DEF SamePending
<1>. QED
  BY <1>1, <1>6, CarriedOn DEF SameState

\* The steps of the model thread that are not about the state of a job.
LEMMA WorkOnly ==
    ASSUME ServerInv, ModelThread, ~TakeOperation, ~StartStep, ~FinishSlice, ~FinishCleared
    PROVE  /\ UNCHANGED <<jobs, queue, session>>
           /\ \/ running'.op = running.op
              \/ running' = Idle /\ running.op.what \notin Cleanups \cup {"step"}
<1>1. running \in Threads
  BY DEF ServerInv, SInv, Types
<1>2. UNCHANGED <<jobs, queue, session>>
  BY DEF ModelThread, CallAgent, AgentReturns, StartTurn, AskManager, Delegate, GiveResult, TakeRun,
         BeginRun, FinishRun, ReleaseSession, CallSlice, SliceReturns, AbortSlices
<1>3. ASSUME NEW step, Step(step) PROVE running'.op = running.op
  BY <1>1, <1>3 DEF Step, Threads
<1>4. ASSUME NEW step, NEW ok, Result(step, ok) PROVE running'.op = running.op
  BY <1>1, <1>4 DEF Result, Threads
<1>5. AgentDone => running'.op = running.op
  BY <1>1, <1>3 DEF AgentDone, Threads
<1>6. Silent => running'.op = running.op
  BY IdleTyped DEF Silent, Idle
<1>7. CallAgent \/ AgentReturns \/ AskManager \/ Delegate \/ BeginRun => running'.op = running.op
  <2>1. AskManager => running'.op = running.op
    BY <1>1, <1>3 DEF AskManager, Threads
  <2>2. CallAgent \/ AgentReturns => running'.op = running.op
    BY <1>3, <1>5 DEF CallAgent, AgentReturns
  <2>3. Delegate \/ BeginRun => running'.op = running.op
    BY <1>3, <1>6 DEF Delegate, BeginRun
  <2>. QED
    BY <2>1, <2>2, <2>3
<1>8. CallSlice \/ SliceReturns \/ AbortSlices => running'.op = running.op
  BY <1>3, <1>4 DEF CallSlice, SliceReturns, AbortSlices
<1>9. StartTurn \/ GiveResult =>
        running'.op = running.op \/ (running' = Idle /\ running.op.what \in {"turn", "probe"})
  BY <1>3 DEF StartTurn, GiveResult
<1>10. TakeRun \/ FinishRun \/ ReleaseSession =>
        running'.op = running.op \/ (running' = Idle /\ running.op.what \in {"run", "release"})
  BY <1>3 DEF TakeRun, FinishRun, ReleaseSession, At
<1>. QED
  BY <1>2, <1>7, <1>8, <1>9, <1>10 DEF ModelThread, Cleanups

\* An operation ends that is not one that carries the job.
LEMMA OtherEnds ==
    ASSUME CarriedInv, open, NEW j \in Live, jobs'[j] = jobs[j], SameWaits(j), UNCHANGED session,
           running'.op = running.op \/ (Foreign(running.op, j) /\ running' = Idle)
    PROVE  CarriedJob(j)'
<1>1. running' = Idle => Foreign(running'.op, j)
  BY DEF Idle, NoOp, Op, Foreign, Cleanups
<1>. QED
  BY <1>1, CarriedOn, SameOps DEF SameState

\* The slice of a cancelled job is dropped.
LEMMA DroppedSlice ==
    ASSUME CarriedInv, open, NEW j \in Live, UNCHANGED <<jobs, queue, session>>, running' = Idle,
           running.op.what = "step", running.op.job = j => jobs[j].state = "CANCELLING"
    PROVE  CarriedJob(j)'
<1>1. CASE running.op.job # j
  BY <1>1, OtherEnds DEF Foreign, SameWaits
<1>2. CASE running.op.job = j
  <2>1. CarriedJob(j)
    BY CarriedJobs DEF CarriedInv
  <2>2. One(running.op, j, Cleanups) = 0 /\ One(running'.op, j, Cleanups) = 0
    BY DEF One, Of, Cleanups, Idle, NoOp, Op
  <2>3. Pending(j, Cleanups)' = Pending(j, Cleanups)
    BY <2>2, PendingIs, PendingNext
  <2>. QED
    BY <1>2, <2>1, <2>3 DEF CarriedJob
<1>. QED
  BY <1>1, <1>2

LEMMA LateSlice ==
    ASSUME CarriedInv, open, TimesOut(running.op.job), running.op.job \in Live, running' = Idle,
           jobs[running.op.job].state # "CANCELLING", UNCHANGED session, NEW j \in Live'
    PROVE  CarriedJob(j)'
<1>1. PICK i \in Live : i = running.op.job
  OBVIOUS
<1>2. CASE j = i
  <2>1. One(running'.op, j, Cleanups) = 0
    BY DEF One, Of, Cleanups, Idle, NoOp, Op
  <2>. QED
    BY <1>1, <1>2, <2>1, TimeoutCarries
<1>3. CASE j # i
  <2>1. j \in JobIds /\ TimesOut(i)
    BY <1>1 DEF Live
  <2>2. SameWaits(j) /\ jobs'[j] = jobs[j]
    BY <1>3, <2>1, JobsAreTyped, TimeoutSpares
  <2>3. j \in Live
    BY <2>1, <2>2 DEF Live
  <2>. QED
    BY <1>1, <1>3, <2>2, <2>3, OtherEnds DEF Foreign
<1>. QED
  BY <1>2, <1>3

LEMMA StartStepCarries ==
    ASSUME CarriedInv, open, StartStep, NEW j \in Live'
    PROVE  CarriedJob(j)'
<1>1. /\ running \in Threads /\ jobs \in [JobIds -> Jobs] /\ running.op.what = "step"
      /\ UNCHANGED session /\ j \in JobIds
  BY JobsAreTyped DEF StartStep, Types, At, Live
<1>2. CASE running' = Idle /\ UNCHANGED <<jobs, queue>> /\ ~(open /\ running.op.job \in Live
                                                            /\ Job.state # "CANCELLING")
  <2>1. j \in Live /\ (running.op.job = j => jobs[j].state = "CANCELLING")
    BY <1>2 DEF Live, Job
  <2>. QED
    BY <1>1, <1>2, <2>1, DroppedSlice
<1>3. CASE /\ running.op.job \in Live /\ Job.state # "CANCELLING"
           /\ TimesOut(running.op.job) /\ running' = Idle
  BY <1>1, <1>3, LateSlice DEF Job
<1>4. CASE /\ running.op.job \in Live /\ Job.state # "CANCELLING"
           /\ jobs' = [jobs EXCEPT ![running.op.job].state = "RUNNING"]
           /\ Step("slice") /\ UNCHANGED queue
  <2>1. running'.op = running.op
    BY <1>1, <1>4 DEF Step, Threads
  <2>2. j \in Live /\ SameState(jobs[j], jobs'[j])
    BY <1>1, <1>4 DEF Live, SameState, Job, Jobs
  <2>. QED
    BY <1>1, <1>4, <2>1, <2>2, CarriedOn, SameAgain
<1>. QED
  BY <1>2, <1>3, <1>4 DEF StartStep

\* The slice that ran is put back for the next.
LEMMA PutBack ==
    ASSUME CarriedInv, running.op.what = "step", Put("background", running.op), running' = Idle,
           NEW j
    PROVE  SamePending(j)
<1>1. running.op \in Ops /\ queue \in [Priorities -> Seq(Ops)]
      /\ queue' = Added(queue, "background", running.op) /\ "background" \in Priorities
  BY JobsAreTyped DEF Types, Threads, Put, Added, Priorities
<1>2. ASSUME NEW whats \in {Cleanups, {"step"}} PROVE Pending(j, whats)' = Pending(j, whats)
  <2>1. Waits(queue', j, whats) = Waits(queue, j, whats) + One(running.op, j, whats)
    BY <1>1, PutWaits DEF Carriers
  <2>2. One(running'.op, j, whats) = 0
    BY <1>2 DEF One, Of, Cleanups, Idle, NoOp, Op
  <2>3. Waits(queue, j, whats) \in Nat /\ One(running.op, j, whats) \in {0, 1}
    BY <1>1, WaitsTyped, OneTyped
  <2>4. Pending(j, whats)' = Waits(queue', j, whats) + 0
    BY <2>2, PendingNext
  <2>5. Pending(j, whats) = Waits(queue, j, whats) + One(running.op, j, whats)
    BY PendingIs
  <2>. QED
    BY <2>1, <2>3, <2>4, <2>5
<1>. QED
  BY <1>2 DEF SamePending

LEMMA FinishSliceCarries ==
    ASSUME CarriedInv, open, FinishSlice, NEW j \in Live'
    PROVE  CarriedJob(j)'
<1>1. /\ jobs \in [JobIds -> Jobs] /\ running.op.what = "step" /\ running' = Idle
      /\ UNCHANGED session /\ j \in JobIds
  BY JobsAreTyped DEF FinishSlice, At, Live
<1>2. PICK i : i = running.op.job
  OBVIOUS
<1>3. i # j => Foreign(running.op, j)
  BY <1>2 DEF Foreign
<1>4. CASE UNCHANGED <<jobs, queue>> /\ ~(open /\ i \in Live /\ Job.state # "CANCELLING")
  <2>1. j \in Live /\ (running.op.job = j => jobs[j].state = "CANCELLING")
    BY <1>2, <1>4 DEF Live, Job
  <2>. QED
    BY <1>1, <1>4, <2>1, DroppedSlice
<1>5. CASE i \in Live /\ Job.state # "CANCELLING" /\ Cancel({i}, <<>>)
  <2>1. jobs[i].state # "CANCELLING" /\ Foreign(running'.op, i)
    BY <1>1, <1>2, <1>5 DEF Job, Foreign, Idle, NoOp, Op, Cleanups
  <2>2. IF j = i THEN CarriedJob(j)' ELSE j \in Live /\ jobs'[j] = jobs[j] /\ SameWaits(j)
    BY <1>5, <2>1, CancelOneCarries
  <2>. QED
    BY <1>1, <1>3, <2>2, OtherEnds
<1>6. CASE i \in Live /\ Job.state # "CANCELLING" /\ TimesOut(i)
  BY <1>1, <1>2, <1>6, LateSlice DEF Job
<1>7. CASE /\ i \in Live /\ Job.state # "CANCELLING"
           /\ jobs' = [jobs EXCEPT ![i] = [[Job EXCEPT !.index = @ + 1] EXCEPT !.state = "WAITING"]]
           /\ Put("background", running.op)
  <2>. DEFINE next == [[Job EXCEPT !.index = @ + 1] EXCEPT !.state = "WAITING"]
  <2>1. Job = jobs[i] /\ jobs[i] \in Jobs
    BY <1>1, <1>2, <1>7 DEF Job, Live
  <2>2. SameState(jobs[i], next)
    BY <1>7, <2>1 DEF SameState, Jobs
  <2>3. jobs' = [jobs EXCEPT ![i] = next]
    BY <1>7
  <2>. HIDE DEF next
  <2>4. SameState(jobs[j], jobs'[j]) /\ j \in Live
    <3>1. CASE j = i
      BY <1>1, <1>7, <2>2, <2>3, <3>1
    <3>2. CASE j # i
      <4>1. jobs'[j] = jobs[j]
        BY <1>1, <2>3, <3>2
      <4>. QED
        BY <4>1 DEF SameState, Live
    <3>. QED
      BY <3>1, <3>2
  <2>. QED
    BY <1>1, <1>7, <2>4, PutBack, CarriedOn
<1>8. CASE Ends(i) /\ UNCHANGED queue
  <2>1. j # i /\ jobs'[j] = jobs[j] /\ j \in Live
    BY <1>1, <1>8 DEF Ends, NoJob, Live, LiveStates
  <2>. QED
    BY <1>1, <1>3, <1>8, <2>1, OtherEnds DEF SameWaits
<1>. QED
  BY <1>2, <1>4, <1>5, <1>6, <1>7, <1>8 DEF FinishSlice

LEMMA FinishClearedCarries ==
    ASSUME CarriedInv, open, FinishCleared, NEW j \in Live'
    PROVE  CarriedJob(j)'
<1>1. jobs \in [JobIds -> Jobs] /\ running' = Idle /\ UNCHANGED <<session, queue>> /\ j \in JobIds
  BY JobsAreTyped DEF FinishCleared, Live
<1>2. running.op.job # j /\ jobs'[j] = jobs[j] /\ j \in Live
  BY <1>1 DEF FinishCleared, Ends, NoJob, Live, LiveStates
<1>. QED
  BY <1>1, <1>2, OtherEnds DEF SameWaits, Foreign

LEMMA ModelCarries ==
    ASSUME CarriedInv, open, ModelThread, NEW j \in Live'
    PROVE  CarriedJob(j)'
<1>1. CASE ~TakeOperation /\ ~StartStep /\ ~FinishSlice /\ ~FinishCleared
  <2>1. /\ UNCHANGED <<jobs, queue, session>>
        /\ \/ running'.op = running.op
           \/ running' = Idle /\ running.op.what \notin Cleanups \cup {"step"}
    BY <1>1, WorkOnly DEF CarriedInv
  <2>2. j \in Live
    BY <2>1 DEF Live
  <2>. QED
    BY <2>1, <2>2, OtherEnds DEF SameWaits, Foreign
<1>. QED
  BY <1>1, TakeCarries, StartStepCarries, FinishSliceCarries, FinishClearedCarries

LEMMA PollCarries ==
    ASSUME CarriedInv, open, ReserveAgent \/ \E a \in Agents : SelectAgent(a), NEW j \in Live'
    PROVE  CarriedJob(j)'
<1>1. SInv /\ Types /\ UNCHANGED <<jobs, session, running>>
  BY JobsAreTyped DEF ReserveAgent, SelectAgent
<1>2. SameWaits(j)
  <2>1. CASE UNCHANGED queue
    BY <2>1 DEF SameWaits
  <2>2. ASSUME picked # None, NEW kind \in {"hardware", "background"},
               Put(kind, Op("run", NoClient, 0, picked, 0))
        PROVE  SameWaits(j)
    <3>1. PICK op : op = Op("run", NoClient, 0, picked, 0)
      OBVIOUS
    <3>2. op \in Ops /\ kind \in Priorities /\ Foreign(op, j)
      BY <1>1, <2>2, <3>1 DEF Op, Ops, Whats, NoClient, Types, Priorities, Foreign, Cleanups
    <3>. QED
      BY <1>1, <2>2, <3>1, <3>2, PutForeign
  <2>. QED
    BY <2>1, <2>2 DEF ReserveAgent, SelectAgent
<1>3. j \in Live
  BY <1>1 DEF Live
<1>. QED
  BY <1>1, <1>2, <1>3, OtherEnds

LEMMA CarriedInvStep == CarriedInv /\ [SNext]_svars => CarriedInv'
<1>. SUFFICES ASSUME CarriedInv, [SNext]_svars PROVE CarriedInv'
  OBVIOUS
<1>1. ServerInv'
  BY ServerInvStep DEF CarriedInv
<1>2. CASE UNCHANGED svars
  <2>1. UNCHANGED <<open, jobs, queue, running, human, epoch>>
    BY <1>2 DEF svars, session
  <2>2. ASSUME NEW j, NEW whats PROVE Pending(j, whats)' = Pending(j, whats)
    BY <2>1, PendingIs, PendingNext
  <2>3. Live' = Live /\ \A c, e : HoldsSession(c, e)' <=> HoldsSession(c, e)
    BY <2>1 DEF Live, HoldsSession
  <2>4. ASSUME open', NEW j \in Live' PROVE CarriedJob(j)'
    <3>1. open /\ j \in Live /\ jobs'[j] = jobs[j] /\ CarriedJob(j)
      BY <2>1, <2>3, <2>4, CarriedJobs DEF CarriedInv
    <3>. QED
      BY <2>2, <2>3, <3>1 DEF CarriedJob
  <2>. QED
    BY <1>1, <2>4 DEF CarriedInv, EveryJobIsCarriedOn, CarriedJob, Cleanups
<1>3. CASE SNext
  <2>1. ASSUME open', NEW j \in Live' PROVE CarriedJob(j)'
    <3>1. open
      BY <1>3, <2>1, SessionSteps
    <3>2. ~Stop
      BY <2>1 DEF Stop
    <3>. QED
      BY <1>3, <2>1, <3>1, <3>2, ClientCarries, AdmitCarries, ModelCarries, PollCarries DEF SNext
  <2>2. EveryJobIsCarriedOn'
    BY <2>1 DEF EveryJobIsCarriedOn, CarriedJob, Cleanups
  <2>. QED
    BY <1>1, <2>2 DEF CarriedInv
<1>. QED
  BY <1>2, <1>3

LEMMA CarriedInvInitially == SInit => CarriedInv
<1>. SUFFICES ASSUME SInit PROVE CarriedInv
  OBVIOUS
<1>1. Live = {}
  BY DEF SInit, Live, NoJob, LiveStates
<1>. QED
  BY <1>1, ServerInvInitially DEF CarriedInv, EveryJobIsCarriedOn

\* A background job has exactly one operation that carries it on: its next slice while
\* its session is there, the cleanup that ends it once it is cancelled or late.  No order
\* of slices, cancellations, releases, lost clients and deadlines loses a job or queues a
\* slice or a cleanup of it twice (_background_step, _cancel_backgrounds,
\* _clear_background_context, _finish_background).
THEOREM EveryJobIsCarriedOnProved == SSpec => []EveryJobIsCarriedOn
<1>1. CarriedInv => EveryJobIsCarriedOn
  BY DEF CarriedInv
<1>. QED
  BY <1>1, CarriedInvInitially, CarriedInvStep, PTL DEF SSpec

-----------------------------------------------------------------------------
(* A session that ends stops the work it asked for.                        *)

\* An operation of a session names one that has begun; a slice, the session of its job.
SessionOp(op) ==
    op.what \in SessionWork =>
        /\ op.client \in Clients /\ op.epoch <= epoch[op.client]
        /\ op.what = "step" /\ op.job \in Live =>
                jobs[op.job].client = op.client /\ jobs[op.job].epoch = op.epoch

SessionOps ==
    /\ \A k \in Priorities : \A i \in DOMAIN queue[k] : SessionOp(queue[k][i])
    /\ SessionOp(running.op)

\* A session that was over is never there again.
GoneForGood == running.gone => Ended(running.op)

DroppedInv == CarriedInv /\ SessionOps /\ GoneForGood /\ DroppedSessionStops

\* An operation that is there already keeps its session and its job.
LEMMA OldOps ==
    ASSUME ServerInv, SNext, NEW op \in Ops, SessionOp(op), op.what \in SessionWork,
           JobsGoOn \/ \E j \in JobIds : Registers(j) /\ (op.what = "step" => op.job # j)
    PROVE  /\ op.client \in Clients /\ op.epoch <= epoch'[op.client]
           /\ op.what = "step" /\ op.job \in Live' =>
                  jobs'[op.job].client = op.client /\ jobs'[op.job].epoch = op.epoch
<1>1. op.client \in Clients /\ op.epoch <= epoch[op.client] /\ op.epoch \in Nat
  BY DEF SessionOp, Ops
<1>2. epoch[op.client] <= epoch'[op.client] /\ epoch[op.client] \in Nat /\ epoch'[op.client] \in Nat
  BY <1>1, EpochsGrow
<1>3. op.what = "step" /\ op.job \in Live' =>
        /\ op.job \in Live /\ jobs'[op.job].client = jobs[op.job].client
        /\ jobs'[op.job].epoch = jobs[op.job].epoch
  BY DEF JobsGoOn, Registers, Live, SameJob
<1>. QED
  BY <1>1, <1>2, <1>3 DEF SessionOp

\* An operation that a step without a registration queues.
LEMMA NewOps ==
    ASSUME DroppedInv, SNext, JobsGoOn, NEW k \in Priorities, NEW op \in Ops, NewOp(k, op),
           op.what \in SessionWork
    PROVE  /\ op.client \in Clients /\ op.epoch <= epoch'[op.client]
           /\ op.what = "step" /\ op.job \in Live' =>
                  jobs'[op.job].client = op.client /\ jobs'[op.job].epoch = op.epoch
<1>1. ServerInv /\ Types /\ SessionOp(running.op)
  BY JobsAreTyped DEF DroppedInv, CarriedInv, SessionOps
<1>2. ASSUME NEW c \in Clients, op.client = c, op.epoch = epoch[c] PROVE op.epoch <= epoch'[c]
  BY <1>1, <1>2, EpochsGrow
<1>3. CASE \E c \in Clients : \E a : op = Op("turn", c, epoch[c], a, 0)
  BY <1>2, <1>3 DEF Op
<1>4. CASE admitting.what = "probe" /\ op = admitting
  <2>1. op.client \in Clients /\ op.epoch = epoch[op.client]
    BY <1>1, <1>4 DEF ServerInv, AdmissionOK, HoldsSession, NoRequest, NoOp, Op
  <2>. QED
    BY <1>2, <1>4, <2>1
<1>5. ASSUME admitting.what = "step", NEW j \in Fresh, op = [admitting EXCEPT !.job = j]
      PROVE  /\ op.client \in Clients /\ op.epoch <= epoch'[op.client] /\ op.job \notin Live'
  <2>1. /\ op.client = admitting.client /\ op.epoch = admitting.epoch /\ op.job = j
    BY <1>1, <1>5 DEF Types, Ops
  <2>2. op.client \in Clients /\ op.epoch = epoch[op.client]
    BY <1>1, <1>5, <2>1 DEF ServerInv, AdmissionOK, HoldsSession, NoRequest, NoOp, Op
  <2>3. j \notin Live'
    BY <1>5 DEF Fresh, JobsGoOn, Live
  <2>. QED
    BY <1>2, <2>1, <2>2, <2>3
<1>6. CASE op = running.op
  BY <1>1, <1>6, OldOps
<1>7. \A what, c, e, a, j : Op(what, c, e, a, j).what = what
  BY DEF Op
<1>8. \A c, e : op # Op("release", c, e, None, 0)
  BY <1>7 DEF SessionWork
<1>9. \A a : op # Op("run", NoClient, 0, a, 0)
  BY <1>7 DEF SessionWork
<1>10. \A j : \A what \in Cleanups : op # CleanupOp(what, j)
  BY <1>7 DEF SessionWork, Cleanups, CleanupOp
<1>. QED
  BY <1>3, <1>4, <1>5, <1>6, <1>8, <1>9, <1>10 DEF NewOp

LEMMA SessionOpsStep ==
    ASSUME DroppedInv, SNext
    PROVE  SessionOps'
<1>1. ServerInv /\ Types /\ OnlyNews /\ QueueKinds /\ queue \in [Priorities -> Seq(Ops)]
      /\ running \in Threads
  BY NextNews, JobsAreTyped DEF DroppedInv, CarriedInv, ServerInv, Types
<1>2. Types' /\ queue' \in [Priorities -> Seq(Ops)]
  <2>1. ServerInv'
    BY <1>1, ServerInvStep
  <2>. QED
    BY <2>1 DEF ServerInv, SInv, QueueOK
<1>3. ASSUME NEW j \in JobIds, Registers(j)
      PROVE  /\ j \in Fresh /\ running.op.job # j
             /\ \A k \in Priorities : \A i \in DOMAIN queue[k] :
                    queue[k][i].what = "step" => queue[k][i].job # j
             /\ \A k \in Priorities : \A i \in DOMAIN queue'[k] :
                    \/ Queued(k, queue'[k][i])
                    \/ queue'[k][i] = [admitting EXCEPT !.job = j]
  <2>1. \A k \in Priorities : \A i \in DOMAIN queue[k] : queue[k][i].what = "step" => k = "background"
    BY <1>1 DEF QueueKinds, Priorities, Cleanups
  <2>2. j \in Fresh /\ running.op.job # j
        /\ \A i \in DOMAIN queue["background"] : queue["background"][i].job # j
    BY <1>3 DEF Registers, Fresh, Named
  <2>3. queue' = [queue EXCEPT !["background"] = Append(@, [admitting EXCEPT !.job = j])]
    BY <1>3 DEF Registers, Put
  <2>4. \A k \in Priorities : \A i \in DOMAIN queue'[k] :
          Queued(k, queue'[k][i]) \/ queue'[k][i] = [admitting EXCEPT !.job = j]
    BY <1>1, <2>3 DEF Queued
  <2>. QED
    BY <2>1, <2>2, <2>4
<1>4. JobsGoOn \/ \E j \in JobIds : Registers(j)
  BY <1>1, NextJobs
<1>5. ASSUME NEW k \in Priorities, NEW i \in DOMAIN queue'[k], NEW op \in Ops, op = queue'[k][i],
             op.what \in SessionWork
      PROVE  /\ op.client \in Clients /\ op.epoch <= epoch'[op.client]
             /\ op.what = "step" /\ op.job \in Live' =>
                    jobs'[op.job].client = op.client /\ jobs'[op.job].epoch = op.epoch
  <2>1. CASE Queued(k, op)
    <3>1. SessionOp(op)
      BY <2>1 DEF Queued, DroppedInv, SessionOps
    <3>2. ASSUME NEW j \in JobIds, Registers(j), op.what = "step" PROVE op.job # j
      <4>1. PICK n \in DOMAIN queue[k] : op = queue[k][n]
        BY <2>1 DEF Queued
      <4>. QED
        BY <1>3, <3>2, <4>1
    <3>. QED
      BY <1>1, <1>4, <1>5, <3>1, <3>2, OldOps
  <2>2. CASE JobsGoOn /\ NewOp(k, op)
    BY <1>5, <2>2, NewOps
  <2>3. ASSUME NEW j \in JobIds, Registers(j), op = [admitting EXCEPT !.job = j]
        PROVE  /\ op.client \in Clients /\ op.epoch <= epoch'[op.client]
               /\ jobs'[op.job].client = op.client /\ jobs'[op.job].epoch = op.epoch
    <3>1. op.client = admitting.client /\ op.epoch = admitting.epoch /\ op.job = j
      BY <1>1, <2>3 DEF Types, Ops
    <3>2. admitting # NoRequest /\ UNCHANGED epoch
      BY <2>3 DEF Registers, Admit, session
    <3>3. op.client \in Clients /\ op.epoch = epoch[op.client] /\ epoch[op.client] \in Nat
      BY <1>1, <3>1, <3>2 DEF ServerInv, AdmissionOK, HoldsSession, Types
    <3>. QED
      BY <2>3, <3>1, <3>2, <3>3 DEF Registers
  <2>4. CASE JobsGoOn
    <3>1. Queued(k, op) \/ NewOp(k, op)
      BY <1>1, <1>5 DEF OnlyNews
    <3>. QED
      BY <2>1, <2>2, <2>4, <3>1
  <2>5. ASSUME NEW j \in JobIds, Registers(j)
        PROVE  Queued(k, op) \/ op = [admitting EXCEPT !.job = j]
    BY <1>3, <1>5, <2>5
  <2>. QED
    BY <1>4, <2>1, <2>3, <2>4, <2>5
<1>6. PICK op \in Ops : op = running'.op
  BY <1>2 DEF Types, Threads
<1>7. op.what \in SessionWork =>
        /\ op.client \in Clients /\ op.epoch <= epoch'[op.client]
        /\ op.what = "step" /\ op.job \in Live' =>
               jobs'[op.job].client = op.client /\ jobs'[op.job].epoch = op.epoch
  <2>1. CASE running'.op = running.op
    BY <1>1, <1>3, <1>4, <1>6, <2>1, OldOps DEF DroppedInv, SessionOps
  <2>2. CASE running' = Idle
    BY <1>6, <2>2 DEF Idle, NoOp, Op, SessionWork
  <2>3. ASSUME TakeOperation, NEW k \in Priorities, Queued(k, Head(queue[k])),
               running' = TakenFor(Head(queue[k]))
        PROVE  SessionOp(op) /\ UNCHANGED <<jobs, epoch>>
    BY <1>6, <2>3, TakenForIs DEF Queued, DroppedInv, SessionOps, TakeOperation, session
  <2>. QED
    BY <1>1, <2>1, <2>2, <2>3, NextOp DEF SessionOp, Live
<1>8. ASSUME NEW k \in Priorities, NEW i \in DOMAIN queue'[k] PROVE queue'[k][i] \in Ops
  BY <1>2, <1>8
<1>. QED
  BY <1>5, <1>6, <1>7, <1>8 DEF SessionOps, SessionOp

\* The session of an operation that has ended does not come back.
LEMMA OverForGood ==
    ASSUME ServerInv, SNext, NEW op \in Ops, SessionOp(op), Ended(op)
    PROVE  op.what \in SessionWork /\ ~(open' /\ HoldsSession(op.client, op.epoch)')
<1>1. op.what \in SessionWork /\ op.client \in Clients /\ op.epoch <= epoch[op.client]
  BY DEF Ended, SessionOp
<1>2. ASSUME open', HoldsSession(op.client, op.epoch)' PROVE Active(op)
  BY <1>1, <1>2, SessionWasThere DEF Active
<1>. QED
  BY <1>1, <1>2 DEF Ended

\* What a step does to what is known of the session.
LEMMA NextGone ==
    ASSUME ServerInv, SNext
    PROVE  \/ ~running'.gone
           \/ running'.op = running.op /\ running'.gone = running.gone
           \/ /\ running'.op = running.op /\ running'.gone = Ended(running.op)
              /\ UNCHANGED <<session, open>>
           \/ /\ \E op : running' = TakenFor(op)
              /\ UNCHANGED <<session, open>>
<1>1. running \in Threads
  BY DEF ServerInv, SInv, Types
<1>2. \A step : Step(step) => running'.op = running.op /\ running'.gone = running.gone
  BY <1>1 DEF Step, Threads
<1>3. \A step, ok : Result(step, ok) => running'.op = running.op /\ running'.gone = running.gone
  BY <1>1 DEF Result, Threads
<1>4. ~Idle.gone
  BY DEF Idle
<1>5. Silent => ~running'.gone
  BY DEF Silent, Idle
<1>6. CASE TakeOperation
  BY <1>6 DEF TakeOperation, TakenFor
<1>7. AgentDone =>
        running'.op = running.op /\ running'.gone \in {running.gone, Ended(running.op)}
  <2>1. PICK b \in BOOLEAN : b = Ended(running.op)
    BY EndedTyped
  <2>. QED
    BY <1>1, <1>2, <2>1 DEF AgentDone, Threads
<1>8. CASE CallAgent \/ AgentReturns
  BY <1>2, <1>7, <1>8 DEF CallAgent, AgentReturns
<1>9. CASE AskManager
  <2>1. PICK b \in BOOLEAN : b = Ended(running.op)
    BY EndedTyped
  <2>. QED
    BY <1>1, <1>2, <1>9, <2>1 DEF AskManager, Threads
<1>10. CASE Delegate
  BY <1>2, <1>5, <1>10 DEF Delegate
<1>11. CASE ModelThread
  BY <1>2, <1>3, <1>4, <1>6, <1>8, <1>9, <1>10, <1>11
  DEF ModelThread, StartTurn, GiveResult, TakeRun, BeginRun, FinishRun, ReleaseSession, StartStep,
      CallSlice, SliceReturns, FinishSlice, AbortSlices, FinishCleared
<1>12. CASE Bystander
  BY <1>12, BystanderSession
<1>. QED
  BY <1>11, <1>12, BystanderOrModel

LEMMA GoneStep ==
    ASSUME DroppedInv, SNext
    PROVE  GoneForGood'
<1>1. ServerInv /\ running.op \in Ops /\ SessionOp(running.op)
  BY JobsAreTyped DEF DroppedInv, CarriedInv, SessionOps, Types, Threads
<1>2. UNCHANGED <<session, open>> => \A op : Ended(op) => op.what \in SessionWork
                                        /\ ~(open' /\ HoldsSession(op.client, op.epoch)')
  BY DEF Ended, Active, HoldsSession, session
<1>3. ASSUME running'.gone, NEW op, op = running'.op
      PROVE  op.what \in SessionWork /\ ~(open' /\ HoldsSession(op.client, op.epoch)')
  <2>1. CASE running'.op = running.op /\ Ended(running.op)
    <3>1. op = running.op
      BY <1>3, <2>1
    <3>. QED
      BY <1>1, <2>1, <3>1, OverForGood
  <2>2. ASSUME NEW o, running' = TakenFor(o), UNCHANGED <<session, open>>
        PROVE  op = o /\ Ended(o)
    BY <1>3, <2>2, TakenForIs
  <2>3. running'.op = running.op /\ running'.gone = running.gone => Ended(running.op)
    BY <1>3 DEF DroppedInv, GoneForGood
  <2>4. running'.gone = Ended(running.op) => Ended(running.op)
    BY <1>3
  <2>5. CASE running'.op = running.op /\ running'.gone = running.gone
    BY <2>1, <2>3, <2>5
  <2>6. CASE running'.op = running.op /\ running'.gone = Ended(running.op)
    BY <2>1, <2>4, <2>6
  <2>7. CASE (\E o : running' = TakenFor(o)) /\ UNCHANGED <<session, open>>
    BY <1>2, <2>2, <2>7
  <2>. QED
    BY <1>1, <1>3, <2>5, <2>6, <2>7, NextGone
<1>4. PICK op : op = running'.op
  OBVIOUS
<1>. QED
  BY <1>3, <1>4 DEF GoneForGood, Ended, Active, HoldsSession

\* A call comes next only when the session was there.
LEMMA CallsStep ==
    ASSUME DroppedInv, SNext
    PROVE  DroppedSessionStops'
<1>. SUFFICES ASSUME running'.op.what \in SessionWork, running'.at \in InACall
     PROVE  ~running'.gone
  BY DEF DroppedSessionStops
<1>1. ServerInv /\ running \in Threads /\ SessionOp(running.op)
  BY JobsAreTyped DEF DroppedInv, CarriedInv, SessionOps, Types
<1>2. Active(running.op) => ~running.gone
  BY DEF DroppedInv, GoneForGood, Ended
<1>3. running.op.what \in SessionWork /\ running.at \in InACall => ~running.gone
  BY DEF DroppedInv, DroppedSessionStops
<1>4. \A step : Step(step) =>
          running'.op = running.op /\ running'.at = step /\ running'.gone = running.gone
  BY <1>1 DEF Step, Threads
<1>5. \A step, ok : Result(step, ok) => running'.at = step
  BY <1>1 DEF Result, Threads
<1>6. Idle.at \notin InACall
  BY DEF Idle, InACall
<1>a. "delegate" \notin InACall /\ "result" \notin InACall
  BY DEF InACall
<1>7. ASSUME AgentDone PROVE running'.at \notin InACall
  <2>1. CASE running.pending # <<>>
    <3>1. running'.at = "delegate"
      BY <1>1, <1>7, <2>1 DEF AgentDone, Threads
    <3>. QED
      BY <1>a, <3>1
  <2>2. CASE running.pending = <<>>
    BY <1>a, <1>4, <1>7, <2>2 DEF AgentDone
  <2>. QED
    BY <2>1, <2>2
<1>8. Silent => running'.at \notin InACall
  BY DEF Silent, Idle, InACall
<1>9. CASE TakeOperation
  <2>1. \E op : running' = TakenFor(op)
    BY <1>9 DEF TakeOperation, TakenFor
  <2>. QED
    BY <2>1, TakenForIs DEF InACall
<1>10. CASE CallAgent \/ AgentReturns
  BY <1>3, <1>4, <1>7, <1>10 DEF CallAgent, AgentReturns, InACall
<1>11. CASE StartTurn \/ Delegate
  <2>1. CASE StartTurn /\ Active(running.op)
    BY <1>2, <1>4, <2>1 DEF StartTurn
  <2>2. CASE StartTurn /\ ~Active(running.op)
    BY <1>6, <2>2 DEF StartTurn
  <2>3. CASE Delegate /\ Active(running.op)
    BY <1>2, <1>4, <1>8, <2>3 DEF Delegate
  <2>4. CASE Delegate /\ ~Active(running.op)
    BY <1>8, <2>4 DEF Delegate
  <2>. QED
    BY <1>11, <2>1, <2>2, <2>3, <2>4
<1>12. CASE AskManager
  <2>1. running'.at \in {"delegate", "result"}
    BY <1>1, <1>4, <1>12 DEF AskManager, Threads
  <2>. QED
    BY <1>a, <2>1
<1>13. CASE TakeRun \/ BeginRun
  BY <1>4, <1>6, <1>13 DEF TakeRun, BeginRun, At, SessionWork
<1>14. CASE StartStep
  <2>1. ASSUME open, running.op.job \in Live, Job.state # "CANCELLING" PROVE Active(running.op)
    <3>1. HoldsSession(Job.client, Job.epoch)
      BY <2>1 DEF DroppedInv, CarriedInv, EveryJobIsCarriedOn, Job
    <3>2. Job.client = running.op.client /\ Job.epoch = running.op.epoch
      BY <1>1, <1>14, <2>1 DEF SessionOp, StartStep, At, Job, SessionWork
    <3>. QED
      BY <2>1, <3>1, <3>2 DEF Active
  <2>. QED
    BY <1>2, <1>4, <1>6, <1>14, <2>1 DEF StartStep
<1>15. CASE CallSlice \/ SliceReturns
  BY <1>3, <1>4, <1>5, <1>15 DEF CallSlice, SliceReturns, InACall
<1>16. CASE GiveResult \/ FinishRun \/ ReleaseSession \/ FinishSlice \/ AbortSlices \/ FinishCleared
  BY <1>4, <1>6, <1>16
  DEF GiveResult, FinishRun, ReleaseSession, FinishSlice, AbortSlices, FinishCleared, InACall
<1>17. CASE Bystander
  BY <1>1, <1>3, <1>17, BystanderSession
<1>. QED
  BY <1>9, <1>10, <1>11, <1>12, <1>13, <1>14, <1>15, <1>16, <1>17, BystanderOrModel DEF ModelThread

LEMMA DroppedInvStep == DroppedInv /\ [SNext]_svars => DroppedInv'
<1>. SUFFICES ASSUME DroppedInv, [SNext]_svars PROVE DroppedInv'
  OBVIOUS
<1>1. CarriedInv'
  BY CarriedInvStep DEF DroppedInv
<1>2. CASE UNCHANGED svars
  <2>1. UNCHANGED <<open, jobs, queue, running, human, epoch>>
    BY <1>2 DEF svars, session
  <2>2. SessionOps' /\ DroppedSessionStops'
    BY <2>1 DEF DroppedInv, SessionOps, SessionOp, Live, DroppedSessionStops
  <2>3. GoneForGood'
    BY <2>1 DEF DroppedInv, GoneForGood, Ended, Active, HoldsSession
  <2>. QED
    BY <1>1, <2>2, <2>3 DEF DroppedInv
<1>3. CASE SNext
  BY <1>1, <1>3, SessionOpsStep, GoneStep, CallsStep DEF DroppedInv
<1>. QED
  BY <1>2, <1>3

LEMMA DroppedInvInitially == SInit => DroppedInv
<1>. SUFFICES ASSUME SInit PROVE DroppedInv
  OBVIOUS
<1>1. CarriedInv
  BY CarriedInvInitially
<1>2. SessionOps
  BY DEF SInit, SessionOps, SessionOp, Idle, NoOp, Op, SessionWork
<1>3. GoneForGood /\ DroppedSessionStops
  BY DEF SInit, GoneForGood, DroppedSessionStops, Idle, InACall
<1>. QED
  BY <1>1, <1>2, <1>3 DEF DroppedInv

\* A session that ends while the thread works for it costs no further call of the model,
\* in whichever loop of a turn or between which slices of a job it ends; a client that
\* comes back does not revive the work of its old session (_client_still_active in
\* respond_guarded's loops, _model_worker and _background_step).
THEOREM DroppedSessionStopsProved == SSpec => []DroppedSessionStops
<1>1. DroppedInv => DroppedSessionStops
  BY DEF DroppedInv
<1>. QED
  BY <1>1, DroppedInvInitially, DroppedInvStep, PTL DEF SSpec

=============================================================================
