-------------------------- MODULE LegacyCoreProofs --------------------------
(***************************************************************************)
(* Proofs about LegacyCore, for any number of connections, offers and      *)
(* requests: the two manager contexts are accounted for, a RUN that lost   *)
(* its grant stops, CORE and service agree on the RUNs in hand, and an     *)
(* open dialogue is kept.                                                  *)
(***************************************************************************)
EXTENDS LegacyCore, FiniteSetTheorems, TLAPS

Kinds == {"human", "voice", "run", "manager", "over"}
Reqs == [kind : Kinds, who : Nat, run : Offers \cup {"none"}, state : {"pending", "active", "done"},
         begun : BOOLEAN, cancelled : BOOLEAN, slot : {0, 1, 2}, agent : BOOLEAN, waits : BOOLEAN,
         started : BOOLEAN, steps : Nat]
Work == {w \in [does : {"advance", "release", "warm"}, of : Nat] :
           w.does = "release" => w.of \in Sessions}
Results == {"none", "paused", "query", "silent", "reply", "error", "cancelled"}
Futures == {"none", "running", "done", "failed"}

-----------------------------------------------------------------------------
(* The inductive invariants.                                               *)

\* Who asks, by the kind of a request; a notification is made by a RUN that began.
RequestOK(q) ==
    /\ q.state = "done" <=> q.kind = "over"
    /\ IF q.kind = "human" THEN q.who \in Sessions ELSE q.who = 0
    /\ q.kind \in {"run", "manager"} => q.run \in Offers
    /\ q.kind = "manager" => q.started

KvTypes ==
    /\ contexts \in [Dialogues -> {0, 1, 2}] /\ ready \in [Slots -> BOOLEAN]
    /\ avail \subseteq Slots /\ kept \in [Slots -> BOOLEAN] /\ failures \in Nat
    /\ kv2 = [state |-> kv2.state, requested |-> kv2.requested, future |-> kv2.future]

RequestTypes ==
    /\ reqs \in Seq(Reqs)
    /\ \A i \in DOMAIN reqs : RequestOK(reqs[i])
    /\ grant = [r \in Offers |-> grant[r]]
    /\ owner \in Sessions \cup {0} /\ released \subseteq Sessions

Advance(m) == jobs[m].does = "advance"

\* One request is active: the executor has one advance of it, or its result waits.
SchedulerOK ==
    /\ jobs \in Seq(Work) /\ stepping \in BOOLEAN /\ result \in Results
    /\ \A i, j \in Active : i = j
    /\ \A m \in DOMAIN jobs : Advance(m) => jobs[m].of \in Active /\ result = "none"
    /\ \A m, n \in DOMAIN jobs : Advance(m) /\ Advance(n) => m = n
    /\ stepping => jobs # <<>> /\ Head(jobs).does = "advance"
    /\ result # "none" => Active # {}

\* What a step of a RUN has behind it.
BegunOK ==
    /\ \A i \in Active : stepping /\ reqs[i].kind = "run" => reqs[i].started
    /\ \A i \in Active : result = "query" => reqs[i].kind = "run" /\ reqs[i].started

StepInv == RequestTypes /\ KvTypes /\ SchedulerOK /\ BegunOK

\* A grant in these states never runs again.
Void(r) == grant[r] \in {"revoked", "finished"}

\* While a step is allowed, its request is at the head of the executor's queue and
\* has begun; a RUN that made its late step has a void grant and is allowed no more.
GateOK ==
    /\ late \in [Offers -> {0, 1}] /\ \A r \in Offers : late[r] = 1 => Void(r)
    /\ allowed => Active # {} /\ result = "none" /\ ~stepping
    /\ \A i \in Active : allowed =>
         /\ reqs[i].kind \in {"run", "manager"} /\ reqs[i].started
         /\ late[reqs[i].run] = 0
         /\ grant[reqs[i].run] = "running" \/ Void(reqs[i].run)

-----------------------------------------------------------------------------
(* Sequences.                                                              *)

\* A sequence of which some members change.
LEMMA MembersChange ==
    ASSUME NEW s \in Seq(Reqs), NEW t, DOMAIN t = DOMAIN s, t = [i \in DOMAIN t |-> t[i]],
           \A i \in DOMAIN t : t[i] \in Reqs
    PROVE  t \in Seq(Reqs)
<1>1. Len(s) \in Nat /\ DOMAIN s = 1..Len(s)
  OBVIOUS
<1>2. t \in [1..Len(s) -> Reqs]
  BY <1>1
<1>. QED
  BY <1>1, <1>2

Added(s, x, t) == t = Append(s, x)
Popped(s, t) == s # <<>> /\ t = Tail(s)

LEMMA AddedFacts ==
    ASSUME NEW S, NEW s \in Seq(S), NEW x \in S, NEW t, Added(s, x, t)
    PROVE  /\ t \in Seq(S) /\ t # <<>> /\ Len(s) \in Nat
           /\ DOMAIN s = 1..Len(s) /\ DOMAIN t = 1..(Len(s) + 1) /\ Len(t) = Len(s) + 1
           /\ t[Len(s) + 1] = x
           /\ \A m \in DOMAIN s : m \in DOMAIN t /\ t[m] = s[m] /\ m # Len(s) + 1
           /\ \A m \in DOMAIN t : m \in DOMAIN s \/ m = Len(s) + 1
           /\ Head(t) = IF s = <<>> THEN x ELSE Head(s)
<1>1. /\ t \in Seq(S) /\ Len(s) \in Nat /\ DOMAIN s = 1..Len(s) /\ Len(t) = Len(s) + 1
      /\ DOMAIN t = 1..(Len(s) + 1) /\ t[Len(s) + 1] = x /\ \A m \in DOMAIN s : t[m] = s[m]
  BY DEF Added
<1>2. \A m \in DOMAIN t : m \in DOMAIN s \/ m = Len(s) + 1
  BY <1>1
<1>3. Head(t) = t[1] /\ (s # <<>> => Head(s) = s[1] /\ 1 \in DOMAIN s) /\ (s = <<>> => Len(s) = 0)
  BY <1>1
<1>. QED
  BY <1>1, <1>2, <1>3

LEMMA PoppedFacts ==
    ASSUME NEW S, NEW s \in Seq(S), NEW t, Popped(s, t)
    PROVE  /\ t \in Seq(S) /\ Head(s) \in S /\ 1 \in DOMAIN s /\ Head(s) = s[1] /\ Len(s) \in Nat
           /\ Len(t) = Len(s) - 1 /\ DOMAIN s = 1..Len(s)
           /\ \A m \in DOMAIN t : m + 1 \in DOMAIN s /\ m + 1 # 1 /\ t[m] = s[m + 1] /\ m \in Nat
           /\ \A m \in DOMAIN s : m # 1 => m - 1 \in DOMAIN t /\ t[m - 1] = s[m] /\ m \in Nat
<1>1. /\ t \in Seq(S) /\ Len(s) \in Nat /\ Len(s) > 0 /\ Len(t) = Len(s) - 1
      /\ DOMAIN s = 1..Len(s) /\ DOMAIN t = 1..(Len(s) - 1)
      /\ \A m \in 1..(Len(s) - 1) : t[m] = s[m + 1]
      /\ Head(s) = s[1]
  BY DEF Popped
<1>. QED
  BY <1>1

-----------------------------------------------------------------------------
(* What the steps do to the requests.                                      *)

OthersStay(i) ==
    /\ DOMAIN reqs' = DOMAIN reqs /\ reqs' = [j \in DOMAIN reqs' |-> reqs'[j]]
    /\ \A j \in DOMAIN reqs : j # i => reqs'[j] = reqs[j]

RequestsOK == reqs \in Seq(Reqs) /\ \A i \in DOMAIN reqs : RequestOK(reqs[i])

LEMMA OneMoves ==
    ASSUME RequestTypes, NEW i \in DOMAIN reqs, OthersStay(i), reqs'[i] \in Reqs, RequestOK(reqs'[i])
    PROVE  RequestsOK'
<1>1. \A j \in DOMAIN reqs' : reqs'[j] \in Reqs /\ RequestOK(reqs'[j])
  BY DEF RequestTypes, OthersStay
<1>2. reqs' \in Seq(Reqs)
  BY <1>1, MembersChange DEF RequestTypes, OthersStay
<1>. QED
  BY <1>1, <1>2 DEF RequestsOK, RequestOK

\* The same request at the same place, perhaps further on in its own work.
SameReq(a, b) == /\ b.kind = a.kind /\ b.who = a.who /\ b.run = a.run /\ b.state = a.state
                 /\ b.cancelled = a.cancelled
                 /\ a.started => b.started

Unmoved == DOMAIN reqs' = DOMAIN reqs /\ \A j \in DOMAIN reqs : SameReq(reqs[j], reqs'[j])

LEMMA OneUnmoved ==
    ASSUME RequestTypes, NEW i \in DOMAIN reqs, OthersStay(i), reqs'[i] \in Reqs, SameReq(reqs[i], reqs'[i])
    PROVE  RequestsOK' /\ Unmoved
<1>1. RequestOK(reqs'[i])
  BY DEF RequestTypes, RequestOK, SameReq
<1>2. Unmoved
  BY DEF OthersStay, Unmoved, SameReq
<1>. QED
  BY <1>1, <1>2, OneMoves

LEMMA UnchangedReqs ==
    ASSUME RequestTypes, UNCHANGED reqs
    PROVE  RequestsOK' /\ Unmoved
  BY DEF RequestTypes, RequestsOK, RequestOK, Unmoved, SameReq

LEMMA ReqTyped ==
    ASSUME RequestTypes, NEW i \in DOMAIN reqs
    PROVE  /\ reqs[i] \in Reqs /\ RequestOK(reqs[i])
           /\ i \in Active <=> reqs[i].state = "active"
           /\ i \in Pending <=> reqs[i].state = "pending"
           /\ reqs = [j \in DOMAIN reqs |-> reqs[j]]
  BY DEF RequestTypes, Active, Pending

\* A request is admitted.
Admits(kind, who, run) == Added(reqs, Request(kind, who, run), reqs')

LEMMA AdmitMoves ==
    ASSUME RequestTypes, NEW kind \in {"human", "voice", "run"}, NEW who \in Nat,
           NEW run \in Offers \cup {"none"}, Admit(kind, who, run),
           IF kind = "human" THEN who \in Sessions ELSE who = 0, kind = "run" => run \in Offers
    PROVE  RequestsOK' /\ Admits(kind, who, run) /\ Request(kind, who, run) \in Reqs
<1>1. PICK q : q = Request(kind, who, run)
  OBVIOUS
<1>2. q \in Reqs /\ RequestOK(q) /\ Added(reqs, q, reqs') /\ reqs \in Seq(Reqs)
  BY <1>1 DEF Request, Reqs, Kinds, RequestOK, Admit, Added, RequestTypes
<1>3. /\ reqs' \in Seq(Reqs) /\ reqs'[Len(reqs) + 1] = q
      /\ \A m \in DOMAIN reqs : reqs'[m] = reqs[m]
      /\ \A m \in DOMAIN reqs' : m \in DOMAIN reqs \/ m = Len(reqs) + 1
  BY <1>2, AddedFacts
<1>4. \A m \in DOMAIN reqs' : RequestOK(reqs'[m])
  BY <1>2, <1>3 DEF RequestTypes
<1>. QED
  BY <1>1, <1>2, <1>3, <1>4 DEF RequestsOK, Admits, RequestOK

LEMMA StartMoves ==
    ASSUME RequestTypes, NEW i, StartNext(i)
    PROVE  /\ i \in DOMAIN reqs /\ RequestsOK' /\ OthersStay(i)
           /\ reqs'[i] = [reqs[i] EXCEPT !.state = "active"]
<1>1. i \in DOMAIN reqs /\ reqs[i].state = "pending"
  BY DEF StartNext, Pending
<1>2. reqs[i] \in Reqs /\ RequestOK(reqs[i]) /\ reqs = [j \in DOMAIN reqs |-> reqs[j]]
  BY <1>1, ReqTyped
<1>3. OthersStay(i) /\ reqs'[i] = [reqs[i] EXCEPT !.state = "active"]
  BY <1>1, <1>2 DEF StartNext, OthersStay
<1>4. reqs'[i] \in Reqs /\ RequestOK(reqs'[i])
  BY <1>1, <1>2, <1>3 DEF Reqs, RequestOK
<1>. QED
  BY <1>1, <1>3, <1>4, OneMoves

LEMMA DiscardMoves ==
    ASSUME RequestTypes, NEW i \in DOMAIN reqs, Discard(i)
    PROVE  /\ RequestsOK' /\ OthersStay(i)
           /\ reqs'[i] = [reqs[i] EXCEPT !.cancelled = TRUE, !.agent = FALSE, !.waits = FALSE]
<1>1. reqs[i] \in Reqs /\ RequestOK(reqs[i]) /\ reqs = [j \in DOMAIN reqs |-> reqs[j]]
  BY ReqTyped
<1>2. /\ OthersStay(i)
      /\ reqs'[i] = [reqs[i] EXCEPT !.cancelled = TRUE, !.agent = FALSE, !.waits = FALSE]
  BY <1>1 DEF Discard, OthersStay
<1>3. reqs'[i] \in Reqs /\ RequestOK(reqs'[i])
  BY <1>1, <1>2 DEF Reqs, RequestOK
<1>. QED
  BY <1>2, <1>3, OneMoves

LEMMA RequeueMoves ==
    ASSUME RequestTypes, BegunOK, NEW i \in DOMAIN reqs, Requeue(i)
    PROVE  /\ RequestsOK' /\ OthersStay(i)
           /\ reqs'[i].state = "pending" /\ reqs'[i].who = reqs[i].who
           /\ reqs'[i].cancelled = reqs[i].cancelled
           /\ reqs'[i].kind = "human" <=> reqs[i].kind = "human"
<1>1. /\ reqs[i] \in Reqs /\ RequestOK(reqs[i]) /\ reqs = [j \in DOMAIN reqs |-> reqs[j]]
      /\ i \in Active /\ reqs[i].state = "active"
  BY ReqTyped DEF Requeue
<1>2. CASE result = "paused"
  <2>1. OthersStay(i) /\ reqs'[i] = [reqs[i] EXCEPT !.state = "pending"]
    BY <1>1, <1>2 DEF Requeue, OthersStay
  <2>2. reqs'[i] \in Reqs /\ RequestOK(reqs'[i])
    BY <1>1, <2>1 DEF Reqs, RequestOK
  <2>. QED
    BY <1>1, <2>1, <2>2, OneMoves DEF Reqs
<1>3. CASE result = "query"
  <2>1. /\ OthersStay(i)
        /\ reqs'[i] = [reqs[i] EXCEPT !.state = "pending", !.kind = "manager", !.begun = FALSE,
                                      !.steps = 0]
    BY <1>1, <1>3 DEF Requeue, OthersStay
  <2>2. reqs[i].kind = "run" /\ reqs[i].started
    BY <1>1, <1>3 DEF BegunOK
  <2>3. reqs'[i] \in Reqs /\ RequestOK(reqs'[i])
    BY <1>1, <2>1, <2>2 DEF Reqs, Kinds, RequestOK
  <2>. QED
    BY <1>1, <2>1, <2>2, <2>3, OneMoves DEF Reqs
<1>. QED
  BY <1>2, <1>3 DEF Requeue

LEMMA OverOK == Over \in Reqs /\ RequestOK(Over) /\ Over.state = "done"
  BY DEF Over, Request, Reqs, Kinds, RequestOK, Nobody

LEMMA CompleteMoves ==
    ASSUME RequestTypes, NEW i \in DOMAIN reqs, Complete(i, TRUE) \/ Complete(i, FALSE)
    PROVE  RequestsOK' /\ OthersStay(i) /\ reqs'[i] = Over
<1>1. reqs = [j \in DOMAIN reqs |-> reqs[j]] /\ reqs' = [reqs EXCEPT ![i] = Over]
  BY ReqTyped DEF Complete, Done
<1>2. OthersStay(i) /\ reqs'[i] = Over
  BY <1>1 DEF OthersStay
<1>. QED
  BY <1>2, OverOK, OneMoves

LEMMA ReleaseMoves ==
    ASSUME RequestTypes, NEW s \in Sessions, ReleaseSession(s)
    PROVE  /\ RequestsOK' /\ DOMAIN reqs' = DOMAIN reqs
           /\ \A i \in DOMAIN reqs :
                /\ reqs'[i].kind = reqs[i].kind /\ reqs'[i].who = reqs[i].who
                /\ reqs'[i].run = reqs[i].run /\ reqs'[i].state = reqs[i].state
                /\ reqs'[i].started = reqs[i].started
                /\ reqs'[i].cancelled = (reqs[i].cancelled \/
                        (i \in Alive /\ reqs[i].kind = "human" /\ reqs[i].who = s))
<1>1. ASSUME NEW i \in DOMAIN reqs
      PROVE  /\ reqs'[i].kind = reqs[i].kind /\ reqs'[i].who = reqs[i].who
             /\ reqs'[i].run = reqs[i].run /\ reqs'[i].state = reqs[i].state
             /\ reqs'[i].started = reqs[i].started
             /\ reqs'[i].cancelled = (reqs[i].cancelled \/
                    (i \in Alive /\ reqs[i].kind = "human" /\ reqs[i].who = s))
             /\ reqs'[i] \in Reqs /\ RequestOK(reqs'[i])
  <2>1. reqs[i] \in Reqs /\ RequestOK(reqs[i])
    BY ReqTyped
  <2>2. reqs'[i] = IF i \in Alive /\ reqs[i].kind = "human" /\ reqs[i].who = s
                   THEN [reqs[i] EXCEPT !.cancelled = TRUE] ELSE reqs[i]
    BY DEF ReleaseSession
  <2>. QED
    BY <2>1, <2>2 DEF Reqs, RequestOK
<1>2. DOMAIN reqs' = DOMAIN reqs /\ reqs' = [i \in DOMAIN reqs' |-> reqs'[i]]
  BY DEF ReleaseSession
<1>3. reqs' \in Seq(Reqs)
  BY <1>1, <1>2, MembersChange DEF RequestTypes
<1>. QED
  BY <1>1, <1>2, <1>3 DEF RequestsOK, RequestOK

LEMMA DiscardQueueMoves ==
    ASSUME RequestTypes, DiscardQueue
    PROVE  RequestsOK' /\ DOMAIN reqs' = DOMAIN reqs /\ \A i \in DOMAIN reqs : reqs'[i] = Over
<1>1. /\ DOMAIN reqs' = DOMAIN reqs /\ reqs' = [i \in DOMAIN reqs' |-> reqs'[i]]
      /\ \A i \in DOMAIN reqs : reqs'[i] = Over
  BY DEF DiscardQueue
<1>2. reqs' \in Seq(Reqs)
  BY <1>1, OverOK, MembersChange DEF RequestTypes
<1>. QED
  BY <1>1, <1>2, OverOK DEF RequestsOK, RequestOK

-----------------------------------------------------------------------------
(* The manager contexts.                                                    *)

\* What CloseContext does with the slot of a dialogue, if it has one.
Closes(key) ==
    /\ contexts' = [contexts EXCEPT ![key] = 0]
    /\ kv2'.future = kv2.future /\ failures' \in Nat /\ failures' >= failures
    /\ IF contexts[key] = 0 \/ stopped THEN UNCHANGED <<ready, avail>>
       ELSE \E ok \in BOOLEAN :
              /\ ready' = [ready EXCEPT ![contexts[key]] = ok]
              /\ avail' = IF ok THEN avail \cup {contexts[key]} ELSE avail \ {contexts[key]}

LEMMA CloseFacts ==
    ASSUME KvTypes, NEW key \in Dialogues, NEW ok \in BOOLEAN, CloseContext(key, ok)
    PROVE  Closes(key) /\ KvTypes'
<1>. DEFINE slot == contexts[key]
<1>1. slot \in {0, 1, 2} /\ contexts' = [contexts EXCEPT ![key] = 0]
      /\ contexts' \in [Dialogues -> {0, 1, 2}]
  BY DEF KvTypes, CloseContext
<1>2. CASE slot = 0 \/ stopped
  BY <1>1, <1>2 DEF KvTypes, CloseContext, Closes
<1>3. CASE slot # 0 /\ ~stopped
  <2>1. /\ ready' = [ready EXCEPT ![slot] = ok] /\ kept' = [kept EXCEPT ![slot] = FALSE]
        /\ avail' = IF ok THEN avail \cup {slot} ELSE avail \ {slot}
        /\ failures' = failures + (IF ok THEN 0 ELSE 1)
        /\ kv2' = IF slot = 1 THEN kv2
                  ELSE [kv2 EXCEPT !.state = IF ok THEN "ready" ELSE "not_ready"]
    BY <1>3 DEF CloseContext, Fails
  <2>2. slot \in Slots
    BY <1>1, <1>3 DEF Slots
  <2>3. kv2'.future = kv2.future
        /\ kv2' = [state |-> kv2'.state, requested |-> kv2'.requested, future |-> kv2'.future]
    BY <2>1 DEF KvTypes
  <2>4. ready' \in [Slots -> BOOLEAN] /\ kept' \in [Slots -> BOOLEAN] /\ avail' \subseteq Slots
    BY <2>1, <2>2 DEF KvTypes
  <2>5. failures' \in Nat /\ failures' >= failures
    BY <2>1 DEF KvTypes
  <2>6. \E o \in BOOLEAN :
          /\ ready' = [ready EXCEPT ![contexts[key]] = o]
          /\ avail' = IF o THEN avail \cup {contexts[key]} ELSE avail \ {contexts[key]}
    BY <2>1
  <2>. QED
    BY <1>1, <1>3, <2>3, <2>4, <2>5, <2>6 DEF KvTypes, Closes
<1>. QED
  BY <1>2, <1>3

\* What TakeContext does for a dialogue that has no context: it gets a slot which
\* was free or out of service, or none at all.
Takes(key, slot) ==
    /\ contexts[key] = 0 /\ contexts' = [contexts EXCEPT ![key] = slot]
    /\ \A k \in Slots : k # slot => ready'[k] = ready[k] /\ (k \in avail' <=> k \in avail)
    /\ slot # 0 => /\ slot \notin avail' /\ (starved' => starved)
                   /\ slot \in avail \/ ~ready[slot]
                   /\ ready'[slot] \/ (slot \in avail /\ ~ready[slot])
    /\ slot = 0 => failures' > 0 \/ (ready[1] /\ ready[2] /\ avail = {})

LEMMA TakeFacts ==
    ASSUME KvTypes, NEW key \in Dialogues, NEW recovered \in BOOLEAN, NEW warmed \in BOOLEAN,
           TakeContext(key, recovered, warmed)
    PROVE  /\ KvTypes' /\ kv2'.future = kv2.future /\ failures' >= failures
           /\ \/ UNCHANGED <<ready, avail, contexts, starved, failures>> /\ contexts[key] # 0
              \/ \E slot \in {0, 1, 2} : Takes(key, slot)
<1>1. CASE contexts[key] # 0
  BY <1>1 DEF TakeContext, history, KvTypes
<1>2. CASE contexts[key] = 0
  <2>. DEFINE ready1 == ready[1] \/ recovered
              free == avail \cup IF ~ready[1] /\ recovered THEN {1} ELSE {}
              warms == free = {} /\ ~ready[2]
              usable == free \cup IF warms /\ warmed THEN {2} ELSE {}
              slot == IF usable = {} THEN 0 ELSE CHOOSE k \in usable : \A m \in usable : k <= m
  <2>1. /\ ready' = [ready EXCEPT ![1] = ready1, ![2] = @ \/ (warms /\ warmed)]
        /\ avail' = usable \ {slot}
        /\ contexts' = [contexts EXCEPT ![key] = slot]
        /\ kv2' = IF warms THEN [kv2 EXCEPT !.requested = FALSE,
                                            !.state = IF warmed THEN "ready" ELSE "not_ready"]
                  ELSE kv2
        /\ failures' = failures + (IF ready1 THEN 0 ELSE 1) + (IF warms /\ ~warmed THEN 1 ELSE 0)
        /\ starved' = (starved \/ usable = {})
        /\ kept' = kept
    BY <1>2 DEF TakeContext, Fails, KvTypes
  <2>2. free \subseteq {1, 2} /\ usable \subseteq {1, 2}
    BY DEF KvTypes, Slots
  <2>3. ready[1] \in BOOLEAN /\ ready[2] \in BOOLEAN
    BY DEF KvTypes, Slots
  <2>4. usable # {} => slot \in usable /\ \A m \in usable : slot <= m
    <3>1. ASSUME usable # {} PROVE \E k \in usable : \A m \in usable : k <= m
      BY <2>2, <3>1
    <3>. QED
      BY <3>1
  <2>5. usable = {} => slot = 0
    OBVIOUS
  <2>6. PICK w \in {0, 1, 2} : w = slot
    BY <2>2, <2>4, <2>5
  <2>7. /\ ready'[1] = (ready[1] \/ recovered) /\ ready'[2] = (ready[2] \/ (warms /\ warmed))
        /\ ready' \in [Slots -> BOOLEAN]
    BY <2>1, <2>3 DEF KvTypes, Slots
  <2>8. /\ 1 \in usable <=> 1 \in avail \/ (~ready[1] /\ recovered)
        /\ 2 \in usable <=> 2 \in avail \/ (warms /\ warmed)
    OBVIOUS
  <2>9. KvTypes' /\ kv2'.future = kv2.future /\ failures' >= failures
    <3>1. contexts' \in [Dialogues -> {0, 1, 2}] /\ avail' \subseteq Slots /\ kept' \in [Slots -> BOOLEAN]
      BY <2>1, <2>2, <2>6 DEF KvTypes, Slots
    <3>2. failures' \in Nat /\ failures' >= failures
      BY <2>1 DEF KvTypes
    <3>3. kv2'.future = kv2.future
          /\ kv2' = [state |-> kv2'.state, requested |-> kv2'.requested, future |-> kv2'.future]
      BY <2>1 DEF KvTypes
    <3>. QED
      BY <2>7, <3>1, <3>2, <3>3 DEF KvTypes
  <2>10. w # 1 => ~(~ready[1] /\ recovered) /\ 1 \notin usable
    <3>1. 1 \in usable => slot = 1
      BY <2>2, <2>4
    <3>. QED
      BY <2>6, <2>8, <3>1
  <2>11. w # 2 => ~(warms /\ warmed)
    <3>1. warms /\ warmed => usable = {2}
      OBVIOUS
    <3>. QED
      BY <2>4, <2>6, <3>1
  <2>12. \A k \in Slots : k # w => ready'[k] = ready[k] /\ (k \in avail' <=> k \in avail)
    BY <2>1, <2>3, <2>6, <2>7, <2>8, <2>10, <2>11 DEF Slots
  <2>13. w # 0 => /\ w \notin avail' /\ (starved' => starved)
                  /\ w \in avail \/ ~ready[w]
                  /\ ready'[w] \/ (w \in avail /\ ~ready[w])
    <3>1. w # 0 => usable # {} /\ w \in usable
      BY <2>4, <2>5, <2>6
    <3>2. w = 1 => (1 \in avail \/ ~ready[1]) /\ (ready'[1] \/ (1 \in avail /\ ~ready[1]))
      BY <2>3, <2>7, <2>8, <3>1
    <3>3. w = 2 => (2 \in avail \/ ~ready[2]) /\ (ready'[2] \/ (2 \in avail /\ ~ready[2]))
      BY <2>3, <2>7, <2>8, <3>1
    <3>4. usable # {} => (starved' => starved)
      BY <2>1
    <3>5. w \notin avail'
      BY <2>1, <2>6
    <3>. QED
      BY <2>6, <3>1, <3>2, <3>3, <3>4, <3>5
  <2>14. w = 0 => failures' > 0 \/ (ready[1] /\ ready[2] /\ avail = {})
    <3>1. w = 0 => usable = {}
      BY <2>2, <2>4, <2>6
    <3>2. usable = {} => free = {} /\ avail = {} /\ ~(warms /\ warmed)
      OBVIOUS
    <3>3. free = {} /\ ready1 /\ ~ready[1] => FALSE
      OBVIOUS
    <3>. QED
      BY <2>1, <2>3, <3>1, <3>2, <3>3 DEF KvTypes
  <2>15. Takes(key, w)
    BY <1>2, <2>1, <2>6, <2>12, <2>13, <2>14 DEF Takes
  <2>. QED
    BY <2>9, <2>15
<1>. QED
  BY <1>1, <1>2

-----------------------------------------------------------------------------
(* The executor's steps.                                                    *)

LEMMA WhoAsks ==
    ASSUME RequestTypes, NEW i \in DOMAIN reqs, reqs[i].kind \in Interactive
    PROVE  /\ reqs[i].who \in Dialogues
           /\ reqs[i].kind = "human" => reqs[i].who \in Sessions
           /\ reqs[i].kind = "voice" => reqs[i].who = Voice
  BY ReqTyped DEF RequestOK, Interactive, Dialogues, Voice

\* The service's answer moves only what concerns the RUN.
LEMMA AllowMoves ==
    ASSUME RequestTypes, KvTypes, NEW i \in DOMAIN reqs, Allow(i)
    PROVE  /\ RequestsOK' /\ OthersStay(i) /\ SameReq(reqs[i], reqs'[i]) /\ reqs'[i].started
           /\ reqs[i].run \in Offers /\ grant[reqs[i].run] \in {"offered", "running"}
           /\ grant' = [r \in Offers |-> IF r = reqs[i].run THEN "running" ELSE grant[r]]
<1>1. /\ reqs[i] \in Reqs /\ RequestOK(reqs[i]) /\ reqs = [j \in DOMAIN reqs |-> reqs[j]]
      /\ reqs[i].kind \in {"run", "manager"} /\ ~Refused(reqs[i])
  BY ReqTyped DEF Allow
<1>2. OthersStay(i) /\ reqs'[i] = [reqs[i] EXCEPT !.started = TRUE]
  BY <1>1 DEF Allow, OthersStay
<1>3. reqs'[i] \in Reqs /\ SameReq(reqs[i], reqs'[i]) /\ reqs'[i].started
  BY <1>1, <1>2 DEF Reqs, SameReq
<1>4. reqs[i].run \in Offers /\ grant[reqs[i].run] \in {"offered", "running"}
  BY <1>1 DEF RequestOK, Refused
<1>5. grant' = [r \in Offers |-> IF r = reqs[i].run THEN "running" ELSE grant[r]]
  <2>1. grant' = [grant EXCEPT ![reqs[i].run] = "running"] /\ grant = [r \in Offers |-> grant[r]]
    BY DEF Allow, RequestTypes
  <2>. QED
    BY <1>4, <2>1
<1>. QED
  BY <1>2, <1>3, <1>4, <1>5, OneUnmoved

LEMMA BeginMoves ==
    ASSUME RequestTypes, KvTypes, NEW i \in DOMAIN reqs, NEW b \in BOOLEAN, NEW c \in BOOLEAN,
           BeginStep(i, b, c)
    PROVE  /\ RequestsOK' /\ OthersStay(i) /\ SameReq(reqs[i], reqs'[i]) /\ KvTypes'
           /\ kv2'.future = kv2.future /\ failures' >= failures
           /\ \/ UNCHANGED <<ready, avail, contexts, starved, failures>>
              \/ /\ reqs[i].kind \in Interactive
                 /\ \E slot \in {0, 1, 2} : Takes(reqs[i].who, slot)
<1>. DEFINE q == reqs[i]
<1>1. q \in Reqs /\ RequestOK(q) /\ reqs = [j \in DOMAIN reqs |-> reqs[j]]
  BY ReqTyped
<1>3. CASE q.kind \in Interactive /\ ~q.begun
  <2>1. /\ TakeContext(q.who, b, c)
        /\ reqs' = [reqs EXCEPT ![i].begun = TRUE, ![i].slot = contexts'[q.who]]
    BY <1>3 DEF BeginStep
  <2>2. q.who \in Dialogues
    BY <1>3, WhoAsks
  <2>3. /\ KvTypes' /\ kv2'.future = kv2.future /\ failures' >= failures
        /\ \/ UNCHANGED <<ready, avail, contexts, starved, failures>> /\ contexts[q.who] # 0
           \/ \E slot \in {0, 1, 2} : Takes(q.who, slot)
    BY <2>1, <2>2, TakeFacts
  <2>4. contexts'[q.who] \in {0, 1, 2}
    BY <2>2, <2>3 DEF KvTypes
  <2>5. OthersStay(i) /\ reqs'[i] = [q EXCEPT !.begun = TRUE, !.slot = contexts'[q.who]]
    BY <1>1, <2>1 DEF OthersStay
  <2>6. reqs'[i] \in Reqs /\ SameReq(q, reqs'[i])
    BY <1>1, <2>4, <2>5 DEF Reqs, SameReq
  <2>7. RequestsOK'
    BY <2>5, <2>6, OneUnmoved
  <2>. QED
    BY <1>3, <2>3, <2>5, <2>6, <2>7 DEF Interactive
<1>4. CASE ~(q.kind \in Interactive /\ ~q.begun)
  <2>1. /\ reqs' = [reqs EXCEPT ![i].begun = TRUE,
                                ![i].agent = @ \/ (q.kind = "run" /\ ~q.begun)]
        /\ UNCHANGED <<kv, history>>
    BY <1>4 DEF BeginStep
  <2>2. /\ OthersStay(i)
        /\ reqs'[i] = [q EXCEPT !.begun = TRUE, !.agent = @ \/ (q.kind = "run" /\ ~q.begun)]
    BY <1>1, <2>1 DEF OthersStay
  <2>3. reqs'[i] \in Reqs /\ SameReq(q, reqs'[i])
    BY <1>1, <2>2 DEF Reqs, SameReq
  <2>4. RequestsOK'
    BY <2>2, <2>3, OneUnmoved
  <2>5. KvTypes' /\ kv2' = kv2 /\ UNCHANGED <<ready, avail, contexts, starved, failures>>
    BY <2>1 DEF KvTypes, kv, history
  <2>6. failures' >= failures
    BY <2>5 DEF KvTypes
  <2>. QED
    BY <2>2, <2>3, <2>4, <2>5, <2>6
<1>. QED
  BY <1>3, <1>4

\* A step that ends at a boundary, or the last one.
LEMMA EndMoves ==
    ASSUME RequestTypes, NEW i \in DOMAIN reqs, NEW b \in BOOLEAN,
           NEW what \in {"silent", "query", "reply", "error"},
           StepYields(i, b) \/ StepEnds(i, what, b)
    PROVE  RequestsOK' /\ OthersStay(i) /\ SameReq(reqs[i], reqs'[i])
<1>. DEFINE q == reqs[i]
<1>1. q \in Reqs /\ RequestOK(q) /\ reqs = [j \in DOMAIN reqs |-> reqs[j]]
  BY ReqTyped
<1>2. CASE StepEnds(i, what, b)
  <2>1. OthersStay(i) /\ reqs'[i] = [q EXCEPT !.agent = FALSE]
    BY <1>1, <1>2 DEF OthersStay, StepEnds
  <2>2. reqs'[i] \in Reqs /\ SameReq(q, reqs'[i])
    BY <1>1, <2>1 DEF Reqs, SameReq
  <2>. QED
    BY <2>1, <2>2, OneUnmoved
<1>3. CASE StepYields(i, b)
  <2>. DEFINE needs == q.kind # "run" /\ ~q.agent /\ (b \/ q.waits)
  <2>1. /\ OthersStay(i)
        /\ reqs'[i] = [q EXCEPT !.agent = @ \/ (needs /\ AgentFree), !.waits = needs /\ ~AgentFree,
                                !.steps = IF q.waits THEN @ ELSE @ + 1]
    BY <1>1, <1>3 DEF OthersStay, StepYields
  <2>2. q.agent \in BOOLEAN /\ q.waits \in BOOLEAN /\ q.steps \in Nat
    BY <1>1 DEF Reqs
  <2>3. PICK n \in BOOLEAN : n = (q.agent \/ (needs /\ AgentFree))
    BY <2>2
  <2>4. PICK w \in BOOLEAN : w = (needs /\ ~AgentFree)
    BY <2>2
  <2>5. PICK k \in Nat : k = IF q.waits THEN q.steps ELSE q.steps + 1
    BY <2>2
  <2>6. reqs'[i] = [q EXCEPT !.agent = n, !.waits = w, !.steps = k]
    BY <2>1, <2>3, <2>4, <2>5
  <2>7. reqs'[i] \in Reqs /\ SameReq(q, reqs'[i])
    BY <1>1, <2>6 DEF Reqs, SameReq
  <2>. QED
    BY <2>1, <2>7, OneUnmoved
<1>. QED
  BY <1>2, <1>3

-----------------------------------------------------------------------------
(* The executor's queue.                                                    *)

\* The active request stays what it was.
SameActive ==
    /\ Active' = Active
    /\ \A j \in Active : /\ reqs'[j].kind = reqs[j].kind
                         /\ reqs[j].started => reqs'[j].started

LEMMA UnmovedActive ==
    ASSUME Unmoved
    PROVE  SameActive
  BY DEF Unmoved, SameReq, SameActive, Active

LEMMA AdmitActive ==
    ASSUME RequestTypes, NEW kind, NEW who, NEW run, Admits(kind, who, run),
           Request(kind, who, run) \in Reqs
    PROVE  SameActive
<1>1. /\ DOMAIN reqs' = 1..(Len(reqs) + 1) /\ reqs'[Len(reqs) + 1] = Request(kind, who, run)
      /\ \A m \in DOMAIN reqs : m \in DOMAIN reqs' /\ reqs'[m] = reqs[m]
      /\ \A m \in DOMAIN reqs' : m \in DOMAIN reqs \/ m = Len(reqs) + 1
  BY AddedFacts DEF Admits, RequestTypes
<1>2. reqs'[Len(reqs) + 1].state # "active"
  BY <1>1 DEF Request
<1>. QED
  BY <1>1, <1>2 DEF SameActive, Active

LEMMA Idle ==
    ASSUME SchedulerOK, Active = {}
    PROVE  result = "none" /\ ~stepping /\ \A m \in DOMAIN jobs : ~Advance(m)
<1>1. stepping => 1 \in DOMAIN jobs /\ Advance(1)
  BY DEF SchedulerOK, Advance
<1>. QED
  BY <1>1 DEF SchedulerOK

LEMMA Waiting ==
    ASSUME SchedulerOK, result # "none"
    PROVE  ~stepping /\ \A m \in DOMAIN jobs : ~Advance(m)
<1>1. stepping => 1 \in DOMAIN jobs /\ Advance(1)
  BY DEF SchedulerOK, Advance
<1>. QED
  BY <1>1 DEF SchedulerOK

\* The head of the queue advances the active request.
AtWork(i) == /\ jobs # <<>> /\ 1 \in DOMAIN jobs /\ Advance(1) /\ jobs[1].of = i
             /\ Head(jobs).does = "advance"
             /\ i \in Active /\ (\A j \in Active : j = i) /\ result = "none"
             /\ \A m \in DOMAIN jobs : Advance(m) => m = 1

LEMMA Working ==
    ASSUME SchedulerOK, NEW i, Advancing(i) \/ (stepping /\ i \in Active)
    PROVE  AtWork(i)
<1>1. jobs # <<>> /\ 1 \in DOMAIN jobs /\ Head(jobs) = jobs[1]
  BY DEF SchedulerOK, Advancing
<1>2. Advance(1) /\ Head(jobs).does = "advance"
  BY <1>1 DEF SchedulerOK, Advancing, Advance
<1>3. jobs[1].of \in Active /\ result = "none"
  BY <1>1, <1>2 DEF SchedulerOK
<1>4. jobs[1].of = i
  BY <1>1, <1>3 DEF SchedulerOK, Advancing
<1>. QED
  BY <1>1, <1>2, <1>3, <1>4 DEF AtWork, SchedulerOK

LEMMA QueueKept ==
    ASSUME SchedulerOK, SameActive, UNCHANGED <<jobs, result>>,
           stepping' = stepping \/ (stepping' = TRUE /\ \E i : AtWork(i))
    PROVE  SchedulerOK'
<1>1. stepping' => jobs # <<>> /\ Head(jobs).does = "advance"
  BY DEF SchedulerOK, AtWork
<1>2. stepping' \in BOOLEAN
  BY DEF SchedulerOK
<1>3. \A m \in DOMAIN jobs : Advance(m)' = Advance(m)
  BY DEF Advance
<1>. QED
  BY <1>1, <1>2, <1>3 DEF SchedulerOK, SameActive

LEMMA QueueGrows ==
    ASSUME SchedulerOK, SameActive, UNCHANGED <<result, stepping>>,
           NEW x \in Work, Added(jobs, x, jobs'), x.does # "advance"
    PROVE  SchedulerOK'
<1>1. PICK q : q = jobs'
  OBVIOUS
<1>2. /\ q \in Seq(Work) /\ q # <<>> /\ q[Len(jobs) + 1] = x
      /\ \A m \in DOMAIN jobs : m \in DOMAIN q /\ q[m] = jobs[m]
      /\ \A m \in DOMAIN q : m \in DOMAIN jobs \/ m = Len(jobs) + 1
      /\ Head(q) = IF jobs = <<>> THEN x ELSE Head(jobs)
  BY <1>1, AddedFacts DEF SchedulerOK
<1>3. \A m \in DOMAIN q : q[m].does = "advance" => m \in DOMAIN jobs /\ q[m] = jobs[m]
  BY <1>2
<1>. QED
  BY <1>1, <1>2, <1>3 DEF SchedulerOK, SameActive, Advance

LEMMA QueueShrinks ==
    ASSUME SchedulerOK, SameActive, UNCHANGED <<result, stepping>>,
           Popped(jobs, jobs'), Head(jobs).does # "advance"
    PROVE  SchedulerOK'
<1>1. PICK q : q = jobs'
  OBVIOUS
<1>2. /\ q \in Seq(Work)
      /\ \A m \in DOMAIN q : m + 1 \in DOMAIN jobs /\ q[m] = jobs[m + 1] /\ m \in Nat
  BY <1>1, PoppedFacts DEF SchedulerOK
<1>3. ~stepping
  BY DEF SchedulerOK
<1>4. \A m, n \in DOMAIN q : q[m].does = "advance" /\ q[n].does = "advance" => m = n
  <2>. TAKE m, n \in DOMAIN q
  <2>1. q[m].does = "advance" /\ q[n].does = "advance" => m + 1 = n + 1
    BY <1>2 DEF SchedulerOK, Advance
  <2>. QED
    BY <1>2, <2>1
<1>. QED
  BY <1>1, <1>2, <1>3, <1>4 DEF SchedulerOK, SameActive, Advance

LEMMA QueueReturns ==
    ASSUME SchedulerOK, SameActive, NEW i, AtWork(i), NEW what \in Results, Returns(what)
    PROVE  SchedulerOK' /\ ~stepping' /\ \A m \in DOMAIN jobs' : ~Advance(m)'
<1>1. PICK q : q = jobs'
  OBVIOUS
<1>2. Popped(jobs, q) /\ result' = what /\ stepping' = FALSE
  BY <1>1 DEF Returns, Popped, AtWork
<1>3. /\ q \in Seq(Work)
      /\ \A m \in DOMAIN q : m + 1 \in DOMAIN jobs /\ m + 1 # 1 /\ q[m] = jobs[m + 1]
  BY <1>2, PoppedFacts DEF SchedulerOK
<1>4. \A m \in DOMAIN q : q[m].does # "advance"
  BY <1>3 DEF AtWork, Advance
<1>. QED
  BY <1>1, <1>2, <1>3, <1>4 DEF SchedulerOK, SameActive, Advance, AtWork

LEMMA QueueStarts ==
    ASSUME RequestTypes, SchedulerOK, NEW i, StartNext(i)
    PROVE  SchedulerOK' /\ Active' = {i} /\ result' = "none" /\ ~stepping'
<1>1. PICK q : q = jobs'
  OBVIOUS
<1>2. result = "none" /\ ~stepping /\ (\A m \in DOMAIN jobs : ~Advance(m)) /\ Active = {}
  BY Idle DEF StartNext
<1>3. PICK x : x = [does |-> "advance", of |-> i]
  OBVIOUS
<1>4. i \in DOMAIN reqs /\ OthersStay(i) /\ reqs'[i] = [reqs[i] EXCEPT !.state = "active"]
  BY StartMoves
<1>5. x \in Work /\ x.does = "advance" /\ x.of = i /\ i \in Nat
  BY <1>3, <1>4 DEF Work, RequestTypes
<1>6. Added(jobs, x, q) /\ result' = result /\ stepping' = stepping
  BY <1>1, <1>3 DEF StartNext, Added
<1>7. /\ q \in Seq(Work) /\ q # <<>> /\ q[Len(jobs) + 1] = x
      /\ \A m \in DOMAIN jobs : m \in DOMAIN q /\ q[m] = jobs[m]
      /\ \A m \in DOMAIN q : m \in DOMAIN jobs \/ m = Len(jobs) + 1
  BY <1>5, <1>6, AddedFacts DEF SchedulerOK
<1>8. reqs[i] \in Reqs
  BY <1>4, ReqTyped
<1>9. Active' = {i}
  BY <1>2, <1>4, <1>8 DEF Active, OthersStay, Reqs
<1>10. \A m \in DOMAIN q : q[m].does = "advance" => m = Len(jobs) + 1
  BY <1>2, <1>7 DEF Advance
<1>. QED
  BY <1>1, <1>2, <1>5, <1>6, <1>7, <1>9, <1>10 DEF SchedulerOK, Advance

\* A result is taken: the request is not active any more, a release may follow.
LEMMA QueueFollows ==
    ASSUME RequestTypes, SchedulerOK, NEW i \in Active, result # "none", FollowUp(i),
           result' = "none", stepping' = stepping, OthersStay(i), reqs'[i].state # "active"
    PROVE  /\ SchedulerOK' /\ Active' = {}
           /\ UNCHANGED jobs \/ \E x \in Work : Added(jobs, x, jobs') /\ x.does = "release"
                                    /\ x.of = reqs[i].who /\ reqs[i].who \in released
<1>1. Active' = {}
  BY DEF Active, OthersStay, SchedulerOK
<1>2. ~stepping /\ \A m \in DOMAIN jobs : ~Advance(m)
  BY Waiting
<1>3. CASE ~(reqs[i].kind = "human" /\ reqs[i].who \in released)
  <2>1. jobs' = jobs
    BY <1>3 DEF FollowUp
  <2>. QED
    BY <1>1, <1>2, <2>1 DEF SchedulerOK, Advance, Results
<1>4. CASE reqs[i].kind = "human" /\ reqs[i].who \in released
  <2>1. PICK x : x = [does |-> "release", of |-> reqs[i].who]
    OBVIOUS
  <2>2. x \in Work /\ x.does = "release" /\ x.of = reqs[i].who
    <3>1. reqs[i] \in Reqs
      BY ReqTyped DEF Active
    <3>2. reqs[i].who \in Sessions
      BY <1>4 DEF RequestTypes
    <3>. QED
      BY <2>1, <3>1, <3>2 DEF Work, Reqs
  <2>3. PICK q : q = jobs'
    OBVIOUS
  <2>4. Added(jobs, x, q)
    BY <1>4, <2>1, <2>3 DEF FollowUp, Added
  <2>5. /\ q \in Seq(Work) /\ q # <<>> /\ q[Len(jobs) + 1] = x
        /\ \A m \in DOMAIN jobs : m \in DOMAIN q /\ q[m] = jobs[m]
        /\ \A m \in DOMAIN q : m \in DOMAIN jobs \/ m = Len(jobs) + 1
    BY <2>2, <2>4, AddedFacts DEF SchedulerOK
  <2>6. \A m \in DOMAIN q : q[m].does # "advance"
    BY <1>2, <2>2, <2>5 DEF Advance
  <2>7. SchedulerOK'
    BY <1>1, <1>2, <2>3, <2>5, <2>6 DEF SchedulerOK, Advance, Results
  <2>. QED
    BY <1>1, <1>4, <2>2, <2>3, <2>4, <2>7
<1>. QED
  BY <1>3, <1>4

LEMMA BegunKept ==
    ASSUME BegunOK, SameActive, stepping' => stepping, result' = "query" => result = "query"
    PROVE  BegunOK'
  BY DEF BegunOK, SameActive

-----------------------------------------------------------------------------
(* The first invariant: every step, action by action.                      *)

LEMMA StepInvInit == LInit => StepInv
<1>. SUFFICES ASSUME LInit PROVE StepInv
  OBVIOUS
<1>1. reqs = <<>> /\ jobs = <<>> /\ <<>> \in Seq(Reqs) /\ <<>> \in Seq(Work)
  BY DEF LInit
<1>2. DOMAIN reqs = {} /\ DOMAIN jobs = {} /\ Active = {}
  BY <1>1 DEF Active
<1>3. RequestTypes
  BY <1>1, <1>2 DEF LInit, RequestTypes, Nobody
<1>4. KvTypes
  BY DEF LInit, KvTypes, Slots
<1>5. SchedulerOK /\ BegunOK
  BY <1>1, <1>2 DEF LInit, SchedulerOK, BegunOK, Results
<1>. QED
  BY <1>3, <1>4, <1>5 DEF StepInv

ServiceOK == grant = [r \in Offers |-> grant[r]] /\ owner \in Sessions \cup {0} /\ released \subseteq Sessions

LEMMA StepInvFrom ==
    ASSUME RequestsOK', ServiceOK', KvTypes', SchedulerOK', BegunOK'
    PROVE  StepInv'
  BY DEF RequestsOK, ServiceOK, StepInv, RequestTypes

\* Steps that touch neither the requests nor what the executor does with them.
LEMMA StepInvQuiet ==
    ASSUME StepInv, UNCHANGED <<reqs, jobs, stepping, result>>, ServiceOK', KvTypes'
    PROVE  StepInv'
<1>1. RequestsOK' /\ Unmoved
  BY UnchangedReqs DEF StepInv
<1>2. SameActive
  BY <1>1, UnmovedActive
<1>3. SchedulerOK' /\ BegunOK'
  BY <1>2, QueueKept, BegunKept DEF StepInv
<1>. QED
  BY <1>1, <1>3, StepInvFrom

LEMMA ServiceKept ==
    ASSUME StepInv
    PROVE  /\ UNCHANGED <<grant, owner, released>> => ServiceOK'
           /\ UNCHANGED <<contexts, ready, avail, kept, failures, kv2>> => KvTypes'
  BY DEF StepInv, RequestTypes, ServiceOK, KvTypes

LEMMA StepInvSessions ==
    ASSUME StepInv, NEW s \in Sessions, Acquire(s) \/ SubmitUser(s) \/ ReleaseSession(s)
    PROVE  StepInv'
<1>0. s \in Nat /\ s # 0
  BY LegacyConstants
<1>1. CASE Acquire(s)
  <2>1. ServiceOK' /\ KvTypes'
    <3>1. UNCHANGED <<contexts, ready, avail, kept, failures, kv2, grant, released>> /\ owner' = s
      BY <1>1 DEF Acquire, kv, service, history
    <3>. QED
      BY <3>1, ServiceKept DEF ServiceOK, StepInv, RequestTypes
  <2>. QED
    BY <1>1, <2>1, StepInvQuiet DEF Acquire
<1>2. CASE SubmitUser(s)
  <2>1. RequestsOK' /\ Admits("human", s, "none") /\ Request("human", s, "none") \in Reqs
    BY <1>0, <1>2, AdmitMoves DEF SubmitUser, StepInv
  <2>2. SameActive
    BY <2>1, AdmitActive DEF StepInv
  <2>3. /\ UNCHANGED <<contexts, ready, avail, kept, failures, kv2, grant, owner, released>>
        /\ UNCHANGED <<jobs, stepping, result>>
    BY <1>2 DEF SubmitUser, kv, service, history, people
  <2>4. SchedulerOK' /\ BegunOK'
    BY <2>2, <2>3, QueueKept, BegunKept DEF StepInv
  <2>. QED
    BY <2>1, <2>3, <2>4, ServiceKept, StepInvFrom
<1>3. CASE ReleaseSession(s)
  <2>1. RequestsOK' /\ SameActive
    <3>1. /\ RequestsOK' /\ DOMAIN reqs' = DOMAIN reqs
          /\ \A i \in DOMAIN reqs : /\ reqs'[i].kind = reqs[i].kind /\ reqs'[i].state = reqs[i].state
                                    /\ reqs'[i].started = reqs[i].started
      BY <1>3, ReleaseMoves DEF StepInv
    <3>. QED
      BY <3>1 DEF SameActive, Active
  <2>2. /\ UNCHANGED <<contexts, ready, avail, kept, failures, kv2, grant, stepping, result>>
        /\ owner' = 0 /\ released' = released \cup {s}
    BY <1>3 DEF ReleaseSession, kv, service, history, Nobody
  <2>3. PICK x : x = [does |-> "release", of |-> s]
    OBVIOUS
  <2>4. x \in Work /\ x.does # "advance" /\ Added(jobs, x, jobs')
    BY <1>0, <1>3, <2>3 DEF Work, Added, ReleaseSession
  <2>5. SchedulerOK' /\ BegunOK'
    BY <2>1, <2>2, <2>4, QueueGrows, BegunKept DEF StepInv
  <2>6. ServiceOK'
    BY <2>2 DEF ServiceOK, StepInv, RequestTypes
  <2>. QED
    BY <2>1, <2>2, <2>5, <2>6, ServiceKept, StepInvFrom
<1>. QED
  BY <1>1, <1>2, <1>3

LEMMA StepInvService ==
    ASSUME StepInv, NEW r \in Offers, ServiceOffers(r) \/ ServiceRevokes(r) \/ PollOffer(r)
    PROVE  StepInv'
<1>1. CASE ServiceOffers(r) \/ ServiceRevokes(r)
  <2>1. /\ UNCHANGED <<contexts, ready, avail, kept, failures, kv2, owner, released>>
        /\ UNCHANGED <<reqs, jobs, stepping, result>>
    BY <1>1 DEF ServiceOffers, ServiceRevokes, kv, people, history
  <2>2. grant' = [o \in Offers |-> grant'[o]]
    BY <1>1 DEF ServiceOffers, ServiceRevokes, StepInv, RequestTypes
  <2>3. ServiceOK'
    BY <2>1, <2>2 DEF ServiceOK, StepInv, RequestTypes
  <2>. QED
    BY <2>1, <2>3, ServiceKept, StepInvQuiet
<1>2. CASE PollOffer(r)
  <2>1. RequestsOK' /\ Admits("run", Nobody, r) /\ Request("run", Nobody, r) \in Reqs
    <3>1. Nobody = 0 /\ Nobody \in Nat
      BY DEF Nobody
    <3>2. Admit("run", Nobody, r)
      BY <1>2 DEF PollOffer
    <3>. QED
      BY <3>1, <3>2, AdmitMoves DEF StepInv
  <2>2. SameActive
    BY <2>1, AdmitActive DEF StepInv
  <2>3. /\ UNCHANGED <<contexts, ready, avail, kept, failures, kv2, grant, owner, released>>
        /\ UNCHANGED <<jobs, stepping, result>>
    BY <1>2 DEF PollOffer, kv, history, people
  <2>4. SchedulerOK' /\ BegunOK'
    BY <2>2, <2>3, QueueKept, BegunKept DEF StepInv
  <2>. QED
    BY <2>1, <2>3, <2>4, ServiceKept, StepInvFrom
<1>. QED
  BY <1>1, <1>2

LEMMA StepInvExecutor ==
    ASSUME StepInv, GateOK, NEW i \in DOMAIN reqs, Executor(i) \/ ServiceAway(i)
    PROVE  StepInv'
<1>1. CASE Discard(i)
  <2>1. RequestsOK' /\ OthersStay(i) /\ AtWork(i)
        /\ reqs'[i] = [reqs[i] EXCEPT !.cancelled = TRUE, !.agent = FALSE, !.waits = FALSE]
    BY <1>1, DiscardMoves, Working DEF StepInv, Discard
  <2>2. reqs[i] \in Reqs
    BY ReqTyped DEF StepInv
  <2>3. SameActive
    <3>1. \A j \in DOMAIN reqs : /\ reqs'[j].kind = reqs[j].kind /\ reqs'[j].state = reqs[j].state
                                 /\ reqs'[j].started = reqs[j].started
      BY <2>1, <2>2 DEF OthersStay, Reqs
    <3>. QED
      BY <2>1, <3>1 DEF SameActive, Active, OthersStay
  <2>4. /\ UNCHANGED <<contexts, ready, avail, failures, kv2, grant, owner, released>>
        /\ Returns("cancelled") /\ "cancelled" \in Results
    BY <1>1 DEF Discard, people, service, history, Results
  <2>5. kept' \in [Slots -> BOOLEAN]
    BY <1>1 DEF Discard, StepInv, KvTypes
  <2>6. KvTypes' /\ ServiceOK'
    BY <2>4, <2>5, ServiceKept DEF StepInv, KvTypes
  <2>7. SchedulerOK' /\ ~stepping'
    BY <2>1, <2>3, <2>4, QueueReturns DEF StepInv
  <2>8. BegunOK'
    BY <2>3, <2>4, <2>7, BegunKept DEF StepInv, Returns
  <2>. QED
    BY <2>1, <2>6, <2>7, <2>8, StepInvFrom
<1>2. CASE ServiceAway(i)
  <2>1. RequestsOK' /\ Unmoved /\ AtWork(i)
    BY <1>2, UnchangedReqs, Working DEF StepInv, ServiceAway
  <2>2. SameActive
    BY <2>1, UnmovedActive
  <2>3. /\ UNCHANGED <<contexts, ready, avail, kept, failures, kv2, owner, released>>
        /\ Returns("paused") /\ "paused" \in Results
    BY <1>2 DEF ServiceAway, people, history, Results, kv
  <2>4. ServiceOK' /\ KvTypes'
    BY <1>2, <2>3, ServiceKept DEF ServiceAway, StepInv, RequestTypes, ServiceOK
  <2>5. SchedulerOK' /\ ~stepping'
    BY <2>1, <2>2, <2>3, QueueReturns DEF StepInv
  <2>6. BegunOK'
    BY <2>2, <2>3, <2>5, BegunKept DEF StepInv, Returns
  <2>. QED
    BY <2>1, <2>4, <2>5, <2>6, StepInvFrom
<1>3. ASSUME NEW b \in BOOLEAN, NEW c \in BOOLEAN, BeginStep(i, b, c)
      PROVE  StepInv'
  <2>1. /\ RequestsOK' /\ OthersStay(i) /\ SameReq(reqs[i], reqs'[i]) /\ KvTypes'
    BY <1>3, BeginMoves DEF StepInv
  <2>2. AtWork(i) /\ (reqs[i].kind = "run" => reqs[i].started)
    BY <1>3, Working DEF StepInv, BeginStep, GateOK, AtWork
  <2>3. SameActive
    <3>1. Unmoved
      BY <2>1 DEF OthersStay, Unmoved, SameReq
    <3>. QED
      BY <3>1, UnmovedActive
  <2>4. ServiceOK'
    BY <1>3, ServiceKept DEF BeginStep, people, service
  <2>5. CASE Returns("error")
    <3>1. SchedulerOK' /\ ~stepping'
      BY <2>2, <2>3, <2>5, QueueReturns DEF StepInv, Results
    <3>2. BegunOK'
      BY <2>3, <2>5, <3>1, BegunKept DEF StepInv, Returns
    <3>. QED
      BY <2>1, <2>4, <3>1, <3>2, StepInvFrom
  <2>6. CASE stepping' = TRUE /\ UNCHANGED <<jobs, result>>
    <3>1. SchedulerOK'
      BY <2>2, <2>3, <2>6, QueueKept DEF StepInv
    <3>2. BegunOK'
      BY <2>1, <2>2, <2>3, <2>6 DEF BegunOK, SameActive, AtWork
    <3>. QED
      BY <2>1, <2>4, <3>1, <3>2, StepInvFrom
  <2>. QED
    BY <1>3, <2>5, <2>6 DEF BeginStep
<1>4. ASSUME NEW b \in BOOLEAN, NEW what \in {"silent", "query", "reply", "error"},
             StepYields(i, b) \/ StepEnds(i, what, b)
      PROVE  StepInv'
  <2>1. RequestsOK' /\ OthersStay(i) /\ SameReq(reqs[i], reqs'[i])
    BY <1>4, EndMoves DEF StepInv
  <2>2. AtWork(i) /\ stepping /\ i \in Active
    BY <1>4, Working DEF StepInv, StepYields, StepEnds
  <2>3. SameActive
    <3>1. Unmoved
      BY <2>1 DEF OthersStay, Unmoved, SameReq
    <3>. QED
      BY <3>1, UnmovedActive
  <2>4. PICK w \in Results : /\ Returns(w) /\ w \in {"silent", "query", "reply", "error", "paused"}
                             /\ w = "query" => reqs[i].kind = "run"
    BY <1>4 DEF StepYields, StepEnds, Results
  <2>5. ServiceOK' /\ KvTypes'
    <3>1. UNCHANGED <<contexts, ready, avail, failures, kv2, grant, owner, released>>
      BY <1>4 DEF StepYields, StepEnds, people, history, kv, service
    <3>2. kept' \in [Slots -> BOOLEAN]
      BY <1>4 DEF StepYields, StepEnds, kv, StepInv, KvTypes
    <3>. QED
      BY <3>1, <3>2, ServiceKept DEF StepInv, KvTypes
  <2>6. SchedulerOK' /\ ~stepping'
    BY <2>2, <2>3, <2>4, QueueReturns DEF StepInv
  <2>7. BegunOK'
    BY <2>2, <2>3, <2>4, <2>6 DEF BegunOK, SameActive, AtWork, Returns, StepInv
  <2>. QED
    BY <2>1, <2>5, <2>6, <2>7, StepInvFrom
<1>5. CASE Allow(i)
  <2>1. /\ RequestsOK' /\ OthersStay(i) /\ SameReq(reqs[i], reqs'[i])
        /\ grant' = [r \in Offers |-> grant'[r]]
    BY <1>5, AllowMoves DEF StepInv
  <2>2. SameActive
    <3>1. Unmoved
      BY <2>1 DEF OthersStay, Unmoved, SameReq
    <3>. QED
      BY <3>1, UnmovedActive
  <2>3. SchedulerOK' /\ BegunOK'
    BY <1>5, <2>2, QueueKept, BegunKept DEF StepInv, Allow
  <2>4. ServiceOK' /\ KvTypes'
    BY <1>5, <2>1, ServiceKept DEF Allow, kv, people, history, ServiceOK, StepInv, RequestTypes
  <2>. QED
    BY <2>1, <2>3, <2>4, StepInvFrom
<1>. QED
  BY <1>1, <1>2, <1>3, <1>4, <1>5 DEF Executor

LEMMA StepInvScheduler ==
    ASSUME StepInv, NEW i \in DOMAIN reqs, SchedulerThread(i)
    PROVE  StepInv'
<1>1. CASE StartNext(i)
  <2>1. RequestsOK'
    BY <1>1, StartMoves DEF StepInv
  <2>2. SchedulerOK' /\ Active' = {i} /\ result' = "none" /\ ~stepping'
    BY <1>1, QueueStarts DEF StepInv
  <2>3. BegunOK'
    BY <2>2 DEF BegunOK
  <2>4. ServiceOK' /\ KvTypes'
    BY <1>1, ServiceKept DEF StartNext, kv, people, service, history
  <2>. QED
    BY <2>1, <2>2, <2>3, <2>4, StepInvFrom
<1>2. CASE Requeue(i)
  <2>1. RequestsOK' /\ OthersStay(i) /\ reqs'[i].state = "pending"
    BY <1>2, RequeueMoves DEF StepInv
  <2>2. SchedulerOK' /\ Active' = {}
    BY <1>2, <2>1, QueueFollows DEF StepInv, Requeue
  <2>3. BegunOK'
    BY <2>2 DEF BegunOK
  <2>4. ServiceOK' /\ KvTypes'
    BY <1>2, ServiceKept DEF Requeue, kv, people, service, history
  <2>. QED
    BY <2>1, <2>2, <2>3, <2>4, StepInvFrom
<1>3. ASSUME NEW ok \in BOOLEAN, Complete(i, ok)
      PROVE  StepInv'
  <2>1. RequestsOK' /\ OthersStay(i) /\ reqs'[i] = Over
    BY <1>3, CompleteMoves DEF StepInv
  <2>2. SchedulerOK' /\ Active' = {}
    BY <1>3, <2>1, OverOK, QueueFollows DEF StepInv, Complete
  <2>3. BegunOK'
    BY <2>2 DEF BegunOK
  <2>4. ServiceOK'
    BY <1>3, ServiceKept DEF Complete, people
  <2>5. KvTypes'
    <3>1. CASE UNCHANGED <<kv, failures>>
      BY <3>1, ServiceKept DEF kv
    <3>2. CASE CloseContext(reqs[i].who, ok) /\ reqs[i].slot # 0 /\ contexts[reqs[i].who] = reqs[i].slot
      <4>1. reqs[i].who \in Dialogues
        <5>1. RequestOK(reqs[i])
          BY ReqTyped DEF StepInv
        <5>. QED
          BY <5>1 DEF RequestOK, Dialogues, Voice
      <4>. QED
        BY <3>2, <4>1, CloseFacts DEF StepInv
    <3>. QED
      BY <1>3, <3>1, <3>2 DEF Complete
  <2>. QED
    BY <2>1, <2>2, <2>3, <2>4, <2>5, StepInvFrom
<1>. QED
  BY <1>1, <1>2, <1>3 DEF SchedulerThread

LEMMA StepInvHousekeeping ==
    ASSUME StepInv, Housekeeping
    PROVE  StepInv'
<1>0. UNCHANGED reqs => RequestsOK' /\ SameActive
  BY UnchangedReqs, UnmovedActive DEF StepInv
<1>1. CASE SubmitWarm
  <2>1. PICK x : x = [does |-> "warm", of |-> 0]
    OBVIOUS
  <2>2. x \in Work /\ x.does # "advance" /\ Added(jobs, x, jobs')
    BY <1>1, <2>1 DEF Work, Added, SubmitWarm
  <2>3. SchedulerOK' /\ BegunOK' /\ RequestsOK'
    BY <1>0, <1>1, <2>2, QueueGrows, BegunKept DEF StepInv, SubmitWarm
  <2>4. ServiceOK' /\ KvTypes'
    BY <1>1, ServiceKept DEF SubmitWarm, StepInv, KvTypes, people, service, history
  <2>. QED
    BY <2>3, <2>4, StepInvFrom
<1>2. CASE PollWarm
  <2>1. ServiceOK' /\ KvTypes'
    BY <1>2, ServiceKept DEF PollWarm, StepInv, KvTypes, people, service, history, Slots
  <2>. QED
    BY <1>2, <2>1, StepInvQuiet DEF PollWarm
<1>3. CASE DiscardQueue
  <2>1. RequestsOK' /\ DOMAIN reqs' = DOMAIN reqs /\ \A i \in DOMAIN reqs : reqs'[i] = Over
    BY <1>3, DiscardQueueMoves DEF StepInv
  <2>2. Active' = {} /\ Active = {} /\ UNCHANGED <<jobs, stepping, result>>
    BY <1>3, <2>1, OverOK DEF Active, DiscardQueue
  <2>3. SameActive
    BY <2>2 DEF SameActive
  <2>4. SchedulerOK' /\ BegunOK'
    BY <2>2, <2>3, QueueKept, BegunKept DEF StepInv
  <2>5. ServiceOK' /\ KvTypes'
    BY <1>3, ServiceKept DEF DiscardQueue, people, kv, history
  <2>. QED
    BY <2>1, <2>4, <2>5, StepInvFrom
<1>4. ASSUME NEW ok \in BOOLEAN, Warm(ok) \/ ReleaseContext(ok)
      PROVE  StepInv'
  <2>1. /\ Popped(jobs, jobs') /\ Head(jobs).does # "advance"
        /\ UNCHANGED <<reqs, stepping, result, grant, owner>>
    BY <1>4 DEF Warm, ReleaseContext, Popped, people, service
  <2>2. SchedulerOK' /\ BegunOK' /\ RequestsOK'
    BY <1>0, <2>1, QueueShrinks, BegunKept DEF StepInv
  <2>3. CASE Warm(ok)
    <3>1. KvTypes'
      <4>1. UNCHANGED <<contexts, kept>>
        BY <2>3 DEF Warm
      <4>2. ready' \in [Slots -> BOOLEAN] /\ avail' \subseteq Slots
        BY <2>3 DEF Warm, StepInv, KvTypes, Slots
      <4>3. failures' \in Nat
        BY <2>3 DEF Warm, StepInv, KvTypes, Fails
      <4>4. kv2' = [state |-> kv2'.state, requested |-> kv2'.requested, future |-> kv2'.future]
        <5>1. CASE ready[2]
          BY <2>3, <5>1 DEF Warm, StepInv, KvTypes
        <5>2. CASE ~ready[2]
          BY <2>3, <5>2 DEF Warm, StepInv, KvTypes
        <5>. QED
          BY <5>1, <5>2
      <4>. QED
        BY <4>1, <4>2, <4>3, <4>4 DEF KvTypes, StepInv
    <3>2. ServiceOK'
      BY <2>3, ServiceKept DEF Warm, people, service
    <3>. QED
      BY <2>2, <3>1, <3>2, StepInvFrom
  <2>4. CASE ReleaseContext(ok)
    <3>1. CASE UNCHANGED <<kv, released, failures>>
      <4>1. ServiceOK' /\ KvTypes'
        BY <2>1, <3>1, ServiceKept DEF kv
      <4>. QED
        BY <2>2, <4>1, StepInvFrom
    <3>2. CASE CloseContext(Head(jobs).of, ok) /\ released' = released \ {Head(jobs).of}
      <4>1. ServiceOK'
        BY <2>1, <3>2 DEF ServiceOK, StepInv, RequestTypes
      <4>2. PICK s : s = Head(jobs).of
        OBVIOUS
      <4>3. s \in Dialogues
        <5>1. Head(jobs) \in Work
          BY <2>1, PoppedFacts DEF StepInv, SchedulerOK
        <5>2. Head(jobs).does = "release"
          BY <2>4 DEF ReleaseContext
        <5>. QED
          BY <4>2, <5>1, <5>2 DEF Work, Dialogues
      <4>. QED
        BY <2>2, <3>2, <4>1, <4>2, <4>3, CloseFacts, StepInvFrom DEF StepInv
    <3>. QED
      BY <2>4, <3>1, <3>2 DEF ReleaseContext
  <2>. QED
    BY <1>4, <2>3, <2>4
<1>. QED
  BY <1>1, <1>2, <1>3, <1>4 DEF Housekeeping

LEMMA StepInvStop ==
    ASSUME StepInv, SubmitVoice \/ WarmKV2 \/ Stop \/ UNCHANGED lvars
    PROVE  StepInv'
<1>1. CASE SubmitVoice
  <2>1. RequestsOK' /\ Admits("voice", Voice, "none") /\ Request("voice", Voice, "none") \in Reqs
    <3>1. Voice = 0 /\ Voice \in Nat
      BY DEF Voice
    <3>2. Admit("voice", Voice, "none")
      BY <1>1 DEF SubmitVoice
    <3>. QED
      BY <3>1, <3>2, AdmitMoves DEF StepInv
  <2>2. SameActive
    BY <2>1, AdmitActive DEF StepInv
  <2>3. /\ UNCHANGED <<contexts, ready, avail, kept, failures, kv2, grant, owner, released>>
        /\ UNCHANGED <<jobs, stepping, result>>
    BY <1>1 DEF SubmitVoice, kv, service, history, people
  <2>4. SchedulerOK' /\ BegunOK'
    BY <2>2, <2>3, QueueKept, BegunKept DEF StepInv
  <2>. QED
    BY <2>1, <2>3, <2>4, ServiceKept, StepInvFrom
<1>2. CASE WarmKV2 \/ Stop \/ UNCHANGED lvars
  <2>1. /\ UNCHANGED <<contexts, ready, avail, kept, failures, grant, owner, released>>
        /\ UNCHANGED <<reqs, jobs, stepping, result>>
    BY <1>2 DEF WarmKV2, Stop, lvars, kv, people, service, history
  <2>2. kv2' = [state |-> kv2'.state, requested |-> kv2'.requested, future |-> kv2'.future]
    BY <1>2 DEF WarmKV2, Stop, lvars, kv, StepInv, KvTypes
  <2>3. ServiceOK' /\ KvTypes'
    BY <2>1, <2>2, ServiceKept DEF StepInv, KvTypes
  <2>. QED
    BY <2>1, <2>3, StepInvQuiet
<1>. QED
  BY <1>1, <1>2

LEMMA StepInvFlush ==
    ASSUME StepInv, NEW r \in Offers, NEW told \in BOOLEAN, FlushCompletions(r, told)
    PROVE  StepInv'
<1>1. /\ UNCHANGED <<contexts, ready, avail, kept, failures, kv2, owner, released>>
      /\ UNCHANGED <<reqs, jobs, stepping, result>> /\ grant' = [o \in Offers |-> grant'[o]]
  BY DEF FlushCompletions, kv, people, history, StepInv, RequestTypes
<1>2. ServiceOK'
  BY <1>1 DEF ServiceOK, StepInv, RequestTypes
<1>. QED
  BY <1>1, <1>2, ServiceKept, StepInvQuiet

LEMMA StepInvStep == StepInv /\ GateOK /\ [LNext]_lvars => StepInv'
  BY StepInvSessions, StepInvService, StepInvExecutor, StepInvScheduler, StepInvHousekeeping,
     StepInvStop, StepInvFlush DEF LNext

-----------------------------------------------------------------------------
(* A RUN that lost its grant stops.                                        *)

\* Nothing happens between the service's answer and the step it allows that could
\* concern it, except that the grant becomes void.
LEMMA GateQuiet ==
    ASSUME StepInv, GateOK, UNCHANGED <<allowed, late>>, allowed => UNCHANGED <<result, stepping>>,
           allowed => SameActive /\ \A i \in Active : reqs'[i].run = reqs[i].run,
           \A r \in Offers : /\ grant'[r] = "running" \/ Void(r)' \/ grant[r] # "running"
                             /\ Void(r) => Void(r)'
    PROVE  GateOK'
<1>1. late' \in [Offers -> {0, 1}] /\ \A r \in Offers : late'[r] = 1 => Void(r)'
  BY DEF GateOK
<1>2. ASSUME allowed', NEW i \in Active'
      PROVE  /\ reqs'[i].kind \in {"run", "manager"} /\ reqs'[i].started
             /\ late'[reqs'[i].run] = 0
             /\ grant'[reqs'[i].run] \in {"running", "revoked", "finished"}
  <2>1. allowed /\ i \in Active /\ reqs'[i].kind = reqs[i].kind /\ reqs'[i].run = reqs[i].run
        /\ (reqs[i].started => reqs'[i].started)
    BY <1>2 DEF SameActive
  <2>2. reqs[i].run \in Offers
    BY <2>1, ReqTyped DEF GateOK, StepInv, RequestOK, Active
  <2>3. grant'[reqs[i].run] \in {"running", "revoked", "finished"}
    BY <2>1, <2>2 DEF GateOK, Void
  <2>4. reqs[i].kind \in {"run", "manager"} /\ reqs[i].started /\ late'[reqs[i].run] = 0
    BY <2>1 DEF GateOK
  <2>. QED
    BY <2>1, <2>3, <2>4
<1>3. ASSUME allowed'
      PROVE  Active' # {} /\ result' = "none" /\ ~stepping'
  <2>1. allowed
    BY <1>3
  <2>2. Active' = Active /\ result' = result /\ stepping' = stepping
    BY <2>1 DEF SameActive
  <2>3. Active # {} /\ result = "none" /\ ~stepping
    BY <2>1 DEF GateOK
  <2>. QED
    BY <2>2, <2>3
<1>4. /\ allowed' => Active' # {} /\ result' = "none" /\ ~stepping'
      /\ \A i \in Active' : allowed' =>
           /\ reqs'[i].kind \in {"run", "manager"} /\ reqs'[i].started
           /\ late'[reqs'[i].run] = 0
           /\ grant'[reqs'[i].run] \in {"running", "revoked", "finished"}
  BY <1>2, <1>3, Zenon
<1>. QED
  BY <1>1, <1>4 DEF GateOK, Void

LEMMA GateInit == LInit => GateOK
<1>. SUFFICES ASSUME LInit PROVE GateOK
  OBVIOUS
<1>1. late = [r \in Offers |-> 0] /\ allowed = FALSE
  BY DEF LInit
<1>. QED
  BY <1>1 DEF GateOK

\* An admitted request disturbs nobody.
LEMMA GateAdmits ==
    ASSUME StepInv, GateOK, NEW kind \in {"human", "voice", "run"}, NEW who \in Nat,
           NEW run \in Offers \cup {"none"}, Admit(kind, who, run),
           IF kind = "human" THEN who \in Sessions ELSE who = 0, kind = "run" => run \in Offers,
           UNCHANGED <<allowed, late, result, stepping, grant>>
    PROVE  GateOK'
<1>1. Admits(kind, who, run) /\ Request(kind, who, run) \in Reqs
  BY AdmitMoves DEF StepInv
<1>2. SameActive
  BY <1>1, AdmitActive DEF StepInv
<1>3. \A i \in DOMAIN reqs : reqs'[i] = reqs[i]
  BY <1>1, AddedFacts DEF Admits, StepInv, RequestTypes
<1>. QED
  BY <1>2, <1>3, GateQuiet DEF Active, Void

LEMMA GateClients ==
    ASSUME StepInv, GateOK, NEW s \in Sessions, Acquire(s) \/ SubmitUser(s) \/ ReleaseSession(s)
    PROVE  GateOK'
<1>0. s \in Nat /\ UNCHANGED <<allowed, late, result, stepping, grant>>
  BY LegacyConstants DEF Acquire, SubmitUser, ReleaseSession, control, gate, service
<1>1. CASE Acquire(s)
  <2>1. SameActive /\ reqs' = reqs
    BY <1>1, UnmovedActive, UnchangedReqs DEF Acquire, StepInv
  <2>. QED
    BY <1>0, <2>1, GateQuiet DEF Void
<1>2. CASE SubmitUser(s)
  BY <1>0, <1>2, GateAdmits DEF SubmitUser
<1>3. CASE ReleaseSession(s)
  <2>1. DOMAIN reqs' = DOMAIN reqs
        /\ \A i \in DOMAIN reqs : /\ reqs'[i].kind = reqs[i].kind /\ reqs'[i].state = reqs[i].state
                                  /\ reqs'[i].run = reqs[i].run /\ reqs'[i].started = reqs[i].started
    BY <1>3, ReleaseMoves DEF StepInv
  <2>2. SameActive /\ \A i \in Active : reqs'[i].run = reqs[i].run
    BY <2>1 DEF SameActive, Active
  <2>. QED
    BY <1>0, <2>2, GateQuiet DEF Void
<1>. QED
  BY <1>1, <1>2, <1>3

LEMMA GateService ==
    ASSUME StepInv, GateOK, NEW r \in Offers,
           \/ ServiceOffers(r) \/ ServiceRevokes(r) \/ PollOffer(r)
           \/ \E told \in BOOLEAN : FlushCompletions(r, told)
    PROVE  GateOK'
<1>1. CASE PollOffer(r)
  BY <1>1, GateAdmits DEF PollOffer, control, gate, Nobody
<1>2. CASE ServiceOffers(r) \/ ServiceRevokes(r) \/ \E told \in BOOLEAN : FlushCompletions(r, told)
  <2>1. UNCHANGED <<reqs, allowed, late, result, stepping>>
    BY <1>2 DEF ServiceOffers, ServiceRevokes, FlushCompletions, control, gate
  <2>2. SameActive
    BY <2>1, UnmovedActive, UnchangedReqs DEF StepInv
  <2>3. grant = [o \in Offers |-> grant[o]]
    BY DEF StepInv, RequestTypes
  <2>4. \A o \in Offers : /\ grant'[o] = "running" \/ Void(o)' \/ grant[o] # "running"
                          /\ Void(o) => Void(o)'
    BY <1>2, <2>3 DEF ServiceOffers, ServiceRevokes, FlushCompletions, Void
  <2>. QED
    BY <2>1, <2>2, <2>4, GateQuiet
<1>. QED
  BY <1>1, <1>2

LEMMA GateExecutor ==
    ASSUME StepInv, GateOK, NEW i \in DOMAIN reqs, Executor(i) \/ ServiceAway(i)
    PROVE  GateOK'
<1>0. /\ reqs[i] \in Reqs /\ RequestOK(reqs[i]) /\ AtWork(i)
      /\ grant = [r \in Offers |-> grant[r]] /\ late \in [Offers -> {0, 1}]
  BY ReqTyped, Working DEF StepInv, GateOK, RequestTypes, Executor, ServiceAway, Allow, Discard,
     BeginStep, StepYields, StepEnds
<1>1. CASE Allow(i)
  <2>1. /\ OthersStay(i) /\ SameReq(reqs[i], reqs'[i]) /\ reqs'[i].started
        /\ reqs[i].run \in Offers /\ grant[reqs[i].run] \in {"offered", "running"}
        /\ grant' = [r \in Offers |-> IF r = reqs[i].run THEN "running" ELSE grant[r]]
    BY <1>1, AllowMoves DEF StepInv
  <2>2. UNCHANGED <<late, result, stepping>> /\ ~stepping /\ reqs[i].kind \in {"run", "manager"}
    BY <1>1 DEF Allow, Advancing
  <2>3. late[reqs[i].run] = 0
    BY <1>0, <2>1 DEF GateOK, Void
  <2>4. Active' = Active /\ \A j \in Active : j = i
    BY <1>0, <2>1 DEF OthersStay, SameReq, Active, AtWork
  <2>5. \A r \in Offers : late'[r] = 1 => Void(r)'
    BY <1>0, <2>1, <2>2, <2>3 DEF GateOK, Void
  <2>. QED
    BY <1>0, <2>1, <2>2, <2>3, <2>4, <2>5 DEF GateOK, AtWork, SameReq
<1>2. ASSUME NEW b \in BOOLEAN, NEW c \in BOOLEAN, BeginStep(i, b, c)
      PROVE  GateOK'
  <2>1. allowed' = FALSE /\ grant' = grant
    BY <1>2 DEF BeginStep, service
  <2>2. late' = IF reqs[i].kind \in {"run", "manager"} /\ grant[reqs[i].run] # "running"
                THEN [late EXCEPT ![reqs[i].run] = @ + 1] ELSE late
    BY <1>2 DEF BeginStep
  <2>3. reqs[i].kind \in {"run", "manager"} =>
          /\ reqs[i].run \in Offers /\ late[reqs[i].run] = 0
          /\ grant[reqs[i].run] = "running" \/ Void(reqs[i].run)
    BY <1>0, <1>2 DEF BeginStep, GateOK, AtWork, RequestOK
  <2>4. late' \in [Offers -> {0, 1}] /\ \A r \in Offers : late'[r] = 1 => Void(r)
    BY <1>0, <2>2, <2>3 DEF GateOK
  <2>. QED
    BY <2>1, <2>4 DEF GateOK, Void
<1>3. CASE ~Allow(i) /\ ~\E b, c \in BOOLEAN : BeginStep(i, b, c)
  <2>1. UNCHANGED <<allowed, late>> /\ ~allowed
    BY <1>0, <1>3 DEF Executor, ServiceAway, Discard, StepYields, StepEnds, control, gate, GateOK
  <2>2. \A r \in Offers : /\ grant'[r] = "running" \/ Void(r)' \/ grant[r] # "running"
                          /\ Void(r) => Void(r)'
    BY <1>0, <1>3 DEF Executor, ServiceAway, Discard, StepYields, StepEnds, service, Void
  <2>. QED
    BY <2>1, <2>2, GateQuiet
<1>. QED
  BY <1>1, <1>2, <1>3

\* The scheduler and the housekeeping move no request that is allowed a step.
LEMMA GateScheduler ==
    ASSUME StepInv, GateOK, (\E i \in DOMAIN reqs : SchedulerThread(i)) \/ Housekeeping
    PROVE  GateOK'
<1>1. UNCHANGED <<allowed, late, grant>>
  BY DEF SchedulerThread, StartNext, Requeue, Complete, Housekeeping, SubmitWarm, PollWarm,
         DiscardQueue, Warm, ReleaseContext, control, gate, service
<1>2. allowed => UNCHANGED <<reqs, result, stepping>>
  BY DEF SchedulerThread, StartNext, Requeue, Complete, Housekeeping, SubmitWarm, PollWarm,
         DiscardQueue, Warm, ReleaseContext, GateOK
<1>3. UNCHANGED reqs => SameActive
  BY UnmovedActive, UnchangedReqs DEF StepInv
<1>. QED
  BY <1>1, <1>2, <1>3, GateQuiet DEF Void

LEMMA GateStep == StepInv /\ GateOK /\ [LNext]_lvars => GateOK'
<1>. SUFFICES ASSUME StepInv, GateOK, [LNext]_lvars PROVE GateOK'
  OBVIOUS
<1>1. CASE SubmitVoice
  BY <1>1, GateAdmits DEF SubmitVoice, control, gate, service, Voice
<1>2. CASE WarmKV2 \/ Stop \/ UNCHANGED lvars
  <2>1. UNCHANGED <<reqs, allowed, late, result, stepping, grant>>
    BY <1>2 DEF WarmKV2, Stop, lvars, control, gate, service
  <2>2. SameActive
    BY <2>1, UnmovedActive, UnchangedReqs DEF StepInv
  <2>. QED
    BY <2>1, <2>2, GateQuiet DEF Void
<1>. QED
  BY <1>1, <1>2, GateClients, GateService, GateExecutor, GateScheduler DEF LNext

\* After its grant is void, a RUN makes at most the one step that was allowed before,
\* wherever it was suspended and whatever it has become.
THEOREM RevokedRunStopsProved == LSpec => []RevokedRunStops
<1>1. GateOK => RevokedRunStops
  BY DEF GateOK, RevokedRunStops
<1>. QED
  BY <1>1, StepInvInit, GateInit, StepInvStep, GateStep, PTL DEF LSpec

-----------------------------------------------------------------------------
(* CORE and service agree on the RUNs in hand.                             *)

\* A request that stays what it is to the service: a RUN or notification in hand, or not.
Keeps(i) == (i \in Others' <=> i \in Others) /\ (i \in Others => reqs'[i].run = reqs[i].run)
HandKept == DOMAIN reqs' = DOMAIN reqs /\ \A i \in DOMAIN reqs : Keeps(i)

LEMMA OffersKept ==
    ASSUME OffersAccounted, HandKept, UNCHANGED <<seen, finished>>,
           \A r \in Offers : grant'[r] = "running" => grant[r] = "running" \/ r \in InHand
    PROVE  OffersAccounted'
<1>1. Others \subseteq DOMAIN reqs /\ Others' \subseteq DOMAIN reqs'
  BY DEF Others, Alive
<1>2. Others' = Others /\ \A i \in Others : reqs'[i].run = reqs[i].run
  BY <1>1 DEF HandKept, Keeps
<1>3. InHand' = InHand
  BY <1>2 DEF InHand
<1>. QED
  BY <1>2, <1>3 DEF OffersAccounted

LEMMA HandQuiet ==
    ASSUME UNCHANGED reqs
    PROVE  HandKept
  BY DEF HandKept, Keeps, Others, Alive

\* One request moves on, but neither enters nor leaves.
LEMMA HandStays ==
    ASSUME NEW i \in DOMAIN reqs, OthersStay(i), reqs'[i].run = reqs[i].run,
           reqs'[i].state = "done" <=> reqs[i].state = "done",
           reqs'[i].kind \in Interactive <=> reqs[i].kind \in Interactive
    PROVE  HandKept
<1>1. Keeps(i)
  BY DEF OthersStay, Keeps, Others, Alive
<1>2. \A j \in DOMAIN reqs : j # i => Keeps(j)
  BY DEF OthersStay, Keeps, Others, Alive
<1>. QED
  BY <1>1, <1>2 DEF HandKept, OthersStay

LEMMA HandAdmits ==
    ASSUME StepInv, OffersAccounted, NEW kind \in {"human", "voice", "run"}, NEW who \in Nat,
           NEW run \in Offers \cup {"none"}, Admit(kind, who, run),
           IF kind = "human" THEN who \in Sessions ELSE who = 0, kind = "run" => run \in Offers,
           UNCHANGED <<grant, finished>>,
           IF kind = "run" THEN run \notin seen /\ seen' = seen \cup {run} ELSE UNCHANGED seen
    PROVE  OffersAccounted'
<1>1. PICK n : n = Len(reqs) + 1
  OBVIOUS
<1>2. /\ reqs'[n] = Request(kind, who, run) /\ n \in DOMAIN reqs'
      /\ \A m \in DOMAIN reqs : m \in DOMAIN reqs' /\ reqs'[m] = reqs[m] /\ m # n
      /\ \A m \in DOMAIN reqs' : m \in DOMAIN reqs \/ m = n
  BY <1>1, AdmitMoves, AddedFacts DEF Admits, StepInv, RequestTypes
<1>3. /\ reqs'[n].state = "pending" /\ reqs'[n].kind = kind /\ reqs'[n].run = run
  BY <1>2 DEF Request
<1>4. /\ Others' = IF kind = "run" THEN Others \cup {n} ELSE Others
      /\ n \notin Others /\ \A m \in Others : reqs'[m] = reqs[m]
  BY <1>2, <1>3 DEF Others, Alive, Interactive
<1>5. InHand' = IF kind = "run" THEN InHand \cup {run} ELSE InHand
  BY <1>3, <1>4 DEF InHand
<1>6. CASE kind = "run"
  <2>1. \A m \in Others : reqs[m].run # run
    BY <1>6 DEF OffersAccounted, InHand
  <2>2. \A i, j \in Others' : reqs'[i].run = reqs'[j].run => i = j
    BY <1>3, <1>4, <1>6, <2>1 DEF OffersAccounted
  <2>3. run \notin finished /\ run \notin InHand
    BY <1>6 DEF OffersAccounted
  <2>. QED
    BY <1>5, <1>6, <2>2, <2>3 DEF OffersAccounted
<1>7. CASE kind # "run"
  BY <1>4, <1>5, <1>7 DEF OffersAccounted
<1>. QED
  BY <1>6, <1>7

LEMMA OffersClients ==
    ASSUME StepInv, OffersAccounted, NEW s \in Sessions, Acquire(s) \/ SubmitUser(s) \/ ReleaseSession(s)
    PROVE  OffersAccounted'
<1>0. s \in Nat /\ UNCHANGED <<seen, finished, grant>>
  BY LegacyConstants DEF Acquire, SubmitUser, ReleaseSession, service
<1>1. CASE Acquire(s)
  BY <1>0, <1>1, HandQuiet, OffersKept DEF Acquire
<1>2. CASE SubmitUser(s)
  BY <1>0, <1>2, HandAdmits DEF SubmitUser
<1>3. CASE ReleaseSession(s)
  <2>1. DOMAIN reqs' = DOMAIN reqs
        /\ \A i \in DOMAIN reqs : /\ reqs'[i].kind = reqs[i].kind /\ reqs'[i].state = reqs[i].state
                                  /\ reqs'[i].run = reqs[i].run
    BY <1>3, ReleaseMoves DEF StepInv
  <2>2. HandKept
    BY <2>1 DEF HandKept, Keeps, Others, Alive
  <2>. QED
    BY <1>0, <2>2, OffersKept
<1>. QED
  BY <1>1, <1>2, <1>3

LEMMA OffersService ==
    ASSUME StepInv, OffersAccounted, NEW r \in Offers,
           ServiceOffers(r) \/ ServiceRevokes(r) \/ PollOffer(r)
    PROVE  OffersAccounted'
<1>1. CASE PollOffer(r)
  BY <1>1, HandAdmits DEF PollOffer, Nobody
<1>2. CASE ServiceOffers(r) \/ ServiceRevokes(r)
  <2>1. UNCHANGED <<reqs, seen, finished>> /\ grant = [o \in Offers |-> grant[o]]
    BY <1>2 DEF ServiceOffers, ServiceRevokes, StepInv, RequestTypes
  <2>2. \A o \in Offers : grant'[o] = "running" => grant[o] = "running"
    BY <1>2, <2>1 DEF ServiceOffers, ServiceRevokes
  <2>. QED
    BY <2>1, <2>2, HandQuiet, OffersKept
<1>. QED
  BY <1>1, <1>2

\* A completion goes out: the service ends the RUN, also if its reply is lost.
LEMMA OffersFlushed ==
    ASSUME StepInv, OffersAccounted, NEW r \in Offers, NEW told \in BOOLEAN, FlushCompletions(r, told)
    PROVE  OffersAccounted'
<1>1. /\ reqs' = reqs /\ r \in finished
      /\ IF told THEN seen' = seen \ {r} /\ finished' = finished \ {r}
         ELSE UNCHANGED <<seen, finished>>
  BY DEF FlushCompletions
<1>2. \A o \in Offers : grant'[o] = "running" => grant[o] = "running" /\ o # r
  <2>1. grant = [o \in Offers |-> grant[o]]
    BY DEF StepInv, RequestTypes
  <2>. QED
    BY <2>1 DEF FlushCompletions
<1>3. Others' = Others /\ InHand' = InHand
  BY <1>1 DEF InHand, Others, Alive
<1>4. r \notin InHand
  BY <1>1 DEF OffersAccounted
<1>5. seen' = InHand' \cup finished' /\ InHand' \cap finished' = {}
  BY <1>1, <1>3, <1>4 DEF OffersAccounted
<1>6. \A o \in Offers : grant'[o] = "running" => o \in seen'
  BY <1>1, <1>2 DEF OffersAccounted
<1>. QED
  BY <1>1, <1>3, <1>5, <1>6 DEF OffersAccounted

LEMMA OffersExecutor ==
    ASSUME StepInv, OffersAccounted, NEW i \in DOMAIN reqs, Executor(i) \/ ServiceAway(i)
    PROVE  OffersAccounted'
<1>0. /\ reqs[i] \in Reqs /\ RequestOK(reqs[i]) /\ grant = [r \in Offers |-> grant[r]]
      /\ i \in Active /\ reqs[i].state = "active"
  BY ReqTyped, Working DEF StepInv, RequestTypes, Executor, ServiceAway, Allow, Discard, BeginStep,
     StepYields, StepEnds, AtWork
<1>1. UNCHANGED <<seen, finished>>
  BY DEF Executor, ServiceAway, Allow, Discard, BeginStep, StepYields, StepEnds, service
<1>2. reqs[i].kind \in {"run", "manager"} => reqs[i].run \in InHand
  BY <1>0 DEF InHand, Others, Alive, Interactive
<1>3. ASSUME OthersStay(i), SameReq(reqs[i], reqs'[i])
      PROVE  HandKept
  BY <1>3, HandStays DEF SameReq
<1>4. CASE Allow(i)
  BY <1>0, <1>1, <1>2, <1>3, <1>4, AllowMoves, OffersKept DEF StepInv, Allow
<1>5. CASE ServiceAway(i)
  <2>1. reqs' = reqs /\ reqs[i].kind \in {"run", "manager"}
    BY <1>5 DEF ServiceAway
  <2>2. \A r \in Offers : grant'[r] = "running" => grant[r] = "running" \/ r = reqs[i].run
    BY <1>0, <1>5 DEF ServiceAway
  <2>. QED
    BY <1>1, <1>2, <2>1, <2>2, HandQuiet, OffersKept
<1>6. CASE Discard(i)
  <2>1. /\ OthersStay(i) /\ grant' = grant
        /\ reqs'[i] = [reqs[i] EXCEPT !.cancelled = TRUE, !.agent = FALSE, !.waits = FALSE]
    BY <1>6, DiscardMoves DEF StepInv, Discard, service
  <2>2. /\ reqs'[i].kind = reqs[i].kind /\ reqs'[i].run = reqs[i].run
        /\ reqs'[i].state = reqs[i].state
    BY <1>0, <2>1 DEF Reqs
  <2>. QED
    BY <1>1, <2>1, <2>2, HandStays, OffersKept
<1>7. ASSUME NEW b \in BOOLEAN, NEW c \in BOOLEAN, NEW what \in {"silent", "query", "reply", "error"},
             BeginStep(i, b, c) \/ StepYields(i, b) \/ StepEnds(i, what, b)
      PROVE  OffersAccounted'
  <2>1. OthersStay(i) /\ SameReq(reqs[i], reqs'[i])
    BY <1>7, BeginMoves, EndMoves DEF StepInv
  <2>2. grant' = grant
    BY <1>7 DEF BeginStep, StepYields, StepEnds, service
  <2>. QED
    BY <1>1, <1>3, <2>1, <2>2, OffersKept
<1>. QED
  BY <1>4, <1>5, <1>6, <1>7 DEF Executor

LEMMA OffersScheduler ==
    ASSUME StepInv, OffersAccounted, NEW i \in DOMAIN reqs, SchedulerThread(i)
    PROVE  OffersAccounted'
<1>0. reqs[i] \in Reqs /\ RequestOK(reqs[i]) /\ reqs = [j \in DOMAIN reqs |-> reqs[j]]
  BY ReqTyped DEF StepInv
<1>1. CASE StartNext(i)
  <2>1. OthersStay(i) /\ reqs'[i] = [reqs[i] EXCEPT !.state = "active"] /\ reqs[i].state = "pending"
    BY <1>1, StartMoves DEF StepInv, StartNext, Pending
  <2>2. /\ reqs'[i].kind = reqs[i].kind /\ reqs'[i].run = reqs[i].run /\ reqs'[i].state = "active"
    BY <1>0, <2>1 DEF Reqs
  <2>. QED
    BY <1>1, <2>1, <2>2, HandStays, OffersKept DEF StartNext, service
<1>2. CASE Requeue(i)
  <2>1. OthersStay(i) /\ reqs'[i].state = "pending" /\ reqs[i].state = "active"
    BY <1>2, RequeueMoves DEF StepInv, Requeue, Active
  <2>2. reqs'[i].run = reqs[i].run /\ (reqs'[i].kind \in Interactive <=> reqs[i].kind \in Interactive)
    BY <1>0, <1>2 DEF Requeue, StepInv, BegunOK, Interactive, Reqs
  <2>. QED
    BY <1>2, <2>1, <2>2, HandStays, OffersKept DEF Requeue, service
<1>3. ASSUME NEW ok \in BOOLEAN, Complete(i, ok)
      PROVE  OffersAccounted'
  <2>1. /\ OthersStay(i) /\ reqs'[i].state = "done" /\ reqs[i].state = "active"
        /\ UNCHANGED <<seen, grant>>
        /\ finished' = IF reqs[i].kind \in Interactive THEN finished ELSE finished \cup {reqs[i].run}
    BY <1>3, CompleteMoves, OverOK DEF StepInv, Complete, Active
  <2>2. Others' = Others \ {i} /\ \A j \in Others' : reqs'[j].run = reqs[j].run
    BY <2>1 DEF OthersStay, Others, Alive
  <2>3. CASE reqs[i].kind \in Interactive
    <3>1. Others' = Others /\ InHand' = InHand
      BY <2>2, <2>3 DEF Others, InHand
    <3>. QED
      BY <2>1, <2>2, <2>3, <3>1 DEF OffersAccounted
  <2>4. CASE reqs[i].kind \notin Interactive
    <3>1. i \in Others /\ reqs[i].run \in InHand
      BY <2>1, <2>4 DEF Others, Alive, InHand
    <3>2. InHand' = InHand \ {reqs[i].run}
      BY <2>2, <3>1 DEF InHand, OffersAccounted
    <3>. QED
      BY <2>1, <2>2, <2>4, <3>1, <3>2 DEF OffersAccounted
  <2>. QED
    BY <2>3, <2>4
<1>. QED
  BY <1>1, <1>2, <1>3 DEF SchedulerThread

LEMMA OffersHousekeeping ==
    ASSUME StepInv, OffersAccounted, Housekeeping
    PROVE  OffersAccounted'
<1>1. CASE DiscardQueue
  <2>1. Others' = {} /\ InHand' = {}
    BY <1>1, DiscardQueueMoves, OverOK DEF StepInv, Others, Alive, InHand
  <2>2. UNCHANGED <<seen, grant>> /\ finished' = finished \cup InHand
    BY <1>1 DEF DiscardQueue, InHand
  <2>. QED
    BY <2>1, <2>2 DEF OffersAccounted
<1>2. CASE ~DiscardQueue
  <2>1. UNCHANGED <<reqs, seen, finished, grant>>
    BY <1>2 DEF Housekeeping, SubmitWarm, PollWarm, Warm, ReleaseContext, service
  <2>. QED
    BY <2>1, HandQuiet, OffersKept
<1>. QED
  BY <1>1, <1>2

\* An offer the CORE has taken is in hand or still to be reported, once, and every
\* RUN the service believes to run is among them.
THEOREM OffersAccountedProved == LSpec => []OffersAccounted
<1>1. LInit => OffersAccounted
  BY DEF LInit, OffersAccounted, InHand, Others, Alive
<1>2. ASSUME StepInv, OffersAccounted, [LNext]_lvars
      PROVE  OffersAccounted'
  <2>1. CASE SubmitVoice
    BY <1>2, <2>1, HandAdmits DEF SubmitVoice, service, Voice
  <2>2. CASE WarmKV2 \/ Stop \/ UNCHANGED lvars
    <3>1. UNCHANGED <<reqs, seen, finished, grant>>
      BY <2>2 DEF WarmKV2, Stop, lvars, service
    <3>. QED
      BY <1>2, <3>1, HandQuiet, OffersKept
  <2>. QED
    BY <1>2, <2>1, <2>2, OffersClients, OffersService, OffersFlushed, OffersExecutor,
       OffersScheduler, OffersHousekeeping DEF LNext
<1>. QED
  BY <1>1, <1>2, StepInvInit, GateInit, StepInvStep, GateStep, PTL DEF LSpec

-----------------------------------------------------------------------------
(* The turns of the connections.  A turn that is not cancelled belongs to   *)
(* the owner of the session, and came after every cancelled one.            *)

Asks(i) == i \in Alive /\ reqs[i].kind = "human"
Live(i) == Asks(i) /\ ~reqs[i].cancelled

OrderOK == /\ \A i \in DOMAIN reqs : Live(i) => reqs[i].who = owner
           /\ \A i, j \in DOMAIN reqs : Asks(i) /\ reqs[i].cancelled /\ Live(j) => i < j

\* While a turn of the owner advances, no release follows it in the queue.
LastOK == \A m \in DOMAIN jobs : Advance(m) /\ Live(jobs[m].of) => m = Len(jobs)

\* A release that has still something to release is not forgotten.
ReleasesOK == \A m \in DOMAIN jobs :
                jobs[m].does = "release" /\ contexts[jobs[m].of] # 0 => jobs[m].of \in released

DialogueInv == OrderOK /\ LastOK /\ ReleasesOK

\* The turns stay, and stay what they are; or one of them is over.
HumanKept(i) == /\ Asks(i)' <=> Asks(i)
                /\ Asks(i) => reqs'[i].who = reqs[i].who /\ reqs'[i].cancelled = reqs[i].cancelled
HumansKept == DOMAIN reqs' = DOMAIN reqs /\ \A i \in DOMAIN reqs : HumanKept(i)
HumanLeaves(i) == /\ DOMAIN reqs' = DOMAIN reqs /\ ~Asks(i)'
                  /\ \A j \in DOMAIN reqs : j # i => HumanKept(j)

LEMMA HumansStay ==
    ASSUME StepInv, NEW i \in DOMAIN reqs,
           Executor(i) \/ ServiceAway(i) \/ StartNext(i) \/ Requeue(i)
    PROVE  HumansKept
<1>0. reqs[i] \in Reqs /\ RequestOK(reqs[i])
  BY ReqTyped DEF StepInv
<1>1. ASSUME OthersStay(i), HumanKept(i)
      PROVE  HumansKept
  BY <1>1 DEF OthersStay, HumansKept, HumanKept, Asks, Alive
<1>2. ASSUME OthersStay(i), SameReq(reqs[i], reqs'[i])
      PROVE  HumansKept
  <2>1. HumanKept(i)
    BY <1>2 DEF OthersStay, SameReq, HumanKept, Asks, Alive
  <2>. QED
    BY <1>1, <1>2, <2>1
<1>3. CASE Discard(i)
  <2>1. /\ OthersStay(i) /\ i \in Active
        /\ reqs'[i] = [reqs[i] EXCEPT !.cancelled = TRUE, !.agent = FALSE, !.waits = FALSE]
    BY <1>3, DiscardMoves, Working DEF StepInv, Discard, AtWork
  <2>2. reqs[i].kind = "human" => reqs[i].cancelled = TRUE
    BY <1>0, <1>3 DEF Discard, Refused, Reqs
  <2>3. /\ reqs'[i].kind = reqs[i].kind /\ reqs'[i].who = reqs[i].who
        /\ reqs'[i].state = reqs[i].state /\ reqs'[i].cancelled = TRUE
    BY <1>0, <2>1 DEF Reqs
  <2>4. HumanKept(i)
    BY <2>1, <2>2, <2>3 DEF OthersStay, HumanKept, Asks, Alive
  <2>. QED
    BY <1>1, <2>1, <2>4
<1>4. CASE ServiceAway(i)
  <2>1. reqs' = reqs
    BY <1>4 DEF ServiceAway
  <2>. QED
    BY <2>1 DEF HumansKept, HumanKept, Asks, Alive
<1>5. ASSUME NEW b \in BOOLEAN, NEW c \in BOOLEAN, BeginStep(i, b, c) \/ Allow(i)
      PROVE  HumansKept
  <2>1. OthersStay(i) /\ SameReq(reqs[i], reqs'[i])
    BY <1>5, BeginMoves, AllowMoves DEF StepInv
  <2>. QED
    BY <1>2, <2>1
<1>6. ASSUME NEW b \in BOOLEAN, NEW what \in {"silent", "query", "reply", "error"},
             StepYields(i, b) \/ StepEnds(i, what, b)
      PROVE  HumansKept
  <2>1. OthersStay(i) /\ SameReq(reqs[i], reqs'[i])
    BY <1>6, EndMoves DEF StepInv
  <2>. QED
    BY <1>2, <2>1
<1>7. CASE StartNext(i)
  <2>1. OthersStay(i) /\ reqs'[i] = [reqs[i] EXCEPT !.state = "active"]
    BY <1>7, StartMoves DEF StepInv
  <2>2. reqs[i].state = "pending"
    BY <1>7 DEF StartNext, Pending
  <2>3. HumanKept(i)
    BY <1>0, <2>1, <2>2 DEF OthersStay, HumanKept, Asks, Alive, Reqs
  <2>. QED
    BY <1>1, <2>1, <2>3
<1>8. CASE Requeue(i)
  <2>1. /\ OthersStay(i) /\ reqs'[i].state = "pending" /\ reqs'[i].who = reqs[i].who
        /\ reqs'[i].cancelled = reqs[i].cancelled
        /\ reqs'[i].kind = "human" <=> reqs[i].kind = "human"
    BY <1>8, RequeueMoves DEF StepInv
  <2>2. reqs[i].state = "active"
    BY <1>8 DEF Requeue, Active
  <2>3. HumanKept(i)
    BY <2>1, <2>2 DEF OthersStay, HumanKept, Asks, Alive
  <2>. QED
    BY <1>1, <2>1, <2>3
<1>. QED
  BY <1>3, <1>4, <1>5, <1>6, <1>7, <1>8 DEF Executor

LEMMA HumansQuiet ==
    ASSUME UNCHANGED reqs
    PROVE  HumansKept
  BY DEF HumansKept, HumanKept, Asks, Alive

\* A request of another kind is admitted.
LEMMA HumansApart ==
    ASSUME StepInv, NEW kind \in {"human", "voice", "run"}, NEW who, NEW run, Admits(kind, who, run),
           Request(kind, who, run) \in Reqs
    PROVE  \E n \in Nat :
             /\ n \in DOMAIN reqs' /\ n \notin DOMAIN reqs
             /\ \A i \in DOMAIN reqs : HumanKept(i) /\ i < n
             /\ kind # "human" => ~Asks(n)'
             /\ kind = "human" => Live(n)' /\ reqs'[n].who = who
             /\ \A i \in DOMAIN reqs' : i \in DOMAIN reqs \/ i = n
<1>1. PICK n \in Nat : n = Len(reqs) + 1
  BY DEF StepInv, RequestTypes
<1>2. /\ DOMAIN reqs' = 1..n /\ reqs'[n] = Request(kind, who, run)
      /\ \A m \in DOMAIN reqs : m \in DOMAIN reqs' /\ reqs'[m] = reqs[m]
      /\ \A m \in DOMAIN reqs' : m \in DOMAIN reqs \/ m = n
      /\ DOMAIN reqs = 1..(n - 1)
  BY <1>1, AddedFacts DEF Admits, StepInv, RequestTypes
<1>3. n \in DOMAIN reqs' /\ n \notin DOMAIN reqs /\ \A i \in DOMAIN reqs : i < n
  BY <1>1, <1>2 DEF StepInv, RequestTypes
<1>4. \A i \in DOMAIN reqs : HumanKept(i)
  BY <1>2 DEF HumanKept, Asks, Alive
<1>5. PICK q : q = reqs'[n]
  OBVIOUS
<1>6. q.kind = kind /\ q.who = who /\ q.state = "pending" /\ ~q.cancelled
  BY <1>2, <1>5 DEF Request
<1>7. kind # "human" => ~Asks(n)'
  BY <1>5, <1>6 DEF Asks
<1>8. kind = "human" => Live(n)' /\ reqs'[n].who = who
  BY <1>3, <1>5, <1>6 DEF Asks, Live, Alive
<1>. QED
  BY <1>2, <1>3, <1>4, <1>7, <1>8

LEMMA HumanEnds ==
    ASSUME StepInv, NEW i \in DOMAIN reqs, NEW ok \in BOOLEAN, Complete(i, ok)
    PROVE  HumanLeaves(i)
<1>1. OthersStay(i) /\ reqs'[i] = Over
  BY CompleteMoves DEF StepInv
<1>2. \A j \in DOMAIN reqs : j # i => HumanKept(j)
  BY <1>1 DEF OthersStay, HumanKept, Asks, Alive
<1>. QED
  BY <1>1, <1>2, OverOK DEF HumanLeaves, Asks, Alive, OthersStay

LEMMA OrderKept ==
    ASSUME OrderOK, HumansKept \/ \E i \in DOMAIN reqs : HumanLeaves(i), owner' = owner
    PROVE  OrderOK'
<1>1. /\ DOMAIN reqs' = DOMAIN reqs
      /\ \A i \in DOMAIN reqs : Asks(i)' =>
            Asks(i) /\ reqs'[i].who = reqs[i].who /\ reqs'[i].cancelled = reqs[i].cancelled
  BY DEF HumansKept, HumanLeaves, HumanKept
<1>. QED
  BY <1>1 DEF OrderOK, Live

LEMMA LastKept ==
    ASSUME StepInv, LastOK, HumansKept, UNCHANGED jobs \/ Popped(jobs, jobs')
    PROVE  LastOK'
<1>1. \A i : Live(i)' => Live(i)
  BY DEF HumansKept, HumanKept, Live, Asks, Alive
<1>2. CASE UNCHANGED jobs
  BY <1>1, <1>2 DEF LastOK, Advance
<1>3. CASE Popped(jobs, jobs')
  <2>1. PICK q : q = jobs'
    OBVIOUS
  <2>2. /\ Len(q) = Len(jobs) - 1 /\ Len(jobs) \in Nat
        /\ \A m \in DOMAIN q : m + 1 \in DOMAIN jobs /\ q[m] = jobs[m + 1] /\ m \in Nat
    BY <1>3, <2>1, PoppedFacts DEF StepInv, SchedulerOK
  <2>3. \A m \in DOMAIN q : q[m].does = "advance" /\ Live(q[m].of)' => m = Len(q)
    <3>. TAKE m \in DOMAIN q
    <3>1. q[m].does = "advance" /\ Live(q[m].of)' => m + 1 = Len(jobs)
      BY <1>1, <2>2 DEF LastOK, Advance
    <3>. QED
      BY <2>2, <3>1
  <2>. QED
    BY <2>1, <2>3 DEF LastOK, Advance, Live, Asks, Alive
<1>. QED
  BY <1>2, <1>3

LEMMA LastNone ==
    ASSUME \A m \in DOMAIN jobs' : ~Advance(m)'
    PROVE  LastOK'
  BY DEF LastOK

\* Every release in the queue was there before, or its session is among the released.
ReleasesFrom == \A m \in DOMAIN jobs' : jobs'[m].does = "release" =>
                  jobs'[m].of \in released' \/ \E n \in DOMAIN jobs : jobs'[m] = jobs[n]

LEMMA ReleasesKept ==
    ASSUME StepInv, ReleasesOK, ReleasesFrom,
           \A d \in Sessions : contexts'[d] # 0 => contexts[d] # 0 /\ (d \in released => d \in released')
    PROVE  ReleasesOK'
<1>1. \A n \in DOMAIN jobs : jobs[n].does = "release" => jobs[n].of \in Sessions
  BY DEF StepInv, SchedulerOK, Work
<1>. QED
  BY <1>1 DEF ReleasesOK, ReleasesFrom

LEMMA QueueFrom ==
    ASSUME StepInv, UNCHANGED jobs \/ Popped(jobs, jobs') \/ \E x \in Work : Added(jobs, x, jobs') /\ (x.does = "release" => x.of \in released')
    PROVE  ReleasesFrom
<1>1. CASE UNCHANGED jobs
  BY <1>1 DEF ReleasesFrom
<1>2. CASE Popped(jobs, jobs')
  <2>1. \A m \in DOMAIN jobs' : m + 1 \in DOMAIN jobs /\ jobs'[m] = jobs[m + 1]
    BY <1>2, PoppedFacts DEF StepInv, SchedulerOK
  <2>. QED
    BY <2>1 DEF ReleasesFrom
<1>3. ASSUME NEW x \in Work, Added(jobs, x, jobs'), x.does = "release" => x.of \in released'
      PROVE  ReleasesFrom
  <2>1. /\ jobs'[Len(jobs) + 1] = x /\ \A m \in DOMAIN jobs : jobs'[m] = jobs[m]
        /\ \A m \in DOMAIN jobs' : m \in DOMAIN jobs \/ m = Len(jobs) + 1
    BY <1>3, AddedFacts DEF StepInv, SchedulerOK
  <2>. QED
    BY <1>3, <2>1 DEF ReleasesFrom
<1>. QED
  BY <1>1, <1>2, <1>3

LEMMA DialogueQuiet ==
    ASSUME DialogueInv, UNCHANGED <<reqs, jobs, contexts, owner, released>>
    PROVE  DialogueInv'
  BY DEF DialogueInv, OrderOK, LastOK, ReleasesOK, Live, Asks, Alive, Advance

\* A step of the executor that leaves the contexts alone.
LEMMA DialogueReturns ==
    ASSUME StepInv, DialogueInv, HumansKept, UNCHANGED jobs \/ Popped(jobs, jobs'),
           UNCHANGED <<owner, released>>, \A d \in Sessions : contexts'[d] # 0 => contexts[d] # 0
    PROVE  DialogueInv'
<1>1. OrderOK'
  BY OrderKept DEF DialogueInv
<1>2. LastOK'
  BY LastKept DEF DialogueInv
<1>3. ReleasesOK'
  BY QueueFrom, ReleasesKept DEF DialogueInv
<1>. QED
  BY <1>1, <1>2, <1>3 DEF DialogueInv

\* A turn of the owner that advances is alone in the queue.
LEMMA AloneInTheQueue ==
    ASSUME StepInv, DialogueInv, NEW i, AtWork(i), Live(i)
    PROVE  \A m \in DOMAIN jobs : m = 1 /\ jobs[m].does = "advance"
<1>1. Len(jobs) = 1 /\ DOMAIN jobs = 1..Len(jobs)
  <2>1. 1 \in DOMAIN jobs /\ Advance(1) /\ Live(jobs[1].of)
    BY DEF AtWork
  <2>2. DOMAIN jobs = 1..Len(jobs)
    BY DEF StepInv, SchedulerOK
  <2>. QED
    BY <2>1, <2>2 DEF DialogueInv, LastOK
<1>. QED
  BY <1>1 DEF AtWork, Advance

\* A dialogue takes a context in the step of its turn, and no other dialogue does.
LEMMA WhoTakes ==
    ASSUME StepInv, NEW i \in DOMAIN reqs, NEW b \in BOOLEAN, NEW c \in BOOLEAN, BeginStep(i, b, c)
    PROVE  /\ AtWork(i) /\ ~reqs[i].cancelled
           /\ \/ UNCHANGED <<ready, avail, contexts, starved, failures>>
              \/ /\ reqs[i].who \in Dialogues /\ \E slot \in {0, 1, 2} : Takes(reqs[i].who, slot)
                 /\ Live(i) \/ reqs[i].who = Voice
<1>1. AtWork(i) /\ ~reqs[i].cancelled /\ i \in Alive
  BY Working, ReqTyped DEF StepInv, BeginStep, AtWork, Active, Alive
<1>2. \/ UNCHANGED <<ready, avail, contexts, starved, failures>>
      \/ reqs[i].kind \in Interactive /\ \E slot \in {0, 1, 2} : Takes(reqs[i].who, slot)
  BY BeginMoves DEF StepInv
<1>3. reqs[i].kind \in Interactive => reqs[i].who \in Dialogues /\ (Live(i) \/ reqs[i].who = Voice)
  BY <1>1, WhoAsks DEF StepInv, Interactive, Live, Asks
<1>. QED
  BY <1>1, <1>2, <1>3

LEMMA DialogueExecutor ==
    ASSUME StepInv, DialogueInv, NEW i \in DOMAIN reqs, Executor(i) \/ ServiceAway(i)
    PROVE  DialogueInv'
<1>1. HumansKept
  BY HumansStay
<1>2. \A w : Returns(w) => (jobs # <<>> => Popped(jobs, jobs'))
  BY DEF Returns, Popped
<1>3. CASE Discard(i) \/ ServiceAway(i)
  <2>1. Popped(jobs, jobs') /\ UNCHANGED <<owner, released, contexts>>
    BY <1>3 DEF Discard, ServiceAway, kv, people, Advancing, Returns, Popped
  <2>. QED
    BY <1>1, <2>1, DialogueReturns
<1>4. ASSUME NEW b \in BOOLEAN, NEW what \in {"silent", "query", "reply", "error"},
             StepYields(i, b) \/ StepEnds(i, what, b)
      PROVE  DialogueInv'
  <2>1. AtWork(i)
    BY <1>4, Working DEF StepInv, StepYields, StepEnds
  <2>2. Popped(jobs, jobs') /\ UNCHANGED <<owner, released, contexts>>
    BY <1>4, <2>1 DEF StepYields, StepEnds, kv, people, Returns, Popped, AtWork
  <2>. QED
    BY <1>1, <2>2, DialogueReturns
<1>5. ASSUME NEW b \in BOOLEAN, NEW c \in BOOLEAN, BeginStep(i, b, c)
      PROVE  DialogueInv'
  <2>1. /\ AtWork(i) /\ ~reqs[i].cancelled
        /\ \/ UNCHANGED <<ready, avail, contexts, starved, failures>>
           \/ /\ reqs[i].who \in Dialogues /\ \E slot \in {0, 1, 2} : Takes(reqs[i].who, slot)
              /\ Live(i) \/ reqs[i].who = Voice
    BY <1>5, WhoTakes
  <2>2. UNCHANGED jobs \/ Popped(jobs, jobs')
    BY <1>2, <1>5, <2>1 DEF BeginStep, AtWork
  <2>3. UNCHANGED <<owner, released>>
    BY <1>5 DEF BeginStep, people
  <2>4. CASE \A d \in Sessions : contexts'[d] # 0 => contexts[d] # 0
    BY <1>1, <2>2, <2>3, <2>4, DialogueReturns
  <2>5. CASE reqs[i].who = Voice /\ \E slot \in {0, 1, 2} : Takes(reqs[i].who, slot)
    <3>1. \A d \in Sessions : contexts'[d] = contexts[d]
      BY <2>5, LegacyConstants DEF Takes, StepInv, KvTypes, Voice, Dialogues
    <3>. QED
      BY <2>4, <3>1
  <2>6. CASE Live(i)
    <3>1. \A m \in DOMAIN jobs : jobs[m].does = "advance"
      BY <2>1, <2>6, AloneInTheQueue
    <3>2. \A m \in DOMAIN jobs' : jobs'[m].does = "advance"
      <4>1. CASE UNCHANGED jobs
        BY <3>1, <4>1
      <4>2. CASE Popped(jobs, jobs')
        <5>1. \A m \in DOMAIN jobs' : m + 1 \in DOMAIN jobs /\ jobs'[m] = jobs[m + 1]
          BY <4>2, PoppedFacts DEF StepInv, SchedulerOK
        <5>. QED
          BY <3>1, <5>1
      <4>. QED
        BY <2>2, <4>1, <4>2
    <3>3. OrderOK' /\ LastOK'
      BY <1>1, <2>2, <2>3, OrderKept, LastKept DEF DialogueInv
    <3>4. ReleasesOK'
      BY <3>2 DEF ReleasesOK
    <3>. QED
      BY <3>3, <3>4 DEF DialogueInv
  <2>. QED
    BY <2>1, <2>4, <2>5, <2>6
<1>6. CASE Allow(i)
  <2>1. UNCHANGED <<jobs, owner, released, contexts>>
    BY <1>6 DEF Allow, kv, people
  <2>. QED
    BY <1>1, <2>1, DialogueReturns
<1>. QED
  BY <1>3, <1>4, <1>5, <1>6 DEF Executor

LEMMA DialogueScheduler ==
    ASSUME StepInv, StepInv', DialogueInv, NEW i \in DOMAIN reqs, SchedulerThread(i)
    PROVE  DialogueInv'
<1>0. Active' = {} => LastOK'
  <2>1. Active' = {} => \A m \in DOMAIN jobs' : ~Advance(m)'
    BY DEF StepInv, SchedulerOK
  <2>. QED
    BY <2>1, LastNone
<1>1. CASE StartNext(i)
  <2>1. HumansKept /\ UNCHANGED <<owner, released, contexts>>
    BY <1>1, HumansStay DEF StartNext, people, kv
  <2>2. PICK x : x = [does |-> "advance", of |-> i]
    OBVIOUS
  <2>3. x \in Work /\ x.does = "advance" /\ Added(jobs, x, jobs')
    BY <1>1, <2>2 DEF StartNext, Added, Work, StepInv, RequestTypes
  <2>4. LastOK'
    <3>1. PICK q : q = jobs'
      OBVIOUS
    <3>2. /\ Len(q) = Len(jobs) + 1 /\ \A m \in DOMAIN jobs : q[m] = jobs[m]
          /\ \A m \in DOMAIN q : m \in DOMAIN jobs \/ m = Len(jobs) + 1
      BY <2>3, <3>1, AddedFacts DEF StepInv, SchedulerOK
    <3>3. \A m \in DOMAIN jobs : ~Advance(m)
      BY <1>1, Idle DEF StartNext, StepInv
    <3>4. \A m \in DOMAIN q : q[m].does = "advance" => m = Len(q)
      BY <3>2, <3>3 DEF Advance
    <3>. QED
      BY <3>1, <3>4 DEF LastOK, Advance
  <2>5. OrderOK'
    BY <2>1, OrderKept DEF DialogueInv
  <2>6. ReleasesOK'
    BY <2>1, <2>3, QueueFrom, ReleasesKept DEF DialogueInv
  <2>. QED
    BY <2>4, <2>5, <2>6 DEF DialogueInv
<1>2. ASSUME NEW ok \in BOOLEAN, Requeue(i) \/ Complete(i, ok)
      PROVE  DialogueInv'
  <2>1. UNCHANGED <<owner, released, stepping>> /\ i \in Active /\ result # "none" /\ FollowUp(i)
        /\ result' = "none"
    BY <1>2 DEF Requeue, Complete, people
  <2>2. OrderOK'
    BY <1>2, <2>1, HumansStay, HumanEnds, OrderKept DEF DialogueInv
  <2>3. OthersStay(i) /\ reqs'[i].state # "active"
    BY <1>2, RequeueMoves, CompleteMoves, OverOK DEF StepInv
  <2>4. /\ Active' = {}
        /\ UNCHANGED jobs \/ \E x \in Work : Added(jobs, x, jobs') /\ x.does = "release"
                                 /\ x.of = reqs[i].who /\ reqs[i].who \in released
    BY <2>1, <2>3, QueueFollows DEF StepInv
  <2>5. \A d \in Sessions : contexts'[d] # 0 => contexts[d] # 0
    <3>1. CASE UNCHANGED contexts
      BY <3>1
    <3>2. CASE CloseContext(reqs[i].who, ok)
      BY <3>2, LegacyConstants DEF CloseContext, StepInv, KvTypes, Dialogues
    <3>. QED
      BY <1>2, <3>1, <3>2 DEF Requeue, Complete, kv
  <2>6. ReleasesOK'
    BY <2>1, <2>4, <2>5, QueueFrom, ReleasesKept DEF DialogueInv
  <2>. QED
    BY <1>0, <2>2, <2>4, <2>6 DEF DialogueInv
<1>. QED
  BY <1>1, <1>2 DEF SchedulerThread

LEMMA DialogueHousekeeping ==
    ASSUME StepInv, StepInv', DialogueInv, Housekeeping
    PROVE  DialogueInv'
<1>0. Active' = {} => LastOK'
  <2>1. Active' = {} => \A m \in DOMAIN jobs' : ~Advance(m)'
    BY DEF StepInv, SchedulerOK
  <2>. QED
    BY <2>1, LastNone
<1>1. CASE SubmitWarm
  <2>1. HumansKept /\ UNCHANGED <<owner, released, contexts>> /\ Active' = {}
    BY <1>1, HumansQuiet DEF SubmitWarm, people, Active
  <2>2. PICK x : x = [does |-> "warm", of |-> 0]
    OBVIOUS
  <2>3. x \in Work /\ x.does = "warm" /\ Added(jobs, x, jobs')
    BY <1>1, <2>2 DEF SubmitWarm, Added, Work
  <2>4. OrderOK'
    BY <2>1, OrderKept DEF DialogueInv
  <2>5. ReleasesOK'
    BY <2>1, <2>3, QueueFrom, ReleasesKept DEF DialogueInv
  <2>. QED
    BY <1>0, <2>1, <2>4, <2>5 DEF DialogueInv
<1>2. CASE PollWarm
  BY <1>2, DialogueQuiet DEF PollWarm, people
<1>3. CASE DiscardQueue
  <2>1. \A i \in DOMAIN reqs' : ~Asks(i)'
    BY <1>3, DiscardQueueMoves, OverOK DEF StepInv, Asks, Alive
  <2>2. UNCHANGED <<owner, released, contexts, jobs>>
    BY <1>3 DEF DiscardQueue, people, kv
  <2>3. LastOK'
    BY <1>3 DEF DiscardQueue, LastOK
  <2>4. OrderOK' /\ ReleasesOK'
    BY <2>1, <2>2 DEF OrderOK, Live, ReleasesOK, DialogueInv
  <2>. QED
    BY <2>3, <2>4 DEF DialogueInv
<1>4. ASSUME NEW ok \in BOOLEAN, Warm(ok)
      PROVE  DialogueInv'
  <2>1. HumansKept /\ Popped(jobs, jobs') /\ UNCHANGED <<owner, released, contexts>>
    BY <1>4, HumansQuiet DEF Warm, people, Popped
  <2>. QED
    BY <2>1, DialogueReturns
<1>5. ASSUME NEW ok \in BOOLEAN, ReleaseContext(ok)
      PROVE  DialogueInv'
  <2>1. HumansKept /\ Popped(jobs, jobs') /\ UNCHANGED owner
    BY <1>5, HumansQuiet DEF ReleaseContext, Popped
  <2>2. OrderOK' /\ LastOK'
    BY <2>1, OrderKept, LastKept DEF DialogueInv
  <2>3. \A d \in Sessions : contexts'[d] # 0 => contexts[d] # 0 /\ (d \in released => d \in released')
    <3>1. CASE UNCHANGED <<kv, released>>
      BY <3>1 DEF kv
    <3>2. CASE CloseContext(Head(jobs).of, ok) /\ released' = released \ {Head(jobs).of}
      <4>1. contexts' = [contexts EXCEPT ![Head(jobs).of] = 0]
        BY <3>2 DEF CloseContext
      <4>. QED
        BY <3>2, <4>1 DEF StepInv, KvTypes, Dialogues
    <3>. QED
      BY <1>5, <3>1, <3>2 DEF ReleaseContext
  <2>4. ReleasesOK'
    BY <2>1, <2>3, QueueFrom, ReleasesKept DEF DialogueInv
  <2>. QED
    BY <2>2, <2>4 DEF DialogueInv
<1>. QED
  BY <1>1, <1>2, <1>3, <1>4, <1>5 DEF Housekeeping

LEMMA DialogueAdmits ==
    ASSUME StepInv, DialogueInv, NEW kind \in {"human", "voice", "run"}, NEW who, NEW run,
           Admits(kind, who, run), Request(kind, who, run) \in Reqs, kind = "human" => who = owner,
           UNCHANGED <<jobs, contexts, owner, released>>
    PROVE  DialogueInv'
<1>1. PICK n \in Nat :
         /\ n \in DOMAIN reqs' /\ n \notin DOMAIN reqs
         /\ \A i \in DOMAIN reqs : HumanKept(i) /\ i < n
         /\ kind # "human" => ~Asks(n)'
         /\ kind = "human" => Live(n)' /\ reqs'[n].who = who
         /\ \A i \in DOMAIN reqs' : i \in DOMAIN reqs \/ i = n
  BY HumansApart
<1>2. OrderOK'
  BY <1>1 DEF DialogueInv, OrderOK, Live, HumanKept
<1>3. \A m \in DOMAIN jobs : Advance(m) => jobs[m].of \in DOMAIN reqs
  BY DEF StepInv, SchedulerOK, Active
<1>4. LastOK' /\ ReleasesOK'
  BY <1>1, <1>3 DEF DialogueInv, LastOK, ReleasesOK, Advance, Live, HumanKept
<1>. QED
  BY <1>2, <1>4 DEF DialogueInv

\* A release cancels every turn there is, and asks for the context.
LEMMA TurnsReleased ==
    ASSUME StepInv, DialogueInv, NEW s \in Sessions, ReleaseSession(s)
    PROVE  /\ DOMAIN reqs' = DOMAIN reqs /\ \A i : ~Live(i)'
           /\ \A i \in DOMAIN reqs : (Asks(i)' <=> Asks(i)) /\ reqs'[i].who = reqs[i].who
           /\ \E x \in Work : x.does = "release" /\ x.of = s /\ Added(jobs, x, jobs')
<1>1. /\ DOMAIN reqs' = DOMAIN reqs
      /\ \A i \in DOMAIN reqs :
           /\ reqs'[i].kind = reqs[i].kind /\ reqs'[i].who = reqs[i].who
           /\ reqs'[i].state = reqs[i].state
           /\ reqs'[i].cancelled = (reqs[i].cancelled \/
                   (i \in Alive /\ reqs[i].kind = "human" /\ reqs[i].who = s))
  BY ReleaseMoves DEF StepInv
<1>2. ASSUME NEW i, Live(i)' PROVE FALSE
  <2>1. i \in DOMAIN reqs /\ Live(i) /\ reqs[i].who # s
    BY <1>1, <1>2 DEF Live, Asks, Alive
  <2>. QED
    BY <2>1 DEF DialogueInv, OrderOK, ReleaseSession
<1>3. PICK x : x = [does |-> "release", of |-> s]
  OBVIOUS
<1>4. x \in Work /\ x.does = "release" /\ x.of = s /\ Added(jobs, x, jobs')
  BY <1>3, LegacyConstants DEF ReleaseSession, Work, Added
<1>5. \A i \in DOMAIN reqs : (Asks(i)' <=> Asks(i)) /\ reqs'[i].who = reqs[i].who
  BY <1>1 DEF Asks, Alive
<1>. QED
  BY <1>1, <1>2, <1>4, <1>5

LEMMA DialogueClients ==
    ASSUME StepInv, DialogueInv, NEW s \in Sessions, Acquire(s) \/ SubmitUser(s) \/ ReleaseSession(s)
    PROVE  DialogueInv'
<1>0. s \in Nat /\ s # 0 /\ Nobody = 0
  BY LegacyConstants DEF Nobody
<1>1. CASE Acquire(s)
  <2>1. HumansKept /\ UNCHANGED <<released, contexts, jobs>> /\ owner = 0
    BY <1>0, <1>1, HumansQuiet DEF Acquire, kv
  <2>2. \A i \in DOMAIN reqs : ~Live(i)
    <3>. TAKE i \in DOMAIN reqs
    <3>1. Live(i) => reqs[i].who \in Sessions
      BY ReqTyped DEF Live, Asks, RequestOK, StepInv
    <3>. QED
      BY <2>1, <3>1, LegacyConstants DEF DialogueInv, OrderOK
  <2>3. OrderOK'
    BY <2>1, <2>2 DEF OrderOK, Live, HumansKept, HumanKept
  <2>4. LastOK' /\ ReleasesOK'
    BY <2>1, LastKept DEF DialogueInv, ReleasesOK
  <2>. QED
    BY <2>3, <2>4 DEF DialogueInv
<1>2. CASE SubmitUser(s)
  <2>1. Admits("human", s, "none") /\ Request("human", s, "none") \in Reqs
    BY <1>0, <1>2, AdmitMoves DEF SubmitUser, StepInv
  <2>2. UNCHANGED <<jobs, contexts, owner, released>> /\ owner = s
    BY <1>2 DEF SubmitUser, kv, people
  <2>. QED
    BY <2>1, <2>2, DialogueAdmits
<1>3. CASE ReleaseSession(s)
  <2>1. \A i : ~Live(i)'
    BY <1>3, TurnsReleased
  <2>2. OrderOK' /\ LastOK'
    BY <2>1 DEF OrderOK, LastOK
  <2>3. PICK x \in Work : x.does = "release" /\ x.of = s /\ Added(jobs, x, jobs')
    BY <1>3, TurnsReleased
  <2>4. UNCHANGED contexts /\ released' = released \cup {s}
    BY <1>3 DEF ReleaseSession, kv
  <2>5. ReleasesOK'
    BY <2>3, <2>4, QueueFrom, ReleasesKept DEF DialogueInv
  <2>. QED
    BY <2>2, <2>5 DEF DialogueInv
<1>. QED
  BY <1>1, <1>2, <1>3

LEMMA DialogueInvInit == LInit => DialogueInv
  BY DEF LInit, DialogueInv, OrderOK, LastOK, ReleasesOK

LEMMA DialogueInvStep == StepInv /\ StepInv' /\ DialogueInv /\ [LNext]_lvars => DialogueInv'
<1>. SUFFICES ASSUME StepInv, StepInv', DialogueInv, [LNext]_lvars PROVE DialogueInv'
  OBVIOUS
<1>1. ASSUME NEW s \in Sessions, Acquire(s) \/ SubmitUser(s) \/ ReleaseSession(s)
      PROVE  DialogueInv'
  BY <1>1, DialogueClients
<1>2. ASSUME NEW r \in Offers, ServiceOffers(r) \/ ServiceRevokes(r) \/ PollOffer(r)
      PROVE  DialogueInv'
  <2>1. CASE PollOffer(r)
    <3>1. /\ UNCHANGED <<jobs, contexts, owner, released>> /\ Admit("run", 0, r) /\ 0 \in Nat
      BY <2>1 DEF PollOffer, kv, people, Nobody
    <3>2. Admits("run", 0, r) /\ Request("run", 0, r) \in Reqs
      BY <3>1, AdmitMoves DEF StepInv
    <3>. QED
      BY <3>1, <3>2, DialogueAdmits
  <2>2. CASE ServiceOffers(r) \/ ServiceRevokes(r)
    BY <2>2, DialogueQuiet DEF ServiceOffers, ServiceRevokes, kv, people
  <2>. QED
    BY <1>2, <2>1, <2>2
<1>3. CASE SubmitVoice
  <2>1. /\ UNCHANGED <<jobs, contexts, owner, released>> /\ Admit("voice", 0, "none") /\ 0 \in Nat
    BY <1>3 DEF SubmitVoice, kv, people, Voice
  <2>2. Admits("voice", 0, "none") /\ Request("voice", 0, "none") \in Reqs
    BY <2>1, AdmitMoves DEF StepInv
  <2>. QED
    BY <2>1, <2>2, DialogueAdmits
<1>4. CASE WarmKV2 \/ Stop \/ UNCHANGED lvars
  BY <1>4, DialogueQuiet DEF WarmKV2, Stop, lvars, kv, people
<1>5. ASSUME NEW r \in Offers, NEW told \in BOOLEAN, FlushCompletions(r, told)
      PROVE  DialogueInv'
  BY <1>5, DialogueQuiet DEF FlushCompletions, kv, people
<1>. QED
  BY <1>1, <1>2, <1>3, <1>4, <1>5, DialogueExecutor, DialogueScheduler, DialogueHousekeeping DEF LNext

\* A dialogue that a turn left open keeps its context while its owner keeps the
\* session: only a turn of the same dialogue, or the release of the session, closes it.
THEOREM OpenDialogueIsKeptProved == LSpec => OpenDialogueIsKept
<1>1. ASSUME StepInv, DialogueInv, [LNext]_lvars
      PROVE  [\A s \in Sessions \ released :
                /\ owner = s /\ owner' = s /\ contexts[s] # 0 /\ kept[contexts[s]]
                => \/ contexts'[s] = contexts[s]
                   \/ \E i \in Active : reqs[i].who = s]_lvars
  <2>. SUFFICES ASSUME NEW s \in Sessions \ released, contexts[s] # 0, contexts'[s] # contexts[s]
                PROVE  \E i \in Active : reqs[i].who = s
    OBVIOUS
  <2>0. s \in Dialogues /\ contexts \in [Dialogues -> {0, 1, 2}]
    BY <1>1, SMTT(30) DEF Dialogues, StepInv, KvTypes
  <2>1. \/ \E i \in DOMAIN reqs : \E b, c \in BOOLEAN : BeginStep(i, b, c)
        \/ \E i \in DOMAIN reqs : \E b \in BOOLEAN : Complete(i, b)
        \/ \E b \in BOOLEAN : ReleaseContext(b)
    BY <1>1 DEF LNext, Acquire, SubmitUser, SubmitVoice, ReleaseSession, WarmKV2, SubmitWarm, Warm,
         PollWarm, ServiceOffers, ServiceRevokes, FlushCompletions, PollOffer, StartNext,
         ServiceAway, Allow, Discard, StepYields, StepEnds, Requeue, Stop, DiscardQueue, Executor,
         SchedulerThread, Housekeeping, lvars, kv
  <2>2. ASSUME NEW i \in DOMAIN reqs, NEW b \in BOOLEAN, NEW c \in BOOLEAN, BeginStep(i, b, c)
        PROVE  FALSE
    <3>1. PICK slot \in {0, 1, 2} : Takes(reqs[i].who, slot) /\ reqs[i].who \in Dialogues
      BY <1>1, <2>2, WhoTakes
    <3>. QED
      BY <2>0, <3>1 DEF Takes
  <2>3. ASSUME NEW i \in DOMAIN reqs, NEW b \in BOOLEAN, Complete(i, b)
        PROVE  i \in Active /\ reqs[i].who = s
    <3>1. i \in Active /\ contexts' = [contexts EXCEPT ![reqs[i].who] = 0]
      BY <2>3 DEF Complete, CloseContext, kv
    <3>. QED
      BY <2>0, <3>1
  <2>4. ASSUME NEW b \in BOOLEAN, ReleaseContext(b)
        PROVE  FALSE
    <3>1. /\ jobs # <<>> /\ Head(jobs).does = "release"
          /\ contexts' = [contexts EXCEPT ![Head(jobs).of] = 0]
      BY <2>4 DEF ReleaseContext, CloseContext, kv
    <3>2. Head(jobs).of = s /\ 1 \in DOMAIN jobs /\ Head(jobs) = jobs[1]
      BY <1>1, <2>0, <3>1 DEF StepInv, SchedulerOK
    <3>. QED
      BY <1>1, <3>1, <3>2 DEF DialogueInv, ReleasesOK
  <2>. QED
    BY <2>1, <2>2, <2>3, <2>4
<1>. QED
  BY <1>1, StepInvInit, GateInit, StepInvStep, GateStep, DialogueInvInit, DialogueInvStep, PTL
     DEF LSpec, OpenDialogueIsKept

-----------------------------------------------------------------------------
(* The accounts of the two slots, until the CORE is told to stop.           *)

\* A former owner that still has a context is about to lose it: its release is in
\* the queue, or follows its last turn.
OnTheWay(s) == \/ \E m \in DOMAIN jobs : jobs[m].does = "release" /\ jobs[m].of = s
               \/ \E i \in DOMAIN reqs : Asks(i) /\ reqs[i].who = s

FirstCome == \A i \in Active : Live(i) => \A j \in DOMAIN reqs : Asks(j) => ~reqs[j].cancelled

FormerOK ==
    /\ \A s, t \in Sessions : contexts[s] # 0 /\ contexts[t] # 0 => s = t
    /\ \A s \in Sessions : contexts[s] # 0 /\ s # owner => s \in released /\ OnTheWay(s)

Held(k) == \E d \in Dialogues : contexts[d] = k

SlotOK(k) ==
    /\ \A d, e \in Dialogues : contexts[d] = k /\ contexts[e] = k => d = e
    /\ ready[k] <=> k \in avail \/ Held(k)
    /\ ~(k \in avail /\ Held(k))

SlotsOK == (\A k \in Slots : SlotOK(k)) /\ (starved => failures > 0)

\* A warm-up runs while no request is active, and one that failed leaves no slot.
WarmOK ==
    /\ kv2.future # "none" => Active = {}
    /\ \A m \in DOMAIN jobs : jobs[m].does = "warm" => kv2.future = "running"
    /\ \A m, n \in DOMAIN jobs : jobs[m].does = "warm" /\ jobs[n].does = "warm" => m = n
    /\ kv2.future = "failed" => ~ready[2]

Accounts == FirstCome /\ FormerOK /\ SlotsOK /\ WarmOK
AccountsInv == ~stopped => Accounts

LEMMA FirstComeKept ==
    ASSUME FirstCome, HumansKept, Active' \subseteq Active
    PROVE  FirstCome'
<1>1. \A i : Live(i)' => Live(i)
  BY DEF HumansKept, HumanKept, Live, Asks, Alive
<1>. QED
  BY <1>1 DEF FirstCome, HumansKept, HumanKept

LEMMA FormerKept ==
    ASSUME FormerOK, owner' = owner,
           \A s \in Sessions : contexts'[s] # 0 =>
             /\ contexts[s] # 0 /\ (s \in released => s \in released')
             /\ s # owner /\ s \in released /\ OnTheWay(s) => OnTheWay(s)'
    PROVE  FormerOK'
  BY DEF FormerOK

LEMMA StillOnTheWay ==
    ASSUME StepInv, NEW s, OnTheWay(s), HumansKept,
           \/ UNCHANGED jobs
           \/ Popped(jobs, jobs') /\ ~(Head(jobs).does = "release" /\ Head(jobs).of = s)
           \/ \E x \in Work : Added(jobs, x, jobs')
    PROVE  OnTheWay(s)'
<1>1. CASE \E i \in DOMAIN reqs : Asks(i) /\ reqs[i].who = s
  BY <1>1 DEF OnTheWay, HumansKept, HumanKept
<1>2. ASSUME NEW m \in DOMAIN jobs, jobs[m].does = "release", jobs[m].of = s
      PROVE  \E n \in DOMAIN jobs' : jobs'[n] = jobs[m]
  <2>1. CASE UNCHANGED jobs
    BY <2>1
  <2>2. CASE Popped(jobs, jobs') /\ ~(Head(jobs).does = "release" /\ Head(jobs).of = s)
    <3>1. /\ Head(jobs) = jobs[1] /\ \A n \in DOMAIN jobs : n # 1 => n - 1 \in DOMAIN jobs' /\ jobs'[n - 1] = jobs[n]
      BY <2>2, PoppedFacts DEF StepInv, SchedulerOK
    <3>. QED
      BY <1>2, <2>2, <3>1
  <2>3. CASE \E x \in Work : Added(jobs, x, jobs')
    <3>1. \A n \in DOMAIN jobs : n \in DOMAIN jobs' /\ jobs'[n] = jobs[n]
      BY <2>3, AddedFacts DEF StepInv, SchedulerOK
    <3>. QED
      BY <3>1
  <2>. QED
    BY <2>1, <2>2, <2>3
<1>. QED
  BY <1>1, <1>2 DEF OnTheWay

LEMMA SlotsKept ==
    ASSUME StepInv, SlotsOK, UNCHANGED <<ready, avail, contexts, starved>>, failures' \in Nat, failures' >= failures
    PROVE  SlotsOK'
  BY DEF SlotsOK, SlotOK, Held, StepInv, KvTypes

LEMMA SlotsClosed ==
    ASSUME StepInv, SlotsOK, NEW key \in Dialogues, Closes(key), starved' = starved, ~stopped
    PROVE  SlotsOK'
<1>0. contexts \in [Dialogues -> {0, 1, 2}] /\ contexts' = [contexts EXCEPT ![key] = 0]
      /\ ready \in [Slots -> BOOLEAN] /\ failures \in Nat /\ failures' \in Nat /\ failures' >= failures
  BY DEF StepInv, KvTypes, Closes
<1>1. starved' => failures' > 0
  BY <1>0 DEF SlotsOK
<1>2. CASE contexts[key] = 0
  <2>1. contexts' = contexts /\ ready' = ready /\ avail' = avail
    BY <1>0, <1>2 DEF Closes
  <2>. QED
    BY <1>0, <2>1, SlotsKept
<1>3. CASE contexts[key] # 0
  <2>1. PICK slot \in Slots : slot = contexts[key]
    BY <1>0, <1>3 DEF Slots
  <2>2. PICK ok \in BOOLEAN : /\ ready' = [ready EXCEPT ![slot] = ok]
                              /\ avail' = IF ok THEN avail \cup {slot} ELSE avail \ {slot}
    BY <1>3, <2>1 DEF Closes
  <2>3. \A d \in Dialogues : /\ contexts[d] = slot => d = key
                            /\ contexts'[d] = IF d = key THEN 0 ELSE contexts[d]
    BY <1>0, <2>1 DEF SlotsOK, SlotOK
  <2>4. \A k \in Slots : k # 0
    BY DEF Slots
  <2>5. ASSUME NEW k \in Slots, k # slot
        PROVE  SlotOK(k)'
    <3>1. ready'[k] = ready[k] /\ (k \in avail' <=> k \in avail)
      BY <1>0, <2>2, <2>5
    <3>2. \A d \in Dialogues : contexts'[d] = k <=> contexts[d] = k
      BY <2>1, <2>3, <2>4, <2>5
    <3>3. SlotOK(k)
      BY DEF SlotsOK
    <3>. QED
      BY <3>1, <3>2, <3>3 DEF SlotOK, Held
  <2>6. SlotOK(slot)'
    <3>1. \A d \in Dialogues : contexts'[d] # slot
      BY <2>3, <2>4
    <3>2. ready'[slot] = ok /\ (slot \in avail' <=> ok)
      BY <1>0, <2>2
    <3>. QED
      BY <3>1, <3>2 DEF SlotOK, Held
  <2>. QED
    BY <1>1, <2>5, <2>6 DEF SlotsOK
<1>. QED
  BY <1>2, <1>3

\* When a turn of the owner advances, no other connection has a context.
LEMMA NobodyElse ==
    ASSUME StepInv, DialogueInv, FirstCome, FormerOK, NEW i, AtWork(i), Live(i)
    PROVE  reqs[i].who = owner /\ \A s \in Sessions : contexts[s] # 0 => s = owner
<1>1. i \in DOMAIN reqs /\ i \in Active
  BY DEF AtWork, Active
<1>2. reqs[i].who = owner
  BY <1>1 DEF DialogueInv, OrderOK
<1>3. ASSUME NEW s \in Sessions, contexts[s] # 0, s # owner
      PROVE  FALSE
  <2>1. OnTheWay(s)
    BY <1>3 DEF FormerOK
  <2>2. ASSUME NEW m \in DOMAIN jobs, jobs[m].does = "release" PROVE FALSE
    BY <2>2, AloneInTheQueue
  <2>3. ASSUME NEW j \in DOMAIN reqs, Asks(j), reqs[j].who = s PROVE FALSE
    <3>1. ~reqs[j].cancelled
      BY <1>1, <2>3 DEF FirstCome
    <3>. QED
      BY <1>3, <2>3, <3>1 DEF DialogueInv, OrderOK, Live
  <2>. QED
    BY <2>1, <2>2, <2>3 DEF OnTheWay
<1>. QED
  BY <1>2, <1>3

\* A turn gets a slot that nobody had; and if there is none although both are in
\* service, two other dialogues would have them, which cannot be.
LEMMA SlotsTaken ==
    ASSUME StepInv, SlotsOK, NEW key \in Dialogues, NEW slot \in {0, 1, 2}, Takes(key, slot),
           failures' \in Nat, failures' >= failures,
           \A d, e \in Dialogues \ {key} : contexts[d] # 0 /\ contexts[e] # 0 => d = e
    PROVE  SlotsOK'
<1>0. /\ contexts \in [Dialogues -> {0, 1, 2}] /\ contexts' = [contexts EXCEPT ![key] = slot]
      /\ contexts[key] = 0 /\ ready \in [Slots -> BOOLEAN] /\ failures \in Nat
  BY DEF StepInv, KvTypes, Takes
<1>1. \A d \in Dialogues : contexts'[d] = IF d = key THEN slot ELSE contexts[d]
  BY <1>0
<1>2. \A k \in Slots : k # 0
  BY DEF Slots
<1>3. ASSUME NEW k \in Slots, k # slot
      PROVE  SlotOK(k)'
  <2>1. ready'[k] = ready[k] /\ (k \in avail' <=> k \in avail)
    BY <1>3 DEF Takes
  <2>2. \A d \in Dialogues : contexts'[d] = k <=> contexts[d] = k
    BY <1>0, <1>1, <1>2, <1>3
  <2>3. SlotOK(k)
    BY DEF SlotsOK
  <2>. QED
    BY <2>1, <2>2, <2>3 DEF SlotOK, Held
<1>4. ASSUME slot # 0
      PROVE  SlotOK(slot)'
  <2>1. slot \in Slots /\ SlotOK(slot)
    BY <1>4 DEF SlotsOK, Slots
  <2>2. slot \notin avail' /\ ready'[slot] /\ ~Held(slot)
    BY <1>4, <2>1 DEF Takes, SlotOK
  <2>3. \A d \in Dialogues : contexts'[d] = slot <=> d = key
    BY <1>1, <2>2 DEF Held
  <2>. QED
    BY <2>2, <2>3 DEF SlotOK, Held
<1>5. starved' => failures' > 0
  <2>1. CASE slot # 0
    BY <1>0, <2>1 DEF Takes, SlotsOK
  <2>2. CASE slot = 0 /\ ready[1] /\ ready[2] /\ avail = {}
    <3>1. SlotOK(1) /\ SlotOK(2)
      BY DEF SlotsOK, Slots
    <3>2. PICK d \in Dialogues, e \in Dialogues : contexts[d] = 1 /\ contexts[e] = 2
      BY <2>2, <3>1 DEF SlotOK, Held
    <3>3. d # key /\ e # key /\ d # e
      BY <1>0, <3>2
    <3>. QED
      BY <3>2, <3>3
  <2>. QED
    BY <2>1, <2>2 DEF Takes
<1>6. \A k \in Slots : SlotOK(k)'
  BY <1>2, <1>3, <1>4
<1>. QED
  BY <1>5, <1>6 DEF SlotsOK

LEMMA WarmKept ==
    ASSUME StepInv, WarmOK,
           \/ UNCHANGED jobs \/ Popped(jobs, jobs')
           \/ \E x \in Work : Added(jobs, x, jobs') /\ x.does # "warm",
           kv2'.future = kv2.future, kv2.future # "none" => Active' = {},
           kv2.future = "failed" => ready'[2] = ready[2]
    PROVE  WarmOK'
<1>1. ASSUME \/ UNCHANGED jobs \/ Popped(jobs, jobs')
             \/ \E x \in Work : Added(jobs, x, jobs') /\ x.does # "warm"
      PROVE  /\ \A m \in DOMAIN jobs' : jobs'[m].does = "warm" =>
                  \E n \in DOMAIN jobs : jobs[n].does = "warm"
             /\ \A m, n \in DOMAIN jobs' : jobs'[m].does = "warm" /\ jobs'[n].does = "warm" => m = n
  <2>1. CASE UNCHANGED jobs
    BY <2>1 DEF WarmOK
  <2>2. CASE Popped(jobs, jobs')
    <3>1. PICK q : q = jobs'
      OBVIOUS
    <3>2. \A m \in DOMAIN q : m + 1 \in DOMAIN jobs /\ q[m] = jobs[m + 1] /\ m \in Nat
      BY <2>2, <3>1, PoppedFacts DEF StepInv, SchedulerOK
    <3>3. \A m, n \in DOMAIN q : q[m].does = "warm" /\ q[n].does = "warm" => m = n
      <4>. TAKE m, n \in DOMAIN q
      <4>1. q[m].does = "warm" /\ q[n].does = "warm" => m + 1 = n + 1
        BY <3>2 DEF WarmOK
      <4>. QED
        BY <3>2, <4>1
    <3>. QED
      BY <3>1, <3>2, <3>3
  <2>3. ASSUME NEW x \in Work, Added(jobs, x, jobs'), x.does # "warm"
        PROVE  \A m \in DOMAIN jobs' : jobs'[m].does = "warm" => m \in DOMAIN jobs /\ jobs'[m] = jobs[m]
    BY <2>3, AddedFacts DEF StepInv, SchedulerOK
  <2>. QED
    BY <1>1, <2>1, <2>2, <2>3 DEF WarmOK
<1>. QED
  BY <1>1 DEF WarmOK

\* A step that leaves the queue, the requests and the contexts alone.
LEMMA AccountsQuiet ==
    ASSUME StepInv, Accounts, kv2'.future = kv2.future,
           UNCHANGED <<reqs, jobs, contexts, owner, released, ready, avail, starved, failures>>
    PROVE  Accounts'
<1>1. HumansKept /\ Active' = Active /\ failures \in Nat
  BY HumansQuiet DEF Active, StepInv, KvTypes
<1>2. FirstCome'
  BY <1>1, FirstComeKept DEF Accounts
<1>3. FormerOK'
  BY <1>1, StillOnTheWay, FormerKept DEF Accounts
<1>4. SlotsOK'
  BY <1>1, SlotsKept DEF Accounts
<1>5. WarmOK'
  BY <1>1, WarmKept DEF Accounts, WarmOK
<1>. QED
  BY <1>2, <1>3, <1>4, <1>5 DEF Accounts

LEMMA ActiveStays ==
    ASSUME StepInv, NEW i \in DOMAIN reqs, Executor(i) \/ ServiceAway(i)
    PROVE  Active' = Active
<1>1. ASSUME OthersStay(i), reqs'[i].state = reqs[i].state
      PROVE  Active' = Active
  BY <1>1 DEF OthersStay, Active
<1>2. reqs[i] \in Reqs
  BY ReqTyped DEF StepInv
<1>3. CASE Discard(i)
  <2>1. /\ OthersStay(i)
        /\ reqs'[i] = [reqs[i] EXCEPT !.cancelled = TRUE, !.agent = FALSE, !.waits = FALSE]
    BY <1>3, DiscardMoves DEF StepInv
  <2>. QED
    BY <1>1, <1>2, <2>1 DEF Reqs
<1>4. CASE ServiceAway(i)
  BY <1>4 DEF ServiceAway, Active
<1>5. ASSUME NEW b \in BOOLEAN, NEW c \in BOOLEAN, BeginStep(i, b, c) \/ Allow(i)
      PROVE  Active' = Active
  BY <1>1, <1>5, BeginMoves, AllowMoves DEF StepInv, SameReq
<1>6. ASSUME NEW b \in BOOLEAN, NEW what \in {"silent", "query", "reply", "error"},
             StepYields(i, b) \/ StepEnds(i, what, b)
      PROVE  Active' = Active
  BY <1>1, <1>6, EndMoves DEF StepInv, SameReq
<1>. QED
  BY <1>3, <1>4, <1>5, <1>6 DEF Executor

LEMMA AccountsExecutor ==
    ASSUME StepInv, StepInv', DialogueInv, Accounts, NEW i \in DOMAIN reqs, Executor(i) \/ ServiceAway(i)
    PROVE  Accounts'
<1>0. HumansKept
  BY HumansStay
<1>1. AtWork(i) /\ Active' = Active /\ UNCHANGED <<owner, released>>
      /\ (UNCHANGED jobs \/ Popped(jobs, jobs'))
  <2>1. AtWork(i)
    BY Working DEF StepInv, Executor, ServiceAway, Allow, Discard, BeginStep, StepYields, StepEnds
  <2>2. UNCHANGED <<owner, released>>
    BY DEF Executor, ServiceAway, Allow, Discard, BeginStep, StepYields, StepEnds, people
  <2>3. UNCHANGED jobs \/ Popped(jobs, jobs')
    BY <2>1 DEF Executor, ServiceAway, Allow, Discard, BeginStep, StepYields, StepEnds, Returns,
         Popped, AtWork
  <2>4. Active' = Active
    BY ActiveStays
  <2>. QED
    BY <2>1, <2>2, <2>3, <2>4
<1>2. FirstCome'
  BY <1>0, <1>1, FirstComeKept DEF Accounts
<1>3. \A s : OnTheWay(s) => OnTheWay(s)'
  BY <1>0, <1>1, StillOnTheWay DEF AtWork
<1>4. kv2.future = "none"
  BY <1>1 DEF Accounts, WarmOK, AtWork
<1>5. kv2'.future = kv2.future => WarmOK'
  BY <1>1, <1>4, WarmKept DEF Accounts
<1>6. CASE UNCHANGED <<ready, avail, contexts, starved, failures>> /\ kv2'.future = kv2.future
  <2>1. FormerOK'
    BY <1>1, <1>3, <1>6, FormerKept DEF Accounts
  <2>2. SlotsOK'
    BY <1>6, SlotsKept DEF Accounts, StepInv, KvTypes
  <2>. QED
    BY <1>2, <1>5, <1>6, <2>1, <2>2 DEF Accounts
<1>7. ASSUME NEW b \in BOOLEAN, NEW c \in BOOLEAN, BeginStep(i, b, c),
             ~UNCHANGED <<ready, avail, contexts, starved, failures>>
      PROVE  Accounts'
  <2>1. PICK slot \in {0, 1, 2} : Takes(reqs[i].who, slot) /\ reqs[i].who \in Dialogues
                                  /\ (Live(i) \/ reqs[i].who = Voice)
    BY <1>7, WhoTakes
  <2>2. kv2'.future = kv2.future /\ failures' >= failures /\ failures' \in Nat
    BY <1>7, BeginMoves DEF StepInv, KvTypes
  <2>3. \A d \in Dialogues : contexts'[d] = IF d = reqs[i].who THEN slot ELSE contexts[d]
    BY <2>1 DEF Takes, StepInv, KvTypes
  <2>4. Voice \notin Sessions
    BY LegacyConstants DEF Voice
  <2>5. CASE Live(i)
    <3>1. reqs[i].who = owner /\ \A s \in Sessions : contexts[s] # 0 => s = owner
      BY <1>1, <2>5, NobodyElse DEF Accounts
    <3>2. FormerOK'
      BY <1>1, <2>3, <3>1 DEF FormerOK, Dialogues
    <3>3. \A d, e \in Dialogues \ {reqs[i].who} : contexts[d] # 0 /\ contexts[e] # 0 => d = e
      BY <3>1 DEF Dialogues
    <3>4. SlotsOK'
      BY <2>1, <2>2, <3>3, SlotsTaken DEF Accounts
    <3>. QED
      BY <1>2, <1>5, <2>2, <3>2, <3>4 DEF Accounts
  <2>6. CASE reqs[i].who = Voice
    <3>1. \A s \in Sessions : contexts'[s] = contexts[s]
      BY <2>3, <2>4, <2>6 DEF Dialogues
    <3>2. FormerOK'
      BY <1>1, <1>3, <3>1, FormerKept DEF Accounts
    <3>3. \A d, e \in Dialogues \ {reqs[i].who} : contexts[d] # 0 /\ contexts[e] # 0 => d = e
      BY <2>6 DEF Dialogues, Accounts, FormerOK
    <3>4. SlotsOK'
      BY <2>1, <2>2, <3>3, SlotsTaken DEF Accounts
    <3>. QED
      BY <1>2, <1>5, <2>2, <3>2, <3>4 DEF Accounts
  <2>. QED
    BY <2>1, <2>5, <2>6
<1>8. ASSUME NEW b \in BOOLEAN, NEW c \in BOOLEAN, BeginStep(i, b, c)
      PROVE  kv2'.future = kv2.future
  BY <1>8, BeginMoves DEF StepInv
<1>9. ASSUME ~\E b, c \in BOOLEAN : BeginStep(i, b, c)
      PROVE  UNCHANGED <<ready, avail, contexts, starved, failures, kv2>>
  BY <1>9 DEF Executor, ServiceAway, Allow, Discard, StepYields, StepEnds, kv, history
<1>. QED
  BY <1>6, <1>7, <1>8, <1>9

LEMMA AccountsScheduler ==
    ASSUME StepInv, DialogueInv, Accounts, ~stopped, NEW i \in DOMAIN reqs, SchedulerThread(i)
    PROVE  Accounts'
<1>1. CASE StartNext(i)
  <2>1. HumansKept /\ UNCHANGED <<owner, released, contexts, ready, avail, starved, failures, kv2>>
        /\ kv2.future = "none"
    BY <1>1, HumansStay DEF StartNext, people, kv, history
  <2>2. PICK x : x = [does |-> "advance", of |-> i]
    OBVIOUS
  <2>3. x \in Work /\ x.does = "advance" /\ Added(jobs, x, jobs')
    BY <1>1, <2>2 DEF StartNext, Added, Work, StepInv, RequestTypes
  <2>4. Active' = {i}
    BY <1>1, QueueStarts DEF StepInv
  <2>5. ASSUME NEW j \in DOMAIN reqs, Live(i), Asks(j), reqs[j].cancelled
        PROVE  FALSE
    <3>1. j < i
      BY <2>5 DEF DialogueInv, OrderOK
    <3>2. j \in Pending
      BY <1>1, <2>5, ReqTyped DEF StepInv, StartNext, Asks, Alive, Active, Pending, Reqs
    <3>3. Runnable(j)
      BY <2>5 DEF Runnable
    <3>4. Priority(reqs[i]) = 10 /\ Priority(reqs[j]) = 10
      BY <2>5 DEF Priority, Live, Asks
    <3>5. Before(i, j)
      BY <1>1, <3>2, <3>3 DEF StartNext
    <3>6. i \in Nat /\ j \in Nat
      BY DEF StepInv, RequestTypes
    <3>. QED
      BY <3>1, <3>4, <3>5, <3>6 DEF Before
  <2>6. FirstCome'
    <3>1. Live(i)' => Live(i)
      BY <2>1 DEF HumansKept, HumanKept, Live
    <3>2. \A j \in DOMAIN reqs : Asks(j)' => Asks(j) /\ reqs'[j].cancelled = reqs[j].cancelled
      BY <2>1 DEF HumansKept, HumanKept
    <3>. QED
      BY <2>1, <2>4, <2>5, <3>1, <3>2 DEF FirstCome, HumansKept
  <2>7. FormerOK'
    BY <2>1, <2>3, StillOnTheWay, FormerKept DEF Accounts
  <2>8. SlotsOK'
    BY <2>1, SlotsKept DEF Accounts, StepInv, KvTypes
  <2>9. WarmOK'
    BY <2>1, <2>3, WarmKept DEF Accounts
  <2>. QED
    BY <2>6, <2>7, <2>8, <2>9 DEF Accounts
<1>2. ASSUME NEW ok \in BOOLEAN, Requeue(i) \/ Complete(i, ok)
      PROVE  Accounts'
  <2>1. UNCHANGED <<owner, released, stepping, starved>> /\ i \in Active /\ result # "none"
        /\ FollowUp(i) /\ result' = "none"
    BY <1>2 DEF Requeue, Complete, people, history
  <2>2. OthersStay(i) /\ reqs'[i].state # "active"
    BY <1>2, RequeueMoves, CompleteMoves, OverOK DEF StepInv
  <2>3. /\ Active' = {}
        /\ UNCHANGED jobs \/ \E x \in Work : Added(jobs, x, jobs') /\ x.does = "release"
                                 /\ x.of = reqs[i].who /\ reqs[i].who \in released
    BY <2>1, <2>2, QueueFollows DEF StepInv
  <2>4. FirstCome'
    BY <2>3 DEF FirstCome
  <2>5. ASSUME NEW s \in Sessions, s \in released, OnTheWay(s)
        PROVE  OnTheWay(s)'
    <3>1. CASE \E m \in DOMAIN jobs : jobs[m].does = "release" /\ jobs[m].of = s
      <4>1. \A m \in DOMAIN jobs : m \in DOMAIN jobs' /\ jobs'[m] = jobs[m]
        BY <2>3, AddedFacts DEF StepInv, SchedulerOK
      <4>. QED
        BY <3>1, <4>1 DEF OnTheWay
    <3>2. ASSUME NEW j \in DOMAIN reqs, Asks(j), reqs[j].who = s, j # i
          PROVE  OnTheWay(s)'
      <4>1. HumanKept(j) /\ DOMAIN reqs' = DOMAIN reqs
        BY <3>2, <2>2 DEF OthersStay, HumanKept, Asks, Alive
      <4>. QED
        BY <3>2, <4>1 DEF HumanKept, OnTheWay
    <3>3. CASE Asks(i) /\ reqs[i].who = s
      <4>1. PICK x : x = [does |-> "release", of |-> s]
        OBVIOUS
      <4>2. x \in Work /\ x.does = "release" /\ x.of = s /\ Added(jobs, x, jobs')
        BY <2>1, <2>5, <3>3, <4>1, LegacyConstants DEF FollowUp, Asks, Added, Work
      <4>3. jobs'[Len(jobs) + 1] = x /\ Len(jobs) + 1 \in DOMAIN jobs'
        BY <4>2, AddedFacts DEF StepInv, SchedulerOK
      <4>. QED
        BY <4>2, <4>3 DEF OnTheWay
    <3>. QED
      BY <2>5, <3>1, <3>2, <3>3 DEF OnTheWay
  <2>6. CASE UNCHANGED <<kv, failures>>
    <3>1. UNCHANGED <<ready, avail, contexts, kv2, failures>>
      BY <2>6 DEF kv
    <3>2. FormerOK'
      BY <2>1, <2>5, <3>1, FormerKept DEF Accounts
    <3>3. SlotsOK'
      BY <2>1, <3>1, SlotsKept DEF Accounts, StepInv, KvTypes
    <3>4. WarmOK'
      BY <2>3, <3>1, WarmKept DEF Accounts
    <3>. QED
      BY <2>4, <3>2, <3>3, <3>4 DEF Accounts
  <2>7. CASE CloseContext(reqs[i].who, ok)
    <3>1. reqs[i].who \in Dialogues
      BY ReqTyped DEF StepInv, RequestOK, Dialogues, Voice
    <3>2. Closes(reqs[i].who)
      BY <2>7, <3>1, CloseFacts DEF StepInv
    <3>3. SlotsOK'
      BY <2>1, <3>1, <3>2, SlotsClosed DEF Accounts
    <3>4. \A d \in Dialogues : contexts'[d] # 0 => contexts[d] # 0
      BY <3>1, <3>2 DEF Closes, StepInv, KvTypes
    <3>5. FormerOK'
      BY <2>1, <2>5, <3>4, FormerKept DEF Accounts, Dialogues
    <3>6. WarmOK'
      <4>1. kv2'.future = kv2.future /\ kv2.future = "none"
        BY <2>1, <3>2 DEF Closes, Accounts, WarmOK
      <4>. QED
        BY <2>3, <4>1, WarmKept DEF Accounts
    <3>. QED
      BY <2>4, <3>3, <3>5, <3>6 DEF Accounts
  <2>8. UNCHANGED <<kv, failures>> \/ CloseContext(reqs[i].who, ok)
    BY <1>2 DEF Requeue, Complete, history
  <2>. QED
    BY <2>6, <2>7, <2>8
<1>. QED
  BY <1>1, <1>2 DEF SchedulerThread

LEMMA AccountsAdmits ==
    ASSUME StepInv, Accounts, NEW kind \in {"human", "voice", "run"}, NEW who, NEW run,
           Admits(kind, who, run), Request(kind, who, run) \in Reqs,
           UNCHANGED <<jobs, contexts, owner, released, ready, avail, starved, failures, kv2>>
    PROVE  Accounts'
<1>1. PICK n \in Nat :
         /\ n \in DOMAIN reqs' /\ n \notin DOMAIN reqs
         /\ \A i \in DOMAIN reqs : HumanKept(i) /\ i < n
         /\ kind # "human" => ~Asks(n)'
         /\ kind = "human" => Live(n)' /\ reqs'[n].who = who
         /\ \A i \in DOMAIN reqs' : i \in DOMAIN reqs \/ i = n
  BY HumansApart
<1>2. Active' = Active
  BY AdmitActive DEF SameActive, StepInv
<1>3. FirstCome'
  BY <1>1, <1>2 DEF Accounts, FirstCome, HumanKept, Live, Active
<1>4. DOMAIN reqs \subseteq DOMAIN reqs'
  BY AddedFacts DEF Admits, StepInv, RequestTypes
<1>5. \A s : OnTheWay(s) => OnTheWay(s)'
  BY <1>1, <1>4 DEF OnTheWay, HumanKept
<1>6. FormerOK'
  BY <1>5, FormerKept DEF Accounts
<1>7. SlotsOK'
  BY SlotsKept DEF Accounts, StepInv, KvTypes
<1>8. WarmOK'
  BY <1>2, WarmKept DEF Accounts, WarmOK
<1>. QED
  BY <1>3, <1>6, <1>7, <1>8 DEF Accounts

LEMMA AccountsClients ==
    ASSUME StepInv, DialogueInv, Accounts, NEW s \in Sessions,
           Acquire(s) \/ SubmitUser(s) \/ ReleaseSession(s)
    PROVE  Accounts'
<1>0. s \in Nat /\ s # 0 /\ Nobody = 0 /\ \A t \in Sessions : t # 0
  BY LegacyConstants DEF Nobody
<1>1. CASE Acquire(s)
  <2>1. /\ HumansKept /\ UNCHANGED <<reqs, released, contexts, jobs, ready, avail, starved, failures, kv2>>
        /\ owner = 0 /\ owner' = s /\ Active' = Active
    BY <1>0, <1>1, HumansQuiet DEF Acquire, kv, history, Active
  <2>2. FormerOK'
    <3>1. \A t : OnTheWay(t) => OnTheWay(t)'
      BY <2>1, StillOnTheWay
    <3>. QED
      BY <1>0, <2>1, <3>1 DEF Accounts, FormerOK
  <2>3. FirstCome' /\ SlotsOK' /\ WarmOK'
    BY <2>1, FirstComeKept, SlotsKept, WarmKept DEF Accounts, WarmOK, StepInv, KvTypes
  <2>. QED
    BY <2>2, <2>3 DEF Accounts
<1>2. CASE SubmitUser(s)
  <2>1. Admits("human", s, "none") /\ Request("human", s, "none") \in Reqs
    BY <1>0, <1>2, AdmitMoves DEF SubmitUser, StepInv
  <2>2. UNCHANGED <<jobs, contexts, owner, released, ready, avail, starved, failures, kv2>>
    BY <1>2 DEF SubmitUser, kv, people, history
  <2>. QED
    BY <2>1, <2>2, AccountsAdmits
<1>3. CASE ReleaseSession(s)
  <2>1. /\ UNCHANGED <<contexts, ready, avail, starved, failures, kv2>>
        /\ owner = s /\ owner' = 0 /\ released' = released \cup {s}
    BY <1>0, <1>3 DEF ReleaseSession, kv, history
  <2>2. /\ DOMAIN reqs' = DOMAIN reqs /\ \A i : ~Live(i)'
        /\ \A i \in DOMAIN reqs : (Asks(i)' <=> Asks(i)) /\ reqs'[i].who = reqs[i].who
    BY <1>3, TurnsReleased
  <2>3. PICK x \in Work : x.does = "release" /\ x.of = s /\ Added(jobs, x, jobs')
    BY <1>3, TurnsReleased
  <2>4. /\ \A m \in DOMAIN jobs : m \in DOMAIN jobs' /\ jobs'[m] = jobs[m]
        /\ Len(jobs) + 1 \in DOMAIN jobs' /\ jobs'[Len(jobs) + 1] = x
    BY <2>3, AddedFacts DEF StepInv, SchedulerOK
  <2>5. OnTheWay(s)' /\ \A t : OnTheWay(t) => OnTheWay(t)'
    BY <2>2, <2>3, <2>4 DEF OnTheWay
  <2>6. FormerOK'
    BY <2>1, <2>5 DEF Accounts, FormerOK
  <2>7. FirstCome'
    BY <2>2 DEF FirstCome
  <2>8. SlotsOK'
    BY <2>1, SlotsKept DEF Accounts, StepInv, KvTypes
  <2>9. WarmOK'
    <3>1. Active' = Active
      BY <1>3, ReleaseMoves DEF StepInv, Active
    <3>. QED
      BY <2>1, <2>3, <3>1, WarmKept DEF Accounts, WarmOK
  <2>. QED
    BY <2>6, <2>7, <2>8, <2>9 DEF Accounts
<1>. QED
  BY <1>1, <1>2, <1>3

LEMMA AccountsHousekeeping ==
    ASSUME StepInv, StepInv', Accounts, ~stopped, Housekeeping
    PROVE  Accounts'
<1>0. UNCHANGED reqs => HumansKept /\ Active' = Active
  BY HumansQuiet DEF Active
<1>1. CASE SubmitWarm
  <2>1. /\ HumansKept /\ Active' = Active /\ Active = {} /\ kv2.future = "none" /\ kv2'.future = "running"
        /\ UNCHANGED <<owner, released, contexts, ready, avail, starved, failures>>
    BY <1>0, <1>1 DEF SubmitWarm, people, history
  <2>2. PICK x : x = [does |-> "warm", of |-> 0]
    OBVIOUS
  <2>3. x \in Work /\ x.does = "warm" /\ Added(jobs, x, jobs')
    BY <1>1, <2>2 DEF SubmitWarm, Added, Work
  <2>4. FirstCome' /\ FormerOK' /\ SlotsOK'
    BY <2>1, <2>3, FirstComeKept, StillOnTheWay, FormerKept, SlotsKept DEF Accounts, StepInv, KvTypes
  <2>5. WarmOK'
    <3>1. PICK q : q = jobs'
      OBVIOUS
    <3>2. /\ \A m \in DOMAIN jobs : q[m] = jobs[m]
          /\ \A m \in DOMAIN q : m \in DOMAIN jobs \/ m = Len(jobs) + 1
      BY <2>3, <3>1, AddedFacts DEF StepInv, SchedulerOK
    <3>3. \A m \in DOMAIN jobs : jobs[m].does # "warm"
      BY <2>1 DEF Accounts, WarmOK
    <3>4. \A m \in DOMAIN q : q[m].does = "warm" => m = Len(jobs) + 1
      BY <3>2, <3>3
    <3>. QED
      BY <2>1, <3>1, <3>4 DEF WarmOK
  <2>. QED
    BY <2>4, <2>5 DEF Accounts
<1>2. CASE PollWarm
  <2>1. /\ HumansKept /\ Active' = Active /\ kv2.future \in {"done", "failed"} /\ kv2'.future = "none"
        /\ UNCHANGED <<jobs, owner, released, contexts, avail, starved, failures>>
    BY <1>0, <1>2 DEF PollWarm, people, history, StepInv, KvTypes
  <2>2. ready' = ready
    <3>1. ready \in [Slots -> BOOLEAN] /\ (kv2.future = "failed" => ~ready[2]) /\ 2 \in Slots
      BY DEF StepInv, KvTypes, Accounts, WarmOK, Slots
    <3>. QED
      BY <1>2, <3>1 DEF PollWarm
  <2>3. FirstCome' /\ FormerOK' /\ SlotsOK'
    BY <2>1, <2>2, FirstComeKept, StillOnTheWay, FormerKept, SlotsKept DEF Accounts, StepInv, KvTypes
  <2>4. WarmOK'
    BY <2>1 DEF Accounts, WarmOK
  <2>. QED
    BY <2>3, <2>4 DEF Accounts
<1>3. ASSUME NEW ok \in BOOLEAN, Warm(ok)
      PROVE  Accounts'
  <2>1. /\ HumansKept /\ Active' = Active /\ Popped(jobs, jobs') /\ Head(jobs).does = "warm"
        /\ UNCHANGED <<owner, released, contexts, starved>>
    BY <1>0, <1>3, HumansQuiet DEF Warm, people, Popped
  <2>2. 1 \in DOMAIN jobs /\ jobs[1].does = "warm" /\ Head(jobs) = jobs[1]
    BY <2>1, PoppedFacts DEF StepInv, SchedulerOK
  <2>3. FirstCome' /\ FormerOK'
    BY <2>1, FirstComeKept, StillOnTheWay, FormerKept DEF Accounts
  <2>4. Active = {}
    BY <2>2 DEF Accounts, WarmOK
  <2>5. \A m \in DOMAIN jobs' : jobs'[m].does # "warm"
    <3>1. PICK q : q = jobs'
      OBVIOUS
    <3>2. \A m \in DOMAIN q : m + 1 \in DOMAIN jobs /\ m + 1 # 1 /\ q[m] = jobs[m + 1]
      BY <2>1, <3>1, PoppedFacts DEF StepInv, SchedulerOK
    <3>. QED
      BY <2>2, <3>1, <3>2 DEF Accounts, WarmOK
  <2>6. ready \in [Slots -> BOOLEAN] /\ 2 \in Slots /\ failures \in Nat /\ SlotOK(2)
    BY DEF StepInv, KvTypes, Slots, Accounts, SlotsOK
  <2>7. CASE ready[2]
    <3>1. UNCHANGED <<ready, avail, failures>> /\ kv2'.future = "done"
      BY <1>3, <2>7 DEF Warm, StepInv, KvTypes
    <3>2. SlotsOK' /\ WarmOK'
      BY <2>1, <2>4, <2>5, <2>6, <3>1, SlotsKept DEF Accounts, WarmOK
    <3>. QED
      BY <2>3, <3>2 DEF Accounts
  <2>8. CASE ~ready[2]
    <3>1. /\ ready' = [ready EXCEPT ![2] = ok] /\ avail' = IF ok THEN avail \cup {2} ELSE avail
          /\ kv2'.future = IF ok THEN "done" ELSE "failed"
          /\ failures' = failures + IF ok THEN 0 ELSE 1
      BY <1>3, <2>8 DEF Warm, Fails, StepInv, KvTypes
    <3>2. ready'[2] = ok /\ (2 \in avail' <=> ok) /\ \A d \in Dialogues : contexts'[d] # 2
      BY <2>1, <2>6, <2>8, <3>1 DEF SlotOK, Held
    <3>3. SlotOK(2)'
      BY <3>2 DEF SlotOK, Held
    <3>4. SlotOK(1)'
      <4>1. SlotOK(1) /\ ready'[1] = ready[1] /\ (1 \in avail' <=> 1 \in avail)
        BY <2>6, <3>1 DEF Accounts, SlotsOK, Slots
      <4>. QED
        BY <2>1, <4>1 DEF SlotOK, Held
    <3>5. starved' => failures' > 0
      BY <2>1, <2>6, <3>1 DEF Accounts, SlotsOK
    <3>6. SlotsOK'
      BY <3>3, <3>4, <3>5 DEF SlotsOK, Slots
    <3>7. WarmOK'
      BY <2>1, <2>4, <2>5, <3>1, <3>2 DEF WarmOK
    <3>. QED
      BY <2>3, <3>6, <3>7 DEF Accounts
  <2>. QED
    BY <2>7, <2>8
<1>4. ASSUME NEW ok \in BOOLEAN, ReleaseContext(ok)
      PROVE  Accounts'
  <2>1. /\ HumansKept /\ Active' = Active /\ Popped(jobs, jobs') /\ Head(jobs).does = "release"
        /\ UNCHANGED <<owner, starved, reqs>>
    BY <1>0, <1>4, HumansQuiet DEF ReleaseContext, Popped
  <2>2. PICK s \in Sessions : s = Head(jobs).of
    <3>1. Head(jobs) \in Work
      BY <2>1, PoppedFacts DEF StepInv, SchedulerOK
    <3>. QED
      BY <2>1, <3>1 DEF Work
  <2>3. \A t : t # s /\ OnTheWay(t) => OnTheWay(t)'
    BY <2>1, <2>2, StillOnTheWay
  <2>4. FirstCome'
    BY <2>1, FirstComeKept DEF Accounts
  <2>5. CASE UNCHANGED <<kv, released, failures>> /\ \E i \in Alive : reqs[i].kind = "human" /\ reqs[i].who = s
    <3>1. UNCHANGED <<contexts, ready, avail, kv2, released, failures>>
      BY <2>5 DEF kv
    <3>2. OnTheWay(s)'
      BY <2>1, <2>5 DEF OnTheWay, Asks, Alive
    <3>3. FormerOK'
      BY <2>1, <2>3, <3>1, <3>2, FormerKept DEF Accounts
    <3>4. SlotsOK' /\ WarmOK'
      BY <2>1, <3>1, SlotsKept, WarmKept DEF Accounts, WarmOK, StepInv, KvTypes
    <3>. QED
      BY <2>4, <3>3, <3>4 DEF Accounts
  <2>6. CASE CloseContext(s, ok) /\ released' = released \ {s}
    <3>1. s \in Dialogues
      BY DEF Dialogues
    <3>2. Closes(s)
      BY <2>6, <3>1, CloseFacts DEF StepInv
    <3>3. \A d \in Dialogues : contexts'[d] = IF d = s THEN 0 ELSE contexts[d]
      BY <3>1, <3>2 DEF Closes, StepInv, KvTypes
    <3>4. FormerOK'
      BY <2>1, <2>3, <2>6, <3>3, FormerKept DEF Accounts, Dialogues
    <3>5. SlotsOK'
      BY <2>1, <3>1, <3>2, SlotsClosed DEF Accounts
    <3>6. kv2.future = "failed" => ready'[2] = ready[2]
      <4>1. kv2.future = "failed" => contexts[s] # 2
        BY <3>1 DEF Accounts, WarmOK, SlotsOK, SlotOK, Held, Slots
      <4>. QED
        <5>1. \/ UNCHANGED ready
              \/ \E o \in BOOLEAN : ready' = [ready EXCEPT ![contexts[s]] = o]
          BY <3>2 DEF Closes
        <5>. QED
          BY <4>1, <5>1 DEF StepInv, KvTypes, Slots
    <3>7. WarmOK'
      BY <2>1, <3>2, <3>6, WarmKept DEF Accounts, WarmOK, Closes
    <3>. QED
      BY <2>4, <3>4, <3>5, <3>7 DEF Accounts
  <2>. QED
    BY <1>4, <2>2, <2>5, <2>6 DEF ReleaseContext
<1>. QED
  BY <1>1, <1>2, <1>3, <1>4 DEF Housekeeping, DiscardQueue

LEMMA AccountsInit == LInit => AccountsInv
<1>. SUFFICES ASSUME LInit PROVE Accounts
  BY DEF AccountsInv
<1>1. reqs = <<>> /\ jobs = <<>> /\ DOMAIN jobs = {} /\ Active = {}
  BY DEF LInit, Active
<1>2. \A d \in Dialogues : contexts[d] = 0
  BY DEF LInit
<1>3. SlotsOK
  <2>1. ready[1] /\ ~ready[2] /\ 1 \in avail /\ 2 \notin avail /\ ~starved
    <3>1. ready = [k \in Slots |-> k = 1] /\ avail = {1} /\ starved = FALSE
      BY DEF LInit
    <3>2. \A k \in Slots : ready[k] = (k = 1)
      BY <3>1, Zenon
    <3>3. ready[1] = (1 = 1) /\ ready[2] = (2 = 1)
      BY <3>2 DEF Slots
    <3>4. ready[1] /\ ~ready[2]
      <4>1. 2 # 1
        OBVIOUS
      <4>. QED
        BY <3>3, <4>1, Zenon
    <3>5. 1 \in avail /\ 2 \notin avail /\ ~starved
      BY <3>1
    <3>. QED
      BY <3>4, <3>5, Zenon
  <2>2. SlotOK(1) /\ SlotOK(2)
    BY <1>2, <2>1 DEF SlotOK, Held
  <2>. QED
    BY <2>1, <2>2 DEF SlotsOK, Slots
<1>4. FormerOK
  BY <1>2 DEF FormerOK, Dialogues
<1>5. FirstCome
  BY <1>1 DEF FirstCome
<1>6. kv2.future = "none"
  BY DEF LInit
<1>7. WarmOK
  BY <1>1, <1>6 DEF WarmOK
<1>. QED
  BY <1>3, <1>4, <1>5, <1>7 DEF Accounts

LEMMA AccountsStep ==
    StepInv /\ StepInv' /\ DialogueInv /\ AccountsInv /\ [LNext]_lvars => AccountsInv'
<1>. SUFFICES ASSUME StepInv, StepInv', DialogueInv, AccountsInv, [LNext]_lvars, ~stopped'
              PROVE  Accounts'
  BY DEF AccountsInv
<1>1. ~stopped /\ ~Stop
  <2>1. ~Stop
    BY DEF Stop
  <2>2. ASSUME NEW s \in Sessions, Acquire(s) \/ SubmitUser(s) \/ ReleaseSession(s)
        PROVE  UNCHANGED stopped
    BY <2>2 DEF Acquire, SubmitUser, ReleaseSession, control
  <2>3. ASSUME NEW r \in Offers, ServiceOffers(r) \/ ServiceRevokes(r) \/ PollOffer(r)
        PROVE  UNCHANGED stopped
    BY <2>3 DEF ServiceOffers, ServiceRevokes, PollOffer, control
  <2>4. ASSUME SubmitVoice \/ WarmKV2 \/ UNCHANGED lvars
               \/ \E r \in Offers, told \in BOOLEAN : FlushCompletions(r, told)
        PROVE  UNCHANGED stopped
    BY <2>4 DEF SubmitVoice, WarmKV2, FlushCompletions, lvars, control
  <2>5. ASSUME NEW i \in DOMAIN reqs, Executor(i) \/ ServiceAway(i)
        PROVE  UNCHANGED stopped
    BY <2>5 DEF Executor, ServiceAway, Allow, Discard, BeginStep, StepYields, StepEnds, control
  <2>6. ASSUME NEW i \in DOMAIN reqs, SchedulerThread(i)
        PROVE  UNCHANGED stopped
    BY <2>6 DEF SchedulerThread, StartNext, Requeue, Complete, control
  <2>7. ASSUME Housekeeping
        PROVE  UNCHANGED stopped
    BY <2>7 DEF Housekeeping, SubmitWarm, PollWarm, DiscardQueue, Warm, ReleaseContext, control
  <2>. QED
    BY <2>1, <2>2, <2>3, <2>4, <2>5, <2>6, <2>7 DEF LNext
<1>2. Accounts
  BY <1>1 DEF AccountsInv
<1>3. ASSUME NEW s \in Sessions, Acquire(s) \/ SubmitUser(s) \/ ReleaseSession(s)
      PROVE  Accounts'
  BY <1>2, <1>3, AccountsClients
<1>4. ASSUME NEW r \in Offers, ServiceOffers(r) \/ ServiceRevokes(r) \/ PollOffer(r)
      PROVE  Accounts'
  <2>1. CASE PollOffer(r)
    <3>1. /\ UNCHANGED <<jobs, contexts, owner, released, ready, avail, starved, failures, kv2>>
          /\ Admit("run", 0, r) /\ 0 \in Nat
      BY <2>1 DEF PollOffer, kv, people, Nobody, history
    <3>2. Admits("run", 0, r) /\ Request("run", 0, r) \in Reqs
      BY <3>1, AdmitMoves DEF StepInv
    <3>. QED
      BY <1>2, <3>1, <3>2, AccountsAdmits
  <2>2. CASE ServiceOffers(r) \/ ServiceRevokes(r)
    BY <1>2, <2>2, AccountsQuiet DEF ServiceOffers, ServiceRevokes, kv, people, history
  <2>. QED
    BY <1>4, <2>1, <2>2
<1>5. CASE SubmitVoice
  <2>1. /\ UNCHANGED <<jobs, contexts, owner, released, ready, avail, starved, failures, kv2>>
        /\ Admit("voice", 0, "none") /\ 0 \in Nat
    BY <1>5 DEF SubmitVoice, kv, people, Voice, history
  <2>2. Admits("voice", 0, "none") /\ Request("voice", 0, "none") \in Reqs
    BY <2>1, AdmitMoves DEF StepInv
  <2>. QED
    BY <1>2, <2>1, <2>2, AccountsAdmits
<1>6. CASE WarmKV2 \/ UNCHANGED lvars \/ \E r \in Offers, told \in BOOLEAN : FlushCompletions(r, told)
  <2>1. kv2'.future = kv2.future
    BY <1>6 DEF WarmKV2, FlushCompletions, lvars, kv, StepInv, KvTypes
  <2>. QED
    BY <1>2, <1>6, <2>1, AccountsQuiet DEF WarmKV2, FlushCompletions, lvars, kv, people, history
<1>. QED
  BY <1>1, <1>2, <1>3, <1>4, <1>5, <1>6, AccountsExecutor, AccountsScheduler, AccountsHousekeeping
     DEF LNext

\* Until it is told to stop, the CORE never loses or shares a manager context, and
\* refuses a turn for want of one only after a KV operation failed.
THEOREM ContextsAccountedProved == LSpec => []ContextsAccounted
<1>1. AccountsInv => ContextsAccounted
  <2>. SUFFICES ASSUME Accounts, NEW k \in Slots
                PROVE  /\ Cardinality({d \in Dialogues : contexts[d] = k}) + (IF k \in avail THEN 1 ELSE 0)
                            = (IF ready[k] THEN 1 ELSE 0)
                       /\ starved => failures > 0
    BY DEF AccountsInv, ContextsAccounted, Slots
  <2>. DEFINE holders == {d \in Dialogues : contexts[d] = k}
  <2>1. SlotOK(k) /\ (starved => failures > 0)
    BY DEF Accounts, SlotsOK
  <2>2. CASE Held(k)
    <3>1. PICK d \in Dialogues : contexts[d] = k
      BY <2>2 DEF Held
    <3>2. holders = {d}
      BY <2>1, <3>1 DEF SlotOK
    <3>3. Cardinality(holders) = 1
      BY <3>2, FS_Singleton
    <3>. QED
      BY <2>1, <2>2, <3>3 DEF SlotOK
  <2>3. CASE ~Held(k)
    <3>1. holders = {}
      BY <2>3 DEF Held
    <3>2. Cardinality(holders) = 0
      BY <3>1, FS_EmptySet
    <3>. QED
      BY <2>1, <2>3, <3>2 DEF SlotOK
  <2>. QED
    BY <2>2, <2>3
<1>. QED
  BY <1>1, StepInvInit, GateInit, StepInvStep, GateStep, DialogueInvInit, DialogueInvStep,
     AccountsInit, AccountsStep, PTL DEF LSpec

=============================================================================
