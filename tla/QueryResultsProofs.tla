------------------------- MODULE QueryResultsProofs -------------------------
(***************************************************************************)
(* Proofs about QueryResults, for every number of workers, RUNs and        *)
(* answers.                                                                *)
(***************************************************************************)
EXTENDS QueryResults, TaskEngineProofs, SequenceTheorems, WellFoundedInduction

Results == [run : RunIds, worker : Workers, offer : Offers, acked : BOOLEAN]

OneOfEach(rec) == \A i, j \in DOMAIN rec : rec[i].run = rec[j].run => i = j

\* The answers are of RUNs the journal knows or has known, one of each.
ResultsOK ==
    /\ results \in Seq(Results)
    /\ \A i \in DOMAIN results : results[i].run < nextRun
    /\ OneOfEach(results)

\* The inductive invariant of the service with its store.
QInv == IInv /\ ResultsOK /\ AnswerOfABegunRun

\* The steps of the service, for any client (TaskEngineProofs!ServiceNext), and
\* of its store.
StoreNext == \/ ServiceNext /\ UNCHANGED results
             \/ \E w \in Workers, r \in RunIds, offer \in Offers : Publish(w, r, offer)
             \/ \E r \in RunIds : Acknowledge(r)

-----------------------------------------------------------------------------
(* Sets of positions have a first one.                                     *)

Less == {p \in Nat \X Nat : p[1] < p[2]}

LEMMA LessIsWellFounded == IsWellFoundedOn(Less, Nat)
<1>1. OpToRel(<, Nat) = Less
  BY DEF OpToRel, Less
<1>. QED
  BY <1>1, NatLessThanWellFounded, Zenon

LEMMA FirstOf ==
    ASSUME NEW T \in SUBSET Nat, T # {}
    PROVE  \E k \in T : \A i \in T : k <= i
<1>1. PICK k \in T : \A i \in T : <<i, k>> \notin Less
  BY LessIsWellFounded, WFMin
<1>2. ASSUME NEW i \in T PROVE k <= i
  <2>1. k \in Nat /\ i \in Nat
    OBVIOUS
  <2>2. <<i, k>> \in Less <=> i < k
    BY <2>1 DEF Less
  <2>. QED
    BY <1>1, <2>1, <2>2
<1>. QED
  BY <1>2

-----------------------------------------------------------------------------
(* Eviction.                                                               *)

\* From rec to new some acknowledged answers went, the others stayed.
Evicts(rec, new) ==
    /\ new \in Seq(Results)
    /\ \A j \in DOMAIN new : \E i \in DOMAIN rec : new[j] = rec[i]
    /\ OneOfEach(rec) => OneOfEach(new)
    /\ \A i \in DOMAIN rec : ~rec[i].acked => \E j \in DOMAIN new : new[j] = rec[i]

LEMMA WithoutEvicts ==
    ASSUME NEW rec \in Seq(Results), NEW k \in DOMAIN rec, rec[k].acked
    PROVE  Evicts(rec, Without(rec, k))
<1>. DEFINE new == Without(rec, k)
            shift(j) == IF j < k THEN j ELSE j + 1
<1>1. Len(rec) \in Nat /\ DOMAIN rec = 1..Len(rec) /\ Len(rec) - 1 \in Nat
  BY LenProperties
<1>2. DOMAIN new = 1..(Len(rec) - 1)
  BY DEF Without
<1>3. \A j \in 1..(Len(rec) - 1) : shift(j) \in 1..Len(rec) /\ new[j] = rec[shift(j)]
  BY <1>1 DEF Without
<1>4. new \in Seq(Results)
  <2>1. \A j \in 1..(Len(rec) - 1) : new[j] \in Results
    BY <1>1, <1>3, ElementOfSeq
  <2>2. new = [j \in 1..(Len(rec) - 1) |-> new[j]]
    BY DEF Without
  <2>. HIDE DEF new
  <2>. QED
    BY <1>1, <2>1, <2>2
<1>5. \A i, j \in 1..(Len(rec) - 1) : shift(i) = shift(j) => i = j
  BY <1>1
<1>6. OneOfEach(rec) => OneOfEach(new)
  BY <1>1, <1>2, <1>3, <1>5, SMTT(30) DEF OneOfEach
<1>7. ASSUME NEW i \in DOMAIN rec, ~rec[i].acked
      PROVE  \E j \in DOMAIN new : new[j] = rec[i]
  <2>1. i # k
    BY <1>7
  <2>2. CASE i < k
    <3>1. i \in 1..(Len(rec) - 1) /\ shift(i) = i
      BY <1>1, <2>2
    <3>. QED
      BY <1>2, <1>3, <3>1
  <2>3. CASE i > k
    <3>1. i - 1 \in 1..(Len(rec) - 1) /\ shift(i - 1) = i
      BY <1>1, <2>3
    <3>. QED
      BY <1>2, <1>3, <3>1
  <2>. QED
    BY <1>1, <2>1, <2>2, <2>3
<1>8. \A j \in DOMAIN new : \E i \in DOMAIN rec : new[j] = rec[i]
  BY <1>1, <1>2, <1>3
<1>9. Evicts(rec, new)
  <2>. HIDE DEF new
  <2>. QED
    BY <1>4, <1>6, <1>7, <1>8 DEF Evicts
<1>. QED
  BY <1>9

\* Pruning evicts the first acknowledged answer or nothing.
LEMMA PruneEvicts ==
    ASSUME NEW rec \in Seq(Results)
    PROVE  Evicts(rec, PruneAcked(rec))
<1>1. CASE Cardinality(Acked(rec)) > MaxAcked
  <2>1. Acked(rec) # {}
    <3>1. Cardinality({}) = 0 /\ ~(0 > MaxAcked)
      BY FS_EmptySet, ResultLimits
    <3>. QED
      BY <1>1, <3>1
  <2>2. Acked(rec) \in SUBSET Nat
    BY LenProperties DEF Acked
  <2>. DEFINE k == CHOOSE n \in Acked(rec) : \A i \in Acked(rec) : n <= i
  <2>3. k \in Acked(rec)
    <3>1. \E n \in Acked(rec) : \A i \in Acked(rec) : n <= i
      BY <2>1, <2>2, FirstOf
    <3>. QED
      BY <3>1
  <2>4. PruneAcked(rec) = Without(rec, k)
    BY <1>1 DEF PruneAcked
  <2>. HIDE DEF k
  <2>. QED
    BY <2>3, <2>4, WithoutEvicts DEF Acked
<1>2. CASE ~(Cardinality(Acked(rec)) > MaxAcked)
  BY <1>2 DEF PruneAcked, Evicts
<1>. QED
  BY <1>1, <1>2

\* The acknowledgement of r before the eviction that follows it.
Marked(r) == [i \in DOMAIN results |->
                [results[i] EXCEPT !.acked = @ \/ results[i].run = r]]

LEMMA MarkedFacts ==
    ASSUME results \in Seq(Results), NEW r \in RunIds
    PROVE  /\ Marked(r) \in Seq(Results)
           /\ DOMAIN Marked(r) = DOMAIN results
           /\ \A i \in DOMAIN results :
                /\ Marked(r)[i].run = results[i].run
                /\ Marked(r)[i].worker = results[i].worker
                /\ Marked(r)[i].offer = results[i].offer
                /\ Marked(r)[i].acked <=> results[i].acked \/ results[i].run = r
<1>1. /\ Len(results) \in Nat /\ DOMAIN results = 1..Len(results)
      /\ \A i \in 1..Len(results) : results[i] \in Results
  BY LenProperties, ElementOfSeq
<1>2. \A i \in 1..Len(results) :
        /\ Marked(r)[i] \in Results
        /\ Marked(r)[i].run = results[i].run
        /\ Marked(r)[i].worker = results[i].worker
        /\ Marked(r)[i].offer = results[i].offer
        /\ Marked(r)[i].acked <=> results[i].acked \/ results[i].run = r
  BY <1>1 DEF Marked, Results
<1>3. Marked(r) = [i \in 1..Len(results) |-> Marked(r)[i]]
  BY <1>1 DEF Marked
<1>4. Marked(r) \in Seq(Results)
  <2>. DEFINE new == Marked(r)
  <2>1. new = [i \in 1..Len(results) |-> new[i]] /\ \A i \in 1..Len(results) : new[i] \in Results
    BY <1>2, <1>3
  <2>. HIDE DEF new
  <2>2. new \in Seq(Results)
    BY <1>1, <2>1
  <2>. QED
    BY <2>2 DEF new
<1>. QED
  BY <1>1, <1>2, <1>4 DEF Marked

-----------------------------------------------------------------------------
(* The invariant of the store.                                             *)

\* A step that leaves the store alone, or publishes, is a step of the service.
LEMMA PublishServes ==
    ASSUME NEW w \in Workers, NEW r, NEW offer, Publish(w, r, offer)
    PROVE  ServiceNext
<1>1. Valid(w)
  BY DEF Publish, Valid
<1>. QED
  BY <1>1 DEF ServiceNext, WorkerRequest, WorkerStep

LEMMA StoreServes ==
    ASSUME StoreNext \/ UNCHANGED qvars
    PROVE  [ServiceNext]_vars
  BY PublishServes DEF StoreNext, Acknowledge, qvars

\* The answers that were there stay answers of RUNs that began.
LEMMA ServiceKeepsAnswers ==
    ASSUME QInv, IInv', [ServiceNext]_vars, NEW i \in DOMAIN results
    PROVE  LET run == runs'[results[i].run]
           IN  /\ results[i].run < nextRun'
               /\ run.state \notin {"pending", "offered"}
               /\ run.state = "running" => /\ run.worker = results[i].worker
                                           /\ run.offer = results[i].offer
<1>. DEFINE r == results[i].run
<1>1. r \in RunIds /\ r < nextRun
  <2>1. results[i] \in Results
    BY LenProperties, ElementOfSeq DEF QInv, ResultsOK
  <2>. QED
    BY <2>1 DEF QInv, ResultsOK, Results
<1>2. Forward(runs[r], runs'[r])
  BY <1>1, NextForward DEF QInv
<1>3. r < nextRun'
  BY <1>1, NextRunGrows DEF QInv, RunIds
<1>4. /\ runs[r].state \notin {"pending", "offered"}
      /\ runs[r].state = "running" => /\ runs[r].worker = results[i].worker
                                      /\ runs[r].offer = results[i].offer
  BY DEF QInv, AnswerOfABegunRun
<1>5. runs[r].state \in {"absent", "running"} \cup TERMINAL
  <2>1. runs[r] \in Runs
    BY <1>1 DEF QInv, IInv, TypeOK
  <2>. QED
    BY <1>4, <2>1 DEF Runs, Unfinished
<1>. HIDE DEF r
<1>6. /\ runs'[r].state \notin {"pending", "offered"}
      /\ runs'[r].state = "running" => runs'[r] = runs[r] /\ runs[r].state = "running"
  BY <1>2, <1>5 DEF Forward, TERMINAL
<1>7. /\ r < nextRun'
      /\ runs'[r].state \notin {"pending", "offered"}
      /\ runs'[r].state = "running" => /\ runs'[r].worker = results[i].worker
                                       /\ runs'[r].offer = results[i].offer
  BY <1>3, <1>4, <1>6
<1>. QED
  BY <1>7 DEF r

LEMMA UnchangedStoreKeeps ==
    ASSUME QInv, IInv', [ServiceNext]_vars, UNCHANGED results
    PROVE  QInv'
<1>1. ResultsOK'
  BY ServiceKeepsAnswers DEF QInv, ResultsOK, OneOfEach
<1>2. AnswerOfABegunRun'
  BY ServiceKeepsAnswers DEF AnswerOfABegunRun
<1>. QED
  BY <1>1, <1>2 DEF QInv

\* What a publication adds is the answer of a RUN that runs for its worker.
LEMMA PublishKeeps ==
    ASSUME QInv, IInv', NEW w \in Workers, NEW r \in RunIds, NEW offer \in Offers,
           Publish(w, r, offer)
    PROVE  QInv'
<1>. DEFINE answer == [run |-> r, worker |-> w, offer |-> offer, acked |-> FALSE]
<1>1. [ServiceNext]_vars
  BY PublishServes
<1>2. CASE results' = results
  BY <1>1, <1>2, UnchangedStoreKeeps
<1>3. CASE /\ r \notin StoredRuns(results) /\ MayPublish(Settled, w, r, offer)
           /\ results' = Append(results, answer)
  <2>1. results \in Seq(Results) /\ answer \in Results
    BY DEF QInv, ResultsOK, Results
  <2>. HIDE DEF answer
  <2>2. /\ results' \in Seq(Results) /\ Len(results) \in Nat
        /\ DOMAIN results = 1..Len(results) /\ DOMAIN results' = 1..(Len(results) + 1)
        /\ \A i \in 1..Len(results) : results'[i] = results[i]
        /\ results'[Len(results) + 1] = answer
    BY <1>3, <2>1, AppendProperties, LenProperties
  <2>3. /\ answer.run = r /\ answer.worker = w /\ answer.offer = offer
        /\ r \notin {results[i].run : i \in DOMAIN results}
    BY <1>3 DEF answer, StoredRuns
  <2>4. /\ runs'[r].state = "running" /\ runs'[r].worker = w /\ runs'[r].offer = offer
        /\ r < nextRun'
    <3>1. runs' = Settled
      BY DEF Publish
    <3>2. runs'[r].state = "running" /\ runs'[r].worker = w /\ runs'[r].offer = offer
      BY <1>3, <3>1 DEF MayPublish, Holds
    <3>. QED
      BY <3>2 DEF IInv, TypeOK, JournalIsPrefix, RunIds
  <2>5. OneOfEach(results')
    BY <2>2, <2>3 DEF QInv, ResultsOK, OneOfEach
  <2>6. ASSUME NEW i \in DOMAIN results'
        PROVE  /\ results'[i].run < nextRun'
               /\ runs'[results'[i].run].state \notin {"pending", "offered"}
               /\ runs'[results'[i].run].state = "running" =>
                    /\ runs'[results'[i].run].worker = results'[i].worker
                    /\ runs'[results'[i].run].offer = results'[i].offer
    <3>1. CASE i = Len(results) + 1
      BY <2>2, <2>3, <2>4, <3>1
    <3>2. CASE i \in DOMAIN results
      BY <1>1, <2>2, <3>2, ServiceKeepsAnswers
    <3>. QED
      BY <2>2, <3>1, <3>2
  <2>. QED
    BY <2>2, <2>5, <2>6 DEF QInv, ResultsOK, AnswerOfABegunRun, OneOfEach
<1>. QED
  BY <1>2, <1>3 DEF Publish

LEMMA AcknowledgeKeeps ==
    ASSUME QInv, NEW r \in RunIds, Acknowledge(r)
    PROVE  QInv'
<1>1. results \in Seq(Results) /\ results' = PruneAcked(Marked(r)) /\ UNCHANGED vars
  BY DEF QInv, ResultsOK, Acknowledge, Marked
<1>2. Evicts(Marked(r), results')
  BY <1>1, MarkedFacts, PruneEvicts
<1>3. OneOfEach(Marked(r))
  BY <1>1, MarkedFacts DEF OneOfEach, QInv, ResultsOK
<1>4. \A j \in DOMAIN results' : \E i \in DOMAIN results :
        /\ results'[j].run = results[i].run
        /\ results'[j].worker = results[i].worker
        /\ results'[j].offer = results[i].offer
  BY <1>1, <1>2, MarkedFacts DEF Evicts
<1>5. nextRun' = nextRun /\ runs' = runs
  BY <1>1 DEF vars
<1>6. ResultsOK'
  BY <1>2, <1>3, <1>4, <1>5 DEF Evicts, QInv, ResultsOK, OneOfEach
<1>7. AnswerOfABegunRun'
  BY <1>4, <1>5 DEF QInv, AnswerOfABegunRun
<1>8. IInv'
  BY <1>1, NextInv DEF QInv
<1>. QED
  BY <1>6, <1>7, <1>8 DEF QInv

LEMMA StoreInv == QInv /\ (StoreNext \/ UNCHANGED qvars) => QInv'
<1>. SUFFICES ASSUME QInv, StoreNext \/ UNCHANGED qvars PROVE QInv'
  OBVIOUS
<1>1. [ServiceNext]_vars /\ IInv'
  BY StoreServes, NextInv DEF QInv
<1>2. CASE UNCHANGED results
  BY <1>1, <1>2, UnchangedStoreKeeps
<1>. QED
  BY <1>1, <1>2, PublishKeeps, AcknowledgeKeeps DEF StoreNext, qvars

LEMMA QInitInv == QInit => QInv
<1>. SUFFICES ASSUME QInit PROVE QInv
  OBVIOUS
<1>1. IInv
  BY InitInv DEF QInit
<1>2. results \in Seq(Results) /\ DOMAIN results = {}
  BY EmptySeq DEF QInit
<1>. QED
  BY <1>1, <1>2 DEF QInv, ResultsOK, AnswerOfABegunRun, OneOfEach

LEMMA QSpecSteps == QSpec => QInit /\ [][StoreNext]_qvars
<1>1. [QNext]_qvars => [StoreNext]_qvars
  BY DEF QNext, StoreNext, Next, ServiceNext, WorkerRequest
<1>. QED
  BY <1>1, PTL DEF QSpec

LEMMA QInvariance == QSpec => []QInv
  BY QInitInv, StoreInv, QSpecSteps, PTL

\* Whatever is published, finished, pruned, restarted or acknowledged in any
\* order: an answer in the store is of a RUN that began, and while that RUN runs
\* the answer is its present owner's.
THEOREM AnswerOfABegunRunProved == QSpec => []AnswerOfABegunRun
<1>1. QInv => AnswerOfABegunRun
  BY DEF QInv
<1>. QED
  BY <1>1, QInvariance, PTL

\* No eviction, deletion or restart takes an answer before its own
\* acknowledgement.
THEOREM UnackedNeverLostProved == QSpec => UnackedNeverLost
<1>1. ASSUME QInv, StoreNext \/ UNCHANGED qvars, NEW i \in DOMAIN results, ~results[i].acked,
             ~Acknowledge(results[i].run)
      PROVE  \E j \in DOMAIN results' : /\ results'[j].run = results[i].run
                                       /\ results'[j].worker = results[i].worker
                                       /\ results'[j].offer = results[i].offer
  <2>1. results \in Seq(Results) /\ Len(results) \in Nat /\ DOMAIN results = 1..Len(results)
    BY <1>1, LenProperties DEF QInv, ResultsOK
  <2>2. CASE results' = results
    <3>1. i \in DOMAIN results' /\ results'[i] = results[i]
      BY <2>2
    <3>. QED
      BY <3>1
  <2>3. ASSUME NEW w \in Workers, NEW r \in RunIds, NEW offer \in Offers,
               Publish(w, r, offer), results' # results
        PROVE  i \in DOMAIN results' /\ results'[i] = results[i]
    <3>. DEFINE answer == [run |-> r, worker |-> w, offer |-> offer, acked |-> FALSE]
    <3>1. results' = Append(results, answer) /\ answer \in Results
      BY <2>3 DEF Publish, Results
    <3>. HIDE DEF answer
    <3>. QED
      BY <2>1, <3>1, AppendProperties, LenProperties
  <2>4. ASSUME NEW r \in RunIds, Acknowledge(r)
        PROVE  \E j \in DOMAIN results' : /\ results'[j].run = results[i].run
                                         /\ results'[j].worker = results[i].worker
                                         /\ results'[j].offer = results[i].offer
    <3>1. r # results[i].run
      BY <1>1, <2>4
    <3>2. results' = PruneAcked(Marked(r))
      BY <2>4 DEF Acknowledge, Marked
    <3>3. Evicts(Marked(r), results')
      BY <2>1, <3>2, MarkedFacts, PruneEvicts
    <3>4. i \in DOMAIN Marked(r) /\ ~Marked(r)[i].acked
      BY <1>1, <2>1, <3>1, MarkedFacts
    <3>5. PICK j \in DOMAIN results' : results'[j] = Marked(r)[i]
      BY <3>3, <3>4 DEF Evicts
    <3>. QED
      BY <2>1, <3>5, MarkedFacts
  <2>. QED
    BY <1>1, <2>2, <2>3, <2>4 DEF StoreNext, qvars
<1>2. ASSUME QInv, [StoreNext]_qvars
      PROVE  [\A i \in DOMAIN results :
                ~results[i].acked =>
                    \/ \E j \in DOMAIN results' : /\ results'[j].run = results[i].run
                                                 /\ results'[j].worker = results[i].worker
                                                 /\ results'[j].offer = results[i].offer
                    \/ Acknowledge(results[i].run)]_qvars
  BY <1>1, <1>2
<1>. QED
  BY <1>2, QInvariance, QSpecSteps, PTL DEF UnackedNeverLost

=============================================================================
