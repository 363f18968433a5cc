---------------------------- MODULE QueryResults ----------------------------
(***************************************************************************)
(* The durable answers of QUERY tasks, kept by the Task SYSTEM service     *)
(* beside its RUNs: a worker publishes the answer of the RUN it is running *)
(* before it finishes that RUN, and a notification client lists the        *)
(* answers and acknowledges each of them.                                  *)
(*                                                                         *)
(* Every task is a QUERY here: a publication for any other task is refused *)
(* like one for a RUN that is not running.                                 *)
(***************************************************************************)
EXTENDS TaskEngine, Sequences

CONSTANTS
    MaxUnacked,  \* answers that may wait for acknowledgement (the code has 1024)
    MaxAcked     \* acknowledged answers that are remembered (the code has 128)

ASSUME ResultLimits == MaxUnacked \in Nat \ {0} /\ MaxAcked \in Nat \ {0}

VARIABLE results  \* the stored answers, in the order they were published

qvars == <<vars, results>>

Unacked(rec) == {i \in DOMAIN rec : ~rec[i].acked}
Acked(rec) == {i \in DOMAIN rec : rec[i].acked}
StoredRuns(rec) == {rec[i].run : i \in DOMAIN rec}

Without(rec, k) == [i \in 1..(Len(rec) - 1) |-> IF i < k THEN rec[i] ELSE rec[i + 1]]

\* Mutant: the answer published first is evicted, acknowledged or not.
PruneFirst(rec) == IF Cardinality(Acked(rec)) > MaxAcked THEN Without(rec, 1) ELSE rec

\* Only acknowledged answers are evicted, the first published first.  One
\* acknowledgement exceeds the limit by one at most.
PruneAcked(rec) ==
    IF Cardinality(Acked(rec)) > MaxAcked
    THEN Without(rec, CHOOSE k \in Acked(rec) : \A i \in Acked(rec) : k <= i)
    ELSE rec

\* The RUN is running for the caller under this offer, its task is current.
MayPublish(rs, w, r, offer) ==
    /\ Holds(rs, w, r, offer)
    /\ rs[r].state = "running"
    /\ Current(tasks, rs[r])

\* publish_result: answers True when the answer is stored already for the same
\* owner, process and offer; a full store raises, which rolls back.
Publish(w, r, offer) ==
    /\ w \in alive
    /\ runs' = Settled
    /\ IF r \notin StoredRuns(results) /\ MayPublish(Settled, w, r, offer)
       THEN /\ Cardinality(Unacked(results)) < MaxUnacked
            /\ results' = Append(results, [run |-> r, worker |-> w, offer |-> offer,
                                           acked |-> FALSE])
       ELSE results' = results
    /\ UNCHANGED <<management, workers, alive>>

\* What the caller of publish_result is told.
PublishAccepted(w, r, offer) ==
    IF r \in StoredRuns(results)
    THEN \E i \in DOMAIN results :
            results[i].run = r /\ results[i].worker = w /\ results[i].offer = offer
    ELSE MayPublish(Settled, w, r, offer)

\* notifications.ack, by the client that was given the answer.
Acknowledge(r) ==
    /\ r \in StoredRuns(results)
    /\ results' = PruneAcked([i \in DOMAIN results |->
                     [results[i] EXCEPT !.acked = @ \/ results[i].run = r]])
    /\ UNCHANGED vars

-----------------------------------------------------------------------------
QInit == Init /\ results = <<>>

QNext == \/ Next /\ UNCHANGED results
         \/ \E w \in Workers, r \in RunIds, offer \in Offers : Publish(w, r, offer)
         \/ \E r \in RunIds : Acknowledge(r)

QSpec == QInit /\ [][QNext]_qvars

-----------------------------------------------------------------------------
(* Properties.                                                             *)

\* An answer that nobody acknowledged stays in the store, through crashes of
\* the worker, deletion of the task, pruning of the RUN, restarts of the service
\* and the eviction of acknowledged answers around it.  It leaves by its own
\* acknowledgement only (which evicts it at once when the limit of acknowledged
\* answers is reached by answers published after it).
UnackedNeverLost ==
    [][\A i \in DOMAIN results :
        ~results[i].acked =>
            \/ \E j \in DOMAIN results' : /\ results'[j].run = results[i].run
                                         /\ results'[j].worker = results[i].worker
                                         /\ results'[j].offer = results[i].offer
            \/ Acknowledge(results[i].run)]_qvars

\* An answer belongs to a RUN that began: it is running under the stored owner
\* and offer, or it has ended; it is never one that waits to be run again.
AnswerOfABegunRun ==
    \A i \in DOMAIN results :
        LET run == runs[results[i].run]
        IN  /\ run.state \notin {"pending", "offered"}
            /\ run.state = "running" => run.worker = results[i].worker
                                        /\ run.offer = results[i].offer

=============================================================================
