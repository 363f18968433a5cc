----------------------------- MODULE RunLedger -----------------------------
(***************************************************************************)
(* What the Task SYSTEM promises about the execution of RUNs, whatever its *)
(* requests, leases, crashes and restarts: an exclusive, at-most-once      *)
(* ledger.  A RUN waits, is held under one grant, begins under that grant, *)
(* and ends; it may go back to waiting only before it began.  One request  *)
(* or one tick of the service may move many RUNs.                          *)
(***************************************************************************)
CONSTANTS Entries, Jobs, Grants, Outcomes, NoJob, NoGrant

VARIABLE ledger  \* entry -> its phase, its job and the grant it is held under

Unborn == [phase |-> "unborn", job |-> NoJob, grant |-> NoGrant]
Gone == [phase |-> "gone", job |-> NoJob, grant |-> NoGrant]
Waiting(job) == [phase |-> "waiting", job |-> job, grant |-> NoGrant]
Held(job, g) == [phase |-> "held", job |-> job, grant |-> g]
Begun(job, g) == [phase |-> "begun", job |-> job, grant |-> g]
Over(outcome) == [phase |-> outcome, job |-> NoJob, grant |-> NoGrant]

Busy(e) == e.phase \in {"held", "begun"}

\* What one request may do to one entry.
Moves(a, b) ==
    \/ b = a
    \/ a = Unborn /\ b.job \in Jobs /\ b = Waiting(b.job)
    \/ /\ a.phase \in {"waiting", "held"}
       /\ b = Waiting(a.job) \/ (b.grant \in Grants /\ b = Held(a.job, b.grant))
    \/ a.phase = "held" /\ b = Begun(a.job, a.grant)
    \/ /\ a.phase \in {"waiting", "held", "begun"}
       /\ b = Gone \/ (b.phase \in Outcomes /\ b = Over(b.phase))
    \/ a.phase \in Outcomes /\ b = Gone

\* No job is in two hands.
Exclusive(l) ==
    \A r, q \in Entries : Busy(l[r]) /\ Busy(l[q]) /\ l[r].job = l[q].job => r = q

LedgerInit == ledger = [r \in Entries |-> Unborn]

LedgerNext ==
    LET before == ledger
        after == ledger'
    IN  /\ DOMAIN after = Entries
        /\ \A r \in Entries : Moves(before[r], after[r])
        /\ Exclusive(after)

LedgerSpec == LedgerInit /\ [][LedgerNext]_ledger

=============================================================================
