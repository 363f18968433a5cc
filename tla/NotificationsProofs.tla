------------------------- MODULE NotificationsProofs -------------------------
(***************************************************************************)
(* Proofs about Notifications, for any number of COREs, answers, replies   *)
(* and terminal sessions: no answer is acknowledged that a crash can lose, *)
(* and no delivered notification becomes pending again.                    *)
(***************************************************************************)
EXTENDS Notifications, TLAPS

Row == [id : Ids, delivered : BOOLEAN, due : BOOLEAN]

-----------------------------------------------------------------------------
(* The outbox: rows are added, and what is delivered stays delivered.      *)

OutboxOK(box) ==
    /\ box \in Seq(Row)
    /\ \A i, j \in DOMAIN box : box[i].id = box[j].id => i = j

\* Every row of the outbox is there afterwards, delivered if it was.
GoesOn(box, box2) ==
    \A i \in DOMAIN box :
        i \in DOMAIN box2 /\ box2[i].id = box[i].id /\ (box[i].delivered => box2[i].delivered)

\* The transactions that change rows: they leave the ids as they are.
SameRows(box, box2) ==
    /\ DOMAIN box2 = DOMAIN box
    /\ \A i \in DOMAIN box : /\ box2[i] \in Row /\ box2[i].id = box[i].id
                             /\ box[i].delivered => box2[i].delivered

LEMMA SameRowsGoOn ==
    ASSUME NEW box, OutboxOK(box), NEW box2, SameRows(box, box2), box2 = [i \in DOMAIN box |-> box2[i]]
    PROVE  OutboxOK(box2) /\ GoesOn(box, box2)
<1>1. box2 \in Seq(Row)
  <2>1. Len(box) \in Nat /\ DOMAIN box = 1..Len(box)
    BY DEF OutboxOK
  <2>2. box2 \in [1..Len(box) -> Row]
    BY <2>1 DEF SameRows
  <2>. QED
    BY <2>1, <2>2
<1>. QED
  BY <1>1 DEF OutboxOK, SameRows, GoesOn

\* INSERT ... ON CONFLICT(id) DO NOTHING
LEMMA Enqueued ==
    ASSUME NEW box, OutboxOK(box), NEW id \in Ids, NEW box2, box2 = Enqueue(box, id)
    PROVE  /\ OutboxOK(box2) /\ GoesOn(box, box2)
           /\ \E i \in DOMAIN box2 : box2[i].id = id
<1>1. CASE \E i \in DOMAIN box : box[i].id = id
  BY <1>1 DEF Enqueue, GoesOn
<1>2. CASE ~\E i \in DOMAIN box : box[i].id = id
  <2>1. PICK row : row = [id |-> id, delivered |-> FALSE, due |-> TRUE]
    OBVIOUS
  <2>2. row \in Row /\ row.id = id /\ box2 = Append(box, row)
    BY <1>2, <2>1 DEF Row, Enqueue
  <2>3. /\ box2 \in Seq(Row) /\ Len(box) \in Nat /\ DOMAIN box = 1..Len(box)
        /\ DOMAIN box2 = 1..(Len(box) + 1) /\ box2[Len(box) + 1] = row
        /\ \A i \in DOMAIN box : box2[i] = box[i]
    BY <2>2 DEF OutboxOK
  <2>4. \A i \in DOMAIN box2 : i \in DOMAIN box \/ i = Len(box) + 1
    BY <2>3
  <2>5. \A i, j \in DOMAIN box2 : box2[i].id = box2[j].id => i = j
    BY <1>2, <2>2, <2>3, <2>4 DEF OutboxOK
  <2>6. GoesOn(box, box2)
    BY <2>3 DEF GoesOn
  <2>. QED
    BY <2>2, <2>3, <2>5, <2>6 DEF OutboxOK
<1>. QED
  BY <1>1, <1>2

LEMMA DeliveredRows ==
    ASSUME OutboxOK(outbox), NEW id, outbox' = Delivered(id)
    PROVE  OutboxOK(outbox') /\ GoesOn(outbox, outbox')
<1>1. \A i \in DOMAIN outbox : outbox[i] \in Row
  BY DEF OutboxOK
<1>2. SameRows(outbox, outbox')
  BY <1>1 DEF Delivered, SameRows, Row
<1>3. outbox' = [i \in DOMAIN outbox |-> outbox'[i]]
  BY DEF Delivered
<1>. QED
  BY <1>2, <1>3, SameRowsGoOn

-----------------------------------------------------------------------------
(* The inductive invariant.                                                *)

Hands == [Cores -> [Answers -> {"no", "found", "queued"}]]
Terminals == [Cores -> [seen : SUBSET Ids, owes : SUBSET Ids]]

\* What a terminal owes an acknowledgement for it has shown, and what a CORE is
\* about to acknowledge is in the outbox.
ToAcknowledge ==
    /\ \A c \in Cores : terminal[c].owes \subseteq shown /\ terminal[c].seen \subseteq shown
    /\ \A c \in Cores, r \in Answers : hand[c][r] = "queued" => InOutbox(r)

OInv ==
    /\ OutboxOK(outbox)
    /\ inbox \in [Answers -> {"none", "stored", "acked"}]
    /\ hand \in Hands /\ terminal \in Terminals
    /\ ToAcknowledge
    /\ AckedAnswerIsSafe

\* An answer that is safe stays so.
LEMMA StaysInOutbox ==
    ASSUME GoesOn(outbox, outbox'), NEW id, InOutbox(id)
    PROVE  InOutbox(id)'
  BY DEF GoesOn, InOutbox

LEMMA OutboxStep ==
    ASSUME OutboxOK(outbox), ONext
    PROVE  OutboxOK(outbox') /\ GoesOn(outbox, outbox')
<1>1. CASE UNCHANGED outbox
  BY <1>1 DEF GoesOn
<1>2. ASSUME NEW c \in Cores, NEW r \in Answers, PublishOffline(c, r)
      PROVE  OutboxOK(outbox') /\ GoesOn(outbox, outbox')
  BY <1>2, Enqueued DEF PublishOffline, Ids
<1>3. ASSUME NEW c \in Cores, NEW id \in Replies, EnqueueReply(c, id)
      PROVE  OutboxOK(outbox') /\ GoesOn(outbox, outbox')
  BY <1>3, Enqueued DEF EnqueueReply, Ids
<1>4. ASSUME NEW c \in Cores, PumpAcknowledges(c)
      PROVE  OutboxOK(outbox') /\ GoesOn(outbox, outbox')
  BY <1>4, DeliveredRows DEF PumpAcknowledges
<1>5. ASSUME NEW c \in Cores, NEW id \in Ids, NotificationAck(c, id)
      PROVE  OutboxOK(outbox') /\ GoesOn(outbox, outbox')
  BY <1>5, DeliveredRows DEF NotificationAck
<1>6. ASSUME NEW c \in Cores, PumpPostpones(c)
      PROVE  OutboxOK(outbox') /\ GoesOn(outbox, outbox')
  <2>1. \A i \in DOMAIN outbox : outbox[i] \in Row
    BY DEF OutboxOK
  <2>2. SameRows(outbox, outbox')
    BY <1>6, <2>1 DEF PumpPostpones, SameRows, Row
  <2>3. outbox' = [i \in DOMAIN outbox |-> outbox'[i]]
    BY <1>6 DEF PumpPostpones
  <2>. QED
    BY <2>2, <2>3, SameRowsGoOn
<1>7. ASSUME NEW k \in DOMAIN outbox, DelayPasses(k)
      PROVE  OutboxOK(outbox') /\ GoesOn(outbox, outbox')
  <2>1. (\A i \in DOMAIN outbox : outbox[i] \in Row) /\ outbox = [i \in DOMAIN outbox |-> outbox[i]]
    BY DEF OutboxOK
  <2>2. SameRows(outbox, outbox')
    BY <1>7, <2>1 DEF DelayPasses, SameRows, Row
  <2>3. outbox' = [i \in DOMAIN outbox |-> outbox'[i]]
    BY <1>7, <2>1 DEF DelayPasses
  <2>. QED
    BY <2>2, <2>3, SameRowsGoOn
<1>. QED
  BY <1>1, <1>2, <1>3, <1>4, <1>5, <1>6, <1>7
  DEF ONext, AnswerIsStored, RecoverOffline, HandOver, PublishLive, Acknowledges,
      AcknowledgeHandOver, HandOverFails, PumpChooses, Send, SendToTerminal, FirebaseAccepts,
      FirebaseFails, PumpStep, LeaseLapses, Acquire, Disconnect, PollInbox, TerminalStep,
      ShowAnswer, ShowNotification, TerminalAcknowledges, CoreDies, CoreCloses, Down, CoreStarts,
      shared

-----------------------------------------------------------------------------
(* The invariant is preserved.                                             *)

\* A step that acknowledges nothing keeps what is acknowledged safe.
LEMMA KeepsSafe ==
    ASSUME OInv, GoesOn(outbox, outbox'), shown \subseteq shown',
           \A r \in Answers : inbox'[r] = "acked" => inbox[r] = "acked"
    PROVE  AckedAnswerIsSafe'
<1>1. ASSUME NEW r \in Answers, inbox'[r] = "acked" PROVE r \in shown' \/ InOutbox(r)'
  <2>1. r \in shown \/ InOutbox(r)
    BY <1>1 DEF OInv, AckedAnswerIsSafe
  <2>. QED
    BY <2>1, StaysInOutbox
<1>. QED
  BY <1>1 DEF AckedAnswerIsSafe

LEMMA AckKeepsSafe ==
    ASSUME OInv, GoesOn(outbox, outbox'), shown' = shown, NEW r \in Answers,
           r \in shown \/ InOutbox(r), inbox' = [inbox EXCEPT ![r] = "acked"]
    PROVE  AckedAnswerIsSafe' /\ inbox' \in [Answers -> {"none", "stored", "acked"}]
<1>1. ASSUME NEW a \in Answers, inbox'[a] = "acked" PROVE a \in shown' \/ InOutbox(a)'
  <2>1. a \in shown \/ InOutbox(a)
    BY <1>1 DEF OInv, AckedAnswerIsSafe
  <2>. QED
    BY <2>1, StaysInOutbox
<1>. QED
  BY <1>1 DEF AckedAnswerIsSafe, OInv

\* A hand-over that is dropped, or a terminal that starts anew, owes nothing.
LEMMA HandsKeep ==
    ASSUME OInv, GoesOn(outbox, outbox'), hand' \in Hands,
           \A c \in Cores, r \in Answers : hand'[c][r] = "queued" => hand[c][r] = "queued" \/ InOutbox(r)'
    PROVE  \A c \in Cores, r \in Answers : hand'[c][r] = "queued" => InOutbox(r)'
  BY StaysInOutbox DEF OInv, ToAcknowledge

TerminalsOK == \A c \in Cores : terminal[c].owes \subseteq shown /\ terminal[c].seen \subseteq shown

LEMMA TerminalsKeep ==
    ASSUME OInv, ONext
    PROVE  terminal' \in Terminals /\ TerminalsOK' /\ shown \subseteq shown'
<1>1. terminal \in Terminals /\ TerminalsOK
  BY DEF OInv, ToAcknowledge, TerminalsOK
<1>2. CASE UNCHANGED <<terminal, shown>>
  BY <1>1, <1>2 DEF TerminalsOK
<1>3. ASSUME NEW c \in Cores, terminal' = [terminal EXCEPT ![c] = NewTerminal], UNCHANGED shown
      PROVE  terminal' \in Terminals /\ TerminalsOK' /\ shown \subseteq shown'
  BY <1>1, <1>3 DEF Terminals, TerminalsOK, NewTerminal
<1>4. ASSUME NEW c \in Cores, NEW id \in Ids, ShowAnswer(c, id)
      PROVE  terminal' \in Terminals /\ TerminalsOK' /\ shown \subseteq shown'
  <2>1. /\ terminal' = [terminal EXCEPT ![c] = [seen |-> @.seen \cup {id}, owes |-> @.owes \cup {id}]]
        /\ shown' = IF id \in terminal[c].seen THEN shown ELSE shown \cup {id}
    BY <1>4 DEF ShowAnswer
  <2>2. shown \subseteq shown' /\ id \in shown'
    BY <1>1, <2>1 DEF TerminalsOK
  <2>3. terminal' \in Terminals
    BY <1>1, <2>1 DEF Terminals
  <2>4. ASSUME NEW d \in Cores
        PROVE  terminal'[d].owes \subseteq shown' /\ terminal'[d].seen \subseteq shown'
    <3>1. CASE d = c
      BY <1>1, <2>1, <2>2, <3>1 DEF Terminals, TerminalsOK
    <3>2. CASE d # c
      BY <1>1, <2>1, <2>2, <3>2 DEF Terminals, TerminalsOK
    <3>. QED
      BY <3>1, <3>2
  <2>. QED
    BY <2>2, <2>3, <2>4 DEF TerminalsOK
<1>5. ASSUME NEW c \in Cores, NEW id \in Ids, ShowNotification(c, id)
      PROVE  terminal' \in Terminals /\ TerminalsOK' /\ shown \subseteq shown'
  BY <1>1, <1>5 DEF ShowNotification, TerminalsOK
<1>6. ASSUME NEW c \in Cores, NEW r \in Answers, TerminalAcknowledges(c, r)
      PROVE  terminal' \in Terminals /\ TerminalsOK' /\ shown \subseteq shown'
  BY <1>1, <1>6 DEF TerminalAcknowledges, Terminals, TerminalsOK
<1>. QED
  BY <1>2, <1>3, <1>4, <1>5, <1>6
  DEF ONext, AnswerIsStored, EnqueueReply, RecoverOffline, HandOver, PublishLive, PublishOffline,
      Acknowledges, AcknowledgeHandOver, HandOverFails, PumpChooses, Send, SendToTerminal,
      FirebaseAccepts, FirebaseFails, PumpStep, PumpAcknowledges, PumpPostpones, LeaseLapses,
      Acquire, Disconnect, Detach, PollInbox, TerminalStep, NotificationAck, CoreDies, CoreCloses,
      Down, CoreStarts, DelayPasses, terminals

LEMMA HandsStep ==
    ASSUME OInv, ONext
    PROVE  /\ hand' \in Hands
           /\ \A c \in Cores, r \in Answers : hand'[c][r] = "queued" => InOutbox(r)'
<1>1. hand \in Hands /\ GoesOn(outbox, outbox')
  BY OutboxStep DEF OInv
<1>2. CASE UNCHANGED hand
  BY <1>1, <1>2, HandsKeep
<1>3. ASSUME NEW c \in Cores, NEW r \in Answers, NEW v \in {"no", "found"},
             hand' = [hand EXCEPT ![c][r] = v]
      PROVE  /\ hand' \in Hands
             /\ \A d \in Cores, a \in Answers : hand'[d][a] = "queued" => InOutbox(a)'
  <2>1. hand' \in Hands
    BY <1>1, <1>3 DEF Hands
  <2>2. \A d \in Cores, a \in Answers : hand'[d][a] = "queued" => hand[d][a] = "queued"
    BY <1>1, <1>3 DEF Hands
  <2>. QED
    BY <1>1, <2>1, <2>2, HandsKeep
<1>4. ASSUME NEW c \in Cores, NEW f \in [Answers -> {"no", "found"}],
             hand' = [hand EXCEPT ![c] = f]
      PROVE  /\ hand' \in Hands
             /\ \A d \in Cores, a \in Answers : hand'[d][a] = "queued" => InOutbox(a)'
  <2>1. hand' \in Hands
    BY <1>1, <1>4 DEF Hands
  <2>2. \A d \in Cores, a \in Answers : hand'[d][a] = "queued" => hand[d][a] = "queued"
    BY <1>1, <1>4 DEF Hands
  <2>. QED
    BY <1>1, <2>1, <2>2, HandsKeep
<1>5. ASSUME NEW c \in Cores, NEW r \in Answers, PublishOffline(c, r)
      PROVE  /\ hand' \in Hands
             /\ \A d \in Cores, a \in Answers : hand'[d][a] = "queued" => InOutbox(a)'
  <2>1. hand' = [hand EXCEPT ![c][r] = "queued"] /\ InOutbox(r)'
    BY <1>5, Enqueued DEF PublishOffline, OInv, Ids, InOutbox
  <2>2. hand' \in Hands
    BY <1>1, <2>1 DEF Hands
  <2>3. \A d \in Cores, a \in Answers : hand'[d][a] = "queued" => hand[d][a] = "queued" \/ a = r
    BY <1>1, <2>1 DEF Hands
  <2>. QED
    BY <1>1, <2>1, <2>2, <2>3, HandsKeep
<1>6. ASSUME NEW c \in Cores, RecoverOffline(c)
      PROVE  /\ hand' \in Hands
             /\ \A d \in Cores, a \in Answers : hand'[d][a] = "queued" => InOutbox(a)'
  <2>1. PICK f : f = [r \in Answers |-> IF inbox[r] = "stored" THEN "found" ELSE "no"]
    OBVIOUS
  <2>2. f \in [Answers -> {"no", "found"}] /\ hand' = [hand EXCEPT ![c] = f]
    BY <1>6, <2>1 DEF RecoverOffline
  <2>. QED
    BY <1>4, <2>2
<1>7. ASSUME NEW c \in Cores, HandOverFails(c) \/ CoreDies(c) \/ CoreCloses(c)
      PROVE  /\ hand' \in Hands
             /\ \A d \in Cores, a \in Answers : hand'[d][a] = "queued" => InOutbox(a)'
  <2>1. PICK f : f = [r \in Answers |-> "no"]
    OBVIOUS
  <2>2. f \in [Answers -> {"no", "found"}] /\ hand' = [hand EXCEPT ![c] = f]
    BY <1>7, <2>1 DEF HandOverFails, CoreDies, CoreCloses, Down
  <2>. QED
    BY <1>4, <2>2
<1>8. \A c \in Cores, r \in Answers :
        /\ AnswerIsStored(c, r) => hand' = [hand EXCEPT ![c][r] = "found"]
        /\ PublishLive(c, r) \/ AcknowledgeHandOver(c, r) => hand' = [hand EXCEPT ![c][r] = "no"]
  BY DEF AnswerIsStored, PublishLive, AcknowledgeHandOver
<1>. QED
  BY <1>2, <1>3, <1>5, <1>6, <1>7, <1>8
  DEF ONext, EnqueueReply, HandOver, Acknowledges, PumpChooses, Send, SendToTerminal,
      FirebaseAccepts, FirebaseFails, PumpStep, PumpAcknowledges, PumpPostpones, LeaseLapses,
      Acquire, Disconnect, PollInbox, TerminalStep, ShowAnswer, ShowNotification,
      TerminalAcknowledges, NotificationAck, CoreStarts, DelayPasses

LEMMA InboxStep ==
    ASSUME OInv, ONext
    PROVE  inbox' \in [Answers -> {"none", "stored", "acked"}] /\ AckedAnswerIsSafe'
<1>1. /\ inbox \in [Answers -> {"none", "stored", "acked"}] /\ GoesOn(outbox, outbox')
      /\ shown \subseteq shown'
  BY OutboxStep, TerminalsKeep DEF OInv
<1>2. CASE UNCHANGED inbox
  BY <1>1, <1>2, KeepsSafe
<1>3. ASSUME NEW c \in Cores, NEW r \in Answers, AnswerIsStored(c, r)
      PROVE  inbox' \in [Answers -> {"none", "stored", "acked"}] /\ AckedAnswerIsSafe'
  BY <1>1, <1>3, KeepsSafe DEF AnswerIsStored
<1>4. ASSUME NEW c \in Cores, NEW r \in Answers, AcknowledgeHandOver(c, r)
      PROVE  inbox' \in [Answers -> {"none", "stored", "acked"}] /\ AckedAnswerIsSafe'
  <2>1. InOutbox(r) /\ shown' = shown /\ inbox' = [inbox EXCEPT ![r] = "acked"]
    BY <1>4 DEF AcknowledgeHandOver, OInv, ToAcknowledge, terminals
  <2>. QED
    BY <1>1, <2>1, AckKeepsSafe
<1>5. ASSUME NEW c \in Cores, NEW r \in Answers, TerminalAcknowledges(c, r)
      PROVE  inbox' \in [Answers -> {"none", "stored", "acked"}] /\ AckedAnswerIsSafe'
  <2>1. r \in shown /\ shown' = shown /\ inbox' = [inbox EXCEPT ![r] = "acked"]
    BY <1>5 DEF TerminalAcknowledges, OInv, ToAcknowledge
  <2>. QED
    BY <1>1, <2>1, AckKeepsSafe
<1>. QED
  BY <1>2, <1>3, <1>4, <1>5
  DEF ONext, EnqueueReply, RecoverOffline, HandOver, PublishLive, PublishOffline, Acknowledges,
      HandOverFails, PumpChooses, Send, SendToTerminal, FirebaseAccepts, FirebaseFails, PumpStep,
      PumpAcknowledges, PumpPostpones, LeaseLapses, Acquire, Disconnect, PollInbox, TerminalStep,
      ShowAnswer, ShowNotification, NotificationAck, CoreDies, CoreCloses, Down, CoreStarts,
      DelayPasses, shared

LEMMA OInvStep == OInv /\ [ONext]_nvars => OInv'
<1>. SUFFICES ASSUME OInv, [ONext]_nvars PROVE OInv'
  OBVIOUS
<1>1. CASE UNCHANGED nvars
  BY <1>1 DEF OInv, ToAcknowledge, AckedAnswerIsSafe, InOutbox, nvars, shared, terminals
<1>2. CASE ONext
  <2>1. OutboxOK(outbox)'
    BY <1>2, OutboxStep DEF OInv
  <2>2. ToAcknowledge'
    BY <1>2, TerminalsKeep, HandsStep DEF ToAcknowledge, TerminalsOK
  <2>. QED
    BY <1>2, <2>1, <2>2, TerminalsKeep, HandsStep, InboxStep DEF OInv
<1>. QED
  BY <1>1, <1>2

LEMMA OInvInitially == OInit => OInv
<1>. SUFFICES ASSUME OInit PROVE OInv
  OBVIOUS
<1>1. OutboxOK(outbox)
  <2>1. outbox = <<>> /\ <<>> \in Seq(Row) /\ DOMAIN <<>> = {}
    BY DEF OInit
  <2>. QED
    BY <2>1 DEF OutboxOK
<1>2. hand \in Hands /\ terminal \in Terminals /\ ToAcknowledge
  BY DEF OInit, Hands, Terminals, NewTerminal, ToAcknowledge
<1>3. inbox \in [Answers -> {"none", "stored", "acked"}] /\ AckedAnswerIsSafe
  BY DEF OInit, AckedAnswerIsSafe
<1>. QED
  BY <1>1, <1>2, <1>3 DEF OInv

LEMMA OInvariance == OSpec => []OInv
<1>. QED
  BY OInvInitially, OInvStep, PTL DEF OSpec

\* The inbox forgets an answer only when a terminal has shown it or the outbox has it:
\* the row is written before the acknowledgement, and the text is displayed before the
\* terminal owes one (_publish_task_query_result, _receive_query).
THEOREM AckedAnswerIsSafeProved == OSpec => []AckedAnswerIsSafe
<1>1. OInv => AckedAnswerIsSafe
  BY DEF OInv
<1>. QED
  BY <1>1, OInvariance, PTL

\* A notification has one row, however often its hand-over is repeated: the insertion
\* does nothing when the id is there (NotificationOutbox.enqueue).
THEOREM OneRowPerNotification ==
    OSpec => [](\A i, j \in DOMAIN outbox : outbox[i].id = outbox[j].id => i = j)
<1>1. OInv => \A i, j \in DOMAIN outbox : outbox[i].id = outbox[j].id => i = j
  BY DEF OInv, OutboxOK
<1>. QED
  BY <1>1, OInvariance, PTL

\* A delivered notification stays delivered through repeated hand-overs, restarts and
\* the bookkeeping of attempts that an acknowledgement overtook (the UPDATE of a retry
\* looks only at rows that are not delivered).
THEOREM DeliveredStaysDeliveredProved == OSpec => DeliveredStaysDelivered
<1>1. ASSUME OInv, [ONext]_nvars
      PROVE  [\A i \in DOMAIN outbox : outbox[i].delivered =>
                \E j \in DOMAIN outbox' : outbox'[j].id = outbox[i].id /\ outbox'[j].delivered]_nvars
  <2>1. ASSUME ONext, NEW i \in DOMAIN outbox, outbox[i].delivered
        PROVE  \E j \in DOMAIN outbox' : outbox'[j].id = outbox[i].id /\ outbox'[j].delivered
    <3>1. GoesOn(outbox, outbox')
      BY <1>1, <2>1, OutboxStep DEF OInv
    <3>. QED
      BY <2>1, <3>1 DEF GoesOn
  <2>. QED
    BY <1>1, <2>1
<1>. QED
  BY <1>1, OInvariance, PTL DEF OSpec, DeliveredStaysDelivered

=============================================================================
