--------------------------- MODULE Notifications ----------------------------
(***************************************************************************)
(* The way of a notification to the user.  COREs share one durable outbox  *)
(* file: a native CORE hands over answers of the Task SYSTEM inbox for     *)
(* which it has no terminal, a legacy CORE enqueues replies of its own.    *)
(* Every CORE has a pump thread; the pump of the CORE elected by the       *)
(* dispatcher table sends the oldest due row, outside the transaction that *)
(* chose it, to its terminal or to Firebase.  A terminal shows an answer   *)
(* before it acknowledges it.                                              *)
(*                                                                         *)
(* Time is abstract: a dispatcher is fresh (seen within the lease) until   *)
(* its lease lapses, a row is due or waits for its retry delay.            *)
(***************************************************************************)
EXTENDS Naturals, Sequences, FiniteSets

CONSTANTS
    Cores,        \* scopes of the COREs: the election orders them
    Natives,      \* the COREs with a task worker
    Answers,      \* RUNs of QUERY tasks that will have an answer
    Replies,      \* notifications of legacy COREs, identified by a fresh uuid
    Bound         \* bound: how many notifications ("note"), terminal sessions
                  \* ("session") and ends of COREs ("end") a behaviour has

ASSUME NotificationConstants == /\ Cores \subseteq Nat /\ Natives \subseteq Cores
                                /\ Answers \cap Replies = {}
                                /\ Bound \in [{"note", "session", "end"} -> Nat]

VARIABLES
    inbox,     \* Task SYSTEM inbox: no answer, "stored" or "acked"
    outbox,    \* table notifications, by rowid: id, delivered, due
    dispatch,  \* table dispatchers: row present, human flag, seen within the lease
    up,        \* the CORE process runs
    human,     \* the CORE has a terminal that acquired it
    pump,      \* pump thread: what it does after its transaction, and the row
    hand,      \* hand-over of an answer by a CORE: "no", "found" or "queued"
    wire,      \* messages on the way to the CORE's terminal
    back,      \* notification_ack messages on the way from it
    terminal,  \* the terminal's answers shown and those it still has to acknowledge
    shown,     \* history: what any terminal displayed
    pushed,    \* history: what Firebase accepted
    events     \* notifications, sessions and ends of COREs so far

shared == <<inbox, outbox, dispatch>>
terminals == <<wire, back, terminal, shown>>
nvars == <<shared, up, human, pump, hand, terminals, pushed, events>>

Ids == Answers \cup Replies
Event(kind) == events[kind] < Bound[kind] /\ events' = [events EXCEPT ![kind] = @ + 1]
Idle == [does |-> "idle"]
NewTerminal == [seen |-> {}, owes |-> {}]
Rows == {i \in DOMAIN outbox : ~outbox[i].delivered}
InOutbox(id) == \E i \in DOMAIN outbox : outbox[i].id = id

\* Every transaction of enqueue, pump and start records its CORE as live.
Heartbeat(c) == [dispatch EXCEPT ![c] = [here |-> TRUE, human |-> human[c], fresh |-> TRUE]]

\* Mutant: a repeated hand-over replaces the row.
EnqueueReplace(box, id) ==
    Append(SelectSeq(box, LAMBDA row : row.id /= id), [id |-> id, delivered |-> FALSE, due |-> TRUE])

\* INSERT ... ON CONFLICT(id) DO NOTHING
Enqueue(box, id) ==
    IF \E i \in DOMAIN box : box[i].id = id THEN box
    ELSE Append(box, [id |-> id, delivered |-> FALSE, due |-> TRUE])

Delivered(id) == [i \in DOMAIN outbox |->
                    [outbox[i] EXCEPT !.delivered = @ \/ outbox[i].id = id]]

Lowest(s) == CHOOSE c \in s : \A d \in s : c <= d

\* Mutant: the election does not look at last_seen.
WinnerEver(table) ==
    LET known == {c \in Cores : table[c].here}
        humans == {c \in known : table[c].human}
    IN  Lowest(IF humans /= {} THEN humans ELSE known)

\* The live CORE with a human interface, else any live CORE: lowest scope first.
\* The pumping CORE has just recorded itself, so the table is never empty.
Winner(table) ==
    LET live == {c \in Cores : table[c].here /\ table[c].fresh}
        humans == {c \in live : table[c].human}
    IN  Lowest(IF humans /= {} THEN humans ELSE live)

-----------------------------------------------------------------------------
(* Answers: the inbox and the hand-over to the outbox.                      *)

\* The worker stored the answer of its RUN and is about to publish the hint.
AnswerIsStored(c, r) ==
    /\ up[c] /\ c \in Natives /\ inbox[r] = "none"
    /\ Event("note")
    /\ inbox' = [inbox EXCEPT ![r] = "stored"]
    /\ hand' = [hand EXCEPT ![c][r] = "found"]
    /\ UNCHANGED <<outbox, dispatch, up, human, pump, terminals, pushed>>

\* Inbox poll of a CORE without a terminal.  One thread lists and publishes.
RecoverOffline(c) ==
    /\ up[c] /\ c \in Natives /\ ~human[c]
    /\ \A r \in Answers : hand[c][r] = "no"
    /\ hand' = [hand EXCEPT ![c] = [r \in Answers |->
                                    IF inbox[r] = "stored" THEN "found" ELSE "no"]]
    /\ UNCHANGED <<shared, up, human, pump, terminals, pushed, events>>

\* Live hint; the terminal acknowledges to the inbox once it shows the answer.
PublishLive(c, r) ==
    /\ hand[c][r] = "found" /\ human[c]
    /\ wire' = [wire EXCEPT ![c] = @ \cup {[kind |-> "query", id |-> r]}]
    /\ hand' = [hand EXCEPT ![c][r] = "no"]
    /\ UNCHANGED <<shared, up, human, pump, back, terminal, shown, pushed, events>>

\* No terminal, or its socket is broken (a disconnect its reader has not seen).
PublishOffline(c, r) ==
    /\ hand[c][r] = "found"
    /\ outbox' = Enqueue(outbox, r)
    /\ dispatch' = Heartbeat(c)
    /\ hand' = [hand EXCEPT ![c][r] = "queued"]
    /\ UNCHANGED <<inbox, up, human, pump, terminals, pushed, events>>

\* Mutant: the inbox is acknowledged before the row is in the outbox.
AcknowledgeEarly(c, r) ==
    /\ hand[c][r] \in {"found", "queued"}
    /\ inbox' = [inbox EXCEPT ![r] = "acked"]
    /\ hand' = [hand EXCEPT ![c][r] = "no"]
    /\ UNCHANGED <<outbox, dispatch, up, human, pump, terminals, pushed, events>>

AcknowledgeHandOver(c, r) ==
    /\ hand[c][r] = "queued"
    /\ inbox' = [inbox EXCEPT ![r] = "acked"]
    /\ hand' = [hand EXCEPT ![c][r] = "no"]
    /\ UNCHANGED <<outbox, dispatch, up, human, pump, terminals, pushed, events>>

\* The RPC of an acknowledgement raises: the whole round is given up.
HandOverFails(c) ==
    /\ \E r \in Answers : hand[c][r] = "queued"
    /\ hand' = [hand EXCEPT ![c] = [r \in Answers |-> "no"]]
    /\ UNCHANGED <<shared, up, human, pump, terminals, pushed, events>>

\* A reply of a legacy CORE that no session waits for.
EnqueueReply(c, id) ==
    /\ up[c] /\ c \notin Natives /\ ~InOutbox(id)
    /\ Event("note")
    /\ outbox' = Enqueue(outbox, id)
    /\ dispatch' = Heartbeat(c)
    /\ UNCHANGED <<inbox, up, human, pump, hand, terminals, pushed>>

-----------------------------------------------------------------------------
(* The pump.                                                               *)

PumpChooses(c) ==
    /\ up[c] /\ pump[c] = Idle
    /\ dispatch' = Heartbeat(c)
    /\ LET due == {i \in Rows : outbox[i].due}
       IN  pump' = IF Winner(dispatch') = c /\ due /= {}
                   THEN [pump EXCEPT ![c] = [does |-> "sending", id |-> outbox[Lowest(due)].id]]
                   ELSE pump
    /\ UNCHANGED <<inbox, outbox, up, human, hand, terminals, pushed, events>>

PumpDoes(c, what) == pump' = [pump EXCEPT ![c] = [does |-> what, id |-> @.id]]

SendToTerminal(c) ==
    /\ pump[c].does = "sending" /\ human[c]
    /\ wire' = [wire EXCEPT ![c] = @ \cup {[kind |-> "notification", id |-> pump[c].id]}]
    /\ PumpDoes(c, "postpone")
    /\ UNCHANGED <<shared, up, human, hand, back, terminal, shown, pushed, events>>

\* Also when a terminal is there and the write to its socket fails.
FirebaseAccepts(c) ==
    /\ pump[c].does = "sending"
    /\ pushed' = pushed \cup {pump[c].id}
    /\ PumpDoes(c, "accepted")
    /\ UNCHANGED <<shared, up, human, hand, terminals, events>>

\* No credentials, no network, or a failure for some of the tokens.
FirebaseFails(c) ==
    /\ pump[c].does = "sending"
    /\ PumpDoes(c, "postpone")
    /\ UNCHANGED <<shared, up, human, hand, terminals, pushed, events>>

PumpAcknowledges(c) ==
    /\ pump[c].does = "accepted"
    /\ outbox' = Delivered(pump[c].id)
    /\ pump' = [pump EXCEPT ![c] = Idle]
    /\ UNCHANGED <<inbox, dispatch, up, human, hand, terminals, pushed, events>>

\* The retry delay, unless an acknowledgement came meanwhile.
PumpPostpones(c) ==
    /\ pump[c].does = "postpone"
    /\ outbox' = [i \in DOMAIN outbox |->
                    IF i \in Rows /\ outbox[i].id = pump[c].id
                    THEN [outbox[i] EXCEPT !.due = FALSE] ELSE outbox[i]]
    /\ pump' = [pump EXCEPT ![c] = Idle]
    /\ UNCHANGED <<inbox, dispatch, up, human, hand, terminals, pushed, events>>

DelayPasses(i) ==
    /\ i \in Rows /\ ~outbox[i].due
    /\ outbox' = [outbox EXCEPT ![i].due = TRUE]
    /\ UNCHANGED <<inbox, dispatch, up, human, pump, hand, terminals, pushed, events>>

\* More than DISPATCHER_LEASE_SECONDS without a transaction of this CORE: it is
\* gone, or its only thread that records it is inside a send.
LeaseLapses(c) ==
    /\ dispatch[c].fresh /\ (up[c] => pump[c].does = "sending")
    /\ dispatch' = [dispatch EXCEPT ![c].fresh = FALSE]
    /\ UNCHANGED <<inbox, outbox, up, human, pump, hand, terminals, pushed, events>>

-----------------------------------------------------------------------------
(* Terminals.                                                              *)

Acquire(c) ==
    /\ up[c] /\ ~human[c]
    /\ human' = [human EXCEPT ![c] = TRUE]
    /\ terminal' = [terminal EXCEPT ![c] = NewTerminal]
    /\ Event("session")
    /\ UNCHANGED <<shared, up, pump, hand, wire, back, shown, pushed>>

\* Everything on the socket and in the terminal's memory is gone.
Detach(c) ==
    /\ human' = [human EXCEPT ![c] = FALSE]
    /\ wire' = [wire EXCEPT ![c] = {}]
    /\ back' = [back EXCEPT ![c] = {}]
    /\ terminal' = [terminal EXCEPT ![c] = NewTerminal]

Disconnect(c) ==
    /\ human[c]
    /\ Detach(c)
    /\ UNCHANGED <<shared, up, pump, hand, shown, pushed, events>>

\* task_query_results: the authoritative list of unacknowledged answers.
PollInbox(c) ==
    /\ human[c] /\ c \in Natives
    /\ wire' = [wire EXCEPT ![c] = @ \cup
                  {[kind |-> "query", id |-> r] : r \in {a \in Answers : inbox[a] = "stored"}}]
    /\ UNCHANGED <<shared, up, human, pump, hand, back, terminal, shown, pushed, events>>

\* The text goes to the terminal's history first, then it owes the acknowledgement.
ShowAnswer(c, r) ==
    /\ [kind |-> "query", id |-> r] \in wire[c]
    /\ wire' = [wire EXCEPT ![c] = @ \ {[kind |-> "query", id |-> r]}]
    /\ shown' = IF r \in terminal[c].seen THEN shown ELSE shown \cup {r}
    /\ terminal' = [terminal EXCEPT ![c] = [seen |-> @.seen \cup {r}, owes |-> @.owes \cup {r}]]
    /\ UNCHANGED <<shared, up, human, pump, hand, back, pushed, events>>

ShowNotification(c, id) ==
    /\ [kind |-> "notification", id |-> id] \in wire[c]
    /\ wire' = [wire EXCEPT ![c] = @ \ {[kind |-> "notification", id |-> id]}]
    /\ shown' = shown \cup {id}
    /\ back' = [back EXCEPT ![c] = @ \cup {id}]
    /\ UNCHANGED <<shared, up, human, pump, hand, terminal, pushed, events>>

\* task_query_ack, the reply included.  An error keeps it for the next retry.
TerminalAcknowledges(c, r) ==
    /\ r \in terminal[c].owes
    /\ inbox' = [inbox EXCEPT ![r] = "acked"]
    /\ terminal' = [terminal EXCEPT ![c].owes = @ \ {r}]
    /\ UNCHANGED <<outbox, dispatch, up, human, pump, hand, wire, back, shown, pushed, events>>

\* notification_ack, by the session that owns the CORE.
NotificationAck(c, id) ==
    /\ id \in back[c] /\ human[c]
    /\ outbox' = Delivered(id)
    /\ back' = [back EXCEPT ![c] = @ \ {id}]
    /\ UNCHANGED <<inbox, dispatch, up, human, pump, hand, wire, terminal, shown, pushed, events>>

-----------------------------------------------------------------------------
(* COREs.                                                                  *)

Down(c) ==
    /\ up[c]
    /\ up' = [up EXCEPT ![c] = FALSE]
    /\ Detach(c)
    /\ pump' = [pump EXCEPT ![c] = Idle]
    /\ hand' = [hand EXCEPT ![c] = [r \in Answers |-> "no"]]
    /\ Event("end")
    /\ UNCHANGED <<inbox, outbox, shown, pushed>>

CoreDies(c) == Down(c) /\ UNCHANGED dispatch

\* close: the pump is joined, then the CORE leaves the election.
CoreCloses(c) == /\ Down(c) /\ dispatch' = [dispatch EXCEPT ![c].here = FALSE, ![c].fresh = FALSE]

CoreStarts(c) ==
    /\ ~up[c]
    /\ up' = [up EXCEPT ![c] = TRUE]
    /\ dispatch' = Heartbeat(c)
    /\ UNCHANGED <<inbox, outbox, human, pump, hand, terminals, pushed, events>>

-----------------------------------------------------------------------------
OInit ==
    /\ inbox = [r \in Answers |-> "none"]
    /\ outbox = <<>>
    /\ dispatch = [c \in Cores |-> [here |-> FALSE, human |-> FALSE, fresh |-> FALSE]]
    /\ up = [c \in Cores |-> FALSE] /\ human = [c \in Cores |-> FALSE]
    /\ pump = [c \in Cores |-> Idle]
    /\ hand = [c \in Cores |-> [r \in Answers |-> "no"]]
    /\ wire = [c \in Cores |-> {}] /\ back = [c \in Cores |-> {}]
    /\ terminal = [c \in Cores |-> NewTerminal]
    /\ shown = {} /\ pushed = {}
    /\ events = [kind \in DOMAIN Bound |-> 0]

HandOver(c) == \E r \in Answers : PublishLive(c, r) \/ PublishOffline(c, r)
Acknowledges(c) == \E r \in Answers : AcknowledgeHandOver(c, r)
PumpStep(c) == PumpAcknowledges(c) \/ PumpPostpones(c)
Send(c) == SendToTerminal(c) \/ FirebaseAccepts(c)
TerminalStep(c) ==
    \/ \E id \in Ids : ShowAnswer(c, id) \/ ShowNotification(c, id) \/ NotificationAck(c, id)
    \/ \E r \in Answers : TerminalAcknowledges(c, r)

ONext ==
    \/ \E c \in Cores :
         \/ \E r \in Answers : AnswerIsStored(c, r)
         \/ \E id \in Replies : EnqueueReply(c, id)
         \/ RecoverOffline(c) \/ HandOver(c) \/ Acknowledges(c) \/ HandOverFails(c)
         \/ PumpChooses(c) \/ Send(c) \/ FirebaseFails(c) \/ PumpStep(c) \/ LeaseLapses(c)
         \/ Acquire(c) \/ Disconnect(c) \/ PollInbox(c) \/ TerminalStep(c)
         \/ CoreDies(c) \/ CoreCloses(c) \/ CoreStarts(c)
    \/ \E i \in DOMAIN outbox : DelayPasses(i)

\* Threads and timers of the code run; a request to the Task SYSTEM and a send
\* that can be repeated for ever succeed at last.  A native CORE is started
\* again, its service restarts it; any other may stay away for ever.
OFairness ==
    /\ \A c \in Natives : WF_nvars(CoreStarts(c))
    /\ \A c \in Cores :
         /\ WF_nvars(RecoverOffline(c)) /\ WF_nvars(HandOver(c))
         /\ SF_nvars(Acknowledges(c))
         /\ WF_nvars(PumpChooses(c)) /\ WF_nvars(PumpStep(c)) /\ SF_nvars(Send(c))
         /\ WF_nvars(~up[c] /\ LeaseLapses(c))
         /\ WF_nvars(PollInbox(c))
         /\ \A id \in Ids : /\ WF_nvars(ShowAnswer(c, id)) /\ WF_nvars(ShowNotification(c, id))
                          /\ WF_nvars(NotificationAck(c, id))
         /\ \A r \in Answers : WF_nvars(TerminalAcknowledges(c, r))
    /\ \A i \in 1..Cardinality(Ids) : WF_nvars(i \in DOMAIN outbox /\ DelayPasses(i))

OSpec == OInit /\ [][ONext]_nvars /\ OFairness

-----------------------------------------------------------------------------
(* Properties.                                                             *)

\* The inbox forgets an answer only when it is on a terminal or durably in the
\* outbox: an acknowledgement is never sent for an answer that a crash can lose.
AckedAnswerIsSafe ==
    \A r \in Answers : inbox[r] = "acked" => r \in shown \/ InOutbox(r)

\* A delivered notification is never made pending again: not by a repeated
\* hand-over after a lost acknowledgement or a restart, not by the bookkeeping of
\* an attempt that the user's acknowledgement overtook.
DeliveredStaysDelivered ==
    [][\A i \in DOMAIN outbox : outbox[i].delivered =>
          \E j \in DOMAIN outbox' : outbox'[j].id = outbox[i].id /\ outbox'[j].delivered]_nvars

\* Every stored answer is shown on a terminal or accepted by the push provider,
\* whatever COREs die, close or win the election in between.
\* No row is left undelivered either: a dead winner loses the election, and a row
\* that waits for its retry does not block the others.
EverythingArrives ==
    /\ \A r \in Answers : inbox[r] = "stored" ~> r \in shown \cup pushed
    /\ \A id \in Ids :
        InOutbox(id) ~> \E i \in DOMAIN outbox : outbox[i].id = id /\ outbox[i].delivered

=============================================================================
