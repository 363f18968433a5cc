--------------------------- MODULE ComponentProofs ---------------------------
(***************************************************************************)
(* Proofs about the components that run by themselves, for every value of  *)
(* their constants.                                                        *)
(***************************************************************************)
EXTENDS McpCalls, ProcessRuns, FragmentRuns, NativeLifetime, MqttReads, AgentTurns, ModelRequests,
        MqttActivation, TaskEngineProofs, WellFoundedInduction

-----------------------------------------------------------------------------
(* McpCalls.                                                               *)

Replies == {"none", "answer", "unknown", "not sent"}
Futures == [future : {"pending", "running", "finished", "cancelled"}, sent : Nat,
            text : Replies, told : Replies \cup {"too late"}]

\* A call that is not sent yet is pending or was given up; what is reported as not
\* sent has an end, so it cannot be sent any more.
FutureOK(call_) ==
    /\ call_.future \in {"pending", "cancelled"} => call_.sent = 0
    /\ call_.text = "not sent" => call_.sent = 0 /\ call_.future = "finished"
    /\ call_.told = "not sent" => call_.sent = 0 /\ call_.future \in {"finished", "cancelled"}

CallTypes ==
    /\ calls \in Seq(Futures) /\ mailbox \in Seq(Nat)
    /\ link = [at |-> link.at, current |-> link.current] /\ link.current \in Nat
    /\ caller \in {"waiting", "expired"} => calls # <<>>

\* Only the call that the owner has committed to is running.
Sending == link.at \in {"call", "sent", "failed"}

CommittedOK ==
    /\ \A k \in DOMAIN calls : calls[k].future = "running" => Sending /\ link.current = k
    /\ Sending => link.current \in DOMAIN calls /\ calls[link.current].future = "running"

CallInv == CallTypes /\ (\A k \in DOMAIN calls : FutureOK(calls[k])) /\ CommittedOK

\* Settling a call changes that call, and only if it is unsettled.
SettledAs(a, b, text) ==
    IF a.future \in Unsettled THEN b = [a EXCEPT !.future = "finished", !.text = text] ELSE b = a

LEMMA Settling ==
    ASSUME NEW cs \in Seq(Futures), NEW k \in Nat, NEW text \in Replies
    PROVE  /\ FutureFinished(cs, k, text) \in Seq(Futures)
           /\ DOMAIN FutureFinished(cs, k, text) = DOMAIN cs
           /\ \A j \in DOMAIN cs \ {k} : FutureFinished(cs, k, text)[j] = cs[j]
           /\ k \in DOMAIN cs => SettledAs(cs[k], FutureFinished(cs, k, text)[k], text)
<1>1. CASE k \in DOMAIN cs
  <2>1. cs[k] \in Futures
    BY <1>1
  <2>2. [cs EXCEPT ![k].future = "finished", ![k].text = text] =
        [cs EXCEPT ![k] = [cs[k] EXCEPT !.future = "finished", !.text = text]]
    BY <1>1
  <2>3. [cs[k] EXCEPT !.future = "finished", !.text = text] \in Futures
    BY <2>1 DEF Futures
  <2>. QED
    BY <1>1, <2>2, <2>3 DEF FutureFinished, SettledAs
<1>2. CASE k \notin DOMAIN cs
  <2>1. [cs EXCEPT ![k].future = "finished", ![k].text = text] = cs
    BY <1>2
  <2>. QED
    BY <1>2, <2>1 DEF FutureFinished
<1>. QED
  BY <1>1, <1>2

\* The calls after one of them, or none, has moved.
CallsMove(k, f) ==
    /\ calls' \in Seq(Futures) /\ DOMAIN calls' = DOMAIN calls /\ calls'[k] = f
    /\ \A j \in DOMAIN calls \ {k} : calls'[j] = calls[j]

LEMMA OneCallMoves ==
    ASSUME CallTypes, NEW k \in DOMAIN calls, NEW f \in Futures, calls' = [calls EXCEPT ![k] = f]
    PROVE  CallsMove(k, f)
  BY DEF CallTypes, CallsMove

LEMMA CallsStay == CallTypes /\ UNCHANGED calls => \A k \in DOMAIN calls : CallsMove(k, calls[k])
  BY DEF CallTypes, CallsMove

\* What a move keeps: the owner's place moves with the call it has committed to.
LEMMA MoveKeeps ==
    ASSUME CallInv, NEW k \in DOMAIN calls, NEW f \in Futures, CallsMove(k, f), FutureOK(f),
           mailbox' \in Seq(Nat), link' = [at |-> link'.at, current |-> link'.current],
           link'.current \in Nat,
           f.future = "running" => Sending' /\ link'.current = k,
           Sending' => link'.current = k /\ f.future = "running",
           Sending => link.current = k
    PROVE  CallInv'
<1>1. DOMAIN calls' = DOMAIN calls /\ k \in DOMAIN calls' /\ calls' # <<>>
  BY DEF CallsMove
<1>2. CallTypes'
  BY <1>1 DEF CallTypes, CallsMove
<1>3. \A j \in DOMAIN calls' : FutureOK(calls'[j])
  BY <1>1 DEF CallInv, CallsMove
<1>4. CommittedOK'
  <2>1. \A j \in DOMAIN calls \ {k} : calls'[j] = calls[j] /\ calls[j].future # "running"
    BY DEF CallInv, CommittedOK, CallsMove
  <2>. QED
    BY <1>1, <2>1 DEF CommittedOK, CallsMove
<1>. QED
  BY <1>2, <1>3, <1>4 DEF CallInv

LEMMA CallerKeeps ==
    ASSUME CallInv, Call \/ Enqueue \/ EnqueueFails \/ CallReturns \/ WaitExpires \/ GiveUp
    PROVE  CallInv'
<1>1. CASE Call \/ EnqueueFails
  BY <1>1 DEF Call, EnqueueFails, CallInv, CallTypes, CommittedOK, Sending
<1>2. CASE Enqueue
  <2>. DEFINE new == [future |-> "pending", sent |-> 0, text |-> "none", told |-> "none"]
  <2>1. new \in Futures /\ FutureOK(new) /\ new.future # "running"
    BY DEF Futures, FutureOK, Replies
  <2>2. calls \in Seq(Futures) /\ calls' = Append(calls, new)
    BY <1>2 DEF Enqueue, CallInv, CallTypes
  <2>. HIDE DEF new
  <2>3. /\ calls' \in Seq(Futures) /\ calls' # <<>>
        /\ \A k \in DOMAIN calls : k \in DOMAIN calls' /\ calls'[k] = calls[k]
        /\ \A k \in DOMAIN calls' : k \in DOMAIN calls \/ calls'[k] = new
    BY <2>1, <2>2
  <2>4. mailbox' \in Seq(Nat) /\ UNCHANGED link
    BY <1>2 DEF Enqueue, Last, CallInv, CallTypes
  <2>. QED
    BY <2>1, <2>3, <2>4 DEF CallInv, CallTypes, CommittedOK, Sending
<1>3. CASE WaitExpires
  BY <1>3 DEF WaitExpires, CallInv, CallTypes, CommittedOK, Sending
<1>4. ASSUME NEW f \in Futures, FutureOK(f), calls' = [calls EXCEPT ![Last] = f],
             f.future = "running" <=> calls[Last].future = "running",
             caller' = "idle", UNCHANGED <<mailbox, link>>, calls # <<>>
      PROVE  CallInv'
  <2>1. Last \in DOMAIN calls
    BY <1>4 DEF CallInv, CallTypes, Last
  <2>2. CallsMove(Last, f)
    BY <1>4, <2>1, OneCallMoves DEF CallInv
  <2>. QED
    BY <1>4, <2>1, <2>2 DEF CallInv, CallTypes, CommittedOK, Sending, CallsMove
<1>5. ASSUME calls # <<>>
      PROVE  calls[Last] \in Futures /\ FutureOK(calls[Last])
  BY <1>5 DEF CallInv, CallTypes, Last
<1>6. CASE CallReturns
  <2>. DEFINE f == [calls[Last] EXCEPT !.told = calls[Last].text]
  <2>1. calls # <<>> /\ calls' = [calls EXCEPT ![Last] = f]
    BY <1>6 DEF CallReturns, Told, CallInv, CallTypes
  <2>2. f \in Futures /\ FutureOK(f) /\ (f.future = "running" <=> calls[Last].future = "running")
    BY <1>5, <1>6, <2>1 DEF CallReturns, Futures, FutureOK
  <2>. QED
    BY <1>4, <1>6, <2>1, <2>2 DEF CallReturns, Told
<1>7. CASE GiveUp
  <2>. DEFINE f == IF calls[Last].future = "pending"
                   THEN [calls[Last] EXCEPT !.future = "cancelled", !.told = "not sent"]
                   ELSE [calls[Last] EXCEPT !.told = "too late"]
  <2>1. calls # <<>> /\ calls' = [calls EXCEPT ![Last] = f]
    BY <1>7 DEF GiveUp, CallInv, CallTypes
  <2>2. CASE calls[Last].future = "pending"
    <3>1. f = [calls[Last] EXCEPT !.future = "cancelled", !.told = "not sent"]
      BY <2>2
    <3>2. f \in Futures /\ FutureOK(f) /\ f.future # "running"
      BY <1>5, <2>1, <2>2, <3>1 DEF Futures, FutureOK, Replies
    <3>. QED
      BY <1>4, <1>7, <2>1, <2>2, <3>2 DEF GiveUp
  <2>3. CASE calls[Last].future # "pending"
    <3>1. f = [calls[Last] EXCEPT !.told = "too late"]
      BY <2>3
    <3>2. f \in Futures /\ FutureOK(f) /\ f.future = calls[Last].future
      BY <1>5, <2>1, <3>1 DEF Futures, FutureOK
    <3>. QED
      BY <1>4, <1>7, <2>1, <3>2 DEF GiveUp
  <2>. QED
    BY <2>2, <2>3
<1>. QED
  BY <1>1, <1>2, <1>3, <1>6, <1>7

\* The calls in the queue, and the one the owner has taken, exist.
MailOK ==
    /\ \A i \in DOMAIN mailbox : mailbox[i] \in DOMAIN calls
    /\ link.at \in {"check", "commit"} => link.current \in DOMAIN calls

LEMMA CallsRemain == CallTypes /\ CallNext => DOMAIN calls \subseteq DOMAIN calls'
<1>. SUFFICES ASSUME CallTypes, CallNext PROVE DOMAIN calls \subseteq DOMAIN calls'
  OBVIOUS
<1>1. CASE Enqueue
  BY <1>1 DEF Enqueue, CallTypes
<1>2. \A k, text : DOMAIN FutureFinished(calls, k, text) = DOMAIN calls
  BY DEF FutureFinished
<1>3. CASE DrainQueue
  BY <1>3 DEF DrainQueue
<1>4. CASE CallReturns \/ GiveUp
  BY <1>4 DEF CallReturns, GiveUp, Told
<1>5. CASE CheckTool \/ Commit \/ Send \/ Answer
  BY <1>2, <1>5 DEF CheckTool, Commit, Send, Answer
<1>6. CASE ReleaseCaller \/ OwnerCancelled
  BY <1>2, <1>6 DEF ReleaseCaller, OwnerCancelled
<1>. QED
  BY <1>1, <1>3, <1>4, <1>5, <1>6 DEF CallNext, Call, EnqueueFails, WaitExpires, Connect, TakeCall,
     CallFails, Reconnect, CloseRuntime, LoopEnds

LEMMA MailKeeps == CallTypes /\ MailOK /\ CallNext => MailOK'
<1>. SUFFICES ASSUME CallTypes, MailOK, CallNext PROVE MailOK'
  OBVIOUS
<1>1. DOMAIN calls \subseteq DOMAIN calls'
  BY CallsRemain
<1>2. CASE Enqueue
  <2>1. Last + 1 \in DOMAIN calls'
    BY <1>2 DEF Enqueue, CallTypes, Last
  <2>2. \A i \in DOMAIN mailbox' : mailbox'[i] = Last + 1 \/ (i \in DOMAIN mailbox /\ mailbox'[i] = mailbox[i])
    <3>1. Last + 1 \in Nat
      BY DEF CallTypes, Last
    <3>. QED
      BY <1>2, <3>1 DEF Enqueue, CallTypes
  <2>. QED
    BY <1>1, <1>2, <2>1, <2>2 DEF MailOK, Enqueue
<1>3. CASE TakeCall
  <2>1. /\ Head(mailbox) \in DOMAIN calls
        /\ \A i \in DOMAIN mailbox' : i + 1 \in DOMAIN mailbox /\ mailbox'[i] = mailbox[i + 1]
    BY <1>3 DEF TakeCall, CallTypes, MailOK
  <2>. QED
    BY <1>1, <1>3, <2>1 DEF TakeCall, MailOK, At
<1>4. CASE DrainQueue
  <2>1. mailbox' = <<>> /\ UNCHANGED link
    BY <1>4, Zenon DEF DrainQueue
  <2>2. DOMAIN mailbox' = {}
    BY <2>1
  <2>. QED
    BY <1>1, <2>1, <2>2 DEF MailOK
<1>5. CASE UNCHANGED mailbox /\ (UNCHANGED link \/ link'.at \notin {"check", "commit"})
  BY <1>1, <1>5 DEF MailOK
<1>6. CASE CheckTool
  <2>1. /\ UNCHANGED mailbox /\ link.at = "check"
        /\ link' = [at |-> "commit", current |-> link.current] \/ link' = [at |-> "get", current |-> 0]
    BY <1>6, Zenon DEF CheckTool, At
  <2>. QED
    BY <1>1, <2>1 DEF MailOK
<1>7. CASE Commit \/ Send \/ Answer \/ CallFails \/ ReleaseCaller \/ Reconnect \/ OwnerCancelled
  BY <1>5, <1>7 DEF Commit, Send, Answer, CallFails, ReleaseCaller, Reconnect, OwnerCancelled, At
<1>8. CASE \E ok, same \in BOOLEAN : Connect(ok, same)
  <2>1. PICK ok, same \in BOOLEAN : Connect(ok, same)
    BY <1>8
  <2>. QED
    BY <1>5, <2>1 DEF Connect, At
<1>. QED
  BY <1>2, <1>3, <1>4, <1>5, <1>6, <1>7, <1>8 DEF CallNext, Call, EnqueueFails, CallReturns,
     WaitExpires, GiveUp, Told, CloseRuntime, LoopEnds

\* Where the owner stands beside a call that does not run, nothing runs.
LEMMA IdleKeeps ==
    ASSUME CallInv, UNCHANGED calls, mailbox' \in Seq(Nat), ~Sending, ~Sending',
           link' = [at |-> link'.at, current |-> link'.current], link'.current \in Nat,
           caller' = caller
    PROVE  CallInv'
  BY DEF CallInv, CallTypes, CommittedOK

\* The calls after one of them has been settled.
CallsSettle(k, text) ==
    /\ calls' \in Seq(Futures) /\ DOMAIN calls' = DOMAIN calls
    /\ \A j \in DOMAIN calls \ {k} : calls'[j] = calls[j]
    /\ k \in DOMAIN calls => SettledAs(calls[k], calls'[k], text)

LEMMA OneCallSettles ==
    ASSUME CallInv, NEW k \in Nat, NEW text \in Replies, calls' = FutureFinished(calls, k, text)
    PROVE  CallsSettle(k, text)
  BY Settling, Zenon DEF CallInv, CallTypes, CallsSettle

LEMMA SettledTypes ==
    ASSUME CallInv, NEW k, NEW text, CallsSettle(k, text)
    PROVE  /\ calls # <<>> => calls' # <<>>
           /\ \A j \in DOMAIN calls : calls[j] \in Futures
  BY DEF CallInv, CallTypes, CallsSettle

\* Settling the call the owner stands at, on the way to a place where nothing is sent.
LEMMA SettlingKeeps ==
    ASSUME CallInv, NEW k \in Nat, NEW text \in Replies, CallsSettle(k, text),
           text = "not sent" /\ k \in DOMAIN calls => calls[k].future # "running",
           Sending => link.current = k, ~Sending', UNCHANGED <<mailbox, caller>>,
           link' = [at |-> link'.at, current |-> link'.current], link'.current \in Nat
    PROVE  CallInv'
<1>1. /\ calls' \in Seq(Futures) /\ DOMAIN calls' = DOMAIN calls
      /\ \A j \in DOMAIN calls \ {k} : calls'[j] = calls[j]
      /\ k \in DOMAIN calls => SettledAs(calls[k], calls'[k], text)
  BY DEF CallsSettle
<1>2. ASSUME k \in DOMAIN calls
      PROVE  FutureOK(calls'[k]) /\ calls'[k].future # "running"
  <2>1. calls[k] \in Futures /\ FutureOK(calls[k]) /\ SettledAs(calls[k], calls'[k], text)
    BY <1>1, <1>2, SettledTypes, Zenon DEF CallInv
  <2>2. CASE calls[k].future \in Unsettled
    <3>1. calls'[k] = [calls[k] EXCEPT !.future = "finished", !.text = text]
      BY <2>1, <2>2 DEF SettledAs
    <3>2. text = "not sent" => calls[k].future = "pending"
      BY <1>2, <2>2 DEF Unsettled
    <3>. QED
      BY <2>1, <2>2, <3>1, <3>2 DEF Futures, FutureOK, Unsettled
  <2>. QED
    BY <2>1, <2>2 DEF SettledAs, Unsettled
<1>3. \A j \in DOMAIN calls \ {k} : FutureOK(calls'[j]) /\ calls'[j].future # "running"
  BY <1>1 DEF CallInv, CommittedOK
<1>4. CallTypes'
  <2>1. calls \in Seq(Futures) /\ mailbox' \in Seq(Nat) /\ (caller' \in {"waiting", "expired"} => calls # <<>>)
    BY DEF CallInv, CallTypes
  <2>2. calls # <<>> => calls' # <<>>
    BY SettledTypes, Zenon
  <2>. QED
    BY <1>1, <2>1, <2>2 DEF CallTypes
<1>. QED
  BY <1>1, <1>2, <1>3, <1>4 DEF CallInv, CommittedOK

LEMMA OwnerKeeps ==
    ASSUME CallInv, MailOK,
           \/ \E ok, same \in BOOLEAN : Connect(ok, same)
           \/ TakeCall \/ CheckTool \/ Commit \/ Send \/ Answer
           \/ CallFails \/ ReleaseCaller \/ Reconnect
    PROVE  CallInv'
<1>1. CASE \E ok, same \in BOOLEAN : Connect(ok, same)
  <2>1. PICK ok, same \in BOOLEAN : Connect(ok, same)
    BY <1>1
  <2>2. ~Sending /\ ~Sending' /\ link' = [at |-> link'.at, current |-> link'.current] /\ link'.current = 0
    BY <2>1 DEF Connect, At, Sending
  <2>. QED
    BY <2>1, <2>2, IdleKeeps DEF Connect, CallInv, CallTypes
<1>2. CASE TakeCall
  <2>1. Head(mailbox) \in Nat /\ Tail(mailbox) \in Seq(Nat)
    BY <1>2 DEF TakeCall, CallInv, CallTypes
  <2>2. ~Sending /\ ~Sending'
    BY <1>2 DEF TakeCall, At, Sending
  <2>3. link'.current \in Nat /\ link' = [at |-> link'.at, current |-> link'.current]
    BY <1>2, <2>1 DEF TakeCall, At
  <2>. QED
    BY <1>2, <2>1, <2>2, <2>3, IdleKeeps DEF TakeCall
<1>3. CASE CheckTool
  <2>1. CASE live
    BY <1>3, <2>1, IdleKeeps DEF CheckTool, At, Sending, CallInv, CallTypes
  <2>2. CASE ~live
    <3>1. link.current \in DOMAIN calls => calls[link.current].future # "running"
      BY <1>3 DEF CheckTool, CallInv, CommittedOK, Sending
    <3>2. link' = [at |-> "get", current |-> 0] /\ calls' = FutureFinished(calls, link.current, "not sent")
      BY <1>3, <2>2, Zenon DEF CheckTool, At
    <3>3. ~Sending /\ ~Sending'
      BY <1>3, <3>2, Zenon DEF CheckTool, Sending
    <3>4. CallsSettle(link.current, "not sent")
      BY <3>2, OneCallSettles, Zenon DEF CallInv, CallTypes, Replies
    <3>. QED
      BY <1>3, <3>1, <3>2, <3>3, <3>4, SettlingKeeps DEF CheckTool, CallInv, CallTypes, Replies
  <2>. QED
    BY <2>1, <2>2
<1>4. CASE Commit
  <2>1. link.current \in DOMAIN calls /\ link.current \in Nat /\ calls[link.current] \in Futures
        /\ FutureOK(calls[link.current])
    BY <1>4 DEF Commit, MailOK, CallInv, CallTypes
  <2>2. CASE calls[link.current].future = "pending"
    <3>. DEFINE f == [calls[link.current] EXCEPT !.future = "running"]
    <3>1. f \in Futures /\ FutureOK(f) /\ f.future = "running"
      BY <2>1, <2>2 DEF Futures, FutureOK
    <3>2. calls' = [calls EXCEPT ![link.current] = f] /\ link' = [at |-> "call", current |-> link.current]
      BY <1>4, <2>2 DEF Commit, At
    <3>. HIDE DEF f
    <3>3. CallsMove(link.current, f)
      BY <2>1, <3>1, <3>2, OneCallMoves DEF CallInv
    <3>. QED
      BY <1>4, <2>1, <3>1, <3>2, <3>3, MoveKeeps DEF Commit, Sending, CallInv, CallTypes
  <2>3. CASE calls[link.current].future # "pending"
    BY <1>4, <2>3, IdleKeeps DEF Commit, At, Sending, CallInv, CallTypes
  <2>. QED
    BY <2>2, <2>3
<1>5. CASE Send
  <2>1. /\ link.current \in DOMAIN calls /\ link.current \in Nat /\ calls[link.current] \in Futures
        /\ FutureOK(calls[link.current]) /\ calls[link.current].future = "running"
    BY <1>5 DEF Send, Sending, CallInv, CallTypes, CommittedOK
  <2>. DEFINE f == [calls[link.current] EXCEPT !.sent = @ + 1]
  <2>2. f \in Futures /\ FutureOK(f) /\ f.future = "running"
    <3>1. calls[link.current].sent + 1 \in Nat
      <4>1. calls[link.current].sent \in Nat
        BY <2>1 DEF Futures
      <4>. QED
        BY <4>1
    <3>2. f = [calls[link.current] EXCEPT !.sent = calls[link.current].sent + 1]
      OBVIOUS
    <3>3. /\ f.future = calls[link.current].future /\ f.text = calls[link.current].text
          /\ f.told = calls[link.current].told
      BY <2>1, <3>2 DEF Futures
    <3>4. f \in Futures
      BY <2>1, <3>1, <3>2 DEF Futures
    <3>. QED
      BY <2>1, <3>3, <3>4 DEF FutureOK
  <2>3. calls' = [calls EXCEPT ![link.current] = f] /\ link' = [at |-> "sent", current |-> link.current]
    BY <1>5 DEF Send, At
  <2>. HIDE DEF f
  <2>4. CallsMove(link.current, f)
    BY <2>1, <2>2, <2>3, OneCallMoves DEF CallInv
  <2>. QED
    BY <1>5, <2>1, <2>2, <2>3, <2>4, MoveKeeps DEF Send, Sending, CallInv, CallTypes
<1>6. CASE Answer
  <2>1. ~Sending' /\ link' = [at |-> "get", current |-> 0]
    BY <1>6 DEF Answer, At, Sending
  <2>2. CallsSettle(link.current, "answer")
    BY <1>6, OneCallSettles, Zenon DEF Answer, CallInv, CallTypes, Replies
  <2>. QED
    BY <1>6, <2>1, <2>2, SettlingKeeps DEF Answer, CallInv, CallTypes, Replies
<1>7. CASE CallFails
  <2>1. Sending /\ link' = [at |-> "failed", current |-> link.current] /\ Sending'
    BY <1>7 DEF CallFails, At, Sending
  <2>. QED
    BY <1>7, <2>1 DEF CallFails, CallInv, CallTypes, CommittedOK
<1>8. CASE ReleaseCaller
  <2>1. link.current \in DOMAIN calls /\ link' = [at |-> "exit", current |-> 0] /\ ~Sending'
    BY <1>8 DEF ReleaseCaller, At, Sending, CallInv, CommittedOK
  <2>2. link.current # 0
    BY <2>1 DEF CallInv, CallTypes
  <2>3. CallsSettle(link.current, "unknown")
    BY <1>8, <2>2, OneCallSettles, Zenon DEF ReleaseCaller, CallInv, CallTypes, Replies
  <2>. QED
    BY <1>8, <2>1, <2>3, SettlingKeeps DEF ReleaseCaller, CallInv, CallTypes, Replies
<1>9. CASE Reconnect
  BY <1>9, IdleKeeps DEF Reconnect, At, Sending, CallInv, CallTypes
<1>. QED
  BY <1>1, <1>2, <1>3, <1>4, <1>5, <1>6, <1>7, <1>8, <1>9

LEMMA ClosingKeeps ==
    ASSUME CallInv, CloseRuntime \/ OwnerCancelled \/ DrainQueue \/ LoopEnds
    PROVE  CallInv'
<1>1. CASE CloseRuntime \/ LoopEnds
  BY <1>1 DEF CloseRuntime, LoopEnds, CallInv, CallTypes, CommittedOK, Sending
<1>2. CASE OwnerCancelled
  <2>1. link' = [at |-> "over", current |-> 0] /\ ~Sending'
    BY <1>2 DEF OwnerCancelled, At, Sending
  <2>2. CASE link.current = 0
    <3>1. ~Sending
      BY <2>2 DEF CallInv, CallTypes, CommittedOK
    <3>. QED
      BY <1>2, <2>1, <2>2, <3>1, IdleKeeps DEF OwnerCancelled, CallInv, CallTypes
  <2>3. CASE link.current # 0
    <3>1. CallsSettle(link.current, "unknown")
      BY <1>2, <2>3, OneCallSettles, Zenon DEF OwnerCancelled, CallInv, CallTypes, Replies
    <3>2. Sending => link.current = link.current
      OBVIOUS
    <3>3. UNCHANGED <<mailbox, caller>> /\ link.current \in Nat /\ "unknown" \in Replies
      BY <1>2 DEF OwnerCancelled, CallInv, CallTypes, Replies
    <3>. QED
      BY <2>1, <3>1, <3>2, <3>3, SettlingKeeps
  <2>. QED
    BY <2>2, <2>3
<1>3. CASE DrainQueue
  <2>1. ~Sending /\ UNCHANGED link
    BY <1>3 DEF DrainQueue, Sending
  <2>2. \A k \in DOMAIN calls : calls[k] \in Futures /\ FutureOK(calls[k]) /\ calls[k].future # "running"
    BY <2>1 DEF CallInv, CallTypes, CommittedOK
  <2>3. calls \in Seq(Futures)
    BY DEF CallInv, CallTypes
  <2>4. DOMAIN calls' = DOMAIN calls
    BY <1>3 DEF DrainQueue
  <2>5. ASSUME NEW k \in DOMAIN calls
        PROVE  calls'[k] \in Futures /\ FutureOK(calls'[k]) /\ calls'[k].future # "running"
    <3>1. k \in Nat
      BY <2>3
    <3>2. SettledAs(calls[k], FutureFinished(calls, k, "not sent")[k], "not sent")
      BY <2>3, <3>1, Settling DEF Replies
    <3>3. calls'[k] = calls[k] \/ SettledAs(calls[k], calls'[k], "not sent")
      BY <1>3, <3>2 DEF DrainQueue
    <3>4. CASE calls'[k] = calls[k]
      BY <2>2, <3>4
    <3>5. CASE calls'[k] = [calls[k] EXCEPT !.future = "finished", !.text = "not sent"] /\ calls[k].future = "pending"
      BY <2>2, <3>5 DEF Futures, FutureOK, Replies
    <3>. QED
      BY <2>2, <3>3, <3>4, <3>5 DEF SettledAs, Unsettled
  <2>6. calls' \in Seq(Futures) /\ (calls # <<>> => calls' # <<>>)
    <3>1. calls' = [k \in DOMAIN calls |-> calls'[k]]
      BY <1>3 DEF DrainQueue
    <3>4. DOMAIN calls = 1..Len(calls) /\ Len(calls) \in Nat
      BY <2>3
    <3>2. calls' \in [1..Len(calls) -> Futures]
      BY <2>5, <3>1, <3>4
    <3>3. calls' \in Seq(Futures)
      BY <3>2, <3>4
    <3>. QED
      BY <2>3, <2>4, <3>3
  <2>7. mailbox' \in Seq(Nat) /\ UNCHANGED caller
    <3>1. mailbox' = <<>> /\ UNCHANGED caller
      BY <1>3, Zenon DEF DrainQueue
    <3>. QED
      BY <3>1
  <2>. QED
    BY <2>1, <2>4, <2>5, <2>6, <2>7 DEF CallInv, CallTypes, CommittedOK, Sending
<1>. QED
  BY <1>1, <1>2, <1>3

\* A caller that is told its call was not sent may repeat it: whatever the owner task has
\* taken, cancelled or drained meanwhile, that call was not sent and cannot be any more.
THEOREM NotSentIsTrueProved == CallSpec => []NotSentIsTrue
<1>1. CallInit => CallInv /\ MailOK
  BY DEF CallInit, CallInv, CallTypes, CommittedOK, Sending, MailOK
<1>2. CallInv /\ MailOK /\ [CallNext]_callVars => CallInv' /\ MailOK'
  <2>. SUFFICES ASSUME CallInv, MailOK, [CallNext]_callVars PROVE CallInv' /\ MailOK'
    OBVIOUS
  <2>1. CASE CallNext
    <3>1. CallInv'
      BY <2>1, CallerKeeps, OwnerKeeps, ClosingKeeps DEF CallNext
    <3>. QED
      BY <2>1, <3>1, MailKeeps DEF CallInv
  <2>2. CASE UNCHANGED callVars
    BY <2>2 DEF callVars, CallInv, CallTypes, CommittedOK, Sending, MailOK
  <2>. QED
    BY <2>1, <2>2
<1>3. CallInv => NotSentIsTrue
  BY DEF CallInv, FutureOK, NotSentIsTrue
<1>. QED
  BY <1>1, <1>2, <1>3, PTL DEF CallSpec

-----------------------------------------------------------------------------
(* ProcessRuns.                                                            *)

States == [alive : BOOLEAN, inGroup : BOOLEAN, pipes : BOOLEAN]

\* From the SIGKILL to the next command the group is empty: what is left outside of it
\* cannot come back.
ProcessInv ==
    /\ process \in [Processes -> States]
    /\ runner = "reapExpired" \/ (runner = "idle" /\ code = "124") => Group = {}

\* No command joins a group it has left, or fills an empty one.
LEMMA CommandKeeps ==
    ASSUME ProcessInv, Command
    PROVE  process' \in [Processes -> States]
           /\ (Group = {} => Group' = {}) /\ UNCHANGED <<runner, code>>
<1>1. CASE \E p \in Processes, k \in Descendants : Fork(p, k)
  <2>1. PICK p \in Processes, k \in Descendants : Fork(p, k)
    BY <1>1
  <2>2. process' \in [Processes -> States]
    BY <2>1 DEF Fork, ProcessInv, Processes
  <2>3. \A q \in Group' : q \in Group \/ (q = k /\ p \in Group)
    BY <2>1 DEF Fork, ProcessInv, Group, Living
  <2>. QED
    BY <2>1, <2>2, <2>3 DEF Fork
<1>2. ASSUME NEW q \in Processes, NEW f \in States, process' = [process EXCEPT ![q] = f],
             f.alive /\ f.inGroup => process[q].alive /\ process[q].inGroup,
             UNCHANGED <<runner, code>>
      PROVE  process' \in [Processes -> States] /\ Group' \subseteq Group
  BY <1>2 DEF ProcessInv, Group, Living
<1>3. CASE \E p \in Processes : ClosePipes(p) \/ Exit(p)
  <2>1. PICK p \in Processes : ClosePipes(p) \/ Exit(p)
    BY <1>3
  <2>2. process[p] \in States
    BY DEF ProcessInv
  <2>3. CASE ClosePipes(p)
    <3>. DEFINE f == [process[p] EXCEPT !.pipes = FALSE]
    <3>1. f \in States /\ (f.alive /\ f.inGroup => process[p].alive /\ process[p].inGroup)
      BY <2>2 DEF States
    <3>2. process' = [process EXCEPT ![p] = f] /\ UNCHANGED <<runner, code>>
      BY <2>3 DEF ClosePipes, ProcessInv
    <3>. QED
      BY <1>2, <3>1, <3>2
  <2>4. CASE Exit(p)
    <3>1. Gone \in States /\ ~Gone.alive
      BY DEF Gone, States
    <3>. QED
      BY <1>2, <2>4, <3>1 DEF Exit
  <2>. QED
    BY <2>1, <2>3, <2>4
<1>4. CASE \E k \in Descendants : LeaveGroup(k)
  <2>1. PICK k \in Descendants : LeaveGroup(k)
    BY <1>4
  <2>2. k \in Processes /\ process[k] \in States
    BY DEF ProcessInv, Processes
  <2>. DEFINE f == [process[k] EXCEPT !.inGroup = FALSE]
  <2>3. f \in States /\ ~f.inGroup
    BY <2>2 DEF States
  <2>4. process' = [process EXCEPT ![k] = f] /\ UNCHANGED <<runner, code>>
    BY <2>1 DEF LeaveGroup, ProcessInv
  <2>. QED
    BY <1>2, <2>2, <2>3, <2>4
<1>5. CASE ReadInput
  BY <1>5 DEF ReadInput, ProcessInv, Group, Living
<1>. QED
  BY <1>1, <1>3, <1>4, <1>5 DEF Command

LEMMA SpawnKeeps ==
    ASSUME ProcessInv, NEW input, NEW at \in {"select", "read"}, Spawn(input, at)
    PROVE  ProcessInv'
<1>1. \A p \in Processes : Born \in States /\ process[p] \in States
                           /\ [process[p] EXCEPT !.inGroup = FALSE, !.pipes = FALSE] \in States
  BY DEF ProcessInv, Born, States
<1>2. process' \in [Processes -> States]
  BY <1>1 DEF Spawn
<1>. QED
  BY <1>2 DEF Spawn, ProcessInv

LEMMA KillingKeeps ==
    ASSUME ProcessInv, KillGroup \/ Raise
    PROVE  ProcessInv'
<1>1. Gone \in States /\ ~Gone.alive
  BY DEF Gone, States
<1>2. CASE KillGroup
  <2>1. process' \in [Processes -> States]
    BY <1>1, <1>2 DEF KillGroup, ProcessInv
  <2>2. \A p \in Processes : process'[p] = IF p \in Group THEN Gone ELSE process[p]
    BY <1>2 DEF KillGroup
  <2>3. Group' = {}
    BY <1>1, <2>2 DEF Group, Living
  <2>. QED
    BY <2>1, <2>3 DEF ProcessInv
<1>3. CASE Raise
  BY <1>1, <1>3 DEF Raise, ProcessInv
<1>. QED
  BY <1>2, <1>3

\* Whatever a timed-out command has forked, ignored or left behind, nothing of its
\* process group runs when run_process reports it.
THEOREM TimedOutGroupIsGoneProved == ProcessSpec => []TimedOutGroupIsGone
<1>1. ProcessInit => ProcessInv
  BY DEF ProcessInit, ProcessInv, Gone, States
<1>2. ProcessInv /\ [ProcessNext]_processVars => ProcessInv'
  <2>. SUFFICES ASSUME ProcessInv, [ProcessNext]_processVars PROVE ProcessInv'
    OBVIOUS
  <2>1. CASE Bash \/ MqttSub \/ MqttPub \/ ScenarioLine \/ Shell \/ CommandTool
    BY <2>1, SpawnKeeps DEF Bash, MqttSub, MqttPub, ScenarioLine, Shell, CommandTool
  <2>2. CASE Command
    BY <2>2, CommandKeeps DEF ProcessInv
  <2>3. CASE Kill \/ NativeKill \/ Raise
    BY <2>3, KillingKeeps DEF Kill, NativeKill
  <2>4. CASE AllRead \/ Expire \/ Terminate \/ EndOfOutput \/ LeaderExits \/ Overrun
    BY <2>4 DEF AllRead, Expire, Terminate, EndOfOutput, LeaderExits, Overrun, Go, ProcessInv, Group, Living
  <2>5. CASE BrokenPipe
    BY <2>5 DEF BrokenPipe, ProcessInv, Group, Living
  <2>6. CASE Return
    <3>1. UNCHANGED process /\ (runner' = "idle" /\ code' = "124" => runner = "reapExpired")
          /\ runner' = "idle"
      BY <2>6 DEF Return
    <3>. QED
      BY <3>1 DEF ProcessInv, Group, Living
  <2>7. CASE UNCHANGED processVars
    BY <2>7 DEF processVars, ProcessInv, Group, Living
  <2>. QED
    BY <2>1, <2>2, <2>3, <2>4, <2>5, <2>6, <2>7 DEF ProcessNext, Runner
<1>3. ProcessInv => TimedOutGroupIsGone
  BY DEF ProcessInv, TimedOutGroupIsGone
<1>. QED
  BY <1>1, <1>2, <1>3, PTL DEF ProcessSpec

-----------------------------------------------------------------------------
(* FragmentRuns.                                                           *)

Works == [at : {"none", "temp", "infer", "boundary", "replace", "leave"}, run : Nat, part : Nat,
          cyclic : BOOLEAN]

\* A run is as far as its part says: what it has collected is in its temporary file.
WorkOK(w, files, latest) ==
    /\ w.run <= latest
    /\ w.at = "temp" => w.cyclic /\ w.part = 0 /\ w.run \notin DOMAIN files
    /\ w.at \in {"infer", "boundary"} => w.part < Parts
    /\ w.at \in {"infer", "boundary", "replace"} /\ w.cyclic =>
          w.run \in DOMAIN files /\ files[w.run] = w.part
    /\ w.at = "replace" => w.cyclic /\ w.part = Parts
    /\ w.at # "none" => w.run # 0

\* Runs have numbers of their own; a run to come has no file yet.
FragmentInv ==
    /\ work \in [Users -> Works] /\ count \in Nat
    /\ \A u \in Users : WorkOK(work[u], temps, count)
    /\ \A u, v \in Users : work[u].run = work[v].run => u = v \/ work[u].run = 0
    /\ temps = [k \in DOMAIN temps |-> temps[k]] /\ DOMAIN temps \subseteq 1..count
    /\ output = [run |-> output.run, parts |-> output.parts]
    /\ NothingHalfDone

\* What one run does beside the others: it touches its own file and child context only.
RunMoves(u, w) ==
    /\ work' = [work EXCEPT ![u] = w] /\ count' \in {count, count + 1}
    /\ w.run \in {0, work[u].run} \/ (w.run = count + 1 /\ count' = count + 1 /\ work[u].run = 0)
    /\ temps' = [k \in DOMAIN temps' |-> temps'[k]]
    /\ \A k \in DOMAIN temps' \cup DOMAIN temps :
          k # work[u].run => k \in DOMAIN temps /\ k \in DOMAIN temps' /\ temps'[k] = temps[k]
    /\ work[u].run \in DOMAIN temps' => w.run = work[u].run \/ work[u].run \in litter'
    /\ work[u].run \in DOMAIN temps' => work[u].run # 0
    /\ litter \subseteq litter'
    /\ children' = (children \ {work[u].run}) \cup ({w.run} \ {0})
    /\ output' = [run |-> output'.run, parts |-> Parts]

LEMMA RunMoveKeeps ==
    ASSUME FragmentInv, NEW u \in Users, NEW w \in Works, RunMoves(u, w), WorkOK(w, temps', count')
    PROVE  FragmentInv'
<1>1. /\ work' \in [Users -> Works] /\ count' \in Nat /\ count <= count'
      /\ work'[u] = w /\ \A v \in Users \ {u} : work'[v] = work[v]
  BY DEF RunMoves, FragmentInv
<1>2. /\ \A v \in Users : work[v] \in Works /\ work[v].run \in Nat /\ WorkOK(work[v], temps, count)
      /\ w.run \in Nat
  BY DEF FragmentInv, Works
<1>3. \A v \in Users \ {u} : work[v].run # work[u].run \/ work[v].run = 0
  BY DEF FragmentInv
<1>4. DOMAIN temps' \subseteq 1..count' /\ 0 \notin DOMAIN temps'
  <2>1. DOMAIN temps \subseteq 1..count /\ count \in Nat /\ work[u].run <= count
    BY <1>2 DEF FragmentInv, WorkOK
  <2>2. ASSUME NEW k \in DOMAIN temps' PROVE k \in 1..count'
    <3>1. CASE k = work[u].run
      <4>1. k \in Nat /\ k # 0 /\ k <= count
        BY <1>2, <2>1, <2>2, <3>1 DEF RunMoves
      <4>. QED
        BY <1>1, <2>1, <4>1
    <3>2. CASE k # work[u].run
      <4>1. k \in 1..count
        BY <2>1, <2>2, <3>2 DEF RunMoves
      <4>. QED
        BY <1>1, <2>1, <4>1
    <3>. QED
      BY <3>1, <3>2
  <2>. QED
    BY <1>1, <2>2
<1>5. ASSUME NEW v \in Users \ {u} PROVE WorkOK(work'[v], temps', count')
  <2>1. work'[v] = work[v] /\ WorkOK(work[v], temps, count) /\ work[v].run \in Nat
    BY <1>1, <1>2
  <2>2. work[v].run <= count'
    BY <1>1, <2>1 DEF WorkOK, FragmentInv
  <2>3. work[v].run = 0 => work[v].at = "none"
    BY <2>1 DEF WorkOK
  <2>4. work[v].run # 0 => /\ work[v].run \in DOMAIN temps' <=> work[v].run \in DOMAIN temps
                           /\ work[v].run \in DOMAIN temps => temps'[work[v].run] = temps[work[v].run]
    BY <1>3 DEF RunMoves
  <2>. QED
    BY <2>1, <2>2, <2>3, <2>4 DEF WorkOK
<1>6. \A v \in Users : WorkOK(work'[v], temps', count')
  BY <1>1, <1>5
<1>7. \A v \in Users : work[v].run # count + 1
  BY <1>2 DEF WorkOK, FragmentInv
<1>8. \A a, b \in Users : work'[a].run = work'[b].run => a = b \/ work'[a].run = 0
  <2>1. ASSUME NEW a \in Users \ {u} PROVE work[a].run # w.run \/ w.run = 0
    BY <1>3, <1>7, <2>1 DEF RunMoves
  <2>2. \A a, b \in Users \ {u} : work[a].run = work[b].run => a = b \/ work[a].run = 0
    BY DEF FragmentInv
  <2>. QED
    BY <1>1, <2>1, <2>2
<1>9. children' = {work'[a].run : a \in Users} \ {0}
  <2>1. children = {work[a].run : a \in Users} \ {0}
    BY DEF FragmentInv, NothingHalfDone
  <2>2. children' = (children \ {work[u].run}) \cup ({w.run} \ {0})
    BY DEF RunMoves
  <2>. QED
    BY <1>1, <1>3, <2>1, <2>2
<1>10. DOMAIN temps' \subseteq litter' \cup {work'[a].run : a \in Users}
  <2>1. DOMAIN temps \subseteq litter \cup {work[a].run : a \in Users}
    BY DEF FragmentInv, NothingHalfDone
  <2>2. ASSUME NEW k \in DOMAIN temps' PROVE k \in litter' \cup {work'[a].run : a \in Users}
    <3>1. CASE k = work[u].run
      BY <1>1, <2>2, <3>1 DEF RunMoves
    <3>2. CASE k # work[u].run
      BY <1>1, <2>1, <2>2, <3>2 DEF RunMoves
    <3>. QED
      BY <3>1, <3>2
  <2>. QED
    BY <2>2
<1>11. NothingHalfDone' /\ output' = [run |-> output'.run, parts |-> output'.parts]
  BY <1>9, <1>10 DEF NothingHalfDone, RunMoves
<1>. QED
  BY <1>1, <1>4, <1>6, <1>8, <1>11 DEF FragmentInv, RunMoves

LEMMA RunSteps ==
    ASSUME FragmentInv, NEW u \in Users, NEW b \in BOOLEAN,
           \/ Start(u, b) \/ Unwind(u, b)
           \/ MakeTemp(u) \/ Infer(u) \/ Collect(u) \/ Replace(u) \/ Fail(u) \/ CloseAtBoundary(u)
    PROVE  FragmentInv'
<1>. DEFINE W == work[u]
<1>1. /\ W \in Works /\ W.run \in Nat /\ W.part \in Nat /\ count \in Nat /\ WorkOK(W, temps, count)
      /\ Parts \in Nat \ {0}
      /\ temps = [k \in DOMAIN temps |-> temps[k]] /\ DOMAIN temps \subseteq 1..count
      /\ output = [run |-> output.run, parts |-> Parts]
  BY FragmentConstants DEF FragmentInv, Works, NothingHalfDone
<1>2. children = {work[a].run : a \in Users} \ {0} /\ work \in [Users -> Works]
  BY DEF FragmentInv, NothingHalfDone
<1>3. W.at # "none" => W.run # 0 /\ children = (children \ {W.run}) \cup ({W.run} \ {0})
  BY <1>1, <1>2 DEF WorkOK
<1>4. ASSUME NEW place \in {"infer", "boundary", "leave"}, W.at # "none",
             work' = [work EXCEPT ![u].at = place], UNCHANGED <<temps, output, children, litter, count>>,
             place = "leave" \/ (place = "boundary" /\ W.at = "infer")
      PROVE  FragmentInv'
  <2>. DEFINE w == [W EXCEPT !.at = place]
  <2>1. /\ w \in Works /\ w.at = place /\ w.run = W.run /\ w.part = W.part /\ w.cyclic = W.cyclic
        /\ work' = [work EXCEPT ![u] = w]
    BY <1>1, <1>2, <1>4 DEF Works
  <2>. HIDE DEF w
  <2>2. WorkOK(w, temps', count')
    BY <1>1, <1>4, <2>1 DEF WorkOK
  <2>3. RunMoves(u, w)
    BY <1>1, <1>3, <1>4, <2>1 DEF RunMoves
  <2>. QED
    BY <2>1, <2>2, <2>3, RunMoveKeeps
<1>5. CASE Infer(u) \/ Fail(u) \/ CloseAtBoundary(u)
  BY <1>4, <1>5 DEF Infer, Fail, CloseAtBoundary, Moves
<1>6. CASE Start(u, b)
  <2>. DEFINE w == [at |-> IF b THEN "temp" ELSE "infer", run |-> count + 1, part |-> 0, cyclic |-> b]
  <2>1. /\ w \in Works /\ w.run = count + 1 /\ w.part = 0 /\ w.cyclic = b
        /\ w.at = IF b THEN "temp" ELSE "infer"
        /\ work' = [work EXCEPT ![u] = w] /\ count' = count + 1 /\ W.run = 0
        /\ children' = children \cup {count + 1} /\ UNCHANGED <<temps, output, litter>>
    BY <1>1, <1>6 DEF Start, Works, NoWork
  <2>. HIDE DEF w
  <2>2. WorkOK(w, temps', count')
    BY <1>1, <2>1 DEF WorkOK
  <2>3. RunMoves(u, w)
    BY <1>1, <1>2, <2>1 DEF RunMoves
  <2>. QED
    BY <2>1, <2>2, <2>3, RunMoveKeeps
<1>7. CASE MakeTemp(u)
  <2>. DEFINE w == [W EXCEPT !.at = "infer"]
  <2>1. /\ w \in Works /\ w.at = "infer" /\ w.run = W.run /\ w.part = W.part /\ w.cyclic = W.cyclic
        /\ work' = [work EXCEPT ![u] = w] /\ W.at = "temp"
        /\ UNCHANGED <<output, children, litter, count>>
    BY <1>1, <1>2, <1>7 DEF MakeTemp, Moves, Works
  <2>. HIDE DEF w
  <2>2. /\ temps' = [k \in DOMAIN temps \cup {W.run} |-> IF k \in DOMAIN temps THEN temps[k] ELSE 0]
        /\ W.run \notin DOMAIN temps /\ W.part = 0 /\ W.cyclic
    BY <1>1, <1>7, <2>1 DEF MakeTemp, WorkOK
  <2>3. /\ DOMAIN temps' = DOMAIN temps \cup {W.run} /\ temps'[W.run] = 0
        /\ \A k \in DOMAIN temps : temps'[k] = temps[k]
        /\ temps' = [k \in DOMAIN temps' |-> temps'[k]]
    BY <2>2
  <2>4. WorkOK(w, temps', count')
    BY <1>1, <2>1, <2>2, <2>3 DEF WorkOK
  <2>5. RunMoves(u, w)
    BY <1>1, <1>3, <2>1, <2>3 DEF RunMoves
  <2>. QED
    BY <2>1, <2>4, <2>5, RunMoveKeeps
<1>8. CASE Collect(u)
  <2>. DEFINE place == IF W.part + 1 < Parts THEN "infer" ELSE IF W.cyclic THEN "replace" ELSE "leave"
              w == [W EXCEPT !.part = @ + 1, !.at = place]
  <2>1. /\ w \in Works /\ w.at = place /\ w.run = W.run /\ w.part = W.part + 1 /\ w.cyclic = W.cyclic
        /\ work' = [work EXCEPT ![u] = w] /\ W.at = "boundary" /\ W.part < Parts
        /\ UNCHANGED <<output, children, litter, count>>
    BY <1>1, <1>2, <1>8 DEF Collect, Works, WorkOK
  <2>. HIDE DEF w
  <2>2. /\ DOMAIN temps' = DOMAIN temps
        /\ temps' = [k \in DOMAIN temps' |-> temps'[k]]
        /\ \A k \in DOMAIN temps : k # W.run => temps'[k] = temps[k]
        /\ W.cyclic => W.run \in DOMAIN temps /\ temps'[W.run] = W.part + 1
    <3>1. temps' = IF W.cyclic THEN [temps EXCEPT ![W.run] = @ + 1] ELSE temps
      BY <1>8 DEF Collect
    <3>2. W.cyclic => W.run \in DOMAIN temps /\ temps[W.run] = W.part
      BY <1>1, <2>1 DEF WorkOK
    <3>. QED
      BY <1>1, <3>1, <3>2
  <2>3. WorkOK(w, temps', count')
    BY <1>1, <2>1, <2>2 DEF WorkOK
  <2>4. RunMoves(u, w)
    BY <1>1, <1>3, <2>1, <2>2 DEF RunMoves
  <2>. QED
    BY <2>1, <2>3, <2>4, RunMoveKeeps
<1>9. CASE Replace(u)
  <2>. DEFINE w == [W EXCEPT !.at = "leave"]
  <2>1. /\ w \in Works /\ w.at = "leave" /\ w.run = W.run /\ w.part = W.part /\ w.cyclic = W.cyclic
        /\ work' = [work EXCEPT ![u] = w] /\ W.at = "replace"
        /\ UNCHANGED <<children, litter, count>>
        /\ output' = [run |-> W.run, parts |-> temps[W.run]]
        /\ temps' = [k \in DOMAIN temps \ {W.run} |-> temps[k]]
    BY <1>1, <1>2, <1>9 DEF Replace, Moves, Works
  <2>. HIDE DEF w
  <2>2. temps[W.run] = Parts
    BY <1>1, <2>1 DEF WorkOK
  <2>3. WorkOK(w, temps', count')
    BY <1>1, <2>1 DEF WorkOK
  <2>4. RunMoves(u, w)
    BY <1>1, <1>3, <2>1, <2>2 DEF RunMoves
  <2>. QED
    BY <2>1, <2>3, <2>4, RunMoveKeeps
<1>10. CASE Unwind(u, b)
  <2>1. /\ NoWork \in Works /\ NoWork.run = 0 /\ NoWork.at = "none"
        /\ work' = [work EXCEPT ![u] = NoWork] /\ W.at = "leave" /\ UNCHANGED <<output, count>>
        /\ children' = children \ {W.run}
    BY <1>10 DEF Unwind, Works, NoWork
  <2>2. /\ litter \subseteq litter' /\ temps' = [k \in DOMAIN temps' |-> temps'[k]]
        /\ DOMAIN temps' \subseteq DOMAIN temps
        /\ \A k \in DOMAIN temps : k # W.run => k \in DOMAIN temps' /\ temps'[k] = temps[k]
        /\ W.run \in DOMAIN temps' => W.run \in litter'
    BY <1>1, <1>10 DEF Unwind
  <2>3. WorkOK(NoWork, temps', count')
    BY <1>1, <2>1 DEF WorkOK
  <2>4. RunMoves(u, NoWork)
    BY <1>1, <1>3, <2>1, <2>2 DEF RunMoves
  <2>. QED
    BY <2>1, <2>3, <2>4, RunMoveKeeps
<1>. QED
  BY <1>5, <1>6, <1>7, <1>8, <1>9, <1>10

\* However many runs write the same file, and wherever each is closed or fails: the file
\* holds all parts of one of them, contexts are closed and temporary files removed.
THEOREM NothingHalfDoneProved == FragmentSpec => []NothingHalfDone
<1>1. FragmentInit => FragmentInv
  <2>. SUFFICES ASSUME FragmentInit PROVE FragmentInv
    OBVIOUS
  <2>1. NoWork \in Works /\ NoWork.run = 0 /\ NoWork.at = "none"
    BY DEF NoWork, Works
  <2>2. DOMAIN temps = {} /\ temps = [k \in DOMAIN temps |-> temps[k]]
    BY DEF FragmentInit
  <2>. QED
    BY <2>1, <2>2 DEF FragmentInit, FragmentInv, WorkOK, NothingHalfDone
<1>2. FragmentInv /\ [FragmentNext]_fragmentVars => FragmentInv'
  <2>1. FragmentInv /\ UNCHANGED fragmentVars => FragmentInv'
    BY DEF fragmentVars, FragmentInv, WorkOK, NothingHalfDone
  <2>. QED
    BY <2>1, RunSteps DEF FragmentNext
<1>3. FragmentInv => NothingHalfDone
  BY DEF FragmentInv
<1>. QED
  BY <1>1, <1>2, <1>3, PTL DEF FragmentSpec

-----------------------------------------------------------------------------
(* MqttReads.                                                              *)

Places == {"idle", "event", "process", "error", "wait", "value"}

\* What the cache holds is the last message of the connection, and as old as the silence
\* since.
ReadInv ==
    /\ cache = [started |-> cache.started, connected |-> cache.connected, closed |-> cache.closed,
                item |-> [message |-> cache.item.message, age |-> cache.item.age]]
    /\ cache.item.message = delivered
    /\ delivered # NoMessage => cache.item.age = silence
    /\ reader \in [Readers -> [at : Places, left : Nat, got : Nat]]
    /\ messages \in Nat /\ delivered \in Nat /\ silence \in Nat

\* A tool call ends its wait with a value only in Wakes, whatever else happens.
OnlyReadsFresh(r) ==
    reader[r].at = "wait" /\ reader'[r].at = "value" =>
        reader'[r].got = delivered /\ delivered # NoMessage /\ silence <= MaxAge

LEMMA ReaderLeaves ==
    ASSUME ReadInv, NEW r \in Readers, NEW at \in Places, NEW got \in Nat, Leaves(r, at, got)
    PROVE  /\ reader' \in [Readers -> [at : Places, left : Nat, got : Nat]]
           /\ reader'[r].at = at /\ reader'[r].got = got
           /\ \A q \in Readers \ {r} : reader'[q] = reader[q]
  BY DEF Leaves, ReadInv

LEMMA ToolKeeps ==
    ASSUME ReadInv, NEW r \in Readers,
           FromEvent(r) \/ FromProcess(r) \/ Read(r) \/ Wakes(r) \/ ToolEnds(r)
    PROVE  ReadInv' /\ \A q \in Readers : OnlyReadsFresh(q)
<1>1. UNCHANGED <<delivered, silence, messages>>
  BY DEF FromEvent, FromProcess, Read, Wakes, ToolEnds, Broker
<1>2. ASSUME NEW at \in Places, NEW got \in Nat, Leaves(r, at, got), UNCHANGED cache,
             reader[r].at = "wait" /\ at = "value" =>
                got = delivered /\ delivered # NoMessage /\ silence <= MaxAge
      PROVE  ReadInv' /\ \A q \in Readers : OnlyReadsFresh(q)
  <2>1. /\ reader' \in [Readers -> [at : Places, left : Nat, got : Nat]]
        /\ reader'[r].at = at /\ reader'[r].got = got
        /\ \A q \in Readers \ {r} : reader'[q] = reader[q]
    BY <1>2, ReaderLeaves
  <2>2. ReadInv'
    BY <1>1, <1>2, <2>1 DEF ReadInv
  <2>3. \A q \in Readers : OnlyReadsFresh(q)
    BY <1>2, <2>1 DEF OnlyReadsFresh
  <2>. QED
    BY <2>2, <2>3
<1>3. "event" \in Places /\ "process" \in Places /\ "error" \in Places /\ "idle" \in Places
      /\ "value" \in Places /\ "wait" \in Places /\ NoMessage \in Nat
  BY DEF Places, NoMessage
<1>4. CASE FromEvent(r) \/ FromProcess(r) \/ ToolEnds(r)
  BY <1>2, <1>3, <1>4 DEF FromEvent, FromProcess, ToolEnds, Fails
<1>5. CASE Read(r)
  <2>1. CASE Fails(r) /\ UNCHANGED cache
    BY <1>2, <1>3, <2>1 DEF Fails
  <2>2. CASE /\ cache' = [cache EXCEPT !.started = TRUE]
             /\ reader' = [reader EXCEPT ![r] = [at |-> "wait", left |-> Timeout, got |-> NoMessage]]
    <3>1. reader' \in [Readers -> [at : Places, left : Nat, got : Nat]] /\ reader'[r].at = "wait"
          /\ \A q \in Readers \ {r} : reader'[q] = reader[q]
      BY <1>3, <2>2, ReadConstants DEF ReadInv
    <3>2. /\ cache' = [started |-> cache'.started, connected |-> cache'.connected,
                       closed |-> cache'.closed,
                       item |-> [message |-> cache'.item.message, age |-> cache'.item.age]]
          /\ cache'.item = cache.item
      <4>1. cache' = [started |-> TRUE, connected |-> cache.connected, closed |-> cache.closed,
                      item |-> cache.item]
        BY <2>2 DEF ReadInv
      <4>2. cache.item = [message |-> cache.item.message, age |-> cache.item.age]
        BY DEF ReadInv
      <4>. QED
        BY <4>1, <4>2
    <3>3. ReadInv'
      BY <1>1, <3>1, <3>2 DEF ReadInv
    <3>. QED
      BY <3>1, <3>3 DEF OnlyReadsFresh
  <2>. QED
    BY <1>5, <2>1, <2>2 DEF Read
<1>6. CASE Wakes(r)
  <2>1. CASE Fails(r) /\ UNCHANGED cache
    BY <1>2, <1>3, <2>1 DEF Fails
  <2>2. CASE /\ cache.item.message # NoMessage /\ cache.item.age <= MaxAge
             /\ Leaves(r, "value", cache.item.message) /\ UNCHANGED cache
    <3>1. cache.item.message = delivered /\ delivered \in Nat /\ cache.item.age = silence
      BY <2>2 DEF ReadInv
    <3>. QED
      BY <1>2, <1>3, <2>2, <3>1
  <2>. QED
    BY <1>6, <2>1, <2>2 DEF Wakes
<1>. QED
  BY <1>4, <1>5, <1>6

LEMMA CacheKeeps ==
    ASSUME ReadInv, OnConnect \/ OnDisconnect \/ OnMessage \/ CloseCache
    PROVE  ReadInv' /\ UNCHANGED reader
<1>1. ASSUME NEW started, NEW connected, NEW closed, NEW message \in Nat,
             cache' = [started |-> started, connected |-> connected, closed |-> closed,
                       item |-> [message |-> message, age |-> 0]],
             delivered' = message, silence' = 0, messages' \in Nat, UNCHANGED reader
      PROVE  ReadInv' /\ UNCHANGED reader
  BY <1>1 DEF ReadInv
<1>2. cache = [started |-> cache.started, connected |-> cache.connected, closed |-> cache.closed,
               item |-> [message |-> cache.item.message, age |-> cache.item.age]]
      /\ messages \in Nat /\ messages + 1 \in Nat /\ NoMessage \in Nat
  BY DEF ReadInv, NoMessage
<1>3. CASE OnConnect
  BY <1>1, <1>2, <1>3 DEF OnConnect, Disconnected, Nothing
<1>4. CASE OnDisconnect
  BY <1>1, <1>2, <1>4 DEF OnDisconnect, Disconnected, Nothing
<1>5. CASE OnMessage
  BY <1>1, <1>2, <1>5 DEF OnMessage, Delivers, Nothing
<1>6. CASE CloseCache
  BY <1>1, <1>2, <1>6 DEF CloseCache, Disconnected, Nothing
<1>. QED
  BY <1>3, <1>4, <1>5, <1>6

LEMMA TimeKeeps ==
    ASSUME ReadInv, TimePasses
    PROVE  ReadInv' /\ \A r \in Readers : reader'[r].at = reader[r].at
<1>1. /\ cache = [started |-> cache.started, connected |-> cache.connected, closed |-> cache.closed,
                  item |-> [message |-> cache.item.message, age |-> cache.item.age]]
      /\ cache.item.message = delivered /\ silence \in Nat /\ MaxAge \in Nat
      /\ delivered # NoMessage => cache.item.age = silence
  BY ReadConstants DEF ReadInv
<1>2. /\ cache' = IF cache.item.message # NoMessage /\ cache.item.age <= MaxAge
                  THEN [cache EXCEPT !.item.age = @ + 1] ELSE cache
      /\ silence' = IF silence <= MaxAge THEN silence + 1 ELSE silence
      /\ UNCHANGED <<delivered, messages>>
  BY DEF TimePasses
<1>3. /\ cache' = [started |-> cache'.started, connected |-> cache'.connected, closed |-> cache'.closed,
                   item |-> [message |-> cache'.item.message, age |-> cache'.item.age]]
      /\ cache'.item.message = delivered
      /\ delivered # NoMessage => cache'.item.age = silence'
  BY <1>1, <1>2
<1>4. /\ reader' = [r \in Readers |-> IF reader[r].left > 0 THEN [reader[r] EXCEPT !.left = @ - 1]
                                      ELSE reader[r]]
      /\ reader \in [Readers -> [at : Places, left : Nat, got : Nat]]
  BY DEF TimePasses, ReadInv
<1>5. \A r \in Readers : reader'[r] \in [at : Places, left : Nat, got : Nat]
                         /\ reader'[r].at = reader[r].at
  BY <1>4
<1>6. reader' \in [Readers -> [at : Places, left : Nat, got : Nat]]
  BY <1>4, <1>5
<1>. QED
  BY <1>1, <1>2, <1>3, <1>5, <1>6 DEF ReadInv

\* Whatever the callbacks of paho do between two looks of a reader: a value it gets is the
\* present connection's last message and no older than max_age.
THEOREM FreshReadsProved == ReadSpec => FreshReads
<1>1. ReadInit => ReadInv
  <2>1. "idle" \in Places
    BY DEF Places
  <2>. SUFFICES ASSUME ReadInit PROVE ReadInv
    OBVIOUS
  <2>2. cache = [started |-> FALSE, connected |-> FALSE, closed |-> FALSE, item |-> [message |-> 0, age |-> 0]]
    BY DEF ReadInit, Nothing, NoMessage
  <2>3. reader \in [Readers -> [at : Places, left : Nat, got : Nat]]
    BY <2>1 DEF ReadInit, NoMessage
  <2>4. /\ cache = [started |-> cache.started, connected |-> cache.connected, closed |-> cache.closed,
                     item |-> [message |-> cache.item.message, age |-> cache.item.age]]
        /\ cache.item.message = 0 /\ cache.item.age = 0
    BY <2>2
  <2>5. delivered = 0 /\ silence = 0 /\ messages = 0
    BY DEF ReadInit, NoMessage
  <2>. QED
    BY <2>3, <2>4, <2>5 DEF ReadInv, NoMessage
<1>2. ASSUME ReadInv, [ReadNext]_readVars
      PROVE  ReadInv' /\ \A r \in Readers : OnlyReadsFresh(r)
  <2>1. CASE \E r \in Readers : FromEvent(r) \/ FromProcess(r) \/ Read(r) \/ Wakes(r) \/ ToolEnds(r)
    BY <1>2, <2>1, ToolKeeps
  <2>2. CASE OnConnect \/ OnDisconnect \/ OnMessage \/ CloseCache
    BY <1>2, <2>2, CacheKeeps DEF OnlyReadsFresh
  <2>3. CASE TimePasses
    BY <1>2, <2>3, TimeKeeps DEF OnlyReadsFresh
  <2>4. CASE UNCHANGED readVars
    BY <1>2, <2>4 DEF readVars, ReadInv, OnlyReadsFresh
  <2>. QED
    BY <1>2, <2>1, <2>2, <2>3, <2>4 DEF ReadNext
<1>3. ReadInv /\ [ReadNext]_readVars => ReadInv'
  BY <1>2
<1>4. ReadInv /\ [ReadNext]_readVars =>
        [\A r \in Readers : reader[r].at = "wait" /\ reader'[r].at = "value" =>
            /\ reader'[r].got = delivered /\ delivered # NoMessage
            /\ silence <= MaxAge]_readVars
  BY <1>2 DEF OnlyReadsFresh
<1>. QED
  BY <1>1, <1>3, <1>4, PTL DEF ReadSpec, FreshReads

-----------------------------------------------------------------------------
(* AgentTurns.                                                             *)

AgentRecords == [state : {"FREE", "RUNNING", "WAITING"}, last : {"none", "system", "user", "assistant"},
                 method : {"none", "task", "query"}, used : Nat, repeated : Nat, deferred : BOOLEAN,
                 within : Commands \cup {"none"}, doubts : SUBSET Uncertain]
ManagerRecords == [last : {"system", "user", "assistant"}, chat : BOOLEAN, closing : BOOLEAN,
                   doubts : SUBSET Uncertain, audience : {"person", "answers"}]
TurnRecords == [at : {"none", "said", "ask", "within", "wait", "oneshot"}, said : Says \cup {"none"},
                calls : Nat]
Results == [next : Commands \cup {"text", "silent"}, ran : Uncertain \cup {"none"},
            unsure : Uncertain \cup {"none"}, doubts : SUBSET Uncertain]

\* The agent at home: free, with its base or nothing.
Home(a) == a.state = "FREE" /\ a.last \in {"none", "system"}

\* What is doubtful for the person or the activation, the runtime that asks has recorded.
TurnInv ==
    /\ manager \in ManagerRecords /\ turn \in TurnRecords /\ agent \in AgentRecords
    /\ activation \in BOOLEAN
    /\ doubt \in [turn : SUBSET Uncertain, activation : SUBSET Uncertain]
    /\ doubt.turn \subseteq manager.doubts
    /\ agent.state # "FREE" => doubt.activation \subseteq agent.doubts
    /\ AgentComesHome /\ DoubtfulNotRepeated

\* A result of a command: nothing doubtful was executed, and a new doubt is recorded.
ResultOK(r, doubts) ==
    /\ r \in Results /\ r.ran \notin doubts /\ doubts \subseteq r.doubts
    /\ r.unsure = "none" \/ r.unsure \in r.doubts

LEMMA RanOK ==
    ASSUME NEW next \in Commands \cup {"text", "silent"}, NEW ran \in Uncertain \cup {"none"},
           NEW unsure \in Uncertain \cup {"none"}, NEW doubts \in SUBSET Uncertain, ran \notin doubts
    PROVE  ResultOK(Ran(next, ran, unsure, doubts), doubts)
  BY DEF Ran, ResultOK, Results

LEMMA RefusedOK ==
    ASSUME NEW doubts \in SUBSET Uncertain, NEW r \in Refused(doubts)
    PROVE  ResultOK(r, doubts)
<1>1. "none" \notin Uncertain
  BY DEF Uncertain
<1>. QED
  BY <1>1, RanOK DEF Refused

LEMMA ScenarioLinesOK ==
    ASSUME NEW doubts \in SUBSET Uncertain, NEW ran \in Uncertain \cup {"none"}, ran \notin doubts,
           NEW r \in ScenarioLines(ran, doubts)
    PROVE  ResultOK(r, doubts)
<1>1. "script" \in Uncertain /\ "script" \in Commands
  BY DEF Uncertain, Commands
<1>. QED
  BY <1>1, RanOK DEF ScenarioLines

LEMMA ResumedOK ==
    ASSUME NEW doubts \in SUBSET Uncertain, NEW c, NEW r \in Resumed(c, doubts)
    PROVE  ResultOK(r, doubts)
<1>1. "none" \notin Uncertain /\ "partly" \in Commands
  BY DEF Uncertain, Commands
<1>2. CASE r \in ReadPartly(doubts)
  BY <1>1, <1>2, RanOK DEF ReadPartly
<1>3. CASE r \in ScenarioLines("none", doubts)
  BY <1>1, <1>3, ScenarioLinesOK
<1>. QED
  BY <1>2, <1>3 DEF Resumed

LEMMA WorkResultOK ==
    ASSUME NEW doubts \in SUBSET Uncertain, NEW c \in Commands, NEW r \in Work(c, doubts)
    PROVE  ResultOK(r, doubts)
<1>1. /\ "none" \notin Uncertain /\ "mcp" \in Uncertain /\ "shell" \in Uncertain /\ "script" \in Uncertain
      /\ "partly" \in Commands
  BY DEF Uncertain, Commands
<1>2. CASE r \in Dispatch(doubts)
  BY <1>1, <1>2, RefusedOK, RanOK DEF Dispatch
<1>3. CASE r \in Execute(doubts)
  BY <1>1, <1>3, RefusedOK, RanOK DEF Execute
<1>4. CASE r \in Scenario(doubts)
  BY <1>1, <1>4, RefusedOK, ScenarioLinesOK DEF Scenario
<1>5. CASE r \in ReadPartly(doubts)
  BY <1>1, <1>5, RanOK DEF ReadPartly
<1>6. CASE r \in TaskCommand(doubts) \/ r \in TimerCommand(doubts)
  BY <1>1, <1>6, RanOK DEF TaskCommand, TimerCommand
<1>. QED
  BY <1>2, <1>3, <1>4, <1>5, <1>6 DEF Work, Commands, Uncertain

\* An outcome of the agent's step: it goes on with all doubts, or it is at home.
OutcomeOK(o, doubts) ==
    /\ o = [out |-> o.out, agent |-> o.agent, ran |-> o.ran, unsure |-> o.unsure]
    /\ o.agent \in AgentRecords
    /\ o.out = "more" => o.agent.state # "FREE" /\ doubts \subseteq o.agent.doubts
    /\ o.out \notin {"more", "need", "raised"} => o.agent.state = "FREE"
    /\ o.agent.state = "FREE" => Home(o.agent)

LEMMA ReleasedHome ==
    ASSUME NEW preserve \in BOOLEAN, NEW a \in Released(preserve)
    PROVE  a \in AgentRecords /\ Home(a)
<1>1. PICK l \in {"system", "none"} : a = [Asleep EXCEPT !.last = l]
  BY DEF Released
<1>2. "none" \in Commands \cup {"none"} /\ {} \in SUBSET Uncertain
  OBVIOUS
<1>. QED
  BY <1>1, <1>2 DEF Asleep, AgentRecords, Home

LEMMA OutcomeOfReleased ==
    ASSUME NEW preserve \in BOOLEAN, NEW out, out # "more", NEW doubts,
           NEW o \in Outcome(out, Released(preserve))
    PROVE  OutcomeOK(o, doubts) /\ o.ran = "none" /\ o.unsure = "none"
  BY ReleasedHome DEF Outcome, OutcomeOK, Home

LEMMA ContinueOK ==
    ASSUME NEW a \in AgentRecords, a.state # "FREE", NEW o \in Continue(a)
    PROVE  OutcomeOK(o, a.doubts) /\ o.ran = "none" /\ o.unsure = "none"
<1>1. CASE o \in Outcome("failed", Released(FALSE))
  BY <1>1, OutcomeOfReleased
<1>2. CASE o \in Outcome("more", {[a EXCEPT !.last = "user"]})
  <2>1. o = [out |-> "more", agent |-> [a EXCEPT !.last = "user"], ran |-> "none", unsure |-> "none"]
    BY <1>2 DEF Outcome
  <2>2. /\ o.agent = [a EXCEPT !.last = "user"] /\ o.out = "more" /\ o.ran = "none" /\ o.unsure = "none"
    BY <2>1
  <2>3. o.agent \in AgentRecords /\ o.agent.state = a.state /\ o.agent.doubts = a.doubts
    BY <2>2 DEF AgentRecords
  <2>. QED
    BY <2>1, <2>2, <2>3 DEF OutcomeOK
<1>. QED
  BY <1>1, <1>2 DEF Continue

\* What the agent's step may have executed and must remember.
StepOK(o, doubts) ==
    /\ OutcomeOK(o, doubts) /\ o.ran \notin doubts /\ o.unsure \in Uncertain \cup {"none"}
    /\ o.out = "more" => o.unsure = "none" \/ o.unsure \in o.agent.doubts

LEMMA PlainOutcome ==
    ASSUME NEW doubts \in SUBSET Uncertain, NEW o, OutcomeOK(o, doubts), o.ran = "none", o.unsure = "none"
    PROVE  StepOK(o, doubts)
  BY DEF StepOK, Uncertain

LEMMA ExecutedOK ==
    ASSUME NEW a \in AgentRecords, a.state # "FREE", NEW c \in Commands, NEW r, ResultOK(r, a.doubts),
           NEW o \in Executed(a, c, r)
    PROVE  StepOK(o, a.doubts)
<1>. DEFINE b == [a EXCEPT !.doubts = r.doubts, !.within = "none"]
<1>1. r \in Results /\ r.doubts \in SUBSET Uncertain /\ r.unsure \in Uncertain \cup {"none"}
      /\ r.ran \notin a.doubts /\ a.doubts \subseteq r.doubts
      /\ (r.unsure = "none" \/ r.unsure \in r.doubts)
  BY DEF ResultOK, Results
<1>2. b \in AgentRecords /\ b.state # "FREE" /\ b.doubts = r.doubts /\ b.repeated \in Nat
  BY <1>1 DEF AgentRecords
<1>. HIDE DEF b
<1>3. PICK p : /\ o = [p EXCEPT !.ran = r.ran, !.unsure = r.unsure]
               /\ \/ p \in Outcome("silent", Released(TRUE))
                  \/ p \in Outcome("more", {[b EXCEPT !.within = c]})
                  \/ p \in Continue(b)
                  \/ p \in Continue([b EXCEPT !.repeated = @ + 1])
                  \/ p \in Outcome("failed", Released(FALSE))
  BY Zenon DEF Executed, b
<1>4. OutcomeOK(p, r.doubts)
  <2>1. CASE p \in Outcome("silent", Released(TRUE)) \cup Outcome("failed", Released(FALSE))
    BY <2>1, OutcomeOfReleased
  <2>2. CASE p \in Outcome("more", {[b EXCEPT !.within = c]})
    <3>. DEFINE d == [b EXCEPT !.within = c]
    <3>1. d \in AgentRecords /\ d.state # "FREE" /\ d.doubts = r.doubts
      BY <1>2 DEF AgentRecords
    <3>. HIDE DEF d
    <3>2. p = [out |-> "more", agent |-> d, ran |-> "none", unsure |-> "none"]
      BY <2>2 DEF Outcome, d
    <3>. QED
      BY <3>1, <3>2 DEF OutcomeOK
  <2>3. CASE p \in Continue(b)
    BY <1>2, <2>3, ContinueOK
  <2>4. CASE p \in Continue([b EXCEPT !.repeated = @ + 1])
    <3>. DEFINE d == [b EXCEPT !.repeated = @ + 1]
    <3>1. b.repeated + 1 \in Nat
      BY <1>2
    <3>2. d \in AgentRecords /\ d.state # "FREE" /\ d.doubts = r.doubts
      BY <1>2, <3>1 DEF AgentRecords
    <3>. HIDE DEF d
    <3>3. p \in Continue(d)
      BY <2>4 DEF d
    <3>. QED
      BY <3>2, <3>3, ContinueOK
  <2>. QED
    BY <1>3, <2>1, <2>2, <2>3, <2>4
<1>5. o = [out |-> p.out, agent |-> p.agent, ran |-> r.ran, unsure |-> r.unsure]
  BY <1>3, <1>4 DEF OutcomeOK
<1>6. o.out = p.out /\ o.agent = p.agent /\ o.ran = r.ran /\ o.unsure = r.unsure
  BY <1>5
<1>7. OutcomeOK(o, r.doubts)
  BY <1>4, <1>5, <1>6 DEF OutcomeOK
<1>. QED
  BY <1>1, <1>6, <1>7 DEF StepOK, OutcomeOK

LEMMA AnswersOK ==
    ASSUME NEW a \in AgentRecords, a.state # "FREE", NEW o \in Answers(a)
    PROVE  StepOK(o, a.doubts)
<1>1. a.doubts \in SUBSET Uncertain
  BY DEF AgentRecords
<1>2. CASE o \in Continue(a)
  BY <1>1, <1>2, ContinueOK, PlainOutcome
<1>3. CASE \/ o \in Outcome("silent", Released(TRUE)) \/ o \in Outcome("text", Released(TRUE))
           \/ o \in Outcome("failed", Released(FALSE))
  BY <1>1, <1>3, OutcomeOfReleased, PlainOutcome
<1>4. CASE o \in Outcome("need", {[a EXCEPT !.state = "WAITING"]})
  <2>1. o = [out |-> "need", agent |-> [a EXCEPT !.state = "WAITING"], ran |-> "none", unsure |-> "none"]
    BY <1>4 DEF Outcome
  <2>2. o.agent = [a EXCEPT !.state = "WAITING"] /\ o.out = "need" /\ o.ran = "none" /\ o.unsure = "none"
    BY <2>1
  <2>3. o.agent \in AgentRecords /\ o.agent.state = "WAITING"
    BY <2>2 DEF AgentRecords
  <2>4. OutcomeOK(o, a.doubts)
    BY <2>1, <2>2, <2>3 DEF OutcomeOK
  <2>. QED
    BY <1>1, <2>2, <2>4, PlainOutcome
<1>5. CASE o \in Continue([a EXCEPT !.deferred = FALSE])
  <2>. DEFINE d == [a EXCEPT !.deferred = FALSE]
  <2>1. d \in AgentRecords /\ d.state # "FREE" /\ d.doubts = a.doubts
    BY DEF AgentRecords
  <2>. HIDE DEF d
  <2>2. o \in Continue(d)
    BY <1>5 DEF d
  <2>3. OutcomeOK(o, d.doubts) /\ o.ran = "none" /\ o.unsure = "none"
    BY <2>1, <2>2, ContinueOK
  <2>. QED
    BY <1>1, <2>1, <2>3, PlainOutcome
<1>6. CASE \E c \in Uncertain \cup {"partly"} : \E r \in Work(c, a.doubts) : o \in Executed(a, c, r)
  <2>1. PICK c \in Uncertain \cup {"partly"} : \E r \in Work(c, a.doubts) : o \in Executed(a, c, r)
    BY <1>6
  <2>2. PICK r \in Work(c, a.doubts) : o \in Executed(a, c, r)
    BY <2>1
  <2>3. c \in Commands
    BY DEF Commands
  <2>4. ResultOK(r, a.doubts)
    BY <1>1, <2>3, WorkResultOK
  <2>. QED
    BY <2>2, <2>3, <2>4, ExecutedOK
<1>7. \/ o \in Continue(a)
      \/ o \in Outcome("silent", Released(TRUE)) \/ o \in Outcome("text", Released(TRUE))
      \/ o \in Outcome("need", {[a EXCEPT !.state = "WAITING"]})
      \/ o \in IF a.deferred
               THEN Continue([a EXCEPT !.deferred = FALSE]) \cup Outcome("failed", Released(FALSE))
               ELSE UNION {UNION {Executed(a, c, r) : r \in Work(c, a.doubts)} :
                             c \in Uncertain \cup {"partly"}}
  BY Zenon DEF Answers
<1>8. ASSUME NEW S, o \in UNION {UNION {Executed(a, c, r) : r \in Work(c, a.doubts)} : c \in S}
      PROVE  \E c \in S : \E r \in Work(c, a.doubts) : o \in Executed(a, c, r)
  <2>1. PICK T \in {UNION {Executed(a, c, r) : r \in Work(c, a.doubts)} : c \in S} : o \in T
    BY <1>8
  <2>2. PICK c \in S : T = UNION {Executed(a, c, r) : r \in Work(c, a.doubts)}
    BY <2>1
  <2>3. PICK V \in {Executed(a, c, r) : r \in Work(c, a.doubts)} : o \in V
    BY <2>1, <2>2
  <2>. QED
    BY <2>3
<1>. QED
  BY <1>2, <1>3, <1>4, <1>5, <1>6, <1>7, <1>8, Zenon

\* Every step of a busy agent ends in an outcome that may be kept.
LEMMA AgentStepOK ==
    ASSUME NEW a \in AgentRecords, a.state # "FREE", NEW o \in AgentStep(a)
    PROVE  StepOK(o, a.doubts)
<1>1. a.doubts \in SUBSET Uncertain /\ a.within \in Commands \cup {"none"}
  BY DEF AgentRecords
<1>2. CASE o \in Outcome("raised", {a})
  <2>1. o = [out |-> "raised", agent |-> a, ran |-> "none", unsure |-> "none"]
    BY <1>2 DEF Outcome
  <2>2. OutcomeOK(o, a.doubts) /\ o.ran = "none" /\ o.unsure = "none"
    BY <2>1 DEF OutcomeOK
  <2>. QED
    BY <1>1, <2>2, PlainOutcome
<1>3. CASE a.within # "none" /\ \E r \in Resumed(a.within, a.doubts) : o \in Executed(a, a.within, r)
  BY <1>1, <1>3, ResumedOK, ExecutedOK
<1>4. CASE o \in Outcome("failed", Released(FALSE))
  BY <1>1, <1>4, OutcomeOfReleased, PlainOutcome
<1>5. CASE o \in Answers([a EXCEPT !.used = @ + 1, !.last = "assistant"])
  <2>. DEFINE d == [a EXCEPT !.used = @ + 1, !.last = "assistant"]
  <2>1. a.used \in Nat
    BY DEF AgentRecords
  <2>2. a.used + 1 \in Nat
    BY <2>1
  <2>3. d \in AgentRecords /\ d.state # "FREE" /\ d.doubts = a.doubts
    BY <2>2 DEF AgentRecords
  <2>. HIDE DEF d
  <2>4. o \in Answers(d)
    BY <1>5 DEF d
  <2>. QED
    BY <2>3, <2>4, AnswersOK
<1>. QED
  BY <1>2, <1>3, <1>4, <1>5 DEF AgentStep

LEMMA ManagerSays ==
    ASSUME NEW m \in ManagerRecords
    PROVE  \A n \in {Heard(m), ResetToBase(m), AbortContext(m), [m EXCEPT !.last = "assistant"]} :
              n \in ManagerRecords /\ n.doubts = m.doubts
<1>1. FALSE \in BOOLEAN
  OBVIOUS
<1>2. Heard(m) \in ManagerRecords /\ Heard(m).doubts = m.doubts
  BY DEF Heard, ManagerRecords
<1>3. ResetToBase(m) \in ManagerRecords /\ ResetToBase(m).doubts = m.doubts
  BY DEF ResetToBase, ManagerRecords
<1>4. AbortContext(m) \in ManagerRecords /\ AbortContext(m).doubts = m.doubts
  BY <1>1 DEF AbortContext, ManagerRecords
<1>5. [m EXCEPT !.last = "assistant"] \in ManagerRecords /\ [m EXCEPT !.last = "assistant"].doubts = m.doubts
  BY DEF ManagerRecords
<1>. QED
  BY <1>2, <1>3, <1>4, <1>5

\* What one move of the dialogue leaves: its doubts are kept and no agent is taken.
Dialogue(m) ==
    /\ manager' \in ManagerRecords /\ manager'.doubts = m.doubts
    /\ turn' \in TurnRecords /\ turn'.at # "oneshot"

LEMMA NoTurnOK == NoTurn \in TurnRecords /\ NoTurn.at = "none"
  BY DEF NoTurn, TurnRecords

LEMMA AskMoves ==
    ASSUME NEW m \in ManagerRecords, NEW n \in Nat, Ask(m, n)
    PROVE  Dialogue(m)
<1>1. CASE Ends(AbortContext(m))
  <2>1. manager' = AbortContext(m) /\ turn' = NoTurn
    BY <1>1 DEF Ends
  <2>. QED
    BY <2>1, NoTurnOK, ManagerSays DEF Dialogue
<1>2. CASE \E s \in Says : /\ manager' = [m EXCEPT !.last = "assistant"]
                           /\ turn' = [at |-> "said", said |-> s, calls |-> n]
  <2>1. turn' \in TurnRecords /\ turn'.at = "said"
    BY <1>2 DEF TurnRecords
  <2>2. manager' = [m EXCEPT !.last = "assistant"]
    BY <1>2
  <2>. QED
    BY <2>1, <2>2, ManagerSays DEF Dialogue
<1>. QED
  BY <1>1, <1>2 DEF Ask

LEMMA EndsMoves ==
    ASSUME NEW m \in ManagerRecords, NEW n \in ManagerRecords, n.doubts = m.doubts, Ends(n)
    PROVE  Dialogue(m)
  BY NoTurnOK DEF Ends, Dialogue

LEMMA GoesMoves ==
    ASSUME TurnInv, NEW m \in ManagerRecords, NEW n \in ManagerRecords, n.doubts = m.doubts,
           NEW at \in {"none", "said", "ask", "within", "wait", "oneshot"}, Goes(n, at)
    PROVE  /\ manager' \in ManagerRecords /\ manager'.doubts = m.doubts
           /\ turn' \in TurnRecords /\ turn'.at = at
<1>1. turn \in TurnRecords
  BY DEF TurnInv
<1>2. turn' = [turn EXCEPT !.at = at] /\ manager' = n
  BY DEF Goes
<1>. QED
  BY <1>1, <1>2 DEF TurnRecords

LEMMA ResultMoves ==
    ASSUME TurnInv, NEW m \in ManagerRecords, NEW silent \in BOOLEAN, Result(silent, m)
    PROVE  Dialogue(m)
<1>1. CASE silent
  BY <1>1, EndsMoves, ManagerSays DEF Result
<1>2. CASE ~silent
  <2>1. Goes(Heard(m), "ask")
    BY <1>2 DEF Result
  <2>2. Heard(m) \in ManagerRecords /\ Heard(m).doubts = m.doubts
    BY ManagerSays
  <2>. QED
    BY <2>1, <2>2, GoesMoves DEF Dialogue
<1>. QED
  BY <1>1, <1>2

\* A move of the dialogue beside a free or autonomously working agent.
LEMMA DialogueKeeps ==
    ASSUME TurnInv, turn.at # "oneshot", Dialogue(manager), UNCHANGED <<agent, activation, doubt, replayed>>
    PROVE  TurnInv'
  BY DEF TurnInv, Dialogue, AgentComesHome, DoubtfulNotRepeated

LEMMA SpeakingKeeps ==
    ASSUME TurnInv,
           \/ \E text \in {"plain", "chat", "end"} : UserMessage(text)
           \/ QueryResult \/ AskAgain \/ Directive \/ NewSession
    PROVE  TurnInv'
<1>1. manager \in ManagerRecords /\ turn \in TurnRecords /\ turn.calls \in Nat /\ turn.calls + 1 \in Nat
  BY DEF TurnInv, TurnRecords
<1>2. ASSUME turn.at # "oneshot", NEW m, m.doubts = {}, Dialogue(m),
             UNCHANGED <<agent, activation, replayed>>, doubt' = [doubt EXCEPT !.turn = {}]
      PROVE  TurnInv'
  <2>1. doubt' \in [turn : SUBSET Uncertain, activation : SUBSET Uncertain] /\ doubt'.turn = {}
        /\ doubt'.activation = doubt.activation
    BY <1>2 DEF TurnInv
  <2>. QED
    BY <1>2, <2>1 DEF TurnInv, Dialogue, AgentComesHome, DoubtfulNotRepeated
<1>3. ASSUME NEW text \in {"plain", "chat", "end"}, UserMessage(text)
      PROVE  TurnInv'
  <2>. DEFINE m == [Heard(manager) EXCEPT !.doubts = {},
                                          !.chat = @ \/ text = "chat",
                                          !.closing = text = "end" \/ (@ /\ text # "chat")]
  <2>1. Heard(manager) \in ManagerRecords
    BY <1>1, ManagerSays
  <2>2. m \in ManagerRecords /\ m.doubts = {}
    BY <2>1 DEF ManagerRecords
  <2>3. Ask(m, 1) /\ turn = NoTurn /\ doubt' = [doubt EXCEPT !.turn = {}]
        /\ UNCHANGED <<agent, activation, replayed>>
    BY <1>3, Zenon DEF UserMessage
  <2>. HIDE DEF m
  <2>. QED
    BY <1>2, <2>2, <2>3, AskMoves, NoTurnOK
<1>4. CASE QueryResult
  <2>1. Heard(manager) \in ManagerRecords /\ Heard(manager).doubts = manager.doubts
    BY <1>1, ManagerSays
  <2>. QED
    BY <1>4, <2>1, AskMoves, DialogueKeeps, NoTurnOK DEF QueryResult, Dialogue
<1>5. CASE AskAgain
  BY <1>1, <1>5, AskMoves, DialogueKeeps DEF AskAgain
<1>6. CASE Directive
  <2>1. CASE Goes(Heard(manager), "ask")
    <3>1. Heard(manager) \in ManagerRecords /\ Heard(manager).doubts = manager.doubts
      BY <1>1, ManagerSays
    <3>2. Dialogue(manager)
      BY <1>1, <2>1, <3>1, GoesMoves DEF Dialogue
    <3>. QED
      BY <1>6, <3>2, DialogueKeeps DEF Directive
  <2>2. CASE Ask(Heard(manager), turn.calls + 1)
    <3>1. Heard(manager) \in ManagerRecords /\ Heard(manager).doubts = manager.doubts
      BY <1>1, ManagerSays
    <3>2. Dialogue(manager)
      BY <1>1, <2>2, <3>1, AskMoves DEF Dialogue
    <3>. QED
      BY <1>6, <3>2, DialogueKeeps DEF Directive
  <2>3. CASE Ends(manager) \/ Ends(AbortContext(manager)) \/ Ends(ResetToBase(manager))
    <3>1. Dialogue(manager)
      BY <1>1, <2>3, EndsMoves, ManagerSays
    <3>. QED
      BY <1>6, <3>1, DialogueKeeps DEF Directive
  <2>. QED
    BY <1>6, <2>1, <2>2, <2>3 DEF Directive
<1>7. CASE NewSession
  <2>. DEFINE m == [AbortContext(manager) EXCEPT !.doubts = {}]
  <2>1. m \in ManagerRecords /\ m.doubts = {}
    BY <1>1, ManagerSays DEF ManagerRecords
  <2>2. manager' = m /\ turn = NoTurn /\ UNCHANGED turn
    BY <1>7 DEF NewSession
  <2>3. Dialogue(m)
    BY <2>1, <2>2, NoTurnOK DEF Dialogue
  <2>. HIDE DEF m
  <2>. QED
    BY <1>2, <1>7, <2>1, <2>2, <2>3, NoTurnOK DEF NewSession
<1>. QED
  BY <1>3, <1>4, <1>5, <1>6, <1>7

LEMMA RememberOK ==
    ASSUME TurnInv, NEW known \in SUBSET Uncertain, NEW who \in {"turn", "activation"},
           NEW r, r.ran \notin known, r.unsure \in Uncertain \cup {"none"}, Remember(who, known, r)
    PROVE  /\ DoubtfulNotRepeated'
           /\ doubt' \in [turn : SUBSET Uncertain, activation : SUBSET Uncertain]
           /\ doubt'[who] = known \cup ({r.unsure} \ {"none"})
           /\ who = "turn" => doubt'.activation = doubt.activation
           /\ who = "activation" => doubt'.turn = doubt.turn
<1>1. doubt' = [doubt EXCEPT ![who] = known \cup ({r.unsure} \ {"none"})]
      /\ doubt \in [turn : SUBSET Uncertain, activation : SUBSET Uncertain]
  BY DEF Remember, TurnInv
<1>2. known \cup ({r.unsure} \ {"none"}) \in SUBSET Uncertain
  OBVIOUS
<1>3. DoubtfulNotRepeated'
  BY DEF Remember, TurnInv, DoubtfulNotRepeated
<1>. QED
  BY <1>1, <1>2, <1>3

LEMMA CommandingKeeps ==
    ASSUME TurnInv, ManagerCommand
    PROVE  TurnInv'
<1>1. /\ manager \in ManagerRecords /\ manager.doubts \in SUBSET Uncertain
      /\ doubt.turn \in SUBSET Uncertain /\ doubt.turn \subseteq manager.doubts
      /\ turn.said \in Commands /\ turn.at \in {"said", "within"}
  BY DEF TurnInv, ManagerCommand, ManagerRecords
<1>2. PICK r \in IF turn.at = "said" THEN Work(turn.said, manager.doubts)
                 ELSE Resumed(turn.said, manager.doubts) :
          /\ LET m == [manager EXCEPT !.doubts = r.doubts]
             IN  IF r.next \in Commands THEN Goes(m, "within") ELSE Result(r.next = "silent", m)
          /\ Remember("turn", doubt.turn, r)
  BY DEF ManagerCommand
<1>. DEFINE m == [manager EXCEPT !.doubts = r.doubts]
<1>3. ResultOK(r, manager.doubts)
  BY <1>1, WorkResultOK, ResumedOK
<1>4. /\ r.doubts \in SUBSET Uncertain /\ r.ran \notin doubt.turn /\ r.unsure \in Uncertain \cup {"none"}
      /\ manager.doubts \subseteq r.doubts /\ (r.unsure = "none" \/ r.unsure \in r.doubts)
  BY <1>1, <1>3 DEF ResultOK, Results
<1>5. m \in ManagerRecords /\ m.doubts = r.doubts
  BY <1>1, <1>4 DEF ManagerRecords
<1>6. IF r.next \in Commands THEN Goes(m, "within") ELSE Result(r.next = "silent", m)
  BY <1>2
<1>. HIDE DEF m
<1>7. Dialogue(m)
  <2>1. CASE Goes(m, "within")
    BY <1>5, <2>1, GoesMoves DEF Dialogue
  <2>2. CASE Result(r.next = "silent", m)
    BY <1>5, <2>2, ResultMoves
  <2>. QED
    BY <1>6, <2>1, <2>2
<1>8. /\ DoubtfulNotRepeated' /\ doubt'.activation = doubt.activation
      /\ doubt' \in [turn : SUBSET Uncertain, activation : SUBSET Uncertain]
      /\ doubt'["turn"] = doubt.turn \cup ({r.unsure} \ {"none"})
  BY <1>1, <1>2, <1>4, RememberOK
<1>9. doubt'.turn \subseteq manager'.doubts
  BY <1>1, <1>4, <1>5, <1>7, <1>8 DEF Dialogue
<1>10. UNCHANGED <<agent, activation>>
  BY DEF ManagerCommand
<1>. QED
  BY <1>1, <1>7, <1>8, <1>9, <1>10 DEF TurnInv, Dialogue, AgentComesHome

LEMMA AskingKeeps ==
    ASSUME TurnInv, SetUpExternalTask \/ WaitForAgent
    PROVE  TurnInv'
<1>1. manager \in ManagerRecords /\ turn.at # "oneshot"
  BY DEF TurnInv, SetUpExternalTask, WaitForAgent
<1>2. CASE SetUpExternalTask
  <2>1. Heard(manager) \in ManagerRecords /\ Heard(manager).doubts = manager.doubts
    BY <1>1, ManagerSays
  <2>2. Dialogue(manager)
    BY <1>1, <1>2, <2>1, GoesMoves DEF SetUpExternalTask, Dialogue
  <2>3. CASE UNCHANGED agent
    BY <1>1, <1>2, <2>2, <2>3, DialogueKeeps DEF SetUpExternalTask
  <2>4. CASE agent.state = "FREE" /\ agent' \in PlanFirstCommand
    <3>1. agent' \in AgentRecords /\ Home(agent')
      BY <2>4, ReleasedHome DEF PlanFirstCommand
    <3>2. UNCHANGED <<activation, doubt, replayed>>
      BY <1>2 DEF SetUpExternalTask
    <3>. QED
      BY <1>1, <2>2, <2>4, <3>1, <3>2 DEF TurnInv, Dialogue, AgentComesHome, DoubtfulNotRepeated, Home
  <2>. QED
    BY <1>2, <2>3, <2>4 DEF SetUpExternalTask
<1>3. CASE WaitForAgent
  <2>1. Dialogue(manager)
    BY <1>1, <1>3, GoesMoves DEF WaitForAgent, Dialogue
  <2>. QED
    BY <1>1, <1>3, <2>1, DialogueKeeps DEF WaitForAgent
<1>. QED
  BY <1>2, <1>3

LEMMA BeginsOK ==
    ASSUME NEW method \in {"task", "query"}, NEW a \in {BeginWork(method), BeginWithToolResult(method)}
    PROVE  a \in AgentRecords /\ a.state # "FREE" /\ a.doubts = {}
<1>1. "none" \in Commands \cup {"none"} /\ {} \in SUBSET Uncertain
  OBVIOUS
<1>2. BeginWork(method) \in AgentRecords /\ BeginWork(method).state = "RUNNING"
      /\ BeginWork(method).doubts = {}
  BY <1>1 DEF BeginWork, Asleep, AgentRecords
<1>3. /\ BeginWithToolResult(method) \in AgentRecords /\ BeginWithToolResult(method).state = "RUNNING"
      /\ BeginWithToolResult(method).doubts = {}
  BY <1>2 DEF BeginWithToolResult, AgentRecords
<1>. QED
  BY <1>2, <1>3

LEMMA OneShotKeeps ==
    ASSUME TurnInv, OneShot
    PROVE  TurnInv'
<1>. DEFINE starts == turn.at \in {"said", "wait"} /\ agent.state = "FREE"
            a == IF starts THEN BeginWork("query") ELSE agent
            known == IF starts THEN {} ELSE doubt.activation
<1>1. /\ starts \/ turn.at = "oneshot"
      /\ manager \in ManagerRecords /\ doubt.turn \subseteq manager.doubts
      /\ doubt.activation \in SUBSET Uncertain
  BY DEF OneShot, TurnInv
<1>2. a \in AgentRecords /\ a.state # "FREE" /\ known \in SUBSET Uncertain /\ known \subseteq a.doubts
      /\ ~activation
  <2>1. CASE starts
    BY <2>1, BeginsOK DEF TurnInv, AgentComesHome
  <2>2. CASE ~starts
    BY <1>1, <2>2 DEF TurnInv, AgentComesHome
  <2>. QED
    BY <2>1, <2>2
<1>3. PICK r \in AgentStep(a) :
         /\ Remember("activation", known, r)
         /\ IF r.agent.state = "FREE" \/ r.out = "more" THEN agent' = r.agent
            ELSE agent' \in Released(TRUE)
         /\ \/ r.out = "more" /\ Goes(manager, "oneshot")
            \/ r.out # "more" /\ Result(r.out = "silent", manager)
            \/ r.out = "raised" /\ Ends(AbortContext(manager))
  BY DEF OneShot
<1>4. UNCHANGED activation
  BY DEF OneShot
<1>. HIDE DEF a, known, starts
<1>5. StepOK(r, a.doubts)
  BY <1>2, AgentStepOK
<1>6. /\ OutcomeOK(r, a.doubts) /\ r.ran \notin known /\ r.unsure \in Uncertain \cup {"none"}
      /\ r.out = "more" => r.unsure = "none" \/ r.unsure \in r.agent.doubts
  BY <1>2, <1>5 DEF StepOK
<1>7. /\ DoubtfulNotRepeated' /\ doubt'.turn = doubt.turn
      /\ doubt' \in [turn : SUBSET Uncertain, activation : SUBSET Uncertain]
      /\ doubt'["activation"] = known \cup ({r.unsure} \ {"none"})
  BY <1>2, <1>3, <1>6, RememberOK
<1>8. CASE r.out = "more"
  <2>1. /\ manager' \in ManagerRecords /\ manager'.doubts = manager.doubts
        /\ turn' \in TurnRecords /\ turn'.at = "oneshot"
    BY <1>1, <1>3, <1>8, GoesMoves
  <2>2. agent' \in AgentRecords /\ agent'.state # "FREE" /\ a.doubts \subseteq agent'.doubts
        /\ (r.unsure = "none" \/ r.unsure \in agent'.doubts)
    BY <1>3, <1>6, <1>8 DEF OutcomeOK
  <2>3. doubt'.activation \subseteq agent'.doubts
    BY <1>2, <1>7, <2>2
  <2>. QED
    BY <1>1, <1>2, <1>4, <1>7, <2>1, <2>2, <2>3 DEF TurnInv, AgentComesHome
<1>9. CASE r.out # "more"
  <2>1. Dialogue(manager)
    BY <1>1, <1>3, <1>9, ResultMoves, EndsMoves, ManagerSays
  <2>2. agent' \in AgentRecords /\ Home(agent')
    <3>1. CASE r.agent.state = "FREE"
      BY <1>3, <1>6, <3>1 DEF OutcomeOK
    <3>2. CASE r.agent.state # "FREE"
      BY <1>3, <1>9, <3>2, ReleasedHome
    <3>. QED
      BY <3>1, <3>2
  <2>. QED
    BY <1>1, <1>2, <1>4, <1>7, <2>1, <2>2 DEF TurnInv, Dialogue, AgentComesHome, Home
<1>. QED
  BY <1>8, <1>9

LEMMA ClosingTurnKeeps ==
    ASSUME TurnInv, CloseTurn
    PROVE  TurnInv'
<1>1. manager \in ManagerRecords
  BY DEF TurnInv
<1>2. Dialogue(manager)
  BY <1>1, EndsMoves, ManagerSays DEF CloseTurn
<1>3. CASE turn.at = "oneshot"
  <2>1. agent' \in AgentRecords /\ Home(agent')
    BY <1>3, ReleasedHome DEF CloseTurn
  <2>2. doubt' \in [turn : SUBSET Uncertain, activation : SUBSET Uncertain] /\ doubt'.turn = doubt.turn
    BY <1>3 DEF CloseTurn, TurnInv
  <2>3. UNCHANGED <<activation, replayed>>
    BY DEF CloseTurn
  <2>. QED
    BY <1>2, <1>3, <2>1, <2>2, <2>3 DEF TurnInv, Dialogue, AgentComesHome, DoubtfulNotRepeated, Home
<1>4. CASE turn.at # "oneshot"
  BY <1>2, <1>4, DialogueKeeps DEF CloseTurn
<1>. QED
  BY <1>3, <1>4

LEMMA AutonomousKeeps ==
    ASSUME TurnInv,
           \/ \E method \in {"task", "query"} : BeginAutonomousTask(method) \/ ResumeMqttTask(method)
           \/ StepAutonomousTask \/ StopAutonomousTask
    PROVE  TurnInv'
<1>1. ASSUME NEW a \in AgentRecords, a.state # "FREE", a.doubts = {}, CanBeginAutonomousTask, Activate(a)
      PROVE  TurnInv'
  <2>1. /\ doubt' \in [turn : SUBSET Uncertain, activation : SUBSET Uncertain]
        /\ doubt'.turn = doubt.turn /\ doubt'.activation = {}
    BY <1>1 DEF Activate, TurnInv
  <2>2. agent' = a /\ activation' = TRUE /\ UNCHANGED <<manager, turn, replayed>>
    BY <1>1 DEF Activate
  <2>. QED
    BY <1>1, <2>1, <2>2 DEF TurnInv, CanBeginAutonomousTask, AgentComesHome, DoubtfulNotRepeated
<1>2. CASE \E method \in {"task", "query"} : BeginAutonomousTask(method) \/ ResumeMqttTask(method)
  BY <1>1, <1>2, BeginsOK DEF BeginAutonomousTask, ResumeMqttTask
<1>3. CASE StepAutonomousTask
  <2>1. PICK r \in AgentStep(agent) :
          /\ Remember("activation", doubt.activation, r)
          /\ IF r.out \in {"need", "raised"} THEN agent' \in Released(TRUE) ELSE agent' = r.agent
          /\ activation' = (r.out = "more")
    BY <1>3 DEF StepAutonomousTask
  <2>2. /\ agent \in AgentRecords /\ agent.state # "FREE" /\ doubt.activation \in SUBSET Uncertain
        /\ doubt.activation \subseteq agent.doubts /\ UNCHANGED <<manager, turn>>
        /\ turn.at # "oneshot"
    BY <1>3 DEF StepAutonomousTask, TurnInv, AgentComesHome
  <2>3. /\ OutcomeOK(r, agent.doubts) /\ r.ran \notin doubt.activation /\ r.unsure \in Uncertain \cup {"none"}
        /\ r.out = "more" => r.unsure = "none" \/ r.unsure \in r.agent.doubts
    BY <2>2, AgentStepOK DEF StepOK
  <2>4. /\ DoubtfulNotRepeated' /\ doubt'.turn = doubt.turn
        /\ doubt' \in [turn : SUBSET Uncertain, activation : SUBSET Uncertain]
        /\ doubt'["activation"] = doubt.activation \cup ({r.unsure} \ {"none"})
    BY <2>1, <2>2, <2>3, RememberOK
  <2>5. agent' \in AgentRecords
        /\ (r.out = "more" => /\ agent'.state # "FREE" /\ agent.doubts \subseteq agent'.doubts
                              /\ (r.unsure = "none" \/ r.unsure \in agent'.doubts))
        /\ (r.out # "more" => Home(agent'))
    BY <2>1, <2>3, ReleasedHome DEF OutcomeOK
  <2>6. r.out = "more" => doubt'.activation \subseteq agent'.doubts
    BY <2>2, <2>4, <2>5
  <2>7. activation' \in BOOLEAN /\ (activation' <=> r.out = "more")
    BY <2>1
  <2>. QED
    BY <2>2, <2>4, <2>5, <2>6, <2>7 DEF TurnInv, AgentComesHome, Home
<1>4. CASE StopAutonomousTask
  <2>1. agent' \in AgentRecords /\ Home(agent')
    BY <1>4, ReleasedHome DEF StopAutonomousTask
  <2>. QED
    BY <1>4, <2>1 DEF StopAutonomousTask, TurnInv, AgentComesHome, DoubtfulNotRepeated, Home
<1>. QED
  BY <1>2, <1>3, <1>4

LEMMA TurnInvariance == TurnSpec => []TurnInv
<1>1. TurnInit => TurnInv
  <2>. SUFFICES ASSUME TurnInit PROVE TurnInv
    OBVIOUS
  <2>1. manager \in ManagerRecords /\ manager.doubts = {}
    <3>1. PICK a \in {"person", "answers"} :
            manager = [last |-> "system", chat |-> FALSE, closing |-> FALSE, doubts |-> {}, audience |-> a]
      BY DEF TurnInit
    <3>2. FALSE \in BOOLEAN /\ {} \in SUBSET Uncertain
      OBVIOUS
    <3>. QED
      BY <3>1, <3>2 DEF ManagerRecords
  <2>2. "none" \in Commands \cup {"none"} /\ {} \in SUBSET Uncertain
    OBVIOUS
  <2>3. Asleep \in AgentRecords /\ Home(Asleep)
    BY <2>2 DEF Asleep, AgentRecords, Home
  <2>. QED
    BY <2>1, <2>3, NoTurnOK DEF TurnInit, TurnInv, AgentComesHome, DoubtfulNotRepeated, Home
<1>2. TurnInv /\ [TurnNext]_turnVars => TurnInv'
  <2>. SUFFICES ASSUME TurnInv, [TurnNext]_turnVars PROVE TurnInv'
    OBVIOUS
  <2>1. CASE UNCHANGED turnVars
    BY <2>1 DEF turnVars, TurnInv, AgentComesHome, DoubtfulNotRepeated
  <2>. QED
    BY <2>1, SpeakingKeeps, CommandingKeeps, AskingKeeps, OneShotKeeps, ClosingTurnKeeps,
       AutonomousKeeps DEF TurnNext
<1>. QED
  BY <1>1, <1>2, PTL DEF TurnSpec

\* However turns and activations interleave, fail or are closed, the agent is busy exactly
\* while one of them holds it, and then home with its base or nothing.
THEOREM AgentComesHomeProved == TurnSpec => []AgentComesHome
<1>1. TurnInv => AgentComesHome
  BY DEF TurnInv
<1>. QED
  BY <1>1, TurnInvariance, PTL

\* A command of unknown outcome is never executed again by the activation that ran it,
\* nor by the manager before a person speaks.
THEOREM DoubtfulNotRepeatedProved == TurnSpec => []DoubtfulNotRepeated
<1>1. TurnInv => DoubtfulNotRepeated
  BY DEF TurnInv
<1>. QED
  BY <1>1, TurnInvariance, PTL

-----------------------------------------------------------------------------
(* ModelRequests.                                                          *)

Requests == {"template", "tokenize", "warm", "complete", "stream"}
CallRecords == [state : {"idle", "busy", "returned", "failed"}, todo : Seq(Requests), attempt : Nat,
                content : Seq(Nat \X Nat)]

AnswerRequest == IF model.handler THEN "stream" ELSE "complete"
Plans == {<<"template", AnswerRequest>>, <<AnswerRequest>>, <<"template", "tokenize", "warm">>,
          <<"tokenize", "warm">>, <<"warm">>}

\* The first n pieces of the answer to a request.
Part(request, n) == [i \in 1..n |-> <<request, i>>]

\* A stream has shown what it has received, all of it from the request that is open;
\* before the request that answers nothing is received, and nothing shown.
RequestInv ==
    /\ call \in CallRecords /\ posts \in Nat
    /\ model \in [kind : {"llama", "openai"}, handler : BOOLEAN, base : {0, 1}, resident : {0, 1, 2}]
    /\ call.state = "busy" =>
          /\ call.todo \in Plans
          /\ Step # "stream" => call.content = <<>>
          /\ call.todo = <<AnswerRequest>> => screen = call.content
          /\ call.content = Part(posts, Len(call.content)) /\ Len(call.content) <= Pieces
          /\ call.attempt # 0 => call.content = <<>>
    /\ ShownIsTheAnswer

LEMMA Parts_ ==
    ASSUME NEW request \in Nat
    PROVE  /\ \A n \in Nat : /\ Part(request, n) \in Seq(Nat \X Nat) /\ Len(Part(request, n)) = n
                             /\ Append(Part(request, n), <<request, n + 1>>) = Part(request, n + 1)
           /\ Part(request, 0) = <<>> /\ Part(request, Pieces) = Whole(request)
<1>1. ASSUME NEW n \in Nat
      PROVE  /\ Part(request, n) \in Seq(Nat \X Nat) /\ Len(Part(request, n)) = n
             /\ Append(Part(request, n), <<request, n + 1>>) = Part(request, n + 1)
  <2>1. Part(request, n) \in Seq(Nat \X Nat) /\ Len(Part(request, n)) = n
    BY DEF Part
  <2>2. Append(Part(request, n), <<request, n + 1>>) = Part(request, n + 1)
    BY DEF Part
  <2>. QED
    BY <2>1, <2>2
<1>2. Part(request, 0) = <<>>
  BY DEF Part
<1>3. Part(request, Pieces) = Whole(request)
  BY DEF Part, Whole
<1>. QED
  BY <1>1, <1>2, <1>3

\* A call in a state that is not under way has nothing to keep but its answer.
LEMMA EndedKeeps ==
    ASSUME RequestInv, NEW state \in {"returned", "failed"}, NEW content \in Seq(Nat \X Nat),
           CallEnds(state, content), posts' \in Nat,
           model' \in [kind : {"llama", "openai"}, handler : BOOLEAN, base : {0, 1}, resident : {0, 1, 2}],
           state = "returned" /\ content # <<>> =>
              /\ model'.handler => screen' = content
              /\ \A i \in DOMAIN content : content[i] = <<posts', i>>
              /\ model'.kind = "llama" => content = Whole(posts')
    PROVE  RequestInv'
<1>1. call' \in CallRecords /\ call'.state = state /\ call'.content = content
  <2>1. call \in CallRecords /\ <<>> \in Seq(Requests)
    BY DEF RequestInv
  <2>. QED
    BY <2>1 DEF CallEnds, CallRecords
<1>. QED
  BY <1>1 DEF RequestInv, ShownIsTheAnswer

LEMMA RaisesKeeps == RequestInv /\ Raises /\ posts' \in Nat => RequestInv'
<1>. SUFFICES ASSUME RequestInv, Raises, posts' \in Nat PROVE RequestInv'
  OBVIOUS
<1>1. call.content \in Seq(Nat \X Nat) /\ CallEnds("failed", call.content) /\ UNCHANGED model
  BY DEF Raises, RequestInv, CallRecords
<1>. QED
  BY <1>1, EndedKeeps DEF RequestInv

LEMMA StartsKeeps ==
    ASSUME RequestInv, Chat \/ PreparePrefix
    PROVE  RequestInv'
<1>1. ASSUME NEW todo, todo \in Plans, todo \in Seq(Requests), Starts(todo),
             todo = <<AnswerRequest>> => model.kind = "openai"
      PROVE  RequestInv'
  <2>1. <<>> \in Seq(Nat \X Nat) /\ <<>> \in Seq(Requests) /\ Len(<<>>) = 0
    OBVIOUS
  <2>2. /\ call' \in CallRecords /\ call'.state = "busy" /\ call'.todo = todo /\ call'.content = <<>>
    BY <1>1, <2>1 DEF Starts, Idle, CallRecords
  <2>3. /\ UNCHANGED <<model, posts>>
        /\ model.kind = "openai" => screen' = <<>>
    BY <1>1 DEF Starts
  <2>4. posts \in Nat /\ Part(posts, 0) = <<>> /\ 0 <= Pieces
    BY Parts_, RequestConstants DEF RequestInv
  <2>5. Plans' = Plans /\ AnswerRequest' = AnswerRequest
    <3>1. model' = model
      BY <2>3
    <3>2. AnswerRequest' = AnswerRequest
      BY <3>1 DEF AnswerRequest
    <3>. QED
      BY <3>2 DEF Plans
  <2>6. /\ call'.content = Part(posts', Len(call'.content)) /\ Len(call'.content) <= Pieces
        /\ call'.todo = <<AnswerRequest'>> => screen' = call'.content
    BY <1>1, <2>1, <2>2, <2>3, <2>4, <2>5
  <2>. QED
    BY <1>1, <2>2, <2>3, <2>5, <2>6 DEF RequestInv, ShownIsTheAnswer
<1>2. CASE PreparePrefix
  <2>1. /\ <<"template", "tokenize", "warm">> \in Plans /\ <<"template", "tokenize", "warm">> \in Seq(Requests)
        /\ <<"template", "tokenize", "warm">> # <<AnswerRequest>>
    BY DEF Plans, Requests
  <2>. QED
    BY <1>1, <1>2, <2>1 DEF PreparePrefix
<1>3. CASE Chat
  <2>1. AnswerRequest \in {"stream", "complete"} /\ model.kind \in {"llama", "openai"}
    BY DEF AnswerRequest, RequestInv
  <2>2. Starts(IF model.kind = "llama" THEN <<"template", AnswerRequest>> ELSE <<AnswerRequest>>)
    BY <1>3, Zenon DEF Chat, AnswerRequest
  <2>3. /\ <<"template", AnswerRequest>> \in Plans /\ <<"template", AnswerRequest>> \in Seq(Requests)
        /\ <<AnswerRequest>> \in Plans /\ <<AnswerRequest>> \in Seq(Requests)
        /\ <<"template", AnswerRequest>> # <<AnswerRequest>>
    BY <2>1 DEF Plans, Requests
  <2>. QED
    BY <1>1, <2>1, <2>2, <2>3
<1>. QED
  BY <1>2, <1>3

LEMMA StepsOfPlans ==
    ASSUME RequestInv, call.state = "busy"
    PROVE  /\ Step \in {"stream", "complete"} => call.todo = <<AnswerRequest>> /\ AnswerRequest = Step
           /\ Step \in {"template", "tokenize"} => Tail(call.todo) \in Plans /\ Tail(call.todo) \in Seq(Requests)
           /\ AnswerRequest \in {"stream", "complete"}
<1>1. AnswerRequest \in {"stream", "complete"} /\ call.todo \in Plans
  BY DEF AnswerRequest, RequestInv
<1>2. CASE call.todo = <<"template", AnswerRequest>>
  <2>1. <<AnswerRequest>> \in Plans /\ <<AnswerRequest>> \in Seq(Requests)
    BY <1>1 DEF Plans, Requests
  <2>2. Step = "template" /\ Tail(call.todo) = <<AnswerRequest>>
    BY <1>2 DEF Step
  <2>. QED
    BY <1>1, <2>1, <2>2
<1>3. CASE call.todo = <<AnswerRequest>>
  BY <1>1, <1>3 DEF Step
<1>4. CASE call.todo = <<"template", "tokenize", "warm">>
  <2>1. <<"tokenize", "warm">> \in Plans /\ <<"tokenize", "warm">> \in Seq(Requests)
    BY <1>1 DEF Plans, Requests
  <2>2. Step = "template" /\ Tail(call.todo) = <<"tokenize", "warm">>
    BY <1>4 DEF Step
  <2>. QED
    BY <1>1, <2>1, <2>2
<1>5. CASE call.todo = <<"tokenize", "warm">>
  <2>1. <<"warm">> \in Plans /\ <<"warm">> \in Seq(Requests)
    BY <1>1 DEF Plans, Requests
  <2>2. Step = "tokenize" /\ Tail(call.todo) = <<"warm">>
    BY <1>5 DEF Step
  <2>. QED
    BY <1>1, <2>1, <2>2
<1>6. CASE call.todo = <<"warm">>
  BY <1>1, <1>6 DEF Step
<1>. QED
  BY <1>1, <1>2, <1>3, <1>4, <1>5, <1>6 DEF Plans

\* A call that goes on, with a request it still has to make.
LEMMA GoingOnKeeps ==
    ASSUME RequestInv, UNCHANGED model, posts' \in Nat, call' \in CallRecords, call'.state = "busy",
           call'.todo \in Plans,
           \/ call'.content = <<>>
           \/ call'.attempt = 0 /\ call'.content = Part(posts', Len(call'.content))
              /\ Len(call'.content) <= Pieces /\ Head(call'.todo) = "stream",
           call'.todo = <<AnswerRequest>> => screen' = call'.content
    PROVE  RequestInv'
<1>1. AnswerRequest' = AnswerRequest
  BY DEF AnswerRequest
<1>2. Plans' = Plans
  BY <1>1 DEF Plans
<1>3. call'.content = Part(posts', Len(call'.content)) /\ Len(call'.content) <= Pieces
      /\ (call'.attempt # 0 => call'.content = <<>>)
      /\ (Step' # "stream" => call'.content = <<>>)
  <2>1. CASE call'.content = <<>>
    BY <2>1, Parts_, RequestConstants
  <2>2. CASE call'.content # <<>>
    BY <2>2 DEF Step
  <2>. QED
    BY <2>1, <2>2
<1>. QED
  BY <1>1, <1>2, <1>3 DEF RequestInv, ShownIsTheAnswer

LEMMA PostsKeep ==
    ASSUME RequestInv, PostAnswers \/ PostIsRepeated
    PROVE  RequestInv'
<1>1. /\ call.state = "busy" /\ Step # "stream" /\ posts' = posts + 1 /\ posts' \in Nat
      /\ call.content = <<>> /\ call \in CallRecords /\ call.todo \in Plans
      /\ call.attempt \in Nat
  BY DEF PostAnswers, PostIsRepeated, Posts, RequestInv, CallRecords
<1>2. CASE Raises
  BY <1>1, <1>2, RaisesKeeps
<1>3. CASE /\ Step \in {"template", "tokenize"}
           /\ call' = [call EXCEPT !.todo = Tail(@), !.attempt = 1]
           /\ IF Tail(call.todo) \in {<<"stream">>, <<"complete">>}
              THEN timing' = "prefill" /\ screen' = <<>> ELSE UNCHANGED <<timing, screen>>
           /\ UNCHANGED model
  <2>1. Tail(call.todo) \in Plans /\ Tail(call.todo) \in Seq(Requests)
        /\ AnswerRequest \in {"stream", "complete"}
    BY <1>1, <1>3, StepsOfPlans
  <2>2. call' \in CallRecords /\ call'.state = "busy" /\ call'.todo = Tail(call.todo) /\ call'.content = <<>>
    BY <1>1, <1>3, <2>1 DEF CallRecords
  <2>3. call'.todo = <<AnswerRequest>> => screen' = <<>>
    BY <1>3, <2>1, <2>2
  <2>. QED
    BY <1>1, <1>3, <2>1, <2>2, <2>3, GoingOnKeeps
<1>4. CASE /\ Step = "complete" /\ Returns(Whole(posts'))
           /\ model' = [model EXCEPT !.resident = IF model.kind = "llama" THEN 2 ELSE 0]
  <2>1. ~model.handler
    BY <1>1, <1>4, StepsOfPlans DEF AnswerRequest
  <2>2. /\ model' \in [kind : {"llama", "openai"}, handler : BOOLEAN, base : {0, 1}, resident : {0, 1, 2}]
        /\ model'.handler = model.handler
    BY <1>4 DEF RequestInv
  <2>3. Whole(posts') \in Seq(Nat \X Nat) /\ Whole(posts') = Part(posts', Pieces)
    BY <1>1, Parts_, RequestConstants
  <2>4. \A i \in DOMAIN Whole(posts') : Whole(posts')[i] = <<posts', i>>
    BY DEF Whole
  <2>5. CallEnds("returned", Whole(posts'))
    BY <1>4 DEF Returns
  <2>. QED
    BY <1>1, <2>1, <2>2, <2>3, <2>4, <2>5, EndedKeeps
<1>5. CASE Step = "warm" /\ Returns(<<>>) /\ model' = [model EXCEPT !.base = 1, !.resident = 1]
  <2>1. model' \in [kind : {"llama", "openai"}, handler : BOOLEAN, base : {0, 1}, resident : {0, 1, 2}]
    BY <1>5 DEF RequestInv
  <2>2. CallEnds("returned", <<>>) /\ <<>> \in Seq(Nat \X Nat)
    BY <1>5 DEF Returns
  <2>. QED
    BY <1>1, <2>1, <2>2, EndedKeeps
<1>6. CASE call' = [call EXCEPT !.attempt = @ + 1] /\ UNCHANGED <<model, timing, screen>>
  <2>1. call.attempt + 1 \in Nat
    BY <1>1
  <2>2. call' \in CallRecords /\ call'.state = "busy" /\ call'.todo = call.todo /\ call'.content = <<>>
    BY <1>1, <1>6, <2>1 DEF CallRecords
  <2>3. call'.todo = <<AnswerRequest>> => screen' = <<>>
    BY <1>1, <1>6, <2>2 DEF RequestInv
  <2>. QED
    BY <1>1, <1>6, <2>2, <2>3, GoingOnKeeps
<1>. QED
  BY <1>2, <1>3, <1>4, <1>5, <1>6, Zenon DEF PostAnswers, PostIsRepeated

LEMMA StreamsKeep ==
    ASSUME RequestInv, StreamOpens \/ StreamChunk \/ StreamStops \/ StreamEnds \/ StreamFails
    PROVE  RequestInv'
<1>1. /\ call.state = "busy" /\ Step = "stream" /\ posts \in Nat /\ call \in CallRecords
      /\ call.todo \in Plans /\ call.content = Part(posts, Len(call.content)) /\ Len(call.content) <= Pieces
  BY DEF StreamOpens, StreamChunk, StreamStops, StreamEnds, StreamFails, Open, Streams, RequestInv
<1>2. call.todo = <<AnswerRequest>> /\ screen = call.content /\ Head(call.todo) = "stream"
  BY <1>1, StepsOfPlans DEF RequestInv, Step
<1>3. call.content \in Seq(Nat \X Nat) /\ Len(call.content) \in Nat /\ Pieces \in Nat
  BY <1>1, RequestConstants DEF CallRecords
<1>4. CASE StreamOpens
  <2>1. /\ call.content = <<>> /\ posts' \in Nat /\ UNCHANGED <<model, screen>>
        /\ call' = [call EXCEPT !.attempt = 0]
    BY <1>1, <1>4 DEF StreamOpens, RequestInv
  <2>2. call' \in CallRecords /\ call'.state = "busy" /\ call'.todo = call.todo /\ call'.content = <<>>
    BY <1>1, <2>1 DEF CallRecords
  <2>. QED
    BY <1>1, <1>2, <2>1, <2>2, GoingOnKeeps
<1>5. CASE StreamChunk
  <2>. DEFINE n == Len(call.content)
              piece == <<posts, n + 1>>
  <2>1. /\ call.attempt = 0 /\ n < Pieces /\ UNCHANGED <<model, posts>>
        /\ call' = [call EXCEPT !.content = Append(@, piece)] /\ screen' = Append(screen, piece)
    BY <1>5, Zenon DEF StreamChunk, Open
  <2>2. Append(call.content, piece) = Part(posts, n + 1) /\ n + 1 \in Nat /\ n + 1 <= Pieces
    <3>1. n + 1 \in Nat /\ n + 1 <= Pieces
      BY <1>3, <2>1
    <3>2. Append(Part(posts, n), piece) = Part(posts, n + 1)
      BY <1>1, <1>3, Parts_, Zenon
    <3>. QED
      BY <1>1, <3>1, <3>2
  <2>3. Part(posts, n + 1) \in Seq(Nat \X Nat) /\ Len(Part(posts, n + 1)) = n + 1
    BY <1>1, <2>2, Parts_
  <2>4. /\ call' = [call EXCEPT !.content = Part(posts, n + 1)] /\ screen' = Part(posts, n + 1)
        /\ posts' = posts /\ model' = model
    BY <1>2, <2>1, <2>2
  <2>. HIDE DEF n
  <2>5. /\ call' \in CallRecords /\ call'.state = "busy" /\ call'.todo = call.todo
        /\ call'.content = Part(posts, n + 1) /\ call'.attempt = 0
    BY <1>1, <2>1, <2>3, <2>4 DEF CallRecords
  <2>. QED
    BY <1>1, <1>2, <2>2, <2>3, <2>4, <2>5, GoingOnKeeps
<1>6. ASSUME CallEnds("returned", call.content), UNCHANGED <<posts, screen>>,
             model' \in [kind : {"llama", "openai"}, handler : BOOLEAN, base : {0, 1}, resident : {0, 1, 2}],
             model'.kind = "llama" => call.content = Whole(posts)
      PROVE  RequestInv'
  <2>1. \A i \in DOMAIN call.content : call.content[i] = <<posts, i>>
    BY <1>1, <1>3 DEF Part
  <2>. QED
    BY <1>1, <1>2, <1>3, <1>6, <2>1, EndedKeeps
<1>7. CASE StreamStops
  <2>1. call.content = Whole(posts) /\ UNCHANGED <<posts, screen>>
    BY <1>1, <1>7, Parts_ DEF StreamStops, Open
  <2>2. model' \in [kind : {"llama", "openai"}, handler : BOOLEAN, base : {0, 1}, resident : {0, 1, 2}]
    BY <1>7 DEF StreamStops, RequestInv
  <2>3. CallEnds("returned", call.content)
    BY <1>7 DEF StreamStops, Returns
  <2>. QED
    BY <1>6, <2>1, <2>2, <2>3
<1>8. CASE StreamEnds
  <2>1. UNCHANGED posts
    BY <1>8 DEF StreamEnds, Open
  <2>2. CASE Raises
    BY <1>1, <2>1, <2>2, RaisesKeeps
  <2>3. CASE model.kind # "llama" /\ Returns(call.content) /\ UNCHANGED <<model, screen>>
    BY <1>6, <2>1, <2>3 DEF Returns, RequestInv
  <2>. QED
    BY <1>8, <2>2, <2>3 DEF StreamEnds
<1>9. CASE StreamFails
  BY <1>1, <1>9, RaisesKeeps DEF StreamFails, Open
<1>. QED
  BY <1>4, <1>5, <1>7, <1>8, <1>9

\* Whatever a failed attempt has shown before: the answer a call returns is one request's,
\* is what is on the screen, and with llama-server it is whole.
THEOREM ShownIsTheAnswerProved == RequestSpec => []ShownIsTheAnswer
<1>1. Idle \in CallRecords /\ Idle.state = "idle" /\ Idle.content = <<>>
  <2>1. <<>> \in Seq(Requests) /\ <<>> \in Seq(Nat \X Nat)
    OBVIOUS
  <2>. QED
    BY <2>1 DEF Idle, CallRecords
<1>2. RequestInit => RequestInv
  <2>. SUFFICES ASSUME RequestInit PROVE RequestInv
    OBVIOUS
  <2>1. model \in [kind : {"llama", "openai"}, handler : BOOLEAN, base : {0, 1}, resident : {0, 1, 2}]
    BY DEF RequestInit
  <2>. QED
    BY <1>1, <2>1 DEF RequestInit, RequestInv, ShownIsTheAnswer
<1>3. RequestInv /\ [RequestNext]_requestVars => RequestInv'
  <2>. SUFFICES ASSUME RequestInv, [RequestNext]_requestVars PROVE RequestInv'
    OBVIOUS
  <2>1. CASE ResetResident
    <3>1. model' \in [kind : {"llama", "openai"}, handler : BOOLEAN, base : {0, 1}, resident : {0, 1, 2}]
      BY <2>1 DEF ResetResident, RequestInv
    <3>2. UNCHANGED <<call, posts, screen>> /\ call.state = "idle"
      BY <2>1 DEF ResetResident
    <3>. QED
      BY <3>1, <3>2 DEF RequestInv, ShownIsTheAnswer
  <2>2. CASE CallerGoesOn
    BY <1>1, <2>2 DEF CallerGoesOn, RequestInv, ShownIsTheAnswer
  <2>3. CASE UNCHANGED requestVars
    <3>1. UNCHANGED <<call, posts, screen, model>>
      BY <2>3 DEF requestVars
    <3>2. AnswerRequest' = AnswerRequest
      BY <3>1 DEF AnswerRequest
    <3>3. Plans' = Plans /\ Step' = Step
      BY <3>1, <3>2 DEF Plans, Step
    <3>. QED
      BY <3>1, <3>2, <3>3 DEF RequestInv, ShownIsTheAnswer
  <2>. QED
    BY <2>1, <2>2, <2>3, StartsKeeps, PostsKeep, StreamsKeep DEF RequestNext
<1>4. RequestInv => ShownIsTheAnswer
  BY DEF RequestInv
<1>. QED
  BY <1>2, <1>3, <1>4, PTL DEF RequestSpec

-----------------------------------------------------------------------------
(* NativeLifetime.                                                         *)

ChatRecords == [base : Nat, working : Nat, closed : BOOLEAN]
Held(chat) == {chat.base, chat.working} \ {0}
InUse(chat) == chat.base # 0 /\ ~chat.closed

\* No conversation belongs to two chats, or is both a BASE and a working clone.
ChatOK(chat, latest) ==
    /\ chat \in ChatRecords /\ chat.base <= latest /\ chat.working <= latest
    /\ chat.base = 0 <=> chat.working = 0
    /\ chat.base # 0 => chat.base # chat.working

LifetimeInv ==
    /\ chats \in [Chats -> ChatRecords] /\ made \in Nat
    /\ engine \in {"building", "open", "closed", "abandoned"}
    /\ \A c \in Chats : ChatOK(chats[c], made)
    /\ \A c, d \in Chats : c # d => Held(chats[c]) \cap Held(chats[d]) = {}
    /\ engine = "building" => \A c \in Chats : ~chats[c].closed
    /\ engine = "open" => \A c \in Chats : InUse(chats[c])
    /\ \A c \in Chats : InUse(chats[c]) => Held(chats[c]) \subseteq open
    /\ \A k \in open \ raised : \E c \in Chats : InUse(chats[c]) /\ k \in Held(chats[c])
    /\ engine = "closed" /\ raised = {} => open = {}

LEMMA HeldIsConversations ==
    \A c \in Chats : Conversations(c) = Held(chats[c]) /\ (Built(c) <=> InUse(chats[c]))
  BY DEF Conversations, Held, Built, InUse

LEMMA LeastOne == ASSUME NEW S \in SUBSET Nat, S # {} PROVE \E x \in S : \A y \in S : x <= y
<1>. DEFINE R == OpToRel(<, Nat)
<1>1. IsWellFoundedOn(R, Nat)
  BY NatLessThanWellFounded
<1>2. \A x, y \in Nat : x < y => <<x, y>> \in R
  BY DEF OpToRel
<1>. HIDE DEF R
<1>3. PICK x \in S : \A y \in S : ~(<<y, x>> \in R)
  BY <1>1, WFMin
<1>4. \A y \in S : x <= y
  <2>1. \A y \in S : y \in Nat /\ x \in Nat /\ ~(y < x)
    BY <1>2, <1>3
  <2>. QED
    BY <2>1
<1>. QED
  BY <1>4

\* Closing some chats, and the conversations of a chat that was not finished: those whose
\* close raises stay open, and only those.
Ending(reached, new, bad, these) ==
    /\ these = (UNION {Held(chats[c]) : c \in reached}) \cup new
    /\ chats' = [c \in Chats |-> IF c \in reached THEN [chats[c] EXCEPT !.closed = TRUE] ELSE chats[c]]
    /\ open' = (open \cup new) \ (these \ bad) /\ raised' = raised \cup (these \cap bad)
    /\ made' \in Nat /\ made <= made' /\ engine' \in {"closed", "abandoned"}
    /\ \A k \in new : \A c \in Chats : k \notin Held(chats[c])
    /\ engine' = "closed" /\ these \cap bad = {} => \A c \in Chats : InUse(chats[c]) => c \in reached

LEMMA EndingKeeps ==
    ASSUME LifetimeInv, NEW reached \in SUBSET Chats, NEW new, NEW bad, NEW these,
           Ending(reached, new, bad, these)
    PROVE  LifetimeInv'
<1>. USE DEF Ending
<1>1. ASSUME NEW c \in Chats
      PROVE  /\ chats'[c] \in ChatRecords /\ Held(chats'[c]) = Held(chats[c])
             /\ ChatOK(chats'[c], made')
             /\ InUse(chats'[c]) <=> InUse(chats[c]) /\ c \notin reached
  <2>1. chats[c] \in ChatRecords /\ ChatOK(chats[c], made) /\ made \in Nat
        /\ chats'[c] = IF c \in reached THEN [chats[c] EXCEPT !.closed = TRUE] ELSE chats[c]
    BY DEF LifetimeInv
  <2>2. /\ chats'[c] \in ChatRecords /\ chats'[c].base = chats[c].base
        /\ chats'[c].working = chats[c].working
        /\ chats'[c].closed <=> chats[c].closed \/ c \in reached
    BY <2>1 DEF ChatRecords
  <2>3. chats[c].base \in Nat /\ chats[c].working \in Nat
    BY <2>1 DEF ChatRecords
  <2>. QED
    BY <2>1, <2>2, <2>3 DEF Held, ChatOK, InUse
<1>2. chats' \in [Chats -> ChatRecords]
  BY <1>1
<1>3. \A c, d \in Chats : c # d => Held(chats'[c]) \cap Held(chats'[d]) = {}
  BY <1>1 DEF LifetimeInv
<1>4. ASSUME NEW c \in Chats, InUse(chats'[c])
      PROVE  Held(chats'[c]) \subseteq open'
  <2>1. Held(chats[c]) \subseteq open /\ c \notin reached
    BY <1>1, <1>4 DEF LifetimeInv
  <2>2. \A k \in Held(chats[c]) : k \notin these
    BY <2>1 DEF LifetimeInv
  <2>. QED
    BY <1>1, <2>1, <2>2
<1>5. ASSUME NEW k \in open' \ raised'
      PROVE  \E c \in Chats : InUse(chats'[c]) /\ k \in Held(chats'[c])
  <2>1. k \notin these /\ k \in open \ raised
    OBVIOUS
  <2>2. PICK c \in Chats : InUse(chats[c]) /\ k \in Held(chats[c])
    BY <2>1 DEF LifetimeInv
  <2>3. c \notin reached
    BY <2>1, <2>2
  <2>. QED
    BY <1>1, <2>2, <2>3
<1>6. engine' = "closed" /\ raised' = {} => open' = {}
  <2>. SUFFICES ASSUME engine' = "closed", raised' = {}, NEW k \in open' PROVE FALSE
    OBVIOUS
  <2>1. PICK c \in Chats : InUse(chats'[c]) /\ k \in Held(chats'[c])
    BY <1>5
  <2>2. these \cap bad = {}
    OBVIOUS
  <2>. QED
    BY <1>1, <2>1, <2>2
<1>. QED
  BY <1>1, <1>2, <1>3, <1>4, <1>5, <1>6 DEF LifetimeInv

LEMMA ManagerCloseKeeps == LifetimeInv /\ CloseManager => LifetimeInv'
<1>. SUFFICES ASSUME LifetimeInv, CloseManager PROVE LifetimeInv'
  OBVIOUS
<1>1. PICK bad \in SUBSET open :
        LET reached == {c \in Agents : \A a \in Agents : a < c => Conversations(a) \cap bad = {}} \cup {1}
        IN  /\ Closes(UNION {Conversations(c) : c \in reached}, bad)
            /\ chats' = [c \in Chats |-> IF c \in reached THEN [chats[c] EXCEPT !.closed = TRUE] ELSE chats[c]]
  BY DEF CloseManager
<1>. DEFINE reached == {c \in Agents : \A a \in Agents : a < c => Conversations(a) \cap bad = {}} \cup {1}
            these == (UNION {Conversations(c) : c \in reached}) \cup {}
<1>2. /\ open' = (open \cup {}) \ (these \ bad) /\ raised' = raised \cup (these \cap bad)
      /\ chats' = [c \in Chats |-> IF c \in reached THEN [chats[c] EXCEPT !.closed = TRUE] ELSE chats[c]]
  BY <1>1 DEF Closes
<1>3. 1 \in Chats /\ reached \in SUBSET Chats /\ Chats \subseteq Nat
  BY LifetimeConstants DEF Chats, Agents
<1>4. these = (UNION {Held(chats[c]) : c \in reached}) \cup {}
  BY <1>3, HeldIsConversations
<1>5. made' \in Nat /\ made <= made' /\ engine' = "closed"
  BY DEF CloseManager, LifetimeInv
<1>6. ASSUME these \cap bad = {}, NEW c \in Chats
      PROVE  c \in reached
  <2>. SUFFICES ASSUME c \notin reached PROVE FALSE
    OBVIOUS
  <2>. DEFINE stops == {a \in Agents : Conversations(a) \cap bad # {}}
  <2>1. c \in Agents /\ stops # {} /\ stops \in SUBSET Nat
    BY <1>3 DEF Agents
  <2>. HIDE DEF stops
  <2>2. PICK s \in stops : \A a \in stops : s <= a
    BY <2>1, LeastOne
  <2>3. s \in Agents /\ Conversations(s) \cap bad # {}
    BY DEF stops
  <2>4. \A a \in Agents : a < s => a \notin stops
    BY <1>3, <2>2, <2>3 DEF Agents
  <2>5. s \in reached
    BY <2>3, <2>4 DEF stops
  <2>. QED
    BY <1>6, <2>3, <2>5
<1>. HIDE DEF reached, these
<1>. QED
  <2>1. Ending(reached, {}, bad, these)
    BY <1>2, <1>4, <1>5, <1>6 DEF Ending
  <2>. QED
    BY <1>3, <2>1, EndingKeeps

LEMMA BuildFailsKeeps == LifetimeInv /\ BuildFails => LifetimeInv'
<1>. SUFFICES ASSUME LifetimeInv, BuildFails PROVE LifetimeInv'
  OBVIOUS
<1>1. PICK bad \in SUBSET (open \cup ((made + 1)..made')) :
        LET stops == {c \in Chats : Built(c) /\ Conversations(c) \cap bad # {}}
            reached == {c \in Chats : Built(c) /\ \A s \in stops : c >= s}
            fresh == (made + 1)..made'
            these == (UNION {Conversations(c) : c \in reached}) \cup fresh
        IN  /\ open' = (open \cup fresh) \ (these \ bad) /\ raised' = raised \cup (these \cap bad)
            /\ chats' = [c \in Chats |-> IF c \in reached THEN [chats[c] EXCEPT !.closed = TRUE] ELSE chats[c]]
            /\ engine' = IF stops = {} THEN "closed" ELSE "abandoned"
  BY DEF BuildFails
<1>. DEFINE stops == {c \in Chats : Built(c) /\ Conversations(c) \cap bad # {}}
            reached == {c \in Chats : Built(c) /\ \A s \in stops : c >= s}
            fresh == (made + 1)..made'
            these == (UNION {Conversations(c) : c \in reached}) \cup fresh
<1>2. /\ open' = (open \cup fresh) \ (these \ bad) /\ raised' = raised \cup (these \cap bad)
      /\ chats' = [c \in Chats |-> IF c \in reached THEN [chats[c] EXCEPT !.closed = TRUE] ELSE chats[c]]
      /\ engine' = IF stops = {} THEN "closed" ELSE "abandoned"
  BY <1>1
<1>3. reached \in SUBSET Chats
  OBVIOUS
<1>4. these = (UNION {Held(chats[c]) : c \in reached}) \cup fresh
  BY HeldIsConversations
<1>5. made' \in {made + 1, made + 2} /\ made \in Nat
  BY DEF BuildFails, LifetimeInv
<1>6. \A k \in fresh : \A c \in Chats : k \notin Held(chats[c])
  <2>. SUFFICES ASSUME NEW k \in fresh, NEW c \in Chats PROVE k \notin Held(chats[c])
    OBVIOUS
  <2>1. k > made /\ k \in Nat /\ k # 0
    BY <1>5
  <2>2. ChatOK(chats[c], made) /\ chats[c] \in ChatRecords
    BY DEF LifetimeInv
  <2>. QED
    BY <1>5, <2>1, <2>2 DEF ChatOK, Held, ChatRecords
<1>7. engine' = "closed" => \A c \in Chats : InUse(chats[c]) => c \in reached
  BY <1>2, HeldIsConversations
<1>. HIDE DEF stops, reached, fresh, these
<1>8. engine' \in {"closed", "abandoned"}
  BY <1>2
<1>9. made' \in Nat /\ made <= made'
  BY <1>5
<1>. QED
  <2>1. Ending(reached, fresh, bad, these)
    BY <1>2, <1>4, <1>6, <1>7, <1>8, <1>9 DEF Ending
  <2>. QED
    BY <1>3, <2>1, EndingKeeps

\* A chat is given new conversations, none of them known before.
Renews(c, base, working) ==
    /\ chats' = [chats EXCEPT ![c] = [base |-> base, working |-> working, closed |-> FALSE]]
    /\ made' \in Nat /\ made <= made' /\ base # 0 /\ working # 0 /\ base # working
    /\ base <= made' /\ working <= made' /\ working > made
    /\ base > made \/ base = chats[c].base

Renewed(c, base, working) ==
    /\ chats' \in [Chats -> ChatRecords]
    /\ Held(chats'[c]) = {base, working} /\ InUse(chats'[c]) /\ ~chats'[c].closed
    /\ \A d \in Chats \ {c} : chats'[d] = chats[d]
    /\ \A d \in Chats : ChatOK(chats'[d], made')
    /\ \A d, e \in Chats : d # e => Held(chats'[d]) \cap Held(chats'[e]) = {}

LEMMA RenewedChat ==
    ASSUME LifetimeInv, NEW c \in Chats, NEW base \in Nat, NEW working \in Nat,
           Renews(c, base, working)
    PROVE  Renewed(c, base, working)
<1>. USE DEF Renews
<1>1. chats \in [Chats -> ChatRecords] /\ made \in Nat
  BY DEF LifetimeInv
<1>2. chats'[c] = [base |-> base, working |-> working, closed |-> FALSE]
  BY <1>1
<1>3. \A d \in Chats \ {c} : chats'[d] = chats[d]
  BY <1>1
<1>4. chats'[c] \in ChatRecords
  <2>1. [base |-> base, working |-> working, closed |-> FALSE] \in ChatRecords
    BY DEF ChatRecords
  <2>. QED
    BY <1>2, <2>1
<1>5. chats' \in [Chats -> ChatRecords]
  BY <1>1, <1>4 DEF ChatRecords
<1>6. /\ chats'[c].base = base /\ chats'[c].working = working /\ ~chats'[c].closed
  BY <1>2
<1>7. Held(chats'[c]) = {base, working} /\ InUse(chats'[c])
  BY <1>6 DEF Held, InUse
<1>8. ChatOK(chats'[c], made')
  BY <1>4, <1>6 DEF ChatOK
<1>9. ASSUME NEW d \in Chats \ {c}
      PROVE  ChatOK(chats'[d], made') /\ base \notin Held(chats[d]) /\ working \notin Held(chats[d])
  <2>1. ChatOK(chats[d], made) /\ chats[d].base \in Nat /\ chats[d].working \in Nat
    BY <1>1 DEF LifetimeInv, ChatRecords
  <2>2. \A k \in Held(chats[d]) : k \in Nat /\ k <= made
    BY <2>1 DEF ChatOK, Held
  <2>3. CASE base = chats[c].base
    <3>1. base \in Held(chats[c])
      BY <2>3 DEF Held
    <3>2. Held(chats[c]) \cap Held(chats[d]) = {}
      BY DEF LifetimeInv
    <3>. QED
      BY <1>1, <1>3, <2>1, <2>2, <3>1, <3>2 DEF ChatOK
  <2>. QED
    BY <1>1, <1>3, <2>1, <2>2, <2>3 DEF ChatOK
<1>10. ASSUME NEW d \in Chats, NEW e \in Chats, d # e
       PROVE  Held(chats'[d]) \cap Held(chats'[e]) = {}
  <2>1. Held(chats[d]) \cap Held(chats[e]) = {}
    BY <1>10 DEF LifetimeInv
  <2>2. CASE d = c
    BY <1>3, <1>7, <1>9, <1>10, <2>2
  <2>3. CASE e = c
    BY <1>3, <1>7, <1>9, <1>10, <2>3
  <2>. QED
    BY <1>3, <2>1, <2>2, <2>3
<1>. QED
  BY <1>3, <1>5, <1>6, <1>7, <1>8, <1>9, <1>10 DEF Renewed

LEMMA BuildChatKeeps == LifetimeInv /\ BuildChat => LifetimeInv'
<1>. SUFFICES ASSUME LifetimeInv, BuildChat PROVE LifetimeInv'
  OBVIOUS
<1>1. PICK c \in Chats :
       /\ engine = "building" /\ chats[c].base = 0 /\ \A b \in 1..(c - 1) : Built(b)
       /\ made' = made + 2
       /\ chats' = [chats EXCEPT ![c] = [base |-> made + 1, working |-> made', closed |-> FALSE]]
       /\ open' = open \cup {made + 1, made'}
       /\ engine' = (IF c = ChatCount THEN "open" ELSE engine) /\ raised' = raised
  BY DEF BuildChat
<1>2. made \in Nat /\ made + 1 \in Nat /\ made' \in Nat /\ made' = made + 2
  BY <1>1 DEF LifetimeInv
<1>3. /\ chats' \in [Chats -> ChatRecords]
      /\ Held(chats'[c]) = {made + 1, made'} /\ InUse(chats'[c]) /\ ~chats'[c].closed
      /\ \A d \in Chats \ {c} : chats'[d] = chats[d]
      /\ \A d \in Chats : ChatOK(chats'[d], made')
      /\ \A d, e \in Chats : d # e => Held(chats'[d]) \cap Held(chats'[e]) = {}
  <2>1. Renews(c, made + 1, made')
    BY <1>1, <1>2 DEF Renews
  <2>2. Renewed(c, made + 1, made')
    BY <1>2, <2>1, RenewedChat
  <2>. QED
    BY <2>2 DEF Renewed
<1>4. engine' \in {"building", "open"}
  BY <1>1
<1>5. \A d \in Chats : ~chats'[d].closed
  BY <1>1, <1>3 DEF LifetimeInv
<1>6. ASSUME engine' = "open", NEW d \in Chats
      PROVE  InUse(chats'[d])
  <2>1. c = ChatCount /\ ChatCount \in Nat
    BY <1>1, <1>6, LifetimeConstants
  <2>2. d = c \/ d \in 1..(c - 1)
    BY <2>1 DEF Chats
  <2>. QED
    BY <1>1, <1>3, <2>2, HeldIsConversations
<1>7. \A d \in Chats : InUse(chats'[d]) => Held(chats'[d]) \subseteq open'
  BY <1>1, <1>3 DEF LifetimeInv
<1>8. ASSUME NEW k \in open' \ raised'
      PROVE  \E d \in Chats : InUse(chats'[d]) /\ k \in Held(chats'[d])
  <2>1. CASE k \in {made + 1, made'}
    BY <1>3, <2>1
  <2>2. CASE k \in open \ raised
    <3>1. PICK d \in Chats : InUse(chats[d]) /\ k \in Held(chats[d])
      BY <2>2 DEF LifetimeInv
    <3>2. d # c
      BY <1>1, <3>1 DEF InUse
    <3>. QED
      BY <1>3, <3>1, <3>2
  <2>. QED
    BY <1>1, <2>1, <2>2
<1>. QED
  BY <1>2, <1>3, <1>4, <1>5, <1>6, <1>7, <1>8 DEF LifetimeInv

LEMMA NewWorking ==
    ASSUME NEW chat \in ChatRecords, chat.closed = FALSE, NEW working
    PROVE  [chat EXCEPT !.working = working]
           = [base |-> chat.base, working |-> working, closed |-> FALSE]
<1>1. [chat EXCEPT !.working = working] = [base |-> chat.base, working |-> working, closed |-> chat.closed]
  BY DEF ChatRecords
<1>. QED
  BY <1>1

\* A new dialogue of a chat in use: the chat keeps its BASE and one working clone, the old
\* one is closed or its close has raised.
LEMMA NewDialogueKeeps ==
    LifetimeInv /\ engine = "open" /\ engine' = "open"
    => \A c \in Chats : \A ok \in BOOLEAN : NewDialogue(c, ok) => LifetimeInv'
<1>. SUFFICES ASSUME LifetimeInv, engine = "open", engine' = "open",
                     NEW c \in Chats, NEW ok \in BOOLEAN, NewDialogue(c, ok)
              PROVE  LifetimeInv'
  OBVIOUS
<1>. DEFINE old == chats[c].working
            base == chats[c].base
<1>1. /\ chats \in [Chats -> ChatRecords] /\ made \in Nat /\ chats[c] \in ChatRecords
      /\ ChatOK(chats[c], made) /\ InUse(chats[c]) /\ Held(chats[c]) \subseteq open
  BY DEF LifetimeInv
<1>2. base \in Nat /\ old \in Nat /\ base # 0 /\ old # 0 /\ base # old /\ base <= made
  BY <1>1 DEF ChatRecords, ChatOK, InUse
<1>3. Held(chats[c]) = {base, old}
  BY <1>2 DEF Held
<1>4. CASE CloneFails
  <2>1. chats' = chats /\ made' = made + 1
    BY <1>4 DEF CloneFails
  <2>2. \A k \in open' \ raised' : k \in open \ raised
    BY <1>4 DEF CloneFails, KeepOpen
  <2>3. open \subseteq open'
    BY <1>4 DEF CloneFails, KeepOpen
  <2>4. \A d \in Chats : ChatOK(chats'[d], made')
    BY <1>1, <2>1 DEF LifetimeInv, ChatOK, ChatRecords
  <2>5. \A d \in Chats : InUse(chats'[d]) => Held(chats'[d]) \subseteq open'
    BY <2>1, <2>3 DEF LifetimeInv
  <2>6. \A d, e \in Chats : d # e => Held(chats'[d]) \cap Held(chats'[e]) = {}
    BY <2>1 DEF LifetimeInv
  <2>7. \A d \in Chats : InUse(chats'[d])
    BY <2>1 DEF LifetimeInv
  <2>8. \A k \in open' \ raised' : \E d \in Chats : InUse(chats'[d]) /\ k \in Held(chats'[d])
    BY <2>1, <2>2 DEF LifetimeInv
  <2>. QED
    BY <1>1, <2>1, <2>4, <2>5, <2>6, <2>7, <2>8 DEF LifetimeInv
<1>5. ASSUME Replaces(c),
             \/ open' = (open \ {old}) \cup {made'} /\ raised' = raised
             \/ open' = open \cup {made'} /\ raised' = raised \cup {old}
      PROVE  LifetimeInv'
  <2>1. /\ made' = made + 1
        /\ chats' = [chats EXCEPT ![c].working = made']
    BY <1>5 DEF Replaces
  <2>2. chats' = [chats EXCEPT ![c] = [base |-> base, working |-> made', closed |-> FALSE]]
    <3>1. chats[c].closed = FALSE
      BY <1>1 DEF InUse, ChatRecords
    <3>2. [chats[c] EXCEPT !.working = made'] = [base |-> base, working |-> made', closed |-> FALSE]
      BY <1>1, <3>1, NewWorking
    <3>. QED
      BY <1>1, <2>1, <3>2
  <2>3. Renews(c, base, made')
    <3>1. base = chats[c].base /\ made \in Nat
      BY <1>1
    <3>. HIDE DEF base
    <3>2. /\ made' \in Nat /\ made <= made' /\ base # 0 /\ made' # 0 /\ base # made'
          /\ base <= made' /\ made' <= made' /\ made' > made
      BY <1>2, <2>1, <3>1
    <3>. QED
      BY Zenon, <2>2, <3>1, <3>2 DEF Renews
  <2>4. Renewed(c, base, made')
    BY <1>1, <1>2, <2>1, <2>3, RenewedChat
  <2>5. /\ chats' \in [Chats -> ChatRecords]
        /\ Held(chats'[c]) = {base, made'} /\ InUse(chats'[c])
        /\ \A d \in Chats \ {c} : chats'[d] = chats[d]
        /\ \A d \in Chats : ChatOK(chats'[d], made')
        /\ \A d, e \in Chats : d # e => Held(chats'[d]) \cap Held(chats'[e]) = {}
    BY <2>4 DEF Renewed
  <2>6. \A d \in Chats : InUse(chats'[d])
    BY <2>5 DEF LifetimeInv
  <2>7. ASSUME NEW d \in Chats
        PROVE  Held(chats'[d]) \subseteq open'
    <3>1. CASE d = c
      BY <1>1, <1>2, <1>3, <1>5, <2>5, <3>1
    <3>2. CASE d # c
      <4>1. Held(chats[d]) \subseteq open /\ old \notin Held(chats[d])
        BY <1>3, <3>2 DEF LifetimeInv
      <4>. QED
        BY <1>5, <2>5, <3>2, <4>1
    <3>. QED
      BY <3>1, <3>2
  <2>8. ASSUME NEW k \in open' \ raised'
        PROVE  \E d \in Chats : InUse(chats'[d]) /\ k \in Held(chats'[d])
    <3>1. CASE k = made'
      BY <2>5, <3>1
    <3>2. CASE k # made'
      <4>1. k \in open \ raised /\ k # old
        BY <1>5, <3>2
      <4>2. PICK d \in Chats : InUse(chats[d]) /\ k \in Held(chats[d])
        BY <4>1 DEF LifetimeInv
      <4>3. d = c => k = base
        BY <1>3, <4>1, <4>2
      <4>. QED
        BY <2>5, <2>6, <4>2, <4>3
    <3>. QED
      BY <3>1, <3>2
  <2>. QED
    BY <1>1, <2>1, <2>5, <2>6, <2>7, <2>8 DEF LifetimeInv
<1>6. \/ CloneFails
      \/ Replaces(c) /\ open' = (open \ {old}) \cup {made'} /\ raised' = raised
      \/ Replaces(c) /\ open' = open \cup {made'} /\ raised' = raised \cup {old}
  BY Zenon DEF NewDialogue
<1>. HIDE DEF old
<1>. QED
  BY <1>4, <1>5, <1>6

\* The conversations are accounted for whatever fails: a chat in use (not closed) has its
\* BASE and its working dialogue open, also after a new dialogue that failed; every other
\* conversation is closed or its close has raised; and when the engine was closed and none
\* raised, nothing is left open (NativeConversationChat.new_dialogue and close,
\* NativeManager.__init__ and close).
THEOREM ConversationsAccountedProved == LifetimeSpec => []ConversationsAccounted
<1>1. LifetimeInit => LifetimeInv
  <2>. SUFFICES ASSUME LifetimeInit PROVE LifetimeInv
    OBVIOUS
  <2>1. chats \in [Chats -> ChatRecords] /\ \A c \in Chats : chats[c] = [base |-> 0, working |-> 0, closed |-> FALSE]
    <3>1. [base |-> 0, working |-> 0, closed |-> FALSE] \in ChatRecords
      BY DEF ChatRecords
    <3>. QED
      BY <3>1 DEF LifetimeInit
  <2>2. \A c \in Chats : Held(chats[c]) = {} /\ ~InUse(chats[c]) /\ ~chats[c].closed
    BY <2>1 DEF Held, InUse
  <2>3. \A c \in Chats : ChatOK(chats[c], 0)
    BY <2>1 DEF ChatOK
  <2>. QED
    BY <2>1, <2>2, <2>3 DEF LifetimeInit, LifetimeInv
<1>2. LifetimeInv /\ [LifetimeNext]_lifetimeVars => LifetimeInv'
  <2>. SUFFICES ASSUME LifetimeInv, [LifetimeNext]_lifetimeVars PROVE LifetimeInv'
    OBVIOUS
  <2>1. CASE ManagerResets
    <3>1. 1 \in Chats
      BY LifetimeConstants DEF Chats
    <3>2. PICK ok \in BOOLEAN : NewDialogue(1, ok)
      BY <2>1 DEF ManagerResets
    <3>3. engine = "open" /\ engine' = "open"
      BY <2>1 DEF ManagerResets
    <3>. QED
      BY <3>1, <3>2, <3>3, NewDialogueKeeps
  <2>2. ASSUME NEW c \in Agents, NEW from, AgentResets(c, from)
        PROVE  LifetimeInv'
    <3>1. PICK ok \in BOOLEAN : NewDialogue(c, ok)
      BY <2>2 DEF AgentResets
    <3>2. engine = "open" /\ engine' = "open" /\ c \in Chats
      BY <2>2 DEF AgentResets, Agents
    <3>. QED
      BY <3>1, <3>2, NewDialogueKeeps
  <2>3. ASSUME NEW c \in Agents, Slice(c)
        PROVE  LifetimeInv'
    BY <2>3 DEF Slice, LifetimeInv
  <2>4. CASE UNCHANGED lifetimeVars
    BY <2>4 DEF lifetimeVars, LifetimeInv
  <2>. QED
    BY <2>1, <2>2, <2>3, <2>4, BuildChatKeeps, BuildFailsKeeps, ManagerCloseKeeps
    DEF LifetimeNext, Run, LastSlice, AbortSlices
<1>3. LifetimeInv => ConversationsAccounted
  <2>. SUFFICES ASSUME LifetimeInv PROVE ConversationsAccounted
    OBVIOUS
  <2>1. \A c \in Chats : Built(c) => Conversations(c) \subseteq open
    BY HeldIsConversations DEF LifetimeInv
  <2>2. ASSUME NEW k \in open \ raised
        PROVE  k \in UNION {Conversations(c) : c \in {b \in Chats : Built(b)}}
    <3>1. PICK c \in Chats : InUse(chats[c]) /\ k \in Held(chats[c])
      BY DEF LifetimeInv
    <3>. QED
      BY <3>1, HeldIsConversations
  <2>3. engine = "closed" /\ raised = {} => open = {}
    BY DEF LifetimeInv
  <2>. QED
    BY <2>1, <2>2, <2>3 DEF ConversationsAccounted
<1>. QED
  BY <1>1, <1>2, <1>3, PTL DEF LifetimeSpec

-----------------------------------------------------------------------------
(* MqttActivation.                                                         *)

\* An edge names an object that was built once: while the binding of its number is still
\* this object, it is the binding of the same task.
EdgesOK ==
    /\ objects \in Nat
    /\ DOMAIN bindings = TaskIds
    /\ \A t \in TaskIds : bindings[t].object \in 0..objects
    /\ \A t \in TaskIds : bindings[t].object = 0 => bindings[t] = NoBinding
    /\ \A e \in edges : /\ e.task \in TaskIds /\ e.object \in 1..objects
                        /\ bindings[e.task].object = e.object => bindings[e.task].life = e.life

LEMMA NoBindingIs == NoBinding.object = 0 /\ NoBinding.life = 0
  BY DEF NoBinding

LEMMA EdgesInitially == MInit => EdgesOK
  BY NoBindingIs DEF MInit, EdgesOK

\* Fewer edges, the same bindings.
LEMMA EdgesGo ==
    ASSUME EdgesOK, UNCHANGED <<bindings, objects>>, edges' \subseteq edges
    PROVE  EdgesOK'
  BY DEF EdgesOK

\* Every object is built anew, and no edge is for one of them.
LEMMA EdgesRebuilt ==
    ASSUME EdgesOK, Rebuilt, edges' \subseteq edges
    PROVE  EdgesOK'
<1>1. objects' = objects + 1 /\ bindings' = NewObjects(bindings)
  BY DEF Rebuilt
<1>2. DOMAIN bindings' = TaskIds
  BY <1>1 DEF NewObjects
<1>3. ASSUME NEW t \in TaskIds
      PROVE  \/ bindings'[t] = NoBinding
             \/ bindings'[t].object = objects + 1
  <2>1. CASE bindings[t] = NoBinding
    BY <1>1, <2>1 DEF NewObjects
  <2>2. CASE bindings[t] # NoBinding
    <3>1. bindings'[t] = [bindings[t] EXCEPT !.object = objects + 1]
      BY <1>1, <2>2 DEF NewObjects
    <3>. QED
      BY <3>1
  <2>. QED
    BY <2>1, <2>2
<1>. QED
  BY <1>1, <1>2, <1>3, NoBindingIs DEF EdgesOK

LEMMA EdgesKeep == EdgesOK /\ [MNext]_mvars => EdgesOK'
<1>. SUFFICES ASSUME EdgesOK, [MNext]_mvars PROVE EdgesOK'
  OBVIOUS
<1>1. CASE Others \/ UNCHANGED mvars
  BY <1>1, EdgesGo DEF Others, mvars
<1>2. ASSUME NEW t \in TaskIds, NEW policy \in Policies, CreateExternalTask(t, policy)
      PROVE  EdgesOK'
  <2>1. /\ objects' = objects + 1 /\ UNCHANGED edges
        /\ bindings' = [bindings EXCEPT ![t] = [object |-> objects + 1, life |-> gens'[t]]]
    BY <1>2 DEF CreateExternalTask
  <2>2. /\ DOMAIN bindings' = TaskIds /\ bindings'[t].object = objects + 1
        /\ \A u \in TaskIds : u # t => bindings'[u] = bindings[u]
    BY <2>1 DEF EdgesOK
  <2>. QED
    BY <2>1, <2>2 DEF EdgesOK
<1>3. ASSUME NEW t \in TaskIds, DeleteBoundTask(t)
      PROVE  EdgesOK'
  <2>1. UNCHANGED <<objects, edges>> /\ bindings' = [bindings EXCEPT ![t] = NoBinding]
    BY <1>3 DEF DeleteBoundTask
  <2>. QED
    BY <2>1, NoBindingIs DEF EdgesOK
<1>4. CASE RequestRaises \/ RestartMonitor
  BY <1>4, EdgesRebuilt DEF RequestRaises, RestartMonitor
<1>5. ASSUME NEW payload \in Payloads, Receive(payload)
      PROVE  EdgesOK'
  <2>1. /\ UNCHANGED <<bindings, objects>>
        /\ edges' = {[task |-> t, object |-> bindings[t].object, life |-> bindings[t].life]
                        : t \in {u \in TaskIds : Bound(u) /\ IsEdge(last, payload)}}
    BY <1>5 DEF Receive
  <2>2. ASSUME NEW e \in edges'
        PROVE  /\ e.task \in TaskIds /\ bindings[e.task] # NoBinding
               /\ e.object = bindings[e.task].object /\ e.life = bindings[e.task].life
    BY <2>1 DEF Bound
  <2>. QED
    BY <2>1, <2>2 DEF EdgesOK
<1>6. ASSUME NEW e \in edges, Consume(e)
      PROVE  EdgesOK'
  <2>1. edges' \subseteq edges
    BY <1>6 DEF Consume
  <2>2. UNCHANGED <<bindings, objects>> \/ Rebuilt
    BY <1>6 DEF Consume, External
  <2>. QED
    BY <2>1, <2>2, EdgesGo, EdgesRebuilt
<1>. QED
  BY <1>1, <1>2, <1>3, <1>4, <1>5, <1>6 DEF MNext

\* Whatever the monitor and the requests beside it do to the tasks, they do it through the
\* service.
LEMMA ServiceStep ==
    ASSUME FALSE \in Periods, EdgesOK, [MNext]_mvars
    PROVE  [ServiceNext]_vars
<1>1. CASE Others
  <2>1. CASE Tick
    BY <2>1 DEF ServiceNext
  <2>2. ASSUME NEW t \in TaskIds,
               \/ \E policy \in Policies, enabled \in BOOLEAN : CreateTask(t, policy, FALSE, enabled)
               \/ StartTask(t) \/ StopTask(t) \/ ResumeTask(t) \/ PauseTask(t)
               \/ \E policy \in Policies : SetExecutor(t, policy)
               \/ QueueEvent(t)
        PROVE  ServiceNext
    BY <2>2, Zenon DEF ServiceNext, ManageTask
  <2>. QED
    BY <1>1, <2>1, <2>2, Zenon DEF Others
<1>2. ASSUME NEW t \in TaskIds, NEW policy \in Policies, CreateExternalTask(t, policy)
      PROVE  ServiceNext
  <2>1. CreateTask(t, policy, FALSE, TRUE)
    BY <1>2, Zenon DEF CreateExternalTask
  <2>. QED
    BY <2>1, Zenon DEF ServiceNext, ManageTask
<1>3. CASE \E t \in TaskIds : DeleteBoundTask(t)
  BY <1>3, Zenon DEF DeleteBoundTask, ServiceNext, ManageTask
<1>4. ASSUME NEW e \in edges, Consume(e)
      PROVE  ServiceNext \/ UNCHANGED vars
  <2>1. e.task \in TaskIds
    BY DEF EdgesOK
  <2>2. QueueEvent(e.task) \/ UNCHANGED vars
    <3>1. External(e.task) \/ UNCHANGED <<vars, bindings, objects>>
      BY <1>4, Zenon DEF Consume
    <3>. QED
      BY <3>1 DEF External
  <2>. QED
    BY <2>1, <2>2, Zenon DEF ServiceNext, ManageTask
<1>5. CASE RequestRaises \/ RestartMonitor \/ (\E payload \in Payloads : Receive(payload)) \/ UNCHANGED mvars
  BY <1>5 DEF RequestRaises, RestartMonitor, Receive, ServiceNext, mvars
<1>. QED
  BY <1>1, <1>2, <1>3, <1>4, <1>5, Zenon DEF MNext

\* An edge is taken by Consume alone, if it queues a RUN.
LEMMA QueuedByItsEdge ==
    ASSUME TypeOK, EdgesOK, [MNext]_mvars, NEW e \in edges, e \notin edges', nextRun' = nextRun + 1
    PROVE  bindings[e.task].object = e.object
<1>1. nextRun' # nextRun
  BY DEF TypeOK
<1>2. PICK f \in edges : Consume(f)
  BY <1>1 DEF MNext, Others, CreateExternalTask, DeleteBoundTask, RequestRaises, RestartMonitor,
              ServiceRestart, management, Receive, mvars, vars
<1>3. f = e
  BY <1>2 DEF Consume
<1>. QED
  BY <1>1, <1>2, <1>3 DEF Consume, vars

\* The monitor keeps the object it copied, and TaskService.consume_mqtt compares it: a RUN
\* that an edge queues is for the binding that was there when its line was read, however
\* often its number was deleted, given away and rebuilt by a rollback since.
THEOREM NoOldPayloadProved == ASSUME FALSE \in Periods PROVE MSpec => NoOldPayload
<1>1. MInit => TypeOK /\ EdgesOK
  BY InitType, EdgesInitially DEF MInit
<1>2. TypeOK /\ EdgesOK /\ [MNext]_mvars => TypeOK' /\ EdgesOK'
  BY NextType, ServiceStep, EdgesKeep
<1>3. TypeOK /\ EdgesOK /\ [MNext]_mvars
        => [\A e \in edges : e \notin edges' /\ nextRun' = nextRun + 1
                => Bound(e.task) /\ bindings[e.task].life = e.life]_mvars
  <2>. SUFFICES ASSUME TypeOK, EdgesOK, [MNext]_mvars, NEW e \in edges, e \notin edges', nextRun' = nextRun + 1
                PROVE  Bound(e.task) /\ bindings[e.task].life = e.life
    OBVIOUS
  <2>1. bindings[e.task].object = e.object
    BY QueuedByItsEdge
  <2>. QED
    BY <2>1, NoBindingIs DEF EdgesOK, Bound
<1>. QED
  BY <1>1, <1>2, <1>3, PTL DEF MSpec, NoOldPayload

\* MQTT adds nothing to what the service may do (TaskService.consume_mqtt and
\* create_external_task): every behaviour of the monitor beside the service is one of the
\* service, so what every step of ServiceNext keeps, TypeOK and IInv among it, MQTT keeps.
THEOREM MqttIsService == ASSUME FALSE \in Periods PROVE MSpec => Init /\ [][ServiceNext]_vars
<1>1. MInit => Init /\ EdgesOK
  BY EdgesInitially DEF MInit
<1>. QED
  BY <1>1, ServiceStep, EdgesKeep, PTL DEF MSpec

=============================================================================
