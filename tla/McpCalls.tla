------------------------------ MODULE McpCalls ------------------------------
(***************************************************************************)
(* Calls of MCP tools: the thread that runs the models calls and waits     *)
(* with a timeout, the owner task of the one server connection takes calls *)
(* from its queue on another thread, and the connection may fail, come     *)
(* back with other tools, or be closed at any moment.                      *)
(***************************************************************************)
EXTENDS Naturals, Sequences

CONSTANTS MaxToolCalls, \* bound: calls
          MaxLinks      \* bound: connections

ASSUME CallConstants == MaxToolCalls \in Nat /\ MaxLinks \in Nat

VARIABLES
    calls,     \* Future of every call, how often it was sent, what its caller was told
    caller,    \* idle, checked (about to enqueue), waiting or expired (its wait timed out)
    mailbox,   \* the owner's queue
    link,      \* the owner task: where it is, and its current call (0: none)
    links,     \* connections tried
    catalog,   \* the catalog frozen at the first attempt has the tool
    live,      \* the connected server still defines it in the same way
    health,    \* _status
    closing,   \* McpRuntime._closed
    loop       \* the event loop: running, draining the queues, over

callVars == <<calls, caller, mailbox, link, links, catalog, live, health, closing, loop>>

Last == Len(calls)
Unsettled == {"pending", "running"}

\* _finish: a Future that is settled or cancelled keeps its state.
FutureFinished(cs, k, text) ==
    IF cs[k].future \in Unsettled THEN [cs EXCEPT ![k].future = "finished", ![k].text = text] ELSE cs

Told(text) == calls' = [calls EXCEPT ![Last].told = text] /\ caller' = "idle"

-----------------------------------------------------------------------------
(* The calling thread.                                                      *)

\* The server counts as connected; then the arguments are validated.
Call ==
    /\ caller = "idle" /\ Last < MaxToolCalls
    /\ catalog /\ ~closing /\ loop # "over" /\ health = "ready"
    /\ caller' = "checked"
    /\ UNCHANGED <<calls, mailbox, link, links, catalog, live, health, closing, loop>>

\* The queue of a loop that has drained it is never read again; a loop that is over
\* takes nothing.
Enqueue ==
    /\ caller = "checked" /\ loop # "over"
    /\ calls' = Append(calls, [future |-> "pending", sent |-> 0, text |-> "none", told |-> "none"])
    /\ caller' = "waiting"
    /\ mailbox' = IF loop = "running" THEN Append(mailbox, Last + 1) ELSE mailbox
    /\ UNCHANGED <<link, links, catalog, live, health, closing, loop>>

EnqueueFails ==
    /\ caller = "checked" /\ loop = "over" /\ caller' = "idle"
    /\ UNCHANGED <<calls, mailbox, link, links, catalog, live, health, closing, loop>>

CallReturns ==
    /\ caller = "waiting" /\ calls[Last].future = "finished"
    /\ Told(calls[Last].text)
    /\ UNCHANGED <<mailbox, link, links, catalog, live, health, closing, loop>>

WaitExpires ==
    /\ caller = "waiting" /\ calls[Last].future \in Unsettled
    /\ caller' = "expired"
    /\ UNCHANGED <<calls, mailbox, link, links, catalog, live, health, closing, loop>>

\* Only a call that is still pending can be cancelled.
GiveUp ==
    /\ caller = "expired" /\ caller' = "idle"
    /\ calls' = IF calls[Last].future = "pending"
                THEN [calls EXCEPT ![Last].future = "cancelled", ![Last].told = "not sent"]
                ELSE [calls EXCEPT ![Last].told = "too late"]
    /\ UNCHANGED <<mailbox, link, links, catalog, live, health, closing, loop>>

-----------------------------------------------------------------------------
(* The owner task.                                                          *)

At(where, k) == link' = [at |-> where, current |-> k]

\* The first attempt freezes the catalog, empty if it fails.
Connect(ok, same) ==
    /\ link.at = "connect" /\ links < MaxLinks /\ links' = links + 1
    /\ catalog' = IF links = 0 THEN ok ELSE catalog
    /\ live' = (same \/ links = 0)
    /\ health' = IF ok THEN "ready" ELSE "unavailable"
    /\ At(IF ok THEN "get" ELSE "connect", 0)
    /\ UNCHANGED <<calls, caller, mailbox, closing, loop>>

TakeCall ==
    /\ link.at = "get" /\ mailbox # <<>>
    /\ mailbox' = Tail(mailbox)
    /\ At(IF calls[Head(mailbox)].future = "cancelled" THEN "get" ELSE "check",
          IF calls[Head(mailbox)].future = "cancelled" THEN 0 ELSE Head(mailbox))
    /\ UNCHANGED <<calls, caller, links, catalog, live, health, closing, loop>>

CheckTool ==
    /\ link.at = "check"
    /\ IF live THEN At("commit", link.current) /\ UNCHANGED calls
       ELSE At("get", 0) /\ calls' = FutureFinished(calls, link.current, "not sent")
    /\ UNCHANGED <<caller, mailbox, links, catalog, live, health, closing, loop>>

\* Mutant: a call that was not cancelled when it was taken is sent.
CommitAnyway ==
    /\ link.at = "commit"
    /\ At("call", link.current)
    /\ calls' = [calls EXCEPT ![link.current].future = IF @ = "pending" THEN "running" ELSE @]
    /\ UNCHANGED <<caller, mailbox, links, catalog, live, health, closing, loop>>

\* set_running_or_notify_cancel decides between sending and the caller's timeout.
Commit ==
    /\ link.at = "commit"
    /\ IF calls[link.current].future = "pending"
       THEN /\ At("call", link.current)
            /\ calls' = [calls EXCEPT ![link.current].future = "running"]
       ELSE At("get", 0) /\ UNCHANGED calls
    /\ UNCHANGED <<caller, mailbox, links, catalog, live, health, closing, loop>>

Send ==
    /\ link.at = "call"
    /\ calls' = [calls EXCEPT ![link.current].sent = @ + 1]
    /\ At("sent", link.current)
    /\ UNCHANGED <<caller, mailbox, links, catalog, live, health, closing, loop>>

Answer ==
    /\ link.at = "sent"
    /\ calls' = FutureFinished(calls, link.current, "answer")
    /\ At("get", 0)
    /\ UNCHANGED <<caller, mailbox, links, catalog, live, health, closing, loop>>

\* A timeout or an error, before or after sending: first the server is unavailable.
CallFails ==
    /\ link.at \in {"call", "sent"}
    /\ health' = "unavailable" /\ At("failed", link.current)
    /\ UNCHANGED <<calls, caller, mailbox, links, catalog, live, closing, loop>>

\* The caller is released, then the connection closed, which may take long.
ReleaseCaller ==
    /\ link.at = "failed"
    /\ calls' = IF link.current = 0 THEN calls ELSE FutureFinished(calls, link.current, "unknown")
    /\ At("exit", 0)
    /\ UNCHANGED <<caller, mailbox, links, catalog, live, health, closing, loop>>

Reconnect ==
    /\ link.at = "exit" /\ At("connect", 0)
    /\ health' = "unavailable"
    /\ UNCHANGED <<calls, caller, mailbox, links, catalog, live, closing, loop>>

-----------------------------------------------------------------------------
(* close.                                                                  *)

CloseRuntime ==
    /\ ~closing /\ closing' = TRUE
    /\ UNCHANGED <<calls, caller, mailbox, link, links, catalog, live, health, loop>>

\* The owner is cancelled where it awaits something.
OwnerCancelled ==
    /\ closing /\ link.at \in {"connect", "get", "call", "sent", "exit"}
    /\ calls' = IF link.current = 0 THEN calls ELSE FutureFinished(calls, link.current, "unknown")
    /\ At("over", 0) /\ health' = "unavailable"
    /\ UNCHANGED <<caller, mailbox, links, catalog, live, closing, loop>>

DrainQueue ==
    /\ link.at = "over" /\ loop = "running"
    /\ calls' = [k \in DOMAIN calls |->
                   IF \E i \in DOMAIN mailbox : mailbox[i] = k
                   THEN FutureFinished(calls, k, "not sent")[k] ELSE calls[k]]
    /\ mailbox' = <<>> /\ loop' = "draining"
    /\ UNCHANGED <<caller, link, links, catalog, live, health, closing>>

LoopEnds ==
    /\ loop = "draining" /\ loop' = "over"
    /\ UNCHANGED <<calls, caller, mailbox, link, links, catalog, live, health, closing>>

-----------------------------------------------------------------------------
CallInit ==
    /\ calls = <<>> /\ caller = "idle" /\ mailbox = <<>>
    /\ link = [at |-> "connect", current |-> 0] /\ links = 0
    /\ catalog = FALSE /\ live = FALSE /\ health = "unavailable"
    /\ closing = FALSE /\ loop = "running"

CallNext ==
    \/ Call \/ Enqueue \/ EnqueueFails \/ CallReturns \/ WaitExpires \/ GiveUp
    \/ \E ok, same \in BOOLEAN : Connect(ok, same)
    \/ TakeCall \/ CheckTool \/ Commit \/ Send \/ Answer
    \/ CallFails \/ ReleaseCaller \/ Reconnect
    \/ CloseRuntime \/ OwnerCancelled \/ DrainQueue \/ LoopEnds

CallSpec == CallInit /\ [][CallNext]_callVars

-----------------------------------------------------------------------------
(* Properties.                                                             *)

\* A caller that is told its call was not sent may repeat it: it was not sent, and
\* will not be, although the owner took it from the queue in another thread.
NotSentIsTrue == \A k \in DOMAIN calls : calls[k].told = "not sent" => calls[k].sent = 0

=============================================================================
