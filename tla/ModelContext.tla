---------------------------- MODULE ModelContext ----------------------------
(***************************************************************************)
(* LiteRTChatClient: one resident inference session and the callers that   *)
(* hand it a dialogue.  The session cannot be read back; the client knows  *)
(* what is in it by remembering the messages of its last good turn, and    *)
(* goes on with the session when the caller's history is equal to them.    *)
(* An image moves the dialogue to a second native conversation until the   *)
(* next reset.                                                             *)
(*                                                                         *)
(* A dialogue is a system message followed by turns; a turn is its number. *)
(* The manager, an agent and a fragment reader call the client each in its *)
(* own way, above all when a call has failed.                              *)
(***************************************************************************)
EXTENDS Naturals, Sequences

CONSTANTS Manager,   \* system message of the manager
          Part,      \* system message of a fragment reader
          Systems,   \* system messages an agent may be woken with
          MaxTurns   \* bound: inferences

VARIABLES
    client,  \* text session, its base, _synced_messages, vision conversation
    asker,  \* who calls, where it is, the messages before its new one
    turns,   \* inferences so far
    failed   \* history: turns whose inference failed after it had begun

contextVars == <<client, asker, turns, failed>>

Closed == [kv |-> <<>>, base |-> "none", synced |-> <<>>, vision |-> <<>>]
Prepared(system) == [kv |-> <<system>>, base |-> system, synced |-> <<system>>, vision |-> <<>>]

\* prepare_prefix closes the client first, and again when a step of it fails.
PrepareClientPrefix(system) == {Prepared(system), Closed}

\* Mutant: the messages are reset before the session is.
ResetForgetsFirst(system) ==
    IF client.kv = <<>> \/ client.base # system THEN {client}
    ELSE {Prepared(system), [client EXCEPT !.vision = <<>>, !.synced = <<system>>]}

\* reset_to_base closes the vision conversation and rewinds to the checkpoint, which
\* may fail; the last set member is what a failure leaves.
ResetClientToBase(system) ==
    IF client.kv = <<>> \/ client.base # system THEN {client}
    ELSE {Prepared(system), [client EXCEPT !.vision = <<>>]}

\* The manager talks through its first client or through a fork of it.
ManagerRoles == {"manager", "fork"}

\* _try_reset_prefix; the client the manager starts with may not do it.
TryResetPrefix ==
    IF asker.role = "manager" \/ Len(asker.hist) # 1 THEN {client}
    ELSE IF client.kv # <<>> /\ Head(asker.hist) = client.base THEN ResetClientToBase(client.base)
    ELSE PrepareClientPrefix(Head(asker.hist))

GoesTo(at) == asker' = [asker EXCEPT !.at = at]

-----------------------------------------------------------------------------
(* chat.                                                                   *)

InStep == asker.hist = client.synced

GoesOn == \/ client.vision = <<>> /\ asker.image
          \/ InStep /\ client.vision \o client.kv # <<>>

Conversation == IF asker.image \/ client.vision # <<>> THEN "vision" ELSE "text"

\* Which of the two conversations goes on, or whether the history starts over.
ChatBegins ==
    /\ asker.at = "asked" /\ turns < MaxTurns
    /\ \/ GoesOn /\ UNCHANGED client /\ GoesTo(Conversation)
       \/ ~GoesOn /\ client' \in TryResetPrefix
          /\ GoesTo(IF asker.hist = <<client'.base>> /\ client' = Prepared(client'.base)
                  THEN IF asker.image THEN "vision" ELSE "text" ELSE "failed")
    /\ UNCHANGED <<turns, failed>>

Answered(c) ==
    /\ turns' = turns + 1
    /\ client' = [c EXCEPT !.synced = Append(asker.hist, turns')]
    /\ asker' = [asker EXCEPT !.at = "answered", !.hist = Append(@, turns')]
    /\ UNCHANGED failed

TextAnswers == asker.at = "text" /\ Answered([client EXCEPT !.kv = Append(@, turns + 1)])

\* The user turn does not render as an extension of the base.
RenderFails == asker.at = "text" /\ GoesTo("failed") /\ UNCHANGED <<client, turns, failed>>

\* run_prefill or the decode raises, or nothing is decoded.
DecodeFails ==
    /\ asker.at = "text" /\ GoesTo("failed")
    /\ turns' = turns + 1 /\ failed' = failed \cup {turns'}
    /\ client' = [client EXCEPT !.kv = Append(@, turns')]

\* The first image migrates the history.
VisionAnswers ==
    /\ asker.at = "vision"
    /\ LET before == IF client.vision = <<>> THEN asker.hist ELSE client.vision
       IN  Answered([client EXCEPT !.vision = Append(before, turns + 1)])

VisionFails ==
    /\ asker.at = "vision" /\ GoesTo("failed")
    /\ client' = [client EXCEPT !.vision = <<>>, !.synced = <<>>]
    /\ UNCHANGED <<turns, failed>>

-----------------------------------------------------------------------------
(* The callers.                                                            *)

ManagerBase == <<Manager>>

Calls(hist, image) == asker' = [asker EXCEPT !.at = "asked", !.hist = hist, !.image = image]

EndsCall(hist, at) ==
    asker' = [asker EXCEPT !.at = at, !.hist = hist, !.image = FALSE] /\ UNCHANGED <<turns, failed>>

\* The result of a tool, an image perhaps, is the next message.
ContinueDialogue ==
    /\ asker.at = "answered" /\ asker.role # "child"
    /\ \E image \in BOOLEAN : Calls(asker.hist, image)
    /\ UNCHANGED <<client, turns, failed>>

ManagerAsks ==
    /\ asker.role \in ManagerRoles /\ asker.at = "idle" /\ Calls(asker.hist, FALSE)
    /\ UNCHANGED <<client, turns, failed>>

\* The dialogue goes on with the next message of the user.
ManagerKeeps ==
    /\ asker.role \in ManagerRoles /\ asker.at = "answered" /\ EndsCall(asker.hist, "idle") /\ UNCHANGED client

\* _reset_to_base, of a turn that ended or of _abort_context: an exception is logged.
ManagerRewinds ==
    /\ asker.role \in ManagerRoles /\ asker.at \in {"answered", "failed"}
    /\ client' \in ResetClientToBase(Manager) /\ EndsCall(ManagerBase, "idle")

\* reset_for_new_session raises, and the context leaves the scheduler's slots.
NewManagerSession ==
    /\ asker.role \in ManagerRoles /\ asker.at = "idle"
    /\ \E c \in ResetClientToBase(Manager) :
          /\ client' = c
          /\ IF c = Prepared(Manager) THEN EndsCall(ManagerBase, "idle") ELSE EndsCall(asker.hist, "lost")

\* _recover_manager_kv1; a fork that is lost is not used again.
Recover ==
    /\ asker.role = "manager" /\ asker.at = "lost"
    /\ client' \in PrepareClientPrefix(Manager)
    /\ IF client'.kv # <<>> THEN EndsCall(ManagerBase, "idle") ELSE EndsCall(asker.hist, "lost")

AgentBegins ==
    /\ asker.role = "agent" /\ asker.at = "idle"
    /\ \E system \in Systems : Calls(<<system>>, FALSE)
    /\ UNCHANGED <<client, turns, failed>>

\* _release(preserve_session=True), at the end of a task or when it is stopped.
AgentSleeps ==
    /\ asker.role = "agent" /\ asker.at = "answered"
    /\ client' \in ResetClientToBase(Head(asker.hist)) /\ EndsCall(<<>>, "idle")

\* _release(preserve_session=False), after an error or too many steps.
AgentDrops ==
    /\ asker.role = "agent" /\ asker.at \in {"answered", "failed"} /\ EndsCall(<<>>, "idle")
    /\ UNCHANGED client

\* A fragment: one inference in a child of its own, then the next after a reset.
ChildAsks ==
    /\ asker.role = "child" /\ asker.at = "idle" /\ Calls(<<Part>>, FALSE)
    /\ UNCHANGED <<client, turns, failed>>

ChildEnds ==
    /\ asker.role = "child" /\ asker.at \in {"answered", "failed"} /\ EndsCall(<<>>, "idle")
    /\ client' \in {Closed} \cup IF asker.at = "answered" THEN {Prepared(Part)} ELSE {}

-----------------------------------------------------------------------------
\* build_bundle, warm_bundle and fork; only the first agent is warm, a child is not.
ContextInit ==
    /\ \E role \in ManagerRoles \cup {"agent", "child"} :
          /\ asker = [role |-> role, at |-> "idle", image |-> FALSE,
                       hist |-> IF role \in ManagerRoles THEN ManagerBase ELSE <<>>]
          /\ client \in IF role \in ManagerRoles THEN {Prepared(Manager)}
                        ELSE IF role = "child" THEN {Closed}
                        ELSE {Closed} \cup {Prepared(system) : system \in Systems}
    /\ turns = 0 /\ failed = {}

Caller == \/ ContinueDialogue
          \/ ManagerAsks \/ ManagerKeeps \/ ManagerRewinds \/ NewManagerSession \/ Recover
          \/ AgentBegins \/ AgentSleeps \/ AgentDrops
          \/ ChildAsks \/ ChildEnds

ContextNext == \/ ChatBegins \/ TextAnswers \/ RenderFails \/ DecodeFails
               \/ VisionAnswers \/ VisionFails
               \/ Caller

ContextSpec == ContextInit /\ [][ContextNext]_contextVars

-----------------------------------------------------------------------------
(* Properties.                                                             *)

Turns(dialogue) == {dialogue[i] : i \in 2..Len(dialogue)}
InOrder(dialogue) == \A i, j \in 2..Len(dialogue) : i < j => dialogue[i] < dialogue[j]

\* The completed turns of a session are those of a history, in the same order.
Reads(session, hist) ==
    /\ session # <<>> /\ hist # <<>> /\ Head(session) = Head(hist)
    /\ InOrder(session) /\ InOrder(hist)
    /\ Turns(session) \ failed = Turns(hist)

\* Whatever failed before, rewinds included, an inference reads every turn of its
\* dialogue and no completed turn of another one, in the session as in the conversation
\* with images.
ReadsItsOwnTurns ==
    /\ asker.at = "text" => Reads(client.kv, asker.hist)
    /\ asker.at = "vision" /\ client.vision # <<>> => client.vision = asker.hist

\* The session holds the history the caller has, or the call raises "history no longer
\* extends resident KV".
SessionIsTheHistory == asker.at = "text" => client.kv = asker.hist

=============================================================================
