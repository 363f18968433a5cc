--------------------------- MODULE NativeLifetime ---------------------------
(***************************************************************************)
(* The native conversations of one LiteRT engine.  The manager and every   *)
(* agent own a chat: an immutable BASE, warmed once, and a working clone   *)
(* that each new dialogue replaces.  Creating, warming and cloning may     *)
(* fail, and so may closing: a close that raises leaves its conversation   *)
(* open.  A new clone is inspected (guard, trace, token count) before      *)
(* anything refers to it: when that raises, nobody closes it.              *)
(*                                                                         *)
(* Chats are numbered in the order they are built; 1 is the manager's.     *)
(* A conversation is a number of its own, 0 is none.                       *)
(***************************************************************************)
EXTENDS Naturals

CONSTANTS ChatCount,        \* the manager's chat and one for each agent
          MaxConversations  \* bound: conversations created

ASSUME LifetimeConstants == ChatCount \in Nat \ {0} /\ MaxConversations \in Nat

VARIABLES
    chats,   \* BASE, working clone, closed
    agents,  \* AgentState of chats 2..ChatCount
    engine,  \* "building", "open", "closed"
    open,    \* conversations that are open
    made,    \* conversations created so far
    raised   \* history: conversations whose close, or whose inspection as a clone, raised

lifetimeVars == <<chats, agents, engine, open, made, raised>>

Chats == 1..ChatCount
Agents == Chats \ {1}
Built(c) == chats[c].base # 0 /\ ~chats[c].closed
Conversations(c) == {chats[c].base, chats[c].working} \ {0}

\* The conversations in "these" are closed, those in "bad" refuse to.
Closes(these, bad) == open' = open \ (these \ bad) /\ raised' = raised \cup (these \cap bad)

KeepOpen == UNCHANGED <<open, raised>>

-----------------------------------------------------------------------------
(* Building.                                                               *)

\* NativeConversationChat.__init__: create, warm, clone.
BuildChat ==
    \E c \in Chats :
       /\ engine = "building" /\ chats[c].base = 0 /\ \A b \in 1..(c - 1) : Built(b)
       /\ made + 2 <= MaxConversations /\ made' = made + 2
       /\ chats' = [chats EXCEPT ![c] = [base |-> made + 1, working |-> made', closed |-> FALSE]]
       /\ open' = open \cup {made + 1, made'}
       /\ engine' = IF c = ChatCount THEN "open" ELSE engine
       /\ UNCHANGED <<agents, raised>>

\* A chat fails, with its BASE or with a clone of it (which is closed, refuses to, or is
\* lost at its inspection): after its BASE has been closed, the agents in reverse order,
\* the manager's chat and the engine are closed, up to the first close that raises.
BuildFails ==
    /\ engine = "building" /\ made' \in {made + 1, made + 2} /\ made' <= MaxConversations
    /\ \E bad \in SUBSET (open \cup ((made + 1)..made')) :
          LET stops == {c \in Chats : Built(c) /\ Conversations(c) \cap bad # {}}
              reached == {c \in Chats : Built(c) /\ \A s \in stops : c >= s}
              fresh == (made + 1)..made'
              these == (UNION {Conversations(c) : c \in reached}) \cup fresh
          IN  /\ open' = (open \cup fresh) \ (these \ bad) /\ raised' = raised \cup (these \cap bad)
              /\ chats' = [c \in Chats |-> IF c \in reached THEN [chats[c] EXCEPT !.closed = TRUE] ELSE chats[c]]
              /\ engine' = IF stops = {} THEN "closed" ELSE "abandoned"
    /\ UNCHANGED agents

-----------------------------------------------------------------------------
(* Dialogues.                                                              *)

\* There is no clone, or its length is not that of the BASE and it is closed again; it
\* stays open when that close raises, and when attaching the guard or the trace or reading
\* the token count did.
CloneFails ==
    /\ made < MaxConversations /\ made' = made + 1 /\ UNCHANGED chats
    /\ \/ KeepOpen
       \/ open' = open \cup {made'} /\ raised' = raised \cup {made'}

Replaces(c) ==
    /\ made < MaxConversations /\ made' = made + 1
    /\ chats' = [chats EXCEPT ![c].working = made']

\* Mutant: the old clone is closed before the new one is made.
NewDialogueClosesFirst(c, ok) ==
    LET old == chats[c].working
    IN  IF ok THEN Replaces(c) /\ open' = (open \ {old}) \cup {made'} /\ UNCHANGED raised
        ELSE /\ made < MaxConversations /\ made' = made + 1 /\ UNCHANGED chats
             /\ Closes({old}, {})

\* new_dialogue raises when there is no clone, and when the old one does not close.
NewDialogue(c, ok) ==
    LET old == chats[c].working
    IN  IF ok THEN Replaces(c) /\ open' = (open \ {old}) \cup {made'} /\ UNCHANGED raised
        ELSE \/ CloneFails
             \/ Replaces(c) /\ open' = open \cup {made'} /\ raised' = raised \cup {old}

ManagerResets ==
    /\ engine = "open" /\ \E ok \in BOOLEAN : NewDialogue(1, ok)
    /\ UNCHANGED <<agents, engine>>

AgentResets(c, from) ==
    /\ engine = "open" /\ agents[c] \in from
    /\ \E ok \in BOOLEAN : /\ NewDialogue(c, ok)
                           /\ agents' = [agents EXCEPT ![c] = IF ok THEN "FREE" ELSE "FAILED"]
    /\ UNCHANGED engine

Run(c) == AgentResets(c, {"FREE"})
LastSlice(c) == AgentResets(c, {"FREE", "WAITING"})
AbortSlices(c) == AgentResets(c, {"WAITING"})

Slice(c) ==
    /\ engine = "open" /\ agents[c] \in {"FREE", "WAITING"}
    /\ agents' = [agents EXCEPT ![c] = "WAITING"]
    /\ UNCHANGED <<chats, engine, open, made, raised>>

-----------------------------------------------------------------------------
\* NativeManager.close: the agents up to the first whose close raises, then the
\* manager's chat and the engine whatever happened before.
CloseManager ==
    /\ engine = "open" /\ engine' = "closed"
    /\ \E bad \in SUBSET open :
          LET reached == {c \in Agents : \A a \in Agents : a < c => Conversations(a) \cap bad = {}} \cup {1}
          IN  /\ Closes(UNION {Conversations(c) : c \in reached}, bad)
              /\ chats' = [c \in Chats |-> IF c \in reached THEN [chats[c] EXCEPT !.closed = TRUE] ELSE chats[c]]
    /\ UNCHANGED <<agents, made>>

LifetimeInit ==
    /\ chats = [c \in Chats |-> [base |-> 0, working |-> 0, closed |-> FALSE]]
    /\ agents = [c \in Agents |-> "FREE"]
    /\ engine = "building" /\ open = {} /\ made = 0 /\ raised = {}

LifetimeNext ==
    \/ BuildChat \/ BuildFails \/ ManagerResets \/ CloseManager
    \/ \E c \in Agents : Run(c) \/ Slice(c) \/ LastSlice(c) \/ AbortSlices(c)

LifetimeSpec == LifetimeInit /\ [][LifetimeNext]_lifetimeVars

-----------------------------------------------------------------------------
(* Properties.                                                             *)

\* Whatever fails: a chat in use has its BASE and its working dialogue ("Do not destroy
\* the current session on failure"), every other conversation is closed, or its close or
\* its inspection as a new clone has raised, and without such a raise none outlives the
\* engine.
ConversationsAccounted ==
    /\ \A c \in Chats : Built(c) => Conversations(c) \subseteq open
    /\ open \ raised \subseteq UNION {Conversations(c) : c \in {b \in Chats : Built(b)}}
    /\ engine = "closed" /\ raised = {} => open = {}

=============================================================================
