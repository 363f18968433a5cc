----------------------------- MODULE ProcessRuns -----------------------------
(***************************************************************************)
(* run_process: one command as a process group, its output and its input   *)
(* served by one select loop up to a deadline.  The command may fork,      *)
(* close its pipes, ignore its input or SIGTERM, and leave a descendant    *)
(* behind, which may also leave the group.                                 *)
(*                                                                         *)
(* The shell and command tools of the native model have a runner of their  *)
(* own: no input, no SIGTERM, and a bound on the output.                   *)
(***************************************************************************)
EXTENDS Naturals

CONSTANTS Descendants,  \* processes the command may fork
          MaxCommands   \* bound: commands

ASSUME ProcessConstants == "leader" \notin Descendants /\ MaxCommands \in Nat

VARIABLES
    runner,    \* where run_process is
    process,   \* process -> state, group membership, pipes
    unsent,    \* stdin data is left to write
    code,      \* returncode of the last command
    commands   \* commands so far

processVars == <<runner, process, unsent, code, commands>>

Processes == {"leader"} \cup Descendants
Living == {p \in Processes : process[p].alive}
Group == {p \in Living : process[p].inGroup}
Gone == [alive |-> FALSE, inGroup |-> FALSE, pipes |-> FALSE]
Born == [alive |-> TRUE, inGroup |-> TRUE, pipes |-> TRUE]
PipesOpen == unsent \/ \E p \in Living : process[p].pipes

-----------------------------------------------------------------------------
(* Where commands come from: each is refused, or runs as a process.         *)

\* Descendants of earlier commands may still run; their identifiers are taken.
Spawn(input, loop) ==
    /\ runner = "idle" /\ commands < MaxCommands /\ commands' = commands + 1
    /\ "leader" \notin Living
    /\ process' = [p \in Processes |-> IF p = "leader" THEN Born
                                       ELSE [process[p] EXCEPT !.inGroup = FALSE, !.pipes = FALSE]]
    /\ unsent' = input /\ runner' = loop /\ code' = "none"

Bash == Spawn(FALSE, "select")

\* The pipe of mosquitto_sub and jq, and mosquitto_pub: pseudo-commands.
MqttSub == Spawn(FALSE, "select")
MqttPub == Spawn(FALSE, "select")

\* A line of a scenario gets the output of the line before it.
ScenarioLine == \E input \in BOOLEAN : Spawn(input, "select")

\* Tools of the native model, refused while its BASE is warmed.
Shell == Spawn(FALSE, "read")
CommandTool == Spawn(FALSE, "read")

-----------------------------------------------------------------------------
(* The command.                                                             *)

Fork(p, k) ==
    /\ p \in Living /\ k \in Descendants \ Living
    /\ process' = [process EXCEPT ![k] = process[p]]
    /\ UNCHANGED <<runner, unsent, code, commands>>

LeaveGroup(k) ==
    /\ k \in Group \ {"leader"} /\ process' = [process EXCEPT ![k].inGroup = FALSE]
    /\ UNCHANGED <<runner, unsent, code, commands>>

ClosePipes(p) ==
    /\ p \in Living /\ process[p].pipes /\ process' = [process EXCEPT ![p].pipes = FALSE]
    /\ UNCHANGED <<runner, unsent, code, commands>>

Exit(p) ==
    /\ p \in Living /\ process' = [process EXCEPT ![p] = Gone]
    /\ UNCHANGED <<runner, unsent, code, commands>>

ReadInput ==
    /\ unsent /\ \E p \in Living : process[p].pipes
    /\ unsent' = FALSE
    /\ UNCHANGED <<runner, process, code, commands>>

-----------------------------------------------------------------------------
(* run_process.                                                             *)

\* Nobody is left to read: BrokenPipeError ends the writing.
BrokenPipe ==
    /\ runner = "select" /\ unsent /\ \A p \in Living : ~process[p].pipes
    /\ unsent' = FALSE
    /\ UNCHANGED <<runner, process, code, commands>>

Go(at) == runner' = at /\ UNCHANGED <<process, unsent, code, commands>>

AllRead == runner = "select" /\ ~PipesOpen /\ "leader" \notin Living /\ Go("reap")

Expire == runner = "select" /\ (PipesOpen \/ "leader" \in Living) /\ Go("term")

\* SIGTERM, which the command may ignore, and half a second for the leader.
Terminate == runner = "term" /\ Go("kill")

\* Mutant: only the leader is killed.
KillLeader ==
    /\ runner = "kill" /\ runner' = "reapExpired"
    /\ process' = [process EXCEPT !["leader"] = Gone]
    /\ UNCHANGED <<unsent, code, commands>>

\* SIGKILL to what is left of the group, also when its leader has exited.
KillGroup ==
    /\ runner' = "reapExpired"
    /\ process' = [p \in Processes |-> IF p \in Group THEN Gone ELSE process[p]]
    /\ UNCHANGED <<unsent, code, commands>>

Kill == runner = "kill" /\ KillGroup

\* An exception in the loop: the group is killed if its leader still runs.
Raise ==
    /\ runner = "select" /\ runner' = "raised"
    /\ process' = [p \in Processes |-> IF "leader" \in Living /\ p \in Group THEN Gone ELSE process[p]]
    /\ UNCHANGED <<unsent, code, commands>>

\* The native loop reads to the end of the output and then waits for the leader.
EndOfOutput == runner = "read" /\ ~PipesOpen /\ Go("wait")
LeaderExits == runner = "wait" /\ "leader" \notin Living /\ Go("reap")

\* The deadline, the bound on the output, or an error of the loop.
Overrun ==
    /\ \/ runner = "read"
       \/ runner = "wait" /\ "leader" \in Living
    /\ Go("overrun")

NativeKill == runner = "overrun" /\ KillGroup

Return ==
    /\ runner \in {"reap", "reapExpired", "raised"} /\ "leader" \notin Living
    /\ runner' = "idle" /\ unsent' = FALSE
    /\ code' = CASE runner = "reapExpired" -> "124" [] runner = "reap" -> "exit" [] OTHER -> "exception"
    /\ UNCHANGED <<process, commands>>

-----------------------------------------------------------------------------
ProcessInit ==
    /\ runner = "idle" /\ process = [p \in Processes |-> Gone]
    /\ unsent = FALSE /\ code = "none" /\ commands = 0

Command ==
    \/ \E p \in Processes : ClosePipes(p) \/ Exit(p) \/ \E k \in Descendants : Fork(p, k)
    \/ \E k \in Descendants : LeaveGroup(k)
    \/ ReadInput

Runner == \/ BrokenPipe \/ AllRead \/ Expire \/ Terminate \/ Kill
          \/ EndOfOutput \/ LeaderExits \/ Overrun \/ NativeKill
          \/ Return

ProcessNext == \/ Bash \/ MqttSub \/ MqttPub \/ ScenarioLine \/ Shell \/ CommandTool
               \/ Command \/ Runner \/ Raise

ProcessSpec == ProcessInit /\ [][ProcessNext]_processVars

-----------------------------------------------------------------------------
(* Properties.                                                             *)

\* A command that is reported as timed out, whose side effects may be partial, does
\* not go on producing them: of its process group nothing runs any more.
TimedOutGroupIsGone == runner = "idle" /\ code = "124" => Group = {}

=============================================================================
