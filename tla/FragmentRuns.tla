---------------------------- MODULE FragmentRuns ----------------------------
(***************************************************************************)
(* cyclic_process and read_partly: a file in parts, each part read by the  *)
(* model in a context of its own, with a boundary after each at which the  *)
(* scheduler may run others or close the generator.  Two of them, of a     *)
(* turn and of an autonomous task, may write the same output file.         *)
(***************************************************************************)
EXTENDS Naturals

CONSTANTS Users,           \* who may run one
          Parts,           \* fragments of the file
          MaxFragmentRuns  \* bound: runs

ASSUME FragmentConstants == Parts \in Nat \ {0} /\ MaxFragmentRuns \in Nat

VARIABLES
    work,     \* user -> its generator
    temps,    \* temporary files in the directory of the output, by run: parts in them
    output,   \* parts in the output file, and the run it is of (0: the former file)
    children, \* runs whose child context is open
    litter,   \* history: runs whose temporary file could not be removed
    count     \* runs so far

fragmentVars == <<work, temps, output, children, litter, count>>

NoWork == [at |-> "none", run |-> 0, part |-> 0, cyclic |-> FALSE]

Moves(u, at) == work' = [work EXCEPT ![u].at = at]

-----------------------------------------------------------------------------
\* fork_child; a client that cannot fork, or a bad argument, ends it here.
Start(u, cyclic) ==
    /\ work[u] = NoWork /\ count < MaxFragmentRuns /\ count' = count + 1
    /\ work' = [work EXCEPT ![u] = [at |-> IF cyclic THEN "temp" ELSE "infer", run |-> count + 1,
                                    part |-> 0, cyclic |-> cyclic]]
    /\ children' = children \cup {count + 1}
    /\ UNCHANGED <<temps, output, litter>>

\* mkstemp
MakeTemp(u) ==
    /\ work[u].at = "temp" /\ Moves(u, "infer")
    /\ temps' = [k \in DOMAIN temps \cup {work[u].run} |-> IF k \in DOMAIN temps THEN temps[k] ELSE 0]
    /\ UNCHANGED <<output, children, litter, count>>

\* fragment_step: one inference and the reset of the child, up to the boundary.
Infer(u) ==
    /\ work[u].at = "infer" /\ Moves(u, "boundary")
    /\ UNCHANGED <<temps, output, children, litter, count>>

\* The part's result is kept; after the last part the output is replaced.
Collect(u) ==
    /\ work[u].at = "boundary"
    /\ work' = [work EXCEPT ![u].part = @ + 1,
                            ![u].at = IF work[u].part + 1 < Parts THEN "infer"
                                      ELSE IF work[u].cyclic THEN "replace" ELSE "leave"]
    /\ temps' = IF work[u].cyclic THEN [temps EXCEPT ![work[u].run] = @ + 1] ELSE temps
    /\ UNCHANGED <<output, children, litter, count>>

Replace(u) ==
    /\ work[u].at = "replace" /\ Moves(u, "leave")
    /\ output' = [run |-> work[u].run, parts |-> temps[work[u].run]]
    /\ temps' = [k \in DOMAIN temps \ {work[u].run} |-> temps[k]]
    /\ UNCHANGED <<children, litter, count>>

\* An exception of the model, of the file system, of a reset.
Fail(u) ==
    /\ work[u].at \in {"temp", "infer", "replace"} /\ Moves(u, "leave")
    /\ UNCHANGED <<temps, output, children, litter, count>>

\* The generator is closed at a boundary: GeneratorExit unwinds the same way.
CloseAtBoundary(u) ==
    /\ work[u].at = "boundary" /\ Moves(u, "leave")
    /\ UNCHANGED <<temps, output, children, litter, count>>

\* Mutant: a generator that is closed does not close its child.
UnwindFileOnly(u, removed) ==
    /\ work[u].at = "leave" /\ work' = [work EXCEPT ![u] = NoWork]
    /\ children' = IF work[u].part = Parts THEN children \ {work[u].run} ELSE children
    /\ IF work[u].run \notin DOMAIN temps THEN UNCHANGED <<temps, litter>>
       ELSE IF removed THEN temps' = [k \in DOMAIN temps \ {work[u].run} |-> temps[k]] /\ UNCHANGED litter
       ELSE litter' = litter \cup {work[u].run} /\ UNCHANGED temps
    /\ UNCHANGED <<output, count>>

\* The file is removed, which may fail; then managed_child closes the child.
Unwind(u, removed) ==
    /\ work[u].at = "leave" /\ work' = [work EXCEPT ![u] = NoWork]
    /\ children' = children \ {work[u].run}
    /\ IF work[u].run \notin DOMAIN temps THEN UNCHANGED <<temps, litter>>
       ELSE IF removed THEN temps' = [k \in DOMAIN temps \ {work[u].run} |-> temps[k]] /\ UNCHANGED litter
       ELSE litter' = litter \cup {work[u].run} /\ UNCHANGED temps
    /\ UNCHANGED <<output, count>>

-----------------------------------------------------------------------------
FragmentInit ==
    /\ work = [u \in Users |-> NoWork] /\ temps = [k \in {} |-> 0]
    /\ output = [run |-> 0, parts |-> Parts] /\ children = {} /\ litter = {} /\ count = 0

FragmentNext == \E u \in Users :
    \/ \E b \in BOOLEAN : Start(u, b) \/ Unwind(u, b)
    \/ MakeTemp(u) \/ Infer(u) \/ Collect(u) \/ Replace(u) \/ Fail(u) \/ CloseAtBoundary(u)

FragmentSpec == FragmentInit /\ [][FragmentNext]_fragmentVars

-----------------------------------------------------------------------------
\* However a run ends, completed, failed or closed between two parts, the output file
\* is the former one or all of some run's results, its child context is closed and no
\* temporary file stays, unless its removal failed.
NothingHalfDone ==
    /\ output.parts = Parts
    /\ children = {work[u].run : u \in Users} \ {0}
    /\ DOMAIN temps \subseteq litter \cup {work[u].run : u \in Users}

=============================================================================
