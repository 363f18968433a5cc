----------------------------- MODULE TurnProofs -----------------------------
(***************************************************************************)
(* Proofs about what a model's turn leaves behind: the budget, the tasks   *)
(* and the reports of a native turn, and the session of the LiteRT client. *)
(***************************************************************************)
EXTENDS NativeTurns, ModelContext, TLAPS

-----------------------------------------------------------------------------
(* NativeTurns.                                                            *)

Places == {"idle", "model", "said", "raised", "next", "tool", "write", "ok", "error"}
IsStep(s) == s \in [at : Places, who : {s.who}, tool : {s.tool}]
Budgets == [active : BOOLEAN, late : BOOLEAN, calls : Nat]
IsBroker(b) == {"reports", "failures"} \subseteq DOMAIN b /\ b.reports \in Nat /\ b.failures \in Nat
Histories == [ran : Nat, after : Nat, created : Nat, spoilt : BOOLEAN, hushed : BOOLEAN]

NativeTypes ==
    /\ IsStep(step) /\ allowance \in Budgets /\ IsBroker(broker) /\ done \in Histories
    /\ attempted \in BOOLEAN

Approved == step.at \in {"tool", "write"}

\* Each tool was paid from the budget, the one at work included; none was approved after
\* the turn was over.
BudgetOK ==
    /\ allowance.calls <= MaxCallsOfTurn
    /\ Approved => done.ran < allowance.calls /\ done.after = 0
    /\ done.ran <= allowance.calls /\ done.after <= 1
    /\ done.after # 0 => Over

\* A task was created in the one attempt.
CreatedOK == done.created <= 1 /\ (done.created # 0 => attempted)

\* A tool's failure is in the ledger of its call, unless its result is still to be
\* processed, and a failed call is among the reports.
ToldOK ==
    /\ done.spoilt => status # 0 \/ step.at = "error"
    /\ broker.failures <= broker.reports
    /\ ~done.hushed

NativeInv == NativeTypes /\ BudgetOK /\ CreatedOK /\ ToldOK

LEMMA NativeInitially ==
    ASSUME TurnLimits, NativeInit
    PROVE  NativeInv
<1>1. /\ done.ran = 0 /\ done.after = 0 /\ done.created = 0 /\ ~done.spoilt /\ ~done.hushed
      /\ broker.reports = 0 /\ broker.failures = 0 /\ allowance.calls = 0 /\ ~Approved
  BY DEF NativeInit, NoStep, Approved
<1>2. NativeTypes
  <2>1. IsStep(step)
    BY DEF NativeInit, NoStep, IsStep, Places, NativeChats
  <2>2. done \in Histories
    BY DEF NativeInit, Histories
  <2>3. allowance \in Budgets
    BY DEF NativeInit, Budgets
  <2>4. IsBroker(broker)
    BY DEF NativeInit, IsBroker
  <2>. QED
    BY <2>1, <2>2, <2>3, <2>4 DEF NativeInit, NativeTypes
<1>. QED
  BY <1>1, <1>2 DEF NativeInv, BudgetOK, CreatedOK, ToldOK, TurnLimits

\* IsStep that touch neither the budget nor the history keep all of it, unless they begin a
\* tool or take its failure away.
LEMMA OtherwiseKeeps ==
    ASSUME NativeInv, NativeTypes', UNCHANGED <<done, attempted>>,
           allowance'.calls = allowance.calls, Over => Over',
           Approved' => Approved,
           status' = status \/ status' # 0, step.at = "error" => step'.at = "error" \/ status' # 0,
           broker'.failures <= broker'.reports
    PROVE  NativeInv'
  BY DEF NativeInv, BudgetOK, CreatedOK, ToldOK

LEMMA TypesOf ==
    ASSUME NativeTypes
    PROVE  /\ done.ran \in Nat /\ done.after \in Nat /\ done.created \in Nat
           /\ done.spoilt \in BOOLEAN /\ done.hushed \in BOOLEAN
           /\ broker.reports \in Nat /\ broker.failures \in Nat /\ allowance.calls \in Nat
           /\ allowance.active \in BOOLEAN /\ allowance.late \in BOOLEAN
           /\ step.at \in Places
  BY DEF NativeTypes, Histories, IsBroker, Budgets, IsStep

LEMMA PlacesMove ==
    ASSUME IsStep(step), NEW place \in Places
    PROVE  IsStep(AtPlace(place)) /\ AtPlace(place).at = place
  BY DEF AtPlace, IsStep

LEMMA ModelKeeps == NativeInv /\ Model => NativeInv'
<1>. SUFFICES ASSUME NativeInv, Model PROVE NativeInv'
  OBVIOUS
<1>1. UNCHANGED <<allowance, broker, status, attempted, done>> /\ step.at # "error"
  BY DEF Model, Generate, Continues, InferenceFails
<1>2. PICK place \in {"raised", "said", "model"} : step' = AtPlace(place)
  BY DEF Model, Generate, Continues, InferenceFails
<1>3. IsStep(step') /\ step'.at = place
  BY <1>2, PlacesMove DEF NativeInv, NativeTypes, Places
<1>4. NativeTypes' /\ ~Approved' /\ (Over => Over')
  BY <1>1, <1>3 DEF NativeInv, NativeTypes, Approved, Over
<1>. QED
  BY <1>1, <1>4, OtherwiseKeeps DEF NativeInv, ToldOK

LEMMA StartKeeps == TurnLimits /\ NativeInv /\ StartTurn => NativeInv'
<1>. SUFFICES ASSUME TurnLimits, NativeInv, StartTurn PROVE NativeInv'
  OBVIOUS
<1>1. IsStep(step') /\ step'.at = "model"
  BY DEF StartTurn, NoStep, IsStep, Places, NativeChats
<1>2. done' \in Histories /\ done'.ran = 0 /\ done'.after = 0 /\ done'.created = 0
      /\ ~done'.spoilt /\ ~done'.hushed
  BY DEF StartTurn, Histories
<1>3. allowance' \in Budgets /\ allowance'.calls = 0
  BY DEF StartTurn, Budgets
<1>4. IsBroker(broker') /\ broker'.failures = 0 /\ broker'.reports = 0
  BY DEF StartTurn, IsBroker
<1>5. attempted' \in BOOLEAN
  BY DEF StartTurn
<1>. QED
  BY <1>1, <1>2, <1>3, <1>4, <1>5
  DEF NativeInv, NativeTypes, BudgetOK, CreatedOK, ToldOK, Approved, TurnLimits

LEMMA GuardKeeps ==
    ASSUME TurnLimits, NativeInv, NEW tool \in {"plain"} \cup ManagerTools, ApproveToolCall(tool)
    PROVE  NativeInv'
<1>1. UNCHANGED <<broker, attempted, done>> /\ step.at = "said"
  BY DEF ApproveToolCall
<1>2. CASE StopsTurn /\ UNCHANGED allowance
  <2>1. step' = AtPlace("raised") /\ status' = 1 /\ UNCHANGED allowance
    BY <1>2 DEF StopsTurn
  <2>2. IsStep(step') /\ step'.at = "raised"
    BY <2>1, PlacesMove DEF NativeInv, NativeTypes, Places
  <2>3. NativeTypes' /\ ~Approved' /\ (Over => Over')
    BY <1>1, <2>1, <2>2 DEF NativeInv, NativeTypes, Approved, Over
  <2>. QED
    BY <1>1, <2>1, <2>3, OtherwiseKeeps DEF NativeInv, ToldOK
<1>3. CASE /\ step' = [AtPlace("tool") EXCEPT !.tool = tool]
           /\ allowance' = [allowance EXCEPT !.calls = @ + 1]
           /\ UNCHANGED status
           /\ ~Over /\ allowance.calls < MaxCallsOfTurn
  <2>1. IsStep(step') /\ step'.at = "tool"
    <3>1. IsStep(AtPlace("tool")) /\ AtPlace("tool").at = "tool"
      BY PlacesMove DEF NativeInv, NativeTypes, Places
    <3>. QED
      BY <1>3, <3>1 DEF IsStep, ManagerTools
  <2>2. allowance' \in Budgets /\ allowance'.calls = allowance.calls + 1
        /\ allowance'.active = allowance.active /\ allowance'.late = allowance.late
    BY <1>3 DEF NativeInv, NativeTypes, Budgets
  <2>3. ~Over' /\ done.after = 0
    BY <1>3, <2>2 DEF Over, NativeInv, BudgetOK
  <2>4. NativeTypes'
    BY <1>1, <2>1, <2>2 DEF NativeInv, NativeTypes
  <2>5. BudgetOK'
    BY <1>1, <1>3, <2>1, <2>2, <2>3, TypesOf DEF NativeInv, BudgetOK, TurnLimits
  <2>. QED
    BY <1>1, <1>3, <2>1, <2>4, <2>5 DEF NativeInv, CreatedOK, ToldOK
<1>4. allowance.calls >= MaxCallsOfTurn \/ allowance.calls < MaxCallsOfTurn
  BY TypesOf DEF TurnLimits, NativeInv
<1>. QED
  BY <1>2, <1>3, <1>4 DEF ApproveToolCall, NativeInv

LEMMA CountedIs ==
    ASSUME done \in Histories
    PROVE  /\ Counted \in Histories /\ Counted.ran = done.ran + 1 /\ Counted.created = done.created
           /\ Over => Counted.after = done.after + 1
           /\ ~Over => Counted.after = done.after
           /\ Counted.spoilt = done.spoilt /\ Counted.hushed = done.hushed
<1>. DEFINE after == IF Over THEN done.after + 1 ELSE done.after
<1>1. done.ran + 1 \in Nat /\ after \in Nat
  BY DEF Histories
<1>2. Counted = [done EXCEPT !.ran = done.ran + 1, !.after = after]
  BY Zenon DEF Counted
<1>3. (Over => after = done.after + 1) /\ (~Over => after = done.after)
  OBVIOUS
<1>. HIDE DEF after
<1>4. /\ Counted.ran = done.ran + 1 /\ Counted.after = after
      /\ Counted.created = done.created
  BY <1>1, <1>2 DEF Histories
<1>5. Counted.spoilt = done.spoilt /\ Counted.hushed = done.hushed
  BY <1>1, <1>2 DEF Histories
<1>6. Counted \in Histories
  BY <1>1, <1>2 DEF Histories
<1>. QED
  BY <1>3, <1>4, <1>5, <1>6

\* A tool has had its effect, or failed, and is counted.
LEMMA EffectKeeps ==
    ASSUME NativeInv, Approved, NEW result \in {"ok", "error"}, ToolRuns(result),
           NEW after \in {Counted, [Counted EXCEPT !.created = @ + 1]}, NEW bad \in BOOLEAN,
           done' = [after EXCEPT !.spoilt = @ \/ bad], bad => result = "error",
           IsBroker(broker'), broker'.failures = broker.failures, broker'.reports = broker.reports,
           attempted' \in BOOLEAN, attempted => attempted',
           after # Counted => ~attempted /\ attempted'
    PROVE  NativeInv'
<1>1. step' = AtPlace(result) /\ UNCHANGED <<allowance, status>>
  BY DEF ToolRuns
<1>2. IsStep(step') /\ step'.at = result
  BY <1>1, PlacesMove DEF NativeInv, NativeTypes, Places
<1>3. done \in Histories
  BY DEF NativeInv, NativeTypes
<1>4. Counted \in Histories /\ Counted.ran = done.ran + 1 /\ Counted.created = done.created
      /\ (Over => Counted.after = done.after + 1) /\ (~Over => Counted.after = done.after)
      /\ Counted.spoilt = done.spoilt /\ Counted.hushed = done.hushed
  BY <1>3, CountedIs
<1>5. after \in Histories /\ after.ran = Counted.ran /\ after.after = Counted.after
      /\ after.created = (IF after = Counted THEN done.created ELSE done.created + 1)
      /\ after.spoilt = done.spoilt /\ after.hushed = done.hushed
  BY <1>4 DEF Histories
<1>6. done' \in Histories /\ done'.ran = after.ran /\ done'.after = after.after
      /\ done'.created = after.created /\ done'.hushed = after.hushed
      /\ done'.spoilt = (after.spoilt \/ bad)
  BY <1>5 DEF Histories
<1>7. Over' = Over
  BY <1>1 DEF Over
<1>8. NativeTypes'
  BY <1>1, <1>2, <1>6 DEF NativeInv, NativeTypes
<1>9. BudgetOK'
  BY <1>1, <1>2, <1>4, <1>5, <1>6, <1>7, TypesOf DEF NativeInv, BudgetOK, Approved
<1>10. CreatedOK'
  BY <1>4, <1>5, <1>6, TypesOf DEF NativeInv, CreatedOK
<1>11. done'.spoilt => status' # 0 \/ step'.at = "error"
  <2>1. step.at # "error"
    BY DEF Approved
  <2>. QED
    BY <1>1, <1>2, <1>5, <1>6, <2>1 DEF NativeInv, ToldOK
<1>12. ~done'.hushed
  BY <1>5, <1>6 DEF NativeInv, ToldOK
<1>. QED
  BY <1>8, <1>9, <1>10, <1>11, <1>12 DEF NativeInv, ToldOK

LEMMA SameHistory ==
    ASSUME NEW h \in Histories
    PROVE  h = [h EXCEPT !.spoilt = @ \/ FALSE]
  BY DEF Histories

LEMMA CountedOK ==
    ASSUME NativeInv
    PROVE  Counted \in Histories /\ [Counted EXCEPT !.created = @ + 1] \in Histories
<1>1. Counted \in Histories
  BY CountedIs DEF NativeInv, NativeTypes
<1>. QED
  BY <1>1 DEF Histories

LEMMA ToolsKeep ==
    ASSUME NativeInv,
           \/ \E ok \in BOOLEAN : PlainTool(ok)
           \/ \E a \in Helpers : EnqueueCall(a)
           \/ \E b, c \in BOOLEAN : CreateByTool(b, c) \/ ChangeTask(b, c)
           \/ GetTask
    PROVE  NativeInv'
<1>1. attempted \in BOOLEAN /\ IsBroker(broker)
  BY DEF NativeInv, NativeTypes
<1>2. ASSUME NEW ok \in BOOLEAN, PlainTool(ok)
      PROVE  NativeInv'
  <2>. DEFINE result == IF ok THEN "ok" ELSE "error"
              bad == ~ok
  <2>1. ToolRuns(result) /\ done' = [Counted EXCEPT !.spoilt = @ \/ bad] /\ UNCHANGED <<broker, attempted>>
        /\ Approved /\ result \in {"ok", "error"} /\ bad \in BOOLEAN /\ (bad => result = "error")
    BY <1>2 DEF PlainTool, Approved
  <2>. HIDE DEF result, bad
  <2>. QED
    BY <1>1, <2>1, EffectKeeps
<1>3. ASSUME NEW result \in {"ok", "error"}, ToolRuns(result), Approved,
             done' \in {Counted, [Counted EXCEPT !.created = @ + 1]},
             IsBroker(broker'), broker'.failures = broker.failures, broker'.reports = broker.reports,
             attempted' \in BOOLEAN, attempted => attempted', done' # Counted => ~attempted /\ attempted'
      PROVE  NativeInv'
  <2>1. PICK after \in {Counted, [Counted EXCEPT !.created = @ + 1]} : done' = after
    BY <1>3
  <2>2. done' = [after EXCEPT !.spoilt = @ \/ FALSE]
    BY <2>1, CountedOK, SameHistory
  <2>. QED
    BY <1>3, <2>1, <2>2, EffectKeeps
<1>4. ASSUME NEW a \in Helpers, EnqueueCall(a)
      PROVE  NativeInv'
  <2>1. Approved /\ done' = Counted /\ UNCHANGED attempted
    BY <1>4 DEF EnqueueCall, Approved
  <2>2. IsBroker(broker') /\ broker'.failures = broker.failures /\ broker'.reports = broker.reports
    <3>1. CASE UNCHANGED broker
      BY <1>1, <3>1
    <3>2. CASE broker' = [broker EXCEPT !.count = @ + 1, !.queued = Append(@, a)]
      BY <1>1, <3>2 DEF IsBroker
    <3>. QED
      BY <1>4, <3>1, <3>2 DEF EnqueueCall
  <2>3. ToolRuns("ok") \/ ToolRuns("error")
    BY <1>4 DEF EnqueueCall
  <2>. QED
    BY <1>1, <1>3, <2>1, <2>2, <2>3
<1>5. ASSUME NEW b \in BOOLEAN, NEW c \in BOOLEAN, CreateByTool(b, c)
      PROVE  NativeInv'
  <2>1. Approved /\ UNCHANGED broker
    BY <1>5 DEF CreateByTool, Approved
  <2>2. CASE attempted
    <3>1. ToolRuns("error") /\ done' = Counted /\ UNCHANGED attempted
      BY <1>5, <2>2 DEF CreateByTool
    <3>. QED
      BY <1>1, <1>3, <2>1, <3>1
  <2>3. CASE ~attempted
    <3>1. (ToolRuns("ok") \/ ToolRuns("error")) /\ attempted' = TRUE
      BY <1>5, <2>3 DEF CreateByTool
    <3>2. done' \in {Counted, [Counted EXCEPT !.created = @ + 1]}
      <4>1. done' = [Counted EXCEPT !.created = IF b THEN @ + 1 ELSE @]
        BY <1>5, <2>3 DEF CreateByTool
      <4>2. Counted = [Counted EXCEPT !.created = @]
        BY CountedOK DEF Histories
      <4>. QED
        BY <4>1, <4>2
    <3>. QED
      BY <1>1, <1>3, <2>1, <2>3, <3>1, <3>2
  <2>. QED
    BY <1>1, <2>2, <2>3
<1>6. ASSUME NEW b \in BOOLEAN, NEW c \in BOOLEAN, ChangeTask(b, c)
      PROVE  NativeInv'
  <2>1. Approved /\ done' = Counted /\ UNCHANGED <<broker, attempted>>
        /\ (ToolRuns("ok") \/ ToolRuns("error"))
    BY <1>6 DEF ChangeTask, Approved
  <2>. QED
    BY <1>1, <1>3, <2>1
<1>7. CASE GetTask
  <2>1. Approved /\ UNCHANGED <<broker, attempted>> /\ step.at # "error"
    BY <1>7 DEF GetTask, Approved
  <2>2. CASE (ToolRuns("ok") \/ ToolRuns("error")) /\ done' = Counted
    BY <1>1, <1>3, <2>1, <2>2
  <2>3. CASE ToolRuns("write") /\ UNCHANGED done
    <3>1. IsStep(step') /\ UNCHANGED <<allowance, status>>
      BY <2>3, PlacesMove DEF ToolRuns, NativeInv, NativeTypes, Places
    <3>2. NativeTypes' /\ (Over => Over')
      BY <2>1, <2>3, <3>1 DEF NativeInv, NativeTypes, Over
    <3>. QED
      BY <2>1, <2>3, <3>1, <3>2, OtherwiseKeeps DEF NativeInv, ToldOK
  <2>. QED
    BY <1>7, <2>2, <2>3 DEF GetTask
<1>. QED
  BY <1>2, <1>4, <1>5, <1>6, <1>7

LEMMA ResultKeeps ==
    ASSUME NativeInv, NEW size \in 1..MaxResult, ProcessToolResponse(size)
    PROVE  NativeInv'
<1>1. UNCHANGED <<allowance, broker, attempted, done>> /\ step.at \in {"ok", "error"} /\ ~Approved
  BY DEF ProcessToolResponse, Approved
<1>2. PICK place \in {"raised", "said"} : step' \in {AtPlace(place), [AtPlace(place) EXCEPT !.tool = "none"]}
  BY DEF ProcessToolResponse, StopsTurn
<1>3. IsStep(step') /\ step'.at = place
  <2>1. IsStep(AtPlace(place)) /\ AtPlace(place).at = place
    BY PlacesMove DEF NativeInv, NativeTypes, Places
  <2>. QED
    BY <1>2, <2>1 DEF IsStep
<1>4. status' = status \/ status' # 0
  BY DEF ProcessToolResponse, StopsTurn
<1>5. step.at = "error" => status' # 0
  BY DEF ProcessToolResponse, StopsTurn
<1>6. NativeTypes' /\ ~Approved' /\ (Over => Over')
  BY <1>1, <1>3 DEF NativeInv, NativeTypes, Approved, Over
<1>. QED
  BY <1>1, <1>4, <1>5, <1>6, OtherwiseKeeps DEF NativeInv, ToldOK

LEMMA EndKeeps ==
    ASSUME NativeInv, step.at # "error", EndTurn(FALSE), UNCHANGED <<allowance, status, attempted>>
    PROVE  NativeInv'
<1>1. IsStep(step') /\ step'.at = "idle"
  BY DEF EndTurn, NoStep, IsStep, Places, NativeChats
<1>2. IsBroker(broker') /\ broker'.failures <= broker'.reports
  BY DEF EndTurn, NativeInv, NativeTypes, IsBroker
<1>3. done' = done
  BY DEF EndTurn, NativeInv, NativeTypes, Histories
<1>4. NativeTypes' /\ ~Approved' /\ (Over => Over')
  BY <1>1, <1>2, <1>3 DEF NativeInv, NativeTypes, Approved, Over
<1>. QED
  BY <1>2, <1>3, <1>4, OtherwiseKeeps

LEMMA AsksKeeps ==
    ASSUME NativeInv, NEW c, Asks(c), UNCHANGED attempted,
           IsBroker(broker'), broker'.failures <= broker'.reports
    PROVE  NativeInv'
<1>1. IsStep(step') /\ step'.at \in {"model", "raised"}
  BY DEF Asks, IsStep, Places
<1>2. allowance' = allowance
  BY DEF Asks, Allowance
<1>3. /\ done' \in Histories /\ done'.ran = done.ran /\ done'.after = done.after
      /\ done'.created = done.created
  BY DEF Asks, NativeInv, NativeTypes, Histories
<1>4. done'.hushed = done.hushed /\ ~done'.spoilt
  BY DEF Asks, NativeInv, NativeTypes, Histories
<1>5. NativeTypes'
  BY <1>1, <1>2, <1>3 DEF NativeInv, NativeTypes
<1>6. BudgetOK'
  BY <1>1, <1>2, <1>3 DEF NativeInv, BudgetOK, Approved, Over
<1>. QED
  BY <1>3, <1>4, <1>5, <1>6 DEF NativeInv, CreatedOK, ToldOK

LEMMA ManagerTurnKeeps == NativeInv /\ (ManagerAnswers \/ ManagerRaises) => NativeInv'
<1>. SUFFICES ASSUME NativeInv, ManagerAnswers \/ ManagerRaises PROVE NativeInv'
  OBVIOUS
<1>1. step.at \in {"said", "raised"} /\ UNCHANGED <<allowance, status, attempted>>
  <2>1. CASE ManagerAnswers
    <3>1. step = [AtPlace("said") EXCEPT !.who = "manager"]
      BY <2>1 DEF ManagerAnswers
    <3>2. IsStep(AtPlace("said")) /\ AtPlace("said").at = "said"
      BY PlacesMove DEF NativeInv, NativeTypes, Places
    <3>. QED
      BY <2>1, <3>1, <3>2 DEF ManagerAnswers, IsStep
  <2>. QED
    BY <2>1 DEF ManagerRaises
<1>2. CASE EndTurn(FALSE)
  BY <1>1, <1>2, EndKeeps
<1>3. CASE /\ step' = AtPlace("next") /\ UNCHANGED done
           /\ broker' = [broker EXCEPT !.queued = <<>>, !.taken = broker.queued]
  <2>1. IsStep(step') /\ step'.at = "next"
    BY <1>3, PlacesMove DEF NativeInv, NativeTypes, Places
  <2>2. IsBroker(broker') /\ broker'.failures = broker.failures /\ broker'.reports = broker.reports
    BY <1>3 DEF NativeInv, NativeTypes, IsBroker
  <2>3. NativeTypes' /\ ~Approved' /\ (Over => Over')
    BY <1>1, <1>3, <2>1, <2>2 DEF NativeInv, NativeTypes, Approved, Over
  <2>. QED
    BY <1>1, <1>3, <2>2, <2>3, OtherwiseKeeps DEF NativeInv, ToldOK
<1>. QED
  BY <1>2, <1>3 DEF ManagerAnswers, ManagerRaises

LEMMA NextCallKeeps == NativeInv /\ NextCall => NativeInv'
<1>. SUFFICES ASSUME NativeInv, NextCall PROVE NativeInv'
  OBVIOUS
<1>1. step.at = "next" /\ UNCHANGED attempted
  BY DEF NextCall
<1>2. IsBroker(broker) /\ broker.failures <= broker.reports
  BY DEF NativeInv, NativeTypes, ToldOK
<1>3. CASE /\ ~allowance.active \/ (broker.taken = <<>> /\ broker.reports = 0)
           /\ EndTurn(allowance.active /\ broker.failures > 0)
           /\ UNCHANGED <<allowance, status>>
  <2>1. ~(allowance.active /\ broker.failures > 0)
    BY <1>2, <1>3 DEF IsBroker
  <2>2. EndTurn(FALSE)
    BY <1>3, <2>1 DEF EndTurn
  <2>. QED
    BY <1>1, <1>3, <2>2, EndKeeps
<1>4. CASE Asks("manager") /\ broker' = [broker EXCEPT !.reports = 0, !.failures = 0]
  <2>1. IsBroker(broker') /\ broker'.failures <= broker'.reports
    BY <1>2, <1>4 DEF IsBroker
  <2>. QED
    BY <1>1, <1>4, <2>1, AsksKeeps DEF NativeChats
<1>5. CASE /\ Asks(Head(broker.taken)) /\ UNCHANGED broker
  BY <1>1, <1>2, <1>5, AsksKeeps
<1>6. CASE /\ broker' = [broker EXCEPT !.taken = Tail(@), !.reports = @ + 1, !.failures = @ + 1]
           /\ UNCHANGED <<step, allowance, status, done>>
  <2>1. IsBroker(broker') /\ broker'.failures <= broker'.reports
    BY <1>2, <1>6 DEF IsBroker
  <2>2. NativeTypes' /\ ~Approved' /\ (Over => Over')
    BY <1>1, <1>6, <2>1 DEF NativeInv, NativeTypes, Approved, Over
  <2>. QED
    BY <1>1, <1>6, <2>1, <2>2, OtherwiseKeeps
<1>. QED
  BY <1>3, <1>4, <1>5, <1>6 DEF NextCall

LEMMA HelperKeeps ==
    ASSUME NativeInv, NEW silent \in BOOLEAN, NEW reset \in BOOLEAN, HelperReturns(silent, reset)
    PROVE  NativeInv'
<1>. DEFINE fails == step.at = "raised" \/ status # 0 \/ ~reset
<1>1. /\ broker' = [broker EXCEPT !.taken = Tail(@),
                                  !.reports = IF ~fails /\ silent THEN @ ELSE @ + 1,
                                  !.failures = IF fails THEN @ + 1 ELSE @]
      /\ done' = [done EXCEPT !.hushed = @ \/ (done.spoilt /\ ~fails)]
      /\ UNCHANGED <<allowance, status, attempted>> /\ step.at \in {"raised", "said"}
      /\ step' = [NoStep EXCEPT !.at = "next"]
  BY DEF HelperReturns
<1>2. done.spoilt => status # 0
  BY <1>1 DEF NativeInv, ToldOK
<1>3. done' = done
  <2>1. ~(done.spoilt /\ ~fails)
    BY <1>2
  <2>2. done' = [done EXCEPT !.hushed = @ \/ FALSE]
    BY <1>1, <2>1
  <2>. QED
    BY <2>2 DEF NativeInv, NativeTypes, Histories
<1>4. IsBroker(broker') /\ broker'.failures <= broker'.reports
  <2>1. IsBroker(broker) /\ broker.failures <= broker.reports
    BY DEF NativeInv, NativeTypes, ToldOK
  <2>2. CASE fails
    <3>1. broker' = [broker EXCEPT !.taken = Tail(@), !.reports = @ + 1, !.failures = @ + 1]
      BY <1>1, <2>2
    <3>. QED
      BY <2>1, <3>1 DEF IsBroker
  <2>3. CASE ~fails
    <3>1. CASE silent
      <4>1. broker' = [broker EXCEPT !.taken = Tail(@), !.reports = @, !.failures = @]
        BY <1>1, <2>3, <3>1
      <4>. QED
        BY <2>1, <4>1 DEF IsBroker
    <3>2. CASE ~silent
      <4>1. broker' = [broker EXCEPT !.taken = Tail(@), !.reports = @ + 1, !.failures = @]
        BY <1>1, <2>3, <3>2
      <4>. QED
        BY <2>1, <4>1 DEF IsBroker
    <3>. QED
      BY <3>1, <3>2
  <2>. QED
    BY <2>2, <2>3
<1>5. IsStep(step') /\ step'.at = "next"
  BY <1>1 DEF NoStep, IsStep, Places, NativeChats
<1>6. NativeTypes' /\ ~Approved' /\ (Over => Over')
  BY <1>1, <1>3, <1>4, <1>5 DEF NativeInv, NativeTypes, Approved, Over
<1>. QED
  BY <1>1, <1>3, <1>4, <1>6, OtherwiseKeeps

LEMMA WorldKeeps ==
    ASSUME NativeInv,
           \/ ResetManager \/ ClientLeaves \/ DeadlinePasses
           \/ \E r \in {"none", "own", "foreign"} : OtherClient(r)
           \/ UNCHANGED nativeVars
    PROVE  NativeInv'
<1>1. UNCHANGED <<step, broker, status, attempted, done>>
  BY DEF ResetManager, ClientLeaves, DeadlinePasses, OtherClient, nativeVars
<1>2. /\ allowance' \in Budgets /\ allowance'.calls = allowance.calls
      /\ (~allowance.active => ~allowance'.active) /\ (allowance.late => allowance'.late)
  <2>1. \/ UNCHANGED allowance
        \/ allowance' = [allowance EXCEPT !.active = FALSE]
        \/ allowance' = [allowance EXCEPT !.late = TRUE]
    BY DEF ResetManager, ClientLeaves, DeadlinePasses, OtherClient, nativeVars
  <2>. QED
    BY <2>1 DEF NativeInv, NativeTypes, Budgets
<1>3. NativeTypes' /\ (Approved' => Approved) /\ (Over => Over')
  BY <1>1, <1>2 DEF NativeInv, NativeTypes, Approved, Over
<1>. QED
  BY <1>1, <1>2, <1>3, OtherwiseKeeps DEF NativeInv, ToldOK

LEMMA NativeKeeps == TurnLimits /\ NativeInv /\ [NativeNext]_nativeVars => NativeInv'
<1>. SUFFICES ASSUME TurnLimits, NativeInv, [NativeNext]_nativeVars PROVE NativeInv'
  OBVIOUS
<1>1. CASE ToolStep
  <2>1. CASE \E tool \in {"plain"} \cup ManagerTools : ApproveToolCall(tool)
    BY <2>1, GuardKeeps
  <2>2. CASE \E size \in 1..MaxResult : ProcessToolResponse(size)
    BY <2>2, ResultKeeps
  <2>. QED
    BY <1>1, <2>1, <2>2, ToolsKeep DEF ToolStep
<1>2. CASE \E b, c \in BOOLEAN : HelperReturns(b, c)
  BY <1>2, HelperKeeps
<1>. QED
  BY <1>1, <1>2, StartKeeps, ModelKeeps, ManagerTurnKeeps, NextCallKeeps, WorldKeeps DEF NativeNext

LEMMA NativeInvHolds == ASSUME TurnLimits PROVE NativeSpec => []NativeInv
<1>1. NativeInit => NativeInv
  BY NativeInitially
<1>2. NativeInv /\ [NativeNext]_nativeVars => NativeInv'
  BY NativeKeeps
<1>. QED
  BY <1>1, <1>2, PTL DEF NativeSpec

\* The budget of a turn (ToolGuard.approve_tool_call over TURN_BUDGET): whatever the
\* agents, the limits and the window, the conversations of one turn run together no more
\* tools than max_calls, at most one after the turn is over, and create one task at most.
THEOREM TurnIsBoundedProved == ASSUME TurnLimits PROVE NativeSpec => []TurnIsBounded
<1>1. NativeInv => TurnIsBounded
  <2>. SUFFICES ASSUME NativeInv PROVE TurnIsBounded
    OBVIOUS
  <2>1. done.ran <= allowance.calls /\ allowance.calls <= MaxCallsOfTurn
        /\ done.after <= 1 /\ done.created <= 1
    BY DEF NativeInv, BudgetOK, CreatedOK
  <2>2. done.ran \in Nat /\ allowance.calls \in Nat /\ MaxCallsOfTurn \in Nat
    BY TypesOf DEF NativeInv, TurnLimits
  <2>. QED
    BY <2>1, <2>2 DEF TurnIsBounded
<1>. QED
  BY <1>1, NativeInvHolds, PTL

\* Reports of delegated calls (NativeAgent.run, DelegationBroker): a call in which a tool
\* failed never counts as a success, and the manager is asked again as long as a failed
\* call has not been reported to it.
THEOREM FailuresAreToldProved == ASSUME TurnLimits PROVE NativeSpec => []FailuresAreTold
<1>1. NativeInv => FailuresAreTold
  BY DEF NativeInv, ToldOK, FailuresAreTold
<1>. QED
  BY <1>1, NativeInvHolds, PTL

-----------------------------------------------------------------------------
(* ModelContext.                                                           *)

Messages == {Manager, Part, "none"} \cup Systems \cup Nat
Dialogues == {d \in Seq(Messages) : InOrder(d) /\ Turns(d) \subseteq 1..turns}
Clients == [kv : Dialogues, base : Messages, synced : Dialogues, vision : Dialogues]
Callers == [role : ManagerRoles \cup {"agent", "child"}, image : BOOLEAN, hist : Dialogues,
            at : {"idle", "asked", "text", "vision", "answered", "failed", "lost"}]

ContextTypes ==
    /\ turns \in Nat /\ failed \subseteq 1..turns /\ client \in Clients /\ asker \in Callers

HasHistory == asker.role \in ManagerRoles \/ asker.at \in {"asked", "text", "vision", "answered"}

\* What a caller's history can be equal to.
Known == /\ client.synced # <<>> /\ asker.at # "lost"
         /\ asker.hist = client.synced \/ Len(client.synced) = 1

\* The messages that are remembered are those of the conversation with images while there
\* is one, and those of the text session when a history can be equal to them.  A rewind
\* that failed leaves messages that are too long for any history.
ContextInv ==
    /\ ContextTypes
    /\ HasHistory => asker.hist # <<>>
    /\ client.vision # <<>> => client.vision = client.synced /\ Len(client.vision) > 1
    /\ client.vision = <<>> /\ client.kv # <<>> /\ Known => Reads(client.kv, client.synced)
    /\ asker.at = "text" => client.vision = <<>> /\ Reads(client.kv, asker.hist)
    /\ asker.at = "vision" /\ client.vision # <<>> => client.vision = asker.hist

LEMMA OneMessage ==
    ASSUME NEW m \in Messages
    PROVE  /\ <<m>> \in Dialogues /\ Reads(<<m>>, <<m>>) /\ Len(<<m>>) = 1 /\ <<m>> # <<>>
           /\ <<>> \in Dialogues
<1>1. Turns(<<m>>) = {} /\ InOrder(<<m>>) /\ Turns(<<>>) = {} /\ InOrder(<<>>)
  BY DEF Turns, InOrder
<1>. QED
  BY <1>1 DEF Dialogues, Reads

LEMMA Grown ==
    ASSUME turns \in Nat, NEW d \in Dialogues, d # <<>>
    PROVE  LET longer == Append(d, turns + 1)
           IN  /\ longer \in Seq(Messages) /\ longer # <<>> /\ Len(longer) > 1
               /\ Head(longer) = Head(d) /\ InOrder(longer)
               /\ Turns(longer) = Turns(d) \cup {turns + 1}
<1>. DEFINE longer == Append(d, turns + 1)
<1>1. d \in Seq(Messages) /\ InOrder(d) /\ Turns(d) \subseteq 1..turns /\ Len(d) \in Nat /\ Len(d) > 0
  BY DEF Dialogues
<1>2. /\ longer \in Seq(Messages) /\ Len(longer) = Len(d) + 1
      /\ \A i \in 1..Len(d) : longer[i] = d[i]
      /\ longer[Len(d) + 1] = turns + 1
  BY <1>1 DEF Messages
<1>3. longer # <<>> /\ Len(longer) > 1 /\ Head(longer) = Head(d)
  BY <1>1, <1>2
<1>. HIDE DEF longer
<1>4. \A i \in 2..Len(d) : d[i] \in 1..turns
  BY <1>1 DEF Turns
<1>5. InOrder(longer)
  BY <1>1, <1>2, <1>4, SMTT(30) DEF InOrder
<1>6. Turns(longer) = Turns(d) \cup {turns + 1}
  BY <1>1, <1>2 DEF Turns
<1>. QED
  BY <1>2, <1>3, <1>5, <1>6 DEF longer

LEMMA DialoguesGrow ==
    ASSUME turns \in Nat, turns' = turns + 1
    PROVE  /\ Dialogues \subseteq Dialogues'
           /\ \A d \in Dialogues : d # <<>> => Append(d, turns + 1) \in Dialogues'
<1>1. 1..turns \subseteq 1..turns' /\ turns + 1 \in 1..turns'
  OBVIOUS
<1>2. ASSUME NEW d \in Dialogues
      PROVE  d \in Dialogues'
  BY <1>1 DEF Dialogues
<1>3. ASSUME NEW d \in Dialogues, d # <<>>
      PROVE  Append(d, turns + 1) \in Dialogues'
  <2>. DEFINE longer == Append(d, turns + 1)
  <2>1. longer \in Seq(Messages) /\ InOrder(longer) /\ Turns(longer) = Turns(d) \cup {turns + 1}
    BY <1>3, Grown
  <2>2. Turns(d) \subseteq 1..turns
    BY DEF Dialogues
  <2>. HIDE DEF longer
  <2>3. longer \in Dialogues'
    BY <1>1, <2>1, <2>2 DEF Dialogues
  <2>. QED
    BY <2>3 DEF longer
<1>. QED
  BY <1>2, <1>3

ReadsBut(without, session, hist) ==
    /\ session # <<>> /\ hist # <<>> /\ Head(session) = Head(hist)
    /\ InOrder(session) /\ InOrder(hist)
    /\ Turns(session) \ without = Turns(hist)

LEMMA ReadsIs ==
    /\ \A s, h : Reads(s, h) <=> ReadsBut(failed, s, h)
    /\ Reads(client.kv, asker.hist)' <=> ReadsBut(failed', client'.kv, asker'.hist)
    /\ Reads(client.kv, client.synced)' <=> ReadsBut(failed', client'.kv, client'.synced)
  BY DEF Reads, ReadsBut

\* A completed turn is read in both; one that failed is in the session only.
LEMMA ReadsGrow ==
    ASSUME turns \in Nat, failed \subseteq 1..turns,
           NEW kv \in Dialogues, NEW hist \in Dialogues, Reads(kv, hist)
    PROVE  /\ ReadsBut(failed, Append(kv, turns + 1), Append(hist, turns + 1))
           /\ ReadsBut(failed \cup {turns + 1}, Append(kv, turns + 1), hist)
<1>. DEFINE longer == Append(kv, turns + 1)
            also == Append(hist, turns + 1)
<1>1. /\ kv # <<>> /\ hist # <<>> /\ Head(kv) = Head(hist) /\ InOrder(hist)
      /\ Turns(kv) \ failed = Turns(hist) /\ Turns(kv) \subseteq 1..turns
  BY DEF Reads, Dialogues
<1>2. /\ longer # <<>> /\ Head(longer) = Head(kv) /\ InOrder(longer)
      /\ Turns(longer) = Turns(kv) \cup {turns + 1}
  BY <1>1, Grown
<1>3. /\ also # <<>> /\ Head(also) = Head(hist) /\ InOrder(also)
      /\ Turns(also) = Turns(hist) \cup {turns + 1}
  BY <1>1, Grown
<1>. HIDE DEF longer, also
<1>4. turns + 1 \notin failed /\ turns + 1 \notin Turns(kv)
  BY <1>1
<1>5. ReadsBut(failed, longer, also) /\ ReadsBut(failed \cup {turns + 1}, longer, hist)
  BY <1>1, <1>2, <1>3, <1>4 DEF ReadsBut
<1>. QED
  BY <1>5 DEF longer, also

LEMMA ContextInitially == ContextInit => ContextInv
<1>. SUFFICES ASSUME ContextInit PROVE ContextInv
  OBVIOUS
<1>1. turns = 0 /\ failed = {} /\ asker.at = "idle"
  BY DEF ContextInit
<1>2. asker \in Callers /\ (HasHistory => asker.hist # <<>>)
  <2>1. PICK role \in ManagerRoles \cup {"agent", "child"} :
            asker = [role |-> role, at |-> "idle", image |-> FALSE,
                      hist |-> IF role \in ManagerRoles THEN ManagerBase ELSE <<>>]
    BY DEF ContextInit
  <2>2. ManagerBase \in Dialogues /\ ManagerBase # <<>> /\ <<>> \in Dialogues
    BY OneMessage DEF ManagerBase, Messages
  <2>. QED
    BY <2>1, <2>2 DEF Callers, HasHistory
<1>3. \/ client = Closed
      \/ \E m \in Messages : client = Prepared(m)
  BY DEF ContextInit, Messages
<1>4. client \in Clients /\ client.vision = <<>>
      /\ (client.kv # <<>> => Reads(client.kv, client.synced))
  <2>1. CASE client = Closed
    BY <2>1, OneMessage DEF Closed, Clients, Messages
  <2>2. ASSUME NEW m \in Messages, client = Prepared(m)
        PROVE  client \in Clients /\ client.vision = <<>> /\ Reads(client.kv, client.synced)
    BY <2>2, OneMessage DEF Prepared, Clients
  <2>. QED
    BY <1>3, <2>1, <2>2
<1>. QED
  BY <1>1, <1>2, <1>4 DEF ContextInv, ContextTypes

LEMMA ShortHistory ==
    ASSUME NEW d, NEW hist, Len(d) \in Nat, Len(hist) <= 1, hist = d \/ Len(d) = 1
    PROVE  Len(d) <= 1 /\ (Len(d) > 0 => Len(d) = 1)
<1>1. Len(d) <= 1
  <2>1. CASE hist = d
    BY <2>1
  <2>2. CASE Len(d) = 1
    BY <2>2
  <2>. QED
    BY <2>1, <2>2
<1>2. \A n \in Nat : n <= 1 /\ n > 0 => n = 1
  OBVIOUS
<1>. QED
  BY <1>1, <1>2, Zenon

\* The client goes on as it is, starts over, or has lost its conversation with images; the
\* caller's history stays or starts over.
LEMMA StartsOver ==
    ASSUME ContextInv, UNCHANGED <<turns, failed>>, asker' \in Callers,
           HasHistory' => asker'.hist # <<>>,
           NEW system \in Messages,
           client' \in {client, Closed, Prepared(system), [client EXCEPT !.vision = <<>>]},
           asker'.hist = asker.hist \/ Len(asker'.hist) <= 1,
           asker.at = "lost" => asker'.at = "lost" \/ client' \in {Closed, Prepared(system)},
           asker'.at \in {"text", "vision"}
               => client' = Prepared(system) /\ asker'.hist = <<system>>,
           client' = [client EXCEPT !.vision = <<>>]
               => client' = client \/ Len(asker'.hist) <= 1 \/ asker'.at = "lost"
    PROVE  ContextInv'
<1>1. Dialogues' = Dialogues /\ turns' = turns /\ failed' = failed
  BY DEF Dialogues
<1>2. client \in Clients /\ turns \in Nat /\ failed \subseteq 1..turns
  BY DEF ContextInv, ContextTypes
<1>3. Len(client.synced) \in Nat /\ (client.synced # <<>> => Len(client.synced) > 0)
  BY <1>2 DEF Clients, Dialogues
<1>4. Prepared(system) \in Clients /\ Closed \in Clients
      /\ Reads(Prepared(system).kv, Prepared(system).synced) /\ Prepared(system).vision = <<>>
      /\ Prepared(system).kv = <<system>> /\ Closed.vision = <<>> /\ Closed.kv = <<>>
  BY OneMessage DEF Prepared, Closed, Clients, Messages
<1>5. [client EXCEPT !.vision = <<>>] \in Clients
  BY <1>2, OneMessage DEF Clients, Messages
<1>6. ContextTypes'
  BY <1>1, <1>2, <1>4, <1>5 DEF ContextTypes, Clients, Callers
<1>7. client'.vision # <<>> => client'.vision = client'.synced /\ Len(client'.vision) > 1
  BY <1>2, <1>4 DEF ContextInv, Clients
<1>8. client'.vision = <<>> /\ client'.kv # <<>> /\ Known' => ReadsBut(failed', client'.kv, client'.synced)
  <2>. SUFFICES ASSUME client'.vision = <<>>, client'.kv # <<>>, Known'
                PROVE  ReadsBut(failed, client'.kv, client'.synced)
    BY <1>1
  <2>1. CASE client' \in {Closed, Prepared(system)}
    BY <1>4, <2>1, ReadsIs
  <2>2. CASE client' = client /\ client' \notin {Closed, Prepared(system)}
    <3>1. asker.at # "lost" /\ client.synced # <<>>
      BY <2>2, Zenon DEF Known
    <3>2. asker'.hist = client.synced \/ Len(client.synced) = 1
      BY <2>2, Zenon DEF Known
    <3>3. asker.hist = client.synced \/ Len(client.synced) = 1
      <4>1. CASE Len(asker'.hist) <= 1
        BY <1>3, <3>1, <3>2, <4>1, ShortHistory
      <4>. QED
        BY <3>2, <4>1, Zenon
    <3>4. Known
      BY <3>1, <3>3, Zenon DEF Known
    <3>. QED
      BY <2>2, <3>4, ReadsIs DEF ContextInv
  <2>3. CASE client' = [client EXCEPT !.vision = <<>>] /\ client' # client
    <3>1. client.vision # <<>> /\ client'.synced = client.synced
      BY <1>2, <2>3 DEF Clients
    <3>2. Len(client'.synced) > 1
      BY <3>1 DEF ContextInv
    <3>3. Len(asker'.hist) <= 1 /\ asker'.at # "lost"
      BY <2>3 DEF Known
    <3>4. asker'.hist = client'.synced \/ Len(client'.synced) = 1
      BY Zenon DEF Known
    <3>5. Len(client'.synced) \in Nat
      BY <1>3, <3>1
    <3>6. Len(client'.synced) <= 1
      BY <3>3, <3>4, <3>5, ShortHistory, Zenon
    <3>. QED
      BY <3>2, <3>5, <3>6
  <2>. QED
    BY <2>1, <2>2, <2>3
<1>9. asker'.at \in {"text", "vision"} => client'.vision = <<>> /\ ReadsBut(failed', client'.kv, asker'.hist)
  BY <1>1, <1>4, OneMessage, ReadsIs
<1>. QED
  BY <1>6, <1>7, <1>8, <1>9, ReadsIs DEF ContextInv

LEMMA CallerGoes ==
    ASSUME asker \in Callers,
           NEW at \in {"idle", "asked", "text", "vision", "answered", "failed", "lost"}
    PROVE  LET c == [asker EXCEPT !.at = at]
           IN  c \in Callers /\ c.at = at /\ c.hist = asker.hist /\ c.role = asker.role
               /\ c.image = asker.image
  BY DEF Callers

LEMMA ContextTypesOf ==
    ASSUME ContextInv
    PROVE  /\ asker \in Callers /\ client \in Clients /\ asker.hist \in Dialogues
           /\ client.kv \in Dialogues /\ client.synced \in Dialogues /\ client.vision \in Dialogues
           /\ client.base \in Messages /\ turns \in Nat /\ failed \subseteq 1..turns
           /\ asker.image \in BOOLEAN
  BY DEF ContextInv, ContextTypes, Callers, Clients

LEMMA GoesOnKeeps ==
    ASSUME ContextInv, asker.at = "asked", GoesOn, UNCHANGED <<client, turns, failed>>,
           GoesTo(Conversation)
    PROVE  ContextInv'
<1>1. asker \in Callers /\ client \in Clients /\ client.kv \in Dialogues /\ client.vision \in Dialogues
      /\ asker.image \in BOOLEAN
  BY ContextTypesOf
<1>2. Conversation \in {"text", "vision"}
  BY DEF Conversation
<1>3. asker' = [asker EXCEPT !.at = Conversation]
  BY DEF GoesTo
<1>4. asker' \in Callers /\ asker'.at = Conversation /\ asker'.hist = asker.hist
  BY <1>1, <1>2, <1>3, CallerGoes
<1>5. asker.hist # <<>>
  BY DEF ContextInv, HasHistory
<1>6. Dialogues' = Dialogues
  BY DEF Dialogues
<1>7. ContextTypes'
  BY <1>4, <1>6 DEF ContextInv, ContextTypes, Clients, Callers
<1>8. Known' => Known
  BY <1>4 DEF Known
<1>9. Conversation = "text" => client.vision = <<>> /\ Reads(client.kv, asker.hist)
  <2>. SUFFICES ASSUME Conversation = "text"
                PROVE  client.vision = <<>> /\ Reads(client.kv, asker.hist)
    OBVIOUS
  <2>1. client.vision = <<>> /\ ~asker.image
    BY DEF Conversation
  <2>2. asker.hist = client.synced /\ client.vision \o client.kv # <<>>
    BY <2>1 DEF GoesOn, InStep
  <2>3. client.kv # <<>>
    BY <1>1, <2>1, <2>2 DEF Dialogues
  <2>4. Known
    BY <1>5, <2>2 DEF Known
  <2>. QED
    BY <2>1, <2>2, <2>3, <2>4 DEF ContextInv
<1>10. client.vision # <<>> => client.vision = asker.hist
  BY DEF GoesOn, InStep, ContextInv
<1>11. /\ asker'.hist # <<>>
       /\ client'.vision = <<>> /\ client'.kv # <<>> /\ Known' => ReadsBut(failed', client'.kv, client'.synced)
       /\ asker'.at = "text" => client'.vision = <<>> /\ ReadsBut(failed', client'.kv, asker'.hist)
       /\ client'.vision # <<>> => client'.vision = asker'.hist
  <2>1. client' = client /\ failed' = failed
    OBVIOUS
  <2>2. client.vision = <<>> /\ client.kv # <<>> /\ Known => ReadsBut(failed, client.kv, client.synced)
    BY ReadsIs DEF ContextInv
  <2>3. asker'.at = "text" => client.vision = <<>> /\ ReadsBut(failed, client.kv, asker.hist)
    BY <1>4, <1>9, ReadsIs
  <2>. QED
    BY <1>4, <1>5, <1>8, <1>10, <2>1, <2>2, <2>3
<1>12. client'.vision # <<>> => client'.vision = client'.synced /\ Len(client'.vision) > 1
  BY DEF ContextInv
<1>. QED
  BY <1>7, <1>11, <1>12, ReadsIs DEF ContextInv

LEMMA ResetsTo ==
    ASSUME NEW system, NEW c \in ResetClientToBase(system)
    PROVE  c \in {client, Prepared(system), [client EXCEPT !.vision = <<>>]}
  BY DEF ResetClientToBase

LEMMA ChatKeeps == ContextInv /\ ChatBegins => ContextInv'
<1>. SUFFICES ASSUME ContextInv, ChatBegins PROVE ContextInv'
  OBVIOUS
<1>1. asker.at = "asked" /\ UNCHANGED <<turns, failed>>
  BY DEF ChatBegins
<1>2. CASE GoesOn /\ UNCHANGED client /\ GoesTo(Conversation)
  BY <1>1, <1>2, GoesOnKeeps
<1>3. CASE /\ client' \in TryResetPrefix
           /\ GoesTo(IF asker.hist = <<client'.base>> /\ client' = Prepared(client'.base)
                   THEN IF asker.image THEN "vision" ELSE "text" ELSE "failed")
  <2>1. PICK at \in {"text", "vision", "failed"} :
            /\ asker' = [asker EXCEPT !.at = at]
            /\ at # "failed" => asker.hist = <<client'.base>> /\ client' = Prepared(client'.base)
    BY <1>3 DEF GoesTo
  <2>2. asker' \in Callers /\ asker'.at = at /\ asker'.hist = asker.hist
    BY <2>1, CallerGoes, ContextTypesOf
  <2>3. asker.hist # <<>> /\ asker.hist \in Dialogues
    BY <1>1, ContextTypesOf DEF ContextInv, HasHistory
  <2>4. Head(asker.hist) \in Messages
    BY <2>3 DEF Dialogues
  <2>5. /\ \E system \in Messages :
               client' \in {client, Closed, Prepared(system), [client EXCEPT !.vision = <<>>]}
        /\ client' = client \/ Len(asker.hist) = 1
    <3>1. CASE client' = client
      BY <3>1, <2>4
    <3>2. CASE Len(asker.hist) = 1 /\ client' \in ResetClientToBase(client.base)
      BY <3>2, ResetsTo, ContextTypesOf
    <3>3. CASE Len(asker.hist) = 1 /\ client' \in PrepareClientPrefix(Head(asker.hist))
      BY <3>3, <2>4 DEF PrepareClientPrefix
    <3>. QED
      BY <1>3, <3>1, <3>2, <3>3 DEF TryResetPrefix
  <2>6. PICK system \in Messages :
            /\ client' \in {client, Closed, Prepared(system), [client EXCEPT !.vision = <<>>]}
            /\ at # "failed" => client' = Prepared(system) /\ asker'.hist = <<system>>
    <3>1. CASE at = "failed"
      BY <2>5, <3>1
    <3>2. CASE at # "failed"
      <4>1. asker.hist = <<client'.base>> /\ client' = Prepared(client'.base)
        BY <2>1, <3>2
      <4>2. client'.base = Head(asker.hist)
        BY <4>1
      <4>. QED
        BY <2>2, <2>4, <4>1, <4>2
    <3>. QED
      BY <3>1, <3>2
  <2>7. client' = [client EXCEPT !.vision = <<>>] => client' = client \/ Len(asker'.hist) <= 1
    <3>1. client' = client \/ Len(asker'.hist) = 1
      BY <2>2, <2>5, Zenon
    <3>2. Len(asker'.hist) = 1 => Len(asker'.hist) <= 1
      OBVIOUS
    <3>. QED
      BY <3>1, <3>2, Zenon
  <2>8. HasHistory' => asker'.hist # <<>>
    BY <2>2, <2>3
  <2>. QED
    BY <1>1, <2>2, <2>6, <2>7, <2>8, StartsOver
<1>. QED
  BY <1>2, <1>3 DEF ChatBegins

\* A step of the caller: a question, an end, a rewind or a preparation before the next one.
LEMMA CallersKeep == ContextInv /\ Caller => ContextInv'
<1>. SUFFICES ASSUME ContextInv, Caller PROVE ContextInv'
  OBVIOUS
<1>1. UNCHANGED <<turns, failed>>
  BY DEF Caller, ContinueDialogue, ManagerAsks, ManagerKeeps, ManagerRewinds, NewManagerSession, Recover,
         AgentBegins, AgentSleeps, AgentDrops, ChildAsks, ChildEnds, EndsCall
<1>2. /\ asker \in Callers /\ asker.hist \in Dialogues
      /\ Manager \in Messages /\ Part \in Messages /\ Systems \subseteq Messages
  BY ContextTypesOf DEF Messages
<1>3. \A m \in Messages : <<m>> \in Dialogues /\ Len(<<m>>) <= 1 /\ <<m>> # <<>>
  <2>1. \A m \in Messages : <<m>> \in Dialogues /\ Len(<<m>>) = 1 /\ <<m>> # <<>>
    BY OneMessage
  <2>2. \A n \in Nat : n = 1 => n <= 1
    OBVIOUS
  <2>. QED
    BY <2>1, <2>2, Zenon
<1>4. ManagerBase \in Dialogues /\ Len(ManagerBase) <= 1 /\ ManagerBase # <<>>
  BY <1>2, <1>3 DEF ManagerBase
<1>5. <<>> \in Dialogues /\ Len(<<>>) <= 1
  <2>1. Len(<<>>) <= 1
    OBVIOUS
  <2>. QED
    BY <1>2, <2>1, OneMessage, Zenon
<1>6. asker.role \in ManagerRoles => asker.hist # <<>>
  BY DEF ContextInv, HasHistory
\* The client and the caller after the step.
<1>. DEFINE Moves(at, hist, system) ==
                /\ \E image \in BOOLEAN :
                      asker' = [asker EXCEPT !.at = at, !.hist = hist, !.image = image]
                /\ client' \in {client, Closed, Prepared(system), [client EXCEPT !.vision = <<>>]}
<1>7. ASSUME NEW at \in {"idle", "asked", "lost"}, NEW hist \in Dialogues, NEW system \in Messages,
             Moves(at, hist, system),
             hist # <<>> \/ (at # "asked" /\ asker.role \notin ManagerRoles),
             hist = asker.hist \/ Len(hist) <= 1,
             asker.at = "lost" => at = "lost" \/ client' \in {Closed, Prepared(system)},
             client' = client \/ client' # [client EXCEPT !.vision = <<>>]
                 \/ Len(hist) <= 1 \/ at = "lost"
      PROVE  ContextInv'
  <2>1. asker' \in Callers /\ asker'.at = at /\ asker'.hist = hist /\ asker'.role = asker.role
    <3>1. PICK image \in BOOLEAN :
              asker' = [asker EXCEPT !.at = at, !.hist = hist, !.image = image]
      BY <1>7
    <3>2. at \in {"idle", "asked", "text", "vision", "answered", "failed", "lost"}
      BY <1>7
    <3>. QED
      BY <1>2, <1>7, <3>1, <3>2 DEF Callers
  <2>2. HasHistory' => asker'.hist # <<>>
    BY <1>7, <2>1 DEF HasHistory
  <2>3. asker'.hist = asker.hist \/ Len(asker'.hist) <= 1
    BY <1>7, <2>1, Zenon
  <2>4. client' = [client EXCEPT !.vision = <<>>]
            => client' = client \/ Len(asker'.hist) <= 1 \/ asker'.at = "lost"
    BY <1>7, <2>1, Zenon
  <2>5. asker.at = "lost" => asker'.at = "lost" \/ client' \in {Closed, Prepared(system)}
    BY <1>7, <2>1
  <2>6. asker'.at \notin {"text", "vision"}
    BY <1>7, <2>1
  <2>7. client' \in {client, Closed, Prepared(system), [client EXCEPT !.vision = <<>>]}
    BY <1>7
  <2>. QED
    BY <1>1, <2>1, <2>2, <2>3, <2>4, <2>5, <2>6, <2>7, StartsOver, Zenon
<1>8. CASE ContinueDialogue \/ ManagerAsks
  <2>1. Moves("asked", asker.hist, Manager) /\ client' = client /\ asker.hist # <<>>
        /\ asker.at # "lost"
    BY <1>6, <1>8 DEF ContinueDialogue, ManagerAsks, Calls, ContextInv, HasHistory
  <2>. QED
    BY <1>2, <1>7, <2>1
<1>9. CASE AgentBegins \/ ChildAsks
  <2>1. PICK system \in Messages : Moves("asked", <<system>>, system)
    BY <1>2, <1>9 DEF AgentBegins, ChildAsks, Calls
  <2>2. asker.at # "lost" /\ client' = client
    BY <1>9 DEF AgentBegins, ChildAsks
  <2>. QED
    BY <1>3, <1>7, <2>1, <2>2
<1>10. CASE ManagerKeeps
  <2>1. Moves("idle", asker.hist, Manager) /\ client' = client /\ asker.at # "lost"
        /\ asker.hist # <<>>
    BY <1>6, <1>10 DEF ManagerKeeps, EndsCall
  <2>. QED
    BY <1>2, <1>7, <2>1
<1>11. CASE ManagerRewinds
  <2>1. Moves("idle", ManagerBase, Manager) /\ asker.at # "lost"
    BY <1>11, ResetsTo DEF ManagerRewinds, EndsCall
  <2>. QED
    BY <1>2, <1>4, <1>7, <2>1
<1>12. CASE NewManagerSession
  <2>1. asker.at # "lost" /\ client' \in ResetClientToBase(Manager)
        /\ (EndsCall(ManagerBase, "idle") \/ EndsCall(asker.hist, "lost")) /\ asker.role \in ManagerRoles
    BY <1>12 DEF NewManagerSession
  <2>2. Moves("idle", ManagerBase, Manager) \/ Moves("lost", asker.hist, Manager)
    BY <2>1, ResetsTo DEF EndsCall
  <2>. QED
    BY <1>2, <1>4, <1>6, <1>7, <2>1, <2>2
<1>13. CASE Recover
  <2>1. client' \in {Prepared(Manager), Closed} /\ asker.role \in ManagerRoles
        /\ (EndsCall(ManagerBase, "idle") \/ EndsCall(asker.hist, "lost"))
    BY <1>13 DEF Recover, PrepareClientPrefix, ManagerRoles
  <2>2. Moves("idle", ManagerBase, Manager) \/ Moves("lost", asker.hist, Manager)
    BY <2>1 DEF EndsCall
  <2>. QED
    BY <1>2, <1>4, <1>6, <1>7, <2>1, <2>2
<1>14. CASE AgentSleeps
  <2>1. asker.at = "answered" /\ asker.role \notin ManagerRoles
        /\ client' \in ResetClientToBase(Head(asker.hist)) /\ EndsCall(<<>>, "idle")
    BY <1>14 DEF AgentSleeps, ManagerRoles
  <2>2. Head(asker.hist) \in Messages
    BY <1>2, <2>1 DEF ContextInv, HasHistory, Dialogues
  <2>3. Moves("idle", <<>>, Head(asker.hist))
    BY <2>1, ResetsTo DEF EndsCall
  <2>. QED
    BY <1>5, <1>7, <2>1, <2>2, <2>3
<1>15. CASE AgentDrops \/ ChildEnds
  <2>1. asker.role \notin ManagerRoles /\ asker.at # "lost" /\ Moves("idle", <<>>, Part)
    BY <1>15 DEF AgentDrops, ChildEnds, EndsCall, ManagerRoles
  <2>. QED
    BY <1>2, <1>5, <1>7, <2>1
<1>. QED
  BY <1>8, <1>9, <1>10, <1>11, <1>12, <1>13, <1>14, <1>15 DEF Caller

\* An answer is appended to the conversation it was given in and to the history.
LEMMA TextAnswersKeep == ContextInv /\ TextAnswers => ContextInv'
<1>. SUFFICES ASSUME ContextInv, TextAnswers PROVE ContextInv'
  OBVIOUS
<1>. DEFINE kv == Append(client.kv, turns + 1)
            hist == Append(asker.hist, turns + 1)
<1>1. /\ turns' = turns + 1 /\ failed' = failed /\ asker.at = "text"
      /\ client' = [[client EXCEPT !.kv = kv] EXCEPT !.synced = hist]
      /\ asker' = [asker EXCEPT !.at = "answered", !.hist = hist]
  BY DEF TextAnswers, Answered
<1>2. /\ asker \in Callers /\ client \in Clients /\ turns \in Nat /\ failed \subseteq 1..turns
      /\ client.kv \in Dialogues /\ asker.hist \in Dialogues
  BY ContextTypesOf
<1>3. client.vision = <<>> /\ Reads(client.kv, asker.hist)
  BY <1>1 DEF ContextInv
<1>4. client.kv # <<>> /\ asker.hist # <<>>
  BY <1>3 DEF Reads
<1>5. ReadsBut(failed, kv, hist) /\ hist # <<>>
  <2>1. ReadsBut(failed, kv, hist)
    BY <1>2, <1>3, ReadsGrow
  <2>. QED
    BY <2>1 DEF ReadsBut
<1>6. Dialogues \subseteq Dialogues' /\ kv \in Dialogues' /\ hist \in Dialogues'
  BY <1>1, <1>2, <1>4, DialoguesGrow
<1>. HIDE DEF kv, hist
<1>7. /\ client'.kv = kv /\ client'.synced = hist /\ client'.vision = <<>>
      /\ client' \in [kv : {kv}, base : Messages, synced : {hist}, vision : {client.vision}]
  BY <1>1, <1>2, <1>3 DEF Clients
<1>8. /\ asker'.at = "answered" /\ asker'.hist = hist
      /\ asker' \in [role : ManagerRoles \cup {"agent", "child"}, image : BOOLEAN, hist : {hist}, at : {"answered"}]
  BY <1>1, <1>2 DEF Callers
<1>9. ContextTypes'
  <2>1. client.vision \in Dialogues
    BY ContextTypesOf
  <2>2. client' \in Clients'
    BY <1>6, <1>7, <2>1 DEF Clients
  <2>3. asker' \in Callers'
    BY <1>6, <1>8 DEF Callers
  <2>4. turns' \in Nat /\ failed' \subseteq 1..turns'
    BY <1>1, <1>2
  <2>. QED
    BY <2>2, <2>3, <2>4 DEF ContextTypes
<1>10. ReadsBut(failed', client'.kv, client'.synced) /\ asker'.hist # <<>>
  BY <1>1, <1>5, <1>7, <1>8
<1>. QED
  BY <1>7, <1>8, <1>9, <1>10, ReadsIs DEF ContextInv

LEMMA VisionAnswersKeep == ContextInv /\ VisionAnswers => ContextInv'
<1>. SUFFICES ASSUME ContextInv, VisionAnswers PROVE ContextInv'
  OBVIOUS
<1>. DEFINE hist == Append(asker.hist, turns + 1)
<1>1. client.vision = <<>> \/ client.vision = asker.hist
  BY DEF VisionAnswers, ContextInv
<1>2. /\ turns' = turns + 1 /\ failed' = failed /\ asker.at = "vision"
      /\ client' = [[client EXCEPT !.vision = hist] EXCEPT !.synced = hist]
      /\ asker' = [asker EXCEPT !.at = "answered", !.hist = hist]
  BY <1>1 DEF VisionAnswers, Answered
<1>3. /\ asker \in Callers /\ client \in Clients /\ turns \in Nat /\ failed \subseteq 1..turns
      /\ client.kv \in Dialogues /\ asker.hist \in Dialogues
  BY ContextTypesOf
<1>4. asker.hist # <<>>
  BY <1>2 DEF ContextInv, HasHistory
<1>5. hist # <<>> /\ Len(hist) > 1
  BY <1>3, <1>4, Grown
<1>6. Dialogues \subseteq Dialogues' /\ hist \in Dialogues'
  BY <1>2, <1>3, <1>4, DialoguesGrow
<1>. HIDE DEF hist
<1>7. /\ client'.synced = hist /\ client'.vision = hist
      /\ client' \in [kv : {client.kv}, base : Messages, synced : {hist}, vision : {hist}]
  BY <1>2, <1>3 DEF Clients
<1>8. /\ asker'.at = "answered" /\ asker'.hist = hist
      /\ asker' \in [role : ManagerRoles \cup {"agent", "child"}, image : BOOLEAN, hist : {hist}, at : {"answered"}]
  BY <1>2, <1>3 DEF Callers
<1>9. ContextTypes'
  <2>1. client' \in Clients'
    BY <1>3, <1>6, <1>7 DEF Clients
  <2>2. asker' \in Callers'
    BY <1>6, <1>8 DEF Callers
  <2>3. turns' \in Nat /\ failed' \subseteq 1..turns'
    BY <1>2, <1>3
  <2>. QED
    BY <2>1, <2>2, <2>3 DEF ContextTypes
<1>10. asker'.hist # <<>> /\ client'.vision # <<>> /\ client'.vision = client'.synced
       /\ Len(client'.vision) > 1
  BY <1>5, <1>7, <1>8, Zenon
<1>. QED
  BY <1>8, <1>9, <1>10 DEF ContextInv

\* A turn that failed stays in the text session and is in no history.
LEMMA DecodeFailsKeeps == ContextInv /\ DecodeFails => ContextInv'
<1>. SUFFICES ASSUME ContextInv, DecodeFails PROVE ContextInv'
  OBVIOUS
<1>. DEFINE kv == Append(client.kv, turns + 1)
<1>1. /\ turns' = turns + 1 /\ failed' = failed \cup {turns + 1} /\ asker.at = "text"
      /\ client' = [client EXCEPT !.kv = kv] /\ asker' = [asker EXCEPT !.at = "failed"]
  BY DEF DecodeFails, GoesTo
<1>2. /\ asker \in Callers /\ client \in Clients /\ turns \in Nat /\ failed \subseteq 1..turns
      /\ client.kv \in Dialogues /\ asker.hist \in Dialogues /\ client.synced \in Dialogues
  BY ContextTypesOf
<1>3. client.vision = <<>> /\ client.kv # <<>> /\ asker.hist # <<>>
  BY <1>1 DEF ContextInv, Reads
<1>4. Known => ReadsBut(failed \cup {turns + 1}, kv, client.synced)
  <2>. SUFFICES ASSUME Known PROVE ReadsBut(failed \cup {turns + 1}, kv, client.synced)
    OBVIOUS
  <2>1. Reads(client.kv, client.synced)
    BY <1>3 DEF ContextInv
  <2>. QED
    BY <1>2, <2>1, ReadsGrow
<1>5. Dialogues \subseteq Dialogues' /\ kv \in Dialogues'
  BY <1>1, <1>2, <1>3, DialoguesGrow
<1>. HIDE DEF kv
<1>6. client' \in [kv : {kv}, base : Messages, synced : {client.synced}, vision : {client.vision}]
  BY <1>1, <1>2 DEF Clients
<1>7. /\ asker'.at = "failed" /\ asker'.hist = asker.hist
      /\ asker' \in [role : ManagerRoles \cup {"agent", "child"}, image : BOOLEAN,
                      hist : {asker.hist}, at : {"failed"}]
  BY <1>1, <1>2 DEF Callers
<1>8. ContextTypes'
  <2>1. client.vision \in Dialogues
    BY ContextTypesOf
  <2>2. client' \in Clients'
    BY <1>2, <1>5, <1>6, <2>1 DEF Clients
  <2>3. asker' \in Callers'
    BY <1>2, <1>5, <1>7 DEF Callers
  <2>4. turns' \in Nat /\ failed' \subseteq 1..turns'
    BY <1>1, <1>2
  <2>. QED
    BY <2>2, <2>3, <2>4 DEF ContextTypes
<1>9. client'.kv = kv /\ client'.synced = client.synced /\ client'.vision = <<>>
  BY <1>3, <1>6
<1>10. Known' => Known
  BY <1>1, <1>7, <1>9 DEF Known
<1>11. Known' => ReadsBut(failed', client'.kv, client'.synced)
  BY <1>1, <1>4, <1>9, <1>10, Zenon
<1>. QED
  BY <1>3, <1>7, <1>8, <1>9, <1>11, ReadsIs DEF ContextInv

LEMMA RenderFailsKeeps == ContextInv /\ (RenderFails \/ UNCHANGED contextVars) => ContextInv'
<1>. SUFFICES ASSUME ContextInv, RenderFails \/ UNCHANGED contextVars PROVE ContextInv'
  OBVIOUS
<1>1. UNCHANGED <<client, turns, failed>>
  BY DEF RenderFails, contextVars
<1>2. Dialogues' = Dialogues /\ Clients' = Clients /\ Callers' = Callers
  BY <1>1 DEF Dialogues, Clients, Callers
<1>3. asker' \in Callers /\ asker'.hist = asker.hist /\ asker'.role = asker.role
      /\ (asker' = asker \/ (asker.at = "text" /\ asker'.at = "failed"))
  <2>1. CASE RenderFails
    BY <2>1, CallerGoes, ContextTypesOf DEF RenderFails, GoesTo
  <2>. QED
    BY <2>1, ContextTypesOf DEF contextVars
<1>4. ContextTypes'
  BY <1>1, <1>2, <1>3 DEF ContextInv, ContextTypes
<1>5. (Known' => Known) /\ (HasHistory' => HasHistory)
  BY <1>1, <1>3 DEF Known, HasHistory
<1>6. /\ client'.vision = <<>> /\ client'.kv # <<>> /\ Known' => ReadsBut(failed', client'.kv, client'.synced)
      /\ asker'.at = "text" => client'.vision = <<>> /\ ReadsBut(failed', client'.kv, asker'.hist)
      /\ asker'.at = "vision" /\ client'.vision # <<>> => client'.vision = asker'.hist
      /\ client'.vision # <<>> => client'.vision = client'.synced /\ Len(client'.vision) > 1
  <2>1. /\ client.vision = <<>> /\ client.kv # <<>> /\ Known => ReadsBut(failed, client.kv, client.synced)
        /\ asker.at = "text" => client.vision = <<>> /\ ReadsBut(failed, client.kv, asker.hist)
        /\ asker.at = "vision" /\ client.vision # <<>> => client.vision = asker.hist
        /\ client.vision # <<>> => client.vision = client.synced /\ Len(client.vision) > 1
    BY ReadsIs DEF ContextInv
  <2>. QED
    BY <1>1, <1>3, <1>5, <2>1
<1>. QED
  BY <1>3, <1>4, <1>5, <1>6, ReadsIs DEF ContextInv

LEMMA VisionFailsKeeps == ContextInv /\ VisionFails => ContextInv'
<1>. SUFFICES ASSUME ContextInv, VisionFails PROVE ContextInv'
  OBVIOUS
<1>1. /\ UNCHANGED <<turns, failed>> /\ asker.at = "vision"
      /\ asker' = [asker EXCEPT !.at = "failed"]
      /\ client' = [[client EXCEPT !.vision = <<>>] EXCEPT !.synced = <<>>]
  BY DEF VisionFails, GoesTo
<1>2. Dialogues' = Dialogues /\ Clients' = Clients /\ Callers' = Callers
  BY <1>1 DEF Dialogues, Clients, Callers
<1>3. asker' \in Callers /\ asker'.at = "failed" /\ asker'.hist = asker.hist
  BY <1>1, CallerGoes, ContextTypesOf
<1>4. <<>> \in Dialogues
  BY OneMessage DEF Messages
<1>5. client' \in Clients /\ client'.vision = <<>> /\ client'.synced = <<>>
  BY <1>1, <1>4, ContextTypesOf DEF Clients
<1>6. ContextTypes' /\ asker.hist # <<>>
  BY <1>1, <1>2, <1>3, <1>5 DEF ContextInv, ContextTypes, HasHistory
<1>. QED
  BY <1>3, <1>5, <1>6 DEF ContextInv, Known

LEMMA ContextInvHolds == ContextSpec => []ContextInv
<1>1. ContextInit => ContextInv
  BY ContextInitially
<1>2. ContextInv /\ [ContextNext]_contextVars => ContextInv'
  BY ChatKeeps, TextAnswersKeep, RenderFailsKeeps, DecodeFailsKeeps, VisionAnswersKeep,
     VisionFailsKeeps, CallersKeep DEF ContextNext
<1>. QED
  BY <1>1, <1>2, PTL DEF ContextSpec

\* The resident session of LiteRTChatClient.chat: whichever calls, rewinds and preparations
\* failed before, an inference reads exactly the completed turns of its own dialogue, for the
\* manager, an agent and a fragment reader and for any number of turns.
THEOREM ReadsItsOwnTurnsProved == ContextSpec => []ReadsItsOwnTurns
<1>1. ContextInv => ReadsItsOwnTurns
  BY DEF ContextInv, ReadsItsOwnTurns
<1>. QED
  BY <1>1, ContextInvHolds, PTL

=============================================================================
