--------------------------- MODULE AuditedRunProofs ---------------------------
(***************************************************************************)
(* Proofs about the sequential executor and the rows a run leaves in the   *)
(* audit database: the rollback engine's accounts and RunContract hold of  *)
(* every audited run, and what an operator concludes from the database     *)
(* alone is right.                                                         *)
(***************************************************************************)
EXTENDS AuditedRun, RunLifecycleProofs

(* The steps the loop has not passed are not on the stack, and only the    *)
(* one it is at may have been started.                                     *)
SeqInv ==
    /\ EngineInv
    /\ left \subseteq Steps
    /\ at \in {"gate", "command"} => left # {}
    /\ ToSet(stack) \cap left = {}
    /\ \A s \in ran \cap left : s = NextStep
    /\ at \in {"checks", "steps", "gate"} => ran \cap left = {}

(* What the goroutine has seen so far, and what it returns.                *)
AllPassed ==
    /\ \A i \in DOMAIN checked : checked[i].status = "success"
    /\ \A i \in DOMAIN results : results[i].status = "success"

OutcomeInv ==
    /\ at = "checks" => results = <<>>
    /\ at \in {"checks", "steps", "gate", "command"} => AllPassed
    /\ Ended =>
          /\ status = "success" => AllPassed /\ entries = <<>>
          /\ status = "check_failed" =>
                /\ results = <<>> /\ entries = <<>>
                /\ checked # <<>> /\ Last(checked).status # "success"
          /\ status \in {"rolled_back", "partially_rolled_back"} => phase = "ROLLING_BACK"
          /\ status = "partially_rolled_back" => ~AllSucceeded
          /\ status = "rolled_back" /\ trigger # "user_abort" => AllSucceeded

CheckRows == [kind : {"check"}, name : Int, status : CommandOutcomes]
Rows      == [kind : {"check", "step", "rollback"}, name : Int, status : CommandOutcomes]

(* Of the rows t, those numbered in x are lost, those in o are still owed, *)
(* and the others are in l, in their order.                                *)
Tells(l, o, x, t) ==
    LET n == Len(l) + Cardinality(x)
    IN  /\ x \subseteq 1 .. n /\ Len(t) = n + Len(o)
        /\ \A i \in 1 .. Len(o) : t[n + i] = o[i]
        /\ \A k \in (1 .. n) \ x : l[Cardinality((1 .. k) \ x)] = t[k]

TrailInv ==
    /\ checksLeft \in Int /\ checked \in Seq(CheckRows)
    /\ log \in Seq(Rows) /\ owed \in Seq(Rows)
    /\ IsFiniteSet(lost) /\ Tells(log, owed, lost, Trail)

AuditInv ==
    /\ SeqInv
    /\ OutcomeInv
    /\ TrailInv
    /\ closed => Ended /\ owed = <<>>
    /\ runRow \in {"none", "running"} \/ (closed /\ runRow = status)

-----------------------------------------------------------------------------
(***************************************************************************)
(* The sequential executor.                                                *)
(***************************************************************************)
LEMMA NextStepIsLeft == SeqInv /\ left # {} => NextStep \in left
<1>. SUFFICES ASSUME SeqInv, left # {} PROVE NextStep \in left
  OBVIOUS
<1>1. left \in SUBSET Int /\ IsFiniteSet(left)
  BY StepsAssumption, FS_Subset DEF SeqInv
<1>2. \E s \in left : \A t \in left : s <= t
  BY <1>1, EarliestExists
<1>. QED  BY <1>2 DEF NextStep

LEMMA SeqInit == Init => SeqInv /\ Contract!Init
BY EngineInit, ContractInit, EmptyFacts DEF Init, RunInit, SeqInv

(* Nothing is pushed, started or passed.                                   *)
LEMMA LoopWaits ==
    ASSUME SeqInv, Kept, UNCHANGED <<ran, left>>,
           ToSet(stack') \subseteq ToSet(stack),
           at' \in {"checks", "steps", "gate"} => at \in {"checks", "steps", "gate"},
           at' \in {"gate", "command"} => left # {}
    PROVE  SeqInv' /\ ContractStep
<1>1. NextStep' = NextStep
  BY DEF NextStep
<1>. QED  BY <1>1 DEF SeqInv, Kept

LEMMA LoopStepKeepsInv ==
    ASSUME SeqInv, Loop \/ Answer \/ EndCommand
    PROVE  SeqInv' /\ ContractStep
<1>0. /\ EngineInv /\ left \subseteq Steps
      /\ ~Over(at)
  BY DEF SeqInv, Over, Loop, Answer, EndCommand, Finish, Poll, ReachStep, StartCommand,
         AnswerYes, AnswerSkip, AnswerAbort, AnswerNo, StepSucceeds, StepErrs, StepFails
<1>00. /\ UNCHANGED results => results' \in Seq(Reports) /\ Succeeded' = Succeeded
  BY <1>0 DEF Succeeded, EngineInv, RunTypes
(* The ways out: the stack is kept or taken, and the executor is left.     *)
<1>1. ASSUME Kept, UNCHANGED <<ran, left>>, Over(at') \/ at' = "planPrompt",
             ToSet(stack') \subseteq ToSet(stack)
      PROVE  SeqInv' /\ ContractStep
  BY <1>1, LoopWaits DEF Over
<1>2. /\ HandleStepFailure \/ DeclineConfirm => /\ Over(at') \/ at' = "planPrompt"
                                                /\ ToSet(stack') \subseteq ToSet(stack)
      /\ \A st, ph : Return(st, ph) => Over(at') /\ stack' = stack
      /\ \A t : Execute(t) => Over(at') /\ stack' = <<>>
  <2>1. \A t : Execute(t) => Over(at') /\ stack' = <<>>
    BY DEF Execute, StackAfterExecute, Over
  <2>2. \A t : OfferRollback(t) => at' = "planPrompt" /\ stack' = stack
    BY DEF OfferRollback
  <2>. QED
    BY <2>1, <2>2, EmptyFacts DEF HandleStepFailure, DeclineConfirm, Return, engineVars, Over
<1>3. CASE Finish
  BY <1>0, <1>00, <1>1, <1>2, <1>3, WaysOutAreKept DEF Finish, Complete
<1>4. CASE Poll
  <2>1. action \in Actions /\ HandleSignal(action) /\ UNCHANGED <<results, ran, left>>
    BY <1>4 DEF Poll, HandleSignal, Actions
  <2>2. Kept
    BY <1>0, <1>00, <2>1, WaysOutAreKept
  <2>3. Over(at') /\ ToSet(stack') \subseteq ToSet(stack)
    BY <1>2, <2>1, EmptyFacts DEF HandleSignal, Quit
  <2>. QED  BY <1>1, <2>1, <2>2, <2>3
<1>5. CASE ReachStep
  <2>1. UNCHANGED <<phase, status, engineVars, results, ran, left>> /\ at = "steps"
           /\ at' \in {"gate", "command"} /\ left # {}
    BY <1>5 DEF ReachStep
  <2>2. Kept
    BY <1>0, <2>1, EngineUntouched, ContractUntouched DEF Kept, Over, engineVars
  <2>. QED  BY <2>1, <2>2, LoopWaits DEF engineVars
<1>6. CASE StartCommand
  <2>0. at = "command" /\ UNCHANGED <<results, left>> /\ NextStep \notin ran
    BY <1>6 DEF StartCommand
  <2>1. CASE Fail("internal_error") /\ UNCHANGED ran
    BY <1>0, <1>00, <1>1, <1>2, <2>0, <2>1, WaysOutAreKept DEF Fail
  <2>2. CASE ran' = ran \cup {NextStep} /\ UNCHANGED <<at, phase, status, engineVars>>
    <3>1. NextStep \in left /\ NextStep \in Steps
      BY <1>0, <2>0, NextStepIsLeft DEF SeqInv
    <3>2. EngineInv'
      BY <1>0, <1>00, <2>0, <2>2, <3>1, HistoryGrows DEF EngineInv, RunTypes
    <3>3. ContractStep
      BY <1>0, <2>0, <2>2, <3>1, ContractStart DEF engineVars
    <3>4. NextStep' = NextStep
      BY <2>0 DEF NextStep
    <3>. QED  BY <2>0, <2>2, <3>2, <3>3, <3>4 DEF SeqInv, engineVars
  <2>. QED  BY <1>6, <2>1, <2>2 DEF StartCommand
<1>7. CASE AnswerYes
  <2>1. /\ UNCHANGED <<phase, status, engineVars, results, ran, left>>
        /\ at = "gate" /\ at' = "command"
    BY <1>7 DEF AnswerYes
  <2>2. Kept
    BY <1>0, <2>1, EngineUntouched, ContractUntouched DEF Kept, Over, engineVars
  <2>. QED  BY <2>1, <2>2, LoopWaits DEF engineVars, SeqInv
<1>8. CASE AnswerSkip
  <2>1. /\ UNCHANGED <<phase, status, engineVars, results, ran>>
        /\ at = "gate" /\ at' = "steps" /\ left' = left \ {NextStep}
    BY <1>8 DEF AnswerSkip
  <2>2. Kept
    BY <1>0, <2>1, EngineUntouched, ContractUntouched DEF Kept, Over, engineVars
  <2>. QED  BY <2>1, <2>2 DEF engineVars, SeqInv, Kept
<1>9. CASE AnswerAbort
  BY <1>0, <1>00, <1>1, <1>2, <1>9, WaysOutAreKept DEF AnswerAbort, Quit
<1>10. CASE AnswerNo
  BY <1>0, <1>00, <1>1, <1>2, <1>10, WaysOutAreKept DEF AnswerNo
<1>11. CASE StepSucceeds
  <2>1. /\ results' = Recorded(NextStep, "success") /\ stack' = Pushed(NextStep)
        /\ at = "command" /\ at' = "steps" /\ left' = left \ {NextStep} /\ NextStep \in ran
        /\ UNCHANGED <<phase, status, plan, entries, trigger, ran>>
    BY <1>11 DEF StepSucceeds
  <2>2. NextStep \in left /\ NextStep \in Steps /\ NextStep \notin ToSet(stack)
    BY <1>0, <2>1, NextStepIsLeft DEF SeqInv
  <2>3. EngineInv' /\ ToSet(stack') \subseteq ToSet(stack) \cup {NextStep}
    BY <1>0, <2>1, <2>2, ResultIsPushed DEF Over, CommandOutcomes
  <2>4. ContractStep
    BY <1>0, <2>1, ContractUntouched DEF Over
  <2>. QED  BY <2>1, <2>3, <2>4 DEF SeqInv
<1>12. CASE StepErrs
  BY <1>0, <1>00, <1>1, <1>2, <1>12, WaysOutAreKept DEF StepErrs, Fail
<1>13. ASSUME NEW o \in CommandOutcomes, StepFails(o) PROVE SeqInv' /\ ContractStep
  <2>1. /\ results' = Recorded(NextStep, o) /\ HandleStepFailure /\ o # "success"
        /\ at = "command" /\ UNCHANGED <<ran, left>> /\ NextStep \in ran
    BY <1>13 DEF StepFails
  <2>2. NextStep \in Steps
    BY <1>0, <2>1 DEF EngineInv, RunTypes
  <2>3. results' \in Seq(Reports) /\ Succeeded' = Succeeded
    BY <1>0, <2>1, <2>2, ResultsGrow DEF EngineInv, RunTypes
  <2>4. Kept
    BY <1>0, <2>1, <2>3, WaysOutAreKept
  <2>. QED  BY <1>1, <1>2, <2>1, <2>4
<1>. QED
  BY <1>3, <1>4, <1>5, <1>6, <1>7, <1>8, <1>9, <1>10, <1>11, <1>12, <1>13
  DEF Loop, Answer, EndCommand

LEMMA SharedKeepsInv ==
    ASSUME SeqInv, (RunStep \/ Operator) /\ UNCHANGED left
    PROVE  SeqInv' /\ ContractStep
<1>1. Kept
  BY RunStepIsKept, InterruptIsKept DEF SeqInv
<1>2. /\ UNCHANGED <<ran, left>>
      /\ stack' = stack \/ stack' = <<>>
      /\ at' \in {"checks", "steps", "gate"} => at \in {"checks", "steps", "gate"}
      /\ at' \in {"gate", "command"} => at' = at
  <2>1. ASSUME NEW o \in CommandOutcomes \cup {"error"}, RunCheck(o)
        PROVE  UNCHANGED ran /\ stack' = stack /\ at = "checks" /\ at' \in {"checks", "returned"}
    BY <2>1 DEF RunCheck, CheckPasses, Fail, Return, engineVars
  <2>2. ASSUME PollInChecks
        PROVE  UNCHANGED ran /\ stack' \in {stack, <<>>} /\ at' \in {"rollback", "returned"}
    BY <2>2 DEF PollInChecks, HandleSignal, Quit, Execute, StackAfterExecute, Return, engineVars
  <2>3. ASSUME DispatchSteps
        PROVE  UNCHANGED ran /\ stack' = stack /\ at = "checks" /\ at' = "steps"
    BY <2>3 DEF DispatchSteps, engineVars
  <2>4. ASSUME NEW yes \in BOOLEAN, AnswerPlan(yes)
        PROVE  UNCHANGED ran /\ stack' = <<>> /\ at' \in {"rollback", "returned"}
    BY <2>4 DEF AnswerPlan, Execute, StackAfterExecute
  <2>5. ASSUME NEW o \in CommandOutcomes, RunRollbackBlock(o)
        PROVE  UNCHANGED ran /\ stack' = stack /\ at' = at
    BY <2>5 DEF RunRollbackBlock
  <2>6. ASSUME FinishRollback
        PROVE  UNCHANGED ran /\ stack' = stack /\ at' = "returned"
    BY <2>6 DEF FinishRollback, Return, engineVars
  <2>7. ASSUME Operator
        PROVE  UNCHANGED ran /\ stack' = stack /\ at' = at
    BY <2>7 DEF Operator, Interrupt, engineVars
  <2>. QED  BY <2>1, <2>2, <2>3, <2>4, <2>5, <2>6, <2>7 DEF RunStep
<1>3. ToSet(stack') \subseteq ToSet(stack)
  BY <1>2, EmptyFacts
<1>. QED  BY <1>1, <1>2, <1>3, LoopWaits DEF SeqInv

LEMMA SeqStepKeepsInv == SeqInv /\ [Next]_seqVars => SeqInv' /\ ContractStep
<1>. SUFFICES ASSUME SeqInv, [Next]_seqVars PROVE SeqInv' /\ ContractStep
  OBVIOUS
<1>1. CASE UNCHANGED seqVars
  <2>1. UNCHANGED <<at, phase, status, engineVars, results, ran, left, stack>>
    BY <1>1 DEF seqVars, runVars, engineVars
  <2>2. Kept
    BY <2>1, EngineUntouched, ContractUntouched DEF SeqInv, Kept, engineVars
  <2>. QED  BY <2>1, <2>2, LoopWaits DEF SeqInv
<1>2. CASE Next
  BY <1>2, LoopStepKeepsInv, SharedKeepsInv DEF Next, Shared
<1>. QED  BY <1>1, <1>2

-----------------------------------------------------------------------------
(***************************************************************************)
(* What a run returns, and what it has seen by then.                       *)
(***************************************************************************)
LEMMA WayOutReturns ==
    ASSUME EngineInv, ~Over(at),
           \/ \E a \in Actions : HandleSignal(a)
           \/ Quit \/ DeclineConfirm \/ HandleStepFailure \/ Complete \/ Fail("internal_error")
    PROVE  \/ at' \in {"planPrompt", "rollback"}
           \/ /\ at' = "returned" /\ UNCHANGED entries
              /\ status' \in {"success", "aborted", "internal_error"}
<1>1. status = "success"
  BY DEF EngineInv, TakeTurns, Over
<1>. QED
  BY <1>1 DEF HandleSignal, Quit, DeclineConfirm, HandleStepFailure, Complete, Fail, Execute,
              OfferRollback, Return, engineVars

(* The steps are left for the rollback or its prompt, or the run returns   *)
(* what it has.                                                            *)
LEMMA LeavingKeepsOutcome ==
    ASSUME EngineInv, OutcomeInv, at \in {"checks", "steps", "gate", "command"},
           UNCHANGED checked,
           \/ at' \in {"planPrompt", "rollback"}
           \/ /\ at' = "returned" /\ UNCHANGED <<results, entries>>
              /\ status' \in {"success", "aborted", "internal_error"}
    PROVE  OutcomeInv'
<1>1. entries = <<>> /\ AllPassed
  BY DEF EngineInv, TakeTurns, OutcomeInv
<1>. QED  BY <1>1 DEF OutcomeInv, AllPassed, Ended

LEMMA StepKeepsOutcome ==
    ASSUME SeqInv, OutcomeInv, Loop \/ Answer \/ EndCommand, UNCHANGED checked
    PROVE  OutcomeInv'
<1>0. EngineInv /\ at \in {"steps", "gate", "command"} /\ ~Over(at) /\ AllPassed
  BY DEF SeqInv, OutcomeInv, Over, Loop, Answer, EndCommand, Finish, Poll, ReachStep, StartCommand,
         AnswerYes, AnswerSkip, AnswerAbort, AnswerNo, StepSucceeds, StepErrs, StepFails
<1>1. ASSUME UNCHANGED results,
             \/ \E a \in Actions : HandleSignal(a)
             \/ Quit \/ DeclineConfirm \/ Complete \/ Fail("internal_error")
      PROVE  OutcomeInv'
  <2>1. \/ at' \in {"planPrompt", "rollback"}
        \/ /\ at' = "returned" /\ UNCHANGED entries
           /\ status' \in {"success", "aborted", "internal_error"}
    BY <1>0, <1>1, WayOutReturns
  <2>. QED  BY <1>0, <1>1, <2>1, LeavingKeepsOutcome
<1>2. ASSUME UNCHANGED results, at' \in {"steps", "gate", "command"} PROVE OutcomeInv'
  BY <1>0, <1>2 DEF OutcomeInv, AllPassed, Ended
<1>3. CASE Finish
  BY <1>1, <1>3 DEF Finish
<1>4. CASE Poll
  BY <1>1, <1>4 DEF Poll, HandleSignal, Actions
<1>5. CASE ReachStep
  BY <1>2, <1>5 DEF ReachStep
<1>6. CASE StartCommand
  BY <1>1, <1>2, <1>6 DEF StartCommand
<1>7. CASE Answer
  BY <1>1, <1>2, <1>7 DEF Answer, AnswerYes, AnswerSkip, AnswerAbort, AnswerNo
<1>8. CASE StepSucceeds
  <2>1. at = "command" /\ at' = "steps" /\ results' = Recorded(NextStep, "success") /\ NextStep \in Steps
    BY <1>0, <1>8 DEF StepSucceeds, EngineInv, RunTypes
  <2>2. Result(NextStep, "success") \in Reports /\ results \in Seq(Reports)
           /\ Result(NextStep, "success").status = "success"
    BY <1>0, <2>1 DEF Result, Reports, CommandOutcomes, EngineInv, RunTypes
  <2>3. /\ \A i \in 1..Len(results) : results'[i] = results[i]
        /\ results'[Len(results) + 1] = Result(NextStep, "success")
        /\ DOMAIN results = 1..Len(results) /\ DOMAIN results' = 1..Len(results) + 1
        /\ Len(results) \in Nat
    BY <2>1, <2>2, AppendProperties, LenProperties DEF Recorded
  <2>4. \A i \in DOMAIN results' : i \in DOMAIN results \/ i = Len(results) + 1
    BY <2>3
  <2>5. \A i \in DOMAIN results' : results'[i].status = "success"
    BY <1>0, <2>2, <2>3, <2>4 DEF AllPassed
  <2>. QED  BY <1>0, <2>1, <2>5 DEF OutcomeInv, AllPassed, Ended
<1>9. CASE StepErrs
  BY <1>1, <1>9 DEF StepErrs
<1>10. ASSUME NEW o \in CommandOutcomes, StepFails(o) PROVE OutcomeInv'
  <2>1. at' \in {"planPrompt", "rollback"}
    BY <1>10 DEF StepFails, HandleStepFailure, OfferRollback, Execute
  <2>. QED  BY <1>0, <2>1, LeavingKeepsOutcome
<1>. QED
  BY <1>3, <1>4, <1>5, <1>6, <1>7, <1>8, <1>9, <1>10 DEF Loop, EndCommand

LEMMA UnloggedKeepsOutcome ==
    ASSUME SeqInv, OutcomeInv, Unlogged
    PROVE  OutcomeInv'
<1>0. EngineInv /\ UNCHANGED checked
  BY DEF SeqInv, Unlogged
<1>1. CASE PollInChecks
  <2>1. action \in Actions /\ HandleSignal(action) /\ UNCHANGED results /\ at = "checks" /\ ~Over(at)
    BY <1>1 DEF PollInChecks, HandleSignal, Actions, Over
  <2>2. \/ at' \in {"planPrompt", "rollback"}
        \/ /\ at' = "returned" /\ UNCHANGED entries
           /\ status' \in {"success", "aborted", "internal_error"}
    BY <1>0, <2>1, WayOutReturns
  <2>. QED  BY <1>0, <2>1, <2>2, LeavingKeepsOutcome
<1>2. CASE DispatchSteps
  BY <1>0, <1>2 DEF DispatchSteps, OutcomeInv, AllPassed, Ended
<1>3. ASSUME NEW yes \in BOOLEAN, AnswerPlan(yes) PROVE OutcomeInv'
  BY <1>0, <1>3 DEF AnswerPlan, Execute, OutcomeInv, Ended
<1>4. ASSUME NEW o \in CommandOutcomes, RunRollbackBlock(o) PROVE OutcomeInv'
  BY <1>0, <1>4 DEF RunRollbackBlock, OutcomeInv, Ended
<1>. QED  BY <1>1, <1>2, <1>3, <1>4 DEF Unlogged

LEMMA ReportKeepsOutcome ==
    ASSUME SeqInv, OutcomeInv, Report
    PROVE  OutcomeInv'
<1>1. /\ at = "rollback" /\ at' = "returned" /\ status' = StatusAfterRollback
      /\ UNCHANGED <<phase, entries, trigger, results, checked>>
  BY DEF Report, FinishRollback, Return, engineVars
<1>2. phase = "ROLLING_BACK"
  BY <1>1 DEF SeqInv, EngineInv, TakeTurns
<1>3. AllSucceeded' = AllSucceeded
  BY <1>1 DEF AllSucceeded
<1>. QED  BY <1>1, <1>2, <1>3 DEF StatusAfterRollback, OutcomeInv, Ended

-----------------------------------------------------------------------------
(***************************************************************************)
(* The rows of a list of results, and the trail they make.                 *)
(***************************************************************************)
Kinds         == {"check", "step", "rollback"}
RowsFor(k, q) == [i \in DOMAIN q |-> Row(k, q[i].step, q[i].status)]
StepRows      == RowsFor("step", results)

LEMMA RowFacts ==
    ASSUME NEW k \in Kinds, NEW r \in Reports
    PROVE  /\ Row(k, r.step, r.status) \in Rows
           /\ Row(k, r.step, r.status).kind = k
BY StepsAssumption DEF Kinds, Row, Rows, Reports

LEMMA RowsForFacts ==
    ASSUME NEW k \in Kinds, NEW q \in Seq(Reports)
    PROVE  /\ RowsFor(k, q) \in Seq(Rows)
           /\ Len(RowsFor(k, q)) = Len(q) /\ DOMAIN RowsFor(k, q) = 1..Len(q)
           /\ \A i \in 1..Len(q) : RowsFor(k, q)[i] = Row(k, q[i].step, q[i].status)
           /\ q = <<>> => RowsFor(k, q) = <<>>
<1>1. DOMAIN q = 1..Len(q) /\ Len(q) \in Nat
  BY LenProperties
<1>2. \A i \in 1..Len(q) : Row(k, q[i].step, q[i].status) \in Rows
  <2>1. \A i \in 1..Len(q) : q[i] \in Reports
    BY ElementOfSeq
  <2>. QED  BY <2>1, RowFacts
<1>3. RowsFor(k, q) \in [1..Len(q) -> Rows]
  BY <1>1, <1>2 DEF RowsFor
<1>4. RowsFor(k, q) \in Seq(Rows)
  BY <1>1, <1>3, SeqDef
<1>5. DOMAIN RowsFor(k, q) = 1..Len(q)
  BY <1>3
<1>6. Len(RowsFor(k, q)) = Len(q)
  BY <1>1, <1>4, <1>5, LenProperties
<1>7. \A i \in 1..Len(q) : RowsFor(k, q)[i] = Row(k, q[i].step, q[i].status)
  BY <1>1 DEF RowsFor
<1>8. q = <<>> => RowsFor(k, q) = <<>>
  BY <1>4, <1>6, EmptySeq
<1>. QED  BY <1>4, <1>5, <1>6, <1>7, <1>8

LEMMA RowsForAppend ==
    ASSUME NEW k \in Kinds, NEW q \in Seq(Reports), NEW r \in Reports
    PROVE  RowsFor(k, Append(q, r)) = Append(RowsFor(k, q), Row(k, r.step, r.status))
<1>. DEFINE row == Row(k, r.step, r.status)
            lhs == RowsFor(k, Append(q, r))
            rhs == Append(RowsFor(k, q), row)
<1>1. /\ Append(q, r) \in Seq(Reports) /\ Len(Append(q, r)) = Len(q) + 1
      /\ \A i \in 1..Len(q) : Append(q, r)[i] = q[i]
      /\ Append(q, r)[Len(q) + 1] = r /\ Len(q) \in Nat
  BY AppendProperties, LenProperties
<1>2. /\ lhs \in Seq(Rows) /\ Len(lhs) = Len(q) + 1
      /\ \A i \in 1..Len(q) + 1 : lhs[i] = Row(k, Append(q, r)[i].step, Append(q, r)[i].status)
  BY <1>1, RowsForFacts
<1>3. /\ RowsFor(k, q) \in Seq(Rows) /\ Len(RowsFor(k, q)) = Len(q) /\ row \in Rows
      /\ \A i \in 1..Len(q) : RowsFor(k, q)[i] = Row(k, q[i].step, q[i].status)
  BY RowsForFacts, RowFacts
<1>. HIDE DEF row, lhs
<1>4. /\ rhs \in Seq(Rows) /\ Len(rhs) = Len(q) + 1
      /\ \A i \in 1..Len(q) : rhs[i] = RowsFor(k, q)[i]
      /\ rhs[Len(q) + 1] = row
  BY <1>3, AppendProperties
<1>. HIDE DEF rhs
<1>5. ASSUME NEW i \in 1..Len(q) + 1 PROVE lhs[i] = rhs[i]
  <2>1. CASE i \in 1..Len(q)
    BY <1>1, <1>2, <1>3, <1>4, <2>1
  <2>2. CASE i = Len(q) + 1
    BY <1>1, <1>2, <1>4, <2>2 DEF row
  <2>. QED  BY <1>1, <2>1, <2>2
<1>6. lhs = rhs
  BY <1>2, <1>4, <1>5, SeqEqual
<1>. QED  BY <1>6 DEF lhs, rhs, row

(* Concatenation of rows.                                                  *)
LEMMA TwoParts ==
    ASSUME NEW p \in Seq(Rows), NEW q \in Seq(Rows)
    PROVE  /\ p \o q \in Seq(Rows) /\ Len(p \o q) = Len(p) + Len(q)
           /\ \A i \in 1 .. Len(p) : (p \o q)[i] = p[i]
           /\ \A i \in 1 .. Len(q) : (p \o q)[Len(p) + i] = q[i]
OBVIOUS

LEMMA RowAlgebra ==
    /\ \A p, q \in Seq(Rows) : p \o q \in Seq(Rows)
    /\ \A p \in Seq(Rows) : p \o <<>> = p /\ <<>> \o p = p
    /\ \A p, q \in Seq(Rows), r \in Rows : p \o Append(q, r) = Append(p \o q, r)
    /\ \A p \in Seq(Rows), r \in Rows : p \o <<r>> = Append(p, r)
    /\ \A p, q \in Seq(Rows) :
          q # <<>> => Append(p, Head(q)) \o Tail(q) = p \o q
<1>1. \A p, q \in Seq(Rows) : p \o q \in Seq(Rows)
  BY ConcatProperties
<1>2. \A p \in Seq(Rows) : p \o <<>> = p /\ <<>> \o p = p
  BY ConcatEmptySeq
<1>3. \A p \in Seq(Rows), r \in Rows : p \o <<r>> = Append(p, r) /\ <<r>> \in Seq(Rows)
  BY AppendIsConcat
<1>4. \A p, q, t \in Seq(Rows) : (p \o q) \o t = p \o (q \o t)
  BY ConcatAssociative
<1>5. ASSUME NEW p \in Seq(Rows), NEW q \in Seq(Rows), NEW r \in Rows
      PROVE  p \o Append(q, r) = Append(p \o q, r)
  BY <1>1, <1>3, <1>4
<1>6. ASSUME NEW p \in Seq(Rows), NEW q \in Seq(Rows), q # <<>>
      PROVE  Append(p, Head(q)) \o Tail(q) = p \o q
  <2>1. Head(q) \in Rows /\ Tail(q) \in Seq(Rows)
    BY <1>6, HeadTailProperties
  <2>2. q = <<Head(q)>> \o Tail(q)
    <3>1. Len(q) \in Nat \ {0} /\ DOMAIN q = 1..Len(q)
      BY <1>6, EmptySeq, LenProperties
    <3>2. 1 \in 1..Len(q) /\ Len(q) \in 1..Len(q)
      BY <3>1
    <3>3. SubSeq(q, 1, Len(q)) = <<q[1]>> \o SubSeq(q, 1 + 1, Len(q))
      BY <3>2, SubSeqRecursiveFirst
    <3>4. SubSeq(q, 1, Len(q)) = q /\ Tail(q) = SubSeq(q, 2, Len(q)) /\ 1 + 1 = 2
      BY <1>6, SubSeqFull, TailIsSubSeq
    <3>5. Head(q) = q[1]
      BY <1>6
    <3>. QED  BY <3>3, <3>4, <3>5
  <2>. QED  BY <1>3, <1>4, <2>1, <2>2
<1>. QED  BY <1>1, <1>2, <1>3, <1>5, <1>6

-----------------------------------------------------------------------------
(***************************************************************************)
(* What is told of a list of rows, as rows are added, written and lost.    *)
(***************************************************************************)
LEMMA Places ==
    ASSUME NEW n \in Nat, NEW x, IsFiniteSet(x), x \subseteq 1 .. n,
           NEW k \in (1 .. n) \ x
    PROVE  Cardinality((1 .. k) \ x) \in 1 .. n - Cardinality(x)
<1>1. IsFiniteSet(1 .. n) /\ Cardinality(1 .. n) = n
  BY FS_Interval
<1>2. IsFiniteSet((1 .. n) \ x) /\ Cardinality((1 .. n) \ x) = n - Cardinality(x)
  <2>1. (1 .. n) \cap x = x
    OBVIOUS
  <2>. QED  BY <1>1, <2>1, FS_Difference
<1>3. (1 .. k) \ x \in SUBSET ((1 .. n) \ x) /\ (1 .. k) \ x # {}
  OBVIOUS
<1>4. /\ IsFiniteSet((1 .. k) \ x)
      /\ Cardinality((1 .. k) \ x) <= n - Cardinality(x)
  BY <1>2, <1>3, FS_Subset
<1>5. Cardinality((1 .. k) \ x) \in Nat /\ Cardinality((1 .. k) \ x) # 0 /\ Cardinality(x) \in Nat
  BY <1>3, <1>4, FS_CardinalityType, FS_EmptySet
<1>. QED  BY <1>4, <1>5

LEMMA TellsNothing == Tells(<<>>, <<>>, {}, <<>>)
<1>1. Cardinality({}) = 0 /\ Len(<<>>) = 0
  BY FS_EmptySet
<1>. QED  BY <1>1 DEF Tells

LEMMA TellsMore ==
    ASSUME NEW l \in Seq(Rows), NEW x, IsFiniteSet(x), NEW t \in Seq(Rows),
           Tells(l, <<>>, x, t), NEW r \in Seq(Rows)
    PROVE  Tells(l, r, x, t \o r)
<1>. DEFINE n == Len(l) + Cardinality(x)
<1>1. n \in Nat /\ Len(t) = n /\ x \subseteq 1 .. n
  BY FS_CardinalityType, LenProperties DEF Tells
<1>2. /\ Len(t \o r) = n + Len(r)
      /\ \A i \in 1 .. n : (t \o r)[i] = t[i]
      /\ \A i \in 1 .. Len(r) : (t \o r)[n + i] = r[i]
  <2>1. /\ Len(t \o r) = Len(t) + Len(r)
        /\ \A i \in 1 .. Len(t) : (t \o r)[i] = t[i]
        /\ \A i \in 1 .. Len(r) : (t \o r)[Len(t) + i] = r[i]
    BY TwoParts
  <2>. HIDE DEF n
  <2>. QED  BY <1>1, <2>1
<1>3. \A k \in (1 .. n) \ x : l[Cardinality((1 .. k) \ x)] = t[k]
  BY DEF Tells
<1>. QED  BY <1>1, <1>2, <1>3 DEF Tells

LEMMA TellsWritten ==
    ASSUME NEW l \in Seq(Rows), NEW o \in Seq(Rows), o # <<>>, NEW x, IsFiniteSet(x), NEW t,
           Tells(l, o, x, t)
    PROVE  Tells(Append(l, Head(o)), Tail(o), x, t)
<1>. DEFINE n == Len(l) + Cardinality(x)
            m == Append(l, Head(o))
<1>1. /\ Cardinality(x) \in Nat /\ Len(l) \in Nat /\ Len(o) \in Nat \ {0}
      /\ Head(o) \in Rows /\ Head(o) = o[1]
      /\ Len(Tail(o)) = Len(o) - 1 /\ \A i \in 1 .. Len(o) - 1 : Tail(o)[i] = o[i + 1]
  BY FS_CardinalityType, HeadTailProperties, EmptySeq
<1>2. /\ Len(m) = Len(l) + 1 /\ m[Len(l) + 1] = Head(o)
      /\ \A i \in 1 .. Len(l) : m[i] = l[i]
  BY <1>1, AppendProperties
<1>. HIDE DEF m
<1>3. /\ x \subseteq 1 .. n /\ Len(t) = n + Len(o) /\ n \in Nat
      /\ \A i \in 1 .. Len(o) : t[n + i] = o[i]
      /\ \A k \in (1 .. n) \ x : l[Cardinality((1 .. k) \ x)] = t[k]
  BY <1>1 DEF Tells
<1>4. Len(m) + Cardinality(x) = n + 1
  BY <1>1, <1>2
<1>5. x \subseteq 1 .. n + 1 /\ Len(t) = (n + 1) + Len(Tail(o))
  BY <1>1, <1>3
<1>6. ASSUME NEW i \in 1 .. Len(Tail(o))  PROVE t[(n + 1) + i] = Tail(o)[i]
  <2>1. i + 1 \in 1 .. Len(o) /\ (n + 1) + i = n + (i + 1) /\ i \in 1 .. Len(o) - 1
    BY <1>1, <1>3
  <2>. QED  BY <1>1, <1>3, <2>1
<1>7. ASSUME NEW k \in (1 .. n + 1) \ x  PROVE m[Cardinality((1 .. k) \ x)] = t[k]
  <2>1. CASE k = n + 1
    <3>a. \A p \in Nat : IsFiniteSet(1 .. p) /\ Cardinality(1 .. p) = p
      BY FS_Interval
    <3>b. (1 .. n + 1) \cap x = x /\ n + 1 \in Nat
      BY <1>3
    <3>1. (1 .. n + 1) \cap x = x /\ IsFiniteSet(1 .. n + 1) /\ Cardinality(1 .. n + 1) = n + 1
      <4>. HIDE DEF n
      <4>. QED  BY <3>a, <3>b
    <3>2. Cardinality((1 .. n + 1) \ x) = (n + 1) - Cardinality(x)
      <4>. HIDE DEF n
      <4>. QED  BY <3>1, FS_Difference
    <3>3. (n + 1) - Cardinality(x) = Len(l) + 1
      BY <1>1
    <3>4. 1 \in 1 .. Len(o)
      BY <1>1
    <3>. QED  BY <1>1, <1>2, <1>3, <2>1, <3>2, <3>3, <3>4
  <2>2. CASE k \in 1 .. n
    <3>1. Cardinality((1 .. k) \ x) \in 1 .. n - Cardinality(x)
      BY <1>3, <2>2, Places
    <3>2. n - Cardinality(x) = Len(l)
      BY <1>1
    <3>. QED  BY <1>2, <1>3, <2>2, <3>1, <3>2
  <2>. QED  BY <1>3, <2>1, <2>2
<1>. HIDE DEF n
<1>. QED  BY <1>4, <1>5, <1>6, <1>7 DEF Tells, m

LEMMA TellsLost ==
    ASSUME NEW l \in Seq(Rows), NEW o \in Seq(Rows), o # <<>>, NEW x, IsFiniteSet(x), NEW t,
           Tells(l, o, x, t)
    PROVE  LET y == x \cup {Len(l) + Cardinality(x) + 1}
           IN  IsFiniteSet(y) /\ Tells(l, Tail(o), y, t)
<1>. DEFINE n == Len(l) + Cardinality(x)
            y == x \cup {n + 1}
<1>1. /\ Cardinality(x) \in Nat /\ Len(l) \in Nat /\ Len(o) \in Nat \ {0}
      /\ Len(Tail(o)) = Len(o) - 1 /\ \A i \in 1 .. Len(o) - 1 : Tail(o)[i] = o[i + 1]
  BY FS_CardinalityType, HeadTailProperties, EmptySeq
<1>3. /\ x \subseteq 1 .. n /\ Len(t) = n + Len(o) /\ n \in Nat
      /\ \A i \in 1 .. Len(o) : t[n + i] = o[i]
      /\ \A k \in (1 .. n) \ x : l[Cardinality((1 .. k) \ x)] = t[k]
  BY <1>1 DEF Tells
<1>2. IsFiniteSet(y) /\ Cardinality(y) = Cardinality(x) + 1
  <2>1. n + 1 \notin x
    BY <1>3
  <2>. QED  BY <2>1, FS_AddElement
<1>4. Len(l) + Cardinality(y) = n + 1
  BY <1>1, <1>2
<1>5. y \subseteq 1 .. n + 1 /\ Len(t) = (n + 1) + Len(Tail(o))
  BY <1>1, <1>3
<1>6. ASSUME NEW i \in 1 .. Len(Tail(o))  PROVE t[(n + 1) + i] = Tail(o)[i]
  <2>1. i + 1 \in 1 .. Len(o) /\ (n + 1) + i = n + (i + 1) /\ i \in 1 .. Len(o) - 1
    BY <1>1, <1>3
  <2>. QED  BY <1>1, <1>3, <2>1
<1>7. ASSUME NEW k \in (1 .. n + 1) \ y  PROVE l[Cardinality((1 .. k) \ y)] = t[k]
  <2>1. k \in (1 .. n) \ x
    BY <1>3
  <2>2. (1 .. k) \ y = (1 .. k) \ x
    BY <1>3, <2>1
  <2>. QED  BY <1>3, <2>1, <2>2
<1>8. Tells(l, Tail(o), y, t)
  <2>. HIDE DEF n, y
  <2>. QED  BY <1>4, <1>5, <1>6, <1>7 DEF Tells
<1>. QED  BY <1>2, <1>8

(* While nothing is lost, what is written and owed is the list itself.     *)
LEMMA TellsAll ==
    ASSUME NEW l \in Seq(Rows), NEW o \in Seq(Rows), NEW t \in Seq(Rows), Tells(l, o, {}, t)
    PROVE  l \o o = t
<1>1. Cardinality({}) = 0 /\ Len(l) \in Nat /\ Len(o) \in Nat
  BY FS_EmptySet
<1>2. /\ Len(t) = Len(l) + Len(o)
      /\ \A i \in 1 .. Len(o) : t[Len(l) + i] = o[i]
      /\ \A k \in 1 .. Len(l) : l[Cardinality((1 .. k) \ {})] = t[k]
  <2>. DEFINE n == Len(l) + Cardinality({})
  <2>1. /\ Len(t) = n + Len(o)
        /\ \A i \in 1 .. Len(o) : t[n + i] = o[i]
        /\ \A k \in (1 .. n) \ {} : l[Cardinality((1 .. k) \ {})] = t[k]
    BY DEF Tells
  <2>2. n = Len(l)
    BY <1>1
  <2>. HIDE DEF n
  <2>. QED  BY <2>1, <2>2
<1>3. \A k \in 1 .. Len(l) : l[k] = t[k]
  <2>1. ASSUME NEW k \in 1 .. Len(l)  PROVE Cardinality((1 .. k) \ {}) = k
    <3>1. (1 .. k) \ {} = 1 .. k
      OBVIOUS
    <3>. QED  BY <1>1, <3>1, FS_Interval
  <2>. QED  BY <1>2, <2>1
<1>4. /\ l \o o \in Seq(Rows) /\ Len(l \o o) = Len(l) + Len(o)
      /\ \A i \in 1 .. Len(l) : (l \o o)[i] = l[i]
      /\ \A i \in 1 .. Len(o) : (l \o o)[Len(l) + i] = o[i]
  BY TwoParts
<1>5. ASSUME NEW i \in 1 .. Len(t)  PROVE (l \o o)[i] = t[i]
  <2>1. CASE i <= Len(l)
    BY <1>1, <1>2, <1>3, <1>4, <2>1
  <2>2. CASE i > Len(l)
    <3>1. i - Len(l) \in 1 .. Len(o) /\ i = Len(l) + (i - Len(l))
      BY <1>1, <1>2, <2>2
    <3>. QED  BY <1>2, <1>4, <3>1
  <2>. QED  BY <1>1, <1>2, <2>1, <2>2
<1>. QED  BY <1>2, <1>4, <1>5, SeqEqual

(* What is told is the list less what is lost.                             *)
IsTheRest(told, kept, t) ==
    /\ Len(told) = Cardinality(kept)
    /\ \A k \in kept : told[Cardinality({j \in kept : j <= k})] = t[k]

LEMMA TellsTheRest ==
    ASSUME NEW l \in Seq(Rows), NEW o \in Seq(Rows), NEW x, IsFiniteSet(x),
           NEW t \in Seq(Rows), Tells(l, o, x, t)
    PROVE  IsTheRest(l \o o, DOMAIN t \ x, t)
<1>. DEFINE n == Len(l) + Cardinality(x)
            told == l \o o
            kept == DOMAIN t \ x
<1>1. Cardinality(x) \in Nat /\ Len(l) \in Nat /\ Len(o) \in Nat /\ DOMAIN t = 1 .. Len(t)
  BY FS_CardinalityType, LenProperties
<1>2. /\ x \subseteq 1 .. n /\ Len(t) = n + Len(o) /\ n \in Nat
      /\ \A i \in 1 .. Len(o) : t[n + i] = o[i]
      /\ \A k \in (1 .. n) \ x : l[Cardinality((1 .. k) \ x)] = t[k]
  BY <1>1 DEF Tells
<1>3. /\ Len(told) = Len(l) + Len(o)
      /\ \A i \in 1 .. Len(l) : told[i] = l[i]
      /\ \A i \in 1 .. Len(o) : told[Len(l) + i] = o[i]
  BY TwoParts
<1>. HIDE DEF told
<1>4. \A m \in Nat : n <= m => Cardinality((1 .. m) \ x) = m - Cardinality(x)
  <2>1. ASSUME NEW m \in Nat, n <= m  PROVE Cardinality((1 .. m) \ x) = m - Cardinality(x)
    <3>1. (1 .. m) \cap x = x
      BY <1>2, <2>1
    <3>2. IsFiniteSet(1 .. m) /\ Cardinality(1 .. m) = m
      BY FS_Interval
    <3>3. Cardinality((1 .. m) \ x) = Cardinality(1 .. m) - Cardinality((1 .. m) \cap x)
      <4>. HIDE DEF n, kept
      <4>. QED  BY <3>2, FS_Difference
    <3>. QED  BY <3>1, <3>2, <3>3
  <2>. QED  BY <2>1
<1>5. Len(told) = Cardinality(kept)
  <2>1. Len(t) \in Nat /\ n <= Len(t) /\ kept = (1 .. Len(t)) \ x
    BY <1>1, <1>2
  <2>2. Cardinality(kept) = Len(t) - Cardinality(x)
    BY <1>4, <2>1
  <2>. QED  BY <1>1, <1>2, <1>3, <2>2
<1>6. ASSUME NEW k \in kept  PROVE told[Cardinality({j \in kept : j <= k})] = t[k]
  <2>1. k \in Nat /\ {j \in kept : j <= k} = (1 .. k) \ x
    BY <1>1, <1>2
  <2>2. CASE k <= n
    <3>1. k \in (1 .. n) \ x
      BY <1>1, <1>2, <2>2
    <3>2. Cardinality((1 .. k) \ x) \in 1 .. n - Cardinality(x)
      BY <1>2, <3>1, Places
    <3>3. n - Cardinality(x) = Len(l)
      BY <1>1
    <3>. QED  BY <1>2, <1>3, <2>1, <3>1, <3>2, <3>3
  <2>3. CASE k > n
    <3>. DEFINE i == k - n
    <3>0. k \in 1 .. Len(t) /\ k \in Nat
      BY <1>1, <2>1
    <3>1. i \in 1 .. Len(o) /\ k = n + i
      <4>. HIDE DEF n, kept
      <4>. QED  BY <1>1, <1>2, <2>3, <3>0
    <3>2. Cardinality((1 .. k) \ x) = Len(l) + i
      <4>1. n <= k
        BY <1>2, <2>3, <3>0
      <4>2. Cardinality((1 .. k) \ x) = k - Cardinality(x)
        BY <1>4, <3>0, <4>1
      <4>. QED  BY <1>1, <3>0, <4>2
    <3>3. t[k] = o[i] /\ told[Len(l) + i] = o[i]
      <4>. HIDE DEF i
      <4>. QED  BY <1>2, <1>3, <3>1
    <3>. HIDE DEF i
    <3>. QED  BY <2>1, <3>2, <3>3
  <2>. QED  BY <1>2, <2>1, <2>2, <2>3
<1>. HIDE DEF kept
<1>7. IsTheRest(told, kept, t)
  BY <1>5, <1>6 DEF IsTheRest
<1>. QED  BY <1>7 DEF told, kept

-----------------------------------------------------------------------------
LEMMA TrailIs ==
    /\ Trail = Blocks \o (IF Ended THEN RowsFor("rollback", entries) ELSE <<>>)
    /\ Trail' = Blocks' \o (IF Ended' THEN RowsFor("rollback", entries') ELSE <<>>)
    /\ Blocks = checked \o RowsFor("step", results)
    /\ Blocks' = checked' \o RowsFor("step", results')
    /\ RowsOf(entries) = RowsFor("rollback", entries)
<1>1. \A q : RowsOf(q) = RowsFor("rollback", q)
  BY DEF RowsOf, RollbackRow, RowsFor
<1>2. /\ [i \in DOMAIN results |-> StepRow(results[i])] = RowsFor("step", results)
      /\ [i \in DOMAIN results' |-> StepRow(results'[i])] = RowsFor("step", results')
  BY DEF StepRow, RowsFor
<1>. QED  BY <1>1, <1>2 DEF Trail, Blocks

LEMMA CheckedRows == Seq(CheckRows) \subseteq Seq(Rows)
<1>1. CheckRows \subseteq Rows
  BY DEF CheckRows, Rows
<1>. QED  BY <1>1, SeqMonotonic

LEMMA TrailIsRows == ASSUME EngineInv, TrailInv PROVE Trail \in Seq(Rows)
<1>. DEFINE steps  == RowsFor("step", results)
            report == RowsFor("rollback", entries)
<1>1. steps \in Seq(Rows) /\ report \in Seq(Rows) /\ checked \in Seq(Rows)
  BY CheckedRows, RowsForFacts DEF TrailInv, Kinds, EngineInv, RunTypes
<1>2. checked \o steps \in Seq(Rows)
  BY <1>1, RowAlgebra
<1>3. Trail = (checked \o steps) \o report \/ Trail = (checked \o steps) \o <<>>
  BY TrailIs
<1>. HIDE DEF steps, report
<1>. QED  BY <1>1, <1>2, <1>3, RowAlgebra

(* Before the report is due the trail is the blocks alone.                 *)
LEMMA TrailBeforeReport ==
    ASSUME EngineInv, TrailInv, ~Ended \/ entries = <<>>
    PROVE  Trail = Blocks /\ Blocks \in Seq(Rows) /\ RowsFor("step", results) \in Seq(Rows)
<1>1. checked \in Seq(Rows) /\ RowsFor("step", results) \in Seq(Rows)
         /\ (entries = <<>> => RowsFor("rollback", entries) = <<>>)
  BY CheckedRows, RowsForFacts DEF TrailInv, Kinds, EngineInv, RunTypes
<1>2. Blocks \in Seq(Rows)
  BY <1>1, RowAlgebra, TrailIs
<1>. QED  BY <1>1, <1>2, RowAlgebra, TrailIs

(* A step that logs nothing.                                               *)
LEMMA NothingLogged ==
    ASSUME EngineInv, TrailInv, owed = <<>>, owed' = <<>>, ~Ended, ~Ended' \/ entries' = <<>>,
           UNCHANGED <<checksLeft, checked, results, log, lost>>, entries' \in Seq(Reports)
    PROVE  TrailInv'
<1>1. Trail = Blocks /\ Blocks \in Seq(Rows)
  BY TrailBeforeReport
<1>2. Blocks' = Blocks
  BY TrailIs
<1>3. Trail' = Blocks
  <2>1. entries' = <<>> => RowsFor("rollback", entries') = <<>>
    BY RowsForFacts DEF Kinds
  <2>. QED  BY <1>1, <1>2, <2>1, RowAlgebra, TrailIs
<1>. QED  BY <1>1, <1>3 DEF TrailInv

LEMMA CheckKeepsTrail ==
    ASSUME SeqInv, OutcomeInv, TrailInv, owed = <<>>, UNCHANGED <<log, lost>>,
           NEW o \in CommandOutcomes \cup {"error"}, Check(o)
    PROVE  TrailInv' /\ OutcomeInv'
<1>. DEFINE row == Row("check", checksLeft, o)
<1>1. /\ at = "checks" /\ UNCHANGED <<results, entries>> /\ checksLeft \in Int
      /\ checksLeft' = checksLeft - 1
      /\ checked' = IF o = "error" THEN checked ELSE Append(checked, row)
      /\ owed' = IF o = "error" THEN <<>> ELSE <<Last(checked')>>
      /\ \/ o = "success" /\ at' = "checks"
         \/ o \in {"failed", "timeout"} /\ at' = "returned" /\ status' = "check_failed"
         \/ o = "error" /\ at' = "returned" /\ status' = "internal_error"
  BY DEF Check, RunCheck, CheckPasses, Fail, Return, engineVars, TrailInv
<1>2. EngineInv /\ entries = <<>> /\ ~Ended /\ results = <<>> /\ AllPassed
  BY <1>1 DEF SeqInv, EngineInv, TakeTurns, OutcomeInv, Ended
<1>3. Trail = Blocks /\ Blocks \in Seq(Rows)
  BY <1>2, TrailBeforeReport
<1>4. RowsFor("step", results) = <<>> /\ RowsFor("rollback", entries) = <<>>
  BY <1>2, RowsForFacts DEF Kinds, EngineInv, RunTypes
<1>5. checked \in Seq(CheckRows) /\ checked \in Seq(Rows)
  BY CheckedRows DEF TrailInv
<1>6. Trail = checked
  BY <1>3, <1>4, <1>5, RowAlgebra, TrailIs
<1>7. CASE o = "error"
  <2>1. Trail' = checked
    BY <1>1, <1>4, <1>5, <1>7, RowAlgebra, TrailIs
  <2>2. TrailInv'
    BY <1>1, <1>6, <1>7, <2>1 DEF TrailInv
  <2>3. OutcomeInv'
    BY <1>1, <1>2, <1>7 DEF OutcomeInv, AllPassed, Ended
  <2>. QED  BY <2>2, <2>3
<1>8. CASE o \in CommandOutcomes
  <2>1. row \in CheckRows /\ row \in Rows /\ row.status = o
    BY <1>1, <1>8 DEF Row, CheckRows, Rows
  <2>2. o # "error"
    BY <1>8 DEF CommandOutcomes
  <2>. HIDE DEF row
  <2>3. checked' = Append(checked, row)
    BY <1>1, <2>2 DEF row
  <2>4. /\ checked' \in Seq(CheckRows) /\ checked' # <<>> /\ Len(checked') = Len(checked) + 1
        /\ \A i \in 1..Len(checked) : checked'[i] = checked[i]
        /\ checked'[Len(checked) + 1] = row
        /\ Len(checked) \in Nat
    BY <1>5, <2>1, <2>3, AppendProperties, LenProperties
  <2>5. Last(checked') = row /\ owed' = <<row>>
    BY <1>1, <2>2, <2>4 DEF Last
  <2>6. checked' \in Seq(Rows)
    BY <2>4, CheckedRows
  <2>7. Trail' = checked'
    <3>1. RowsFor("step", results') = <<>> /\ RowsFor("rollback", entries') = <<>>
      BY <1>1, <1>4
    <3>2. checked' \o <<>> = checked'
      BY <2>6, RowAlgebra
    <3>3. Blocks' = checked'
      BY <3>1, <3>2, TrailIs
    <3>. QED  BY <3>1, <3>2, <3>3, TrailIs
  <2>8. <<row>> \in Seq(Rows) /\ Trail' = Trail \o <<row>>
    BY <1>5, <1>6, <2>1, <2>3, <2>7, RowAlgebra
  <2>9. TrailInv'
    <3>1. Tells(log', owed', lost', Trail')
      BY <1>3, <2>5, <2>8, TellsMore DEF TrailInv
    <3>2. owed' \in Seq(Rows)
      BY <2>1, <2>5
    <3>3. checksLeft' \in Int
      BY <1>1
    <3>. QED  BY <2>4, <3>1, <3>2, <3>3 DEF TrailInv
  <2>10. o = "success" => AllPassed'
    <3>0. DOMAIN checked = 1..Len(checked) /\ DOMAIN checked' = 1..Len(checked) + 1
      BY <1>5, <2>4, LenProperties
    <3>1. \A i \in DOMAIN checked' : i \in DOMAIN checked \/ i = Len(checked) + 1
      BY <2>4, <3>0
    <3>. QED  BY <1>1, <1>2, <2>1, <2>4, <3>0, <3>1 DEF AllPassed
  <2>11. OutcomeInv'
    BY <1>1, <1>2, <2>1, <2>2, <2>4, <2>5, <2>10 DEF OutcomeInv, Ended
  <2>. QED  BY <2>9, <2>11
<1>. QED  BY <1>7, <1>8

(* recordStepResult: the row that is owed is the result that was appended. *)
LEMMA StepKeepsTrail ==
    ASSUME SeqInv, TrailInv, owed = <<>>, UNCHANGED <<log, lost>>, Step
    PROVE  TrailInv'
<1>0. /\ EngineInv /\ at \in {"steps", "gate", "command"} /\ ~Ended /\ entries = <<>>
      /\ UNCHANGED <<checked, checksLeft>>
  BY DEF Step, SeqInv, EngineInv, TakeTurns, Ended, Loop, Answer, EndCommand, Finish, Poll, ReachStep,
         StartCommand, AnswerYes, AnswerSkip, AnswerAbort, AnswerNo, StepSucceeds, StepErrs, StepFails
<1>1. UNCHANGED entries
  <2>1. /\ \A t : Execute(t) \/ OfferRollback(t) => UNCHANGED entries
        /\ \A st, ph : Return(st, ph) => UNCHANGED entries
    BY DEF Execute, OfferRollback, Return, engineVars
  <2>2. HandleStepFailure \/ DeclineConfirm => UNCHANGED entries
    BY <2>1 DEF HandleStepFailure, DeclineConfirm
  <2>3. \A a : HandleSignal(a) => UNCHANGED entries
    BY <2>1 DEF HandleSignal, Quit
  <2>4. Finish \/ Poll \/ ReachStep \/ StartCommand => UNCHANGED entries
    BY <2>1, <2>3 DEF Finish, Complete, Poll, ReachStep, StartCommand, Fail, engineVars
  <2>5. Answer => UNCHANGED entries
    BY <2>1, <2>2 DEF Answer, AnswerYes, AnswerSkip, AnswerAbort, AnswerNo, Quit, engineVars
  <2>6. EndCommand => UNCHANGED entries
    BY <2>1, <2>2 DEF EndCommand, StepSucceeds, StepErrs, StepFails, Fail
  <2>. QED  BY <2>4, <2>5, <2>6 DEF Step, Loop
<1>2. \/ UNCHANGED results
      \/ \E o \in CommandOutcomes : results' = Recorded(NextStep, o) /\ NextStep \in Steps
  BY <1>0 DEF Step, Loop, Answer, EndCommand, Finish, Poll, ReachStep, StartCommand, AnswerYes, AnswerSkip,
         AnswerAbort, AnswerNo, StepSucceeds, StepErrs, StepFails, CommandOutcomes, EngineInv, RunTypes
<1>3. CASE UNCHANGED results
  BY <1>0, <1>1, <1>3, NothingLogged DEF Step, EngineInv, RunTypes
<1>4. ASSUME NEW o \in CommandOutcomes, results' = Recorded(NextStep, o), NextStep \in Steps
      PROVE  TrailInv'
  <2>. DEFINE r == Result(NextStep, o)
              row == Row("step", r.step, r.status)
  <2>1. r \in Reports /\ results \in Seq(Reports)
    BY <1>0, <1>4 DEF Result, Reports, EngineInv, RunTypes
  <2>2. row \in Rows
    BY <2>1, RowFacts DEF Kinds
  <2>3. results' = Append(results, r)
    BY <1>4 DEF Recorded
  <2>. HIDE DEF r
  <2>4. /\ results' # results /\ Last(results') = r
        /\ RowsFor("step", results') = Append(RowsFor("step", results), row)
    <3>1. /\ Len(results') = Len(results) + 1 /\ Len(results) \in Nat
          /\ results'[Len(results) + 1] = r
      BY <2>1, <2>3, AppendProperties, LenProperties
    <3>2. RowsFor("step", results') = Append(RowsFor("step", results), row)
      BY <2>1, <2>3, RowsForAppend DEF Kinds
    <3>. QED  BY <3>1, <3>2 DEF Last
  <2>5. owed' = <<row>>
    BY <2>4 DEF Step, StepRow
  <2>. HIDE DEF row
  <2>6. Trail = Blocks /\ Blocks \in Seq(Rows) /\ RowsFor("step", results) \in Seq(Rows)
    BY <1>0, TrailBeforeReport
  <2>7. checked \in Seq(Rows) /\ log \in Seq(Rows)
    BY CheckedRows DEF TrailInv
  <2>8. Blocks' = Append(Blocks, row)
    <3>1. Blocks' = checked \o Append(RowsFor("step", results), row)
      BY <1>0, <2>4, TrailIs
    <3>2. Blocks = checked \o RowsFor("step", results)
      BY TrailIs
    <3>. QED  BY <2>2, <2>6, <2>7, <3>1, <3>2, RowAlgebra
  <2>9. Trail' = Blocks'
    <3>1. RowsFor("rollback", entries') = <<>>
      BY <1>0, <1>1, RowsForFacts DEF Kinds, EngineInv, RunTypes
    <3>2. Blocks' \in Seq(Rows)
      BY <2>2, <2>6, <2>8, AppendProperties
    <3>. QED  BY <3>1, <3>2, RowAlgebra, TrailIs
  <2>10. <<row>> \in Seq(Rows) /\ Trail' = Trail \o <<row>>
    BY <2>2, <2>6, <2>8, <2>9, RowAlgebra
  <2>11. Tells(log', owed', lost', Trail')
    BY <2>5, <2>6, <2>10, TellsMore DEF TrailInv
  <2>12. owed' \in Seq(Rows)
    BY <2>2, <2>5
  <2>. QED  BY <1>0, <2>11, <2>12 DEF TrailInv
<1>. QED  BY <1>2, <1>3, <1>4

LEMMA UnloggedKeepsTrail ==
    ASSUME SeqInv, SeqInv', TrailInv, owed = <<>>, UNCHANGED <<log, lost>>, Unlogged
    PROVE  TrailInv'
<1>1. /\ EngineInv /\ ~Ended /\ UNCHANGED <<results, checked, checksLeft, owed>>
      /\ entries' \in Seq(Reports)
  BY DEF SeqInv, EngineInv, RunTypes, Ended, Unlogged, PollInChecks, DispatchSteps, AnswerPlan, RunRollbackBlock
<1>2. ~Ended' \/ entries' = <<>>
  <2>1. CASE PollInChecks
    <3>1. entries = <<>> /\ UNCHANGED entries
      BY <1>1, <2>1 DEF PollInChecks, HandleSignal, Quit, Execute, Return, engineVars, EngineInv, TakeTurns
    <3>. QED  BY <3>1
  <2>2. CASE DispatchSteps
    BY <2>2 DEF DispatchSteps, Ended
  <2>3. ASSUME NEW yes \in BOOLEAN, AnswerPlan(yes) PROVE ~Ended' \/ entries' = <<>>
    BY <1>1, <2>3 DEF AnswerPlan, Execute, EngineInv, TakeTurns, Ended
  <2>4. ASSUME NEW o \in CommandOutcomes, RunRollbackBlock(o) PROVE ~Ended'
    BY <2>4 DEF RunRollbackBlock, Ended
  <2>. QED  BY <2>1, <2>2, <2>3, <2>4 DEF Unlogged
<1>. QED  BY <1>1, <1>2, NothingLogged

(* The report is due when the run returns, and is owed whole.              *)
LEMMA ReportKeepsTrail ==
    ASSUME SeqInv, TrailInv, owed = <<>>, UNCHANGED <<log, lost>>, Report
    PROVE  TrailInv'
<1>. DEFINE report == RowsFor("rollback", entries)
<1>1. /\ EngineInv /\ ~Ended /\ Ended' /\ UNCHANGED <<results, entries, checked, checksLeft>>
      /\ owed' = report
  BY TrailIs DEF SeqInv, Ended, Report, ReportRows, FinishRollback, Return, engineVars
<1>2. report \in Seq(Rows)
  BY <1>1, RowsForFacts DEF Kinds, EngineInv, RunTypes
<1>. HIDE DEF report
<1>3. Trail = Blocks /\ Blocks \in Seq(Rows)
  BY <1>1, TrailBeforeReport
<1>4. Trail' = Blocks \o report
  BY <1>1, TrailIs DEF report
<1>5. Tells(log', owed', lost', Trail')
  BY <1>1, <1>2, <1>3, <1>4, TellsMore DEF TrailInv
<1>. QED  BY <1>1, <1>2, <1>5 DEF TrailInv

(* A row goes from what is owed to what is written, or is lost.            *)
LEMMA WriteKeepsTrail ==
    ASSUME TrailInv, LogStep
    PROVE  TrailInv'
<1>1. /\ owed # <<>> /\ owed' = Tail(owed) /\ UNCHANGED <<seqVars, checked>>
      /\ log \in Seq(Rows) /\ owed \in Seq(Rows)
  BY DEF LogStep, TrailInv
<1>2. Head(owed) \in Rows /\ Tail(owed) \in Seq(Rows)
  BY <1>1, HeadTailProperties
<1>3. Trail' = Trail /\ UNCHANGED checksLeft
  BY <1>1 DEF seqVars, runVars, engineVars, Trail, Blocks, Ended, RowsOf, RollbackRow
<1>4. CASE log' = Append(log, Head(owed)) /\ UNCHANGED lost
  <2>1. log' \in Seq(Rows)
    BY <1>1, <1>2, <1>4, AppendProperties
  <2>2. Tells(log', owed', lost', Trail')
    <3>1. IsFiniteSet(lost) /\ Tells(log, owed, lost, Trail)
      BY DEF TrailInv
    <3>. QED  BY <1>1, <1>3, <1>4, <3>1, TellsWritten
  <2>. QED  BY <1>1, <1>2, <1>3, <1>4, <2>1, <2>2 DEF TrailInv
<1>5. CASE lost' = lost \cup {ThisInsert} /\ UNCHANGED log
  <2>1. IsFiniteSet(lost) /\ Tells(log, owed, lost, Trail)
    BY DEF TrailInv
  <2>2. IsFiniteSet(lost') /\ Tells(log', owed', lost', Trail')
    BY <1>1, <1>3, <1>5, <2>1, TellsLost DEF ThisInsert
  <2>. QED  BY <1>1, <1>2, <1>3, <1>5, <2>2 DEF TrailInv
<1>. QED  BY <1>4, <1>5 DEF LogStep

-----------------------------------------------------------------------------
(***************************************************************************)
(* The audited run.                                                        *)
(***************************************************************************)
LEMMA AuditInit0 == AuditInit => AuditInv /\ Contract!Init
<1>. SUFFICES ASSUME AuditInit PROVE AuditInv /\ Contract!Init
  OBVIOUS
<1>1. SeqInv /\ Contract!Init
  BY SeqInit DEF AuditInit
<1>2. /\ at = "checks" /\ results = <<>> /\ entries = <<>> /\ checked = <<>> /\ log = <<>> /\ owed = <<>>
      /\ checksLeft = NumChecks /\ ~Ended /\ closed = FALSE /\ runRow \in {"none", "running"}
  BY DEF AuditInit, Init, RunInit, Ended
<1>3. OutcomeInv
  BY <1>2 DEF OutcomeInv, AllPassed, Ended
<1>4. TrailInv
  <2>1. RowsFor("step", <<>>) = <<>>
    BY EmptySeq, RowsForFacts DEF Kinds
  <2>2. <<>> \in Seq(Rows) /\ <<>> \in Seq(CheckRows) /\ <<>> \o <<>> = <<>>
    BY EmptySeq, RowAlgebra
  <2>3. Trail = <<>>
    BY <1>2, <2>1, <2>2, TrailIs
  <2>4. lost = {} /\ IsFiniteSet({})
    BY FS_EmptySet DEF AuditInit
  <2>. QED  BY <1>2, <2>2, <2>3, <2>4, TellsNothing, RunAssumption DEF TrailInv
<1>. QED  BY <1>1, <1>2, <1>3, <1>4 DEF AuditInv

LEMMA ContinueIsNext == ASSUME Continue PROVE Next
BY DEF Continue, Step, Report, Unlogged, Check, Next, Shared, RunStep

LEMMA AuditStepKeepsInv ==
    ASSUME AuditInv, [AuditNext]_allVars
    PROVE  AuditInv' /\ ContractStep
<1>0. SeqInv /\ OutcomeInv /\ TrailInv
  BY DEF AuditInv
<1>1. ASSUME UNCHANGED <<seqVars, log, owed, closed, checked, lost, runRow>> PROVE AuditInv' /\ ContractStep
  <2>1. SeqInv' /\ ContractStep
    BY <1>0, <1>1, SeqStepKeepsInv
  <2>2. UNCHANGED <<at, phase, status, checksLeft, entries, trigger, results, Ended, Trail, AllPassed, AllSucceeded>>
    BY <1>1 DEF seqVars, runVars, engineVars, Ended, Trail, Blocks, RowsOf, RollbackRow, AllPassed, AllSucceeded
  <2>. QED  BY <1>0, <1>1, <2>1, <2>2 DEF AuditInv, OutcomeInv, TrailInv
<1>2. CASE UNCHANGED allVars
  BY <1>1, <1>2 DEF allVars, auditVars
<1>3. CASE Kill
  BY <1>1, <1>3 DEF Kill
<1>4. CASE Operator /\ UNCHANGED <<left, auditVars>>
  <2>1. SeqInv' /\ ContractStep
    BY <1>0, <1>4, SharedKeepsInv
  <2>2. UNCHANGED <<at, phase, status, checksLeft, entries, trigger, results, Ended, Trail, AllPassed, AllSucceeded>>
    BY <1>4 DEF Operator, Interrupt, auditVars, engineVars, Ended, Trail, Blocks, RowsOf, RollbackRow,
                AllPassed, AllSucceeded
  <2>3. UNCHANGED <<runRow, log, owed, closed, checked, lost>>
    BY <1>4 DEF auditVars
  <2>. QED  BY <1>0, <2>1, <2>2, <2>3 DEF AuditInv, OutcomeInv, TrailInv
<1>5. CASE Continue
  <2>1. SeqInv' /\ ContractStep
    BY <1>0, <1>5, ContinueIsNext, SeqStepKeepsInv
  <2>2. owed = <<>> /\ UNCHANGED <<runRow, log, closed, lost>>
    BY <1>5 DEF Continue, WaitsForRows
  <2>3. OutcomeInv' /\ TrailInv'
    <3>1. CASE Step
      BY <1>0, <2>2, <3>1, StepKeepsOutcome, StepKeepsTrail DEF Step
    <3>2. CASE Report
      BY <1>0, <2>2, <3>2, ReportKeepsOutcome, ReportKeepsTrail
    <3>3. CASE Unlogged
      BY <1>0, <2>1, <2>2, <3>3, UnloggedKeepsOutcome, UnloggedKeepsTrail
    <3>4. ASSUME NEW o \in CommandOutcomes \cup {"error"}, Check(o) PROVE OutcomeInv' /\ TrailInv'
      BY <1>0, <2>2, <3>4, CheckKeepsTrail
    <3>. QED  BY <1>5, <3>1, <3>2, <3>3, <3>4 DEF Continue
  <2>4. ~Ended
    BY <1>5 DEF Continue, Step, Report, Unlogged, Check, Loop, Answer, EndCommand, Finish, Poll, ReachStep,
       StartCommand, AnswerYes, AnswerSkip, AnswerAbort, AnswerNo, StepSucceeds, StepErrs, StepFails,
       FinishRollback, PollInChecks, DispatchSteps, AnswerPlan, RunRollbackBlock, RunCheck, Ended
  <2>5. ~closed' /\ runRow' \in {"none", "running"}
    BY <2>2, <2>4 DEF AuditInv
  <2>. QED  BY <2>1, <2>3, <2>5 DEF AuditInv
<1>6. CASE LogStep
  <2>1. SeqInv' /\ ContractStep
    BY <1>0, <1>6, SeqStepKeepsInv DEF LogStep
  <2>2. TrailInv'
    BY <1>0, <1>6, WriteKeepsTrail
  <2>3. UNCHANGED <<at, phase, status, entries, trigger, results, Ended, AllPassed, AllSucceeded>>
           /\ UNCHANGED <<runRow, closed, checked>>
    BY <1>6 DEF LogStep, seqVars, runVars, engineVars, Ended, AllPassed, AllSucceeded
  <2>4. OutcomeInv'
    BY <1>0, <2>3 DEF OutcomeInv
  <2>5. ~closed
    BY <1>6 DEF LogStep, AuditInv
  <2>. QED  BY <2>1, <2>2, <2>3, <2>4, <2>5 DEF AuditInv
<1>7. CASE EndRun
  <2>1. SeqInv' /\ ContractStep
    BY <1>0, <1>7, SeqStepKeepsInv DEF EndRun
  <2>2. UNCHANGED <<at, phase, status, checksLeft, entries, trigger, results, Ended, Trail, AllPassed, AllSucceeded>>
    BY <1>7 DEF EndRun, seqVars, runVars, engineVars, Ended, Trail, Blocks, RowsOf, RollbackRow,
                AllPassed, AllSucceeded
  <2>3. /\ UNCHANGED <<log, owed, checked, lost>> /\ Ended /\ owed = <<>> /\ closed'
        /\ runRow' \in {"none", "running", status}
    BY <1>7 DEF EndRun, Deferred, Updated, AuditInv
  <2>. QED  BY <1>0, <2>1, <2>2, <2>3 DEF AuditInv, OutcomeInv, TrailInv
<1>. QED  BY <1>2, <1>3, <1>4, <1>5, <1>6, <1>7 DEF AuditNext, Goes

THEOREM AuditInvariant == AuditSpec => []AuditInv
<1>1. AuditInit => AuditInv
  BY AuditInit0
<1>2. AuditInv /\ [AuditNext]_allVars => AuditInv'
  BY AuditStepKeepsInv
<1>. QED  BY <1>1, <1>2, PTL DEF AuditSpec

(* rollback.go and run.go: in every run of the sequential executor a       *)
(* success that declares a rollback stays accounted for, once, until the   *)
(* run ends, for any number of steps and checks and any gates.             *)
THEOREM SequentialAccounts == AuditSpec => []RollbackAccounting
<1>1. AuditInv => RollbackAccounting
  BY EngineAccounts DEF AuditInv, SeqInv
<1>. QED  BY <1>1, AuditInvariant, PTL

(* run.go: the sequential executor implements RunContract.                 *)
THEOREM SequentialKeepsContract == AuditSpec => KeepsContract
<1>1. AuditInit => Contract!Init
  BY AuditInit0
<1>2. AuditInv /\ [AuditNext]_allVars => [Contract!Next]_(Contract!contractVars)
  BY AuditStepKeepsInv DEF ContractStep
<1>. QED  BY <1>1, <1>2, AuditInvariant, PTL DEF AuditSpec, KeepsContract, Contract!Spec

-----------------------------------------------------------------------------
(***************************************************************************)
(* What the database tells of a closed run that lost no row.               *)
(***************************************************************************)
LEMMA ClosedLogIsTheRun ==
    ASSUME AuditInv, closed, lost = {}
    PROVE  /\ ToSet(log) = ToSet(checked) \cup ToSet(RowsFor("step", results))
                              \cup ToSet(RowsFor("rollback", entries))
           /\ results = <<>> /\ entries = <<>> => log = checked
<1>. DEFINE steps  == RowsFor("step", results)
            report == RowsFor("rollback", entries)
<1>1. EngineInv /\ TrailInv /\ Ended /\ owed = <<>>
  BY DEF AuditInv, SeqInv
<1>2. /\ steps \in Seq(Rows) /\ report \in Seq(Rows)
      /\ results = <<>> => steps = <<>>
      /\ entries = <<>> => report = <<>>
  BY <1>1, RowsForFacts DEF Kinds, EngineInv, RunTypes
<1>3. checked \in Seq(Rows) /\ log \in Seq(Rows)
  BY <1>1, CheckedRows DEF TrailInv
<1>4. log = Trail
  <2>1. Trail \in Seq(Rows)
    BY <1>1, TrailIsRows
  <2>2. Tells(log, <<>>, {}, Trail) /\ <<>> \in Seq(Rows)
    BY <1>1, EmptySeq DEF TrailInv
  <2>3. log \o <<>> = Trail
    BY <1>3, <2>1, <2>2, TellsAll
  <2>. QED  BY <1>3, <2>3, RowAlgebra
<1>5. Trail = (checked \o steps) \o report
  BY <1>1, TrailIs
<1>. HIDE DEF steps, report
<1>6. checked \o steps \in Seq(Rows)
  BY <1>2, <1>3, RowAlgebra
<1>7. \A p, q \in Seq(Rows) : ToSet(p \o q) = ToSet(p) \cup ToSet(q)
  BY ConcatFacts
<1>8. ToSet(log) = ToSet(checked) \cup ToSet(steps) \cup ToSet(report)
  BY <1>2, <1>3, <1>4, <1>5, <1>6, <1>7
<1>9. results = <<>> /\ entries = <<>> => log = checked
  BY <1>2, <1>3, <1>4, <1>5, RowAlgebra
<1>. QED  BY <1>8, <1>9 DEF steps, report

LEMMA ClosedLogByKind ==
    ASSUME AuditInv, closed, lost = {}
    PROVE  /\ \A r \in Logged("step") : \E i \in DOMAIN results : r = StepRow(results[i])
           /\ \A r \in Logged("rollback") : \E i \in DOMAIN entries : r = RollbackRow(entries[i])
           /\ \A i \in DOMAIN entries : RollbackRow(entries[i]) \in Logged("rollback")
           /\ \A r \in ToSet(log) : \/ \E i \in DOMAIN checked : r = checked[i]
                                    \/ r \in Logged("step") \/ r \in Logged("rollback")
<1>1. EngineInv /\ TrailInv
  BY DEF AuditInv, SeqInv
<1>2. ASSUME NEW k \in Kinds, NEW q \in Seq(Reports)
      PROVE  /\ \A r \in ToSet(RowsFor(k, q)) :
                    r.kind = k /\ \E i \in DOMAIN q : r = Row(k, q[i].step, q[i].status)
             /\ \A i \in DOMAIN q : Row(k, q[i].step, q[i].status) \in ToSet(RowsFor(k, q))
  <2>1. DOMAIN RowsFor(k, q) = DOMAIN q
    BY DEF RowsFor
  <2>2. \A i \in DOMAIN q : RowsFor(k, q)[i] = Row(k, q[i].step, q[i].status)
    BY DEF RowsFor
  <2>3. \A i \in DOMAIN q : Row(k, q[i].step, q[i].status).kind = k
    BY DEF Row
  <2>. QED  BY <2>1, <2>2, <2>3 DEF ToSet
<1>3. \A r \in ToSet(checked) : r.kind = "check" /\ \E i \in DOMAIN checked : r = checked[i]
  <2>1. \A i \in DOMAIN checked : checked[i].kind = "check"
    <3>1. checked \in Seq(CheckRows) /\ DOMAIN checked = 1..Len(checked)
      BY <1>1, LenProperties DEF TrailInv
    <3>2. \A i \in DOMAIN checked : checked[i] \in CheckRows
      BY <3>1, ElementOfSeq
    <3>. QED  BY <3>2 DEF CheckRows
  <2>. QED  BY <2>1 DEF ToSet
<1>4. ToSet(log) = ToSet(checked) \cup ToSet(RowsFor("step", results))
                      \cup ToSet(RowsFor("rollback", entries))
  BY ClosedLogIsTheRun
<1>5. results \in Seq(Reports) /\ entries \in Seq(Reports)
  BY <1>1 DEF EngineInv, RunTypes
<1>6. /\ \A r \in ToSet(RowsFor("step", results)) :
            r.kind = "step" /\ \E i \in DOMAIN results : r = StepRow(results[i])
      /\ \A r \in ToSet(RowsFor("rollback", entries)) :
            r.kind = "rollback" /\ \E i \in DOMAIN entries : r = RollbackRow(entries[i])
      /\ \A i \in DOMAIN entries : RollbackRow(entries[i]) \in ToSet(RowsFor("rollback", entries))
  BY <1>2, <1>5 DEF Kinds, StepRow, RollbackRow
<1>. QED  BY <1>3, <1>4, <1>6 DEF Logged

LEMMA HistoryFollows == AuditInv => HistoryExplainsTheOutcome
<1>. SUFFICES ASSUME AuditInv, closed, lost = {} PROVE HistoryExplainsTheOutcome
  BY DEF HistoryExplainsTheOutcome
<1>0. EngineInv /\ OutcomeInv /\ Ended /\ runRow \in {"none", "running", status}
  BY DEF AuditInv, SeqInv
<1>1. ASSUME runRow \in {"rolled_back", "partially_rolled_back"},
             NEW r \in Logged("step"), r.status = "success", r.name \in HasRollback
      PROVE  \E u \in Logged("rollback") : u.name = r.name
  <2>1. PICK i \in DOMAIN results : r = StepRow(results[i])
    BY ClosedLogByKind
  <2>2. results \in Seq(Reports) /\ DOMAIN results = 1..Len(results)
    BY <1>0, LenProperties DEF EngineInv, RunTypes
  <2>3. results[i] \in Reports
    BY <2>2, ElementOfSeq
  <2>4. results[i] = Result(r.name, "success") /\ r.name \in Steps
    BY <1>1, <2>1, <2>3 DEF StepRow, Row, Reports, Result
  <2>5. r.name \in Succeeded
    BY <2>2, <2>4 DEF Succeeded, Contains
  <2>6. r.name \in Undone
    BY <1>0, <1>1, <2>5, EngineCompletes DEF OutcomeInv, RollbackIsComplete
  <2>7. PICK j \in DOMAIN entries : entries[j].step = r.name
    BY <2>6 DEF Undone, UndoneInOrder, ToSet
  <2>. QED  BY <2>7, ClosedLogByKind DEF RollbackRow, Row
<1>2. ASSUME runRow = "partially_rolled_back"
      PROVE  \E u \in Logged("rollback") : u.status # "success"
  <2>1. PICK i \in DOMAIN entries : entries[i].status # "success"
    BY <1>0, <1>2 DEF OutcomeInv, AllSucceeded
  <2>. QED  BY <2>1, ClosedLogByKind DEF RollbackRow, Row
<1>3. ASSUME runRow = "rolled_back", trigger # "user_abort", NEW u \in Logged("rollback")
      PROVE  u.status = "success"
  BY <1>0, <1>3, ClosedLogByKind DEF OutcomeInv, AllSucceeded, RollbackRow, Row
<1>4. ASSUME runRow = "success"
      PROVE  Logged("rollback") = {} /\ \A r \in ToSet(log) : r.status = "success"
  <2>1. AllPassed /\ entries = <<>>
    BY <1>0, <1>4 DEF OutcomeInv
  <2>2. Logged("rollback") = {}
    BY <2>1, ClosedLogByKind
  <2>. QED  BY <2>1, <2>2, ClosedLogByKind DEF AllPassed, StepRow, Row
<1>5. ASSUME runRow = "check_failed"
      PROVE  Last(log).kind = "check" /\ Last(log).status # "success"
  <2>1. results = <<>> /\ entries = <<>> /\ checked # <<>> /\ Last(checked).status # "success"
    BY <1>0, <1>5 DEF OutcomeInv
  <2>2. log = checked
    BY <2>1, ClosedLogIsTheRun
  <2>3. Last(checked) \in CheckRows
    BY <2>1, FrontFacts DEF AuditInv, TrailInv
  <2>. QED  BY <2>1, <2>2, <2>3 DEF CheckRows
<1>. QED  BY <1>1, <1>2, <1>3, <1>4, <1>5 DEF HistoryExplainsTheOutcome

(* audit.go: the rows of a closed run that lost none tell what it did: a   *)
(* rollback row for every success that declares one, a rollback that       *)
(* failed in a partial pass, and no failure in a success.                  *)
THEOREM HistoryIsExplained == AuditSpec => []HistoryExplainsTheOutcome
BY HistoryFollows, AuditInvariant, PTL

(* audit.go and run.go: whatever inserts fail and whenever the process is  *)
(* killed, the rows are what ran, in its order, less the failed inserts.   *)
THEOREM TrailIsTold == AuditSpec => []TrailIsFaithful
<1>1. ASSUME AuditInv  PROVE TrailIsFaithful
  <2>1. EngineInv /\ TrailInv
    BY <1>1 DEF AuditInv, SeqInv
  <2>2. Trail \in Seq(Rows)
    BY <2>1, TrailIsRows
  <2>3. log \in Seq(Rows) /\ owed \in Seq(Rows) /\ IsFiniteSet(lost) /\ Tells(log, owed, lost, Trail)
    BY <2>1 DEF TrailInv
  <2>4. IsTheRest(log \o owed, DOMAIN Trail \ lost, Trail)
    BY <2>2, <2>3, TellsTheRest
  <2>. QED  BY <2>4, Zenon DEF IsTheRest, TrailIsFaithful
<1>. QED  BY <1>1, AuditInvariant, PTL
=============================================================================
