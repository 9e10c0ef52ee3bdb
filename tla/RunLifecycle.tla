----------------------------- MODULE RunLifecycle -----------------------------
(***************************************************************************)
(* What executor.Run keeps for one run whichever executor dispatches its   *)
(* steps (src/internal/executor/run.go, rollback.go, signal.go): the       *)
(* checks, the interrupt mailbox, the rollback engine, and every way the   *)
(* run can end.  RunSequential and RunDAG add the two step executors.      *)
(*                                                                         *)
(* A rollback block is named by the step that declares it: validation      *)
(* refuses a block that two steps share.  Output, durations and messages   *)
(* are left out; a command is its outcome.                                 *)
(*                                                                         *)
(* Definitions marked "faulty" are variants with a bug, each defined just  *)
(* before the definition it distorts; no specification uses them.          *)
(***************************************************************************)
EXTENDS StepGraph, InterruptMailbox, SequencesExt

CONSTANTS
    HasRollback,      \* steps with a rollback attribute that names a block
    Confirms,         \* steps whose confirm attribute matches the environment
    NonInteractive,   \* RunOptions.NonInteractive
    NumChecks         \* check blocks of the runbook

ASSUME RunAssumption == /\ HasRollback \subseteq Steps
                        /\ Confirms \subseteq Steps
                        /\ NonInteractive \in BOOLEAN
                        /\ NumChecks \in Nat

VARIABLES
    at,          \* where Run's goroutine is
    phase,       \* RunResult.Phase
    status,      \* RunResult.Status; its zero value is RunSuccess
    checksLeft,  \* check blocks still to run
    stack,       \* RollbackEngine.stack
    plan,        \* Execute's snapshot of the stack, less the blocks it has run
    entries,     \* RollbackReport.Entries
    trigger,     \* RollbackReport.Trigger
    results,     \* RunResult.StepResults
    ran          \* history: the steps whose command was started

engineVars == <<stack, plan, entries, trigger>>
runVars    == <<at, phase, status, checksLeft, signalVars, engineVars, results, ran>>

CommandOutcomes == {"success", "failed", "timeout"}
Ended           == at = "returned"

RunInit ==
    /\ at = "checks" /\ phase = "CHECKING" /\ status = "success"
    /\ checksLeft = NumChecks
    /\ action = "none" /\ listening = ~NonInteractive
    /\ stack = <<>> /\ plan = <<>> /\ entries = <<>> /\ trigger = "none"
    /\ results = <<>> /\ ran = {}

-----------------------------------------------------------------------------
(***************************************************************************)
(* The rollback engine.  Execute snapshots and clears the stack, then runs *)
(* the snapshot from the top, whatever each block's outcome.               *)
(***************************************************************************)
Entry(s, o) == [step |-> s, status |-> o]

PushedAtBottom(s) == IF s \in HasRollback THEN <<s>> \o stack ELSE stack     \* faulty
PushedTwice(s)    == IF s \in HasRollback THEN stack \o <<s, s>> ELSE stack  \* faulty
Pushed(s) == IF s \in HasRollback THEN Append(stack, s) ELSE stack

StackKept == stack                                                          \* faulty
StackAfterExecute == <<>>

Execute(t) ==
    /\ at' = "rollback" /\ phase' = "ROLLING_BACK" /\ trigger' = t
    /\ plan' = stack /\ stack' = StackAfterExecute
    /\ UNCHANGED <<status, entries>>

Return(st, ph) ==
    /\ at' = "returned" /\ status' = st /\ phase' = ph
    /\ UNCHANGED engineVars

PlanAfter(o) == Front(plan)

RunRollbackBlock(o) ==
    /\ at = "rollback" /\ plan # <<>>
    /\ entries' = Append(entries, Entry(Last(plan), o))
    /\ plan' = PlanAfter(o)
    /\ UNCHANGED <<at, phase, status, checksLeft, signalVars, stack, trigger, results, ran>>

AllSucceeded == \A i \in DOMAIN entries : entries[i].status = "success"

(* rollbackRunStatus, and handleSignal's own rule for an interrupt.        *)
StatusAfterRollback ==
    IF trigger = "user_abort"
    THEN IF entries = <<>> THEN "aborted" ELSE "rolled_back"
    ELSE IF entries = <<>> THEN "step_failed"
    ELSE IF AllSucceeded THEN "rolled_back" ELSE "partially_rolled_back"

FinishRollback ==
    /\ at = "rollback" /\ plan = <<>>
    /\ Return(StatusAfterRollback, phase)
    /\ UNCHANGED <<checksLeft, signalVars, results, ran>>

-----------------------------------------------------------------------------
(***************************************************************************)
(* The ways out of the step executors.                                     *)
(***************************************************************************)
OfferRollback(t) ==
    /\ at' = "planPrompt" /\ trigger' = t
    /\ UNCHANGED <<phase, status, stack, plan, entries>>

HandleStepFailure ==
    IF ~NonInteractive /\ stack # <<>>
    THEN OfferRollback("step_failure")
    ELSE Execute("step_failure")

DeclineConfirm ==
    IF stack # <<>> THEN OfferRollback("user_declined") ELSE Execute("user_declined")

AnswerPlan(yes) ==
    /\ at = "planPrompt"
    /\ IF yes
       THEN Execute(trigger)
       ELSE /\ at' = "returned" /\ status' = "step_failed" /\ stack' = <<>>
            /\ UNCHANGED <<phase, plan, entries, trigger>>
    /\ UNCHANGED <<checksLeft, signalVars, results, ran>>

Quit == Return("aborted", "ABORTED")

HandleSignal(a) ==
    \/ a = "rollback" /\ Execute("user_abort")
    \/ a = "continue" /\ Return(status, phase)
    \/ a = "quit"     /\ Quit

Fail(st) == Return(st, phase)
Complete == Return("success", "COMPLETE")

-----------------------------------------------------------------------------
(***************************************************************************)
(* Interrupts.  Ctrl+C prompts the operator, who answers at some time or   *)
(* is taken to have chosen rollback.                                       *)
(***************************************************************************)
Interrupt(a) ==
    /\ ~Ended /\ Answered(a)
    /\ UNCHANGED <<at, phase, status, checksLeft, engineVars, results, ran>>

(***************************************************************************)
(* executeChecks: a signal is polled before each check; a check that does  *)
(* not succeed ends the run.                                               *)
(***************************************************************************)
PollInChecks ==
    /\ at = "checks" /\ checksLeft > 0
    /\ TakeAction
    /\ HandleSignal(action)
    /\ UNCHANGED <<checksLeft, results, ran>>

CheckPasses == at' = "checks" /\ UNCHANGED <<phase, status, engineVars>>

RunCheck(o) ==
    /\ at = "checks" /\ checksLeft > 0
    /\ NoAction
    /\ checksLeft' = checksLeft - 1
    /\ \/ o = "success" /\ CheckPasses
       \/ o \in {"failed", "timeout"} /\ Fail("check_failed")
       \/ o = "error" /\ Fail("internal_error")
    /\ UNCHANGED <<results, ran>>

(* dispatchSteps; the executor's loop starts at "steps".                   *)
DispatchSteps ==
    /\ at = "checks" /\ checksLeft = 0
    /\ at' = "steps" /\ phase' = "RUNNING"
    /\ UNCHANGED <<status, checksLeft, signalVars, engineVars, results, ran>>

(***************************************************************************)
(* The actions both executors share.                                       *)
(***************************************************************************)
RunStep ==
    \/ \E o \in CommandOutcomes \cup {"error"} : RunCheck(o)
    \/ PollInChecks
    \/ DispatchSteps
    \/ \E yes \in BOOLEAN : AnswerPlan(yes)
    \/ \E o \in CommandOutcomes : RunRollbackBlock(o)
    \/ FinishRollback
Operator == \E a \in Actions : Interrupt(a)

-----------------------------------------------------------------------------
Result(s, o)   == [step |-> s, status |-> o]
Recorded(s, o) == Append(results, Result(s, o))
Succeeded      == {s \in Steps : Contains(results, Result(s, "success"))}
UndoneInOrder  == [i \in DOMAIN entries |-> entries[i].step]
Undone         == ToSet(UndoneInOrder)
Prompts(s)     == s \in Confirms /\ ~NonInteractive

(* Every success whose step declares a rollback stays accounted for until  *)
(* the run ends: it is on the stack, in the snapshot being run, or in the  *)
(* report, once; and only steps whose command was started are ever there.  *)
RollbackAccounting ==
    LET listed == stack \o plan \o UndoneInOrder IN
    /\ \A i, j \in DOMAIN listed : i # j => listed[i] # listed[j]
    /\ ToSet(listed) \subseteq ran
    /\ ~Ended => Succeeded \cap HasRollback \subseteq ToSet(listed)

(* A run that reports a finished rollback pass undid every step that       *)
(* succeeded and declares a rollback: none is left on the stack.           *)
RollbackIsComplete ==
    Ended /\ phase = "ROLLING_BACK" => Succeeded \cap HasRollback \subseteq Undone

(* What signal.go:34 says of an interrupt answered with continue, "resumes *)
(* execution as if no interrupt occurred", for the run's end: a run that   *)
(* returns success went through every step it was asked to run.            *)
SuccessMeansCompleted == Ended /\ status = "success" => phase = "COMPLETE"

Contract == INSTANCE RunContract WITH
    started <- ran,
    undone  <- UndoneInOrder,
    outcome <- IF Ended THEN status ELSE IF at = "rollback" THEN "undoing" ELSE "running"

(* A run, sequential or parallel, keeps the promises of RunContract.       *)
KeepsContract == Contract!Spec
=============================================================================
