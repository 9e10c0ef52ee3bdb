---------------------------- MODULE RunSequential ----------------------------
(***************************************************************************)
(* executeStepsSequential of src/internal/executor/run.go: one step at a   *)
(* time in document order, each behind its confirm gate.  depends_on is    *)
(* not read.                                                               *)
(***************************************************************************)
EXTENDS RunLifecycle

VARIABLE left   \* the steps the loop has not passed yet

seqVars == <<runVars, left>>

NextStep == CHOOSE s \in left : \A t \in left : s <= t

Init ==
    /\ RunInit
    /\ left = Steps

(* The loop is over: Run completes.                                        *)
Finish ==
    /\ at = "steps" /\ left = {}
    /\ Complete
    /\ UNCHANGED <<checksLeft, signalVars, results, ran, left>>

(* A signal chosen since the last poll ends the loop before the next step. *)
Poll ==
    /\ at = "steps" /\ left # {}
    /\ TakeAction
    /\ HandleSignal(action)
    /\ UNCHANGED <<checksLeft, results, ran, left>>

(* handleConfirmGate: without a prompt the step runs at once.              *)
ReachStep ==
    /\ at = "steps" /\ left # {}
    /\ NoAction
    /\ at' = IF Prompts(NextStep) THEN "gate" ELSE "command"
    /\ UNCHANGED <<phase, status, checksLeft, engineVars, results, ran, left>>

AnswerYes ==
    /\ at = "gate"
    /\ at' = "command"
    /\ UNCHANGED <<phase, status, checksLeft, signalVars, engineVars, results, ran, left>>

AnswerSkip ==
    /\ at = "gate"
    /\ at' = "steps" /\ left' = left \ {NextStep}
    /\ UNCHANGED <<phase, status, checksLeft, signalVars, engineVars, results, ran>>

AnswerAbort ==
    /\ at = "gate"
    /\ Quit
    /\ UNCHANGED <<checksLeft, signalVars, results, ran, left>>

AnswerNo ==
    /\ at = "gate"
    /\ DeclineConfirm
    /\ UNCHANGED <<checksLeft, signalVars, results, ran, left>>

(* runStep: the command starts, or cannot be started and ends the run.     *)
StartCommand ==
    /\ at = "command" /\ NextStep \notin ran
    /\ \/ ran' = ran \cup {NextStep} /\ UNCHANGED <<at, phase, status, engineVars>>
       \/ Fail("internal_error") /\ UNCHANGED ran
    /\ UNCHANGED <<checksLeft, signalVars, results, left>>

StepSucceeds ==
    /\ at = "command" /\ NextStep \in ran
    /\ results' = Recorded(NextStep, "success")
    /\ stack' = Pushed(NextStep)
    /\ at' = "steps" /\ left' = left \ {NextStep}
    /\ UNCHANGED <<phase, status, checksLeft, signalVars, plan, entries, trigger, ran>>

StepFails(o) ==
    /\ at = "command" /\ NextStep \in ran
    /\ o \in {"failed", "timeout"}
    /\ results' = Recorded(NextStep, o)
    /\ HandleStepFailure
    /\ UNCHANGED <<checksLeft, signalVars, ran, left>>

(* Waiting for the process itself failed: there is no result.              *)
StepErrs ==
    /\ at = "command" /\ NextStep \in ran
    /\ Fail("internal_error")
    /\ UNCHANGED <<checksLeft, signalVars, results, ran, left>>

Answer == AnswerYes \/ AnswerSkip \/ AnswerAbort \/ AnswerNo
Loop   == Finish \/ Poll \/ ReachStep \/ StartCommand
EndCommand == StepSucceeds \/ StepErrs \/ \E o \in CommandOutcomes : StepFails(o)
Shared == RunStep /\ UNCHANGED left

Next ==
    \/ Loop
    \/ Answer
    \/ EndCommand
    \/ Shared
    \/ Operator /\ UNCHANGED left

Spec == Init /\ [][Next]_seqVars

=============================================================================
