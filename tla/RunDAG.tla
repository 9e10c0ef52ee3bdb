-------------------------------- MODULE RunDAG --------------------------------
(***************************************************************************)
(* executeStepsDAG and runDAGWorker of src/internal/executor/run.go: one   *)
(* coordinator goroutine drives the scheduler and starts a worker          *)
(* goroutine per dispatched step; workers answer on the channel done.  A   *)
(* worker whose step needs confirmation prompts under promptMu.  On the    *)
(* first failure, refusal, abort or signal the coordinator cancels the     *)
(* workers' context, drains them, and only then ends the run.              *)
(***************************************************************************)
EXTENDS DagScheduler, RunLifecycle

CONSTANT MaxParallel   \* effectiveMaxParallel, above one on this path

ASSUME MaxParallelAssumption == MaxParallel \in Nat /\ MaxParallel > 1

VARIABLES
    worker,      \* where each step's worker goroutine is
    done,        \* the channel done, of capacity MaxParallel
    inFlight,    \* workers started whose completion has not been received
    cancelled,   \* cancelSteps has been called
    ending       \* why the coordinator is draining, and what comes after

dagVars == <<worker, done, inFlight, cancelled, ending>>
vars    == <<schedVars, runVars, dagVars>>

Outcomes     == CommandOutcomes \cup {"skip", "abort", "denied", "error"}
Completion(s, o) == [step |-> s, outcome |-> o]
HasResult(c)     == c.outcome \in CommandOutcomes

NotEnding        == [why |-> "none"]
BySignal(a)      == [why |-> "signal", action |-> a]
ByStep(c)        == [why |-> c.outcome, step |-> c.step]

Init ==
    /\ SchedInit
    /\ RunInit
    /\ worker = [s \in Steps |-> "none"]
    /\ done = <<>> /\ inFlight = 0
    /\ cancelled = FALSE /\ ending = NotEnding

-----------------------------------------------------------------------------
(***************************************************************************)
(* The coordinator.                                                        *)
(***************************************************************************)
(* The loop is over without a failure: Run completes.                      *)
Finish ==
    /\ at = "steps" /\ ~HasWork
    /\ Complete
    /\ UNCHANGED <<schedVars, checksLeft, signalVars, results, ran, dagVars>>

CancelAndDrain(why) ==
    /\ cancelled' = TRUE /\ ending' = why /\ at' = "drain"

Poll ==
    /\ at = "steps" /\ HasWork
    /\ TakeAction
    /\ CancelAndDrain(BySignal(action))
    /\ UNCHANGED <<schedVars, phase, status, checksLeft, engineVars, results, ran,
                   worker, done, inFlight>>

AllSlots == MaxParallel                                                     \* faulty
Slots == MaxParallel - inFlight

(* PopReady is asked for the free slots, and one goroutine is started for  *)
(* each node it returns.  The coordinator then blocks on done, unless      *)
(* nobody is left to answer: then it leaves the loop, as if all were done. *)
Dispatch ==
    /\ at = "steps" /\ HasWork
    /\ NoAction
    /\ IF Slots > 0 /\ ready # {}
       THEN /\ PopReady(Slots)
            /\ worker' = [s \in Steps |-> IF s \in FirstReady(Slots) THEN "spawned" ELSE worker[s]]
            /\ inFlight' = inFlight + Cardinality(FirstReady(Slots))
       ELSE UNCHANGED <<schedVars, worker, inFlight>>
    /\ IF inFlight' = 0
       THEN Complete
       ELSE at' = "receive" /\ UNCHANGED <<phase, status, engineVars>>
    /\ UNCHANGED <<checksLeft, results, ran, done, cancelled, ending>>

(* c := <-done                                                             *)
Take(c) ==
    /\ done # <<>> /\ c = Head(done)
    /\ done' = Tail(done)
    /\ inFlight' = inFlight - 1
    /\ worker' = [worker EXCEPT ![c.step] = "received"]

ReceiveSkip(c) ==
    /\ at = "receive" /\ Take(c) /\ c.outcome = "skip"
    /\ CompleteSuccess(c.step)
    /\ at' = "steps"
    /\ UNCHANGED <<phase, status, checksLeft, signalVars, engineVars, results, ran, cancelled, ending>>

ReceiveSuccess(c) ==
    /\ at = "receive" /\ Take(c) /\ c.outcome = "success"
    /\ results' = Recorded(c.step, c.outcome)
    /\ stack' = Pushed(c.step)
    /\ CompleteSuccess(c.step)
    /\ at' = "steps"
    /\ UNCHANGED <<phase, status, checksLeft, signalVars, plan, entries, trigger, ran, cancelled, ending>>

ReceiveFailureRequeues(c) ==                                                \* faulty
    /\ at = "receive" /\ Take(c) /\ c.outcome \in {"failed", "timeout"}
    /\ results' = Recorded(c.step, c.outcome)
    /\ state' = [state EXCEPT ![c.step] = "ready"] /\ ready' = ready \cup {c.step}
    /\ UNCHANGED <<dependsOn, pending>>
    /\ CancelAndDrain(ByStep(c))
    /\ UNCHANGED <<phase, status, checksLeft, signalVars, engineVars, ran>>
ReceiveFailure(c) ==
    /\ at = "receive" /\ Take(c) /\ c.outcome \in {"failed", "timeout"}
    /\ results' = Recorded(c.step, c.outcome)
    /\ Skip(c.step)
    /\ CancelAndDrain(ByStep(c))
    /\ UNCHANGED <<phase, status, checksLeft, signalVars, engineVars, ran>>

(* An aborted or refused gate, and a command that could not be started.    *)
ReceiveStop(c) ==
    /\ at = "receive" /\ Take(c) /\ c.outcome \in {"abort", "denied", "error"}
    /\ CancelAndDrain(ByStep(c))
    /\ UNCHANGED <<schedVars, phase, status, checksLeft, signalVars, engineVars, results, ran>>

StackUntouched(c)  == stack                                                 \* faulty
StackAfterDrain(c) == IF HasResult(c) THEN Pushed(c.step) ELSE stack

Drain(c) ==
    /\ at = "drain" /\ Take(c)
    /\ results' = IF HasResult(c) THEN Recorded(c.step, c.outcome) ELSE results
    /\ stack' = StackAfterDrain(c)
    /\ UNCHANGED <<schedVars, at, phase, status, checksLeft, signalVars,
                   plan, entries, trigger, ran, cancelled, ending>>

DrainedChannel == done = <<>>                                               \* faulty
Drained == inFlight = 0

EndRun ==
    /\ at = "drain" /\ Drained
    /\ \/ ending.why = "signal" /\ HandleSignal(ending.action)
       \/ ending.why = "abort" /\ Quit
       \/ ending.why = "denied" /\ DeclineConfirm
       \/ ending.why = "error" /\ Fail("internal_error")
       \/ ending.why \in {"failed", "timeout"} /\ HandleStepFailure
    /\ UNCHANGED <<schedVars, checksLeft, signalVars, results, ran, dagVars>>

-----------------------------------------------------------------------------
(***************************************************************************)
(* The workers.  stepCtx is not looked at before the command is started;   *)
(* once it is, a cancelled context only decides how the command ends.      *)
(***************************************************************************)
Send(s, o) ==
    /\ Len(done) < MaxParallel
    /\ done' = Append(done, Completion(s, o))
    /\ worker' = [worker EXCEPT ![s] = "sent"]

PromptKeptAfterSkip ==                                                      \* faulty
    /\ at # "planPrompt"
    /\ \A s \in Steps : worker[s] # "prompting" /\ (Prompts(s) /\ s \notin ran => state[s] # "completed")
PromptFree == at # "planPrompt" /\ \A s \in Steps : worker[s] # "prompting"

workerOnly == <<schedVars, at, phase, status, checksLeft, signalVars, engineVars,
                results, inFlight, cancelled, ending>>

TakePrompt(s) ==
    /\ worker[s] = "spawned" /\ Prompts(s) /\ PromptFree
    /\ worker' = [worker EXCEPT ![s] = "prompting"]
    /\ UNCHANGED <<workerOnly, ran, done>>

AnswerGate(s, o) ==
    /\ worker[s] = "prompting"
    /\ \/ o = "yes" /\ worker' = [worker EXCEPT ![s] = "confirmed"] /\ UNCHANGED done
       \/ o \in {"skip", "abort", "denied"} /\ Send(s, o)
    /\ UNCHANGED <<workerOnly, ran>>

MayStart(s) == worker[s] = "confirmed" \/ (worker[s] = "spawned" /\ ~Prompts(s))

StartCommand(s) ==
    /\ MayStart(s)
    /\ worker' = [worker EXCEPT ![s] = "running"]
    /\ ran' = ran \cup {s}
    /\ UNCHANGED <<workerOnly, done>>

StartError(s) ==
    /\ MayStart(s) /\ Send(s, "error")
    /\ UNCHANGED <<workerOnly, ran>>

(* Waiting for the process may itself fail, and then there is no result.   *)
EndCommand(s, o) ==
    /\ worker[s] = "running" /\ o \in CommandOutcomes \cup {"error"}
    /\ Send(s, o)
    /\ UNCHANGED <<workerOnly, ran>>

Completions == {Completion(s, o) : s \in Steps, o \in Outcomes}
Receive(c) == ReceiveSkip(c) \/ ReceiveSuccess(c) \/ ReceiveFailure(c) \/ ReceiveStop(c)
Coordinator ==
    \/ Finish \/ Poll \/ Dispatch \/ EndRun
    \/ \E c \in Completions : Receive(c) \/ Drain(c)
Worker(s) ==
    \/ TakePrompt(s) \/ StartCommand(s) \/ StartError(s)
    \/ \E o \in Outcomes \cup {"yes"} : AnswerGate(s, o)
    \/ \E o \in Outcomes : EndCommand(s, o)
Shared == RunStep /\ UNCHANGED <<schedVars, dagVars>>

Next ==
    \/ Coordinator
    \/ \E s \in Steps : Worker(s)
    \/ Shared
    \/ Operator /\ UNCHANGED <<schedVars, dagVars>>

(***************************************************************************)
(* The coordinator and each worker goroutine keep going: every command     *)
(* ends (by itself, its timeout or a kill) and every prompt is answered.   *)
(* Nothing makes the operator interrupt.                                   *)
(***************************************************************************)
Spec == Init /\ [][Next]_vars
FairSpec == /\ Spec
            /\ WF_vars(Coordinator) /\ WF_vars(Shared)
            /\ \A s \in Steps : WF_vars(Worker(s))

-----------------------------------------------------------------------------

Active == {s \in Steps : worker[s] \notin {"none", "received"}}

(* inFlight is the number of workers whose completion is still to come, so *)
(* the cap on parallel steps holds and no worker ever blocks on a full     *)
(* channel; and as long as the scheduler has work somebody is in flight,   *)
(* so that the loop's exit for inFlight = 0 never ends a run, with         *)
(* success, before its last step.                                          *)
InFlightExact ==
    /\ inFlight = Cardinality(Active)
    /\ phase = "COMPLETE" => ~HasWork
    /\ Active = {s \in Steps : state[s] = "dispatched"} \/ cancelled
    /\ \A s \in Steps : worker[s] \in {"prompting", "confirmed", "running"} => Len(done) < MaxParallel

(* Rollback, its prompt and the return happen only after every worker has  *)
(* been drained: no command runs beside a rollback block or outlives Run.  *)
QuietBeforeRollback ==
    at \in {"planPrompt", "rollback", "returned"} => Active = {} /\ done = <<>>

(* A command starts only after each of its parents succeeded or was        *)
(* skipped by the operator at its gate.                                    *)
ParentsBeforeCommand ==
    \A s \in ran : \A p \in Parents(dependsOn, s) :
        p \in Succeeded \/ (p \in Confirms \ ran /\ state[p] = "completed")

(* A step is undone before the steps it depends on.                        *)
DependentsUndoneFirst ==
    \A i, j \in DOMAIN entries :
        i < j => entries[j].step \notin Descendants(dependsOn, entries[i].step)

(* The coordinator follows the scheduler's protocol: it completes or skips *)
(* only steps it was handed.                                               *)
FollowsScheduler == SchedSpec

(* Every run returns.                                                      *)
Returns == <>Ended

=============================================================================
