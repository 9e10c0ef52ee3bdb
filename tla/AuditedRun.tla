------------------------------ MODULE AuditedRun ------------------------------
(***************************************************************************)
(* A sequential run and the rows it leaves in the audit database           *)
(* (src/internal/audit/audit.go, written from src/internal/executor/       *)
(* run.go).  Every insert and update is made by the run's own goroutine    *)
(* before it goes on; a write may fail, and Run ignores that; the process  *)
(* may be killed between any two steps.  What a row holds besides its kind *)
(* and outcome (output, times, redaction) is left out.                     *)
(***************************************************************************)
EXTENDS RunSequential

CONSTANT MaxLost    \* bound: writes of one run that may fail

ASSUME AuditAssumption == MaxLost \in Nat

VARIABLES
    runRow,    \* the row's status in table runs, or "none"
    log,       \* the run's rows in table step_logs, by id
    owed,      \* rows the goroutine writes before it goes on
    closed,    \* EndRun was called
    alive,     \* the process was not killed
    checked,   \* history: the rows of the checks that ran, in order
    lost       \* history: the numbers of the inserts that failed, from 1

auditVars == <<runRow, log, owed, closed, alive, checked, lost>>
allVars   == <<seqVars, auditVars>>

Row(k, n, o)   == [kind |-> k, name |-> n, status |-> o]
StepRow(r)     == Row("step", r.step, r.status)
RollbackRow(e) == Row("rollback", e.step, e.status)

RowsOf(report) == [i \in DOMAIN report |-> RollbackRow(report[i])]

(* StartRun inserts the row as running; an insert that fails is forgotten, *)
(* and the step rows of the run are inserted all the same.                 *)
AuditInit ==
    /\ Init
    /\ runRow \in {"none", "running"}
    /\ log = <<>> /\ owed = <<>>
    /\ closed = FALSE /\ alive = TRUE
    /\ checked = <<>> /\ lost = {}

-----------------------------------------------------------------------------
(***************************************************************************)
(* The run goes on once what it owes is written.                           *)
(***************************************************************************)
Check(o) ==
    /\ RunCheck(o) /\ UNCHANGED left
    /\ checked' = IF o = "error" THEN checked ELSE Append(checked, Row("check", checksLeft, o))
    /\ owed' = IF o = "error" THEN <<>> ELSE <<Last(checked')>>

(* recordStepResult logs the result it appends.                            *)
Step ==
    /\ \/ Loop \/ Answer \/ EndCommand
    /\ owed' = IF results' # results THEN <<StepRow(Last(results'))>> ELSE <<>>
    /\ UNCHANGED checked

(* A report is logged when the pass over the stack is over, never before.  *)
NoReportOfAbort == IF trigger = "user_abort" THEN <<>> ELSE RowsOf(entries)  \* faulty
ReportRows      == RowsOf(entries)

Report ==
    /\ FinishRollback /\ UNCHANGED left
    /\ owed' = ReportRows
    /\ UNCHANGED checked

Unlogged ==
    /\ \/ PollInChecks \/ DispatchSteps
       \/ \E yes \in BOOLEAN : AnswerPlan(yes)
       \/ \E o \in CommandOutcomes : RunRollbackBlock(o)
    /\ UNCHANGED <<left, owed, checked>>

GoesOn       == TRUE                                                        \* faulty
WaitsForRows == owed = <<>>

Continue ==
    /\ WaitsForRows
    /\ Step \/ Report \/ Unlogged \/ \E o \in CommandOutcomes \cup {"error"} : Check(o)
    /\ UNCHANGED <<runRow, log, closed, lost>>

-----------------------------------------------------------------------------
(***************************************************************************)
(* The writes.                                                             *)
(***************************************************************************)
ThisInsert == Len(log) + Cardinality(lost) + 1

LogStep ==
    /\ owed # <<>>
    /\ \/ log' = Append(log, Head(owed)) /\ UNCHANGED lost
       \/ Cardinality(lost) < MaxLost /\ lost' = lost \cup {ThisInsert} /\ UNCHANGED log
    /\ owed' = Tail(owed)
    /\ UNCHANGED <<seqVars, runRow, closed, checked>>

(* EndRun is deferred, so it is the last write whatever way Run returns.   *)
Updated == IF runRow = "none" THEN "none" ELSE status

NotDeferred == Ended /\ phase = "COMPLETE"                                  \* faulty
Deferred    == Ended

EndRun ==
    /\ Deferred /\ owed = <<>> /\ ~closed
    /\ closed' = TRUE /\ runRow' \in {runRow, Updated}
    /\ UNCHANGED <<seqVars, log, owed, checked, lost>>

Kill ==
    /\ alive /\ ~closed
    /\ alive' = FALSE
    /\ UNCHANGED <<seqVars, runRow, log, owed, closed, checked, lost>>

Goes == alive /\ (Continue \/ LogStep \/ EndRun) /\ UNCHANGED alive

AuditNext ==
    \/ Goes
    \/ alive /\ Operator /\ UNCHANGED <<left, auditVars>>
    \/ Kill

(* The goroutine goes on while the process lives: every command ends, every*)
(* prompt is answered, if only by end of input.  Nothing makes the operator*)
(* interrupt, and nothing makes a kill.                                    *)
AuditSpec     == AuditInit /\ [][AuditNext]_allVars
AuditFairSpec == AuditSpec /\ WF_allVars(Goes)

-----------------------------------------------------------------------------
Blocks == checked \o [i \in DOMAIN results |-> StepRow(results[i])]
Trail  == Blocks \o (IF Ended THEN RowsOf(entries) ELSE <<>>)

(* The database tells what happened in the order it happened: what was     *)
(* written and what is about to be is what ran, less the inserts that      *)
(* failed; no block is logged twice, early, or under another outcome.      *)
TrailIsFaithful ==
    LET told == log \o owed
        kept == DOMAIN Trail \ lost
    IN  /\ Len(told) = Cardinality(kept)
        /\ \A k \in kept : told[Cardinality({j \in kept : j <= k})] = Trail[k]

Logged(k) == {r \in ToSet(log) : r.kind = k}

(* What an operator concludes from the database alone is right: when no    *)
(* row was lost, a run closed as rolled back holds a rollback row for      *)
(* every step that succeeded and declares one, a partial one a rollback    *)
(* that failed, and a successful one no failure and no rollback; a         *)
(* rollback that failed stands beside rolled_back only when an interrupt   *)
(* asked for it (handleSignal looks at no outcome).                        *)
HistoryExplainsTheOutcome ==
    closed /\ lost = {} =>
        /\ runRow \in {"rolled_back", "partially_rolled_back"} =>
              \A r \in Logged("step") : r.status = "success" /\ r.name \in HasRollback =>
                  \E u \in Logged("rollback") : u.name = r.name
        /\ runRow = "partially_rolled_back" =>
              \E u \in Logged("rollback") : u.status # "success"
        /\ runRow = "rolled_back" /\ trigger # "user_abort" =>
              \A u \in Logged("rollback") : u.status = "success"
        /\ runRow = "success" =>
              Logged("rollback") = {} /\ \A r \in ToSet(log) : r.status = "success"
        /\ runRow = "check_failed" => Last(log).kind = "check" /\ Last(log).status # "success"

(* Unless the process is killed, every run is closed, whatever writes fail *)
(* and whichever way it ends.                                              *)
RunIsClosed == <>(closed \/ ~alive)
=============================================================================
