---------------------------- MODULE BulkCoordinator ----------------------------
(***************************************************************************)
(* runWithExecutor of src/internal/bulk/coordinator.go: the main goroutine *)
(* takes a semaphore slot per job, in input order, and starts a goroutine  *)
(* that runs the job, writes its result, may trigger fail-fast, gives the  *)
(* slot back and leaves the wait group.  One executor.Run is one step that *)
(* ends with an exit code; RunSequential and RunDAG model what it does.    *)
(*                                                                         *)
(* Definitions marked "faulty" are variants with a bug, each defined just  *)
(* before the definition it distorts; no specification uses them.          *)
(***************************************************************************)
EXTENDS Integers, FiniteSets, FiniteSetsExt

CONSTANTS
    NumJobs,      \* len(Options.Jobs)
    Requests,     \* the values of Options.MaxRunbooks
    UpperBound,   \* MaxRunbooksUpperBound
    Codes         \* the exit codes a run may end with

ASSUME BulkAssumption == /\ NumJobs \in Nat \ {0}
                         /\ Requests \subseteq Int
                         /\ UpperBound \in Nat \ {0}
                         /\ 0 \in Codes /\ Codes \subseteq Nat

Jobs == 1..NumJobs

VARIABLES
    opts,        \* Options.MaxRunbooks and FailFast
    at,          \* where the main goroutine is
    next,        \* the job the dispatch loop is at
    slots,       \* len(sem)
    worker,      \* where each job's goroutine is
    runs,        \* the slice of results, as exit codes
    cancelled,   \* a failure triggered fail-fast
    ctxDone,     \* runCtx is cancelled, by markCancelled or by the parent
    waitingAt    \* history: the jobs without a slot when the first failure was marked

config   == <<opts>>
bulkVars == <<opts, at, next, slots, worker, runs, cancelled, ctxDone, waitingAt>>

Unset     == -1     \* the result a job's slot is created with
Skipped   == -2     \* StatusSkipped
WorkerAt  == {"none", "running", "written", "marked", "released", "done"}

(* normaliseWorkers.                                                       *)
Workers ==
    IF opts.maxRunbooks <= 0 THEN 1
    ELSE IF opts.maxRunbooks > UpperBound THEN UpperBound
    ELSE opts.maxRunbooks

Init ==
    /\ opts \in [maxRunbooks : Requests, failFast : BOOLEAN]
    /\ at = "loop" /\ next = 1 /\ slots = 0
    /\ worker = [j \in Jobs |-> "none"]
    /\ runs = [j \in Jobs |-> Unset]
    /\ cancelled = FALSE /\ ctxDone = FALSE
    /\ waitingAt = {}

-----------------------------------------------------------------------------
(***************************************************************************)
(* The main goroutine.                                                     *)
(***************************************************************************)
(* The top of the dispatch loop: cancelRuns is called under cancelMu, so a *)
(* cancelled run has a cancelled context too.                              *)
NextJob ==
    /\ at = "loop"
    /\ at' = IF next > NumJobs \/ ctxDone THEN "wait" ELSE "acquire"
    /\ UNCHANGED <<config, next, slots, worker, runs, cancelled, ctxDone, waitingAt>>

(* The select: with a free slot and a cancelled context either case may be *)
(* chosen.                                                                 *)
Acquire ==
    /\ at = "acquire" /\ slots < Workers
    /\ slots' = slots + 1 /\ at' = "recheck"
    /\ UNCHANGED <<config, next, worker, runs, cancelled, ctxDone, waitingAt>>

AcquireCancelled ==
    /\ at = "acquire" /\ ctxDone
    /\ at' = "wait"
    /\ UNCHANGED <<config, next, slots, worker, runs, cancelled, ctxDone, waitingAt>>

(* The check after the slot, which looks at fail-fast only.                *)
NotRechecked == FALSE                                                       \* faulty
Recheck == cancelled

RecheckedKeepsSlot ==                                                       \* faulty
    /\ at = "recheck"
    /\ at' = IF Recheck THEN "wait" ELSE "spawn"
    /\ UNCHANGED <<config, next, slots, worker, runs, cancelled, ctxDone, waitingAt>>
Rechecked ==
    /\ at = "recheck"
    /\ IF Recheck
       THEN at' = "wait" /\ slots' = slots - 1
       ELSE at' = "spawn" /\ UNCHANGED slots
    /\ UNCHANGED <<config, next, worker, runs, cancelled, ctxDone, waitingAt>>

Spawn ==
    /\ at = "spawn"
    /\ worker' = [worker EXCEPT ![next] = "running"]
    /\ next' = next + 1 /\ at' = "loop"
    /\ UNCHANGED <<config, slots, runs, cancelled, ctxDone, waitingAt>>

SlotFree == slots < Workers                                                 \* faulty
AllDone  == \A j \in Jobs : worker[j] \in {"none", "done"}

(* wg.Wait, then every job that was never dispatched is marked skipped.    *)
Collect ==
    /\ at = "wait" /\ AllDone
    /\ runs' = [j \in Jobs |-> IF worker[j] = "none" THEN Skipped ELSE runs[j]]
    /\ at' = "returned"
    /\ UNCHANGED <<config, next, slots, worker, cancelled, ctxDone, waitingAt>>

Main == NextJob \/ Acquire \/ AcquireCancelled \/ Rechecked \/ Spawn \/ Collect

-----------------------------------------------------------------------------
(***************************************************************************)
(* A job's goroutine.  A cancelled context makes a run fail sooner, never  *)
(* with a code it could not end with otherwise.                            *)
(***************************************************************************)
WriteResult(j, code) ==
    /\ worker[j] = "running"
    /\ runs' = [runs EXCEPT ![j] = code]
    /\ worker' = [worker EXCEPT ![j] = "written"]
    /\ UNCHANGED <<config, at, next, slots, cancelled, ctxDone, waitingAt>>

Waiting == {j \in Jobs : j > next \/ (j = next /\ at \in {"loop", "acquire"})}

Triggers(j) == runs[j] # 0 /\ opts.failFast /\ ~cancelled

(* markCancelled; only the first failure does anything.                    *)
MarkCancelled(j) ==
    /\ worker[j] = "written"
    /\ IF Triggers(j)
       THEN /\ cancelled' = TRUE /\ ctxDone' = TRUE
            /\ waitingAt' = Waiting
       ELSE UNCHANGED <<cancelled, ctxDone, waitingAt>>
    /\ worker' = [worker EXCEPT ![j] = "marked"]
    /\ UNCHANGED <<config, at, next, slots, runs>>

ReleasesEarly(j)     == worker[j] = "written"                               \* faulty
ReleasesOnSuccess(j) == worker[j] = "marked" /\ runs[j] = 0                 \* faulty
Releases(j) == worker[j] = "marked"

ReleaseSlot(j) ==
    /\ Releases(j)
    /\ slots' = slots - 1
    /\ worker' = [worker EXCEPT ![j] = "released"]
    /\ UNCHANGED <<config, at, next, runs, cancelled, ctxDone, waitingAt>>

LeaveGroup(j) ==
    /\ worker[j] = "released"
    /\ worker' = [worker EXCEPT ![j] = "done"]
    /\ UNCHANGED <<config, at, next, slots, runs, cancelled, ctxDone, waitingAt>>

Worker(j) ==
    \/ \E code \in Codes : WriteResult(j, code)
    \/ MarkCancelled(j) \/ ReleaseSlot(j) \/ LeaveGroup(j)

(***************************************************************************)
(* The command line's context ends on SIGTERM.                             *)
(***************************************************************************)
ParentCancel ==
    /\ ~ctxDone /\ at # "returned"
    /\ ctxDone' = TRUE
    /\ UNCHANGED <<config, at, next, slots, worker, runs, cancelled, waitingAt>>

Next == Main \/ (\E j \in Jobs : Worker(j)) \/ ParentCancel

(***************************************************************************)
(* The Go scheduler runs every goroutine that can run, and each job's run  *)
(* returns (RunIsClosed of AuditedRun, Returns of RunDAG).  Nobody must cancel.     *)
(***************************************************************************)
Spec == Init /\ [][Next]_bulkVars
FairSpec == Spec /\ WF_bulkVars(Main) /\ \A j \in Jobs : WF_bulkVars(Worker(j))

-----------------------------------------------------------------------------
Dispatched == {j \in Jobs : worker[j] # "none"}
Holding    == {j \in Jobs : worker[j] \in {"running", "written", "marked"}}
Finished   == {j \in Jobs : worker[j] \notin {"none", "running"}}

BulkTypeOK ==
    /\ opts \in [maxRunbooks : Requests, failFast : BOOLEAN]
    /\ at \in {"loop", "acquire", "recheck", "spawn", "wait", "returned"}
    /\ next \in 1..(NumJobs + 1)
    /\ slots \in 0..UpperBound
    /\ worker \in [Jobs -> WorkerAt]
    /\ runs \in [Jobs -> Codes \cup {Unset, Skipped}]
    /\ cancelled \in BOOLEAN /\ ctxDone \in BOOLEAN
    /\ waitingAt \subseteq Jobs

(* The semaphore counts the goroutines that run a job, and the slot the    *)
(* main goroutine has taken for the next one: the cap on runs in flight    *)
(* holds, and no slot is lost or given back twice when a job fails or the  *)
(* dispatch is called off.                                                 *)
SlotsExact ==
    /\ slots = Cardinality(Holding) + (IF at \in {"recheck", "spawn"} THEN 1 ELSE 0)
    /\ Cardinality(Holding) <= Workers

(* Fail-fast wins the race for a slot: a job that was waiting for its slot *)
(* when the first failure called the run off is never started.             *)
FailFastStopsWaiting == waitingAt \cap Dispatched = {}

(* In sequential mode fail-fast is exact: no job after a failed one is     *)
(* ever started.                                                           *)
SequentialStopsAtFailure ==
    Workers = 1 /\ opts.failFast =>
        \A i, j \in Jobs : i < j /\ i \in Finished /\ runs[i] # 0 => j \notin Dispatched

(* The report is final and complete: when Run returns, no goroutine is     *)
(* left that could still write a result, every job that was started has    *)
(* its own exit code, and every other job is skipped.                      *)
ReportComplete ==
    at = "returned" =>
        \A j \in Jobs : IF j \in Dispatched THEN worker[j] = "done" /\ runs[j] \in Codes
                        ELSE runs[j] = Skipped

(* Bulk runs always return.                                                *)
Returns == <>(at = "returned")
=============================================================================
