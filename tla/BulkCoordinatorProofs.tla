------------------------- MODULE BulkCoordinatorProofs -------------------------
(***************************************************************************)
(* Proofs about BulkCoordinator for every number of jobs, every request    *)
(* for workers and every upper bound.  BulkInv is the inductive invariant: *)
(* the semaphore is counted exactly, jobs start in order, and fail-fast    *)
(* and the slot are given up in the order that lets the recheck win.       *)
(***************************************************************************)
EXTENDS BulkCoordinator, FiniteSetTheorems, TLAPS

MainHolds == IF at \in {"recheck", "spawn"} THEN 1 ELSE 0

(* Exactly the jobs before the loop's position have been started.          *)
InOrder ==
    /\ at \in {"acquire", "recheck", "spawn"} => next \in Jobs
    /\ \A j \in Jobs : j < next <=> j \in Dispatched

SlotsCounted == slots = Cardinality(Holding) + MainHolds /\ slots <= Workers

Written == \A j \in Finished : runs[j] \in Codes

(* What was waiting when the first failure called the run off is still     *)
(* waiting, and is not what the main goroutine is about to start.          *)
WaitingStays ==
    /\ cancelled => ctxDone
    /\ ~cancelled => waitingAt = {}
    /\ at = "spawn" => next \notin waitingAt
    /\ FailFastStopsWaiting

(* With one worker, a failure is marked before its slot is free, so what   *)
(* the main goroutine finds at the recheck is the verdict on every job     *)
(* before.                                                                 *)
OneByOne ==
    Workers = 1 =>
        /\ \A i \in Holding : \A j \in Jobs : i < j => j \notin Dispatched
        /\ at = "spawn" => ~cancelled
        /\ opts.failFast =>
              \A i \in Finished : worker[i] # "written" /\ runs[i] # 0 => cancelled
        /\ SequentialStopsAtFailure

Stopped == at \in {"wait", "returned"} => next > NumJobs \/ ctxDone

BulkInv ==
    /\ BulkTypeOK /\ SlotsCounted /\ InOrder /\ Written
    /\ WaitingStays /\ OneByOne /\ Stopped /\ ReportComplete

-----------------------------------------------------------------------------
(* normaliseWorkers: between one and the upper bound.                      *)
LEMMA WorkersBounded ==
    ASSUME opts \in [maxRunbooks : Requests, failFast : BOOLEAN]
    PROVE  Workers \in 1..UpperBound
<1>1. opts.maxRunbooks \in Requests
  OBVIOUS
<1>2. Requests \subseteq Int /\ UpperBound \in Nat \ {0}
  BY BulkAssumption
<1>3. opts.maxRunbooks \in Int
  BY <1>1, <1>2
<1>. QED  BY <1>2, <1>3 DEF Workers

(* The goroutines that hold a slot are finitely many.                      *)
LEMMA HoldingFinite ==
    IsFiniteSet(Holding) /\ Cardinality(Holding) \in Nat /\ (Cardinality(Holding) = 0 <=> Holding = {})
<1>1. IsFiniteSet(Jobs)
  BY BulkAssumption, FS_Interval DEF Jobs
<1>2. Holding \subseteq Jobs
  BY DEF Holding
<1>3. IsFiniteSet(Holding)
  BY <1>1, <1>2, FS_Subset
<1>. QED  BY <1>3, FS_CardinalityType, FS_EmptySet

(* The initial states.                                                     *)
LEMMA BulkInvInit == Init => BulkInv
<1> SUFFICES ASSUME Init PROVE BulkInv
  OBVIOUS
<1>1. BulkTypeOK
  <2>1. next \in 1..(NumJobs + 1) /\ slots \in 0..UpperBound
    BY BulkAssumption DEF Init
  <2>2. waitingAt \subseteq Jobs /\ runs \in [Jobs -> Codes \cup {Unset, Skipped}]
    BY DEF Init
  <2>3. worker \in [Jobs -> WorkerAt]
    BY DEF Init, WorkerAt
  <2>. QED  BY <2>1, <2>2, <2>3 DEF Init, BulkTypeOK
<1>2. Holding = {} /\ Dispatched = {} /\ Finished = {}
  BY DEF Init, Holding, Dispatched, Finished
<1>3. SlotsCounted
  BY <1>1, <1>2, HoldingFinite, WorkersBounded DEF Init, SlotsCounted, MainHolds, BulkTypeOK
<1>4. InOrder /\ Written /\ WaitingStays /\ OneByOne /\ Stopped /\ ReportComplete
  BY <1>2 DEF Init, InOrder, Written, WaitingStays, OneByOne, Stopped, ReportComplete,
              FailFastStopsWaiting, SequentialStopsAtFailure, Jobs
<1>. QED  BY <1>1, <1>3, <1>4 DEF BulkInv

-----------------------------------------------------------------------------
(* Types are kept by every step.                                           *)
LEMMA TypeStep == BulkInv /\ [Next]_bulkVars => BulkTypeOK'
<1> SUFFICES ASSUME BulkInv, [Next]_bulkVars PROVE BulkTypeOK'
  OBVIOUS
<1> USE BulkAssumption DEF BulkTypeOK, WorkerAt, config
<1>0. Workers \in 1..UpperBound /\ SlotsCounted /\ InOrder
  BY WorkersBounded DEF BulkInv
<1>1. Cardinality(Holding) \in Nat /\ slots = Cardinality(Holding) + MainHolds
  BY <1>0, HoldingFinite DEF SlotsCounted
<1>2. CASE NextJob
  BY <1>2 DEF NextJob, BulkInv
<1>3. CASE Acquire
  BY <1>3, <1>0 DEF Acquire, BulkInv
<1>4. CASE AcquireCancelled
  BY <1>4 DEF AcquireCancelled, BulkInv
<1>5. CASE Rechecked
  BY <1>5, <1>1 DEF Rechecked, BulkInv, MainHolds
<1>6. CASE Spawn
  BY <1>6, <1>0 DEF Spawn, BulkInv, InOrder, Jobs
<1>7. CASE Collect
  BY <1>7 DEF Collect, BulkInv
<1>8. ASSUME NEW j \in Jobs, NEW code \in Codes, WriteResult(j, code) PROVE BulkTypeOK'
  BY <1>8 DEF WriteResult, BulkInv
<1>9. ASSUME NEW j \in Jobs, MarkCancelled(j) PROVE BulkTypeOK'
  <2>1. Waiting \in SUBSET Jobs
    BY DEF Waiting
  <2>2. waitingAt' \subseteq Jobs
    BY <1>9, <2>1 DEF MarkCancelled, BulkInv
  <2>3. cancelled' \in BOOLEAN /\ ctxDone' \in BOOLEAN
    BY <1>9 DEF MarkCancelled, BulkInv
  <2>. QED  BY <1>9, <2>2, <2>3 DEF MarkCancelled, BulkInv
<1>10. ASSUME NEW j \in Jobs, ReleaseSlot(j) PROVE BulkTypeOK'
  <2>1. j \in Holding
    BY <1>10 DEF ReleaseSlot, Releases, Holding
  <2>2. slots > 0
    BY <1>1, <2>1, HoldingFinite DEF MainHolds
  <2> QED  BY <1>10, <2>2 DEF ReleaseSlot, BulkInv
<1>11. ASSUME NEW j \in Jobs, LeaveGroup(j) PROVE BulkTypeOK'
  BY <1>11 DEF LeaveGroup, BulkInv
<1>12. CASE ParentCancel
  BY <1>12 DEF ParentCancel, BulkInv, Waiting
<1>13. CASE UNCHANGED bulkVars
  BY <1>13 DEF bulkVars, BulkInv
<1>. QED  BY <1>2, <1>3, <1>4, <1>5, <1>6, <1>7, <1>8, <1>9, <1>10, <1>11, <1>12, <1>13
          DEF Next, Main, Worker

(* The semaphore: every step keeps the count exact and within the cap.     *)
LEMMA SlotsStep == BulkInv /\ [Next]_bulkVars => SlotsCounted'
<1> SUFFICES ASSUME BulkInv, [Next]_bulkVars PROVE SlotsCounted'
  OBVIOUS
<1> USE DEF config
<1>0. /\ BulkTypeOK /\ InOrder /\ Workers \in 1..UpperBound /\ UpperBound \in Nat
      /\ IsFiniteSet(Holding) /\ Cardinality(Holding) \in Nat
      /\ slots = Cardinality(Holding) + MainHolds /\ slots <= Workers
  BY WorkersBounded, HoldingFinite, BulkAssumption DEF BulkInv, SlotsCounted, BulkTypeOK
<1>1. opts' = opts => Workers' = Workers
  BY DEF Workers
<1>2. ASSUME worker' = worker PROVE Holding' = Holding
  BY <1>2 DEF Holding
<1>3. CASE NextJob
  BY <1>0, <1>1, <1>2, <1>3 DEF NextJob, SlotsCounted, MainHolds
<1>4. CASE Acquire
  BY <1>0, <1>1, <1>2, <1>4 DEF Acquire, SlotsCounted, MainHolds
<1>5. CASE AcquireCancelled
  BY <1>0, <1>1, <1>2, <1>5 DEF AcquireCancelled, SlotsCounted, MainHolds
<1>6. CASE Rechecked
  BY <1>0, <1>1, <1>2, <1>6 DEF Rechecked, SlotsCounted, MainHolds
<1>7. CASE Spawn
  <2>1. next \in Jobs /\ next \notin Holding
    BY <1>0, <1>7 DEF Spawn, InOrder, Holding, Dispatched, BulkTypeOK, Jobs
  <2>2. Holding' = Holding \cup {next}
    BY <1>0, <1>7, <2>1 DEF Spawn, Holding, BulkTypeOK
  <2>3. Cardinality(Holding') = Cardinality(Holding) + 1
    BY <1>0, <2>1, <2>2, FS_AddElement
  <2>. QED  BY <1>0, <1>1, <1>7, <2>3 DEF Spawn, SlotsCounted, MainHolds
<1>8. CASE Collect
  BY <1>0, <1>1, <1>2, <1>8 DEF Collect, SlotsCounted, MainHolds
<1>9. ASSUME NEW j \in Jobs, NEW code \in Codes, WriteResult(j, code) PROVE SlotsCounted'
  <2>1. Holding' = Holding
    BY <1>0, <1>9 DEF WriteResult, Holding, BulkTypeOK
  <2>. QED  BY <1>0, <1>1, <1>9, <2>1 DEF WriteResult, SlotsCounted, MainHolds
<1>10. ASSUME NEW j \in Jobs, MarkCancelled(j) PROVE SlotsCounted'
  <2>1. Holding' = Holding
    BY <1>0, <1>10 DEF MarkCancelled, Holding, BulkTypeOK
  <2>. QED  BY <1>0, <1>1, <1>10, <2>1 DEF MarkCancelled, SlotsCounted, MainHolds
<1>11. ASSUME NEW j \in Jobs, ReleaseSlot(j) PROVE SlotsCounted'
  <2>1. j \in Holding /\ Holding' = Holding \ {j}
    BY <1>0, <1>11 DEF ReleaseSlot, Releases, Holding, BulkTypeOK
  <2>2. Cardinality(Holding') = Cardinality(Holding) - 1
    BY <1>0, <2>1, FS_RemoveElement
  <2>. QED  BY <1>0, <1>1, <1>11, <2>2 DEF ReleaseSlot, SlotsCounted, MainHolds
<1>12. ASSUME NEW j \in Jobs, LeaveGroup(j) PROVE SlotsCounted'
  <2>1. Holding' = Holding
    BY <1>0, <1>12 DEF LeaveGroup, Holding, BulkTypeOK
  <2>. QED  BY <1>0, <1>1, <1>12, <2>1 DEF LeaveGroup, SlotsCounted, MainHolds
<1>13. CASE ParentCancel
  BY <1>0, <1>1, <1>2, <1>13 DEF ParentCancel, SlotsCounted, MainHolds
<1>14. CASE UNCHANGED bulkVars
  BY <1>0, <1>1, <1>2, <1>14 DEF bulkVars, SlotsCounted, MainHolds
<1>. QED  BY <1>3, <1>4, <1>5, <1>6, <1>7, <1>8, <1>9, <1>10, <1>11, <1>12, <1>13, <1>14
          DEF Next, Main, Worker

(* The loop: jobs start in order, results are codes, and the loop is left  *)
(* only at its end or on a cancelled context.                              *)
LEMMA LoopStep == BulkInv /\ [Next]_bulkVars => InOrder' /\ Written' /\ Stopped'
<1> SUFFICES ASSUME BulkInv, [Next]_bulkVars PROVE InOrder' /\ Written' /\ Stopped'
  OBVIOUS
<1> USE DEF config, InOrder, Written, Stopped, Dispatched, Finished
<1>0. /\ BulkTypeOK /\ InOrder /\ Written /\ Stopped /\ WaitingStays
      /\ NumJobs \in Nat /\ next \in Nat
  BY BulkAssumption DEF BulkInv, BulkTypeOK
<1>1. CASE NextJob
  BY <1>0, <1>1 DEF NextJob, Jobs, BulkTypeOK
<1>2. CASE Acquire
  BY <1>0, <1>2 DEF Acquire
<1>3. CASE AcquireCancelled
  BY <1>0, <1>3 DEF AcquireCancelled
<1>4. CASE Rechecked
  BY <1>0, <1>4 DEF Rechecked, Recheck, WaitingStays
<1>5. CASE Spawn
  <2>1. next \in Jobs /\ worker[next] = "none"
    BY <1>0, <1>5 DEF Spawn, Jobs
  <2>2. \A j \in Jobs : worker'[j] = IF j = next THEN "running" ELSE worker[j]
    BY <1>0, <1>5 DEF Spawn, BulkTypeOK
  <2>. QED  BY <1>0, <1>5, <2>1, <2>2 DEF Spawn, Jobs
<1>6. CASE Collect
  BY <1>0, <1>6 DEF Collect, BulkTypeOK
<1>7. ASSUME NEW j \in Jobs, NEW code \in Codes, WriteResult(j, code)
      PROVE InOrder' /\ Written' /\ Stopped'
  BY <1>0, <1>7 DEF WriteResult, BulkTypeOK
<1>8. ASSUME NEW j \in Jobs, MarkCancelled(j) PROVE InOrder' /\ Written' /\ Stopped'
  BY <1>0, <1>8 DEF MarkCancelled, BulkTypeOK
<1>9. ASSUME NEW j \in Jobs, ReleaseSlot(j) PROVE InOrder' /\ Written' /\ Stopped'
  BY <1>0, <1>9 DEF ReleaseSlot, Releases, BulkTypeOK
<1>10. ASSUME NEW j \in Jobs, LeaveGroup(j) PROVE InOrder' /\ Written' /\ Stopped'
  BY <1>0, <1>10 DEF LeaveGroup, BulkTypeOK
<1>11. CASE ParentCancel
  BY <1>0, <1>11 DEF ParentCancel
<1>12. CASE UNCHANGED bulkVars
  BY <1>0, <1>12 DEF bulkVars
<1>. QED  BY <1>1, <1>2, <1>3, <1>4, <1>5, <1>6, <1>7, <1>8, <1>9, <1>10, <1>11, <1>12
          DEF Next, Main, Worker

(* Fail-fast against the dispatch: what was waiting at the first failure   *)
(* is never started, because the recheck comes after the slot.             *)
LEMMA WaitingStep == BulkInv /\ [Next]_bulkVars => WaitingStays'
<1> SUFFICES ASSUME BulkInv, [Next]_bulkVars PROVE WaitingStays'
  OBVIOUS
<1> USE DEF config, WaitingStays, FailFastStopsWaiting, Dispatched
<1>0. BulkTypeOK /\ InOrder /\ WaitingStays /\ NumJobs \in Nat /\ next \in Nat
  BY BulkAssumption DEF BulkInv, BulkTypeOK
<1>1. CASE NextJob
  BY <1>0, <1>1 DEF NextJob
<1>2. CASE Acquire
  BY <1>0, <1>2 DEF Acquire
<1>3. CASE AcquireCancelled
  BY <1>0, <1>3 DEF AcquireCancelled
<1>4. CASE Rechecked
  BY <1>0, <1>4 DEF Rechecked, Recheck
<1>5. CASE Spawn
  BY <1>0, <1>5 DEF Spawn, BulkTypeOK
<1>6. CASE Collect
  BY <1>0, <1>6 DEF Collect
<1>7. ASSUME NEW j \in Jobs, NEW code \in Codes, WriteResult(j, code) PROVE WaitingStays'
  BY <1>0, <1>7 DEF WriteResult, BulkTypeOK
<1>8. ASSUME NEW j \in Jobs, MarkCancelled(j) PROVE WaitingStays'
  <2>1. \A i \in Jobs : worker'[i] = "none" <=> worker[i] = "none"
    BY <1>0, <1>8 DEF MarkCancelled, BulkTypeOK
  <2>2. CASE ~Triggers(j)
    BY <1>0, <1>8, <2>1, <2>2 DEF MarkCancelled
  <2>3. CASE Triggers(j)
    <3>1. waitingAt' = Waiting /\ cancelled' /\ ctxDone' /\ at' = at /\ next' = next
      BY <1>0, <1>8, <2>3 DEF MarkCancelled, BulkTypeOK
    <3>2. \A i \in Waiting : i \in Jobs /\ worker[i] = "none"
      BY <1>0 DEF Waiting, InOrder, Jobs
    <3>3. at = "spawn" => next \notin Waiting
      BY <1>0 DEF Waiting
    <3>. QED  BY <2>1, <3>1, <3>2, <3>3
  <2>. QED  BY <2>2, <2>3
<1>9. ASSUME NEW j \in Jobs, ReleaseSlot(j) PROVE WaitingStays'
  BY <1>0, <1>9 DEF ReleaseSlot, Releases, BulkTypeOK
<1>10. ASSUME NEW j \in Jobs, LeaveGroup(j) PROVE WaitingStays'
  BY <1>0, <1>10 DEF LeaveGroup, BulkTypeOK
<1>11. CASE ParentCancel
  BY <1>0, <1>11 DEF ParentCancel, BulkTypeOK
<1>12. CASE UNCHANGED bulkVars
  BY <1>0, <1>12 DEF bulkVars
<1>. QED  BY <1>1, <1>2, <1>3, <1>4, <1>5, <1>6, <1>7, <1>8, <1>9, <1>10, <1>11, <1>12
          DEF Next, Main, Worker

(* One worker: the running job is the last one started, and by the time    *)
(* its slot is free its failure has been marked.                           *)
LEMMA OneByOneStep == BulkInv /\ [Next]_bulkVars => OneByOne'
<1> SUFFICES ASSUME BulkInv, [Next]_bulkVars, Workers' = 1 PROVE OneByOne'
  BY DEF OneByOne
<1> USE DEF config
<1>0. BulkTypeOK /\ InOrder /\ Written /\ SlotsCounted /\ NumJobs \in Nat /\ next \in Nat
  BY BulkAssumption DEF BulkInv, BulkTypeOK
<1>1. opts' = opts
  BY DEF Next, Main, Worker, NextJob, Acquire, AcquireCancelled, Rechecked, Spawn, Collect,
         WriteResult, MarkCancelled, ReleaseSlot, LeaveGroup, ParentCancel, bulkVars
<1>2. Workers = 1 /\ OneByOne
  BY <1>1 DEF Workers, BulkInv
<1>3. at \in {"recheck", "spawn"} => Holding = {}
  BY <1>0, <1>2, HoldingFinite DEF SlotsCounted, MainHolds
<1>4. \A i, j \in Holding : i = j
  BY <1>0, <1>2 DEF OneByOne, Holding, Dispatched, Jobs
<1> USE DEF OneByOne, SequentialStopsAtFailure, Dispatched, Finished, Holding
<1>5. CASE NextJob
  BY <1>0, <1>1, <1>2, <1>5 DEF NextJob
<1>6. CASE Acquire
  BY <1>0, <1>1, <1>2, <1>6 DEF Acquire
<1>7. CASE AcquireCancelled
  BY <1>0, <1>1, <1>2, <1>7 DEF AcquireCancelled
<1>8. CASE Rechecked
  BY <1>0, <1>1, <1>2, <1>8 DEF Rechecked, Recheck
<1>9. CASE Spawn
  <2>1. next \in Jobs /\ \A j \in Jobs : worker'[j] = IF j = next THEN "running" ELSE worker[j]
    BY <1>0, <1>9 DEF Spawn, BulkTypeOK, InOrder
  <2>2. \A j \in Jobs : next < j => worker[j] = "none"
    BY <1>0 DEF InOrder, Jobs
  <2>3. \A i \in Jobs : worker[i] \notin {"running", "written", "marked"}
    BY <1>3, <1>9 DEF Spawn
  <2>4. ~cancelled /\ cancelled' = cancelled /\ runs' = runs /\ at' = "loop"
    BY <1>2, <1>9 DEF Spawn
  <2>5. opts.failFast => \A i \in Jobs : worker[i] # "none" => runs[i] = 0
    BY <1>2, <2>3, <2>4
  <2>6. Holding' = {next}
    BY <2>1, <2>3
  <2>7. \A i \in Finished' : i # next /\ worker'[i] = worker[i] /\ i \in Finished
    BY <2>1
  <2>8. \A i \in Holding' : \A j \in Jobs : i < j => j \notin Dispatched'
    <3>1. \A j \in Jobs : next < j => j \notin Dispatched'
      <4> SUFFICES ASSUME NEW j \in Jobs, next < j PROVE worker'[j] = "none"
        OBVIOUS
      <4>1. j # next
        BY <1>0 DEF Jobs
      <4>. QED  BY <2>1, <2>2, <4>1
    <3>. QED  BY <2>6, <3>1
  <2>9. opts'.failFast => \A i \in Finished' : runs'[i] = 0
    BY <1>1, <2>4, <2>5, <2>7
  <2>. QED  BY <1>1, <2>4, <2>8, <2>9
<1>10. CASE Collect
  BY <1>0, <1>1, <1>2, <1>10 DEF Collect, BulkTypeOK
<1>11. ASSUME NEW j \in Jobs, NEW code \in Codes, WriteResult(j, code) PROVE OneByOne'
  <2>1. \A i \in Jobs : worker'[i] = IF i = j THEN "written" ELSE worker[i]
    BY <1>0, <1>11 DEF WriteResult, BulkTypeOK
  <2>2. \A i \in Jobs : i # j => runs'[i] = runs[i]
    BY <1>0, <1>11 DEF WriteResult, BulkTypeOK
  <2>3. \A i \in Jobs : j < i => i \notin Dispatched
    BY <1>2, <1>11 DEF WriteResult
  <2>4. worker[j] = "running" /\ at' = at /\ cancelled' = cancelled
    BY <1>11 DEF WriteResult
  <2>. QED  BY <1>1, <1>2, <2>1, <2>2, <2>3, <2>4
<1>12. ASSUME NEW j \in Jobs, MarkCancelled(j) PROVE OneByOne'
  <2>1. \A i \in Jobs : worker'[i] = IF i = j THEN "marked" ELSE worker[i]
    BY <1>0, <1>12 DEF MarkCancelled, BulkTypeOK
  <2>2. worker[j] = "written" /\ at' = at /\ runs' = runs /\ at # "spawn"
    BY <1>3, <1>12 DEF MarkCancelled
  <2>3. cancelled => cancelled'
    BY <1>12 DEF MarkCancelled
  <2>4. opts.failFast /\ runs[j] # 0 => cancelled'
    BY <1>12 DEF MarkCancelled, Triggers
  <2>. QED  BY <1>1, <1>2, <2>1, <2>2, <2>3, <2>4
<1>13. ASSUME NEW j \in Jobs, ReleaseSlot(j) PROVE OneByOne'
  <2>1. \A i \in Jobs : worker'[i] = IF i = j THEN "released" ELSE worker[i]
    BY <1>0, <1>13 DEF ReleaseSlot, Releases, BulkTypeOK
  <2>. QED  BY <1>1, <1>2, <1>13, <2>1 DEF ReleaseSlot, Releases
<1>14. ASSUME NEW j \in Jobs, LeaveGroup(j) PROVE OneByOne'
  <2>1. \A i \in Jobs : worker'[i] = IF i = j THEN "done" ELSE worker[i]
    BY <1>0, <1>14 DEF LeaveGroup, BulkTypeOK
  <2>. QED  BY <1>1, <1>2, <1>14, <2>1 DEF LeaveGroup
<1>15. CASE ParentCancel
  BY <1>0, <1>1, <1>2, <1>15 DEF ParentCancel
<1>16. CASE UNCHANGED bulkVars
  BY <1>0, <1>1, <1>2, <1>16 DEF bulkVars
<1>. QED  BY <1>5, <1>6, <1>7, <1>8, <1>9, <1>10, <1>11, <1>12, <1>13, <1>14, <1>15, <1>16
          DEF Next, Main, Worker

(* After Collect nothing moves any more.                                   *)
LEMMA ReportStep == BulkInv /\ [Next]_bulkVars => ReportComplete'
<1> SUFFICES ASSUME BulkInv, [Next]_bulkVars PROVE ReportComplete'
  OBVIOUS
<1> USE DEF config, ReportComplete, Dispatched
<1>0. BulkTypeOK /\ Written /\ ReportComplete
  BY DEF BulkInv
<1>1. CASE Collect
  BY <1>0, <1>1 DEF Collect, AllDone, BulkTypeOK, Written, Finished
<1>2. CASE NextJob \/ Acquire \/ AcquireCancelled \/ Rechecked \/ Spawn
  BY <1>2 DEF NextJob, Acquire, AcquireCancelled, Rechecked, Spawn
<1>3. ASSUME NEW j \in Jobs, Worker(j) PROVE ReportComplete'
  <2>1. at' = at /\ worker[j] \notin {"none", "done"}
    BY <1>3 DEF Worker, WriteResult, MarkCancelled, ReleaseSlot, Releases, LeaveGroup
  <2>. QED  BY <1>0, <2>1
<1>4. CASE ParentCancel \/ UNCHANGED bulkVars
  BY <1>0, <1>4 DEF ParentCancel, bulkVars
<1>. QED  BY <1>1, <1>2, <1>3, <1>4 DEF Next, Main

-----------------------------------------------------------------------------
(* The inductive invariant of the bulk coordinator.                        *)
THEOREM BulkInvariant == Spec => []BulkInv
<1>1. BulkInv /\ [Next]_bulkVars => BulkInv'
  BY TypeStep, SlotsStep, LoopStep, WaitingStep, OneByOneStep, ReportStep DEF BulkInv
<1>. QED  BY BulkInvInit, <1>1, PTL DEF Spec

(* The semaphore never loses or invents a slot, so at most Workers runs    *)
(* are in flight, whatever fails and whenever the dispatch is called off.  *)
THEOREM SemaphoreIsExact == Spec => []SlotsExact
<1>1. BulkInv => SlotsExact
  <2> SUFFICES ASSUME BulkInv PROVE SlotsExact
    OBVIOUS
  <2>1. Workers \in 1..UpperBound /\ Cardinality(Holding) \in Nat
    BY WorkersBounded, HoldingFinite DEF BulkInv, BulkTypeOK
  <2>2. Workers \in Nat
    BY <2>1, BulkAssumption
  <2>. QED  BY <2>1, <2>2 DEF BulkInv, SlotsCounted, MainHolds, SlotsExact
<1>. QED  BY BulkInvariant, <1>1, PTL

(* Fail-fast wins every race for a slot.                                   *)
THEOREM FailFastWins == Spec => []FailFastStopsWaiting
<1>1. BulkInv => FailFastStopsWaiting
  BY DEF BulkInv, WaitingStays
<1>. QED  BY BulkInvariant, <1>1, PTL

(* A sequential bulk run stops exactly at its first failure.               *)
THEOREM SequentialIsExact == Spec => []SequentialStopsAtFailure
<1>1. BulkInv => SequentialStopsAtFailure
  BY DEF BulkInv, OneByOne, SequentialStopsAtFailure
<1>. QED  BY BulkInvariant, <1>1, PTL

(* The report is final and complete when Run returns.                      *)
THEOREM ReportIsComplete == Spec => []ReportComplete
<1>1. BulkInv => ReportComplete
  BY DEF BulkInv
<1>. QED  BY BulkInvariant, <1>1, PTL
=============================================================================
