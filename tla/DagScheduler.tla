----------------------------- MODULE DagScheduler -----------------------------
(***************************************************************************)
(* The Scheduler of src/internal/dag/dag.go: Kahn's algorithm over the     *)
(* graph of a runbook's steps, driven by one caller.  The ready queue is   *)
(* kept sorted by Index and never holds a step twice, so it is the set of  *)
(* its members.                                                            *)
(*                                                                         *)
(* Definitions marked "faulty" are variants with a bug, each defined just  *)
(* before the definition it distorts; no specification uses them.          *)
(*                                                                         *)
(* SchedSpec is the protocol the code's callers (the coordinator and the   *)
(* package's tests) follow: only a step that was handed out completes, and *)
(* a step that has not completed may be skipped.                           *)
(***************************************************************************)
EXTENDS StepGraph

CONSTANT Graphs   \* the graphs a runbook may have; Build rejects the cyclic ones

ASSUME GraphsAssumption == Graphs \subseteq [Steps -> DependsOnLists]

VARIABLES
    dependsOn,   \* Scheduler.graph
    state,       \* Scheduler.state
    pending,     \* Scheduler.pending: the unresolved parents of each step
    ready        \* Scheduler.ready

schedVars == <<dependsOn, state, pending, ready>>

NodeStates == {"pending", "ready", "dispatched", "completed", "skipped"}

(***************************************************************************)
(* NewScheduler: the roots are ready, every other step waits.              *)
(***************************************************************************)
Root(g, s) == ParentRefs(g, s) = {}

InitialPending(g, s)  == Cardinality(ParentRefs(g, s))

SchedInit ==
    /\ dependsOn \in {g \in Graphs : Acyclic(g)}
    /\ pending = [s \in Steps |-> InitialPending(dependsOn, s)]
    /\ state = [s \in Steps |-> IF Root(dependsOn, s) THEN "ready" ELSE "pending"]
    /\ ready = {s \in Steps : Root(dependsOn, s)}

HasWork == ready # {} \/ \E s \in Steps : state[s] = "dispatched"

(***************************************************************************)
(* PopReady hands out the first n ready steps in document order.           *)
(***************************************************************************)
FirstReady(n) == {s \in ready : Cardinality({r \in ready : r < s}) < n}

PopReady(n) ==
    /\ n > 0
    /\ ready # {}
    /\ ready' = ready \ FirstReady(n)
    /\ state' = [s \in Steps |-> IF s \in FirstReady(n) THEN "dispatched" ELSE state[s]]
    /\ UNCHANGED <<dependsOn, pending>>

(***************************************************************************)
(* CompleteSuccess takes every edge from s to a child that is not skipped  *)
(* off the child's count, and makes the children that reach zero ready.    *)
(***************************************************************************)
OneEdgePerParent(s, c) == IF RefsTo(dependsOn, c, s) # {} THEN 1 ELSE 0     \* faulty
EdgesResolved(s, c) == Cardinality(RefsTo(dependsOn, c, s))

PendingAfter(s) ==
    [c \in Steps |-> IF c \in Children(dependsOn, s) /\ state[c] # "skipped"
                     THEN pending[c] - EdgesResolved(s, c)
                     ELSE pending[c]]

PromotedByAnyParent(s) ==                                               \* faulty
    {c \in Children(dependsOn, s) : state[c] = "pending"}
Promoted(s) ==
    {c \in Children(dependsOn, s) : state[c] = "pending" /\ PendingAfter(s)[c] = 0}

CompleteSuccess(s) ==
    /\ pending' = PendingAfter(s)
    /\ state' = [c \in Steps |-> IF c = s THEN "completed"
                                 ELSE IF c \in Promoted(s) THEN "ready"
                                 ELSE state[c]]
    /\ ready' = ready \cup Promoted(s)
    /\ UNCHANGED dependsOn

(***************************************************************************)
(* Skip walks from s through the steps that are neither skipped nor        *)
(* completed, marks them skipped and drops them from the ready queue.      *)
(***************************************************************************)
Live == {c \in Steps : state[c] \notin {"skipped", "completed"}}

CutOffChildrenOnly(s) == Children(dependsOn, s) \cap Live                   \* faulty
CutOff(s) == ReachedThrough(dependsOn, s, Live)

ReadyAfterSkip(s) == ready \ ({s} \cup CutOff(s))

Skip(s) ==
    /\ state' = [c \in Steps |-> IF c \in {s} \cup CutOff(s) THEN "skipped" ELSE state[c]]
    /\ ready' = ReadyAfterSkip(s)
    /\ UNCHANGED <<dependsOn, pending>>

SchedNext ==
    \/ \E n \in 1..Cardinality(Steps) : PopReady(n)
    \/ \E s \in Steps : state[s] = "dispatched" /\ CompleteSuccess(s)
    \/ \E s \in Live : Skip(s)

SchedSpec == SchedInit /\ [][SchedNext]_schedVars

-----------------------------------------------------------------------------
(* Type invariant of the scheduler's four fields; a count never goes below *)
(* zero.                                                                   *)
SchedTypeOK ==
    /\ dependsOn \in Graphs
    /\ state \in [Steps -> NodeStates]
    /\ pending \in [Steps -> Nat]
    /\ ready \subseteq Steps

(* The ready queue and the ready state agree: CompleteSuccess, PopReady    *)
(* and Skip each change both, and a step left in one of them only would be *)
(* dispatched twice or never.                                              *)
ReadyMatches == ready = {s \in Steps : state[s] = "ready"}

(* The edges from parents that have not completed.                         *)
OpenRefs(c) == {i \in ParentRefs(dependsOn, c) : state[dependsOn[c][i]] # "completed"}

(* The counter CompleteSuccess decrements is exact: for every step that is *)
(* not skipped it is the number of edges from parents that have not        *)
(* completed, a parent listed twice counted twice.                         *)
PendingCounts ==
    \A c \in Steps : state[c] # "skipped" => pending[c] = Cardinality(OpenRefs(c))

(* A step becomes ready, is dispatched or completes only when all of its   *)
(* parents in the runbook have completed (depends_on order).               *)
DependenciesFirst ==
    \A c \in Steps : state[c] \in {"ready", "dispatched", "completed"} =>
        \A p \in Parents(dependsOn, c) : state[p] = "completed"

(* The cascade of Skip is complete: no dependent of a skipped step is left *)
(* where a later completion could make it ready.                           *)
SkipCascades ==
    \A p \in Steps : state[p] = "skipped" =>
        \A c \in Children(dependsOn, p) : state[c] = "skipped"

(* When HasWork turns false the schedule is finished: no step is left      *)
(* waiting for ever on a count that cannot reach zero.                     *)
NothingStranded ==
    ~HasWork => \A s \in Steps : state[s] \in {"completed", "skipped"}

-----------------------------------------------------------------------------
Progress(s) ==
    CASE state[s] \in {"pending", "ready"} -> "waiting"
      [] state[s] = "dispatched"           -> "started"
      [] state[s] = "completed"            -> "succeeded"
      [] OTHER                             -> "abandoned"

Order == INSTANCE StepOrder WITH graph <- dependsOn,
                                 progress <- [s \in Steps |-> Progress(s)]

(* The scheduler implements the promise it makes to its caller: its counts *)
(* and its queue let a step out only when its parents have succeeded, and  *)
(* Skip abandons exactly the step's descendants in the whole graph.        *)
ImplementsStepOrder == Order!Spec
=============================================================================
