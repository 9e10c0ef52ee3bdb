------------------------------ MODULE StepOrder ------------------------------
(***************************************************************************)
(* What the scheduler of src/internal/dag/dag.go promises its caller, with *)
(* neither counters nor a queue: a step starts after all of its parents    *)
(* succeeded, and when a step is abandoned everything that depends on it   *)
(* is abandoned with it.                                                   *)
(***************************************************************************)
EXTENDS StepGraph

CONSTANT Graphs

VARIABLES graph, progress

orderVars == <<graph, progress>>

Init ==
    /\ graph \in {g \in Graphs : Acyclic(g)}
    /\ progress = [s \in Steps |-> "waiting"]

ParentsSucceeded(s) == \A p \in Parents(graph, s) : progress[p] = "succeeded"

Start(S) ==
    /\ \A s \in S : progress[s] = "waiting" /\ ParentsSucceeded(s)
    /\ progress' = [s \in Steps |-> IF s \in S THEN "started" ELSE progress[s]]
    /\ UNCHANGED graph

Succeed(s) ==
    /\ progress[s] = "started"
    /\ progress' = [progress EXCEPT ![s] = "succeeded"]
    /\ UNCHANGED graph

Abandon(s) ==
    /\ progress[s] \in {"waiting", "started"}
    /\ progress' = [t \in Steps |-> IF t \in {s} \cup Descendants(graph, s)
                                    THEN "abandoned" ELSE progress[t]]
    /\ UNCHANGED graph

Next ==
    \/ \E S \in SUBSET Steps : Start(S)
    \/ \E s \in Steps : Succeed(s) \/ Abandon(s)

Spec == Init /\ [][Next]_orderVars
=============================================================================
