------------------------------ MODULE StepGraph ------------------------------
(***************************************************************************)
(* The dependency graph of a runbook's steps, as dag.Build makes it        *)
(* (src/internal/dag/dag.go).  A graph g maps every step to its depends_on *)
(* list.  A step is its own Index in document order.  A list may name a    *)
(* step twice, and may name a step that environment filtering removed;     *)
(* Build keeps the first as two edges and drops the second.                *)
(***************************************************************************)
EXTENDS Integers, FiniteSets, Sequences

CONSTANTS
    Steps,   \* the steps of the runbook, each named by its Index
    Names    \* the names a depends_on list may mention

ASSUME StepsAssumption == /\ Steps \subseteq Int
                          /\ IsFiniteSet(Steps)
                          /\ Steps \subseteq Names

DependsOnLists == Seq(Names)

(***************************************************************************)
(* Node.Parents, as the positions of the depends_on list that survive      *)
(* Build, and the edges a parent p has to a child c (one per mention).     *)
(***************************************************************************)
ParentRefs(g, c) == {i \in DOMAIN g[c] : g[c][i] \in Steps}
RefsTo(g, c, p)  == {i \in ParentRefs(g, c) : g[c][i] = p}
Parents(g, c)    == {g[c][i] : i \in ParentRefs(g, c)}
Children(g, p)   == {c \in Steps : p \in Parents(g, c)}

(***************************************************************************)
(* What detectCycle decides: a graph is accepted iff every set of steps    *)
(* has a member none of whose parents is in the set.                       *)
(***************************************************************************)
Acyclic(g) ==
    \A U \in SUBSET Steps :
        U # {} => \E s \in U : Parents(g, s) \cap U = {}

(***************************************************************************)
(* The steps reached from s along edges into steps of L: the least set     *)
(* that holds the children in L of s and of its own members.               *)
(***************************************************************************)
ClosedFrom(g, s, L, D) ==
    \A p \in D \cup {s} : Children(g, p) \cap L \subseteq D
ReachedThrough(g, s, L) ==
    {d \in Steps : \A D \in SUBSET Steps : ClosedFrom(g, s, L, D) => d \in D}
Descendants(g, s) == ReachedThrough(g, s, Steps)
=============================================================================
