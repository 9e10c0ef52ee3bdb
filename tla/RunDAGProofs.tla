----------------------------- MODULE RunDAGProofs -----------------------------
(***************************************************************************)
(* Proofs about parallel execution, for every graph, any number of steps   *)
(* and of slots.  First the scheduler alone: SchedInv is inductive because *)
(* exact counts and parents before children give each other, and the       *)
(* cascade of Skip keeps both true when a branch is cut.  Then the         *)
(* executor that drives it: the coordinator's count of workers, the quiet  *)
(* before a rollback, the order commands start in and the order they are   *)
(* undone in.                                                              *)
(***************************************************************************)
EXTENDS RunDAG, RunLifecycleProofs, FiniteSetTheorems, TLAPS

(* A waiting step still counts an open edge, so some completion will make  *)
(* it ready (CompleteSuccess promotes at zero, and only there).            *)
WaitingIsCounted == \A c \in Steps : state[c] = "pending" => pending[c] # 0

SchedInv ==
    /\ SchedTypeOK
    /\ Acyclic(dependsOn)
    /\ ReadyMatches
    /\ PendingCounts
    /\ DependenciesFirst
    /\ SkipCascades
    /\ WaitingIsCounted

-----------------------------------------------------------------------------
(* The edges into a step are the positions of a sequence: finitely many.   *)
LEMMA RefsFinite ==
    ASSUME NEW g \in [Steps -> DependsOnLists], NEW c \in Steps
    PROVE  /\ IsFiniteSet(ParentRefs(g, c))
           /\ \A R \in SUBSET ParentRefs(g, c) :
                 IsFiniteSet(R) /\ Cardinality(R) \in Nat
           /\ \A R \in SUBSET ParentRefs(g, c) : Cardinality(R) = 0 <=> R = {}
<1>1. g[c] \in Seq(Names)
  BY DEF DependsOnLists
<1>2. DOMAIN g[c] = 1..Len(g[c]) /\ Len(g[c]) \in Nat
  BY <1>1
<1>3. IsFiniteSet(DOMAIN g[c])
  BY <1>2, FS_Interval
<1>4. IsFiniteSet(ParentRefs(g, c))
  BY <1>3, FS_Subset DEF ParentRefs
<1>5. \A R \in SUBSET ParentRefs(g, c) : IsFiniteSet(R) /\ Cardinality(R) \in Nat
  BY <1>4, FS_Subset, FS_CardinalityType
<1>6. \A R \in SUBSET ParentRefs(g, c) : Cardinality(R) = 0 <=> R = {}
  BY <1>5, FS_EmptySet
<1>. QED  BY <1>4, <1>5, <1>6

(* Taking a subset away from a finite set takes its size off the count.    *)
LEMMA CountMinus ==
    ASSUME NEW S, NEW T \in SUBSET S, IsFiniteSet(S)
    PROVE  Cardinality(S \ T) = Cardinality(S) - Cardinality(T)
<1>1. S \cap T = T
  OBVIOUS
<1>. QED  BY <1>1, FS_Difference

(* Skip's walk meets only steps it may mark, and misses none it must: it   *)
(* never reaches a step outside L, and it is closed under children in L.   *)
LEMMA ReachedIsClosed ==
    ASSUME NEW g, NEW s \in Steps, NEW L \in SUBSET Steps
    PROVE  /\ ReachedThrough(g, s, L) \subseteq L
           /\ ClosedFrom(g, s, L, ReachedThrough(g, s, L))
<1>1. ClosedFrom(g, s, L, L)
  BY DEF ClosedFrom
<1>2. ReachedThrough(g, s, L) \subseteq L
  BY <1>1 DEF ReachedThrough
<1>3. ASSUME NEW p \in ReachedThrough(g, s, L) \cup {s}, NEW c \in Children(g, p) \cap L
      PROVE  c \in ReachedThrough(g, s, L)
  <2>1. SUFFICES ASSUME NEW D \in SUBSET Steps, ClosedFrom(g, s, L, D)
                 PROVE  c \in D
    BY DEF ReachedThrough
  <2>2. p \in D \cup {s}
    BY <2>1 DEF ReachedThrough
  <2>. QED  BY <2>1, <2>2 DEF ClosedFrom
<1>4. ClosedFrom(g, s, L, ReachedThrough(g, s, L))
  BY <1>3 DEF ClosedFrom
<1>. QED  BY <1>2, <1>4

(* The graph is immutable, so everything read from it is unchanged.        *)
LEMMA GraphFixed ==
    ASSUME dependsOn' = dependsOn
    PROVE  /\ \A c \in Steps : ParentRefs(dependsOn, c)' = ParentRefs(dependsOn, c)
           /\ \A c \in Steps : Parents(dependsOn, c)' = Parents(dependsOn, c)
           /\ \A c \in Steps : Children(dependsOn, c)' = Children(dependsOn, c)
           /\ Acyclic(dependsOn)' = Acyclic(dependsOn)
<1>1. \A c \in Steps : ParentRefs(dependsOn, c)' = ParentRefs(dependsOn, c)
  BY DEF ParentRefs
<1>2. \A c \in Steps : Parents(dependsOn, c)' = Parents(dependsOn, c)
  BY DEF Parents, ParentRefs
<1>3. \A c \in Steps : Children(dependsOn, c)' = Children(dependsOn, c)
  BY DEF Children, Parents, ParentRefs
<1>4. Acyclic(dependsOn)' = Acyclic(dependsOn)
  <2>1. Acyclic(dependsOn') = Acyclic(dependsOn)
    OBVIOUS
  <2>. QED  BY <2>1 DEF Acyclic, Parents, ParentRefs
<1>. QED  BY <1>1, <1>2, <1>3, <1>4

(* An edge leads to a step.                                                *)
LEMMA EdgesAreSteps ==
    ASSUME NEW g, NEW c \in Steps
    PROVE  /\ \A i \in ParentRefs(g, c) : g[c][i] \in Steps /\ g[c][i] \in Parents(g, c)
           /\ Parents(g, c) \subseteq Steps
           /\ Children(g, c) \subseteq Steps
BY DEF Parents, ParentRefs, Children

-----------------------------------------------------------------------------
LEMMA InitEstablishesInv == SchedInit => SchedInv
<1>. SUFFICES ASSUME SchedInit PROVE SchedInv
  OBVIOUS
<1>1. dependsOn \in Graphs /\ dependsOn \in [Steps -> DependsOnLists] /\ Acyclic(dependsOn)
  BY GraphsAssumption DEF SchedInit
<1>2. \A c \in Steps : state[c] = (IF Root(dependsOn, c) THEN "ready" ELSE "pending")
  BY DEF SchedInit
<1>3. SchedTypeOK
  <2>1. \A c \in Steps : Cardinality(ParentRefs(dependsOn, c)) \in Nat
    BY <1>1, RefsFinite
  <2>. QED  BY <1>1, <2>1 DEF SchedInit, SchedTypeOK, NodeStates, InitialPending
<1>4. ReadyMatches
  BY <1>2 DEF SchedInit, ReadyMatches
<1>5. PendingCounts
  <2>1. ASSUME NEW c \in Steps PROVE OpenRefs(c) = ParentRefs(dependsOn, c)
    <3>. QED  BY <1>2, EdgesAreSteps DEF OpenRefs
  <2>. QED  BY <2>1 DEF PendingCounts, SchedInit, InitialPending
<1>6. DependenciesFirst
  BY <1>2 DEF DependenciesFirst, Root, Parents
<1>7. SkipCascades
  BY <1>2 DEF SkipCascades
<1>8. WaitingIsCounted
  <2>1. ASSUME NEW c \in Steps, state[c] = "pending" PROVE pending[c] # 0
    <3>1. ParentRefs(dependsOn, c) # {}
      BY <1>2, <2>1 DEF Root
    <3>. QED  BY <1>1, <3>1, RefsFinite DEF SchedInit, InitialPending
  <2>. QED  BY <2>1 DEF WaitingIsCounted
<1>. QED  BY <1>1, <1>3, <1>4, <1>5, <1>6, <1>7, <1>8 DEF SchedInv

LEMMA PopReadyKeepsInv ==
    ASSUME SchedInv, NEW n \in Nat, PopReady(n)
    PROVE  SchedInv'
<1>1. /\ dependsOn \in [Steps -> DependsOnLists]
      /\ dependsOn' = dependsOn /\ pending' = pending
      /\ FirstReady(n) \subseteq ready
  BY GraphsAssumption DEF SchedInv, SchedTypeOK, PopReady, FirstReady
<1>2. \A c \in Steps : state'[c] = (IF c \in FirstReady(n) THEN "dispatched" ELSE state[c])
  BY DEF PopReady
<1>3. \A c \in FirstReady(n) : state[c] = "ready"
  BY <1>1 DEF SchedInv, ReadyMatches
<1>4. \A c \in Steps : /\ state'[c] = "completed" <=> state[c] = "completed"
                       /\ state'[c] = "skipped" <=> state[c] = "skipped"
                       /\ state'[c] = "pending" <=> state[c] = "pending"
  BY <1>2, <1>3
<1>5. SchedTypeOK'
  BY <1>1 DEF SchedInv, SchedTypeOK, PopReady, NodeStates
<1>6. ReadyMatches'
  BY <1>2 DEF SchedInv, ReadyMatches, PopReady
<1>7. PendingCounts'
  <2>1. ASSUME NEW c \in Steps PROVE OpenRefs(c)' = OpenRefs(c)
    <3>. QED  BY <1>1, <1>4, GraphFixed, EdgesAreSteps DEF OpenRefs
  <2>. QED  BY <1>1, <1>4, <2>1 DEF SchedInv, PendingCounts
<1>8. DependenciesFirst'
  <2>1. ASSUME NEW c \in Steps, state'[c] \in {"ready", "dispatched", "completed"},
               NEW p \in Parents(dependsOn, c)
        PROVE  state'[p] = "completed"
    <3>1. state[c] \in {"ready", "dispatched", "completed"}
      BY <1>2, <1>3, <2>1
    <3>. QED  BY <1>4, <3>1, EdgesAreSteps DEF SchedInv, DependenciesFirst
  <2>. QED  BY <1>1, <2>1, GraphFixed DEF DependenciesFirst
<1>9. SkipCascades'
  BY <1>1, <1>4, GraphFixed, EdgesAreSteps DEF SchedInv, SkipCascades
<1>10. WaitingIsCounted'
  BY <1>1, <1>4 DEF SchedInv, WaitingIsCounted
<1>11. Acyclic(dependsOn)'
  BY <1>1, GraphFixed DEF SchedInv
<1>. QED  BY <1>5, <1>6, <1>7, <1>8, <1>9, <1>10, <1>11 DEF SchedInv

LEMMA CompleteSuccessKeepsInv ==
    ASSUME SchedInv, NEW s \in Steps, state[s] = "dispatched", CompleteSuccess(s)
    PROVE  SchedInv'
<1>1. dependsOn \in [Steps -> DependsOnLists] /\ dependsOn' = dependsOn
  BY GraphsAssumption DEF SchedInv, SchedTypeOK, CompleteSuccess
<1>2. /\ \A c \in Steps : state'[c] = (IF c = s THEN "completed"
                                      ELSE IF c \in Promoted(s) THEN "ready"
                                      ELSE state[c])
      /\ \A c \in Steps : pending'[c] = PendingAfter(s)[c]
  BY DEF CompleteSuccess, PendingAfter
<1>3. \A c \in Promoted(s) : c \in Steps /\ c # s /\ state[c] = "pending"
                             /\ pending'[c] = 0
  BY <1>2, EdgesAreSteps DEF Promoted
<1>4. \A c \in Steps : /\ state'[c] = "completed" <=> state[c] = "completed" \/ c = s
                       /\ state'[c] = "skipped" <=> state[c] = "skipped"
  BY <1>2, <1>3
<1>5. ASSUME NEW c \in Steps
      PROVE  /\ RefsTo(dependsOn, c, s) \subseteq OpenRefs(c)
             /\ OpenRefs(c)' = OpenRefs(c) \ RefsTo(dependsOn, c, s)
             /\ c \in Children(dependsOn, s) <=> RefsTo(dependsOn, c, s) # {}
  <2>1. RefsTo(dependsOn, c, s) \subseteq OpenRefs(c)
    BY DEF RefsTo, OpenRefs
  <2>2. OpenRefs(c)' = OpenRefs(c) \ RefsTo(dependsOn, c, s)
    <3>1. \A i \in ParentRefs(dependsOn, c) :
             state'[dependsOn[c][i]] # "completed" <=>
                 state[dependsOn[c][i]] # "completed" /\ dependsOn[c][i] # s
      BY <1>4, EdgesAreSteps
    <3>. QED  BY <1>1, <3>1, GraphFixed DEF OpenRefs, RefsTo
  <2>3. c \in Children(dependsOn, s) <=> RefsTo(dependsOn, c, s) # {}
    BY DEF Children, Parents, RefsTo
  <2>. QED  BY <2>1, <2>2, <2>3
<1>6. ASSUME NEW c \in Steps, state[c] # "skipped"
      PROVE  pending'[c] = Cardinality(OpenRefs(c)')
  <2>1. pending[c] = Cardinality(OpenRefs(c))
    BY <1>6 DEF SchedInv, PendingCounts
  <2>2. CASE RefsTo(dependsOn, c, s) = {}
    BY <1>2, <1>5, <2>1, <2>2 DEF PendingAfter
  <2>3. CASE RefsTo(dependsOn, c, s) # {}
    <3>1. pending'[c] = pending[c] - Cardinality(RefsTo(dependsOn, c, s))
      BY <1>2, <1>5, <1>6, <2>3 DEF PendingAfter, EdgesResolved
    <3>2. IsFiniteSet(OpenRefs(c))
      BY <1>1, RefsFinite DEF OpenRefs
    <3>. QED  BY <1>5, <2>1, <3>1, <3>2, CountMinus
  <2>. QED  BY <2>2, <2>3
<1>7. ASSUME NEW c \in Steps
      PROVE  /\ Cardinality(OpenRefs(c)') \in Nat
             /\ Cardinality(OpenRefs(c)') = 0 <=> OpenRefs(c)' = {}
  <2>1. OpenRefs(c)' \subseteq ParentRefs(dependsOn, c)
    BY <1>5 DEF OpenRefs
  <2>. QED  BY <1>1, <2>1, RefsFinite
<1>8. SchedTypeOK'
  <2>1. ASSUME NEW c \in Steps PROVE pending'[c] \in Nat
    <3>1. CASE state[c] = "skipped"
      BY <1>2, <3>1 DEF PendingAfter, SchedInv, SchedTypeOK
    <3>2. CASE state[c] # "skipped"
      BY <1>6, <1>7, <3>2
    <3>. QED  BY <3>1, <3>2
  <2>2. pending' \in [Steps -> Nat]
    BY <2>1 DEF CompleteSuccess, PendingAfter
  <2>3. state' \in [Steps -> NodeStates]
    BY DEF CompleteSuccess, SchedInv, SchedTypeOK, NodeStates
  <2>4. ready' \subseteq Steps
    BY <1>3 DEF CompleteSuccess, SchedInv, SchedTypeOK
  <2>. QED  BY <1>1, <2>2, <2>3, <2>4 DEF SchedInv, SchedTypeOK
<1>9. ReadyMatches'
  <2>1. ready' = ready \cup Promoted(s)
    BY DEF CompleteSuccess
  <2>. QED  BY <1>2, <1>3, <2>1 DEF SchedInv, ReadyMatches
<1>10. PendingCounts'
  BY <1>4, <1>6 DEF PendingCounts
<1>11. DependenciesFirst'
  <2>1. ASSUME NEW c \in Steps, state'[c] \in {"ready", "dispatched", "completed"},
               NEW p \in Parents(dependsOn, c)
        PROVE  state'[p] = "completed"
    <3>1. CASE c \in Promoted(s)
      <4>1. OpenRefs(c)' = {}
        BY <1>3, <1>6, <1>7, <3>1
      <4>2. PICK i \in ParentRefs(dependsOn, c) : dependsOn[c][i] = p
        BY DEF Parents
      <4>3. i \notin OpenRefs(c)'
        BY <4>1
      <4>. QED  BY <1>1, <4>2, <4>3, GraphFixed DEF OpenRefs
    <3>2. CASE c \notin Promoted(s)
      <4>1. state[c] \in {"ready", "dispatched", "completed"}
        BY <1>2, <2>1, <3>2
      <4>. QED  BY <1>4, <4>1, EdgesAreSteps DEF SchedInv, DependenciesFirst
    <3>. QED  BY <3>1, <3>2
  <2>. QED  BY <1>1, <2>1, GraphFixed DEF DependenciesFirst
<1>12. SkipCascades'
  BY <1>1, <1>4, GraphFixed, EdgesAreSteps DEF SchedInv, SkipCascades
<1>13. WaitingIsCounted'
  <2>1. ASSUME NEW c \in Steps, state'[c] = "pending" PROVE pending'[c] # 0
    <3>1. state[c] = "pending" /\ c \notin Promoted(s)
      BY <1>2, <2>1
    <3>2. CASE c \in Children(dependsOn, s)
      BY <1>2, <3>1, <3>2 DEF Promoted
    <3>3. CASE c \notin Children(dependsOn, s)
      BY <1>2, <3>1, <3>3 DEF PendingAfter, SchedInv, WaitingIsCounted
    <3>. QED  BY <3>2, <3>3
  <2>. QED  BY <2>1 DEF WaitingIsCounted
<1>14. Acyclic(dependsOn)'
  BY <1>1, GraphFixed DEF SchedInv
<1>. QED  BY <1>8, <1>9, <1>10, <1>11, <1>12, <1>13, <1>14 DEF SchedInv

LEMMA SkipKeepsInv ==
    ASSUME SchedInv, NEW s \in Live, Skip(s)
    PROVE  SchedInv'
<1>. DEFINE Cut == {s} \cup CutOff(s)
<1>1. /\ dependsOn \in [Steps -> DependsOnLists]
      /\ dependsOn' = dependsOn /\ pending' = pending
  BY GraphsAssumption DEF SchedInv, SchedTypeOK, Skip
<1>2. Cut \subseteq Live /\ Live \subseteq Steps
  BY ReachedIsClosed DEF Live, CutOff
<1>3. /\ \A c \in Steps : state'[c] = (IF c \in Cut THEN "skipped" ELSE state[c])
      /\ ready' = ready \ Cut
  BY DEF Skip, ReadyAfterSkip
<1>4. \A c \in Steps : state'[c] = "completed" <=> state[c] = "completed"
  BY <1>2, <1>3 DEF Live
<1>5. \A c \in Steps : state'[c] # "skipped" => state'[c] = state[c]
  BY <1>3
<1>6. SchedTypeOK'
  BY <1>1 DEF Skip, ReadyAfterSkip, SchedInv, SchedTypeOK, NodeStates
<1>7. ReadyMatches'
  BY <1>3 DEF SchedInv, ReadyMatches
<1>8. PendingCounts'
  <2>1. ASSUME NEW c \in Steps PROVE OpenRefs(c)' = OpenRefs(c)
    BY <1>1, <1>4, GraphFixed, EdgesAreSteps DEF OpenRefs
  <2>. QED  BY <1>1, <1>5, <2>1 DEF SchedInv, PendingCounts
<1>9. DependenciesFirst'
  <2>1. ASSUME NEW c \in Steps, state'[c] \in {"ready", "dispatched", "completed"},
               NEW p \in Parents(dependsOn, c)
        PROVE  state'[p] = "completed"
    <3>1. state[c] \in {"ready", "dispatched", "completed"}
      BY <1>5, <2>1
    <3>. QED  BY <1>4, <3>1, EdgesAreSteps DEF SchedInv, DependenciesFirst
  <2>. QED  BY <1>1, <2>1, GraphFixed DEF DependenciesFirst
<1>10. SkipCascades'
  <2>1. ASSUME NEW p \in Steps, state'[p] = "skipped", NEW c \in Children(dependsOn, p)
        PROVE  state'[c] = "skipped"
    <3>1. c \in Steps /\ p \in Parents(dependsOn, c)
      BY DEF Children
    <3>2. CASE p \in Cut
      <4>1. state[p] # "completed"
        BY <1>2, <3>2 DEF Live
      <4>2. state[c] # "completed"
        BY <3>1, <4>1 DEF SchedInv, DependenciesFirst
      <4>3. CASE c \in Live
        BY <1>3, <3>1, <3>2, <4>3, ReachedIsClosed DEF ClosedFrom, CutOff, Live
      <4>4. CASE c \notin Live
        BY <1>3, <3>1, <4>2, <4>4 DEF Live
      <4>. QED  BY <4>3, <4>4
    <3>3. CASE p \notin Cut
      BY <1>3, <2>1, <3>1, <3>3 DEF SchedInv, SkipCascades
    <3>. QED  BY <3>2, <3>3
  <2>. QED  BY <1>1, <2>1, GraphFixed DEF SkipCascades
<1>11. WaitingIsCounted'
  BY <1>1, <1>3 DEF SchedInv, WaitingIsCounted
<1>12. Acyclic(dependsOn)'
  BY <1>1, GraphFixed DEF SchedInv
<1>. QED  BY <1>6, <1>7, <1>8, <1>9, <1>10, <1>11, <1>12 DEF SchedInv

LEMMA StutterKeepsInv == ASSUME SchedInv, UNCHANGED schedVars PROVE SchedInv'
<1>1. /\ dependsOn' = dependsOn /\ state' = state /\ pending' = pending /\ ready' = ready
  BY DEF schedVars
<1>2. \A c \in Steps : OpenRefs(c)' = OpenRefs(c)
  BY <1>1, GraphFixed DEF OpenRefs
<1>. QED  BY <1>1, <1>2, GraphFixed
          DEF SchedInv, SchedTypeOK, ReadyMatches, PendingCounts, DependenciesFirst,
              SkipCascades, WaitingIsCounted

-----------------------------------------------------------------------------
LEMMA StepKeepsInv == SchedInv /\ [SchedNext]_schedVars => SchedInv'
<1>. SUFFICES ASSUME SchedInv, [SchedNext]_schedVars PROVE SchedInv'
  OBVIOUS
<1>1. ASSUME NEW n \in 1..Cardinality(Steps), PopReady(n) PROVE SchedInv'
  <2>1. n \in Nat
    BY StepsAssumption, FS_CardinalityType
  <2>. QED  BY <1>1, <2>1, PopReadyKeepsInv
<1>2. ASSUME NEW s \in Steps, state[s] = "dispatched", CompleteSuccess(s) PROVE SchedInv'
  BY <1>2, CompleteSuccessKeepsInv
<1>3. ASSUME NEW s \in Live, Skip(s) PROVE SchedInv'
  BY <1>3, SkipKeepsInv
<1>4. CASE UNCHANGED schedVars
  BY <1>4, StutterKeepsInv
<1>. QED  BY <1>1, <1>2, <1>3, <1>4 DEF SchedNext

(* The inductive invariant holds in every behaviour of the scheduler.      *)
THEOREM SchedulerInvariant == SchedSpec => []SchedInv
BY InitEstablishesInv, StepKeepsInv, PTL DEF SchedSpec

(* dag.go, CompleteSuccess: a step is handed out only after all of its     *)
(* parents completed, for every graph.                                     *)
THEOREM DependencyOrder == SchedSpec => []DependenciesFirst
<1>1. SchedInv => DependenciesFirst
  BY DEF SchedInv
<1>. QED  BY <1>1, SchedulerInvariant, PTL

(* dag.go, CompleteSuccess: the count of unresolved parents is exact.      *)
THEOREM CountsAreExact == SchedSpec => []PendingCounts
<1>1. SchedInv => PendingCounts
  BY DEF SchedInv
<1>. QED  BY <1>1, SchedulerInvariant, PTL

(* dag.go, HasWork: the coordinator's loop ends with every step decided.   *)
(* A waiting step in the last state would have a waiting parent, and so on *)
(* round a cycle that Build has excluded.                                  *)
THEOREM NobodyStranded == SchedSpec => []NothingStranded
<1>1. ASSUME SchedInv, ~HasWork PROVE \A s \in Steps : state[s] \in {"completed", "skipped"}
  <2>. DEFINE Waiting == {s \in Steps : state[s] = "pending"}
  <2>1. \A s \in Steps : state[s] \in {"pending", "completed", "skipped"}
    BY <1>1 DEF SchedInv, SchedTypeOK, NodeStates, HasWork, ReadyMatches
  <2>2. SUFFICES ASSUME Waiting # {} PROVE FALSE
    BY <2>1
  <2>3. PICK s \in Waiting : Parents(dependsOn, s) \cap Waiting = {}
    BY <1>1, <2>2 DEF SchedInv, Acyclic
  <2>4. ASSUME NEW p \in Parents(dependsOn, s) PROVE state[p] = "completed"
    <3>1. p \in Steps /\ state[p] \in {"completed", "skipped"}
      BY <2>1, <2>3, EdgesAreSteps
    <3>2. s \in Children(dependsOn, p)
      BY DEF Children
    <3>. QED  BY <1>1, <3>1, <3>2 DEF SchedInv, SkipCascades
  <2>5. OpenRefs(s) = {}
    BY <2>4, EdgesAreSteps DEF OpenRefs
  <2>6. pending[s] = 0
    BY <1>1, <2>5, FS_EmptySet DEF SchedInv, PendingCounts
  <2>. QED  BY <1>1, <2>6 DEF SchedInv, WaitingIsCounted
<1>2. SchedInv => NothingStranded
  BY <1>1 DEF NothingStranded
<1>. QED  BY <1>2, SchedulerInvariant, PTL

-----------------------------------------------------------------------------
(* StepOrder reads the same graph.                                         *)
LEMMA SameGraph ==
    /\ \A g : Order!Acyclic(g) <=> Acyclic(g)
    /\ \A g, c : Order!Parents(g, c) = Parents(g, c)
    /\ \A g, c : Order!Children(g, c) = Children(g, c)
<1>1. \A g, c : Order!Parents(g, c) = Parents(g, c)
  BY DEF Order!Parents, Order!ParentRefs, Parents, ParentRefs
<1>2. \A g, c : Order!Children(g, c) = Children(g, c)
  BY <1>1 DEF Order!Children, Children
<1>3. \A g : Order!Acyclic(g) <=> Acyclic(g)
  BY <1>1 DEF Order!Acyclic, Acyclic
<1>. QED  BY <1>1, <1>2, <1>3

(* Skip, walking only through live steps, misses no descendant of s except *)
(* those an earlier Skip has already marked.                               *)
LEMMA WalkFindsDescendants ==
    ASSUME SchedInv, NEW s \in Live
    PROVE  /\ CutOff(s) \subseteq Order!Descendants(dependsOn, s)
           /\ \A d \in Order!Descendants(dependsOn, s) :
                 d \in CutOff(s) \/ state[d] = "skipped"
<1>. DEFINE Known == CutOff(s) \cup {d \in Steps : state[d] = "skipped"}
<1>0. CutOff(s) \subseteq Live /\ Live \subseteq Steps /\ s \in Steps
  BY ReachedIsClosed DEF Live, CutOff
<1>1. ASSUME NEW D \in SUBSET Steps, Order!ClosedFrom(dependsOn, s, Steps, D)
      PROVE  ClosedFrom(dependsOn, s, Live, D)
  BY <1>0, <1>1, SameGraph DEF Order!ClosedFrom, ClosedFrom
<1>2. CutOff(s) \subseteq Order!Descendants(dependsOn, s)
  BY <1>1 DEF CutOff, ReachedThrough, Order!Descendants, Order!ReachedThrough
<1>3. ASSUME NEW p \in Known \cup {s}, NEW c \in Children(dependsOn, p)
      PROVE  c \in Known
  <2>1. c \in Steps /\ p \in Parents(dependsOn, c) /\ p \in Steps
    BY <1>0 DEF Children
  <2>2. CASE state[p] = "skipped"
    BY <1>3, <2>1, <2>2 DEF SchedInv, SkipCascades
  <2>3. CASE state[p] # "skipped"
    <3>1. p \in CutOff(s) \cup {s} /\ p \in Live
      BY <1>0, <1>3, <2>3
    <3>2. state[c] # "completed"
      BY <2>1, <3>1 DEF Live, SchedInv, DependenciesFirst
    <3>3. c \in Live => c \in CutOff(s)
      BY <1>0, <3>1, ReachedIsClosed DEF ClosedFrom, CutOff
    <3>. QED  BY <2>1, <3>2, <3>3 DEF Live
  <2>. QED  BY <2>2, <2>3
<1>4. Order!ClosedFrom(dependsOn, s, Steps, Known)
  <2>1. \A p \in Known \cup {s} : Children(dependsOn, p) \subseteq Known
    BY <1>3
  <2>. QED  BY <2>1, SameGraph DEF Order!ClosedFrom
<1>5. Known \in SUBSET Steps
  BY <1>0
<1>6. Order!Descendants(dependsOn, s) \subseteq Known
  BY <1>4, <1>5 DEF Order!Descendants, Order!ReachedThrough
<1>. QED  BY <1>2, <1>6

LEMMA InitRefines == SchedInit => Order!Init
<1>. SUFFICES ASSUME SchedInit PROVE Order!Init
  OBVIOUS
<1>1. \A s \in Steps : state[s] \in {"pending", "ready"}
  BY DEF SchedInit
<1>2. [s \in Steps |-> Progress(s)] = [s \in Steps |-> "waiting"]
  BY <1>1 DEF Progress
<1>3. dependsOn \in {g \in Graphs : Order!Acyclic(g)}
  BY SameGraph DEF SchedInit
<1>. QED  BY <1>2, <1>3 DEF Order!Init

LEMMA StepRefines == SchedInv /\ [SchedNext]_schedVars => [Order!Next]_(Order!orderVars)
<1>. SUFFICES ASSUME SchedInv, [SchedNext]_schedVars
              PROVE  [Order!Next]_(Order!orderVars)
  OBVIOUS
<1>. DEFINE prog == [s \in Steps |-> Progress(s)]
<1>1. ASSUME NEW n \in 1..Cardinality(Steps), PopReady(n)
      PROVE  Order!Start(FirstReady(n))
  <2>1. FirstReady(n) \subseteq {s \in Steps : state[s] = "ready"}
    BY DEF FirstReady, SchedInv, ReadyMatches
  <2>2. ASSUME NEW s \in FirstReady(n)
        PROVE  prog[s] = "waiting" /\ Order!ParentsSucceeded(s)
    <3>1. s \in Steps /\ state[s] = "ready"
      BY <2>1
    <3>2. \A p \in Parents(dependsOn, s) : p \in Steps /\ state[p] = "completed"
      BY <3>1, EdgesAreSteps DEF SchedInv, DependenciesFirst
    <3>3. \A p \in Parents(dependsOn, s) : prog[p] = "succeeded"
      BY <3>2 DEF Progress
    <3>. QED  BY <3>1, <3>3, SameGraph DEF Progress, Order!ParentsSucceeded
  <2>3. prog' = [s \in Steps |-> IF s \in FirstReady(n) THEN "started" ELSE prog[s]]
    <3>1. ASSUME NEW s \in Steps
          PROVE  Progress(s)' = IF s \in FirstReady(n) THEN "started" ELSE Progress(s)
      <4>1. state'[s] = IF s \in FirstReady(n) THEN "dispatched" ELSE state[s]
        BY <1>1 DEF PopReady
      <4>. QED  BY <4>1 DEF Progress
    <3>. QED  BY <3>1
  <2>4. dependsOn' = dependsOn
    BY <1>1 DEF PopReady
  <2>. QED  BY <2>2, <2>3, <2>4 DEF Order!Start
<1>2. ASSUME NEW s \in Steps, state[s] = "dispatched", CompleteSuccess(s)
      PROVE  Order!Succeed(s)
  <2>1. \A c \in Promoted(s) : state[c] = "pending"
    BY DEF Promoted
  <2>2. prog' = [prog EXCEPT ![s] = "succeeded"]
    <3>1. ASSUME NEW c \in Steps
          PROVE  Progress(c)' = IF c = s THEN "succeeded" ELSE Progress(c)
      <4>1. state'[c] = IF c = s THEN "completed"
                        ELSE IF c \in Promoted(s) THEN "ready" ELSE state[c]
        BY <1>2 DEF CompleteSuccess
      <4>. QED  BY <2>1, <4>1 DEF Progress
    <3>. QED  BY <3>1
  <2>3. prog[s] = "started"
    BY <1>2 DEF Progress
  <2>4. dependsOn' = dependsOn
    BY <1>2 DEF CompleteSuccess
  <2>. QED  BY <2>2, <2>3, <2>4 DEF Order!Succeed
<1>3. ASSUME NEW s \in Live, Skip(s)
      PROVE  Order!Abandon(s)
  <2>. DEFINE Gone == {s} \cup Order!Descendants(dependsOn, s)
  <2>1. s \in Steps /\ prog[s] \in {"waiting", "started"}
    BY DEF Live, Progress, SchedInv, SchedTypeOK, NodeStates
  <2>2. \A t \in Steps : state'[t] = (IF t \in {s} \cup CutOff(s) THEN "skipped" ELSE state[t])
    BY <1>3 DEF Skip
  <2>3. \A t \in Steps : state'[t] = (IF t \in Gone THEN "skipped" ELSE state[t])
    BY <2>2, WalkFindsDescendants
  <2>4. prog' = [t \in Steps |-> IF t \in Gone THEN "abandoned" ELSE prog[t]]
    <3>1. ASSUME NEW t \in Steps
          PROVE  Progress(t)' = IF t \in Gone THEN "abandoned" ELSE Progress(t)
      BY <2>3 DEF Progress
    <3>. QED  BY <3>1
  <2>5. dependsOn' = dependsOn
    BY <1>3 DEF Skip
  <2>. QED  BY <2>1, <2>4, <2>5 DEF Order!Abandon
<1>4. CASE UNCHANGED schedVars
  BY <1>4 DEF schedVars, Order!orderVars, Progress
<1>5. ASSUME NEW n \in 1..Cardinality(Steps), PopReady(n) PROVE Order!Next
  <2>1. FirstReady(n) \in SUBSET Steps
    BY DEF FirstReady, SchedInv, SchedTypeOK
  <2>. QED  BY <1>1, <1>5, <2>1 DEF Order!Next
<1>. QED  BY <1>2, <1>3, <1>4, <1>5 DEF SchedNext, Order!Next, Live

(* dag.go, Scheduler: for every graph, the counting scheduler implements   *)
(* StepOrder: steps start after their parents succeeded, and Skip abandons *)
(* every descendant of the failed step.                                    *)
THEOREM SchedulerImplementsStepOrder == SchedSpec => ImplementsStepOrder
<1>1. SchedSpec => Order!Init /\ [][Order!Next]_(Order!orderVars)
  BY InitRefines, StepRefines, SchedulerInvariant, PTL DEF SchedSpec
<1>. QED  BY <1>1 DEF ImplementsStepOrder, Order!Spec

-----------------------------------------------------------------------------
(***************************************************************************)
(* The executor.                                                           *)
(***************************************************************************)
WorkerStates == {"none", "spawned", "prompting", "confirmed", "running", "sent", "received"}
Idle         == {"none", "received"}

DagTypes ==
    /\ worker \in [Steps -> WorkerStates]
    /\ done \in Seq(Completions)
    /\ cancelled \in BOOLEAN
    /\ inFlight \in Nat

(* A completion in the channel comes from the worker that sent it last.    *)
FromItsWorker(c) ==
    /\ worker[c.step] = "sent"
    /\ HasResult(c) => c.step \in ran
    /\ c.outcome = "skip" => c.step \in Confirms \ ran

Channel ==
    /\ \A i \in DOMAIN done : FromItsWorker(done[i])
    /\ \A i, j \in DOMAIN done : done[i].step = done[j].step => i = j

(* The scheduler and the workers agree on who has been handed out.         *)
Handed ==
    \A s \in Steps :
        /\ worker[s] \notin Idle => state[s] = "dispatched"
        /\ state[s] = "dispatched" /\ ~cancelled => worker[s] \notin Idle
        /\ state[s] \in {"pending", "ready"} => worker[s] = "none"

Slotted == inFlight = Cardinality(Active) /\ inFlight <= MaxParallel

Places ==
    /\ at \in {"checks", "planPrompt", "rollback", "returned"} => Active = {}
    /\ at \in {"checks", "steps", "receive"} => ~cancelled
    /\ at = "drain" => cancelled
    /\ at = "receive" => inFlight > 0
    /\ phase = "COMPLETE" => at = "returned" /\ ~HasWork

(* A command that was started had its parents completed; a step that       *)
(* completed succeeded or was skipped at its gate.                         *)
Started ==
    /\ \A s \in Steps : worker[s] = "running" => s \in ran
    /\ \A s \in Steps : worker[s] = "prompting" => s \in Confirms
    /\ \A s \in ran : worker[s] \in {"running", "sent", "received"}
    /\ \A s \in ran : \A p \in Parents(dependsOn, s) : state[p] = "completed"
    /\ \A s \in Steps : state[s] = "completed" => s \in Succeeded \/ s \in Confirms \ ran

After(s, t) == s \in Descendants(dependsOn, t)

(* The stack holds a step before whatever depends on it.                   *)
Ordered ==
    /\ \A s \in ToSet(stack) : worker[s] = "received" /\ state[s] \in {"completed", "dispatched"}
    /\ \A i, j \in DOMAIN stack : i < j => ~After(stack[i], stack[j])
    /\ \A i, j \in DOMAIN plan : i < j => ~After(plan[i], plan[j])
    /\ \A i \in DOMAIN plan, j \in DOMAIN entries : ~After(plan[i], entries[j].step)
    /\ DependentsUndoneFirst

DagInv ==
    /\ SchedInv /\ EngineInv
    /\ DagTypes /\ Channel /\ Handed /\ Slotted /\ Places /\ Started /\ Ordered

-----------------------------------------------------------------------------
(***************************************************************************)
(* The graph and the scheduler.                                            *)
(***************************************************************************)

(* Whatever depends on a step that has not completed still waits, or was   *)
(* skipped.                                                                *)
LEMMA DescendantsWait ==
    ASSUME SchedInv, NEW s \in Steps, state[s] # "completed"
    PROVE  \A d \in Descendants(dependsOn, s) : state[d] \in {"pending", "skipped"}
<1>. DEFINE D == {d \in Steps : state[d] \in {"pending", "skipped"}}
<1>1. ASSUME NEW p \in D \cup {s}, NEW c \in Children(dependsOn, p) PROVE c \in D
  <2>1. c \in Steps /\ p \in Parents(dependsOn, c) /\ state[p] # "completed"
    BY <1>1 DEF Children
  <2>2. state[c] \notin {"ready", "dispatched", "completed"}
    BY <2>1 DEF SchedInv, DependenciesFirst
  <2>. QED  BY <2>1, <2>2 DEF SchedInv, SchedTypeOK, NodeStates
<1>2. ClosedFrom(dependsOn, s, Steps, D)
  BY <1>1 DEF ClosedFrom
<1>. QED  BY <1>2 DEF Descendants, ReachedThrough

LEMMA CutOffWaits ==
    ASSUME SchedInv, NEW s \in Steps, state[s] # "completed"
    PROVE  \A d \in CutOff(s) : d \in Steps /\ state[d] = "pending"
<1>. DEFINE D == {d \in Live : state[d] = "pending"}
<1>0. Live \subseteq Steps
  BY DEF Live
<1>1. ASSUME NEW p \in D \cup {s}, NEW c \in Children(dependsOn, p) \cap Live PROVE c \in D
  <2>1. c \in Steps /\ p \in Parents(dependsOn, c) /\ state[p] # "completed"
    BY <1>1 DEF Children
  <2>2. state[c] \notin {"ready", "dispatched", "completed"}
    BY <2>1 DEF SchedInv, DependenciesFirst
  <2>. QED  BY <1>1, <2>1, <2>2 DEF Live, SchedInv, SchedTypeOK, NodeStates
<1>2. ClosedFrom(dependsOn, s, Live, D) /\ D \in SUBSET Steps
  BY <1>0, <1>1 DEF ClosedFrom
<1>. QED  BY <1>0, <1>2 DEF CutOff, ReachedThrough

(* PopReady hands out between one and n ready steps, whatever n is.        *)
LEMMA HandedOut ==
    ASSUME SchedInv, NEW n \in Nat, n > 0, ready # {}
    PROVE  /\ FirstReady(n) \subseteq ready /\ FirstReady(n) # {}
           /\ IsFiniteSet(FirstReady(n)) /\ Cardinality(FirstReady(n)) <= n
           /\ PopReady(n) => SchedNext
<1>1. ready \in SUBSET Int /\ ready \in SUBSET Steps /\ IsFiniteSet(ready)
  BY StepsAssumption, FS_Subset DEF SchedInv, SchedTypeOK
<1>2. \A m : FirstReady(m) = First(ready, m)
  BY DEF FirstReady, First, Rank
<1>3. /\ FirstReady(n) \subseteq ready /\ FirstReady(n) # {}
      /\ IsFiniteSet(FirstReady(n)) /\ Cardinality(FirstReady(n)) <= n
  <2>1. FirstReady(n) \subseteq ready
    BY DEF FirstReady
  <2>. QED  BY <1>1, <1>2, <2>1, FirstFacts
<1>4. ASSUME PopReady(n) PROVE SchedNext
  <2>. DEFINE c == Cardinality(Steps)
  <2>1. c \in Nat /\ c > 0 /\ c >= Cardinality(ready) /\ Cardinality(ready) \in Nat
    <3>1. c \in Nat /\ Cardinality(ready) \in Nat
      BY <1>1, StepsAssumption, FS_CardinalityType
    <3>2. Cardinality(ready) <= c /\ Cardinality(ready) # 0
      BY <1>1, StepsAssumption, FS_EmptySet, FS_Subset
    <3>. QED  BY <3>1, <3>2
  <2>. HIDE DEF c
  <2>2. CASE n <= c
    BY <1>4, <2>1, <2>2 DEF SchedNext, c
  <2>3. CASE ~(n <= c)
    <3>1. n >= Cardinality(ready)
      BY <2>1, <2>3
    <3>2. FirstReady(n) = ready /\ FirstReady(c) = ready
      BY <1>1, <1>2, <2>1, <3>1, FirstFacts
    <3>3. PopReady(c)
      BY <1>4, <2>1, <3>2 DEF PopReady
    <3>4. c \in 1..c
      BY <2>1
    <3>. QED  BY <3>3, <3>4 DEF SchedNext, c
  <2>. QED  BY <2>2, <2>3
<1>. QED  BY <1>3, <1>4

LEMMA SchedStepKeepsInv == ASSUME SchedInv, [SchedNext]_schedVars PROVE SchedInv'
BY StepKeepsInv

-----------------------------------------------------------------------------
(***************************************************************************)
(* The channel and the count of workers.                                   *)
(***************************************************************************)
LEMMA ActiveIsFinite ==
    /\ IsFiniteSet(Active) /\ Active \subseteq Steps
    /\ Cardinality(Active) \in Nat
    /\ Cardinality(Active) = 0 <=> Active = {}
<1>1. Active \in SUBSET Steps
  BY DEF Active
<1>2. IsFiniteSet(Active)
  BY <1>1, StepsAssumption, FS_Subset
<1>. QED  BY <1>1, <1>2, FS_CardinalityType, FS_EmptySet

(* Every completion in the channel is that of another worker.              *)
LEMMA ChannelFits ==
    ASSUME DagTypes, Channel
    PROVE  /\ Len(done) <= Cardinality(Active)
           /\ Active = {} => done = <<>>
           /\ \A s \in Active : worker[s] # "sent" => Len(done) < Cardinality(Active)
<1>. DEFINE Sent == {s \in Steps : worker[s] = "sent"}
            f == [i \in 1..Len(done) |-> done[i].step]
<1>1. DOMAIN done = 1..Len(done) /\ Len(done) \in Nat
  BY LenProperties DEF DagTypes
<1>2. \A i \in 1..Len(done) : done[i].step \in Steps
  <2>1. \A i \in 1..Len(done) : done[i] \in Completions
    BY ElementOfSeq DEF DagTypes
  <2>. QED  BY <2>1 DEF Completions, Completion
<1>3. f \in Injection(1..Len(done), Sent)
  <2>1. \A i \in 1..Len(done) : done[i].step \in Sent
    BY <1>1, <1>2 DEF Channel, FromItsWorker
  <2>2. \A i, j \in 1..Len(done) : done[i].step = done[j].step => i = j
    BY <1>1 DEF Channel
  <2>. QED  BY <2>1, <2>2 DEF Injection, IsInjective
<1>. HIDE DEF f
<1>4. Sent \in SUBSET Active
  BY DEF Active
<1>5. IsFiniteSet(Sent) /\ Cardinality(Sent) <= Cardinality(Active)
        /\ (Cardinality(Active) = Cardinality(Sent) => Active = Sent) /\ Cardinality(Sent) \in Nat
  BY <1>4, ActiveIsFinite, FS_Subset, FS_CardinalityType
<1>. HIDE DEF Sent
<1>6. Len(done) <= Cardinality(Sent)
  <2>1. Cardinality(1..Len(done)) <= Cardinality(Sent)
    BY <1>3, <1>5, FS_Injection
  <2>2. Cardinality(1..Len(done)) = Len(done)
    <3>1. 1 \in Int /\ Len(done) \in Int
      BY <1>1
    <3>2. Cardinality(1..Len(done)) = IF 1 > Len(done) THEN 0 ELSE Len(done) - 1 + 1
      BY <3>1, FS_Interval
    <3>. QED  BY <1>1, <3>2
  <2>. QED  BY <2>1, <2>2
<1>7. Active = {} => done = <<>>
  <2>1. Active = {} => Len(done) = 0
    BY <1>1, <1>5, <1>6, ActiveIsFinite
  <2>. QED  BY <2>1, EmptySeq DEF DagTypes
<1>8. ASSUME NEW s \in Active, worker[s] # "sent" PROVE Len(done) < Cardinality(Active)
  <2>1. Active # Sent
    BY <1>8 DEF Sent
  <2>. QED  BY <1>1, <1>5, <1>6, <2>1, ActiveIsFinite
<1>. QED  BY <1>1, <1>5, <1>6, <1>7, <1>8, ActiveIsFinite

(* A worker answers: it stays one of the workers in flight.                *)
LEMMA SendFacts ==
    ASSUME DagTypes, Channel, NEW s \in Steps, worker[s] \notin Idle, worker[s] # "sent",
           NEW o \in Outcomes, Send(s, o), UNCHANGED ran,
           o \in CommandOutcomes => s \in ran,
           o = "skip" => s \in Confirms \ ran
    PROVE  Channel' /\ done' \in Seq(Completions)
<1>. DEFINE c == Completion(s, o)
<1>1. c \in Completions /\ c.step = s /\ c.outcome = o
  BY DEF Completions, Completion
<1>2. done' = Append(done, c) /\ worker' = [worker EXCEPT ![s] = "sent"]
  BY DEF Send
<1>. HIDE DEF c
<1>3. /\ done' \in Seq(Completions) /\ Len(done') = Len(done) + 1 /\ Len(done) \in Nat
      /\ \A i \in 1..Len(done) : done'[i] = done[i]
      /\ done'[Len(done) + 1] = c
  BY <1>1, <1>2, AppendProperties, LenProperties DEF DagTypes
<1>4. DOMAIN done = 1..Len(done) /\ DOMAIN done' = 1..Len(done) + 1
  BY <1>3, LenProperties DEF DagTypes
<1>5. \A i \in 1..Len(done) + 1 : i \in 1..Len(done) \/ i = Len(done) + 1
  BY <1>3
<1>6. \A i \in 1..Len(done) : done[i].step # s /\ FromItsWorker(done[i])
  BY <1>4 DEF Channel, FromItsWorker
<1>7. worker'[s] = "sent" /\ \A t : t # s => worker'[t] = worker[t]
  BY <1>2 DEF DagTypes
<1>10. ASSUME NEW i \in DOMAIN done' PROVE FromItsWorker(done[i])'
  <2>1. CASE i \in 1..Len(done)
    <3>1. done'[i] = done[i] /\ done[i].step # s /\ FromItsWorker(done[i]) /\ ran' = ran
      BY <1>3, <1>6, <2>1
    <3>2. worker'[done[i].step] = worker[done[i].step]
      BY <1>7, <3>1
    <3>. QED  BY <3>1, <3>2 DEF FromItsWorker, HasResult
  <2>2. CASE i = Len(done) + 1
    <3>1. done'[i] = c /\ worker'[c.step] = "sent" /\ ran' = ran
      BY <1>1, <1>3, <1>7, <2>2
    <3>. QED  BY <1>1, <3>1 DEF FromItsWorker, HasResult
  <2>. QED  BY <1>4, <1>5, <2>1, <2>2
<1>11. \A i, j \in DOMAIN done' : done'[i].step = done'[j].step => i = j
  BY <1>1, <1>3, <1>4, <1>5, <1>6 DEF Channel
<1>. QED  BY <1>3, <1>10, <1>11 DEF Channel

(* c := <-done: one worker less in flight, and the others as they were.    *)
LEMMA TakeFacts ==
    ASSUME DagTypes, Channel, Slotted, NEW c, Take(c), UNCHANGED ran
    PROVE  /\ c \in Completions /\ c.step \in Steps /\ c.outcome \in Outcomes
           /\ FromItsWorker(c) /\ c.step \in Active
           /\ worker' \in [Steps -> WorkerStates] /\ worker'[c.step] = "received"
           /\ \A s \in Steps : s # c.step => worker'[s] = worker[s]
           /\ done' \in Seq(Completions) /\ inFlight' \in Nat
           /\ Channel' /\ Slotted' /\ Active' = Active \ {c.step}
<1>1. /\ done # <<>> /\ c = Head(done) /\ done' = Tail(done) /\ inFlight' = inFlight - 1
      /\ worker' = [worker EXCEPT ![c.step] = "received"]
  BY DEF Take
<1>2. /\ Len(done) \in Nat \ {0} /\ DOMAIN done = 1..Len(done) /\ c = done[1]
      /\ \A i \in 1..Len(done) : done[i] \in Completions
  BY <1>1, EmptySeq, LenProperties, ElementOfSeq DEF DagTypes
<1>3. /\ done' \in Seq(Completions) /\ Len(done') = Len(done) - 1
      /\ \A i \in 1..Len(done) - 1 : done'[i] = done[i + 1]
  <2>1. /\ Tail(done) \in Seq(Completions) /\ Len(Tail(done)) = Len(done) - 1
        /\ \A i \in 1..Len(Tail(done)) : Tail(done)[i] = done[i + 1]
    BY <1>1, HeadTailProperties DEF DagTypes
  <2>. QED  BY <1>1, <2>1
<1>4. DOMAIN done' = 1..Len(done) - 1
  BY <1>3, LenProperties
<1>5. c \in Completions /\ c.step \in Steps /\ c.outcome \in Outcomes
  <2>1. 1 \in 1..Len(done)
    BY <1>2
  <2>2. c \in Completions
    BY <1>2, <2>1
  <2>. QED  BY <2>2 DEF Completions, Completion
<1>6. FromItsWorker(c)
  <2>1. 1 \in DOMAIN done
    BY <1>2
  <2>. QED  BY <1>2, <2>1 DEF Channel
<1>7. /\ worker' \in [Steps -> WorkerStates] /\ worker'[c.step] = "received"
      /\ \A s \in Steps : s # c.step => worker'[s] = worker[s]
  BY <1>1, <1>5 DEF DagTypes, WorkerStates
<1>8. c.step \in Active
  BY <1>5, <1>6 DEF FromItsWorker, Active
<1>9. Active' = Active \ {c.step}
  BY <1>5, <1>7 DEF Active
<1>10. Slotted' /\ inFlight' \in Nat
  <2>1. Cardinality(Active') = Cardinality(Active) - 1 /\ Cardinality(Active) \in Nat
    BY <1>8, <1>9, ActiveIsFinite, FS_RemoveElement
  <2>2. Cardinality(Active) # 0
    BY <1>8, ActiveIsFinite
  <2>. QED  BY <1>1, <2>1, <2>2, MaxParallelAssumption DEF Slotted, Active
<1>11. \A i \in 1..Len(done) - 1 : i + 1 \in DOMAIN done /\ i + 1 # 1
  BY <1>2
<1>12. ASSUME NEW i \in DOMAIN done' PROVE FromItsWorker(done[i])'
  <2>1. done'[i] = done[i + 1] /\ FromItsWorker(done[i + 1]) /\ done[i + 1].step # c.step
    <3>1. 1 \in DOMAIN done
      BY <1>2
    <3>. QED  BY <1>2, <1>3, <1>4, <1>11, <3>1 DEF Channel
  <2>2. done[i + 1].step \in Steps
    BY <1>2, <1>4, <1>11 DEF Completions, Completion
  <2>3. worker'[done[i + 1].step] = worker[done[i + 1].step]
    BY <1>7, <2>1, <2>2
  <2>. QED  BY <2>1, <2>3 DEF FromItsWorker, HasResult
<1>13. ASSUME NEW i \in DOMAIN done', NEW j \in DOMAIN done', done'[i].step = done'[j].step
       PROVE  i = j
  <2>1. done[i + 1].step = done[j + 1].step
    BY <1>3, <1>4, <1>13
  <2>2. i + 1 = j + 1
    BY <1>4, <1>11, <2>1 DEF Channel
  <2>. QED  BY <1>2, <1>4, <2>2
<1>14. Channel'
  BY <1>12, <1>13 DEF Channel
<1>. QED  BY <1>3, <1>5, <1>6, <1>7, <1>8, <1>9, <1>10, <1>14

-----------------------------------------------------------------------------
(***************************************************************************)
(* The order of the stack.                                                 *)
(***************************************************************************)
LEMMA SameOrder ==
    ASSUME Ordered, UNCHANGED <<dependsOn, stack, plan, entries>>,
           \A s \in ToSet(stack) : worker'[s] = "received" /\ state'[s] \in {"completed", "dispatched"}
    PROVE  Ordered'
BY DEF Ordered, After, DependentsUndoneFirst

(* The last to finish is on top: nothing below it depends on it.           *)
LEMMA PushKeepsOrder ==
    ASSUME SchedInv, Ordered, stack \in Seq(Steps),
           UNCHANGED <<dependsOn, plan, entries>>,
           NEW s \in Steps, state[s] = "dispatched", stack' = Pushed(s),
           worker'[s] = "received", state'[s] \in {"completed", "dispatched"},
           \A t \in ToSet(stack) : worker'[t] = "received" /\ state'[t] \in {"completed", "dispatched"}
    PROVE  Ordered'
<1>1. CASE s \notin HasRollback
  BY <1>1, SameOrder DEF Pushed
<1>2. CASE s \in HasRollback
  <2>1. stack' = Append(stack, s)
    BY <1>2 DEF Pushed
  <2>2. /\ Len(stack) \in Nat /\ Len(stack') = Len(stack) + 1
        /\ \A i \in 1..Len(stack) : stack'[i] = stack[i]
        /\ stack'[Len(stack) + 1] = s
        /\ DOMAIN stack = 1..Len(stack) /\ DOMAIN stack' = 1..Len(stack) + 1
    BY <2>1, AppendProperties, LenProperties
  <2>3. ToSet(stack') = ToSet(stack) \cup {s}
    BY <2>1, AppendFacts
  <2>4. \A i \in 1..Len(stack) : ~After(stack[i], s)
    <3>1. \A i \in 1..Len(stack) : state[stack[i]] \in {"completed", "dispatched"}
      BY <2>2 DEF Ordered, ToSet
    <3>. QED  BY <3>1, DescendantsWait DEF After
  <2>5. ASSUME NEW i \in DOMAIN stack', NEW j \in DOMAIN stack', i < j
        PROVE  ~After(stack'[i], stack'[j])
    <3>1. i \in 1..Len(stack)
      BY <2>2, <2>5
    <3>2. CASE j \in 1..Len(stack)
      BY <2>2, <2>5, <3>1, <3>2 DEF Ordered
    <3>3. CASE j = Len(stack) + 1
      BY <2>2, <2>4, <3>1, <3>3
    <3>. QED  BY <2>2, <3>2, <3>3
  <2>. QED  BY <2>3, <2>5 DEF Ordered, After, DependentsUndoneFirst
<1>. QED  BY <1>1, <1>2

(* Execute's plan is the stack.                                            *)
LEMMA PlanKeepsOrder ==
    ASSUME EngineInv, Ordered, ~Over(at), NEW t, Execute(t), UNCHANGED dependsOn
    PROVE  Ordered'
<1>1. plan' = stack /\ stack' = <<>> /\ entries' = <<>>
  BY DEF Execute, StackAfterExecute, EngineInv, TakeTurns, Over
<1>2. ToSet(stack') = {} /\ DOMAIN stack' = {} /\ DOMAIN entries' = {}
  BY <1>1, EmptyFacts
<1>. QED  BY <1>1, <1>2 DEF Ordered, After, DependentsUndoneFirst

(* The block that runs belongs to the last of the plan.                    *)
LEMMA BlockKeepsOrder ==
    ASSUME EngineInv, Ordered, NEW o \in CommandOutcomes, RunRollbackBlock(o),
           UNCHANGED <<dependsOn, worker, state>>
    PROVE  Ordered'
<1>. DEFINE e == Entry(Last(plan), o)
<1>1. /\ plan # <<>> /\ plan' = Front(plan) /\ entries' = Append(entries, e) /\ stack' = stack
      /\ plan \in Seq(Steps) /\ entries \in Seq(Reports)
  BY DEF RunRollbackBlock, PlanAfter, EngineInv, RunTypes
<1>2. /\ Len(plan) \in Nat \ {0} /\ Len(plan') = Len(plan) - 1 /\ plan' \in Seq(Steps)
      /\ \A i \in 1..Len(plan) - 1 : plan'[i] = plan[i]
      /\ Last(plan) \in Steps
  BY <1>1, FrontFacts
<1>3. e \in Reports /\ e.step = plan[Len(plan)]
  BY <1>2 DEF Entry, Reports, Last
<1>. HIDE DEF e
<1>4. /\ Len(entries) \in Nat /\ entries' \in Seq(Reports) /\ Len(entries') = Len(entries) + 1
      /\ \A i \in 1..Len(entries) : entries'[i] = entries[i]
      /\ entries'[Len(entries) + 1] = e
  BY <1>1, <1>3, AppendProperties, LenProperties
<1>5. /\ DOMAIN plan = 1..Len(plan) /\ DOMAIN plan' = 1..Len(plan) - 1
      /\ DOMAIN entries = 1..Len(entries) /\ DOMAIN entries' = 1..Len(entries) + 1
  BY <1>1, <1>2, <1>4, LenProperties
<1>6. \A i \in DOMAIN plan' : i \in DOMAIN plan /\ i < Len(plan) /\ plan'[i] = plan[i]
  BY <1>2, <1>5
<1>7. Len(plan) \in DOMAIN plan
  BY <1>2, <1>5
<1>8. \A i \in DOMAIN entries' : i \in DOMAIN entries \/ i = Len(entries) + 1
  BY <1>4, <1>5
<1>9. ASSUME NEW i \in DOMAIN plan', NEW j \in DOMAIN plan', i < j PROVE ~After(plan'[i], plan'[j])
  BY <1>6, <1>9 DEF Ordered
<1>10. ASSUME NEW i \in DOMAIN plan', NEW j \in DOMAIN entries' PROVE ~After(plan'[i], entries'[j].step)
  <2>1. CASE j \in DOMAIN entries
    BY <1>4, <1>5, <1>6, <2>1 DEF Ordered
  <2>2. CASE j = Len(entries) + 1
    BY <1>3, <1>4, <1>6, <1>7, <2>2 DEF Ordered
  <2>. QED  BY <1>8, <2>1, <2>2
<1>11. ASSUME NEW i \in DOMAIN entries', NEW j \in DOMAIN entries', i < j
       PROVE  ~After(entries'[j].step, entries'[i].step)
  <2>1. i \in DOMAIN entries
    BY <1>4, <1>5, <1>11
  <2>2. CASE j \in DOMAIN entries
    BY <1>4, <1>5, <1>11, <2>1, <2>2 DEF Ordered, DependentsUndoneFirst, After
  <2>3. CASE j = Len(entries) + 1
    BY <1>3, <1>4, <1>5, <1>7, <2>1, <2>3 DEF Ordered
  <2>. QED  BY <1>8, <2>2, <2>3
<1>. QED  BY <1>1, <1>9, <1>10, <1>11 DEF Ordered, After, DependentsUndoneFirst

(* The stack is dropped or kept, and the report is as it was.              *)
LEMMA NoPushKeepsOrder ==
    ASSUME Ordered, stack' \in {stack, <<>>}, UNCHANGED <<dependsOn, worker, state, plan, entries>>
    PROVE  Ordered'
<1>1. CASE stack' = stack
  BY <1>1, SameOrder DEF Ordered
<1>2. CASE stack' = <<>>
  <2>1. ToSet(stack') = {} /\ DOMAIN stack' = {}
    BY <1>2, EmptyFacts
  <2>. QED  BY <2>1 DEF Ordered, After, DependentsUndoneFirst
<1>. QED  BY <1>1, <1>2

-----------------------------------------------------------------------------
(***************************************************************************)
(* Each action keeps the invariant, is a step of the contract or stutters, *)
(* and follows the scheduler's protocol.                                   *)
(***************************************************************************)
DagKept == DagInv' /\ ContractStep /\ [SchedNext]_schedVars

LEMMA InitIsDag == Init => DagInv /\ Contract!Init
<1>. SUFFICES ASSUME Init PROVE DagInv /\ Contract!Init
  OBVIOUS
<1>1. SchedInv /\ EngineInv /\ Contract!Init
  BY InitEstablishesInv, EngineInit, ContractInit DEF Init
<1>2. /\ \A s \in Steps : worker[s] = "none" /\ state[s] \in {"pending", "ready"}
      /\ worker \in [Steps -> WorkerStates]
      /\ done = <<>> /\ inFlight = 0 /\ cancelled = FALSE
      /\ at = "checks" /\ stack = <<>> /\ plan = <<>> /\ entries = <<>> /\ ran = {}
  BY DEF Init, SchedInit, RunInit, WorkerStates
<1>3. Active = {}
  BY <1>2 DEF Active
<1>4. DagTypes /\ Channel
  <2>1. DOMAIN done = {} /\ done \in Seq(Completions)
    BY <1>2, EmptySeq
  <2>2. inFlight \in Nat /\ cancelled \in BOOLEAN
    BY <1>2
  <2>. QED  BY <1>2, <2>1, <2>2 DEF DagTypes, Channel
<1>5. Handed
  BY <1>2 DEF Handed, Idle
<1>6. Slotted /\ Places
  BY <1>2, <1>3, FS_EmptySet, MaxParallelAssumption DEF Slotted, Places, Init, RunInit
<1>7. Started
  BY <1>2 DEF Started
<1>8. Ordered
  BY <1>2, EmptyFacts DEF Ordered, DependentsUndoneFirst
<1>. QED  BY <1>1, <1>4, <1>5, <1>6, <1>7, <1>8 DEF DagInv

(* A worker goes on: from its spawn to its prompt, its command, its answer.*)
LEMMA WorkerMoves ==
    ASSUME DagInv, NEW s \in Steps, NEW w \in {"prompting", "confirmed", "running", "sent"},
           worker[s] \notin Idle, worker' = [worker EXCEPT ![s] = w],
           UNCHANGED workerOnly, Channel', done' \in Seq(Completions),
           w = "prompting" => s \in Confirms,
           s \in ran => w = "sent",
           ran' = IF w = "running" THEN ran \cup {s} ELSE ran
    PROVE  DagKept
<1>1. /\ UNCHANGED schedVars /\ UNCHANGED <<dependsOn, state>>
      /\ UNCHANGED <<at, phase, status, results, inFlight, cancelled>>
      /\ UNCHANGED engineVars /\ UNCHANGED <<stack, plan, entries>>
  BY DEF workerOnly, schedVars, engineVars
<1>2. /\ SchedInv /\ EngineInv /\ DagTypes /\ Handed /\ Slotted /\ Places /\ Started /\ Ordered
      /\ state[s] = "dispatched" /\ s \in Active
  BY DEF DagInv, Handed, Active, Idle
<1>3. worker'[s] = w /\ w \notin Idle /\ \A t \in Steps : t # s => worker'[t] = worker[t]
  BY <1>2 DEF DagTypes, Idle
<1>4. ~Over(at) /\ ~Over(at')
  BY <1>1, <1>2 DEF Places, Over
<1>5. SchedInv'
  BY <1>1, <1>2, StutterKeepsInv
<1>6. EngineInv' /\ ContractStep
  <2>1. CASE w = "running"
    <3>1. results' \in Seq(Reports) /\ Succeeded' = Succeeded
      BY <1>1, <1>2 DEF EngineInv, RunTypes, Succeeded
    <3>2. ran \subseteq ran' /\ ran' \subseteq Steps
      BY <1>2, <2>1 DEF EngineInv, RunTypes
    <3>3. EngineInv'
      BY <1>1, <1>2, <1>4, <3>1, <3>2, HistoryGrows
    <3>4. ContractStep
      BY <1>1, <1>4, <2>1, ContractStart
    <3>. QED  BY <3>3, <3>4
  <2>2. CASE w # "running"
    BY <1>1, <1>2, <2>2, EngineUntouched, ContractUntouched
  <2>. QED  BY <2>1, <2>2
<1>7. DagTypes'
  BY <1>1, <1>2 DEF DagTypes, WorkerStates
<1>8. Handed'
  BY <1>1, <1>2, <1>3 DEF Handed
<1>9. Active' = Active
  BY <1>2, <1>3 DEF Active, Idle
<1>10. Slotted' /\ Places'
  BY <1>1, <1>2, <1>9 DEF Slotted, Places, HasWork
<1>11. Started'
  <2>1. \A t \in Steps : worker'[t] = "running" => t \in ran'
    BY <1>2, <1>3 DEF Started
  <2>2. \A t \in Steps : worker'[t] = "prompting" => t \in Confirms
    BY <1>2, <1>3 DEF Started
  <2>3. \A t \in ran' : worker'[t] \in {"running", "sent", "received"}
    BY <1>2, <1>3 DEF Started, EngineInv, RunTypes
  <2>4. \A t \in ran' : \A p \in Parents(dependsOn, t) : state[p] = "completed"
    <3>1. \A p \in Parents(dependsOn, s) : state[p] = "completed"
      BY <1>2 DEF SchedInv, DependenciesFirst
    <3>. QED  BY <1>2, <3>1 DEF Started
  <2>5. \A t \in Steps : state[t] = "completed" => t \in Succeeded' \/ t \in Confirms \ ran'
    <3>1. Succeeded' = Succeeded
      BY <1>1 DEF Succeeded
    <3>. QED  BY <1>2, <3>1 DEF Started
  <2>. QED  BY <1>1, <2>1, <2>2, <2>3, <2>4, <2>5 DEF Started
<1>12. Ordered'
  <2>1. s \notin ToSet(stack)
    BY <1>2 DEF Ordered, Idle, Active
  <2>2. ToSet(stack) \subseteq Steps
    BY <1>2 DEF EngineInv, RunTypes, Listed
  <2>3. \A t \in ToSet(stack) : worker'[t] = "received" /\ state'[t] \in {"completed", "dispatched"}
    BY <1>1, <1>2, <1>3, <2>1, <2>2 DEF Ordered
  <2>. QED  BY <1>1, <1>2, <2>3, SameOrder
<1>. QED
  BY <1>1, <1>5, <1>6, <1>7, <1>8, <1>10, <1>11, <1>12 DEF DagKept, DagInv

LEMMA WorkerIsKept ==
    ASSUME DagInv, NEW s \in Steps, Worker(s)
    PROVE  DagKept
<1>0. DagTypes /\ Channel /\ Started
  BY DEF DagInv
<1>2. ASSUME NEW w, worker' = [worker EXCEPT ![s] = w], UNCHANGED done, ran \subseteq ran',
             ran' \subseteq ran \cup {s}, worker[s] # "sent"
      PROVE  Channel' /\ done' \in Seq(Completions)
  <2>1. \A c \in Completions : FromItsWorker(c) => c.step # s /\ c.step \in Steps
    BY <1>2 DEF FromItsWorker, Completions, Completion
  <2>2. \A i \in DOMAIN done : done[i] \in Completions /\ FromItsWorker(done[i])
    BY <1>0, LenProperties, ElementOfSeq DEF DagTypes, Channel
  <2>3. ASSUME NEW i \in DOMAIN done PROVE FromItsWorker(done[i])'
    <3>1. FromItsWorker(done[i]) /\ done[i].step # s /\ done'[i] = done[i]
      BY <1>2, <2>1, <2>2
    <3>2. worker'[done[i].step] = worker[done[i].step]
      BY <1>0, <1>2, <2>1, <2>2, <3>1 DEF DagTypes
    <3>. QED  BY <1>2, <3>1, <3>2 DEF FromItsWorker, HasResult
  <2>. QED  BY <1>0, <1>2, <2>3 DEF Channel, DagTypes
<1>3. worker[s] \in {"spawned", "prompting", "confirmed"} => s \notin ran
  BY <1>0 DEF Started
<1>4. CASE TakePrompt(s)
  <2>1. /\ worker[s] = "spawned" /\ worker' = [worker EXCEPT ![s] = "prompting"] /\ s \in Confirms
        /\ UNCHANGED workerOnly /\ UNCHANGED done /\ ran' = ran
    BY <1>4 DEF TakePrompt, Prompts
  <2>. QED  BY <1>2, <1>3, <2>1, WorkerMoves DEF Idle
<1>5. CASE StartCommand(s)
  <2>1. /\ worker[s] \in {"spawned", "confirmed"} /\ worker' = [worker EXCEPT ![s] = "running"]
        /\ UNCHANGED workerOnly /\ UNCHANGED done /\ ran' = ran \cup {s}
    BY <1>5 DEF StartCommand, MayStart
  <2>. QED  BY <1>2, <1>3, <2>1, WorkerMoves DEF Idle
<1>6. ASSUME NEW o \in Outcomes, Send(s, o), UNCHANGED workerOnly, UNCHANGED ran,
             worker[s] \in {"spawned", "prompting", "confirmed", "running"},
             o \in CommandOutcomes => s \in ran,
             o = "skip" => s \in Confirms \ ran
      PROVE  DagKept
  <2>1. Channel' /\ done' \in Seq(Completions)
    BY <1>0, <1>6, SendFacts DEF Idle
  <2>2. worker' = [worker EXCEPT ![s] = "sent"] /\ worker[s] \notin Idle
    BY <1>6 DEF Send, Idle
  <2>. QED  BY <1>6, <2>1, <2>2, WorkerMoves
<1>7. CASE StartError(s)
  BY <1>6, <1>7 DEF StartError, MayStart, Outcomes, CommandOutcomes
<1>8. ASSUME NEW o \in Outcomes \cup {"yes"}, AnswerGate(s, o) PROVE DagKept
  <2>1. worker[s] = "prompting" /\ s \in Confirms /\ s \notin ran /\ UNCHANGED workerOnly /\ ran' = ran
    BY <1>0, <1>3, <1>8 DEF AnswerGate, Started
  <2>2. CASE worker' = [worker EXCEPT ![s] = "confirmed"] /\ UNCHANGED done
    BY <1>2, <2>1, <2>2, WorkerMoves DEF Idle
  <2>3. CASE o \in {"skip", "abort", "denied"} /\ Send(s, o)
    BY <1>6, <2>1, <2>3 DEF Outcomes, CommandOutcomes
  <2>. QED  BY <1>8, <2>2, <2>3 DEF AnswerGate
<1>9. ASSUME NEW o \in Outcomes, EndCommand(s, o) PROVE DagKept
  <2>1. worker[s] = "running" /\ s \in ran
    BY <1>0, <1>9 DEF EndCommand, Started
  <2>. QED  BY <1>6, <1>9, <2>1 DEF EndCommand, CommandOutcomes
<1>. QED  BY <1>4, <1>5, <1>7, <1>8, <1>9 DEF Worker

(* The coordinator looks for an interrupt, and cancels on one.             *)
LEMMA PollIsKept == ASSUME DagInv, Poll PROVE DagKept
<1>1. /\ at = "steps" /\ at' = "drain" /\ cancelled' = TRUE
      /\ UNCHANGED schedVars /\ UNCHANGED <<phase, status, results, ran>> /\ UNCHANGED engineVars
      /\ UNCHANGED <<worker, done, inFlight>>
  BY DEF Poll, CancelAndDrain
<1>2. UNCHANGED <<dependsOn, state, stack, plan, entries>>
  BY <1>1 DEF schedVars, engineVars
<1>3. SchedInv' /\ EngineInv' /\ ContractStep
  BY <1>1, <1>2, StutterKeepsInv, EngineUntouched, ContractUntouched DEF DagInv, Over
<1>4. DagTypes' /\ Channel'
  BY <1>1 DEF DagInv, DagTypes, Channel, FromItsWorker, HasResult
<1>5. Handed' /\ Slotted' /\ Places'
  BY <1>1, <1>2 DEF DagInv, Handed, Slotted, Places, Active
<1>6. Started'
  BY <1>1, <1>2 DEF DagInv, Started, Succeeded
<1>7. Ordered'
  BY <1>1, <1>2, NoPushKeepsOrder DEF DagInv
<1>. QED  BY <1>1, <1>3, <1>4, <1>5, <1>6, <1>7 DEF DagKept, DagInv

(* The free slots are filled; the coordinator then has someone to wait     *)
(* for, so it does not take the exit for inFlight = 0.                     *)
LEMMA DispatchIsKept == ASSUME DagInv, Dispatch PROVE DagKept
<1>0. /\ SchedInv /\ EngineInv /\ DagTypes /\ Channel /\ Handed /\ Slotted /\ Places /\ Started /\ Ordered
      /\ HasWork /\ at = "steps" /\ ~cancelled
  BY DEF DagInv, Dispatch, Places
<1>1. /\ UNCHANGED <<results, ran, done, cancelled>> /\ phase # "COMPLETE"
      /\ UNCHANGED <<stack, plan, entries>>
      /\ inFlight' # 0 => at' = "receive" /\ UNCHANGED <<phase, status>> /\ UNCHANGED engineVars
  BY <1>0 DEF Dispatch, Complete, Return, engineVars, Places
<1>2. ASSUME at' = "receive", UNCHANGED <<phase, status>>, UNCHANGED engineVars
      PROVE  EngineInv' /\ ContractStep
  BY <1>0, <1>1, <1>2, EngineUntouched, ContractUntouched DEF Over, engineVars
<1>3. CASE Slots > 0 /\ ready # {}
  <2>. DEFINE F == FirstReady(Slots)
  <2>1. /\ PopReady(Slots)
        /\ worker' = [s \in Steps |-> IF s \in F THEN "spawned" ELSE worker[s]]
        /\ inFlight' = inFlight + Cardinality(F)
    BY <1>3 DEF Dispatch
  <2>2. Slots \in Nat /\ inFlight \in Nat /\ Slots = MaxParallel - inFlight /\ MaxParallel \in Nat
    BY <1>0, <1>3, MaxParallelAssumption DEF Slots, DagTypes
  <2>3. /\ F \subseteq ready /\ F # {} /\ IsFiniteSet(F) /\ Cardinality(F) <= Slots
        /\ SchedNext
    BY <1>0, <1>3, <2>1, <2>2, HandedOut
  <2>4. /\ UNCHANGED dependsOn
        /\ \A s \in Steps : state'[s] = (IF s \in F THEN "dispatched" ELSE state[s])
    BY <2>1 DEF PopReady
  <2>. HIDE DEF F
  <2>5. \A s \in F : s \in Steps /\ state[s] = "ready" /\ worker[s] = "none"
    BY <1>0, <2>3 DEF SchedInv, ReadyMatches, Handed
  <2>6. SchedInv'
    BY <1>0, <2>3, SchedStepKeepsInv
  <2>7. Active' = Active \cup F /\ Active \cap F = {}
    BY <2>1, <2>5 DEF Active
  <2>8. Slotted' /\ inFlight' \in Nat /\ inFlight' > 0
    <3>1. Cardinality(Active') = Cardinality(Active) + Cardinality(F) - Cardinality(Active \cap F)
      BY <2>3, <2>7, ActiveIsFinite, FS_Union
    <3>2. Cardinality(Active \cap F) = 0 /\ Cardinality(F) \in Nat /\ Cardinality(F) # 0
      BY <2>3, <2>7, FS_EmptySet, FS_CardinalityType
    <3>3. Cardinality(Active) = inFlight
      BY <1>0 DEF Slotted
    <3>4. inFlight' = Cardinality(Active') /\ inFlight' \in Nat /\ inFlight' > 0
      BY <2>1, <2>2, <3>1, <3>2, <3>3
    <3>5. inFlight' <= MaxParallel
      BY <2>1, <2>2, <2>3, <3>2
    <3>. QED  BY <3>4, <3>5 DEF Slotted, Active
  <2>9. DagTypes'
    BY <1>0, <1>1, <2>1, <2>8 DEF DagTypes, WorkerStates
  <2>10. Channel'
    <3>1. ASSUME NEW i \in DOMAIN done PROVE FromItsWorker(done[i])'
      <4>1. FromItsWorker(done[i]) /\ done[i] \in Completions
        BY <1>0, LenProperties, ElementOfSeq DEF Channel, DagTypes
      <4>2. done[i].step \in Steps /\ done[i].step \notin F
        BY <2>5, <4>1 DEF FromItsWorker, Completions, Completion
      <4>. QED  BY <1>1, <2>1, <4>1, <4>2 DEF FromItsWorker, HasResult
    <3>. QED  BY <1>0, <1>1, <3>1 DEF Channel
  <2>11. Handed'
    BY <1>0, <1>1, <2>1, <2>4, <2>5 DEF Handed, Idle
  <2>12. Places' /\ EngineInv' /\ ContractStep
    BY <1>0, <1>1, <1>2, <2>8 DEF Places
  <2>13. Started'
    <3>1. \A s \in ran : s \notin F /\ s \in Steps
      BY <1>0, <2>5 DEF Started, EngineInv, RunTypes
    <3>2. Succeeded' = Succeeded
      BY <1>1 DEF Succeeded
    <3>3. \A s \in Steps : state'[s] = "completed" <=> state[s] = "completed"
      BY <2>4, <2>5
    <3>4. \A s \in Steps : Parents(dependsOn, s) \subseteq Steps
      BY EdgesAreSteps
    <3>. QED  BY <1>0, <1>1, <2>1, <2>4, <3>1, <3>2, <3>3, <3>4 DEF Started
  <2>14. Ordered'
    <3>1. \A t \in ToSet(stack) : t \in Steps /\ t \notin F
      BY <1>0, <2>5 DEF Ordered, EngineInv, RunTypes, Listed
    <3>. QED  BY <1>0, <1>1, <2>1, <2>4, <3>1, SameOrder DEF Ordered
  <2>. QED
    BY <2>3, <2>6, <2>8, <2>9, <2>10, <2>11, <2>12, <2>13, <2>14 DEF DagKept, DagInv
<1>4. CASE ~(Slots > 0 /\ ready # {})
  <2>1. UNCHANGED schedVars /\ UNCHANGED <<worker, inFlight>> /\ UNCHANGED <<dependsOn, state>>
    BY <1>4 DEF Dispatch, schedVars
  <2>2. inFlight > 0
    <3>1. inFlight \in Nat /\ MaxParallel \in Nat /\ MaxParallel > 1 /\ Slots = MaxParallel - inFlight
      BY <1>0, MaxParallelAssumption DEF DagTypes, Slots
    <3>2. CASE ready = {}
      <4>1. Active # {}
        BY <1>0, <3>2 DEF HasWork, Handed, Active, Idle
      <4>. QED  BY <1>0, <3>1, <4>1, ActiveIsFinite DEF Slotted
    <3>. QED  BY <1>4, <3>1, <3>2
  <2>3. SchedInv'
    BY <1>0, <2>1, StutterKeepsInv
  <2>4. DagTypes' /\ Channel'
    BY <1>0, <1>1, <2>1 DEF DagTypes, Channel, FromItsWorker, HasResult
  <2>5. Handed' /\ Slotted' /\ Places' /\ EngineInv' /\ ContractStep
    <3>1. inFlight' > 0 /\ inFlight' # 0
      BY <1>0, <2>1, <2>2 DEF DagTypes
    <3>2. Handed' /\ Slotted' /\ Active' = Active
      BY <1>0, <1>1, <2>1 DEF Handed, Slotted, Active
    <3>. QED  BY <1>0, <1>1, <1>2, <3>1, <3>2 DEF Places
  <2>6. Started'
    BY <1>0, <1>1, <2>1 DEF Started, Succeeded
  <2>7. Ordered'
    BY <1>0, <1>1, <2>1, NoPushKeepsOrder
  <2>. QED  BY <2>1, <2>3, <2>4, <2>5, <2>6, <2>7 DEF DagKept, DagInv
<1>. QED  BY <1>3, <1>4

(* What is left to show once a completion has been taken from the channel. *)
LEMMA TakenIsKept ==
    ASSUME DagInv, NEW c, Take(c), UNCHANGED <<ran, phase>>, at \in {"receive", "drain"},
           [SchedNext]_schedVars, UNCHANGED <<dependsOn, plan, entries>>,
           EngineInv', ContractStep,
           cancelled' \in BOOLEAN, cancelled => cancelled',
           at' \in {"steps", "drain"}, at' = "steps" => ~cancelled', at' = "drain" => cancelled',
           \A s \in Steps : s # c.step /\ state[s] = "dispatched" => state'[s] = "dispatched",
           \A s \in Steps : state'[s] = "dispatched" => state[s] = "dispatched",
           ~cancelled' => state'[c.step] # "dispatched",
           \A s \in Steps : state'[s] \in {"pending", "ready"} => state[s] \in {"pending", "ready"},
           \A s \in Steps : state[s] = "completed" => state'[s] = "completed",
           \A s \in Steps : state'[s] = "completed" /\ s # c.step => state[s] = "completed",
           state'[c.step] = "completed" => c.step \in Succeeded' \/ c.step \in Confirms \ ran,
           Succeeded \subseteq Succeeded',
           stack' = stack \/ (stack' = Pushed(c.step) /\ state'[c.step] \in {"completed", "dispatched"})
    PROVE  DagKept
<1>0. /\ SchedInv /\ EngineInv /\ DagTypes /\ Channel /\ Handed /\ Slotted /\ Places /\ Started /\ Ordered
  BY DEF DagInv
<1>1. /\ c.step \in Steps /\ worker[c.step] = "sent" /\ c.step \in Active
      /\ worker' \in [Steps -> WorkerStates] /\ worker'[c.step] = "received"
      /\ \A s \in Steps : s # c.step => worker'[s] = worker[s]
      /\ done' \in Seq(Completions) /\ inFlight' \in Nat
      /\ Channel' /\ Slotted' /\ Active' = Active \ {c.step}
  BY <1>0, TakeFacts DEF FromItsWorker
<1>2. state[c.step] = "dispatched"
  BY <1>0, <1>1 DEF Handed, Idle
<1>3. SchedInv'
  BY <1>0, SchedStepKeepsInv
<1>4. DagTypes'
  BY <1>1 DEF DagTypes
<1>5. Handed'
  BY <1>0, <1>1, <1>2 DEF Handed, Idle
<1>6. Places'
  BY <1>0 DEF Places
<1>7. Started'
  <2>1. \A s \in Steps : worker'[s] \in {"running", "prompting"} => worker'[s] = worker[s] /\ s # c.step
    BY <1>1
  <2>2. \A s \in ran : worker'[s] \in {"running", "sent", "received"}
    BY <1>0, <1>1 DEF Started, EngineInv, RunTypes
  <2>3. \A s \in ran : \A p \in Parents(dependsOn, s) : state'[p] = "completed"
    <3>1. \A s \in ran : s \in Steps /\ Parents(dependsOn, s) \subseteq Steps
      BY <1>0, EdgesAreSteps DEF EngineInv, RunTypes
    <3>. QED  BY <1>0, <3>1 DEF Started
  <2>4. \A s \in Steps : state'[s] = "completed" => s \in Succeeded' \/ s \in Confirms \ ran
    BY <1>0 DEF Started
  <2>5. \A s \in Steps : (worker'[s] = "running" => s \in ran) /\ (worker'[s] = "prompting" => s \in Confirms)
    BY <1>0, <2>1 DEF Started
  <2>6. ran' = ran /\ dependsOn' = dependsOn
    OBVIOUS
  <2>. QED  BY <2>2, <2>3, <2>4, <2>5, <2>6 DEF Started
<1>8. Ordered'
  <2>1. \A t \in ToSet(stack) : t \in Steps /\ t # c.step
    BY <1>0, <1>1 DEF Ordered, EngineInv, RunTypes, Listed
  <2>2. \A t \in ToSet(stack) : worker'[t] = "received" /\ state'[t] \in {"completed", "dispatched"}
    BY <1>0, <1>1, <2>1 DEF Ordered
  <2>3. CASE stack' = stack
    BY <1>0, <2>2, <2>3, SameOrder
  <2>4. CASE stack' = Pushed(c.step) /\ state'[c.step] \in {"completed", "dispatched"}
    BY <1>0, <1>1, <1>2, <2>2, <2>4, PushKeepsOrder DEF EngineInv, RunTypes
  <2>. QED  BY <2>3, <2>4
<1>. QED
  BY <1>1, <1>3, <1>4, <1>5, <1>6, <1>7, <1>8 DEF DagKept, DagInv

(* The scheduler's part of a completion: the step and its promoted children*)
LEMMA CompletedStates ==
    ASSUME SchedInv, NEW s \in Steps, state[s] = "dispatched", CompleteSuccess(s)
    PROVE  /\ SchedNext /\ UNCHANGED dependsOn /\ state'[s] = "completed"
           /\ \A t \in Steps : t # s =>
                 state'[t] = state[t] \/ (state[t] = "pending" /\ state'[t] = "ready")
BY DEF SchedNext, CompleteSuccess, Promoted

LEMMA SkippedStates ==
    ASSUME SchedInv, NEW s \in Steps, state[s] = "dispatched", Skip(s)
    PROVE  /\ SchedNext /\ UNCHANGED dependsOn /\ state'[s] = "skipped"
           /\ \A t \in Steps : t # s =>
                 state'[t] = state[t] \/ (state[t] = "pending" /\ state'[t] = "skipped")
<1>1. s \in Live
  BY DEF Live
<1>2. \A d \in CutOff(s) : state[d] = "pending"
  BY CutOffWaits
<1>. QED  BY <1>1, <1>2 DEF SchedNext, Skip

LEMMA ReceiveIsKept ==
    ASSUME DagInv, NEW c, Receive(c)
    PROVE  DagKept
<1>0. /\ SchedInv /\ EngineInv /\ DagTypes /\ Channel /\ Handed /\ Slotted /\ Places /\ Started /\ Ordered
  BY DEF DagInv
<1>1. at = "receive" /\ Take(c) /\ UNCHANGED <<ran, phase>> /\ ~cancelled /\ ~Over(at)
  BY <1>0 DEF Receive, ReceiveSkip, ReceiveSuccess, ReceiveFailure, ReceiveStop, Places, Over
<1>2. /\ c \in Completions /\ c.step \in Steps /\ c.outcome \in Outcomes
      /\ FromItsWorker(c) /\ c.step \in Active /\ worker[c.step] = "sent"
  BY <1>0, <1>1, TakeFacts DEF FromItsWorker
<1>3. state[c.step] = "dispatched"
  BY <1>0, <1>2 DEF Handed, Idle
<1>4. c.step \notin ToSet(stack)
  BY <1>0, <1>2 DEF Ordered
<1>5. ASSUME CompleteSuccess(c.step), EngineInv', UNCHANGED <<plan, entries, cancelled>>,
             at' = "steps", ContractStep, Succeeded \subseteq Succeeded',
             c.step \in Succeeded' \/ c.step \in Confirms \ ran,
             stack' = stack \/ stack' = Pushed(c.step)
      PROVE  DagKept
  <2>1. /\ SchedNext /\ UNCHANGED dependsOn /\ state'[c.step] = "completed"
        /\ \A t \in Steps : t # c.step =>
              state'[t] = state[t] \/ (state[t] = "pending" /\ state'[t] = "ready")
    BY <1>0, <1>2, <1>3, <1>5, CompletedStates
  <2>2. \A t \in Steps :
           /\ t # c.step /\ state[t] = "dispatched" => state'[t] = "dispatched"
           /\ state'[t] = "dispatched" => state[t] = "dispatched"
           /\ state'[t] \in {"pending", "ready"} => state[t] \in {"pending", "ready"}
           /\ state[t] = "completed" => state'[t] = "completed"
           /\ state'[t] = "completed" /\ t # c.step => state[t] = "completed"
    BY <1>3, <2>1
  <2>. QED  BY <1>0, <1>1, <1>5, <2>1, <2>2, TakenIsKept DEF DagTypes
<1>6. CASE ReceiveSkip(c)
  <2>1. /\ CompleteSuccess(c.step) /\ at' = "steps" /\ c.outcome = "skip"
        /\ UNCHANGED <<phase, status, results, cancelled>> /\ UNCHANGED engineVars
        /\ UNCHANGED <<stack, plan, entries>>
    BY <1>6 DEF ReceiveSkip, engineVars
  <2>2. EngineInv' /\ ContractStep
    BY <1>0, <1>1, <2>1, EngineUntouched, ContractUntouched DEF Over
  <2>3. Succeeded' = Succeeded
    BY <2>1 DEF Succeeded
  <2>4. c.step \in Confirms \ ran
    BY <1>2, <2>1 DEF FromItsWorker
  <2>. QED  BY <1>5, <2>1, <2>2, <2>3, <2>4
<1>7. CASE ReceiveSuccess(c)
  <2>1. /\ CompleteSuccess(c.step) /\ at' = "steps" /\ c.outcome = "success"
        /\ results' = Recorded(c.step, "success") /\ stack' = Pushed(c.step)
        /\ UNCHANGED <<phase, status, plan, entries, trigger, cancelled>>
    BY <1>7 DEF ReceiveSuccess
  <2>2. c.step \in ran /\ "success" \in CommandOutcomes
    BY <1>2, <2>1 DEF FromItsWorker, HasResult, CommandOutcomes
  <2>3. EngineInv'
    BY <1>0, <1>1, <1>2, <1>4, <2>1, <2>2, ResultIsPushed DEF Over
  <2>4. ContractStep
    BY <1>1, <2>1, ContractUntouched DEF Over
  <2>5. Succeeded' = Succeeded \cup {c.step}
    BY <1>0, <1>2, <2>1, <2>2, ResultsGrow DEF EngineInv, RunTypes
  <2>. QED  BY <1>5, <2>1, <2>3, <2>4, <2>5
<1>8. CASE ReceiveFailure(c)
  <2>1. /\ Skip(c.step) /\ at' = "drain" /\ cancelled' = TRUE /\ c.outcome \in {"failed", "timeout"}
        /\ results' = Recorded(c.step, c.outcome)
        /\ UNCHANGED <<phase, status>> /\ UNCHANGED engineVars /\ UNCHANGED <<stack, plan, entries>>
    BY <1>8 DEF ReceiveFailure, CancelAndDrain, engineVars
  <2>2. results' \in Seq(Reports) /\ Succeeded' = Succeeded
    BY <1>0, <1>2, <2>1, ResultsGrow DEF EngineInv, RunTypes, CommandOutcomes
  <2>3. EngineInv'
    BY <1>0, <1>1, <2>1, <2>2, HistoryGrows DEF Over, EngineInv, RunTypes
  <2>4. ContractStep
    BY <1>1, <2>1, ContractUntouched DEF Over
  <2>5. /\ SchedNext /\ UNCHANGED dependsOn /\ state'[c.step] = "skipped"
        /\ \A t \in Steps : t # c.step =>
              state'[t] = state[t] \/ (state[t] = "pending" /\ state'[t] = "skipped")
    BY <1>0, <1>2, <1>3, <2>1, SkippedStates
  <2>6. \A t \in Steps :
           /\ t # c.step /\ state[t] = "dispatched" => state'[t] = "dispatched"
           /\ state'[t] = "dispatched" => state[t] = "dispatched"
           /\ state'[t] \in {"pending", "ready"} => state[t] \in {"pending", "ready"}
           /\ state[t] = "completed" => state'[t] = "completed"
           /\ state'[t] = "completed" /\ t # c.step => state[t] = "completed"
    BY <1>3, <2>5
  <2>. QED  BY <1>1, <2>1, <2>2, <2>3, <2>4, <2>5, <2>6, TakenIsKept
<1>9. CASE ReceiveStop(c)
  <2>1. /\ UNCHANGED schedVars /\ UNCHANGED <<dependsOn, state>> /\ at' = "drain" /\ cancelled' = TRUE
        /\ UNCHANGED <<phase, status, results>> /\ UNCHANGED engineVars /\ UNCHANGED <<stack, plan, entries>>
    BY <1>9 DEF ReceiveStop, CancelAndDrain, engineVars, schedVars
  <2>2. EngineInv' /\ ContractStep
    BY <1>0, <1>1, <2>1, EngineUntouched, ContractUntouched DEF Over
  <2>3. Succeeded' = Succeeded
    BY <2>1 DEF Succeeded
  <2>. QED  BY <1>1, <1>3, <2>1, <2>2, <2>3, TakenIsKept
<1>. QED  BY <1>6, <1>7, <1>8, <1>9 DEF Receive

(* drainInFlight: a result that arrives late is recorded and its step      *)
(* pushed; the scheduler is not told.                                      *)
LEMMA DrainIsKept ==
    ASSUME DagInv, NEW c, Drain(c)
    PROVE  DagKept
<1>0. /\ SchedInv /\ EngineInv /\ DagTypes /\ Channel /\ Handed /\ Slotted /\ Places /\ Started /\ Ordered
  BY DEF DagInv
<1>1. /\ at = "drain" /\ at' = "drain" /\ Take(c) /\ UNCHANGED ran /\ ~Over(at) /\ cancelled /\ cancelled'
      /\ UNCHANGED schedVars /\ UNCHANGED <<dependsOn, state>>
      /\ UNCHANGED <<phase, status, plan, entries, trigger, cancelled>>
      /\ results' = IF HasResult(c) THEN Recorded(c.step, c.outcome) ELSE results
      /\ stack' = IF HasResult(c) THEN Pushed(c.step) ELSE stack
  BY <1>0 DEF Drain, StackAfterDrain, Places, Over, schedVars
<1>2. /\ c.step \in Steps /\ FromItsWorker(c) /\ c.step \in Active /\ worker[c.step] = "sent"
  BY <1>0, <1>1, TakeFacts DEF FromItsWorker
<1>3. state[c.step] = "dispatched"
  BY <1>0, <1>2 DEF Handed, Idle
<1>4. ContractStep
  BY <1>1, ContractUntouched
<1>5. EngineInv' /\ Succeeded \subseteq Succeeded'
  <2>1. CASE HasResult(c)
    <3>1. c.step \notin ToSet(stack) /\ c.step \in ran /\ c.outcome \in CommandOutcomes
      BY <1>0, <1>2, <2>1 DEF Ordered, FromItsWorker, HasResult
    <3>2. EngineInv'
      BY <1>0, <1>1, <1>2, <2>1, <3>1, ResultIsPushed DEF Over
    <3>3. Succeeded \subseteq Succeeded'
      BY <1>0, <1>1, <1>2, <2>1, <3>1, ResultsGrow DEF EngineInv, RunTypes
    <3>. QED  BY <3>2, <3>3
  <2>2. CASE ~HasResult(c)
    <3>1. UNCHANGED <<results, stack>> /\ UNCHANGED engineVars
      BY <1>1, <2>2 DEF engineVars
    <3>2. Succeeded' = Succeeded
      BY <3>1 DEF Succeeded
    <3>. QED  BY <1>0, <1>1, <3>1, <3>2, EngineUntouched
  <2>. QED  BY <2>1, <2>2
<1>6. stack' = stack \/ stack' = Pushed(c.step)
  BY <1>1
<1>. QED  BY <1>0, <1>1, <1>3, <1>4, <1>5, <1>6, TakenIsKept DEF DagTypes

-----------------------------------------------------------------------------
(***************************************************************************)
(* The steps of the run that are not the scheduler's or the workers'.      *)
(***************************************************************************)
EarlyOut ==
    \/ \E a \in Actions : HandleSignal(a)
    \/ Quit \/ DeclineConfirm \/ HandleStepFailure
    \/ Fail("internal_error") \/ Fail("check_failed")

WayOut == EarlyOut \/ Complete

LEMMA WayOutKeepsOrder ==
    ASSUME EngineInv, Ordered, ~Over(at), WayOut, UNCHANGED <<dependsOn, worker, state>>
    PROVE  Ordered' /\ at' \in {"planPrompt", "rollback", "returned"}
<1>1. ASSUME NEW t, Execute(t) PROVE Ordered' /\ at' \in {"planPrompt", "rollback", "returned"}
  <2>1. Ordered'
    BY <1>1, PlanKeepsOrder
  <2>. QED  BY <1>1, <2>1 DEF Execute
<1>2. ASSUME NEW st, NEW ph, Return(st, ph)
      PROVE  Ordered' /\ at' \in {"planPrompt", "rollback", "returned"}
  <2>1. UNCHANGED <<stack, plan, entries>> /\ at' = "returned"
    BY <1>2 DEF Return, engineVars
  <2>. QED  BY <2>1, NoPushKeepsOrder
<1>3. ASSUME NEW t, OfferRollback(t)
      PROVE  Ordered' /\ at' \in {"planPrompt", "rollback", "returned"}
  <2>1. UNCHANGED <<stack, plan, entries>> /\ at' = "planPrompt"
    BY <1>3 DEF OfferRollback
  <2>. QED  BY <2>1, NoPushKeepsOrder
<1>. QED
  BY <1>1, <1>2, <1>3
  DEF WayOut, EarlyOut, HandleSignal, Quit, DeclineConfirm, HandleStepFailure, Complete, Fail

(* What is left to show when neither the scheduler nor a worker moves.     *)
LEMMA EngineMoves ==
    ASSUME DagInv, UNCHANGED schedVars, UNCHANGED dagVars, UNCHANGED <<results, ran>>,
           Kept, Ordered',
           at' \in {"checks", "planPrompt", "rollback", "returned"} => Active = {},
           at' \in {"checks", "steps"} => ~cancelled,
           at' \in {"drain", "receive"} => at' = at,
           phase' = "COMPLETE" => at' = "returned" /\ ~HasWork
    PROVE  DagKept
<1>0. UNCHANGED <<worker, done, inFlight, cancelled>> /\ UNCHANGED <<dependsOn, state, ready>>
  BY DEF dagVars, schedVars
<1>1. SchedInv' /\ EngineInv' /\ ContractStep
  BY StutterKeepsInv DEF DagInv, Kept
<1>2. DagTypes' /\ Channel'
  BY <1>0 DEF DagInv, DagTypes, Channel, FromItsWorker, HasResult
<1>3. Handed' /\ Slotted'
  BY <1>0 DEF DagInv, Handed, Slotted, Active
<1>4. Places'
  <2>1. Active' = Active /\ cancelled' = cancelled /\ inFlight' = inFlight /\ HasWork' = HasWork
    BY <1>0 DEF Active, HasWork
  <2>2. Places
    BY DEF DagInv
  <2>. QED  BY <2>1, <2>2 DEF Places
<1>5. Started'
  BY <1>0 DEF DagInv, Started, Succeeded
<1>. QED  BY <1>1, <1>2, <1>3, <1>4, <1>5 DEF DagKept, DagInv

LEMMA WayOutIsKept ==
    ASSUME DagInv, UNCHANGED schedVars, UNCHANGED dagVars, UNCHANGED <<results, ran>>,
           ~Over(at), Active = {}, EarlyOut \/ (Complete /\ ~HasWork)
    PROVE  DagKept
<1>0. EngineInv /\ Ordered /\ Places /\ UNCHANGED <<dependsOn, worker, state>>
  BY DEF DagInv, schedVars, dagVars
<1>1. results' \in Seq(Reports) /\ Succeeded' = Succeeded
  BY <1>0 DEF Succeeded, EngineInv, RunTypes
<1>2. Kept
  BY <1>0, <1>1, WaysOutAreKept DEF EarlyOut
<1>3. Ordered' /\ at' \in {"planPrompt", "rollback", "returned"}
  BY <1>0, WayOutKeepsOrder DEF WayOut
<1>4. phase' = "COMPLETE" => at' = "returned" /\ ~HasWork
  <2>1. phase # "COMPLETE"
    BY <1>0 DEF Places, Over
  <2>. QED
    BY <2>1 DEF EarlyOut, HandleSignal, Execute, Quit, DeclineConfirm, OfferRollback,
                HandleStepFailure, Complete, Fail, Return
<1>. QED  BY <1>2, <1>3, <1>4, EngineMoves

(* The loop ends with every step resolved, so with every worker received.  *)
LEMMA FinishIsKept == ASSUME DagInv, Finish PROVE DagKept
<1>1. /\ at = "steps" /\ ~HasWork /\ Complete
      /\ UNCHANGED schedVars /\ UNCHANGED dagVars /\ UNCHANGED <<results, ran>>
  BY DEF Finish
<1>2. Active = {}
  BY <1>1 DEF DagInv, Handed, HasWork, Active, Idle
<1>. QED  BY <1>1, <1>2, WayOutIsKept DEF Over

(* The drain ends when as many completions have come as were owed.         *)
LEMMA EndRunIsKept == ASSUME DagInv, EndRun PROVE DagKept
<1>1. /\ at = "drain" /\ inFlight = 0
      /\ UNCHANGED schedVars /\ UNCHANGED dagVars /\ UNCHANGED <<results, ran>>
  BY DEF EndRun, Drained
<1>2. Active = {}
  BY <1>1, ActiveIsFinite DEF DagInv, Slotted
<1>3. EarlyOut
  <2>1. HandleSignal(ending.action) => ending.action \in Actions
    BY DEF HandleSignal, Actions
  <2>. QED  BY <2>1 DEF EndRun, EarlyOut
<1>. QED  BY <1>1, <1>2, <1>3, WayOutIsKept DEF Over

LEMMA SharedIsKept == ASSUME DagInv, Shared PROVE DagKept
<1>0. /\ EngineInv /\ Ordered /\ Places /\ RunStep
      /\ UNCHANGED schedVars /\ UNCHANGED dagVars /\ UNCHANGED <<dependsOn, worker, state>>
  BY DEF DagInv, Shared, schedVars, dagVars
<1>1. Kept
  BY <1>0, RunStepIsKept
<1>2. ASSUME NEW o \in CommandOutcomes \cup {"error"}, RunCheck(o) PROVE DagKept
  <2>1. at = "checks" /\ Active = {} /\ ~cancelled /\ ~Over(at) /\ UNCHANGED <<results, ran>>
    BY <1>0, <1>2 DEF RunCheck, Places, Over
  <2>2. CASE CheckPasses
    <3>1. at' = "checks" /\ UNCHANGED <<stack, plan, entries>> /\ phase' # "COMPLETE"
      BY <1>0, <2>1, <2>2 DEF CheckPasses, engineVars, Places
    <3>. QED  BY <1>0, <1>1, <2>1, <3>1, NoPushKeepsOrder, EngineMoves
  <2>3. CASE Fail("check_failed") \/ Fail("internal_error")
    BY <1>0, <2>1, <2>3, WayOutIsKept DEF EarlyOut
  <2>. QED  BY <1>2, <2>2, <2>3 DEF RunCheck
<1>3. CASE PollInChecks
  <2>1. at = "checks" /\ Active = {} /\ ~Over(at) /\ UNCHANGED <<results, ran>> /\ HandleSignal(action)
    BY <1>0, <1>3 DEF PollInChecks, Places, Over
  <2>2. action \in Actions
    BY <2>1 DEF HandleSignal, Actions
  <2>. QED  BY <1>0, <2>1, <2>2, WayOutIsKept DEF EarlyOut
<1>4. CASE DispatchSteps
  <2>1. at = "checks" /\ at' = "steps" /\ phase' = "RUNNING" /\ ~cancelled /\ UNCHANGED <<results, ran, stack, plan, entries>>
    BY <1>0, <1>4 DEF DispatchSteps, Places, engineVars
  <2>. QED  BY <1>0, <1>1, <2>1, NoPushKeepsOrder, EngineMoves
<1>5. ASSUME NEW yes \in BOOLEAN, AnswerPlan(yes) PROVE DagKept
  <2>1. at = "planPrompt" /\ Active = {} /\ ~Over(at) /\ UNCHANGED <<results, ran>>
    BY <1>0, <1>5 DEF AnswerPlan, Places, Over
  <2>2. CASE yes
    <3>1. Execute(trigger) /\ at' = "rollback" /\ phase' = "ROLLING_BACK"
      BY <1>5, <2>2 DEF AnswerPlan, Execute
    <3>. QED  BY <1>0, <1>1, <2>1, <3>1, PlanKeepsOrder, EngineMoves
  <2>3. CASE ~yes
    <3>1. at' = "returned" /\ stack' = <<>> /\ UNCHANGED <<plan, entries>> /\ phase' # "COMPLETE"
      BY <1>0, <1>5, <2>1, <2>3 DEF AnswerPlan, Places
    <3>. QED  BY <1>0, <1>1, <2>1, <3>1, NoPushKeepsOrder, EngineMoves
  <2>. QED  BY <2>2, <2>3
<1>6. ASSUME NEW o \in CommandOutcomes, RunRollbackBlock(o) PROVE DagKept
  <2>1. at = "rollback" /\ at' = at /\ phase' # "COMPLETE" /\ Active = {} /\ UNCHANGED <<results, ran>>
    BY <1>0, <1>6 DEF RunRollbackBlock, Places
  <2>. QED  BY <1>0, <1>1, <1>6, <2>1, BlockKeepsOrder, EngineMoves
<1>7. CASE FinishRollback
  <2>1. at = "rollback" /\ at' = "returned" /\ phase' # "COMPLETE" /\ Active = {} /\ UNCHANGED <<results, ran, stack, plan, entries>>
    BY <1>0, <1>7 DEF FinishRollback, Return, Places, engineVars
  <2>. QED  BY <1>0, <1>1, <2>1, NoPushKeepsOrder, EngineMoves
<1>. QED  BY <1>0, <1>2, <1>3, <1>4, <1>5, <1>6, <1>7 DEF RunStep

(* Ctrl+C writes in the mailbox alone.                                     *)
LEMMA OperatorIsKept ==
    ASSUME DagInv, Operator, UNCHANGED <<schedVars, dagVars>>
    PROVE  DagKept
<1>1. UNCHANGED <<at, phase, status, engineVars, results, ran>> /\ UNCHANGED <<stack, plan, entries>>
  BY DEF Operator, Interrupt, engineVars
<1>2. EngineInv /\ Ordered /\ Places /\ UNCHANGED <<dependsOn, worker, state>>
      /\ UNCHANGED schedVars /\ UNCHANGED dagVars
  BY DEF DagInv, schedVars, dagVars
<1>3. Kept
  BY <1>2, InterruptIsKept
<1>4. Ordered'
  BY <1>1, <1>2, NoPushKeepsOrder
<1>. QED  BY <1>1, <1>2, <1>3, <1>4, EngineMoves DEF Places

LEMMA StutterIsKept == ASSUME DagInv, UNCHANGED vars PROVE DagKept
<1>1. UNCHANGED <<at, phase, status, engineVars, results, ran>> /\ UNCHANGED <<stack, plan, entries>>
      /\ UNCHANGED schedVars /\ UNCHANGED dagVars /\ UNCHANGED <<dependsOn, worker, state>>
  BY DEF vars, runVars, schedVars, dagVars, engineVars
<1>2. EngineInv /\ Ordered /\ Places
  BY DEF DagInv
<1>3. Kept
  BY <1>1, <1>2, EngineUntouched, ContractUntouched DEF Kept
<1>4. Ordered'
  BY <1>1, <1>2, NoPushKeepsOrder
<1>. QED  BY <1>1, <1>2, <1>3, <1>4, EngineMoves DEF Places

LEMMA DagStepIsKept == DagInv /\ [Next]_vars => DagKept
<1>. SUFFICES ASSUME DagInv, [Next]_vars PROVE DagKept
  OBVIOUS
<1>1. CASE Coordinator
  BY <1>1, FinishIsKept, PollIsKept, DispatchIsKept, EndRunIsKept, ReceiveIsKept, DrainIsKept
  DEF Coordinator
<1>2. ASSUME NEW s \in Steps, Worker(s) PROVE DagKept
  BY <1>2, WorkerIsKept
<1>. QED  BY <1>1, <1>2, SharedIsKept, OperatorIsKept, StutterIsKept DEF Next

-----------------------------------------------------------------------------
(* executeStepsDAG keeps its count of workers, the scheduler, the workers  *)
(* and the rollback engine in step, however the workers' answers,          *)
(* failures and interrupts fall.                                           *)
THEOREM DagInvariant == Spec => []DagInv
<1>1. Init => DagInv
  BY InitIsDag
<1>2. DagInv /\ [Next]_vars => DagInv'
  BY DagStepIsKept DEF DagKept
<1>. QED  BY <1>1, <1>2, PTL DEF Spec

(* inFlight of executeStepsDAG is the number of workers whose completion   *)
(* is still to come: never more than MaxParallel run, the coordinator      *)
(* never waits for nobody, and no worker blocks on the channel.            *)
THEOREM CountIsExact == Spec => []InFlightExact
<1>1. DagInv => InFlightExact
  <2>. SUFFICES ASSUME DagInv PROVE InFlightExact
    OBVIOUS
  <2>1. Handed /\ Slotted /\ Places
    BY DEF DagInv
  <2>2. ASSUME ~cancelled PROVE Active = {s \in Steps : state[s] = "dispatched"}
    BY <2>1, <2>2 DEF Handed, Active, Idle
  <2>3. ASSUME NEW s \in Steps, worker[s] \in {"prompting", "confirmed", "running"}
        PROVE  Len(done) < MaxParallel
    <3>1. DagTypes /\ Channel /\ s \in Active /\ worker[s] # "sent"
      BY <2>3 DEF DagInv, Active
    <3>2. Len(done) < Cardinality(Active) /\ Len(done) \in Nat /\ inFlight \in Nat
      BY <3>1, ChannelFits, LenProperties DEF DagTypes
    <3>. QED  BY <2>1, <3>2, MaxParallelAssumption DEF Slotted
  <2>. QED  BY <2>1, <2>2, <2>3 DEF InFlightExact, Slotted, Places
<1>. QED  BY <1>1, DagInvariant, PTL

(* drainInFlight before every way out: no command runs beside a rollback   *)
(* block, and none outlives Run.                                           *)
THEOREM RollbackIsQuiet == Spec => []QuietBeforeRollback
<1>1. DagInv => QuietBeforeRollback
  <2>. SUFFICES ASSUME DagInv, at \in {"planPrompt", "rollback", "returned"}
                PROVE  Active = {} /\ done = <<>>
    BY DEF QuietBeforeRollback
  <2>1. Active = {}
    BY DEF DagInv, Places
  <2>2. done = <<>>
    BY <2>1, ChannelFits DEF DagInv
  <2>. QED  BY <2>1, <2>2
<1>. QED  BY <1>1, DagInvariant, PTL

(* runDAGWorker is started for a step whose parents have all completed:    *)
(* each succeeded, or was skipped by the operator at its gate.             *)
THEOREM ParentsComeFirst == Spec => []ParentsBeforeCommand
<1>1. DagInv => ParentsBeforeCommand
  <2>. SUFFICES ASSUME DagInv, NEW s \in ran, NEW p \in Parents(dependsOn, s)
                PROVE  p \in Succeeded \/ (p \in Confirms \ ran /\ state[p] = "completed")
    BY DEF ParentsBeforeCommand
  <2>1. s \in Steps /\ p \in Steps
    BY EdgesAreSteps DEF DagInv, EngineInv, RunTypes
  <2>. QED  BY <2>1 DEF DagInv, Started
<1>. QED  BY <1>1, DagInvariant, PTL

(* Steps are pushed in the order they finish, which under the scheduler is *)
(* an order in which every step comes after what it depends on; Execute    *)
(* goes through it backwards.                                              *)
THEOREM DependentsAreUndoneFirst == Spec => []DependentsUndoneFirst
<1>1. DagInv => DependentsUndoneFirst
  BY DEF DagInv, Ordered
<1>. QED  BY <1>1, DagInvariant, PTL

(* RollbackEngine under executeStepsDAG: until the run ends every success  *)
(* that declares a rollback is on the stack, in the plan or in the report, *)
(* once.                                                                   *)
THEOREM ParallelAccounts == Spec => []RollbackAccounting
<1>1. DagInv => RollbackAccounting
  BY EngineAccounts DEF DagInv
<1>. QED  BY <1>1, DagInvariant, PTL

(* A parallel run's rollback leaves no succeeded step out, the steps whose *)
(* results arrive while the workers are drained included.                  *)
THEOREM ParallelRollbackIsComplete == Spec => []RollbackIsComplete
<1>1. DagInv => RollbackIsComplete
  BY EngineCompletes DEF DagInv
<1>. QED  BY <1>1, DagInvariant, PTL

(* The coordinator only completes or skips steps the scheduler handed it,  *)
(* so the scheduler's own theorems hold of every parallel run.             *)
THEOREM CoordinatorFollowsScheduler == Spec => FollowsScheduler
<1>1. Init => SchedInit
  BY DEF Init
<1>2. DagInv /\ [Next]_vars => [SchedNext]_schedVars
  BY DagStepIsKept DEF DagKept
<1>. QED  BY <1>1, <1>2, DagInvariant, PTL DEF Spec, FollowsScheduler, SchedSpec

(* A parallel run keeps what RunContract promises: each command started    *)
(* once, undone once at most and only during the rollback, and a final     *)
(* status that says what was undone.                                       *)
THEOREM ParallelKeepsContract == Spec => KeepsContract
<1>1. Init => Contract!Init
  BY InitIsDag
<1>2. DagInv /\ [Next]_vars => [Contract!Next]_(Contract!contractVars)
  BY DagStepIsKept DEF DagKept, ContractStep
<1>. QED  BY <1>1, <1>2, DagInvariant, PTL DEF Spec, KeepsContract, Contract!Spec

=============================================================================
