-------------------------- MODULE RunLifecycleProofs --------------------------
(***************************************************************************)
(* What every run keeps whichever executor dispatches its steps: lemmas    *)
(* about the actions of RunLifecycle, which RunDAGProofs and               *)
(* AuditedRunProofs apply to the parallel and the sequential executor.     *)
(***************************************************************************)
EXTENDS RunLifecycle, SequenceTheorems, FiniteSetTheorems, TLAPS

Distinct(q) == \A i, j \in DOMAIN q : q[i] = q[j] => i = j

Reports == [step : Steps, status : CommandOutcomes]

(* Where a step that succeeded and declares a rollback is accounted for.   *)
Listed == ToSet(stack) \cup ToSet(plan) \cup Undone

RunTypes ==
    /\ stack \in Seq(Steps) /\ plan \in Seq(Steps)
    /\ entries \in Seq(Reports) /\ results \in Seq(Reports)
    /\ ran \subseteq Steps

(* The stack, the snapshot and the report take turns: nothing is run or    *)
(* reported before Execute empties the stack, and nothing is pushed after. *)
TakeTurns ==
    /\ at \notin {"rollback", "returned"} =>
          plan = <<>> /\ entries = <<>> /\ phase # "ROLLING_BACK" /\ status = "success"
    /\ at = "rollback" => phase = "ROLLING_BACK"
    /\ at = "returned" => plan = <<>>
    /\ phase = "ROLLING_BACK" => stack = <<>>
    /\ stack = <<>> \/ entries = <<>>

EngineInv ==
    /\ RunTypes
    /\ TakeTurns
    /\ Distinct(stack) /\ Distinct(plan) /\ Distinct(UndoneInOrder)
    /\ ToSet(plan) \cap Undone = {}
    /\ Listed \subseteq ran
    /\ ~Ended \/ phase = "ROLLING_BACK" => Succeeded \cap HasRollback \subseteq Listed

-----------------------------------------------------------------------------
(***************************************************************************)
(* Sequences without repetition.                                           *)
(***************************************************************************)
LEMMA EmptyFacts ==
    ASSUME NEW S
    PROVE  <<>> \in Seq(S) /\ ToSet(<<>>) = {} /\ Distinct(<<>>)
BY DEF ToSet, Distinct

(* What is appended comes after everything and is not lost.                *)
LEMMA AppendFacts ==
    ASSUME NEW S, NEW q \in Seq(S), NEW x \in S
    PROVE  /\ Append(q, x) \in Seq(S)
           /\ ToSet(Append(q, x)) = ToSet(q) \cup {x}
           /\ Distinct(q) /\ x \notin ToSet(q) => Distinct(Append(q, x))
<1>1. /\ Append(q, x) \in Seq(S) /\ Len(Append(q, x)) = Len(q) + 1
      /\ \A i \in 1..Len(q) : Append(q, x)[i] = q[i]
      /\ Append(q, x)[Len(q) + 1] = x
  BY AppendProperties
<1>2. DOMAIN q = 1..Len(q) /\ DOMAIN Append(q, x) = 1..Len(q) + 1 /\ Len(q) \in Nat
  BY <1>1, LenProperties
<1>3. ToSet(Append(q, x)) = ToSet(q) \cup {x}
  BY <1>1, <1>2 DEF ToSet
<1>4. ASSUME Distinct(q), x \notin ToSet(q) PROVE Distinct(Append(q, x))
  <2>1. \A i \in 1..Len(q) : q[i] # x
    BY <1>2, <1>4 DEF ToSet
  <2>. QED  BY <1>1, <1>2, <1>4, <2>1 DEF Distinct
<1>. QED  BY <1>1, <1>3, <1>4

(* Taking the last element off the end.                                    *)
LEMMA FrontFacts ==
    ASSUME NEW S, NEW q \in Seq(S), q # <<>>
    PROVE  /\ Front(q) \in Seq(S) /\ Last(q) \in S
           /\ Len(q) \in Nat \ {0} /\ Len(Front(q)) = Len(q) - 1
           /\ \A i \in 1..Len(q) - 1 : Front(q)[i] = q[i]
           /\ ToSet(q) = ToSet(Front(q)) \cup {Last(q)}
           /\ Distinct(q) => Distinct(Front(q)) /\ Last(q) \notin ToSet(Front(q))
<1>1. DOMAIN q = 1..Len(q) /\ Len(q) \in Nat \ {0} /\ \A i \in 1..Len(q) : q[i] \in S
  BY LenProperties, EmptySeq, ElementOfSeq
<1>2. /\ Front(q) \in Seq(S) /\ Len(Front(q)) = Len(q) - 1
      /\ \A i \in 1..Len(q) - 1 : Front(q)[i] = q[i]
  <2>1. \A i \in 1..Len(q) - 1 : q[i] \in S
    BY <1>1
  <2>2. /\ SubSeq(q, 1, Len(q) - 1) \in Seq(S)
        /\ Len(SubSeq(q, 1, Len(q) - 1)) = IF 1 <= Len(q) - 1 THEN (Len(q) - 1) - 1 + 1 ELSE 0
        /\ \A i \in 1..(Len(q) - 1) - 1 + 1 : SubSeq(q, 1, Len(q) - 1)[i] = q[1 + i - 1]
    BY <1>1, <2>1, SubSeqProperties
  <2>. QED  BY <1>1, <2>2 DEF Front
<1>3. DOMAIN Front(q) = 1..Len(q) - 1
  BY <1>2, LenProperties
<1>4. Last(q) = q[Len(q)] /\ Last(q) \in S
  BY <1>1 DEF Last
<1>5. ToSet(q) = ToSet(Front(q)) \cup {Last(q)}
  <2>0. \A n \in Nat \ {0} : \A i \in 1..n : i \in 1..n - 1 \/ i = n
    OBVIOUS
  <2>1. \A i \in 1..Len(q) : i \in 1..Len(q) - 1 \/ i = Len(q)
    BY <1>1, <2>0
  <2>2. ASSUME NEW i \in 1..Len(q) PROVE q[i] \in ToSet(Front(q)) \cup {Last(q)}
    BY <1>2, <1>3, <1>4, <2>1 DEF ToSet
  <2>3. ASSUME NEW i \in 1..Len(q) - 1 PROVE Front(q)[i] \in ToSet(q)
    <3>1. i \in 1..Len(q)
      BY <1>1
    <3>. QED  BY <1>1, <1>2, <3>1 DEF ToSet
  <2>4. Last(q) \in ToSet(q)
    BY <1>1, <1>4 DEF ToSet
  <2>. QED  BY <1>1, <1>3, <2>2, <2>3, <2>4 DEF ToSet
<1>6. ASSUME Distinct(q) PROVE Distinct(Front(q)) /\ Last(q) \notin ToSet(Front(q))
  <2>1. Distinct(Front(q))
    BY <1>1, <1>2, <1>3, <1>6 DEF Distinct
  <2>2. \A i \in 1..Len(q) - 1 : q[i] # q[Len(q)]
    BY <1>1, <1>6 DEF Distinct
  <2>. QED  BY <1>2, <1>3, <1>4, <2>1, <2>2 DEF ToSet
<1>. QED  BY <1>1, <1>2, <1>4, <1>5, <1>6

(* Two lists without repetition and without a common element make one.     *)
LEMMA ConcatFacts ==
    ASSUME NEW S, NEW q \in Seq(S), NEW r \in Seq(S)
    PROVE  /\ q \o r \in Seq(S)
           /\ ToSet(q \o r) = ToSet(q) \cup ToSet(r)
           /\ Distinct(q) /\ Distinct(r) /\ ToSet(q) \cap ToSet(r) = {} => Distinct(q \o r)
<1>1. /\ q \o r \in Seq(S) /\ Len(q \o r) = Len(q) + Len(r)
      /\ \A i \in 1..Len(q) + Len(r) : (q \o r)[i] = IF i <= Len(q) THEN q[i] ELSE r[i - Len(q)]
  BY ConcatProperties
<1>2. /\ DOMAIN q = 1..Len(q) /\ DOMAIN r = 1..Len(r)
      /\ DOMAIN (q \o r) = 1..Len(q) + Len(r) /\ Len(q) \in Nat /\ Len(r) \in Nat
  BY <1>1, LenProperties
<1>3. ToSet(q \o r) = ToSet(q) \cup ToSet(r)
  <2>1. ASSUME NEW i \in 1..Len(q) + Len(r) PROVE (q \o r)[i] \in ToSet(q) \cup ToSet(r)
    <3>1. CASE i <= Len(q)
      BY <1>1, <1>2, <3>1 DEF ToSet
    <3>2. CASE ~(i <= Len(q))
      <4>1. i - Len(q) \in 1..Len(r)
        BY <1>2, <3>2
      <4>. QED  BY <1>1, <1>2, <3>2, <4>1 DEF ToSet
    <3>. QED  BY <3>1, <3>2
  <2>2. ASSUME NEW i \in 1..Len(q) PROVE q[i] \in ToSet(q \o r)
    <3>1. i \in 1..Len(q) + Len(r) /\ i <= Len(q)
      BY <1>2
    <3>. QED  BY <1>1, <1>2, <3>1 DEF ToSet
  <2>3. ASSUME NEW i \in 1..Len(r) PROVE r[i] \in ToSet(q \o r)
    <3>1. i + Len(q) \in 1..Len(q) + Len(r) /\ ~(i + Len(q) <= Len(q)) /\ (i + Len(q)) - Len(q) = i
      BY <1>2
    <3>2. (q \o r)[i + Len(q)] = r[i]
      BY <1>1, <3>1
    <3>. QED  BY <1>2, <3>1, <3>2 DEF ToSet
  <2>. QED  BY <1>2, <2>1, <2>2, <2>3 DEF ToSet
<1>4. ASSUME Distinct(q), Distinct(r), ToSet(q) \cap ToSet(r) = {} PROVE Distinct(q \o r)
  <2>0. \A i \in 1..Len(q), j \in 1..Len(r) : q[i] # r[j]
    BY <1>2, <1>4 DEF ToSet
  <2>1. SUFFICES ASSUME NEW i \in 1..Len(q) + Len(r), NEW j \in 1..Len(q) + Len(r), i # j
                 PROVE  (q \o r)[i] # (q \o r)[j]
    BY <1>2 DEF Distinct
  <2>2. CASE i <= Len(q) /\ j <= Len(q)
    BY <1>1, <1>2, <1>4, <2>1, <2>2 DEF Distinct
  <2>3. CASE i <= Len(q) /\ ~(j <= Len(q))
    <3>1. i \in 1..Len(q) /\ j - Len(q) \in 1..Len(r)
      BY <1>2, <2>3
    <3>. QED  BY <1>1, <2>0, <2>3, <3>1
  <2>4. CASE ~(i <= Len(q)) /\ j <= Len(q)
    <3>1. j \in 1..Len(q) /\ i - Len(q) \in 1..Len(r)
      BY <1>2, <2>4
    <3>. QED  BY <1>1, <2>0, <2>4, <3>1
  <2>5. CASE ~(i <= Len(q)) /\ ~(j <= Len(q))
    <3>1. i - Len(q) \in 1..Len(r) /\ j - Len(q) \in 1..Len(r) /\ i - Len(q) # j - Len(q)
      BY <1>2, <2>1, <2>5
    <3>2. r[i - Len(q)] # r[j - Len(q)]
      BY <1>2, <1>4, <3>1 DEF Distinct
    <3>. QED  BY <1>1, <2>5, <3>2
  <2>. QED  BY <2>2, <2>3, <2>4, <2>5
<1>. QED  BY <1>1, <1>3, <1>4

-----------------------------------------------------------------------------
(***************************************************************************)
(* Document order.  The rank of a step is the number of steps before it in *)
(* a set: no two steps share one, so the sequential loop has a next step   *)
(* and the scheduler hands out no more steps than it is asked for.         *)
(***************************************************************************)
Rank(S, s)  == Cardinality({r \in S : r < s})
Before(n)   == 0..n - 1
First(S, n) == {s \in S : Rank(S, s) < n}

LEMMA RankFacts ==
    ASSUME NEW S \in SUBSET Int, IsFiniteSet(S)
    PROVE  /\ Cardinality(S) \in Nat
           /\ \A s \in S : Rank(S, s) \in Before(Cardinality(S))
           /\ \A s, t \in S : Rank(S, s) = Rank(S, t) => s = t
<1>. DEFINE Lower(s) == {r \in S : r < s}
<1>1. Cardinality(S) \in Nat
  BY FS_CardinalityType
<1>2. ASSUME NEW s \in S
      PROVE  Rank(S, s) \in Before(Cardinality(S))
  <2>1. Lower(s) \in SUBSET S /\ Lower(s) # S
    OBVIOUS
  <2>2. IsFiniteSet(Lower(s)) /\ Cardinality(Lower(s)) <= Cardinality(S)
           /\ Cardinality(S) # Cardinality(Lower(s))
    BY <2>1, FS_Subset
  <2>3. Cardinality(Lower(s)) \in Nat
    BY <2>2, FS_CardinalityType
  <2>. QED  BY <1>1, <2>2, <2>3 DEF Rank, Before
<1>3. ASSUME NEW s \in S, NEW t \in S, s < t
      PROVE  Rank(S, s) # Rank(S, t)
  <2>0. s \in Int /\ t \in Int
    OBVIOUS
  <2>1. Lower(s) \in SUBSET Lower(t) /\ s \in Lower(t) /\ s \notin Lower(s)
    <3>1. \A r \in S : r < s => r < t
      BY <1>3, <2>0
    <3>2. ~(s < s)
      BY <2>0
    <3>. QED  BY <1>3, <3>1, <3>2
  <2>2. Lower(t) \in SUBSET S
    OBVIOUS
  <2>3. IsFiniteSet(Lower(t))
    BY <2>2, FS_Subset
  <2>. HIDE DEF Lower
  <2>4. Cardinality(Lower(t)) # Cardinality(Lower(s))
    BY <2>1, <2>3, FS_Subset
  <2>. QED  BY <2>4 DEF Rank, Lower
<1>4. ASSUME NEW s \in S, NEW t \in S, Rank(S, s) = Rank(S, t) PROVE s = t
  <2>1. s < t \/ t < s \/ s = t
    OBVIOUS
  <2>. QED  BY <1>3, <1>4, <2>1
<1>. QED  BY <1>1, <1>2, <1>4

(* No two steps have the same rank, so some step has rank zero.            *)
LEMMA EarliestExists ==
    ASSUME NEW S \in SUBSET Int, IsFiniteSet(S), S # {}
    PROVE  \E s \in S : Rank(S, s) = 0 /\ \A t \in S : s <= t
<1>. DEFINE c == Cardinality(S)
            f == [s \in S |-> Rank(S, s)]
            T == 1..c - 1
<1>1. c \in Nat \ {0}
  BY FS_CardinalityType, FS_EmptySet
<1>2. PICK s \in S : Rank(S, s) = 0
  <2>1. SUFFICES ASSUME \A s \in S : Rank(S, s) # 0 PROVE FALSE
    OBVIOUS
  <2>2. \A s \in S : Rank(S, s) \in T
    BY <1>1, <2>1, RankFacts DEF Before
  <2>3. f \in [S -> T]
    BY <2>2
  <2>4. IsFiniteSet(T) /\ Cardinality(T) < Cardinality(S)
    <3>. HIDE DEF c
    <3>1. c - 1 \in Int /\ 1 \in Int
      BY <1>1
    <3>2. IsFiniteSet(T) /\ Cardinality(T) = IF 1 > c - 1 THEN 0 ELSE c - 1 - 1 + 1
      BY <3>1, FS_Interval
    <3>3. Cardinality(T) < c
      BY <1>1, <3>2
    <3>. QED  BY <3>2, <3>3 DEF c
  <2>. HIDE DEF f, T
  <2>5. PICK s, t \in S : s # t /\ f[s] = f[t]
    BY <2>3, <2>4, FS_PigeonHole
  <2>. QED  BY <2>5, RankFacts DEF f
<1>3. {r \in S : r < s} = {}
  <2>1. {r \in S : r < s} \in SUBSET S
    OBVIOUS
  <2>. QED  BY <1>2, <2>1, FS_Subset, FS_EmptySet DEF Rank
<1>4. \A t \in S : s <= t
  BY <1>3
<1>. QED  BY <1>2, <1>4

LEMMA FirstFacts ==
    ASSUME NEW S \in SUBSET Int, IsFiniteSet(S), NEW n \in Nat
    PROVE  /\ IsFiniteSet(First(S, n)) /\ Cardinality(First(S, n)) <= n
           /\ n > 0 /\ S # {} => First(S, n) # {}
           /\ n >= Cardinality(S) => First(S, n) = S
<1>. DEFINE F == First(S, n)
            f == [s \in F |-> Rank(S, s)]
            T == Before(n)
<1>1. F \subseteq S
  BY DEF First
<1>2. \A s \in F : Rank(S, s) \in T
  BY <1>1, RankFacts DEF First, Before
<1>3. IsFiniteSet(T) /\ Cardinality(T) = n
  BY FS_Interval DEF Before
<1>4. IsFiniteSet(F) /\ Cardinality(F) <= n
  <2>. HIDE DEF F, T
  <2>1. f \in [F -> T]
    BY <1>2
  <2>2. \A s, t \in F : f[s] = f[t] => s = t
    BY <1>1, RankFacts
  <2>. HIDE DEF f
  <2>3. f \in Injection(F, T)
    BY <2>1, <2>2 DEF Injection, IsInjective
  <2>. QED  BY <1>3, <2>3, FS_Injection
<1>5. n > 0 /\ S # {} => F # {}
  BY EarliestExists DEF First
<1>6. n >= Cardinality(S) => F = S
  <2>1. ASSUME n >= Cardinality(S), NEW s \in S PROVE Rank(S, s) < n
    <3>1. Rank(S, s) \in 0..Cardinality(S) - 1 /\ Cardinality(S) \in Nat
      BY RankFacts DEF Before
    <3>. QED  BY <2>1, <3>1
  <2>. QED  BY <1>1, <2>1 DEF First
<1>. QED  BY <1>4, <1>5, <1>6

-----------------------------------------------------------------------------
(***************************************************************************)
(* The report and the results.                                             *)
(***************************************************************************)
LEMMA UndoneFacts ==
    ASSUME entries \in Seq(Reports)
    PROVE  UndoneInOrder \in Seq(Steps) /\ Undone \subseteq Steps
<1>0. DOMAIN entries = 1..Len(entries) /\ Len(entries) \in Nat
  BY LenProperties
<1>1. \A i \in 1..Len(entries) : entries[i].step \in Steps
  <2>1. \A i \in 1..Len(entries) : entries[i] \in Reports
    BY ElementOfSeq
  <2>. QED  BY <2>1 DEF Reports
<1>2. UndoneInOrder \in [1..Len(entries) -> Steps]
  BY <1>0, <1>1 DEF UndoneInOrder
<1>3. UndoneInOrder \in Seq(Steps)
  BY <1>0, <1>2, SeqDef
<1>. QED  BY <1>3, LenProperties DEF Undone, ToSet

(* A block that has been run is the last of the report.                    *)
LEMMA ReportGrows ==
    ASSUME entries \in Seq(Reports), NEW e \in Reports, entries' = Append(entries, e)
    PROVE  /\ entries' \in Seq(Reports)
           /\ UndoneInOrder' = Append(UndoneInOrder, e.step)
           /\ Undone' = Undone \cup {e.step}
<1>1. /\ entries' \in Seq(Reports) /\ Len(entries') = Len(entries) + 1
      /\ \A i \in 1..Len(entries) : entries'[i] = entries[i]
      /\ entries'[Len(entries) + 1] = e
      /\ e.step \in Steps
  BY AppendProperties DEF Reports
<1>2. DOMAIN entries' = 1..Len(entries) + 1 /\ DOMAIN entries = 1..Len(entries) /\ Len(entries) \in Nat
  BY <1>1, LenProperties
<1>3. UndoneInOrder' = [i \in 1..Len(entries) + 1 |-> entries'[i].step]
  BY <1>2 DEF UndoneInOrder
<1>4. UndoneInOrder \in Seq(Steps) /\ DOMAIN UndoneInOrder = 1..Len(entries)
  BY <1>2, UndoneFacts DEF UndoneInOrder
<1>5. Len(UndoneInOrder) = Len(entries)
  BY <1>2, <1>4, LenProperties
<1>6. /\ Append(UndoneInOrder, e.step) \in Seq(Steps)
      /\ Len(Append(UndoneInOrder, e.step)) = Len(entries) + 1
      /\ \A i \in 1..Len(entries) : Append(UndoneInOrder, e.step)[i] = UndoneInOrder[i]
      /\ Append(UndoneInOrder, e.step)[Len(entries) + 1] = e.step
  BY <1>1, <1>4, <1>5, AppendProperties
<1>7. UndoneInOrder' \in Seq(Steps) /\ Len(UndoneInOrder') = Len(entries) + 1
  <2>1. \A i \in 1..Len(entries) + 1 : entries'[i].step \in Steps
    <3>1. \A i \in 1..Len(entries) + 1 : entries'[i] \in Reports
      BY <1>1, ElementOfSeq
    <3>. QED  BY <3>1 DEF Reports
  <2>2. UndoneInOrder' \in [1..Len(entries) + 1 -> Steps] /\ Len(entries) + 1 \in Nat
    BY <1>2, <1>3, <2>1
  <2>3. UndoneInOrder' \in Seq(Steps)
    BY <2>2, SeqDef
  <2>. QED  BY <1>2, <1>3, <2>2, <2>3, LenProperties
<1>8. \A i \in 1..Len(entries) + 1 : UndoneInOrder'[i] = Append(UndoneInOrder, e.step)[i]
  BY <1>1, <1>2, <1>3, <1>6 DEF UndoneInOrder
<1>9. UndoneInOrder' = Append(UndoneInOrder, e.step)
  BY <1>6, <1>7, <1>8, SeqEqual
<1>. QED  BY <1>1, <1>4, <1>9, AppendFacts DEF Undone

(* Only a success adds to the steps that succeeded.                        *)
LEMMA ResultsGrow ==
    ASSUME results \in Seq(Reports), NEW s \in Steps, NEW o \in CommandOutcomes,
           results' = Recorded(s, o)
    PROVE  /\ results' \in Seq(Reports)
           /\ Succeeded' = Succeeded \cup (IF o = "success" THEN {s} ELSE {})
           /\ Succeeded \subseteq Steps
<1>1. Result(s, o) \in Reports
  BY DEF Result, Reports
<1>2. /\ results' \in Seq(Reports) /\ Len(results') = Len(results) + 1 /\ Len(results) \in Nat
      /\ \A i \in 1..Len(results) : results'[i] = results[i]
      /\ results'[Len(results) + 1] = Result(s, o)
  BY <1>1, AppendProperties, LenProperties DEF Recorded
<1>3. ASSUME NEW t \in Steps
      PROVE  Contains(results', Result(t, "success")) <=>
                Contains(results, Result(t, "success")) \/ Result(s, o) = Result(t, "success")
  <2>1. \A n \in Nat : \A i \in 1..n + 1 : i \in 1..n \/ i = n + 1
    OBVIOUS
  <2>2. \A n \in Nat : n + 1 \in 1..n + 1 /\ \A i \in 1..n : i \in 1..n + 1
    OBVIOUS
  <2>. QED  BY <1>2, <2>1, <2>2 DEF Contains
<1>4. \A t \in Steps : Result(s, o) = Result(t, "success") <=> s = t /\ o = "success"
  BY DEF Result
<1>. QED  BY <1>2, <1>3, <1>4 DEF Succeeded

-----------------------------------------------------------------------------
(***************************************************************************)
(* The engine's invariant under each action, and under each way out of the *)
(* step executors.                                                         *)
(***************************************************************************)
Over(a) == a \in {"rollback", "returned"}

LEMMA EngineInit == RunInit => EngineInv
<1>. SUFFICES ASSUME RunInit PROVE EngineInv
  OBVIOUS
<1>1. UndoneInOrder = <<>>
  <2>1. entries = <<>> /\ DOMAIN <<>> = {}
    BY DEF RunInit
  <2>. QED  BY <2>1 DEF UndoneInOrder
<1>2. Succeeded = {}
  BY DEF RunInit, Succeeded, Contains
<1>3. Listed = {} /\ Undone = {}
  BY <1>1, EmptyFacts DEF RunInit, Listed, Undone
<1>. QED
  BY <1>1, <1>2, <1>3, EmptyFacts DEF RunInit, EngineInv, RunTypes, TakeTurns, Ended

(* Nothing the engine keeps has changed.                                   *)
LEMMA EngineUntouched ==
    ASSUME EngineInv, UNCHANGED <<phase, status, engineVars, results, ran>>,
           at' = at \/ (~Over(at) /\ ~Over(at'))
    PROVE  EngineInv'
<1>1. UNCHANGED <<UndoneInOrder, Undone, Listed, Succeeded>>
  BY DEF engineVars, UndoneInOrder, Undone, Listed, Succeeded
<1>. QED
  BY <1>1 DEF engineVars, EngineInv, RunTypes, TakeTurns, Over, Ended, Distinct

(* dispatchSteps gives the phase another name.                             *)
LEMMA PhaseBeforeUndo ==
    ASSUME EngineInv, UNCHANGED <<status, engineVars, results, ran>>,
           ~Over(at), ~Over(at'), phase' # "ROLLING_BACK"
    PROVE  EngineInv'
<1>1. UNCHANGED <<UndoneInOrder, Undone, Listed, Succeeded>>
  BY DEF engineVars, UndoneInOrder, Undone, Listed, Succeeded
<1>. QED
  BY <1>1 DEF engineVars, EngineInv, RunTypes, TakeTurns, Over, Ended, Distinct

(* A command was started, or a result that is no success recorded.         *)
LEMMA HistoryGrows ==
    ASSUME EngineInv, UNCHANGED <<phase, status, engineVars>>, ~Over(at), ~Over(at'),
           ran \subseteq ran', ran' \subseteq Steps,
           results' \in Seq(Reports), Succeeded' = Succeeded
    PROVE  EngineInv'
<1>1. UNCHANGED <<UndoneInOrder, Undone, Listed>>
  BY DEF engineVars, UndoneInOrder, Undone, Listed
<1>. QED
  BY <1>1 DEF engineVars, EngineInv, RunTypes, TakeTurns, Over, Ended, Distinct

(* A step has its result: its block goes on the stack, where it was not    *)
(* before.  (While the workers are drained a failed step is pushed too.)   *)
LEMMA ResultIsPushed ==
    ASSUME EngineInv, UNCHANGED <<phase, status, plan, entries, trigger, ran>>,
           ~Over(at), ~Over(at'),
           NEW s \in Steps, s \in ran, s \notin ToSet(stack),
           NEW o \in CommandOutcomes,
           results' = Recorded(s, o), stack' = Pushed(s)
    PROVE  /\ EngineInv'
           /\ ToSet(stack') = ToSet(stack) \cup ({s} \cap HasRollback)
<1>1. UNCHANGED <<UndoneInOrder, Undone>> /\ ToSet(plan)' = ToSet(plan) /\ Distinct(plan)' = Distinct(plan)
  BY DEF UndoneInOrder, Undone
<1>2. /\ results' \in Seq(Reports)
      /\ Succeeded' \subseteq Succeeded \cup {s}
  BY ResultsGrow DEF EngineInv, RunTypes
<1>3. /\ stack' \in Seq(Steps)
      /\ ToSet(stack') = ToSet(stack) \cup ({s} \cap HasRollback)
      /\ Distinct(stack')
  <2>1. CASE s \in HasRollback
    BY <2>1, AppendFacts DEF Pushed, EngineInv, RunTypes
  <2>2. CASE s \notin HasRollback
    BY <2>2 DEF Pushed, EngineInv, RunTypes
  <2>. QED  BY <2>1, <2>2
<1>4. Listed' = Listed \cup ({s} \cap HasRollback)
  BY <1>1, <1>3 DEF Listed
<1>5. Listed' \subseteq ran'
  BY <1>4 DEF EngineInv
<1>6. Succeeded' \cap HasRollback \subseteq Listed'
  BY <1>2, <1>4 DEF EngineInv, Over, Ended
<1>7. RunTypes'
  BY <1>2, <1>3 DEF EngineInv, RunTypes
<1>8. TakeTurns'
  BY DEF EngineInv, TakeTurns, Over
<1>9. EngineInv'
  BY <1>1, <1>3, <1>5, <1>6, <1>7, <1>8 DEF EngineInv, Distinct
<1>. QED  BY <1>3, <1>9

(* Execute takes the whole stack for its plan.                             *)
LEMMA ExecuteTakesTheStack ==
    ASSUME EngineInv, ~Over(at), NEW t, Execute(t), UNCHANGED ran,
           results' \in Seq(Reports), Succeeded' = Succeeded
    PROVE  EngineInv'
<1>1. /\ at' = "rollback" /\ phase' = "ROLLING_BACK" /\ plan' = stack /\ stack' = <<>>
      /\ UNCHANGED <<status, entries>> /\ plan = <<>> /\ entries = <<>>
  BY DEF Execute, StackAfterExecute, EngineInv, TakeTurns, Over
<1>2. UNCHANGED <<UndoneInOrder, Undone>> /\ Undone = {}
  <2>1. UNCHANGED <<UndoneInOrder, Undone>>
    BY <1>1 DEF UndoneInOrder, Undone
  <2>2. DOMAIN entries = {}
    BY <1>1
  <2>3. DOMAIN UndoneInOrder = {}
    BY <2>2 DEF UndoneInOrder
  <2>. QED  BY <2>1, <2>3 DEF Undone, ToSet
<1>3. Listed' = Listed
  BY <1>1, <1>2, EmptyFacts DEF Listed
<1>4. RunTypes'
  BY <1>1, EmptyFacts DEF EngineInv, RunTypes
<1>5. TakeTurns'
  BY <1>1 DEF TakeTurns
<1>. QED  BY <1>1, <1>2, <1>3, <1>4, <1>5, EmptyFacts DEF EngineInv, Over, Ended, Distinct

(* A run that returns without undoing promises nothing about its stack.    *)
LEMMA ReturnKeepsEngine ==
    ASSUME EngineInv, ~Over(at), NEW st, NEW ph, ph # "ROLLING_BACK", Return(st, ph),
           UNCHANGED ran, results' \in Seq(Reports), Succeeded' = Succeeded
    PROVE  EngineInv'
<1>1. UNCHANGED <<UndoneInOrder, Undone, Listed>> /\ UNCHANGED engineVars
  BY DEF Return, engineVars, UndoneInOrder, Undone, Listed
<1>. QED
  BY <1>1 DEF Return, engineVars, EngineInv, RunTypes, TakeTurns, Over, Ended, Distinct

(* The blocks run from the top of the stack down, each into the report.    *)
LEMMA BlockKeepsEngine ==
    ASSUME EngineInv, NEW o \in CommandOutcomes, RunRollbackBlock(o)
    PROVE  EngineInv'
<1>. DEFINE e == Entry(Last(plan), o)
<1>1. /\ at = "rollback" /\ plan # <<>> /\ plan' = Front(plan) /\ entries' = Append(entries, e)
      /\ UNCHANGED <<at, phase, status, stack, results, ran>>
  BY DEF RunRollbackBlock, PlanAfter
<1>2. /\ Front(plan) \in Seq(Steps) /\ Last(plan) \in Steps
      /\ ToSet(plan) = ToSet(Front(plan)) \cup {Last(plan)}
      /\ Distinct(Front(plan)) /\ Last(plan) \notin ToSet(Front(plan))
  BY <1>1, FrontFacts DEF EngineInv, RunTypes
<1>3. e \in Reports /\ e.step = Last(plan)
  BY <1>2 DEF Entry, Reports
<1>4. /\ entries' \in Seq(Reports)
      /\ UndoneInOrder' = Append(UndoneInOrder, Last(plan))
      /\ Undone' = Undone \cup {Last(plan)}
  BY <1>1, <1>3, ReportGrows DEF EngineInv, RunTypes
<1>5. UndoneInOrder \in Seq(Steps)
  BY UndoneFacts DEF EngineInv, RunTypes
<1>6. Last(plan) \notin Undone
  BY <1>2 DEF EngineInv
<1>7. Distinct(UndoneInOrder')
  BY <1>2, <1>4, <1>5, <1>6, AppendFacts DEF EngineInv, Undone
<1>8. Listed' = Listed
  BY <1>1, <1>2, <1>4 DEF Listed
<1>9. ToSet(plan') \cap Undone' = {}
  BY <1>1, <1>2, <1>4 DEF EngineInv
<1>10. Succeeded' = Succeeded
  BY <1>1 DEF Succeeded
<1>11. RunTypes'
  BY <1>1, <1>2, <1>4 DEF EngineInv, RunTypes
<1>12. TakeTurns'
  BY <1>1 DEF EngineInv, TakeTurns
<1>. QED
  BY <1>1, <1>2, <1>7, <1>8, <1>9, <1>10, <1>11, <1>12 DEF EngineInv, Distinct, Ended

LEMMA FinishKeepsEngine ==
    ASSUME EngineInv, FinishRollback
    PROVE  EngineInv'
<1>1. UNCHANGED <<UndoneInOrder, Undone, Listed, Succeeded>> /\ UNCHANGED <<engineVars, phase, results, ran>>
  BY DEF FinishRollback, Return, engineVars, UndoneInOrder, Undone, Listed, Succeeded
<1>. QED
  BY <1>1 DEF FinishRollback, Return, engineVars, EngineInv, RunTypes, TakeTurns, Ended, Distinct

(* The plan is refused: the stack is dropped, and the run returns.         *)
LEMMA AnswerKeepsEngine ==
    ASSUME EngineInv, NEW yes \in BOOLEAN, AnswerPlan(yes)
    PROVE  EngineInv'
<1>1. at = "planPrompt" /\ UNCHANGED <<results, ran>>
  BY DEF AnswerPlan
<1>2. Succeeded' = Succeeded /\ results' \in Seq(Reports)
  BY <1>1 DEF Succeeded, EngineInv, RunTypes
<1>3. CASE yes
  BY <1>1, <1>2, <1>3, ExecuteTakesTheStack DEF AnswerPlan, Over
<1>4. CASE ~yes
  <2>1. /\ at' = "returned" /\ stack' = <<>> /\ UNCHANGED <<entries, plan, phase>>
        /\ plan = <<>> /\ entries = <<>> /\ phase # "ROLLING_BACK"
    BY <1>1, <1>4 DEF AnswerPlan, EngineInv, TakeTurns
  <2>2. UNCHANGED <<UndoneInOrder, Undone>>
    BY <2>1 DEF UndoneInOrder, Undone
  <2>3. Listed' \subseteq Listed
    BY <2>1, <2>2, EmptyFacts DEF Listed
  <2>. QED
    BY <1>1, <1>2, <2>1, <2>2, <2>3, EmptyFacts DEF EngineInv, RunTypes, TakeTurns, Ended, Distinct
<1>. QED  BY <1>3, <1>4

-----------------------------------------------------------------------------
(***************************************************************************)
(* RunContract: what each of those actions is to it.                       *)
(***************************************************************************)
ContractStep == [Contract!Next]_(Contract!contractVars)

LEMMA ContractInit == RunInit => Contract!Init
<1>. SUFFICES ASSUME RunInit PROVE Contract!Init
  OBVIOUS
<1>1. UndoneInOrder = <<>>
  <2>1. entries = <<>> /\ DOMAIN <<>> = {}
    BY DEF RunInit
  <2>. QED  BY <2>1 DEF UndoneInOrder
<1>. QED  BY <1>1 DEF RunInit, Contract!Init, Ended

LEMMA ContractUntouched ==
    ASSUME UNCHANGED <<ran, entries>>, (at' = at /\ status' = status) \/ (~Over(at) /\ ~Over(at'))
    PROVE  ContractStep
BY DEF ContractStep, Contract!contractVars, UndoneInOrder, Ended, Over

LEMMA ContractStart ==
    ASSUME NEW s \in Steps, s \notin ran, ran' = ran \cup {s}, UNCHANGED entries,
           ~Over(at), ~Over(at')
    PROVE  ContractStep
<1>1. Contract!Start(s)
  BY DEF Contract!Start, UndoneInOrder, Ended, Over
<1>. QED  BY <1>1 DEF ContractStep, Contract!Next

LEMMA ContractBegin ==
    ASSUME ~Over(at), NEW t, Execute(t), UNCHANGED ran
    PROVE  ContractStep
<1>1. Contract!BeginUndo
  BY DEF Execute, Contract!BeginUndo, UndoneInOrder, Ended, Over
<1>. QED  BY <1>1 DEF ContractStep, Contract!Next

LEMMA ContractReturn ==
    ASSUME ~Over(at), at' = "returned", UNCHANGED <<entries, ran>>,
           status' \in {"success", "step_failed", "check_failed", "aborted", "internal_error"}
    PROVE  ContractStep
<1>1. Contract!EndWithoutUndo(status')
  BY DEF Contract!EndWithoutUndo, UndoneInOrder, Ended, Over
<1>. QED  BY <1>1 DEF ContractStep, Contract!Next

(* The block that runs is the top one of the plan, which was started and   *)
(* has not been undone.                                                    *)
LEMMA ContractUndo ==
    ASSUME EngineInv, NEW o \in CommandOutcomes, RunRollbackBlock(o)
    PROVE  ContractStep
<1>. DEFINE s == Last(plan)
            e == Entry(s, o)
<1>1. /\ at = "rollback" /\ plan # <<>> /\ entries' = Append(entries, e)
      /\ UNCHANGED <<at, status, ran>>
  BY DEF RunRollbackBlock
<1>2. s \in Steps /\ s \in ToSet(plan)
  <2>1. s \in Steps /\ ToSet(plan) = ToSet(Front(plan)) \cup {s}
    BY <1>1, FrontFacts DEF EngineInv, RunTypes
  <2>. QED  BY <2>1
<1>3. e \in Reports /\ e.step = s
  BY <1>2 DEF Entry, Reports
<1>4. UndoneInOrder' = Append(UndoneInOrder, s)
  BY <1>1, <1>3, ReportGrows DEF EngineInv, RunTypes
<1>5. s \in ran /\ s \notin ToSet(UndoneInOrder)
  BY <1>2 DEF EngineInv, Listed, Undone
<1>6. Contract!Undo(s)
  BY <1>1, <1>4, <1>5 DEF Contract!Undo, Contract!ToSet, ToSet, Ended
<1>. QED  BY <1>2, <1>6 DEF ContractStep, Contract!Next

LEMMA ContractFinish ==
    ASSUME EngineInv, FinishRollback
    PROVE  ContractStep
<1>1. /\ at = "rollback" /\ at' = "returned" /\ status' = StatusAfterRollback
      /\ UNCHANGED <<entries, ran>>
  BY DEF FinishRollback, Return, engineVars
<1>2. entries = <<>> <=> UndoneInOrder = <<>>
  <2>1. DOMAIN UndoneInOrder = DOMAIN entries
    BY DEF UndoneInOrder
  <2>2. UndoneInOrder \in Seq(Steps) /\ entries \in Seq(Reports)
    BY UndoneFacts DEF EngineInv, RunTypes
  <2>3. Len(entries) = Len(UndoneInOrder)
    BY <2>1, <2>2, LenProperties
  <2>. QED  BY <2>2, <2>3, EmptySeq
<1>3. Contract!EndAfterUndo(StatusAfterRollback)
  BY <1>1, <1>2 DEF Contract!EndAfterUndo, StatusAfterRollback, UndoneInOrder, Ended
<1>4. StatusAfterRollback \in {"rolled_back", "partially_rolled_back", "step_failed", "aborted"}
  BY DEF StatusAfterRollback
<1>. QED  BY <1>3, <1>4 DEF ContractStep, Contract!Next

-----------------------------------------------------------------------------
(***************************************************************************)
(* The ways out of the step executors, and the actions they share: each    *)
(* keeps the engine's invariant and is a step of the contract.             *)
(***************************************************************************)
Kept == EngineInv' /\ ContractStep

LEMMA OfferIsKept ==
    ASSUME EngineInv, ~Over(at), NEW t, OfferRollback(t), UNCHANGED ran,
           results' \in Seq(Reports), Succeeded' = Succeeded
    PROVE  Kept
<1>1. EngineInv'
  <2>1. UNCHANGED <<phase, status, stack, plan, entries>> /\ at' = "planPrompt"
    BY DEF OfferRollback
  <2>2. UNCHANGED <<UndoneInOrder, Undone, Listed>>
    BY <2>1 DEF UndoneInOrder, Undone, Listed
  <2>. QED
    BY <2>1, <2>2 DEF EngineInv, RunTypes, TakeTurns, Over, Ended, Distinct
<1>2. ContractStep
  BY ContractUntouched DEF OfferRollback, Over
<1>. QED  BY <1>1, <1>2 DEF Kept

LEMMA ExecuteIsKept ==
    ASSUME EngineInv, ~Over(at), NEW t, Execute(t), UNCHANGED ran,
           results' \in Seq(Reports), Succeeded' = Succeeded
    PROVE  Kept
BY ExecuteTakesTheStack, ContractBegin DEF Kept

LEMMA ReturnIsKept ==
    ASSUME EngineInv, ~Over(at), UNCHANGED ran,
           results' \in Seq(Reports), Succeeded' = Succeeded,
           NEW st \in {"success", "step_failed", "check_failed", "aborted", "internal_error"},
           NEW ph, ph # "ROLLING_BACK", Return(st, ph)
    PROVE  Kept
<1>1. EngineInv'
  BY ReturnKeepsEngine
<1>2. ContractStep
  BY ContractReturn DEF Return, engineVars
<1>. QED  BY <1>1, <1>2 DEF Kept

LEMMA WaysOutAreKept ==
    ASSUME EngineInv, ~Over(at), UNCHANGED ran,
           results' \in Seq(Reports), Succeeded' = Succeeded,
           \/ \E a \in Actions : HandleSignal(a)
           \/ Quit \/ DeclineConfirm \/ HandleStepFailure \/ Complete
           \/ Fail("internal_error") \/ Fail("check_failed")
    PROVE  Kept
<1>1. phase # "ROLLING_BACK" /\ status = "success"
  BY DEF EngineInv, TakeTurns, Over
<1>2. CASE Quit
  BY <1>2, ReturnIsKept DEF Quit
<1>3. CASE Complete
  BY <1>3, ReturnIsKept DEF Complete
<1>4. CASE Fail("internal_error") \/ Fail("check_failed")
  BY <1>1, <1>4, ReturnIsKept DEF Fail
<1>5. CASE DeclineConfirm
  BY <1>5, OfferIsKept, ExecuteIsKept DEF DeclineConfirm
<1>6. CASE HandleStepFailure
  BY <1>6, OfferIsKept, ExecuteIsKept DEF HandleStepFailure
<1>7. ASSUME NEW a \in Actions, HandleSignal(a) PROVE Kept
  <2>1. CASE Execute("user_abort")
    BY <2>1, ExecuteIsKept
  <2>2. CASE Return(status, phase)
    BY <1>1, <2>2, ReturnIsKept
  <2>. QED  BY <1>2, <1>7, <2>1, <2>2 DEF HandleSignal
<1>. QED  BY <1>2, <1>3, <1>4, <1>5, <1>6, <1>7

(* A check is run, or ends the run.                                        *)
LEMMA CheckIsKept ==
    ASSUME EngineInv, NEW o \in CommandOutcomes \cup {"error"}, RunCheck(o)
    PROVE  Kept
<1>1. at = "checks" /\ ~Over(at) /\ UNCHANGED <<results, ran>>
  BY DEF RunCheck, Over
<1>2. results' \in Seq(Reports) /\ Succeeded' = Succeeded
  BY <1>1 DEF Succeeded, EngineInv, RunTypes
<1>3. CASE CheckPasses
  <2>1. EngineInv'
    BY <1>1, <1>3, EngineUntouched DEF CheckPasses, Over
  <2>2. ContractStep
    BY <1>1, <1>3, ContractUntouched DEF CheckPasses, engineVars
  <2>. QED  BY <2>1, <2>2 DEF Kept
<1>4. CASE Fail("internal_error") \/ Fail("check_failed")
  BY <1>1, <1>2, <1>4, WaysOutAreKept
<1>. QED  BY <1>3, <1>4 DEF RunCheck

LEMMA RunStepIsKept == ASSUME EngineInv, RunStep PROVE Kept
<1>1. ASSUME NEW o \in CommandOutcomes \cup {"error"}, RunCheck(o) PROVE Kept
  BY <1>1, CheckIsKept
<1>2. ASSUME PollInChecks, action \in Actions PROVE Kept
  <2>1. ~Over(at) /\ UNCHANGED <<results, ran>> /\ HandleSignal(action)
    BY <1>2 DEF PollInChecks, Over
  <2>2. results' \in Seq(Reports) /\ Succeeded' = Succeeded
    BY <2>1 DEF Succeeded, EngineInv, RunTypes
  <2>. QED  BY <1>2, <2>1, <2>2, WaysOutAreKept
<1>3. ASSUME PollInChecks PROVE action \in Actions
  BY <1>3 DEF PollInChecks, HandleSignal, Actions
<1>4. ASSUME DispatchSteps PROVE Kept
  <2>1. EngineInv'
    BY <1>4, PhaseBeforeUndo DEF DispatchSteps, Over
  <2>2. ContractStep
    BY <1>4, ContractUntouched DEF DispatchSteps, Over, engineVars
  <2>. QED  BY <2>1, <2>2 DEF Kept
<1>5. ASSUME NEW yes \in BOOLEAN, AnswerPlan(yes) PROVE Kept
  <2>1. EngineInv'
    BY <1>5, AnswerKeepsEngine
  <2>2. CASE yes
    BY <1>5, <2>1, <2>2, ContractBegin DEF AnswerPlan, Over, Kept
  <2>3. CASE ~yes
    BY <1>5, <2>1, <2>3, ContractReturn DEF AnswerPlan, Over, Kept
  <2>. QED  BY <2>1, <2>2, <2>3 DEF Kept
<1>6. ASSUME NEW o \in CommandOutcomes, RunRollbackBlock(o) PROVE Kept
  BY <1>6, BlockKeepsEngine, ContractUndo DEF Kept
<1>7. ASSUME FinishRollback PROVE Kept
  BY <1>7, FinishKeepsEngine, ContractFinish DEF Kept
<1>. QED  BY <1>1, <1>2, <1>3, <1>4, <1>5, <1>6, <1>7 DEF RunStep

LEMMA InterruptIsKept == ASSUME EngineInv, Operator PROVE Kept
<1>1. UNCHANGED <<at, phase, status, engineVars, results, ran>>
  BY DEF Operator, Interrupt
<1>2. EngineInv'
  BY <1>1, EngineUntouched
<1>3. ContractStep
  BY <1>1, ContractUntouched DEF engineVars
<1>. QED  BY <1>2, <1>3 DEF Kept

-----------------------------------------------------------------------------
(***************************************************************************)
(* What the invariant says of a run.                                       *)
(***************************************************************************)
LEMMA EngineAccounts == EngineInv => RollbackAccounting
<1>. SUFFICES ASSUME EngineInv PROVE RollbackAccounting
  OBVIOUS
<1>. DEFINE listed == stack \o plan \o UndoneInOrder
<1>1. stack \in Seq(Steps) /\ plan \in Seq(Steps) /\ UndoneInOrder \in Seq(Steps)
  BY UndoneFacts DEF EngineInv, RunTypes
<1>2. /\ stack \o plan \in Seq(Steps)
      /\ ToSet(stack \o plan) = ToSet(stack) \cup ToSet(plan)
      /\ Distinct(stack \o plan)
  <2>1. ToSet(stack) \cap ToSet(plan) = {}
    <3>1. stack = <<>> \/ plan = <<>>
      BY DEF EngineInv, TakeTurns
    <3>. QED  BY <3>1, EmptyFacts
  <2>. QED  BY <1>1, <2>1, ConcatFacts DEF EngineInv
<1>3. ToSet(listed) = Listed /\ Distinct(listed)
  <2>1. ToSet(stack \o plan) \cap ToSet(UndoneInOrder) = {}
    <3>1. CASE stack = <<>>
      BY <1>2, <3>1, EmptyFacts DEF EngineInv, Undone
    <3>2. CASE entries = <<>>
      <4>1. UndoneInOrder = <<>>
        BY <3>2, <1>1, EmptySeq, LenProperties DEF UndoneInOrder
      <4>. QED  BY <4>1, EmptyFacts
    <3>. QED  BY <3>1, <3>2 DEF EngineInv, TakeTurns
  <2>2. Distinct(UndoneInOrder)
    BY DEF EngineInv
  <2>3. \A q, r \in Seq(Steps) :
           /\ ToSet(q \o r) = ToSet(q) \cup ToSet(r)
           /\ Distinct(q) /\ Distinct(r) /\ ToSet(q) \cap ToSet(r) = {} => Distinct(q \o r)
    BY ConcatFacts
  <2>. HIDE DEF listed
  <2>4. listed = (stack \o plan) \o UndoneInOrder
    BY DEF listed
  <2>. QED  BY <1>1, <1>2, <2>1, <2>2, <2>3, <2>4 DEF Listed, Undone
<1>. QED  BY <1>3 DEF EngineInv, RollbackAccounting, Distinct

LEMMA EngineCompletes == EngineInv => RollbackIsComplete
<1>. SUFFICES ASSUME EngineInv, Ended, phase = "ROLLING_BACK"
              PROVE  Succeeded \cap HasRollback \subseteq Undone
  BY DEF RollbackIsComplete
<1>1. stack = <<>> /\ plan = <<>>
  BY DEF EngineInv, TakeTurns, Ended
<1>2. Listed = Undone
  BY <1>1, EmptyFacts DEF Listed
<1>. QED  BY <1>2 DEF EngineInv
=============================================================================
