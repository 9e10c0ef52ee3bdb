--------------------------- MODULE AuditStoreProofs ---------------------------
(***************************************************************************)
(* Proofs about the audit database: for any runs, any number of step rows, *)
(* any times and any number of prunes, a Prune takes a run with all its    *)
(* rows or leaves it with all of them, and the lists are newest first up   *)
(* to a second.                                                            *)
(***************************************************************************)
EXTENDS AuditStore, FiniteSetTheorems, SequenceTheorems, WellFoundedInduction, TLAPS

Places == {"idle", "begun", "going", "over"}
StepRow == [id : Nat, run : Ids]

StoreTypes ==
    /\ now \in Nat /\ lastId \in Nat /\ cutoff \in Int /\ latest \in Int
    /\ at \in [Ids -> Places] /\ started \in [Ids -> Int]
    /\ wrote \in [Ids -> Seq(StepRow)]
    /\ IsFiniteSet(runs)
    /\ unlisted \subseteq Ids /\ overtaken \subseteq Ids

Begun == \A r \in Ids : at[r] # "idle" => started[r] <= now

(* A run has at most one row, and it says when the run started.            *)
Listed ==
    /\ \A x \in runs : /\ x.id \in Ids /\ at[x.id] \in {"going", "over"}
                       /\ x.startedAt = TimeText(started[x.id])
    /\ \A x, y \in runs : x.id = y.id => x = y

(* The step rows of a run are numbered in the order it wrote them.         *)
Written ==
    /\ \A r \in Ids : /\ at[r] \in {"idle", "begun"} => wrote[r] = <<>>
                      /\ \A i \in DOMAIN wrote[r] : wrote[r][i].run = r /\ wrote[r][i].id <= lastId
                      /\ \A i, j \in DOMAIN wrote[r] : i < j => wrote[r][i].id < wrote[r][j].id
    /\ \A row \in logs : row.run \in Ids /\ row \in ToSet(wrote[row.run])

(* No Prune has taken a step row of a run a second newer than its cutoff.  *)
Kept == \A r \in Ids : started[r] >= latest + Second => ToSet(wrote[r]) \subseteq logs

(* A run that goes on, or left step rows, has its own row as well.         *)
HasRow(r) == (\E x \in runs : x.id = r) \/ r \in unlisted \cup overtaken
Owned ==
    /\ \A r \in Ids : at[r] = "going" => HasRow(r)
    /\ \A row \in logs : HasRow(row.run)

(* What the second delete of a Prune may take.                             *)
IsOlder(text) == TextBefore(text, TimeText(cutoff))
Pruning == cutoff # NoPrune =>
    /\ cutoff + Second <= now
    /\ \A r \in Ids : at[r] \in {"begun", "going"} /\ IsOlder(TimeText(started[r])) => r \in overtaken
    /\ \A x \in runs : IsOlder(x.startedAt) => x.id \in overtaken \/ \A row \in logs : row.run # x.id

StoreInv == StoreTypes /\ Begun /\ Listed /\ Written /\ Kept /\ Owned /\ Pruning

-----------------------------------------------------------------------------
(***************************************************************************)
(* Times and their texts.                                                  *)
(***************************************************************************)
(* The text whose first number is smaller is before the other.             *)
LEMMA FirstDecides ==
    ASSUME NEW u \in Seq(Int), NEW v \in Seq(Int), Len(u) >= 1, Len(v) >= 1, v[1] < u[1]
    PROVE  TextBefore(v, u) /\ ~TextBefore(u, v)
<1>1. TextBefore(v, u)
  <2>1. 1 \in 1..Len(u) /\ \A k \in 1..1-1 : k \in DOMAIN v /\ v[k] = u[k]
    OBVIOUS
  <2>2. QED
    BY <2>1 DEF TextBefore
<1>2. ~TextBefore(u, v)
  <2> SUFFICES ASSUME NEW i \in 1..Len(v),
                      \A k \in 1..i-1 : k \in DOMAIN u /\ u[k] = v[k],
                      i > Len(u) \/ u[i] < v[i]
               PROVE  FALSE
    BY DEF TextBefore
  <2>1. u[1] \in Int /\ v[1] \in Int /\ u[1] # v[1]
    OBVIOUS
  <2>2. i = 1
    BY <2>1
  <2>3. QED
    BY <2>1, <2>2
<1>3. QED
  BY <1>1, <1>2

(* A time that is a second later has the later text.                       *)
LEMMA TextFacts ==
    ASSUME NEW a \in Int, NEW b \in Int, a >= b + Second
    PROVE  /\ TextBefore(TimeText(b), TimeText(a))
           /\ ~TextBefore(TimeText(a), TimeText(b))
<1>1. a \div Second > b \div Second
  BY DEF Second
<1>2. ASSUME NEW t \in Int
      PROVE  Len(TimeText(t)) >= 1 /\ TimeText(t)[1] = t \div Second /\ TimeText(t) \in Seq(Int)
  <2>1. t \div Second \in Int /\ t % Second \in Int
    BY DEF Second
  <2>2. Fraction(t % Second) \in Seq(Int)
    BY <2>1 DEF Fraction
  <2>3. QED
    BY <2>1, <2>2, ConcatProperties DEF TimeText
<1>3. TimeText(b)[1] < TimeText(a)[1]
  BY <1>1, <1>2
<1>4. QED
  BY <1>2, <1>3, FirstDecides

(* What started a second after a cutoff is not older than it.              *)
LEMMA NotOlder ==
    ASSUME NEW r \in Ids, started[r] \in Int, NEW c \in Int, started[r] >= c + Second
    PROVE  ~TextBefore(TimeText(started[r]), TimeText(c))
BY TextFacts

-----------------------------------------------------------------------------
(***************************************************************************)
(* The invariant, one lemma for each of its parts that a step disturbs.    *)
(***************************************************************************)
LEMMA StoreInit == Init => StoreInv
<1> SUFFICES ASSUME Init PROVE StoreInv
  OBVIOUS
<1>1. StoreTypes
  BY StoreAssumption, FS_EmptySet DEF Init, StoreTypes, Places, NoPrune
<1>2. QED
  BY <1>1 DEF Init, StoreInv, Begun, Listed, Written, Kept, Owned, Pruning, ToSet

LEMMA TickStep == StoreInv /\ Tick => StoreInv'
<1> SUFFICES ASSUME StoreInv, Tick PROVE StoreInv'
  OBVIOUS
<1>1. now' \in Nat /\ now' >= now /\ now \in Nat
  BY StoreAssumption DEF StoreInv, StoreTypes, Tick
<1>2. UNCHANGED <<at, started, runs, logs, lastId, cutoff, wrote, unlisted, latest, overtaken>>
  BY DEF Tick
<1>3. StoreTypes' /\ Begun'
  BY <1>1, <1>2 DEF StoreInv, StoreTypes, Begun
<1>4. Listed' /\ Written' /\ Kept' /\ Owned'
  BY <1>2 DEF StoreInv, Listed, Written, Kept, Owned, HasRow
<1>5. Pruning'
  BY <1>1, <1>2 DEF StoreInv, StoreTypes, Pruning, IsOlder, Second
<1>6. QED
  BY <1>3, <1>4, <1>5 DEF StoreInv

(* What begins now is newer than the cutoff of a Prune that goes on.       *)
LEMMA BeginStep ==
    ASSUME StoreInv, NEW r \in Ids, Begin(r)
    PROVE  StoreInv'
<1>1. /\ at[r] = "idle" /\ at' = [at EXCEPT ![r] = "begun"]
      /\ started' = [started EXCEPT ![r] = now] /\ started'[r] = now
      /\ wrote[r] = <<>>
      /\ UNCHANGED <<now, runs, logs, lastId, cutoff, wrote, unlisted, latest, overtaken>>
  BY DEF Begin, StoreInv, StoreTypes, Written
<1>2. \A q \in Ids : q # r => at'[q] = at[q] /\ started'[q] = started[q]
  BY <1>1 DEF StoreInv, StoreTypes
<1>3. StoreTypes' /\ Begun'
  BY <1>1 DEF StoreInv, StoreTypes, Begun, Places
<1>4. \A x \in runs : x.id # r
  BY <1>1 DEF StoreInv, Listed
<1>5. Listed'
  BY <1>1, <1>2, <1>4 DEF StoreInv, Listed
<1>6. Written'
  BY <1>1, <1>2 DEF StoreInv, StoreTypes, Written
<1>7. Kept'
  <2>1. ToSet(wrote'[r]) = {}
    BY <1>1 DEF ToSet
  <2>2. QED
    BY <1>1, <1>2, <2>1 DEF StoreInv, Kept
<1>8. Owned'
  <2>1. \A q \in Ids : HasRow(q) => HasRow(q)'
    BY <1>1 DEF HasRow
  <2>2. at'[r] = "begun"
    BY <1>1 DEF StoreInv, StoreTypes
  <2>3. QED
    BY <1>1, <1>2, <2>1, <2>2 DEF StoreInv, Owned, Written
<1>9. Pruning'
  <2> SUFFICES ASSUME cutoff # NoPrune PROVE Pruning'
    BY <1>1 DEF Pruning
  <2>1. cutoff + Second <= now /\ cutoff \in Int /\ now \in Int
    BY DEF StoreInv, StoreTypes, Pruning
  <2>2. ~IsOlder(TimeText(now))
    BY <2>1, TextFacts DEF IsOlder
  <2>3. QED
    BY <1>1, <1>2, <2>1, <2>2 DEF StoreInv, Pruning, IsOlder
<1>10. QED
  BY <1>3, <1>5, <1>6, <1>7, <1>8, <1>9 DEF StoreInv

LEMMA StartRunStep ==
    ASSUME StoreInv, NEW r \in Ids, StartRun(r)
    PROVE  StoreInv'
<1>1. /\ at[r] = "begun" /\ at' = [at EXCEPT ![r] = "going"]
      /\ runs' = runs \/ runs' = runs \cup {RunRow(r, "running")}
      /\ runs \subseteq runs' /\ unlisted \subseteq unlisted'
      /\ UNCHANGED <<now, started, logs, lastId, cutoff, wrote, latest, overtaken>>
  BY DEF StartRun
<1>2. \A q \in Ids : at'[q] = IF q = r THEN "going" ELSE at[q]
  BY <1>1 DEF StoreInv, StoreTypes
<1>3. StoreTypes' /\ Begun'
  <2>1. IsFiniteSet(runs')
    <3>1. IsFiniteSet(runs)
      BY DEF StoreInv, StoreTypes
    <3>2. IsFiniteSet(runs \cup {RunRow(r, "running")})
      BY <3>1, FS_AddElement, Zenon
    <3>3. QED
      BY <1>1, <3>1, <3>2
  <2>2. unlisted' \subseteq Ids
    BY DEF StartRun, StoreInv, StoreTypes
  <2>3. QED
    BY <1>1, <1>2, <2>1, <2>2 DEF StoreInv, StoreTypes, Begun, Places
<1>4. \A x \in runs : x.id # r
  BY <1>1 DEF StoreInv, Listed
<1>5. Listed'
  <2>1. /\ RunRow(r, "running").id = r
        /\ RunRow(r, "running").startedAt = TimeText(started[r])
    BY DEF RunRow
  <2>2. QED
    BY <1>1, <1>2, <1>4, <2>1 DEF StoreInv, Listed
<1>6. Written'
  BY <1>1, <1>2 DEF StoreInv, StoreTypes, Written
<1>7. Kept'
  BY <1>1 DEF StoreInv, Kept
<1>8. Owned'
  <2>1. \A q \in Ids : HasRow(q) => HasRow(q)'
    BY <1>1 DEF HasRow
  <2>2. HasRow(r)'
    <3>1. RunRow(r, "running").id = r
      BY DEF RunRow
    <3>2. RunRow(r, "running") \in runs' \/ r \in unlisted'
      BY DEF StartRun
    <3>3. QED
      BY <3>1, <3>2 DEF HasRow
  <2>3. QED
    BY <1>1, <1>2, <2>1, <2>2 DEF StoreInv, Owned, Written
<1>9. Pruning'
  <2> SUFFICES ASSUME cutoff # NoPrune PROVE Pruning'
    BY <1>1 DEF Pruning
  <2>1. \A q \in Ids : at'[q] \in {"begun", "going"} /\ IsOlder(TimeText(started[q])) => q \in overtaken
    BY <1>1, <1>2 DEF StoreInv, Pruning
  <2>2. \A x \in runs' : IsOlder(x.startedAt) => x.id \in overtaken \/ \A row \in logs : row.run # x.id
    <3>1. IsOlder(RunRow(r, "running").startedAt) => RunRow(r, "running").id \in overtaken
      BY <1>2, <2>1 DEF RunRow
    <3>2. QED
      BY <1>1, <3>1 DEF StoreInv, Pruning
  <2>3. QED
    BY <1>1, <2>1, <2>2 DEF StoreInv, Pruning, IsOlder
<1>10. QED
  BY <1>3, <1>5, <1>6, <1>7, <1>8, <1>9 DEF StoreInv

(* A row with a greater id at the end leaves the ids in order.             *)
LEMMA RowAppended ==
    ASSUME NEW w \in Seq(StepRow), NEW row \in StepRow,
           \A i \in DOMAIN w : w[i].id < row.id /\ w[i].run = row.run,
           \A i, j \in DOMAIN w : i < j => w[i].id < w[j].id
    PROVE  /\ Append(w, row) \in Seq(StepRow)
           /\ ToSet(Append(w, row)) = ToSet(w) \cup {row}
           /\ \A i \in DOMAIN Append(w, row) :
                 Append(w, row)[i].id <= row.id /\ Append(w, row)[i].run = row.run
           /\ \A i, j \in DOMAIN Append(w, row) :
                 i < j => Append(w, row)[i].id < Append(w, row)[j].id
<1> DEFINE v == Append(w, row)
<1>1. /\ v \in Seq(StepRow) /\ Len(w) \in Nat
      /\ DOMAIN w = 1..Len(w) /\ DOMAIN v = 1..Len(w) + 1
      /\ \A i \in 1..Len(w) : v[i] = w[i]
      /\ v[Len(w) + 1] = row
  OBVIOUS
<1>2. \A i \in 1..Len(w) : w[i] \in StepRow
  BY <1>1
<1> HIDE DEF v
<1>3. ToSet(v) = ToSet(w) \cup {row}
  <2>1. \A x \in ToSet(v) : x \in ToSet(w) \cup {row}
    BY <1>1 DEF ToSet
  <2>2. \A x \in ToSet(w) \cup {row} : x \in ToSet(v)
    BY <1>1 DEF ToSet
  <2>3. QED
    BY <2>1, <2>2
<1>4. \A i \in DOMAIN w : w[i].id \in Nat /\ row.id \in Nat
  BY <1>1, <1>2 DEF StepRow
<1>5. \A i \in DOMAIN v : v[i].id <= row.id /\ v[i].run = row.run
  <2>1. row.id \in Nat
    BY DEF StepRow
  <2>2. QED
    BY <1>1, <1>4, <2>1
<1>6. \A i, j \in DOMAIN v : i < j => v[i].id < v[j].id
  BY <1>1, <1>4
<1>7. QED
  BY <1>1, <1>3, <1>5, <1>6 DEF v

LEMMA LogStepStep ==
    ASSUME StoreInv, NEW r \in Ids, LogStep(r)
    PROVE  StoreInv'
<1> DEFINE row == [id |-> lastId + 1, run |-> r]
<1>1. /\ at[r] = "going" /\ logs' = logs \cup {row} /\ lastId' = lastId + 1
      /\ wrote' = [wrote EXCEPT ![r] = Append(wrote[r], row)]
      /\ UNCHANGED <<now, at, started, runs, cutoff, unlisted, latest, overtaken>>
  BY DEF LogStep
<1>2. row \in StepRow /\ row.run = r /\ row.id = lastId + 1 /\ lastId \in Nat
  BY DEF StoreInv, StoreTypes, StepRow
<1> HIDE DEF row
<1>3. \A q \in Ids : /\ wrote[q] \in Seq(StepRow)
                     /\ wrote'[q] = IF q = r THEN Append(wrote[r], row) ELSE wrote[q]
  BY <1>1 DEF StoreInv, StoreTypes
<1>4. /\ Append(wrote[r], row) \in Seq(StepRow)
      /\ ToSet(Append(wrote[r], row)) = ToSet(wrote[r]) \cup {row}
      /\ \A i \in DOMAIN Append(wrote[r], row) :
            Append(wrote[r], row)[i].id <= row.id /\ Append(wrote[r], row)[i].run = row.run
      /\ \A i, j \in DOMAIN Append(wrote[r], row) :
            i < j => Append(wrote[r], row)[i].id < Append(wrote[r], row)[j].id
  <2>1. /\ \A i \in DOMAIN wrote[r] : wrote[r][i].run = r /\ wrote[r][i].id <= lastId
        /\ \A i, j \in DOMAIN wrote[r] : i < j => wrote[r][i].id < wrote[r][j].id
    BY DEF StoreInv, Written
  <2>2. \A i \in DOMAIN wrote[r] : wrote[r][i] \in StepRow
    BY <1>3
  <2>3. \A i \in DOMAIN wrote[r] : wrote[r][i].id < row.id /\ wrote[r][i].run = row.run
    BY <1>2, <2>1, <2>2 DEF StepRow
  <2>4. QED
    BY <1>2, <1>3, <2>1, <2>3, RowAppended
<1>5. StoreTypes'
  BY <1>1, <1>2, <1>4 DEF StoreInv, StoreTypes
<1>6. Begun' /\ Listed'
  BY <1>1 DEF StoreInv, Begun, Listed
<1>7. \A q \in Ids : ToSet(wrote'[q]) = IF q = r THEN ToSet(wrote[r]) \cup {row} ELSE ToSet(wrote[q])
  BY <1>3, <1>4
<1>8. Written'
  <2>1. /\ \A i \in DOMAIN wrote'[r] : wrote'[r][i].run = r /\ wrote'[r][i].id <= lastId'
        /\ \A i, j \in DOMAIN wrote'[r] : i < j => wrote'[r][i].id < wrote'[r][j].id
    <3>1. wrote'[r] = Append(wrote[r], row)
      BY <1>3
    <3>2. row.id = lastId' /\ row.run = r
      BY <1>1, <1>2
    <3>3. QED
      BY <1>4, <3>1, <3>2
  <2>2. ASSUME NEW q \in Ids, q # r
        PROVE  /\ \A i \in DOMAIN wrote'[q] : wrote'[q][i].run = q /\ wrote'[q][i].id <= lastId'
               /\ \A i, j \in DOMAIN wrote'[q] : i < j => wrote'[q][i].id < wrote'[q][j].id
    <3>1. wrote'[q] = wrote[q] /\ wrote[q] \in Seq(StepRow)
      BY <1>3, <2>2
    <3>2. \A i \in DOMAIN wrote[q] : wrote[q][i] \in StepRow
      BY <3>1
    <3>3. \A i \in DOMAIN wrote[q] : wrote[q][i].id \in Nat
      BY <3>2 DEF StepRow
    <3>4. QED
      BY <1>1, <1>2, <3>1, <3>3 DEF StoreInv, Written
  <2>3. \A q \in Ids : at'[q] \in {"idle", "begun"} => wrote'[q] = <<>>
    BY <1>1, <1>3 DEF StoreInv, Written
  <2>4. \A x \in logs' : x.run \in Ids /\ x \in ToSet(wrote'[x.run])
    BY <1>1, <1>2, <1>7 DEF StoreInv, Written
  <2>5. QED
    BY <2>1, <2>2, <2>3, <2>4 DEF Written
<1>9. Kept'
  BY <1>1, <1>7 DEF StoreInv, Kept
<1>10. Owned'
  <2>1. \A q \in Ids : HasRow(q)' = HasRow(q)
    BY <1>1 DEF HasRow
  <2>2. QED
    BY <1>1, <1>2, <2>1 DEF StoreInv, Owned, Written
<1>11. Pruning'
  <2> SUFFICES ASSUME cutoff # NoPrune PROVE Pruning'
    BY <1>1 DEF Pruning
  <2>1. ASSUME NEW x \in runs, IsOlder(x.startedAt)
        PROVE  x.id \in overtaken \/ \A y \in logs' : y.run # x.id
    <3>1. x.id = r => x.id \in overtaken
      BY <1>1, <2>1 DEF StoreInv, Pruning, Listed
    <3>2. QED
      BY <1>1, <1>2, <2>1, <3>1 DEF StoreInv, Pruning
  <2>2. QED
    BY <1>1, <2>1 DEF StoreInv, Pruning, IsOlder
<1>12. QED
  BY <1>5, <1>6, <1>8, <1>9, <1>10, <1>11 DEF StoreInv

(* The end of a run changes the status of its row and nothing else of it.  *)
LEMMA EndRunStep ==
    ASSUME StoreInv, NEW r \in Ids, EndRun(r)
    PROVE  StoreInv'
<1> DEFINE Ended(row) == IF row.id = r THEN RunRow(r, "ended") ELSE row
<1>1. /\ at[r] = "going" /\ at' = [at EXCEPT ![r] = "over"]
      /\ runs' = runs \/ runs' = {Ended(row) : row \in runs}
      /\ UNCHANGED <<now, started, logs, lastId, cutoff, wrote, unlisted, latest, overtaken>>
  BY DEF EndRun
<1>2. \A q \in Ids : at'[q] = IF q = r THEN "over" ELSE at[q]
  BY <1>1 DEF StoreInv, StoreTypes
<1>3. \A x \in runs : Ended(x).id = x.id /\ Ended(x).startedAt = x.startedAt
  BY DEF RunRow, StoreInv, Listed
<1>4. IsFiniteSet(runs')
  <2>1. IsFiniteSet({Ended(row) : row \in runs})
    <3> DEFINE T == {Ended(row) : row \in runs}
               f == [row \in runs |-> Ended(row)]
    <3>1. IsFiniteSet(runs)
      BY DEF StoreInv, StoreTypes
    <3> HIDE DEF Ended
    <3>2. f \in Surjection(runs, T)
      BY DEF Surjection
    <3> HIDE DEF f, T
    <3>3. IsFiniteSet(T)
      BY <3>1, <3>2, FS_Surjection
    <3>4. QED
      BY <3>3 DEF T
  <2>2. QED
    BY <1>1, <2>1 DEF StoreInv, StoreTypes
<1> HIDE DEF Ended
<1>5. /\ \A y \in runs' : \E x \in runs : /\ y.id = x.id /\ y.startedAt = x.startedAt
                                          /\ y = x \/ y = Ended(x)
      /\ \A x \in runs : \E y \in runs' : y.id = x.id
  BY <1>1, <1>3
<1>6. StoreTypes' /\ Begun'
  BY <1>1, <1>2, <1>4 DEF StoreInv, StoreTypes, Begun, Places
<1>7. Listed'
  <2>1. \A y \in runs' : /\ y.id \in Ids /\ at'[y.id] \in {"going", "over"}
                         /\ y.startedAt = TimeText(started'[y.id])
    BY <1>1, <1>2, <1>5 DEF StoreInv, Listed
  <2>2. ASSUME NEW y \in runs', NEW z \in runs', y.id = z.id
        PROVE  y = z
    <3>1. CASE runs' = runs
      BY <2>2, <3>1 DEF StoreInv, Listed
    <3>2. CASE runs' = {Ended(row) : row \in runs}
      BY <1>3, <2>2, <3>2 DEF StoreInv, Listed
    <3>3. QED
      BY <1>1, <3>1, <3>2
  <2>3. QED
    BY <2>1, <2>2 DEF Listed
<1>8. Written' /\ Kept'
  BY <1>1, <1>2 DEF StoreInv, StoreTypes, Written, Kept
<1>9. Owned'
  <2>1. \A q \in Ids : HasRow(q) => HasRow(q)'
    BY <1>1, <1>5 DEF HasRow
  <2>2. QED
    BY <1>1, <1>2, <2>1 DEF StoreInv, Owned, Written
<1>10. Pruning'
  BY <1>1, <1>2, <1>5 DEF StoreInv, Pruning, IsOlder
<1>11. QED
  BY <1>6, <1>7, <1>8, <1>9, <1>10 DEF StoreInv

LEMMA KillStep ==
    ASSUME StoreInv, NEW r \in Ids, Kill(r)
    PROVE  StoreInv'
<1>1. /\ at[r] \in {"begun", "going"} /\ at' = [at EXCEPT ![r] = "over"]
      /\ UNCHANGED <<now, started, runs, logs, lastId, cutoff, wrote, unlisted, latest, overtaken>>
  BY DEF Kill
<1>2. \A q \in Ids : at'[q] = IF q = r THEN "over" ELSE at[q]
  BY <1>1 DEF StoreInv, StoreTypes
<1>3. StoreTypes' /\ Begun'
  BY <1>1, <1>2 DEF StoreInv, StoreTypes, Begun, Places
<1>4. Listed'
  BY <1>1, <1>2 DEF StoreInv, Listed
<1>5. Written' /\ Kept'
  BY <1>1, <1>2 DEF StoreInv, StoreTypes, Written, Kept
<1>6. Owned'
  <2>1. \A q \in Ids : HasRow(q)' = HasRow(q)
    BY <1>1 DEF HasRow
  <2>2. QED
    BY <1>1, <1>2, <2>1 DEF StoreInv, Owned, Written
<1>7. Pruning'
  BY <1>1, <1>2 DEF StoreInv, Pruning, IsOlder
<1>8. QED
  BY <1>3, <1>4, <1>5, <1>6, <1>7 DEF StoreInv

(* The first delete: the runs it goes by are older than every start a      *)
(* second after the cutoff, and those that still go on are overtaken.      *)
LEMMA BeginPruneStep == StoreInv /\ BeginPrune => StoreInv'
<1> SUFFICES ASSUME StoreInv, BeginPrune PROVE StoreInv'
  OBVIOUS
<1> DEFINE c == now - Retention
           old == Older(c)
           going == {r \in Ids : at[r] \in {"begun", "going"}}
<1>1. /\ cutoff' = c /\ logs' = {row \in logs : row.run \notin old}
      /\ latest' = IF c > latest THEN c ELSE latest
      /\ overtaken' = overtaken \cup going
      /\ UNCHANGED <<now, at, started, runs, lastId, wrote, unlisted>>
  BY DEF BeginPrune, LogsFirst, WithoutLogs
<1>2. c \in Int /\ latest \in Int /\ c + Second <= now /\ latest' \in Int /\ latest' >= c /\ latest' >= latest
  BY <1>1, StoreAssumption DEF StoreInv, StoreTypes, Second
<1>3. StoreTypes'
  BY <1>1, <1>2 DEF StoreInv, StoreTypes
<1>4. Begun' /\ Listed'
  BY <1>1 DEF StoreInv, Begun, Listed
<1>5. Written'
  BY <1>1 DEF StoreInv, Written
<1>6. Kept'
  <2> SUFFICES ASSUME NEW r \in Ids, started[r] >= latest' + Second
               PROVE  ToSet(wrote[r]) \subseteq logs'
    BY <1>1 DEF Kept
  <2>1. started[r] \in Int
    BY DEF StoreInv, StoreTypes
  <2>2. started[r] >= latest + Second /\ started[r] >= c + Second
    BY <1>2, <2>1 DEF Second
  <2>3. ToSet(wrote[r]) \subseteq logs
    BY <2>2 DEF StoreInv, Kept
  <2>4. r \notin old
    BY <1>2, <2>1, <2>2, NotOlder DEF Older, StoreInv, Listed
  <2>5. \A row \in ToSet(wrote[r]) : row.run = r
    BY DEF StoreInv, Written, ToSet
  <2>6. QED
    BY <1>1, <2>3, <2>4, <2>5
<1>7. Owned'
  <2>1. \A q \in Ids : HasRow(q) => HasRow(q)'
    BY <1>1 DEF HasRow
  <2>2. QED
    BY <1>1, <2>1 DEF StoreInv, Owned, Written
<1>8. Pruning'
  <2>1. ASSUME NEW x \in runs', IsOlder(x.startedAt)'
        PROVE  \A row \in logs' : row.run # x.id
    <3>1. x.id \in old
      BY <1>1, <2>1 DEF Older, IsOlder
    <3>2. QED
      BY <1>1, <3>1
  <2>2. QED
    BY <1>1, <1>2, <2>1 DEF Pruning
<1>9. QED
  BY <1>3, <1>4, <1>5, <1>6, <1>7, <1>8 DEF StoreInv

(* The second delete takes no row of a run that left step rows, unless the *)
(* run was going on when the Prune looked.                                 *)
LEMMA EndPruneStep == StoreInv /\ EndPrune => StoreInv'
<1> SUFFICES ASSUME StoreInv, EndPrune PROVE StoreInv'
  OBVIOUS
<1>1. /\ cutoff # NoPrune /\ cutoff' = NoPrune
      /\ runs' = runs \/ runs' = {row \in runs : row.id \notin Older(cutoff)}
      /\ UNCHANGED <<now, at, started, logs, lastId, wrote, unlisted, latest, overtaken>>
  BY DEF EndPrune, WithoutRuns
<1>2. runs' \subseteq runs
  BY <1>1
<1>3. StoreTypes'
  BY <1>1, <1>2, FS_Subset DEF StoreInv, StoreTypes, NoPrune
<1>4. Begun' /\ Listed' /\ Written' /\ Kept'
  BY <1>1, <1>2 DEF StoreInv, Begun, Listed, Written, Kept
<1>5. Owned'
  <2>1. ASSUME NEW q \in Ids, HasRow(q), at[q] = "going" \/ \E row \in logs : row.run = q
        PROVE  HasRow(q)'
    <3>1. CASE q \in unlisted \cup overtaken
      BY <1>1, <3>1 DEF HasRow
    <3>2. CASE q \notin unlisted \cup overtaken
      <4>1. PICK x \in runs : x.id = q
        BY <2>1, <3>2 DEF HasRow
      <4>2. x.startedAt = TimeText(started[q])
        BY <4>1 DEF StoreInv, Listed
      <4>3. ~IsOlder(x.startedAt)
        BY <1>1, <2>1, <3>2, <4>1, <4>2 DEF StoreInv, Pruning
      <4>4. \A y \in runs : y.id = q => y = x
        BY <4>1 DEF StoreInv, Listed
      <4>5. q \notin Older(cutoff)
        BY <4>3, <4>4 DEF Older, IsOlder
      <4>6. x \in runs'
        BY <1>1, <4>1, <4>5
      <4>7. QED
        BY <4>1, <4>6 DEF HasRow
    <3>3. QED
      BY <3>1, <3>2
  <2>2. QED
    BY <1>1, <2>1 DEF StoreInv, Owned, Written
<1>6. Pruning'
  BY <1>1 DEF Pruning
<1>7. QED
  BY <1>3, <1>4, <1>5, <1>6 DEF StoreInv

(* What the audit database promises rests on StoreInv, which every step    *)
(* of the runs and of the prunes keeps.                                    *)
THEOREM StoreInvariant == Spec => []StoreInv
<1>1. StoreInv /\ [Next]_vars => StoreInv'
  <2> SUFFICES ASSUME StoreInv, [Next]_vars PROVE StoreInv'
    OBVIOUS
  <2>1. CASE Tick
    BY <2>1, TickStep
  <2>2. CASE BeginPrune
    BY <2>2, BeginPruneStep
  <2>3. CASE EndPrune
    BY <2>3, EndPruneStep
  <2>4. CASE \E r \in Ids : Begin(r) \/ StartRun(r) \/ LogStep(r) \/ EndRun(r) \/ Kill(r)
    BY <2>4, BeginStep, StartRunStep, LogStepStep, EndRunStep, KillStep
  <2>5. CASE UNCHANGED vars
    BY <2>5 DEF vars, StoreInv, StoreTypes, Begun, Listed, Written, Kept, Owned, HasRow, Pruning, IsOlder
  <2>6. QED
    BY <2>1, <2>2, <2>3, <2>4, <2>5 DEF Next
<1>2. QED
  BY <1>1, StoreInit, PTL DEF Spec

-----------------------------------------------------------------------------
(***************************************************************************)
(* What the queries make of the tables.                                    *)
(***************************************************************************)
(* An order in which a query may give a finite set of rows has them all.   *)
LEMMA Enumerated ==
    ASSUME NEW S, IsFiniteSet(S), NEW s \in SetToSeqs(S)
    PROVE  s \in Seq(S) /\ ToSet(s) = S
<1> DEFINE n == Cardinality(S)
<1>1. n \in Nat
  BY FS_CardinalityType
<1>2. s \in [1..n -> S] /\ \A i, j \in 1..n : i # j => s[i] # s[j]
  BY DEF SetToSeqs
<1>3. s \in Seq(S)
  BY <1>1, <1>2
<1>4. s \in Injection(1..n, S)
  BY <1>2 DEF Injection, IsInjective
<1>5. Cardinality(1..n) = n
  BY <1>1, FS_Interval
<1>6. s \in Surjection(1..n, S)
  BY <1>4, <1>5, FS_Injection
<1>7. ToSet(s) = S
  BY <1>2, <1>6 DEF Surjection, ToSet
<1>8. QED
  BY <1>3, <1>7

LEMMA LeastElement ==
    ASSUME NEW T \in SUBSET Nat, T # {}
    PROVE  \E n \in T : \A m \in T : n <= m
<1>1. PICK n \in T : \A m \in T : <<m, n>> \notin OpToRel(<, Nat)
  BY WFMin, NatLessThanWellFounded, Zenon
<1>2. \A m \in T : ~(m < n)
  BY <1>1, Zenon DEF OpToRel
<1>3. QED
  BY <1>2

InIdOrder(s) == \A i, j \in DOMAIN s : i < j => s[i].id < s[j].id

(* Two sequences of the same rows in the order of their ids agree as far   *)
(* as the first of them goes: no first place where they differ.            *)
LEMMA SortedAgree ==
    ASSUME NEW S, \A x \in S : x.id \in Nat,
           NEW s \in Seq(S), NEW w \in Seq(S), ToSet(s) = ToSet(w), InIdOrder(s), InIdOrder(w)
    PROVE  \A k \in 1..Len(s) : k <= Len(w) /\ s[k] = w[k]
<1> DEFINE Bad == {k \in 1..Len(s) : ~(k <= Len(w) /\ s[k] = w[k])}
<1> SUFFICES ASSUME Bad # {} PROVE FALSE
  OBVIOUS
<1>1. PICK k \in Bad : \A m \in Bad : k <= m
  <2>1. Bad \in SUBSET Nat
    OBVIOUS
  <2> HIDE DEF Bad
  <2>2. QED
    BY <2>1, LeastElement
<1>2. k \in 1..Len(s) /\ ~(k <= Len(w) /\ s[k] = w[k])
  OBVIOUS
<1>3. \A m \in 1..k-1 : m \in 1..Len(s) /\ m <= Len(w) /\ s[m] = w[m]
  <2>1. ASSUME NEW m \in 1..k-1
        PROVE  m \in 1..Len(s) /\ m <= Len(w) /\ s[m] = w[m]
    <3>1. m \notin Bad
      BY <1>1
    <3>2. QED
      BY <1>2, <3>1
  <2>2. QED
    BY <2>1
<1>4. /\ \A i \in 1..Len(s) : s[i].id \in Nat
      /\ \A i \in 1..Len(w) : w[i].id \in Nat
  OBVIOUS
<1> HIDE DEF Bad
<1> DEFINE rows == ToSet(s)
<1>5. /\ \A i \in 1..Len(s) : s[i] \in rows
      /\ \A i \in 1..Len(w) : w[i] \in rows
      /\ \A x \in rows : (\E i \in 1..Len(s) : x = s[i]) /\ (\E i \in 1..Len(w) : x = w[i])
  <2>1. DOMAIN s = 1..Len(s) /\ DOMAIN w = 1..Len(w)
    OBVIOUS
  <2>2. ToSet(s) = {s[i] : i \in 1..Len(s)} /\ ToSet(w) = {w[i] : i \in 1..Len(w)}
    BY <2>1 DEF ToSet
  <2> HIDE DEF rows
  <2>3. rows = {s[i] : i \in 1..Len(s)} /\ rows = {w[i] : i \in 1..Len(w)}
    BY <2>2 DEF rows
  <2>4. QED
    BY <2>3
<1> HIDE DEF rows
<1>6. PICK j \in 1..Len(w) : s[k] = w[j]
  <2>1. s[k] \in rows
    BY <1>2, <1>5
  <2>2. QED
    BY <2>1, <1>5
<1>7. j > k
  <2>1. j < k => FALSE
    <3> SUFFICES ASSUME j < k PROVE FALSE
      OBVIOUS
    <3>1. j \in 1..Len(s) /\ s[j] = s[k]
      BY <1>2, <1>3, <1>6
    <3>2. s[j].id < s[k].id
      BY <1>2, <3>1 DEF InIdOrder
    <3>3. QED
      BY <1>2, <1>4, <3>1, <3>2
  <2>2. j # k
    BY <1>2, <1>6
  <2>3. QED
    BY <1>2, <2>1, <2>2
<1>8. k \in 1..Len(w) /\ w[k].id < s[k].id
  BY <1>2, <1>6, <1>7 DEF InIdOrder
<1>9. PICK i \in 1..Len(s) : w[k] = s[i]
  BY <1>8, <1>5
<1>10. i < k
  <2>1. i > k => s[k].id < s[i].id
    BY <1>2 DEF InIdOrder
  <2>2. QED
    BY <1>2, <1>4, <1>8, <1>9, <2>1
<1>11. w[i] = w[k] /\ i \in 1..Len(w)
  BY <1>3, <1>8, <1>9, <1>10
<1>12. w[i].id < w[k].id
  BY <1>8, <1>10, <1>11 DEF InIdOrder
<1>13. QED
  BY <1>4, <1>8, <1>11, <1>12

LEMMA SortedIsUnique ==
    ASSUME NEW S, \A x \in S : x.id \in Nat,
           NEW s \in Seq(S), NEW w \in Seq(S), ToSet(s) = ToSet(w), InIdOrder(s), InIdOrder(w)
    PROVE  s = w
<1>1. \A k \in 1..Len(s) : k <= Len(w) /\ s[k] = w[k]
  BY SortedAgree
<1>2. \A k \in 1..Len(w) : k <= Len(s)
  BY SortedAgree
<1>3. Len(s) = Len(w)
  BY <1>1, <1>2
<1>4. QED
  BY <1>1, <1>3

(* The order of a query over the runs is newest first up to a second.      *)
LEMMA OrderedFacts ==
    ASSUME StoreInv, NEW S \in SUBSET runs, NEW s \in Ordered(S)
    PROVE  /\ s \in Seq(S) /\ ToSet(s) = S
           /\ \A i, j \in DOMAIN s : i < j => started[s[j].id] < started[s[i].id] + Second
<1>1. s \in SetToSeqs(S) /\ \A i, j \in DOMAIN s : NewestFirst(s[i], s[j]) => i < j
  BY DEF Ordered
<1>2. IsFiniteSet(S)
  BY FS_Subset DEF StoreInv, StoreTypes
<1>3. s \in Seq(S) /\ ToSet(s) = S
  BY <1>1, <1>2, Enumerated
<1>4. ASSUME NEW i \in DOMAIN s, NEW j \in DOMAIN s, i < j
      PROVE  started[s[j].id] < started[s[i].id] + Second
  <2>1. /\ s[i] \in runs /\ s[j] \in runs
        /\ i \in Nat /\ j \in Nat
    BY <1>3
  <2>2. /\ started[s[i].id] \in Int /\ s[i].startedAt = TimeText(started[s[i].id])
        /\ started[s[j].id] \in Int /\ s[j].startedAt = TimeText(started[s[j].id])
    BY <2>1 DEF StoreInv, StoreTypes, Listed
  <2>3. ~NewestFirst(s[j], s[i])
    BY <1>1, <1>4, <2>1
  <2>4. ~(started[s[j].id] >= started[s[i].id] + Second)
    BY <2>2, <2>3, TextFacts DEF NewestFirst
  <2>5. QED
    BY <2>2, <2>4 DEF Second
<1>5. QED
  BY <1>3, <1>4

(* What an operator's list says for any limit.                             *)
ListIsNewestFirst(list) ==
    /\ \A i, j \in DOMAIN list : i < j => started[list[j].id] < started[list[i].id] + Second
    /\ \A row \in runs \ ToSet(list) : \A i \in DOMAIN list :
          started[row.id] < started[list[i].id] + Second

LEMMA EveryLimit ==
    ASSUME StoreInv, NEW limit \in Int, NEW list \in ListRuns(limit)
    PROVE  ListIsNewestFirst(list)
<1> DEFINE n == IF limit <= 0 THEN 20 ELSE limit
<1>1. PICK s \in Ordered(runs) : list = SubSeq(s, 1, IF n < Len(s) THEN n ELSE Len(s))
  BY DEF ListRuns
<1>2. /\ s \in Seq(runs) /\ ToSet(s) = runs
      /\ \A i, j \in DOMAIN s : i < j => started[s[j].id] < started[s[i].id] + Second
  BY OrderedFacts
<1>3. n \in Nat
  OBVIOUS
<1> HIDE DEF n
<1> DEFINE k == IF n < Len(s) THEN n ELSE Len(s)
<1>4. k \in 0..Len(s)
  BY <1>2, <1>3
<1> HIDE DEF k
<1>5. list = SubSeq(s, 1, k)
  BY <1>1 DEF k
<1>6. DOMAIN list = 1..k /\ \A i \in 1..k : list[i] = s[i]
  BY <1>2, <1>4, <1>5
<1>7. ASSUME NEW row \in runs \ ToSet(list), NEW i \in DOMAIN list
      PROVE  started[row.id] < started[list[i].id] + Second
  <2>1. PICK m \in 1..Len(s) : row = s[m]
    BY <1>2 DEF ToSet
  <2>2. m \notin 1..k
    BY <1>6, <1>7, <2>1 DEF ToSet
  <2>3. i < m /\ i \in 1..Len(s)
    BY <1>2, <1>4, <1>6, <2>2
  <2>4. QED
    BY <1>2, <1>6, <2>1, <2>3
<1>8. \A i, j \in DOMAIN list : i < j => started[list[j].id] < started[list[i].id] + Second
  BY <1>2, <1>4, <1>6
<1>9. QED
  BY <1>7, <1>8 DEF ListIsNewestFirst

(* A prefix of an id is in the id; as long as the id, it is the id.        *)
LEMMA PrefixFacts ==
    ASSUME NEW r \in Ids, NEW q \in Ids, IsPrefix(r, q)
    PROVE  q = r
<1>1. r \in Seq(Int) /\ q \in Seq(Int) /\ Len(r) = Len(q)
  BY StoreAssumption
<1>2. SubSeq(r, 1, Len(r)) = SubSeq(q, 1, Len(q))
  BY <1>1 DEF IsPrefix
<1>3. QED
  BY <1>1, <1>2, SubSeqFull

(* What is shown for a prefix: the newest row that has it, up to a second, *)
(* and the step rows of that run in the order of their ids.                *)
LEMMA ShownFacts ==
    ASSUME StoreInv, NEW prefix, NEW shown \in GetRun(prefix)
    PROVE  /\ shown.run \in runs /\ IsPrefix(prefix, shown.run.id)
           /\ shown.steps \in queryStepLogs(shown.run.id)
           /\ \A row \in runs : IsPrefix(prefix, row.id) =>
                 started[row.id] < started[shown.run.id] + Second
<1> DEFINE S == {row \in runs : IsPrefix(prefix, row.id)}
<1>1. PICK s \in Ordered(S) \ {<<>>} :
         \E rows \in queryStepLogs(Head(s).id) : shown = [run |-> Head(s), steps |-> rows]
  BY DEF GetRun
<1>2. shown.run = Head(s) /\ shown.steps \in queryStepLogs(Head(s).id)
  BY <1>1
<1>3. S \in SUBSET runs
  OBVIOUS
<1> HIDE DEF S
<1>4. /\ s \in Seq(S) /\ ToSet(s) = S
      /\ \A i, j \in DOMAIN s : i < j => started[s[j].id] < started[s[i].id] + Second
  BY <1>1, <1>3, OrderedFacts
<1>5. Len(s) >= 1 /\ DOMAIN s = 1..Len(s) /\ Head(s) = s[1] /\ s[1] \in S
  BY <1>1, <1>4
<1>6. ASSUME NEW row \in S
      PROVE  started[row.id] < started[s[1].id] + Second
  <2>1. PICK m \in 1..Len(s) : row = s[m]
    BY <1>4, <1>5 DEF ToSet
  <2>2. CASE m = 1
    <3>1. started[row.id] \in Int
      BY <1>3 DEF StoreInv, StoreTypes, Listed
    <3>2. QED
      BY <2>1, <2>2, <3>1 DEF Second
  <2>3. CASE m # 1
    BY <1>4, <1>5, <2>1, <2>3
  <2>4. QED
    BY <2>2, <2>3
<1>7. QED
  BY <1>2, <1>5, <1>6 DEF S

(* Whatever runs and prunes there are, in whatever order, a Prune takes a  *)
(* run with all its step rows or leaves it with all of them.               *)
THEOREM PruneIsWhole == Spec => []PruneTakesRunsWhole
<1>1. StoreInv => PruneTakesRunsWhole
  <2> SUFFICES ASSUME StoreInv PROVE PruneTakesRunsWhole
    OBVIOUS
  <2>1. ASSUME NEW r \in Ids, started[r] >= latest + Second, NEW shown \in GetRun(r)
        PROVE  shown.run.id = r /\ shown.steps = wrote[r]
    <3>1. shown.run \in runs /\ IsPrefix(r, shown.run.id) /\ shown.steps \in queryStepLogs(shown.run.id)
      BY ShownFacts
    <3>2. shown.run.id = r
      BY <3>1, PrefixFacts DEF StoreInv, Listed
    <3> DEFINE s == shown.steps
               w == wrote[r]
               rows == {row \in logs : row.run = r}
    <3>3. s \in SetToSeqs(rows) /\ \A i, j \in DOMAIN s : i < j => s[i].id < s[j].id
      BY <3>1, <3>2 DEF queryStepLogs
    <3>4. w \in Seq(StepRow) /\ \A i \in DOMAIN w : w[i].run = r
      BY DEF StoreInv, StoreTypes, Written
    <3>5. rows = ToSet(w)
      <4>1. rows \subseteq ToSet(w)
        BY DEF StoreInv, Written
      <4>2. ToSet(w) \subseteq rows
        BY <2>1, <3>4 DEF StoreInv, Kept, ToSet
      <4>3. QED
        BY <4>1, <4>2
    <3>6. InIdOrder(w) /\ InIdOrder(s)
      BY <3>3 DEF InIdOrder, StoreInv, Written
    <3> HIDE DEF s, w, rows
    <3>7. IsFiniteSet(rows) /\ rows \subseteq StepRow
      <4>1. w \in Surjection(1..Len(w), ToSet(w))
        BY <3>4 DEF Surjection, ToSet
      <4>2. IsFiniteSet(1..Len(w))
        BY <3>4, FS_Interval
      <4>3. IsFiniteSet(ToSet(w))
        BY <4>1, <4>2, FS_Surjection
      <4>4. ToSet(w) \subseteq StepRow
        BY <3>4 DEF ToSet
      <4>5. QED
        BY <3>5, <4>3, <4>4
    <3>8. s \in Seq(rows) /\ ToSet(s) = rows
      BY <3>3, <3>7, Enumerated
    <3>9. s \in Seq(StepRow) /\ \A x \in StepRow : x.id \in Nat
      BY <3>7, <3>8, SeqMonotonic DEF StepRow
    <3>10. s = w
      BY <3>4, <3>5, <3>6, <3>8, <3>9, SortedIsUnique
    <3>11. QED
      BY <3>2, <3>10 DEF s, w
  <2>2. \A row \in logs : (\E x \in runs : x.id = row.run) \/ row.run \in unlisted \cup overtaken
    BY DEF StoreInv, Owned, HasRow
  <2>3. QED
    BY <2>1, <2>2 DEF PruneTakesRunsWhole
<1>2. QED
  BY <1>1, StoreInvariant, PTL

(* A list of any length is newest first up to a second and leaves no newer *)
(* run out, and a prefix of an id leads to the newest run that has it.     *)
THEOREM NewestFirstUpToASecond ==
    Spec => []((\A limit \in Int : \A list \in ListRuns(limit) : ListIsNewestFirst(list))
               /\ NewestFirstToTheSecond)
<1>1. StoreInv => \A limit \in Int : \A list \in ListRuns(limit) : ListIsNewestFirst(list)
  BY EveryLimit
<1>2. StoreInv => NewestFirstToTheSecond
  <2> SUFFICES ASSUME StoreInv PROVE NewestFirstToTheSecond
    OBVIOUS
  <2>1. ASSUME NEW limit \in 0..2, NEW list \in ListRuns(limit)
        PROVE  ListIsNewestFirst(list)
    BY <1>1
  <2>2. ASSUME NEW r \in Ids, NEW n \in 1..Len(r), NEW shown \in GetRun(SubSeq(r, 1, n))
        PROVE  /\ IsPrefix(SubSeq(r, 1, n), shown.run.id)
               /\ \A row \in runs : IsPrefix(SubSeq(r, 1, n), row.id) =>
                     started[row.id] < started[shown.run.id] + Second
    BY ShownFacts
  <2>3. QED
    BY <2>1, <2>2 DEF NewestFirstToTheSecond, ListIsNewestFirst
<1>3. QED
  BY <1>1, <1>2, StoreInvariant, PTL
=============================================================================
