------------------------------ MODULE AuditStore ------------------------------
(***************************************************************************)
(* The audit database (src/internal/audit/audit.go) shared by several runs *)
(* and by whoever lists, shows or prunes them: what the two tables hold in *)
(* any interleaving, and what ListRuns and GetRun make of it.  AuditedRun  *)
(* has the rows of one run in detail.                                      *)
(*                                                                         *)
(* Times are hundredths of a second.  The columns hold them as text, which *)
(* SQLite compares as text: the seconds, which are as long in every text,  *)
(* stand as one number; "." comes before the digits and "Z" after them.    *)
(*                                                                         *)
(* Definitions marked "faulty" are variants with a bug, each defined just  *)
(* before the definition it distorts; no specification uses them.          *)
(***************************************************************************)
EXTENDS Integers, FiniteSets, SequencesExt

CONSTANTS
    Ids,        \* the ids of the runs: sequences of letters, all as long
    Instants,   \* bound: the times things happen at
    Retention,  \* retentionDays, a day or more
    MaxRows     \* bound: step rows of a run

Second == 100

ASSUME StoreAssumption ==
    /\ \A r \in Ids : r \in Seq(Int)
    /\ \A r, q \in Ids : Len(r) = Len(q)
    /\ Instants \subseteq Nat /\ MaxRows \in Nat
    /\ Retention \in Nat /\ Retention > Second /\ \A t \in Instants : t >= Retention

VARIABLES
    now,
    at,         \* where each run is
    started,    \* when it started
    runs,       \* table runs
    logs,       \* table step_logs
    lastId,     \* its AUTOINCREMENT: ids are never given twice
    cutoff,     \* of the Prune between its two deletes, or NoPrune
    wrote,      \* history: the step rows each run got in
    unlisted,   \* history: the runs whose StartRun failed
    latest,     \* history: the latest cutoff of any Prune
    overtaken   \* history: the runs still going when a Prune looked

vars == <<now, at, started, runs, logs, lastId, cutoff, wrote, unlisted, latest, overtaken>>

NoPrune == -1

Fraction(h) ==
    CASE h = 0 -> <<>>
      [] h # 0 /\ (h % 10) = 0 -> <<-1, h \div 10>>
      [] OTHER -> <<-1, h \div 10, h % 10>>

(* RFC3339Nano drops the zeros at the end of the fraction, and its point.  *)
TimeText(t) == <<t \div Second>> \o Fraction(t % Second) \o <<10>>

TextBefore(a, b) ==
    \E i \in 1..Len(b) :
        /\ \A k \in 1..i-1 : k \in DOMAIN a /\ a[k] = b[k]
        /\ i > Len(a) \/ a[i] < b[i]

Init ==
    /\ now \in Instants
    /\ at = [r \in Ids |-> "idle"] /\ started = [r \in Ids |-> -1]
    /\ runs = {} /\ logs = {} /\ lastId = 0 /\ cutoff = NoPrune
    /\ wrote = [r \in Ids |-> <<>>] /\ unlisted = {}
    /\ latest = NoPrune /\ overtaken = {}

Tick ==
    /\ now' \in {t \in Instants : t > now}
    /\ UNCHANGED <<at, started, runs, logs, lastId, cutoff, wrote, unlisted, latest, overtaken>>

-----------------------------------------------------------------------------
(***************************************************************************)
(* A run.  The start is taken before the text is parsed, and the rows come *)
(* later; a statement that fails is forgotten.                             *)
(***************************************************************************)
Begin(r) ==
    /\ at[r] = "idle"
    /\ at' = [at EXCEPT ![r] = "begun"] /\ started' = [started EXCEPT ![r] = now]
    /\ UNCHANGED <<now, runs, logs, lastId, cutoff, wrote, unlisted, latest, overtaken>>

RunRow(r, s) == [id |-> r, startedAt |-> TimeText(started[r]), status |-> s]

StartRun(r) ==
    /\ at[r] = "begun" /\ at' = [at EXCEPT ![r] = "going"]
    /\ \/ runs' = runs \cup {RunRow(r, "running")} /\ UNCHANGED unlisted
       \/ unlisted' = unlisted \cup {r} /\ UNCHANGED runs
    /\ UNCHANGED <<now, started, logs, lastId, cutoff, wrote, latest, overtaken>>

(* Nothing asks whether the run has a row.                                 *)
LogStep(r) ==
    /\ at[r] = "going" /\ Len(wrote[r]) < MaxRows
    /\ LET row == [id |-> lastId + 1, run |-> r] IN
       logs' = logs \cup {row} /\ wrote' = [wrote EXCEPT ![r] = Append(@, row)]
    /\ lastId' = lastId + 1
    /\ UNCHANGED <<now, at, started, runs, cutoff, unlisted, latest, overtaken>>

(* An update of a row that is gone changes nothing.                        *)
EndRun(r) ==
    /\ at[r] = "going" /\ at' = [at EXCEPT ![r] = "over"]
    /\ runs' \in {runs, {IF row.id = r THEN RunRow(r, "ended") ELSE row : row \in runs}}
    /\ UNCHANGED <<now, started, logs, lastId, cutoff, wrote, unlisted, latest, overtaken>>

Kill(r) ==
    /\ at[r] \in {"begun", "going"} /\ at' = [at EXCEPT ![r] = "over"]
    /\ UNCHANGED <<now, started, runs, logs, lastId, cutoff, wrote, unlisted, latest, overtaken>>

-----------------------------------------------------------------------------
(***************************************************************************)
(* Prune: two deletes, no transaction around them.                         *)
(***************************************************************************)
Older(c) == {row.id : row \in {x \in runs : TextBefore(x.startedAt, TimeText(c))}}

WithoutLogs(ids) == {row \in logs : row.run \notin ids}
WithoutRuns(ids) == {row \in runs : row.id \notin ids}

RunsFirst(c) == UNCHANGED logs /\ runs' = WithoutRuns(Older(c))             \* faulty
LogsFirst(c) == logs' = WithoutLogs(Older(c)) /\ UNCHANGED runs

BeginPrune ==
    /\ cutoff = NoPrune
    /\ cutoff' = now - Retention
    /\ LogsFirst(cutoff')
    /\ latest' = IF cutoff' > latest THEN cutoff' ELSE latest
    /\ overtaken' = overtaken \cup {r \in Ids : at[r] \in {"begun", "going"}}
    /\ UNCHANGED <<now, at, started, lastId, wrote, unlisted>>

(* The second delete, which takes the older runs of its own moment; or it  *)
(* fails, or the process is killed before it.                              *)
EndPrune ==
    /\ cutoff # NoPrune /\ cutoff' = NoPrune
    /\ runs' \in {runs, WithoutRuns(Older(cutoff))}
    /\ UNCHANGED <<now, at, started, logs, lastId, wrote, unlisted, latest, overtaken>>

Next ==
    \/ Tick \/ BeginPrune \/ EndPrune
    \/ \E r \in Ids : Begin(r) \/ StartRun(r) \/ LogStep(r) \/ EndRun(r) \/ Kill(r)

Spec == Init /\ [][Next]_vars

-----------------------------------------------------------------------------
(***************************************************************************)
(* The queries.  Rows of equal text come in any order.                     *)
(***************************************************************************)
OldestFirst(a, b) == TextBefore(a.startedAt, b.startedAt)                   \* faulty
NewestFirst(a, b) == TextBefore(b.startedAt, a.startedAt)

Ordered(S) == {s \in SetToSeqs(S) : \A i, j \in DOMAIN s : NewestFirst(s[i], s[j]) => i < j}

(* ListRuns: a limit that is not positive is 20.                           *)
ListRuns(limit) ==
    LET n == IF limit <= 0 THEN 20 ELSE limit IN
    {SubSeq(s, 1, IF n < Len(s) THEN n ELSE Len(s)) : s \in Ordered(runs)}

(* GetRun: the newest of the runs whose id begins with what was given, and *)
(* the step rows of that run.                                              *)
queryStepLogs(id) ==
    {s \in SetToSeqs({row \in logs : row.run = id}) :
        \A i, j \in DOMAIN s : i < j => s[i].id < s[j].id}

GetRun(prefix) ==
    UNION {{[run |-> Head(s), steps |-> rows] : rows \in queryStepLogs(Head(s).id)} :
        s \in Ordered({row \in runs : IsPrefix(prefix, row.id)}) \ {<<>>}}

(* Whatever runs and prunes at the same time, a Prune takes a run with all *)
(* its rows or leaves it with all of them: a run that is not older than    *)
(* the retention of any Prune, give or take a second, is shown under its   *)
(* id with every row it got in, in order; and a row whose run is gone is   *)
(* one of a run that had no row or was going when a Prune looked.          *)
PruneTakesRunsWhole ==
    /\ \A r \in Ids : /\ at[r] \in {"going", "over"} /\ r \notin unlisted
                      /\ \E x \in runs : x.id = r
                      /\ started[r] >= latest + Second
          => \A shown \in GetRun(r) : shown.run.id = r /\ shown.steps = wrote[r]
    /\ \A row \in logs :
          (\E x \in runs : x.id = row.run) \/ row.run \in unlisted \cup overtaken

(* The list an operator reads is newest first up to a second, and leaves   *)
(* out no run that is a second newer than one it shows; the run a prefix   *)
(* leads to has that prefix, and no other that has it is a second newer.   *)
(* Within one second the texts may say the opposite of the times.          *)
NewestFirstToTheSecond ==
    /\ \A limit \in 0..2 : \A list \in ListRuns(limit) :
          /\ \A i, j \in DOMAIN list : i < j => started[list[j].id] < started[list[i].id] + Second
          /\ \A row \in runs \ ToSet(list) : \A i \in DOMAIN list :
                started[row.id] < started[list[i].id] + Second
    /\ \A r \in Ids : \A n \in 1..Len(r) : \A shown \in GetRun(SubSeq(r, 1, n)) :
          /\ IsPrefix(SubSeq(r, 1, n), shown.run.id)
          /\ \A row \in runs : IsPrefix(SubSeq(r, 1, n), row.id) =>
                started[row.id] < started[shown.run.id] + Second
=============================================================================
