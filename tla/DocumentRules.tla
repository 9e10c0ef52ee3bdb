---------------------------- MODULE DocumentRules ----------------------------
(***************************************************************************)
(* internal/validator: the rules a parsed document d is judged by.  Each   *)
(* rule is the set of issues it raises; an issue about the file rather     *)
(* than a block is about NoBlock.  The wording of a message (line numbers, *)
(* "did you mean") is left out.                                            *)
(*                                                                         *)
(* d has the lists the parser filled (checks, steps, rollbacks, waits) and *)
(* what the rules read of the frontmatter and of the file's surroundings.  *)
(* Every block has a name, whether its command is bare (nothing but        *)
(* references and blanks), and its {{...}} references as pairs of a form   *)
(* and a name: "plain" {{x}}, "spaced" {{ x }}, "empty" {{}} and           *)
(* "malformed" {{x-y}}.  A rollback also has the rollback names its        *)
(* command mentions, a step the attributes below.                          *)
(* Durations are seconds, NoValue when not given, Unparsable when          *)
(* time.ParseDuration refuses them.                                        *)
(*                                                                         *)
(* Definitions marked "faulty" are variants with a bug, each defined just  *)
(* before the definition it distorts; no specification uses them.          *)
(***************************************************************************)
EXTENDS Integers, Sequences, FiniteSets, SequencesExt

CONSTANTS NoBlock,   \* an issue of the whole file; no rollback named
          OnPath,    \* the tools the host has
          Lower      \* environment names to their lower-case spelling

NoValue    == -1
Unparsable == -2

MaxParallelUpperBound == 256

\* What the parser leaves: no value has been put into a command yet.
Refs == SUBSET [form : {"plain", "spaced", "empty", "malformed"}, name : STRING]
PlainBlocks    == [name : STRING, bare : BOOLEAN, refs : Refs, values : {<<>>}]
RollbackBlocks == [name : STRING, bare : BOOLEAN, refs : Refs, values : {<<>>},
                   mentions : SUBSET STRING]
StepBlocks     == [name : STRING, bare : BOOLEAN, refs : Refs, values : {<<>>},
                   rollback : STRING \cup {NoBlock}, dependsOn : Seq(STRING), timeout : Int,
                   confirm : STRING, env : SUBSET STRING, signs : SUBSET STRING]
Documents ==
    [named : BOOLEAN, environments : SUBSET STRING, maxParallel : Int, tools : SUBSET STRING,
     repeatedKey : BOOLEAN, dotEnv : BOOLEAN, gitignores : Seq(SUBSET STRING),
     writable : BOOLEAN, checks : Seq(PlainBlocks), steps : Seq(StepBlocks),
     rollbacks : Seq(RollbackBlocks), waits : Seq(PlainBlocks)]

Blocks(d) == d.checks \o d.steps \o d.rollbacks \o d.waits

Issue(rule, severity, about) ==
    [rule |-> rule, severity |-> severity, about |-> about]
Errors(rule, names)   == {Issue(rule, "error", n) : n \in names}
Warnings(rule, names) == {Issue(rule, "warning", n) : n \in names}

\* The names of the blocks of bs that show the flaw.
NamesWith(bs, Flaw(_)) == {bs[k].name : k \in {i \in DOMAIN bs : Flaw(bs[i])}}
NamesIn(bs) == {bs[k].name : k \in DOMAIN bs}

-----------------------------------------------------------------------------
(* Names and references between blocks.                                    *)

V1UniqueNames(d) ==
    LET all == Blocks(d)
    IN  Errors("v1", {all[k].name : k \in {i \in DOMAIN all :
                        \E j \in 1 .. i - 1 : all[j].name = all[i].name}})

V2RollbackRefs(d) ==
    Errors("v2", NamesWith(d.steps, LAMBDA s :
        s.rollback # NoBlock /\ s.rollback \notin NamesIn(d.rollbacks)))

V3UnusedRollbacks(d) ==
    Warnings("v3", NamesWith(d.rollbacks, LAMBDA r :
        \A k \in DOMAIN d.steps : d.steps[k].rollback # r.name))

V9DependsOnRefs(d) ==
    Warnings("v9", NamesWith(d.steps, LAMBDA s :
        \E k \in DOMAIN s.dependsOn : s.dependsOn[k] \notin NamesIn(d.steps)))

\* A finite graph, a set E of edges <<v, w>> over V, has a cycle iff some set
\* of vertices has, for each of its members, an edge that stays inside.
HasCycle(V, E) ==
    \E U \in (SUBSET V) \ {{}} : \A v \in U : \E w \in U : <<v, w>> \in E

\* faulty: takes the attribute for a single name
DependsOnFirst(d, a, b) ==
    \E k \in DOMAIN d.steps :
        /\ d.steps[k].name = a
        /\ d.steps[k].dependsOn # <<>> /\ b = Head(d.steps[k].dependsOn)

DependsOn(d, a, b) ==
    \E k \in DOMAIN d.steps :
        d.steps[k].name = a /\ b \in ToSet(d.steps[k].dependsOn)

\* dag.Build refuses a cycle; a dangling name is no edge.
V21DependsOnCycles(d) ==
    LET N == NamesIn(d.steps)
    IN  IF HasCycle(N, {e \in N \X N : DependsOn(d, e[1], e[2])})
        THEN Errors("v21", {NoBlock}) ELSE {}

-----------------------------------------------------------------------------
(* Rollback cycles.                                                        *)

Mentions(d, a, b) ==
    \E k \in DOMAIN d.rollbacks :
        d.rollbacks[k].name = a /\ b \in d.rollbacks[k].mentions

\* faulty: a node that was seen before is taken for a cycle, so two paths
\* that meet again are one
SeenIsCycle(n, visited, onStack) == n \in visited

\* The search has come back to a node it is still below.
BackOn(n, visited, onStack) == n \in onStack

\* The depth-first search over the mention graph, which stops at the first
\* cycle and then leaves its path marked.  The adjacency lists are in the
\* order the map of names was iterated in.
MentionSearch(d, order) ==
    LET N == NamesIn(d.rollbacks)
        Below(n) == SelectSeq(order, LAMBDA m : m # n /\ Mentions(d, n, m))
        dfs[n \in N, visited \in SUBSET N, onStack \in SUBSET N] ==
            IF BackOn(n, visited, onStack) \/ n \in visited
            THEN [hit |-> BackOn(n, visited, onStack),
                  visited |-> visited, onStack |-> onStack]
            ELSE LET below == FoldLeft(
                       LAMBDA acc, m : IF acc.hit THEN acc
                                       ELSE dfs[m, acc.visited, acc.onStack],
                       [hit |-> FALSE, visited |-> visited \cup {n},
                        onStack |-> onStack \cup {n}],
                       Below(n))
                 IN  IF below.hit THEN below
                     ELSE [below EXCEPT !.onStack = @ \ {n}]
    IN  FoldLeft(
          LAMBDA acc, r :
            IF r.name \in acc.visited THEN acc
            ELSE LET found == dfs[r.name, acc.visited, acc.onStack]
                 IN  [found EXCEPT !.hit = FALSE] @@
                     [reported |-> acc.reported \cup
                                     (IF found.hit THEN {r.name} ELSE {})],
          [hit |-> FALSE, visited |-> {}, onStack |-> {}, reported |-> {}],
          d.rollbacks)

\* A rollback that mentions itself, one reported by the search, and one
\* that two steps name.
V8RollbackCycles(d, order) ==
    Errors("v8",
        NamesWith(d.rollbacks, LAMBDA r : r.name \in r.mentions)
        \cup MentionSearch(d, order).reported
        \cup {n \in {d.steps[k].rollback : k \in DOMAIN d.steps} \ {NoBlock} :
                Cardinality({k \in DOMAIN d.steps : d.steps[k].rollback = n}) > 1})

-----------------------------------------------------------------------------
(* The frontmatter, the commands and the surroundings of the file.         *)

V4FrontmatterName(d) == IF d.named THEN {} ELSE Errors("v4", {NoBlock})

\* Compared as spelt, although the filter itself ignores case.
V5EnvFilters(d) ==
    IF d.environments = {} THEN {}
    ELSE Warnings("v5", NamesWith(d.steps, LAMBDA s : ~(s.env \subseteq d.environments)))

V6StepTimeouts(d) ==
    Errors("v6", NamesWith(d.steps, LAMBDA s : s.timeout = Unparsable))
    \cup Warnings("v6", NamesWith(d.steps, LAMBDA s :
            s.timeout >= 0 /\ s.timeout \notin 1 .. 24 * 3600))

\* Blanks around the name are accepted here.
V7TemplateVars(d) ==
    Errors("v7", NamesWith(Blocks(d), LAMBDA b :
        \E r \in b.refs : r.form \in {"empty", "malformed"}))

V10RequiredTools(d) ==
    IF d.tools \subseteq OnPath THEN {} ELSE Warnings("v10", {NoBlock})

NoCommand(b) == b.bare /\ b.refs = {}

V11NonEmptyCommands(d) ==
    Errors("v11", NamesWith(Blocks(d), LAMBDA b : NoCommand(b)))

V12DuplicateYAMLKeys(d) ==
    IF d.repeatedKey THEN Errors("v12", {NoBlock}) ELSE {}

\* Some .gitignore from the file's directory up to the root lists the file.
\* d.gitignores holds their entries, one set per directory.
DotEnvInGitignore(d) ==
    \E k \in DOMAIN d.gitignores :
        d.gitignores[k] \cap {".env", "/.env", ".env*", "config/.env"} # {}

V13DotEnvInGitignore(d) ==
    IF d.dotEnv /\ ~DotEnvInGitignore(d) THEN Warnings("v13", {NoBlock}) ELSE {}

V14RunbookWritableByOthers(d) ==
    IF d.writable THEN Warnings("v14", {NoBlock}) ELSE {}

V22MaxParallel(d) ==
    IF d.maxParallel \in 0 .. MaxParallelUpperBound THEN {}
    ELSE Errors("v22", {NoBlock})

-----------------------------------------------------------------------------
(* The advisories, which only a strict validation takes for errors.  What  *)
(* the patterns recognise in a command is the step's set of signs.         *)

Advisories(strict, rule, names) ==
    IF strict THEN Errors(rule, names) ELSE Warnings(rule, names)

Showing(d, sign) == NamesWith(d.steps, LAMBDA s : sign \in s.signs)

V15ProductionWithoutConfirm(d, strict) ==
    Advisories(strict, "v15", NamesWith(d.steps, LAMBDA s :
        (\E e \in s.env : Lower[e] = "production") /\ s.confirm = ""))
V16DestructiveWithoutRollback(d, strict) ==
    Advisories(strict, "v16", NamesWith(d.steps, LAMBDA s :
        "destructive" \in s.signs /\ s.rollback = NoBlock))
V17HardcodedSecrets(d, strict) == Advisories(strict, "v17", Showing(d, "secret"))
V18CurlInsecure(d, strict)     == Advisories(strict, "v18", Showing(d, "curl"))
V19WgetInsecure(d, strict)     == Advisories(strict, "v19", Showing(d, "wget"))
V20PipeToShell(d, strict)      == Advisories(strict, "v20", Showing(d, "pipe"))

-----------------------------------------------------------------------------
Validate(d, strict, order) ==
    UNION {V1UniqueNames(d), V2RollbackRefs(d), V3UnusedRollbacks(d),
           V4FrontmatterName(d), V5EnvFilters(d), V6StepTimeouts(d),
           V7TemplateVars(d), V8RollbackCycles(d, order), V9DependsOnRefs(d),
           V10RequiredTools(d), V11NonEmptyCommands(d), V12DuplicateYAMLKeys(d),
           V13DotEnvInGitignore(d), V14RunbookWritableByOthers(d),
           V15ProductionWithoutConfirm(d, strict),
           V16DestructiveWithoutRollback(d, strict),
           V17HardcodedSecrets(d, strict), V18CurlInsecure(d, strict),
           V19WgetInsecure(d, strict), V20PipeToShell(d, strict),
           V21DependsOnCycles(d), V22MaxParallel(d)}

HasErrors(issues) == \E i \in issues : i.severity = "error"
=============================================================================
