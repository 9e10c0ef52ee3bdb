---------------------------- MODULE RunPreparation ----------------------------
(***************************************************************************)
(* What happens between the command line and the first command of a        *)
(* runbook: internal/cli merges flags and configuration, "bulk" plans its  *)
(* jobs, and executor.Run parses, validates and resolves, asks about       *)
(* dangerous values, and either prints the plan or opens the run's record. *)
(* One invocation is prepared; of a bulk plan, any one job.                *)
(*                                                                         *)
(* The text itself is the subject of RunbookParser: here an invocation     *)
(* comes with the tree its file parses to.                                 *)
(*                                                                         *)
(* Definitions marked "faulty" are variants with a bug, each defined just  *)
(* before the definition it distorts; no specification uses them.          *)
(***************************************************************************)
EXTENDS VariableResolution, BulkPlan

CONSTANT Invocations   \* bound: the command lines, and what they meet

ASSUME InvocationsAssumption ==
    \A i \in Invocations : i.tree \in Documents /\ i.stdin \in Seq(STRING)

VARIABLES inv,      \* the invocation
          stage,    \* what is done next, or how it ended
          opts,     \* the options in force
          plan,     \* the jobs of a bulk invocation
          job,      \* the job being prepared, 0 outside bulk
          tree,     \* the tree in work
          issues,   \* what the validator raised
          stdin,    \* the lines of input not read yet
          consent,  \* what was answered about dangerous values
          status,   \* the status of a run that ended here
          record    \* whether the run has a record in the audit log

prepVars == <<inv, stage, opts, plan, job, tree, issues, stdin, consent, status, record>>

NoOptions == [env |-> "", nonInteractive |-> FALSE, dryRun |-> FALSE,
              strict |-> FALSE, vars |-> <<>>]

Init ==
    /\ inv \in Invocations
    /\ stage = "invoked"
    /\ opts = NoOptions
    /\ plan = <<>> /\ job = 0
    /\ tree = inv.tree
    /\ issues = {}
    /\ stdin = inv.stdin
    /\ consent = "none"
    /\ status = "" /\ record = FALSE

-----------------------------------------------------------------------------
(* The command line.                                                       *)

\* A configuration that is missing, unreadable or has an unknown key counts
\* for nothing at all.
LoadConfig(config) ==
    IF config.state = "read" THEN config
    ELSE [state |-> config.state, env |-> "", nonInteractive |-> FALSE]

\* --var flags: one without "=" is dropped, the last of a name stays.
ParseVarFlags(flags) ==
    FoldLeft(LAMBDA acc, f : IF f.equals THEN (f.key :> f.value) @@ acc ELSE acc,
             <<>>, flags)

\* Flags first, then the configuration.  A dry run asks nothing.
LoadOptions ==
    /\ stage = "invoked"
    /\ LET cfg == LoadConfig(inv.config)
           dry == inv.command = "dry-run"
       IN  opts' = [env |-> IF inv.env # "" THEN inv.env ELSE cfg.env,
                    nonInteractive |-> dry \/ inv.nonInteractive \/ cfg.nonInteractive,
                    dryRun |-> dry \/ inv.dryRun,
                    strict |-> inv.strict /\ ~dry,
                    vars |-> ParseVarFlags(inv.varFlags)]
    /\ stage' = IF inv.command = "bulk" THEN "plan" ELSE "parse"
    /\ UNCHANGED <<inv, plan, job, tree, issues, stdin, consent, status, record>>

\* A bulk invocation that is refused before any job.
BulkRefused ==
    \/ CollectBulkFiles(inv.files) = <<>> \/ FilesMissing(inv.files)
    \/ inv.report \notin {"", "text", "json"}
    \/ inv.matrixFile /\ ~MatrixFileIsSound(inv.matrix)
    \/ \E k \in DOMAIN inv.matrixFlags : ~ParseMatrixVar(inv.matrixFlags[k]).ok
    \/ /\ inv.matrixFile \/ inv.matrixFlags # <<>>
       /\ ExpandRefuses(WithFlags(inv.matrix, inv.matrixFlags))

RefusePlan ==
    /\ stage = "plan" /\ BulkRefused
    /\ stage' = "usage"
    /\ UNCHANGED <<inv, opts, plan, job, tree, issues, stdin, consent, status, record>>

\* With several workers nobody is asked anything.
Parallel == inv.maxRunbooks > 1

PlanJobs ==
    /\ stage = "plan" /\ ~BulkRefused
    /\ plan' = BuildJobs(CollectBulkFiles(inv.files),
                         IF inv.matrixFile \/ inv.matrixFlags # <<>>
                         THEN Rows(WithFlags(inv.matrix, inv.matrixFlags)) ELSE <<>>)
    /\ opts' = [opts EXCEPT !.nonInteractive = @ \/ Parallel]
    /\ stage' = "dispatch"
    /\ UNCHANGED <<inv, job, tree, issues, stdin, consent, status, record>>

\* What a job binds goes over the variables of the command line.
DispatchJob ==
    /\ stage = "dispatch"
    /\ \E j \in DOMAIN plan :
          /\ job' = j
          /\ opts' = [opts EXCEPT !.vars = Over(plan[j].vars, @)]
    /\ stage' = "parse"
    /\ UNCHANGED <<inv, plan, tree, issues, stdin, consent, status, record>>

-----------------------------------------------------------------------------
(* executor.Run up to the first check, and "runbook validate".             *)

Fail(why) ==
    /\ stage' = "failed"
    /\ status' = why

ParseFile ==
    /\ stage = "parse"
    /\ IF inv.parses THEN stage' = "validate" /\ UNCHANGED status
                     ELSE Fail("internal_error")
    /\ UNCHANGED <<inv, opts, plan, job, tree, issues, stdin, consent, record>>

\* Only the validate command takes advisories for errors.
ValidateTree ==
    /\ stage = "validate"
    /\ \E order \in SetToSeqs(NamesIn(tree.rollbacks)) :
          issues' = Validate(tree, inv.command = "validate" /\ inv.securityStrict, order)
    /\ IF HasErrors(issues') THEN Fail("validation_error")
       ELSE /\ stage' = IF inv.command = "validate" THEN "valid" ELSE "resolve"
            /\ UNCHANGED status
    /\ UNCHANGED <<inv, opts, plan, job, tree, stdin, consent, record>>

Sources == [target |-> opts.env, cli |-> opts.vars,
            environ |-> inv.environ, dotenv |-> inv.dotenv]

\* Strict refuses a dangerous value, a dry run and a run without an operator
\* go on with it, and otherwise the operator is asked.
ResolveTree ==
    /\ stage = "resolve"
    /\ IF inv.dotenv.state = "unreadable"
       THEN Fail("internal_error") /\ UNCHANGED tree
       ELSE /\ tree' = ResolvedTree(tree, Sources)
            /\ LET bound == UnresolvedBlocks(tree, Sources) = {}
                   risky == MetacharWarnings(tree') # {}
               IN  CASE ~bound -> Fail("internal_error")
                     [] bound /\ risky /\ opts.strict -> Fail("validation_error")
                     [] bound /\ risky /\ ~opts.strict /\ ~opts.dryRun /\ ~opts.nonInteractive ->
                            stage' = "ask" /\ UNCHANGED status
                     [] OTHER -> stage' = "resolved" /\ UNCHANGED status
    /\ UNCHANGED <<inv, opts, plan, job, issues, stdin, consent, record>>

\* faulty: takes silence for a yes, as the prompt about a rollback does
ConsentByDefault(lines) == lines = <<>> \/ Head(lines) = "y"

\* No answer is a no.
Consents(lines) == lines # <<>> /\ Head(lines) = "y"

\* The prompt has a scanner of its own, which may read ahead: lines it took
\* in beyond its answer are lost to every later prompt.
AskConsent ==
    /\ stage = "ask"
    /\ consent' = IF Consents(stdin) THEN "yes" ELSE "no"
    /\ \E n \in IF stdin = <<>> THEN {0} ELSE 1 .. Len(stdin) :
          stdin' = SubSeq(stdin, n + 1, Len(stdin))
    /\ IF consent' = "yes" THEN stage' = "resolved" /\ UNCHANGED status
                           ELSE Fail("validation_error")
    /\ UNCHANGED <<inv, opts, plan, job, tree, issues, record>>

PrintPlan ==
    /\ stage = "resolved" /\ opts.dryRun
    /\ stage' = "printed"
    /\ status' = "success"
    /\ UNCHANGED <<inv, opts, plan, job, tree, issues, stdin, consent, record>>

StartRun ==
    /\ stage = "resolved" /\ ~opts.dryRun
    /\ stage' = "started"
    /\ record' = TRUE
    /\ UNCHANGED <<inv, opts, plan, job, tree, issues, stdin, consent, status>>

Next ==
    \/ LoadOptions \/ RefusePlan \/ PlanJobs \/ DispatchJob
    \/ ParseFile \/ ValidateTree \/ ResolveTree \/ AskConsent
    \/ PrintPlan \/ StartRun

Spec == Init /\ [][Next]_prepVars

-----------------------------------------------------------------------------
(* What holds of a run that is started.                                    *)

\* A tree that reaches the executor is one it can run, although it was
\* validated before blocks were filtered out and variables put in: steps are
\* told apart by their names, a step that names a rollback has exactly one
\* and shares it with no other, no steps wait for each other in a circle, and
\* every deadline means something.  A {{name}} that is left in a command came
\* in with a value put into that very command, and a command with nothing in
\* it was emptied by its values alone: a file without either flaw gets one
\* only from outside (validator.Validate, resolver.Resolve and what
\* dag.Build, the rollback engine and executeStep take for granted).
EmptiedCommand(b) == NoCommand(b) /\ \A v \in DOMAIN b.values : b.values[v] \in Blank
CameWithAValue(b, name) ==
    \E v \in DOMAIN b.values : \E r \in Brought(b.values[v]) :
        r.form = "plain" /\ r.name = name
ReadyMeansRunnable ==
    stage \in {"started", "printed"} =>
        /\ \A i, j \in DOMAIN tree.steps :
              i # j => /\ tree.steps[i].name # tree.steps[j].name
                       /\ \/ tree.steps[i].rollback = NoBlock
                          \/ tree.steps[i].rollback # tree.steps[j].rollback
        /\ \A i \in DOMAIN tree.steps :
              tree.steps[i].rollback # NoBlock =>
                 Cardinality({k \in DOMAIN tree.rollbacks :
                     tree.rollbacks[k].name = tree.steps[i].rollback}) = 1
        /\ ~ \E U \in SUBSET DOMAIN tree.steps :
                /\ U # {}
                /\ \A i \in U : \E j \in U : \E k \in DOMAIN tree.steps[i].dependsOn :
                      tree.steps[i].dependsOn[k] = tree.steps[j].name
        /\ \A k \in DOMAIN Blocks(tree) :
              LET b == Blocks(tree)[k] IN
              /\ \A name \in References(b) : CameWithAValue(b, name)
              /\ EmptiedCommand(b) => DOMAIN b.values # {}
        /\ \A i \in DOMAIN tree.steps : tree.steps[i].timeout # Unparsable
        /\ tree.maxParallel \in 0 .. MaxParallelUpperBound

\* The validator finds a circle among the rollbacks exactly when there is
\* one, whatever the order in which the map of names was iterated: one that
\* mentions itself, some that mention each other all the way round, or one
\* that two steps share (v8RollbackCycles, a depth-first search that leaves
\* the path of a cycle marked).
RollbackCircles ==
    \/ \E k \in DOMAIN tree.rollbacks : tree.rollbacks[k].name \in tree.rollbacks[k].mentions
    \/ \E U \in SUBSET NamesIn(tree.rollbacks) :
          U # {} /\ \A a \in U : \E b \in U : a # b /\ Mentions(tree, a, b)
    \/ \E i, j \in DOMAIN tree.steps :
          i # j /\ tree.steps[i].rollback = tree.steps[j].rollback
                /\ tree.steps[i].rollback # NoBlock
CirclesAreFound ==
    stage = "valid" \/ stage = "resolve" \/ (stage = "failed" /\ issues # {}) =>
        ((\E i \in issues : i.rule = "v8") <=> RollbackCircles)

\* Nothing that carries a dangerous value is run unless somebody answered
\* for it: not under --strict, and otherwise with the consent of the
\* operator or on a run that was asked not to ask.  What was refused on the
\* way, or only printed, has left no record, and printing has read no answer
\* meant for a prompt (resolver.Resolve, Run).
DangerIsAnsweredFor ==
    /\ stage = "started" /\ MetacharWarnings(tree) # {} =>
          /\ ~opts.strict
          /\ opts.nonInteractive \/ (inv.stdin # <<>> /\ inv.stdin[1] = "y")
    /\ record <=> stage = "started"
    /\ stage = "printed" => stdin = inv.stdin
    /\ stage = "failed" /\ issues # {} /\ ~HasErrors(issues) =>
          (status = "validation_error") =
             (inv.dotenv.state # "unreadable" /\ UnresolvedBlocks(inv.tree, Sources) = {})

-----------------------------------------------------------------------------
(* What holds of a bulk plan.                                              *)

\* The choices of one value per axis, by position so that a repeated value
\* counts twice, and the row each one gives.
Combinations(axes) ==
    {c \in [DOMAIN axes -> 1 .. MaxMatrixRows + 1] :
        \A j \in DOMAIN axes : c[j] <= Len(axes[j].values)}
RowOf(axes, c) ==
    [k \in {axes[j].key : j \in DOMAIN axes} |->
        LET j == CHOOSE x \in DOMAIN axes : axes[x].key = k IN axes[j].values[c[j]]]
Covers(ex, row) ==
    /\ DOMAIN ex # {}
    /\ \A k \in DOMAIN ex : IF k \in DOMAIN row THEN ex[k] = row[k] ELSE ex[k] = ""

\* The plan holds exactly the jobs asked for: each file, once however many
\* arguments lead to it and in the order of the first of them, and for it
\* every choice of axis values that no exclude row covers and every include
\* row, as often as it was asked for and within the cap (Expand, BuildJobs,
\* collectBulkFiles).
PlanIsExact ==
    stage = "dispatch" =>
        LET m       == WithFlags(inv.matrix, inv.matrixFlags)
            swept   == inv.matrixFile \/ inv.matrixFlags # <<>>
            first   == {i \in DOMAIN inv.files :
                          \A j \in 1 .. i - 1 : inv.files[j].abs # inv.files[i].abs}
            asked   == {c \in Combinations(m.axes) :
                          /\ m.axes # <<>>
                          /\ \A k \in DOMAIN m.exclude : ~Covers(m.exclude[k], RowOf(m.axes, c))}
            perFile == IF swept THEN Cardinality(asked) + Len(m.include) ELSE 1
            of(i)   == {n \in DOMAIN plan : plan[n].file = inv.files[i].path}
        IN  /\ Len(plan) = Cardinality(first) * perFile
            /\ perFile <= MaxMatrixRows
            /\ \A i \in first :
                  /\ Cardinality(of(i)) = perFile
                  /\ \A j \in first : \A n \in of(i), o \in of(j) : i < j => n < o
                  /\ swept => \A n \in of(i) :
                        LET row == plan[n].vars IN
                        Cardinality({o \in of(i) : plan[o].vars = row})
                        = Cardinality({c \in asked : RowOf(m.axes, c) = row})
                          + Cardinality({k \in DOMAIN m.include : m.include[k] = row})

\* A job runs with the values it is named by: wherever a block of it uses a
\* variable the job binds, the command has the job's value, whatever the
\* command line, the environment, the .env file and the built-ins say of it
\* (mergeVars, Resolve).
BindingReachesTheCommands ==
    stage \in {"started", "printed"} /\ job # 0 =>
        \A k \in DOMAIN Blocks(tree) :
            LET b == Blocks(tree)[k] IN
            \A v \in DOMAIN b.values \cap DOMAIN plan[job].vars :
                b.values[v] = plan[job].vars[v]

\* What the documentation says of env (docs/format.md: "Environments in which
\* this step runs; silently skipped in all others"), for a job of a sweep
\* over environments: the steps it keeps are those of its own environment.
JobKeepsItsEnvironment ==
    stage = "started" /\ job # 0 /\ "env" \in DOMAIN plan[job].vars =>
        \A i \in DOMAIN tree.steps :
            \/ tree.steps[i].env = {}
            \/ ContainsEnv(tree.steps[i].env, plan[job].vars["env"])
=============================================================================
