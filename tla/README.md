# A TLA+ model of runbook

`runbook` executes a Markdown document whose fenced blocks are checks, steps,
rollbacks and waits. The parts whose correctness is hard to see from the source
or to reach with a test are concurrent: a step scheduler with a coordinator and
worker goroutines, a process group that has to be killed and waited for, an
interrupt prompt that shares the terminal with other prompts, a rollback stack
that must stay in step with all of them, a bulk coordinator that runs many runbooks at
once over one output and one database. In front of them stands a chain of pure
stages (parse, validate, resolve, plan) whose promises the concurrent parts take
for granted. These modules model both from the Go source, TLC checks them on small
instances, and TLAPS proves the safety of the concurrent ones and most of what the
stages promise for every instance.

Line numbers below and in `PROJECT.json` are those of this commit; `PROJECT.json`
maps every definition to the lines it stands for.

## 1. Inventory

| Component | Source | State it keeps | Operations | Hard behaviour |
|---|---|---|---|---|
| DAG scheduler | `internal/dag/dag.go` | node states, pending counts, ready queue | `Build`, `NewScheduler`, `HasWork`, `PopReady`, `CompleteSuccess`, `Skip`, `Levels` | duplicate and filtered dependencies, cascading skip, stranded steps |
| Run lifecycle | `internal/executor/run.go` | phase, status, step results | `Run`, checks, ways out (failure, decline, signal, error) | many early returns, each with its own idea of what is undone |
| Rollback engine | `internal/executor/rollback.go` | LIFO stack, report | `Push`, `Plan`, `Execute` | partial failure, order, completeness |
| Sequential executor | `run.go:599-634` | loop position | poll, gate, run, record | interrupts only seen between steps |
| Parallel executor | `run.go:636-833` | inFlight, channel `done`, cancel context, prompt mutex | dispatch, receive, drain; worker, gate | failure races siblings; drain before rollback |
| Signal handler | `internal/executor/signal.go` | `sigCh`, `actionCh`, `done`, prompt goroutine | `Start`, `Stop`, `loop`, `prompt` | timer, answer and Stop race; leaked readers on a shared terminal |
| Step process | `internal/executor/executor.go`, `process_unix.go`, `orphans_linux.go` | process group, pipes, wait channel | start, wait, TERM, poll, KILL, status, orphan check | zombies, reaped leaders, children that trap or escape |
| Bulk coordinator | `internal/bulk/coordinator.go` | semaphore, wait group, results, fail-fast flag and context | dispatch, run, mark, release, collect | select races, fail-fast, exit code |
| Audit log | `internal/audit/audit.go` | tables `runs`, `step_logs` | `StartRun`, `LogStep`, `EndRun`, `ListRuns`, `GetRun`, `Prune` | ignored write errors, kill between two writes, several runs on one database, times as text |
| Bulk matrix, file collection | `internal/bulk/matrix.go`, `internal/cli/bulk.go` | none (pure) | parse, expand, exclude, `BuildJobs` | bounds, repeated values, exclusion by subset, one file under two paths |
| Output | `internal/bulk/prefix.go`, `executor.go:330-416` | pipe, scanner, line buffer and its lock, capped capture | `streamLines`, two `prefixWriter`s, `Flush`, `limitedBuffer` | writers of one job and of several, a failing sink, caps, over-long lines |
| Parser, AST | `internal/parser`, `internal/ast` | line-oriented parser state | `Parse` | fences and openings inside blocks, unterminated blocks, several `---` |
| Validator | `internal/validator` | none | 22 rules | references, cycles found by a search in map order, shared rollbacks |
| Resolver | `internal/resolver` | none | layers of sources, environment filter, substitution, metacharacter gate | order of sources, validation before filtering, who is asked |
| Preparation | `run.go:332-432`, `internal/cli` (`run`, `dry-run`, `validate`, `bulk`, configuration) | options, tree, record | the stages above in order, each with its early return | which refusal comes first, what leaves a record |
| Detection, other commands | `internal/detect`, rest of `internal/cli`, `cmd` | flags and files | I/O around the above | none that a model of states reaches |

How they interact. `cli` merges flags and configuration and calls `executor.Run`,
directly or, after planning the jobs, from one bulk goroutine per job. `Run`
parses, validates and resolves the document (with its environment filter after
validation), asks about dangerous values, opens an audit row, starts the signal handler when interactive, runs the checks,
then hands the steps to one of two executors. Both executors start commands
through `StepExecutor.Run`, push rollbacks on one `RollbackEngine`, poll one
`actionCh`, prompt on one terminal and write one audit trail. The parallel one
drives the `dag` scheduler from its coordinator; workers answer on a channel. What
a command prints goes from its pipe through a scanner to a capped capture, which
the audit row and the result show, and through the labelling writer of its job to
a sink all jobs share.

## 2. Modules

| Module | Models | Composes |
|---|---|---|
| `StepGraph` | `dag.Build`: edges, duplicates, dropped names, acyclicity, reachability | |
| `DagScheduler` | the scheduler's operations and the protocol of its caller | `StepGraph` |
| `StepOrder` | abstract: what the scheduler promises, with neither counter nor queue | `StepGraph` |
| `InterruptMailbox` | abstract: what a run sees of its signal handler | |
| `SignalHandler` | the handler's loop, prompts and readers, beside the run's prompts and one terminal | implements `InterruptMailbox` |
| `RunLifecycle` | checks, mailbox, rollback engine, every way a run ends | `StepGraph`, `InterruptMailbox` |
| `RunContract` | abstract: what one run promises, whichever executor it uses | |
| `RunSequential` | `executeStepsSequential` and its gate | `RunLifecycle`, implements `RunContract` |
| `RunDAG` | `executeStepsDAG`, `runDAGWorker`, `promptGate` | `DagScheduler`, `RunLifecycle`, implements `RunContract` and follows `SchedSpec` |
| `AuditedRun` | a sequential run and the rows it leaves, failing writes, a kill | `RunSequential` |
| `StepProcess` | one `StepExecutor.Run`: script, children, deadline, kill, pipes and their readers | |
| `BulkCoordinator` | `runWithExecutor` | |
| `RunbookParser` | `Parse`, a line at a time | |
| `DocumentRules` | the validator's rules as sets of issues | |
| `VariableResolution` | layers of sources, filter, substitution | `DocumentRules` |
| `BulkPlan` | file arguments, matrix, jobs | |
| `RunPreparation` | from the command line to the first check | `VariableResolution`, `BulkPlan` |
| `OutputStreams` | from a script's write to the capture and the shared sink | |
| `AuditStore` | two tables, several runs, `Prune` and the queries | |
| `MC...` | graphs and sets for TLC | the module they are named for |
| `RunLifecycleProofs` | lemmas about what both executors share | `RunLifecycle` |
| `RunDAGProofs` | theorems about the scheduler and the executor it drives | `RunDAG`, `RunLifecycleProofs` |
| `AuditedRunProofs` | theorems about a sequential run and its rows | `AuditedRun`, `RunLifecycleProofs` |
| `StepExecutorProofs` | theorems about `executor.go`: one `Run`, and its output | `StepProcess`, `OutputStreams` |
| `DocumentProofs` | theorems about parser, resolver and preparation | `RunbookParser`, `RunPreparation` |
| `SignalHandlerProofs`, `BulkCoordinatorProofs`, `AuditStoreProofs` | theorems | the module they are named for |

Correspondence. A goroutine is a program counter (`at`, `worker[s]`, `loop`,
`run`), a buffered channel is a sequence or an optional value, a mutex is a guard
on who may hold it, and a context is a flag with its cause. An action is what the
goroutine does from one point where others can interfere (a channel operation, a
lock, a process event, a prompt) to the next. `run.go`'s sequential parts with no
such point in between (record the result, push the rollback) are one action,
except in `AuditedRun`, where a kill can fall between the result and its row. In
`RunbookParser` an action reads one line; in `RunPreparation` it is one stage; in
`OutputStreams` a byte through the pipe or the scanner, or one call on the sink; in
`AuditStore` one statement.

Data is kept to what decides. A line of a document is its kind; a command is its
`{{...}}` references and what the rules recognise in it; a value is safe or
dangerous, and may be blank or hold a reference; a start time is a number and the
text SQLite compares. The rules, the layers of sources and the matrix are pure
operators over such records. Where a property about them is more than the definition read backwards, it is stated over
something else: a circle of rollbacks as a set closed under mentions where the code
searches depth first, a plan as a count of choices where the code computes strides,
a block as a span of the text where the code keeps a loop.

Names that differ from the code: a step is its index in document order; a
rollback block is named by the step that declares it, because validation refuses
a block two steps share; `ran`, `started` (in `BulkCoordinator`), `waitingAt`,
`swallowed`, `checked`, `lost`, `accepted`, `erred`, `wrote`, `unlisted`, `latest`
and `overtaken` are history variables the code does not have.

Definitions marked `faulty` are variants of the definition that follows them,
each with a bug one could plausibly write there. No specification uses them; they
show that a property fails when the code is wrong.

## 3. What the runs check

| Run | Instance | States | Question |
|---|---|---|---|
| `scheduler` | all acyclic graphs of 3 steps with duplicates and dropped names under a fourth, plus those of 4 steps whose edges point one way | 40 000 | are counts exact, is order kept, is nobody stranded, does it implement `StepOrder` |
| `parallel` | 4 steps, 5 shapes, 2 workers, 2 gates, 2 rollbacks, interrupts | 108 000 | does a run dispatch, drain, undo, report and return as it should |
| `audit` | a sequential run of 3 steps, 2 gates, 2 rollbacks, 1 check, interrupts anywhere, 1 failing write, a kill anywhere | 29 000 | do the rows tell what happened, is everything undone accounted for, does the run keep `RunContract` |
| `interrupts` | 3 steps, the first and the last gated, 3 signals, 2 unread lines | 206 000 | is the mailbox abstraction right, how much is lost to stale readers, does all end |
| `step_process` | 2 children, 2 pipes, every nature that stays in the group or closes the pipes, readers that may give up, every cause | 1 457 000 | is what `Run` returns final and honest, does a deadline end it |
| `bulk` | 3 jobs, workers 0, 1, 2, above the bound, both fail-fast settings, SIGTERM | 27 000 | slots, fail-fast, report, termination |
| `parse` | every text of 6 lines over 10 kinds of line | 1 900 000 | is a block its span, does a command lose only its header |
| `preparation` | one invocation varied in one respect at a time: every graph of mentions over 3 rollbacks, dependencies and rollbacks of 3 steps, each flaw, 4 320 mixes of sources and consents, with values that empty a command or bring in a reference, 520 bulk plans | 32 000 | is what runs runnable, are circles found, who answered for danger, is the plan exact |
| `output` | 2 steps of one job, 1 of another, 1 refused write | 57 000 | do lines arrive whole and in order, is the capture a marked prefix, what can stop a script |
| `audit_store` | 2 runs whose ids share a prefix, 4 instants, prunes, failing statements, kills | 312 000 | is a run pruned whole, how far is newest first true |

A sequential run is checked in `audit` rather than alone: the rows add no step the
run can take and a kill only ends it, so its own properties lose nothing there.

The bounds. Three steps are the fewest that have a fan-in and a fan-out; four
the fewest with a diamond, on which a skip and a completion can both reach a
step, with a chain beside a free step, and with two steps that become ready while
one of two slots is taken, the case in which a wrong count of free slots starts
one too many. Two children give one that traps
SIGTERM beside one that keeps a pipe, and two pipes one that has ended, or was given
up, beside one that is still read. In `interrupts` a gate may be skipped before any
step has left something to undo, or come after one that has. Three jobs with two slots give a job that
runs, one that waits and one not reached. Six lines hold two blocks, or one with a
header, a repeated key and a second `---`, or frontmatter before a block; the limit
of blocks is 2 for 1 000. Five rows stand for the cap of 256, so that a product just
over it, one refused before it is computed, and include rows that tip it all occur.
The pipe holds 1 byte, the scanner 2 and the capture 3 (64 KB, 64 KB and
1 MB): what matters is that a line may fit, that it may not with more
behind it than the pipe takes, and that the capture may end inside a line, at its
end, or before its newline. The instants of `audit_store` are hundredths of a second
with 0, 1 and 2 digits of fraction, less and more than a second apart.
`MaxSignals`, `MaxTyped`, `MaxLost` and `MaxFaults`
bound what the environment does, not what the program does: each run's property
about them (one line lost at most, only the lost row missing) does not grow with
the bound, as its argument shows. `UpperBound` is 2 for 256.

Fairness. Go runs every goroutine that can run, so each one is weakly fair. A
command ends: `StepProcess` shows that a deadline ends it, and without one the
operator has to. A prompt is answered, if only by end of input. No interrupt, no
failure, no SIGTERM, no kill and no answer to an interrupt prompt is assumed
fair. In `StepProcess` no process is assumed to exit and no reader to give up; only
`Run`, the goroutine that reaps, and a reader whose pipe has ended go on, so
`ReturnsAfterDeadline` rests on SIGKILL alone.
In `OutputStreams` scripts, readers and the coordinator go on while any of them
can and a write to the sink returns. Runs say `CHECK_DEADLOCK FALSE` because a run that has returned does nothing
more.

Properties worth reading first:

- `NothingStranded` and `InFlightExact`: the coordinator leaves its loop when nobody
  is in flight (`run.go:726`), and would end the run with success however many steps
  are left; no mix of completions and skips leaves one. No worker blocks on a full
  channel.
- `QuietBeforeRollback`, `RollbackIsComplete`, `DependentsUndoneFirst`: siblings
  that were cancelled are waited for, one that succeeded all the same is undone,
  and undoing in order of completion respects the dependencies.
- `OneLineIsLostAtMost`: a prompt that timed out leaves a reader on the terminal;
  at most one line of a whole run goes to it, because such a prompt is the last.
- `ReturnsAfterDeadline`: when the script dies at once but a child traps SIGTERM
  and holds the pipe, the script stays a zombie, so the poll on the leader does
  not end early and SIGKILL follows.
- `OutputIsFinal`: a reader may give up a pipe that a child still holds, but what `Run`
  returns is read by nobody any more, and such a pipe is the only one still held.
- `FailFastStopsWaiting`: the select may take a slot although the context is
  done; the check after it is what keeps the job from starting.
- `HistoryExplainsTheOutcome`: what one may conclude from the database alone.
- `CirclesAreFound`: the search for rollback circles stops at the first one, leaves
  its path marked and starts in the order of a Go map; it reports a circle if and
  only if there is one all the same, though not always the same names.
- `ReadyMeansRunnable`: validation comes before the environment filter and before
  substitution. The filter breaks none of its promises; a value breaks at most the
  two about the text of the command it is put into, and never another's.
- `OutputNeverStopsTheScript`: neither a refused write nor a neighbour that holds
  the writer stops a script; only a line the scanner cannot hold does.
- `PruneTakesRunsWhole`: between two deletes without a transaction, and beside runs
  that insert, a run never keeps its row and loses others, except one that was under
  way when a prune older than it looked.

## 4. Where the code and its documents disagree

Two are runs that check one property stated by a document or comment, which TLC
finds violated:

| Run | The document says | The code does |
|---|---|---|
| `continue_ends_the_run` | `signal.go:34`, `docs/safety.md:188`: continue resumes | ends the run with success |
| `job_environment` | `docs/format.md:109`: a step runs only in its environments; `docs/bulk.md:150` sweeps `env` | the filter reads `--env`, not the row's `env`: every job runs the steps of every environment |

Others met while modelling, with no run of their own. Interrupts and rollback:

- An interrupt's rollback is reported as rolled_back whatever failed in it
  (`run.go:1042`; `run.go:66` says cleanly).
- Dependents of a step skipped at its gate run (`run.go:736`; `docs/safety.md:210`
  says they are skipped).
- An answer typed for an interrupt prompt may be read by a gate that already waits
  on the terminal, and the prompt then defaults to rollback (`signal.go:177`;
  `docs/safety.md:193`: only if no input is received).
- An answer given to an interrupt while the last step runs, or while a step that
  then fails runs, is never read (`run.go:604`).
- The sequential executor takes steps in document order and never reads
  `depends_on` (`run.go:604`; `docs/safety.md:209`).
- The failed step itself is not undone (`run.go:626`; `docs/safety.md:79` shows it
  undone first).
- Rollback blocks run under the run's own context, so after the global timeout
  they are started and killed at once (`rollback.go:232`; `docs/safety.md:159`).

Processes and output:

- A timed-out step whose child left the process group and holds the pipe never ends
  (`executor.go:266`; `docs/safety.md:133`).
- A worker may start its command after `cancelSteps` (`run.go:800`; the comment at
  `run.go:681` excludes it). The command is started with a cancelled context.
- A background child that ignores SIGTERM and has closed its output survives when
  the script is reaped during the grace period (`process_unix.go:64`;
  `docs/security.md:89`).
- A deadline inherited from the caller is reported as the step's own timeout
  (`executor.go:256`; the comment at `executor.go:219`).
- The orphan check looks for children of a script that is gone, whose children
  have another parent by then (`executor.go:262` and `:309`).
- After a line of 64 KB the rest of a step's output is lost without a mark when it
  fits the pipe, and the script blocks until its deadline when it does not
  (`executor.go:333`). Nobody reads its pipe any more, so `Run` may return while a
  background child still holds it and writes.
- After a refused write, `Flush` puts several lines under one label
  (`prefix.go:119`; `docs/bulk.md` says every line is prefixed).

Documents, variables and plans:

- A command that holds a `---` line of its own and has no header loses what stands
  before it (`parser.go:343`); in a CRLF file no `---` parts header and command.
- `{{ x }}` passes the validator and is never substituted (`validator.go:306`,
  `resolver.go:70`).
- A value is put into a command as text, after validation: an empty one can leave a
  command with nothing in it, which the validator refuses of the file
  (`validator.go:518`) and the shell runs as a success; one that holds `{{x}}` leaves
  `{{x}}` in the command that runs, with no warning, though a `{{x}}` of the file that
  is not bound is an error (`resolver.go:402`).
- An undefined variable is an error (`resolver.go:325`), not the empty string with a
  warning of `docs/variables.md:111`; rollbacks of filtered steps need theirs too.
- One unknown key drops a whole configuration with a warning (`config.go:95`), its
  environment included, and without an environment every step runs.
- The prompt about dangerous values has a scanner of its own (`resolver.go:386`), so
  lines piped for later prompts are lost; the comment at `run.go:1086` says the
  scanner is shared by all prompts.
- A global timeout that does not parse is ignored (`run.go:470`).
- The cap on matrix rows is per file, so the jobs of an invocation are not bounded by
  it (comment at `matrix.go:199`); repeated values and include rows make equal jobs;
  an exclude row that gives a misspelt key the empty value drops every row.
- Wait blocks are parsed, validated and filled in but never executed.

Audit and bulk:

- Starts are compared as text whose fraction loses its last zeros, so within a second
  `history` may list the older run first (`audit.go:243`; the comment at `:325`).
- The list shows eight characters of an id, four of them random, which may lead
  `--run-id` to another run (`history.go:101`; `audit.go:284`); a prefix without
  `run_` matches nothing (`docs/audit.md:76`).
- After SIGTERM a pending bulk job may still be started (`coordinator.go:293`,
  comment at `:178`), and an invocation whose jobs were all skipped exits with 0
  (`coordinator.go:164`; `docs/bulk.md:86`).

## 5. What is proved

TLAPS checks every leaf. The theorems hold for every value of the constants that
meets the modules' named assumptions, which the runs evaluate:

- `StepsAssumption`: steps are a finite set of positions in the document, and names for them;
- `GraphsAssumption`: graphs over those steps; that the one chosen is acyclic is a
  conjunct of `SchedInit`, as `Build` refuses the others;
- `RunAssumption`: rollbacks and gates belong to steps, checks are a number;
- `MaxParallelAssumption`: more than one worker (`run.go:583` takes the sequential
  executor otherwise);
- `BulkAssumption`, `HandlerAssumption`, `AuditAssumption`: the types of the numbers of
  jobs, signals, typed lines, failing writes;
- `ProcessAssumption`: the script is not one of its children, and what a process may do
  is whether it is in the group, traps SIGTERM, and which of the pipes it holds;
- `OutputAssumption`: a script belongs to a job, texts are sequences of two kinds of
  byte, and the pipe, the scanner's buffer and the capture hold at least one byte;
- `StoreAssumption`: ids are texts of one length (`newRunID`), instants are numbers,
  a retention is longer than a second (it is a number of days), and the clock does not
  begin before one has passed, so that a cut-off is a time it can show;
- `BlocksAssumption`, `LinesAssumption`: the limit of blocks is positive, an opening
  names a type of block;
- `InvocationsAssumption`: the file of an invocation is a record with the fields of
  `ast.RunbookAST`, of whatever content, and its input is a sequence of lines.

| Module | Theorem | States |
|---|---|---|
| `RunDAGProofs` | `DependencyOrder`, `CountsAreExact`, `NobodyStranded` | `DependenciesFirst`, `PendingCounts`, `NothingStranded` |
| | `SchedulerImplementsStepOrder` | the refinement `ImplementsStepOrder` |
| | `CountIsExact`, `RollbackIsQuiet` | `InFlightExact`, `QuietBeforeRollback` |
| | `ParentsComeFirst`, `DependentsAreUndoneFirst` | `ParentsBeforeCommand`, `DependentsUndoneFirst` |
| | `ParallelAccounts`, `ParallelRollbackIsComplete` | `RollbackAccounting`, `RollbackIsComplete` |
| | `CoordinatorFollowsScheduler`, `ParallelKeepsContract` | the refinements `FollowsScheduler`, `KeepsContract` |
| `AuditedRunProofs` | `SequentialAccounts`, `HistoryIsExplained` | `RollbackAccounting`, `HistoryExplainsTheOutcome` |
| | `TrailIsTold` | `TrailIsFaithful` |
| | `SequentialKeepsContract` | the refinement `KeepsContract` |
| `AuditStoreProofs` | `PruneIsWhole`, `NewestFirstUpToASecond` | `PruneTakesRunsWhole`, `NewestFirstToTheSecond` |
| `SignalHandlerProofs` | `StaleReadersLoseOneLine` | `OneLineIsLostAtMost` |
| | `HandlerImplementsMailbox` | the refinement `ImplementsMailbox` |
| `StepExecutorProofs` | `CapturedOutputIsFinal`, `ReportedStatusIsHonest` | `OutputIsFinal`, `StatusIsHonest` |
| | `CapturedIsAMarkedPrefix`, `LinesArrive` | `CaptureIsAPrefix`, `LinesArriveInOrder` |
| `BulkCoordinatorProofs` | `SemaphoreIsExact`, `ReportIsComplete` | `SlotsExact`, `ReportComplete` |
| | `FailFastWins`, `SequentialIsExact` | `FailFastStopsWaiting`, `SequentialStopsAtFailure` |
| `DocumentProofs` | `BlocksAreExact`, `CommandsAreWhole` | `BlocksAreTheirSpans`, `CommandsLoseOnlyTheHeader` |
| | `FilterIsExact` | about the operator, for every document |
| | `RunnableWhenReady`, `DangerIsAnswered` | `ReadyMeansRunnable`, `DangerIsAnsweredFor` |
| | `BindingsReach` | `BindingReachesTheCommands` |

`SchedulerInvariant`, `DagInvariant`, `AuditInvariant`, `BulkInvariant`,
`StoreInvariant`, `ParserInvariant` and `PreparationInvariant` state the inductive
invariants the others follow from.

**The scheduler.** `SchedInv` is the type invariant with `ReadyMatches` (queue and
states agree), `PendingCounts`, `DependenciesFirst`, `SkipCascades`, and that a
pending step still has an open edge. None is inductive alone: that a promoted
step's parents are completed needs the counts; that the counts stay exact when a
step completes needs that it was not completed before; that a skipped step's
children keep out of the queue needs the cascade. `NobodyStranded` takes a minimal
pending step, which acyclicity gives: its parents would all be completed and its
count zero. The one hard step of the refinement is that the walk of `Skip`, which
stops at completed and skipped steps, abandons exactly the descendants in the
whole graph.

**What both executors keep.** `RunLifecycleProofs` has lemmas only, about the
actions the executors share. Its `EngineInv` says that stack, snapshot and report
take turns (`TakeTurns`), that none repeats a step, and that a success with a
rollback is in one of them. `RollbackAccounting` alone is not inductive: a push
keeps the three apart only because nothing is in the snapshot or the report before
`Execute`, and `Execute` empties the stack in the step that takes the snapshot. Each
action is shown once to keep `EngineInv` and to be a step of `RunContract`; what an
executor adds is that the step it pushes was not pushed before.

**The parallel executor.** `DagInv` is `SchedInv`, `EngineInv` and what ties the
scheduler, the workers, the channel and the stack together. `Channel`: a
completion in the channel is the last word of a worker that waits for nothing
else, and no two are of one worker. `Handed`: a live worker's step is dispatched,
and conversely until the coordinator cancels. `Slotted`: `inFlight` is the number of
live workers and at most the cap. From these the channel holds at most as many
completions as there are slots, less the workers still to send, which is why none
blocks; a receive waits only when someone is live, and for the same reason the exit for
`inFlight` = 0 is never taken with work left (`Places`); the drain ends at zero, when
nobody is, which is `QuietBeforeRollback`, and every success it received was pushed,
which with `EngineInv` is `RollbackIsComplete`. `Started` carries a command's
parents from the scheduler to the results, through the two ways a step completes.
`Ordered` is the argument for undoing: when a step is pushed, all its descendants are
pending or skipped (`DescendantsWait`), so none of them is on the stack below it; the
order survives the snapshot, from whose end blocks are taken, and the report. For
`FollowsScheduler` the one gap to close is that the coordinator asks for as many
steps as there are free slots while `SchedSpec` hands out at most all of them
(`HandedOut`).

**The sequential executor and its rows.** `SeqInv` adds the place of the loop:
nothing on the stack is still to come, and only the step the loop is at may have
been started. `OutcomeInv` says, for each status, what the run has seen and why it
ended. `TrailInv` is the fact about the database. It numbers the inserts that were
tried: the run's state implies a trail of rows, and of these the ones whose number is
in `lost` are missing, the last ones are still owed, and the row at any other number
is in the table, at the place that remains when the lost ones before it are left out
(`Tells`). A result adds at the end of the trail and of what is owed; an insert, which
takes the first row owed, either moves it to the table or its number to `lost`, and
disturbs no place before it. `TrailIsFaithful` is this, read at any moment a kill may
stop the run. With
`closed` (the run's row is updated last and only after the executor returned)
`HistoryExplainsTheOutcome` follows for every closed run that lost no row.

**The signal handler.** `HandlerInv`: a reader of a prompt that is not the last one
does not exist, because a prompt opens only while the loop listens, and the loop
listens again only after an answer a reader had to read. So a reader given up finds
the loop returned, no other prompt follows, and what it takes is the only line lost.
`HandlerImplementsMailbox` needs none of it: the mailbox says when an answer may
appear, replace nothing, and be polled.

**The step process.** `CapturedOutputIsFinal`: a result is returned only after the
script was reaped, and it is reaped only when both readers have ended or given up. A
pipe whose reader came to its end has no writer (`RunInv`), and none can get it again:
only a live script forks, and a child is given what the script holds. So of a pipe that
is still held the reader gave up. `ReportedStatusIsHonest`: only the kill ends the script by a
signal, it starts no earlier than the select that saw the context end, and nothing
that the status was read from changes after the reaper read it (`HonestInv`).

**The database.** `StoreInv` says of each run that it has its row, unless the insert
failed or a prune overtook it (`Owned`); that its step rows are among those it wrote, in
order (`Written`), and all of them while no prune with a later cut-off has looked
(`Kept`); and of a prune between its two deletes (`Pruning`) that no step row is left of
the runs it is about to delete, other than those it overtook. The delicate part is time: the cut-off is
compared as text, whose order agrees with that of the times only from a second on, so
that everything needed of a run is said for runs a second younger than the cut-off,
and a run that begins while a prune is under way is younger than its cut-off by the
retention. `NewestFirstUpToASecond` rests on the same lemmas about texts, and on there
being one ordered sequence of any finite set of rows.

**Output.** `StreamInv` says where every byte is: the capture, then what the scanner
holds, then the pipe are consecutive stretches of the text (`InPlace`), the scanner
holds no byte behind a newline (`OneLine`), and the capture is the first of the bytes
it was given, the mark set exactly when it was given more than it holds
(`FirstBytes`). The delicate case is the last line: when the text does not end with
a newline the capture is given one byte that no script wrote, and the limit may fall
just there. The sink, its failures and the lock do not appear in the argument: the
capture is right whatever they do, which is what `run.go` relies on.

`WriterInv` is about the other half. For each job, what the sink took whole followed by
what waits in the buffer is what the job was given (`InOrder`): a write appends to the
buffer, a line moves from its head to the sink, and a refused or short write moves
nothing. That no label is missing needs `Unrefused`: until a write of the job fails, the
lock is given up with an empty buffer, so a line never joins what an earlier one left.

**The bulk coordinator.** `BulkInv` adds to the types the count of held slots, the
order of dispatch, what each goroutine has written, and the facts about fail-fast
(`WaitingStays`, `OneByOne`).

**The parser.** `ParserInv`: each node spans from its opening to the first fence after
it and its command is what remains of that span after the header (`Spans`,
`LosesOnlyTheHeader`), nodes are in order and apart, while a block is read no fence has
been passed since it opened (`InTheBlock`), and every opening of the body is inside a
node or the block being read (`OpeningsCovered`). The last is why an opening inside a
block is text and not a block, and the one that an accepted text leaves nothing out
of rests on.

**Resolver and preparation.** `FilterIsExact` is about an operator and has no state:
what the environment filter leaves is an increasing choice of the steps, and exactly of
those that name no environment or the target. `PrepInv` says which tree is in work at each stage (`TreeInWork`: the
file's until the resolver, then what the filter and the values make of it, with the
rules of the validator known to hold of the former), what stands between a dangerous
value and a started run (`DangerSoFar`), what a run that ended left (`EndedFor`) and
that the options bind what the job is named by (`OptionsBindTheJob`).
`RunnableWhenReady` then has to carry the rules over the filter and the substitution:
names stay unique and dependencies acyclic on a subset of the steps, since a set of
steps in which each depends on another of the set is one of the whole document as well
(`HasCycle` says it so; the code finds it by counting); a rollback is never filtered.
Two rules do not carry over, that no command is empty and that every name in one is
bound: a value may be blank or hold a `{{name}}` itself. What is true of a started run,
and proved, is that nothing else breaks them (`OnlyValuesFlaw`): a name left in a command
came in with a value put into that command, and a command with nothing in it had nothing
but references, all with blank values. `BindingsReach` follows from the options through
`Context`, whose first layer is the command line's.

Only model-checked, and why:

- liveness (`Returns`, `ReturnsAfterDeadline`, `BothEnd`, `RunIsClosed`,
  `OutputNeverStopsTheScript`): fairness and ENABLED are outside the prover's reach;
- `CirclesAreFound`: the search for circles of rollbacks is recursive over the
  document, with a path and marks, and what it returns for every document is an
  induction over data;
- `PlanIsExact`: the rows of a matrix are counted, with products and remainders over
  its axes, and concatenated, which are folds over data.

Both are checked against independent definitions over the inputs of `preparation`:
every graph of mentions over three rollbacks, and plans of up to two axes with
exclusions and included rows.

## 6. What is not modelled, and why

- Other operating systems: process groups and `/proc` are Unix's and Linux's.
- Line ends: `bufio.ScanLines` drops a carriage return before a newline, or at the end
  of a text (`executor.go:333`), and the capture and the display have a newline alone.
  In `OutputStreams` a newline stands for either line end, so "nothing is missing" is up
  to that byte.
- The rest of a line that closes the frontmatter (`---` followed by more), which the
  body keeps as its first line (`parser.go:185`): in `RunbookParser` the body begins
  after that line. It makes a difference only if the rest opens a typed block.
- Text: messages, durations, formatting of reports, redaction and truncation.
- What the patterns of the validator and of the metacharacter gate recognise in a
  text: a block comes with the result. Size, encoding and YAML's own syntax.
- The .env file's warnings (place, mode) and the list of secrets.
- Detection, shell integration, templates, diagnosis, display of the history:
  reads and printing.
- A command that reads the terminal (it inherits stdin in an interactive run)
  and a gate's reveal, in `SignalHandler`.
- The exit code of a bulk invocation, a maximum over the finished report.
- Two runs that draw the same id of 32 random bits (`run.go:1280`), in `AuditStore`.

## 7. Plan

1. Done: scheduler, both executors, rollback, signal handler, process, output, bulk
   coordinator, audit rows and database, and every stage before the first command.
2. Done: the safety of the scheduler, of both executors with their rollback, of
   the signal handler, of the process, of the capture and of the bulk coordinator
   proved, and every refinement between them.
3. Done: the two deletes of `Prune` and the order of the lists, the sink of two jobs,
   the trail of a run whose inserts may fail, the blocks and commands of any text, and
   of any invocation that what is started is runnable, answered for and has its values.
4. Left: an argument by hand for `CirclesAreFound` and `PlanIsExact`, whose induction
   the prover cannot take, and the operators between them that need none (an exclusion
   drops exactly its supersets, a refused expansion is one above the cap).
