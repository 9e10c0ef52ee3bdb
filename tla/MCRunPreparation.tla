--------------------------- MODULE MCRunPreparation ---------------------------
(***************************************************************************)
(* The invocations: one ordinary runbook and one ordinary command line,    *)
(* varied in one respect at a time.  Each respect is a set below.          *)
(***************************************************************************)
EXTENDS RunPreparation

MCLower == [e \in {"staging", "production", "Production"} |->
               IF e = "Production" THEN "production" ELSE e]

Block(name) == [name |-> name, bare |-> FALSE, refs |-> {}, values |-> <<>>]
Step(name) ==
    Block(name) @@ [rollback |-> NoBlock, dependsOn |-> <<>>, timeout |-> NoValue,
                    confirm |-> "", env |-> {}, signs |-> {}]
Rollback(name) == Block(name) @@ [mentions |-> {}]
Uses(form, name) == [form |-> form, name |-> name]

MCCarries == {<<"{{w}}", Uses("plain", "w")>>}

Ordinary ==
    [named |-> TRUE, environments |-> {}, maxParallel |-> 0, tools |-> {},
     repeatedKey |-> FALSE, dotEnv |-> FALSE, gitignores |-> <<>>, writable |-> FALSE,
     checks |-> <<Block("c")>>,
     steps |-> <<[Step("s1") EXCEPT !.rollback = "r1", !.refs = {Uses("plain", "v")}],
                 [Step("s2") EXCEPT !.env = {"Production"}, !.rollback = "r2"],
                 Step("s3")>>,
     rollbacks |-> <<[Rollback("r1") EXCEPT !.refs = {Uses("plain", "env")}],
                     Rollback("r2"), Rollback("r3")>>,
     waits |-> <<[Block("w") EXCEPT !.bare = TRUE, !.refs = {Uses("plain", "v")}]>>]

Plain ==
    [command |-> "run", config |-> [state |-> "absent", env |-> "", nonInteractive |-> FALSE],
     env |-> "staging", nonInteractive |-> FALSE, dryRun |-> FALSE, strict |-> FALSE,
     securityStrict |-> FALSE, varFlags |-> <<[equals |-> TRUE, key |-> "v", value |-> "x"]>>,
     environ |-> <<>>, dotenv |-> [state |-> "none", vars |-> <<>>], tree |-> Ordinary,
     parses |-> TRUE, stdin |-> <<>>, files |-> <<>>, report |-> "", matrixFile |-> FALSE,
     matrix |-> [axes |-> <<>>, include |-> <<>>, exclude |-> <<>>],
     matrixFlags |-> <<>>, maxRunbooks |-> 1]

-----------------------------------------------------------------------------
\* Every graph of mentions over three rollbacks.
MentionTrees ==
    {[Ordinary EXCEPT !.rollbacks =
        [k \in 1 .. 3 |-> [Rollback(<<"r1", "r2", "r3">>[k]) EXCEPT !.mentions = g[k]]]] :
       g \in [1 .. 3 -> SUBSET {"r1", "r2", "r3"}]}

\* Who waits for whom, a step that is filtered out and one that is not there
\* included.
DependencyTrees ==
    {[Ordinary EXCEPT !.steps = [k \in 1 .. 3 |-> [@[k] EXCEPT !.dependsOn = g[k]]]] :
       g \in [1 .. 3 -> {<<>>, <<"s1">>, <<"s2">>, <<"s1", "s3">>, <<"s3", "s2">>, <<"gone">>}]}

\* Which rollback each step names.
RollbackTrees ==
    {[Ordinary EXCEPT !.steps = [k \in 1 .. 3 |-> [@[k] EXCEPT !.rollback = g[k]]]] :
       g \in [1 .. 3 -> {NoBlock, "r1", "r2", "gone"}]}

\* Flaws of one block or of the file.
FlawedTrees ==
    {[Ordinary EXCEPT !.steps[2].timeout = t] : t \in {Unparsable, 0, 1, 86400, 86401}}
    \cup {[Ordinary EXCEPT !.steps[3].refs = {Uses(f, "v")}] :
             f \in {"plain", "spaced", "empty", "malformed"}}
    \cup {[Ordinary EXCEPT !.steps[3].refs = {Uses("plain", "nowhere")}],
          [Ordinary EXCEPT !.steps[2].refs = {Uses("plain", "nowhere")}],
          [Ordinary EXCEPT !.rollbacks[2].refs = {Uses("plain", "nowhere")}]}
    \cup {[Ordinary EXCEPT !.steps[3].signs = {g}] :
             g \in {"destructive", "secret", "curl", "wget", "pipe"}}
    \cup {[Ordinary EXCEPT !.maxParallel = n] : n \in {-1, 256, 257}}
    \cup {[Ordinary EXCEPT !.steps[3].bare = TRUE], [Ordinary EXCEPT !.waits[1].refs = {}],
          [Ordinary EXCEPT !.named = FALSE], [Ordinary EXCEPT !.repeatedKey = TRUE],
          [Ordinary EXCEPT !.tools = {"kubectl"}], [Ordinary EXCEPT !.writable = TRUE],
          [Ordinary EXCEPT !.environments = {"production"}],
          [Ordinary EXCEPT !.checks[1].name = "s1"],
          [Ordinary EXCEPT !.rollbacks[2].name = "r1"]}
    \cup {[Ordinary EXCEPT !.dotEnv = TRUE, !.gitignores = g] :
             g \in {<<>>, <<{"bin"}>>, <<{"bin"}, {"/.env"}>>}}

TreeInvocations ==
    {[Plain EXCEPT !.tree = t] : t \in MentionTrees \cup DependencyTrees \cup RollbackTrees}
    \cup {[Plain EXCEPT !.tree = t, !.command = c, !.securityStrict = b] :
             t \in FlawedTrees, c \in {"run", "validate"}, b \in BOOLEAN}

-----------------------------------------------------------------------------
\* Where the values come from, "!" being a dangerous one, "" one that empties
\* a command and "{{w}}" one that brings a reference, and who is asked.
SourceInvocations ==
    {[Plain EXCEPT !.command = c, !.config = cfg, !.env = e, !.nonInteractive = ni,
                   !.strict = st, !.varFlags = cli, !.environ = en, !.dotenv = de,
                   !.stdin = in] :
       c   \in {"run", "dry-run"},
       cfg \in {[state |-> "malformed", env |-> "production", nonInteractive |-> TRUE],
                [state |-> "read", env |-> "production", nonInteractive |-> TRUE],
                [state |-> "read", env |-> "", nonInteractive |-> FALSE]},
       e   \in {"", "staging"},
       ni  \in BOOLEAN,
       st  \in BOOLEAN,
       cli \in {<<>>, <<[equals |-> FALSE, key |-> "v", value |-> ""]>>,
                <<[equals |-> TRUE, key |-> "v", value |-> ""]>>,
                <<[equals |-> TRUE, key |-> "v", value |-> "{{w}}"]>>,
                <<[equals |-> TRUE, key |-> "v", value |-> "x"],
                  [equals |-> TRUE, key |-> "v", value |-> "!"]>>},
       en  \in {<<>>, <<[key |-> "v", value |-> "!"], [key |-> "v", value |-> "y"]>>},
       de  \in {[state |-> "none", vars |-> <<>>], [state |-> "unreadable", vars |-> <<>>],
                [state |-> "read", vars |-> ("v" :> "!")]},
       in  \in {<<>>, <<"y", "n">>, <<"n">>}}

-----------------------------------------------------------------------------
Axis(key, values) == [key |-> key, values |-> values]
File(path, abs) == [path |-> path, abs |-> abs, regular |-> abs # "/none"]

MatrixFiles ==
    {[axes |-> a, include |-> i, exclude |-> x] :
       a \in {<<>>, <<Axis("env", <<"staging", "production">>)>>,
              <<Axis("env", <<"staging", "production">>), Axis("v", <<"x", "!">>)>>,
              <<Axis("v", <<"x", "x">>)>>, <<Axis("v", <<>>)>>,
              <<Axis("v", <<"a", "b", "c">>), Axis("z", <<"a", "b">>)>>,
              <<Axis("z", <<"a", "b", "c", "d", "e">>)>>},
       i \in {<<>>, << "v" :> "x" >>},
       x \in {<<>>, << <<>> >>, << "v" :> "x" >>, << "env" :> "staging" >>,
              << "typo" :> "" >>,
              << [env |-> "staging", v |-> "x"], [env |-> "production", v |-> "!"] >>}}

FlagLists == {<<>>, <<[equals |-> TRUE, key |-> "v", values |-> <<"x", "", "y">>]>>,
            <<[equals |-> TRUE, key |-> "v", values |-> <<"">>]>>}

BulkInvocations ==
    {[Plain EXCEPT !.command = "bulk", !.matrixFile = TRUE, !.matrix = m, !.matrixFlags = f,
                   !.files = <<File("a", "/a"), File("b", "/b"), File("./a", "/a")>>,
                   !.maxRunbooks = n, !.env = "", !.stdin = <<"y">>,
                   !.environ = <<[key |-> "v", value |-> "y"]>>] :
       m \in MatrixFiles, f \in FlagLists, n \in {1, 2}}
    \cup {[Plain EXCEPT !.command = "bulk", !.files = fs, !.matrixFlags = f, !.report = r] :
             fs \in {<<>>, <<File("a", "/a")>>, <<File("a", "/a"), File("n", "/none")>>},
             f \in FlagLists, r \in {"json", "xml"}}

MCInvocations ==
    TreeInvocations \cup SourceInvocations \cup BulkInvocations
    \cup {[Plain EXCEPT !.parses = FALSE]}
=============================================================================
