-------------------------- MODULE VariableResolution --------------------------
(***************************************************************************)
(* internal/resolver: where the variables of a run come from and what      *)
(* becomes of the tree.  s holds the sources of one invocation:            *)
(*   target    the target environment, "" when none is given               *)
(*   cli       variable names to values, from --var and the matrix         *)
(*   environ   the RUNBOOK_ variables in the order of the environment,     *)
(*             each with its name as lower-cased: two that differ only in  *)
(*             case have the same one                                      *)
(*   dotenv    the .env file: its state ("none", "unreadable", "read") and *)
(*             its variables                                               *)
(* Values are compared; some of them hold a shell metacharacter, some are  *)
(* nothing but blanks, and some hold references.  What is told of a value  *)
(* is told of the built-ins too, which are their own values here.          *)
(*                                                                         *)
(* Definitions marked "faulty" are variants with a bug, each defined just  *)
(* before the definition it distorts; no specification uses them.          *)
(***************************************************************************)
EXTENDS DocumentRules

CONSTANTS HostFacts,  \* those of user, hostname and cwd the host tells
          Dangerous,  \* the values findFirstMetachar finds something in
          Blank,      \* the values that are nothing but blanks
          Carries     \* the pairs <<w, r>> of a value w that holds a reference r

\* A copy of the map g with the map f copied over it.
Over(f, g) ==
    [x \in DOMAIN f \cup DOMAIN g |-> IF x \in DOMAIN f THEN f[x] ELSE g[x]]

Builtins(s) ==
    [v \in {"runbook_name", "runbook_version", "run_id", "timestamp"} \cup HostFacts |-> v]
    @@ ("env" :> s.target)

\* The last of several names that fold to the same one stays.
Environ(s) ==
    FoldLeft(LAMBDA acc, e : (e.key :> e.value) @@ acc, <<>>, s.environ)

\* faulty: copies the layers in the opposite order
EnvironOverCli(s) == Over(Environ(s), Over(s.cli, Over(s.dotenv.vars, Builtins(s))))

\* Built-ins, then the .env file, then the environment, then the command
\* line, each over what came before.
Context(s) == Over(s.cli, Over(Environ(s), Over(s.dotenv.vars, Builtins(s))))

\* Steps only, whatever the case of the name; a step without a list stays.
ContainsEnv(envs, target) == \E e \in envs : Lower[e] = Lower[target]

FilterByEnv(d, target) ==
    LET kept == {k \in DOMAIN d.steps :
                   d.steps[k].env = {} \/ ContainsEnv(d.steps[k].env, target)}
        n    == Cardinality(kept)
        at   == CHOOSE p \in [1 .. n -> kept] : \A i, j \in 1 .. n : i < j => p[i] < p[j]
    IN  [d EXCEPT !.steps = [i \in 1 .. n |-> d.steps[at[i]]]]

\* Without a target environment every step stays.
Filtered(d, s) == IF s.target = "" THEN d ELSE FilterByEnv(d, s.target)

-----------------------------------------------------------------------------
\* The names a command uses in the one form that is substituted.
References(b) == {r.name : r \in {q \in b.refs : q.form = "plain"}}

Brought(w) == {p[2] : p \in {q \in Carries : q[1] = w}}

\* One pass over the text: what a value itself holds is not looked at again
\* and stays in the command.
SubstituteVars(b, c) ==
    LET put == [v \in References(b) \cap DOMAIN c |-> c[v]]
    IN  [b EXCEPT !.values = put,
                  !.refs = {r \in @ : r.form # "plain" \/ r.name \notin DOMAIN c}
                           \cup UNION {Brought(put[v]) : v \in DOMAIN put}]

Substituted(d, c) ==
    LET Each(bs) == [k \in DOMAIN bs |-> SubstituteVars(bs[k], c)]
    IN  [d EXCEPT !.checks = Each(@), !.steps = Each(@),
                  !.rollbacks = Each(@), !.waits = Each(@)]

\* The blocks of which the pass found a name that is not bound: of every
\* kind, and the rollbacks of steps that were filtered out with them.
Unresolved(d, c) == NamesWith(Blocks(d), LAMBDA b : ~(References(b) \subseteq DOMAIN c))

\* findFirstMetachar on every value that went into a command.
MetacharWarnings(d) ==
    {w \in UNION {{[block |-> Blocks(d)[k].name, var |-> v,
                    value |-> Blocks(d)[k].values[v]] :
                      v \in DOMAIN Blocks(d)[k].values} :
                    k \in DOMAIN Blocks(d)} :
       w.value \in Dangerous}

ResolvedTree(d, s)     == Substituted(Filtered(d, s), Context(s))
UnresolvedBlocks(d, s) == Unresolved(Filtered(d, s), Context(s))
=============================================================================
