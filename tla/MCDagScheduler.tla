--------------------------- MODULE MCDagScheduler ---------------------------
(***************************************************************************)
(* Every graph of three steps whose depends_on lists hold at most two      *)
(* names, among them a step listed twice and the name of a step that       *)
(* environment filtering removed, with a fourth that depends on the three; *)
(* and every graph of four steps whose lists hold distinct names and point *)
(* one way.  The order within a list decides nothing and is fixed.         *)
(***************************************************************************)
EXTENDS DagScheduler

Listed == Names \ {4}

Sorted(list)   == \A i, j \in DOMAIN list : i < j => list[i] <= list[j]
Distinct(list) == \A i, j \in DOMAIN list : i < j => list[i] < list[j]

SmallLists  == {l \in UNION {[1..k -> Listed] : k \in 0..2} : Sorted(l)}
SmallGraphs == {[s \in Steps |-> IF s = 4 THEN <<1, 2, 3>> ELSE g[s]] : g \in [Steps \ {4} -> SmallLists]}

SetLists     == {l \in UNION {[1..k -> Steps] : k \in 0..3} : Distinct(l)}
Upwards(g)   == \A s \in Steps : \A i \in DOMAIN g[s] : g[s][i] < s
Downwards(g) == \A s \in Steps : \A i \in DOMAIN g[s] : g[s][i] > s
PlainGraphs  == {g \in [Steps -> SetLists] : Upwards(g) \/ Downwards(g)}

AllGraphs == SmallGraphs \cup PlainGraphs
=============================================================================
