--------------------------- MODULE MCRunbookParser ---------------------------
(***************************************************************************)
(* Texts of at most six lines over ten kinds of line: enough for two       *)
(* blocks, a step with a header and a repeated key, frontmatter before a   *)
(* block, a missing fence and a third block over the limit.                *)
(***************************************************************************)
EXTENDS RunbookParser

Line(kind) == [kind |-> kind]
Pair(key)  == [kind |-> "pair", key |-> key]
Opening(type, name, inline) ==
    [kind |-> "open", type |-> type, name |-> name, inline |-> inline]

MCLines == {Line(k) : k \in {"blank", "dashes", "rule", "fence"}}
           \cup {Pair("timeout"), Pair("duration")}
           \cup {Opening("step", "deploy", FALSE),
                 Opening("wait", "soak", FALSE),
                 Opening("wait", "soak", TRUE),
                 Opening("wait", NoName, TRUE)}
=============================================================================
