---- MODULE MCOutputStreams ----
(* Two steps of one job and one of another.  The texts of the job's own    *)
(* pair: a last line with no newline, two lines of which the second does   *)
(* not fit the capture, and a line the scanner cannot hold with more       *)
(* behind it than the pipe takes.                                          *)
EXTENDS OutputStreams

CONSTANTS a, b, c

MCJobOf == [s \in {a, b, c} |-> IF s = c THEN 2 ELSE 1]

MCTexts == [s \in {a, b, c} |->
    CASE s = a -> {<<"x", "nl", "x">>, <<"x", "nl", "x", "nl">>}
      [] s = b -> {<<"x", "nl">>, <<"x", "x", "nl", "nl">>}
      [] OTHER -> {<<"x">>}]

ASSUME \E t \in UNION Range(MCTexts) : Overlong(t)
====
