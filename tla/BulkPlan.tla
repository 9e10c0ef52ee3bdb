------------------------------- MODULE BulkPlan -------------------------------
(***************************************************************************)
(* internal/bulk/matrix.go and the file arguments of "runbook bulk": which *)
(* jobs an invocation asks for.  A matrix m has its axes (a key and a      *)
(* sequence of values each), and the include and exclude rows; a row       *)
(* (Binding) maps keys to values.  A file argument has the path it was     *)
(* given as, the absolute path behind it and whether a regular file is     *)
(* there.                                                                  *)
(*                                                                         *)
(* Definitions marked "faulty" are variants with a bug, each defined just  *)
(* before the definition it distorts; no specification uses them.          *)
(***************************************************************************)
EXTENDS Integers, Sequences, FiniteSets, SequencesExt

CONSTANT MaxMatrixRows

ASSUME RowsAssumption == MaxMatrixRows \in Nat \ {0}

\* ParseMatrixVar on "key=v1,v2": a flag without "=", key or value is
\* refused; blank values are dropped.
ParseMatrixVar(flag) ==
    LET values == SelectSeq(flag.values, LAMBDA v : v # "")
    IN  [ok |-> flag.equals /\ flag.key # "" /\ values # <<>>,
         axis |-> [key |-> flag.key, values |-> values]]

\* ParseMatrixFile: at least one axis, none without a value.
MatrixFileIsSound(m) ==
    m.axes # <<>> /\ \A k \in DOMAIN m.axes : m.axes[k].values # <<>>

DuplicateAxes(axes) ==
    \E i, j \in DOMAIN axes : i # j /\ axes[i].key = axes[j].key

\* checkExpansionBounds, axis by axis: the product before any row is
\* excluded, given up as soon as the next factor must exceed the cap.  An
\* axis without a value ends the count: there will be no row to refuse.
ProductOf(axes) ==
    FoldLeft(LAMBDA acc, a :
                CASE acc.over \/ acc.product = 0 -> acc
                  [] a.values = <<>> -> [acc EXCEPT !.product = 0]
                  [] OTHER ->
                       IF acc.product > (MaxMatrixRows \div Len(a.values)) + 1
                       THEN [acc EXCEPT !.over = TRUE]
                       ELSE [acc EXCEPT !.product = @ * Len(a.values)],
             [over |-> FALSE, product |-> 1], axes)

ExceedsBounds(m) ==
    \/ ProductOf(m.axes).over
    \/ /\ ProductOf(m.axes).product # 0
       /\ ProductOf(m.axes).product + Len(m.include) > MaxMatrixRows

\* How many rows pass before axis j turns over to its next value.
Stride(axes, j) ==
    FoldLeft(LAMBDA acc, a : acc * Len(a.values), 1, SubSeq(axes, j + 1, Len(axes)))

\* Every combination, the last axis varying fastest.
Cartesian(axes) ==
    [i \in 1 .. Stride(axes, 0) |->
        [k \in {axes[j].key : j \in DOMAIN axes} |->
            LET j == CHOOSE x \in DOMAIN axes : axes[x].key = k
            IN  axes[j].values[(((i - 1) \div Stride(axes, j)) % Len(axes[j].values)) + 1]]]

\* A key the row does not have reads as the empty value.
IsSuperset(row, ex) ==
    \A k \in DOMAIN ex : ex[k] = IF k \in DOMAIN row THEN row[k] ELSE ""

\* faulty: an exclude row has to name every axis
MatchesWholeExclude(row, excludes) == \E k \in DOMAIN excludes : excludes[k] = row

\* An empty exclude row excludes nothing.
MatchesAnyExclude(row, excludes) ==
    \E k \in DOMAIN excludes :
        DOMAIN excludes[k] # {} /\ IsSuperset(row, excludes[k])

Rows(m) ==
    SelectSeq(IF m.axes = <<>> THEN <<>> ELSE Cartesian(m.axes),
              LAMBDA row : ~MatchesAnyExclude(row, m.exclude))
    \o m.include

\* What Expand refuses, in the order it looks.
ExpandRefuses(m) ==
    DuplicateAxes(m.axes) \/ ExceedsBounds(m) \/ Rows(m) = <<>>

\* buildMatrixBindings: the file's axes, then those of the flags.
WithFlags(m, flags) ==
    [m EXCEPT !.axes = @ \o [k \in DOMAIN flags |-> ParseMatrixVar(flags[k]).axis]]

-----------------------------------------------------------------------------
\* collectBulkFiles: the first argument that leads to a file stands for it.
CollectBulkFiles(args) ==
    FoldLeft(LAMBDA acc, a :
                IF \E k \in DOMAIN acc : acc[k].abs = a.abs THEN acc ELSE Append(acc, a),
             <<>>, args)

FilesMissing(args) ==
    \E k \in DOMAIN CollectBulkFiles(args) : ~CollectBulkFiles(args)[k].regular

\* BuildJobs: file by file, row by row.  Without a matrix each file is one
\* job with nothing bound.
BuildJobs(files, rows) ==
    LET bound == IF rows = <<>> THEN << <<>> >> ELSE rows
        n     == Len(bound)
    IN  [i \in 1 .. Len(files) * n |->
            [file |-> files[((i - 1) \div n) + 1].path,
             vars |-> bound[((i - 1) % n) + 1]]]
=============================================================================
