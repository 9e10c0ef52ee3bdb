------------------------------- MODULE MCRunDAG -------------------------------
(***************************************************************************)
(* Shapes of graph on four steps and two workers: no edges, a chain, a     *)
(* diamond, a fan-in beside a free step, and a fan-out beside a free step  *)
(* (where a failure races a step that is running or waiting at its gate,   *)
(* and two steps become ready while one slot is taken).                    *)
(***************************************************************************)
EXTENDS RunDAG

Independent == [s \in Steps |-> <<>>]
Chain   == [s \in Steps |-> IF s = 1 THEN <<>> ELSE <<s - 1>>]
FanOut  == [s \in Steps |-> IF s \in {2, 3} THEN <<1>> ELSE <<>>]
FanIn   == [s \in Steps |-> IF s = 3 THEN <<1, 2>> ELSE <<>>]
Diamond == [s \in Steps |-> CASE s = 1 -> <<>> [] s = 4 -> <<2, 3>> [] OTHER -> <<1>>]

Shapes == {Independent, Chain, FanOut, FanIn, Diamond}
=============================================================================
