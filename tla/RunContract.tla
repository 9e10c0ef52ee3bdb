----------------------------- MODULE RunContract -----------------------------
(***************************************************************************)
(* What one run promises, whichever executor dispatches its steps: a       *)
(* step's command is started at most once and never once undoing began or  *)
(* the run ended; only what was started is undone, at most once; and the   *)
(* outcome says whether anything was undone.                               *)
(***************************************************************************)
EXTENDS Sequences, SequencesExt

CONSTANT Steps

VARIABLES
    started,   \* the steps whose command was started
    undone,    \* the steps undone, in order
    outcome    \* "running", "undoing", or the status the run returned

contractVars == <<started, undone, outcome>>

Init == started = {} /\ undone = <<>> /\ outcome = "running"

Start(s) ==
    /\ outcome = "running" /\ s \notin started
    /\ started' = started \cup {s}
    /\ UNCHANGED <<undone, outcome>>

BeginUndo ==
    /\ outcome = "running" /\ outcome' = "undoing"
    /\ UNCHANGED <<started, undone>>

Undo(s) ==
    /\ outcome = "undoing" /\ s \in started \ ToSet(undone)
    /\ undone' = Append(undone, s)
    /\ UNCHANGED <<started, outcome>>

EndWithoutUndo(o) ==
    /\ outcome = "running" /\ outcome' = o
    /\ UNCHANGED <<started, undone>>

EndAfterUndo(o) ==
    /\ outcome = "undoing" /\ outcome' = o
    /\ o \in {"rolled_back", "partially_rolled_back"} <=> undone # <<>>
    /\ UNCHANGED <<started, undone>>

Next ==
    \/ \E s \in Steps : Start(s) \/ Undo(s)
    \/ BeginUndo
    \/ \E o \in {"success", "step_failed", "check_failed", "aborted", "internal_error"} :
          EndWithoutUndo(o)
    \/ \E o \in {"rolled_back", "partially_rolled_back", "step_failed", "aborted"} :
          EndAfterUndo(o)

Spec == Init /\ [][Next]_contractVars
=============================================================================
