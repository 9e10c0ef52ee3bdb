---------------------------- MODULE SignalHandler ----------------------------
(***************************************************************************)
(* The SignalHandler of src/internal/executor/signal.go beside the run it  *)
(* serves: its loop goroutine, the goroutine each interrupt prompt starts  *)
(* to read the operator's answer, and the run's own prompts (the confirm   *)
(* gates and the rollback plan of run.go), which read the same terminal.   *)
(*                                                                         *)
(* Reads of one os.File queue up, and a terminal hands out one line to a   *)
(* read: the goroutine that has waited longest gets the next line.  A      *)
(* reader that was given up goes on waiting.  The run is reduced to where  *)
(* it polls, prompts and ends; a command that reads the terminal itself is *)
(* left out, and so is a gate's reveal.  Definitions marked "faulty" are   *)
(* variants with a bug.                                                    *)
(***************************************************************************)
EXTENDS Integers, Sequences, FiniteSets, SequencesExt

CONSTANTS
    NumSteps,     \* steps of the run, each with a rollback block
    Gated,        \* steps that wait for confirmation
    MaxSignals,   \* bound: how often the operator presses Ctrl+C
    MaxTyped      \* bound: lines the terminal holds that nobody has read

ASSUME HandlerAssumption == /\ NumSteps \in Nat /\ Gated \subseteq 1..NumSteps
                            /\ MaxSignals \in Nat /\ MaxTyped \in Nat \ {0}

VARIABLES
    pressed,    \* how often Ctrl+C was pressed
    sigCh,      \* signals waiting in sigCh, a channel of capacity one
    loop,       \* where the goroutine of loop is
    stopped,    \* done is closed
    action,     \* actionCh
    prompts,    \* prompts opened so far; the last one has their number
    response,   \* the last prompt's responseCh
    typed,      \* the lines in the terminal
    readers,    \* who waits for a line: the run, or the reader of a prompt
    run,        \* where the run's goroutine is
    step,       \* the step it is at
    stacked,    \* the rollback stack is not empty
    swallowed   \* history: lines read by a reader that had been given up

handlerVars  == <<sigCh, loop, action, prompts, response>>
terminalVars == <<typed, readers, swallowed>>
vars == <<pressed, stopped, run, step, stacked, handlerVars, terminalVars>>

Run          == 0                 \* the run among the readers
PromptInputs == {"r", "c", "q", "other"}
RunInputs    == {"y", "n", "s", "a"}

Init ==
    /\ pressed = 0 /\ sigCh = 0 /\ loop = "listening" /\ stopped = FALSE
    /\ action = "none" /\ prompts = 0 /\ response = "none"
    /\ typed = <<>> /\ readers = <<>>
    /\ run = "between" /\ step = 1 /\ stacked = FALSE
    /\ swallowed = 0

-----------------------------------------------------------------------------
(***************************************************************************)
(* The handler.                                                            *)
(***************************************************************************)
(* A second signal before the first is taken is dropped.                   *)
CtrlC ==
    /\ pressed < MaxSignals /\ ~stopped
    /\ pressed' = pressed + 1 /\ sigCh' = 1
    /\ UNCHANGED <<stopped, run, step, stacked, loop, action, prompts, response, terminalVars>>

OpenPromptAgain ==                                                          \* faulty
    /\ loop # "returned" /\ sigCh = 1
    /\ sigCh' = 0 /\ loop' = "prompting"
    /\ prompts' = prompts + 1 /\ response' = "none"
    /\ readers' = Append(readers, prompts + 1)
    /\ UNCHANGED <<pressed, stopped, run, step, stacked, action, typed, swallowed>>
OpenPrompt ==
    /\ loop = "listening" /\ sigCh = 1
    /\ sigCh' = 0 /\ loop' = "prompting"
    /\ prompts' = prompts + 1 /\ response' = "none"
    /\ readers' = Append(readers, prompts + 1)
    /\ UNCHANGED <<pressed, stopped, run, step, stacked, action, typed, swallowed>>

parseAction(s) ==
    CASE s = "c" -> "continue"
      [] s = "q" -> "quit"
      [] OTHER   -> "rollback"

(* The answer is sent unless one is waiting; only "continue" loops.        *)
LatestAnswer(a) == a                                                        \* faulty
AnswerSent(a) == IF action = "none" THEN a ELSE action
LoopAfter(a) == IF a = "continue" THEN "listening" ELSE "returned"

Deliver(a) ==
    /\ loop = "prompting"
    /\ action' = AnswerSent(a)
    /\ loop' = LoopAfter(a)
    /\ UNCHANGED <<pressed, stopped, run, step, stacked, sigCh, prompts, response, terminalVars>>

TakeResponse ==
    /\ response # "none" /\ Deliver(parseAction(response))

TimeOut == Deliver("rollback")

PromptStopped == stopped /\ Deliver("rollback")

LoopStops ==
    /\ loop = "listening" /\ stopped
    /\ loop' = "returned"
    /\ UNCHANGED <<pressed, stopped, run, step, stacked, sigCh, action, prompts, response, terminalVars>>

Handler == OpenPrompt \/ TakeResponse \/ TimeOut \/ PromptStopped \/ LoopStops

-----------------------------------------------------------------------------
(***************************************************************************)
(* The run.                                                                *)
(***************************************************************************)
StopForgotten == UNCHANGED stopped                                          \* faulty
Stop == stopped' = TRUE

Return == run' = "returned" /\ Stop /\ UNCHANGED step

AsRun == <<pressed, sigCh, loop, prompts, response, typed, swallowed>>

Poll ==
    /\ run = "between" /\ step <= NumSteps
    /\ action # "none" /\ action' = "none"
    /\ IF action = "rollback" THEN run' = "rollback" /\ UNCHANGED <<stopped, step>> ELSE Return
    /\ UNCHANGED <<AsRun, stacked, readers>>

NextStep ==
    /\ run = "between" /\ step <= NumSteps
    /\ action = "none"
    /\ IF step \in Gated
       THEN run' = "gate" /\ readers' = Append(readers, Run)
       ELSE run' = "command" /\ UNCHANGED readers
    /\ UNCHANGED <<AsRun, stopped, step, stacked, action>>

Complete ==
    /\ run = "between" /\ step > NumSteps
    /\ Return
    /\ UNCHANGED <<AsRun, stacked, action, readers>>

(* A failure, or a refused gate, offers the rollback plan when there is    *)
(* something to undo.                                                      *)
OfferPlan(waiting) ==
    IF stacked THEN run' = "plan" /\ readers' = Append(waiting, Run)
               ELSE run' = "rollback" /\ readers' = waiting

CommandSucceeds ==
    /\ run = "command"
    /\ run' = "between" /\ step' = step + 1 /\ stacked' = TRUE
    /\ UNCHANGED <<AsRun, stopped, action, readers>>

CommandFails ==
    /\ run = "command"
    /\ OfferPlan(readers)
    /\ UNCHANGED <<AsRun, stopped, step, stacked, action>>

(* A command that cannot be run ends the run with an internal error.       *)
CommandErrors ==
    /\ run = "command"
    /\ Return
    /\ UNCHANGED <<AsRun, stacked, action, readers>>

RollbackEnds ==
    /\ run = "rollback"
    /\ Return
    /\ UNCHANGED <<AsRun, stacked, action, readers>>

RunGoes ==
    \/ Poll \/ NextStep \/ Complete \/ RollbackEnds
    \/ CommandSucceeds \/ CommandFails \/ CommandErrors

-----------------------------------------------------------------------------
(***************************************************************************)
(* The terminal.  The operator types an answer to a question that is open; *)
(* whoever waited longest reads it.                                        *)
(***************************************************************************)
Open == (IF run \in {"gate", "plan"} THEN {Run} ELSE {})
        \cup (IF loop = "prompting" THEN {prompts} ELSE {})

Inputs(q) == IF q # Run THEN PromptInputs ELSE IF run = "plan" THEN {"y", "n"} ELSE RunInputs

Type(q, t) ==
    /\ q \in Open /\ t \in Inputs(q) /\ Len(typed) < MaxTyped
    /\ typed' = Append(typed, [to |-> q, text |-> t])
    /\ UNCHANGED <<pressed, stopped, run, step, stacked, handlerVars, readers, swallowed>>

Line == Head(typed)

Read(r) ==
    /\ typed # <<>> /\ readers # <<>> /\ r = Head(readers)
    /\ typed' = Tail(typed)

(* promptConfirm: what is neither yes, skip nor abort is a refusal.        *)
ReadGate ==
    /\ run = "gate" /\ Read(Run)
    /\ \/ Line.text = "y" /\ run' = "command" /\ readers' = Tail(readers)
          /\ UNCHANGED <<step, stopped>>
       \/ Line.text = "s" /\ run' = "between" /\ step' = step + 1 /\ readers' = Tail(readers)
          /\ UNCHANGED stopped
       \/ Line.text = "a" /\ Return /\ readers' = Tail(readers)
       \/ Line.text \notin {"y", "s", "a"} /\ OfferPlan(Tail(readers)) /\ UNCHANGED <<step, stopped>>
    /\ UNCHANGED <<pressed, stacked, handlerVars, swallowed>>

(* promptRollbackPlan asks until it reads yes or no.                       *)
ReadPlan ==
    /\ run = "plan" /\ Read(Run)
    /\ \/ Line.text = "y" /\ run' = "rollback" /\ readers' = Tail(readers)
          /\ UNCHANGED <<step, stopped>>
       \/ Line.text = "n" /\ Return /\ readers' = Tail(readers)
       \/ Line.text \notin {"y", "n"} /\ readers' = Append(Tail(readers), Run)
          /\ UNCHANGED <<run, step, stopped>>
    /\ UNCHANGED <<pressed, stacked, handlerVars, swallowed>>

Current(r) == loop = "prompting" /\ r = prompts

ReadPrompt(r) ==
    /\ r # Run /\ Read(r)
    /\ readers' = Tail(readers)
    /\ IF Current(r) THEN response' = Line.text /\ UNCHANGED swallowed
                     ELSE swallowed' = swallowed + 1 /\ UNCHANGED response
    /\ UNCHANGED <<pressed, stopped, run, step, stacked, sigCh, loop, action, prompts>>

Terminal == ReadGate \/ ReadPlan \/ \E r \in 1..prompts : ReadPrompt(r)

Next ==
    \/ Handler \/ RunGoes \/ Terminal \/ CtrlC
    \/ \E q \in Open : \E t \in Inputs(q) : Type(q, t)

(***************************************************************************)
(* Both goroutines and the terminal keep going, every prompt's timer       *)
(* fires, every command ends, and the operator goes on answering a gate or *)
(* a plan that waits.  Nothing makes the operator press Ctrl+C or answer   *)
(* an interrupt prompt.                                                    *)
(***************************************************************************)
Spec == Init /\ [][Next]_vars
FairSpec == /\ Spec
            /\ WF_vars(Handler) /\ WF_vars(RunGoes) /\ WF_vars(Terminal)
            /\ WF_vars(TimeOut)
            /\ WF_vars(\E t \in RunInputs : Type(Run, t))

-----------------------------------------------------------------------------

Mailbox == INSTANCE InterruptMailbox WITH listening <- loop # "returned"

(* Whatever the timers, the signals and the readers do, the run sees the   *)
(* mailbox RunLifecycle is built on: the first answer stays until it is    *)
(* polled, and after rollback or quit no other is ever delivered.          *)
ImplementsMailbox == Mailbox!MailboxSpec

GivenUp == {r \in ToSet(readers) : r # Run /\ ~Current(r)}

(* A prompt that times out leaves its reader waiting, and that reader      *)
(* takes a line meant for the gate or the plan; since such a prompt is the *)
(* handler's last, no run loses more than one line to it, and the run's    *)
(* own prompts wait in the queue at most once.                             *)
OneLineIsLostAtMost ==
    /\ Cardinality(GivenUp) + swallowed <= 1
    /\ Cardinality({i \in DOMAIN readers : readers[i] = Run}) = (IF run \in {"gate", "plan"} THEN 1 ELSE 0)

(* The run returns, and the handler's goroutine ends with it, even when    *)
(* the run ends while a prompt is open or a reader was given up.           *)
BothEnd == <>[](run = "returned" /\ loop = "returned")

=============================================================================
