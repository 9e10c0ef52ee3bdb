----------------------------- MODULE StepProcess -----------------------------
(***************************************************************************)
(* One call of StepExecutor.Run (src/internal/executor/executor.go) and    *)
(* killProcessGroup (process_unix.go): a script started as the leader of   *)
(* its own process group, the children it leaves in the background, the    *)
(* goroutines that read the two output pipes, each to its end or until it  *)
(* gives up, the one that then reaps the script, and the select that waits *)
(* for it or for the deadline context.  A check, a step and a rollback     *)
(* block all run this way.                                                 *)
(*                                                                         *)
(* A signal's effect is immediate.  What is read is in OutputStreams.      *)
(*                                                                         *)
(* Definitions marked "faulty" are variants with a bug, each defined just  *)
(* before the definition it distorts; no specification uses them.          *)
(***************************************************************************)
CONSTANTS
    Children,      \* processes the script may start in the background
    Streams,       \* the pipes of its output: stdout and stderr
    TimeoutSet,    \* the call has a timeout of its own
    ParentCauses,  \* how the caller's context may end: deadline, cancel
    Natures        \* what a process may do about the group, the pipes and SIGTERM

ASSUME ProcessAssumption == /\ "script" \notin Children
                            /\ TimeoutSet \in BOOLEAN
                            /\ Natures \subseteq [group : BOOLEAN, traps : BOOLEAN,
                                                   holds : SUBSET Streams]
                            /\ ParentCauses \subseteq {"parent deadline", "cancel"}

VARIABLES
    at,         \* where Run is
    cause,      \* why deadlineCtx ended
    proc,       \* the state of each process
    nature,     \* what each process does
    exit,       \* how the script exited
    reading,    \* the streams whose streamLines goes on
    abandoned,  \* the streams a streamLines gave up
    waitDone,   \* what the channel waitDone holds: the script's exit, an error
    target,     \* whom the kill signals: the group, or the script only
    result,     \* StepResult.Status, or "error" when there is no result
    orphans     \* what checkOrphans found

world    == <<proc, nature, exit>>
readers  == <<reading, abandoned>>
procVars == <<at, cause, world, readers, waitDone, target, result, orphans>>

Procs   == Children \cup {"script"}
NotYet  == {"none"}     \* no orphan check yet; a set, as its findings are

Alive(p) == proc[p] = "running"
Group    == {p \in Procs : Alive(p) /\ nature[p].group}
Writers(f) == {p \in Procs : Alive(p) /\ f \in nature[p].holds}
Survivors == {c \in Children : Alive(c)}

ProcInit ==
    /\ at = "start" /\ cause = "none"
    /\ proc = [p \in Procs |-> "unborn"]
    /\ nature \in [Procs -> Natures]
    /\ nature["script"].group
    /\ exit = "none" /\ waitDone = "empty" /\ target = "none"
    /\ reading = Streams /\ abandoned = {}
    /\ result = "none" /\ orphans = NotYet

-----------------------------------------------------------------------------
(***************************************************************************)
(* The processes.                                                          *)
(***************************************************************************)
(* A child is given what the script holds, so no stream that has ended.    *)
Fork(c) ==
    /\ Alive("script") /\ proc[c] = "unborn"
    /\ nature[c].holds \subseteq reading \cup abandoned
    /\ proc' = [proc EXCEPT ![c] = "running"]
    /\ UNCHANGED <<at, cause, nature, exit, readers, waitDone, target, result, orphans>>

Exit(p, how) ==
    /\ Alive(p)
    /\ proc' = [proc EXCEPT ![p] = "exited"]
    /\ exit' = IF p = "script" THEN how ELSE exit
    /\ UNCHANGED <<at, cause, nature, readers, waitDone, target, result, orphans>>

(* The effect of a signal that ends the processes in S.                    *)
Ends(S) ==
    /\ proc' = [p \in Procs |-> IF p \in S THEN "exited" ELSE proc[p]]
    /\ exit' = IF "script" \in S THEN "signal" ELSE exit
    /\ UNCHANGED nature

(***************************************************************************)
(* deadlineCtx ends when the call's own timeout elapses or the caller's    *)
(* context ends, which may have been before the call.                      *)
(***************************************************************************)
ContextEnds(why) ==
    /\ cause = "none" /\ at # "returned"
    /\ \/ why = "own timeout" /\ TimeoutSet /\ at # "start"
       \/ why \in ParentCauses
    /\ cause' = why
    /\ UNCHANGED <<at, world, readers, waitDone, target, result, orphans>>

(***************************************************************************)
(* The goroutines that read the output.  A pipe ends when no process holds *)
(* it; before that the scanner may meet a line it cannot hold.             *)
(***************************************************************************)
EndOfStream(f) ==
    /\ at # "start" /\ f \in reading /\ Writers(f) = {}
    /\ reading' = reading \ {f}
    /\ UNCHANGED <<at, cause, world, abandoned, waitDone, target, result, orphans>>

GiveUpStream(f) ==
    /\ at # "start" /\ f \in reading /\ Writers(f) # {}
    /\ reading' = reading \ {f} /\ abandoned' = abandoned \cup {f}
    /\ UNCHANGED <<at, cause, world, waitDone, target, result, orphans>>

(* The script is reaped once both readers are done.                        *)
OneReaderDone == reading # Streams                                          \* faulty
ReadersDone   == reading = {}
Reap ==
    /\ proc["script"] = "exited" /\ ReadersDone
    /\ proc' = [proc EXCEPT !["script"] = "reaped"]
    /\ waitDone' \in {"exit", "error"}
    /\ UNCHANGED <<at, cause, nature, exit, readers, target, result, orphans>>

-----------------------------------------------------------------------------
(***************************************************************************)
(* Run.                                                                    *)
(***************************************************************************)
Start ==
    /\ at = "start"
    /\ \/ at' = "select" /\ proc' = [proc EXCEPT !["script"] = "running"] /\ UNCHANGED result
       \/ at' = "returned" /\ result' = "error" /\ UNCHANGED proc
    /\ UNCHANGED <<cause, nature, exit, readers, waitDone, target, orphans>>

DeadlineExceeded == cause \in {"own timeout", "parent deadline"}

(* buildResult: an error of Wait that is no exit makes no result, but a    *)
(* timeout is decided first.                                               *)
StatusOfExit(timedOut) == IF exit = "zero" THEN "success" ELSE "failed"     \* faulty
StatusOf(timedOut) ==
    IF timedOut THEN "timeout" ELSE IF waitDone = "error" THEN "error"
    ELSE IF exit = "zero" THEN "success" ELSE "failed"

Finish ==
    /\ at = "select" /\ waitDone # "empty"
    /\ at' = "returned" /\ result' = StatusOf(FALSE)
    /\ UNCHANGED <<cause, world, readers, waitDone, target, orphans>>

(* SIGTERM: to the group while the script has not been reaped, else to the *)
(* script, which is gone.                                                  *)
Terminate ==
    /\ at = "select" /\ cause # "none"
    /\ target' = IF proc["script"] = "reaped" THEN "script" ELSE "group"
    /\ Ends(IF target' = "group" THEN {p \in Group : ~nature[p].traps} ELSE {})
    /\ at' = "polling"
    /\ UNCHANGED <<cause, readers, waitDone, result, orphans>>

(* A process that has exited still answers kill 0 until it is reaped.      *)
SeemsExited == proc["script"] # "running"                                   \* faulty
SeemsGone == proc["script"] = "reaped"

PollFindsItGone ==
    /\ at = "polling" /\ SeemsGone
    /\ at' = "killed"
    /\ UNCHANGED <<cause, world, readers, waitDone, target, result, orphans>>

GraceElapses ==
    /\ at = "polling"
    /\ Ends(IF target = "group" THEN Group ELSE {})
    /\ at' = "killed"
    /\ UNCHANGED <<cause, readers, waitDone, target, result, orphans>>

FinishKilled ==
    /\ at = "killed" /\ waitDone # "empty"
    /\ at' = "returned" /\ result' = StatusOf(DeadlineExceeded)
    /\ UNCHANGED <<cause, world, readers, waitDone, target, orphans>>

(* findOrphans looks for processes whose parent is the script; a process   *)
(* whose parent has exited is init's.                                      *)
CheckOrphans ==
    /\ target # "none" /\ at \in {"killed", "returned"}
    /\ orphans = NotYet
    /\ orphans' = IF Alive("script") THEN Survivors ELSE {}
    /\ UNCHANGED <<at, cause, world, readers, waitDone, target, result>>

Run == Start \/ Finish \/ Terminate \/ PollFindsItGone \/ GraceElapses \/ FinishKilled

ProcNext ==
    \/ Run \/ Reap \/ CheckOrphans
    \/ \E f \in Streams : EndOfStream(f) \/ GiveUpStream(f)
    \/ \E c \in Children : Fork(c)
    \/ \E p \in Procs, how \in {"zero", "nonzero"} : Exit(p, how)
    \/ \E why \in {"own timeout", "parent deadline", "cancel"} : ContextEnds(why)

(***************************************************************************)
(* Run and the goroutines that read and reap keep going and the grace      *)
(* period elapses.  Nothing makes a process exit by itself, or a reader    *)
(* give up.                                                                *)
(***************************************************************************)
ProcSpec == ProcInit /\ [][ProcNext]_procVars
ProcFairSpec == ProcSpec /\ WF_procVars(Run) /\ WF_procVars(Reap)
                         /\ \A f \in Streams : WF_procVars(EndOfStream(f))

-----------------------------------------------------------------------------
(* The output Run returns is final: nobody reads the pipes into the        *)
(* captured buffers any more, and the script is no zombie.  A process that *)
(* outlives the call holds no pipe but one whose reader had given up       *)
(* before its end.                                                         *)
OutputIsFinal ==
    at = "returned" /\ result # "error" =>
        /\ proc["script"] = "reaped" /\ reading = {}
        /\ \A p \in Procs : Alive(p) => nature[p].holds \subseteq abandoned

(* The status is the script's: success means that it exited with zero, and *)
(* a script that the deadline killed is never reported to have succeeded   *)
(* or failed by itself.                                                    *)
StatusIsHonest ==
    at = "returned" /\ result # "error" =>
        /\ result = "success" => exit = "zero"
        /\ exit = "signal" /\ DeadlineExceeded => result = "timeout"
        /\ result = "timeout" => DeadlineExceeded

(* Once the context has ended Run returns, even when the script dies at    *)
(* once and leaves children that ignore SIGTERM and hold an output pipe:   *)
(* while the pipe is read the script stays a zombie, polling goes on, and  *)
(* SIGKILL gets them.                                                      *)
ReturnsAfterDeadline == cause # "none" ~> at = "returned"

=============================================================================
