---------------------------- MODULE MCStepProcess ----------------------------
(***************************************************************************)
(* Processes for one call of Run: they trap SIGTERM or not, and close both *)
(* pipes, one or none.  Nobody leaves the group with a pipe open: such a   *)
(* process keeps Run waiting for as long as it likes.  The pipes are       *)
(* alike, so who holds one holds stdout.                                   *)
(***************************************************************************)
EXTENDS StepProcess

MCNatures ==
    [group : {TRUE}, traps : BOOLEAN, holds : {{}, {"stdout"}, {"stdout", "stderr"}}]
    \cup [group : {FALSE}, traps : {FALSE}, holds : {{}}]
==============================================================================
