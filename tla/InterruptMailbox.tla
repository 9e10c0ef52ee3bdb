--------------------------- MODULE InterruptMailbox ---------------------------
(***************************************************************************)
(* What a run sees of its SignalHandler (src/internal/executor/signal.go): *)
(* a mailbox for one answer and whether the handler still listens.         *)
(* RunLifecycle is built on it, and SignalHandler implements it.           *)
(***************************************************************************)
VARIABLES
    action,      \* SignalHandler.actionCh, a channel of capacity one
    listening    \* SignalHandler.loop has not returned

signalVars == <<action, listening>>
Actions    == {"rollback", "continue", "quit"}

MailboxInit == action = "none" /\ listening \in BOOLEAN

(* An answer goes to the mailbox unless one is waiting there, and only     *)
(* "continue" keeps the handler listening.                                 *)
Answered(a) ==
    /\ listening
    /\ action' = IF action = "none" THEN a ELSE action
    /\ listening' = (a = "continue")

TakeAction    == action # "none" /\ action' = "none" /\ UNCHANGED listening
NoAction      == action = "none" /\ UNCHANGED signalVars
StopListening == listening' = FALSE /\ UNCHANGED action

MailboxNext == (\E a \in Actions : Answered(a)) \/ TakeAction \/ StopListening
MailboxSpec == MailboxInit /\ [][MailboxNext]_signalVars
=============================================================================
