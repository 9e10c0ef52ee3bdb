------------------------- MODULE SignalHandlerProofs -------------------------
(***************************************************************************)
(* Proofs about SignalHandler for runs of any length, any gates, and any   *)
(* number of interrupts and lines: how many lines the prompts that were    *)
(* given up take away from the run, and that the run sees the mailbox      *)
(* RunLifecycle is built on.                                               *)
(***************************************************************************)
EXTENDS SignalHandler, SequenceTheorems, FiniteSetTheorems, TLAPS

Distinct(q) == \A i, j \in DOMAIN q : q[i] = q[j] => i = j

PromptReaders == {r \in ToSet(readers) : r # Run}

(* Only the last prompt can have a reader: a prompt is opened while the    *)
(* loop listens, and it listens again only after "continue", for which the *)
(* reader had to read.  A reader that is given up therefore finds the loop *)
(* returned, and no prompt follows.                                        *)
HandlerInv ==
    /\ prompts \in Nat /\ swallowed \in Nat
    /\ loop \in {"listening", "prompting", "returned"}
    /\ readers \in Seq(Nat) /\ Distinct(readers)
    /\ PromptReaders \subseteq {prompts}
    /\ Run \in ToSet(readers) <=> run \in {"gate", "plan"}
    /\ loop = "listening" => PromptReaders = {} /\ swallowed = 0
    /\ loop = "prompting" => swallowed = 0 /\ (response # "none" => PromptReaders = {})
    /\ loop = "returned"  => swallowed = 0 \/ (swallowed = 1 /\ PromptReaders = {})

-----------------------------------------------------------------------------
(* A reader that starts to wait goes to the end of the queue.              *)
LEMMA Queued ==
    ASSUME NEW q \in Seq(Nat), NEW r \in Nat, Distinct(q), r \notin ToSet(q)
    PROVE  /\ Append(q, r) \in Seq(Nat) /\ Distinct(Append(q, r))
           /\ ToSet(Append(q, r)) = ToSet(q) \cup {r}
<1>1. /\ Append(q, r) \in Seq(Nat) /\ Len(Append(q, r)) = Len(q) + 1
      /\ \A i \in 1..Len(q) : Append(q, r)[i] = q[i]
      /\ Append(q, r)[Len(q) + 1] = r
  BY AppendProperties
<1>2. DOMAIN q = 1..Len(q) /\ DOMAIN Append(q, r) = 1..Len(q) + 1 /\ Len(q) \in Nat
  BY <1>1, LenProperties
<1>3. ToSet(Append(q, r)) = ToSet(q) \cup {r}
  BY <1>1, <1>2 DEF ToSet
<1>4. \A i \in 1..Len(q) : q[i] # r
  BY <1>2 DEF ToSet
<1>5. Distinct(Append(q, r))
  BY <1>1, <1>2, <1>4 DEF Distinct
<1>. QED  BY <1>1, <1>3, <1>5

(* The reader at the head leaves, and it waits nowhere else.               *)
LEMMA Served ==
    ASSUME NEW q \in Seq(Nat), q # <<>>, Distinct(q)
    PROVE  /\ Head(q) \in Nat /\ Tail(q) \in Seq(Nat) /\ Distinct(Tail(q))
           /\ ToSet(Tail(q)) = ToSet(q) \ {Head(q)} /\ Head(q) \in ToSet(q)
<1>1. /\ Head(q) \in Nat /\ Tail(q) \in Seq(Nat) /\ Len(Tail(q)) = Len(q) - 1
      /\ \A i \in 1..Len(q) - 1 : Tail(q)[i] = q[i + 1]
  BY HeadTailProperties
<1>2. DOMAIN q = 1..Len(q) /\ DOMAIN Tail(q) = 1..Len(q) - 1 /\ Len(q) \in Nat \ {0}
  BY <1>1, LenProperties, EmptySeq
<1>3. Head(q) = q[1]
  OBVIOUS
<1>4. Distinct(Tail(q))
  BY <1>1, <1>2 DEF Distinct
<1>5. ToSet(Tail(q)) = ToSet(q) \ {Head(q)}
  <2>1. ASSUME NEW i \in 1..Len(q) - 1 PROVE Tail(q)[i] \in ToSet(q) \ {Head(q)}
    <3>1. i + 1 \in 1..Len(q) /\ 1 \in 1..Len(q) /\ i + 1 # 1
      BY <1>2
    <3>2. q[i + 1] # q[1]
      BY <1>2, <3>1 DEF Distinct
    <3>. QED  BY <1>1, <1>2, <1>3, <3>1, <3>2 DEF ToSet
  <2>2. ASSUME NEW i \in 1..Len(q), q[i] # Head(q) PROVE q[i] \in ToSet(Tail(q))
    <3>1. i - 1 \in 1..Len(q) - 1
      BY <1>2, <1>3, <2>2
    <3>2. Tail(q)[i - 1] = q[i]
      BY <1>1, <1>2, <3>1
    <3>. QED  BY <1>2, <3>1, <3>2 DEF ToSet
  <2>. QED  BY <1>2, <2>1, <2>2 DEF ToSet
<1>6. Head(q) \in ToSet(q)
  BY <1>2, <1>3 DEF ToSet
<1>. QED  BY <1>1, <1>4, <1>5, <1>6

(* No one waits and no prompt was opened before the first step.            *)
LEMMA HandlerInvInit == Init => HandlerInv
<1>1. ToSet(<<>>) = {} /\ Distinct(<<>>) /\ <<>> \in Seq(Nat)
  BY DEF ToSet, Distinct
<1>. QED  BY <1>1 DEF Init, HandlerInv, PromptReaders

(* Steps that leave the prompts, their readers and what they read alone    *)
(* and keep the run inside or outside its own prompts.                     *)
LEMMA QueueUntouched ==
    ASSUME HandlerInv, UNCHANGED <<prompts, swallowed, loop, readers, response>>,
           run \in {"gate", "plan"} <=> run' \in {"gate", "plan"}
    PROVE  HandlerInv'
  BY DEF HandlerInv, PromptReaders, Distinct

(* The run opens a prompt of its own.                                      *)
LEMMA RunWaits ==
    ASSUME HandlerInv, UNCHANGED <<prompts, swallowed, loop, response>>,
           NEW q \in Seq(Nat), Distinct(q), ToSet(q) = ToSet(readers) \ {Run},
           readers' = Append(q, Run), run' \in {"gate", "plan"}
    PROVE  HandlerInv'
<1>1. Run \in Nat /\ Run \notin ToSet(q)
  BY DEF Run
<1>2. readers' \in Seq(Nat) /\ Distinct(readers)' /\ ToSet(readers') = ToSet(q) \cup {Run}
  BY <1>1, Queued DEF Distinct
<1>3. PromptReaders' = PromptReaders
  BY <1>2 DEF PromptReaders
<1>. QED  BY <1>2, <1>3 DEF HandlerInv

(* The run has read its line.                                              *)
LEMMA RunWasServed ==
    ASSUME HandlerInv, UNCHANGED <<prompts, swallowed, loop, response>>,
           readers # <<>>, Head(readers) = Run, readers' = Tail(readers),
           run' \notin {"gate", "plan"}
    PROVE  HandlerInv'
<1>1. readers' \in Seq(Nat) /\ Distinct(readers)' /\ ToSet(readers') = ToSet(readers) \ {Run}
  BY Served DEF HandlerInv, Distinct
<1>2. PromptReaders' = PromptReaders
  BY <1>1 DEF PromptReaders
<1>. QED  BY <1>1, <1>2 DEF HandlerInv

LEMMA HandlerInvStep == HandlerInv /\ [Next]_vars => HandlerInv'
<1>. SUFFICES ASSUME HandlerInv, [Next]_vars PROVE HandlerInv'
  OBVIOUS
<1>1. CASE OpenPrompt
  <2>1. PromptReaders = {} /\ prompts \in Nat /\ swallowed = 0
    BY <1>1 DEF OpenPrompt, HandlerInv
  <2>2. prompts + 1 \in Nat /\ prompts + 1 # Run /\ prompts + 1 \notin ToSet(readers)
    BY <2>1 DEF Run, PromptReaders
  <2>3. /\ readers' \in Seq(Nat) /\ Distinct(readers)'
        /\ ToSet(readers') = ToSet(readers) \cup {prompts + 1}
    BY <1>1, <2>2, Queued DEF OpenPrompt, HandlerInv, Distinct
  <2>4. PromptReaders' = {prompts + 1}
    BY <2>1, <2>2, <2>3 DEF PromptReaders
  <2>. QED  BY <1>1, <2>1, <2>2, <2>3, <2>4 DEF OpenPrompt, HandlerInv
<1>2. ASSUME NEW a, Deliver(a), a = "continue" => response # "none" PROVE HandlerInv'
  BY <1>2 DEF Deliver, LoopAfter, terminalVars, HandlerInv, PromptReaders, Distinct
<1>3. CASE TakeResponse
  BY <1>2, <1>3 DEF TakeResponse
<1>4. CASE TimeOut \/ PromptStopped
  BY <1>2, <1>4 DEF TimeOut, PromptStopped
<1>5. CASE LoopStops
  BY <1>5 DEF LoopStops, terminalVars, HandlerInv, PromptReaders, Distinct
<1>6. CASE Poll
  BY <1>6, QueueUntouched DEF Poll, Return, AsRun
<1>7. CASE NextStep
  <2>1. UNCHANGED <<prompts, swallowed, loop, response>> /\ run = "between"
    BY <1>7 DEF NextStep, AsRun
  <2>2. CASE step \in Gated
    <3>1. ToSet(readers) = ToSet(readers) \ {Run} /\ readers \in Seq(Nat) /\ Distinct(readers)
      BY <2>1 DEF HandlerInv
    <3>. QED  BY <1>7, <2>1, <2>2, <3>1, RunWaits DEF NextStep
  <2>3. CASE step \notin Gated
    BY <1>7, <2>1, <2>3, QueueUntouched DEF NextStep
  <2>. QED  BY <2>2, <2>3
<1>8. CASE Complete \/ CommandErrors \/ RollbackEnds
  BY <1>8, QueueUntouched DEF Complete, CommandErrors, RollbackEnds, Return, AsRun
<1>9. CASE CommandSucceeds
  BY <1>9, QueueUntouched DEF CommandSucceeds, AsRun
<1>10. CASE CommandFails
  <2>1. UNCHANGED <<prompts, swallowed, loop, response>> /\ run = "command"
    BY <1>10 DEF CommandFails, AsRun
  <2>2. ToSet(readers) = ToSet(readers) \ {Run} /\ readers \in Seq(Nat) /\ Distinct(readers)
    BY <2>1 DEF HandlerInv
  <2>3. CASE stacked
    BY <1>10, <2>1, <2>2, <2>3, RunWaits DEF CommandFails, OfferPlan
  <2>4. CASE ~stacked
    BY <1>10, <2>1, <2>4, QueueUntouched DEF CommandFails, OfferPlan
  <2>. QED  BY <2>3, <2>4
<1>11. ASSUME NEW q, NEW t, Type(q, t) PROVE HandlerInv'
  BY <1>11, QueueUntouched DEF Type, handlerVars
<1>12. CASE ReadGate
  <2>1. /\ UNCHANGED <<prompts, swallowed, loop, response>>
        /\ readers # <<>> /\ Head(readers) = Run /\ run = "gate"
    BY <1>12 DEF ReadGate, Read, handlerVars
  <2>2. CASE readers' = Tail(readers) /\ run' \notin {"gate", "plan"}
    BY <2>1, <2>2, RunWasServed
  <2>3. CASE readers' = Append(Tail(readers), Run) /\ run' = "plan"
    <3>1. /\ Tail(readers) \in Seq(Nat) /\ Distinct(Tail(readers))
          /\ ToSet(Tail(readers)) = ToSet(readers) \ {Run}
      BY <2>1, Served DEF HandlerInv
    <3>. QED  BY <2>1, <2>3, <3>1, RunWaits
  <2>. QED  BY <1>12, <2>2, <2>3 DEF ReadGate, OfferPlan, Return
<1>13. CASE ReadPlan
  <2>1. /\ UNCHANGED <<prompts, swallowed, loop, response>>
        /\ readers # <<>> /\ Head(readers) = Run /\ run = "plan"
    BY <1>13 DEF ReadPlan, Read, handlerVars
  <2>2. CASE readers' = Tail(readers) /\ run' \notin {"gate", "plan"}
    BY <2>1, <2>2, RunWasServed
  <2>3. CASE readers' = Append(Tail(readers), Run) /\ run' = run
    <3>1. /\ Tail(readers) \in Seq(Nat) /\ Distinct(Tail(readers))
          /\ ToSet(Tail(readers)) = ToSet(readers) \ {Run}
      BY <2>1, Served DEF HandlerInv
    <3>. QED  BY <2>1, <2>3, <3>1, RunWaits
  <2>. QED  BY <1>13, <2>2, <2>3 DEF ReadPlan, Return
<1>14. ASSUME NEW r \in 1..prompts, ReadPrompt(r) PROVE HandlerInv'
  <2>1. readers # <<>> /\ r = Head(readers) /\ r # Run /\ readers' = Tail(readers)
    BY <1>14 DEF ReadPrompt, Read
  <2>2. /\ readers' \in Seq(Nat) /\ Distinct(readers)'
        /\ ToSet(readers') = ToSet(readers) \ {r} /\ r \in ToSet(readers)
    BY <2>1, Served DEF HandlerInv, Distinct
  <2>3. r = prompts /\ PromptReaders # {} /\ PromptReaders' = {}
    BY <2>1, <2>2 DEF HandlerInv, PromptReaders
  <2>4. Run \in ToSet(readers') <=> Run \in ToSet(readers)
    BY <2>1, <2>2
  <2>5. UNCHANGED <<prompts, loop, run>>
    BY <1>14 DEF ReadPrompt
  <2>6. CASE loop = "prompting"
    BY <1>14, <2>2, <2>3, <2>4, <2>5, <2>6 DEF ReadPrompt, Current, HandlerInv
  <2>7. CASE loop = "returned"
    <3>1. swallowed = 0 /\ swallowed' = 1
      <4>1. ~Current(r)
        BY <2>7 DEF Current
      <4>2. swallowed' = swallowed + 1
        BY <1>14, <4>1 DEF ReadPrompt
      <4>3. swallowed = 0
        BY <2>3, <2>7 DEF HandlerInv
      <4>. QED  BY <4>2, <4>3
    <3>. QED  BY <2>2, <2>3, <2>4, <2>5, <2>7, <3>1 DEF HandlerInv
  <2>. QED  BY <2>3, <2>6, <2>7 DEF HandlerInv
<1>15. CASE CtrlC
  BY <1>15, QueueUntouched DEF CtrlC, terminalVars
<1>16. CASE UNCHANGED vars
  BY <1>16, QueueUntouched DEF vars, handlerVars, terminalVars
<1>. QED
  BY <1>1, <1>3, <1>4, <1>5, <1>6, <1>7, <1>8, <1>9, <1>10, <1>11, <1>12, <1>13, <1>14,
     <1>15, <1>16 DEF Next, Handler, RunGoes, Terminal

-----------------------------------------------------------------------------
(* signal.go, prompt: however many interrupts, gates and lines there are,  *)
(* a run loses at most one line to readers whose prompt timed out, and it  *)
(* waits for a line of its own exactly while one of its prompts is open.   *)
THEOREM StaleReadersLoseOneLine == Spec => []OneLineIsLostAtMost
<1>1. HandlerInv => OneLineIsLostAtMost
  <2>. SUFFICES ASSUME HandlerInv PROVE OneLineIsLostAtMost
    OBVIOUS
  <2>. DEFINE AtRun == {i \in DOMAIN readers : readers[i] = Run}
  <2>1. GivenUp \subseteq PromptReaders /\ (loop = "prompting" => GivenUp = {})
    BY DEF GivenUp, PromptReaders, Current, HandlerInv
  <2>2. GivenUp = {} \/ GivenUp = {prompts}
    BY <2>1 DEF HandlerInv
  <2>3. Cardinality(GivenUp) + swallowed <= 1
    <3>1. CASE GivenUp = {}
      BY <3>1, FS_EmptySet DEF HandlerInv
    <3>2. CASE GivenUp = {prompts}
      <4>1. loop = "returned" /\ swallowed = 0
        BY <2>1, <3>2 DEF HandlerInv
      <4>. QED  BY <3>2, <4>1, FS_Singleton
    <3>. QED  BY <2>2, <3>1, <3>2
  <2>4. CASE run \in {"gate", "plan"}
    <3>1. PICK i \in DOMAIN readers : readers[i] = Run
      BY <2>4 DEF HandlerInv, ToSet
    <3>2. AtRun = {i}
      BY <3>1 DEF HandlerInv, Distinct
    <3>. QED  BY <2>3, <2>4, <3>2, FS_Singleton DEF OneLineIsLostAtMost
  <2>5. CASE run \notin {"gate", "plan"}
    <3>1. AtRun = {}
      BY <2>5 DEF HandlerInv, ToSet
    <3>. QED  BY <2>3, <2>5, <3>1, FS_EmptySet DEF OneLineIsLostAtMost
  <2>. QED  BY <2>4, <2>5
<1>. QED  BY HandlerInvInit, HandlerInvStep, <1>1, PTL DEF Spec

-----------------------------------------------------------------------------
(* The answers the handler may deliver are the ones the run knows.         *)
LEMMA ParsedIsAnAction == \A t : parseAction(t) \in Mailbox!Actions
  BY DEF parseAction, Mailbox!Actions

LEMMA MailboxStep == [Next]_vars => [Mailbox!MailboxNext]_(Mailbox!signalVars)
<1>. SUFFICES ASSUME [Next]_vars PROVE [Mailbox!MailboxNext]_(Mailbox!signalVars)
  OBVIOUS
<1>. DEFINE listening == loop # "returned"
<1>1. ASSUME NEW a \in Mailbox!Actions, Deliver(a) PROVE Mailbox!Answered(a)
  BY <1>1 DEF Deliver, AnswerSent, LoopAfter, Mailbox!Answered
<1>2. CASE TakeResponse \/ TimeOut \/ PromptStopped
  <2>1. PICK a \in Mailbox!Actions : Deliver(a)
    BY <1>2, ParsedIsAnAction DEF TakeResponse, TimeOut, PromptStopped, Mailbox!Actions
  <2>. QED  BY <1>1, <2>1 DEF Mailbox!MailboxNext
<1>3. CASE LoopStops
  BY <1>3 DEF LoopStops, Mailbox!MailboxNext, Mailbox!StopListening
<1>4. CASE Poll
  BY <1>4 DEF Poll, AsRun, Mailbox!MailboxNext, Mailbox!TakeAction
<1>5. CASE OpenPrompt
  BY <1>5 DEF OpenPrompt, Mailbox!signalVars
<1>6. CASE UNCHANGED <<action, loop>>
  BY <1>6 DEF Mailbox!signalVars
<1>7. CASE \/ NextStep \/ Complete \/ RollbackEnds
           \/ CommandSucceeds \/ CommandFails \/ CommandErrors
  BY <1>6, <1>7
  DEF NextStep, Complete, RollbackEnds, CommandSucceeds, CommandFails, CommandErrors, AsRun
<1>8. CASE Terminal \/ CtrlC \/ \E q \in Open : \E t \in Inputs(q) : Type(q, t)
  BY <1>6, <1>8 DEF Terminal, ReadGate, ReadPlan, ReadPrompt, CtrlC, Type, handlerVars
<1>9. CASE UNCHANGED vars
  BY <1>6, <1>9 DEF vars, handlerVars
<1>. QED  BY <1>2, <1>3, <1>4, <1>5, <1>7, <1>8, <1>9 DEF Next, Handler, RunGoes

(* signal.go, loop and prompt: the timers, the readers, the signals that   *)
(* are dropped and Stop come down to a mailbox of one answer, and after    *)
(* rollback or quit none is ever delivered again.                          *)
THEOREM HandlerImplementsMailbox == Spec => ImplementsMailbox
<1>1. Init => Mailbox!MailboxInit
  BY DEF Init, Mailbox!MailboxInit
<1>2. Spec => Mailbox!MailboxInit /\ [][Mailbox!MailboxNext]_(Mailbox!signalVars)
  BY <1>1, MailboxStep, PTL DEF Spec
<1>. QED  BY <1>2 DEF ImplementsMailbox, Mailbox!MailboxSpec
=============================================================================
