-------------------------- MODULE StepExecutorProofs --------------------------
(***************************************************************************)
(* Proofs about internal/executor/executor.go.  Of one call of Run, for    *)
(* every set of background children and output pipes, whatever they do:    *)
(* the output it returns is final and the status it reports is honest.  Of *)
(* the streams, for every text, however large the pipe, the scanner's      *)
(* buffer and the capture are: what is captured is a marked prefix of what *)
(* the script wrote, and the lines of each script reach the sink whole and *)
(* in order, whatever the other scripts, the locks and the sink do.        *)
(***************************************************************************)
EXTENDS StepProcess, OutputStreams, SequenceTheorems, WellFoundedInduction, TLAPS

ProcStates == {"unborn", "running", "exited", "reaped"}

(* A stream whose reader is neither at work nor has given up has ended:    *)
(* nobody alive holds its pipe.                                            *)
HeldIsReadOrAbandoned ==
    \A p \in Procs : Alive(p) => nature[p].holds \subseteq reading \cup abandoned

(* Before the start there is no process and both streams are read; waitDone*)
(* is filled once and for all, when both readers are done and the script   *)
(* has been reaped; and a call that started its script returns only after  *)
(* that.                                                                   *)
RunInv ==
    /\ at \in {"start", "select", "polling", "killed", "returned"}
    /\ proc \in [Procs -> ProcStates] /\ nature \in [Procs -> Natures]
    /\ at = "start" => /\ waitDone = "empty" /\ reading = Streams
                       /\ \A p \in Procs : proc[p] = "unborn"
    /\ HeldIsReadOrAbandoned
    /\ waitDone # "empty" => proc["script"] = "reaped" /\ reading = {}
    /\ at = "returned" /\ result # "error" => waitDone # "empty"

(* The script is one of the processes.                                     *)
LEMMA ScriptIsAProcess == "script" \in Procs
  BY DEF Procs

(* Ending processes that were running gives nobody a pipe, nor brings back *)
(* a script that was reaped.                                               *)
LEMMA EndingKeepsOutputClosed ==
  ASSUME RunInv, NEW S, \A p \in S : p \in Procs /\ proc[p] = "running",
         Ends(S), UNCHANGED <<readers, waitDone>>
  PROVE  /\ proc' \in [Procs -> ProcStates] /\ nature' \in [Procs -> Natures]
         /\ HeldIsReadOrAbandoned'
         /\ waitDone # "empty" => proc'["script"] = "reaped"
<1>1. proc' = [p \in Procs |-> IF p \in S THEN "exited" ELSE proc[p]] /\ nature' = nature
  BY DEF Ends
<1>2. proc' \in [Procs -> ProcStates]
  BY <1>1 DEF ProcStates, RunInv
<1>3. \A p \in Procs : Alive(p)' => Alive(p)
  BY <1>1 DEF Alive
<1>4. HeldIsReadOrAbandoned'
  BY <1>1, <1>3 DEF HeldIsReadOrAbandoned, RunInv, readers
<1>5. waitDone # "empty" => proc["script"] = "reaped" /\ "script" \notin S
  BY DEF RunInv
<1>6. waitDone # "empty" => proc'["script"] = "reaped"
  BY <1>1, <1>5, ScriptIsAProcess
<1> QED
  BY <1>1, <1>2, <1>4, <1>6 DEF RunInv

(* A run begins with no process and an empty waitDone.                     *)
LEMMA RunInvInit == ProcInit => RunInv
  BY DEF ProcInit, RunInv, HeldIsReadOrAbandoned, Alive, ProcStates

(* Every step of the processes, the readers, the context and Run keeps the *)
(* invariant.                                                              *)
LEMMA RunInvStep == RunInv /\ [ProcNext]_procVars => RunInv'
<1> SUFFICES ASSUME RunInv, [ProcNext]_procVars PROVE RunInv'
  OBVIOUS
<1> USE ScriptIsAProcess
<1>1. ASSUME NEW c \in Children, Fork(c) PROVE RunInv'
  <2>1. c \in Procs /\ at # "start" /\ waitDone = "empty"
    BY <1>1 DEF Fork, RunInv, Alive, Procs
  <2>2. HeldIsReadOrAbandoned'
    BY <1>1 DEF Fork, RunInv, HeldIsReadOrAbandoned, Alive, readers
  <2> QED
    BY <1>1, <2>1, <2>2 DEF Fork, RunInv, ProcStates, readers
<1>2. ASSUME NEW p \in Procs, NEW how, Exit(p, how) PROVE RunInv'
  <2>1. HeldIsReadOrAbandoned'
    BY <1>2 DEF Exit, HeldIsReadOrAbandoned, Alive, RunInv, readers
  <2>2. at # "start"
    BY <1>2 DEF Exit, Alive, RunInv
  <2>3. waitDone # "empty" => proc'["script"] = "reaped"
    BY <1>2 DEF Exit, Alive, RunInv
  <2> QED
    BY <1>2, <2>1, <2>2, <2>3 DEF Exit, RunInv, ProcStates, readers
<1>3. ASSUME NEW why, ContextEnds(why) PROVE RunInv'
  BY <1>3 DEF ContextEnds, world, readers, RunInv, HeldIsReadOrAbandoned, Alive
<1>4. ASSUME NEW f \in Streams, EndOfStream(f) PROVE RunInv'
  <2>1. proc' = proc /\ nature' = nature /\ abandoned' = abandoned
    BY <1>4 DEF EndOfStream, world
  <2>2. \A p \in Procs : Alive(p) => f \notin nature[p].holds
    BY <1>4 DEF EndOfStream, Writers
  <2>3. HeldIsReadOrAbandoned'
    BY <1>4, <2>1, <2>2 DEF EndOfStream, HeldIsReadOrAbandoned, Alive, RunInv
  <2> QED
    BY <1>4, <2>1, <2>3 DEF EndOfStream, RunInv
<1>5. ASSUME NEW f \in Streams, GiveUpStream(f) PROVE RunInv'
  <2>1. proc' = proc /\ nature' = nature /\ reading \cup abandoned \subseteq reading' \cup abandoned'
    BY <1>5 DEF GiveUpStream, world
  <2>2. HeldIsReadOrAbandoned'
    BY <2>1 DEF HeldIsReadOrAbandoned, Alive, RunInv
  <2> QED
    BY <1>5, <2>1, <2>2 DEF GiveUpStream, RunInv
<1>6. CASE Reap
  <2>1. HeldIsReadOrAbandoned'
    BY <1>6 DEF Reap, HeldIsReadOrAbandoned, Alive, RunInv, readers
  <2>2. at # "start" /\ reading' = {}
    BY <1>6 DEF Reap, ReadersDone, RunInv, readers
  <2>3. waitDone' # "empty" /\ at' = at /\ result' = result /\ nature' = nature
    BY <1>6 DEF Reap
  <2> QED
    BY <1>6, <2>1, <2>2, <2>3 DEF Reap, RunInv, ProcStates
<1>7. CASE Start
  <2>1. /\ waitDone = "empty" /\ waitDone' = waitDone /\ nature' = nature
        /\ reading = Streams /\ reading' = reading /\ abandoned' = abandoned
        /\ \A p \in Procs : proc[p] = "unborn"
    BY <1>7 DEF Start, RunInv, readers
  <2>2. CASE at' = "returned" /\ result' = "error" /\ UNCHANGED proc
    BY <2>1, <2>2 DEF RunInv, HeldIsReadOrAbandoned, Alive
  <2>3. CASE at' = "select" /\ proc' = [proc EXCEPT !["script"] = "running"] /\ UNCHANGED result
    <3>1. ASSUME NEW p \in Procs PROVE nature[p].holds \subseteq Streams
      <4>1. nature[p] \in [group : BOOLEAN, traps : BOOLEAN, holds : SUBSET Streams]
        <5>1. nature[p] \in Natures
          BY DEF RunInv
        <5> QED
          BY <5>1, ProcessAssumption, Zenon DEF ProcessAssumption
      <4>2. nature[p].holds \in SUBSET Streams
        BY <4>1
      <4> QED
        BY <4>2
    <3>2. HeldIsReadOrAbandoned'
      BY <2>1, <3>1 DEF HeldIsReadOrAbandoned
    <3>3. proc' \in [Procs -> ProcStates]
      BY <2>3 DEF RunInv, ProcStates
    <3> QED
      BY <2>1, <2>3, <3>2, <3>3 DEF RunInv
  <2> QED
    BY <1>7, <2>2, <2>3 DEF Start
<1>8. CASE Finish
  BY <1>8 DEF Finish, world, readers, RunInv, HeldIsReadOrAbandoned, Alive
<1>9. CASE Terminate
  <2>1. \E S : Ends(S) /\ \A p \in S : p \in Procs /\ proc[p] = "running"
    BY <1>9 DEF Terminate, Group, Alive
  <2>2. UNCHANGED <<readers, waitDone>>
    BY <1>9 DEF Terminate
  <2> QED
    BY <1>9, <2>1, <2>2, EndingKeepsOutputClosed DEF Terminate, RunInv, readers
<1>10. CASE PollFindsItGone
  BY <1>10 DEF PollFindsItGone, world, readers, RunInv, HeldIsReadOrAbandoned, Alive
<1>11. CASE GraceElapses
  <2>1. \E S : Ends(S) /\ \A p \in S : p \in Procs /\ proc[p] = "running"
    BY <1>11 DEF GraceElapses, Group, Alive
  <2>2. UNCHANGED <<readers, waitDone>>
    BY <1>11 DEF GraceElapses
  <2> QED
    BY <1>11, <2>1, <2>2, EndingKeepsOutputClosed DEF GraceElapses, RunInv, readers
<1>12. CASE FinishKilled
  BY <1>12 DEF FinishKilled, world, readers, RunInv, HeldIsReadOrAbandoned, Alive
<1>13. CASE CheckOrphans
  BY <1>13 DEF CheckOrphans, world, readers, RunInv, HeldIsReadOrAbandoned, Alive
<1>14. CASE UNCHANGED procVars
  BY <1>14 DEF procVars, world, readers, RunInv, HeldIsReadOrAbandoned, Alive
<1> QED
  BY <1>1, <1>2, <1>3, <1>4, <1>5, <1>6, <1>7, <1>8, <1>9, <1>10, <1>11, <1>12, <1>13, <1>14
  DEF ProcNext, Run

(* When Run returns a result nobody reads into its buffers any more and    *)
(* the script is reaped, whatever the children do and wherever a reader    *)
(* gives up; and a pipe that a process still holds is one that was given   *)
(* up, so that everything written to the others has been read.             *)
THEOREM CapturedOutputIsFinal == ProcSpec => []OutputIsFinal
<1>1. RunInv => OutputIsFinal
  BY DEF RunInv, HeldIsReadOrAbandoned, OutputIsFinal
<1> QED
  BY RunInvInit, RunInvStep, <1>1, PTL DEF ProcSpec

-----------------------------------------------------------------------------
(* Only the kill ends the script by a signal, and it starts no earlier     *)
(* than the select; and what Run returned stays true, because the context  *)
(* of a call that has returned is over and its script is reaped.           *)
HonestInv ==
    /\ RunInv
    /\ exit = "signal" => at \in {"polling", "killed", "returned"}
    /\ StatusIsHonest

(* Before the start there is no exit to be dishonest about.                *)
LEMMA HonestInvInit == ProcInit => HonestInv
  BY RunInvInit DEF ProcInit, HonestInv, StatusIsHonest

(* Every step keeps the status honest.                                     *)
LEMMA HonestInvStep == HonestInv /\ [ProcNext]_procVars => HonestInv'
<1> SUFFICES ASSUME HonestInv, [ProcNext]_procVars PROVE HonestInv'
  OBVIOUS
<1> USE ScriptIsAProcess
<1>0. RunInv'
  BY RunInvStep DEF HonestInv
<1>1. ASSUME NEW c \in Children, Fork(c) PROVE HonestInv'
  BY <1>0, <1>1 DEF Fork, HonestInv, StatusIsHonest, DeadlineExceeded
<1>2. ASSUME NEW p \in Procs, NEW how \in {"zero", "nonzero"}, Exit(p, how) PROVE HonestInv'
  <2>1. at = "returned" /\ result # "error" => p # "script"
    BY <1>2 DEF Exit, Alive, HonestInv, RunInv
  <2> QED
    BY <1>0, <1>2, <2>1 DEF Exit, HonestInv, StatusIsHonest, DeadlineExceeded
<1>3. ASSUME NEW why, ContextEnds(why) PROVE HonestInv'
  BY <1>0, <1>3 DEF ContextEnds, world, HonestInv, StatusIsHonest
<1>4. ASSUME NEW f \in Streams, EndOfStream(f) \/ GiveUpStream(f) PROVE HonestInv'
  BY <1>0, <1>4 DEF EndOfStream, GiveUpStream, world, HonestInv, StatusIsHonest, DeadlineExceeded
<1>5. CASE Reap
  BY <1>0, <1>5 DEF Reap, HonestInv, StatusIsHonest, DeadlineExceeded
<1>6. CASE Start
  BY <1>0, <1>6 DEF Start, HonestInv, RunInv, StatusIsHonest
<1>7. CASE Finish
  BY <1>0, <1>7 DEF Finish, world, StatusOf, HonestInv, StatusIsHonest, DeadlineExceeded
<1>8. CASE Terminate
  BY <1>0, <1>8 DEF Terminate, HonestInv, StatusIsHonest
<1>9. CASE PollFindsItGone
  BY <1>0, <1>9 DEF PollFindsItGone, world, HonestInv, StatusIsHonest
<1>10. CASE GraceElapses
  BY <1>0, <1>10 DEF GraceElapses, HonestInv, StatusIsHonest
<1>11. CASE FinishKilled
  BY <1>0, <1>11 DEF FinishKilled, world, StatusOf, HonestInv, StatusIsHonest, DeadlineExceeded
<1>12. CASE CheckOrphans
  BY <1>0, <1>12 DEF CheckOrphans, world, HonestInv, StatusIsHonest, DeadlineExceeded
<1>13. CASE UNCHANGED procVars
  BY <1>0, <1>13 DEF procVars, world, HonestInv, StatusIsHonest, DeadlineExceeded
<1> QED
  BY <1>1, <1>2, <1>3, <1>4, <1>5, <1>6, <1>7, <1>8, <1>9, <1>10, <1>11, <1>12, <1>13
  DEF ProcNext, Run

(* buildResult: whatever the script, its children and the caller's context *)
(* do and in whatever order, a success is an exit with zero, a script the  *)
(* deadline killed is reported as timed out, and a timeout had a deadline. *)
THEOREM ReportedStatusIsHonest == ProcSpec => []StatusIsHonest
<1>1. HonestInv => StatusIsHonest
  BY DEF HonestInv
<1> QED
  BY HonestInvInit, HonestInvStep, <1>1, PTL DEF ProcSpec

-----------------------------------------------------------------------------
(***************************************************************************)
(* The streams.                                                            *)
(***************************************************************************)
Bytes   == [by : Scripts, at : Nat, nl : BOOLEAN]
Readers == {"read", "write", "capture", "stopped"}

StreamTypes ==
    /\ text \in [Scripts -> Seq({"x", "nl"})]
    /\ sent \in [Scripts -> Nat]
    /\ pipe \in [Scripts -> Seq(Bytes)]
    /\ held \in [Scripts -> Seq(Bytes)]
    /\ reader \in [Scripts -> Readers]
    /\ captured \in [Scripts -> Seq(Bytes)]
    /\ truncated \in [Scripts -> BOOLEAN]
    /\ lock \in [Jobs -> Scripts \cup {NoOne}]

(* How much of the text has gone through the scanner to the capture.       *)
Moved(s) == sent[s] - Len(pipe[s]) - Len(held[s])

(* What the capture was given: a newline more once the last line had none. *)
Given(s) == IF Moved(s) = Len(text[s]) THEN Closed(text[s]) ELSE Moved(s)

(* The pipe and the scanner hold the next bytes of the text, in order.     *)
InPlace(s) ==
    /\ Moved(s) >= 0 /\ sent[s] <= Len(text[s])
    /\ \A i \in 1..Len(held[s]) : held[s][i] = Byte(s, Moved(s) + i)
    /\ \A i \in 1..Len(pipe[s]) : pipe[s][i] = Byte(s, sent[s] - Len(pipe[s]) + i)

(* The scanner stops at a newline, so holds no byte behind one.            *)
OneLine(b) == \A i \in 1..Len(b)-1 : ~b[i].nl

(* Of n bytes c is the first, up to the limit, and t is the mark.          *)
FirstBytes(c, t, n) ==
    /\ Len(c) <= MaxCapture
    /\ \A i \in 1..Len(c) : c[i].at = i
    /\ t => Len(c) = MaxCapture /\ n > MaxCapture
    /\ ~t => Len(c) = n

Script(s) ==
    /\ InPlace(s)
    /\ OneLine(held[s])
    /\ FirstBytes(captured[s], truncated[s], Given(s))
    /\ reader[s] \in {"write", "capture"} => HoldsLine(s)
    /\ reader[s] = "stopped" => (EOF(s) /\ held[s] = <<>>) \/ Overlong(text[s])

(* Whoever holds a job's writer is one of its scripts, and writes.         *)
Locks == \A j \in Jobs : lock[j] # NoOne => JobOf[lock[j]] = j /\ reader[lock[j]] = "write"

StreamInv == StreamTypes /\ Locks /\ \A s \in Scripts : Script(s)

-----------------------------------------------------------------------------
(***************************************************************************)
(* Lines.                                                                  *)
(***************************************************************************)
LEMMA ByteFacts ==
    ASSUME StreamTypes, NEW s \in Scripts, NEW i \in Nat
    PROVE  /\ Byte(s, i) \in Bytes /\ Byte(s, i).at = i
           /\ i <= Len(text[s]) => (Byte(s, i).nl <=> text[s][i] = "nl")
<1>1. Byte(s, i).nl <=> i > Len(text[s]) \/ text[s][i] = "nl"
  BY DEF Byte
<1>2. i <= Len(text[s]) => ~(i > Len(text[s]))
  BY LenProperties DEF StreamTypes
<1>. QED  BY <1>1, <1>2 DEF Byte, Bytes

(* In what the scanner holds the first newline is the last byte, or there  *)
(* is none.                                                                *)
LEMMA NewlineFacts ==
    ASSUME NEW b \in Seq(Bytes), OneLine(b)
    PROVE  \/ NewlineAt(b) = 0 /\ \A i \in 1..Len(b) : ~b[i].nl
           \/ NewlineAt(b) = Len(b) /\ Len(b) # 0 /\ b[Len(b)].nl
<1>. DEFINE I == {i \in 1..Len(b) : b[i].nl}
<1>0. Len(b) \in Nat
  BY LenProperties
<1>1. NewlineAt(b) = IF I # {} THEN Min(I) ELSE 0
  BY DEF NewlineAt, SelectInSeq
<1>2. I \subseteq {Len(b)}
  BY <1>0 DEF OneLine
<1>3. CASE I = {}
  BY <1>1, <1>3
<1>4. CASE I # {}
  <2>1. I = {Len(b)} /\ Len(b) \in 1..Len(b) /\ b[Len(b)].nl
    BY <1>2, <1>4
  <2>2. Min(I) = Len(b)
    BY <1>0, <2>1 DEF Min
  <2>3. NewlineAt(b) = Len(b)
    BY <1>1, <1>4, <2>2
  <2>4. Len(b) # 0
    BY <1>0, <2>1
  <2>. QED  BY <2>1, <2>3, <2>4
<1>. QED  BY <1>3, <1>4

(* The line that is captured goes on where the capture was, and takes it   *)
(* to where the scanner is, or past the end by the newline that is added.  *)
LEMMA LineFacts ==
    ASSUME StreamTypes, NEW s \in Scripts, Script(s), HoldsLine(s)
    PROVE  /\ Line(s) \in Seq(Bytes) /\ Len(Line(s)) \in Nat \ {0}
           /\ Given(s) \in Nat
           /\ \A i \in 1..Len(Line(s)) : Line(s)[i].at = Given(s) + i
           /\ Given(s) + Len(Line(s)) = IF Moved(s) + Len(held[s]) = Len(text[s])
                                        THEN Closed(text[s]) ELSE Moved(s) + Len(held[s])
<1>. DEFINE h == held[s]
            L == Len(text[s])
            m == Moved(s)
<1>1. /\ h \in Seq(Bytes) /\ pipe[s] \in Seq(Bytes) /\ text[s] \in Seq({"x", "nl"})
      /\ sent[s] \in Nat /\ Len(h) \in Nat /\ Len(pipe[s]) \in Nat /\ L \in Nat
  BY LenProperties DEF StreamTypes
<1>2. /\ m \in Nat /\ sent[s] <= L /\ m = sent[s] - Len(pipe[s]) - Len(h)
      /\ \A i \in 1..Len(h) : h[i] = Byte(s, m + i)
  BY <1>1 DEF Script, InPlace, Moved
<1>3. \/ NewlineAt(h) = 0 /\ \A i \in 1..Len(h) : ~h[i].nl
      \/ NewlineAt(h) = Len(h) /\ Len(h) # 0 /\ h[Len(h)].nl
  BY <1>1, NewlineFacts DEF Script
<1>4. Len(h) # 0
  BY <1>1, <1>3 DEF HoldsLine
<1>5. m + Len(h) <= L /\ m < L /\ Given(s) = m
  BY <1>1, <1>2, <1>4 DEF Given
<1>6. \A i \in 1..Len(h) : h[i].at = m + i
  BY <1>1, <1>2, ByteFacts
<1>7. m + Len(h) = L => (h[Len(h)].nl <=> text[s][L] = "nl")
  <2>1. Len(h) \in 1..Len(h) /\ m + Len(h) \in Nat
    BY <1>1, <1>2, <1>4
  <2>2. h[Len(h)] = Byte(s, m + Len(h))
    BY <1>2, <2>1
  <2>. QED  BY <1>5, <2>1, <2>2, ByteFacts
<1>8. m + Len(h) = L => Closed(text[s]) = IF h[Len(h)].nl THEN L ELSE L + 1
  <2>1. m + Len(h) = L => text[s] # <<>> /\ Last(text[s]) = text[s][L]
    BY <1>1, <1>4, <1>2, EmptySeq DEF Last
  <2>. QED  BY <1>7, <2>1 DEF Closed
<1>9. CASE NewlineAt(h) # 0
  <2>1. Line(s) = h /\ h[Len(h)].nl
    BY <1>3, <1>9 DEF Line
  <2>. QED  BY <1>1, <1>2, <1>4, <1>5, <1>6, <1>8, <2>1
<1>10. CASE NewlineAt(h) = 0
  <2>1. EOF(s) /\ ~h[Len(h)].nl
    BY <1>1, <1>3, <1>4, <1>10 DEF HoldsLine
  <2>2. m + Len(h) = L
    BY <1>1, <1>2, <2>1 DEF EOF, Exited
  <2>3. Line(s) = Append(h, Byte(s, L + 1)) /\ Byte(s, L + 1) \in Bytes /\ Byte(s, L + 1).at = L + 1
    BY <1>1, <1>10, ByteFacts DEF Line
  <2>. HIDE DEF h, L, m
  <2>4. /\ Line(s) \in Seq(Bytes) /\ Len(Line(s)) = Len(h) + 1
        /\ \A i \in 1..Len(h) : Line(s)[i] = h[i]
        /\ Line(s)[Len(h) + 1] = Byte(s, L + 1)
    BY <1>1, <2>3, AppendProperties
  <2>5. \A i \in 1..Len(Line(s)) : Line(s)[i].at = m + i
    <3>1. \A i \in 1..Len(h) : Line(s)[i].at = m + i
      BY <1>6, <2>4
    <3>2. Line(s)[Len(h) + 1].at = m + Len(h) + 1
      BY <2>2, <2>3, <2>4
    <3>3. \A i \in 1..Len(Line(s)) : i \in 1..Len(h) \/ i = Len(h) + 1
      BY <1>1, <2>4 DEF h
    <3>4. m + (Len(h) + 1) = m + Len(h) + 1
      BY <1>1, <1>2 DEF h
    <3>. QED  BY <3>1, <3>2, <3>3, <3>4
  <2>6. Closed(text[s]) = L + 1
    BY <1>8, <2>1, <2>2
  <2>7. Given(s) = m /\ m \in Nat
    BY <1>2, <1>5
  <2>. QED  BY <1>1, <2>2, <2>4, <2>5, <2>6, <2>7 DEF h, L, m
<1>. QED  BY <1>9, <1>10

(* What comes before the last byte of a line.                              *)
LEMMA FrontProperties ==
    ASSUME NEW q \in Seq(Bytes), Len(q) \in Nat \ {0}
    PROVE  /\ Front(q) \in Seq(Bytes) /\ Len(Front(q)) = Len(q) - 1
           /\ \A i \in 1..Len(q) - 1 : Front(q)[i] = q[i] /\ i \in 1..Len(q)
<1>1. \A i \in 1..Len(q) - 1 : q[i] \in Bytes /\ i \in 1..Len(q)
  BY ElementOfSeq
<1>2. /\ SubSeq(q, 1, Len(q) - 1) \in Seq(Bytes)
      /\ Len(SubSeq(q, 1, Len(q) - 1)) = IF 1 <= Len(q) - 1 THEN (Len(q) - 1) - 1 + 1 ELSE 0
      /\ \A i \in 1..(Len(q) - 1) - 1 + 1 : SubSeq(q, 1, Len(q) - 1)[i] = q[1 + i - 1]
  BY <1>1, SubSeqProperties
<1>3. Front(q) = SubSeq(q, 1, Len(q) - 1)
  BY DEF Front
<1>4. Len(SubSeq(q, 1, Len(q) - 1)) = Len(q) - 1
  <2>1. \A n \in Nat \ {0} : (IF 1 <= n - 1 THEN (n - 1) - 1 + 1 ELSE 0) = n - 1
    OBVIOUS
  <2>. QED  BY <1>2, <2>1
<1>5. \A i \in 1..Len(q) - 1 : i \in 1..(Len(q) - 1) - 1 + 1 /\ 1 + i - 1 = i
  OBVIOUS
<1>. QED  BY <1>1, <1>2, <1>3, <1>4, <1>5

(* limitedBuffer.Write keeps the first bytes and marks that there are more.*)
LEMMA LimitedFacts ==
    ASSUME NEW c \in Seq(Bytes), NEW t \in BOOLEAN, NEW n \in Nat, NEW b \in Seq(Bytes),
           FirstBytes(c, t, n), \A i \in 1..Len(b) : b[i].at = n + i
    PROVE  /\ Limited(c, t, b).kept \in Seq(Bytes) /\ Limited(c, t, b).cut \in BOOLEAN
           /\ FirstBytes(Limited(c, t, b).kept, Limited(c, t, b).cut, n + Len(b))
<1>. DEFINE room == MaxCapture - Len(c)
            r == Limited(c, t, b)
<1>1. Len(c) \in Nat /\ Len(b) \in Nat /\ room \in Nat /\ MaxCapture \in Nat
  BY LenProperties, OutputAssumption DEF FirstBytes
<1>2. CASE t
  <2>1. r.kept = c /\ r.cut = TRUE
    BY <1>2 DEF Limited
  <2>2. FirstBytes(c, TRUE, n + Len(b))
    BY <1>1, <1>2 DEF FirstBytes
  <2>. QED  BY <2>1, <2>2
<1>3. CASE ~t
  <2>0. Len(c) = n
    BY <1>3 DEF FirstBytes
  <2>1. ASSUME NEW d \in Seq(Bytes), Len(c) + Len(d) <= MaxCapture, \A i \in 1..Len(d) : d[i].at = n + i
        PROVE  /\ c \o d \in Seq(Bytes) /\ Len(c \o d) = Len(c) + Len(d)
               /\ \A i \in 1..Len(c \o d) : (c \o d)[i].at = i
    <3>1. /\ c \o d \in Seq(Bytes) /\ Len(c \o d) = Len(c) + Len(d)
          /\ \A i \in 1..Len(c) + Len(d) : (c \o d)[i] = IF i <= Len(c) THEN c[i] ELSE d[i - Len(c)]
      BY ConcatProperties
    <3>2. Len(d) \in Nat
      BY LenProperties
    <3>3. ASSUME NEW i \in 1..Len(c) + Len(d) PROVE (c \o d)[i].at = i
      <4>1. CASE i <= Len(c)
        <5>1. i \in 1..Len(c) /\ (c \o d)[i] = c[i]
          BY <1>1, <3>1, <3>2, <4>1
        <5>. QED  BY <5>1 DEF FirstBytes
      <4>2. CASE ~(i <= Len(c))
        <5>1. i - Len(c) \in 1..Len(d) /\ (c \o d)[i] = d[i - Len(c)]
          BY <1>1, <3>1, <3>2, <4>2
        <5>2. d[i - Len(c)].at = n + (i - Len(c))
          BY <2>1, <5>1
        <5>. QED  BY <1>1, <2>0, <5>1, <5>2
      <4>. QED  BY <4>1, <4>2
    <3>. QED  BY <3>1, <3>3
  <2>2. CASE Len(b) <= room
    <3>1. r.kept = c \o b /\ r.cut = FALSE
      <4>1. room = 0 => b = <<>>
        BY <1>1, <2>2, EmptySeq
      <4>. QED  BY <1>3, <2>2, <4>1 DEF Limited
    <3>2. Len(c) + Len(b) <= MaxCapture
      BY <1>1, <2>2
    <3>3. c \o b \in Seq(Bytes) /\ FirstBytes(c \o b, FALSE, n + Len(b))
      BY <1>1, <2>0, <2>1, <3>2 DEF FirstBytes
    <3>. QED  BY <3>1, <3>3
  <2>3. CASE ~(Len(b) <= room)
    <3>. DEFINE d == SubSeq(b, 1, room)
    <3>1. r.kept = c \o d /\ r.cut = TRUE
      BY <1>3, <2>3 DEF Limited
    <3>2. d \in Seq(Bytes) /\ Len(d) = room /\ \A i \in 1..room : d[i] = b[i]
      <4>1. \A i \in 1..room : b[i] \in Bytes
        BY <1>1, <2>3, ElementOfSeq
      <4>. QED  BY <1>1, <4>1, SubSeqProperties
    <3>. HIDE DEF d
    <3>3. \A i \in 1..Len(d) : d[i].at = n + i
      <4>0. room \in Nat /\ Len(b) \in Nat /\ room < Len(b)
        BY <1>1, <2>3
      <4>1. \A i \in 1..room : i \in 1..Len(b)
        BY <4>0
      <4>2. \A i \in 1..Len(d) : i \in 1..Len(b) /\ d[i] = b[i]
        BY <3>2, <4>1
      <4>. QED  BY <4>2
    <3>4. Len(c) + Len(d) = MaxCapture /\ n + Len(b) > MaxCapture
      BY <1>1, <2>0, <2>3, <3>2
    <3>5. Len(c) + Len(d) <= MaxCapture
      BY <1>1, <3>4
    <3>6. /\ c \o d \in Seq(Bytes) /\ Len(c \o d) = MaxCapture
          /\ \A i \in 1..Len(c \o d) : (c \o d)[i].at = i
      BY <2>1, <3>2, <3>3, <3>4, <3>5
    <3>7. FirstBytes(c \o d, TRUE, n + Len(b))
      BY <1>1, <3>4, <3>6 DEF FirstBytes
    <3>. QED  BY <3>1, <3>6, <3>7
  <2>. QED  BY <2>2, <2>3
<1>. QED  BY <1>2, <1>3
-----------------------------------------------------------------------------
(***************************************************************************)
(* Steps.                                                                  *)
(***************************************************************************)
LEMMA InitIsInv == Init => StreamInv
<1>. SUFFICES ASSUME Init PROVE StreamInv
  OBVIOUS
<1>1. StreamTypes
  <2>1. text \in [Scripts -> Seq({"x", "nl"})]
    <3>1. text \in [Scripts -> UNION Range(Texts)] /\ \A s \in Scripts : text[s] \in Texts[s]
      BY DEF Init
    <3>. QED  BY <3>1, OutputAssumption
  <2>. QED  BY <2>1 DEF Init, StreamTypes, Readers
<1>2. Locks
  BY DEF Init, Locks
<1>3. ASSUME NEW s \in Scripts PROVE Script(s)
  <2>1. /\ sent[s] = 0 /\ pipe[s] = <<>> /\ held[s] = <<>> /\ captured[s] = <<>>
        /\ reader[s] = "read" /\ ~truncated[s]
    BY DEF Init
  <2>2. Len(text[s]) \in Nat /\ text[s] \in Seq({"x", "nl"}) /\ MaxCapture \in Nat
    BY <1>1, LenProperties, OutputAssumption DEF StreamTypes
  <2>3. Given(s) = 0
    BY <2>1, <2>2, EmptySeq DEF Given, Moved, Closed
  <2>. QED
    BY <2>1, <2>2, <2>3 DEF Script, InPlace, Moved, OneLine, FirstBytes
<1>. QED  BY <1>1, <1>2, <1>3 DEF StreamInv

(* A script whose bytes and capture do not move, whatever its reader waits *)
(* for next.                                                               *)
LEMMA ReaderGoesOn ==
    ASSUME NEW s \in Scripts, Script(s), text' = text,
           sent'[s] = sent[s], pipe'[s] = pipe[s], held'[s] = held[s],
           captured'[s] = captured[s], truncated'[s] = truncated[s],
           \/ reader'[s] \in {reader[s], "read"}
           \/ reader'[s] \in {"write", "capture"} /\ HoldsLine(s)
           \/ reader'[s] = "stopped" /\ ((EOF(s) /\ held[s] = <<>>) \/ Overlong(text[s]))
    PROVE  Script(s)'
<1>1. Moved(s)' = Moved(s) /\ Given(s)' = Given(s) /\ (EOF(s)' <=> EOF(s))
  BY DEF Moved, Given, EOF, Exited
<1>2. InPlace(s)'
  BY <1>1 DEF Script, InPlace, Byte
<1>3. HoldsLine(s)' <=> HoldsLine(s)
  BY <1>1 DEF HoldsLine
<1>. QED  BY <1>1, <1>2, <1>3 DEF Script

LEMMA LocksStay ==
    ASSUME Locks, StreamTypes, NEW s \in Scripts, reader[s] # "write", lock' = lock,
           \A r \in Scripts : r # s => reader'[r] = reader[r]
    PROVE  Locks'
<1>1. \A j \in Jobs : lock[j] \in Scripts \cup {NoOne}
  BY DEF StreamTypes
<1>. QED  BY <1>1 DEF Locks

(* A byte more in the pipe.                                                *)
LEMMA ProduceKeepsInv ==
    ASSUME StreamInv, NEW s \in Scripts, Produce(s)
    PROVE  StreamInv'
<1>. DEFINE b == Byte(s, sent[s] + 1)
<1>0. StreamTypes /\ Locks /\ Script(s)
  BY DEF StreamInv
<1>1. /\ UNCHANGED <<text, held, reader, captured, truncated, lock>>
      /\ sent' = [sent EXCEPT ![s] = @ + 1] /\ sent'[s] = sent[s] + 1
      /\ pipe' = [pipe EXCEPT ![s] = Append(@, b)] /\ pipe'[s] = Append(pipe[s], b)
      /\ sent[s] # Len(text[s])
  BY <1>0 DEF Produce, readerVars, writerVars, Exited, StreamTypes
<1>2. /\ b \in Bytes /\ sent[s] \in Nat /\ Len(text[s]) \in Nat
      /\ pipe[s] \in Seq(Bytes) /\ held[s] \in Seq(Bytes)
      /\ Len(pipe[s]) \in Nat /\ Len(held[s]) \in Nat
  BY <1>0, ByteFacts, LenProperties DEF StreamTypes
<1>. HIDE DEF b
<1>3. /\ pipe'[s] \in Seq(Bytes) /\ Len(pipe'[s]) = Len(pipe[s]) + 1
      /\ \A i \in 1..Len(pipe[s]) : pipe'[s][i] = pipe[s][i]
      /\ pipe'[s][Len(pipe[s]) + 1] = b
  BY <1>1, <1>2, AppendProperties
<1>4. StreamTypes'
  BY <1>0, <1>1, <1>2, <1>3 DEF StreamTypes
<1>5. Locks'
  BY <1>0, <1>1 DEF Locks
<1>6. Moved(s)' = Moved(s) /\ Given(s)' = Given(s) /\ ~EOF(s)
  BY <1>1, <1>2, <1>3 DEF Moved, Given, EOF, Exited
<1>7. InPlace(s)'
  <2>1. Moved(s) >= 0 /\ sent'[s] <= Len(text[s])
    BY <1>0, <1>1, <1>2 DEF Script, InPlace
  <2>2. ASSUME NEW i \in 1..Len(pipe'[s])
        PROVE  pipe'[s][i] = Byte(s, sent'[s] - Len(pipe'[s]) + i)
    <3>1. sent'[s] - Len(pipe'[s]) + i = sent[s] - Len(pipe[s]) + i
      BY <1>1, <1>2, <1>3
    <3>2. CASE i \in 1..Len(pipe[s])
      BY <1>0, <1>3, <3>1, <3>2 DEF Script, InPlace
    <3>3. CASE i = Len(pipe[s]) + 1
      <4>1. sent[s] - Len(pipe[s]) + i = sent[s] + 1
        BY <1>2, <3>3
      <4>. QED  BY <1>3, <3>1, <3>3, <4>1 DEF b
    <3>. QED  BY <1>2, <1>3, <3>2, <3>3
  <2>3. \A i \in Nat : Byte(s, i)' = Byte(s, i)
    BY <1>1 DEF Byte
  <2>4. \A i \in 1..Len(pipe'[s]) : sent'[s] - Len(pipe'[s]) + i \in Nat
    BY <1>1, <1>2, <1>3, <2>1 DEF Moved
  <2>5. \A i \in 1..Len(held[s]) : Moved(s) + i \in Nat /\ held[s][i] = Byte(s, Moved(s) + i)
    <3>1. \A i \in 1..Len(held[s]) : held[s][i] = Byte(s, Moved(s) + i)
      BY <1>0 DEF Script, InPlace
    <3>2. Moved(s) \in Nat /\ Len(held[s]) \in Nat
      BY <1>0, <1>2 DEF Script, InPlace, Moved
    <3>. QED  BY <3>1, <3>2
  <2>. QED  BY <1>1, <1>6, <2>1, <2>2, <2>3, <2>4, <2>5 DEF InPlace
<1>8. reader[s] \in {"write", "capture"} => HoldsLine(s)'
  BY <1>0, <1>1, <1>6 DEF Script, HoldsLine
<1>9. Script(s)'
  BY <1>0, <1>1, <1>6, <1>7, <1>8 DEF Script
<1>10. ASSUME NEW r \in Scripts, r # s PROVE Script(r)'
  <2>1. sent'[r] = sent[r] /\ pipe'[r] = pipe[r] /\ Script(r)
    BY <1>0, <1>1, <1>10 DEF StreamTypes, StreamInv
  <2>. QED  BY <1>1, <2>1, ReaderGoesOn
<1>. QED  BY <1>4, <1>5, <1>9, <1>10 DEF StreamInv

(* A byte from the pipe to the scanner, which holds no newline yet.        *)
LEMMA ScanKeepsInv ==
    ASSUME StreamInv, NEW s \in Scripts, Scan(s)
    PROVE  StreamInv'
<1>. DEFINE b == Head(pipe[s])
            n == sent[s]
            p == Len(pipe[s])
            h == Len(held[s])
<1>0. StreamTypes /\ Locks /\ Script(s)
  BY DEF StreamInv
<1>1. /\ UNCHANGED <<text, sent, reader, captured, truncated, lock>>
      /\ held' = [held EXCEPT ![s] = Append(@, b)] /\ held'[s] = Append(held[s], b)
      /\ pipe' = [pipe EXCEPT ![s] = Tail(@)] /\ pipe'[s] = Tail(pipe[s])
      /\ pipe[s] # <<>> /\ reader[s] = "read" /\ NewlineAt(held[s]) = 0
  BY <1>0 DEF Scan, HoldsLine, writerVars, StreamTypes
<1>2. /\ n \in Nat /\ Len(text[s]) \in Nat
      /\ pipe[s] \in Seq(Bytes) /\ held[s] \in Seq(Bytes)
      /\ p \in Nat /\ p # 0 /\ h \in Nat
  BY <1>0, <1>1, LenProperties, EmptySeq DEF StreamTypes
<1>3. /\ b \in Bytes /\ b = pipe[s][1] /\ pipe'[s] \in Seq(Bytes)
      /\ Len(pipe'[s]) = p - 1
      /\ \A i \in 1..p - 1 : pipe'[s][i] = pipe[s][i + 1]
  <2>1. /\ Head(pipe[s]) \in Bytes /\ Tail(pipe[s]) \in Seq(Bytes)
        /\ Len(Tail(pipe[s])) = Len(pipe[s]) - 1
        /\ \A i \in 1..Len(Tail(pipe[s])) : Tail(pipe[s])[i] = pipe[s][i + 1]
    BY <1>1, <1>2, HeadTailProperties
  <2>2. Head(pipe[s]) = pipe[s][1]
    BY <1>1, <1>2
  <2>. QED  BY <1>1, <2>1, <2>2
<1>. HIDE DEF b, n, p, h
<1>4. /\ held'[s] \in Seq(Bytes) /\ Len(held'[s]) = h + 1
      /\ \A i \in 1..h : held'[s][i] = held[s][i]
      /\ held'[s][h + 1] = b
  BY <1>1, <1>2, <1>3, AppendProperties DEF h
<1>5. StreamTypes'
  BY <1>0, <1>1, <1>3, <1>4 DEF StreamTypes
<1>6. Locks'
  BY <1>0, <1>1 DEF Locks
<1>7. /\ Moved(s)' = Moved(s) /\ Given(s)' = Given(s)
      /\ Moved(s) = n - p - h /\ Moved(s) \in Nat
  <2>1. Moved(s) = n - p - h /\ Moved(s)' = n - (p - 1) - (h + 1) /\ Moved(s) >= 0
    BY <1>0, <1>1, <1>3, <1>4 DEF Moved, Script, InPlace, n, p, h
  <2>2. Moved(s)' = Moved(s) /\ Moved(s) \in Nat
    BY <1>2, <2>1
  <2>. QED  BY <1>1, <2>1, <2>2 DEF Given
<1>8. InPlace(s)'
  <2>1. sent[s] <= Len(text[s])
    BY <1>0 DEF Script, InPlace
  <2>2. ASSUME NEW i \in 1..Len(held'[s])
        PROVE  held'[s][i] = Byte(s, Moved(s) + i)
    <3>1. CASE i \in 1..h
      BY <1>0, <1>4, <3>1 DEF Script, InPlace, h
    <3>2. CASE i = h + 1
      <4>1. n - p + 1 = Moved(s) + i /\ 1 \in 1..p
        <5>1. n - p + 1 = (n - p - h) + (h + 1) /\ 1 \in 1..p
          BY <1>2
        <5>. QED  BY <1>7, <3>2, <5>1
      <4>2. b = Byte(s, n - p + 1)
        BY <1>0, <1>3, <4>1 DEF Script, InPlace, n, p
      <4>. QED  BY <1>4, <3>2, <4>1, <4>2
    <3>. QED  BY <1>2, <1>4, <3>1, <3>2
  <2>3. ASSUME NEW i \in 1..Len(pipe'[s])
        PROVE  pipe'[s][i] = Byte(s, sent[s] - Len(pipe'[s]) + i)
    <3>1. i \in 1..p - 1
      BY <1>3
    <3>2. i + 1 \in 1..p /\ n - p + (i + 1) = n - (p - 1) + i
      BY <1>2, <3>1
    <3>. QED  BY <1>0, <1>3, <3>1, <3>2 DEF Script, InPlace, n, p
  <2>. QED  BY <1>1, <1>7, <2>1, <2>2, <2>3 DEF InPlace, Byte
<1>9. OneLine(held'[s])
  <2>1. \A i \in 1..h : ~held[s][i].nl
    BY <1>0, <1>1, <1>2, NewlineFacts DEF Script, h
  <2>2. \A i \in 1..Len(held'[s]) - 1 : i \in 1..h
    BY <1>2, <1>4
  <2>. QED  BY <1>4, <2>1, <2>2 DEF OneLine
<1>10. Script(s)'
  BY <1>0, <1>1, <1>7, <1>8, <1>9 DEF Script
<1>11. ASSUME NEW r \in Scripts, r # s PROVE Script(r)'
  <2>1. held'[r] = held[r] /\ pipe'[r] = pipe[r] /\ Script(r)
    BY <1>0, <1>1, <1>11 DEF StreamTypes, StreamInv
  <2>. QED  BY <1>1, <2>1, ReaderGoesOn
<1>. QED  BY <1>5, <1>6, <1>10, <1>11 DEF StreamInv

(* The scanner gives up on a line that does not fit, or stops at the end.  *)
LEMMA StopKeepsInv ==
    ASSUME StreamInv, NEW s \in Scripts, GiveUp(s) \/ EndOfOutput(s)
    PROVE  StreamInv'
<1>0. StreamTypes /\ Locks /\ Script(s)
  BY DEF StreamInv
<1>1. /\ UNCHANGED <<text, sent, pipe, held, captured, truncated, lock>>
      /\ reader' = [reader EXCEPT ![s] = "stopped"] /\ reader[s] = "read"
      /\ reader'[s] = "stopped" /\ \A r \in Scripts : r # s => reader'[r] = reader[r]
  BY <1>0 DEF GiveUp, EndOfOutput, scriptVars, writerVars, StreamTypes
<1>2. (EOF(s) /\ held[s] = <<>>) \/ Overlong(text[s])
  <2>1. CASE EndOfOutput(s)
    BY <2>1 DEF EndOfOutput
  <2>2. CASE GiveUp(s)
    <3>. DEFINE m == Moved(s)
    <3>1. /\ sent[s] \in Nat /\ Len(text[s]) \in Nat /\ Len(pipe[s]) \in Nat /\ MaxToken \in Nat \ {0}
          /\ held[s] \in Seq(Bytes) /\ Len(held[s]) = MaxToken /\ NewlineAt(held[s]) = 0
      BY <1>0, <2>2, LenProperties, OutputAssumption DEF StreamTypes, GiveUp
    <3>2. \A i \in 1..MaxToken : ~held[s][i].nl /\ held[s][i] = Byte(s, m + i)
      BY <1>0, <3>1, NewlineFacts DEF Script, InPlace
    <3>3. m \in Nat /\ m + MaxToken <= Len(text[s])
      BY <1>0, <3>1 DEF Script, InPlace, Moved
    <3>. HIDE DEF m
    <3>4. ASSUME NEW k \in (m + 1)..(m + 1 + MaxToken - 1) PROVE text[s][k] # "nl"
      <4>1. k - m \in 1..MaxToken /\ m + (k - m) = k /\ k \in Nat /\ k <= Len(text[s])
        BY <3>1, <3>3
      <4>. QED  BY <1>0, <3>2, <4>1, ByteFacts
    <3>5. m + 1 \in 1..(Len(text[s]) - MaxToken + 1)
      BY <3>1, <3>3
    <3>. QED  BY <3>4, <3>5 DEF Overlong
  <2>. QED  BY <2>1, <2>2
<1>3. Script(s)'
  BY <1>0, <1>1, <1>2, ReaderGoesOn
<1>4. ASSUME NEW r \in Scripts, r # s PROVE Script(r)'
  BY <1>1, <1>4, ReaderGoesOn DEF StreamInv
<1>5. StreamTypes'
  BY <1>0, <1>1 DEF StreamTypes, Readers
<1>6. Locks'
  BY <1>0, <1>1, LocksStay
<1>. QED  BY <1>3, <1>4, <1>5, <1>6 DEF StreamInv

(* prefixWriter.Write, from its lock to its unlock, moves no byte and      *)
(* keeps the line in the scanner's buffer.                                 *)
LEMMA WriteKeepsInv ==
    ASSUME StreamInv,
           \/ \E s \in Scripts : BeginWrite(s)
           \/ \E j \in Jobs : Emit(j) \/ EndWrite(j) \/ Flush(j)
    PROVE  StreamInv'
<1>0. StreamTypes /\ Locks /\ \A s \in Scripts : Script(s)
  BY DEF StreamInv
<1>1. UNCHANGED <<text, sent, pipe, held, captured, truncated>>
  BY DEF BeginWrite, Emit, EndWrite, Flush, scriptVars, readerVars
<1>2. ASSUME NEW s \in Scripts, BeginWrite(s) PROVE StreamInv'
  <2>1. /\ reader' = [reader EXCEPT ![s] = "write"] /\ lock' = [lock EXCEPT ![JobOf[s]] = s]
        /\ HoldsLine(s) /\ reader[s] = "read" /\ lock[JobOf[s]] = NoOne /\ JobOf[s] \in Jobs
    BY <1>2, OutputAssumption DEF BeginWrite
  <2>2. reader'[s] = "write" /\ \A r \in Scripts : r # s => reader'[r] = reader[r]
    BY <1>0, <2>1 DEF StreamTypes
  <2>3. StreamTypes'
    BY <1>0, <1>1, <2>1 DEF StreamTypes, Readers
  <2>4. Locks'
    BY <1>0, <2>1, <2>2 DEF Locks, StreamTypes
  <2>5. \A r \in Scripts : Script(r)'
    BY <1>0, <1>1, <2>1, <2>2, ReaderGoesOn
  <2>. QED  BY <2>3, <2>4, <2>5 DEF StreamInv
<1>3. ASSUME NEW j \in Jobs, lock[j] \in Scripts, lock' = [lock EXCEPT ![j] = NoOne], Carry(lock[j])
      PROVE  StreamInv'
  <2>. DEFINE s == lock[j]
  <2>1. /\ reader' = [reader EXCEPT ![s] = "capture"] /\ s \in Scripts
        /\ s # NoOne /\ JobOf[s] = j /\ reader[s] = "write"
    BY <1>0, <1>3, OutputAssumption DEF Carry, Locks
  <2>. HIDE DEF s
  <2>2. reader'[s] = "capture" /\ \A r \in Scripts : r # s => reader'[r] = reader[r]
    BY <1>0, <2>1 DEF StreamTypes
  <2>3. HoldsLine(s)
    BY <1>0, <2>1 DEF Script
  <2>4. StreamTypes'
    BY <1>0, <1>1, <1>3, <2>1 DEF StreamTypes, Readers
  <2>5. Locks'
    <3>1. ASSUME NEW k \in Jobs, lock'[k] # NoOne
          PROVE  JobOf[lock'[k]] = k /\ reader'[lock'[k]] = "write"
      <4>1. k # j /\ lock'[k] = lock[k] /\ lock[k] \in Scripts
        BY <1>0, <1>3, <3>1 DEF StreamTypes
      <4>2. JobOf[lock[k]] = k /\ reader[lock[k]] = "write"
        BY <1>0, <3>1, <4>1 DEF Locks
      <4>. QED  BY <2>1, <2>2, <4>1, <4>2
    <3>. QED  BY <3>1 DEF Locks
  <2>6. \A r \in Scripts : Script(r)'
    BY <1>0, <1>1, <2>2, <2>3, ReaderGoesOn
  <2>. QED  BY <2>4, <2>5, <2>6 DEF StreamInv
<1>4. ASSUME UNCHANGED <<reader, lock>> PROVE StreamInv'
  <2>1. \A r \in Scripts : Script(r)'
    BY <1>0, <1>1, <1>4, ReaderGoesOn
  <2>. QED  BY <1>0, <1>1, <1>4, <2>1 DEF StreamInv, StreamTypes, Locks
<1>5. ASSUME NEW j \in Jobs, Emit(j) PROVE StreamInv'
  BY <1>3, <1>4, <1>5 DEF Emit, DeferredUnlock
<1>6. ASSUME NEW j \in Jobs, EndWrite(j) PROVE StreamInv'
  BY <1>3, <1>6 DEF EndWrite
<1>7. ASSUME NEW j \in Jobs, Flush(j) PROVE StreamInv'
  BY <1>4, <1>7 DEF Flush, readerVars
<1>. QED  BY <1>2, <1>5, <1>6, <1>7

(* The line goes to the capture, and the scanner's buffer is empty again.  *)
LEMMA CaptureKeepsInv ==
    ASSUME StreamInv, NEW s \in Scripts, Capture(s)
    PROVE  StreamInv'
<1>. DEFINE l == Line(s)
            x == Limited(captured[s], truncated[s], Front(l))
            y == Limited(x.kept, x.cut, <<Last(l)>>)
<1>0. StreamTypes /\ Locks /\ Script(s)
  BY DEF StreamInv
<1>1. /\ UNCHANGED <<text, sent, pipe, lock>>
      /\ reader[s] = "capture" /\ reader' = [reader EXCEPT ![s] = "read"]
      /\ held' = [held EXCEPT ![s] = <<>>]
      /\ captured' = [captured EXCEPT ![s] = y.kept]
      /\ truncated' = [truncated EXCEPT ![s] = y.cut]
  BY DEF Capture, scriptVars, writerVars
<1>2. /\ reader'[s] = "read" /\ held'[s] = <<>> /\ captured'[s] = y.kept /\ truncated'[s] = y.cut
      /\ \A r \in Scripts : r # s => /\ reader'[r] = reader[r] /\ held'[r] = held[r]
                                     /\ captured'[r] = captured[r] /\ truncated'[r] = truncated[r]
  BY <1>0, <1>1 DEF StreamTypes
<1>3. HoldsLine(s)
  BY <1>0, <1>1 DEF Script
<1>4. /\ l \in Seq(Bytes) /\ Len(l) \in Nat \ {0} /\ Given(s) \in Nat
      /\ \A i \in 1..Len(l) : l[i].at = Given(s) + i
      /\ Given(s) + Len(l) = IF Moved(s) + Len(held[s]) = Len(text[s])
                             THEN Closed(text[s]) ELSE Moved(s) + Len(held[s])
  BY <1>0, <1>3, LineFacts
<1>. HIDE DEF l
<1>5. /\ Front(l) \in Seq(Bytes) /\ Len(Front(l)) = Len(l) - 1
      /\ \A i \in 1..Len(Front(l)) : Front(l)[i].at = Given(s) + i
  <2>1. /\ Front(l) \in Seq(Bytes) /\ Len(Front(l)) = Len(l) - 1
        /\ \A i \in 1..Len(l) - 1 : Front(l)[i] = l[i] /\ i \in 1..Len(l)
    BY <1>4, FrontProperties
  <2>. QED  BY <1>4, <2>1
<1>6. /\ x.kept \in Seq(Bytes) /\ x.cut \in BOOLEAN
      /\ FirstBytes(x.kept, x.cut, Given(s) + Len(Front(l)))
  <2>1. /\ captured[s] \in Seq(Bytes) /\ truncated[s] \in BOOLEAN
        /\ FirstBytes(captured[s], truncated[s], Given(s))
    BY <1>0 DEF StreamTypes, Script
  <2>. QED  BY <1>4, <1>5, <2>1, LimitedFacts, Zenon
<1>. HIDE DEF x
<1>7. /\ y.kept \in Seq(Bytes) /\ y.cut \in BOOLEAN
      /\ FirstBytes(y.kept, y.cut, Given(s) + Len(l))
  <2>. DEFINE n == Given(s) + Len(Front(l))
              e == <<Last(l)>>
  <2>1. n \in Nat /\ n + 1 = Given(s) + Len(l)
    BY <1>4, <1>5
  <2>2. e \in Seq(Bytes) /\ Len(e) = 1 /\ e[1] = l[Len(l)]
    BY <1>4, ElementOfSeq DEF Last
  <2>3. \A i \in 1..Len(e) : e[i].at = n + i
    <3>1. l[Len(l)].at = Given(s) + Len(l)
      BY <1>4
    <3>. QED  BY <2>1, <2>2, <3>1
  <2>. HIDE DEF n, e
  <2>4. y = Limited(x.kept, x.cut, e)
    BY DEF e
  <2>. HIDE DEF y
  <2>5. FirstBytes(x.kept, x.cut, n)
    BY <1>6 DEF n
  <2>6. /\ y.kept \in Seq(Bytes) /\ y.cut \in BOOLEAN
        /\ FirstBytes(y.kept, y.cut, n + Len(e))
    BY <1>6, <2>1, <2>2, <2>3, <2>4, <2>5, LimitedFacts, Zenon
  <2>. QED  BY <2>1, <2>2, <2>6
<1>. HIDE DEF y
<1>8. StreamTypes'
  <2>1. <<>> \in Seq(Bytes)
    OBVIOUS
  <2>. QED  BY <1>0, <1>1, <1>7, <2>1 DEF StreamTypes, Readers
<1>9. Locks'
  BY <1>0, <1>1, <1>2, LocksStay
<1>10. Script(s)'
  <2>1. /\ sent[s] \in Nat /\ Len(pipe[s]) \in Nat /\ Len(held[s]) \in Nat
        /\ Len(held'[s]) = 0 /\ sent[s] <= Len(text[s]) /\ Moved(s) >= 0
    BY <1>0, <1>2, LenProperties DEF StreamTypes, Script, InPlace
  <2>2. Moved(s)' = Moved(s) + Len(held[s]) /\ Moved(s)' >= 0
    BY <1>1, <2>1 DEF Moved
  <2>3. Given(s)' = Given(s) + Len(l)
    BY <1>1, <1>4, <2>2 DEF Given
  <2>4. InPlace(s)'
    <3>1. \A i \in Nat : Byte(s, i)' = Byte(s, i)
      BY <1>1 DEF Byte
    <3>. QED  BY <1>0, <1>1, <2>1, <2>2 DEF Script, InPlace, Byte
  <2>5. OneLine(held'[s])
    BY <2>1 DEF OneLine
  <2>. QED  BY <1>2, <1>7, <2>3, <2>4, <2>5 DEF Script
<1>11. ASSUME NEW r \in Scripts, r # s PROVE Script(r)'
  BY <1>1, <1>2, <1>11, ReaderGoesOn DEF StreamInv
<1>. QED  BY <1>8, <1>9, <1>10, <1>11 DEF StreamInv

LEMMA StreamStepKeepsInv == StreamInv /\ [Next]_vars => StreamInv'
<1>. SUFFICES ASSUME StreamInv, [Next]_vars PROVE StreamInv'
  OBVIOUS
<1>1. CASE UNCHANGED vars
  <2>1. UNCHANGED <<text, sent, pipe, held, reader, captured, truncated, lock>>
    BY <1>1 DEF vars, scriptVars, readerVars, writerVars
  <2>2. \A s \in Scripts : Script(s)'
    BY <2>1, ReaderGoesOn DEF StreamInv
  <2>. QED  BY <2>1, <2>2 DEF StreamInv, StreamTypes, Locks
<1>. QED
  BY <1>1, ProduceKeepsInv, ScanKeepsInv, StopKeepsInv, WriteKeepsInv, CaptureKeepsInv DEF Next

-----------------------------------------------------------------------------
(* streamLines and limitedBuffer: what the result and the audit row show   *)
(* of a script that is over are the first bytes it wrote, none missing and *)
(* none doubled, marked exactly when there were more, unless a line did    *)
(* not fit the scanner; no refused write, held lock or other script        *)
(* changes that.  A line end counts as one byte however it was written.    *)
THEOREM CapturedIsAMarkedPrefix == Spec => []CaptureIsAPrefix
<1>1. Init => StreamInv
  BY InitIsInv
<1>2. StreamInv /\ [Next]_vars => StreamInv'
  BY StreamStepKeepsInv
<1>3. StreamInv => CaptureIsAPrefix
  <2>. SUFFICES ASSUME StreamInv, NEW s \in Scripts, Over(s), ~Overlong(text[s])
                PROVE  /\ \A i \in DOMAIN captured[s] : captured[s][i].at = i
                       /\ Len(captured[s]) = IF truncated[s] THEN MaxCapture ELSE Closed(text[s])
                       /\ truncated[s] <=> Closed(text[s]) > MaxCapture
    BY DEF CaptureIsAPrefix
  <2>1. /\ captured[s] \in Seq(Bytes) /\ sent[s] = Len(text[s]) /\ pipe[s] = <<>> /\ held[s] = <<>>
        /\ FirstBytes(captured[s], truncated[s], Given(s)) /\ truncated[s] \in BOOLEAN
        /\ sent[s] \in Nat
    BY DEF StreamInv, StreamTypes, Script, Over, EOF, Exited
  <2>2. Given(s) = Closed(text[s])
    BY <2>1 DEF Given, Moved
  <2>3. DOMAIN captured[s] = 1..Len(captured[s]) /\ Len(captured[s]) \in Nat /\ MaxCapture \in Nat
    BY <2>1, LenProperties, OutputAssumption
  <2>. QED  BY <2>1, <2>2, <2>3 DEF FirstBytes
<1>. QED  BY <1>1, <1>2, <1>3, PTL DEF Spec

-----------------------------------------------------------------------------
(***************************************************************************)
(* FlattenSeq, whose recursive function is unfolded step by step: what     *)
(* holds of no first place holds of every place.                           *)
(***************************************************************************)
LEMMA LeastElement ==
    ASSUME NEW T \in SUBSET Nat, T # {}
    PROVE  \E n \in T : \A m \in T : n <= m
<1>1. PICK n \in T : \A m \in T : <<m, n>> \notin OpToRel(<, Nat)
  BY WFMin, NatLessThanWellFounded, Zenon
<1>2. \A m \in T : ~(m < n)
  BY <1>1, Zenon DEF OpToRel
<1>. QED  BY <1>2

Joins(f, q, n) == \A i \in 1..n : f[i] = IF i = 1 THEN q[i] ELSE f[i-1] \o q[i]

LEMMA JoinsExists ==
    ASSUME NEW S, NEW q \in Seq(Seq(S))
    PROVE  \E f \in [1..Len(q) -> Seq(S)] : Joins(f, q, Len(q))
<1>. DEFINE Bad == {n \in 0..Len(q) : ~\E f \in [1..n -> Seq(S)] : Joins(f, q, n)}
<1>0. Len(q) \in Nat /\ \A i \in 1..Len(q) : q[i] \in Seq(S)
  OBVIOUS
<1>1. Bad = {}
  <2>. SUFFICES ASSUME Bad # {} PROVE FALSE
    OBVIOUS
  <2>1. PICK n \in Bad : \A m \in Bad : n <= m
    <3>1. Bad \in SUBSET Nat
      BY <1>0
    <3>. HIDE DEF Bad
    <3>. QED  BY <3>1, LeastElement
  <2>2. n \in 0..Len(q) /\ ~\E f \in [1..n -> Seq(S)] : Joins(f, q, n)
    OBVIOUS
  <2>3. n # 0
    <3>1. [i \in 1..0 |-> <<>>] \in [1..0 -> Seq(S)] /\ Joins([i \in 1..0 |-> <<>>], q, 0)
      BY DEF Joins
    <3>. QED  BY <2>2, <3>1
  <2>4. PICK f \in [1..n-1 -> Seq(S)] : Joins(f, q, n-1)
    <3>1. n-1 \in 0..Len(q) /\ ~(n <= n-1)
      BY <1>0, <2>2, <2>3
    <3>2. n-1 \notin Bad
      <4>. HIDE DEF Bad
      <4>. QED  BY <2>1, <3>1
    <3>. QED  BY <3>1, <3>2
  <2>. DEFINE last == IF n = 1 THEN q[n] ELSE f[n-1] \o q[n]
              g == [i \in 1..n |-> IF i = n THEN last ELSE f[i]]
  <2>5. n \in 1..Len(q) /\ last \in Seq(S)
    <3>1. n \in 1..Len(q) /\ q[n] \in Seq(S)
      BY <1>0, <2>2, <2>3
    <3>2. n # 1 => f[n-1] \in Seq(S)
      BY <3>1
    <3>. QED  BY <3>1, <3>2, ConcatProperties
  <2>6. g \in [1..n -> Seq(S)]
    BY <2>5
  <2>. HIDE DEF last
  <2>7. Joins(g, q, n)
    <3>. SUFFICES ASSUME NEW i \in 1..n PROVE g[i] = IF i = 1 THEN q[i] ELSE g[i-1] \o q[i]
      BY DEF Joins
    <3>1. CASE i = n
      <4>1. n # 1 => n-1 \in 1..n /\ g[n-1] = f[n-1]
        BY <2>5
      <4>. QED  BY <3>1, <4>1 DEF last
    <3>2. CASE i # n
      <4>1. i \in 1..n-1 /\ g[i] = f[i] /\ (i # 1 => i-1 \in 1..n /\ g[i-1] = f[i-1])
        BY <2>5, <3>2
      <4>2. f[i] = IF i = 1 THEN q[i] ELSE f[i-1] \o q[i]
        BY <2>4, <4>1 DEF Joins
      <4>. QED  BY <4>1, <4>2
    <3>. QED  BY <3>1, <3>2
  <2>. QED  BY <2>2, <2>6, <2>7
<1>. QED  BY <1>0, <1>1

(* Two that join the same sequences agree.                                 *)
LEMMA JoinsUnique ==
    ASSUME NEW q, NEW n \in Nat, NEW f, NEW g, Joins(f, q, n), Joins(g, q, n)
    PROVE  \A i \in 1..n : f[i] = g[i]
<1>. DEFINE Bad == {i \in 1..n : f[i] # g[i]}
<1>. SUFFICES ASSUME Bad # {} PROVE FALSE
  OBVIOUS
<1>1. PICK i \in Bad : \A m \in Bad : i <= m
  <2>1. Bad \in SUBSET Nat
    OBVIOUS
  <2>. HIDE DEF Bad
  <2>. QED  BY <2>1, LeastElement
<1>2. i \in 1..n /\ f[i] # g[i]
  OBVIOUS
<1>3. i # 1 => f[i-1] = g[i-1]
  <2>1. i-1 \notin Bad
    BY <1>1, <1>2
  <2>. QED  BY <1>2, <2>1
<1>. QED  BY <1>2, <1>3 DEF Joins

LEMMA FlattenIsJoin ==
    ASSUME NEW S, NEW q \in Seq(Seq(S)), Len(q) # 0,
           NEW f \in [1..Len(q) -> Seq(S)], Joins(f, q, Len(q))
    PROVE  FlattenSeq(q) = f[Len(q)]
<1>1. f = [i \in 1..Len(q) |-> IF i = 1 THEN q[i] ELSE f[i-1] \o q[i]]
  BY DEF Joins
<1>2. ASSUME NEW g, g = [i \in 1..Len(q) |-> IF i = 1 THEN q[i] ELSE g[i-1] \o q[i]]
      PROVE  g = f
  <2>1. Joins(g, q, Len(q))
    BY <1>2 DEF Joins
  <2>2. Len(q) \in Nat
    OBVIOUS
  <2>3. \A i \in 1..Len(q) : g[i] = f[i]
    BY <2>1, <2>2, JoinsUnique
  <2>. DEFINE D == 1..Len(q)
  <2>4. /\ f = [i \in D |-> f[i]]
        /\ \E e : g = [i \in D |-> e[i]]
    <3>. DEFINE e == [i \in D |-> IF i = 1 THEN q[i] ELSE g[i-1] \o q[i]]
    <3>1. g = e
      BY <1>2
    <3>2. e = [i \in D |-> e[i]]
      OBVIOUS
    <3>. QED  BY <3>1, <3>2
  <2>. HIDE DEF D
  <2>5. g = [i \in D |-> g[i]]
    BY <2>4
  <2>. QED  BY <2>3, <2>4, <2>5 DEF D
<1>. QED  BY <1>1, <1>2, Zenon DEF FlattenSeq

(* One sequence more at the end.                                           *)
LEMMA FlattenAppend ==
    ASSUME NEW S, NEW q \in Seq(Seq(S)), NEW e \in Seq(S)
    PROVE  FlattenSeq(q) \in Seq(S) /\ FlattenSeq(Append(q, e)) = FlattenSeq(q) \o e
<1>. DEFINE n == Len(q)
            r == Append(q, e)
<1>1. /\ n \in Nat /\ r \in Seq(Seq(S)) /\ Len(r) = n + 1 /\ r[n+1] = e
      /\ \A i \in 1..n : r[i] = q[i]
  BY AppendProperties
<1>. HIDE DEF r
<1>2. PICK f \in [1..n -> Seq(S)] : Joins(f, q, n)
  BY JoinsExists
<1>3. PICK g \in [1..n+1 -> Seq(S)] : Joins(g, r, n+1)
  BY <1>1, JoinsExists
<1>. HIDE DEF n
<1>4. FlattenSeq(r) = g[n+1]
  <2>1. Len(r) = n+1 /\ n+1 # 0
    BY <1>1
  <2>2. r \in Seq(Seq(S)) /\ Len(r) # 0 /\ g \in [1..Len(r) -> Seq(S)] /\ Joins(g, r, Len(r))
    BY <1>1, <1>3, <2>1
  <2>3. FlattenSeq(r) = g[Len(r)]
    BY <2>2, FlattenIsJoin
  <2>. QED  BY <2>1, <2>3
<1>5. CASE n = 0
  <2>1. q = <<>> /\ Len(q) = 0
    BY <1>5 DEF n
  <2>2. FlattenSeq(q) = <<>>
    BY <2>1 DEF FlattenSeq
  <2>3. g[n+1] = e
    BY <1>1, <1>3, <1>5 DEF Joins
  <2>. QED  BY <1>4, <2>2, <2>3 DEF r
<1>6. CASE n # 0
  <2>1. FlattenSeq(q) = f[n] /\ f[n] \in Seq(S)
    <3>1. Len(q) # 0 /\ f \in [1..Len(q) -> Seq(S)] /\ Joins(f, q, Len(q)) /\ n \in 1..n
      BY <1>1, <1>2, <1>6 DEF n
    <3>2. FlattenSeq(q) = f[Len(q)]
      BY <3>1, FlattenIsJoin
    <3>. QED  BY <3>1, <3>2 DEF n
  <2>2. Joins(g, q, n)
    <3>1. \A i \in 1..n : i \in 1..n+1 /\ r[i] = q[i]
      BY <1>1
    <3>. QED  BY <1>3, <3>1 DEF Joins
  <2>3. g[n] = f[n]
    <3>1. n \in 1..n
      BY <1>1, <1>6
    <3>2. n \in Nat
      BY <1>1
    <3>3. \A i \in 1..n : g[i] = f[i]
      BY <1>2, <2>2, <3>2, JoinsUnique
    <3>. QED  BY <3>1, <3>3
  <2>4. g[n+1] = g[n] \o e
    <3>1. n+1 \in 1..n+1 /\ n+1 # 1 /\ (n+1)-1 = n
      BY <1>1, <1>6
    <3>2. \A k \in 1..n+1 : g[k] = IF k = 1 THEN r[k] ELSE g[k-1] \o r[k]
      BY <1>3, Zenon DEF Joins
    <3>3. g[n+1] = g[(n+1)-1] \o r[n+1]
      BY <3>1, <3>2, Zenon
    <3>. QED  BY <1>1, <3>1, <3>3, Zenon
  <2>. QED  BY <1>4, <2>1, <2>3, <2>4 DEF r
<1>. QED  BY <1>5, <1>6

-----------------------------------------------------------------------------
(***************************************************************************)
(* The jobs' writers and the sink.                                         *)
(***************************************************************************)
Writes == [label : Jobs, text : Seq(Bytes), whole : BOOLEAN]

WriterTypes ==
    /\ buf \in [Jobs -> Seq(Bytes)] /\ accepted \in [Jobs -> Seq(Bytes)]
    /\ sink \in Seq(Writes)

InOrder(j) == Delivered(j) \o buf[j] = accepted[j]

(* Until a write is refused the buffer holds a line while its writer works *)
(* and nothing between two writes.                                         *)
Unrefused(j) == j \notin erred =>
    /\ NewlineAt(buf[j]) = Len(buf[j])
    /\ lock[j] = NoOne => buf[j] = <<>>
    /\ \A i \in DOMAIN sink : sink[i].label = j => NewlineAt(sink[i].text) = Len(sink[i].text)

Done(j) == j \in flushed => \A s \in Scripts : JobOf[s] = j => reader[s] = "stopped"

WriterInv == WriterTypes /\ \A j \in Jobs : InOrder(j) /\ Unrefused(j) /\ Done(j)

LEMMA FirstNewline ==
    ASSUME NEW b \in Seq(Bytes)
    PROVE  /\ NewlineAt(b) \in 0..Len(b)
           /\ NewlineAt(b) # 0 => b[NewlineAt(b)].nl /\ \A i \in 1..NewlineAt(b)-1 : ~b[i].nl
           /\ NewlineAt(b) = 0 => \A i \in 1..Len(b) : ~b[i].nl
<1>. DEFINE I == {i \in 1..Len(b) : b[i].nl}
<1>0. Len(b) \in Nat
  OBVIOUS
<1>1. NewlineAt(b) = IF I # {} THEN Min(I) ELSE 0
  BY DEF NewlineAt, SelectInSeq
<1>2. CASE I = {}
  BY <1>0, <1>1, <1>2
<1>3. CASE I # {}
  <2>1. I \in SUBSET Nat
    OBVIOUS
  <2>2. /\ Min(I) \in I /\ \A i \in I : Min(I) <= i
    <3>. HIDE DEF I
    <3>1. \E n \in I : \A m \in I : n <= m
      BY <1>3, <2>1, LeastElement
    <3>. QED  BY <3>1 DEF Min
  <2>. DEFINE k == Min(I)
  <2>3. k \in 1..Len(b) /\ b[k].nl /\ \A i \in 1..Len(b) : b[i].nl => k <= i
    BY <2>2
  <2>. HIDE DEF I, k
  <2>4. NewlineAt(b) = k
    BY <1>1, <1>3 DEF k
  <2>. QED  BY <1>0, <2>3, <2>4
<1>. QED  BY <1>2, <1>3

(* The first newline of a sequence is where a newline follows none.        *)
LEMMA NewlineIs ==
    ASSUME NEW b \in Seq(Bytes), NEW n \in 1..Len(b), b[n].nl, \A i \in 1..n-1 : ~b[i].nl
    PROVE  NewlineAt(b) = n
<1>1. Len(b) \in Nat /\ n \in Nat
  OBVIOUS
<1>. QED  BY <1>1, FirstNewline

(* A buffer is its first line and the rest.                                *)
LEMMA SplitLine ==
    ASSUME NEW b \in Seq(Bytes), NewlineAt(b) # 0
    PROVE  /\ FirstLine(b) \in Seq(Bytes) /\ FirstLine(b) # <<>>
           /\ AfterLine(b) \in Seq(Bytes)
           /\ FirstLine(b) \o AfterLine(b) = b
           /\ NewlineAt(FirstLine(b)) = Len(FirstLine(b))
           /\ NewlineAt(b) = Len(b) => AfterLine(b) = <<>>
<1>. DEFINE n == NewlineAt(b)
<1>1. /\ n \in 1..Len(b) /\ Len(b) \in Nat /\ b[n].nl /\ \A i \in 1..n-1 : ~b[i].nl
  BY FirstNewline
<1>. HIDE DEF n
<1>2. \A i \in 1..Len(b) : b[i] \in Bytes
  OBVIOUS
<1>3. /\ SubSeq(b, 1, n) \in Seq(Bytes) /\ Len(SubSeq(b, 1, n)) = n
      /\ \A i \in 1..n : SubSeq(b, 1, n)[i] = b[i]
  BY <1>1, <1>2
<1>4. SubSeq(b, n+1, Len(b)) \in Seq(Bytes) /\ (n = Len(b) => SubSeq(b, n+1, Len(b)) = <<>>)
  BY <1>1, <1>2, SubSeqProperties, SubSeqEmpty
<1>5. SubSeq(b, 1, n) \o SubSeq(b, n+1, Len(b)) = b
  <2>1. 1 \in 1..Len(b)+1 /\ n \in 1-1..Len(b) /\ Len(b) \in n..Len(b)
    BY <1>1
  <2>2. SubSeq(b, 1, n) \o SubSeq(b, n+1, Len(b)) = SubSeq(b, 1, Len(b))
    BY <2>1, ConcatAdjacentSubSeq
  <2>. QED  BY <2>2, SubSeqFull
<1>6. NewlineAt(SubSeq(b, 1, n)) = n
  <2>1. n \in 1..Len(SubSeq(b, 1, n)) /\ n \in 1..n /\ \A i \in 1..n-1 : i \in 1..n
    BY <1>1, <1>3
  <2>. QED  BY <1>1, <1>3, <2>1, NewlineIs
<1>7. SubSeq(b, 1, n) # <<>>
  BY <1>1, <1>3
<1>. QED  BY <1>3, <1>4, <1>5, <1>6, <1>7 DEF FirstLine, AfterLine, n

(* The line a writer is given ends at its only newline.                    *)
LEMMA LineEnds ==
    ASSUME StreamTypes, NEW s \in Scripts, Script(s), HoldsLine(s)
    PROVE  Line(s) \in Seq(Bytes) /\ NewlineAt(Line(s)) = Len(Line(s))
<1>. DEFINE h == held[s]
<1>1. h \in Seq(Bytes) /\ Len(h) \in Nat /\ Len(text[s]) \in Nat
  BY LenProperties DEF StreamTypes
<1>2. \/ NewlineAt(h) = 0 /\ \A i \in 1..Len(h) : ~h[i].nl
      \/ NewlineAt(h) = Len(h) /\ Len(h) # 0 /\ h[Len(h)].nl
  BY <1>1, NewlineFacts DEF Script
<1>3. CASE NewlineAt(h) # 0
  BY <1>1, <1>2, <1>3 DEF Line
<1>4. CASE NewlineAt(h) = 0
  <2>. DEFINE b == Byte(s, Len(text[s]) + 1)
  <2>1. b \in Bytes
    BY <1>1, ByteFacts
  <2>2. b.nl
    <3>1. Len(text[s]) + 1 > Len(text[s])
      BY <1>1
    <3>2. b.nl <=> Len(text[s]) + 1 > Len(text[s]) \/ text[s][Len(text[s]) + 1] = "nl"
      BY DEF Byte
    <3>. QED  BY <3>1, <3>2
  <2>3. Line(s) = Append(h, b)
    BY <1>4 DEF Line
  <2>. HIDE DEF b, h
  <2>4. /\ Append(h, b) \in Seq(Bytes) /\ Len(Append(h, b)) = Len(h) + 1
        /\ \A i \in 1..Len(h) : Append(h, b)[i] = h[i]
        /\ Append(h, b)[Len(h) + 1] = b
    BY <1>1, <2>1, AppendProperties
  <2>5. \A i \in 1..(Len(h) + 1) - 1 : ~Append(h, b)[i].nl
    BY <1>1, <1>2, <1>4, <2>4
  <2>6. Len(h) + 1 \in 1..Len(Append(h, b))
    BY <1>1, <2>4
  <2>7. NewlineAt(Append(h, b)) = Len(h) + 1
    BY <2>2, <2>4, <2>5, <2>6, NewlineIs
  <2>. QED  BY <2>3, <2>4, <2>7
<1>. QED  BY <1>3, <1>4

LEMMA DeliveredType ==
    ASSUME sink \in Seq(Writes), NEW j \in Jobs
    PROVE  Delivered(j) \in Seq(Bytes)
<1>. DEFINE Part(x) == IF x.label = j /\ x.whole THEN x.text ELSE <<>>
            q == [i \in DOMAIN sink |-> Part(sink[i])]
<1>1. \A x \in Writes : Part(x) \in Seq(Bytes)
  BY DEF Writes
<1>2. \A i \in DOMAIN sink : sink[i] \in Writes
  OBVIOUS
<1>3. Delivered(j) = FlattenSeq(q)
  BY DEF Delivered
<1>. HIDE DEF Part
<1>4. q \in Seq(Seq(Bytes))
  <2>1. ASSUME NEW T, \A i \in DOMAIN sink : Part(sink[i]) \in T  PROVE  q \in Seq(T)
    BY <2>1
  <2>. QED  BY <1>1, <1>2, <2>1
<1>5. <<>> \in Seq(Bytes)
  OBVIOUS
<1>. HIDE DEF q
<1>. QED  BY <1>3, <1>4, <1>5, FlattenAppend

(* A write at the end of the sink adds to what its own job has there.      *)
LEMMA DeliveredGrows ==
    ASSUME sink \in Seq(Writes), NEW e \in Writes, sink' = Append(sink, e), NEW j \in Jobs
    PROVE  /\ Delivered(j) \in Seq(Bytes)
           /\ Delivered(j)' = Delivered(j) \o (IF e.label = j /\ e.whole THEN e.text ELSE <<>>)
<1>. DEFINE Part(x) == IF x.label = j /\ x.whole THEN x.text ELSE <<>>
            q == [i \in DOMAIN sink |-> Part(sink[i])]
            r == [i \in DOMAIN sink' |-> Part(sink'[i])]
<1>1. \A x \in Writes : Part(x) \in Seq(Bytes)
  BY DEF Writes
<1>2. /\ Len(sink) \in Nat /\ DOMAIN sink = 1..Len(sink) /\ DOMAIN sink' = 1..Len(sink)+1
      /\ \A i \in 1..Len(sink) : sink'[i] = sink[i] /\ sink[i] \in Writes
      /\ sink'[Len(sink)+1] = e
  OBVIOUS
<1>3. Delivered(j) = FlattenSeq(q) /\ Delivered(j)' = FlattenSeq(r)
  BY DEF Delivered
<1>. HIDE DEF Part
<1>4. q \in Seq(Seq(Bytes)) /\ Len(q) = Len(sink)
  BY <1>1, <1>2
<1>5. r = Append(q, Part(e))
  <2>1. r \in Seq(Seq(Bytes)) /\ Len(r) = Len(sink) + 1
    BY <1>1, <1>2
  <2>2. \A i \in 1..Len(sink) : r[i] = q[i]
    BY <1>2
  <2>3. r[Len(sink)+1] = Part(e)
    BY <1>2
  <2>. HIDE DEF q, r
  <2>. QED  BY <1>1, <1>2, <1>4, <2>1, <2>2, <2>3
<1>. HIDE DEF q, r
<1>6. FlattenSeq(q) \in Seq(Bytes) /\ FlattenSeq(r) = FlattenSeq(q) \o Part(e)
  BY <1>1, <1>4, <1>5, FlattenAppend
<1>. QED  BY <1>3, <1>6 DEF Part

LEMMA SinkAppend ==
    ASSUME sink \in Seq(Writes), NEW e \in Writes, sink' = Append(sink, e)
    PROVE  /\ sink' \in Seq(Writes)
           /\ \A i \in DOMAIN sink' : sink'[i] = e \/ (i \in DOMAIN sink /\ sink'[i] = sink[i])
<1>1. /\ DOMAIN sink = 1..Len(sink) /\ DOMAIN sink' = 1..Len(sink)+1 /\ Len(sink) \in Nat
      /\ \A i \in 1..Len(sink) : sink'[i] = sink[i]
      /\ sink'[Len(sink)+1] = e /\ sink' \in Seq(Writes)
  OBVIOUS
<1>. QED  BY <1>1

LEMMA EmptyBuffer == <<>> \in Seq(Bytes) /\ NewlineAt(<<>>) = Len(<<>>)
<1>1. <<>> \in Seq(Bytes) /\ Len(<<>>) = 0
  OBVIOUS
<1>2. NewlineAt(<<>>) \in 0..Len(<<>>)
  BY <1>1, FirstNewline, Zenon
<1>. QED  BY <1>1, <1>2

(* A job none of whose writes, locks or refusals is concerned.             *)
LEMMA QuietJob ==
    ASSUME WriterInv, NEW j \in Jobs,
           buf'[j] = buf[j], accepted'[j] = accepted[j], lock'[j] = lock[j],
           j \in erred => j \in erred',
           \/ sink' = sink
           \/ \E e \in Writes : sink' = Append(sink, e) /\ e.label # j
    PROVE  InOrder(j)' /\ Unrefused(j)'
<1>1. sink \in Seq(Writes) /\ InOrder(j) /\ Unrefused(j)
  BY DEF WriterInv, WriterTypes
<1>2. CASE sink' = sink
  BY <1>1, <1>2 DEF InOrder, Unrefused, Delivered
<1>3. ASSUME NEW e \in Writes, sink' = Append(sink, e), e.label # j
      PROVE  InOrder(j)' /\ Unrefused(j)'
  <2>1. Delivered(j) \in Seq(Bytes) /\ Delivered(j)' = Delivered(j) \o <<>>
    BY <1>1, <1>3, DeliveredGrows
  <2>2. Delivered(j)' = Delivered(j)
    BY <2>1, ConcatEmptySeq
  <2>3. InOrder(j)'
    BY <1>1, <2>2 DEF InOrder
  <2>4. \A i \in DOMAIN sink' : sink'[i].label = j => i \in DOMAIN sink /\ sink'[i] = sink[i]
    BY <1>1, <1>3, SinkAppend
  <2>5. Unrefused(j)'
    BY <1>1, <2>4 DEF Unrefused
  <2>. QED  BY <2>3, <2>5
<1>. QED  BY <1>2, <1>3

(* No reader of a flushed job does anything more.                          *)
LEMMA DoneStays ==
    ASSUME NEW j \in Jobs, Done(j), flushed' = flushed,
           \A s \in Scripts : reader'[s] = reader[s] \/ reader[s] # "stopped" \/ reader'[s] = "stopped"
    PROVE  Done(j)'
BY DEF Done

LEMMA BeginWriteKeepsOrder ==
    ASSUME StreamInv, WriterInv, NEW s \in Scripts, BeginWrite(s)
    PROVE  WriterInv'
<1>. DEFINE k == JobOf[s]
<1>1. /\ reader[s] = "read" /\ HoldsLine(s) /\ lock[k] = NoOne
      /\ reader' = [reader EXCEPT ![s] = "write"]
      /\ lock' = [lock EXCEPT ![k] = s]
      /\ buf' = [buf EXCEPT ![k] = @ \o Line(s)]
      /\ accepted' = [accepted EXCEPT ![k] = @ \o Line(s)]
      /\ UNCHANGED <<sink, flushed, erred>>
  BY DEF BeginWrite
<1>2. /\ StreamTypes /\ Script(s) /\ k \in Jobs /\ s # NoOne
      /\ lock \in [Jobs -> Scripts \cup {NoOne}] /\ reader \in [Scripts -> Readers]
      /\ WriterTypes /\ InOrder(k) /\ Unrefused(k)
  BY OutputAssumption DEF StreamInv, StreamTypes, WriterInv
<1>3. Line(s) \in Seq(Bytes) /\ NewlineAt(Line(s)) = Len(Line(s))
  BY <1>1, <1>2, LineEnds
<1>4. /\ buf[k] \in Seq(Bytes) /\ accepted[k] \in Seq(Bytes) /\ lock'[k] = s
      /\ buf'[k] = buf[k] \o Line(s) /\ accepted'[k] = accepted[k] \o Line(s)
      /\ \A j \in Jobs : j # k =>
            buf'[j] = buf[j] /\ accepted'[j] = accepted[j] /\ lock'[j] = lock[j]
  BY <1>1, <1>2 DEF WriterTypes
<1>5. WriterTypes'
  BY <1>1, <1>2, <1>3, <1>4 DEF WriterTypes
<1>6. InOrder(k)'
  <2>1. Delivered(k)' = Delivered(k)
    BY <1>1 DEF Delivered
  <2>2. Delivered(k) \in Seq(Bytes)
    BY <1>2, DeliveredType DEF WriterTypes
  <2>3. (Delivered(k) \o buf[k]) \o Line(s) = Delivered(k) \o (buf[k] \o Line(s))
    <3>1. buf[k] \in Seq(Bytes) /\ Line(s) \in Seq(Bytes)
      BY <1>3, <1>4
    <3>2. \A x, y, z \in Seq(Bytes) : (x \o y) \o z = x \o (y \o z)
      BY ConcatAssociative
    <3>. HIDE DEF k
    <3>. QED  BY <2>2, <3>1, <3>2, Zenon
  <2>. QED  BY <1>2, <1>4, <2>1, <2>3 DEF InOrder
<1>7. Unrefused(k)'
  <2>1. k \notin erred => buf'[k] = Line(s)
    BY <1>1, <1>2, <1>3, <1>4, ConcatEmptySeq DEF Unrefused
  <2>. QED  BY <1>1, <1>2, <1>3, <1>4, <2>1 DEF Unrefused
<1>8. ASSUME NEW j \in Jobs PROVE Done(j)'
  BY <1>1, <1>2, DoneStays DEF WriterInv
<1>. QED  BY <1>1, <1>4, <1>5, <1>6, <1>7, <1>8, QuietJob DEF WriterInv

(* A write that is refused, whole or in part.                              *)
LEMMA RefuseFacts ==
    ASSUME WriterInv, NEW j \in Jobs, NEW b \in Seq(Bytes), b # <<>>, Refuse(j, b),
           buf' = buf, accepted' = accepted
    PROVE  /\ WriterTypes' /\ InOrder(j)' /\ Unrefused(j)'
           /\ sink' = sink \/ \E e \in Writes : sink' = Append(sink, e) /\ e.label = j
           /\ \A i \in erred : i \in erred'
<1>. DEFINE e == Entry(j, Front(b), FALSE)
<1>1. erred' = erred \cup {j} /\ sink' \in {sink, Append(sink, e)}
  BY DEF Refuse
<1>2. e \in Writes /\ e.label = j /\ ~e.whole
  <2>1. Len(b) \in Nat \ {0}
    OBVIOUS
  <2>2. Front(b) \in Seq(Bytes)
    BY <2>1, FrontProperties
  <2>. QED  BY <2>2 DEF Entry, Writes
<1>. HIDE DEF e
<1>3. sink \in Seq(Writes) /\ buf[j] \in Seq(Bytes) /\ InOrder(j)
  BY DEF WriterInv, WriterTypes
<1>4. WriterTypes'
  <2>1. sink' \in Seq(Writes)
    BY <1>1, <1>2, <1>3, SinkAppend
  <2>. QED  BY <2>1 DEF WriterInv, WriterTypes
<1>5. InOrder(j)'
  <2>1. CASE sink' = sink
    BY <1>3, <2>1 DEF InOrder, Delivered
  <2>2. CASE sink' = Append(sink, e)
    <3>1. Delivered(j) \in Seq(Bytes) /\ Delivered(j)' = Delivered(j) \o <<>>
      BY <1>2, <1>3, <2>2, DeliveredGrows
    <3>2. Delivered(j)' = Delivered(j)
      BY <3>1, ConcatEmptySeq
    <3>. QED  BY <1>3, <3>2 DEF InOrder
  <2>. QED  BY <1>1, <2>1, <2>2
<1>. QED  BY <1>1, <1>2, <1>4, <1>5 DEF Unrefused

(* A write the sink takes whole: the first of the buffer goes there.       *)
LEMMA TakenFacts ==
    ASSUME WriterInv, NEW j \in Jobs, NEW a \in Seq(Bytes), NEW z \in Seq(Bytes),
           buf[j] = a \o z, buf' = [buf EXCEPT ![j] = z], accepted' = accepted,
           sink' = Append(sink, Entry(j, a, TRUE)), erred' = erred,
           j \notin erred => NewlineAt(a) = Len(a) /\ z = <<>>
    PROVE  /\ WriterTypes' /\ InOrder(j)' /\ Unrefused(j)'
           /\ \E e \in Writes : sink' = Append(sink, e) /\ e.label = j
<1>. DEFINE e == Entry(j, a, TRUE)
<1>1. e \in Writes /\ e.label = j /\ e.whole /\ e.text = a
  BY DEF Entry, Writes
<1>. HIDE DEF e
<1>2. sink' = Append(sink, e)
  BY DEF e
<1>3. /\ sink \in Seq(Writes) /\ buf[j] \in Seq(Bytes) /\ InOrder(j) /\ Unrefused(j)
      /\ buf'[j] = z
  BY DEF WriterInv, WriterTypes
<1>4. WriterTypes'
  <2>1. sink' \in Seq(Writes)
    BY <1>1, <1>2, <1>3, SinkAppend
  <2>. QED  BY <2>1 DEF WriterInv, WriterTypes
<1>5. InOrder(j)'
  <2>1. Delivered(j) \in Seq(Bytes) /\ Delivered(j)' = Delivered(j) \o a
    BY <1>1, <1>2, <1>3, DeliveredGrows
  <2>2. (Delivered(j) \o a) \o z = Delivered(j) \o (a \o z)
    BY <2>1, ConcatAssociative
  <2>. QED  BY <1>3, <2>1, <2>2 DEF InOrder
<1>6. Unrefused(j)'
  <2>1. \A i \in DOMAIN sink' : sink'[i] = e \/ (i \in DOMAIN sink /\ sink'[i] = sink[i])
    BY <1>1, <1>2, <1>3, SinkAppend
  <2>2. j \notin erred => buf'[j] = <<>> /\ NewlineAt(<<>>) = Len(<<>>)
    BY <1>3, EmptyBuffer
  <2>. QED  BY <1>1, <1>3, <2>1, <2>2 DEF Unrefused
<1>. QED  BY <1>1, <1>2, <1>4, <1>5, <1>6

LEMMA EmitKeepsOrder ==
    ASSUME StreamInv, WriterInv, NEW k \in Jobs, Emit(k)
    PROVE  WriterInv'
<1>. DEFINE b == buf[k]
<1>1. /\ b \in Seq(Bytes) /\ NewlineAt(b) # 0 /\ lock[k] \in Scripts
      /\ accepted' = accepted /\ flushed' = flushed
      /\ lock \in [Jobs -> Scripts \cup {NoOne}] /\ reader \in [Scripts -> Readers]
      /\ reader[lock[k]] = "write"
  BY OutputAssumption DEF Emit, StreamInv, StreamTypes, Locks, WriterInv, WriterTypes
<1>2. /\ FirstLine(b) \in Seq(Bytes) /\ FirstLine(b) # <<>> /\ AfterLine(b) \in Seq(Bytes)
      /\ FirstLine(b) \o AfterLine(b) = b
      /\ NewlineAt(FirstLine(b)) = Len(FirstLine(b))
      /\ NewlineAt(b) = Len(b) => AfterLine(b) = <<>>
  BY <1>1, SplitLine
<1>3. ASSUME sink' = Append(sink, Entry(k, FirstLine(b), TRUE)),
             buf' = [buf EXCEPT ![k] = AfterLine(b)], UNCHANGED <<reader, lock, erred>>
      PROVE  WriterInv'
  <2>1. /\ WriterTypes' /\ InOrder(k)' /\ Unrefused(k)'
        /\ \E e \in Writes : sink' = Append(sink, e) /\ e.label = k
    <3>1. k \notin erred => AfterLine(b) = <<>>
      BY <1>2 DEF WriterInv, Unrefused
    <3>. QED  BY <1>1, <1>2, <1>3, <3>1, TakenFacts
  <2>2. \A j \in Jobs : j # k => buf'[j] = buf[j]
    BY <1>3 DEF WriterInv, WriterTypes
  <2>3. ASSUME NEW j \in Jobs, j # k PROVE InOrder(j)' /\ Unrefused(j)'
    BY <1>1, <1>3, <2>1, <2>2, <2>3, QuietJob
  <2>4. ASSUME NEW j \in Jobs PROVE Done(j)'
    BY <1>1, <1>3, DoneStays DEF WriterInv
  <2>. QED  BY <2>1, <2>3, <2>4 DEF WriterInv
<1>4. ASSUME Refuse(k, FirstLine(b)), buf' = buf,
             lock' = [lock EXCEPT ![k] = NoOne], reader' = [reader EXCEPT ![lock[k]] = "capture"]
      PROVE  WriterInv'
  <2>1. /\ WriterTypes' /\ InOrder(k)' /\ Unrefused(k)'
        /\ sink' = sink \/ \E e \in Writes : sink' = Append(sink, e) /\ e.label = k
        /\ \A i \in erred : i \in erred'
    BY <1>1, <1>2, <1>4, RefuseFacts
  <2>2. ASSUME NEW j \in Jobs, j # k PROVE InOrder(j)' /\ Unrefused(j)'
    BY <1>1, <1>4, <2>1, <2>2, QuietJob
  <2>3. ASSUME NEW j \in Jobs PROVE Done(j)'
    BY <1>1, <1>4, DoneStays DEF WriterInv
  <2>. QED  BY <2>1, <2>2, <2>3 DEF WriterInv
<1>. QED
  <2>1. buf \in [Jobs -> Seq(Bytes)]
    BY DEF WriterInv, WriterTypes
  <2>. QED  BY <1>3, <1>4, <2>1 DEF Emit, KeptLine, DeferredUnlock, Carry

LEMMA EndWriteKeepsOrder ==
    ASSUME StreamInv, WriterInv, NEW k \in Jobs, EndWrite(k)
    PROVE  WriterInv'
<1>1. /\ NewlineAt(buf[k]) = 0 /\ lock[k] \in Scripts
      /\ lock' = [lock EXCEPT ![k] = NoOne] /\ reader' = [reader EXCEPT ![lock[k]] = "capture"]
      /\ UNCHANGED <<buf, sink, flushed, accepted, erred>>
      /\ lock \in [Jobs -> Scripts \cup {NoOne}] /\ reader \in [Scripts -> Readers]
      /\ reader[lock[k]] = "write"
  BY OutputAssumption DEF EndWrite, Carry, StreamInv, StreamTypes, Locks
<1>2. InOrder(k)' /\ Unrefused(k)'
  <2>1. InOrder(k) /\ Unrefused(k) /\ buf[k] \in Seq(Bytes)
    BY DEF WriterInv, WriterTypes
  <2>2. k \notin erred => buf[k] = <<>>
    BY <1>1, <2>1, EmptySeq DEF Unrefused
  <2>. QED  BY <1>1, <2>1, <2>2 DEF InOrder, Unrefused, Delivered
<1>3. ASSUME NEW j \in Jobs, j # k PROVE InOrder(j)' /\ Unrefused(j)'
  BY <1>1, <1>3, QuietJob
<1>4. ASSUME NEW j \in Jobs PROVE Done(j)'
  BY <1>1, DoneStays DEF WriterInv
<1>. QED  BY <1>1, <1>2, <1>3, <1>4 DEF WriterInv, WriterTypes

LEMMA FlushKeepsOrder ==
    ASSUME StreamInv, WriterInv, NEW k \in Jobs, Flush(k)
    PROVE  WriterInv'
<1>. DEFINE b == buf[k]
<1>1. /\ lock[k] = NoOne /\ flushed' = flushed \cup {k}
      /\ \A s \in Scripts : JobOf[s] = k => reader[s] = "stopped"
      /\ UNCHANGED <<reader, lock, accepted>>
      /\ b \in Seq(Bytes) /\ InOrder(k) /\ Unrefused(k)
  BY DEF Flush, readerVars, WriterInv, WriterTypes
<1>2. k \notin erred => b = <<>>
  BY <1>1 DEF Unrefused
<1>3. ASSUME NEW j \in Jobs PROVE Done(j)'
  BY <1>1 DEF WriterInv, Done
<1>4. CASE b = <<>> /\ UNCHANGED <<buf, sink, erred>>
  BY <1>1, <1>3, <1>4 DEF WriterInv, WriterTypes, InOrder, Unrefused, Delivered
<1>5. CASE /\ b # <<>> /\ sink' = Append(sink, Entry(k, b, TRUE))
           /\ buf' = [buf EXCEPT ![k] = <<>>] /\ erred' = erred
  <2>1. k \in erred /\ b \o <<>> = b /\ <<>> \in Seq(Bytes)
    BY <1>1, <1>2, <1>5, ConcatEmptySeq
  <2>2. /\ WriterTypes' /\ InOrder(k)' /\ Unrefused(k)'
        /\ \E e \in Writes : sink' = Append(sink, e) /\ e.label = k
    BY <1>1, <1>5, <2>1, TakenFacts
  <2>3. ASSUME NEW j \in Jobs, j # k PROVE InOrder(j)' /\ Unrefused(j)'
    <3>1. buf'[j] = buf[j]
      BY <1>5, <2>3 DEF WriterInv, WriterTypes
    <3>. QED  BY <1>1, <1>5, <2>2, <2>3, <3>1, QuietJob
  <2>. QED  BY <1>3, <2>2, <2>3 DEF WriterInv
<1>6. CASE b # <<>> /\ Refuse(k, b) /\ buf' = buf
  <2>1. /\ WriterTypes' /\ InOrder(k)' /\ Unrefused(k)'
        /\ sink' = sink \/ \E e \in Writes : sink' = Append(sink, e) /\ e.label = k
        /\ \A i \in erred : i \in erred'
    BY <1>1, <1>6, RefuseFacts
  <2>2. ASSUME NEW j \in Jobs, j # k PROVE InOrder(j)' /\ Unrefused(j)'
    BY <1>1, <1>6, <2>1, <2>2, QuietJob
  <2>. QED  BY <1>3, <2>1, <2>2 DEF WriterInv
<1>. QED  BY <1>4, <1>5, <1>6 DEF Flush

LEMMA WriterStepKeepsOrder == StreamInv /\ WriterInv /\ [Next]_vars => WriterInv'
<1>. SUFFICES ASSUME StreamInv, WriterInv, [Next]_vars PROVE WriterInv'
  OBVIOUS
<1>1. ASSUME UNCHANGED <<lock, buf, sink, flushed, accepted, erred>>,
             \A s \in Scripts : reader'[s] = reader[s] \/ reader[s] # "stopped" \/ reader'[s] = "stopped"
      PROVE  WriterInv'
  <2>1. \A j \in Jobs : Done(j)'
    BY <1>1, DoneStays DEF WriterInv
  <2>. QED  BY <1>1, <2>1, QuietJob DEF WriterInv, WriterTypes
<1>2. ASSUME NEW s \in Scripts, Produce(s) \/ Scan(s) \/ GiveUp(s) \/ EndOfOutput(s) \/ Capture(s)
      PROVE  WriterInv'
  <2>1. reader \in [Scripts -> Readers]
    BY DEF StreamInv, StreamTypes
  <2>2. UNCHANGED <<lock, buf, sink, flushed, accepted, erred>>
    BY <1>2 DEF Produce, Scan, GiveUp, EndOfOutput, Capture, writerVars
  <2>3. \A r \in Scripts : reader'[r] = reader[r] \/ reader[r] # "stopped" \/ reader'[r] = "stopped"
    BY <1>2, <2>1 DEF Produce, Scan, GiveUp, EndOfOutput, Capture, readerVars
  <2>. QED  BY <1>1, <2>2, <2>3
<1>3. CASE UNCHANGED vars
  BY <1>1, <1>3 DEF vars, readerVars, writerVars
<1>. QED
  BY <1>2, <1>3, BeginWriteKeepsOrder, EmitKeepsOrder, EndWriteKeepsOrder, FlushKeepsOrder DEF Next

(* prefixWriter and the sink two jobs share: each job's bytes arrive in    *)
(* the order its steps handed them over, whatever other jobs write and     *)
(* whatever the sink refuses; a write that was refused loses and repeats   *)
(* nothing; and until one is, every write is one whole line.               *)
THEOREM LinesArrive == Spec => []LinesArriveInOrder
<1>1. Init => WriterInv
  <2>. SUFFICES ASSUME Init PROVE WriterInv
    OBVIOUS
  <2>1. /\ WriterTypes /\ sink = <<>> /\ flushed = {}
        /\ \A j \in Jobs : buf[j] = <<>> /\ accepted[j] = <<>>
    BY DEF Init, WriterTypes
  <2>2. \A j \in Jobs : Delivered(j) = <<>>
    BY <2>1 DEF Delivered, FlattenSeq
  <2>3. <<>> \o <<>> = <<>>
    OBVIOUS
  <2>4. ASSUME NEW j \in Jobs PROVE InOrder(j) /\ Unrefused(j) /\ Done(j)
    <3>1. InOrder(j)
      BY <2>1, <2>2, <2>3 DEF InOrder
    <3>2. Unrefused(j)
      BY <2>1, EmptyBuffer DEF Unrefused
    <3>. QED  BY <2>1, <3>1, <3>2 DEF Done
  <2>. QED  BY <2>1, <2>4 DEF WriterInv
<1>2. StreamInv /\ WriterInv => LinesArriveInOrder
  <2>. SUFFICES ASSUME StreamInv, WriterInv, NEW j \in Jobs
                PROVE  /\ Delivered(j) \o buf[j] = accepted[j]
                       /\ j \notin erred =>
                             /\ \A i \in DOMAIN sink : sink[i].label = j =>
                                   NewlineAt(sink[i].text) = Len(sink[i].text)
                             /\ j \in flushed => buf[j] = <<>>
    BY DEF LinesArriveInOrder
  <2>1. j \in flushed => lock[j] = NoOne
    BY DEF StreamInv, StreamTypes, Locks, WriterInv, Done
  <2>. QED  BY <2>1 DEF WriterInv, InOrder, Unrefused
<1>. QED
  BY <1>1, <1>2, InitIsInv, StreamStepKeepsInv, WriterStepKeepsOrder, PTL DEF Spec
=============================================================================
