---------------------------- MODULE OutputStreams ----------------------------
(***************************************************************************)
(* What becomes of the bytes the scripts of a parallel bulk write: the     *)
(* pipe, streamLines and its line scanner, the capture buffer              *)
(* (src/internal/executor/executor.go), the labelling writer the steps of  *)
(* one job share and the sink all jobs share (src/internal/bulk/           *)
(* prefix.go).  One output stream per script; a byte stands for as many as *)
(* the bounds need.  The step's own prefix is left out: every byte carries *)
(* the script it is from.  A line end is one byte, whether the script      *)
(* writes a carriage return before its newline or not: the scanner drops   *)
(* it.  No deadline: StepProcess has the kill.                             *)
(*                                                                         *)
(* Definitions marked "faulty" are variants with a bug, each defined just  *)
(* before the definition it distorts; no specification uses them.          *)
(***************************************************************************)
EXTENDS Naturals, SequencesExt

CONSTANTS
    Scripts, Jobs, JobOf,   \* steps that run at once, and the job of each
    Texts,                  \* what each script may write: sequences over "x", "nl"
    MaxToken,               \* the scanner's buffer: 64 KB
    PipeSize,               \* the pipe's capacity
    MaxCapture,             \* maxOutputBytes
    MaxFaults               \* bound: writes the sink may refuse

NoOne == "no one"

ASSUME OutputAssumption ==
    /\ JobOf \in [Scripts -> Jobs] /\ NoOne \notin Scripts
    /\ \A s \in Scripts : Texts[s] \subseteq Seq({"x", "nl"})
    /\ {MaxToken, PipeSize, MaxCapture} \subseteq Nat \ {0} /\ MaxFaults \in Nat

VARIABLES
    text,       \* what each script writes before it exits
    sent,       \* how much of it the script has written
    pipe, held, \* the bytes in the pipe, and those in the scanner's buffer
    reader,     \* where streamLines is
    captured,   \* limitedBuffer.buf
    truncated,  \* limitedBuffer.truncated
    lock,       \* who holds prefixWriter.mu
    buf,        \* prefixWriter.buf
    sink,       \* the writes the sink took, in order; whole, or cut short
    flushed,    \* the coordinator flushed the job's writer
    faults,     \* writes the sink may still refuse
    accepted,   \* history: what each prefixWriter was given
    erred       \* history: the jobs one of whose writes was refused

scriptVars == <<text, sent, pipe>>
readerVars == <<held, reader, captured, truncated>>
writerVars == <<lock, buf, sink, flushed, faults, accepted, erred>>
vars       == <<scriptVars, readerVars, writerVars>>

Byte(s, i) == [by |-> s, at |-> i, nl |-> i > Len(text[s]) \/ text[s][i] = "nl"]
NewlineAt(b) == SelectInSeq(b, LAMBDA x : x.nl)
FirstLine(b) == SubSeq(b, 1, NewlineAt(b))
AfterLine(b) == SubSeq(b, NewlineAt(b) + 1, Len(b))

Init ==
    /\ text \in {t \in [Scripts -> UNION Range(Texts)] : \A s \in Scripts : t[s] \in Texts[s]}
    /\ sent = [s \in Scripts |-> 0]
    /\ pipe = [s \in Scripts |-> <<>>] /\ held = [s \in Scripts |-> <<>>]
    /\ reader = [s \in Scripts |-> "read"]
    /\ captured = [s \in Scripts |-> <<>>] /\ truncated = [s \in Scripts |-> FALSE]
    /\ lock = [j \in Jobs |-> NoOne]
    /\ buf = [j \in Jobs |-> <<>>] /\ accepted = [j \in Jobs |-> <<>>]
    /\ sink = <<>> /\ flushed = {} /\ faults = MaxFaults /\ erred = {}

-----------------------------------------------------------------------------
(***************************************************************************)
(* The script, and the scanner at the other end of its pipe.               *)
(***************************************************************************)
Exited(s) == sent[s] = Len(text[s])
EOF(s)    == Exited(s) /\ pipe[s] = <<>>

(* A write blocks while the pipe is full.                                  *)
Produce(s) ==
    /\ ~Exited(s) /\ Len(pipe[s]) < PipeSize
    /\ sent' = [sent EXCEPT ![s] = @ + 1]
    /\ pipe' = [pipe EXCEPT ![s] = Append(@, Byte(s, sent'[s]))]
    /\ UNCHANGED <<text, readerVars, writerVars>>

HoldsLine(s) == \/ NewlineAt(held[s]) # 0
                \/ EOF(s) /\ Len(held[s]) \in 1..MaxToken-1

Scan(s) ==
    /\ reader[s] = "read" /\ ~HoldsLine(s)
    /\ Len(held[s]) < MaxToken /\ pipe[s] # <<>>
    /\ held' = [held EXCEPT ![s] = Append(@, Head(pipe[s]))]
    /\ pipe' = [pipe EXCEPT ![s] = Tail(@)]
    /\ UNCHANGED <<text, sent, reader, captured, truncated, writerVars>>

(* The line does not fit: Scan returns false, and nobody asks why or reads *)
(* the pipe again.                                                         *)
GiveUp(s) ==
    /\ reader[s] = "read" /\ NewlineAt(held[s]) = 0 /\ Len(held[s]) = MaxToken
    /\ reader' = [reader EXCEPT ![s] = "stopped"]
    /\ UNCHANGED <<scriptVars, held, captured, truncated, writerVars>>

EndOfOutput(s) ==
    /\ reader[s] = "read" /\ EOF(s) /\ held[s] = <<>>
    /\ reader' = [reader EXCEPT ![s] = "stopped"]
    /\ UNCHANGED <<scriptVars, held, captured, truncated, writerVars>>

(* The scanner strips the newline a line may have; the step's prefixWriter *)
(* and streamLines put one back in any case.                               *)
Line(s) == IF NewlineAt(held[s]) # 0 THEN held[s]
           ELSE Append(held[s], Byte(s, Len(text[s]) + 1))

-----------------------------------------------------------------------------
(***************************************************************************)
(* prefixWriter.Write: the line is added under the lock, then every whole  *)
(* line buffered goes to the sink in a write of its own.                   *)
(***************************************************************************)
BeginWrite(s) ==
    LET j == JobOf[s] IN
    /\ reader[s] = "read" /\ HoldsLine(s) /\ lock[j] = NoOne
    /\ reader' = [reader EXCEPT ![s] = "write"]
    /\ lock' = [lock EXCEPT ![j] = s]
    /\ buf' = [buf EXCEPT ![j] = @ \o Line(s)]
    /\ accepted' = [accepted EXCEPT ![j] = @ \o Line(s)]
    /\ UNCHANGED <<scriptVars, held, captured, truncated, sink, flushed, faults, erred>>

Entry(j, b, w) == [label |-> j, text |-> b, whole |-> w]

(* The sink refuses a write, or takes a part of it and reports an error.   *)
Refuse(j, b) ==
    /\ faults > 0 /\ faults' = faults - 1
    /\ erred' = erred \cup {j}
    /\ sink' \in {sink, Append(sink, Entry(j, Front(b), FALSE))}

(* Write unlocks however it returns; streamLines ignores its error and     *)
(* goes on to the capture.                                                 *)
LeftLocked(j)     == [lock EXCEPT ![j] = "locked"]                          \* faulty
DeferredUnlock(j) == [lock EXCEPT ![j] = NoOne]

Carry(s) == reader' = [reader EXCEPT ![s] = "capture"]

(* A line that was refused stays at the head of the buffer.                *)
DroppedLine(b) == AfterLine(b)                                              \* faulty
KeptLine(b)    == b

Emit(j) ==
    /\ lock[j] \in Scripts /\ NewlineAt(buf[j]) # 0
    /\ \/ /\ sink' = Append(sink, Entry(j, FirstLine(buf[j]), TRUE))
          /\ buf' = [buf EXCEPT ![j] = AfterLine(@)]
          /\ UNCHANGED <<reader, lock, faults, erred>>
       \/ /\ Refuse(j, FirstLine(buf[j]))
          /\ buf' = [buf EXCEPT ![j] = KeptLine(@)]
          /\ lock' = DeferredUnlock(j) /\ Carry(lock[j])
    /\ UNCHANGED <<scriptVars, held, captured, truncated, flushed, accepted>>

EndWrite(j) ==
    /\ lock[j] \in Scripts /\ NewlineAt(buf[j]) = 0
    /\ lock' = [lock EXCEPT ![j] = NoOne] /\ Carry(lock[j])
    /\ UNCHANGED <<scriptVars, held, captured, truncated,
                   buf, sink, flushed, faults, accepted, erred>>

(* Flush, once the job's run is over: the whole buffer under one label.    *)
Flush(j) ==
    /\ j \notin flushed /\ lock[j] = NoOne /\ flushed' = flushed \cup {j}
    /\ \A s \in Scripts : JobOf[s] = j => reader[s] = "stopped" /\ Exited(s)
    /\ \/ buf[j] = <<>> /\ UNCHANGED <<buf, sink, faults, erred>>
       \/ /\ buf[j] # <<>>
          /\ sink' = Append(sink, Entry(j, buf[j], TRUE))
          /\ buf' = [buf EXCEPT ![j] = <<>>]
          /\ UNCHANGED <<faults, erred>>
       \/ buf[j] # <<>> /\ Refuse(j, buf[j]) /\ UNCHANGED buf
    /\ UNCHANGED <<scriptVars, readerVars, lock, accepted>>

-----------------------------------------------------------------------------
(***************************************************************************)
(* limitedBuffer.Write, for the line and then for its newline.             *)
(***************************************************************************)
UnmarkedWhenFull(c, t, b) ==                                                \* faulty
    LET room == MaxCapture - Len(c) IN
    IF Len(b) <= room THEN [kept |-> c \o b, cut |-> t]
                      ELSE [kept |-> c \o SubSeq(b, 1, room), cut |-> t \/ room > 0]

Limited(c, t, b) ==
    LET room == MaxCapture - Len(c) IN
    IF t \/ Len(b) <= room
    THEN [kept |-> IF t THEN c ELSE c \o b, cut |-> t \/ (room = 0 /\ b # <<>>)]
    ELSE [kept |-> c \o SubSeq(b, 1, room), cut |-> TRUE]

Capture(s) ==
    LET line == Limited(captured[s], truncated[s], Front(Line(s)))
        all  == Limited(line.kept, line.cut, <<Last(Line(s))>>)
    IN
    /\ reader[s] = "capture"
    /\ captured' = [captured EXCEPT ![s] = all.kept]
    /\ truncated' = [truncated EXCEPT ![s] = all.cut]
    /\ reader' = [reader EXCEPT ![s] = "read"]
    /\ held' = [held EXCEPT ![s] = <<>>]
    /\ UNCHANGED <<scriptVars, writerVars>>

Next ==
    \/ \E s \in Scripts : \/ Produce(s) \/ Scan(s) \/ GiveUp(s) \/ EndOfOutput(s)
                          \/ BeginWrite(s) \/ Capture(s)
    \/ \E j \in Jobs : Emit(j) \/ EndWrite(j) \/ Flush(j)

(* Scripts, readers and the coordinator go on while they can; a write to   *)
(* the sink returns.                                                       *)
Spec == Init /\ [][Next]_vars /\ WF_vars(Next)

-----------------------------------------------------------------------------
Delivered(j) ==
    FlattenSeq([i \in DOMAIN sink |-> IF sink[i].label = j /\ sink[i].whole THEN sink[i].text
                                                                             ELSE <<>>])

(* On the sink two jobs share, each job's bytes arrive in the order its    *)
(* steps handed them over, and a refused write loses and repeats nothing:  *)
(* what the sink took whole and what waits in the buffer is what the job   *)
(* was given.  Until a write of the job is refused, every write is one     *)
(* whole line, so no label is missing; after Flush nothing waits.          *)
LinesArriveInOrder ==
    \A j \in Jobs :
        /\ Delivered(j) \o buf[j] = accepted[j]
        /\ j \notin erred =>
              /\ \A i \in DOMAIN sink : sink[i].label = j =>
                    NewlineAt(sink[i].text) = Len(sink[i].text)
              /\ j \in flushed => buf[j] = <<>>

Overlong(t) ==
    \E i \in 1..(Len(t) - MaxToken + 1) : \A k \in i..(i + MaxToken - 1) : t[k] # "nl"

Over(s)   == reader[s] = "stopped" /\ Exited(s)
Closed(t) == IF t # <<>> /\ Last(t) # "nl" THEN Len(t) + 1 ELSE Len(t)

(* What the result and the audit row show of a script that is over, unless *)
(* a line did not fit the scanner: its first bytes, none missing and none  *)
(* doubled, whatever the sink did, with the mark exactly when there were   *)
(* more; a line end counts as one byte however it was written.             *)
CaptureIsAPrefix ==
    \A s \in Scripts : Over(s) /\ ~Overlong(text[s]) =>
        /\ \A i \in DOMAIN captured[s] : captured[s][i].at = i
        /\ Len(captured[s]) = IF truncated[s] THEN MaxCapture ELSE Closed(text[s])
        /\ truncated[s] <=> Closed(text[s]) > MaxCapture

(* A script never waits for its reader forever, however often the sink     *)
(* refuses a write and whoever holds the job's writer, unless one of its   *)
(* lines does not fit the scanner; and every job whose scripts are over is *)
(* flushed.                                                                *)
OutputNeverStopsTheScript ==
    /\ \A s \in Scripts : ~Overlong(text[s]) ~> Over(s)
    /\ \A j \in Jobs : (\A s \in Scripts : JobOf[s] = j => Over(s)) ~> j \in flushed
=============================================================================
