-------------------------- MODULE StageStreamProofs --------------------------
(***************************************************************************)
(* Proofs about the byte-stream driver, for every extent, granularity and  *)
(* set of quirks: that it is well typed, that it decides once, that a      *)
(* message it takes as known starts where the sender started one, that     *)
(* blocks agree with what lies between them and a decision with what was   *)
(* seen; and, for orderly steps, that each byte is spoken of once and that *)
(* the driver over its writer keeps the promise of StagePromise.           *)
(***************************************************************************)
EXTENDS StageStream, StageWriterProofs

LEMMA InitType == Init => TypeOK
<1> SUFFICES ASSUME Init PROVE TypeOK
  OBVIOUS
<1> USE ExtentAssumption
<1>1. WriterTypeOK
  BY WriterInitType DEF Init
<1>2. result \in ResultType
  <2>1. <<>> \in Seq(WriteType)
    OBVIOUS
  <2>2. QED
    BY <2>1 DEF Init, NoResult, Outcome, ResultType, Verdicts
<1>3. /\ pos \in 0 .. Extent /\ at \in 0 .. Extent
      /\ run \in [lo : 0 .. Extent, hi : 0 .. Extent]
      /\ starts \subseteq 0 .. MaxReach
  BY DEF Init, MaxReach
<1>4. QED
  BY <1>1, <1>2, <1>3 DEF Init, TypeOK

(* The words of the driver's own notes.                                    *)
LEMMA NoteWords ==
  /\ "undecodable" \in Reasons /\ "skipped" \in Reasons
  /\ "lost" \in Comments /\ "cut" \in Comments
BY DEF Reasons, Comments

(* Where a run's first message starts is inside the run.                   *)
LEMMA FirstAtRange ==
  ASSUME TypeOK, NEW hi \in pos + 1 .. Extent
  PROVE  /\ FirstAt(pos, hi) \in pos .. hi
         /\ Resumes(pos) /\ resume <= hi => FirstAt(pos, hi) = resume
         /\ ~Resumes(pos) => FirstAt(pos, hi) = pos
BY ExtentAssumption DEF TypeOK, FirstAt, Resumes, NoOffset, MaxReach

(* What the loop over the messages judges is well typed.                   *)
LEMMA StepType ==
  ASSUME TypeOK, Step
  PROVE  TypeOK'
<1> USE ExtentAssumption
<1>1. at \in 0 .. Extent /\ run.hi \in 0 .. Extent /\ at <= run.hi
  BY DEF TypeOK, Step
<1>2. PICK o \in Outcomes(at, run.hi) :
        /\ result' = Judged(o)
        /\ Hold(Direct(o))
        /\ starts' = starts \cup StartsAfter(o)
        /\ tried' = tried \cup {<<at, Judged(o).verdict>>}
  BY DEF Step
<1>3. o \in ResultType
  BY <1>1, OutcomesType
<1>4. Judged(o) \in ResultType
  BY <1>3 DEF Judged, ResultType, Verdicts
<1>5. StartsAfter(o) \subseteq 0 .. MaxReach
  BY <1>3 DEF StartsAfter, ResultType, NoOffset, MaxReach
<1>6. Judged(o).verdict \in Verdicts /\ o.writes \in Seq(WriteType)
  BY <1>3, <1>4 DEF ResultType
<1>7. WriterTypeOK'
  <2>1. Direct(o) \in Seq(WriteType)
    BY <1>6 DEF Direct
  <2>2. QED
    BY <1>2, <2>1, HoldType DEF Step, TypeOK
<1>8. tried' \subseteq (0 .. Extent) \X Verdicts
  BY <1>1, <1>2, <1>6 DEF TypeOK
<1>9. starts' \subseteq 0 .. MaxReach
  BY <1>2, <1>5 DEF TypeOK
<1>10. QED
  BY <1>2, <1>4, <1>7, <1>8, <1>9 DEF Step, TypeOK

LEMMA NextType == TypeOK /\ [Next]_vars => TypeOK'
<1> SUFFICES ASSUME TypeOK, [Next]_vars PROVE TypeOK'
  OBVIOUS
<1> USE ExtentAssumption
<1>1. CASE ReadGap
  <2>1. PICK hi \in pos + 1 .. Extent : Hold(GapCall(pos, hi)) /\ pos' = hi
    BY <1>1 DEF ReadGap
  <2>2. GapCall(pos, hi) \in Seq(WriteType)
    BY CallsType DEF TypeOK
  <2>3. WriterTypeOK'
    BY <1>1, <2>1, <2>2, HoldType DEF ReadGap, TypeOK
  <2>4. QED
    BY <1>1, <2>1, <2>3 DEF ReadGap, TypeOK, history
<1>2. CASE SkipRun
  <2>1. PICK hi \in pos + 1 .. Extent : Hold(SkipCall(pos, hi)) /\ pos' = hi
    BY <1>2 DEF SkipRun
  <2>2. SkipCall(pos, hi) \in Seq(WriteType)
    BY CallsType DEF TypeOK
  <2>3. WriterTypeOK'
    BY <1>2, <2>1, <2>2, HoldType DEF SkipRun, TypeOK
  <2>4. QED
    BY <1>2, <2>1, <2>3 DEF SkipRun, TypeOK, history
<1>3. CASE ReadRun
  <2> DEFINE calls(hi) == Begin(pos, hi) \o CutTail(pos, hi)
  <2>1. PICK hi \in pos + 1 .. Extent :
          /\ run' = [lo |-> pos, hi |-> hi]
          /\ at' = FirstAt(pos, hi)
          /\ known' = KnownAt(pos)
          /\ Hold(calls(hi))
          /\ pc' = IF resume # NoOffset /\ resume > hi THEN "chunk" ELSE "decode"
          /\ pos' = hi
    BY <1>3 DEF ReadRun
  <2>2. calls(hi) \in Seq(WriteType)
    <3>1. Note(pos, FirstAt(pos, hi), "skipped", "cut") \in Seq(WriteType)
      <4>1. pos \in Nat /\ FirstAt(pos, hi) \in Nat
        BY FirstAtRange DEF TypeOK
      <4>2. QED
        BY <4>1, CallsType, NoteWords
    <3>2. Begin(pos, hi) \in Seq(WriteType)
      BY CallsType DEF TypeOK
    <3>3. CutTail(pos, hi) \in Seq(WriteType)
      BY <3>1 DEF CutTail
    <3>4. QED
      BY <3>2, <3>3
  <2>3. WriterTypeOK'
    BY <1>3, <2>1, <2>2, HoldType DEF ReadRun, TypeOK
  <2>4. at' \in 0 .. Extent /\ run' \in [lo : 0 .. Extent, hi : 0 .. Extent] /\ pos' \in 0 .. Extent
    BY <2>1, FirstAtRange DEF TypeOK
  <2>5. QED
    BY <1>3, <2>1, <2>3, <2>4 DEF ReadRun, TypeOK, history, KnownAt
<1>4. CASE EndOfStream
  BY <1>4, FinishType DEF EndOfStream, TypeOK, history
<1>5. CASE LastFlush
  BY <1>5, FlushKeepsType DEF LastFlush, TypeOK, history
<1>6. CASE RunEnds
  BY <1>6, HoldType DEF RunEnds, TypeOK, history, NoOffset, WriterTypeOK, decision, file
<1>7. CASE Step
  BY <1>7, StepType
<1>8. ASSUME MessageWhole \/ MessageTransformFailed PROVE TypeOK'
  <2>1. result.writes \in Seq(WriteType) /\ result.next \in 0 .. Extent
    BY DEF TypeOK, ResultType
  <2>2. (IF known THEN <<>> ELSE result.writes) \in Seq(WriteType)
    BY <2>1
  <2>3. NextMessage /\ (Confirm \/ TransformFailed)
    BY <1>8 DEF MessageWhole, MessageTransformFailed
  <2>4. WriterTypeOK'
    BY <2>2, <2>3, HoldType DEF NextMessage, Release, TypeOK
  <2>5. QED
    BY <2>1, <2>3, <2>4 DEF NextMessage, TypeOK
<1>9. CASE MessageFailed
  <2>1. result.stop \in Nat /\ run.hi \in Nat /\ result.verdict \in Reasons
    BY <1>9 DEF MessageFailed, Whole, Framed, TypeOK, ResultType, Verdicts, Reasons
  <2>2. RunTail \in Seq(WriteType)
    BY <2>1, CallsType DEF Comments, RunTail
  <2>3. WriterTypeOK'
    BY <1>9, <2>2, HoldType DEF MessageFailed, TypeOK
  <2>4. resume' \in {NoOffset} \cup 0 .. MaxReach
    BY <1>9 DEF MessageFailed, TypeOK, ResultType
  <2>5. QED
    BY <1>9, <2>3, <2>4 DEF MessageFailed, TypeOK, history
<1>10. CASE GuessRefused
  <2>1. /\ at \in Nat /\ result.stop \in 0 .. Extent
        /\ result.stop \in Nat /\ at .. result.stop - 1 \subseteq 0 .. Extent
    BY DEF TypeOK, ResultType
  <2>2. Note(at, result.stop, "undecodable", "lost") \in Seq(WriteType)
    BY <2>1, CallsType, NoteWords
  <2>3. WriterTypeOK'
    BY <1>10, <2>2, HoldType DEF GuessRefused, TypeOK
  <2>4. QED
    <3>1. dropped' \subseteq 0 .. Extent
      <4>1. dropped' = dropped \cup (at .. result.stop - 1) /\ dropped \subseteq 0 .. Extent
        BY <1>10 DEF GuessRefused, TypeOK
      <4>2. QED
        BY <4>1, <2>1
    <3>2. QED
      BY <1>10, <2>1, <2>3, <3>1 DEF GuessRefused, TypeOK
<1>11. CASE GuessLost
  <2>1. at \in Nat /\ run.hi \in Nat /\ at .. run.hi - 1 \subseteq 0 .. Extent
    BY DEF TypeOK
  <2>2. Note(at, run.hi, "undecodable", "lost") \in Seq(WriteType)
    BY <2>1, CallsType, NoteWords
  <2>3. WriterTypeOK'
    BY <1>11, <2>2, HoldType DEF GuessLost, TypeOK
  <2>4. QED
    <3>1. dropped' \subseteq 0 .. Extent
      <4>1. dropped' = dropped \cup (at .. run.hi - 1) /\ dropped \subseteq 0 .. Extent
        BY <1>11 DEF GuessLost, TypeOK
      <4>2. QED
        BY <4>1, <2>1
    <3>2. QED
      BY <1>11, <2>1, <2>3, <3>1 DEF GuessLost, TypeOK, NoOffset
<1>12. CASE PutInFile
  BY <1>12, PutNextType DEF PutInFile, TypeOK, driver, history
<1>13. CASE UNCHANGED vars
  BY <1>13 DEF vars, writerVars, driver, history, TypeOK, WriterTypeOK
<1>14. QED
  BY <1>1, <1>2, <1>3, <1>4, <1>5, <1>6, <1>7, <1>8, <1>9, <1>10, <1>11, <1>12, <1>13
     DEF Next, Driver

(* Every variable of the driver and of the writer keeps its type, whatever *)
(* the messages do: what a step may return is all that is used of it.      *)
THEOREM TypeCorrect == Spec => []TypeOK
<1>1. QED
  BY InitType, NextType, PTL DEF Spec

-----------------------------------------------------------------------------
(***************************************************************************)
(* The decision.  A message may confirm the stream or decline it only      *)
(* while it is not declined: a run of a declined stream is never decoded.  *)
(***************************************************************************)
DecodesUndeclined == pc \in {"decode", "judge"} => declined = "no"

LEMMA DecodesUndeclinedInit == Init => DecodesUndeclined
BY DEF Init, DecodesUndeclined

LEMMA DecodesUndeclinedNext == DecodesUndeclined /\ [Next]_vars => DecodesUndeclined'
<1> SUFFICES ASSUME DecodesUndeclined, [Next]_vars PROVE DecodesUndeclined'
  OBVIOUS
<1> USE DEF DecodesUndeclined
<1>1. CASE pc' \notin {"decode", "judge"}
  BY <1>1
<1>2. CASE ReadRun
  BY <1>2 DEF ReadRun, decision
<1>3. CASE Step
  BY <1>3 DEF Step, decision
<1>4. CASE MessageWhole \/ MessageTransformFailed
  BY <1>4 DEF MessageWhole, MessageTransformFailed, Judging, Confirm, TransformFailed
<1>5. CASE GuessRefused
  BY <1>5 DEF GuessRefused, Judging, Lose
<1>6. CASE PutInFile \/ UNCHANGED vars
  BY <1>6 DEF PutInFile, PutNext, driver, decision, vars, writerVars
<1>7. CASE ReadGap \/ SkipRun \/ EndOfStream \/ LastFlush \/ RunEnds \/ MessageFailed \/ GuessLost
  <2>1. pc' \notin {"decode", "judge"}
    BY <1>7 DEF ReadGap, SkipRun, EndOfStream, LastFlush, RunEnds, MessageFailed, GuessLost
  <2>2. QED
    BY <2>1, <1>1
<1>8. QED
  BY <1>2, <1>3, <1>4, <1>5, <1>6, <1>7 DEF Next, Driver

LEMMA DecisionStep ==
  ASSUME TypeOK, DecodesUndeclined, Next, Decided
  PROVE  UNCHANGED <<confirmed, declined>>
<1>1. CASE UNCHANGED decision
  BY <1>1 DEF decision
<1>2. CASE EndOfStream
  BY <1>2 DEF EndOfStream, Finish, decision
<1>3. CASE pc = "judge" /\ (Confirm \/ TransformFailed \/ \E r : Failed(r) \/ Lose(r))
  <2>1. declined = "no"
    BY <1>3 DEF DecodesUndeclined
  <2>2. confirmed = TRUE
    BY <2>1 DEF Decided, TypeOK, WriterTypeOK
  <2>3. QED
    BY <1>3, <2>1, <2>2 DEF Confirm, TransformFailed, Failed, Lose, Decided, decision
<1>4. CASE ReadGap \/ SkipRun \/ ReadRun \/ LastFlush \/ RunEnds \/ Step \/ PutInFile
  <2>1. UNCHANGED decision
    BY <1>4 DEF ReadGap, SkipRun, ReadRun, LastFlush, RunEnds, Step, PutInFile, PutNext
  <2>2. QED
    BY <1>1, <2>1
<1>5. CASE MessageWhole \/ MessageTransformFailed \/ MessageFailed \/ GuessRefused \/ GuessLost
  <2>1. pc = "judge" /\ (Confirm \/ TransformFailed \/ \E r : Failed(r) \/ Lose(r))
    BY <1>5 DEF MessageWhole, MessageTransformFailed, MessageFailed, GuessRefused,
                GuessLost, Judging
  <2>2. QED
    BY <1>3, <2>1
<1>6. QED
  BY <1>2, <1>4, <1>5 DEF Next, Driver

(* The decision is taken once: no order of messages, gaps and guesses      *)
(* makes a confirmed stream declined or a declined one believed.           *)
THEOREM DecisionTakenOnce == Spec => DecidedOnce
<1>1. TypeOK /\ DecodesUndeclined /\ [Next]_vars => [Decided => UNCHANGED <<confirmed, declined>>]_vars
  BY DecisionStep
<1>2. QED
  BY <1>1, InitType, NextType, DecodesUndeclinedInit, DecodesUndeclinedNext, PTL
     DEF Spec, DecidedOnce

-----------------------------------------------------------------------------
(***************************************************************************)
(* The sender's messages.  What makes the driver right about a known start *)
(* is what it keeps between messages and between runs: where the next one  *)
(* starts, where one cut by a gap ends, and what the last step returned.   *)
(***************************************************************************)
ReturnsStarts ==
  /\ result.verdict \in Framed => result.next \in starts
  /\ result.verdict = "truncated" /\ result.reach # NoOffset => result.reach \in starts

SenderInv ==
  /\ 0 \in starts
  /\ ~guessed /\ resume # NoOffset => resume \in starts
  /\ pc \in {"decode", "judge"} /\ known /\ ~guessed => at \in starts
  /\ pc = "judge" /\ at \in starts => ReturnsStarts

LEMMA SenderInit == Init => SenderInv
BY DEF Init, SenderInv

LEMMA SenderNext == TypeOK /\ SenderInv /\ [Next]_vars => SenderInv'
<1> SUFFICES ASSUME TypeOK, SenderInv, [Next]_vars PROVE SenderInv'
  OBVIOUS
<1> USE ExtentAssumption
<1>1. CASE ReadRun
  <2>1. PICK hi \in pos + 1 .. Extent :
          /\ at' = FirstAt(pos, hi)
          /\ known' = KnownAt(pos)
          /\ pc' = IF resume # NoOffset /\ resume > hi THEN "chunk" ELSE "decode"
    BY <1>1 DEF ReadRun
  <2>2. CASE pc' = "decode" /\ known' /\ ~guessed
    <3>1. CASE Resumes(pos)
      <4>1. resume <= hi /\ resume # NoOffset
        BY <2>1, <2>2, <3>1 DEF Resumes, TypeOK, NoOffset, MaxReach
      <4>2. QED
        BY <1>1, <2>1, <2>2, <3>1, <4>1, FirstAtRange DEF ReadRun, SenderInv, history
    <3>2. CASE ~Resumes(pos)
      <4>1. pos = 0
        BY <1>1, <2>1, <2>2, <3>2 DEF ReadRun, Resumes, TypeOK, KnownAt
      <4>2. QED
        BY <1>1, <2>1, <3>2, <4>1, FirstAtRange DEF ReadRun, SenderInv, history
    <3>3. QED
      BY <3>1, <3>2
  <2>3. CASE ~(pc' = "decode" /\ known' /\ ~guessed)
    BY <1>1, <2>1, <2>3 DEF ReadRun, SenderInv, history
  <2>4. QED
    BY <2>2, <2>3
<1>2. CASE Step
  <2>1. PICK o \in Outcomes(at, run.hi) :
          /\ result' = Judged(o)
          /\ starts' = starts \cup StartsAfter(o)
    BY <1>2 DEF Step
  <2>2. /\ o \in ResultType
        /\ o.verdict # "truncated" => o.reach = NoOffset
    BY <1>2, OutcomesType DEF Step, TypeOK
  <2>3. /\ result'.next = o.next /\ result'.reach = o.reach
        /\ result'.verdict \in Framed => o.verdict \in Framed
        /\ result'.verdict = "truncated" => o.verdict = "truncated"
    BY <2>1, <2>2 DEF Judged, ResultType, Framed
  <2>4. at \in starts => ReturnsStarts'
    BY <2>1, <2>3 DEF ReturnsStarts, StartsAfter, Framed
  <2>5. at' = at /\ known' = known /\ guessed' = guessed /\ resume' = resume /\ pc = "decode"
    BY <1>2 DEF Step
  <2>6. CASE at \in starts
    BY <2>1, <2>4, <2>5, <2>6 DEF SenderInv
  <2>7. CASE at \notin starts
    BY <2>1, <2>5, <2>7 DEF SenderInv, StartsAfter
  <2>8. QED
    BY <2>6, <2>7
<1>3. CASE MessageWhole \/ MessageTransformFailed
  BY <1>3 DEF MessageWhole, MessageTransformFailed, NextMessage, Judging, SenderInv,
              ReturnsStarts, Framed, TypeOK
<1>4. CASE MessageFailed
  BY <1>4 DEF MessageFailed, Judging, SenderInv, ReturnsStarts, history
<1>5. CASE RunEnds \/ GuessRefused \/ GuessLost
  BY <1>5 DEF RunEnds, GuessRefused, GuessLost, SenderInv, history
<1>6. CASE ReadGap \/ SkipRun \/ EndOfStream \/ LastFlush \/ PutInFile \/ UNCHANGED vars
  BY <1>6 DEF ReadGap, SkipRun, EndOfStream, LastFlush, PutInFile, vars, driver, history,
              SenderInv, ReturnsStarts
<1>7. QED
  BY <1>1, <1>2, <1>3, <1>4, <1>5, <1>6 DEF Next, Driver

(* Until a guess has been believed, a message decoded as known starts      *)
(* where the sender started one, past any number of gaps.                  *)
THEOREM KnownStartsAreStarts == Spec => []KnownIsAStart
<1>1. SenderInv => KnownIsAStart
  BY DEF SenderInv, KnownIsAStart
<1>2. QED
  BY <1>1, InitType, NextType, SenderInit, SenderNext, PTL DEF Spec

-----------------------------------------------------------------------------
(***************************************************************************)
(* Dropped guesses.  The driver moves through the stream in one direction: *)
(* what was dropped is behind it, a record is never past what was read,    *)
(* and while the next message is a guess every record is behind it too.    *)
(***************************************************************************)
Frontier == IF pc \in {"decode", "judge"} THEN at ELSE pos

Recorded == RecordsOf(held) \cup RecordsOf(out)

DroppedInv ==
  /\ \A b \in dropped : b < Frontier
  /\ \A b \in Recorded : b <= pos /\ b \notin dropped
  /\ pc = "chunk" /\ afterGap => \A b \in Recorded : b < pos
  /\ pc \in {"decode", "judge"} =>
       /\ run.hi = pos /\ at <= pos /\ ~afterGap
       /\ known \/ \A b \in Recorded : b < at
  /\ pc = "judge" =>
       /\ at <= result.next /\ result.next <= result.stop /\ result.stop <= pos
       /\ result.writes \in Inside(at, result.stop)

LEMMA DroppedInit == Init => DroppedInv
BY DEF Init, WriterInit, DroppedInv, Recorded, RecordsOf

LEMMA DroppedNext == TypeOK /\ TypeOK' /\ DroppedInv /\ [Next]_vars => DroppedInv'
<1> SUFFICES ASSUME TypeOK, TypeOK', DroppedInv, [Next]_vars PROVE DroppedInv'
  OBVIOUS
<1> USE ExtentAssumption
<1>0. /\ WriterTypeOK /\ pos \in Nat /\ at \in Nat /\ dropped \subseteq Nat
      /\ Recorded \subseteq Nat
  BY DEF TypeOK, Recorded, RecordsOf
<1>1. CASE ReadGap \/ SkipRun
  <2>1. PICK hi \in pos + 1 .. Extent :
          pos' = hi /\ (Hold(GapCall(pos, hi)) \/ Hold(SkipCall(pos, hi)))
    BY <1>1 DEF ReadGap, SkipRun
  <2>2. /\ GapCall(pos, hi) \in Seq(WriteType) /\ RecordsOf(GapCall(pos, hi)) = {}
        /\ SkipCall(pos, hi) \in Seq(WriteType) /\ RecordsOf(SkipCall(pos, hi)) = {}
    <3>1. hi \in Nat
      BY <1>0
    <3>2. GapCall(pos, hi) \in Seq(WriteType) /\ SkipCall(pos, hi) \in Seq(WriteType)
      BY <1>0, <3>1, CallsType
    <3>3. QED
      BY <3>2, CallsKeepNoRecord
  <2>3. Recorded' \subseteq Recorded
    BY <1>0, <1>1, <2>1, <2>2, RecordsOfHold DEF Recorded, ReadGap, SkipRun, file
  <2>4. pos' \in Nat /\ pos' > pos
    BY <1>0, <2>1
  <2>5. pc = "chunk" /\ pc' = "chunk" /\ dropped' = dropped
    BY <1>1 DEF ReadGap, SkipRun, history
  <2>6. \A b \in Recorded' : b < pos' /\ b \notin dropped'
    BY <1>0, <2>3, <2>4, <2>5 DEF DroppedInv
  <2>7. \A b \in dropped' : b < Frontier'
    BY <1>0, <2>4, <2>5 DEF DroppedInv, Frontier
  <2>8. QED
    BY <1>0, <2>3, <2>4, <2>5, <2>6, <2>7 DEF DroppedInv
<1>2. CASE ReadRun
  <2>1. PICK hi \in pos + 1 .. Extent :
          /\ run' = [lo |-> pos, hi |-> hi]
          /\ at' = FirstAt(pos, hi)
          /\ known' = KnownAt(pos)
          /\ Hold(Begin(pos, hi) \o CutTail(pos, hi))
          /\ pc' = IF resume # NoOffset /\ resume > hi THEN "chunk" ELSE "decode"
          /\ pos' = hi
    BY <1>2 DEF ReadRun
  <2>2. at' \in pos .. hi
    BY <2>1, FirstAtRange
  <2>3. Recorded' \subseteq Recorded
    <3>1. CutTail(pos, hi) \in Seq(WriteType) /\ RecordsOf(CutTail(pos, hi)) = {}
      <4>1. at' \in Nat
        BY <1>0, <2>2
      <4>2. Note(pos, FirstAt(pos, hi), "skipped", "cut") \in Seq(WriteType)
        BY <1>0, <2>1, <4>1, CallsType, NoteWords
      <4>3. QED
        BY <4>2, CallsKeepNoRecord DEF CutTail
    <3>2. Begin(pos, hi) \in Seq(WriteType) /\ RecordsOf(Begin(pos, hi)) = {}
      <4>1. hi \in Nat
        BY <1>0
      <4>2. Begin(pos, hi) \in Seq(WriteType)
        BY <1>0, <4>1, CallsType
      <4>3. QED
        BY <4>2, CallsKeepNoRecord
    <3>3. Begin(pos, hi) \o CutTail(pos, hi) \in Seq(WriteType) /\ RecordsOf(Begin(pos, hi) \o CutTail(pos, hi)) = {}
      BY <3>1, <3>2, RecordsOfBoth
    <3>4. RecordsOf(held') \subseteq RecordsOf(held)
      BY <1>0, <2>1, <3>3, RecordsOfHold
    <3>5. QED
      BY <1>2, <3>4 DEF Recorded, ReadRun, file
  <2>4. \A b \in Recorded' : b <= pos' /\ b \notin dropped'
    BY <1>0, <1>2, <2>1, <2>3 DEF ReadRun, DroppedInv, history
  <2>5. \A b \in dropped' : b < Frontier'
    BY <1>0, <1>2, <2>1, <2>2 DEF ReadRun, DroppedInv, Frontier, history
  <2>6. ~known' => \A b \in Recorded' : b < at'
    <3>1. ~known' => pc = "chunk" /\ afterGap
      BY <1>2, <2>1 DEF ReadRun, TypeOK, KnownAt
    <3>2. ~known' => \A b \in Recorded : b < pos
      BY <3>1 DEF DroppedInv
    <3>3. QED
      BY <1>0, <2>2, <2>3, <3>2
  <2>7. QED
    BY <1>0, <1>2, <2>1, <2>2, <2>4, <2>5, <2>6 DEF ReadRun, DroppedInv
<1>3. CASE EndOfStream
  BY <1>3 DEF EndOfStream, DroppedInv, Recorded, Frontier, history, file
<1>4. CASE LastFlush
  <2>1. Recorded' \subseteq Recorded
    BY <1>0, <1>4, RecordsOfFlushed DEF LastFlush, Flush, Recorded
  <2>2. QED
    BY <1>4, <2>1 DEF LastFlush, DroppedInv, Frontier, history
<1>5. CASE RunEnds
  BY <1>0, <1>5 DEF RunEnds, DroppedInv, Recorded, Frontier, history, file
<1>6. CASE Step
  <2>1. PICK o \in Outcomes(at, run.hi) :
          result' = Judged(o) /\ Hold(Direct(o))
    BY <1>6 DEF Step
  <2>2. /\ o \in ResultType
        /\ at <= o.next /\ o.next <= o.stop /\ o.stop <= run.hi
        /\ o.writes \in Inside(at, o.stop)
    BY <1>6, OutcomesType DEF Step, TypeOK
  <2>3. /\ result'.next = o.next /\ result'.stop = o.stop /\ result'.writes = o.writes
    BY <2>1, <2>2 DEF Judged, ResultType
  <2>4. Recorded' \subseteq Recorded \cup (IF known THEN at .. o.stop ELSE {})
    <3>1. CASE known
      <4>1. RecordsOf(held') \subseteq RecordsOf(held) \cup RecordsOf(o.writes)
        BY <1>0, <2>1, <2>2, <3>1, RecordsOfHold DEF ResultType, Direct
      <4>2. QED
        BY <1>6, <2>2, <3>1, <4>1, RecordsOfInside DEF Step, Recorded, file
    <3>2. CASE ~known
      <4>1. held' = held
        BY <1>0, <2>1, <3>2 DEF Hold, WriterTypeOK, Direct
      <4>2. QED
        BY <1>6, <3>2, <4>1 DEF Step, Recorded, file
    <3>3. QED
      BY <3>1, <3>2
  <2>5. o.stop \in Int
    BY <2>2 DEF ResultType
  <2>6. /\ pc = "decode" /\ pc' = "judge" /\ pos' = pos /\ at' = at /\ run' = run
        /\ dropped' = dropped /\ known' = known /\ afterGap' = afterGap
    BY <1>6 DEF Step
  <2>7. run.hi = pos /\ at <= pos /\ ~afterGap /\ (\A b \in dropped : b < at)
    BY <2>6 DEF DroppedInv, Frontier
  <2>8. \A b \in Recorded' : b <= pos /\ b \notin dropped
    BY <1>0, <2>2, <2>4, <2>5, <2>7 DEF DroppedInv
  <2>9. known \/ \A b \in Recorded' : b < at
    BY <2>4, <2>6 DEF DroppedInv
  <2>10. QED
    BY <2>2, <2>3, <2>6, <2>7, <2>8, <2>9 DEF DroppedInv, Frontier
<1>7. CASE MessageWhole \/ MessageTransformFailed
  <2>1. NextMessage /\ pc = "judge"
    BY <1>7 DEF MessageWhole, MessageTransformFailed, Judging
  <2>2. /\ result.writes \in Seq(WriteType) /\ result.next \in Nat /\ result.stop \in Nat
        /\ RecordsOf(result.writes) \subseteq at .. result.stop
    BY <2>1, RecordsOfInside DEF TypeOK, ResultType, DroppedInv
  <2>3. Recorded' \subseteq Recorded \cup (IF known THEN {} ELSE at .. result.stop)
    <3>1. CASE known
      <4>1. held' = held
        BY <1>0, <2>1, <3>1 DEF NextMessage, Release, Hold, WriterTypeOK
      <4>2. QED
        BY <2>1, <3>1, <4>1 DEF NextMessage, Recorded, file
    <3>2. CASE ~known
      <4>1. RecordsOf(held') \subseteq RecordsOf(held) \cup RecordsOf(result.writes)
        BY <1>0, <2>1, <2>2, <3>2, RecordsOfHold DEF NextMessage, Release
      <4>2. QED
        BY <2>1, <2>2, <3>2, <4>1 DEF NextMessage, Recorded, file
    <3>3. QED
      BY <3>1, <3>2
  <2>4. QED
    BY <1>0, <2>1, <2>2, <2>3 DEF NextMessage, DroppedInv, Frontier
<1>8. CASE MessageFailed
  <2>1. result.stop \in Nat /\ run.hi \in Nat /\ result.verdict \in Reasons
    BY <1>8 DEF MessageFailed, Whole, Framed, TypeOK, ResultType, Verdicts, Reasons
  <2>2. /\ RunTail \in Seq(WriteType)
        /\ RecordsOf(RunTail) = {}
    BY <2>1, CallsType, CallsKeepNoRecord DEF Comments, RunTail
  <2>3. Recorded' \subseteq Recorded
    BY <1>0, <1>8, <2>2, RecordsOfHold DEF MessageFailed, Recorded, file
  <2>4. QED
    BY <1>0, <1>8, <2>3 DEF MessageFailed, Judging, DroppedInv, Frontier, history
<1>9. CASE GuessRefused
  <2>1. result.stop \in Nat /\ at < result.stop /\ result.stop <= pos
    BY <1>9 DEF GuessRefused, Judging, Retries, TypeOK, ResultType, DroppedInv
  <2>2. /\ Note(at, result.stop, "undecodable", "lost") \in Seq(WriteType)
        /\ RecordsOf(Note(at, result.stop, "undecodable", "lost")) = {}
    BY <1>0, <2>1, CallsType, CallsKeepNoRecord, NoteWords
  <2>3. Recorded' \subseteq Recorded
    BY <1>0, <1>9, <2>2, RecordsOfHold DEF GuessRefused, Recorded, file
  <2>4. QED
    BY <1>0, <1>9, <2>1, <2>3 DEF GuessRefused, Judging, DroppedInv, Frontier
<1>10. CASE GuessLost
  <2>1. run.hi \in Nat /\ run.hi = pos
    BY <1>10 DEF GuessLost, Judging, TypeOK, DroppedInv
  <2>2. /\ Note(at, run.hi, "undecodable", "lost") \in Seq(WriteType)
        /\ RecordsOf(Note(at, run.hi, "undecodable", "lost")) = {}
    BY <1>0, <2>1, CallsType, CallsKeepNoRecord, NoteWords
  <2>3. Recorded' \subseteq Recorded
    BY <1>0, <1>10, <2>2, RecordsOfHold DEF GuessLost, Recorded, file
  <2>4. QED
    BY <1>0, <1>10, <2>1, <2>3 DEF GuessLost, Judging, DroppedInv, Frontier
<1>11. CASE PutInFile
  <2>1. Recorded' \subseteq Recorded
    BY <1>0, <1>11, RecordsOfPut DEF PutInFile, Recorded
  <2>2. QED
    BY <1>11, <2>1 DEF PutInFile, DroppedInv, Frontier, driver, history
<1>12. CASE UNCHANGED vars
  BY <1>12 DEF vars, writerVars, driver, history, DroppedInv, Frontier, Recorded
<1>13. QED
  BY <1>1, <1>2, <1>3, <1>4, <1>5, <1>6, <1>7, <1>8, <1>9, <1>10, <1>11, <1>12
     DEF Next, Driver

(* Nothing a dropped guess wrote reaches the file: a record never begins   *)
(* in bytes whose message was a guess that failed.                         *)
THEOREM DroppedGuessesLeaveNothing == Spec => []NothingFromADroppedGuess
<1>1. TypeOK /\ DroppedInv => NothingFromADroppedGuess
  <2> SUFFICES ASSUME TypeOK, DroppedInv, NEW i \in DOMAIN out, IsRecord(i)
               PROVE  out[i].lo \notin dropped
    BY DEF NothingFromADroppedGuess
  <2>1. out[i] \in BlockType
    BY DEF TypeOK, WriterTypeOK
  <2>2. out[i].lo \in Recorded
    BY <2>1 DEF IsRecord, Recorded, RecordsOf, BlockType
  <2>3. QED
    BY <2>2 DEF DroppedInv
<1>2. TypeOK /\ DroppedInv /\ [Next]_vars => TypeOK' /\ DroppedInv'
  BY NextType, DroppedNext
<1>3. QED
  BY <1>1, <1>2, InitType, DroppedInit, PTL DEF Spec

-----------------------------------------------------------------------------
(***************************************************************************)
(* What the driver writes: that each byte is cited or named exactly once,  *)
(* that the decision is what was seen and is carried out, that the blocks  *)
(* agree with what lies between them, and that the stage keeps its promise.*)
(***************************************************************************)
(* Neither quirk of a specification that takes bytes out of order: the     *)
(* source of a failed transform named late, or a message that ends inside  *)
(* a byte.                                                                 *)
Orderly == "unordered_regions" \notin Quirks /\ "sub_byte" \notin Quirks

(* What the step that is being judged wrote.  A message that a gap cut     *)
(* began before it.                                                        *)
JudgeInv ==
  /\ resume # NoOffset => pos > 0
  /\ pc = "judge" =>
    /\ at < run.hi
    /\ MessageCalls(result.writes)
    /\ result.refused => result.verdict = "undecodable"
    /\ Orderly => result.next = result.stop /\ Spoken(result.writes, at, result.stop)

(* What is judged is what a step may return from where the message began.  *)
LEMMA JudgeInit == Init => JudgeInv
BY DEF Init, JudgeInv

LEMMA JudgeNext == TypeOK /\ DroppedInv /\ JudgeInv /\ [Next]_vars => JudgeInv'
<1> SUFFICES ASSUME TypeOK, DroppedInv, JudgeInv, [Next]_vars PROVE JudgeInv'
  OBVIOUS
<1>0. pos \in Nat /\ at \in Nat
  BY DEF TypeOK
<1>1. CASE Step
  <2>1. PICK o \in Outcomes(at, run.hi) : result' = Judged(o)
    BY <1>1 DEF Step
  <2>2. /\ at \in 0 .. Extent /\ run.hi \in 0 .. Extent /\ at < run.hi /\ at <= run.hi
        /\ at' = at /\ run' = run /\ resume' = resume /\ pos' = pos
    BY <1>1 DEF Step, TypeOK
  <2>3. /\ MessageCalls(o.writes)
        /\ o.refused => o.verdict = "undecodable"
        /\ o \in ResultType
    BY <2>2, OutcomesCalls, OutcomesType
  <2>4. Orderly => o.next = o.stop /\ Spoken(o.writes, at, o.stop)
    BY <2>2, OutcomesSpoken DEF Orderly
  <2>5. /\ result'.writes = o.writes /\ result'.next = o.next /\ result'.stop = o.stop
        /\ result'.refused = o.refused
        /\ o.verdict = "undecodable" => result'.verdict = "undecodable"
    BY <2>1, <2>3 DEF Judged, ResultType
  <2> QED
    BY <2>2, <2>3, <2>4, <2>5 DEF JudgeInv
<1>2. CASE PutInFile \/ UNCHANGED vars
  BY <1>2 DEF PutInFile, driver, vars, JudgeInv
<1>3. CASE MessageFailed
  <2>1. pc = "judge" /\ pc' = "chunk" /\ pos' = pos
    BY <1>3 DEF MessageFailed, Judging
  <2>2. pos > 0
    BY <1>0, <2>1 DEF JudgeInv, DroppedInv
  <2> QED
    BY <2>1, <2>2 DEF JudgeInv
<1>4. CASE ReadGap \/ SkipRun \/ ReadRun
  <2>1. resume' = resume /\ pc' # "judge" /\ pos' > pos
    BY <1>0, <1>4 DEF ReadGap, SkipRun, ReadRun
  <2>2. pos' \in Nat
    BY <1>0, <1>4 DEF ReadGap, SkipRun, ReadRun
  <2> QED
    BY <1>0, <2>1, <2>2 DEF JudgeInv
<1>5. CASE EndOfStream \/ LastFlush \/ RunEnds \/ MessageWhole \/ MessageTransformFailed
           \/ GuessRefused \/ GuessLost
  <2>1. pc' # "judge" /\ pos' = pos /\ (resume' = resume \/ resume' = NoOffset)
    BY <1>5 DEF EndOfStream, LastFlush, RunEnds, MessageWhole, MessageTransformFailed,
                NextMessage, GuessRefused, GuessLost
  <2> QED
    BY <2>1 DEF JudgeInv
<1> QED
  BY <1>1, <1>2, <1>3, <1>4, <1>5 DEF Next, Driver

-----------------------------------------------------------------------------
(***************************************************************************)
(* What each step of the driver adds.  Told is how far the account goes if *)
(* the stream is believed: up to where the next message begins, or up to   *)
(* where this one stopped if it was known.  If the stream is declined it   *)
(* goes as far as was read.                                                *)
(***************************************************************************)
Told ==
  IF pc = "decode" \/ (pc = "judge" /\ ~known) THEN at
  ELSE IF pc = "judge" THEN result.stop
  ELSE pos

Adds(calls) ==
  /\ calls \in Seq(WriteType)
  /\ Hold(calls)
  /\ Plain(calls)
  /\ ~confirmed => Partition(TRUE, calls, pos, pos')
  /\ Orderly => Partition(FALSE, calls, Told, Told')

LEMMA ToldRange == TypeOK /\ DroppedInv => Told \in Nat /\ pos \in Nat /\ Told <= pos
BY ExtentAssumption DEF Told, TypeOK, DroppedInv, ResultType

(* What each action of the driver adds to the queue, as calls that account *)
(* for the bytes between what was told before and after.                   *)
LEMMA AddsReading ==
  ASSUME TypeOK, DroppedInv, ReadGap \/ SkipRun
  PROVE  \E calls \in Seq(WriteType) : Adds(calls)
<1>1. PICK hi \in pos + 1 .. Extent :
        pos' = hi /\ (Hold(GapCall(pos, hi)) \/ Hold(SkipCall(pos, hi)))
  BY DEF ReadGap, SkipRun
<1>2. pos \in Nat /\ hi \in Nat /\ pos <= hi
  BY ExtentAssumption DEF TypeOK
<1>3. Told = pos /\ Told' = pos'
  BY DEF ReadGap, SkipRun, Told
<1>4. \A d \in BOOLEAN :
        /\ Partition(d, GapCall(pos, hi), pos, hi) /\ Plain(GapCall(pos, hi))
        /\ Partition(d, SkipCall(pos, hi), pos, hi) /\ Plain(SkipCall(pos, hi))
  BY <1>2, CallsSaid
<1>5. GapCall(pos, hi) \in Seq(WriteType) /\ SkipCall(pos, hi) \in Seq(WriteType)
  BY <1>2, CallsType
<1> QED
  BY <1>1, <1>3, <1>4, <1>5 DEF Adds

LEMMA AddsRun ==
  ASSUME TypeOK, DroppedInv, JudgeInv, ReadRun
  PROVE  \E calls \in Seq(WriteType) : Adds(calls)
<1>1. PICK hi \in pos + 1 .. Extent :
        /\ at' = FirstAt(pos, hi)
        /\ Hold(Begin(pos, hi) \o CutTail(pos, hi))
        /\ pc' = IF resume # NoOffset /\ resume > hi THEN "chunk" ELSE "decode"
        /\ pos' = hi
  BY DEF ReadRun
<1> DEFINE first == FirstAt(pos, hi)
           begin == Begin(pos, hi)
           tail == CutTail(pos, hi)
<1>2. pos \in Nat /\ hi \in Nat /\ first \in Nat /\ pos <= first /\ first <= hi
  BY ExtentAssumption, FirstAtRange DEF TypeOK
<1>3. Told = pos /\ Told' = first
  <2>1. Told = pos
    BY DEF ReadRun, Told
  <2>2. CASE resume # NoOffset /\ resume > hi
    <3>1. pc' = "chunk" /\ Told' = hi
      BY <1>1, <2>2 DEF Told
    <3>2. Resumes(pos) /\ resume \in Nat
      <4>1. resume \in Nat /\ resume >= pos
        BY <1>2, <2>2 DEF TypeOK, NoOffset, MaxReach
      <4>2. pos = 0 \/ afterGap
        BY DEF ReadRun
      <4>3. pos = 0 => afterGap
        BY <2>2 DEF JudgeInv
      <4> QED
        BY <2>2, <4>1, <4>2, <4>3 DEF Resumes
    <3>3. first = hi
      BY <1>2, <2>2, <3>2 DEF FirstAt
    <3> QED
      BY <2>1, <3>1, <3>3
  <2>3. CASE ~(resume # NoOffset /\ resume > hi)
    BY <1>1, <2>1, <2>3 DEF Told
  <2> QED
    BY <2>2, <2>3
<1>4. begin \in Seq(WriteType) /\ tail \in Seq(WriteType) /\ begin \o tail \in Seq(WriteType)
  <2>1. begin \in Seq(WriteType)
    BY <1>2, CallsType
  <2>2. tail \in Seq(WriteType)
    <3>1. pos \in Nat /\ first \in Nat
      BY <1>2
    <3>2. Note(pos, first, "skipped", "cut") \in Seq(WriteType)
      BY <3>1, CallsType, NoteWords
    <3> QED
      BY <3>2 DEF CutTail
  <2> QED
    BY <2>1, <2>2
<1>5. /\ Partition(FALSE, begin, pos, pos)
      /\ ~confirmed => Partition(TRUE, begin, pos, hi)
      /\ Plain(begin)
  <2>1. pos <= hi
    BY <1>2
  <2>2. \A x \in Nat : Partition(FALSE, begin, x, x)
    BY <1>2, <2>1, BeginSaid
  <2>3. (~confirmed => Partition(TRUE, begin, pos, hi)) /\ Plain(begin)
    BY <1>2, <2>1, BeginSaid
  <2> QED
    BY <1>2, <2>2, <2>3
<1>6. Partition(FALSE, tail, pos, first) /\ Partition(TRUE, tail, hi, hi) /\ Plain(tail)
  <2>1. CASE Resumes(pos)
    BY <1>2, <2>1, NoteSaid, NoteWords DEF CutTail
  <2>2. CASE ~Resumes(pos)
    <3>1. tail = <<>> /\ first = pos
      BY <2>2, FirstAtRange DEF CutTail
    <3> QED
      BY <1>2, <3>1, NothingSaid
  <2> QED
    BY <2>1, <2>2
<1> HIDE DEF first, begin, tail
<1>7. Partition(FALSE, begin \o tail, pos, first)
  <2>1. pos \in Nat /\ first \in Nat /\ pos <= pos /\ pos <= first /\ FALSE \in BOOLEAN
    BY <1>2
  <2> QED
    BY <1>4, <1>5, <1>6, <2>1, PartitionBoth
<1>8. ~confirmed => Partition(TRUE, begin \o tail, pos, hi)
  <2>1. pos \in Nat /\ hi \in Nat /\ pos <= hi /\ hi <= hi /\ TRUE \in BOOLEAN
    BY <1>2
  <2> QED
    BY <1>4, <1>5, <1>6, <2>1, PartitionBoth
<1>9. Plain(begin \o tail)
  <2>1. \A i \in DOMAIN (begin \o tail) :
          \/ i \in DOMAIN begin /\ (begin \o tail)[i] = begin[i]
          \/ i - Len(begin) \in DOMAIN tail /\ (begin \o tail)[i] = tail[i - Len(begin)]
    BY <1>4
  <2> QED
    BY <1>5, <1>6, <2>1 DEF Plain
<1>10. Hold(begin \o tail) /\ pos' = hi
  BY <1>1 DEF begin, tail
<1> QED
  BY <1>3, <1>4, <1>7, <1>8, <1>9, <1>10 DEF Adds

LEMMA AddsNothing ==
  ASSUME TypeOK, DroppedInv, UNCHANGED <<held, pos>>, Told' = Told
  PROVE  Adds(<<>>)
<1>1. Told \in Nat /\ pos \in Nat
  BY ToldRange
<1>2. Hold(<<>>)
  BY DEF Hold, TypeOK, WriterTypeOK
<1> QED
  BY <1>1, <1>2, NothingSaid DEF Adds

LEMMA AddsStep ==
  ASSUME TypeOK, DroppedInv, JudgeInv', Step
  PROVE  \E calls \in Seq(WriteType) : Adds(calls)
<1>1. PICK o \in Outcomes(at, run.hi) : result' = Judged(o) /\ Hold(Direct(o))
  BY DEF Step
<1>2. at \in 0 .. Extent /\ run.hi \in 0 .. Extent /\ at <= run.hi
  BY DEF Step, TypeOK
<1>3. o \in ResultType
  BY <1>2, OutcomesType
<1>4. result'.writes = o.writes /\ result'.stop = o.stop
  BY <1>1, <1>3 DEF Judged, ResultType
<1>5. /\ pc = "decode" /\ pc' = "judge" /\ at' = at /\ known' = known /\ pos' = pos
      /\ pos \in Nat /\ at \in Nat
  BY ExtentAssumption DEF Step, TypeOK
<1>6. MessageCalls(o.writes) /\ (Orderly => Spoken(o.writes, at, o.stop))
  BY <1>4, <1>5 DEF JudgeInv
<1>7. Told = at /\ Told' = IF known THEN o.stop ELSE at
  BY <1>4, <1>5 DEF Told
<1>8. o.writes \in Seq(WriteType)
  BY <1>3 DEF ResultType
<1>9. CASE known
  <2>1. Direct(o) = o.writes
    BY <1>9 DEF Direct
  <2>2. Partition(TRUE, o.writes, pos, pos) /\ Plain(o.writes)
    BY <1>5, <1>6, <1>8, MessageSaid
  <2> QED
    BY <1>1, <1>5, <1>6, <1>7, <1>8, <1>9, <2>1, <2>2 DEF Adds, Spoken
<1>10. CASE ~known
  <2>1. Direct(o) = <<>>
    BY <1>10 DEF Direct
  <2>2. Hold(<<>>)
    BY <1>1, <2>1
  <2>3. Adds(<<>>)
    BY <1>5, <1>7, <1>10, <2>2, NothingSaid DEF Adds
  <2> QED
    BY <2>3, NothingSaid
<1> QED
  BY <1>9, <1>10

LEMMA AddsWhole ==
  ASSUME TypeOK, DroppedInv, JudgeInv, MessageWhole \/ MessageTransformFailed
  PROVE  \E calls \in Seq(WriteType) : Adds(calls)
<1>1. /\ NextMessage /\ pc = "judge" /\ pc' = "decode" /\ pos' = pos /\ at' = result.next
      /\ pos \in Nat /\ at \in Nat /\ result.stop \in Nat
  BY ExtentAssumption DEF MessageWhole, MessageTransformFailed, NextMessage, Judging, TypeOK, ResultType
<1>2. /\ Told = IF known THEN result.stop ELSE at
      /\ Told' = result.next
  BY <1>1 DEF Told
<1>3. /\ MessageCalls(result.writes) /\ result.writes \in Seq(WriteType)
      /\ Orderly => result.next = result.stop /\ Spoken(result.writes, at, result.stop)
  BY <1>1 DEF JudgeInv, TypeOK, ResultType
<1>4. CASE known
  <2>1. Hold(<<>>)
    BY <1>1, <1>4 DEF NextMessage, Release
  <2>2. Adds(<<>>)
    BY <1>1, <1>2, <1>3, <1>4, <2>1, NothingSaid DEF Adds
  <2> QED
    BY <2>2, NothingSaid
<1>5. CASE ~known
  <2>1. Hold(result.writes)
    BY <1>1, <1>5 DEF NextMessage, Release
  <2>2. Partition(TRUE, result.writes, pos, pos) /\ Plain(result.writes)
    BY <1>1, <1>3, MessageSaid
  <2> QED
    BY <1>1, <1>2, <1>3, <1>5, <2>1, <2>2 DEF Adds, Spoken
<1> QED
  BY <1>4, <1>5

LEMMA AddsFailed ==
  ASSUME TypeOK, DroppedInv, MessageFailed \/ GuessRefused \/ GuessLost
  PROVE  \E calls \in Seq(WriteType) : Adds(calls)
<1>1. /\ pc = "judge" /\ pos' = pos /\ pos \in Nat /\ at \in Nat /\ result.stop \in Nat
      /\ run.hi = pos /\ at <= pos /\ result.stop <= pos
  BY ExtentAssumption DEF MessageFailed, GuessRefused, GuessLost, Judging, TypeOK, ResultType, DroppedInv
<1>2. ASSUME NEW lo \in Nat, NEW hi \in Nat, lo <= hi, NEW r \in Reasons, NEW c \in Comments,
             Hold(Note(lo, hi, r, c)), Told = lo, Told' = hi
      PROVE  \E calls \in Seq(WriteType) : Adds(calls)
  <2>1. Note(lo, hi, r, c) \in Seq(WriteType)
    BY CallsType
  <2>2. /\ Partition(FALSE, Note(lo, hi, r, c), lo, hi) /\ Plain(Note(lo, hi, r, c))
        /\ \A x \in Nat : Partition(TRUE, Note(lo, hi, r, c), x, x)
    BY <1>2, NoteSaid
  <2> QED
    BY <1>1, <1>2, <2>1, <2>2 DEF Adds
<1>3. CASE MessageFailed
  <2>1. /\ result.verdict \in Reasons /\ "none" \in Comments
        /\ Hold(Note(result.stop, pos, result.verdict, "none"))
    BY <1>1, <1>3 DEF MessageFailed, Whole, Framed, TypeOK, ResultType, Verdicts, Reasons, Comments, RunTail
  <2>2. Told = result.stop /\ Told' = pos
    BY <1>1, <1>3 DEF MessageFailed, Told
  <2> QED
    BY <1>1, <1>2, <2>1, <2>2
<1>4. CASE GuessRefused
  <2>1. Hold(Note(at, result.stop, "undecodable", "lost")) /\ at <= result.stop
    BY <1>1, <1>4 DEF GuessRefused, Retries
  <2>2. Told = at /\ Told' = result.stop
    BY <1>1, <1>4 DEF GuessRefused, Told
  <2> QED
    BY <1>1, <1>2, <2>1, <2>2, NoteWords
<1>5. CASE GuessLost
  <2>1. Hold(Note(at, pos, "undecodable", "lost"))
    BY <1>1, <1>5 DEF GuessLost
  <2>2. Told = at /\ Told' = pos
    BY <1>1, <1>5 DEF GuessLost, Told
  <2> QED
    BY <1>1, <1>2, <2>1, <2>2, NoteWords
<1> QED
  BY <1>3, <1>4, <1>5

(* Every step of the driver but the last flush puts calls in line that go  *)
(* on where the account ends, and leaves the file alone.                   *)
LEMMA DriverAdds ==
  ASSUME TypeOK, DroppedInv, JudgeInv, JudgeInv', Driver, ~LastFlush
  PROVE  UNCHANGED file /\ \E calls \in Seq(WriteType) : Adds(calls)
<1>1. UNCHANGED file
  BY DEF Driver, ReadGap, SkipRun, ReadRun, EndOfStream, RunEnds, Step, MessageWhole,
         MessageTransformFailed, NextMessage, MessageFailed, GuessRefused, GuessLost
<1>2. CASE EndOfStream \/ RunEnds
  <2>1. UNCHANGED <<held, pos>>
    BY <1>2 DEF EndOfStream, RunEnds
  <2>2. Told' = Told
    BY <1>2 DEF EndOfStream, RunEnds, Told, TypeOK, DroppedInv
  <2> QED
    BY <1>1, <2>1, <2>2, AddsNothing, NothingSaid
<1> QED
  BY <1>1, <1>2, AddsReading, AddsRun, AddsStep, AddsWhole, AddsFailed DEF Driver

-----------------------------------------------------------------------------
(***************************************************************************)
(* Nothing is in the file before the decision, and when the stream is done *)
(* nothing is left in line.                                                *)
(***************************************************************************)
SettledInv ==
  /\ ~Decided => out = <<>> /\ pending = NoRegion
  /\ confirmed => declined = "no"
  /\ pc \in {"flush", "done"} => Decided
  /\ pc = "done" => held = <<>> /\ pending = NoRegion

LEMMA SettledInit == Init => SettledInv
BY DEF Init, WriterInit, SettledInv, Decided

(* How a step changes the decision, which it never takes back.             *)
LEMMA DecisionGoesOn ==
  ASSUME TypeOK, DecodesUndeclined, SettledInv, Driver
  PROVE  /\ Decided => Decided'
         /\ confirmed' => declined' = "no"
         /\ ~confirmed' => ~confirmed
<1>1. CASE UNCHANGED decision
  BY <1>1 DEF decision, Decided, SettledInv
<1>2. CASE EndOfStream
  BY <1>2, FinishDecides DEF EndOfStream, Decided, SettledInv
<1>3. CASE pc = "judge" /\ (Confirm \/ TransformFailed \/ \E r : Failed(r) \/ Lose(r))
  <2>1. declined = "no"
    BY <1>3 DEF DecodesUndeclined
  <2> QED
    BY <1>3, <2>1 DEF Confirm, TransformFailed, Failed, Lose, Decline, Decided, decision
<1>4. CASE ReadGap \/ SkipRun \/ ReadRun \/ LastFlush \/ RunEnds \/ Step
  <2>1. UNCHANGED decision
    BY <1>4 DEF ReadGap, SkipRun, ReadRun, LastFlush, RunEnds, Step
  <2> QED
    BY <1>1, <2>1
<1>5. CASE MessageWhole \/ MessageTransformFailed \/ MessageFailed \/ GuessRefused \/ GuessLost
  <2>1. pc = "judge" /\ (Confirm \/ TransformFailed \/ \E r : Failed(r) \/ Lose(r))
    BY <1>5 DEF MessageWhole, MessageTransformFailed, MessageFailed, GuessRefused,
                GuessLost, Judging
  <2> QED
    BY <1>3, <2>1
<1> QED
  BY <1>2, <1>4, <1>5 DEF Driver

(* Nothing is written before the decision and nothing is left after the    *)
(* end.                                                                    *)
LEMMA SettledNext ==
  TypeOK /\ DecodesUndeclined /\ SettledInv /\ [Next]_vars => SettledInv'
<1> SUFFICES ASSUME TypeOK, DecodesUndeclined, SettledInv, [Next]_vars PROVE SettledInv'
  OBVIOUS
<1>1. CASE Driver /\ ~LastFlush
  <2>1. UNCHANGED file
    BY <1>1 DEF Driver, ReadGap, SkipRun, ReadRun, EndOfStream, RunEnds, Step, MessageWhole,
           MessageTransformFailed, NextMessage, MessageFailed, GuessRefused, GuessLost
  <2>2. pc' # "done" /\ (pc' = "flush" => EndOfStream)
    BY <1>1 DEF Driver, ReadGap, SkipRun, ReadRun, EndOfStream, RunEnds, Step, MessageWhole,
           MessageTransformFailed, NextMessage, MessageFailed, GuessRefused, GuessLost
  <2>3. EndOfStream => Decided'
    BY FinishDecides DEF EndOfStream
  <2> QED
    BY <1>1, <2>1, <2>2, <2>3, DecisionGoesOn DEF SettledInv, file
<1>2. CASE LastFlush
  <2>1. Decided /\ Decided' /\ held' = <<>> /\ pending' = NoRegion
    BY <1>2 DEF LastFlush, SettledInv, Idle, Flush, decision, Decided
  <2> QED
    BY <1>2, <2>1 DEF LastFlush, SettledInv, decision
<1>3. CASE PutInFile
  <2>1. Decided /\ Decided' /\ UNCHANGED decision /\ held # <<>> /\ pc' = pc
    BY <1>3 DEF PutInFile, PutNext, decision, Decided, driver
  <2> QED
    BY <2>1 DEF SettledInv, decision
<1>4. CASE UNCHANGED vars
  BY <1>4 DEF vars, writerVars, driver, SettledInv, Decided
<1> QED
  BY <1>1, <1>2, <1>3, <1>4 DEF Next

-----------------------------------------------------------------------------
(***************************************************************************)
(* Coverage.  BelievedInv accounts for what the stream says if it is       *)
(* believed, up to Told, and RefusedInv for what it says if it is not, up  *)
(* to what was read.  Which of the two the file will say is not settled    *)
(* until the decision, so both are kept until then.                        *)
(***************************************************************************)
BelievedInv == declined = "no" => Account(FALSE, Told, out, pending, held)
RefusedInv  == ~confirmed => Account(TRUE, pos, out, pending, held)

(* What every later proof about the stream starts from.                    *)
Settled == TypeOK /\ DecodesUndeclined /\ DroppedInv /\ JudgeInv /\ SettledInv

LEMMA SettledAlways == Spec => []Settled
<1>1. Init => Settled
  BY InitType, DecodesUndeclinedInit, DroppedInit, JudgeInit, SettledInit DEF Settled
<1>2. Settled /\ [Next]_vars => Settled'
  BY NextType, DecodesUndeclinedNext, DroppedNext, JudgeNext, SettledNext DEF Settled
<1> QED
  BY <1>1, <1>2, PTL DEF Spec

LEMMA BelievedInit == Init => BelievedInv
BY AccountNothing DEF Init, WriterInit, BelievedInv, Told

(* Both accounts of the stream, as believed and as declined, stay in       *)
(* balance.                                                                *)
LEMMA BelievedNext ==
  ASSUME Orderly, Settled, Settled', BelievedInv, [Next]_vars
  PROVE  BelievedInv'
<1> USE DEF Settled
<1> SUFFICES ASSUME declined' = "no"
             PROVE  Account(FALSE, Told', out', pending', held')
  BY DEF BelievedInv
<1>0. WriterTypeOK /\ Told \in Nat /\ Told' \in Nat
  <2>1. Told' \in Nat
    BY ExtentAssumption DEF Told, TypeOK, DroppedInv, ResultType
  <2> QED
    BY <2>1, ToldRange DEF TypeOK
<1>1. CASE Driver /\ ~LastFlush
  <2>1. PICK calls \in Seq(WriteType) : Adds(calls)
    BY <1>1, DriverAdds
  <2>2. UNCHANGED <<out, pending>>
    BY <1>1, DriverAdds DEF file
  <2>3. declined = "no"
    BY <1>1, DecisionGoesOn, DecisionStep DEF Decided, Next
  <2>4. Account(FALSE, Told, out, pending, held)
    BY <2>3 DEF BelievedInv
  <2>5. Hold(calls) /\ Partition(FALSE, calls, Told, Told')
    BY <2>1 DEF Adds
  <2>6. Told <= Told'
    <3>1. CASE ReadGap \/ SkipRun \/ ReadRun
      BY <3>1, ExtentAssumption, FirstAtRange DEF ReadGap, SkipRun, ReadRun, Told, TypeOK
    <3>2. CASE EndOfStream \/ RunEnds
      BY <3>2 DEF EndOfStream, RunEnds, Told, TypeOK, DroppedInv
    <3>3. CASE Step
      <4>1. pc = "decode" /\ pc' = "judge" /\ at' = at
        BY <3>3 DEF Step
      <4>2. at' <= result'.next /\ result'.next <= result'.stop
        BY <4>1 DEF DroppedInv
      <4> QED
        BY <4>1, <4>2, <1>0 DEF Told, TypeOK, ResultType
    <3>4. CASE MessageWhole \/ MessageTransformFailed
      BY <3>4 DEF MessageWhole, MessageTransformFailed, NextMessage, Judging, Told, JudgeInv,
                  DroppedInv, TypeOK, ResultType
    <3>5. CASE MessageFailed
      BY <3>5 DEF MessageFailed, Judging, Told, DroppedInv, TypeOK, ResultType
    <3>6. CASE GuessRefused
      BY <3>6 DEF GuessRefused, Judging, Told, Retries, TypeOK, ResultType
    <3>7. CASE GuessLost
      BY <3>7 DEF GuessLost, Judging, Told, DroppedInv, TypeOK
    <3> QED
      BY <1>1, <3>1, <3>2, <3>3, <3>4, <3>5, <3>6, <3>7 DEF Driver
  <2> QED
    BY <1>0, <2>2, <2>4, <2>5, <2>6, AccountHold
<1>2. CASE LastFlush
  <2>1. Told' = Told /\ declined = "no" /\ held' = held
    BY <1>2 DEF LastFlush, Told, decision
  <2>2. Account(FALSE, Told, Flushed, NoRegion, held)
    BY <1>0, <2>1, AccountFlush DEF BelievedInv
  <2> QED
    BY <1>2, <2>1, <2>2 DEF LastFlush, Flush
<1>3. CASE PutInFile
  <2>1. PutNext /\ Told' = Told /\ declined = "no"
    BY <1>3 DEF PutInFile, PutNext, driver, decision, Told
  <2>2. Account(declined # "no", Told, out, pending, held)
    BY <2>1 DEF BelievedInv
  <2>3. Account(declined # "no", Told, out', pending', held')
    BY <1>0, <2>1, <2>2, AccountPut
  <2> QED
    BY <2>1, <2>3
<1>4. CASE UNCHANGED vars
  BY <1>4 DEF vars, writerVars, driver, BelievedInv, Told
<1> QED
  BY <1>1, <1>2, <1>3, <1>4 DEF Next

LEMMA RefusedInit == Init => RefusedInv
BY AccountNothing DEF Init, WriterInit, RefusedInv

LEMMA RefusedNext ==
  ASSUME Settled, Settled', RefusedInv, [Next]_vars
  PROVE  RefusedInv'
<1> USE DEF Settled
<1> SUFFICES ASSUME ~confirmed'
             PROVE  Account(TRUE, pos', out', pending', held')
  BY DEF RefusedInv
<1>0. WriterTypeOK /\ pos \in Nat /\ pos' \in Nat
  BY DEF TypeOK
<1>1. CASE Driver /\ ~LastFlush
  <2>1. PICK calls \in Seq(WriteType) : Adds(calls)
    BY <1>1, DriverAdds
  <2>2. UNCHANGED <<out, pending>>
    BY <1>1, DriverAdds DEF file
  <2>3. ~confirmed
    BY <1>1, DecisionGoesOn
  <2>4. Account(TRUE, pos, out, pending, held)
    BY <2>3 DEF RefusedInv
  <2>5. Hold(calls) /\ Partition(TRUE, calls, pos, pos')
    BY <2>1, <2>3 DEF Adds
  <2>6. pos <= pos'
    <3>1. pos' = pos \/ pos' > pos
      BY <1>0, <1>1 DEF Driver, ReadGap, SkipRun, ReadRun, EndOfStream, RunEnds, Step, MessageWhole,
           MessageTransformFailed, NextMessage, MessageFailed, GuessRefused, GuessLost
    <3> QED
      BY <1>0, <3>1
  <2> QED
    BY <1>0, <2>2, <2>4, <2>5, <2>6, AccountHold
<1>2. CASE LastFlush
  <2>1. pos' = pos /\ ~confirmed /\ held' = held
    BY <1>2 DEF LastFlush, decision
  <2>2. Account(TRUE, pos, Flushed, NoRegion, held)
    BY <1>0, <2>1, AccountFlush DEF RefusedInv
  <2> QED
    BY <1>2, <2>1, <2>2 DEF LastFlush, Flush
<1>3. CASE PutInFile
  <2>1. PutNext /\ pos' = pos /\ declined # "no" /\ ~confirmed
    BY <1>3 DEF PutInFile, PutNext, driver, decision, Decided
  <2>2. Account(declined # "no", pos, out, pending, held)
    BY <2>1 DEF RefusedInv
  <2>3. Account(declined # "no", pos, out', pending', held')
    BY <1>0, <2>1, <2>2, AccountPut
  <2> QED
    BY <2>1, <2>3
<1>4. CASE UNCHANGED vars
  BY <1>4 DEF vars, writerVars, driver, RefusedInv
<1> QED
  BY <1>1, <1>2, <1>3, <1>4 DEF Next

(* Whichever way the stream is decided, one of the accounts is of the file.*)
LEMMA AccountOfFile ==
  ASSUME Settled, BelievedInv, RefusedInv
  PROVE  \E d \in BOOLEAN : Account(d, IF d THEN pos ELSE Told, out, pending, held)
<1>1. CASE declined = "no"
  <2>1. Account(FALSE, Told, out, pending, held)
    BY <1>1 DEF BelievedInv
  <2> QED
    BY <2>1
<1>2. CASE declined # "no"
  <2>1. Account(TRUE, pos, out, pending, held)
    BY <1>2 DEF RefusedInv, Settled, SettledInv
  <2> QED
    BY <2>1
<1> QED
  BY <1>1, <1>2

(* The accounts say that each byte is cited or named, once.                *)
LEMMA AccountsMean ==
  ASSUME Settled, BelievedInv, RefusedInv
  PROVE  /\ CitedOrNamed
         /\ \A b \in Nat : Citing(b) # {} \/ Naming(b) # {} => b < pos
<1>0. /\ TypeOK /\ DroppedInv /\ SettledInv /\ WriterTypeOK /\ pos \in Nat
      /\ Told \in Nat /\ Told <= pos
  BY ToldRange DEF Settled, TypeOK
<1>1. PICK d \in BOOLEAN :
        Account(d, IF d THEN pos ELSE Told, out, pending, held)
  BY AccountOfFile
<1> DEFINE n == IF d THEN pos ELSE Told
<1>2. n \in Nat /\ n <= pos /\ Account(d, n, out, pending, held)
  BY <1>0, <1>1
<1>3. pc = "done" => n = pos /\ held = <<>> /\ pending = NoRegion
  BY <1>0 DEF SettledInv, Told
<1> HIDE DEF n
<1>4. ASSUME NEW b \in Nat
      PROVE  /\ Citing(b) = {} \/ Naming(b) = {}
             /\ Cardinality(Naming(b)) <= 1
             /\ Citing(b) # {} \/ Naming(b) # {} => b < pos
  <2>1. /\ Citing(b) = {} \/ Naming(b) = {}
        /\ Cardinality(Naming(b)) <= 1
        /\ Citing(b) # {} \/ Naming(b) # {} => b < n
    BY <1>0, <1>2, AccountOnce
  <2> QED
    BY <1>0, <1>2, <2>1
<1>5. ASSUME pc = "done", NEW b \in 0 .. pos - 1
      PROVE  Citing(b) # {} \/ Naming(b) # {}
  <2>1. Account(d, n, out, NoRegion, <<>>) /\ b \in 0 .. n - 1
    BY <1>2, <1>3, <1>5
  <2> QED
    BY <1>0, <1>2, <2>1, AccountAll
<1>6. pc = "done" => Cited(pos) \cup Named(pos) = 0 .. pos - 1
  BY <1>5 DEF Cited, Named
<1>7. \A b \in 0 .. pos - 1 : b \in Nat
  OBVIOUS
<1> QED
  BY <1>4, <1>6, <1>7 DEF CitedOrNamed

LEMMA AccountedAlways ==
  ASSUME Orderly
  PROVE  Spec => [](Settled /\ BelievedInv /\ RefusedInv)
<1>1. Settled /\ Settled' /\ BelievedInv /\ RefusedInv /\ [Next]_vars => BelievedInv' /\ RefusedInv'
  BY BelievedNext, RefusedNext
<1>2. Init => BelievedInv /\ RefusedInv
  BY BelievedInit, RefusedInit
<1> QED
  BY <1>1, <1>2, SettledAlways, PTL DEF Spec

(* The coverage guarantee: whatever the messages do, at no time is a byte  *)
(* of the stream both cited by a record and named by a region, or named    *)
(* twice, and when the stream is written every byte of it is one or the    *)
(* other.                                                                  *)
THEOREM EveryByteOnce ==
  ASSUME Orderly
  PROVE  Spec => []CitedOrNamed
<1>1. Settled /\ BelievedInv /\ RefusedInv => CitedOrNamed
  BY AccountsMean
<1> QED
  BY <1>1, AccountedAlways, PTL

-----------------------------------------------------------------------------
(***************************************************************************)
(* What lies between the blocks.                                           *)
(***************************************************************************)
BlocksInv ==
  /\ Lies(out, seam)
  /\ Plain(held)
  /\ pc # "done" => Ends(out, pending)

LEMMA BlocksInit == Init => BlocksInv
BY LiesNothing DEF Init, WriterInit, BlocksInv

(* Blocks agree with what lies between them, so far as they are written.   *)
LEMMA BlocksNext ==
  ASSUME Settled, Settled', BlocksInv, [Next]_vars
  PROVE  BlocksInv'
<1> USE DEF Settled
<1>0. WriterTypeOK
  BY DEF TypeOK
<1>1. CASE Driver /\ ~LastFlush
  <2>1. PICK calls \in Seq(WriteType) : Adds(calls)
    BY <1>1, DriverAdds
  <2>2. UNCHANGED file
    BY <1>1, DriverAdds
  <2>3. Plain(held')
    BY <1>0, <2>1, PlainHold DEF Adds, BlocksInv
  <2>4. pc # "done"
    BY <1>1 DEF Driver, ReadGap, SkipRun, ReadRun, EndOfStream, RunEnds, Step, MessageWhole,
         MessageTransformFailed, MessageFailed, GuessRefused, GuessLost, Judging
  <2> QED
    BY <2>2, <2>3, <2>4 DEF BlocksInv, file
<1>2. CASE LastFlush
  <2>1. Flush /\ pc = "flush" /\ pc' = "done" /\ held' = held
    BY <1>2 DEF LastFlush
  <2> QED
    BY <1>0, <2>1, LiesFlush DEF BlocksInv
<1>3. CASE PutInFile
  <2>1. PutNext /\ pc' = pc /\ pc # "done"
    BY <1>3 DEF PutInFile, PutNext, driver, SettledInv
  <2> QED
    BY <1>0, <2>1, LiesPut DEF BlocksInv
<1>4. CASE UNCHANGED vars
  BY <1>4 DEF vars, writerVars, driver, BlocksInv
<1> QED
  BY <1>1, <1>2, <1>3, <1>4 DEF Next

(* A record carries a seam exactly when a hole lies between it and the     *)
(* record before, the last such hole's, and regions that agree are never   *)
(* left as two, across any order of messages, runs and gaps.               *)
THEOREM BlocksAgree == Spec => []WhatLiesBetween
<1>1. Settled /\ Settled' /\ BlocksInv /\ [Next]_vars => BlocksInv'
  BY BlocksNext
<1>2. Settled /\ BlocksInv => WhatLiesBetween
  BY LiesMeans DEF Settled, TypeOK, BlocksInv
<1> QED
  BY <1>1, <1>2, BlocksInit, SettledAlways, PTL DEF Spec

-----------------------------------------------------------------------------
(***************************************************************************)
(* A declined stream.  Each offset tried is in a run that is held, or was  *)
(* written as a region that could not be decoded.                          *)
(***************************************************************************)
TriedInv ==
  ~confirmed =>
    /\ \A t \in tried : HeldRun(t[1]) \/ WrittenOff(t[1])
    /\ pc \in {"decode", "judge"} => \A x \in at .. run.hi - 1 : HeldRun(x)

LEMMA RefusalInit == Init => RefusalInv
BY DEF Init, WriterInit, RefusalInv

LEMMA RefusalNext ==
  ASSUME Settled, Settled', RefusalInv, [Next]_vars
  PROVE  RefusalInv'
<1> USE DEF Settled
<1>0. WriterTypeOK
  BY DEF TypeOK
<1>1. CASE Driver /\ ~LastFlush
  <2>1. UNCHANGED file
    BY <1>1, DriverAdds
  <2>2. CASE Decided
    <3>1. declined' = declined
      BY <1>1, <2>2, DecisionStep DEF Next
    <3> QED
      BY <2>1, <3>1 DEF RefusalInv, Refusal, file
  <2>3. CASE ~Decided
    BY <2>1, <2>3 DEF SettledInv, RefusalInv, file
  <2> QED
    BY <2>2, <2>3
<1>2. CASE LastFlush
  BY <1>0, <1>2, RefusalFlush DEF LastFlush, decision
<1>3. CASE PutInFile
  BY <1>0, <1>3, RefusalPut DEF PutInFile
<1>4. CASE UNCHANGED vars
  BY <1>4 DEF vars, writerVars, RefusalInv, Refusal
<1> QED
  BY <1>1, <1>2, <1>3, <1>4 DEF Next

LEMMA TriedInit == Init => TriedInv
BY DEF Init, TriedInv

(* What was tried is held for the decision, or written off by it.          *)
LEMMA TriedNext ==
  ASSUME Settled, Settled', RefusedInv, TriedInv, [Next]_vars
  PROVE  TriedInv'
<1> USE DEF Settled
<1> SUFFICES ASSUME ~confirmed'
             PROVE  /\ \A t \in tried' : HeldRun(t[1])' \/ WrittenOff(t[1])'
                    /\ pc' \in {"decode", "judge"} => \A x \in at' .. run'.hi - 1 : HeldRun(x)'
  BY DEF TriedInv
<1>0. WriterTypeOK /\ pos \in Nat /\ at \in Nat /\ at' \in Nat /\ run.hi \in Nat
  BY DEF TypeOK
<1>1. CASE Driver /\ ~LastFlush
  <2>1. PICK calls \in Seq(WriteType) : Adds(calls)
    BY <1>1, DriverAdds
  <2>2. UNCHANGED file
    BY <1>1, DriverAdds
  <2>3. ~confirmed
    BY <1>1, DecisionGoesOn
  <2>4. \A x : HeldRun(x) => HeldRun(x)'
    BY <1>0, <2>1, HeldRunHold DEF Adds
  <2>5. \A x : WrittenOff(x) => WrittenOff(x)'
    BY <2>2 DEF WrittenOff, WrittenAs, file
  <2>6. \A t \in tried : HeldRun(t[1])' \/ WrittenOff(t[1])'
    BY <2>3, <2>4, <2>5 DEF TriedInv
  <2>7. CASE Step
    <3>1. PICK v : tried' = tried \cup {<<at, v>>}
      BY <2>7 DEF Step
    <3>2. pc = "decode" /\ at < run.hi /\ at' = at /\ run' = run
      BY <2>7 DEF Step
    <3>3. \A x \in at .. run.hi - 1 : HeldRun(x)'
      BY <2>3, <2>4, <3>2 DEF TriedInv
    <3>4. PICK a : a = at
      OBVIOUS
    <3>5. HeldRun(a)'
      BY <1>0, <3>2, <3>3, <3>4
    <3>6. \A t \in tried' : t \in tried \/ t = <<a, v>>
      BY <3>1, <3>4
    <3>7. \A t \in tried' : HeldRun(t[1])' \/ WrittenOff(t[1])'
      BY <2>6, <3>5, <3>6
    <3> QED
      BY <3>2, <3>3, <3>7
  <2>8. CASE ReadRun
    <3>1. PICK hi \in pos + 1 .. Extent :
            /\ run' = [lo |-> pos, hi |-> hi]
            /\ at' = FirstAt(pos, hi)
            /\ Hold(Begin(pos, hi) \o CutTail(pos, hi))
      BY <2>8 DEF ReadRun
    <3>2. hi \in Nat /\ pos <= at' /\ run'.hi = hi
      BY <1>0, <3>1, FirstAtRange, ExtentAssumption
    <3>3. CutTail(pos, hi) \in Seq(WriteType)
      <4>1. Note(pos, FirstAt(pos, hi), "skipped", "cut") \in Seq(WriteType)
        BY <1>0, <3>1, CallsType, NoteWords
      <4> QED
        BY <4>1 DEF CutTail
    <3>4. \A x \in pos .. hi - 1 : HeldRun(x)'
      BY <1>0, <2>3, <3>1, <3>2, <3>3, BeginHeld
    <3>5. \A x \in at' .. run'.hi - 1 : HeldRun(x)'
      BY <1>0, <3>2, <3>4
    <3>6. tried' = tried
      BY <2>8 DEF ReadRun, history
    <3> QED
      BY <2>6, <3>5, <3>6
  <2>9. CASE ReadGap \/ SkipRun \/ EndOfStream \/ RunEnds \/ MessageFailed \/ GuessLost
    <3>1. tried' = tried /\ pc' \notin {"decode", "judge"}
      BY <2>9 DEF ReadGap, SkipRun, EndOfStream, RunEnds, MessageFailed, GuessLost, history
    <3> QED
      BY <2>6, <3>1
  <2>10. CASE MessageWhole \/ MessageTransformFailed \/ GuessRefused
    <3>1. pc = "judge" /\ tried' = tried /\ run' = run /\ at' >= at
      BY <1>0, <2>10 DEF MessageWhole, MessageTransformFailed, NextMessage, GuessRefused, Judging,
                   Retries, DroppedInv, TypeOK, ResultType
    <3>2. \A x \in at .. run.hi - 1 : HeldRun(x)'
      BY <2>3, <2>4, <3>1 DEF TriedInv
    <3>3. \A x \in at' .. run'.hi - 1 : HeldRun(x)'
      BY <1>0, <3>1, <3>2
    <3> QED
      BY <2>6, <3>1, <3>3
  <2> QED
    BY <1>1, <2>7, <2>8, <2>9, <2>10 DEF Driver
<1>2. CASE LastFlush
  <2>1. /\ ~confirmed /\ held' = held /\ tried' = tried /\ out' = Flushed /\ pending' = NoRegion
        /\ pc' = "done"
    BY <1>2 DEF LastFlush, Flush, decision, history
  <2>2. ASSUME NEW t \in tried
        PROVE  HeldRun(t[1])' \/ WrittenOff(t[1])'
    <3>1. t[1] \in Nat
      BY DEF TypeOK
    <3>2. HeldRun(t[1]) => HeldRun(t[1])'
      BY <2>1 DEF HeldRun
    <3>3. WrittenOff(t[1]) => WrittenOff(t[1])'
      BY <1>0, <2>1, <3>1, WrittenAsFlushed DEF WrittenOff, WrittenAs
    <3> QED
      BY <2>1, <3>2, <3>3 DEF TriedInv
  <2> QED
    BY <2>1, <2>2
<1>3. CASE PutInFile
  <2>1. /\ PutNext /\ ~confirmed /\ declined # "no" /\ tried' = tried /\ pc' = pc
    BY <1>3 DEF PutInFile, PutNext, decision, Decided, driver, history
  <2>2. pc \notin {"decode", "judge"}
    BY <2>1 DEF DecodesUndeclined
  <2>3. Account(TRUE, pos, out, pending, held)
    BY <2>1 DEF RefusedInv
  <2>4. ASSUME NEW t \in tried
        PROVE  HeldRun(t[1])' \/ WrittenOff(t[1])'
    <3>1. t[1] \in Nat
      BY DEF TypeOK
    <3>2. HeldRun(t[1]) \/ WrittenOff(t[1])
      BY <2>1 DEF TriedInv
    <3> QED
      BY <1>0, <2>1, <2>3, <3>1, <3>2, WrittenOffPut
  <2> QED
    BY <2>1, <2>2, <2>4
<1>4. CASE UNCHANGED vars
  BY <1>4 DEF vars, writerVars, driver, history, TriedInv, HeldRun, WrittenOff, WrittenAs
<1> QED
  BY <1>1, <1>2, <1>3, <1>4 DEF Next

-----------------------------------------------------------------------------
(***************************************************************************)
(* The evidence.  What has been tried, against what the stage makes of it  *)
(* while it is undecided: a message that decoded whole is one it is about  *)
(* to believe, and one that failed in any other way has left its mark.     *)
(***************************************************************************)
Judges(v) == pc = "judge" /\ result.verdict = v

MarkInv ==
  /\ pc = "judge" => <<at, result.verdict>> \in tried
  /\ resume # NoOffset => tried # {}
  /\ lost => "undecodable" \in VerdictsSeen
  /\ transformFailure => "transform" \in VerdictsSeen

(* Nothing seen is forgotten before the decision.                          *)
UndecidedInv ==
  ~Decided =>
    /\ "ok" \in VerdictsSeen => Judges("ok")
    /\ "transform" \in VerdictsSeen => transformFailure \/ Judges("transform")
    /\ "undecodable" \in VerdictsSeen => lost \/ Judges("undecodable")
    /\ Tried /\ tried = {} => pc = "decode" /\ at < run.hi

(* What a decision that was taken says of the verdicts seen.               *)
EvidenceInv ==
  /\ confirmed => "ok" \in VerdictsSeen \/ (tried = {} /\ pc \in {"flush", "done"})
  /\ declined # "no" => "ok" \notin VerdictsSeen /\ tried # {}
  /\ declined = "ran out" => VerdictsSeen = {"truncated"}
  /\ declined = "no boundary" => "undecodable" \in VerdictsSeen /\ "transform" \notin VerdictsSeen
  /\ declined = "transforms" => "transform" \in VerdictsSeen

LEMMA MarkInit == Init => MarkInv
BY DEF Init, WriterInit, MarkInv

LEMMA UndecidedInit == Init => UndecidedInv
BY DEF Init, WriterInit, UndecidedInv, VerdictsSeen, Tried

LEMMA EvidenceInit == Init => EvidenceInv
BY DEF Init, WriterInit, EvidenceInv

(* What is seen is what the verdicts tried are.                            *)
LEMMA SeenStep ==
  ASSUME Step
  PROVE  /\ VerdictsSeen' = VerdictsSeen \cup {result'.verdict}
         /\ tried' = tried \cup {<<at, result'.verdict>>} /\ tried' # {}
<1>1. PICK o \in Outcomes(at, run.hi) :
        result' = Judged(o) /\ tried' = tried \cup {<<at, Judged(o).verdict>>}
  BY DEF Step
<1>2. tried' = tried \cup {<<at, result'.verdict>>}
  BY <1>1
<1>3. \A v : v \in VerdictsSeen' <=> v \in VerdictsSeen \/ v = result'.verdict
  <2> DEFINE x == at
             y == result'.verdict
             s == tried
             u == tried'
  <2>1. u = s \cup {<<x, y>>} /\ <<x, y>>[2] = y
    BY <1>2
  <2> HIDE DEF x, y, s, u
  <2>2. \A v : (\E t \in u : v = t[2]) <=> (\E t \in s : v = t[2]) \/ v = y
    BY <2>1
  <2> QED
    BY <2>2 DEF VerdictsSeen, x, y, s, u
<1> QED
  BY <1>2, <1>3

LEMMA SeenElse ==
  ASSUME [Next]_vars, ~Step
  PROVE  tried' = tried /\ VerdictsSeen' = VerdictsSeen
<1>1. tried' = tried
  BY DEF Next, Driver, PutInFile, vars, history, ReadGap, SkipRun, ReadRun, EndOfStream, LastFlush,
         RunEnds, MessageWhole, MessageTransformFailed, NextMessage, MessageFailed, GuessRefused, GuessLost
<1> QED
  BY <1>1 DEF VerdictsSeen

LEMMA SeenOfTried == \A x, v : <<x, v>> \in tried => v \in VerdictsSeen /\ tried # {}
BY DEF VerdictsSeen

(* The flags the decision reads were raised by verdicts of their kind.     *)
LEMMA MarkNext ==
  ASSUME Settled, Settled', MarkInv, [Next]_vars
  PROVE  MarkInv'
<1> USE DEF Settled
<1>1. CASE Step
  <2>1. UNCHANGED <<decision, resume, at>>
    BY <1>1 DEF Step
  <2> QED
    BY <1>1, <2>1, SeenStep DEF MarkInv, decision
<1>2. CASE ~Step
  <2>1. tried' = tried /\ VerdictsSeen' = VerdictsSeen
    BY <1>2, SeenElse
  <2>2. CASE ReadGap \/ SkipRun \/ ReadRun \/ LastFlush \/ RunEnds \/ PutInFile \/ EndOfStream
    <3>1. /\ lost' = lost /\ transformFailure' = transformFailure
          /\ resume' = resume \/ resume' = NoOffset
      BY <2>2 DEF ReadGap, SkipRun, ReadRun, LastFlush, RunEnds, PutInFile, EndOfStream, PutNext,
                  Finish, Confirm, Decline, decision, driver
    <3>2. pc' = "judge" => pc = "judge" /\ at' = at /\ result' = result
      BY <2>2 DEF ReadGap, SkipRun, ReadRun, LastFlush, RunEnds, PutInFile, EndOfStream, driver
    <3> QED
      BY <2>1, <3>1, <3>2 DEF MarkInv
  <2>3. CASE MessageWhole \/ MessageTransformFailed \/ MessageFailed \/ GuessRefused \/ GuessLost
    <3>1. pc = "judge" /\ pc' # "judge" /\ result.verdict \in VerdictsSeen /\ tried # {}
      BY <2>3, SeenOfTried DEF MessageWhole, MessageTransformFailed, NextMessage, MessageFailed,
                  GuessRefused, GuessLost, Judging, MarkInv
    <3>2. lost' => "undecodable" \in VerdictsSeen
      <4>1. CASE MessageWhole \/ MessageTransformFailed \/ MessageFailed
        BY <4>1 DEF MessageWhole, MessageTransformFailed, MessageFailed, Confirm, TransformFailed,
                    Failed, Decline, decision, MarkInv
      <4>2. CASE GuessRefused
        BY <3>1, <4>2 DEF GuessRefused, Retries, JudgeInv
      <4>3. CASE GuessLost
        BY <3>1, <4>3 DEF GuessLost, Whole, Framed, Lose, MarkInv, TypeOK, ResultType, Verdicts
      <4> QED
        BY <2>3, <4>1, <4>2, <4>3
    <3>3. transformFailure' => "transform" \in VerdictsSeen
      BY <2>3, <3>1 DEF MessageWhole, MessageTransformFailed, MessageFailed, GuessRefused, GuessLost,
                  Confirm, TransformFailed, Failed, Lose, Decline, decision, MarkInv
    <3> QED
      BY <2>1, <3>1, <3>2, <3>3 DEF MarkInv
  <2>4. CASE UNCHANGED vars
    BY <2>1, <2>4 DEF vars, writerVars, driver, MarkInv
  <2> QED
    BY <1>2, <2>2, <2>3, <2>4 DEF Next, Driver
<1> QED
  BY <1>1, <1>2

LEMMA TriedKept ==
  ASSUME Settled, Settled', Driver, ~ReadRun
  PROVE  Tried' => Tried
<1> USE DEF Settled
<1>0. WriterTypeOK /\ pos \in Nat /\ at \in Nat /\ run.hi \in Nat /\ result.stop \in Nat
  BY DEF TypeOK, ResultType
<1>1. CASE ReadGap \/ SkipRun
  <2>1. PICK hi \in pos + 1 .. Extent : Hold(GapCall(pos, hi)) \/ Hold(SkipCall(pos, hi))
    BY <1>1 DEF ReadGap, SkipRun
  <2>2. hi \in Nat
    BY <1>0
  <2>3. GapCall(pos, hi) \in Seq(WriteType) /\ SkipCall(pos, hi) \in Seq(WriteType)
    BY <1>0, <2>2, CallsType
  <2> QED
    BY <1>0, <2>1, <2>3, TriedHold, NotRuns
<1>2. CASE EndOfStream \/ LastFlush \/ RunEnds
  <2>1. held' = held
    BY <1>2 DEF EndOfStream, LastFlush, RunEnds
  <2> QED
    BY <2>1 DEF Tried
<1>3. CASE Step
  <2>1. PICK o \in Outcomes(at, run.hi) : result' = Judged(o) /\ Hold(Direct(o))
    BY <1>3 DEF Step
  <2>2. at \in 0 .. Extent /\ run.hi \in 0 .. Extent /\ at <= run.hi
    BY <1>3 DEF Step, TypeOK
  <2>3. o.writes \in Seq(WriteType) /\ MessageCalls(o.writes)
    BY <2>2, OutcomesType, OutcomesCalls DEF ResultType
  <2>4. /\ Direct(o) \in Seq(WriteType)
        /\ \A i \in DOMAIN Direct(o) : Direct(o)[i].op # "run"
    BY <2>3 DEF Direct, MessageCalls
  <2> QED
    BY <1>0, <2>1, <2>4, TriedHold
<1>4. CASE MessageWhole \/ MessageTransformFailed
  <2> DEFINE calls == IF known THEN <<>> ELSE result.writes
  <2>1. Hold(calls) /\ pc = "judge"
    BY <1>4 DEF MessageWhole, MessageTransformFailed, NextMessage, Release, Judging
  <2>2. result.writes \in Seq(WriteType) /\ MessageCalls(result.writes)
    BY <2>1 DEF TypeOK, ResultType, JudgeInv
  <2>3. calls \in Seq(WriteType) /\ \A i \in DOMAIN calls : calls[i].op # "run"
    BY <2>2 DEF MessageCalls
  <2> HIDE DEF calls
  <2> QED
    BY <1>0, <2>1, <2>3, TriedHold
<1>5. CASE MessageFailed \/ GuessRefused \/ GuessLost
  <2>1. PICK lo \in Nat, hi \in Nat, r \in Reasons, c \in Comments : Hold(Note(lo, hi, r, c))
    <3>1. "none" \in Comments
      BY DEF Comments
    <3>2. CASE MessageFailed
      BY <1>0, <3>1, <3>2 DEF MessageFailed, RunTail, Whole, Framed, TypeOK, ResultType, Verdicts, Reasons
    <3>3. CASE GuessRefused
      BY <1>0, <3>3, NoteWords DEF GuessRefused
    <3>4. CASE GuessLost
      BY <1>0, <3>4, NoteWords DEF GuessLost
    <3> QED
      BY <1>5, <3>2, <3>3, <3>4
  <2>2. Note(lo, hi, r, c) \in Seq(WriteType)
    BY CallsType
  <2> QED
    BY <1>0, <2>1, <2>2, TriedHold, NotRuns
<1> QED
  BY <1>1, <1>2, <1>3, <1>4, <1>5 DEF Driver

(* While nothing is decided, every verdict seen has raised its flag.       *)
LEMMA UndecidedNext ==
  ASSUME Settled, Settled', MarkInv, UndecidedInv, [Next]_vars
  PROVE  UndecidedInv'
<1> USE DEF Settled
<1> SUFFICES ASSUME ~Decided' PROVE UndecidedInv'
  BY DEF UndecidedInv
<1>0. pos \in Nat /\ at \in Nat /\ run.hi \in Nat
  BY DEF TypeOK
<1>1. CASE PutInFile \/ LastFlush \/ EndOfStream
  <2>1. Decided'
    BY <1>1, FinishDecides DEF PutInFile, PutNext, LastFlush, EndOfStream, SettledInv, decision, Decided
  <2> QED
    BY <2>1
<1>2. CASE UNCHANGED vars
  BY <1>2 DEF vars, writerVars, driver, history, UndecidedInv, Judges, VerdictsSeen, Tried, Decided
<1>3. CASE Driver
  <2>1. /\ ~Decided
        /\ "ok" \in VerdictsSeen => Judges("ok")
        /\ "transform" \in VerdictsSeen => transformFailure \/ Judges("transform")
        /\ "undecodable" \in VerdictsSeen => lost \/ Judges("undecodable")
        /\ Tried /\ tried = {} => pc = "decode" /\ at < run.hi
    BY <1>3, DecisionGoesOn DEF UndecidedInv
  <2>2. CASE Step
    <3>1. /\ VerdictsSeen' = VerdictsSeen \cup {result'.verdict} /\ tried' # {}
          /\ pc = "decode" /\ pc' = "judge" /\ lost' = lost /\ transformFailure' = transformFailure
      BY <2>2, SeenStep DEF Step, decision
    <3> QED
      BY <2>1, <3>1 DEF UndecidedInv, Judges
  <2>3. CASE ~Step
    <3>1. tried' = tried /\ VerdictsSeen' = VerdictsSeen
      BY <1>3, <2>3, SeenElse DEF Next
    <3>2. CASE ReadGap \/ SkipRun \/ RunEnds
      <4>1. /\ pc # "judge" /\ lost' = lost /\ transformFailure' = transformFailure
            /\ pc = "decode" => at >= run.hi
        BY <3>2 DEF ReadGap, SkipRun, RunEnds, decision
      <4>2. Tried' => Tried
        BY <1>3, <3>2, TriedKept DEF ReadGap, SkipRun, RunEnds, ReadRun
      <4> QED
        BY <1>0, <2>1, <3>1, <4>1, <4>2 DEF UndecidedInv, Judges
    <3>3. CASE ReadRun
      <4>1. PICK hi \in pos + 1 .. Extent :
              /\ run' = [lo |-> pos, hi |-> hi]
              /\ at' = FirstAt(pos, hi)
              /\ pc' = IF resume # NoOffset /\ resume > hi THEN "chunk" ELSE "decode"
        BY <3>3 DEF ReadRun
      <4>2. pc = "chunk" /\ lost' = lost /\ transformFailure' = transformFailure
        BY <3>3 DEF ReadRun, decision
      <4>3. tried = {} => resume = NoOffset
        BY DEF MarkInv
      <4>4. tried = {} => at' = pos /\ pc' = "decode"
        BY <4>1, <4>3, FirstAtRange DEF Resumes
      <4>5. pos < run'.hi
        BY <1>0, <4>1
      <4> QED
        BY <2>1, <3>1, <4>2, <4>4, <4>5 DEF UndecidedInv, Judges
    <3>4. CASE MessageWhole \/ MessageTransformFailed \/ MessageFailed \/ GuessRefused \/ GuessLost
      <4>1. pc = "judge" /\ tried # {}
        BY <3>4, SeenOfTried DEF MessageWhole, MessageTransformFailed, MessageFailed, GuessRefused,
                                 GuessLost, Judging, MarkInv
      <4>2. /\ result.verdict # "ok"
            /\ result.verdict = "transform" => transformFailure'
            /\ result.verdict = "undecodable" => lost'
            /\ lost => lost'
            /\ transformFailure => transformFailure'
        <5>1. ~MessageWhole
          BY DEF MessageWhole, Confirm, Decided
        <5>2. CASE MessageTransformFailed
          BY <2>1, <5>2 DEF MessageTransformFailed, TransformFailed, Decided
        <5>3. CASE MessageFailed
          BY <2>1, <5>3 DEF MessageFailed, Whole, Framed, Failed, Decline, Decided, decision
        <5>4. CASE GuessRefused
          BY <4>1, <5>4 DEF GuessRefused, Whole, Framed, Lose
        <5>5. CASE GuessLost
          BY <5>5 DEF GuessLost, Whole, Framed, Lose
        <5> QED
          BY <3>4, <5>1, <5>2, <5>3, <5>4, <5>5
      <4> QED
        BY <2>1, <3>1, <4>1, <4>2 DEF UndecidedInv, Judges
    <3> QED
      BY <1>1, <1>3, <2>3, <3>2, <3>3, <3>4 DEF Driver
  <2> QED
    BY <2>2, <2>3
<1> QED
  BY <1>1, <1>2, <1>3 DEF Next

(* A decision, once taken, fits all the verdicts of the stream.            *)
LEMMA EvidenceNext ==
  ASSUME Settled, Settled', TriedInv, MarkInv, UndecidedInv, EvidenceInv, [Next]_vars
  PROVE  EvidenceInv'
<1> USE DEF Settled
<1>1. CASE UNCHANGED vars
  BY <1>1 DEF vars, writerVars, driver, history, EvidenceInv, VerdictsSeen
<1>2. CASE ~Decided'
  BY <1>2 DEF Decided, EvidenceInv
<1>3. CASE Next /\ Decided
  <2>1. confirmed' = confirmed /\ declined' = declined
    BY <1>3, DecisionStep
  <2>2. CASE declined # "no"
    <3>1. ~Step
      BY <2>2 DEF Step, DecodesUndeclined
    <3>2. tried' = tried /\ VerdictsSeen' = VerdictsSeen /\ ~confirmed
      BY <1>3, <2>2, <3>1, SeenElse DEF SettledInv
    <3> QED
      BY <2>1, <3>2 DEF EvidenceInv
  <2>3. CASE declined = "no"
    <3>1. confirmed
      BY <1>3, <2>3 DEF Decided
    <3>2. CASE "ok" \in VerdictsSeen
      <4>1. "ok" \in VerdictsSeen'
        BY <1>3, <3>2, SeenStep, SeenElse
      <4> QED
        BY <2>1, <2>3, <4>1 DEF EvidenceInv
    <3>3. CASE tried = {} /\ pc \in {"flush", "done"}
      <4>1. LastFlush \/ PutInFile
        BY <1>3, <3>3 DEF Next, Driver, ReadGap, SkipRun, ReadRun, EndOfStream, RunEnds, Step,
           MessageWhole, MessageTransformFailed, MessageFailed, GuessRefused, GuessLost, Judging
      <4>2. tried' = tried /\ pc' \in {"flush", "done"}
        BY <3>3, <4>1 DEF LastFlush, PutInFile, history, driver
      <4> QED
        BY <2>1, <2>3, <3>3, <4>2 DEF EvidenceInv
    <3> QED
      BY <3>1, <3>2, <3>3 DEF EvidenceInv
  <2> QED
    BY <2>2, <2>3
<1>4. CASE Next /\ ~Decided /\ Decided'
  <2>1. /\ "ok" \in VerdictsSeen => Judges("ok")
        /\ "transform" \in VerdictsSeen => transformFailure \/ Judges("transform")
        /\ "undecodable" \in VerdictsSeen => lost \/ Judges("undecodable")
        /\ Tried /\ tried = {} => pc = "decode" /\ at < run.hi
        /\ ~confirmed /\ declined = "no"
    BY <1>4 DEF UndecidedInv, Decided
  <2>2. CASE MessageWhole
    <3>1. /\ confirmed' /\ declined' = "no" /\ tried' = tried /\ VerdictsSeen' = VerdictsSeen
          /\ "ok" \in VerdictsSeen
      <4>1. tried' = tried /\ VerdictsSeen' = VerdictsSeen
        BY <1>4, <2>2, SeenElse DEF MessageWhole, Judging, Step
      <4>2. confirmed' /\ declined' = "no"
        BY <2>1, <2>2 DEF MessageWhole, Confirm
      <4>3. <<at, "ok">> \in tried
        BY <2>2 DEF MessageWhole, Judging, MarkInv
      <4> QED
        BY <4>1, <4>2, <4>3, SeenOfTried
    <3> QED
      BY <3>1 DEF EvidenceInv
  <2>3. CASE MessageFailed
    <3>1. tried' = tried /\ VerdictsSeen' = VerdictsSeen
      BY <1>4, <2>3, SeenElse DEF MessageFailed, Judging, Step
    <3>2. /\ Failed(result.verdict) /\ pc = "judge" /\ result.verdict \notin Framed
      BY <2>3 DEF MessageFailed, Judging, Whole
    <3>3. declined' = "failed" /\ ~confirmed'
      BY <1>4, <2>1, <3>2 DEF Failed, Decline, decision, Decided
    <3>4. "ok" \notin VerdictsSeen /\ tried # {}
      BY <2>1, <3>2 DEF Judges, Framed, MarkInv
    <3> QED
      BY <3>1, <3>3, <3>4 DEF EvidenceInv
  <2>4. CASE EndOfStream
    <3>1. /\ tried' = tried /\ VerdictsSeen' = VerdictsSeen /\ pc = "chunk" /\ pc' = "flush"
      BY <1>4, <2>4, SeenElse DEF EndOfStream, Step
    <3>2. CASE ~Tried /\ Confirm
      <4>1. tried = {}
        <5>1. \A t \in tried : HeldRun(t[1]) \/ WrittenOff(t[1])
          BY <2>1 DEF TriedInv
        <5>2. ASSUME NEW t \in tried PROVE FALSE
          <6>1. out = <<>> /\ pending = NoRegion
            BY <1>4 DEF SettledInv
          <6>2. ~WrittenOff(t[1])
            BY <6>1 DEF WrittenOff, WrittenAs, NamedSo, NoRegion, Undecoded, Write
          <6>3. ~HeldRun(t[1])
            BY <3>2 DEF HeldRun, Tried
          <6> QED
            BY <5>1, <6>2, <6>3
        <5> QED
          BY <5>2
      <4> QED
        BY <2>1, <3>1, <3>2, <4>1 DEF Confirm, EvidenceInv
    <3>3. ASSUME Tried, NEW c, Decline(c),
                 c = IF transformFailure THEN "transforms" ELSE IF lost THEN "no boundary" ELSE "ran out"
          PROVE  EvidenceInv'
      <4>1. tried # {} /\ "ok" \notin VerdictsSeen
        BY <2>1, <3>1, <3>3 DEF Judges
      <4>2. /\ "transform" \in VerdictsSeen <=> transformFailure
            /\ "undecodable" \in VerdictsSeen <=> lost
        BY <2>1, <3>1 DEF Judges, MarkInv
      <4>3. declined' = c /\ ~confirmed'
        BY <2>1, <3>3 DEF Decline
      <4>4. VerdictsSeen \subseteq {"ok", "transform", "undecodable", "truncated"} /\ VerdictsSeen # {}
        BY <4>1 DEF VerdictsSeen, TypeOK, Verdicts
      <4>5. ~transformFailure /\ ~lost => VerdictsSeen = {"truncated"}
        BY <4>1, <4>2, <4>4
      <4> QED
        BY <3>1, <3>3, <4>1, <4>2, <4>3, <4>5 DEF EvidenceInv
    <3> QED
      BY <1>4, <2>4, <3>2, <3>3 DEF EndOfStream, Finish
  <2>5. CASE ReadGap \/ SkipRun \/ ReadRun \/ LastFlush \/ RunEnds \/ Step \/ MessageTransformFailed
             \/ GuessRefused \/ GuessLost \/ PutInFile
    <3>1. confirmed' = confirmed /\ declined' = declined
      BY <2>5 DEF ReadGap, SkipRun, ReadRun, LastFlush, RunEnds, Step, MessageTransformFailed,
           TransformFailed, GuessRefused, GuessLost, Lose, PutInFile, PutNext, decision
    <3> QED
      BY <1>4, <3>1 DEF Decided
  <2> QED
    BY <1>4, <2>2, <2>3, <2>4, <2>5 DEF Next, Driver
<1> QED
  BY <1>1, <1>2, <1>3, <1>4

(* The whole of what the decision rests on, and where it is carried out.   *)
DecisionInv ==
  RefusedInv /\ RefusalInv /\ TriedInv /\ MarkInv /\ UndecidedInv /\ EvidenceInv

LEMMA DecisionAlways == Spec => [](Settled /\ DecisionInv)
<1>1. Init => DecisionInv
  BY RefusedInit, RefusalInit, TriedInit, MarkInit, UndecidedInit, EvidenceInit DEF DecisionInv
<1>2. Settled /\ Settled' /\ DecisionInv /\ [Next]_vars => DecisionInv'
  BY RefusedNext, RefusalNext, TriedNext, MarkNext, UndecidedNext, EvidenceNext DEF DecisionInv
<1> QED
  BY <1>1, <1>2, SettledAlways, PTL DEF Spec

(* A declined stream has no record; what was tried is undecodable in it.   *)
LEMMA DeclinedMeans ==
  ASSUME Settled, DecisionInv
  PROVE  DeclinedKeepsNothing
<1> SUFFICES ASSUME pc = "done", declined # "no"
             PROVE  /\ \A i \in DOMAIN out :
                         /\ ~IsRecord(i)
                         /\ out[i].comment = IF out[i].reason = "gap" THEN "none" ELSE declined
                    /\ \A t \in tried : \E i \in Naming(t[1]) : out[i].reason = "undecodable"
  BY DEF DeclinedKeepsNothing
<1>1. \A i \in DOMAIN out : Refusal(out[i])
  BY DEF DecisionInv, RefusalInv
<1>2. \A i \in DOMAIN out :
        /\ ~IsRecord(i)
        /\ out[i].comment = IF out[i].reason = "gap" THEN "none" ELSE declined
  BY <1>1 DEF Refusal, IsRecord
<1>3. held = <<>> /\ pending = NoRegion /\ ~confirmed
  BY DEF Settled, SettledInv
<1>4. ASSUME NEW t \in tried
      PROVE  \E i \in Naming(t[1]) : out[i].reason = "undecodable"
  <2>1. HeldRun(t[1]) \/ WrittenOff(t[1])
    BY <1>3 DEF DecisionInv, TriedInv
  <2>2. ~HeldRun(t[1])
    BY <1>3 DEF HeldRun
  <2>3. pending.reason # "undecodable"
    BY <1>3 DEF NoRegion, Undecoded, Write
  <2>4. PICK i \in DOMAIN out : Covers(out[i], t[1]) /\ out[i].reason = "undecodable"
    BY <2>1, <2>2, <2>3 DEF WrittenOff, WrittenAs, NamedSo
  <2> QED
    BY <1>2, <2>4 DEF Naming
<1> QED
  BY <1>2, <1>4

(* A stream is believed only on a whole message, or when there was nothing *)
(* to try, and declined only when something was tried and nothing decoded, *)
(* under the comment that tells what was seen; and a declined stream keeps *)
(* no record: what was tried is undecodable in the file, with that comment.*)
THEOREM DecisionIsSound == Spec => []DecisionIsCarriedOut
<1>1. Settled /\ DecisionInv => DecisionFollowsEvidence
  BY DEF DecisionInv, EvidenceInv, DecisionFollowsEvidence
<1>2. Settled /\ DecisionInv => DeclinedKeepsNothing
  BY DeclinedMeans
<1> QED
  BY <1>1, <1>2, DecisionAlways, PTL DEF DecisionIsCarriedOut

-----------------------------------------------------------------------------
(***************************************************************************)
(* The refinement.  Reading a chunk is the promise's Read, a decision its  *)
(* Decide, and an entry put in the file, or the last flush, its Account;   *)
(* every other step changes nothing that the promise speaks of.            *)
(***************************************************************************)
Kept == Settled /\ BelievedInv /\ DecisionInv

LEMMA PromiseInit == Init => Promise!Init
<1>1. 0 .. 0 - 1 = {}
  OBVIOUS
<1> QED
  BY <1>1 DEF Init, WriterInit, Promise!Init, Stance, Cited, Named

(* What is not written maps to no change of the promise.                   *)
LEMMA SameFile ==
  ASSUME Kept, pos' \in Nat, pos <= pos', UNCHANGED out
  PROVE  Cited(pos)' = Cited(pos) /\ Named(pos)' = Named(pos)
<1>1. \A b \in Nat : Citing(b)' = Citing(b) /\ Naming(b)' = Naming(b)
  BY DEF Citing, Naming, IsRecord
<1>2. \A b \in Nat : Citing(b) # {} \/ Naming(b) # {} => b < pos
  BY AccountsMean DEF Kept, DecisionInv
<1>3. pos \in Nat
  BY DEF Kept, Settled, TypeOK
<1>4. \A b : b \in 0 .. pos - 1 <=> b \in Nat /\ b < pos
  BY <1>3
<1>5. \A b : b \in 0 .. pos' - 1 <=> b \in Nat /\ b < pos'
  OBVIOUS
<1>6. \A b \in Nat : b < pos => b < pos'
  BY <1>3
<1> QED
  BY <1>1, <1>2, <1>4, <1>5, <1>6 DEF Cited, Named

(* Reading a chunk is reading.                                             *)
LEMMA PromiseReads ==
  ASSUME Kept, ReadGap \/ SkipRun \/ ReadRun
  PROVE  Promise!Read
<1>1. /\ pos \in Nat /\ pos' \in Nat /\ pos' > pos /\ UNCHANGED decision /\ out' = out
      /\ pc # "done" /\ pc' # "done"
  BY DEF ReadGap, SkipRun, ReadRun, file, Kept, Settled, TypeOK
<1>2. Cited(pos)' = Cited(pos) /\ Named(pos)' = Named(pos)
  BY <1>1, SameFile
<1>3. Stance' = Stance
  BY <1>1 DEF Stance, decision
<1> QED
  BY <1>1, <1>2, <1>3 DEF Promise!Read

(* A verdict or the end of the stream decides, or changes nothing the      *)
(* promise speaks of.                                                      *)
LEMMA PromiseDecides ==
  ASSUME Kept, Driver, ~LastFlush, ~(ReadGap \/ SkipRun \/ ReadRun)
  PROVE  Promise!Decide \/ UNCHANGED Promise!vars
<1>1. out' = out /\ pos' = pos /\ pos \in Nat /\ pc # "done" /\ pc' # "done"
  BY DEF Driver, EndOfStream, RunEnds, Step, MessageWhole, MessageTransformFailed, NextMessage,
         MessageFailed, GuessRefused, GuessLost, Judging, file, Kept, Settled, TypeOK
<1>2. Cited(pos)' = Cited(pos) /\ Named(pos)' = Named(pos)
  BY <1>1, SameFile
<1>3. CASE Stance' = Stance
  BY <1>1, <1>2, <1>3 DEF Promise!vars
<1>4. CASE Stance' # Stance
  <2>1. ~Decided
    <3>1. Decided => UNCHANGED <<confirmed, declined>>
      BY DecisionStep DEF Kept, Settled, Next
    <3> QED
      BY <1>4, <3>1 DEF Stance
  <2>2. Stance = "undecided" /\ Stance' \in {"confirmed", "declined"}
    BY <1>4, <2>1 DEF Stance, Decided
  <2> QED
    BY <1>1, <1>2, <2>2 DEF Promise!Decide
<1> QED
  BY <1>3, <1>4

(* Writing blocks accounts for bytes and takes none back.                  *)
LEMMA PromiseAccounts ==
  ASSUME Kept, Kept', LastFlush \/ PutInFile
  PROVE  Promise!Account
<1>0. WriterTypeOK /\ pos \in Nat /\ pos' = pos /\ UNCHANGED decision /\ Decided
  BY DEF Kept, Settled, SettledInv, TypeOK, LastFlush, PutInFile, PutNext, driver
<1>1. pc # "done"
  BY DEF Kept, Settled, SettledInv, LastFlush, PutInFile, PutNext
<1>2. \A i \in DOMAIN out : i \in DOMAIN out' /\ out'[i] = out[i]
  BY <1>0, FileGrows DEF LastFlush, PutInFile
<1>3. Cited(pos) \subseteq Cited(pos)' /\ Named(pos) \subseteq Named(pos)'
  <2>1. \A b : Citing(b) \subseteq Citing(b)' /\ Naming(b) \subseteq Naming(b)'
    BY <1>2 DEF Citing, Naming, IsRecord
  <2> QED
    BY <1>0, <2>1 DEF Cited, Named
<1>4. CitedOrNamed'
  BY AccountsMean, PTL DEF Kept, DecisionInv
<1>5. Cited(pos)' \cap Named(pos)' = {}
  BY <1>4 DEF CitedOrNamed, Cited, Named
<1>6. Cited(pos)' \cup Named(pos)' \subseteq 0 .. pos - 1
  BY <1>0 DEF Cited, Named
<1>7. (pc = "done")' => Cited(pos)' \cup Named(pos)' = 0 .. pos - 1
  BY <1>0, <1>4 DEF CitedOrNamed
<1>8. Stance # "undecided" /\ Stance' = Stance
  BY <1>0 DEF Stance, decision, Decided
<1>9. Stance = "declined" => Cited(pos)' = {}
  <2> SUFFICES ASSUME declined # "no" PROVE Cited(pos)' = {}
    BY DEF Stance
  <2>1. declined' # "no"
    BY <1>0 DEF decision
  <2>2. \A i \in DOMAIN out' : ~IsRecord(i)'
    BY <2>1 DEF Kept, DecisionInv, RefusalInv, Refusal, IsRecord
  <2> QED
    BY <2>2 DEF Cited, Citing
<1> QED
  BY <1>0, <1>1, <1>3, <1>5, <1>6, <1>7, <1>8, <1>9 DEF Promise!Account

LEMMA PromiseNext == Kept /\ Kept' /\ [Next]_vars => [Promise!Next]_(Promise!vars)
<1> SUFFICES ASSUME Kept, Kept', [Next]_vars PROVE Promise!Next \/ UNCHANGED Promise!vars
  OBVIOUS
<1>1. CASE UNCHANGED vars
  BY <1>1 DEF vars, writerVars, driver, Promise!vars, Stance, Cited, Named, Citing, Naming, IsRecord
<1>2. CASE ReadGap \/ SkipRun \/ ReadRun
  BY <1>2, PromiseReads DEF Promise!Next
<1>3. CASE LastFlush \/ PutInFile
  BY <1>3, PromiseAccounts DEF Promise!Next
<1>4. CASE Driver /\ ~LastFlush /\ ~(ReadGap \/ SkipRun \/ ReadRun)
  BY <1>4, PromiseDecides DEF Promise!Next
<1> QED
  BY <1>1, <1>2, <1>3, <1>4 DEF Next

(* The byte-stream stage keeps what every stage promises: mapped to what   *)
(* the file says of each byte, each of its steps is one that StagePromise  *)
(* allows, or none at all.                                                 *)
THEOREM PromiseKept ==
  ASSUME Orderly
  PROVE  Spec => KeepsItsPromise
<1>1. Settled /\ BelievedInv /\ RefusedInv /\ DecisionInv => Kept
  BY DEF Kept
<1>2. Spec => []Kept
  BY <1>1, AccountedAlways, DecisionAlways, PTL
<1> QED
  BY <1>2, PromiseInit, PromiseNext, PTL DEF Spec, KeepsItsPromise
=============================================================================
