------------------------ MODULE StageDatagramsProofs ------------------------
(***************************************************************************)
(* Proofs about the datagram driver, for every extent, granularity and     *)
(* number of datagrams: that each datagram stands alone and every byte of  *)
(* it is said once, that the blocks agree with what lies between them, and *)
(* that the stage keeps the promise every stage makes.                     *)
(***************************************************************************)
EXTENDS StageDatagrams, StageWriterProofs

(* No specification names the source of a failed transform late.  That a   *)
(* message may end inside a byte does not matter here: the next message is *)
(* the next datagram's.                                                    *)
Orderly == "unordered_regions" \notin Quirks

-----------------------------------------------------------------------------
(***************************************************************************)
(* Types.                                                                  *)
(***************************************************************************)
LEMMA DatagramType ==
  ASSUME NEW lo \in 0 .. Extent, NEW hi \in 0 .. Extent
  PROVE  Datagram(lo, hi) \in Datagrams /\ Datagram(lo, hi).lo = lo /\ Datagram(lo, hi).hi = hi
BY DEF Datagram, Datagrams

LEMMA InitType == Init => TypeOK
<1> SUFFICES ASSUME Init PROVE TypeOK
  OBVIOUS
<1>1. WriterTypeOK
  BY WriterInitType DEF Init
<1>2. 0 \in 0 .. Extent /\ 0 \in 0 .. MaxDatagrams
  BY ExtentAssumption, MaxDatagramsAssumption
<1>3. result \in ResultType
  BY <1>2 DEF Init, NoResult, Outcome, ResultType, Verdicts, NoOffset
<1> QED
  BY <1>1, <1>2, <1>3, DatagramType DEF Init, TypeOK, Datagrams

(* Where the driver is.  The datagram being judged is the last one read,   *)
(* and its stream is not declined; nothing is in the file before the       *)
(* decision, and when the stream is done nothing is left in line.          *)
StageInv ==
  /\ datagram.lo <= datagram.hi
  /\ pc \in {"next", "judge"} => declined \in {"no", "failed"}
  /\ pc = "judge" => /\ declined = "no" /\ datagram.hi = pos
                     /\ datagram.lo <= result.stop /\ result.stop <= pos
  /\ ~Decided => out = <<>> /\ pending = NoRegion
  /\ confirmed => declined = "no"
  /\ pc \in {"flush", "done"} => Decided
  /\ pc = "done" => held = <<>> /\ pending = NoRegion

LEMMA StageInit == Init => StageInv
BY DEF Init, WriterInit, StageInv, Decided, Datagram

-----------------------------------------------------------------------------
(***************************************************************************)
(* What a step of the driver puts in line.  Told is how far the account    *)
(* goes if the stream is believed: up to where the message stopped while   *)
(* it is judged, for what it left is not named yet.  If the stream is      *)
(* declined the account goes as far as was read.                           *)
(***************************************************************************)
Told == IF pc = "judge" THEN result.stop ELSE pos

Drives == ReadCopy \/ SkipDatagram \/ ReadDatagram \/ Judge \/ EndOfStream

Adds(calls) ==
  /\ calls \in Seq(WriteType)
  /\ Hold(calls)
  /\ Plain(calls)
  /\ ~confirmed => Partition(TRUE, calls, pos, pos')
  /\ Orderly => Partition(FALSE, calls, Told, Told')

(* What each action reads and adds to the queue.                           *)
LEMMA ReadsOn ==
  ASSUME TypeOK, StageInv, ReadCopy \/ SkipDatagram \/ ReadDatagram
  PROVE  /\ pc = "next" /\ Idle /\ Told = pos
         /\ pos \in 0 .. Extent /\ pos' \in 0 .. Extent /\ pos \in Nat /\ pos' \in Nat /\ pos <= pos'
         /\ count' \in 0 .. MaxDatagrams
<1>1. pos \in Nat /\ Extent \in Nat /\ datagram.lo \in Nat /\ datagram.hi \in Nat
  BY ExtentAssumption DEF TypeOK, Datagrams
<1>2. PICK hi : Reading(hi) /\ hi \in pos .. Extent
  <2>1. CASE ReadCopy
    BY <1>1, <2>1 DEF ReadCopy, StageInv
  <2> QED
    BY <2>1 DEF SkipDatagram, ReadDatagram
<1>3. pos' = hi /\ count' = count + 1 /\ count < MaxDatagrams /\ pc = "next" /\ Idle
  BY <1>2 DEF Reading
<1> QED
  BY <1>1, <1>2, <1>3, MaxDatagramsAssumption DEF TypeOK, Told

LEMMA AddsReading ==
  ASSUME TypeOK, StageInv, ReadCopy \/ SkipDatagram
  PROVE  \E calls \in Seq(WriteType) : Adds(calls)
<1>1. /\ pos \in Nat /\ pos' \in Nat /\ pos <= pos' /\ Told = pos /\ pc' = "next" /\ Told' = pos'
  BY ReadsOn DEF ReadCopy, SkipDatagram, Told
<1>2. PICK hi \in Nat :
        pos' = hi /\ pos <= hi /\ (Hold(CopyCall(pos, hi)) \/ Hold(SkipCall(pos, hi)))
  BY <1>1 DEF ReadCopy, SkipDatagram, Reading
<1>3. \A d \in BOOLEAN :
        /\ Partition(d, CopyCall(pos, hi), pos, hi) /\ Plain(CopyCall(pos, hi))
        /\ Partition(d, SkipCall(pos, hi), pos, hi) /\ Plain(SkipCall(pos, hi))
  BY <1>1, <1>2, CallsSaid
<1>4. CopyCall(pos, hi) \in Seq(WriteType) /\ SkipCall(pos, hi) \in Seq(WriteType)
  BY <1>1, <1>2, CallsType
<1> QED
  BY <1>1, <1>2, <1>3, <1>4 DEF Adds

(* A step read a datagram: what it returned, and what is put in line.      *)
LEMMA DatagramRead ==
  ASSUME TypeOK, StageInv, ReadDatagram
  PROVE  /\ pc' = "judge" /\ UNCHANGED <<decision, file, copies>> /\ declined = "no"
         /\ datagram' = Datagram(pos, pos')
         /\ originals' = originals \cup {Datagram(pos, pos')}
         /\ tried' = tried \cup {<<Datagram(pos, pos'), result'.verdict>>}
         /\ result' \in ResultType /\ result'.writes \in Seq(WriteType)
         /\ pos <= result'.stop /\ result'.stop <= pos' /\ result'.stop \in Nat
         /\ MessageCalls(result'.writes)
         /\ Orderly => Spoken(result'.writes, pos, result'.stop)
         /\ Hold(Begin(pos, pos') \o result'.writes)
<1>1. PICK hi \in pos .. Extent :
        /\ Reading(hi) /\ datagram' = Datagram(pos, hi)
        /\ originals' = originals \cup {Datagram(pos, hi)}
        /\ \E o \in Outcomes(pos, hi) :
             /\ result' = o /\ Hold(Begin(pos, hi) \o o.writes)
             /\ tried' = tried \cup {<<Datagram(pos, hi), o.verdict>>}
  BY DEF ReadDatagram
<1>2. PICK o \in Outcomes(pos, hi) :
        /\ result' = o /\ Hold(Begin(pos, hi) \o o.writes)
        /\ tried' = tried \cup {<<Datagram(pos, hi), o.verdict>>}
  BY <1>1
<1>3. pos' = hi
  BY <1>1 DEF Reading
<1>4. pos \in 0 .. Extent /\ hi \in 0 .. Extent /\ pos <= hi
  BY <1>3, ReadsOn
<1>5. /\ o \in ResultType /\ pos <= o.next /\ o.next <= o.stop /\ o.stop <= hi
  BY <1>4, OutcomesType
<1>6. MessageCalls(o.writes)
  BY <1>4, OutcomesCalls
<1>7. Orderly => Spoken(o.writes, pos, o.stop)
  BY <1>4, OutcomesSpoken DEF Orderly
<1>8. o.next \in Nat /\ o.stop \in Nat /\ o.writes \in Seq(WriteType) /\ pos \in Nat
  BY <1>4, <1>5, ExtentAssumption DEF ResultType
<1>9. pos <= o.stop
  BY <1>5, <1>8
<1>10. pc' = "judge" /\ UNCHANGED <<decision, file, copies>> /\ declined = "no"
  BY DEF ReadDatagram
<1> QED
  BY <1>1, <1>2, <1>3, <1>5, <1>6, <1>7, <1>8, <1>9, <1>10

LEMMA AddsDatagram ==
  ASSUME TypeOK, StageInv, ReadDatagram
  PROVE  \E calls \in Seq(WriteType) : Adds(calls)
<1>1. PICK lo, hi, w, m :
        lo = pos /\ hi = pos' /\ w = result'.writes /\ m = result'.stop
  OBVIOUS
<1>2. /\ lo \in Nat /\ hi \in Nat /\ m \in Nat /\ lo <= m /\ m <= hi /\ w \in Seq(WriteType)
      /\ MessageCalls(w) /\ (Orderly => Spoken(w, lo, m)) /\ Hold(Begin(lo, hi) \o w)
      /\ Told = lo /\ Told' = m /\ lo <= hi
  BY <1>1, DatagramRead, ReadsOn DEF Told
<1>3. Begin(lo, hi) \in Seq(WriteType)
  BY <1>2, CallsType
<1>4. /\ \A x \in Nat : Partition(FALSE, Begin(lo, hi), x, x)
      /\ ~confirmed => Partition(TRUE, Begin(lo, hi), lo, hi)
      /\ Plain(Begin(lo, hi))
  BY <1>2, BeginSaid
<1>5. Partition(TRUE, w, hi, hi) /\ Plain(w)
  BY <1>2, MessageSaid
<1> DEFINE begin == Begin(lo, hi)
<1> HIDE DEF begin
<1>6. ~confirmed => Partition(TRUE, begin \o w, lo, hi)
  <2>1. hi <= hi /\ TRUE \in BOOLEAN
    BY <1>2
  <2> QED
    BY <1>2, <1>3, <1>4, <1>5, <2>1, PartitionBoth DEF begin
<1>7. Orderly => Partition(FALSE, begin \o w, lo, m)
  <2>1. lo <= lo /\ FALSE \in BOOLEAN
    BY <1>2
  <2> QED
    BY <1>2, <1>3, <1>4, <2>1, PartitionBoth DEF begin, Spoken
<1>8. Plain(begin \o w) /\ begin \o w \in Seq(WriteType)
  <2>1. begin \in Seq(WriteType)
    BY <1>3 DEF begin
  <2>2. \A i \in DOMAIN (begin \o w) :
          \/ i \in DOMAIN begin /\ (begin \o w)[i] = begin[i]
          \/ i - Len(begin) \in DOMAIN w /\ (begin \o w)[i] = w[i - Len(begin)]
    BY <1>2, <2>1
  <2> QED
    BY <1>2, <1>4, <1>5, <2>1, <2>2 DEF Plain, begin
<1>9. Hold(begin \o w)
  BY <1>2 DEF begin
<1> QED
  BY <1>1, <1>2, <1>6, <1>7, <1>8, <1>9 DEF Adds

LEMMA AddsJudge ==
  ASSUME TypeOK, StageInv, Judge
  PROVE  LeftOver \in Seq(WriteType) /\ Adds(LeftOver) /\ pos' = pos /\ Told' = pos
<1> DEFINE r == IF result.verdict \in Framed THEN "skipped" ELSE result.verdict
<1>1. r \in Reasons /\ "none" \in Comments
  BY DEF TypeOK, ResultType, Verdicts, Framed, Reasons, Comments
<1>2. /\ result.stop \in Nat /\ pos \in Nat /\ result.stop <= pos /\ datagram.hi = pos
      /\ Told = result.stop /\ Told' = pos /\ pos' = pos
  BY ExtentAssumption DEF Judge, StageInv, TypeOK, ResultType, Told
<1>3. LeftOver = Note(result.stop, pos, r, "none") /\ Hold(LeftOver)
  BY <1>2 DEF LeftOver, Judge
<1> HIDE DEF r
<1>4. LeftOver \in Seq(WriteType)
  BY <1>1, <1>2, <1>3, CallsType
<1>5. /\ Partition(FALSE, LeftOver, result.stop, pos) /\ Plain(LeftOver)
      /\ Partition(TRUE, LeftOver, pos, pos)
  BY <1>1, <1>2, <1>3, NoteSaid
<1> QED
  BY <1>2, <1>3, <1>4, <1>5 DEF Adds

(* Every step of the driver adds calls to the end of the queue.            *)
LEMMA DriverAdds ==
  ASSUME TypeOK, StageInv, Drives
  PROVE  /\ UNCHANGED file
         /\ \E calls \in Seq(WriteType) : Adds(calls)
         /\ pos \in Nat /\ pos' \in Nat /\ pos <= pos'
<1>1. UNCHANGED file
  BY DEF Drives, ReadCopy, SkipDatagram, ReadDatagram, Judge, EndOfStream
<1>2. CASE ReadCopy \/ SkipDatagram \/ ReadDatagram
  BY <1>1, <1>2, AddsReading, AddsDatagram, ReadsOn
<1>3. CASE Judge
  <2>1. \E calls \in Seq(WriteType) : Adds(calls)
    BY <1>3, AddsJudge
  <2>2. pos \in Nat /\ pos' = pos
    BY <1>3, AddsJudge DEF TypeOK
  <2>3. pos' \in Nat /\ pos <= pos'
    BY <2>2
  <2> QED
    BY <1>1, <2>1, <2>2, <2>3
<1>4. CASE EndOfStream
  <2>1. /\ UNCHANGED <<held, pos>> /\ Told' = Told /\ Told = pos /\ pos \in Nat
    BY <1>4 DEF EndOfStream, Told, TypeOK
  <2>2. Hold(<<>>)
    BY <2>1 DEF Hold, TypeOK, WriterTypeOK
  <2>3. Adds(<<>>) /\ <<>> \in Seq(WriteType)
    BY <2>1, <2>2, NothingSaid DEF Adds
  <2>4. pos' \in Nat /\ pos <= pos'
    BY <2>1
  <2>5. \E calls \in Seq(WriteType) : Adds(calls)
    BY <2>3
  <2> QED
    BY <1>1, <2>1, <2>4, <2>5
<1> QED
  BY <1>2, <1>3, <1>4 DEF Drives

-----------------------------------------------------------------------------
(***************************************************************************)
(* The decision, and that types and StageInv hold throughout.              *)
(***************************************************************************)

(* A step of the driver takes a decision once, and takes none back.        *)
LEMMA DecisionGoesOn ==
  ASSUME TypeOK, StageInv, Drives
  PROVE  /\ Decided => Decided' /\ UNCHANGED <<confirmed, declined>>
         /\ confirmed' => declined' = "no"
         /\ declined' # "no" /\ declined = "no" =>
              \/ Judge /\ result.verdict = "undecodable" /\ declined' = "failed"
              \/ EndOfStream /\ Tried /\ declined' # "failed"
         /\ confirmed' /\ ~confirmed =>
              \/ Judge /\ result.verdict = "ok"
              \/ EndOfStream /\ ~Tried
<1>1. CASE ReadCopy \/ SkipDatagram \/ ReadDatagram
  BY <1>1 DEF ReadCopy, SkipDatagram, ReadDatagram, decision, Decided, StageInv
<1>2. CASE Judge
  <2>1. declined = "no" /\ (Decided => confirmed)
    BY <1>2 DEF Judge, StageInv, Decided
  <2>2. CASE result.verdict = "ok" /\ Confirm
    BY <1>2, <2>1, <2>2 DEF Confirm, Decided, TypeOK, WriterTypeOK
  <2>3. CASE result.verdict = "transform" /\ TransformFailed
    BY <2>1, <2>3 DEF TransformFailed, Decided
  <2>4. CASE result.verdict \notin Framed /\ Failed(result.verdict)
    <3>1. CASE UNCHANGED decision
      BY <2>1, <3>1 DEF decision, Decided
    <3>2. CASE ~confirmed /\ result.verdict = "undecodable" /\ Decline("failed")
      BY <1>2, <2>1, <3>2 DEF Decline, Decided
    <3> QED
      BY <2>4, <3>1, <3>2 DEF Failed
  <2> QED
    BY <1>2, <2>2, <2>3, <2>4 DEF Judge
<1>3. CASE EndOfStream
  <2>1. CASE Decided /\ UNCHANGED decision
    BY <2>1 DEF decision, Decided, StageInv
  <2>2. CASE ~Decided /\ ~Tried /\ Confirm
    BY <1>3, <2>2 DEF Confirm, Decided
  <2>3. CASE ~Decided /\ Tried /\ \E c \in Declines : Decline(c) /\ c # "failed"
    <3>1. PICK c \in Declines : Decline(c) /\ c # "failed"
      BY <2>3
    <3>2. declined' = c /\ confirmed' = confirmed /\ ~confirmed /\ c # "no"
      BY <2>3, <3>1 DEF Decline, Decided, Declines
    <3> QED
      BY <1>3, <2>3, <3>1, <3>2 DEF Decided
  <2> QED
    BY <1>3, <2>1, <2>2, <2>3 DEF EndOfStream, Finish, Declines
<1> QED
  BY <1>1, <1>2, <1>3 DEF Drives

(* The writer keeps its types, whichever of them writes.                   *)
LEMMA WriterNext ==
  ASSUME TypeOK, StageInv, Next
  PROVE  WriterTypeOK'
<1>0. WriterTypeOK
  BY DEF TypeOK
<1>1. CASE Drives /\ ~EndOfStream
  <2>1. PICK calls \in Seq(WriteType) : Adds(calls)
    BY <1>1, DriverAdds
  <2>2. UNCHANGED file /\ Hold(calls)
    BY <1>1, <2>1, DriverAdds DEF Adds
  <2>3. \/ UNCHANGED decision \/ Confirm \/ TransformFailed
        \/ \E r : Failed(r)
    BY <1>1 DEF Drives, ReadCopy, SkipDatagram, ReadDatagram, Judge
  <2> QED
    BY <1>0, <2>2, <2>3, HoldType
<1>2. CASE EndOfStream
  BY <1>0, <1>2, FinishType DEF EndOfStream, file
<1>3. CASE LastFlush
  BY <1>0, <1>3, FlushKeepsType DEF LastFlush
<1>4. CASE PutInFile
  BY <1>0, <1>4, PutNextType DEF PutInFile
<1> QED
  BY <1>1, <1>2, <1>3, <1>4 DEF Next, Drives

LEMMA TypeNext == TypeOK /\ StageInv /\ [Next]_vars => TypeOK'
<1> SUFFICES ASSUME TypeOK, StageInv, [Next]_vars PROVE TypeOK'
  OBVIOUS
<1>1. CASE UNCHANGED vars
  BY <1>1 DEF vars, writerVars, driver, history, TypeOK, WriterTypeOK
<1>2. CASE Next
  <2>0. WriterTypeOK'
    BY <1>2, WriterNext
  <2>1. CASE ReadCopy
    <3>1. Datagram(pos, pos') \in Datagrams
      BY <2>1, ReadsOn, DatagramType
    <3>2. copies' = copies \cup {Datagram(pos, pos')}
      BY <2>1 DEF ReadCopy, Reading
    <3> QED
      BY <2>0, <2>1, <3>1, <3>2, ReadsOn DEF ReadCopy, TypeOK
  <2>2. CASE SkipDatagram
    <3>1. Datagram(pos, pos') \in Datagrams
      BY <2>2, ReadsOn, DatagramType
    <3>2. originals' = originals \cup {Datagram(pos, pos')} /\ datagram' = Datagram(pos, pos')
      BY <2>2 DEF SkipDatagram, Reading
    <3> QED
      BY <2>0, <2>2, <3>1, <3>2, ReadsOn DEF SkipDatagram, TypeOK
  <2>3. CASE ReadDatagram
    <3>1. Datagram(pos, pos') \in Datagrams
      BY <2>3, ReadsOn, DatagramType
    <3>2. result'.verdict \in Verdicts
      BY <2>3, DatagramRead DEF ResultType
    <3>3. <<Datagram(pos, pos'), result'.verdict>> \in Datagrams \X Verdicts
      BY <3>1, <3>2
    <3> QED
      BY <2>0, <2>3, <3>1, <3>3, ReadsOn, DatagramRead DEF TypeOK
  <2>4. CASE Judge
    BY <2>0, <2>4 DEF Judge, history, TypeOK
  <2>5. CASE EndOfStream
    BY <2>0, <2>5 DEF EndOfStream, history, TypeOK
  <2>6. CASE LastFlush
    BY <2>0, <2>6 DEF LastFlush, history, TypeOK
  <2>7. CASE PutInFile
    BY <2>0, <2>7 DEF PutInFile, driver, history, TypeOK
  <2> QED
    BY <1>2, <2>1, <2>2, <2>3, <2>4, <2>5, <2>6, <2>7 DEF Next
<1> QED
  BY <1>1, <1>2

LEMMA StageNext == TypeOK /\ StageInv /\ [Next]_vars => StageInv'
<1> SUFFICES ASSUME TypeOK, StageInv, [Next]_vars PROVE StageInv'
  OBVIOUS
<1>1. CASE Drives
  <2>0. pc' # "done"
    BY <1>1 DEF Drives, ReadCopy, SkipDatagram, ReadDatagram, Reading, Judge, EndOfStream
  <2>1. /\ UNCHANGED file /\ (Decided => Decided') /\ (confirmed' => declined' = "no")
        /\ pc' # "done"
    BY <1>1, <2>0, DriverAdds, DecisionGoesOn
  <2>2. /\ ~Decided' => out' = <<>> /\ pending' = NoRegion
    BY <2>1 DEF StageInv, file
  <2>3. CASE ReadCopy
    BY <2>1, <2>2, <2>3 DEF ReadCopy, Reading, StageInv, decision
  <2>4. CASE SkipDatagram
    <3>1. datagram' = Datagram(pos, pos') /\ pos <= pos' /\ pos \in 0 .. Extent /\ pos' \in 0 .. Extent
      BY <2>4, ReadsOn DEF SkipDatagram, Reading
    <3>2. datagram'.lo <= datagram'.hi
      BY <3>1, DatagramType
    <3> QED
      BY <2>1, <2>2, <2>4, <3>2 DEF SkipDatagram, Reading, StageInv, decision
  <2>5. CASE ReadDatagram
    <3>1. /\ datagram' = Datagram(pos, pos') /\ pos <= pos' /\ pos \in 0 .. Extent /\ pos' \in 0 .. Extent
          /\ pos <= result'.stop /\ result'.stop <= pos' /\ pc' = "judge" /\ declined' = "no"
      BY <2>5, ReadsOn, DatagramRead DEF decision
    <3>2. datagram'.lo = pos /\ datagram'.hi = pos'
      BY <3>1, DatagramType
    <3> QED
      BY <2>1, <2>2, <3>1, <3>2 DEF StageInv
  <2>6. CASE Judge
    <3>1. declined' \in {"no", "failed"}
      BY <1>1, <2>6, DecisionGoesOn DEF Judge, StageInv, EndOfStream
    <3> QED
      BY <2>1, <2>2, <2>6, <3>1 DEF Judge, StageInv
  <2>7. CASE EndOfStream
    <3>1. Decided'
      BY <2>7, FinishDecides DEF EndOfStream
    <3> QED
      BY <2>1, <2>2, <2>7, <3>1 DEF EndOfStream, StageInv
  <2> QED
    BY <1>1, <2>3, <2>4, <2>5, <2>6, <2>7 DEF Drives
<1>2. CASE LastFlush
  <2>1. Decided /\ Decided' /\ held' = <<>> /\ pending' = NoRegion
    BY <1>2 DEF LastFlush, StageInv, Idle, Flush, decision, Decided
  <2> QED
    BY <1>2, <2>1 DEF LastFlush, StageInv, decision
<1>3. CASE PutInFile
  <2>1. Decided /\ Decided' /\ UNCHANGED decision /\ held # <<>> /\ UNCHANGED driver
    BY <1>3 DEF PutInFile, PutNext, decision, Decided
  <2> QED
    BY <2>1 DEF StageInv, decision, driver
<1>4. CASE UNCHANGED vars
  BY <1>4 DEF vars, writerVars, driver, StageInv, Decided
<1> QED
  BY <1>1, <1>2, <1>3, <1>4 DEF Next, Drives

(* What every later proof starts from.                                     *)
Settled == TypeOK /\ StageInv

LEMMA SettledAlways == Spec => []Settled
<1>1. Settled /\ [Next]_vars => Settled'
  BY TypeNext, StageNext DEF Settled
<1> QED
  BY <1>1, InitType, StageInit, PTL DEF Spec, Settled

(* The state is of its type, however the stream is cut into datagrams and  *)
(* whatever each of them turns out to be.                                  *)
THEOREM TypeCorrect == Spec => []TypeOK
BY SettledAlways, PTL DEF Settled

(* The decision is taken once: no order of datagrams and copies makes a    *)
(* confirmed stream declined or a declined one believed.                   *)
THEOREM DecisionTakenOnce == Spec => DecidedOnce
<1>1. Settled /\ [Next]_vars => [Decided => UNCHANGED <<confirmed, declined>>]_vars
  <2> SUFFICES ASSUME Settled, Next, Decided PROVE UNCHANGED <<confirmed, declined>>
    OBVIOUS
  <2>1. CASE Drives
    BY <2>1, DecisionGoesOn DEF Settled
  <2>2. CASE LastFlush \/ PutInFile
    BY <2>2 DEF LastFlush, PutInFile, PutNext, decision
  <2> QED
    BY <2>1, <2>2 DEF Next, Drives
<1> QED
  BY <1>1, SettledAlways, PTL DEF Spec, DecidedOnce

-----------------------------------------------------------------------------
(***************************************************************************)
(* Coverage.  BelievedInv accounts for what the stream says if it is       *)
(* believed, up to Told, and RefusedInv for what it says if it is not, up  *)
(* to what was read.  Both are kept until the decision.                    *)
(***************************************************************************)
BelievedInv == declined = "no" => Account(FALSE, Told, out, pending, held)
RefusedInv  == ~confirmed => Account(TRUE, pos, out, pending, held)

LEMMA BelievedInit == Init => BelievedInv
BY AccountNothing DEF Init, WriterInit, BelievedInv, Told

LEMMA RefusedInit == Init => RefusedInv
BY AccountNothing DEF Init, WriterInit, RefusedInv

LEMMA ToldGoesOn ==
  ASSUME Settled, Drives
  PROVE  Told \in Nat /\ Told' \in Nat /\ Told <= Told'
<1> USE DEF Settled
<1>1. CASE ReadCopy \/ SkipDatagram
  BY <1>1, ReadsOn DEF ReadCopy, SkipDatagram, Told
<1>2. CASE ReadDatagram
  BY <1>2, ReadsOn, DatagramRead DEF Told
<1>3. CASE Judge
  <2>1. Told' = pos /\ Told = result.stop /\ result.stop <= pos
    BY <1>3, AddsJudge DEF Told, Judge, StageInv
  <2>2. pos \in Nat /\ result.stop \in Nat
    BY ExtentAssumption DEF TypeOK, ResultType
  <2> QED
    BY <2>1, <2>2
<1>4. CASE EndOfStream
  <2>1. Told' = pos /\ Told = pos /\ pos \in Nat
    BY <1>4 DEF EndOfStream, Told, TypeOK
  <2> QED
    BY <2>1
<1> QED
  BY <1>1, <1>2, <1>3, <1>4 DEF Drives

(* Both accounts of the stream, as believed and as declined, stay in       *)
(* balance.                                                                *)
LEMMA BelievedNext ==
  ASSUME Orderly, Settled, BelievedInv, [Next]_vars
  PROVE  BelievedInv'
<1> USE DEF Settled
<1> SUFFICES ASSUME declined' = "no"
             PROVE  Account(FALSE, Told', out', pending', held')
  BY DEF BelievedInv
<1>0. WriterTypeOK
  BY DEF TypeOK
<1>1. CASE Drives
  <2>1. PICK calls \in Seq(WriteType) : Adds(calls)
    BY <1>1, DriverAdds
  <2>2. UNCHANGED <<out, pending>>
    BY <1>1, DriverAdds DEF file
  <2>3. declined = "no"
    BY <1>1, DecisionGoesOn DEF Decided
  <2>4. Account(FALSE, Told, out, pending, held)
    BY <2>3 DEF BelievedInv
  <2>5. Hold(calls) /\ Partition(FALSE, calls, Told, Told')
    BY <2>1 DEF Adds
  <2> QED
    BY <1>0, <1>1, <2>2, <2>4, <2>5, AccountHold, ToldGoesOn
<1>2. CASE LastFlush
  <2>1. Told' = Told /\ Told = pos /\ pos \in Nat /\ declined = "no" /\ held' = held
    BY <1>2 DEF LastFlush, Told, decision, TypeOK
  <2>2. Account(FALSE, Told, Flushed, NoRegion, held)
    BY <1>0, <2>1, AccountFlush DEF BelievedInv
  <2> QED
    BY <1>2, <2>1, <2>2 DEF LastFlush, Flush
<1>3. CASE PutInFile
  <2>1. PutNext /\ Told' = Told /\ declined = "no"
    BY <1>3 DEF PutInFile, PutNext, driver, decision, Told
  <2>2. Told \in Nat
    BY ExtentAssumption DEF TypeOK, ResultType, Told
  <2>3. Account(declined # "no", Told, out, pending, held)
    BY <2>1 DEF BelievedInv
  <2>4. Account(declined # "no", Told, out', pending', held')
    BY <1>0, <2>1, <2>2, <2>3, AccountPut
  <2> QED
    BY <2>1, <2>4
<1>4. CASE UNCHANGED vars
  BY <1>4 DEF vars, writerVars, driver, BelievedInv, Told
<1> QED
  BY <1>1, <1>2, <1>3, <1>4 DEF Next, Drives

LEMMA RefusedNext ==
  ASSUME Settled, RefusedInv, [Next]_vars
  PROVE  RefusedInv'
<1> USE DEF Settled
<1> SUFFICES ASSUME ~confirmed'
             PROVE  Account(TRUE, pos', out', pending', held')
  BY DEF RefusedInv
<1>0. WriterTypeOK /\ pos \in Nat
  BY DEF TypeOK
<1>1. CASE Drives
  <2>1. PICK calls \in Seq(WriteType) : Adds(calls)
    BY <1>1, DriverAdds
  <2>2. /\ UNCHANGED <<out, pending>>
        /\ pos \in Nat /\ pos' \in Nat /\ pos <= pos'
    BY <1>1, DriverAdds DEF file
  <2>3. ~confirmed
    BY <1>1, DecisionGoesOn DEF Decided
  <2>4. Account(TRUE, pos, out, pending, held)
    BY <2>3 DEF RefusedInv
  <2>5. Hold(calls) /\ Partition(TRUE, calls, pos, pos')
    BY <2>1, <2>3 DEF Adds
  <2> QED
    BY <1>0, <2>2, <2>4, <2>5, AccountHold
<1>2. CASE LastFlush
  <2>1. pos' = pos /\ ~confirmed /\ held' = held
    BY <1>2 DEF LastFlush, decision
  <2>2. Account(TRUE, pos, Flushed, NoRegion, held)
    BY <1>0, <2>1, AccountFlush DEF RefusedInv
  <2> QED
    BY <1>2, <2>1, <2>2 DEF LastFlush, Flush
<1>3. CASE PutInFile
  <2>1. PutNext /\ pos' = pos /\ declined # "no" /\ ~confirmed
    BY <1>3 DEF PutInFile, PutNext, driver, decision, Decided
  <2>2. Account(declined # "no", pos, out, pending, held)
    BY <2>1 DEF RefusedInv
  <2>3. Account(declined # "no", pos, out', pending', held')
    BY <1>0, <2>1, <2>2, AccountPut
  <2> QED
    BY <2>1, <2>3
<1>4. CASE UNCHANGED vars
  BY <1>4 DEF vars, writerVars, driver, RefusedInv
<1> QED
  BY <1>1, <1>2, <1>3, <1>4 DEF Next, Drives

(* The accounts say that each byte is cited or named, once.                *)
LEMMA AccountsMean ==
  ASSUME Settled, BelievedInv, RefusedInv
  PROVE  /\ CitedOrNamed
         /\ \A b \in Nat : Citing(b) # {} \/ Naming(b) # {} => b < pos
<1>0. WriterTypeOK /\ StageInv /\ pos \in Nat /\ Told \in Nat /\ Told <= pos
  BY ExtentAssumption DEF Settled, StageInv, TypeOK, ResultType, Told
<1>1. PICK d \in BOOLEAN : Account(d, IF d THEN pos ELSE Told, out, pending, held)
  <2>1. CASE declined = "no"
    <3>1. Account(FALSE, Told, out, pending, held)
      BY <2>1 DEF BelievedInv
    <3> QED
      BY <3>1
  <2>2. CASE declined # "no"
    <3>1. Account(TRUE, pos, out, pending, held)
      BY <1>0, <2>2 DEF RefusedInv, StageInv
    <3> QED
      BY <3>1
  <2> QED
    BY <2>1, <2>2
<1> DEFINE n == IF d THEN pos ELSE Told
<1>2. n \in Nat /\ n <= pos /\ Account(d, n, out, pending, held)
  BY <1>0, <1>1
<1>3. pc = "done" => n = pos /\ held = <<>> /\ pending = NoRegion
  BY <1>0 DEF StageInv, Told
<1> HIDE DEF n
<1>4. ASSUME NEW b \in Nat
      PROVE  /\ Citing(b) = {} \/ Naming(b) = {}
             /\ Cardinality(Naming(b)) <= 1
             /\ Citing(b) # {} \/ Naming(b) # {} => b < pos
  <2>1. /\ Citing(b) = {} \/ Naming(b) = {}
        /\ Cardinality(Naming(b)) <= 1
        /\ Citing(b) # {} \/ Naming(b) # {} => b < n
    BY <1>0, <1>2, AccountOnce
  <2> QED
    BY <1>0, <1>2, <2>1
<1>5. ASSUME pc = "done", NEW b \in 0 .. pos - 1
      PROVE  Citing(b) # {} \/ Naming(b) # {}
  <2>1. Account(d, n, out, NoRegion, <<>>) /\ b \in 0 .. n - 1
    BY <1>2, <1>3, <1>5
  <2> QED
    BY <1>0, <1>2, <2>1, AccountAll
<1>6. pc = "done" => Cited(pos) \cup Named(pos) = 0 .. pos - 1
  BY <1>5 DEF Cited, Named
<1>7. \A b \in 0 .. pos - 1 : b \in Nat
  OBVIOUS
<1> QED
  BY <1>4, <1>6, <1>7 DEF CitedOrNamed

LEMMA AccountedAlways ==
  ASSUME Orderly
  PROVE  Spec => [](Settled /\ BelievedInv /\ RefusedInv)
<1>1. Settled /\ BelievedInv /\ RefusedInv /\ [Next]_vars => BelievedInv' /\ RefusedInv'
  BY BelievedNext, RefusedNext
<1>2. Init => BelievedInv /\ RefusedInv
  BY BelievedInit, RefusedInit
<1> QED
  BY <1>1, <1>2, SettledAlways, PTL DEF Spec

-----------------------------------------------------------------------------
(***************************************************************************)
(* What lies between the blocks.                                           *)
(***************************************************************************)
BlocksInv ==
  /\ Lies(out, seam)
  /\ Plain(held)
  /\ pc # "done" => Ends(out, pending)

LEMMA BlocksInit == Init => BlocksInv
BY LiesNothing DEF Init, WriterInit, BlocksInv

(* Blocks agree with what lies between them, so far as they are written.   *)
LEMMA BlocksNext ==
  ASSUME Settled, BlocksInv, [Next]_vars
  PROVE  BlocksInv'
<1> USE DEF Settled
<1>0. WriterTypeOK
  BY DEF TypeOK
<1>1. CASE Drives
  <2>1. PICK calls \in Seq(WriteType) : Adds(calls)
    BY <1>1, DriverAdds
  <2>2. UNCHANGED file
    BY <1>1, DriverAdds
  <2>3. Plain(held')
    BY <1>0, <2>1, PlainHold DEF Adds, BlocksInv
  <2>4. pc # "done"
    BY <1>1 DEF Drives, ReadCopy, SkipDatagram, ReadDatagram, Reading, Judge, EndOfStream
  <2> QED
    BY <2>2, <2>3, <2>4 DEF BlocksInv, file
<1>2. CASE LastFlush
  <2>1. Flush /\ pc = "flush" /\ pc' = "done" /\ held' = held
    BY <1>2 DEF LastFlush
  <2> QED
    BY <1>0, <2>1, LiesFlush DEF BlocksInv
<1>3. CASE PutInFile
  <2>1. PutNext /\ pc' = pc /\ pc # "done"
    BY <1>3 DEF PutInFile, PutNext, driver, StageInv
  <2> QED
    BY <1>0, <2>1, LiesPut DEF BlocksInv
<1>4. CASE UNCHANGED vars
  BY <1>4 DEF vars, writerVars, driver, BlocksInv
<1> QED
  BY <1>1, <1>2, <1>3, <1>4 DEF Next, Drives

(* The blocks of a stream of datagrams agree with what lies between them:  *)
(* regions that agree are never left as two, and as a datagram's message   *)
(* may run out, a record after such a hole carries its seam.               *)
THEOREM BlocksAgree == Spec => []WhatLiesBetween
<1>1. Settled /\ BlocksInv /\ [Next]_vars => BlocksInv'
  BY BlocksNext
<1>2. Settled /\ BlocksInv => WhatLiesBetween
  BY LiesMeans DEF Settled, TypeOK, BlocksInv
<1> QED
  BY <1>1, <1>2, BlocksInit, SettledAlways, PTL DEF Spec

-----------------------------------------------------------------------------
(***************************************************************************)
(* Copies.  Each byte of a copy is in line as a copy, or written as one.   *)
(***************************************************************************)
HeldCopy(x) ==
  \E i \in DOMAIN held : held[i].op = "copy" /\ Covers(held[i], x) /\
                         held[i].reason = "skipped" /\ held[i].comment = "copy"

CopyComment == IF declined # "no" THEN declined ELSE "copy"

PassedOver(x) == HeldCopy(x) \/ WrittenAs(x, "skipped", CopyComment)

(* Each byte of a copy is in the queue as one, or in the file as one.      *)
CopyInv == \A c \in copies : \A x \in c.lo .. c.hi - 1 : PassedOver(x)

LEMMA CopyInit == Init => CopyInv
BY DEF Init, CopyInv

(* An entry put in the file takes a copy with it as it was held.           *)
LEMMA CopyPut ==
  ASSUME WriterTypeOK, PutNext, NEW n \in Nat,
         Account(declined # "no", n, out, pending, held), NEW x \in Nat, PassedOver(x)
  PROVE  PassedOver(x)'
<1> DEFINE e == Head(held)
<1>1. /\ held \in Seq(WriteType) /\ held # <<>> /\ held' = Tail(held) /\ UNCHANGED declined
      /\ IF declined # "no" THEN PutDeclined(e) ELSE PutConfirmed(e)
      /\ CopyComment \in Comments /\ e = held[1] /\ 1 \in DOMAIN held
  BY DEF PutNext, WriterTypeOK, Comments, CopyComment, decision
<1>2. e \in WriteType /\ \A i \in DOMAIN held : i # 1 => i - 1 \in DOMAIN Tail(held) /\ Tail(held)[i - 1] = held[i]
  <2>1. e \in WriteType
    BY <1>1
  <2> QED
    BY <1>1, <2>1, TailFacts
<1>3. PICK c \in Comments : c = CopyComment
  BY <1>1
<1>4. CopyComment' = c
  BY <1>1, <1>3 DEF CopyComment
<1>5. /\ e.op \in Ops /\ e.reason \in Reasons \cup {"none"} /\ e.comment \in Comments
      /\ declined # "no" => declined \in Comments
  BY <1>2 DEF WriteType, WriterTypeOK, Comments
<1>6. \A r \in Reasons \cup {"none"}, k \in Comments :
        /\ As(e, r, k) \in RegionType /\ As(e, r, k).lo = e.lo
        /\ As(e, r, k).reason = r /\ As(e, r, k).comment = k
        /\ Covers(e, x) => NamedSo(As(e, r, k), x, r, k)
  BY <1>2 DEF As, Write, WriteType, RegionType, NamedSo, Covers
<1>7. CASE WrittenAs(x, "skipped", c)
  <2>1. WrittenAs(x, "skipped", c)'
    <3>1. CASE UNCHANGED file
      BY <1>7, <3>1 DEF file, WrittenAs
    <3>2. CASE e.op = "record" /\ PutRecord(e)
      BY <1>7, <3>2, WrittenAsPutRecord
    <3>3. CASE \E r \in Reasons \cup {"none"}, k \in Comments : PutRegion(As(e, r, k))
      BY <1>6, <1>7, <3>3, WrittenAsPutRegion
    <3>4. CASE declined = "no"
      <4>1. PutConfirmed(e)
        BY <1>1, <3>4
      <4>2. e.op \notin {"record", "run"} => \E r \in Reasons \cup {"none"}, k \in Comments : PutRegion(As(e, r, k))
        BY <1>5, <4>1 DEF PutConfirmed
      <4> QED
        BY <3>1, <3>2, <3>3, <4>1, <4>2 DEF PutConfirmed
    <3>5. CASE declined # "no"
      <4>1. PutDeclined(e)
        BY <1>1, <3>5
      <4>2. {"undecodable", "skipped", "gap"} \subseteq Reasons /\ declined \in Comments /\ "none" \in Comments
        BY <1>5, <3>5 DEF Reasons, Comments
      <4>3. \/ UNCHANGED file
            \/ \E r \in Reasons \cup {"none"}, k \in Comments : PutRegion(As(e, r, k))
        BY <4>1, <4>2 DEF PutDeclined
      <4> QED
        BY <3>1, <3>3, <4>3
    <3> QED
      BY <3>4, <3>5
  <2> QED
    BY <1>4, <2>1 DEF PassedOver
<1>8. CASE e.op = "copy" /\ Covers(e, x) /\ e.reason = "skipped" /\ e.comment = "copy"
  <2>1. PutRegion(As(e, "skipped", c)) /\ "skipped" \in Reasons
    BY <1>1, <1>3, <1>8 DEF PutDeclined, PutConfirmed, Reasons, CopyComment
  <2>2. pending.lo <= e.lo
    BY <1>1, <1>8, PendingBefore DEF Says
  <2>3. /\ As(e, "skipped", c) \in RegionType /\ As(e, "skipped", c).lo = e.lo
        /\ NamedSo(As(e, "skipped", c), x, "skipped", c)
    BY <1>6, <1>8, <2>1
  <2>4. WrittenAs(x, "skipped", c)'
    BY <2>1, <2>2, <2>3, WrittenAsPutRegion
  <2> QED
    BY <1>4, <2>4 DEF PassedOver
<1>9. CASE HeldCopy(x)
  <2>1. PICK i \in DOMAIN held : /\ held[i].op = "copy" /\ Covers(held[i], x)
                                 /\ held[i].reason = "skipped" /\ held[i].comment = "copy"
    BY <1>9 DEF HeldCopy
  <2>2. CASE i = 1
    BY <1>1, <1>8, <2>1, <2>2
  <2>3. CASE i # 1
    BY <1>1, <1>2, <2>1, <2>3 DEF PassedOver, HeldCopy
  <2> QED
    BY <2>2, <2>3
<1> QED
  BY <1>3, <1>7, <1>9 DEF PassedOver

(* A copy is held, or named, all of it.                                    *)
LEMMA CopyNext ==
  ASSUME Orderly, Settled, BelievedInv, RefusedInv, CopyInv, [Next]_vars
  PROVE  CopyInv'
<1> USE DEF Settled
<1>0. WriterTypeOK /\ pos \in Nat
  BY DEF TypeOK
<1>1. ASSUME NEW c \in copies, NEW x \in c.lo .. c.hi - 1
      PROVE  x \in Nat /\ PassedOver(x)
  <2>1. c.lo \in Nat /\ c.hi \in Nat
    BY ExtentAssumption DEF TypeOK, Datagrams
  <2>2. x \in Nat
    BY <2>1
  <2> QED
    BY <2>2 DEF CopyInv
<1>2. ASSUME NEW x \in Nat, PassedOver(x), Drives
      PROVE  PassedOver(x)'
  <2>1. PICK calls \in Seq(WriteType) : Adds(calls)
    BY <1>2, DriverAdds
  <2>2. UNCHANGED file
    BY <1>2, DriverAdds
  <2>3. HeldCopy(x) => HeldCopy(x)'
    BY <1>0, <2>1, HoldKeeps DEF Adds, HeldCopy
  <2>4. CASE Decided
    <3>1. CopyComment' = CopyComment
      BY <1>2, <2>4, DecisionGoesOn DEF CopyComment
    <3> QED
      BY <1>2, <2>2, <2>3, <3>1 DEF PassedOver, WrittenAs, file
  <2>5. CASE ~Decided
    <3>1. out = <<>> /\ pending = NoRegion
      BY <2>5 DEF StageInv
    <3>2. ~WrittenAs(x, "skipped", CopyComment)
      BY <3>1 DEF WrittenAs, NamedSo, NoRegion, Undecoded, Write
    <3> QED
      BY <1>2, <2>3, <3>2 DEF PassedOver
  <2> QED
    BY <2>4, <2>5
<1>3. CASE ReadCopy
  <2>1. /\ copies' = copies \cup {Datagram(pos, pos')} /\ Hold(CopyCall(pos, pos'))
        /\ pos \in 0 .. Extent /\ pos' \in 0 .. Extent /\ pos' \in Nat
    BY <1>3, ReadsOn DEF ReadCopy, Reading
  <2>2. PICK lo \in Nat, hi \in Nat : lo = pos /\ hi = pos'
    BY <1>0, <2>1
  <2>3. ASSUME NEW x \in lo .. hi - 1
        PROVE  HeldCopy(x)'
    <3> DEFINE e == Write("copy", lo, hi, "skipped", "copy")
    <3>0. /\ e.op = "copy" /\ e.lo = lo /\ e.hi = hi /\ e.reason = "skipped" /\ e.comment = "copy"
      BY DEF Write
    <3>1. /\ e.op = "copy" /\ Covers(e, x) /\ e.reason = "skipped" /\ e.comment = "copy"
      <4>1. lo <= x /\ x < hi
        OBVIOUS
      <4> QED
        BY <3>0, <4>1 DEF Covers
    <3>2. CopyCall(lo, hi) = <<e>> /\ CopyCall(lo, hi) \in Seq(WriteType)
      BY <2>2, CallsType DEF CopyCall
    <3> HIDE DEF e
    <3>3. PICK calls \in Seq(WriteType) : calls = <<e>> /\ Hold(calls)
      BY <2>1, <2>2, <3>2
    <3>4. \E k \in DOMAIN held' : held'[k] = e
      BY <1>0, <3>3, HoldKeeps
    <3> QED
      BY <3>1, <3>4 DEF HeldCopy
  <2>4. Datagram(lo, hi).lo = lo /\ Datagram(lo, hi).hi = hi
    BY DEF Datagram
  <2>5. \A x \in lo .. hi - 1 : PassedOver(x)'
    BY <2>3 DEF PassedOver
  <2>6. \A c \in copies : \A x \in c.lo .. c.hi - 1 : PassedOver(x)'
    BY <1>1, <1>2, <1>3 DEF Drives
  <2> QED
    BY <2>1, <2>2, <2>4, <2>5, <2>6 DEF CopyInv
<1>4. CASE Drives /\ ~ReadCopy
  <2>1. copies' = copies
    BY <1>4, DatagramRead DEF Drives, SkipDatagram, Judge, EndOfStream, history
  <2> QED
    BY <1>1, <1>2, <1>4, <2>1 DEF CopyInv
<1>5. CASE LastFlush
  <2>1. held' = held /\ UNCHANGED declined /\ out' = Flushed /\ copies' = copies
    BY <1>5 DEF LastFlush, Flush, decision, history
  <2>2. CopyComment' = CopyComment
    BY <2>1 DEF CopyComment
  <2>3. PICK k : k = CopyComment
    OBVIOUS
  <2>4. ASSUME NEW x \in Nat, PassedOver(x)
        PROVE  PassedOver(x)'
    <3>1. HeldCopy(x) => HeldCopy(x)'
      BY <2>1 DEF HeldCopy
    <3>2. WrittenAs(x, "skipped", k) => WrittenAs(x, "skipped", k)'
      BY <1>0, <2>1, WrittenAsFlushed DEF WrittenAs
    <3> QED
      BY <2>2, <2>3, <2>4, <3>1, <3>2 DEF PassedOver
  <2> QED
    BY <1>1, <2>1, <2>4 DEF CopyInv
<1>6. CASE PutInFile
  <2>1. PutNext /\ copies' = copies
    BY <1>6 DEF PutInFile, history
  <2>2. PICK n \in Nat : Account(declined # "no", n, out, pending, held)
    <3>1. Told \in Nat
      BY ExtentAssumption DEF TypeOK, ResultType, Told
    <3>2. CASE declined = "no"
      BY <3>1, <3>2 DEF BelievedInv
    <3>3. CASE declined # "no"
      BY <1>0, <3>3 DEF RefusedInv, StageInv
    <3> QED
      BY <3>2, <3>3
  <2>3. ASSUME NEW x \in Nat, PassedOver(x)
        PROVE  PassedOver(x)'
    BY <1>0, <2>1, <2>2, <2>3, CopyPut
  <2> QED
    BY <1>1, <2>1, <2>3 DEF CopyInv
<1>7. CASE UNCHANGED vars
  BY <1>7 DEF vars, writerVars, history, CopyInv, PassedOver, HeldCopy, WrittenAs, CopyComment
<1> QED
  BY <1>3, <1>4, <1>5, <1>6, <1>7 DEF Next, Drives

LEMMA CopiesMean ==
  ASSUME Settled, BelievedInv, RefusedInv, CopyInv
  PROVE  CopiesPassedOver
<1> SUFFICES ASSUME pc = "done", NEW c \in copies, NEW b \in c.lo .. c.hi - 1
             PROVE  /\ Citing(b) = {}
                    /\ \E i \in Naming(b) :
                         out[i].reason = "skipped" /\ out[i].comment = CopyComment
  BY DEF CopiesPassedOver, CopyComment
<1>1. held = <<>> /\ pending = NoRegion
  BY DEF Settled, StageInv
<1>2. PassedOver(b)
  BY DEF CopyInv
<1>3. ~HeldCopy(b) /\ ~NamedSo(pending, b, "skipped", CopyComment)
  BY <1>1 DEF HeldCopy, NamedSo, NoRegion, Undecoded, Write
<1>4. PICK i \in DOMAIN out : NamedSo(out[i], b, "skipped", CopyComment)
  BY <1>2, <1>3 DEF PassedOver, WrittenAs
<1>5. i \in Naming(b)
  BY <1>4 DEF Naming, IsRecord, NamedSo
<1>6. b \in 0 .. pos - 1
  <2>1. c.lo \in Nat /\ c.hi \in Nat /\ pos \in Nat
    BY ExtentAssumption DEF Settled, TypeOK, Datagrams
  <2>2. b \in Nat
    BY <2>1
  <2>3. b < pos
    BY <1>5, <2>2, AccountsMean
  <2> QED
    BY <2>1, <2>2, <2>3
<1>7. Citing(b) = {}
  BY <1>5, <1>6, AccountsMean DEF CitedOrNamed
<1> QED
  BY <1>4, <1>5, <1>7 DEF NamedSo

-----------------------------------------------------------------------------
(***************************************************************************)
(* What was tried, and what the decision makes of it.                      *)
(***************************************************************************)
TriedInv ==
  /\ \A t \in tried : t[1] \in originals /\ t[1].lo <= pos
  /\ pc = "judge" => /\ <<datagram, result.verdict>> \in tried
                     /\ \A t \in tried : t[1].lo <= datagram.lo
  /\ declined # "failed" => \A d \in originals : \E t \in tried : t[1] = d

(* Until the stream is believed a message that decoded whole is the one in *)
(* hand, and a stream declined for a failure failed at the last one tried. *)
EvidenceInv ==
  /\ ~Decided /\ tried # {} => Tried
  /\ confirmed => \/ originals = {} /\ pc \in {"flush", "done"}
                  \/ \E t \in tried : t[2] = "ok"
  /\ ~confirmed => \A t \in tried : t[2] = "ok" => pc = "judge" /\ result.verdict = "ok"
  /\ declined = "failed" =>
       \E t \in tried : t[2] = "undecodable" /\ \A u \in tried : u[1].lo <= t[1].lo

LEMMA TriedInit == Init => TriedInv /\ EvidenceInv
BY DEF Init, WriterInit, TriedInv, EvidenceInv, Decided

LEMMA TriedNext ==
  ASSUME Settled, TriedInv, [Next]_vars
  PROVE  TriedInv'
<1> USE DEF Settled
<1>0. pos \in Nat /\ \A t \in tried : t[1].lo \in Nat
  <2>1. \A t \in tried : t[1] \in Datagrams
    BY DEF TypeOK
  <2> QED
    BY <2>1, ExtentAssumption DEF TypeOK, Datagrams
<1>1. CASE ReadCopy
  <2>1. UNCHANGED <<decision, pc, originals, tried>> /\ pc = "next" /\ pos' \in Nat /\ pos <= pos'
    BY <1>1, ReadsOn DEF ReadCopy
  <2> QED
    BY <1>0, <2>1 DEF TriedInv, decision
<1>2. CASE SkipDatagram
  <2>1. /\ UNCHANGED <<decision, pc, tried>> /\ pc = "next" /\ pos' \in Nat /\ pos <= pos'
        /\ originals \subseteq originals' /\ declined = "failed"
    BY <1>2, ReadsOn DEF SkipDatagram, StageInv
  <2> QED
    BY <1>0, <2>1 DEF TriedInv, decision
<1>3. CASE ReadDatagram
  <2>1. PICK d, v : d = Datagram(pos, pos') /\ v = result'.verdict
    OBVIOUS
  <2>2. /\ pc = "next" /\ pc' = "judge" /\ declined' = "no" /\ declined = "no" /\ pos <= pos' /\ pos' \in Nat
        /\ datagram' = d /\ d.lo = pos
        /\ originals' = originals \cup {d} /\ tried' = tried \cup {<<d, v>>}
    BY <1>3, <2>1, ReadsOn, DatagramRead DEF decision, Datagram
  <2>3. \A t \in tried' : t \in tried \/ t = <<d, v>>
    BY <2>2
  <2>4. \A t \in tried : t[1] \in originals /\ t[1].lo <= pos
    BY DEF TriedInv
  <2>5. \A t \in tried' : t[1] \in originals' /\ t[1].lo <= pos
    BY <1>0, <2>2, <2>3, <2>4
  <2>6. \A t \in tried' : t[1].lo <= pos'
    BY <1>0, <2>2, <2>3, <2>4
  <2>7. \A x \in originals : \E t \in tried : t[1] = x
    BY <2>2 DEF TriedInv
  <2>8. \A x \in originals' : \E t \in tried' : t[1] = x
    <3>1. <<d, v>> \in tried' /\ <<d, v>>[1] = d
      BY <2>2
    <3> QED
      BY <2>2, <2>7, <3>1
  <2>9. <<datagram', result'.verdict>> \in tried'
    BY <2>1, <2>2
  <2> QED
    BY <2>2, <2>5, <2>6, <2>8, <2>9 DEF TriedInv
<1>4. CASE Judge \/ EndOfStream
  <2>1. /\ UNCHANGED <<pos, originals, tried>> /\ pc' # "judge"
        /\ declined' # "failed" => declined # "failed"
    <3>1. Decided => declined' = declined
      BY <1>4, DecisionGoesOn DEF Drives
    <3> QED
      BY <1>4, <3>1 DEF Judge, EndOfStream, history, Decided
  <2> QED
    BY <2>1 DEF TriedInv
<1>5. CASE LastFlush \/ PutInFile
  <2>1. UNCHANGED <<pos, originals, tried, datagram, result, decision>> /\ (pc' = "judge" => pc = "judge")
    BY <1>5 DEF LastFlush, PutInFile, PutNext, history, driver
  <2> QED
    BY <2>1 DEF TriedInv, decision
<1>6. CASE UNCHANGED vars
  BY <1>6 DEF vars, writerVars, driver, history, TriedInv
<1> QED
  BY <1>1, <1>2, <1>3, <1>4, <1>5, <1>6 DEF Next

(* A run that starts is something tried.                                   *)
LEMMA RunTried ==
  ASSUME Settled, ReadDatagram, ~confirmed
  PROVE  Tried'
<1>0. WriterTypeOK
  BY DEF Settled, TypeOK
<1>1. PICK lo, hi, w : lo = pos /\ hi = pos' /\ w = result'.writes
  OBVIOUS
<1>2. lo \in Nat /\ hi \in Nat /\ w \in Seq(WriteType) /\ Hold(Begin(lo, hi) \o w)
  BY <1>1, DatagramRead, ReadsOn DEF Settled
<1> DEFINE e == Write("run", lo, hi, "none", "none")
<1>3. e.op = "run" /\ Begin(lo, hi) = <<e>>
  BY DEF Write, Begin
<1>4. <<e>> \in Seq(WriteType)
  BY <1>2, <1>3, CallsType
<1> HIDE DEF e
<1> DEFINE calls == <<e>> \o w
<1>5. calls \in Seq(WriteType) /\ Hold(calls) /\ 1 \in DOMAIN calls /\ calls[1] = e
  BY <1>2, <1>3, <1>4
<1> HIDE DEF calls
<1>6. \E k \in DOMAIN held' : held'[k] = e
  BY <1>0, <1>5, HoldKeeps
<1> QED
  BY <1>3, <1>6 DEF Tried

(* The decision is no more and no less than what was tried shows.          *)
LEMMA EvidenceNext ==
  ASSUME Settled, Settled', TriedInv, TriedInv', EvidenceInv, [Next]_vars
  PROVE  EvidenceInv'
<1> USE DEF Settled
<1>0. WriterTypeOK
  BY DEF TypeOK
<1>1. ASSUME Drives, Tried PROVE Tried'
  <2>1. PICK calls \in Seq(WriteType) : Hold(calls)
    BY <1>1, DriverAdds DEF Adds
  <2> QED
    BY <1>0, <1>1, <2>1, HoldKeeps DEF Tried
<1>2. CASE ReadCopy \/ SkipDatagram
  <2>1. /\ UNCHANGED <<decision, pc, tried, result>> /\ pc = "next"
        /\ declined = "no" => originals' = originals
    BY <1>2, ReadsOn DEF ReadCopy, SkipDatagram
  <2>2. ~Decided /\ tried # {} => Tried'
    BY <1>1, <1>2 DEF Drives, EvidenceInv
  <2> QED
    BY <2>1, <2>2 DEF EvidenceInv, decision, Decided, StageInv
<1>3. CASE ReadDatagram
  <2>1. PICK d, v : d = Datagram(pos, pos') /\ v = result'.verdict
    OBVIOUS
  <2>2. /\ pc = "next" /\ pc' = "judge" /\ UNCHANGED decision /\ declined = "no"
        /\ tried' = tried \cup {<<d, v>>}
    BY <1>3, <2>1, ReadsOn, DatagramRead
  <2>3. ~Decided' => Tried'
    BY <1>3, <2>2, RunTried DEF decision, Decided
  <2>4. confirmed' => \E t \in tried' : t[2] = "ok"
    BY <2>2 DEF EvidenceInv, decision
  <2>5. ~confirmed' => \A t \in tried' : t[2] = "ok" => v = "ok"
    <3>1. ~confirmed' => \A t \in tried : t[2] # "ok"
      BY <2>2 DEF EvidenceInv, decision
    <3>2. \A t \in tried' : t \in tried \/ t = <<d, v>>
      BY <2>2
    <3> QED
      BY <3>1, <3>2
  <2>6. declined' # "failed"
    BY <2>2 DEF decision
  <2> QED
    BY <2>1, <2>2, <2>3, <2>4, <2>5, <2>6 DEF EvidenceInv
<1>4. CASE Judge
  <2>1. /\ UNCHANGED <<originals, tried>> /\ pc = "judge" /\ pc' = "next" /\ declined = "no"
        /\ <<datagram, result.verdict>> \in tried /\ \A t \in tried : t[1].lo <= datagram.lo
    BY <1>4 DEF Judge, history, StageInv, TriedInv
  <2>2. ~Decided' /\ tried' # {} => Tried'
    <3>1. ~Decided' => ~Decided
      BY <1>4, DecisionGoesOn DEF Drives
    <3> QED
      BY <1>1, <1>4, <2>1, <3>1 DEF Drives, EvidenceInv
  <2>3. confirmed' => \E t \in tried' : t[2] = "ok"
    <3>1. CASE confirmed
      BY <2>1, <3>1 DEF EvidenceInv
    <3>2. CASE confirmed' /\ ~confirmed
      <4>1. result.verdict = "ok"
        BY <1>4, <2>1, <3>2, DecisionGoesOn DEF Drives, EndOfStream
      <4>2. <<datagram, result.verdict>>[2] = "ok"
        BY <4>1
      <4> QED
        BY <2>1, <4>2
    <3> QED
      BY <3>1, <3>2
  <2>4. ~confirmed' => \A t \in tried' : t[2] # "ok"
    <3>1. ~confirmed' => ~confirmed
      <4>1. confirmed => confirmed'
        BY <1>4, DecisionGoesOn DEF Drives, Decided
      <4> QED
        BY <4>1
    <3>2. result.verdict = "ok" => confirmed'
      BY <1>4 DEF Judge, Confirm, Framed
    <3> QED
      BY <2>1, <3>1, <3>2 DEF EvidenceInv
  <2>5. declined' = "failed" =>
          \E t \in tried' : t[2] = "undecodable" /\ \A u \in tried' : u[1].lo <= t[1].lo
    <3> SUFFICES ASSUME declined' = "failed"
                 PROVE  \E t \in tried : t[2] = "undecodable" /\ \A u \in tried : u[1].lo <= t[1].lo
      BY <2>1
    <3>1. result.verdict = "undecodable"
      BY <1>4, <2>1, DecisionGoesOn DEF Drives, EndOfStream
    <3>2. PICK t \in tried : t = <<datagram, result.verdict>>
      BY <2>1
    <3>3. t[1] = datagram /\ t[2] = "undecodable"
      BY <3>1, <3>2
    <3> QED
      BY <2>1, <3>3
  <2> QED
    BY <2>1, <2>2, <2>3, <2>4, <2>5 DEF EvidenceInv
<1>5. CASE EndOfStream
  <2>1. /\ UNCHANGED <<originals, tried, held>> /\ pc = "next" /\ pc' = "flush" /\ Decided'
    BY <1>5, FinishDecides DEF EndOfStream, history
  <2>2. confirmed' => originals' = {} \/ \E t \in tried' : t[2] = "ok"
    <3>1. CASE confirmed
      BY <2>1, <3>1 DEF EvidenceInv
    <3>2. CASE confirmed' /\ ~confirmed
      <4>1. ~Tried
        BY <1>5, <2>1, <3>2, DecisionGoesOn DEF Drives, Judge
      <4>2. ~Decided /\ declined = "no"
        <5>1. Decided => confirmed' = confirmed
          BY <1>5, DecisionGoesOn DEF Drives
        <5> QED
          BY <3>2, <5>1 DEF Decided, TypeOK, WriterTypeOK
      <4>3. tried = {}
        BY <4>1, <4>2 DEF EvidenceInv
      <4> QED
        BY <2>1, <4>2, <4>3 DEF TriedInv
    <3> QED
      BY <3>1, <3>2
  <2>3. ~confirmed' => \A t \in tried' : t[2] # "ok"
    <3>1. confirmed => confirmed'
      BY <1>5, DecisionGoesOn DEF Drives, Decided
    <3> QED
      BY <2>1, <3>1 DEF EvidenceInv
  <2>4. declined' = "failed" => declined = "failed"
    <3>1. Decided => declined' = declined
      BY <1>5, DecisionGoesOn DEF Drives
    <3>2. ~Decided => declined' # "failed"
      BY <1>5, <2>1, DecisionGoesOn DEF Drives, Judge, Decided
    <3> QED
      BY <3>1, <3>2
  <2> QED
    BY <2>1, <2>2, <2>3, <2>4 DEF EvidenceInv
<1>6. CASE LastFlush \/ PutInFile
  <2>1. /\ UNCHANGED <<originals, tried, result, decision>> /\ Decided
        /\ pc' = pc \/ (pc = "flush" /\ pc' = "done")
    BY <1>6 DEF LastFlush, PutInFile, PutNext, history, driver, StageInv
  <2> QED
    BY <2>1 DEF EvidenceInv, decision, Decided
<1>7. CASE UNCHANGED vars
  BY <1>7 DEF vars, writerVars, driver, history, EvidenceInv, Decided, Tried
<1> QED
  BY <1>2, <1>3, <1>4, <1>5, <1>6, <1>7 DEF Next

LEMMA TriesMean ==
  ASSUME Settled, TriedInv, EvidenceInv
  PROVE  EachIsTried
<1> DEFINE triedOnes == {t[1] : t \in tried}
           whole == {t \in tried : t[2] = "ok"}
<1> SUFFICES ASSUME pc = "done"
             PROVE  /\ declined # "failed" => triedOnes = originals
                    /\ declined = "failed" => \E t \in tried :
                         t[2] = "undecodable" /\ \A d \in triedOnes : d.lo <= t[1].lo
                    /\ confirmed => whole # {} \/ originals = {}
                    /\ declined # "no" => whole = {}
  BY DEF EachIsTried
<1>1. declined # "failed" => triedOnes = originals
  BY DEF TriedInv
<1>2. declined = "failed" => \E t \in tried :
        t[2] = "undecodable" /\ \A d \in triedOnes : d.lo <= t[1].lo
  BY DEF EvidenceInv
<1>3. confirmed => whole # {} \/ originals = {}
  BY DEF EvidenceInv
<1>4. declined # "no" => whole = {}
  BY DEF EvidenceInv, Settled, StageInv
<1> QED
  BY <1>1, <1>2, <1>3, <1>4

LEMMA CopiedAlways ==
  ASSUME Orderly
  PROVE  Spec => [](Settled /\ BelievedInv /\ RefusedInv /\ CopyInv)
<1>1. Settled /\ BelievedInv /\ RefusedInv /\ CopyInv /\ [Next]_vars => CopyInv'
  BY CopyNext
<1> QED
  BY <1>1, AccountedAlways, CopyInit, PTL DEF Spec

LEMMA EvidenceAlways == Spec => [](Settled /\ TriedInv /\ EvidenceInv)
<1>1. Settled /\ TriedInv /\ [Next]_vars => TriedInv'
  BY TriedNext
<1>2. Settled /\ Settled' /\ TriedInv /\ TriedInv' /\ EvidenceInv /\ [Next]_vars => EvidenceInv'
  BY EvidenceNext
<1> QED
  BY <1>1, <1>2, SettledAlways, TriedInit, PTL DEF Spec

(* Each datagram stands alone: whatever the others turned out to be, every *)
(* byte of it is cited or named, once; a datagram is tried unless one      *)
(* before it showed that the stream is in another protocol; the stream is  *)
(* believed exactly when one decoded whole or there was none to try; and   *)
(* of a copy nothing is decoded, it is named as one or with the stream     *)
(* that was declined.                                                      *)
THEOREM EachStandsAlone ==
  ASSUME Orderly
  PROVE  Spec => []DatagramsStandAlone
<1>1. Settled /\ BelievedInv /\ RefusedInv /\ CopyInv /\ TriedInv /\ EvidenceInv
        => DatagramsStandAlone
  BY AccountsMean, CopiesMean, TriesMean DEF DatagramsStandAlone, Settled
<1> QED
  BY <1>1, CopiedAlways, EvidenceAlways, PTL

-----------------------------------------------------------------------------
(***************************************************************************)
(* A declined stream keeps no record.                                      *)
(***************************************************************************)
LEMMA RefusalInit == Init => RefusalInv
BY DEF Init, WriterInit, RefusalInv

LEMMA RefusalNext ==
  ASSUME Settled, RefusalInv, [Next]_vars
  PROVE  RefusalInv'
<1> USE DEF Settled
<1>0. WriterTypeOK
  BY DEF TypeOK
<1>1. CASE Drives
  <2>1. UNCHANGED file
    BY <1>1, DriverAdds
  <2>2. CASE Decided
    <3>1. declined' = declined
      BY <1>1, <2>2, DecisionGoesOn
    <3> QED
      BY <2>1, <3>1 DEF RefusalInv, Refusal, file
  <2>3. CASE ~Decided
    BY <2>1, <2>3 DEF StageInv, RefusalInv, file
  <2> QED
    BY <2>2, <2>3
<1>2. CASE LastFlush
  BY <1>0, <1>2, RefusalFlush DEF LastFlush, decision
<1>3. CASE PutInFile
  BY <1>0, <1>3, RefusalPut DEF PutInFile
<1>4. CASE UNCHANGED vars
  BY <1>4 DEF vars, writerVars, RefusalInv, Refusal
<1> QED
  BY <1>1, <1>2, <1>3, <1>4 DEF Next, Drives

-----------------------------------------------------------------------------
(***************************************************************************)
(* The refinement.  Reading a datagram is the promise's Read, or nothing   *)
(* when the datagram is empty, a decision its Decide, and an entry put in  *)
(* the file, or the last flush, its Account.                               *)
(***************************************************************************)
Kept == Settled /\ BelievedInv /\ RefusedInv /\ RefusalInv

LEMMA PromiseInit == Init => Promise!Init
<1>1. 0 .. 0 - 1 = {}
  OBVIOUS
<1> QED
  BY <1>1 DEF Init, WriterInit, Promise!Init, Stance, Cited, Named

(* What is not written maps to no change of the promise.                   *)
LEMMA SameFile ==
  ASSUME Kept, pos' \in Nat, pos <= pos', UNCHANGED out
  PROVE  Cited(pos)' = Cited(pos) /\ Named(pos)' = Named(pos)
<1>1. \A b \in Nat : Citing(b)' = Citing(b) /\ Naming(b)' = Naming(b)
  BY DEF Citing, Naming, IsRecord
<1>2. \A b \in Nat : Citing(b) # {} \/ Naming(b) # {} => b < pos
  BY AccountsMean DEF Kept
<1>3. pos \in Nat
  BY DEF Kept, Settled, TypeOK
<1>4. \A b : b \in 0 .. pos - 1 <=> b \in Nat /\ b < pos
  BY <1>3
<1>5. \A b : b \in 0 .. pos' - 1 <=> b \in Nat /\ b < pos'
  OBVIOUS
<1>6. \A b \in Nat : b < pos => b < pos'
  BY <1>3
<1> QED
  BY <1>1, <1>2, <1>4, <1>5, <1>6 DEF Cited, Named

(* Reading a datagram is reading, or nothing when it is empty.             *)
LEMMA PromiseReads ==
  ASSUME Kept, ReadCopy \/ SkipDatagram \/ ReadDatagram
  PROVE  Promise!Read \/ UNCHANGED Promise!vars
<1>1. pos \in Nat /\ pos' \in Nat /\ pos <= pos'
  BY ReadsOn DEF Kept, Settled
<1>2. UNCHANGED decision /\ out' = out /\ pc # "done" /\ pc' # "done"
  BY DEF ReadCopy, SkipDatagram, ReadDatagram, Reading, file
<1>3. Cited(pos)' = Cited(pos) /\ Named(pos)' = Named(pos)
  BY <1>1, <1>2, SameFile
<1>4. Stance' = Stance
  BY <1>2 DEF Stance, decision
<1>5. CASE pos' = pos
  BY <1>2, <1>3, <1>4, <1>5 DEF Promise!vars
<1>6. CASE pos' # pos
  <2>1. pos' > pos
    BY <1>1, <1>6
  <2> QED
    BY <1>1, <1>2, <1>3, <1>4, <2>1 DEF Promise!Read
<1> QED
  BY <1>5, <1>6

(* A verdict decides, or changes nothing the promise speaks of.            *)
LEMMA PromiseDecides ==
  ASSUME Kept, Judge \/ EndOfStream
  PROVE  Promise!Decide \/ UNCHANGED Promise!vars
<1>0. Drives /\ TypeOK /\ StageInv
  BY DEF Drives, Kept, Settled
<1>1. out' = out /\ pos' = pos /\ pos \in Nat /\ pc # "done" /\ pc' # "done"
  BY <1>0 DEF Judge, EndOfStream, file, TypeOK
<1>2. Cited(pos)' = Cited(pos) /\ Named(pos)' = Named(pos)
  <2>1. pos' \in Nat /\ pos <= pos'
    BY <1>1
  <2> QED
    BY <1>1, <2>1, SameFile
<1>3. CASE Stance' = Stance
  BY <1>1, <1>2, <1>3 DEF Promise!vars
<1>4. CASE Stance' # Stance
  <2>1. ~Decided
    <3>1. Decided => UNCHANGED <<confirmed, declined>>
      BY <1>0, DecisionGoesOn
    <3> QED
      BY <1>4, <3>1 DEF Stance
  <2>2. Stance = "undecided" /\ Stance' \in {"confirmed", "declined"}
    BY <1>4, <2>1 DEF Stance, Decided
  <2> QED
    BY <1>1, <1>2, <2>2 DEF Promise!Decide
<1> QED
  BY <1>3, <1>4

(* Writing blocks accounts for bytes and takes none back.                  *)
LEMMA PromiseAccounts ==
  ASSUME Kept, Kept', LastFlush \/ PutInFile
  PROVE  Promise!Account
<1>0. WriterTypeOK /\ pos \in Nat /\ pos' = pos /\ UNCHANGED decision /\ Decided
  BY DEF Kept, Settled, StageInv, TypeOK, LastFlush, PutInFile, PutNext, driver
<1>1. pc # "done"
  BY DEF Kept, Settled, StageInv, LastFlush, PutInFile, PutNext
<1>2. \A i \in DOMAIN out : i \in DOMAIN out' /\ out'[i] = out[i]
  BY <1>0, FileGrows DEF LastFlush, PutInFile
<1>3. Cited(pos) \subseteq Cited(pos)' /\ Named(pos) \subseteq Named(pos)'
  <2>1. \A b : Citing(b) \subseteq Citing(b)' /\ Naming(b) \subseteq Naming(b)'
    BY <1>2 DEF Citing, Naming, IsRecord
  <2> QED
    BY <1>0, <2>1 DEF Cited, Named
<1>4. CitedOrNamed'
  BY AccountsMean, PTL DEF Kept
<1>5. Cited(pos)' \cap Named(pos)' = {}
  BY <1>4 DEF CitedOrNamed, Cited, Named
<1>6. Cited(pos)' \cup Named(pos)' \subseteq 0 .. pos - 1
  BY <1>0 DEF Cited, Named
<1>7. (pc = "done")' => Cited(pos)' \cup Named(pos)' = 0 .. pos - 1
  BY <1>0, <1>4 DEF CitedOrNamed
<1>8. Stance # "undecided" /\ Stance' = Stance
  BY <1>0 DEF Stance, decision, Decided
<1>9. Stance = "declined" => Cited(pos)' = {}
  <2> SUFFICES ASSUME declined # "no" PROVE Cited(pos)' = {}
    BY DEF Stance
  <2>1. declined' # "no"
    BY <1>0 DEF decision
  <2>2. \A i \in DOMAIN out' : ~IsRecord(i)'
    BY <2>1 DEF Kept, RefusalInv, Refusal, IsRecord
  <2> QED
    BY <2>2 DEF Cited, Citing
<1> QED
  BY <1>0, <1>1, <1>3, <1>5, <1>6, <1>7, <1>8, <1>9 DEF Promise!Account

LEMMA PromiseNext == Kept /\ Kept' /\ [Next]_vars => [Promise!Next]_(Promise!vars)
<1> SUFFICES ASSUME Kept, Kept', [Next]_vars PROVE Promise!Next \/ UNCHANGED Promise!vars
  OBVIOUS
<1>1. CASE UNCHANGED vars
  BY <1>1 DEF vars, writerVars, driver, Promise!vars, Stance, Cited, Named, Citing, Naming, IsRecord
<1>2. CASE ReadCopy \/ SkipDatagram \/ ReadDatagram
  BY <1>2, PromiseReads DEF Promise!Next
<1>3. CASE LastFlush \/ PutInFile
  BY <1>3, PromiseAccounts DEF Promise!Next
<1>4. CASE Judge \/ EndOfStream
  BY <1>4, PromiseDecides DEF Promise!Next
<1> QED
  BY <1>1, <1>2, <1>3, <1>4 DEF Next

(* The datagram stage keeps what every stage promises: mapped to what the  *)
(* file says of each byte, each of its steps is one that StagePromise      *)
(* allows, or none at all.                                                 *)
THEOREM PromiseKept ==
  ASSUME Orderly
  PROVE  Spec => KeepsItsPromise
<1>1. Settled /\ RefusalInv /\ [Next]_vars => RefusalInv'
  BY RefusalNext
<1>2. Spec => []Kept
  BY <1>1, RefusalInit, AccountedAlways, PTL DEF Kept, Spec
<1> QED
  BY <1>2, PromiseInit, PromiseNext, PTL DEF Spec, KeepsItsPromise
=============================================================================
