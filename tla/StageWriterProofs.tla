-------------------------- MODULE StageWriterProofs --------------------------
(***************************************************************************)
(* Facts about messages and about the writer that the proofs of both       *)
(* drivers use, for every extent, granularity and set of quirks.           *)
(***************************************************************************)
EXTENDS StageWriter, FiniteSetTheorems, TLAPS

(* What a message over [a, b) is told to write is well formed, and its     *)
(* records begin inside it.                                                *)
RecordsBegin(w, a, b) ==
  \A i \in DOMAIN w : w[i].op = "record" => w[i].lo \in a .. b

Inside(a, b) == {w \in Seq(WriteType) : RecordsBegin(w, a, b)}

LEMMA RecordType ==
  ASSUME NEW lo \in Nat, NEW hi \in Nat
  PROVE  Record(lo, hi) \in WriteType /\ Record(lo, hi).lo = lo
BY DEF Record, Write, WriteType, Ops, Comments

LEMMA UndecodedType ==
  ASSUME NEW lo \in Nat, NEW hi \in Nat, NEW r \in Reasons
  PROVE  Undecoded(lo, hi, r) \in WriteType /\ Undecoded(lo, hi, r).op # "record"
BY DEF Undecoded, Write, WriteType, Ops, Comments

LEMMA NamedAsReasons ==
  ASSUME NEW v \in Verdicts
  PROVE  NamedAs(v) \subseteq Reasons
BY DEF NamedAs, Verdicts, Reasons

LEMMA InsideOne ==
  ASSUME NEW a, NEW b, NEW u \in WriteType, u.op = "record" => u.lo \in a .. b
  PROVE  <<u>> \in Inside(a, b) /\ NonEmpty(u) \in Inside(a, b)
<1>1. <<u>> \in Inside(a, b)
  BY DEF Inside, RecordsBegin
<1>2. <<>> \in Inside(a, b)
  BY DEF Inside, RecordsBegin
<1>3. QED
  BY <1>1, <1>2 DEF NonEmpty

LEMMA InsideBoth ==
  ASSUME NEW a, NEW b, NEW s \in Inside(a, b), NEW t \in Inside(a, b)
  PROVE  s \o t \in Inside(a, b)
<1>1. s \in Seq(WriteType) /\ t \in Seq(WriteType)
  BY DEF Inside
<1>2. ASSUME NEW i \in DOMAIN (s \o t), (s \o t)[i].op = "record"
      PROVE  (s \o t)[i].lo \in a .. b
  <2>1. CASE i <= Len(s)
    BY <1>1, <1>2, <2>1 DEF Inside, RecordsBegin
  <2>2. CASE i > Len(s)
    <3>1. i - Len(s) \in DOMAIN t /\ (s \o t)[i] = t[i - Len(s)]
      BY <1>1, <2>2
    <3>2. QED
      BY <1>2, <3>1 DEF Inside, RecordsBegin
  <2>3. QED
    BY <1>1, <2>1, <2>2
<1>3. s \o t \in Seq(WriteType)
  BY <1>1
<1>4. RecordsBegin(s \o t, a, b)
  BY <1>2 DEF RecordsBegin
<1>5. QED
  BY <1>3, <1>4 DEF Inside

(* A message at field granularity that keeps no record.                    *)
LEMMA NoRecordInside ==
  ASSUME NEW a \in Nat, NEW b \in Nat, NEW v \in Verdicts, NEW w \in NoRecord(a, b, v)
  PROVE  w \in Inside(a, b)
<1>1. PICK m \in a .. b, r \in NamedAs(v), s \in NamedAs(v) :
             w = NonEmpty(Undecoded(a, m, r)) \o NonEmpty(Undecoded(m, b, s))
  BY DEF NoRecord
<1>2. r \in Reasons /\ s \in Reasons /\ m \in Nat
  BY NamedAsReasons
<1>3. /\ Undecoded(a, m, r) \in WriteType /\ Undecoded(a, m, r).op # "record"
      /\ Undecoded(m, b, s) \in WriteType /\ Undecoded(m, b, s).op # "record"
  BY <1>2, UndecodedType
<1>4. NonEmpty(Undecoded(a, m, r)) \in Inside(a, b) /\ NonEmpty(Undecoded(m, b, s)) \in Inside(a, b)
  BY <1>3, InsideOne
<1>5. QED
  BY <1>1, <1>4, InsideBoth

LEMMA UnorderedInside ==
  ASSUME NEW a \in Nat, NEW b \in Nat, NEW v \in Verdicts, NEW w \in Unordered(a, b, v)
  PROVE  w \in Inside(a, b)
<1>1. PICK m \in a .. b, r \in NamedAs(v), s \in NamedAs(v) :
             w = NonEmpty(Undecoded(m, b, s)) \o NonEmpty(Undecoded(a, m, r))
  BY DEF Unordered
<1>2. r \in Reasons /\ s \in Reasons /\ m \in Nat
  BY NamedAsReasons
<1>3. /\ Undecoded(a, m, r) \in WriteType /\ Undecoded(a, m, r).op # "record"
      /\ Undecoded(m, b, s) \in WriteType /\ Undecoded(m, b, s).op # "record"
  BY <1>2, UndecodedType
<1>4. NonEmpty(Undecoded(a, m, r)) \in Inside(a, b) /\ NonEmpty(Undecoded(m, b, s)) \in Inside(a, b)
  BY <1>3, InsideOne
<1>5. QED
  BY <1>1, <1>4, InsideBoth

(* One that keeps a record, whichever side of it is left over.             *)
LEMMA RecordInside ==
  ASSUME NEW a \in Nat, NEW b \in Nat, a <= b, NEW v \in Verdicts,
         NEW w \in RecordFirst(a, b, v) \cup RecordLast(a, b, v)
  PROVE  w \in Inside(a, b)
<1>1. ASSUME NEW m \in a .. b, NEW r \in NamedAs(v)
      PROVE  /\ <<Record(a, m)>> \o NonEmpty(Undecoded(m, b, r)) \in Inside(a, b)
             /\ <<Record(m, b)>> \o NonEmpty(Undecoded(a, m, r)) \in Inside(a, b)
  <2>1. r \in Reasons /\ m \in Nat /\ a \in a .. b
    BY NamedAsReasons
  <2>2. <<Record(a, m)>> \in Inside(a, b) /\ <<Record(m, b)>> \in Inside(a, b)
    BY <2>1, RecordType, InsideOne
  <2>3. /\ Undecoded(a, m, r) \in WriteType /\ Undecoded(a, m, r).op # "record"
        /\ Undecoded(m, b, r) \in WriteType /\ Undecoded(m, b, r).op # "record"
    BY <2>1, UndecodedType
  <2>4. NonEmpty(Undecoded(a, m, r)) \in Inside(a, b) /\ NonEmpty(Undecoded(m, b, r)) \in Inside(a, b)
    BY <2>3, InsideOne
  <2>5. QED
    BY <2>2, <2>4, InsideBoth
<1>2. CASE w \in RecordFirst(a, b, v)
  <2>1. PICK m \in a .. b, r \in NamedAs(v) :
               w = <<Record(a, m)>> \o NonEmpty(Undecoded(m, b, r))
    BY <1>2 DEF RecordFirst
  <2>2. <<Record(a, m)>> \o NonEmpty(Undecoded(m, b, r)) \in Inside(a, b)
    BY <1>1
  <2>3. QED
    BY <2>1, <2>2
<1>3. CASE w \in RecordLast(a, b, v)
  <2>1. PICK m \in a .. b, r \in NamedAs(v) :
               w = <<Record(m, b)>> \o NonEmpty(Undecoded(a, m, r))
    BY <1>3, SMTT(30) DEF RecordLast
  <2>2. <<Record(m, b)>> \o NonEmpty(Undecoded(a, m, r)) \in Inside(a, b)
    BY <1>1
  <2>3. QED
    BY <2>1, <2>2
<1>4. QED
  BY <1>2, <1>3

LEMMA WritesInside ==
  ASSUME NEW a \in Nat, NEW b \in Nat, a <= b, NEW v \in Verdicts,
         NEW w \in Writes(a, b, v)
  PROVE  w \in Inside(a, b)
<1>1. CASE w \in FieldWrites(a, b, v)
  BY <1>1, RecordInside, NoRecordInside, UnorderedInside DEF FieldWrites
<1>2. CASE w \in MessageWrites(a, b, v)
  <2>1. CASE v \in Framed
    <3>1. w = NonEmpty(Record(a, b)) /\ a \in a .. b
      BY <1>2, <2>1 DEF MessageWrites
    <3>2. QED
      BY <3>1, RecordType, InsideOne
  <2>2. CASE v \notin Framed
    <3>1. w = NonEmpty(Undecoded(a, b, v)) /\ v \in Reasons
      BY <1>2, <2>2 DEF MessageWrites, Framed, Verdicts, Reasons
    <3>2. QED
      BY <3>1, UndecodedType, InsideOne
  <2>3. QED
    BY <2>1, <2>2
<1>3. CASE w = NonEmpty(Undecoded(a, b, "skipped"))
  <2>1. "skipped" \in Reasons
    BY DEF Reasons
  <2>2. QED
    BY <1>3, <2>1, UndecodedType, InsideOne
<1>4. QED
  BY <1>1, <1>2, <1>3 DEF Writes

(* What a step may return.                                                 *)
LEMMA OutcomesType ==
  ASSUME NEW a \in 0 .. Extent, NEW b \in 0 .. Extent, a <= b,
         NEW o \in Outcomes(a, b)
  PROVE  /\ o \in ResultType
         /\ a <= o.next /\ o.next <= o.stop /\ o.stop <= b
         /\ o.reach # NoOffset => o.reach > b
         /\ o.verdict # "truncated" => o.reach = NoOffset
         /\ o.writes \in Inside(a, o.stop)
<1> USE ExtentAssumption DEF MaxReach, NoOffset
<1>1. ASSUME NEW stop \in a .. b, NEW v \in Verdicts, NEW w \in Writes(a, stop, v)
      PROVE  w \in Inside(a, stop) /\ w \in Seq(WriteType)
  BY WritesInside DEF Inside
<1>2. PICK stop \in a .. b : \/ \E v \in Framed : o \in FramedAt(a, stop, v)
                             \/ o \in UndecodableAt(a, stop)
                             \/ o \in TruncatedAt(a, stop, b)
  BY DEF Outcomes, TransformAt, Framed
<1>3. ASSUME NEW v \in Framed, o \in FramedAt(a, stop, v)
      PROVE  /\ o \in ResultType
             /\ a <= o.next /\ o.next <= o.stop /\ o.stop <= b
             /\ o.reach = NoOffset
             /\ o.verdict # "truncated"
             /\ o.writes \in Inside(a, o.stop)
  <2>1. PICK n \in NextStarts(a, stop), w \in Writes(a, stop, v) :
               o = Outcome(v, stop, n, FALSE, NoOffset, w)
    BY <1>3 DEF FramedAt, Outcome
  <2>2. v \in Verdicts /\ v # "truncated"
    BY DEF Framed, Verdicts
  <2>3. n \in 0 .. Extent /\ a <= n /\ n <= stop
    BY DEF NextStarts
  <2>4. QED
    BY <1>1, <2>1, <2>2, <2>3 DEF Outcome, ResultType
<1>4. CASE o \in UndecodableAt(a, stop)
  <2>1. PICK f \in BOOLEAN, w \in Writes(a, stop, "undecodable") :
               o = Outcome("undecodable", stop, stop, f, NoOffset, w)
    BY <1>4 DEF UndecodableAt, Outcome
  <2>2. QED
    BY <1>1, <2>1 DEF Outcome, ResultType, Verdicts
<1>5. CASE o \in TruncatedAt(a, stop, b)
  <2>1. PICK r \in {NoOffset} \cup (b + 1) .. MaxReach, w \in Writes(a, stop, "truncated") :
               o = Outcome("truncated", stop, stop, FALSE, r, w)
    BY <1>5 DEF TruncatedAt, Outcome
  <2>2. QED
    BY <1>1, <2>1 DEF Outcome, ResultType, Verdicts
<1>6. QED
  BY <1>2, <1>3, <1>4, <1>5

-----------------------------------------------------------------------------
(* What the driver puts in line is well formed.                            *)
LEMMA CallsType ==
  ASSUME NEW lo \in Nat, NEW hi \in Nat
  PROVE  /\ Begin(lo, hi) \in Seq(WriteType)
         /\ GapCall(lo, hi) \in Seq(WriteType)
         /\ SkipCall(lo, hi) \in Seq(WriteType)
         /\ CopyCall(lo, hi) \in Seq(WriteType)
         /\ \A r \in Reasons, c \in Comments : Note(lo, hi, r, c) \in Seq(WriteType)
<1>1. \A op \in Ops, r \in Reasons \cup {"none"}, c \in Comments :
        <<Write(op, lo, hi, r, c)>> \in Seq(WriteType)
  BY DEF Write, WriteType
<1>2. Begin(lo, hi) \in Seq(WriteType)
  BY <1>1 DEF Begin, Ops, Comments
<1>3. /\ GapCall(lo, hi) \in Seq(WriteType)
      /\ SkipCall(lo, hi) \in Seq(WriteType)
      /\ CopyCall(lo, hi) \in Seq(WriteType)
  BY <1>1 DEF GapCall, SkipCall, CopyCall, Ops, Reasons, Comments
<1>4. \A r \in Reasons, c \in Comments : Note(lo, hi, r, c) \in Seq(WriteType)
  BY <1>1 DEF Note, Ops
<1>5. QED
  BY <1>2, <1>3, <1>4

(* Writing the pending region leaves the file well formed.                 *)
LEMMA FlushType ==
  ASSUME WriterTypeOK
  PROVE  Flushed \in Seq(BlockType) /\ FlushedSeam \in Seams
<1>1. Block(pending, "none") \in BlockType
  BY DEF WriterTypeOK, Block, RegionType, BlockType, Seams
<1>2. Flushed \in Seq(BlockType)
  BY <1>1 DEF Flushed, WriterTypeOK
<1>3. FlushedSeam \in Seams
  BY DEF FlushedSeam, SeamFor, Seams, Holes, WriterTypeOK
<1>4. QED
  BY <1>2, <1>3

(* The writer keeps its types.                                             *)
LEMMA PutRegionType ==
  ASSUME WriterTypeOK, NEW w \in RegionType, PutRegion(w)
  PROVE  pending' \in RegionType /\ seam' \in Seams /\ out' \in Seq(BlockType)
<1>1. CASE UNCHANGED file
  BY <1>1 DEF file, WriterTypeOK
<1>2. CASE pending' = Extended(w) /\ UNCHANGED <<seam, out>>
  <2>1. Extended(w) \in RegionType
    BY DEF Extended, WriterTypeOK, RegionType
  <2>2. QED
    BY <1>2, <2>1 DEF WriterTypeOK
<1>3. CASE pending' = w /\ out' = Flushed /\ seam' = FlushedSeam
  BY <1>3, FlushType
<1>4. QED
  BY <1>1, <1>2, <1>3 DEF PutRegion

(* An entry put in the file leaves the writer well formed.                 *)
LEMMA PutNextType ==
  ASSUME WriterTypeOK, PutNext
  PROVE  WriterTypeOK'
<1> DEFINE e == Head(held)
           FileOK == pending' \in RegionType /\ seam' \in Seams /\ out' \in Seq(BlockType)
<1>1. held \in Seq(WriteType) /\ held # <<>>
  BY DEF WriterTypeOK, PutNext
<1>2. e \in WriteType /\ Tail(held) \in Seq(WriteType)
  BY <1>1
<1>3. \A r \in Reasons \cup {"none"}, c \in Comments : As(e, r, c) \in RegionType
  BY <1>2 DEF As, Write, WriteType, RegionType
<1>4. ASSUME UNCHANGED file PROVE FileOK
  BY <1>4 DEF file, WriterTypeOK
<1>5. ASSUME e.op = "record" /\ PutRecord(e) PROVE FileOK
  <2>1. Block(e, FlushedSeam) \in BlockType
    BY <1>2, <1>5, FlushType DEF Block, WriteType, BlockType
  <2>2. NoRegion \in RegionType /\ "none" \in Seams
    BY DEF NoRegion, Undecoded, Write, RegionType, Seams, Comments
  <2>3. QED
    BY <1>5, <2>1, <2>2, FlushType DEF PutRecord
<1>6. ASSUME \E r \in Reasons \cup {"none"}, c \in Comments : PutRegion(As(e, r, c)) PROVE FileOK
  BY <1>3, <1>6, PutRegionType
<1>7. FileOK
  <2>1. CASE declined # "no"
    <3>1. declined \in Comments
      BY <2>1 DEF WriterTypeOK, Comments
    <3>2. PutDeclined(e)
      BY <2>1 DEF PutNext
    <3>3. QED
      BY <1>4, <1>6, <3>1, <3>2 DEF PutDeclined, Reasons, Comments
  <2>2. CASE declined = "no"
    <3>1. PutConfirmed(e)
      BY <2>2 DEF PutNext
    <3>2. e.reason \in Reasons \cup {"none"} /\ e.comment \in Comments
      BY <1>2 DEF WriteType
    <3>3. QED
      BY <1>4, <1>5, <1>6, <3>1, <3>2 DEF PutConfirmed
  <2>3. QED
    BY <2>1, <2>2
<1>8. QED
  BY <1>2, <1>7 DEF WriterTypeOK, PutNext, decision

(* So does the last flush.                                                 *)
LEMMA FlushKeepsType ==
  ASSUME WriterTypeOK, Flush, UNCHANGED <<decision, held>>
  PROVE  WriterTypeOK'
<1>1. NoRegion \in RegionType
  BY DEF NoRegion, Undecoded, Write, RegionType, Comments
<1>2. QED
  BY <1>1, FlushType DEF Flush, WriterTypeOK, decision

(* And so does a call put in line, whatever it says of the decision.       *)
LEMMA HoldType ==
  ASSUME WriterTypeOK, NEW calls \in Seq(WriteType), Hold(calls), UNCHANGED file,
         \/ UNCHANGED decision \/ Confirm \/ TransformFailed
         \/ \E r : Failed(r)
         \/ \E r : Lose(r)
  PROVE  WriterTypeOK'
<1>1. held' \in Seq(WriteType)
  BY DEF Hold, WriterTypeOK
<1>2. /\ confirmed' \in BOOLEAN /\ declined' \in {"no"} \cup Declines
      /\ lost' \in BOOLEAN /\ transformFailure' \in BOOLEAN
  <2>1. CASE UNCHANGED decision
    BY <2>1 DEF decision, WriterTypeOK
  <2>2. CASE Confirm
    BY <2>2 DEF Confirm, WriterTypeOK
  <2>3. CASE TransformFailed
    BY <2>3 DEF TransformFailed, WriterTypeOK
  <2>4. CASE \E r : Failed(r)
    BY <2>4 DEF Failed, Decline, Declines, decision, WriterTypeOK
  <2>5. CASE \E r : Lose(r)
    BY <2>5 DEF Lose, WriterTypeOK
  <2>6. QED
    BY <2>1, <2>2, <2>3, <2>4, <2>5
<1>3. QED
  BY <1>1, <1>2 DEF WriterTypeOK, file

LEMMA FinishType ==
  ASSUME WriterTypeOK, Finish, UNCHANGED <<held, file>>
  PROVE  WriterTypeOK'
<1>1. CASE UNCHANGED decision
  BY <1>1 DEF decision, file, WriterTypeOK
<1>2. CASE Confirm
  BY <1>2 DEF Confirm, file, WriterTypeOK
<1>3. CASE \E c \in Declines : Decline(c)
  BY <1>3 DEF Decline, file, WriterTypeOK
<1>4. QED
  BY <1>1, <1>2, <1>3 DEF Finish, Declines

LEMMA WriterInitType ==
  ASSUME WriterInit
  PROVE  WriterTypeOK
<1>1. NoRegion \in RegionType
  BY DEF NoRegion, Undecoded, Write, RegionType, Comments
<1>2. <<>> \in Seq(WriteType) /\ <<>> \in Seq(BlockType)
  OBVIOUS
<1>3. confirmed \in BOOLEAN /\ lost \in BOOLEAN /\ transformFailure \in BOOLEAN
  BY DEF WriterInit
<1>4. QED
  BY <1>1, <1>2, <1>3 DEF WriterInit, WriterTypeOK, Seams

-----------------------------------------------------------------------------
(* Where the records of a sequence of writes or of blocks begin.           *)
RecordsOf(s) == {b \in Nat : \E i \in DOMAIN s : s[i].op = "record" /\ s[i].lo = b}

LEMMA RecordsOfBoth ==
  ASSUME NEW s \in Seq(WriteType), NEW t \in Seq(WriteType)
  PROVE  RecordsOf(s \o t) \subseteq RecordsOf(s) \cup RecordsOf(t)
<1> SUFFICES ASSUME NEW i \in DOMAIN (s \o t), (s \o t)[i].op = "record"
             PROVE  (s \o t)[i].lo \in Nat => (s \o t)[i].lo \in RecordsOf(s) \cup RecordsOf(t)
  BY DEF RecordsOf
<1>1. CASE i <= Len(s)
  BY <1>1 DEF RecordsOf
<1>2. CASE i > Len(s)
  <2>1. i - Len(s) \in DOMAIN t /\ (s \o t)[i] = t[i - Len(s)]
    BY <1>2
  <2>2. QED
    BY <2>1 DEF RecordsOf
<1>3. QED
  BY <1>1, <1>2

LEMMA CallsKeepNoRecord ==
  ASSUME NEW lo, NEW hi, NEW r, NEW c
  PROVE  /\ RecordsOf(Begin(lo, hi)) = {} /\ RecordsOf(GapCall(lo, hi)) = {}
         /\ RecordsOf(SkipCall(lo, hi)) = {} /\ RecordsOf(CopyCall(lo, hi)) = {}
         /\ RecordsOf(Note(lo, hi, r, c)) = {} /\ RecordsOf(<<>>) = {}
BY DEF RecordsOf, Begin, GapCall, SkipCall, CopyCall, Note, Write

LEMMA RecordsOfInside ==
  ASSUME NEW a, NEW b, NEW w \in Inside(a, b)
  PROVE  RecordsOf(w) \subseteq a .. b
BY DEF Inside, RecordsBegin, RecordsOf

(* Putting an entry in line adds its records, and no other.                *)
LEMMA RecordsOfHold ==
  ASSUME WriterTypeOK, NEW calls \in Seq(WriteType), Hold(calls)
  PROVE  RecordsOf(held') \subseteq RecordsOf(held) \cup RecordsOf(calls)
BY RecordsOfBoth DEF Hold, WriterTypeOK

LEMMA RecordsOfAppend ==
  ASSUME NEW s \in Seq(BlockType), NEW e \in BlockType
  PROVE  RecordsOf(Append(s, e)) \subseteq
           RecordsOf(s) \cup (IF e.op = "record" THEN {e.lo} ELSE {})
<1> SUFFICES ASSUME NEW i \in DOMAIN Append(s, e), Append(s, e)[i].op = "record"
             PROVE  Append(s, e)[i].lo \in
                      RecordsOf(s) \cup (IF e.op = "record" THEN {e.lo} ELSE {})
  BY DEF RecordsOf
<1>1. CASE i = Len(s) + 1
  BY <1>1
<1>2. CASE i \in DOMAIN s
  <2>1. Append(s, e)[i] = s[i] /\ s[i] \in BlockType
    BY <1>2
  <2>2. s[i].lo \in Nat
    BY <2>1 DEF BlockType
  <2>3. QED
    BY <1>2, <2>1, <2>2 DEF RecordsOf
<1>3. QED
  BY <1>1, <1>2

LEMMA RecordsOfFlushed ==
  ASSUME WriterTypeOK
  PROVE  RecordsOf(Flushed) \subseteq RecordsOf(out)
<1>1. /\ Block(pending, "none") \in BlockType
      /\ Block(pending, "none").op # "record"
  BY DEF WriterTypeOK, Block, RegionType, BlockType, Seams
<1>2. QED
  BY <1>1, RecordsOfAppend DEF Flushed, WriterTypeOK

(* A record in the file was in line, or in the file before.                *)
LEMMA RecordsOfPut ==
  ASSUME WriterTypeOK, PutNext
  PROVE  /\ RecordsOf(held') \subseteq RecordsOf(held)
         /\ RecordsOf(out') \subseteq RecordsOf(out) \cup RecordsOf(held)
<1> DEFINE e == Head(held)
<1>1. held \in Seq(WriteType) /\ held # <<>> /\ e \in WriteType /\ held' = Tail(held)
  BY DEF WriterTypeOK, PutNext
<1>2. RecordsOf(held') \subseteq RecordsOf(held)
  <2>1. \A i \in DOMAIN held' : i + 1 \in DOMAIN held /\ held'[i] = held[i + 1]
    BY <1>1
  <2>2. QED
    BY <2>1 DEF RecordsOf
<1>3. CASE e.op = "record" /\ PutRecord(e)
  <2>1. Block(e, FlushedSeam) \in BlockType /\ Block(e, FlushedSeam).lo = e.lo
    BY <1>1, <1>3, FlushType DEF Block, WriteType, BlockType
  <2>2. e.lo \in RecordsOf(held)
    <3>1. 1 \in DOMAIN held /\ held[1] = e /\ e.lo \in Nat
      BY <1>1 DEF WriteType
    <3>2. QED
      BY <1>3, <3>1 DEF RecordsOf
  <2>3. RecordsOf(out') \subseteq RecordsOf(Flushed) \cup {e.lo}
    BY <1>3, <2>1, FlushType, RecordsOfAppend DEF PutRecord
  <2>4. QED
    BY <1>2, <2>2, <2>3, RecordsOfFlushed
<1>4. CASE out' = out \/ out' = Flushed
  BY <1>2, <1>4, RecordsOfFlushed
<1>5. QED
  BY <1>3, <1>4 DEF PutNext, PutConfirmed, PutDeclined, PutRegion, file

-----------------------------------------------------------------------------
(***************************************************************************)
(* What is said of each byte.  How an entry in line will be written        *)
(* depends on the decision: a declined stream keeps its runs and not what  *)
(* was written in them, any other stream what was written and not its runs.*)
(***************************************************************************)
Says(decline, e) ==
  IF decline THEN e.op \notin {"record", "undecoded"} ELSE e.op # "run"

Apart(u, v) == u.hi <= u.lo \/ v.hi <= v.lo \/ u.hi <= v.lo \/ v.hi <= u.lo

(* A record may come before a region to its left; regions come in order.   *)
Follows(u, v) ==
  /\ Apart(u, v)
  /\ u.op # "record" /\ v.op # "record" => u.hi <= v.lo

Between(u, a, b) == a <= u.lo /\ u.lo <= u.hi /\ u.hi <= b

InOrder(decline, s) ==
  \A i, j \in DOMAIN s :
    i < j /\ Says(decline, s[i]) /\ Says(decline, s[j]) => Follows(s[i], s[j])

(* What a sequence of calls says is all of [a, b), each byte once.         *)
Partition(decline, s, a, b) ==
  /\ \A i \in DOMAIN s : Says(decline, s[i]) => Between(s[i], a, b)
  /\ InOrder(decline, s)
  /\ \A x \in a .. b - 1 : \E i \in DOMAIN s : Says(decline, s[i]) /\ Covers(s[i], x)

(* The blocks o, the region p and what is in line, h, say of each byte     *)
(* before n one thing, and nothing of any other.                           *)
Account(decline, n, o, p, h) ==
  /\ \A i \in DOMAIN o : Between(o[i], 0, n)
  /\ Between(p, 0, n)
  /\ \A i \in DOMAIN h : Says(decline, h[i]) => Between(h[i], 0, n)
  /\ \A i, j \in DOMAIN o : i # j => Apart(o[i], o[j])
  /\ \A i \in DOMAIN o : Apart(o[i], p)
  /\ \A i \in DOMAIN h : Says(decline, h[i]) =>
        Follows(p, h[i]) /\ \A j \in DOMAIN o : Apart(o[j], h[i])
  /\ InOrder(decline, h)
  /\ \A x \in 0 .. n - 1 :
        \/ \E i \in DOMAIN o : Covers(o[i], x)
        \/ Covers(p, x)
        \/ \E i \in DOMAIN h : Says(decline, h[i]) /\ Covers(h[i], x)

LEMMA WriteFields ==
  /\ \A e \in WriteType : e.lo \in Nat /\ e.hi \in Nat
  /\ \A e \in RegionType : e.lo \in Nat /\ e.hi \in Nat /\ e.op = "undecoded"
  /\ \A e \in BlockType : e.lo \in Nat /\ e.hi \in Nat
BY DEF WriteType, RegionType, BlockType

(* Nothing is said by no call, or by calls the decision passes over.       *)
LEMMA PartitionNothing ==
  ASSUME NEW decline \in BOOLEAN, NEW s, \A i \in DOMAIN s : ~Says(decline, s[i]), NEW a \in Nat
  PROVE  Partition(decline, s, a, a)
<1>1. a .. a - 1 = {}
  OBVIOUS
<1> QED
  BY <1>1 DEF Partition, InOrder

LEMMA PartitionOne ==
  ASSUME NEW decline \in BOOLEAN, NEW e \in WriteType, Says(decline, e), e.lo <= e.hi
  PROVE  Partition(decline, <<e>>, e.lo, e.hi)
<1>1. e.lo \in Nat /\ e.hi \in Nat
  BY WriteFields
<1>2. \A x \in e.lo .. e.hi - 1 : Covers(e, x)
  BY <1>1 DEF Covers
<1> QED
  BY <1>1, <1>2 DEF Partition, InOrder, Between

LEMMA PartitionBoth ==
  ASSUME NEW decline \in BOOLEAN, NEW a \in Nat, NEW b \in Nat, NEW c \in Nat, a <= b, b <= c,
         NEW s \in Seq(WriteType), NEW t \in Seq(WriteType),
         Partition(decline, s, a, b), Partition(decline, t, b, c)
  PROVE  Partition(decline, s \o t, a, c)
<1> DEFINE u == s \o t
<1>0. u \in Seq(WriteType) /\ Len(u) = Len(s) + Len(t) /\ Len(s) \in Nat /\ Len(t) \in Nat
  OBVIOUS
<1>1. \A i \in DOMAIN s : i \in DOMAIN u /\ u[i] = s[i]
  OBVIOUS
<1>2. \A i \in DOMAIN t : i + Len(s) \in DOMAIN u /\ u[i + Len(s)] = t[i]
  OBVIOUS
<1>3. \A i \in DOMAIN u : \/ i \in DOMAIN s /\ u[i] = s[i]
                          \/ i > Len(s) /\ i - Len(s) \in DOMAIN t /\ u[i] = t[i - Len(s)]
  OBVIOUS
<1> HIDE DEF u
<1>4. \A i \in DOMAIN u : u[i].lo \in Nat /\ u[i].hi \in Nat
  BY <1>0, WriteFields
<1>5. ASSUME NEW i \in DOMAIN u, Says(decline, u[i])
      PROVE  Between(u[i], a, c)
  BY <1>3, <1>4, <1>5 DEF Partition, Between
<1>6. ASSUME NEW i \in DOMAIN u, NEW j \in DOMAIN u, i < j, Says(decline, u[i]), Says(decline, u[j])
      PROVE  Follows(u[i], u[j])
  <2>1. CASE i \in DOMAIN s /\ j \in DOMAIN s
    BY <1>1, <1>6, <2>1 DEF Partition, InOrder
  <2>2. CASE i \notin DOMAIN s /\ j \notin DOMAIN s
    <3>1. /\ i - Len(s) \in DOMAIN t /\ u[i] = t[i - Len(s)]
          /\ j - Len(s) \in DOMAIN t /\ u[j] = t[j - Len(s)]
          /\ i - Len(s) < j - Len(s)
      BY <1>0, <1>3, <1>6, <2>2
    <3> QED
      BY <1>6, <3>1 DEF Partition, InOrder
  <2>3. CASE i \in DOMAIN s /\ j \notin DOMAIN s
    <3>1. u[i].hi <= b /\ b <= u[j].lo
      BY <1>1, <1>3, <1>6, <2>3 DEF Partition, Between
    <3> QED
      BY <1>4, <1>6, <3>1 DEF Follows, Apart
  <2>4. CASE i \notin DOMAIN s /\ j \in DOMAIN s
    BY <1>0, <1>6, <2>4
  <2> QED
    BY <2>1, <2>2, <2>3, <2>4
<1>7. ASSUME NEW x \in a .. c - 1
      PROVE  \E i \in DOMAIN u : Says(decline, u[i]) /\ Covers(u[i], x)
  <2>1. CASE x < b
    BY <1>1, <2>1 DEF Partition
  <2>2. CASE x >= b
    BY <1>2, <2>2 DEF Partition
  <2> QED
    BY <2>1, <2>2
<1> QED
  BY <1>5, <1>6, <1>7 DEF Partition, InOrder, u

LEMMA AccountNothing ==
  ASSUME NEW d \in BOOLEAN
  PROVE  Account(d, 0, <<>>, NoRegion, <<>>)
<1>1. 0 .. 0 - 1 = {}
  OBVIOUS
<1> QED
  BY <1>1 DEF Account, NoRegion, Undecoded, Write, Between, InOrder

(* What a driver puts in line goes on where the account ended.             *)
LEMMA AccountMore ==
  ASSUME NEW decline \in BOOLEAN, NEW n \in Nat, NEW m \in Nat, n <= m,
         NEW o \in Seq(BlockType), NEW p \in RegionType,
         NEW h \in Seq(WriteType), NEW c \in Seq(WriteType),
         Account(decline, n, o, p, h), Partition(decline, c, n, m)
  PROVE  Account(decline, m, o, p, h \o c)
<1> DEFINE u == h \o c
<1>0. u \in Seq(WriteType) /\ Len(u) = Len(h) + Len(c) /\ Len(h) \in Nat /\ Len(c) \in Nat
  OBVIOUS
<1>1. \A i \in DOMAIN h : i \in DOMAIN u /\ u[i] = h[i]
  OBVIOUS
<1>2. \A i \in DOMAIN c : i + Len(h) \in DOMAIN u /\ u[i + Len(h)] = c[i]
  OBVIOUS
<1>3. \A i \in DOMAIN u : \/ i \in DOMAIN h /\ u[i] = h[i]
                          \/ i > Len(h) /\ i - Len(h) \in DOMAIN c /\ u[i] = c[i - Len(h)]
  OBVIOUS
<1> HIDE DEF u
<1>4. /\ \A i \in DOMAIN u : u[i].lo \in Nat /\ u[i].hi \in Nat
      /\ \A i \in DOMAIN o : o[i].lo \in Nat /\ o[i].hi \in Nat
      /\ p.lo \in Nat /\ p.hi \in Nat
  BY <1>0, WriteFields
<1>5. /\ \A i \in DOMAIN o : Between(o[i], 0, m)
      /\ Between(p, 0, m)
  BY <1>4 DEF Account, Between
<1>6. ASSUME NEW i \in DOMAIN u, Says(decline, u[i])
      PROVE  Between(u[i], 0, m)
  BY <1>3, <1>4, <1>6 DEF Account, Partition, Between
<1>7. ASSUME NEW i \in DOMAIN u, Says(decline, u[i])
      PROVE  Follows(p, u[i]) /\ \A j \in DOMAIN o : Apart(o[j], u[i])
  <2>1. CASE i \in DOMAIN h
    BY <1>1, <1>7, <2>1 DEF Account
  <2>2. CASE i \notin DOMAIN h
    <3>1. n <= u[i].lo
      BY <1>3, <1>7, <2>2 DEF Partition, Between
    <3>2. p.hi <= n /\ \A j \in DOMAIN o : o[j].hi <= n
      BY DEF Account, Between
    <3> QED
      BY <1>4, <3>1, <3>2 DEF Follows, Apart
  <2> QED
    BY <2>1, <2>2
<1>8. ASSUME NEW i \in DOMAIN u, NEW j \in DOMAIN u, i < j, Says(decline, u[i]), Says(decline, u[j])
      PROVE  Follows(u[i], u[j])
  <2>1. CASE i \in DOMAIN h /\ j \in DOMAIN h
    BY <1>1, <1>8, <2>1 DEF Account, InOrder
  <2>2. CASE i \notin DOMAIN h /\ j \notin DOMAIN h
    <3>1. /\ i - Len(h) \in DOMAIN c /\ u[i] = c[i - Len(h)]
          /\ j - Len(h) \in DOMAIN c /\ u[j] = c[j - Len(h)]
          /\ i - Len(h) < j - Len(h)
      BY <1>0, <1>3, <1>8, <2>2
    <3> QED
      BY <1>8, <3>1 DEF Partition, InOrder
  <2>3. CASE i \in DOMAIN h /\ j \notin DOMAIN h
    <3>1. u[i].hi <= n /\ n <= u[j].lo
      BY <1>1, <1>3, <1>8, <2>3 DEF Account, Partition, Between
    <3> QED
      BY <1>4, <3>1 DEF Follows, Apart
  <2>4. CASE i \notin DOMAIN h /\ j \in DOMAIN h
    BY <1>0, <1>8, <2>4
  <2> QED
    BY <2>1, <2>2, <2>3, <2>4
<1>9. ASSUME NEW x \in 0 .. m - 1
      PROVE  \/ \E i \in DOMAIN o : Covers(o[i], x)
             \/ Covers(p, x)
             \/ \E i \in DOMAIN u : Says(decline, u[i]) /\ Covers(u[i], x)
  <2>1. CASE x < n
    BY <1>1, <2>1 DEF Account
  <2>2. CASE x >= n
    BY <1>2, <2>2 DEF Partition
  <2> QED
    BY <2>1, <2>2
<1> QED
  BY <1>5, <1>6, <1>7, <1>8, <1>9 DEF Account, InOrder, u

LEMMA TailFacts ==
  ASSUME NEW h \in Seq(WriteType), h # <<>>
  PROVE  /\ Tail(h) \in Seq(WriteType) /\ Head(h) \in WriteType
         /\ 1 \in DOMAIN h /\ h[1] = Head(h)
         /\ \A i \in DOMAIN Tail(h) : i + 1 \in DOMAIN h /\ Tail(h)[i] = h[i + 1]
         /\ \A i \in DOMAIN h : i # 1 => i - 1 \in DOMAIN Tail(h) /\ Tail(h)[i - 1] = h[i]
OBVIOUS

LEMMA TailInOrder ==
  ASSUME NEW decline \in BOOLEAN, NEW h \in Seq(WriteType), h # <<>>, InOrder(decline, h)
  PROVE  /\ InOrder(decline, Tail(h))
         /\ \A i \in DOMAIN Tail(h) :
              Says(decline, Head(h)) /\ Says(decline, Tail(h)[i]) => Follows(Head(h), Tail(h)[i])
<1> DEFINE t == Tail(h)
           e == Head(h)
<1>1. /\ 1 \in DOMAIN h /\ h[1] = e
      /\ \A i \in DOMAIN t : i + 1 \in DOMAIN h /\ t[i] = h[i + 1]
  BY TailFacts
<1>2. \A i \in DOMAIN t : i \in Nat /\ 1 < i + 1
  OBVIOUS
<1> HIDE DEF t, e
<1>3. ASSUME NEW i \in DOMAIN t, NEW j \in DOMAIN t, i < j,
             Says(decline, t[i]), Says(decline, t[j])
      PROVE  Follows(t[i], t[j])
  <2>1. i + 1 < j + 1
    BY <1>2, <1>3
  <2> QED
    BY <1>1, <1>3, <2>1 DEF InOrder
<1>4. ASSUME NEW i \in DOMAIN t, Says(decline, e), Says(decline, t[i])
      PROVE  Follows(e, t[i])
  BY <1>1, <1>2, <1>4 DEF InOrder
<1> QED
  BY <1>3, <1>4 DEF InOrder, t, e

(* The pending region is written.                                          *)
LEMMA AccountFlushed ==
  ASSUME NEW decline \in BOOLEAN, NEW n \in Nat,
         NEW o \in Seq(BlockType), NEW p \in RegionType, NEW h \in Seq(WriteType),
         NEW b \in BlockType, b.lo = p.lo, b.hi = p.hi,
         Account(decline, n, o, p, h)
  PROVE  Account(decline, n, Append(o, b), NoRegion, h)
<1> DEFINE q == Append(o, b)
<1>1. q \in Seq(BlockType) /\ Len(q) = Len(o) + 1 /\ Len(o) \in Nat
  OBVIOUS
<1>2. \A i \in DOMAIN q : (i \in DOMAIN o /\ q[i] = o[i]) \/ (i = Len(o) + 1 /\ q[i] = b)
  OBVIOUS
<1>3. \A i \in DOMAIN o : i \in DOMAIN q /\ q[i] = o[i]
  OBVIOUS
<1>4. Len(o) + 1 \in DOMAIN q /\ q[Len(o) + 1] = b
  OBVIOUS
<1> HIDE DEF q
<1>5. /\ \A i \in DOMAIN o : o[i].lo \in Nat /\ o[i].hi \in Nat
      /\ \A i \in DOMAIN h : h[i].lo \in Nat /\ h[i].hi \in Nat
      /\ p.lo \in Nat /\ p.hi \in Nat
      /\ NoRegion.lo = 0 /\ NoRegion.hi = 0
  BY WriteFields DEF NoRegion, Undecoded, Write
<1>6. \A i \in DOMAIN q : Between(q[i], 0, n) /\ Apart(q[i], NoRegion)
  BY <1>2, <1>5 DEF Account, Between, Apart
<1>7. \A i, j \in DOMAIN q : i # j => Apart(q[i], q[j])
  BY <1>2, <1>5 DEF Account, Apart
<1>8. ASSUME NEW i \in DOMAIN h, Says(decline, h[i])
      PROVE  Follows(NoRegion, h[i]) /\ \A j \in DOMAIN q : Apart(q[j], h[i])
  <2>1. Follows(NoRegion, h[i])
    BY <1>5 DEF Follows, Apart
  <2>2. Follows(p, h[i]) /\ \A j \in DOMAIN o : Apart(o[j], h[i])
    BY <1>8 DEF Account
  <2>3. Apart(b, h[i])
    BY <2>2 DEF Follows, Apart
  <2> QED
    BY <1>2, <2>1, <2>2, <2>3
<1>9. ASSUME NEW x \in 0 .. n - 1
      PROVE  \/ \E i \in DOMAIN q : Covers(q[i], x)
             \/ \E i \in DOMAIN h : Says(decline, h[i]) /\ Covers(h[i], x)
  <2>1. CASE \E i \in DOMAIN o : Covers(o[i], x)
    BY <1>3, <2>1
  <2>2. CASE Covers(p, x)
    BY <1>4, <2>2 DEF Covers
  <2>3. CASE \E i \in DOMAIN h : Says(decline, h[i]) /\ Covers(h[i], x)
    BY <2>3
  <2> QED
    BY <2>1, <2>2, <2>3 DEF Account
<1>10. Between(NoRegion, 0, n)
  BY <1>5 DEF Between
<1> QED
  BY <1>6, <1>7, <1>8, <1>9, <1>10 DEF Account, q

(* The next entry says nothing.                                            *)
LEMMA AccountPassed ==
  ASSUME NEW decline \in BOOLEAN, NEW n \in Nat,
         NEW o \in Seq(BlockType), NEW p \in RegionType, NEW h \in Seq(WriteType), h # <<>>,
         ~Says(decline, Head(h)) \/ Head(h).hi <= Head(h).lo,
         Account(decline, n, o, p, h)
  PROVE  Account(decline, n, o, p, Tail(h))
<1> DEFINE t == Tail(h)
           e == Head(h)
<1>1. /\ e \in WriteType /\ 1 \in DOMAIN h /\ h[1] = e
      /\ \A i \in DOMAIN t : i + 1 \in DOMAIN h /\ t[i] = h[i + 1]
      /\ \A i \in DOMAIN h : i # 1 => i - 1 \in DOMAIN t /\ t[i - 1] = h[i]
  BY TailFacts
<1>2. e.lo \in Nat /\ e.hi \in Nat
  BY <1>1, WriteFields
<1>3. ~Says(decline, e) \/ e.hi <= e.lo
  OBVIOUS
<1> HIDE DEF t, e
<1>4. ASSUME NEW x \in 0 .. n - 1, NEW i \in DOMAIN h, Says(decline, h[i]), Covers(h[i], x)
      PROVE  \E k \in DOMAIN t : Says(decline, t[k]) /\ Covers(t[k], x)
  <2>1. i # 1
    BY <1>1, <1>2, <1>3, <1>4 DEF Covers
  <2> QED
    BY <1>1, <1>4, <2>1
<1>5. InOrder(decline, t)
  BY TailInOrder DEF Account, t
<1> QED
  BY <1>1, <1>4, <1>5 DEF Account, t

(* The next entry becomes the pending region.                              *)
LEMMA AccountRegion ==
  ASSUME NEW decline \in BOOLEAN, NEW n \in Nat,
         NEW o \in Seq(BlockType), NEW h \in Seq(WriteType), h # <<>>,
         Says(decline, Head(h)), Head(h).op # "record",
         NEW w \in RegionType, w.lo = Head(h).lo, w.hi = Head(h).hi,
         Account(decline, n, o, NoRegion, h)
  PROVE  Account(decline, n, o, w, Tail(h))
<1> DEFINE t == Tail(h)
           e == Head(h)
<1>1. /\ e \in WriteType /\ 1 \in DOMAIN h /\ h[1] = e
      /\ \A i \in DOMAIN t : i + 1 \in DOMAIN h /\ t[i] = h[i + 1]
      /\ \A i \in DOMAIN h : i # 1 => i - 1 \in DOMAIN t /\ t[i - 1] = h[i]
  BY TailFacts
<1>2. e.lo \in Nat /\ e.hi \in Nat /\ NoRegion.lo = 0 /\ NoRegion.hi = 0
  BY <1>1, WriteFields DEF NoRegion, Undecoded, Write
<1>3. Says(decline, e) /\ e.op # "record" /\ w.lo = e.lo /\ w.hi = e.hi /\ w.op = "undecoded"
  BY WriteFields
<1> HIDE DEF t, e
<1>4. Between(w, 0, n) /\ \A i \in DOMAIN o : Apart(o[i], w)
  BY <1>1, <1>2, <1>3 DEF Account, Between, Apart
<1>5. ASSUME NEW i \in DOMAIN t, Says(decline, t[i])
      PROVE  Follows(w, t[i]) /\ \A j \in DOMAIN o : Apart(o[j], t[i])
  <2>1. i + 1 \in DOMAIN h /\ t[i] = h[i + 1]
    BY <1>1
  <2>2. Follows(e, t[i])
    BY <1>3, <1>5, TailInOrder DEF Account, t, e
  <2> QED
    BY <1>3, <1>5, <2>1, <2>2 DEF Account, Follows, Apart
<1>6. InOrder(decline, t)
  BY TailInOrder DEF Account, t
<1>7. ASSUME NEW x \in 0 .. n - 1
      PROVE  \/ \E i \in DOMAIN o : Covers(o[i], x)
             \/ Covers(w, x)
             \/ \E i \in DOMAIN t : Says(decline, t[i]) /\ Covers(t[i], x)
  <2>1. ASSUME NEW i \in DOMAIN h, Says(decline, h[i]), Covers(h[i], x)
        PROVE  Covers(w, x) \/ \E k \in DOMAIN t : Says(decline, t[k]) /\ Covers(t[k], x)
    BY <1>1, <1>3, <2>1 DEF Covers
  <2>2. ~Covers(NoRegion, x)
    BY <1>2 DEF Covers
  <2> QED
    BY <2>1, <2>2 DEF Account
<1> QED
  BY <1>1, <1>4, <1>5, <1>6, <1>7 DEF Account, t

(* The next entry is written as a record.                                  *)
LEMMA AccountRecord ==
  ASSUME NEW decline \in BOOLEAN, NEW n \in Nat,
         NEW o \in Seq(BlockType), NEW h \in Seq(WriteType), h # <<>>,
         Says(decline, Head(h)),
         NEW b \in BlockType, b.lo = Head(h).lo, b.hi = Head(h).hi,
         Account(decline, n, o, NoRegion, h)
  PROVE  Account(decline, n, Append(o, b), NoRegion, Tail(h))
<1> DEFINE t == Tail(h)
           e == Head(h)
           q == Append(o, b)
<1>1. /\ e \in WriteType /\ 1 \in DOMAIN h /\ h[1] = e
      /\ \A i \in DOMAIN t : i + 1 \in DOMAIN h /\ t[i] = h[i + 1]
      /\ \A i \in DOMAIN h : i # 1 => i - 1 \in DOMAIN t /\ t[i - 1] = h[i]
  BY TailFacts
<1>2. Says(decline, e) /\ b.lo = e.lo /\ b.hi = e.hi
  OBVIOUS
<1>3. \A i \in DOMAIN q : (i \in DOMAIN o /\ q[i] = o[i]) \/ (i = Len(o) + 1 /\ q[i] = b)
  OBVIOUS
<1>4. /\ \A i \in DOMAIN o : i \in DOMAIN q /\ q[i] = o[i]
      /\ Len(o) + 1 \in DOMAIN q /\ q[Len(o) + 1] = b
  OBVIOUS
<1> HIDE DEF t, e, q
<1>5. /\ \A i \in DOMAIN o : o[i].lo \in Nat /\ o[i].hi \in Nat
      /\ \A i \in DOMAIN h : h[i].lo \in Nat /\ h[i].hi \in Nat
      /\ b.lo \in Nat /\ b.hi \in Nat
      /\ NoRegion.lo = 0 /\ NoRegion.hi = 0
  BY WriteFields DEF NoRegion, Undecoded, Write
<1>6. \A i \in DOMAIN q : Between(q[i], 0, n) /\ Apart(q[i], NoRegion)
  BY <1>1, <1>2, <1>3, <1>5 DEF Account, Between, Apart
<1>7. \A i, j \in DOMAIN q : i # j => Apart(q[i], q[j])
  <2>1. \A i \in DOMAIN o : Apart(o[i], b)
    BY <1>1, <1>2 DEF Account, Apart
  <2> QED
    BY <1>3, <1>5, <2>1 DEF Account, Apart
<1>8. ASSUME NEW i \in DOMAIN t, Says(decline, t[i])
      PROVE  Follows(NoRegion, t[i]) /\ \A j \in DOMAIN q : Apart(q[j], t[i])
  <2>1. i + 1 \in DOMAIN h /\ t[i] = h[i + 1]
    BY <1>1
  <2>2. Follows(e, t[i])
    BY <1>2, <1>8, TailInOrder DEF Account, t, e
  <2>3. Apart(b, t[i])
    BY <1>2, <2>2 DEF Follows, Apart
  <2> QED
    BY <1>3, <1>8, <2>1, <2>3 DEF Account
<1>9. InOrder(decline, t)
  BY TailInOrder DEF Account, t
<1>10. ASSUME NEW x \in 0 .. n - 1
       PROVE  \/ \E i \in DOMAIN q : Covers(q[i], x)
              \/ \E i \in DOMAIN t : Says(decline, t[i]) /\ Covers(t[i], x)
  <2>1. ASSUME NEW i \in DOMAIN h, Says(decline, h[i]), Covers(h[i], x)
        PROVE  Covers(b, x) \/ \E k \in DOMAIN t : Says(decline, t[k]) /\ Covers(t[k], x)
    BY <1>1, <1>2, <2>1 DEF Covers
  <2>2. ~Covers(NoRegion, x)
    BY <1>5 DEF Covers
  <2> QED
    BY <1>4, <2>1, <2>2 DEF Account
<1>11. Between(NoRegion, 0, n)
  BY <1>5 DEF Between
<1> QED
  BY <1>1, <1>6, <1>7, <1>8, <1>9, <1>10, <1>11 DEF Account, t, q

(* The next entry is joined to the pending region, which it meets.         *)
LEMMA AccountJoined ==
  ASSUME NEW decline \in BOOLEAN, NEW n \in Nat,
         NEW o \in Seq(BlockType), NEW h \in Seq(WriteType), h # <<>>,
         NEW p \in RegionType, NEW w \in RegionType,
         Says(decline, Head(h)), Head(h).op # "record",
         p.hi >= Head(h).lo, Head(h).lo < Head(h).hi,
         w.lo = p.lo, w.hi = IF Head(h).hi > p.hi THEN Head(h).hi ELSE p.hi,
         Account(decline, n, o, p, h)
  PROVE  Account(decline, n, o, w, Tail(h))
<1> DEFINE t == Tail(h)
           e == Head(h)
<1>1. /\ e \in WriteType /\ 1 \in DOMAIN h /\ h[1] = e
      /\ \A i \in DOMAIN t : i + 1 \in DOMAIN h /\ t[i] = h[i + 1]
      /\ \A i \in DOMAIN h : i # 1 => i - 1 \in DOMAIN t /\ t[i - 1] = h[i]
  BY TailFacts
<1>2. /\ e.lo \in Nat /\ e.hi \in Nat /\ p.lo \in Nat /\ p.hi \in Nat
      /\ p.op = "undecoded" /\ w.op = "undecoded"
      /\ \A i \in DOMAIN o : o[i].lo \in Nat /\ o[i].hi \in Nat
      /\ \A i \in DOMAIN h : h[i].lo \in Nat /\ h[i].hi \in Nat
  BY <1>1, WriteFields
<1>3. /\ Says(decline, e) /\ e.op # "record" /\ p.hi >= e.lo /\ e.lo < e.hi
      /\ w.lo = p.lo /\ w.hi = IF e.hi > p.hi THEN e.hi ELSE p.hi
  OBVIOUS
<1> HIDE DEF t, e
<1>4. p.hi <= e.lo
  BY <1>1, <1>2, <1>3 DEF Account, Follows
<1>5. p.hi = e.lo /\ w.hi = e.hi /\ p.lo <= p.hi
  BY <1>2, <1>3, <1>4 DEF Account, Between
<1>6. Between(w, 0, n)
  BY <1>1, <1>2, <1>3, <1>5 DEF Account, Between
<1>7. ASSUME NEW i \in DOMAIN o
      PROVE  Apart(o[i], w)
  <2>1. Apart(o[i], p) /\ Apart(o[i], e)
    BY <1>1, <1>3 DEF Account
  <2> QED
    BY <1>2, <1>3, <1>5, <2>1 DEF Apart
<1>8. ASSUME NEW i \in DOMAIN t, Says(decline, t[i])
      PROVE  Follows(w, t[i]) /\ \A j \in DOMAIN o : Apart(o[j], t[i])
  <2>1. i + 1 \in DOMAIN h /\ t[i] = h[i + 1]
    BY <1>1
  <2>2. Follows(e, t[i]) /\ Follows(p, t[i]) /\ t[i].lo \in Nat /\ t[i].hi \in Nat
    <3>1. Follows(e, t[i])
      BY <1>3, <1>8, TailInOrder DEF Account, t, e
    <3> QED
      BY <1>2, <1>8, <2>1, <3>1 DEF Account
  <2>3. Follows(w, t[i])
    BY <1>2, <1>3, <1>5, <2>2 DEF Follows, Apart
  <2> QED
    BY <1>8, <2>1, <2>3 DEF Account
<1>9. InOrder(decline, t)
  BY TailInOrder DEF Account, t
<1>10. ASSUME NEW x \in 0 .. n - 1
       PROVE  \/ \E i \in DOMAIN o : Covers(o[i], x)
              \/ Covers(w, x)
              \/ \E i \in DOMAIN t : Says(decline, t[i]) /\ Covers(t[i], x)
  <2>1. Covers(p, x) \/ Covers(e, x) => Covers(w, x)
    BY <1>2, <1>3, <1>5 DEF Covers
  <2>2. ASSUME NEW i \in DOMAIN h, Says(decline, h[i]), Covers(h[i], x)
        PROVE  Covers(e, x) \/ \E k \in DOMAIN t : Says(decline, t[k]) /\ Covers(t[k], x)
    BY <1>1, <2>2
  <2> QED
    BY <2>1, <2>2 DEF Account
<1> QED
  BY <1>1, <1>6, <1>7, <1>8, <1>9, <1>10 DEF Account, t

(* Putting an entry in the file, and the last flush, keep the account.     *)
LEMMA AccountFlush ==
  ASSUME WriterTypeOK, NEW decline \in BOOLEAN, NEW n \in Nat,
         Account(decline, n, out, pending, held)
  PROVE  Account(decline, n, Flushed, NoRegion, held)
<1>1. out \in Seq(BlockType) /\ pending \in RegionType /\ held \in Seq(WriteType)
  BY DEF WriterTypeOK
<1>2. Block(pending, "none") \in BlockType
  BY DEF WriterTypeOK, Block, RegionType, BlockType, Seams
<1>3. Block(pending, "none").lo = pending.lo /\ Block(pending, "none").hi = pending.hi
  BY DEF Block
<1>4. CASE pending = NoRegion
  BY <1>4 DEF Flushed
<1>5. CASE pending # NoRegion
  BY <1>1, <1>2, <1>3, <1>5, AccountFlushed DEF Flushed
<1> QED
  BY <1>4, <1>5

LEMMA AccountPutRegion ==
  ASSUME WriterTypeOK, NEW decline \in BOOLEAN, NEW n \in Nat, held # <<>>,
         Account(decline, n, out, pending, held),
         Says(decline, Head(held)), Head(held).op # "record",
         NEW w \in RegionType, w.lo = Head(held).lo, w.hi = Head(held).hi,
         PutRegion(w), held' = Tail(held)
  PROVE  Account(decline, n, out', pending', held')
<1>1. out \in Seq(BlockType) /\ pending \in RegionType /\ held \in Seq(WriteType)
  BY DEF WriterTypeOK
<1>2. w.lo \in Nat /\ w.hi \in Nat /\ pending.lo \in Nat /\ pending.hi \in Nat
  BY <1>1, WriteFields
<1>3. CASE w.hi <= w.lo /\ UNCHANGED file
  <2>1. out' = out /\ pending' = pending
    BY <1>3 DEF file
  <2> QED
    BY <1>1, <1>3, <2>1, AccountPassed
<1>4. CASE w.hi > w.lo /\ Joins(w) /\ pending' = Extended(w) /\ UNCHANGED <<seam, out>>
  <2>1. Extended(w) \in RegionType
    BY DEF Extended, WriterTypeOK, RegionType
  <2>2. /\ Extended(w).lo = pending.lo
        /\ Extended(w).hi = IF w.hi > pending.hi THEN w.hi ELSE pending.hi
    BY <1>1 DEF Extended, RegionType
  <2>3. pending.hi >= w.lo /\ w.lo < w.hi
    BY <1>2, <1>4 DEF Joins
  <2> QED
    BY <1>1, <1>4, <2>1, <2>2, <2>3, AccountJoined
<1>5. CASE w.hi > w.lo /\ ~Joins(w) /\ pending' = w /\ out' = Flushed /\ seam' = FlushedSeam
  <2>1. Account(decline, n, Flushed, NoRegion, held)
    BY AccountFlush
  <2> QED
    BY <1>1, <1>5, <2>1, FlushType, AccountRegion
<1> QED
  BY <1>3, <1>4, <1>5 DEF PutRegion

(* Putting an entry in the file moves it from one side of the account to   *)
(* the other.                                                              *)
LEMMA AccountPut ==
  ASSUME WriterTypeOK, PutNext, NEW n \in Nat,
         Account(declined # "no", n, out, pending, held)
  PROVE  Account(declined # "no", n, out', pending', held')
<1> DEFINE e == Head(held)
           Decline_ == declined # "no"
<1>1. /\ held \in Seq(WriteType) /\ held # <<>> /\ e \in WriteType /\ held' = Tail(held)
      /\ out \in Seq(BlockType) /\ pending \in RegionType /\ Decline_ \in BOOLEAN
  BY DEF WriterTypeOK, PutNext
<1>2. \A r \in Reasons \cup {"none"}, c \in Comments :
        As(e, r, c) \in RegionType /\ As(e, r, c).lo = e.lo /\ As(e, r, c).hi = e.hi
  BY <1>1 DEF As, Write, WriteType, RegionType
<1>3. ASSUME Says(Decline_, e), e.op # "record",
             \E r \in Reasons \cup {"none"}, c \in Comments : PutRegion(As(e, r, c))
      PROVE  Account(Decline_, n, out', pending', held')
  BY <1>1, <1>2, <1>3, AccountPutRegion
<1>4. ASSUME ~Says(Decline_, e), UNCHANGED file
      PROVE  Account(Decline_, n, out', pending', held')
  <2>1. out' = out /\ pending' = pending
    BY <1>4 DEF file
  <2> QED
    BY <1>1, <1>4, <2>1, AccountPassed
<1>5. ASSUME ~Decline_, e.op = "record", PutRecord(e)
      PROVE  Account(Decline_, n, out', pending', held')
  <2>1. Account(Decline_, n, Flushed, NoRegion, held)
    BY <1>1, AccountFlush
  <2>2. Block(e, FlushedSeam) \in BlockType
    BY <1>1, <1>5, FlushType DEF Block, WriteType, BlockType
  <2>3. Block(e, FlushedSeam).lo = e.lo /\ Block(e, FlushedSeam).hi = e.hi
    BY DEF Block
  <2>4. Says(Decline_, e)
    BY <1>5 DEF Says
  <2>5. Account(Decline_, n, Append(Flushed, Block(e, FlushedSeam)), NoRegion, Tail(held))
    BY <1>1, <2>1, <2>2, <2>3, <2>4, FlushType, AccountRecord
  <2> QED
    BY <1>1, <1>5, <2>5 DEF PutRecord
<1>6. CASE Decline_
  <2>1. declined \in Comments /\ PutDeclined(e)
    BY <1>6 DEF WriterTypeOK, Comments, PutNext
  <2>2. e.op \in Ops
    BY <1>1 DEF WriteType
  <2>3. CASE e.op \in {"record", "undecoded"}
    <3>1. UNCHANGED file /\ ~Says(Decline_, e)
      BY <1>6, <2>1, <2>3 DEF PutDeclined, Says
    <3> QED
      BY <1>4, <3>1
  <2>4. CASE e.op \notin {"record", "undecoded"}
    <3>1. \E r \in Reasons \cup {"none"}, c \in Comments : PutRegion(As(e, r, c))
      BY <2>1, <2>4 DEF PutDeclined, Reasons, Comments
    <3>2. Says(Decline_, e) /\ e.op # "record"
      BY <1>6, <2>4 DEF Says
    <3> QED
      BY <1>3, <3>1, <3>2
  <2> QED
    BY <2>3, <2>4
<1>7. CASE ~Decline_
  <2>1. PutConfirmed(e)
    BY <1>7 DEF PutNext
  <2>2. e.reason \in Reasons \cup {"none"} /\ e.comment \in Comments
    BY <1>1 DEF WriteType
  <2>3. CASE e.op = "record"
    BY <1>5, <1>7, <2>1, <2>3 DEF PutConfirmed
  <2>4. CASE e.op = "run"
    BY <1>4, <1>7, <2>1, <2>4 DEF PutConfirmed, Says
  <2>5. CASE e.op \notin {"record", "run"}
    <3>1. \E r \in Reasons \cup {"none"}, c \in Comments : PutRegion(As(e, r, c))
      BY <2>1, <2>2, <2>5 DEF PutConfirmed
    <3>2. Says(Decline_, e)
      BY <1>7, <2>5 DEF Says
    <3> QED
      BY <1>3, <2>5, <3>1, <3>2
  <2> QED
    BY <2>3, <2>4, <2>5
<1> QED
  BY <1>6, <1>7

(* What the account means for the file: no byte is in two blocks, none in  *)
(* a block past the end, and with nothing waiting each byte is in one.     *)
LEMMA AccountOnce ==
  ASSUME WriterTypeOK, NEW decline \in BOOLEAN, NEW n \in Nat,
         Account(decline, n, out, pending, held), NEW b \in Nat
  PROVE  /\ Citing(b) = {} \/ Naming(b) = {}
         /\ Cardinality(Naming(b)) <= 1
         /\ Citing(b) # {} \/ Naming(b) # {} => b < n
<1>1. \A i \in DOMAIN out : out[i].lo \in Nat /\ out[i].hi \in Nat
  BY WriteFields DEF WriterTypeOK
<1>2. \A i, j \in DOMAIN out : Covers(out[i], b) /\ Covers(out[j], b) => i = j
  BY <1>1 DEF Account, Apart, Covers
<1>3. Cardinality(Naming(b)) <= 1
  <2>1. CASE Naming(b) = {}
    BY <2>1, FS_EmptySet
  <2>2. CASE Naming(b) # {}
    <3>1. PICK i \in Naming(b) : TRUE
      BY <2>2
    <3>2. Naming(b) = {i}
      BY <1>2, <3>1 DEF Naming
    <3>3. Cardinality({i}) = 1
      BY FS_Singleton
    <3> QED
      BY <3>2, <3>3
  <2> QED
    BY <2>1, <2>2
<1>4. \A i \in DOMAIN out : Covers(out[i], b) => b < n
  BY <1>1 DEF Account, Between, Covers
<1> QED
  BY <1>2, <1>3, <1>4 DEF Citing, Naming

LEMMA AccountAll ==
  ASSUME WriterTypeOK, NEW decline \in BOOLEAN, NEW n \in Nat,
         Account(decline, n, out, NoRegion, <<>>), NEW b \in 0 .. n - 1
  PROVE  Citing(b) # {} \/ Naming(b) # {}
<1>1. ~Covers(NoRegion, b)
  BY DEF Covers, NoRegion, Undecoded, Write
<1>2. PICK i \in DOMAIN out : Covers(out[i], b)
  BY <1>1 DEF Account
<1> QED
  BY <1>2 DEF Citing, Naming

-----------------------------------------------------------------------------
(***************************************************************************)
(* A message says all of the bytes it was read from, each once, unless a   *)
(* generated module names regions out of order.                            *)
(***************************************************************************)
MessageCalls(w) ==
  \A i \in DOMAIN w : /\ w[i].op \in {"record", "undecoded"}
                      /\ w[i].op = "record" => w[i].reason = "none"

(* What holds of one call with something to say, or with nothing.          *)
Spoken(w, a, b) ==
  w \in Seq(WriteType) /\ Partition(FALSE, w, a, b) /\ MessageCalls(w)

LEMMA CallSpoken ==
  ASSUME NEW a \in Nat, NEW b \in Nat, a <= b, NEW u \in WriteType, u.lo = a, u.hi = b,
         u.op \in {"record", "undecoded"}, u.op = "record" => u.reason = "none"
  PROVE  Spoken(<<u>>, a, b) /\ Spoken(NonEmpty(u), a, b)
<1>1. Says(FALSE, u)
  BY DEF Says
<1>2. MessageCalls(<<u>>) /\ MessageCalls(<<>>)
  BY DEF MessageCalls
<1>3. Spoken(<<u>>, a, b)
  <2>1. Partition(FALSE, <<u>>, u.lo, u.hi)
    BY <1>1, PartitionOne
  <2>2. <<u>> \in Seq(WriteType)
    OBVIOUS
  <2>3. Partition(FALSE, <<u>>, a, b)
    BY <2>1
  <2> QED
    BY <1>2, <2>2, <2>3 DEF Spoken
<1>4. CASE a < b
  BY <1>3, <1>4 DEF NonEmpty
<1>5. CASE a = b
  <2>1. NonEmpty(u) = <<>>
    BY <1>5 DEF NonEmpty
  <2>2. Partition(FALSE, <<>>, a, a)
    <3>1. \A i \in DOMAIN <<>> : ~Says(FALSE, <<>>[i])
      OBVIOUS
    <3> QED
      BY <3>1, PartitionNothing, ZenonT(20)
  <2>3. <<>> \in Seq(WriteType)
    OBVIOUS
  <2>4. Spoken(<<>>, a, b)
    BY <1>2, <1>5, <2>2, <2>3 DEF Spoken
  <2> QED
    BY <1>3, <2>1, <2>4
<1> QED
  BY <1>3, <1>4, <1>5

LEMMA RegionSpoken ==
  ASSUME NEW a \in Nat, NEW b \in Nat, a <= b, NEW r \in Reasons
  PROVE  Spoken(NonEmpty(Undecoded(a, b, r)), a, b)
<1>1. /\ Undecoded(a, b, r) \in WriteType /\ Undecoded(a, b, r).op = "undecoded"
      /\ Undecoded(a, b, r).lo = a /\ Undecoded(a, b, r).hi = b
  BY UndecodedType DEF Undecoded, Write
<1> QED
  BY <1>1, CallSpoken

LEMMA RecordFields ==
  ASSUME NEW a \in Nat, NEW b \in Nat
  PROVE  /\ Record(a, b) \in WriteType /\ Record(a, b).op = "record"
         /\ Record(a, b).lo = a /\ Record(a, b).hi = b /\ Record(a, b).reason = "none"
BY RecordType DEF Record, Write

LEMMA RecordSpoken ==
  ASSUME NEW a \in Nat, NEW b \in Nat, a <= b
  PROVE  Spoken(<<Record(a, b)>>, a, b) /\ Spoken(NonEmpty(Record(a, b)), a, b)
BY RecordFields, CallSpoken

LEMMA CallsBoth ==
  ASSUME NEW s \in Seq(WriteType), NEW t \in Seq(WriteType), MessageCalls(s), MessageCalls(t)
  PROVE  MessageCalls(s \o t)
<1>1. \A i \in DOMAIN (s \o t) :
        \/ i \in DOMAIN s /\ (s \o t)[i] = s[i]
        \/ i - Len(s) \in DOMAIN t /\ (s \o t)[i] = t[i - Len(s)]
  OBVIOUS
<1> QED
  BY <1>1 DEF MessageCalls

LEMMA SpokenBoth ==
  ASSUME NEW a \in Nat, NEW b \in Nat, NEW c \in Nat, a <= b, b <= c,
         NEW s, NEW t, Spoken(s, a, b), Spoken(t, b, c)
  PROVE  Spoken(s \o t, a, c)
<1>1. s \in Seq(WriteType) /\ t \in Seq(WriteType)
  BY DEF Spoken
<1>2. s \o t \in Seq(WriteType)
  BY <1>1
<1> QED
  BY <1>1, <1>2, PartitionBoth, CallsBoth DEF Spoken

(* A record may come before what is left to its left.                      *)
LEMMA PairSpoken ==
  ASSUME NEW a \in Nat, NEW m \in Nat, NEW b \in Nat, a <= m, m <= b,
         NEW u \in WriteType, u.op = "record", u.lo = m, u.hi = b, u.reason = "none",
         NEW v \in WriteType, v.op = "undecoded", v.lo = a, v.hi = m
  PROVE  Spoken(<<u>> \o <<v>>, a, b)
<1> DEFINE s == <<u>> \o <<v>>
<1>1. DOMAIN s = {1, 2} /\ s[1] = u /\ s[2] = v /\ s \in Seq(WriteType)
  OBVIOUS
<1> HIDE DEF s
<1>2. Follows(u, v) /\ Between(u, a, b) /\ Between(v, a, b)
  BY DEF Follows, Apart, Between
<1>3. Says(FALSE, u) /\ Says(FALSE, v)
  BY DEF Says
<1>4. \A x \in a .. b - 1 : Covers(u, x) \/ Covers(v, x)
  BY DEF Covers
<1>5. InOrder(FALSE, s)
  BY <1>1, <1>2 DEF InOrder
<1>6. Partition(FALSE, s, a, b)
  BY <1>1, <1>2, <1>3, <1>4, <1>5 DEF Partition
<1>7. MessageCalls(s)
  BY <1>1 DEF MessageCalls
<1> QED
  BY <1>1, <1>6, <1>7 DEF Spoken, s

LEMMA RecordLastSpoken ==
  ASSUME NEW a \in Nat, NEW b \in Nat, NEW m \in a .. b, NEW r \in Reasons
  PROVE  Spoken(<<Record(m, b)>> \o NonEmpty(Undecoded(a, m, r)), a, b)
<1>1. /\ Undecoded(a, m, r) \in WriteType /\ Undecoded(a, m, r).op = "undecoded"
      /\ Undecoded(a, m, r).lo = a /\ Undecoded(a, m, r).hi = m
  BY UndecodedType DEF Undecoded, Write
<1>2. m \in Nat /\ a <= m /\ m <= b
  OBVIOUS
<1>3. CASE m = a
  <2>1. NonEmpty(Undecoded(a, m, r)) = <<>>
    BY <1>1, <1>3 DEF NonEmpty
  <2>2. <<Record(m, b)>> \o <<>> = <<Record(m, b)>>
    BY <1>2, RecordFields
  <2>3. Spoken(<<Record(m, b)>>, m, b)
    BY <1>2, RecordSpoken
  <2> QED
    BY <1>3, <2>1, <2>2, <2>3
<1>4. CASE a < m
  <2>1. NonEmpty(Undecoded(a, m, r)) = <<Undecoded(a, m, r)>>
    BY <1>1, <1>4 DEF NonEmpty
  <2>2. Spoken(<<Record(m, b)>> \o <<Undecoded(a, m, r)>>, a, b)
    BY <1>1, <1>2, RecordFields, PairSpoken
  <2> QED
    BY <2>1, <2>2
<1> QED
  BY <1>2, <1>3, <1>4

(* Without the quirk of regions out of order, whatever a message writes at *)
(* any granularity is all of its bytes, each once.                         *)
LEMMA WritesSpoken ==
  ASSUME "unordered_regions" \notin Quirks,
         NEW a \in Nat, NEW b \in Nat, a <= b, NEW v \in Verdicts, NEW w \in Writes(a, b, v)
  PROVE  Spoken(w, a, b)
<1>1. CASE w \in RecordFirst(a, b, v)
  <2>1. PICK m \in a .. b, r \in NamedAs(v) : w = <<Record(a, m)>> \o NonEmpty(Undecoded(m, b, r))
    BY <1>1 DEF RecordFirst
  <2>2. m \in Nat /\ a <= m /\ m <= b /\ r \in Reasons
    BY NamedAsReasons
  <2>3. Spoken(<<Record(a, m)>>, a, m) /\ Spoken(NonEmpty(Undecoded(m, b, r)), m, b)
    BY <2>2, RecordSpoken, RegionSpoken
  <2> QED
    BY <2>1, <2>2, <2>3, SpokenBoth
<1>2. CASE w \in RecordLast(a, b, v)
  <2>1. PICK m \in a .. b, r \in NamedAs(v) : w = <<Record(m, b)>> \o NonEmpty(Undecoded(a, m, r))
    BY <1>2 DEF RecordLast
  <2>2. r \in Reasons
    BY NamedAsReasons
  <2> QED
    BY <2>1, <2>2, RecordLastSpoken
<1>3. CASE w \in NoRecord(a, b, v)
  <2>1. PICK m \in a .. b, r \in NamedAs(v), s \in NamedAs(v) :
               w = NonEmpty(Undecoded(a, m, r)) \o NonEmpty(Undecoded(m, b, s))
    BY <1>3 DEF NoRecord
  <2>2. m \in Nat /\ a <= m /\ m <= b /\ r \in Reasons /\ s \in Reasons
    BY NamedAsReasons
  <2>3. Spoken(NonEmpty(Undecoded(a, m, r)), a, m) /\ Spoken(NonEmpty(Undecoded(m, b, s)), m, b)
    BY <2>2, RegionSpoken
  <2> QED
    BY <2>1, <2>2, <2>3, SpokenBoth
<1>4. CASE w \in MessageWrites(a, b, v)
  <2>1. CASE v \in Framed
    <3>1. w = NonEmpty(Record(a, b))
      BY <1>4, <2>1 DEF MessageWrites
    <3> QED
      BY <3>1, RecordSpoken
  <2>2. CASE v \notin Framed
    <3>1. w = NonEmpty(Undecoded(a, b, v)) /\ v \in Reasons
      BY <1>4, <2>2 DEF MessageWrites, Framed, Verdicts, Reasons
    <3> QED
      BY <3>1, RegionSpoken
  <2> QED
    BY <2>1, <2>2
<1>5. CASE w = NonEmpty(Undecoded(a, b, "skipped"))
  <2>1. "skipped" \in Reasons
    BY DEF Reasons
  <2> QED
    BY <1>5, <2>1, RegionSpoken
<1> QED
  BY <1>1, <1>2, <1>3, <1>4, <1>5 DEF Writes, FieldWrites

(* What a step returns says of its message, with neither quirk: all of its *)
(* bytes up to where it stopped, which is where the next one begins.       *)
LEMMA OutcomesSpoken ==
  ASSUME "unordered_regions" \notin Quirks,
         NEW a \in 0 .. Extent, NEW end \in 0 .. Extent, a <= end,
         NEW o \in Outcomes(a, end)
  PROVE  /\ "sub_byte" \notin Quirks => o.next = o.stop
         /\ o.stop \in a .. end
         /\ Spoken(o.writes, a, o.stop)
<1>1. PICK stop \in a .. end :
        o \in FramedAt(a, stop, "ok") \cup TransformAt(a, stop) \cup
             UndecodableAt(a, stop) \cup TruncatedAt(a, stop, end)
  BY DEF Outcomes
<1>2. a \in Nat /\ stop \in Nat /\ a <= stop /\ stop <= end
  BY ExtentAssumption
<1>3. "sub_byte" \notin Quirks => NextStarts(a, stop) = {stop}
  BY DEF NextStarts
<1>4. \A v \in Verdicts : \A w \in Writes(a, stop, v) : Spoken(w, a, stop)
  BY <1>2, WritesSpoken
<1>5. {"ok", "transform", "undecodable", "truncated"} = Verdicts
  BY DEF Verdicts
<1>6. ASSUME NEW v \in {"ok", "transform"}, o \in FramedAt(a, stop, v)
      PROVE  /\ "sub_byte" \notin Quirks => o.next = o.stop
             /\ o.stop \in a .. end /\ Spoken(o.writes, a, o.stop)
  <2>1. PICK n \in NextStarts(a, stop), w \in Writes(a, stop, v) :
          o = Outcome(v, stop, n, FALSE, NoOffset, w)
    BY <1>6 DEF FramedAt, Outcome
  <2>2. "sub_byte" \notin Quirks => n = stop
    BY <1>3, <2>1
  <2> QED
    BY <1>2, <1>4, <1>5, <1>6, <2>1, <2>2 DEF Outcome
<1>7. CASE o \in UndecodableAt(a, stop)
  <2>1. PICK r \in BOOLEAN, w \in Writes(a, stop, "undecodable") :
          o = Outcome("undecodable", stop, stop, r, NoOffset, w)
    BY <1>7 DEF UndecodableAt
  <2> QED
    BY <1>4, <1>5, <2>1 DEF Outcome
<1>8. CASE o \in TruncatedAt(a, stop, end)
  <2>1. PICK r \in {NoOffset} \cup (end + 1) .. MaxReach, w \in Writes(a, stop, "truncated") :
          o = Outcome("truncated", stop, stop, FALSE, r, w)
    BY <1>8 DEF TruncatedAt, Outcome
  <2> QED
    BY <1>4, <1>5, <2>1 DEF Outcome
<1> QED
  BY <1>1, <1>6, <1>7, <1>8 DEF TransformAt

(* With them or not, a message writes nothing but records and regions, no  *)
(* record of its says of a hole, and a guard refuses only a message that   *)
(* could not be decoded.                                                   *)
LEMMA RegionCalls ==
  ASSUME NEW a \in Nat, NEW b \in Nat, NEW r \in Reasons
  PROVE  /\ NonEmpty(Undecoded(a, b, r)) \in Seq(WriteType)
         /\ MessageCalls(NonEmpty(Undecoded(a, b, r)))
<1>1. Undecoded(a, b, r) \in WriteType /\ Undecoded(a, b, r).op = "undecoded"
  BY UndecodedType DEF Undecoded, Write
<1>2. MessageCalls(<<>>) /\ <<>> \in Seq(WriteType)
  BY DEF MessageCalls
<1>3. /\ MessageCalls(<<Undecoded(a, b, r)>>)
      /\ <<Undecoded(a, b, r)>> \in Seq(WriteType)
  BY <1>1 DEF MessageCalls
<1> QED
  BY <1>2, <1>3 DEF NonEmpty

(* What a step writes is calls of a message, wherever it is cut.           *)
LEMMA WritesCalls ==
  ASSUME NEW a \in Nat, NEW b \in Nat, a <= b, NEW v \in Verdicts, NEW w \in Writes(a, b, v)
  PROVE  MessageCalls(w)
<1>1. CASE "unordered_regions" \notin Quirks
  BY <1>1, WritesSpoken DEF Spoken
<1>2. CASE w \in Unordered(a, b, v)
  <2>1. PICK m \in a .. b, r \in NamedAs(v), s \in NamedAs(v) :
               w = NonEmpty(Undecoded(m, b, s)) \o NonEmpty(Undecoded(a, m, r))
    BY <1>2 DEF Unordered
  <2>2. m \in Nat /\ r \in Reasons /\ s \in Reasons
    BY NamedAsReasons
  <2> QED
    BY <2>1, <2>2, RegionCalls, CallsBoth
<1>3. CASE w \in RecordFirst(a, b, v) \cup RecordLast(a, b, v)
  <2>1. \A m \in a .. b, r \in NamedAs(v) :
          /\ MessageCalls(<<Record(a, m)>> \o NonEmpty(Undecoded(m, b, r)))
          /\ MessageCalls(<<Record(m, b)>> \o NonEmpty(Undecoded(a, m, r)))
    <3> TAKE m \in a .. b, r \in NamedAs(v)
    <3>1. m \in Nat /\ a <= m /\ m <= b /\ r \in Reasons
      BY NamedAsReasons
    <3>2. /\ MessageCalls(<<Record(a, m)>>) /\ <<Record(a, m)>> \in Seq(WriteType)
          /\ MessageCalls(<<Record(m, b)>>) /\ <<Record(m, b)>> \in Seq(WriteType)
      BY <3>1, RecordSpoken DEF Spoken
    <3> QED
      BY <3>1, <3>2, RegionCalls, CallsBoth
  <2>2. CASE w \in RecordFirst(a, b, v)
    <3>1. PICK m \in a .. b, r \in NamedAs(v) : w = <<Record(a, m)>> \o NonEmpty(Undecoded(m, b, r))
      BY <2>2 DEF RecordFirst
    <3> QED
      BY <2>1, <3>1
  <2>3. CASE w \in RecordLast(a, b, v)
    <3>1. PICK m \in a .. b, r \in NamedAs(v) : w = <<Record(m, b)>> \o NonEmpty(Undecoded(a, m, r))
      BY <2>3 DEF RecordLast
    <3> QED
      BY <2>1, <3>1
  <2> QED
    BY <1>3, <2>2, <2>3
<1>4. CASE w \in NoRecord(a, b, v)
  <2>1. PICK m \in a .. b, r \in NamedAs(v), s \in NamedAs(v) :
               w = NonEmpty(Undecoded(a, m, r)) \o NonEmpty(Undecoded(m, b, s))
    BY <1>4, SMTT(30) DEF NoRecord
  <2>2. m \in Nat /\ r \in Reasons /\ s \in Reasons
    BY NamedAsReasons
  <2> QED
    BY <2>1, <2>2, RegionCalls, CallsBoth
<1>5. CASE w \in MessageWrites(a, b, v)
  <2>1. CASE v \in Framed
    <3>1. w = NonEmpty(Record(a, b))
      BY <1>5, <2>1 DEF MessageWrites
    <3> QED
      BY <3>1, RecordSpoken DEF Spoken
  <2>2. CASE v \notin Framed
    <3>1. w = NonEmpty(Undecoded(a, b, v)) /\ v \in Reasons
      BY <1>5, <2>2 DEF MessageWrites, Framed, Verdicts, Reasons
    <3> QED
      BY <3>1, RegionCalls
  <2> QED
    BY <2>1, <2>2
<1>6. CASE w = NonEmpty(Undecoded(a, b, "skipped"))
  <2>1. "skipped" \in Reasons
    BY DEF Reasons
  <2> QED
    BY <1>6, <2>1, RegionCalls
<1> QED
  BY <1>2, <1>3, <1>4, <1>5, <1>6 DEF Writes, FieldWrites

LEMMA OutcomesCalls ==
  ASSUME NEW a \in 0 .. Extent, NEW end \in 0 .. Extent, a <= end,
         NEW o \in Outcomes(a, end)
  PROVE  /\ MessageCalls(o.writes)
         /\ o.refused => o.verdict = "undecodable"
<1>1. PICK stop \in a .. end :
        o \in FramedAt(a, stop, "ok") \cup TransformAt(a, stop) \cup
             UndecodableAt(a, stop) \cup TruncatedAt(a, stop, end)
  BY DEF Outcomes
<1>2. a \in Nat /\ stop \in Nat /\ a <= stop
  BY ExtentAssumption
<1>3. \A v \in Verdicts : \A w \in Writes(a, stop, v) : MessageCalls(w)
  BY <1>2, WritesCalls
<1>4. {"ok", "transform", "undecodable", "truncated"} = Verdicts
  BY DEF Verdicts
<1>5. ASSUME NEW v \in {"ok", "transform"}, o \in FramedAt(a, stop, v)
      PROVE  MessageCalls(o.writes) /\ ~o.refused
  <2>1. PICK n \in NextStarts(a, stop), w \in Writes(a, stop, v) :
          o = Outcome(v, stop, n, FALSE, NoOffset, w)
    BY <1>5 DEF FramedAt, Outcome
  <2> QED
    BY <1>3, <1>4, <1>5, <2>1 DEF Outcome
<1>6. CASE o \in UndecodableAt(a, stop)
  <2>1. PICK r \in BOOLEAN, w \in Writes(a, stop, "undecodable") :
          o = Outcome("undecodable", stop, stop, r, NoOffset, w)
    BY <1>6 DEF UndecodableAt, Outcome
  <2> QED
    BY <1>3, <1>4, <2>1 DEF Outcome
<1>7. CASE o \in TruncatedAt(a, stop, end)
  <2>1. PICK r \in {NoOffset} \cup (end + 1) .. MaxReach, w \in Writes(a, stop, "truncated") :
          o = Outcome("truncated", stop, stop, FALSE, r, w)
    BY <1>7 DEF TruncatedAt, Outcome
  <2> QED
    BY <1>3, <1>4, <2>1 DEF Outcome
<1> QED
  BY <1>1, <1>5, <1>6, <1>7 DEF TransformAt

-----------------------------------------------------------------------------
(***************************************************************************)
(* What lies between the blocks of a file s, with seam x owed: what        *)
(* SeamOwed and Coalesced say of it, and the seam a record after it would  *)
(* carry.                                                                  *)
(***************************************************************************)
HolesIn(s, i) ==
  {k \in 1 .. i - 1 : s[k].reason \in Holes /\ \A j \in k + 1 .. i - 1 : s[j].op # "record"}

Owes(s, i, x) ==
  IF HolesIn(s, i) = {} THEN x = "none"
  ELSE \E k \in HolesIn(s, i) : (\A j \in HolesIn(s, i) : j <= k) /\ x = s[k].reason

Distinct(u, v) == u.reason # v.reason \/ u.comment # v.comment \/ u.hi < v.lo

Lies(s, x) ==
  /\ \A i \in DOMAIN s : s[i].op = "record" => Owes(s, i, s[i].seam)
  /\ \A i \in 1 .. Len(s) - 1 :
       s[i].op # "record" /\ s[i + 1].op # "record" => Distinct(s[i], s[i + 1])
  /\ Owes(s, Len(s) + 1, x)

(* What the pending region has to agree with: no region ends the file      *)
(* while nothing is pending, and one that does is distinct from what is.   *)
Ends(s, p) ==
  s # <<>> /\ s[Len(s)].op # "record" => p # NoRegion /\ Distinct(s[Len(s)], p)

(* A record in line says nothing of a hole.                                *)
Plain(h) == \A i \in DOMAIN h : h[i].op = "record" => h[i].reason = "none"

LEMMA HolesAppend ==
  ASSUME NEW s \in Seq(BlockType), NEW b \in BlockType
  PROVE  /\ \A i \in 1 .. Len(s) + 1 : HolesIn(Append(s, b), i) = HolesIn(s, i)
         /\ b.op # "record" =>
              HolesIn(Append(s, b), Len(s) + 2) =
                HolesIn(s, Len(s) + 1) \cup {k \in {Len(s) + 1} : b.reason \in Holes}
         /\ b.op = "record" =>
              HolesIn(Append(s, b), Len(s) + 2) = {k \in {Len(s) + 1} : b.reason \in Holes}
<1> DEFINE n == Len(s)
           t == Append(s, b)
<1>1. n \in Nat /\ Len(t) = n + 1 /\ t[n + 1] = b
  OBVIOUS
<1>2. \A k \in 1 .. n : t[k] = s[k]
  OBVIOUS
<1> HIDE DEF n, t
<1>3. ASSUME NEW i \in 1 .. n + 1
      PROVE  HolesIn(t, i) = HolesIn(s, i)
  <2>1. \A k \in 1 .. i - 1 : k \in 1 .. n
    BY <1>1
  <2>2. ASSUME NEW k \in 1 .. i - 1
        PROVE  t[k] = s[k] /\ \A j \in k + 1 .. i - 1 : t[j] = s[j]
    BY <1>1, <1>2, <2>1
  <2> QED
    BY <2>2 DEF HolesIn
<1>4. 1 .. n + 2 - 1 = (1 .. n) \cup {n + 1}
  BY <1>1
<1>5. n + 1 + 1 .. n + 2 - 1 = {}
  BY <1>1
<1>6. ASSUME NEW k \in 1 .. n
      PROVE  k + 1 .. n + 2 - 1 = (k + 1 .. n + 1 - 1) \cup {n + 1}
  BY <1>1
<1>7. \A k \in 1 .. n : \A j \in k + 1 .. n + 1 - 1 : t[j] = s[j]
  BY <1>1, <1>2
<1>8. ASSUME b.op # "record", NEW k
      PROVE  k \in HolesIn(t, n + 2) <=>
             k \in HolesIn(s, n + 1) \/ (k = n + 1 /\ b.reason \in Holes)
  <2>1. CASE k = n + 1
    BY <1>1, <1>4, <1>5, <2>1 DEF HolesIn
  <2>2. CASE k \in 1 .. n
    <3>1. k + 1 .. n + 2 - 1 = (k + 1 .. n + 1 - 1) \cup {n + 1}
      BY <1>6, <2>2
    <3>2. /\ k \in HolesIn(t, n + 2) <=>
               t[k].reason \in Holes /\ \A j \in k + 1 .. n + 2 - 1 : t[j].op # "record"
          /\ k \in HolesIn(s, n + 1) <=>
               s[k].reason \in Holes /\ \A j \in k + 1 .. n + 1 - 1 : s[j].op # "record"
      BY <1>1, <1>4, <2>2 DEF HolesIn
    <3>3. t[k] = s[k] /\ k # n + 1
      BY <1>1, <1>2, <2>2
    <3>4. (\A j \in k + 1 .. n + 2 - 1 : t[j].op # "record") <=>
          (\A j \in k + 1 .. n + 1 - 1 : s[j].op # "record")
      BY <1>1, <1>7, <1>8, <2>2, <3>1
    <3> QED
      BY <3>2, <3>3, <3>4
  <2>3. CASE k \notin 1 .. n /\ k # n + 1
    BY <1>1, <1>4, <2>3 DEF HolesIn
  <2> QED
    BY <2>1, <2>2, <2>3
<1>9. ASSUME b.op = "record", NEW k
      PROVE  k \in HolesIn(t, n + 2) <=> k = n + 1 /\ b.reason \in Holes
  <2>1. CASE k = n + 1
    BY <1>1, <1>4, <1>5, <2>1 DEF HolesIn
  <2>2. CASE k \in 1 .. n
    <3>1. n + 1 \in k + 1 .. n + 2 - 1 /\ k # n + 1
      BY <1>1, <2>2
    <3> QED
      BY <1>1, <1>9, <3>1 DEF HolesIn
  <2>3. CASE k \notin 1 .. n /\ k # n + 1
    BY <1>1, <1>4, <2>3 DEF HolesIn
  <2> QED
    BY <2>1, <2>2, <2>3
<1>10. b.op # "record" =>
         HolesIn(t, n + 2) = HolesIn(s, n + 1) \cup {k \in {n + 1} : b.reason \in Holes}
  BY <1>8
<1>11. b.op = "record" => HolesIn(t, n + 2) = {k \in {n + 1} : b.reason \in Holes}
  BY <1>9
<1> QED
  BY <1>3, <1>10, <1>11 DEF n, t

(* The blocks there were go on saying what they said.                      *)
LEMMA LiesBefore ==
  ASSUME NEW s \in Seq(BlockType), NEW b \in BlockType, NEW x, Lies(s, x)
  PROVE  /\ \A i \in 1 .. Len(s) : Append(s, b)[i].op = "record" =>
              Owes(Append(s, b), i, Append(s, b)[i].seam)
         /\ Owes(Append(s, b), Len(s) + 1, x)
         /\ \A i \in 1 .. Len(s) - 1 :
              Append(s, b)[i].op # "record" /\ Append(s, b)[i + 1].op # "record" =>
                Distinct(Append(s, b)[i], Append(s, b)[i + 1])
<1> DEFINE n == Len(s)
           t == Append(s, b)
<1>1. n \in Nat /\ (\A k \in 1 .. n : t[k] = s[k]) /\ DOMAIN s = 1 .. n
  OBVIOUS
<1>2. \A i \in 1 .. n + 1 : HolesIn(t, i) = HolesIn(s, i)
  BY HolesAppend
<1> HIDE DEF n, t
<1>3. ASSUME NEW i \in 1 .. n + 1, NEW y, Owes(s, i, y)
      PROVE  Owes(t, i, y)
  <2>1. \A k \in HolesIn(s, i) : t[k] = s[k]
    <3>1. \A k \in HolesIn(s, i) : k \in 1 .. i - 1
      BY DEF HolesIn
    <3>2. \A k \in 1 .. i - 1 : k \in 1 .. n
      BY <1>1
    <3> QED
      BY <1>1, <3>1, <3>2
  <2>2. HolesIn(t, i) = HolesIn(s, i)
    BY <1>2
  <2> QED
    BY <1>3, <2>1, <2>2 DEF Owes
<1>4. ASSUME NEW i \in 1 .. n, t[i].op = "record"
      PROVE  Owes(t, i, t[i].seam)
  <2>1. t[i] = s[i] /\ i \in 1 .. n + 1
    BY <1>1
  <2>2. Owes(s, i, s[i].seam)
    BY <1>1, <1>4, <2>1 DEF Lies
  <2> QED
    BY <1>3, <2>1, <2>2
<1>5. Owes(t, n + 1, x)
  BY <1>1, <1>3 DEF Lies, n
<1>6. ASSUME NEW i \in 1 .. n - 1, t[i].op # "record" /\ t[i + 1].op # "record"
      PROVE  Distinct(t[i], t[i + 1])
  <2>1. i \in 1 .. n /\ i + 1 \in 1 .. n
    BY <1>1
  <2>2. t[i] = s[i] /\ t[i + 1] = s[i + 1]
    BY <1>1, <2>1
  <2> QED
    BY <1>6, <2>2 DEF Lies, n
<1> QED
  BY <1>4, <1>5, <1>6 DEF n, t

(* A region written goes on from what lay before it.                       *)
LEMMA LiesRegion ==
  ASSUME NEW s \in Seq(BlockType), NEW b \in BlockType, b.op # "record", NEW x, Lies(s, x),
         s # <<>> /\ s[Len(s)].op # "record" => Distinct(s[Len(s)], b)
  PROVE  Lies(Append(s, b), SeamFor(b.reason, x))
<1> DEFINE n == Len(s)
           t == Append(s, b)
<1>1. n \in Nat /\ Len(t) = n + 1 /\ t[n + 1] = b /\ DOMAIN t = 1 .. n + 1
  OBVIOUS
<1>2. (\A k \in 1 .. n : t[k] = s[k]) /\ (n # 0 => s # <<>>)
  OBVIOUS
<1>3. /\ \A i \in 1 .. n : t[i].op = "record" => Owes(t, i, t[i].seam)
      /\ Owes(t, n + 1, x)
      /\ \A i \in 1 .. n - 1 : t[i].op # "record" /\ t[i + 1].op # "record" => Distinct(t[i], t[i + 1])
  BY LiesBefore
<1>4. /\ HolesIn(t, n + 2) = HolesIn(s, n + 1) \cup {k \in {n + 1} : b.reason \in Holes}
      /\ HolesIn(t, n + 1) = HolesIn(s, n + 1)
  <2>1. n + 1 \in 1 .. Len(s) + 1
    BY <1>1
  <2> QED
    BY <2>1, HolesAppend
<1>5. n # 0 /\ s[n].op # "record" => Distinct(s[n], b)
  BY <1>2
<1> HIDE DEF n, t
<1>6. ASSUME NEW i \in DOMAIN t, t[i].op = "record"
      PROVE  Owes(t, i, t[i].seam)
  BY <1>1, <1>3, <1>6
<1>7. ASSUME NEW i \in 1 .. Len(t) - 1, t[i].op # "record" /\ t[i + 1].op # "record"
      PROVE  Distinct(t[i], t[i + 1])
  <2>1. CASE i = n
    BY <1>1, <1>2, <1>5, <1>7, <2>1
  <2>2. CASE i # n
    BY <1>1, <1>3, <1>7, <2>2
  <2> QED
    BY <2>1, <2>2
<1>8. Owes(t, Len(t) + 1, SeamFor(b.reason, x))
  <2>1. Len(t) + 1 = n + 2
    BY <1>1
  <2>2. CASE b.reason \in Holes
    <3>1. HolesIn(t, n + 2) = HolesIn(s, n + 1) \cup {n + 1}
      BY <1>4, <2>2
    <3>2. \A j \in HolesIn(s, n + 1) : j <= n + 1
      BY <1>1 DEF HolesIn
    <3>3. SeamFor(b.reason, x) = t[n + 1].reason
      BY <1>1, <2>2 DEF SeamFor
    <3>4. \A j \in HolesIn(t, n + 2) : j <= n + 1
      BY <1>1, <3>1, <3>2
    <3> QED
      BY <2>1, <3>1, <3>3, <3>4 DEF Owes
  <2>3. CASE b.reason \notin Holes
    <3>1. HolesIn(t, n + 2) = HolesIn(t, n + 1)
      BY <1>4, <2>3
    <3>2. SeamFor(b.reason, x) = x
      BY <2>3 DEF SeamFor
    <3> QED
      BY <1>3, <2>1, <3>1, <3>2 DEF Owes
  <2> QED
    BY <2>2, <2>3
<1> QED
  BY <1>6, <1>7, <1>8 DEF Lies, t

(* A record that carries the seam owed settles it.                         *)
LEMMA LiesRecord ==
  ASSUME NEW s \in Seq(BlockType), NEW b \in BlockType, b.op = "record", b.reason = "none",
         NEW x, b.seam = x, Lies(s, x)
  PROVE  Lies(Append(s, b), "none")
<1> DEFINE n == Len(s)
           t == Append(s, b)
<1>1. n \in Nat /\ Len(t) = n + 1 /\ t[n + 1] = b /\ DOMAIN t = 1 .. n + 1
  OBVIOUS
<1>3. /\ \A i \in 1 .. n : t[i].op = "record" => Owes(t, i, t[i].seam)
      /\ Owes(t, n + 1, x)
      /\ \A i \in 1 .. n - 1 : t[i].op # "record" /\ t[i + 1].op # "record" => Distinct(t[i], t[i + 1])
  BY LiesBefore
<1>4. HolesIn(t, n + 2) = {k \in {n + 1} : b.reason \in Holes}
  BY HolesAppend
<1> HIDE DEF n, t
<1>5. HolesIn(t, n + 2) = {}
  BY <1>4 DEF Holes
<1>6. ASSUME NEW i \in DOMAIN t, t[i].op = "record"
      PROVE  Owes(t, i, t[i].seam)
  <2>1. i \in 1 .. n \/ i = n + 1
    BY <1>1
  <2>2. CASE i = n + 1
    BY <1>1, <1>3, <2>2
  <2> QED
    BY <1>3, <1>6, <2>1, <2>2
<1>7. ASSUME NEW i \in 1 .. Len(t) - 1, t[i].op # "record" /\ t[i + 1].op # "record"
      PROVE  Distinct(t[i], t[i + 1])
  <2>1. CASE i = n
    BY <1>1, <1>7, <2>1
  <2>2. CASE i # n
    BY <1>1, <1>3, <1>7, <2>2
  <2> QED
    BY <2>1, <2>2
<1>8. Owes(t, Len(t) + 1, "none")
  <2>1. Len(t) + 1 = n + 2
    BY <1>1
  <2> QED
    BY <1>5, <2>1 DEF Owes
<1> QED
  BY <1>6, <1>7, <1>8 DEF Lies, t

(* The pending region written.                                             *)
LEMMA LiesFlushed ==
  ASSUME WriterTypeOK, Lies(out, seam), Ends(out, pending)
  PROVE  Lies(Flushed, FlushedSeam)
<1> DEFINE b == Block(pending, "none")
<1>1. /\ b \in BlockType /\ b.op # "record" /\ b.reason = pending.reason
      /\ b.comment = pending.comment /\ b.lo = pending.lo
  BY DEF WriterTypeOK, Block, RegionType, BlockType, Seams
<1>2. out \in Seq(BlockType)
  BY DEF WriterTypeOK
<1> HIDE DEF b
<1>3. out # <<>> /\ out[Len(out)].op # "record" => Distinct(out[Len(out)], b)
  BY <1>1 DEF Ends, Distinct
<1>4. Lies(Append(out, b), SeamFor(b.reason, seam))
  BY <1>1, <1>2, <1>3, LiesRegion
<1> QED
  BY <1>1, <1>4 DEF Flushed, FlushedSeam, b

(* Whatever entry is put in the file, what lies between its blocks is as   *)
(* it should be, and so is what is to come.                                *)
LEMMA LiesPutRegion ==
  ASSUME WriterTypeOK, Lies(out, seam), Ends(out, pending), NEW w \in RegionType, PutRegion(w)
  PROVE  Lies(out', seam') /\ Ends(out', pending')
<1>1. /\ w.lo \in Nat /\ w.hi \in Nat /\ pending \in RegionType
      /\ pending.lo \in Nat /\ pending.hi \in Nat /\ out \in Seq(BlockType)
  BY WriteFields DEF WriterTypeOK
<1>2. NoRegion.lo = 0 /\ NoRegion.hi = 0
  BY DEF NoRegion, Undecoded, Write
<1>3. CASE w.hi <= w.lo /\ UNCHANGED file
  BY <1>3 DEF file
<1>4. CASE w.hi > w.lo /\ Joins(w) /\ pending' = Extended(w) /\ UNCHANGED <<seam, out>>
  <2>1. /\ pending'.reason = pending.reason /\ pending'.comment = pending.comment
        /\ pending'.lo = pending.lo /\ pending'.hi >= w.hi
    BY <1>1, <1>4 DEF Extended, RegionType
  <2>2. pending' # NoRegion
    BY <1>1, <1>2, <1>4, <2>1
  <2> QED
    BY <1>4, <2>1, <2>2 DEF Ends, Distinct
<1>5. CASE w.hi > w.lo /\ ~Joins(w) /\ pending' = w /\ out' = Flushed /\ seam' = FlushedSeam
  <2>1. w # NoRegion
    BY <1>1, <1>2, <1>5
  <2>2. CASE pending = NoRegion
    BY <1>5, <2>2 DEF Flushed, FlushedSeam, Ends
  <2>3. CASE pending # NoRegion
    <3>1. Distinct(Block(pending, "none"), w)
      BY <1>1, <1>5, <2>3 DEF Joins, Distinct, Block
    <3>2. Block(pending, "none") \in BlockType
      BY DEF WriterTypeOK, Block, RegionType, BlockType, Seams
    <3>3. out' = Append(out, Block(pending, "none"))
      BY <1>5, <2>3 DEF Flushed
    <3>4. out'[Len(out')] = Block(pending, "none")
      BY <1>1, <3>2, <3>3
    <3>5. Ends(out', pending')
      BY <1>5, <2>1, <3>1, <3>4 DEF Ends
    <3> QED
      BY <1>5, <3>5, LiesFlushed
  <2> QED
    BY <2>2, <2>3
<1> QED
  BY <1>3, <1>4, <1>5 DEF PutRegion

(* A block put in the file agrees with the one before it.                  *)
LEMMA LiesPut ==
  ASSUME WriterTypeOK, PutNext, Plain(held), Lies(out, seam), Ends(out, pending)
  PROVE  Plain(held') /\ Lies(out', seam') /\ Ends(out', pending')
<1> DEFINE e == Head(held)
<1>1. /\ held \in Seq(WriteType) /\ held # <<>> /\ e \in WriteType /\ held' = Tail(held)
      /\ 1 \in DOMAIN held /\ e = held[1]
  BY DEF WriterTypeOK, PutNext
<1>2. Plain(held')
  BY <1>1, TailFacts DEF Plain
<1>3. CASE UNCHANGED file
  BY <1>2, <1>3 DEF file
<1>4. \A r \in Reasons \cup {"none"}, c \in Comments : As(e, r, c) \in RegionType
  BY <1>1 DEF As, Write, WriteType, RegionType
<1>5. CASE \E r \in Reasons \cup {"none"}, c \in Comments : PutRegion(As(e, r, c))
  BY <1>2, <1>4, <1>5, LiesPutRegion
<1>6. CASE e.op = "record" /\ PutRecord(e)
  <2> DEFINE b == Block(e, FlushedSeam)
  <2>1. b \in BlockType
    BY <1>1, <1>6, FlushType DEF Block, WriteType, BlockType
  <2>2. b.op = "record" /\ b.reason = "none" /\ b.seam = FlushedSeam
    BY <1>1, <1>6 DEF Block, Plain
  <2>3. Flushed \in Seq(BlockType) /\ Lies(Flushed, FlushedSeam)
    BY FlushType, LiesFlushed
  <2>4. out' = Append(Flushed, b) /\ seam' = "none"
    BY <1>6 DEF PutRecord
  <2> HIDE DEF b
  <2>5. Lies(out', seam')
    BY <2>1, <2>2, <2>3, <2>4, LiesRecord
  <2>6. out'[Len(out')] = b
    BY <2>1, <2>3, <2>4
  <2> QED
    BY <1>2, <2>2, <2>5, <2>6 DEF Ends
<1>7. declined # "no" => declined \in Comments
  BY DEF WriterTypeOK, Comments
<1>8. e.reason \in Reasons \cup {"none"} /\ e.comment \in Comments
  BY <1>1 DEF WriteType
<1>9. CASE declined # "no"
  BY <1>3, <1>5, <1>7, <1>9 DEF PutNext, PutDeclined, Reasons, Comments
<1>10. CASE declined = "no"
  BY <1>3, <1>5, <1>6, <1>8, <1>10 DEF PutNext, PutConfirmed
<1> QED
  BY <1>9, <1>10

LEMMA LiesFlush ==
  ASSUME WriterTypeOK, Flush, Lies(out, seam), Ends(out, pending)
  PROVE  Lies(out', seam')
BY LiesFlushed DEF Flush

LEMMA LiesNothing == Lies(<<>>, "none") /\ Plain(<<>>) /\ Ends(<<>>, NoRegion)
BY DEF Lies, Plain, Ends, Owes, HolesIn

(* What a driver puts in line leaves it plain.                             *)
LEMMA PlainHold ==
  ASSUME WriterTypeOK, NEW calls \in Seq(WriteType), Hold(calls), Plain(held), Plain(calls)
  PROVE  Plain(held')
<1>1. held \in Seq(WriteType) /\ held' = held \o calls
  BY DEF WriterTypeOK, Hold
<1>2. \A i \in DOMAIN (held \o calls) :
        \/ i \in DOMAIN held /\ (held \o calls)[i] = held[i]
        \/ i - Len(held) \in DOMAIN calls /\ (held \o calls)[i] = calls[i - Len(held)]
  BY <1>1
<1> QED
  BY <1>1, <1>2 DEF Plain

(* What lies between the blocks is what SeamOwed and Coalesced ask for.    *)
LEMMA LiesMeans ==
  ASSUME WriterTypeOK, Lies(out, seam)
  PROVE  WhatLiesBetween
<1>1. \A i \in DOMAIN out : HolesBefore(i) = HolesIn(out, i)
  BY DEF HolesBefore, HolesIn, IsRecord
<1>2. SeamOwed
  BY <1>1 DEF SeamOwed, Lies, Owes, IsRecord
<1>3. Coalesced
  BY DEF Coalesced, Lies, Distinct, IsRecord
<1> QED
  BY <1>2, <1>3 DEF WhatLiesBetween

(* What each of a driver's calls says, of a stream believed and of one     *)
(* declined.                                                               *)
LEMMA CallSaid ==
  ASSUME NEW d \in BOOLEAN, NEW e \in WriteType, e.lo <= e.hi
  PROVE  /\ Says(d, e) => Partition(d, <<e>>, e.lo, e.hi)
         /\ ~Says(d, e) => \A x \in Nat : Partition(d, <<e>>, x, x)
         /\ e.op # "record" => Plain(<<e>>)
<1>1. Says(d, e) => Partition(d, <<e>>, e.lo, e.hi)
  BY PartitionOne
<1>2. ASSUME ~Says(d, e), NEW x \in Nat
      PROVE  Partition(d, <<e>>, x, x)
  <2> DEFINE s == <<e>>
  <2>1. \A i \in DOMAIN s : ~Says(d, s[i])
    BY <1>2
  <2> HIDE DEF s
  <2>2. Partition(d, s, x, x)
    BY <2>1, PartitionNothing
  <2> QED
    BY <2>2 DEF s
<1>3. e.op # "record" => Plain(<<e>>)
  BY DEF Plain
<1> QED
  BY <1>1, <1>2, <1>3

LEMMA CallsSaid ==
  ASSUME NEW d \in BOOLEAN, NEW lo \in Nat, NEW hi \in Nat, lo <= hi
  PROVE  /\ Partition(d, GapCall(lo, hi), lo, hi) /\ Plain(GapCall(lo, hi))
         /\ Partition(d, SkipCall(lo, hi), lo, hi) /\ Plain(SkipCall(lo, hi))
         /\ Partition(d, CopyCall(lo, hi), lo, hi) /\ Plain(CopyCall(lo, hi))
<1>1. \A op \in Ops, r \in Reasons \cup {"none"}, c \in Comments :
        /\ Write(op, lo, hi, r, c) \in WriteType
        /\ Write(op, lo, hi, r, c).op = op
        /\ Write(op, lo, hi, r, c).lo = lo /\ Write(op, lo, hi, r, c).hi = hi
  BY DEF Write, WriteType
<1>2. /\ {"gap", "skip", "copy"} \subseteq Ops /\ {"gap", "skipped"} \subseteq Reasons
      /\ {"none", "copy"} \subseteq Comments
  BY DEF Ops, Reasons, Comments
<1>3. ASSUME NEW op \in {"gap", "skip", "copy"}, NEW r \in {"gap", "skipped"}, NEW c \in {"none", "copy"}
      PROVE  Partition(d, <<Write(op, lo, hi, r, c)>>, lo, hi) /\ Plain(<<Write(op, lo, hi, r, c)>>)
  <2> DEFINE e == Write(op, lo, hi, r, c)
  <2>1. e \in WriteType /\ e.op = op /\ e.lo = lo /\ e.hi = hi
    BY <1>1, <1>2
  <2> HIDE DEF e
  <2>2. Says(d, e) /\ e.op # "record"
    BY <2>1 DEF Says
  <2>3. Partition(d, <<e>>, e.lo, e.hi) /\ Plain(<<e>>)
    BY <2>1, <2>2, CallSaid
  <2> QED
    BY <2>1, <2>3 DEF e
<1> QED
  BY <1>3 DEF GapCall, SkipCall, CopyCall

LEMMA NoteSaid ==
  ASSUME NEW lo \in Nat, NEW hi \in Nat, lo <= hi, NEW r \in Reasons, NEW c \in Comments
  PROVE  /\ Partition(FALSE, Note(lo, hi, r, c), lo, hi)
         /\ \A x \in Nat : Partition(TRUE, Note(lo, hi, r, c), x, x)
         /\ Plain(Note(lo, hi, r, c))
<1> DEFINE e == Write("undecoded", lo, hi, r, c)
<1>1. e \in WriteType /\ e.op = "undecoded" /\ e.lo = lo /\ e.hi = hi
  BY DEF Write, WriteType, Ops
<1> HIDE DEF e
<1>2. Says(FALSE, e) /\ ~Says(TRUE, e)
  BY <1>1 DEF Says
<1>3. /\ Partition(FALSE, <<e>>, e.lo, e.hi) /\ Plain(<<e>>)
      /\ \A x \in Nat : Partition(TRUE, <<e>>, x, x)
  BY <1>1, <1>2, CallSaid
<1> QED
  BY <1>1, <1>3 DEF Note, e

LEMMA NothingSaid ==
  ASSUME NEW d \in BOOLEAN, NEW x \in Nat
  PROVE  Partition(d, <<>>, x, x) /\ Plain(<<>>) /\ <<>> \in Seq(WriteType)
<1> DEFINE s == <<>>
<1>1. (\A i \in DOMAIN s : ~Says(d, s[i])) /\ Plain(s) /\ s \in Seq(WriteType)
  BY DEF Plain
<1> HIDE DEF s
<1>2. Partition(d, s, x, x)
  BY <1>1, PartitionNothing
<1> QED
  BY <1>1, <1>2 DEF s

LEMMA BeginSaid ==
  ASSUME NEW lo \in Nat, NEW hi \in Nat, lo <= hi
  PROVE  /\ \A x \in Nat : Partition(FALSE, Begin(lo, hi), x, x)
         /\ ~confirmed => Partition(TRUE, Begin(lo, hi), lo, hi)
         /\ Plain(Begin(lo, hi))
<1> DEFINE e == Write("run", lo, hi, "none", "none")
<1>1. e \in WriteType /\ e.op = "run" /\ e.lo = lo /\ e.hi = hi
  BY DEF Write, WriteType, Ops, Comments
<1>2. Begin(lo, hi) = IF confirmed THEN <<>> ELSE <<e>>
  BY DEF Begin
<1> HIDE DEF e
<1>3. Says(TRUE, e) /\ ~Says(FALSE, e)
  BY <1>1 DEF Says
<1>4. /\ Partition(TRUE, <<e>>, lo, hi) /\ Plain(<<e>>)
      /\ \A x \in Nat : Partition(FALSE, <<e>>, x, x)
  BY <1>1, <1>3, CallSaid
<1> QED
  BY <1>2, <1>4, NothingSaid

(* A declined stream keeps nothing a message wrote.                        *)
LEMMA MessageSaid ==
  ASSUME NEW w \in Seq(WriteType), MessageCalls(w)
  PROVE  (\A x \in Nat : Partition(TRUE, w, x, x)) /\ Plain(w)
<1>1. \A i \in DOMAIN w : ~Says(TRUE, w[i])
  BY DEF MessageCalls, Says
<1>2. Plain(w)
  BY DEF MessageCalls, Plain
<1> QED
  BY <1>1, <1>2, PartitionNothing

LEMMA AccountHold ==
  ASSUME WriterTypeOK, NEW d \in BOOLEAN, NEW n \in Nat, NEW m \in Nat, n <= m,
         NEW calls \in Seq(WriteType), Hold(calls), UNCHANGED <<out, pending>>,
         Account(d, n, out, pending, held), Partition(d, calls, n, m)
  PROVE  Account(d, m, out', pending', held')
<1>1. /\ out \in Seq(BlockType) /\ pending \in RegionType /\ held \in Seq(WriteType)
      /\ held' = held \o calls /\ out' = out /\ pending' = pending
  BY DEF WriterTypeOK, Hold
<1> QED
  BY <1>1, AccountMore

(* What is held stays held while more is.                                  *)
LEMMA HoldKeeps ==
  ASSUME WriterTypeOK, NEW calls \in Seq(WriteType), Hold(calls)
  PROVE  /\ \A i \in DOMAIN held : i \in DOMAIN held' /\ held'[i] = held[i]
         /\ \A i \in DOMAIN calls : \E k \in DOMAIN held' : held'[k] = calls[i]
         /\ \A k \in DOMAIN held' :
              \/ k \in DOMAIN held /\ held'[k] = held[k]
              \/ \E i \in DOMAIN calls : held'[k] = calls[i]
<1>1. held \in Seq(WriteType) /\ held' = held \o calls
  BY DEF WriterTypeOK, Hold
<1>2. \A i \in DOMAIN held : i \in DOMAIN held' /\ held'[i] = held[i]
  BY <1>1
<1>3. \A i \in DOMAIN calls : i + Len(held) \in DOMAIN held' /\ held'[i + Len(held)] = calls[i]
  BY <1>1
<1>4. \A k \in DOMAIN held' :
        \/ k \in DOMAIN held /\ held'[k] = held[k]
        \/ k - Len(held) \in DOMAIN calls /\ held'[k] = calls[k - Len(held)]
  BY <1>1
<1> QED
  BY <1>2, <1>3, <1>4

(* The file only grows.                                                    *)
LEMMA FileGrows ==
  ASSUME WriterTypeOK, \/ PutNext
                       \/ Flush
  PROVE  \A i \in DOMAIN out : i \in DOMAIN out' /\ out'[i] = out[i]
<1>1. \A i \in DOMAIN out : i \in DOMAIN Flushed /\ Flushed[i] = out[i]
  BY DEF Flushed, WriterTypeOK
<1>2. ASSUME NEW b \in BlockType, out' = Append(Flushed, b)
      PROVE  \A i \in DOMAIN out : i \in DOMAIN out' /\ out'[i] = out[i]
  <2>1. Flushed \in Seq(BlockType)
    BY FlushType
  <2>2. \A i \in DOMAIN Flushed : i \in DOMAIN out' /\ out'[i] = Flushed[i]
    BY <1>2, <2>1
  <2> QED
    BY <1>1, <2>2
<1>3. CASE out' = out \/ out' = Flushed
  BY <1>1, <1>3
<1>4. CASE PutNext
  <2> DEFINE e == Head(held)
  <2>1. e \in WriteType
    BY <1>4 DEF WriterTypeOK, PutNext
  <2>2. CASE e.op = "record" /\ PutRecord(e)
    <3>1. Block(e, FlushedSeam) \in BlockType
      BY <2>1, <2>2, FlushType DEF Block, WriteType, BlockType
    <3> QED
      BY <1>2, <2>2, <3>1 DEF PutRecord
  <2>3. CASE out' = out \/ out' = Flushed
    BY <1>3, <2>3
  <2> QED
    BY <1>4, <2>2, <2>3 DEF PutNext, PutConfirmed, PutDeclined, PutRegion, file
<1>5. CASE Flush
  BY <1>3, <1>5 DEF Flush
<1> QED
  BY <1>4, <1>5

-----------------------------------------------------------------------------
(***************************************************************************)
(* What a declined stream writes of a region, under its comment, and where *)
(* an offset that was tried is while nothing has been believed: in a run   *)
(* that is held, or in a region that says it could not be decoded.         *)
(***************************************************************************)
Refusal(r) ==
  r.op = "undecoded" /\ r.comment = (IF r.reason = "gap" THEN "none" ELSE declined)

RefusalInv ==
  declined # "no" =>
    /\ \A i \in DOMAIN out : Refusal(out[i])
    /\ pending # NoRegion => Refusal(pending)

HeldRun(x) == \E i \in DOMAIN held : held[i].op = "run" /\ Covers(held[i], x)

NamedSo(r, x, reason, comment) ==
  r.op = "undecoded" /\ Covers(r, x) /\ r.reason = reason /\ r.comment = comment

WrittenAs(x, reason, comment) ==
  \/ \E i \in DOMAIN out : NamedSo(out[i], x, reason, comment)
  \/ NamedSo(pending, x, reason, comment)

WrittenOff(x) == \E c \in Comments : WrittenAs(x, "undecodable", c)

(* The region pending is in the file once it is flushed, as it was.        *)
LEMMA FlushedBlocks ==
  ASSUME WriterTypeOK
  PROVE  /\ \A i \in DOMAIN Flushed :
              \/ i \in DOMAIN out /\ Flushed[i] = out[i]
              \/ pending # NoRegion /\ Flushed[i] = Block(pending, "none")
         /\ \A i \in DOMAIN out : i \in DOMAIN Flushed /\ Flushed[i] = out[i]
         /\ pending # NoRegion => \E i \in DOMAIN Flushed : Flushed[i] = Block(pending, "none")
<1> DEFINE b == Block(pending, "none")
<1>1. b \in BlockType /\ out \in Seq(BlockType)
  BY DEF WriterTypeOK, Block, RegionType, BlockType, Seams
<1> HIDE DEF b
<1>2. CASE pending = NoRegion
  BY <1>2 DEF Flushed
<1>3. CASE pending # NoRegion
  <2>1. Flushed = Append(out, b)
    BY <1>3 DEF Flushed, b
  <2>2. Len(out) + 1 \in DOMAIN Append(out, b) /\ Append(out, b)[Len(out) + 1] = b
    BY <1>1
  <2>3. \A i \in DOMAIN out : i \in DOMAIN Append(out, b) /\ Append(out, b)[i] = out[i]
    BY <1>1
  <2>4. \A i \in DOMAIN Append(out, b) : i \in DOMAIN out \/ i = Len(out) + 1
    BY <1>1
  <2> QED
    BY <1>3, <2>1, <2>2, <2>3, <2>4 DEF b
<1> QED
  BY <1>2, <1>3

LEMMA RefusalPutRegion ==
  ASSUME WriterTypeOK, declined # "no", RefusalInv, UNCHANGED declined,
         NEW w \in RegionType, Refusal(w), PutRegion(w)
  PROVE  RefusalInv'
<1>1. /\ \A i \in DOMAIN out : Refusal(out[i])
      /\ pending # NoRegion => Refusal(pending)
      /\ pending \in RegionType
  BY DEF RefusalInv, WriterTypeOK
<1>2. CASE UNCHANGED file
  BY <1>2 DEF file, RefusalInv, Refusal
<1>3. CASE Joins(w) /\ pending' = Extended(w) /\ UNCHANGED <<seam, out>>
  <2>1. /\ pending'.op = pending.op /\ pending'.reason = pending.reason
        /\ pending'.comment = pending.comment
    BY <1>1, <1>3 DEF Extended, RegionType
  <2> QED
    BY <1>1, <1>3, <2>1 DEF Joins, RefusalInv, Refusal
<1>4. CASE pending' = w /\ out' = Flushed
  <2>1. pending # NoRegion => Refusal(Block(pending, "none"))
    BY <1>1 DEF Refusal, Block
  <2>2. \A i \in DOMAIN Flushed : Refusal(Flushed[i])
    BY <1>1, <2>1, FlushedBlocks
  <2> QED
    BY <1>4, <2>2 DEF RefusalInv, Refusal
<1> QED
  BY <1>2, <1>3, <1>4 DEF PutRegion

(* Of a declined stream an entry puts no record in the file.               *)
LEMMA RefusalPut ==
  ASSUME WriterTypeOK, PutNext, RefusalInv
  PROVE  RefusalInv'
<1> DEFINE e == Head(held)
<1>1. declined' = declined /\ e \in WriteType
  BY DEF PutNext, decision, WriterTypeOK
<1>2. CASE declined = "no"
  BY <1>1, <1>2 DEF RefusalInv
<1>3. CASE declined # "no"
  <2>1. PutDeclined(e) /\ declined \in Comments
    BY <1>3 DEF PutNext, WriterTypeOK, Comments
  <2>2. \A r \in Reasons, c \in Comments :
          /\ As(e, r, c) \in RegionType /\ As(e, r, c).op = "undecoded"
          /\ As(e, r, c).reason = r /\ As(e, r, c).comment = c
    BY <1>1 DEF As, Write, WriteType, RegionType
  <2>3. CASE e.op \in {"record", "undecoded"}
    BY <1>1, <2>1, <2>3 DEF PutDeclined, RefusalInv, Refusal, file
  <2>4. CASE e.op = "gap"
    <3>1. PutRegion(As(e, "gap", "none")) /\ "gap" \in Reasons /\ "none" \in Comments
      BY <2>1, <2>4 DEF PutDeclined, Reasons, Comments
    <3>2. Refusal(As(e, "gap", "none")) /\ As(e, "gap", "none") \in RegionType
      BY <2>2, <3>1 DEF Refusal
    <3> QED
      BY <1>1, <1>3, <3>1, <3>2, RefusalPutRegion
  <2>5. CASE e.op \in {"run", "copy", "skip"}
    <3>1. PICK r \in {"undecodable", "skipped"} : PutRegion(As(e, r, declined))
      BY <2>1, <2>5 DEF PutDeclined
    <3>2. r \in Reasons /\ r # "gap"
      BY DEF Reasons
    <3>3. Refusal(As(e, r, declined)) /\ As(e, r, declined) \in RegionType
      BY <2>1, <2>2, <3>2 DEF Refusal
    <3> QED
      BY <1>1, <1>3, <3>1, <3>3, RefusalPutRegion
  <2>6. e.op \in Ops
    BY <1>1 DEF WriteType
  <2> QED
    BY <2>3, <2>4, <2>5, <2>6 DEF Ops
<1> QED
  BY <1>2, <1>3

LEMMA RefusalFlush ==
  ASSUME WriterTypeOK, Flush, RefusalInv, UNCHANGED declined
  PROVE  RefusalInv'
<1>1. pending # NoRegion /\ Refusal(pending) => Refusal(Block(pending, "none"))
  BY DEF Refusal, Block
<1>2. declined # "no" => \A i \in DOMAIN Flushed : Refusal(Flushed[i])
  BY <1>1, FlushedBlocks DEF RefusalInv
<1> QED
  BY <1>2 DEF Flush, RefusalInv, Refusal

(* What is named so stays so, flushed or joined by another region.         *)
LEMMA WrittenAsFlushed ==
  ASSUME WriterTypeOK, NEW x \in Nat, NEW r, NEW c, WrittenAs(x, r, c)
  PROVE  \E i \in DOMAIN Flushed : NamedSo(Flushed[i], x, r, c)
<1>1. CASE \E i \in DOMAIN out : NamedSo(out[i], x, r, c)
  BY <1>1, FlushedBlocks
<1>2. CASE NamedSo(pending, x, r, c)
  <2>1. pending # NoRegion
    BY <1>2 DEF NoRegion, Undecoded, Write, NamedSo, Covers
  <2>2. PICK i \in DOMAIN Flushed : Flushed[i] = Block(pending, "none")
    BY <2>1, FlushedBlocks
  <2>3. NamedSo(Block(pending, "none"), x, r, c)
    BY <1>2 DEF Block, NamedSo, Covers
  <2> QED
    BY <2>2, <2>3
<1> QED
  BY <1>1, <1>2 DEF WrittenAs

LEMMA WrittenAsPutRegion ==
  ASSUME WriterTypeOK, NEW x \in Nat, NEW r, NEW c, NEW w \in RegionType, PutRegion(w),
         \/ WrittenAs(x, r, c)
         \/ NamedSo(w, x, r, c) /\ (pending # NoRegion => pending.lo <= w.lo)
  PROVE  WrittenAs(x, r, c)'
<1>1. /\ w.lo \in Nat /\ w.hi \in Nat /\ pending \in RegionType
      /\ pending.lo \in Nat /\ pending.hi \in Nat /\ pending.op = "undecoded"
  BY WriteFields DEF WriterTypeOK
<1>2. CASE w.hi <= w.lo /\ UNCHANGED file
  BY <1>1, <1>2 DEF file, WrittenAs, NamedSo, Covers
<1>3. CASE w.hi > w.lo /\ Joins(w) /\ pending' = Extended(w) /\ UNCHANGED <<seam, out>>
  <2>1. /\ pending'.reason = pending.reason /\ pending'.lo = pending.lo
        /\ pending'.comment = pending.comment /\ pending'.op = pending.op
        /\ pending'.hi >= w.hi /\ pending'.hi >= pending.hi /\ pending'.hi \in Nat
    BY <1>1, <1>3 DEF Extended, RegionType
  <2>2. pending.reason = w.reason /\ pending.comment = w.comment /\ pending # NoRegion
    BY <1>3 DEF Joins
  <2>3. Covers(pending, x) \/ (Covers(w, x) /\ pending.lo <= w.lo) => Covers(pending', x)
    BY <1>1, <2>1 DEF Covers
  <2> QED
    BY <1>1, <1>3, <2>1, <2>2, <2>3 DEF WrittenAs, NamedSo
<1>4. CASE pending' = w /\ out' = Flushed
  <2>1. WrittenAs(x, r, c) => WrittenAs(x, r, c)'
    BY <1>4, WrittenAsFlushed DEF WrittenAs
  <2> QED
    BY <1>4, <2>1 DEF WrittenAs
<1> QED
  BY <1>2, <1>3, <1>4 DEF PutRegion

LEMMA WrittenAsPutRecord ==
  ASSUME WriterTypeOK, NEW x \in Nat, NEW r, NEW c, WrittenAs(x, r, c), NEW w, PutRecord(w)
  PROVE  WrittenAs(x, r, c)'
<1>1. PICK i \in DOMAIN Flushed : NamedSo(Flushed[i], x, r, c)
  BY WrittenAsFlushed
<1>2. Flushed \in Seq(BlockType)
  BY FlushType
<1>3. PICK b : out' = Append(Flushed, b)
  BY DEF PutRecord
<1>4. i \in DOMAIN out' /\ out'[i] = Flushed[i]
  BY <1>2, <1>3
<1> QED
  BY <1>1, <1>4 DEF WrittenAs

(* The region an entry becomes comes after the one pending.                *)
LEMMA PendingBefore ==
  ASSUME WriterTypeOK, held # <<>>, NEW d \in BOOLEAN, NEW n \in Nat,
         Account(d, n, out, pending, held), Says(d, held[1]), held[1].op # "record"
  PROVE  pending.lo <= held[1].lo
<1>1. 1 \in DOMAIN held /\ held[1] \in WriteType
  BY DEF WriterTypeOK
<1>2. pending.op = "undecoded"
  BY WriteFields DEF WriterTypeOK
<1>3. Follows(pending, held[1]) /\ Between(pending, 0, n)
  BY <1>1 DEF Account
<1>4. pending.hi <= held[1].lo /\ pending.lo <= pending.hi
  BY <1>2, <1>3 DEF Follows, Between
<1> QED
  BY <1>1, <1>4, WriteFields DEF WriterTypeOK

(* What was tried stays in a run that is held, or written as undecodable.  *)
LEMMA WrittenOffPut ==
  ASSUME WriterTypeOK, PutNext, declined # "no", NEW n \in Nat,
         Account(TRUE, n, out, pending, held), NEW x \in Nat, HeldRun(x) \/ WrittenOff(x)
  PROVE  HeldRun(x)' \/ WrittenOff(x)'
<1> DEFINE e == Head(held)
<1>1. /\ held \in Seq(WriteType) /\ held # <<>> /\ held' = Tail(held) /\ PutDeclined(e)
      /\ declined \in Comments /\ e = held[1] /\ 1 \in DOMAIN held
  BY DEF PutNext, WriterTypeOK, Comments
<1>2. e \in WriteType /\ e.op \in Ops /\ \A i \in DOMAIN held : i # 1 => i - 1 \in DOMAIN Tail(held) /\ Tail(held)[i - 1] = held[i]
  <2>1. e \in WriteType
    BY <1>1
  <2> QED
    BY <1>1, <2>1, TailFacts DEF WriteType
<1>3. \A r \in Reasons, c \in Comments :
        /\ As(e, r, c) \in RegionType /\ As(e, r, c).reason = r
        /\ As(e, r, c).lo = e.lo /\ As(e, r, c).hi = e.hi
  BY <1>2 DEF As, Write, WriteType, RegionType
<1>4. CASE WrittenOff(x)
  <2>1. CASE UNCHANGED file
    BY <1>4, <2>1 DEF file, WrittenOff, WrittenAs
  <2>2. CASE \E r \in Reasons, c \in Comments : PutRegion(As(e, r, c))
    <3>1. PICK c \in Comments : WrittenAs(x, "undecodable", c)
      BY <1>4 DEF WrittenOff
    <3>2. WrittenAs(x, "undecodable", c)'
      BY <1>3, <2>2, <3>1, WrittenAsPutRegion
    <3> QED
      BY <3>2 DEF WrittenOff
  <2> QED
    BY <1>1, <1>2, <2>1, <2>2 DEF PutDeclined, Reasons, Comments, Ops
<1>5. CASE e.op = "run" /\ Covers(e, x)
  <2>1. PutRegion(As(e, "undecodable", declined)) /\ "undecodable" \in Reasons
    BY <1>1, <1>5 DEF PutDeclined, Reasons
  <2>2. pending.lo <= e.lo
    BY <1>1, <1>5, PendingBefore DEF Says
  <2>3. /\ As(e, "undecodable", declined) \in RegionType
        /\ As(e, "undecodable", declined).lo = e.lo
        /\ NamedSo(As(e, "undecodable", declined), x, "undecodable", declined)
    BY <1>1, <1>3, <1>5, <2>1 DEF NamedSo, As, Write, Covers
  <2>4. PICK c \in Comments : c = declined
    BY <1>1
  <2>5. WrittenAs(x, "undecodable", c)'
    BY <2>1, <2>2, <2>3, <2>4, WrittenAsPutRegion
  <2> QED
    BY <2>5 DEF WrittenOff
<1>6. CASE HeldRun(x)
  <2>1. PICK i \in DOMAIN held : held[i].op = "run" /\ Covers(held[i], x)
    BY <1>6 DEF HeldRun
  <2>2. CASE i = 1
    BY <1>1, <1>5, <2>1, <2>2
  <2>3. CASE i # 1
    BY <1>1, <1>2, <2>1, <2>3 DEF HeldRun
  <2> QED
    BY <2>2, <2>3
<1> QED
  BY <1>4, <1>6

(* A run that is held stays held until the stream is decided.              *)
LEMMA HeldRunHold ==
  ASSUME WriterTypeOK, NEW calls \in Seq(WriteType), Hold(calls), NEW x, HeldRun(x)
  PROVE  HeldRun(x)'
BY HoldKeeps DEF HeldRun

LEMMA BeginHeld ==
  ASSUME WriterTypeOK, NEW lo \in Nat, NEW hi \in Nat, NEW calls \in Seq(WriteType), ~confirmed,
         Hold(Begin(lo, hi) \o calls), NEW x \in lo .. hi - 1
  PROVE  HeldRun(x)'
<1> DEFINE e == Write("run", lo, hi, "none", "none")
<1>1. e \in WriteType /\ e.op = "run" /\ Covers(e, x)
  BY DEF Write, WriteType, Ops, Comments, Covers
<1>2. Begin(lo, hi) = <<e>>
  BY DEF Begin
<1> HIDE DEF e
<1>3. <<e>> \o calls \in Seq(WriteType) /\ 1 \in DOMAIN (<<e>> \o calls) /\ (<<e>> \o calls)[1] = e
  BY <1>1
<1>4. \E k \in DOMAIN held' : held'[k] = e
  <2> DEFINE c == <<e>> \o calls
  <2>1. Hold(c) /\ c \in Seq(WriteType) /\ 1 \in DOMAIN c /\ c[1] = e
    BY <1>2, <1>3
  <2> HIDE DEF c
  <2> QED
    BY <2>1, HoldKeeps
<1> QED
  BY <1>1, <1>4 DEF HeldRun

(* Nothing but the start of a run puts a run in line.                      *)
LEMMA TriedHold ==
  ASSUME WriterTypeOK, NEW calls \in Seq(WriteType), Hold(calls), \A i \in DOMAIN calls : calls[i].op # "run"
  PROVE  Tried' => Tried
BY HoldKeeps DEF Tried

(* Calls of a message are not runs of the stream.                          *)
LEMMA NotRuns ==
  ASSUME NEW lo, NEW hi, NEW r, NEW c
  PROVE  /\ \A i \in DOMAIN GapCall(lo, hi) : GapCall(lo, hi)[i].op # "run"
         /\ \A i \in DOMAIN SkipCall(lo, hi) : SkipCall(lo, hi)[i].op # "run"
         /\ \A i \in DOMAIN CopyCall(lo, hi) : CopyCall(lo, hi)[i].op # "run"
         /\ \A i \in DOMAIN Note(lo, hi, r, c) : Note(lo, hi, r, c)[i].op # "run"
BY DEF GapCall, SkipCall, CopyCall, Note, Write

(* The end of the stream decides it, if nothing did before.                *)
LEMMA FinishDecides ==
  ASSUME Finish
  PROVE  /\ Decided'
         /\ Decided => UNCHANGED <<confirmed, declined>>
         /\ ~Decided => \/ confirmed' /\ declined' = "no" /\ ~Tried
                        \/ ~confirmed' /\ declined' # "no" /\ Tried
<1>1. CASE Decided /\ UNCHANGED decision
  BY <1>1 DEF decision, Decided
<1>2. CASE ~Decided /\ ~Tried /\ Confirm
  BY <1>2 DEF Confirm, Decided
<1>3. CASE ~Decided /\ Tried /\ \E c \in Declines : Decline(c)
  <2>1. PICK c \in Declines : Decline(c)
    BY <1>3
  <2>2. declined' # "no"
    BY <2>1 DEF Decline, Declines
  <2>3. confirmed' = confirmed
    BY <2>1 DEF Decline
  <2>4. ~confirmed'
    BY <1>3, <2>3 DEF Decided
  <2> QED
    BY <1>3, <2>2, <2>4 DEF Decided
<1> QED
  BY <1>1, <1>2, <1>3 DEF Finish, Declines
=============================================================================
