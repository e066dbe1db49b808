------------------------------ MODULE StageStep ------------------------------
(***************************************************************************)
(* One message, as the drivers of kober.stage see it: the step they call   *)
(* (_interpreted or _compiled) reads one message from an offset and hands  *)
(* the sink a sequence of writes and the driver a verdict.  What is inside *)
(* a message is the decoder's and the emitter's business; here a message   *)
(* is every outcome their contract allows:                                 *)
(*                                                                         *)
(*   - the bytes between where the message began and where the decode      *)
(*     stopped are either cited by a record or named by a region;          *)
(*   - a message's records come first and its regions after them;          *)
(*   - a message that failed names what is left with its own reason, and   *)
(*     fields decoded for control flow only (emit: none) are skipped.      *)
(***************************************************************************)
EXTENDS Integers, Sequences

CONSTANTS
  Extent,   (* the largest offset of the stream                            *)
  Emit,     (* the granularity in force at the entry unit                  *)
  Quirks    (* what a message may do that most specifications' never do    *)

ASSUME ExtentAssumption == Extent \in Nat \ {0}
ASSUME EmitAssumption == Emit \in {"field", "message", "none"}
ASSUME QuirksAssumption ==
  Quirks \subseteq {"empty_transform", "unordered_regions", "sub_byte"}

(* No offset: where the code has None.                                     *)
NoOffset == -1

(* A message that runs past its run ends somewhere up to here.             *)
MaxReach == Extent + 1

Reasons  == {"gap", "truncated", "undecodable", "skipped"}
Verdicts == {"ok", "transform", "undecodable", "truncated"}

(* The verdicts of a message whose framing held.                           *)
Framed == {"ok", "transform"}

(***************************************************************************)
(* What a sink is told.  A write is a record citing [lo, hi), or a region  *)
(* [lo, hi) with a reason and perhaps a comment.                           *)
(***************************************************************************)
Write(op, lo, hi, reason, comment) ==
  [op |-> op, lo |-> lo, hi |-> hi, reason |-> reason, comment |-> comment]

Record(lo, hi) == Write("record", lo, hi, "none", "none")

Undecoded(lo, hi, reason) == Write("undecoded", lo, hi, reason, "none")

(* A region is written only where there is something to name.              *)
NonEmpty(w) == IF w.lo < w.hi THEN <<w>> ELSE <<>>

(* The reasons a message may give for bytes inside it.                     *)
NamedAs(verdict) ==
  {r \in {"skipped", "undecodable", "truncated"} :
     \/ r = "skipped"
     \/ r = verdict
     \/ r = "undecodable" /\ verdict = "transform"}

(* At field granularity: a record and what is left beside it, or no record *)
(* and two regions.                                                        *)
RecordFirst(a, b, verdict) ==
  {<<Record(a, m)>> \o NonEmpty(Undecoded(m, b, r)) : m \in a .. b, r \in NamedAs(verdict)}

RecordLast(a, b, verdict) ==
  {<<Record(m, b)>> \o NonEmpty(Undecoded(a, m, r)) : m \in a .. b, r \in NamedAs(verdict)}

NoRecord(a, b, verdict) ==
  {NonEmpty(Undecoded(a, m, r)) \o NonEmpty(Undecoded(m, b, s)) :
     m \in a .. b, r \in NamedAs(verdict), s \in NamedAs(verdict)}

(***************************************************************************)
(* The interpreter's regions are sorted and merged by emit.plan.  A        *)
(* generated module names a failed transform's source when the transform   *)
(* runs, so a source read earlier may be named later, and _RegionsLast     *)
(* keeps that order.                                                       *)
(***************************************************************************)
Unordered(a, b, verdict) ==
  {NonEmpty(Undecoded(m, b, s)) \o NonEmpty(Undecoded(a, m, r)) :
     m \in a .. b, r \in NamedAs(verdict), s \in NamedAs(verdict)}

FieldWrites(a, b, verdict) ==
  RecordFirst(a, b, verdict) \cup RecordLast(a, b, verdict) \cup NoRecord(a, b, verdict) \cup
  (IF verdict = "transform" /\ "unordered_regions" \in Quirks
     THEN Unordered(a, b, verdict) ELSE {})

(* Everything a message over [a, b) may write.  At message granularity     *)
(* only a message that decoded is a record.                                *)
MessageWrites(a, b, verdict) ==
  {NonEmpty(IF verdict \in Framed THEN Record(a, b) ELSE Undecoded(a, b, verdict))}

Writes(a, b, verdict) ==
  IF Emit = "field"
    THEN FieldWrites(a, b, verdict)
    ELSE IF Emit = "message"
      THEN MessageWrites(a, b, verdict)
      ELSE {NonEmpty(Undecoded(a, b, "skipped"))}

Outcome(verdict, stop, next, refused, reach, writes) ==
  [verdict |-> verdict, stop |-> stop, next |-> next,
   refused |-> refused, reach |-> reach, writes |-> writes]

(* Where the message after one that stopped at stop begins: there, or in   *)
(* the byte before, when a message need not be a whole number of bytes.    *)
NextStarts(at, stop) ==
  {stop} \cup {n \in {stop - 1} : "sub_byte" \in Quirks /\ n > at}

(***************************************************************************)
(* The outcomes of decoding one message at offset at of a run that ends at *)
(* end.  stop is the first byte nothing has read; reach is where a         *)
(* truncated message would have ended, when the read that ran out knew.    *)
(***************************************************************************)
FramedAt(at, stop, verdict) ==
  {Outcome(verdict, stop, next, FALSE, NoOffset, w) :
     next \in NextStarts(at, stop), w \in Writes(at, stop, verdict)}

UndecodableAt(at, stop) ==
  {Outcome("undecodable", stop, stop, refused, NoOffset, w) :
     refused \in BOOLEAN, w \in Writes(at, stop, "undecodable")}

TruncatedAt(at, stop, end) ==
  {Outcome("truncated", stop, stop, FALSE, reach, w) :
     reach \in {NoOffset} \cup (end + 1) .. MaxReach, w \in Writes(at, stop, "truncated")}

(* Without the quirk a transform never fails over a message of no bytes.   *)
TransformAt(at, stop) ==
  {o \in FramedAt(at, stop, "transform") : o.next = at => "empty_transform" \in Quirks}

Outcomes(at, end) ==
  UNION {FramedAt(at, stop, "ok") \cup TransformAt(at, stop) \cup
         UndecodableAt(at, stop) \cup TruncatedAt(at, stop, end) : stop \in at .. end}
=============================================================================
