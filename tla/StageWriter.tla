----------------------------- MODULE StageWriter -----------------------------
(***************************************************************************)
(* The sink a decode stage is written through: class _Writer of            *)
(* kober.stage, shared by the byte-stream and the datagram driver.         *)
(*                                                                         *)
(* The code keeps what it holds back as a list of runs, each with the list *)
(* of its writes, and passes a call straight to the file once the stream   *)
(* is decided.  Here both are one queue: an entry waits in held until the  *)
(* stream is confirmed or declined, and is then put in the file by PutNext *)
(* before the driver takes another step (Idle), which is the order of the  *)
(* synchronous calls.  A run is an entry of its own, followed by its       *)
(* writes.                                                                 *)
(***************************************************************************)
EXTENDS StageStep, FiniteSets

VARIABLES
  confirmed,         (* a whole message has decoded                        *)
  declined,          (* why the stream is not in this protocol, or "no"    *)
  lost,              (* an attempt after a gap was dropped, not cut short  *)
  transformFailure,  (* a message's transform failed before confirmation   *)
  held,              (* calls not yet in the file, in order                *)
  pending,           (* the region being coalesced, or NoRegion            *)
  seam,              (* the seam owed to the next record, or "none"        *)
  out                (* the blocks in the output file                      *)

decision == <<confirmed, declined, lost, transformFailure>>
file     == <<pending, seam, out>>
writerVars == <<confirmed, declined, lost, transformFailure, held, pending, seam, out>>

(* The comments of a declined stream: a message failed, every message that *)
(* decoded had a transform fail, an attempt found no boundary, or every    *)
(* attempt ran out.                                                        *)
Declines == {"failed", "transforms", "no boundary", "ran out"}

(* The comments of single regions.                                         *)
Comments == {"none", "cut", "lost", "copy"} \cup Declines

(* Seams, by the reason of the hole that owes them; class "hole" in        *)
(* zpf.blocks.UNDECODED_REASONS.                                           *)
Holes == {"gap", "truncated"}
Seams == {"none"} \cup Holes

Ops == {"record", "undecoded", "run", "gap", "copy", "skip"}

NoRegion == Undecoded(0, 0, "none")

Block(w, s) ==
  [op |-> w.op, lo |-> w.lo, hi |-> w.hi, reason |-> w.reason,
   comment |-> w.comment, seam |-> s]

WriterInit ==
  /\ confirmed = FALSE
  /\ declined = "no"
  /\ lost = FALSE
  /\ transformFailure = FALSE
  /\ held = <<>>
  /\ pending = NoRegion
  /\ seam = "none"
  /\ out = <<>>

Decided == confirmed \/ declined # "no"

(* Nothing is waiting to be put in the file, so the driver goes on.        *)
Idle == Decided => held = <<>>

-----------------------------------------------------------------------------
(***************************************************************************)
(* What the driver says.  Each operator below is what one method adds to   *)
(* held, or how it changes the decision.                                   *)
(***************************************************************************)
Begin(lo, hi) ==
  IF confirmed THEN <<>> ELSE <<Write("run", lo, hi, "none", "none")>>

GapCall(lo, hi)  == <<Write("gap", lo, hi, "gap", "none")>>
SkipCall(lo, hi) == <<Write("skip", lo, hi, "skipped", "none")>>

(* Mutant: a copy is held as if it were the message's own leftover.        *)
CopyCallUnsaid(lo, hi) == <<Write("copy", lo, hi, "skipped", "none")>>
CopyCall(lo, hi) == <<Write("copy", lo, hi, "skipped", "copy")>>

Note(lo, hi, reason, comment) == <<Write("undecoded", lo, hi, reason, comment)>>

(* Put the calls in line.                                                  *)
Hold(calls) == held' = held \o calls

(* A whole message has decoded.                                            *)
Confirm ==
  /\ confirmed' = TRUE
  /\ UNCHANGED <<declined, lost, transformFailure>>

Decline(comment) ==
  /\ declined' = comment
  /\ UNCHANGED <<confirmed, lost, transformFailure>>

(* Mutants: a failure declines a stream that is confirmed; running out     *)
(* declines it too.                                                        *)
FailedAnyTime(reason) ==
  IF reason # "undecodable" THEN UNCHANGED decision ELSE Decline("failed")

FailedAnyReason(reason) ==
  IF confirmed THEN UNCHANGED decision ELSE Decline("failed")

(* A message failed: evidence of the wrong protocol only before any whole  *)
(* message, and only if it did not merely run out.                         *)
Failed(reason) ==
  IF confirmed \/ reason # "undecodable"
    THEN UNCHANGED decision
    ELSE Decline("failed")

TransformFailed ==
  /\ transformFailure' = (transformFailure \/ ~confirmed)
  /\ UNCHANGED <<confirmed, declined, lost>>

(* Mutant: every dropped guess counts.                                     *)
LoseAny(reason) ==
  /\ lost' = TRUE
  /\ UNCHANGED <<confirmed, declined, transformFailure>>

(* A guess after a gap was dropped; one that ran out does not count.       *)
Lose(reason) ==
  /\ lost' = (lost \/ reason # "truncated")
  /\ UNCHANGED <<confirmed, declined, transformFailure>>

Tried == \E i \in DOMAIN held : held[i].op = "run"

(* The stream ended: decline it if something was tried and nothing ever    *)
(* decoded, and believe it if there was nothing to try.                    *)
Finish ==
  \/ Decided /\ UNCHANGED decision
  \/ ~Decided /\ ~Tried /\ Confirm
  \/ ~Decided /\ Tried /\ Decline(IF transformFailure THEN "transforms"
                                 ELSE IF lost THEN "no boundary" ELSE "ran out")

-----------------------------------------------------------------------------
(***************************************************************************)
(* The file.                                                               *)
(***************************************************************************)

(* Mutant: a region that is no hole settles the seam.                      *)
SeamForThisOne(reason, owed) == IF reason \in Holes THEN reason ELSE "none"

(* The seam a region leaves owed once it is written.                       *)
SeamFor(reason, owed) == IF reason \in Holes THEN reason ELSE owed

(* The file, and the seam owed, once the pending region is written.        *)
Flushed ==
  IF pending = NoRegion THEN out ELSE Append(out, Block(pending, "none"))
FlushedSeam ==
  IF pending = NoRegion THEN seam ELSE SeamFor(pending.reason, seam)

Flush ==
  /\ out' = Flushed
  /\ seam' = FlushedSeam
  /\ pending' = NoRegion

(* _record: a record carries the seam owed, and settles it.                *)
PutRecord(w) ==
  /\ out' = Append(Flushed, Block(w, FlushedSeam))
  /\ seam' = "none"
  /\ pending' = NoRegion

(* Mutant: regions that only meet stay apart.                              *)
JoinsOverlapping(w) ==
  /\ pending # NoRegion
  /\ pending.reason = w.reason
  /\ pending.comment = w.comment
  /\ pending.hi > w.lo

Joins(w) ==
  /\ pending # NoRegion
  /\ pending.reason = w.reason
  /\ pending.comment = w.comment
  /\ pending.hi >= w.lo

Extended(w) == [pending EXCEPT !.hi = IF w.hi > @ THEN w.hi ELSE @]

(* _undecoded: regions that agree and meet are written as one.             *)
PutRegion(w) ==
  \/ w.hi <= w.lo /\ UNCHANGED file
  \/ w.hi > w.lo /\ Joins(w) /\ pending' = Extended(w) /\ UNCHANGED <<seam, out>>
  \/ w.hi > w.lo /\ ~Joins(w) /\ pending' = w /\ out' = Flushed /\ seam' = FlushedSeam

(* What a region held as one call is written as, its reason and comment.   *)
As(e, reason, comment) == Write("undecoded", e.lo, e.hi, reason, comment)

(* One entry of a confirmed stream: what it was held as.                   *)
PutConfirmed(e) ==
  \/ e.op = "record" /\ PutRecord(e)
  \/ e.op = "run" /\ UNCHANGED file
  \/ e.op \notin {"record", "run"} /\ PutRegion(As(e, e.reason, e.comment))

(* Mutant: a declined stream keeps the records it held.                    *)
PutDeclinedWithRecords(e) ==
  \/ e.op = "record" /\ PutRecord(e)
  \/ e.op = "run" /\ PutRegion(As(e, "undecodable", declined))
  \/ e.op \in {"copy", "skip"} /\ PutRegion(As(e, "skipped", declined))
  \/ e.op = "gap" /\ PutRegion(As(e, "gap", "none"))
  \/ e.op = "undecoded" /\ UNCHANGED file

(* One entry of a declined stream: a run whole, none of its writes.        *)
PutDeclined(e) ==
  \/ e.op = "run" /\ PutRegion(As(e, "undecodable", declined))
  \/ e.op \in {"copy", "skip"} /\ PutRegion(As(e, "skipped", declined))
  \/ e.op = "gap" /\ PutRegion(As(e, "gap", "none"))
  \/ e.op \in {"record", "undecoded"} /\ UNCHANGED file

PutNext ==
  /\ Decided
  /\ held # <<>>
  /\ IF declined # "no" THEN PutDeclined(Head(held)) ELSE PutConfirmed(Head(held))
  /\ held' = Tail(held)
  /\ UNCHANGED decision

-----------------------------------------------------------------------------
(***************************************************************************)
(* What is true of the file, whichever driver wrote it.                    *)
(***************************************************************************)
Covers(block, b) == block.lo <= b /\ b < block.hi

IsRecord(i) == out[i].op = "record"

Citing(b) == {i \in DOMAIN out : IsRecord(i) /\ Covers(out[i], b)}
Naming(b) == {i \in DOMAIN out : ~IsRecord(i) /\ Covers(out[i], b)}

Cited(n) == {b \in 0 .. n - 1 : Citing(b) # {}}
Named(n) == {b \in 0 .. n - 1 : Naming(b) # {}}

(* The holes named since the last record before block i.                   *)
HolesBefore(i) ==
  {k \in 1 .. i - 1 : /\ out[k].reason \in Holes
                      /\ \A j \in k + 1 .. i - 1 : ~IsRecord(j)}

(* A record carries a seam exactly when a hole was named since the record  *)
(* before it, and the seam is the last such hole's: content either side of *)
(* a hole never appears to run on, and other content is not cut apart      *)
(* (_seam_for, flush and _record).                                         *)
SeamOwed ==
  \A i \in DOMAIN out :
    IsRecord(i) =>
      IF HolesBefore(i) = {} THEN out[i].seam = "none"
      ELSE \E k \in HolesBefore(i) :
             /\ \A j \in HolesBefore(i) : j <= k
             /\ out[i].seam = out[k].reason

(* Regions that agree are written as one: two blocks with the same reason  *)
(* and comment never meet without a record between, across the messages,   *)
(* runs and gaps that named them (_undecoded).                             *)
Coalesced ==
  \A i \in 1 .. Len(out) - 1 :
    ~IsRecord(i) /\ ~IsRecord(i + 1) =>
      \/ out[i].reason # out[i + 1].reason
      \/ out[i].comment # out[i + 1].comment
      \/ out[i].hi < out[i + 1].lo

-----------------------------------------------------------------------------
WriteType ==
  [op : Ops, lo : Nat, hi : Nat, reason : Reasons \cup {"none"}, comment : Comments]

RegionType ==
  [op : {"undecoded"}, lo : Nat, hi : Nat,
   reason : Reasons \cup {"none"}, comment : Comments]

(* What a step returns.                                                    *)
ResultType ==
  [verdict : Verdicts, stop : 0 .. Extent, next : 0 .. Extent, refused : BOOLEAN,
   reach : {NoOffset} \cup 0 .. MaxReach, writes : Seq(WriteType)]

BlockType ==
  [op : {"record", "undecoded"}, lo : Nat, hi : Nat,
   reason : Reasons \cup {"none"}, comment : Comments, seam : Seams]

WriterTypeOK ==
  /\ confirmed \in BOOLEAN
  /\ declined \in {"no"} \cup Declines
  /\ lost \in BOOLEAN
  /\ transformFailure \in BOOLEAN
  /\ held \in Seq(WriteType)
  /\ pending \in RegionType
  /\ seam \in Seams
  /\ out \in Seq(BlockType)

(* What the blocks say of what lies between them: neither less than there  *)
(* was nor the same thing twice, whichever message, run or gap said it.    *)
WhatLiesBetween == SeamOwed /\ Coalesced
=============================================================================
