----------------------------- MODULE StageStream -----------------------------
(***************************************************************************)
(* Decoding a byte-oriented stream: _drive_stream and _decode_run of       *)
(* kober.stage over the writer of StageWriter.  The stream is read chunk   *)
(* by chunk, a run of bytes or a gap the capture never contained; a run is *)
(* decoded message by message.  A run after a gap starts wherever the gap  *)
(* left off, so its first message is either resumed at an offset that is   *)
(* known, or a guess held until it has decoded whole.                      *)
(*                                                                         *)
(* Reassembly yields maximal runs: two runs always have a gap between.     *)
(***************************************************************************)
EXTENDS StageWriter

VARIABLES
  pc,         (* where the driver is                                       *)
  pos,        (* the offset up to which chunks have been read              *)
  run,        (* the run being decoded                                     *)
  at,         (* where its next message starts                             *)
  known,      (* whether that is known to be the start of a message        *)
  resume,     (* where a message cut by the end of a run would have ended  *)
  afterGap,   (* whether the chunk before was a gap                        *)
  result,     (* what the last step returned                               *)
  starts,     (* history: offsets where the sender started a message       *)
  guessed,    (* history: a guess has been believed                        *)
  tried,      (* history: each step's offset and verdict                   *)
  dropped     (* history: the bytes of guesses that were dropped           *)

driver  == <<pc, pos, run, at, known, resume, afterGap, result>>
history == <<starts, guessed, tried, dropped>>
vars    == <<writerVars, driver, history>>

NoResult == Outcome("ok", 0, 0, FALSE, NoOffset, <<>>)

Init ==
  /\ WriterInit
  /\ pc = "chunk"
  /\ pos = 0
  /\ run = [lo |-> 0, hi |-> 0]
  /\ at = 0
  /\ known = TRUE
  /\ resume = NoOffset
  /\ afterGap = FALSE
  /\ result = NoResult
  /\ starts = {0}
  /\ guessed = FALSE
  /\ tried = {}
  /\ dropped = {}

-----------------------------------------------------------------------------
(* The loop over the chunks.                                               *)

ReadGap ==
  /\ pc = "chunk" /\ Idle
  /\ \E hi \in pos + 1 .. Extent :
       /\ Hold(GapCall(pos, hi))
       /\ pos' = hi
  /\ afterGap' = TRUE
  /\ UNCHANGED <<decision, file, pc, run, at, known, resume, result, history>>

(* A run of a declined stream is not tried.                                *)
SkipRun ==
  /\ pc = "chunk" /\ Idle
  /\ declined # "no"
  /\ \E hi \in pos + 1 .. Extent :
       /\ Hold(SkipCall(pos, hi))
       /\ pos' = hi
  /\ UNCHANGED <<decision, file, pc, run, at, known, resume, afterGap, result, history>>

(* Where a run's first message starts: where the message the gap cut would *)
(* have ended, when that is known and the gap did not swallow it.          *)
Resumes(lo) == afterGap /\ resume # NoOffset /\ resume >= lo

(* Mutant: the end of the run is not looked at.                            *)
FirstAtPastTheRun(lo, hi) == IF Resumes(lo) THEN resume ELSE lo

FirstAt(lo, hi) ==
  IF Resumes(lo) THEN (IF resume < hi THEN resume ELSE hi) ELSE lo

(* Mutant: an end the gap swallowed still counts.                          *)
KnownAfterAnyCut(lo) == ~afterGap \/ resume # NoOffset

KnownAt(lo) == ~afterGap \/ Resumes(lo)

(* Mutant: the rest of a cut message is passed over without a word.        *)
CutTailForgotten(lo, hi) == <<>>

(* The rest of a message the gap cut.                                      *)
CutTail(lo, hi) ==
  IF Resumes(lo) THEN Note(lo, FirstAt(lo, hi), "skipped", "cut") ELSE <<>>

ReadRun ==
  /\ pc = "chunk" /\ Idle
  /\ declined = "no"
  /\ pos = 0 \/ afterGap
  /\ \E hi \in pos + 1 .. Extent :
       /\ run' = [lo |-> pos, hi |-> hi]
       /\ at' = FirstAt(pos, hi)
       /\ known' = KnownAt(pos)
       /\ Hold(Begin(pos, hi) \o CutTail(pos, hi))
       /\ pc' = IF resume # NoOffset /\ resume > hi THEN "chunk" ELSE "decode"
       /\ pos' = hi
  /\ afterGap' = FALSE
  /\ UNCHANGED <<decision, file, resume, result, history>>

EndOfStream ==
  /\ pc = "chunk" /\ Idle
  /\ Finish
  /\ pc' = "flush"
  /\ UNCHANGED <<held, file, pos, run, at, known, resume, afterGap, result, history>>

LastFlush ==
  /\ pc = "flush" /\ Idle
  /\ Flush
  /\ pc' = "done"
  /\ UNCHANGED <<held, decision, pos, run, at, known, resume, afterGap, result, history>>

-----------------------------------------------------------------------------
(* The loop over the messages of a run.                                    *)

RunEnds ==
  /\ pc = "decode" /\ Idle
  /\ at >= run.hi
  /\ resume' = NoOffset
  /\ pc' = "chunk"
  /\ UNCHANGED <<held, decision, file, pos, run, at, known, afterGap, result, history>>

(* Where the sender's messages start, as far as a step shows: after one    *)
(* that decoded whole, and where one that ran out says it ends.            *)
StartsAfter(o) ==
  IF at \notin starts THEN {}
  ELSE IF o.verdict \in Framed THEN {o.next}
  ELSE IF o.reach # NoOffset THEN {o.reach}
  ELSE {}

(* Mutant: a message that consumes nothing is like any other.              *)
JudgedAsReturned(o) == o

(* A message that consumes nothing cannot be decoded, and neither can what *)
(* follows it.                                                             *)
Judged(o) ==
  IF o.verdict = "ok" /\ o.next = at THEN [o EXCEPT !.verdict = "undecodable"] ELSE o

(* Mutant: a guess writes as it reads.                                     *)
DirectAlways(o) == o.writes

(* What the step writes straight into the writer: nothing when where it    *)
(* starts is a guess, which writes into a Held sink.                       *)
Direct(o) == IF known THEN o.writes ELSE <<>>

(* Decode one message.                                                     *)
Step ==
  /\ pc = "decode" /\ Idle
  /\ at < run.hi
  /\ \E o \in Outcomes(at, run.hi) :
       /\ result' = Judged(o)
       /\ Hold(Direct(o))
       /\ starts' = starts \cup StartsAfter(o)
       /\ tried' = tried \cup {<<at, Judged(o).verdict>>}
  /\ pc' = "judge"
  /\ UNCHANGED <<decision, file, pos, run, at, known, resume, afterGap, guessed, dropped>>

Whole == result.verdict \in Framed

(* A held guess that decoded whole is released: what it wrote is written.  *)
Release == Hold(IF known THEN <<>> ELSE result.writes)

Judging == pc = "judge" /\ Idle

NextMessage ==
  /\ Release
  /\ known' = TRUE
  /\ guessed' = (guessed \/ ~known)
  /\ at' = result.next
  /\ pc' = "decode"
  /\ UNCHANGED <<file, pos, run, resume, afterGap, result, starts, tried, dropped>>

MessageWhole ==
  /\ Judging
  /\ result.verdict = "ok"
  /\ Confirm
  /\ NextMessage

MessageTransformFailed ==
  /\ Judging
  /\ result.verdict = "transform"
  /\ TransformFailed
  /\ NextMessage

(* Mutant: the tail is counted from where the message began.               *)
TailFromItsStart == Note(at, run.hi, result.verdict, "none")

(* A known message failed: the rest of the run is its tail.                *)
RunTail == Note(result.stop, run.hi, result.verdict, "none")

MessageFailed ==
  /\ Judging
  /\ known /\ ~Whole
  /\ Hold(RunTail)
  /\ Failed(result.verdict)
  /\ resume' = IF result.verdict = "truncated" THEN result.reach ELSE NoOffset
  /\ pc' = "chunk"
  /\ UNCHANGED <<file, pos, run, at, known, afterGap, result, history>>

(* A guard refused it, so where it stopped is known: guess again there.    *)
Retries == result.refused /\ at < result.stop /\ result.stop < run.hi

GuessRefused ==
  /\ Judging
  /\ ~known /\ ~Whole
  /\ Retries
  /\ Hold(Note(at, result.stop, "undecodable", "lost"))
  /\ Lose("refused")
  /\ at' = result.stop
  /\ pc' = "decode"
  /\ dropped' = dropped \cup (at .. result.stop - 1)
  /\ UNCHANGED <<file, pos, run, known, resume, afterGap, result, starts, guessed, tried>>

GuessLost ==
  /\ Judging
  /\ ~known /\ ~Whole
  /\ ~Retries
  /\ Hold(Note(at, run.hi, "undecodable", "lost"))
  /\ Lose(result.verdict)
  /\ resume' = NoOffset
  /\ pc' = "chunk"
  /\ dropped' = dropped \cup (at .. run.hi - 1)
  /\ UNCHANGED <<file, pos, run, at, known, afterGap, result, starts, guessed, tried>>

-----------------------------------------------------------------------------
Driver ==
  \/ ReadGap \/ SkipRun \/ ReadRun \/ EndOfStream \/ LastFlush
  \/ RunEnds \/ Step
  \/ MessageWhole \/ MessageTransformFailed \/ MessageFailed
  \/ GuessRefused \/ GuessLost

PutInFile == PutNext /\ UNCHANGED <<driver, history>>

Next == Driver \/ PutInFile

(* The stage runs to the end: one thread, nothing it waits for.            *)
Spec == Init /\ [][Next]_vars /\ WF_vars(Next)

-----------------------------------------------------------------------------
TypeOK ==
  /\ WriterTypeOK
  /\ pc \in {"chunk", "decode", "judge", "flush", "done"}
  /\ pos \in 0 .. Extent
  /\ run \in [lo : 0 .. Extent, hi : 0 .. Extent]
  /\ at \in 0 .. Extent
  /\ known \in BOOLEAN
  /\ resume \in {NoOffset} \cup 0 .. MaxReach
  /\ afterGap \in BOOLEAN
  /\ result \in ResultType
  /\ starts \subseteq 0 .. MaxReach
  /\ guessed \in BOOLEAN
  /\ tried \subseteq (0 .. Extent) \X Verdicts
  /\ dropped \subseteq 0 .. Extent

(* The coverage guarantee: once the stream is written every byte of it is  *)
(* cited by a record or named by one region, and at no time is a byte both *)
(* cited and named, or named twice.                                        *)
CitedOrNamed ==
  /\ \A b \in 0 .. pos - 1 :
       /\ Citing(b) = {} \/ Naming(b) = {}
       /\ Cardinality(Naming(b)) <= 1
  /\ pc = "done" => Cited(pos) \cup Named(pos) = 0 .. pos - 1

VerdictsSeen == {t[2] : t \in tried}

(* The stream is believed only on a whole message, or when nothing was     *)
(* tried; it is refused only when something was tried and nothing decoded  *)
(* whole; and the comment of a declined stream tells what was seen: that   *)
(* every attempt ran out only if every one did, that every message which   *)
(* decoded had a transform fail only if one did and none decoded (confirm, *)
(* failed and finish).                                                     *)
DecisionFollowsEvidence ==
  /\ confirmed => "ok" \in VerdictsSeen \/ tried = {}
  /\ declined # "no" => "ok" \notin VerdictsSeen /\ tried # {}
  /\ declined = "ran out" => VerdictsSeen = {"truncated"}
  /\ declined = "no boundary" => "undecodable" \in VerdictsSeen /\ "transform" \notin VerdictsSeen
  /\ declined = "transforms" => "transform" \in VerdictsSeen

(* A declined stream keeps no record: a run that was tried is undecodable  *)
(* and one that was not tried after the decline is skipped, under the      *)
(* comment that says why, and a gap stays a gap (decline).                 *)
DeclinedKeepsNothing ==
  pc = "done" /\ declined # "no" =>
    /\ \A i \in DOMAIN out :
         /\ ~IsRecord(i)
         /\ out[i].comment = IF out[i].reason = "gap" THEN "none" ELSE declined
    /\ \A t \in tried : \E i \in Naming(t[1]) : out[i].reason = "undecodable"

(* A message attempted as known begins where the sender began one, until a *)
(* guess has been believed: past a gap, the driver resumes where the cut   *)
(* message ends, or it guesses (_drive_stream).                            *)
KnownIsAStart == pc = "decode" /\ known /\ ~guessed => at \in starts

(* What a guess wrote before it failed is never in the file: no record     *)
(* begins in bytes that were dropped (Held, and its use by _decode_run).   *)
NothingFromADroppedGuess ==
  \A i \in DOMAIN out : IsRecord(i) => out[i].lo \notin dropped

(* Bytes named undecodable in a declined stream were tried.                *)
UndecodableWasTried ==
  pc = "done" /\ declined # "no" =>
    \A i \in DOMAIN out :
      out[i].reason = "undecodable" => \E t \in tried : Covers(out[i], t[1])

(* The decision is taken once: a confirmed stream is never declined, and a *)
(* declined stream is never believed or declined again (confirm, decline). *)
DecidedOnce == [][Decided => UNCHANGED <<confirmed, declined>>]_vars

(* The decode of a stream ends: the loop over a run's messages makes       *)
(* progress whatever the bytes are (_decode_run).                          *)
Terminates == <>(pc = "done")

(* The stage keeps its promise: mapped to what the file says of each byte, *)
(* every step of the driver and of the writer is one the promise allows.   *)
Stance ==
  IF declined # "no" THEN "declined" ELSE IF confirmed THEN "confirmed" ELSE "undecided"

Promise == INSTANCE StagePromise WITH
  read <- pos, stance <- Stance, cited <- Cited(pos), named <- Named(pos),
  ended <- (pc = "done")

KeepsItsPromise == Promise!Init /\ [][Promise!Next]_(Promise!vars)

(* A decision is what the evidence allows, and what the file then says.    *)
DecisionIsCarriedOut == DecisionFollowsEvidence /\ DeclinedKeepsNothing
=============================================================================
