--------------------------- MODULE StageDatagrams ---------------------------
(***************************************************************************)
(* Decoding a packet-oriented stream: _drive_datagrams of kober.stage over *)
(* the writer of StageWriter.  Each datagram is one message, whatever it   *)
(* leaves over is its own, and a copy the capture saw twice is passed over *)
(* as it stands.                                                           *)
(***************************************************************************)
EXTENDS StageWriter

CONSTANT MaxDatagrams   (* how many datagrams the stream has, at most      *)

ASSUME MaxDatagramsAssumption == MaxDatagrams \in Nat

VARIABLES
  pc,         (* where the driver is                                       *)
  pos,        (* the offset up to which datagrams have been read           *)
  count,      (* how many were read                                        *)
  datagram,   (* the last one that was not a copy                          *)
  result,     (* what its step returned                                    *)
  originals,  (* history: the datagrams that are not copies                *)
  copies,     (* history: those that are                                   *)
  tried       (* history: each datagram a step was called for, its verdict *)

driver  == <<pc, pos, count, datagram, result>>
history == <<originals, copies, tried>>
vars    == <<writerVars, driver, history>>

NoResult == Outcome("ok", 0, 0, FALSE, NoOffset, <<>>)

Datagram(lo, hi) == [lo |-> lo, hi |-> hi]
Datagrams == [lo : 0 .. Extent, hi : 0 .. Extent]

Init ==
  /\ WriterInit
  /\ pc = "next"
  /\ pos = 0
  /\ count = 0
  /\ datagram = Datagram(0, 0)
  /\ result = NoResult
  /\ originals = {}
  /\ copies = {}
  /\ tried = {}

-----------------------------------------------------------------------------
Reading(hi) ==
  /\ pc = "next" /\ Idle
  /\ count < MaxDatagrams
  /\ count' = count + 1
  /\ pos' = hi

(* A copy is byte-identical to the datagram before it.                     *)
ReadCopy ==
  /\ count > 0
  /\ LET hi == pos + (datagram.hi - datagram.lo) IN
       /\ hi <= Extent
       /\ Reading(hi)
       /\ Hold(CopyCall(pos, hi))
       /\ copies' = copies \cup {Datagram(pos, hi)}
  /\ UNCHANGED <<decision, file, pc, datagram, result, originals, tried>>

(* A datagram of a declined stream is not tried.                           *)
SkipDatagram ==
  /\ declined # "no"
  /\ \E hi \in pos .. Extent :
       /\ Reading(hi)
       /\ Hold(SkipCall(pos, hi))
       /\ datagram' = Datagram(pos, hi)
       /\ originals' = originals \cup {Datagram(pos, hi)}
  /\ UNCHANGED <<decision, file, pc, result, copies, tried>>

ReadDatagram ==
  /\ declined = "no"
  /\ \E hi \in pos .. Extent :
       /\ Reading(hi)
       /\ datagram' = Datagram(pos, hi)
       /\ originals' = originals \cup {Datagram(pos, hi)}
       /\ \E o \in Outcomes(pos, hi) :
            /\ result' = o
            /\ Hold(Begin(pos, hi) \o o.writes)
            /\ tried' = tried \cup {<<Datagram(pos, hi), o.verdict>>}
  /\ pc' = "judge"
  /\ UNCHANGED <<decision, file, copies>>

(* Mutants: the whole datagram is left over; a message that decoded leaves *)
(* its rest under its verdict, like one that failed.                       *)
LeftOverWhole ==
  Note(datagram.lo, datagram.hi,
       IF result.verdict \in Framed THEN "skipped" ELSE result.verdict, "none")

LeftOverAsJudged == Note(result.stop, datagram.hi, result.verdict, "none")

(* What the message left of its datagram: passed over after a message that *)
(* decoded, the failure's after one that did not.                          *)
LeftOver ==
  Note(result.stop, datagram.hi,
       IF result.verdict \in Framed THEN "skipped" ELSE result.verdict, "none")

Judge ==
  /\ pc = "judge" /\ Idle
  /\ Hold(LeftOver)
  /\ \/ result.verdict = "ok" /\ Confirm
     \/ result.verdict = "transform" /\ TransformFailed
     \/ result.verdict \notin Framed /\ Failed(result.verdict)
  /\ pc' = "next"
  /\ UNCHANGED <<file, pos, count, datagram, result, history>>

EndOfStream ==
  /\ pc = "next" /\ Idle
  /\ Finish
  /\ pc' = "flush"
  /\ UNCHANGED <<held, file, pos, count, datagram, result, history>>

LastFlush ==
  /\ pc = "flush" /\ Idle
  /\ Flush
  /\ pc' = "done"
  /\ UNCHANGED <<held, decision, pos, count, datagram, result, history>>

PutInFile == PutNext /\ UNCHANGED <<driver, history>>

Next ==
  \/ ReadCopy \/ SkipDatagram \/ ReadDatagram \/ Judge
  \/ EndOfStream \/ LastFlush
  \/ PutInFile

(* The stage runs to the end: one thread, nothing it waits for.            *)
Spec == Init /\ [][Next]_vars /\ WF_vars(Next)

-----------------------------------------------------------------------------
TypeOK ==
  /\ WriterTypeOK
  /\ pc \in {"next", "judge", "flush", "done"}
  /\ pos \in 0 .. Extent
  /\ count \in 0 .. MaxDatagrams
  /\ datagram \in Datagrams
  /\ result \in ResultType
  /\ originals \subseteq Datagrams
  /\ copies \subseteq Datagrams
  /\ tried \subseteq Datagrams \X Verdicts

(* The coverage guarantee for datagrams: once the stream is written every  *)
(* byte is cited or named, and at no time is one both, or named twice.     *)
CitedOrNamed ==
  /\ \A b \in 0 .. pos - 1 :
       /\ Citing(b) = {} \/ Naming(b) = {}
       /\ Cardinality(Naming(b)) <= 1
  /\ pc = "done" => Cited(pos) \cup Named(pos) = 0 .. pos - 1

(* A copy's bytes are never decoded: at the end each is skipped, as a copy *)
(* or, in a declined stream, under its comment (copy).                     *)
CopiesPassedOver ==
  pc = "done" =>
    \A c \in copies : \A b \in c.lo .. c.hi - 1 :
      /\ Citing(b) = {}
      /\ \E i \in Naming(b) :
           /\ out[i].reason = "skipped"
           /\ out[i].comment = IF declined # "no" THEN declined ELSE "copy"

(* One datagram's failure is its own: every datagram of a confirmed stream *)
(* that is not a copy was tried, and a declined stream was declined by the *)
(* last one tried, or tried them all and none decoded (_drive_datagrams).  *)
EachIsTried ==
  LET triedOnes == {t[1] : t \in tried}
      whole     == {t \in tried : t[2] = "ok"}
  IN  pc = "done" =>
        /\ declined # "failed" => triedOnes = originals
        /\ declined = "failed" => \E t \in tried :
             /\ t[2] = "undecodable"
             /\ \A d \in triedOnes : d.lo <= t[1].lo
        /\ confirmed => whole # {} \/ originals = {}
        /\ declined # "no" => whole = {}

(* The decision is taken once.                                             *)
DecidedOnce == [][Decided => UNCHANGED <<confirmed, declined>>]_vars

(* The decode of a stream of datagrams ends.                               *)
Terminates == <>(pc = "done")

(* The stage keeps its promise: mapped to what the file says of each byte, *)
(* every step of the driver and of the writer is one the promise allows.   *)
Stance ==
  IF declined # "no" THEN "declined" ELSE IF confirmed THEN "confirmed" ELSE "undecided"

Promise == INSTANCE StagePromise WITH
  read <- pos, stance <- Stance, cited <- Cited(pos), named <- Named(pos),
  ended <- (pc = "done")

KeepsItsPromise == Promise!Init /\ [][Promise!Next]_(Promise!vars)

(* No datagram depends on another: each is accounted for by itself, a      *)
(* failure is its own, and a copy is passed over (_drive_datagrams).       *)
DatagramsStandAlone == TypeOK /\ CitedOrNamed /\ EachIsTried /\ CopiesPassedOver
=============================================================================
