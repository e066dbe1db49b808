---------------------------- MODULE StagePromise ----------------------------
(***************************************************************************)
(* What a decode stage promises of one input stream, whichever way the     *)
(* stream is framed and however it is decoded: a decision is taken once,   *)
(* the file stays empty until it is, each byte read is then accounted for  *)
(* once and for all, as cited by a record or as named by a region, a       *)
(* declined stream has no record, and the stream ends with nothing left    *)
(* unsaid.                                                                 *)
(***************************************************************************)
EXTENDS Naturals

VARIABLES
  read,     (* how much of the stream has been read                        *)
  stance,   (* what the stage believes of the stream                       *)
  cited,    (* the bytes some record in the file cites                     *)
  named,    (* the bytes some region in the file names                     *)
  ended     (* whether the stream's output is complete                     *)

vars == <<read, stance, cited, named, ended>>

Stances == {"undecided", "confirmed", "declined"}

Init ==
  /\ read = 0
  /\ stance = "undecided"
  /\ cited = {}
  /\ named = {}
  /\ ended = FALSE

Read ==
  /\ ~ended
  /\ read' \in Nat /\ read' > read
  /\ UNCHANGED <<stance, cited, named, ended>>

Decide ==
  /\ stance = "undecided"
  /\ stance' \in {"confirmed", "declined"}
  /\ UNCHANGED <<read, cited, named, ended>>

(* Write blocks: what was said of a byte is never taken back.              *)
Account ==
  /\ stance # "undecided"
  /\ ~ended
  /\ cited \subseteq cited' /\ named \subseteq named'
  /\ cited' \cap named' = {}
  /\ cited' \cup named' \subseteq 0 .. read - 1
  /\ stance = "declined" => cited' = {}
  /\ ended' \in BOOLEAN
  /\ ended' => cited' \cup named' = 0 .. read - 1
  /\ UNCHANGED <<read, stance>>

Next == Read \/ Decide \/ Account

Spec == Init /\ [][Next]_vars
=============================================================================
