-------------------------------- MODULE Sinks --------------------------------
(***************************************************************************)
(* What stands between a generated decoder and the stage's writer while a  *)
(* unit is being read (kober.runtime).  A unit with a guard or a transform *)
(* writes into a Held, whose writes are a sequence here; the output of a   *)
(* transform writes into an Output, which forgets regions and cites the    *)
(* transform's input when it is released.                                  *)
(***************************************************************************)
EXTENDS Integers, Sequences, SequencesExt

(* A record citing [from, to) for the field at path role, or a region      *)
(* [from, to) with a reason.                                               *)
RecordOf(from, to, role) ==
  [tag |-> "record", from |-> from, to |-> to, role |-> role, reason |-> "none"]

RegionOf(from, to, reason) ==
  [tag |-> "region", from |-> from, to |-> to, role |-> <<>>, reason |-> reason]

IsRecord(w) == w.tag = "record"
IsRegion(w) == w.tag = "region"

(* Regions are only written where there is something to name.              *)
Naming(node, reason) ==
  IF node.to > node.from THEN <<RegionOf(node.from, node.to, reason)>> ELSE <<>>

(* Take back the last of the writes whose index is in found, if any is.    *)
WithoutLast(writes, found) ==
  IF found = {} THEN writes ELSE RemoveAt(writes, Max(found))

(* A mutant: a role that is never found, so nothing is taken back.        *)
RetractNothing(writes, role) == writes

Retract(writes, role) ==
  WithoutLast(writes, {k \in DOMAIN writes : IsRecord(writes[k]) /\ writes[k].role = role})

(* A mutant: the region of an argument stays where it was written.         *)
WithdrawNothing(writes, node) == writes

Withdraw(writes, node) ==
  WithoutLast(writes,
    {k \in DOMAIN writes : writes[k] = RegionOf(node.from, node.to, "skipped")})

(* A mutant: what the output's unit wrote keeps the output's offsets.      *)
RecitedAsRead(writes, from, to) == SelectSeq(writes, IsRecord)

(* Output: every record released is kept, to cite what the transform read, *)
(* and no region is.                                                       *)
Recited(writes, from, to) ==
  LET kept[k \in 0 .. Len(writes)] ==
        IF k = 0 THEN <<>>
        ELSE IF IsRecord(writes[k])
          THEN Append(kept[k - 1], RecordOf(from, to, writes[k].role))
          ELSE kept[k - 1]
  IN  kept[Len(writes)]

Bytes(w) == w.from .. (w.to - 1)

(* The bytes a sequence of writes cites, and those it names with a reason. *)
Cited(writes) == UNION {Bytes(w) : w \in {v \in ToSet(writes) : IsRecord(v)}}

Named(writes) ==
  UNION {Bytes(w) \X {w.reason} : w \in {v \in ToSet(writes) : IsRegion(v)}}
=============================================================================
