----------------------------- MODULE UnitAgreement ----------------------------
(***************************************************************************)
(* What the two implementations write of the same message: the generated   *)
(* module as it reads (UnitDecode), the interpreter's emitter from the     *)
(* tree when it is whole (EmitPlan).                                       *)
(***************************************************************************)
EXTENDS UnitDecode, EmitPlan

(* The two implementations write the same records, in the same order.      *)
SameRecords == Done => SelectSeq(out, IsRecord) = Plan(tree).records

(* The two name the same bytes, for the same reasons.                      *)
SameRegions == Done => Named(out) = Plan(tree).named

(* No byte is both cited and marked undecoded, whichever wrote the file.   *)
NeverBoth ==
  Done => /\ Cited(out) \cap {n[1] : n \in Named(out)} = {}
          /\ Cited(Plan(tree).records) \cap {n[1] : n \in Plan(tree).named} = {}

(* The two write the same file, whichever order they decide in.            *)
SameFile == SameRecords /\ SameRegions
=============================================================================
