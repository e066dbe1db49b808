---------------------------- MODULE SpecAnalyses ----------------------------
(***************************************************************************)
(* What the loops of SpecLoops arrive at, compared with what whole decodes *)
(* do: Whole lists the reads a decode of a unit may make, one after        *)
(* another.                                                                *)
(***************************************************************************)
EXTENDS SpecLoops, SpecWidths

CONSTANT
  Nesting       (* how deep the decodes compared with go                   *)

-----------------------------------------------------------------------------
(***************************************************************************)
(* Whole decodes.  A read is where it was made, within which fields, of    *)
(* what, and how many bits at least; a repetition leaves a mark where it   *)
(* ends if it ran to the end or had no element.                            *)
(***************************************************************************)
Reads(u, i, t) ==
  [unit |-> u, field |-> i, within |-> {<<u, i>>}, k |-> t.k,
   bits |-> CASE t.k = "int" -> t.n
              [] t.k = "fixed" -> 8 * t.n
              [] t.k = "terminated" -> 8
              [] OTHER -> 0]

Mark(kind) ==
  [unit |-> Entry, field |-> 0, within |-> {}, k |-> kind, bits |-> 0]

Marks == {"to_end", "empty"}

Times == [none |-> {1}, zero |-> {0}, two |-> {2}, counted |-> {0, 2},
          until |-> {1, 2}, to_end |-> {0, 2}]

RECURSIVE Whole(_, _, _), WholeType(_, _, _, _), Repeated(_, _)

Joined(firsts, seconds) == {p \o q : p \in firsts, q \in seconds}

Repeated(elements, n) ==
  IF n = 0 THEN {<<>>} ELSE Joined(elements, Repeated(elements, n - 1))

WholeType(u, i, t, depth) ==
  IF IsSwitch(t) THEN UNION {WholeType(u, i, c, depth) : c \in Inside(t)}
  ELSE IF ReadsNothing(t) THEN {<<>>}
  ELSE IF t.k # "unit" THEN {<<Reads(u, i, t)>>}
  ELSE IF depth = 0 THEN {}
  ELSE {[n \in DOMAIN reads |-> [reads[n] EXCEPT !.within = @ \cup {<<u, i>>}]] :
          reads \in Whole(t.unit, 1, depth - 1)}

WholeField(u, i, depth) ==
  LET item     == spec[u][i]
      elements == WholeType(u, i, item.type, depth)
      ended(n) == (IF item.repeat = "to_end" THEN <<Mark("to_end")>> ELSE <<>>)
                    \o (IF n = 0 THEN <<Mark("empty")>> ELSE <<>>)
  IN  UNION {Joined(Repeated(elements, n), {ended(n)}) : n \in Times[item.repeat]}
        \cup (IF item.cond THEN {<<>>} ELSE {})

(* The decodes of a unit from its i-th field on.                           *)
Whole(u, i, depth) ==
  IF i > Len(spec[u]) THEN {<<>>}
  ELSE Joined(WholeField(u, i, depth), Whole(u, i + 1, depth))

Decodes(u) == Whole(u, 1, Nesting)

Bits(reads) ==
  LET sum[n \in 0 .. Len(reads)] ==
        IF n = 0 THEN 0 ELSE sum[n - 1] + reads[n].bits
  IN  sum[Len(reads)]

Rest(reads, n) == SubSeq(reads, n + 1, Len(reads))

Reading(reads) == \E n \in 1 .. Len(reads) : reads[n].k \notin Marks

-----------------------------------------------------------------------------
(***************************************************************************)
(* Properties.                                                             *)
(***************************************************************************)
(* A specification the checker accepts never decodes anything after a      *)
(* field that took what was left, and never more or less after a fill than *)
(* the width the fill was told to leave.                                   *)
NothingAfterTheEnd ==
  Done /\ Valid(spec, terminal) =>
    \A u \in Units : \A reads \in Decodes(u) : \A n \in 1 .. Len(reads) :
       /\ reads[n].k = "remaining" => ~Reading(Rest(reads, n))
       /\ reads[n].k = "fill" =>
            LET after == Rest(reads, n)
            IN  /\ \A m \in 1 .. Len(after) :
                      after[m].k \in {"int", "fixed"} \cup Marks
                /\ Bits(after)
                     = 8 * trailing_width(spec, reads[n].unit, reads[n].field)

(* What lets a backend call a short read the specification's fault: a read *)
(* made after one that took what was left is within a field known to be    *)
(* starved, and a specification the checker accepts has no such field.     *)
StarvedAreKnown ==
  LET starved == starved_fields(spec, terminal)
  IN  Done =>
        /\ Valid(spec, terminal) => starved = {}
        /\ \A u \in Units : \A reads \in Decodes(u) : \A m \in 1 .. Len(reads) :
             /\ reads[m].k \notin Marks
             /\ \E n \in 1 .. m - 1 : reads[n].k = "remaining"
             => reads[m].within \cap starved # {}

(* Where a fixed-size read of a tail field would end is where the message  *)
(* ends: no decode of the entry reads anything after it, and none reads it *)
(* at another place, through a pointer.                                    *)
TailsAreLast ==
  LET tails == message_tail_fields(spec, context)
      Is(read) == <<read.unit, read.field>> \in tails
      Targets == {c.of[1] : c \in
                   {d \in UNION {Walk(spec[p[1]][p[2]].type) : p \in Positions(spec)} :
                      d.k = "pointer"}}
  IN  Done =>
        /\ \A reads \in Decodes(Entry) : \A n \in 1 .. Len(reads) :
             Is(reads[n]) => ~Reading(Rest(reads, n))
        /\ \A t \in Targets : t.k = "unit" =>
             \A reads \in Decodes(t.unit) : \A n \in 1 .. Len(reads) :
                ~Is(reads[n])

(* As the checker says of the terminal rule: nothing is decoded after what *)
(* reads to the end, a repetition that runs to it among them.              *)
NothingAfterToEnd ==
  Done /\ Valid(spec, terminal) =>
    \A reads \in Decodes(Entry) : \A n \in 1 .. Len(reads) :
       reads[n].k = "to_end" => ~Reading(Rest(reads, n))

(* A repetition whose progress nobody checks makes progress: every element *)
(* reads something, unless a repetition inside it has no element: the plan *)
(* counts a repeated field as one that reads.                              *)
ElementsAdvance ==
  Done => \A p \in Positions(spec) :
    LET item == spec[p[1]][p[2]]
    IN  IsRepeated(item) /\ element_consumes(spec, item) =>
          \A reads \in WholeType(p[1], p[2], item.type, Nesting) :
             (\A n \in 1 .. Len(reads) : reads[n].k # "empty") => Bits(reads) > 0

(* A unit refused for its left recursion has no decode, however deep.      *)
RefusedNeverDecodes ==
  Done => \A u \in Units : LeftRecursive(spec, u) => Decodes(u) = {}

(* The terminal rule: bytes are left for every field of a specification    *)
(* the checker accepts, and for one it does not, it knows for which not.   *)
BytesAreLeft == NothingAfterTheEnd /\ StarvedAreKnown

(* No decode goes on without reading: neither round a repetition nor down  *)
(* a unit that leads back to itself.                                       *)
DecodesAdvance == ElementsAdvance /\ RefusedNeverDecodes
=============================================================================
