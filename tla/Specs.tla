------------------------------- MODULE Specs -------------------------------
(***************************************************************************)
(* Specifications, and what kober.check and kober.ops conclude from one    *)
(* before a byte is read.  A specification gives each unit a sequence of   *)
(* fields.  A field has a type, a repetition and whether a condition may   *)
(* leave it out.  A type is a record: its kind k, the width n of an        *)
(* integer in bits or of a fixed size in bytes, the unit it names, and the *)
(* types inside it (a switch's cases, its default last; a pointer's        *)
(* target; a transform's output).  The loops over units are steps of       *)
(* SpecLoops; here is what one turn of each decides.                       *)
(***************************************************************************)
EXTENDS Naturals, Sequences, FiniteSets

CONSTANTS
  Units,        (* the unit names                                          *)
  Entry,        (* the unit a message is                                   *)
  TypeNesting   (* how deep types nest inside one another                  *)

ASSUME UnitsAssumption == IsFiniteSet(Units) /\ Entry \in Units
ASSUME NestingAssumption == TypeNesting \in Nat

(***************************************************************************)
(* Field types.                                                            *)
(***************************************************************************)
IsSwitch(t) == t.k = "switch"

Inside(t) == {t.of[i] : i \in DOMAIN t.of}

(* A type and those inside it, found by looking into those of some kinds.  *)
WalkInto(kinds, t) ==
  LET down[n \in 0 .. TypeNesting] ==
        IF n = 0 THEN {t}
        ELSE down[n - 1] \cup UNION {Inside(c) : c \in {d \in down[n - 1] : d.k \in kinds}}
  IN  down[TypeNesting]

(* Every type inside one, and those of them read where the field stands.   *)
Walk(t) == WalkInto({"switch", "pointer", "transform"}, t)

WalkRead(t) == WalkInto({"switch"}, t)

(* What a walk finds is all there is: it has looked into whatever it met.  *)
WalksWhole(t) ==
  \A c \in Walk(t) : c.k \in {"switch", "pointer", "transform"} => Inside(c) \subseteq Walk(t)

ReadingKinds == {"int", "fixed", "counted", "terminated", "optional",
                 "remaining", "fill", "unit"}

ReadsNothingKinds == {"computed", "select", "pointer", "concat", "transform"}

ReadsInput(t) == \E c \in WalkRead(t) : c.k \in ReadingKinds

ReadsNothing(t) == \A c \in WalkRead(t) : IsSwitch(c) \/ c.k \in ReadsNothingKinds

(* The units a type names, each with whether it is read in tail position,  *)
(* which what a pointer leads to never is.                                 *)
References(t, here) ==
  LET UnitsOf(ts)  == {c.unit : c \in {d \in ts : d.k = "unit"}}
      pointers == {c \in WalkRead(t) : c.k = "pointer"}
      behind   == UNION {WalkInto({"switch", "pointer"}, c.of[1]) : c \in pointers}
  IN  (UnitsOf(WalkRead(t)) \X {here}) \cup (UnitsOf(behind) \X {FALSE})

(* A mutant: every type is taken to name a unit.                           *)
NamedByAny(t) == {c.unit : c \in Walk(t)}

Named(t) == {c.unit : c \in {d \in Walk(t) : d.k = "unit"}}

(***************************************************************************)
(* The terminal rule.                                                      *)
(***************************************************************************)
Fields(sp, u) == DOMAIN sp[u]

Positions(sp) == UNION {{u} \X Fields(sp, u) : u \in Units}

ReachesEnd(item, found) ==
  \E t \in WalkRead(item.type) :
     \/ t.k \in {"remaining", "fill"}
     \/ t.k = "unit" /\ t.unit \in found

(* A mutant: what a unit reads to the end through is not looked for.       *)
ReadsToEndItself(item, found) ==
  \E t \in WalkRead(item.type) : t.k = "remaining"

(* What counts where a field stands: a fill's own trailer is its business. *)
ReadsToEnd(item, found) ==
  \E t \in WalkRead(item.type) :
     \/ t.k = "remaining"
     \/ t.k = "unit" /\ t.unit \in found

IsRepeated(item) == item.repeat # "none"

StarvedAfter(sp, u, i) ==
  {j \in Fields(sp, u) : j > i /\ ReadsInput(sp[u][j].type)}

starved_fields(sp, terminal) ==
  LET ends == {p \in Positions(sp) : ReadsToEnd(sp[p[1]][p[2]], terminal)}
  IN  {p \in ends : IsRepeated(sp[p[1]][p[2]])}
        \cup UNION {{p[1]} \X StarvedAfter(sp, p[1], p[2]) : p \in ends}

(***************************************************************************)
(* Message tails: every later field of the unit reads nothing.             *)
(***************************************************************************)
IsTail(sp, u, i) ==
  /\ ~IsRepeated(sp[u][i])
  /\ \A j \in Fields(sp, u) : j > i => ReadsNothing(sp[u][j].type)

(* The references to a unit: from which unit, and in tail position or not. *)
RefsTo(sp, name) ==
  {ref \in Units \X BOOLEAN :
     \E i \in Fields(sp, ref[1]) :
        <<name, ref[2]>> \in References(sp[ref[1]][i].type, IsTail(sp, ref[1], i))}

(* A mutant: a reference from a unit already dropped still counts.         *)
LeavesContextOnItsOwn(sp, context, name) ==
  \/ name # Entry /\ RefsTo(sp, name) = {}
  \/ \E ref \in RefsTo(sp, name) : ~ref[2]

LeavesContext(sp, context, name) ==
  \/ name # Entry /\ RefsTo(sp, name) = {}
  \/ \E ref \in RefsTo(sp, name) : ~ref[2] \/ ref[1] \notin context

message_tail_fields(sp, context) ==
  {p \in Positions(sp) : p[1] \in context /\ IsTail(sp, p[1], p[2])}
=============================================================================
