----------------------------- MODULE SpecWidths -----------------------------
(***************************************************************************)
(* What kober.check and kober.ops conclude from a specification by going   *)
(* down from a field into the units it is made of: how wide the fields     *)
(* after a fill are, what provably reads something, and what the checker   *)
(* refuses.                                                                *)
(***************************************************************************)
EXTENDS Specs

(***************************************************************************)
(* Widths, in bits: what a fill leaves to the fields after it.             *)
(***************************************************************************)
NoWidth == 1000

Literal == [none |-> 1, zero |-> 0, two |-> 2]

RECURSIVE TypeBits(_, _, _), TrailingBits(_, _, _, _)

SwitchBits(widths, default) ==
  IF default /\ Cardinality(widths) = 1 THEN CHOOSE w \in widths : TRUE
                                        ELSE NoWidth

TypeBits(sp, t, seen) ==
  IF t.k = "int" THEN t.n
  ELSE IF t.k = "fixed" THEN 8 * t.n
  ELSE IF t.k \in ReadsNothingKinds THEN 0
  ELSE IF t.k = "unit" /\ t.unit \notin seen
       THEN TrailingBits(sp, t.unit, 0, seen \cup {t.unit})
  ELSE IF IsSwitch(t)
       THEN SwitchBits({TypeBits(sp, c, seen) : c \in Inside(t)}, t.default)
  ELSE NoWidth

(* A mutant: a field that may be absent is counted as there.               *)
FieldBitsAsPresent(sp, item, seen) ==
  LET width == TypeBits(sp, item.type, seen)
  IN  IF item.repeat \notin DOMAIN Literal \/ width >= NoWidth
      THEN NoWidth ELSE Literal[item.repeat] * width

FieldBits(sp, item, seen) ==
  LET width == TypeBits(sp, item.type, seen)
  IN  IF item.cond \/ item.repeat \notin DOMAIN Literal \/ width >= NoWidth
      THEN NoWidth ELSE Literal[item.repeat] * width

TrailingBits(sp, u, i, seen) ==
  IF i >= Len(sp[u]) THEN 0
  ELSE LET here == FieldBits(sp, sp[u][i + 1], seen)
           rest == TrailingBits(sp, u, i + 1, seen)
       IN  IF here >= NoWidth \/ rest >= NoWidth THEN NoWidth ELSE here + rest

HasFill(item) == \E t \in Walk(item.type) : t.k = "fill"

Fills(sp, u) == {i \in Fields(sp, u) : HasFill(sp[u][i])}

(* In bytes; NoWidth where the specification does not fix it.              *)
trailing_width(sp, u, i) ==
  LET bits == TrailingBits(sp, u, i, {})
  IN  IF bits >= NoWidth \/ bits % 8 # 0 THEN NoWidth ELSE bits \div 8

(***************************************************************************)
(* Consumption: what provably reads something.                             *)
(***************************************************************************)
RECURSIVE UnitConsumes(_, _, _), KindConsumes(_, _, _)

SizeConsumes(t) ==
  \/ t.k = "int" /\ t.n > 0
  \/ t.k = "fixed" /\ t.n > 0
  \/ t.k = "terminated"

(* A switch is as its alternatives, a nested one's hoisted among them.     *)
RECURSIVE Alternatives(_)
Alternatives(t) ==
  IF IsSwitch(t) THEN UNION {Alternatives(c) : c \in Inside(t)} ELSE {t}

KindConsumes(sp, t, seen) ==
  \/ SizeConsumes(t)
  \/ t.k = "unit" /\ UnitConsumes(sp, t.unit, seen)

(* A mutant: one alternative that reads is enough.                         *)
FieldConsumesSometimes(sp, item, seen) ==
  /\ ~item.cond
  /\ IsSwitch(item.type) => item.type.default
  /\ \E t \in Alternatives(item.type) : KindConsumes(sp, t, seen)

FieldConsumes(sp, item, seen) ==
  /\ ~item.cond
  /\ IsSwitch(item.type) => item.type.default
  /\ \A t \in Alternatives(item.type) : KindConsumes(sp, t, seen)

UnitConsumes(sp, u, seen) ==
  /\ u \notin seen
  /\ \E i \in Fields(sp, u) : FieldConsumes(sp, sp[u][i], seen \cup {u})

(* What lets a generated loop do without its progress check.               *)
element_consumes(sp, item) ==
  /\ \A t \in Alternatives(item.type) : KindConsumes(sp, t, {})
  /\ IsSwitch(item.type) => item.type.default

(***************************************************************************)
(* What the checker refuses.                                               *)
(***************************************************************************)
FillErrors(sp, u) ==
  \/ Cardinality(Fills(sp, u)) > 1
  \/ \E i \in Fills(sp, u) :
        IsRepeated(sp[u][i]) \/ trailing_width(sp, u, i) >= NoWidth

TerminalErrors(sp, terminal, u) ==
  \E i \in Fields(sp, u) :
     /\ ReadsToEnd(sp[u][i], terminal)
     /\ IsRepeated(sp[u][i]) \/ StarvedAfter(sp, u, i) # {}

RepeatErrors(sp, u) ==
  \E i \in Fields(sp, u) :
     IsRepeated(sp[u][i]) /\ ~ReadsInput(sp[u][i].type)

(* A mutant: a conditional first field is followed too.                    *)
LeadingAnyway(sp, u) ==
  {t \in Units : /\ sp[u] # <<>>
                 /\ sp[u][1].type.k = "unit" /\ sp[u][1].type.unit = t}

(* The unit that a unit always begins with, if it begins with one.         *)
Leading(sp, u) ==
  {t \in Units : /\ sp[u] # <<>>
                 /\ LET head == sp[u][1]
                    IN  /\ ~head.cond /\ ~IsRepeated(head)
                        /\ head.type.k = "unit" /\ head.type.unit = t}

LeftRecursive(sp, name) ==
  LET led[n \in 0 .. Cardinality(Units)] ==
        IF n = 0 THEN {name} ELSE UNION {Leading(sp, u) : u \in led[n - 1]}
  IN  \E n \in 1 .. Cardinality(Units) : name \in led[n]

Valid(sp, terminal) ==
  \A u \in Units :
     /\ ~FillErrors(sp, u) /\ ~TerminalErrors(sp, terminal, u)
     /\ ~RepeatErrors(sp, u) /\ ~LeftRecursive(sp, u)
=============================================================================
