---------------------------- MODULE Expressions ----------------------------
(***************************************************************************)
(* The expressions of a specification (kober.expr): what the checker makes *)
(* of one, what the interpreter evaluates it to, and what the Python that  *)
(* kober.pygen renders it as evaluates to, message after message.          *)
(*                                                                         *)
(* A character is a number: 0 to 35 the digits of the bases, 110 to 135    *)
(* the capitals of 10 to 35, then the few that to_int and before tell      *)
(* apart. An expression's text is a sequence of tokens, in which a literal *)
(* or a name is one, and so is a bracket with all that it holds.           *)
(***************************************************************************)
EXTENDS Integers, SequencesExt

CONSTANTS
  Places,      (* where an expression may stand: the units and the entry   *)
               (* unit, the unit and the field it is for, and which field  *)
               (* a select or until repeats, under which name              *)
  Cases,       (* the expressions authors write, as parsed, and the place  *)
               (* each stands in                                           *)
  First,       (* what the names hold in the first message, by place       *)
  Holds,       (* what each name may hold in another, by place             *)
  MaxChanged,  (* in how many names a message differs from the first       *)
  MaxShift,    (* the largest shift count (1024 in the code)               *)
  MaxDigits    (* how many digits Python converts (4300 by default)        *)

ASSUME LimitsAssumption == MaxChanged \in Nat /\ MaxShift \in Nat /\ MaxDigits \in Nat

VARIABLES
  expr,      (* the expression                                             *)
  where,     (* the place it stands in                                     *)
  type,      (* what the checker found: a type, "refused", or "" so far    *)
  code,      (* the tokens rendered for it                                 *)
  env,       (* what the names hold in this message                        *)
  answers    (* what the interpreter and the generated module made of it   *)

vars == <<expr, where, type, code, env, answers>>

(***************************************************************************)
(* The syntax.                                                             *)
(***************************************************************************)
Expr(k, op, args, n, text, path) ==
  [k |-> k, op |-> op, args |-> args, n |-> n, text |-> text, path |-> path]

IntLiteral(n)    == Expr("int", "", <<>>, n, <<>>, <<>>)
StrLiteral(text) == Expr("str", "", <<>>, 0, text, <<>>)
BoolLiteral(b)   == Expr("bool", "", <<>>, IF b THEN 1 ELSE 0, <<>>, <<>>)
Ref(path)        == Expr("ref", "", <<>>, 0, <<>>, path)
UnaryOp(op, e)   == Expr("unary", op, <<e>>, 0, <<>>, <<>>)
BinOp(op, l, r)  == Expr("binary", op, <<l, r>>, 0, <<>>, <<>>)
BoolOp(op, es)   == Expr("bool_op", op, es, 0, <<>>, <<>>)
Compare(op, l, r) == Expr("compare", op, <<l, r>>, 0, <<>>, <<>>)
Call(name, es)   == Expr("call", name, es, 0, <<>>, <<>>)
Index(table, key) == Expr("index", table, <<key>>, 0, <<>>, <<>>)

Ordering == {"<", "<=", ">", ">="}

PRECEDENCE ==
  [op \in {"or", "and", "not", "==", "!=", "<", "<=", ">", ">=", "in", "not in", "|", "^", "&",
           "<<", ">>", "+", "-", "*", "/", "//", "%"} |->
     CASE op = "or" -> 1 [] op = "and" -> 2 [] op = "not" -> 3
       [] op \in Ordering \cup {"==", "!=", "in", "not in"} -> 4
       [] op = "|" -> 5 [] op = "^" -> 6 [] op = "&" -> 7
       [] op \in {"<<", ">>"} -> 8 [] op \in {"+", "-"} -> 9 [] OTHER -> 10]

UNARY_PRECEDENCE == 11

BUILTINS ==
  [to_int     |-> [params |-> <<"str", "int">>, required |-> 1, returns |-> "int"],
   lower      |-> [params |-> <<"str">>,        required |-> 1, returns |-> "str"],
   trim       |-> [params |-> <<"str">>,        required |-> 1, returns |-> "str"],
   startswith |-> [params |-> <<"str", "str">>, required |-> 2, returns |-> "bool"],
   endswith   |-> [params |-> <<"str", "str">>, required |-> 2, returns |-> "bool"],
   len        |-> [params |-> <<"bytes">>,      required |-> 1, returns |-> "int"],
   before     |-> [params |-> <<"str", "str">>, required |-> 2, returns |-> "str"]]

(***************************************************************************)
(* What the checker knows: the fields of the units, in order, and where    *)
(* the expression stands, at field at of a unit. A field is an int, a str, *)
(* bytes, a unit, a transform decoded as a unit or kept raw, computed,     *)
(* selected from a repeated field, or a switch; it may be repeated, and    *)
(* stand under a condition. The document has the parameter flag and the    *)
(* map m of integers.                                                      *)
(***************************************************************************)
Field(name, kind, of, list, maybe) ==
  [name |-> name, kind |-> kind, of |-> of, list |-> list, maybe |-> maybe]

SCOPE_WORDS == {"this", "root", "parent"}
Params      == {"flag", "m"}
Refused     == "refused"

FieldsOf(place, unit) ==
  place.units[CHOOSE j \in DOMAIN place.units : place.units[j].name = unit].fields

NamesBefore(place, unit, at) == {FieldsOf(place, unit)[j].name : j \in 1 .. at - 1}
AllNames(place, unit)        == NamesBefore(place, unit, Len(FieldsOf(place, unit)) + 1)
Visible(place)               == NamesBefore(place, place.unit, place.at)

IndexOf(place, unit, name) ==
  CHOOSE j \in DOMAIN FieldsOf(place, unit) : FieldsOf(place, unit)[j].name = name

FieldOf(place, unit, name) == FieldsOf(place, unit)[IndexOf(place, unit, name)]

IsNested(field) == field.kind \in {"unit", "output"}

(* The fields that decode as a unit, by the positions of their unit, in    *)
(* the order of the specification, and of the field in it.                 *)
Sites(place, unit) ==
  {site \in UNION {{j} \X DOMAIN place.units[j].fields : j \in DOMAIN place.units} :
     LET field == place.units[site[1]].fields[site[2]]
     IN  IsNested(field) /\ field.of = unit}

\* A bug kept as a mutant: a repeated field is a value.
ListedNever(place, field) == FALSE

(* One name means one element: the alias, or without one the repeated      *)
(* field's own, of which alone a value can be read.                        *)
Listed(place, field) ==
  field.list /\ ~(place.of # "" /\ place.el = place.of /\ field.name = place.of)

\* A bug kept as a mutant: a field may be named before it is decoded.
InScopeAnyTime(name, visible) == TRUE

InScope(name, visible) == name \in visible \cup Params

RECURSIVE infer_type(_, _)
RECURSIVE InUnit(_, _, _, _)

(* Where an expression of a unit's own stands: its ordering was checked at *)
(* its declaration, and all of the unit may be named.                      *)
Anywhere(place, unit, of, el) ==
  [place EXCEPT !.unit = unit, !.at = Len(FieldsOf(place, unit)) + 1, !.of = of, !.el = el]

TypeOf(place, unit, field, rest) ==
  CASE IsNested(field)                         -> InUnit(place, field.of, AllNames(place, field.of), rest)
    [] rest # <<>> \/ field.kind = "switch"    -> Refused
    [] field.kind = "raw"                      -> "bytes"
    [] field.kind \in {"int", "str", "bytes"}  -> field.kind
    [] field.kind = "computed"                 -> infer_type(field.of, Anywhere(place, unit, "", ""))
    [] field.kind = "select"                   ->
         infer_type(field.of.value, Anywhere(place, unit, field.of.source, field.of.alias))

IsAlias(place, unit, name) ==
  place.el # place.of /\ name = place.el /\ unit = place.unit

InUnit(place, unit, visible, parts) ==
  IF parts = <<>> THEN Refused
  ELSE IF IsAlias(place, unit, Head(parts))
    THEN TypeOf(place, unit, FieldOf(place, unit, place.of), Tail(parts))
  ELSE IF ~InScope(Head(parts), visible) THEN Refused
  ELSE IF Head(parts) \in AllNames(place, unit)
    THEN LET field == FieldOf(place, unit, Head(parts))
         IN  IF Listed(place, field) THEN Refused ELSE TypeOf(place, unit, field, Tail(parts))
  ELSE IF parts = <<"flag">> THEN "bool" ELSE Refused

(* Every unit that decodes this one must have a field of the name before   *)
(* it does, and of one type.                                               *)
InParents(place, rest) ==
  LET found == {LET caller == place.units[site[1]].name
                IN  InUnit(place, caller, NamesBefore(place, caller, site[2]), rest) :
                  site \in Sites(place, place.unit)}
  IN  IF \E t \in found : found = {t} THEN CHOOSE t \in found : TRUE ELSE Refused

Resolve(place, path) ==
  CASE Head(path) = "this"   -> InUnit(place, place.unit, Visible(place), Tail(path))
    [] Head(path) = "root"   -> InUnit(place, place.entry, AllNames(place, place.entry), Tail(path))
    [] Head(path) = "parent" -> InParents(place, Tail(path))
    [] OTHER                 -> InUnit(place, place.unit, Visible(place), path)

(* map[int, int] is the one map there is.                                  *)
ResolveMap(name) == IF name = "m" THEN "int" ELSE Refused

Comparable(op, l, r) == IF op \in Ordering THEN l = "int" /\ r = "int" ELSE l = r

infer_type(e, place) ==
  LET of == [j \in DOMAIN e.args |-> infer_type(e.args[j], place)]
      All(t) == \A j \in DOMAIN of : of[j] = t
      If(good, t) == IF good THEN t ELSE Refused
  IN  CASE e.k \in {"int", "str", "bool"} -> e.k
        [] e.k = "ref"     -> Resolve(place, e.path)
        [] e.k = "unary"   -> IF e.op = "not" THEN If(All("bool"), "bool") ELSE If(All("int"), "int")
        [] e.k = "binary"  -> If(All("int"), "int")
        [] e.k = "bool_op" -> If(All("bool"), "bool")
        [] e.k = "index"   -> If(All("int"), ResolveMap(e.op))
        [] e.k = "compare" -> If(Refused \notin {of[1], of[2]} /\ Comparable(e.op, of[1], of[2]),
                                 "bool")
        [] e.k = "call"    ->
             If(/\ Len(of) \in BUILTINS[e.op].required .. Len(BUILTINS[e.op].params)
                /\ \A j \in DOMAIN of : of[j] = BUILTINS[e.op].params[j], BUILTINS[e.op].returns)

(***************************************************************************)
(* Values, and what operators make of them.                                *)
(***************************************************************************)
Val(t, v)   == [ok |-> TRUE, t |-> t, v |-> v, why |-> ""]
Failed(why) == [ok |-> FALSE, t |-> "", v |-> 0, why |-> why]

IntV(n)  == Val("int", n)
BoolV(b) == Val("bool", b)

Space == 42
Signs == {40, 41}    \* minus and plus

Strip(text) ==
  LET kept == {j \in DOMAIN text : text[j] # Space}
  IN  IF kept = {} THEN <<>>
      ELSE SubSeq(text, CHOOSE j \in kept : \A l \in kept : j <= l,
                        CHOOSE j \in kept : \A l \in kept : j >= l)

Lower(text) == [j \in DOMAIN text |-> IF text[j] \in 110 .. 135 THEN text[j] - 100 ELSE text[j]]

(* What Python's int makes of digits: too many of them are an error of its *)
(* own, unless the base is a power of two.                                 *)
PythonInt(body, base) ==
  IF Len(body) > MaxDigits /\ base \notin {2, 4, 8, 16, 32}
    THEN Failed("ValueError")
    ELSE IntV(FoldLeft(LAMBDA n, digit : n * base + digit, 0, body))

Unreadable(body, base) == body = <<>> \/ \E j \in DOMAIN body : body[j] \notin 0 .. base - 1

to_int(text, base) ==
  LET stripped == Strip(text)
      signed   == stripped # <<>> /\ Head(stripped) \in Signs
      body     == IF signed THEN Tail(stripped) ELSE stripped
      read     == PythonInt(Lower(body), base)
  IN  IF base \notin 2 .. 36 \/ Unreadable(Lower(body), base) THEN Failed("not a number")
      ELSE IF read.ok /\ signed /\ Head(stripped) = 40 THEN IntV(-read.v)
      ELSE read

before(text, separator) ==
  LET at == {j \in 0 .. Len(text) : IsPrefix(separator, SubSeq(text, j + 1, Len(text)))}
  IN  IF at = {} THEN text
      ELSE SubSeq(text, 1, CHOOSE j \in at : \A l \in at : j <= l)

Applied(name, vs) ==
  CASE name = "to_int"     -> to_int(vs[1].v, IF Len(vs) = 1 THEN 10 ELSE vs[2].v)
    [] name = "lower"      -> Val("str", Lower(vs[1].v))
    [] name = "trim"       -> Val("str", Strip(vs[1].v))
    [] name = "startswith" -> BoolV(IsPrefix(vs[2].v, vs[1].v))
    [] name = "endswith"   -> BoolV(IsSuffix(vs[2].v, vs[1].v))
    [] name = "len"        -> IntV(vs[1].v)
    [] name = "before"     -> Val("str", before(vs[1].v, vs[2].v))

Shiftable(count) == count >= 0 /\ count <= MaxShift

FloorDiv(a, b) == IF b > 0 THEN a \div b ELSE (-a) \div (-b)

(* The bits of two's complement, of more places than any value has.        *)
Bitwise(op, a, b) ==
  LET Of(n, j) == (n \div 2 ^ j) % 2
      Bit(j) == CASE op = "&" -> Of(a, j) * Of(b, j)
                  [] op = "|" -> IF Of(a, j) + Of(b, j) = 0 THEN 0 ELSE 1
                  [] op = "^" -> (Of(a, j) + Of(b, j)) % 2
      sum == FoldLeft(LAMBDA n, j : n + 2 ^ (j - 1) * Bit(j - 1), 0, [j \in 1 .. 12 |-> j])
  IN  IF Bit(12) = 1 THEN sum - 2 ^ 12 ELSE sum

Shifted(op, a, b) ==
  IF ~Shiftable(b) THEN Failed("shift count")
  ELSE IntV(IF op = "<<" THEN a * 2 ^ b ELSE a \div 2 ^ b)

Computed(op, a, b) ==
  CASE op = "+" -> IntV(a + b)
    [] op = "-" -> IntV(a - b)
    [] op = "*" -> IntV(a * b)
    [] op \in {"/", "%"} ->
         IF b = 0 THEN Failed("division by zero")
         ELSE IntV(IF op = "/" THEN FloorDiv(a, b) ELSE a - b * FloorDiv(a, b))
    [] op \in {"&", "|", "^"} -> IntV(Bitwise(op, a, b))
    [] OTHER    -> Shifted(op, a, b)

(* Python compares values of two types without complaint: true is 1.       *)
Equal(l, r) ==
  IF l.t = r.t THEN l.v = r.v
  ELSE {l.t, r.t} = {"int", "bool"} /\ \E b \in BOOLEAN, n \in {0, 1} :
         /\ b = (n = 1)
         /\ {<<l.t, l.v>>, <<r.t, r.v>>} = {<<"int", n>>, <<"bool", b>>}

Compared(op, l, r) ==
  CASE op = "==" -> BoolV(Equal(l, r))
    [] op = "!=" -> BoolV(~Equal(l, r))
    [] OTHER     -> BoolV(CASE op = "<"  -> l.v < r.v [] op = "<=" -> l.v <= r.v
                            [] op = ">"  -> l.v > r.v [] op = ">=" -> l.v >= r.v)

(***************************************************************************)
(* The interpreter. What a message holds is a record of frames: doc, the   *)
(* parameters; scope, what the scope words and the element name stand for; *)
(* and one for each unit decoded, which a value of type unit names.        *)
(***************************************************************************)
Absent == Val("none", 0)

MapEntry(held, key) ==
  IF key \in DOMAIN held.doc.m.v THEN IntV(held.doc.m.v[key]) ELSE Failed("no entry")

Contents(held, frame, name) ==
  IF name \in DOMAIN held[frame] THEN held[frame][name] ELSE Absent

(* The rest of a path, from what its head holds.                           *)
RECURSIVE Follow(_, _, _, _)
Follow(held, v, rest, without) ==
  CASE v.t = "none"   -> Failed(without)
    [] v.t = "failed" -> Failed("transform failed")
    [] v.t \notin {"none", "failed"} /\ rest = <<>> ->
         IF v.t \in {"unit", "list"} THEN Failed("no scalar value") ELSE v
    [] v.t = "unit" /\ rest # <<>> ->
         Follow(held, Contents(held, v.v, Head(rest)), Tail(rest), "not a field")
    [] OTHER -> Failed("not a field")

Lookup(path, place, held) ==
  LET scoped == Head(path) \in SCOPE_WORDS
      parts  == IF scoped THEN Tail(path) ELSE path
      from   == held.scope[IF scoped THEN Head(path) ELSE "this"]
      name   == Head(parts)
      v      == IF from.t # "unit" THEN Absent
                ELSE IF place.el # "" /\ name = place.el /\ from.v = held.scope.this.v
                  THEN held.scope.element
                ELSE Contents(held, from.v, name)
  IN  IF from.t # "unit" THEN Failed("no parent")
      ELSE IF v.t = "none" /\ name \in Params /\ Len(parts) = 1 THEN held.doc[name]
      ELSE Follow(held, v, Tail(parts), "not decoded")

(* The first operand that fails is what fails.                             *)
FirstFailed(vs) == vs[CHOOSE j \in DOMAIN vs : ~vs[j].ok /\ \A l \in 1 .. j - 1 : vs[l].ok]

Typed(v, t) == IF v.ok /\ v.t # t THEN Failed("wrong type") ELSE v

(* The first operand that decides ends it, and the rest are not evaluated. *)
Decided(op, vs) ==
  LET stops == {j \in DOMAIN vs : ~vs[j].ok \/ vs[j].v # (op = "and")}
  IN  IF stops = {} THEN BoolV(op = "and") ELSE vs[CHOOSE j \in stops : \A l \in stops : j <= l]

Negated(op, v) ==
  CASE op = "not" -> BoolV(~v.v) [] op = "-" -> IntV(-v.v)
    [] op = "~" -> IntV(-v.v - 1) [] op = "+" -> v

Wanted(e, j) ==
  CASE e.k = "bool_op" \/ (e.k = "unary" /\ e.op = "not") -> "bool"
    [] e.k = "call" -> BUILTINS[e.op].params[j]
    [] OTHER        -> "int"

RECURSIVE evaluate(_, _, _)
evaluate(e, place, held) ==
  LET raw == [j \in DOMAIN e.args |-> evaluate(e.args[j], place, held)]
      vs  == IF e.k = "compare" /\ e.op \notin Ordering THEN raw
             ELSE [j \in DOMAIN raw |-> Typed(raw[j], Wanted(e, j))]
  IN  CASE e.k = "int"     -> IntV(e.n)
        [] e.k = "bool"    -> BoolV(e.n = 1)
        [] e.k = "str"     -> Val("str", e.text)
        [] e.k = "ref"     -> Lookup(e.path, place, held)
        [] e.k = "bool_op" -> Decided(e.op, vs)
        [] \E j \in DOMAIN vs : ~vs[j].ok -> FirstFailed(vs)
        [] e.k = "unary"   -> Negated(e.op, vs[1])
        [] e.k = "binary"  -> Computed(e.op, vs[1].v, vs[2].v)
        [] e.k = "compare" -> Compared(e.op, vs[1], vs[2])
        [] e.k = "call"    -> Applied(e.op, vs)
        [] e.k = "index"   -> MapEntry(held, vs[1].v)

\* A bug kept as a mutant: the key of an index is not looked into.
RECURSIVE referencesButKeys(_)
referencesButKeys(e) ==
  (IF e.k = "ref" THEN {e.path} ELSE {})
    \cup UNION {IF e.k = "index" THEN {} ELSE referencesButKeys(e.args[j]) : j \in DOMAIN e.args}

RECURSIVE references(_)
references(e) ==
  (IF e.k = "ref" THEN {e.path} ELSE {}) \cup UNION {references(e.args[j]) : j \in DOMAIN e.args}

(***************************************************************************)
(* Text, and the two that write it.                                        *)
(***************************************************************************)
Token(sym, leaf, parts) == [sym |-> sym, leaf |-> leaf, parts |-> parts]

Op(sym)             == <<Token(sym, <<>>, <<>>)>>
Leaf(e)             == <<Token("leaf", <<e>>, <<>>)>>
Bracket(sym, parts) == <<Token(sym, <<>>, parts)>>

Group(text, level, limit) == IF level < limit THEN Bracket("(", <<text>>) ELSE text

Joined(op, parts) == FoldLeft(LAMBDA text, part : text \o Op(op) \o part, Head(parts), Tail(parts))

Level(e) ==
  IF e.k = "unary" THEN IF e.op = "not" THEN PRECEDENCE["not"] ELSE UNARY_PRECEDENCE
  ELSE PRECEDENCE[e.op]

\* A bug kept as a mutant: the right operand is not grouped at equal precedence.
OperandLimitEqual(e, j) == IF e.k = "compare" THEN Level(e) + 1 ELSE Level(e)

(* How tight an operand has to bind to stand without brackets: comparisons *)
(* do not associate, arithmetic does to the left.                          *)
OperandLimit(e, j) ==
  IF e.k = "compare" \/ (e.k = "binary" /\ j = 2) THEN Level(e) + 1 ELSE Level(e)

IsAtom(e) == e.k \in {"int", "str", "bool", "ref"}

RECURSIVE unparse(_, _)
unparse(e, limit) ==
  LET Part(j)   == unparse(e.args[j], OperandLimit(e, j))
      inside    == [j \in DOMAIN e.args |-> unparse(e.args[j], 0)]
  IN  CASE IsAtom(e)       -> Leaf(e)
        [] e.k = "call"    -> Bracket(e.op, inside)
        [] e.k = "index"   -> Bracket("[", inside)
        [] e.k = "unary"   -> Group(Op(e.op) \o Part(1), Level(e), limit)
        [] OTHER           -> Group(Joined(e.op, [j \in DOMAIN e.args |-> Part(j)]), Level(e), limit)

(* A field under a condition may hold nothing, and so may a transform's.   *)
MaybeMissing(field) == field.maybe \/ field.kind \in {"raw", "output"}

Uncompiled == Op("CompileError")

(* The fields a path goes through, or none if it does not resolve.         *)
RECURSIVE walk_path(_, _, _)
walk_path(place, unit, parts) ==
  IF Head(parts) \notin AllNames(place, unit) THEN <<>>
  ELSE LET field == FieldOf(place, unit, Head(parts))
           steps == walk_path(place, field.of, Tail(parts))
       IN  IF Len(parts) = 1 THEN <<field>>
           ELSE IF IsNested(field) /\ Len(steps) > 0 THEN <<field>> \o steps ELSE <<>>

RECURSIVE Leads(_, _, _)
Leads(place, unit, to) ==
  \/ unit = to
  \/ \E j \in DOMAIN FieldsOf(place, unit) :
       LET field == FieldsOf(place, unit)[j] IN IsNested(field) /\ Leads(place, field.of, to)

(* The entry unit holds what root names before it reads it, or passes it   *)
(* on: nothing holds the value of a field decoded later.                   *)
RootIsHeld(place, name) ==
  LET fields   == FieldsOf(place, place.entry)
      HeldAt(j) == name \in NamesBefore(place, place.entry, j)
  IN  IF place.unit = place.entry THEN HeldAt(place.at)
      ELSE \A j \in DOMAIN fields :
             IsNested(fields[j]) /\ Leads(place, fields[j].of, place.unit) => HeldAt(j)

(* The callers need not agree on which fields may be missing: the first,   *)
(* in the order of the specification, is asked.                            *)
FirstCaller(place) ==
  place.units[(CHOOSE site \in Sites(place, place.unit) :
                 \A other \in Sites(place, place.unit) : site[1] <= other[1])[1]].name

Asked(text, field, first) ==
  IF MaybeMissing(field) THEN Bracket("present", <<text, Leaf(BoolLiteral(first))>>) ELSE text

(* What is named, from the local or the argument that holds its head; a    *)
(* value that may be absent is asked for.                                  *)
Reference(path, place) ==
  LET scoped == Head(path) \in SCOPE_WORDS
      word   == IF scoped THEN Head(path) ELSE "this"
      parts  == IF scoped THEN Tail(path) ELSE path
      bound  == word = "this" /\ place.el # "" /\ Head(parts) = place.el
      start  == CASE word = "parent" -> FirstCaller(place)
                  [] word = "root"   -> place.entry
                  [] OTHER           -> place.unit
      prefix == CASE word = "parent"                             -> <<"_parent">>
                  [] word = "root" /\ place.unit # place.entry   -> <<"_root">>
                  [] OTHER                                       -> <<>>
      steps  == walk_path(place, start, IF bound THEN <<place.of>> \o Tail(parts) ELSE parts)
      head   == IF bound THEN Leaf(Ref(<<"_element">>))
                ELSE Asked(Leaf(Ref(prefix \o <<steps[1].name>>)), steps[1], TRUE)
      Step(text, field) ==
        Asked(text \o <<Token(".", <<Ref(<<field.name>>)>>, <<>>)>>, field, FALSE)
  IN  IF ~scoped /\ Len(path) = 1 /\ Head(path) \in Params THEN Leaf(Ref(<<"_doc">> \o path))
      ELSE IF \/ word = "parent" /\ Sites(place, place.unit) = {}
              \/ Len(steps) = 0
              \/ word = "root" /\ ~RootIsHeld(place, Head(parts))
        THEN Uncompiled
      ELSE FoldLeft(Step, head, Tail(steps))

SafeShift(count) == count.k = "int" /\ count.n <= MaxShift

ShiftHelper(op) == IF op = "<<" THEN "shift_left" ELSE "shift_right"

RECURSIVE Expression(_, _, _)

(* One value compared with several literals, whichever it is of.           *)
Members(e, place) ==
  IF e.k # "bool_op" THEN FALSE
  ELSE /\ Len(e.args) >= 2
       /\ \A j \in DOMAIN e.args :
            /\ e.args[j].k = "compare"
            /\ e.args[j].op = (IF e.op = "or" THEN "==" ELSE "!=")
            /\ e.args[j].args[2].k \in {"int", "str"}
       /\ \A j, l \in DOMAIN e.args :
            Expression(e.args[j].args[1], 5, place) = Expression(e.args[l].args[1], 5, place)

\* A bug kept as a mutant: a not around it is lost.
MembershipPlain(e, negate, place) ==
  Expression(e.args[1].args[1], 5, place) \o Op(IF e.op = "or" THEN "in" ELSE "not in")
    \o Bracket("tuple", [j \in DOMAIN e.args |-> Leaf(e.args[j].args[2])])

Membership(e, negate, place) ==
  Expression(e.args[1].args[1], 5, place) \o Op(IF (e.op = "or") # negate THEN "in" ELSE "not in")
    \o Bracket("tuple", [j \in DOMAIN e.args |-> Leaf(e.args[j].args[2])])

Methods == {"lower", "trim", "startswith", "endswith"}

Builtin(name, args) ==
  IF name \in Methods THEN Head(args) \o Bracket(name, Tail(args)) ELSE Bracket(name, args)

Expression(e, limit, place) ==
  LET Part(j) == Expression(e.args[j], OperandLimit(e, j), place)
      inside  == [j \in DOMAIN e.args |-> Expression(e.args[j], 0, place)]
      op      == IF e.op = "/" THEN "//" ELSE e.op
  IN  CASE e.k = "ref"     -> Reference(e.path, place)
        [] IsAtom(e)       -> Leaf(e)
        [] e.k = "call"    -> Builtin(e.op, inside)
        [] e.k = "index"   -> Bracket("map_entry", inside)
        [] Members(e, place)  -> Group(Membership(e, FALSE, place), PRECEDENCE["=="], limit)
        [] e.k = "unary"   ->
             IF e.op = "not" /\ Members(e.args[1], place)
               THEN Group(Membership(e.args[1], TRUE, place), PRECEDENCE["=="], limit)
               ELSE Group(Op(e.op) \o Part(1), Level(e), limit)
        [] e.op \in {"<<", ">>"} /\ ~SafeShift(e.args[2]) -> Bracket(ShiftHelper(e.op), inside)
        [] OTHER -> Group(Joined(op, [j \in DOMAIN e.args |-> Part(j)]), Level(e), limit)

(***************************************************************************)
(* Python: how it reads a text, and what it computes. ast.parse groups by  *)
(* Python's own table, which parse translates node by node.                *)
(***************************************************************************)
PythonLevels ==
  <<{"or"}, {"and"}, {"not"}, Ordering \cup {"==", "!=", "in", "not in"}, {"|"}, {"^"}, {"&"},
    {"<<", ">>"}, {"+", "-"}, {"*", "/", "//", "%"}>>

Operators == UNION {PythonLevels[level] : level \in DOMAIN PythonLevels} \cup {"~"}

Syntax == Expr("error", "", <<>>, 0, <<>>, <<>>)

RECURSIVE Parsed(_, _)

Atom(token) ==
  IF token.sym = "leaf" THEN token.leaf[1]
  ELSE LET parts == [j \in DOMAIN token.parts |-> Parsed(token.parts[j], 1)]
       IN  CASE token.sym = "(" -> parts[1]
             [] token.sym = "[" -> Index("m", parts[1])
             [] token.sym \in Operators \cup {"CompileError"} -> Syntax
             [] OTHER -> Call(token.sym, parts)

Parsed(text, level) ==
  LET at == IF level > 10 THEN {}
            ELSE {j \in 2 .. Len(text) : /\ text[j].sym \in PythonLevels[level]
                                         /\ text[j - 1].sym \notin Operators}
      last  == CHOOSE j \in at : \A l \in at : l <= j
      ends  == <<0>> \o SetToSortSeq(at, <) \o <<Len(text) + 1>>
      parts == [j \in 1 .. Len(ends) - 1 |-> Parsed(SubSeq(text, ends[j] + 1, ends[j + 1] - 1), level + 1)]
  IN  CASE text = <<>> -> Syntax
        [] level \in {1, 2} /\ at # {} -> BoolOp(text[last].sym, parts)
        [] level \in {3, 11} /\ Head(text).sym \in (IF level = 3 THEN {"not"} ELSE {"-", "+", "~"}) ->
             UnaryOp(Head(text).sym, Parsed(Tail(text), level))
        [] level = 4 /\ at # {} ->
             IF Len(parts) = 2 THEN Compare(text[last].sym, parts[1], parts[2]) ELSE Syntax
        [] level \in 5 .. 10 /\ at # {} ->
             BinOp(text[last].sym, Parsed(SubSeq(text, 1, last - 1), level),
                   Parsed(SubSeq(text, last + 1, Len(text)), level + 1))
        [] level = 12 ->
             IF Len(text) = 1 THEN Atom(text[1])
             ELSE IF text[Len(text)].sym = "."
               THEN Expr("attribute", "", <<Parsed(Front(text), 12)>>, 0, <<>>,
                         text[Len(text)].leaf[1].path)
             ELSE IF text[Len(text)].sym \in Methods
               THEN Call(text[Len(text)].sym,
                         <<Parsed(Front(text), 12)>> \o Atom(text[Len(text)]).args)
               ELSE Syntax
        [] OTHER -> Parsed(text, level + 1)

parse(text) == Parsed(text, 1)

(* What the runtime's functions and Python's operators make of values.     *)
Computes(e, vs, held) ==
  LET Ints == \A j \in DOMAIN vs : vs[j].t = "int"
  IN  CASE e.k = "unary" -> IF e.op = "not" \/ Ints THEN Negated(e.op, vs[1]) ELSE Failed("TypeError")
        [] e.k = "compare" /\ e.op \in {"in", "not in"} ->
             BoolV((\E j \in 2 .. Len(vs) : Equal(vs[1], vs[j])) = (e.op = "in"))
        [] e.k = "compare" -> IF e.op \notin Ordering \/ Ints THEN Compared(e.op, vs[1], vs[2])
                              ELSE Failed("TypeError")
        [] e.k = "binary" /\ ~Ints -> Failed("TypeError")
        [] e.op = "<<" -> IntV(vs[1].v * 2 ^ vs[2].v)
        [] e.op = ">>" -> IntV(vs[1].v \div 2 ^ vs[2].v)
        [] e.k = "binary" -> Computed(IF e.op = "//" THEN "/" ELSE e.op, vs[1].v, vs[2].v)
        [] e.op = "shift_left"  -> Shifted("<<", vs[1].v, vs[2].v)
        [] e.op = "shift_right" -> Shifted(">>", vs[1].v, vs[2].v)
        [] e.op = "present"     ->
             CASE vs[1].t = "none"   -> Failed(IF vs[2].v THEN "not decoded" ELSE "not a field")
               [] vs[1].t = "failed" -> Failed("transform failed")
               [] OTHER              -> vs[1]
        [] e.op = "map_entry"   -> MapEntry(held, vs[1].v)
        [] OTHER                -> Applied(e.op, vs)

Operands(e) == IF e.op \in {"in", "not in"} THEN <<e.args[1]>> \o e.args[2].args ELSE e.args

(* What the function was handed, by its callers or with the document, and  *)
(* its locals: a name it has no local for yet is an error of its own.      *)
Local(path, place, held) ==
  CASE Head(path) = "_doc"     -> held.doc[path[2]]
    [] Head(path) = "_element" -> held.scope.element
    [] Head(path) = "_parent"  -> Contents(held, held.scope.parent.v, path[2])
    [] Head(path) = "_root"    -> Contents(held, held.scope.root.v, path[2])
    [] Len(path) = 1 /\ Head(path) \in Visible(place) ->
         Contents(held, held.scope.this.v, Head(path))
    [] OTHER -> Failed("NameError")

Attribute(v, name, held) ==
  IF v.ok /\ v.t = "unit" THEN Contents(held, v.v, name)
  ELSE IF v.ok THEN Failed("AttributeError") ELSE v

RECURSIVE Python(_, _, _)
Python(e, place, held) ==
  LET vs == [j \in DOMAIN Operands(e) |-> Python(Operands(e)[j], place, held)]
  IN  CASE e.k = "int"     -> IntV(e.n)
        [] e.k = "bool"    -> BoolV(e.n = 1)
        [] e.k = "str"     -> Val("str", e.text)
        [] e.k = "ref"     -> Local(e.path, place, held)
        [] e.k = "attribute" -> Attribute(vs[1], Head(e.path), held)
        [] e.k = "bool_op" -> Decided(e.op, vs)
        [] \E j \in DOMAIN vs : ~vs[j].ok -> FirstFailed(vs)
        [] OTHER           -> Computes(e, vs, held)

RECURSIVE Mentions(_, _)
Mentions(text, syms) ==
  \E j \in DOMAIN text :
     \/ text[j].sym \in syms
     \/ \E l \in DOMAIN text[j].parts : Mentions(text[j].parts[l], syms)

\* A bug kept as a mutant: a field that may be absent is taken to be there.
FallibleButPresent(text) ==
  Mentions(text, {"//", "%", "shift_left", "shift_right", "to_int", "map_entry"})

Fallible(text) ==
  Mentions(text, {"//", "%", "shift_left", "shift_right", "to_int", "present", "map_entry"})

Exceptions == {"TypeError", "ValueError", "NameError", "AttributeError", "not wrapped"}

(* The generated module: what is wrapped says why it failed, in the        *)
(* interpreter's words; what is not, and any other exception, escapes.     *)
Compiled(text, place, held) ==
  LET v == Python(parse(text), place, held)
  IN  IF v.ok \/ v.why \in Exceptions \/ Fallible(text) THEN v ELSE Failed("not wrapped")

(***************************************************************************)
(* An expression is checked, rendered, and evaluated in one message after  *)
(* another; what the messages hold differs in one name at a time.          *)
(***************************************************************************)
Types == {"", "int", "str", "bytes", "bool", Refused}

Init ==
  /\ \E case \in Cases : expr = case[1] /\ where = case[2]
  /\ type = ""
  /\ code = <<>>
  /\ env = First[where]
  /\ answers = <<>>

Check ==
  /\ type = ""
  /\ type' = infer_type(expr, Places[where])
  /\ UNCHANGED <<expr, where, code, env, answers>>

CompileExpression ==
  /\ type \notin {"", Refused} /\ code = <<>>
  /\ code' = LET text == Expression(expr, 0, Places[where])
             IN  IF Mentions(text, {"CompileError"}) THEN Uncompiled ELSE text
  /\ UNCHANGED <<expr, where, type, env, answers>>

Same(v, w) == v.ok = w.ok /\ v.why = w.why /\ v.t = w.t /\ v.v = w.v

(* A slot is a name in a frame.                                            *)
Changed(held) ==
  {slot \in DOMAIN Holds[where] :
     ~Same(held[slot[1]][slot[2]], First[where][slot[1]][slot[2]])}

Decode ==
  /\ code # <<>>
  /\ \E slot \in DOMAIN Holds[where] : \E v \in Holds[where][slot] :
       env' = [env EXCEPT ![slot[1]][slot[2]] = v]
  /\ Cardinality(Changed(env')) <= MaxChanged
  /\ answers' = LET interpreted == evaluate(expr, Places[where], env')
                IN  <<interpreted, IF code = Uncompiled THEN interpreted
                                   ELSE Compiled(code, Places[where], env')>>
  /\ UNCHANGED <<expr, where, type, code>>

Next == Check \/ CompileExpression \/ Decode

Spec == Init /\ [][Next]_vars
-----------------------------------------------------------------------------
(* What the checker accepts has a type, what was rendered is Python, and   *)
(* only what was rendered is decoded with.                                 *)
TypeOK ==
  /\ type \in Types
  /\ code # <<>> => type \notin {"", Refused}
  /\ Mentions(code, {"CompileError"}) => code = Uncompiled
  /\ answers # <<>> => Len(answers) = 2 /\ code # <<>>

(* An expression the checker accepted never meets a value of another type: *)
(* what it evaluates to has the type inferred, and what fails, fails for   *)
(* what the message holds (expr.infer_type, expr._as_int).                 *)
CheckedNeverConfuses ==
  \A j \in DOMAIN answers :
    IF answers[j].ok THEN answers[j].t = type
    ELSE answers[j].why \notin {"wrong type", "no scalar value", "no parent",
                                "TypeError", "NameError", "AttributeError"}

(* The generated module computes what the interpreter does, and where that *)
(* fails it fails in the same words (pygen.render_expr).                   *)
SameAnswer == answers # <<>> => Same(answers[1], answers[2])

(* Whatever the message holds, a failed expression is one the decoder      *)
(* turns into a region: nothing else is raised (pygen._fallible).          *)
NothingEscapes ==
  \A j \in DOMAIN answers : ~answers[j].ok => answers[j].why \notin Exceptions

RECURSIVE Flat(_)
Flat(e) ==
  LET args == [j \in DOMAIN e.args |-> Flat(e.args[j])]
      Spliced(j) == IF e.k = "bool_op" /\ args[j].k = "bool_op" /\ args[j].op = e.op
                      THEN args[j].args ELSE <<args[j]>>
  IN  [e EXCEPT !.args = FlattenSeq([j \in DOMAIN args |-> Spliced(j)])]

(* What is quoted to the author parses back to what was written, but for   *)
(* an and of ands and an or of ors (expr.unparse).                         *)
SpelledBack == answers = <<>> => parse(unparse(expr, 0)) = Flat(expr)

(* An expression's value depends on what it references and on the map it   *)
(* indexes, and on nothing else a message holds: what a derived record     *)
(* cites is what its value came from (expr.references).                    *)
OnlyWhatIsReferenced ==
  [][answers # <<>> /\ answers' # <<>> /\ env'.doc.m = env.doc.m
       /\ (\A path \in references(expr) :
            Same(Lookup(path, Places[where], env'), Lookup(path, Places[where], env)))
     => Same(answers[1], answers'[1]) /\ Same(answers[2], answers'[2])]_vars

(* A decode never raises: what was checked and rendered meets the values   *)
(* it was checked for, and fails only in ways the decoder expects.         *)
NeverRaises == TypeOK /\ CheckedNeverConfuses /\ NothingEscapes
=============================================================================
