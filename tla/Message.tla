------------------------------ MODULE Message ------------------------------
(***************************************************************************)
(* One message decoded by a specification: first by the interpreter        *)
(* (kober.decoder), then by the module kober.pygen generates from the same *)
(* specification.  Both go through units, repetitions, switches and        *)
(* pointers in the same steps, over one stack of frames; where their code  *)
(* differs, what a step does is given twice, the generated module's under  *)
(* a name that begins with Gen.                                            *)
(*                                                                         *)
(* A message found truncated with its end known is then decoded once more  *)
(* with the bytes that were missing (extended), and one that left bytes    *)
(* unread without them (alone).  Fields are whole bytes.  What a unit      *)
(* writes, and what its guard or a transform takes back, is UnitDecode's.  *)
(***************************************************************************)
EXTENDS SpecWidths, Integers, SequencesExt, TLC

CONSTANTS
  Specifications,  (* a function: a specification has the fields of its    *)
                   (* units, and in confirm each unit's guard              *)
  Inputs,          (* the runs decoded, each a sequence of bytes           *)
  MaxDepth,        (* how deep units nest (64 in the code)                 *)
  MaxHops          (* how many pointers a chain follows (16 in the code)   *)

ASSUME LimitsAssumption == MaxDepth \in Nat /\ MaxHops \in Nat

(* A walk over a field's type sees all of it.                              *)
ASSUME TypesAssumption ==
  \A s \in DOMAIN Specifications :
    LET sp == Specifications[s].fields
    IN  \A p \in Positions(sp) : WalksWhole(sp[p[1]][p[2]].type)

VARIABLES
  which,    (* the specification, by its name in Specifications            *)
  plan,     (* what is known of it before anything is decoded              *)
  data,     (* the run                                                     *)
  how,      (* which of the decodes is being made                          *)
  bytes,    (* the bytes it is given                                       *)
  m,        (* the decode: where it stands and what it has                 *)
  outcome   (* what each decode made so far came to                        *)

vars == <<which, plan, data, how, bytes, m, outcome>>

Delimiter == 0
None      == -1

(***************************************************************************)
(* The plan, computed when a decoder is built or a module is generated.    *)
(***************************************************************************)
Terminal(sp) ==
  LET grown[n \in 0 .. Cardinality(Units)] ==
        IF n = 0 THEN {}
        ELSE {u \in Units : \E i \in Fields(sp, u) : ReachesEnd(sp[u][i], grown[n - 1])}
  IN  grown[Cardinality(Units)]

Context(sp) ==
  LET left[n \in 0 .. Cardinality(Units)] ==
        IF n = 0 THEN Units
        ELSE {u \in left[n - 1] : ~LeavesContext(sp, left[n - 1], u)}
  IN  left[Cardinality(Units)]

Recurs(sp) ==
  LET Called(us) == {v \in Units : \E u \in us : \E i \in Fields(sp, u) :
                                      v \in Named(sp[u][i].type)}
      below[n \in 0 .. Cardinality(Units)] ==
        IF n = 0 THEN Called({Entry}) \cup {Entry}
        ELSE below[n - 1] \cup Called(below[n - 1])
      from[u \in Units, n \in 0 .. Cardinality(Units)] ==
        IF n = 0 THEN Called({u}) ELSE from[u, n - 1] \cup Called(from[u, n - 1])
  IN  \E u \in below[Cardinality(Units)] : u \in from[u, Cardinality(Units)]

(* Which fields a field that takes what is left leaves nothing, and which  *)
(* of them only after a first element.                                     *)
PlanOf(sp) ==
  LET terminal == Terminal(sp)
      ends == {p \in Positions(sp) : ReadsToEnd(sp[p[1]][p[2]], terminal)}
      after == UNION {{p[1]} \X StarvedAfter(sp, p[1], p[2]) : p \in ends}
  IN  [tails     |-> message_tail_fields(sp, Context(sp)),
       starved   |-> after,
       elements  |-> starved_fields(sp, terminal) \ after,
       recursive |-> Recurs(sp)]

Plans == [s \in DOMAIN Specifications |-> PlanOf(Specifications[s].fields)]

spec == Specifications[which].fields

(***************************************************************************)
(* Values, and expressions over the fields decoded so far.  A path names a *)
(* field, a field of a unit, or a field of the parent or the root.         *)
(***************************************************************************)
Absent == <<"absent", 0>>

Member(named, name) == IF name \in DOMAIN named THEN named[name] ELSE Absent

Within(named, parts) ==
  LET head == Member(named, parts[1])
  IN  IF Len(parts) = 1 THEN head
      ELSE IF head[1] = "unit" THEN Member(head[2], parts[2]) ELSE Absent

Scopes(stack) ==
  LET units == SelectSeq(stack, LAMBDA frame : frame.k = "unit")
  IN  [j \in DOMAIN units |-> units[j].named]

Lookup(scopes, path) ==
  IF path[1] = "parent" THEN Within(scopes[Len(scopes) - 1], Tail(path))
  ELSE IF path[1] = "root" THEN Within(scopes[1], Tail(path))
  ELSE Within(Last(scopes), path)

Failing == [ok |-> FALSE, n |-> 0]
Int_(n) == [ok |-> TRUE, n |-> n]

(* A truth value is 1 or 0.  A field that is absent, or holds no number,   *)
(* and a division by zero fail.                                            *)
Evaluate(scopes, e) ==
  IF e.op = "lit" THEN Int_(e.n)
  ELSE LET v == Lookup(scopes, e.path)
       IN  IF v[1] # "int" \/ (e.op = "over" /\ v[2] = 0) THEN Failing
           ELSE Int_(CASE e.op = "ref"   -> v[2]
                       [] e.op = "minus" -> v[2] - e.n
                       [] e.op = "over"  -> e.n \div v[2]
                       [] e.op = "is"    -> IF v[2] = e.n THEN 1 ELSE 0)

Bound(named, name, value) == (name :> value) @@ named

Without(named, name) == [x \in DOMAIN named \ {name} |-> named[x]]

(***************************************************************************)
(* Frames.  A unit's keeps what it has decoded and whether the field being *)
(* decoded began with nothing left; a repetition's its elements; and a     *)
(* pointer's where to come back to.                                        *)
(***************************************************************************)
UnitFrame(u, pos) ==
  [k |-> "unit", unit |-> u, i |-> 1, named |-> <<>>, from |-> pos, empty |-> FALSE]

RepeatFrame(wanted, pos) ==
  [k |-> "repeat", items |-> <<>>, wanted |-> wanted, before |-> pos,
   start |-> pos, empty |-> FALSE, last |-> FALSE]

PointerFrame ==
  [k |-> "pointer", pos |-> m.pos, size |-> m.size, limit |-> m.limit, hops |-> m.hops]

NoType == [k |-> "none"]
NoGot  == [val |-> Absent, from |-> 0, to |-> 0]

Begin(run) ==
  [doing |-> "field", stack |-> <<UnitFrame(Entry, 0)>>, pos |-> 0,
   size |-> Len(run), limit |-> None, hops |-> 0, type |-> NoType, got |-> NoGot,
   status |-> "ok", reach |-> None, leaves |-> <<>>]

Top      == Last(m.stack)
Rest_    == Front(m.stack)
ScopeAt  == SelectLastInSeq(m.stack, LAMBDA frame : frame.k = "unit")
Scope    == m.stack[ScopeAt]
Here     == Scopes(m.stack)
Item     == spec[Scope.unit][Scope.i]
At       == <<Scope.unit, Scope.i>>
Gen      == how = "generated"
Says(e)  == Evaluate(Here, e)
Holds(e) == Says(e).ok /\ Says(e).n = 1

Stopped(status, reach) ==
  [m EXCEPT !.doing = "stop", !.status = status, !.reach = reach]

Keep == UNCHANGED <<which, plan, data, how, bytes, outcome>>

(***************************************************************************)
(* Reads of what stands at the position.                                   *)
(***************************************************************************)
Slice(from, to) == <<"bytes", SubSeq(bytes, from + 1, to)>>

Value(val, to) == [status |-> "ok", val |-> val, pos |-> to, reach |-> None]

Refused(status, reach) ==
  [status |-> status, val |-> Absent, pos |-> m.pos, reach |-> reach]

Undecodable == Refused("undecodable", None)

read_int ==
  IF m.pos < m.size THEN Value(<<"int", bytes[m.pos + 1]>>, m.pos + 1)
                    ELSE Refused("truncated", None)

(* A mutant: any read is taken to be the last one.                         *)
read_countedLast(count) ==
  IF m.size - m.pos < count THEN Refused("truncated", m.pos + count)
  ELSE Value(Slice(m.pos, m.pos + count), m.pos + count)

(* A read that runs out tells where the message ends if it is its last.    *)
read_counted(count) ==
  IF m.size - m.pos < count
  THEN Refused("truncated", IF At \in plan.tails THEN m.pos + count ELSE None)
  ELSE Value(Slice(m.pos, m.pos + count), m.pos + count)

read_fill ==
  LET trailing == trailing_width(spec, Scope.unit, Scope.i)
  IN  IF trailing >= NoWidth THEN Undecodable
      ELSE IF m.size - m.pos < trailing THEN Refused("truncated", None)
      ELSE Value(Slice(m.pos, m.size - trailing), m.size - trailing)

Delimiters(end) == {j \in m.pos .. end - 1 : bytes[j + 1] = Delimiter}

First(places) == CHOOSE j \in places : \A l \in places : j <= l

read_terminated(required) ==
  LET found == Delimiters(m.size)
  IN  IF found # {} THEN Value(Slice(m.pos, First(found)), First(found) + 1)
      ELSE IF required THEN Refused("truncated", None)
      ELSE Value(Slice(m.pos, m.size), m.size)

read_sized(t) ==
  CASE t.k = "int"       -> read_int
    [] t.k = "fixed"     -> read_counted(t.n)
    [] t.k = "counted"   -> IF Says(t.e).ok /\ Says(t.e).n >= 0
                            THEN read_counted(Says(t.e).n) ELSE Undecodable
    [] t.k = "remaining" -> Value(Slice(m.pos, m.size), m.size)
    [] t.k = "fill"      -> read_fill
    [] OTHER             -> read_terminated(t.k = "terminated")

(* The generated module checks its lowered size, and slices the whole run. *)
GenNeed(count, reach) ==
  IF m.size - m.pos < count THEN Refused("truncated", reach)
  ELSE Value(Slice(m.pos, m.pos + count), m.pos + count)

GenCounted(t) ==
  IF ~Says(t.e).ok \/ Says(t.e).n < 0 THEN Undecodable
  ELSE GenNeed(Says(t.e).n, IF At \in plan.tails THEN m.pos + Says(t.e).n ELSE None)

GenRemaining == Value(Slice(m.pos, Len(bytes)), m.size)

GenFill(trailing) ==
  IF trailing = 0 THEN GenRemaining
  ELSE IF m.size - m.pos < trailing THEN Refused("truncated", None)
  ELSE Value(Slice(m.pos, m.size - trailing), m.size - trailing)

GenTerminated(required) ==
  LET found == Delimiters(Len(bytes))
  IN  IF found # {} THEN Value(Slice(m.pos, First(found)), First(found) + 1)
      ELSE IF required THEN Refused("truncated", None)
      ELSE Value(Slice(m.pos, Len(bytes)), m.size)

GenInteger ==
  IF GenNeed(1, None).status = "ok" THEN Value(<<"int", bytes[m.pos + 1]>>, m.pos + 1)
                                    ELSE GenNeed(1, None)

GenSized(t) ==
  CASE t.k = "int"       -> GenInteger
    [] t.k = "fixed"     -> GenNeed(t.n, IF At \in plan.tails THEN m.pos + t.n ELSE None)
    [] t.k = "counted"   -> GenCounted(t)
    [] t.k = "remaining" -> GenRemaining
    [] t.k = "fill"      -> GenFill(trailing_width(spec, Scope.unit, Scope.i))
    [] OTHER             -> GenTerminated(t.k = "terminated")

Computed(t) ==
  IF Says(t.e).ok THEN Value(<<"int", Says(t.e).n>>, m.pos) ELSE Undecodable

Read(t) ==
  IF t.k = "computed" THEN Computed(t)
  ELSE IF Gen THEN GenSized(t) ELSE read_sized(t)

LeafKinds == {"int", "fixed", "counted", "terminated", "optional", "remaining",
              "fill", "computed"}

(* Leaf: read one, and hold it for the unit or repetition around it.       *)
Leaf ==
  /\ m.doing = "value" /\ m.type.k \in LeafKinds
  /\ \E r \in {Read(m.type)} :
        LET leaf == [val |-> r.val, from |-> m.pos, to |-> r.pos]
        IN  m' = IF r.status = "ok"
                 THEN [m EXCEPT !.doing = "got", !.got = leaf, !.pos = r.pos,
                                !.leaves = Append(@, leaf)]
                 ELSE Stopped(r.status, r.reach)
  /\ Keep

(***************************************************************************)
(* Fields of a unit.                                                       *)
(***************************************************************************)
AtField ==
  m.doing = "field" /\ Top.k = "unit" /\ Top.i <= Len(spec[Top.unit])

Present == Item.cond => Holds(Item.when)

Skip ==
  /\ AtField /\ Item.cond /\ Says(Item.when).ok /\ ~Present
  /\ m' = [m EXCEPT !.stack = Append(Rest_, [Top EXCEPT !.i = @ + 1])]
  /\ Keep

ConditionFails ==
  /\ AtField /\ Item.cond /\ ~Says(Item.when).ok
  /\ m' = Stopped("undecodable", None)
  /\ Keep

Field ==
  /\ AtField /\ Present /\ ~IsRepeated(Item)
  /\ m' = [m EXCEPT !.stack = Append(Rest_, [Top EXCEPT !.empty = m.pos >= m.size]),
                    !.doing = "value", !.type = Item.type]
  /\ Keep

(* The unit has decoded the field it was at.                               *)
Took ==
  /\ m.doing = "got" /\ Top.k = "unit"
  /\ m' = [m EXCEPT !.stack = Append(Rest_, [Top EXCEPT !.i = @ + 1,
                                   !.named = Bound(@, Item.name, m.got.val)]),
                    !.doing = "field"]
  /\ Keep

(***************************************************************************)
(* Repetitions.                                                            *)
(***************************************************************************)
Wanted ==
  CASE Item.repeat = "counted" -> Says(Item.times)
    [] Item.repeat \in DOMAIN Literal -> Int_(Literal[Item.repeat])
    [] OTHER -> Int_(None)

Repetition ==
  /\ AtField /\ Present /\ IsRepeated(Item)
  /\ m' = IF Wanted.ok /\ (Item.repeat = "counted" => Wanted.n >= 0)
          THEN [m EXCEPT !.stack = Rest_ \o
                            <<[Top EXCEPT !.empty = m.pos >= m.size],
                              RepeatFrame(Wanted.n, m.pos)>>]
          ELSE Stopped("undecodable", None)
  /\ Keep

Ended ==
  \/ Top.last
  \/ Top.wanted # None /\ Len(Top.items) >= Top.wanted
  \/ Item.repeat = "to_end" /\ m.pos >= m.size

Element ==
  /\ m.doing = "field" /\ Top.k = "repeat" /\ ~Ended
  /\ m' = [m EXCEPT !.stack = Append(Rest_, [Top EXCEPT !.before = m.pos,
                                                        !.empty = m.pos >= m.size]),
                    !.doing = "value", !.type = Item.type]
  /\ Keep

RepetitionEnds ==
  /\ m.doing = "field" /\ Top.k = "repeat" /\ Ended
  /\ m' = [m EXCEPT !.stack = Rest_, !.doing = "got",
                    !.got = [val |-> <<"list", Top.items>>, from |-> Top.start,
                             to |-> m.pos]]
  /\ Keep

(* A mutant: only what runs to the end is looked at.                       *)
SpinsToEnd == Item.repeat = "to_end" /\ m.pos = Top.before

(* The interpreter looks at every element; a generated loop is given the   *)
(* check only where the plan could not show that an element reads.         *)
Spins == m.pos = Top.before

GenSpins == m.pos = Top.before /\ ~element_consumes(spec, Item)

Alias(name, alias) == IF alias = "" THEN name ELSE alias

(* The scope an element is tested in, under its alias or its field's name. *)
ElementScope ==
  Bound(Scope.named, Alias(Item.name, Item.alias), m.got.val)

UntilHolds ==
  Evaluate([Here EXCEPT ![Len(Here)] = ElementScope], Item.times)

TookElement ==
  /\ m.doing = "got" /\ Top.k = "repeat"
  /\ LET grown == [Top EXCEPT !.items = Append(@, m.got)]
         kept  == [m EXCEPT !.stack = Append(Rest_, grown), !.doing = "field"]
     IN  m' = IF IF Gen THEN GenSpins ELSE Spins
              THEN [kept EXCEPT !.doing = "stop", !.status = "undecodable"]
              ELSE IF Item.repeat # "until" THEN kept
              ELSE IF ~UntilHolds.ok
              THEN [kept EXCEPT !.doing = "stop", !.status = "undecodable"]
              ELSE [kept EXCEPT
                      !.stack[Len(m.stack)].last = UntilHolds.n = 1,
                      !.stack[ScopeAt].named = IF Gen THEN @ ELSE ElementScope]
  /\ Keep

(***************************************************************************)
(* Switches.  A generated one is flat: a nested switch's cases stand among *)
(* the outer one's, each under the outer case.                             *)
(***************************************************************************)
Chosen(t) ==
  LET hits == {j \in DOMAIN t.cases : t.cases[j] = Says(t.e).n}
  IN  IF hits # {} THEN <<t.of[First(hits)]>>
      ELSE IF t.default THEN <<Last(t.of)>> ELSE <<>>

RECURSIVE Branches(_)
Branches(t) ==
  IF ~IsSwitch(t) THEN <<t>>
  ELSE FlattenSeq([j \in DOMAIN t.of |-> Branches(t.of[j])])

Redirected(t) ==
  Gen /\ \A j \in DOMAIN Branches(t) : Branches(t)[j].k = "pointer"

GenChosen(t) ==
  LET under == Chosen(t)
  IN  IF under = <<>> THEN <<>> ELSE <<Branches(under[1])[1]>>

Switch ==
  /\ m.doing = "value" /\ IsSwitch(m.type) /\ ~Redirected(m.type)
  /\ LET chosen == IF Gen THEN GenChosen(m.type) ELSE Chosen(m.type)
     IN  m' = IF Says(m.type.e).ok /\ chosen # <<>>
              THEN [m EXCEPT !.type = chosen[1]]
              ELSE Stopped("undecodable", None)
  /\ Keep

(* A field all of whose alternatives are pointers is generated as the      *)
(* first of them.                                                          *)
GenRedirect ==
  /\ m.doing = "value" /\ IsSwitch(m.type) /\ Redirected(m.type)
  /\ m' = [m EXCEPT !.type = Branches(@)[1]]
  /\ Keep

(***************************************************************************)
(* Nested units and their guards.                                          *)
(***************************************************************************)
Depth == Cardinality({j \in DOMAIN m.stack : m.stack[j].k = "unit"})

TooDeep == Depth > MaxDepth

(* A mutant: one level short.                                              *)
GenTooDeepEarly == plan.recursive /\ Depth >= MaxDepth

GenTooDeep == plan.recursive /\ Depth > MaxDepth

Nested ==
  /\ m.doing = "value" /\ m.type.k = "unit"
  /\ m' = IF IF Gen THEN GenTooDeep ELSE TooDeep
          THEN Stopped("undecodable", None)
          ELSE [m EXCEPT !.stack = Append(@, UnitFrame(m.type.unit, m.pos)),
                         !.doing = "field"]
  /\ Keep

Guarded ==
  /\ m.doing = "field" /\ Top.k = "unit" /\ Top.i > Len(spec[Top.unit])
  /\ m' = IF Holds(Specifications[which].confirm[Top.unit])
          THEN [m EXCEPT !.stack = Rest_,
                         !.doing = IF Rest_ = <<>> THEN "over" ELSE "got",
                         !.got = [val |-> <<"unit", Top.named>>, from |-> Top.from,
                                  to |-> m.pos]]
          ELSE Stopped("undecodable", None)
  /\ Keep

(***************************************************************************)
(* Pointers.  A target lies before the position, and a pointer met on the  *)
(* way to one before that target.                                          *)
(***************************************************************************)
(* Mutants: any byte of the run, and any byte read so far.                 *)
CeilingOfTheRun == m.size
CeilingOfTheMessage == m.pos

Ceiling == IF m.limit = None THEN m.pos ELSE Min({m.pos, m.limit})

GenCeiling == IF m.limit = None THEN m.pos ELSE m.limit

(* A pointer that is another one's target is planned as that one, at the   *)
(* place the outer one names.                                              *)
Landing(t) == t.of[1]

RECURSIVE GenLanding(_)
GenLanding(t) == IF t.of[1].k = "pointer" THEN GenLanding(t.of[1]) ELSE t.of[1]

Reaches(at, ceiling) == at.ok /\ at.n >= 0 /\ at.n < ceiling /\ m.hops < MaxHops

Pointer ==
  /\ m.doing = "value" /\ m.type.k = "pointer"
  /\ LET at      == Says(m.type.e)
         ceiling == IF Gen THEN GenCeiling ELSE Ceiling
     IN  m' = IF Reaches(at, ceiling)
              THEN [m EXCEPT !.stack = Append(@, PointerFrame), !.pos = at.n,
                             !.size = ceiling, !.limit = at.n, !.hops = @ + 1,
                             !.type = IF Gen THEN GenLanding(@) ELSE Landing(@)]
              ELSE Stopped("undecodable", None)
  /\ Keep

(* Mutants: the size stays lowered, or the position where the target ended. *)
BackInTheTarget ==
  [m EXCEPT !.stack = Rest_, !.pos = Top.pos, !.limit = Top.limit, !.hops = Top.hops]

Back ==
  [m EXCEPT !.stack = Rest_, !.pos = Top.pos, !.size = Top.size,
            !.limit = Top.limit, !.hops = Top.hops]

TookTarget ==
  /\ m.doing = "got" /\ Top.k = "pointer"
  /\ m' = Back
  /\ Keep

(***************************************************************************)
(* Selects: the first element that matches, or the default.                *)
(***************************************************************************)
Matching(t, elements, name) ==
  LET In(j)    == [Here EXCEPT ![Len(Here)] = Bound(@, name, elements[j].val)]
      Tests(j) == Evaluate(In(j), t.where)
      hits     == {j \in DOMAIN elements : ~Tests(j).ok \/ Tests(j).n = 1}
  IN  IF hits = {} THEN <<>>
      ELSE LET j == First(hits)
           IN  <<[found |-> Tests(j), says |-> Evaluate(In(j), t.value),
                  from |-> elements[j].from, to |-> elements[j].to]>>

(* Afterwards the element's name is gone and the repetition is back.       *)
Restored(t) ==
  LET out == Without(Scope.named, Alias(t.source, t.alias))
  IN  IF t.source \in DOMAIN Scope.named
      THEN Bound(out, t.source, Scope.named[t.source]) ELSE out

Selected(t, named) ==
  LET container == Member(Scope.named, t.source)
      elements  == IF container[1] = "list" THEN container[2] ELSE <<>>
      match     == Matching(t, elements, Alias(t.source, t.alias))
      default   == Evaluate([Here EXCEPT ![Len(Here)] = named], t.otherwise)
  IN  IF match = <<>> THEN [says |-> default, from |-> m.pos, to |-> m.pos]
      ELSE [says |-> IF match[1].found.ok THEN match[1].says ELSE Failing,
            from |-> match[1].from, to |-> match[1].to]

Projected(r, named) ==
  LET leaf == [val |-> <<"int", r.says.n>>, from |-> r.from, to |-> r.to]
  IN  [m EXCEPT !.doing = "got", !.got = leaf, !.leaves = Append(@, leaf),
                !.stack[ScopeAt].named = named]

Select ==
  /\ ~Gen /\ m.doing = "value" /\ m.type.k = "select"
  /\ \E r \in {Selected(m.type, Restored(m.type))} :
        m' = IF r.says.ok THEN Projected(r, Restored(m.type))
                          ELSE Stopped("undecodable", None)
  /\ Keep

(* The generated function is called with the repetition's list, which has  *)
(* no value where a condition left the repetition out.                     *)
GenSelect ==
  /\ Gen /\ m.doing = "value" /\ m.type.k = "select"
  /\ \E r \in {Selected(m.type, Scope.named)} :
        m' = IF m.type.source \notin DOMAIN Scope.named THEN Stopped("raised", None)
             ELSE IF r.says.ok THEN Projected(r, Scope.named)
             ELSE Stopped("undecodable", None)
  /\ Keep

(***************************************************************************)
(* A failure on its way out.  A short read that began with nothing left,   *)
(* of a field known to be starved, is the specification's; and one made    *)
(* through a pointer is no short input.                                    *)
(***************************************************************************)
Starved ==
  /\ Top.empty
  /\ IF Top.k = "unit" THEN At \in plan.starved
     ELSE At \in plan.elements /\ Top.before > Top.start

Short == m.status = "truncated"

Out ==
  /\ m.doing = "stop" /\ Top.k # "pointer"
  /\ m' = [m EXCEPT !.stack = Rest_,
                    !.status = IF Short /\ Starved THEN "undecodable" ELSE @,
                    !.doing = IF Rest_ = <<>> THEN "over" ELSE "stop"]
  /\ Keep

OutOfTarget ==
  /\ m.doing = "stop" /\ Top.k = "pointer"
  /\ m' = [Back EXCEPT !.status = IF Short THEN "undecodable" ELSE @]
  /\ Keep

(***************************************************************************)
(* The decodes, one after another.                                         *)
(***************************************************************************)
Result == [status |-> m.status, pos |-> m.pos, leaves |-> m.leaves,
           reach |-> IF Short THEN m.reach ELSE None]

(* The missing bytes and one more; or what the message consumed.           *)
Extended(byte) ==
  data \o [j \in 1 .. outcome.interpreted.reach + 1 - Len(data) |-> byte]

Alone == SubSeq(data, 1, outcome.interpreted.pos)

NowDecode(next, run) ==
  how' = next /\ bytes' = run /\ m' = Begin(run) /\ UNCHANGED outcome

Over ==
  /\ m.doing = "over"
  /\ outcome' = (how :> Result) @@ outcome
  /\ m' = [m EXCEPT !.doing = "idle"]
  /\ UNCHANGED <<which, plan, data, how, bytes>>

MissesBytes == Gen /\ outcome.interpreted.reach # None

LeavesBytes ==
  /\ Gen /\ outcome.interpreted.status = "ok"
  /\ outcome.interpreted.pos < Len(data)

Again ==
  /\ m.doing = "idle"
  /\ \/ how = "interpreted" /\ NowDecode("generated", data)
     \/ /\ MissesBytes
        /\ \E byte \in {Delimiter, Delimiter + 1} : NowDecode("extended", Extended(byte))
     \/ LeavesBytes /\ NowDecode("alone", Alone)
  /\ UNCHANGED <<which, plan, data>>

Finished ==
  /\ m.doing = "idle" /\ how # "interpreted" /\ ~MissesBytes /\ ~LeavesBytes
  /\ UNCHANGED vars

Init ==
  /\ which \in DOMAIN Specifications /\ plan = Plans[which]
  /\ data \in Inputs /\ bytes = data
  /\ how = "interpreted" /\ m = Begin(data) /\ outcome = <<>>

Step ==
  \/ Skip \/ ConditionFails \/ Field \/ Took
  \/ Repetition \/ Element \/ RepetitionEnds \/ TookElement
  \/ Switch \/ GenRedirect \/ Nested \/ Guarded \/ Pointer \/ TookTarget
  \/ Leaf \/ Select \/ GenSelect \/ Out \/ OutOfTarget

Next == Step \/ Over \/ Again \/ Finished

Spec == Init /\ [][Next]_vars

-----------------------------------------------------------------------------
(***************************************************************************)
(* Properties.                                                             *)
(***************************************************************************)
Made(h) == h \in DOMAIN outcome

TypeOK ==
  /\ m.doing \in {"field", "value", "got", "stop", "over", "idle"}
  /\ m.pos \in 0 .. m.size /\ m.size <= Len(bytes)
  /\ m.hops \in 0 .. MaxHops
  /\ m.status \in {"ok", "truncated", "undecodable", "raised"}
  /\ \A j \in DOMAIN m.leaves :
        0 <= m.leaves[j].from /\ m.leaves[j].from <= m.leaves[j].to
        /\ m.leaves[j].to <= Len(bytes)
  /\ DOMAIN outcome \subseteq {"interpreted", "generated", "extended", "alone"}

(* A generated module answers as the interpreter does: the same verdict at *)
(* the same byte, the same end of a message cut short, and the same values *)
(* read from the same bytes in the same order.                             *)
SameOutcome ==
  Made("interpreted") /\ Made("generated") =>
    outcome.generated = outcome.interpreted

(* Where a truncated message is said to end is where it ends: given the    *)
(* bytes that were missing it is truncated no more, and what decodes whole *)
(* stops exactly there.  The stage resumes at that byte after a gap.       *)
ReachIsTheEnd ==
  Made("extended") =>
    /\ outcome.extended.status # "truncated"
    /\ outcome.extended.status = "ok" =>
         outcome.extended.pos = outcome.interpreted.reach

(* What a message decodes to does not depend on the bytes after it.        *)
NeighboursDoNotMatter ==
  Made("alone") => outcome.alone = outcome.interpreted

(* However pointers lead to pointers, each looks at bytes before its own   *)
(* position and before the target it was met at.                           *)
PointersLookBack ==
  \A j \in DOMAIN m.stack : m.stack[j].k = "pointer" =>
    LET inner == {l \in DOMAIN m.stack : l > j /\ m.stack[l].k = "pointer"}
        pos   == IF inner = {} THEN m.pos ELSE m.stack[Min(inner)].pos
        size  == IF inner = {} THEN m.size ELSE m.stack[Min(inner)].size
    IN  /\ pos <= size /\ size <= m.stack[j].pos
        /\ m.stack[j].limit # None => size <= m.stack[j].limit

(* No repetition goes on without reading: every element but the last read  *)
(* something, so that a count off the wire is no more work than its bytes. *)
ElementsRead ==
  \A j \in DOMAIN m.stack : m.stack[j].k = "repeat" =>
    LET items == m.stack[j].items
    IN  \A l \in DOMAIN items : l < Len(items) => items[l].from < items[l].to

(* A decode is no more work than its bytes, its depth and its hops: its    *)
(* position stays in its window, pointers go back and repetitions forward. *)
WorkIsBounded == TypeOK /\ PointersLookBack /\ ElementsRead
=============================================================================
