----------------------------- MODULE MCMessage -----------------------------
(***************************************************************************)
(* Message for TLC: an entry unit of a byte and two or three more fields,  *)
(* and a unit they may use.                                                *)
(***************************************************************************)
EXTENDS Message

E(op, path, n) == [op |-> op, path |-> path, n |-> n]
Lit(n)         == E("lit", <<"">>, n)
Ref(path)      == E("ref", path, 0)
A              == Ref(<<"a">>)
Yes            == Lit(1)

Type(k, n) == [k |-> k, n |-> n, unit |-> "", of |-> <<>>, default |-> FALSE,
               e |-> Lit(0), cases |-> <<>>, source |-> "", alias |-> "",
               where |-> Yes, value |-> Yes, otherwise |-> Yes]

Byte        == Type("int", 8)
U           == [Type("unit", 0) EXCEPT !.unit = "u"]
Counted(e)  == [Type("counted", 0) EXCEPT !.e = e]
Comp(e)     == [Type("computed", 0) EXCEPT !.e = e]
PointTo(t, e) == [Type("pointer", 0) EXCEPT !.of = <<t>>, !.e = e]
SwitchOn(e, cases, ts, default) ==
  [Type("switch", 0) EXCEPT !.e = e, !.cases = cases, !.of = ts, !.default = default]
SelectOf(source, alias, where, value) ==
  [Type("select", 0) EXCEPT !.source = source, !.alias = alias, !.where = where,
                            !.value = value, !.otherwise = E("minus", <<"a">>, 1)]

F(name, t) == [name |-> name, type |-> t, repeat |-> "none", cond |-> FALSE,
               when |-> Yes, times |-> Yes, alias |-> ""]
If(f, e)   == [f EXCEPT !.cond = TRUE, !.when = e]
Rep(f, how_, e) == [f EXCEPT !.repeat = how_, !.times = e]

(* The second field, x, by what the first held.                            *)
Xs ==
  <<F("x", Byte), If(F("x", Byte), E("is", <<"a">>, 1)), F("x", Type("fixed", 2)),
   F("x", Counted(E("minus", <<"a">>, 1))), F("x", Type("terminated", 0)),
   F("x", U), Rep(F("x", Byte), "counted", E("minus", <<"a">>, 1)),
   Rep(F("x", U), "counted", A), Rep(F("x", Byte), "until", E("is", <<"x">>, 0)),
   Rep(F("x", Comp(A)), "two", Yes),
   F("x", SwitchOn(A, <<0, 1>>, <<Byte, U, Type("fixed", 2)>>, TRUE))>>

(* The third, y, which may look back at both.                              *)
Ys ==
  <<F("y", Byte), F("y", Counted(E("over", <<"a">>, 2))), F("y", Type("remaining", 0)),
   F("y", Type("optional", 0)), F("y", Type("fill", 0)), F("y", U),
   If(F("y", U), E("is", <<"x">>, 1)), F("y", Comp(E("minus", <<"x", "b">>, 1))),
   F("y", PointTo(Byte, A)), F("y", PointTo(U, A)), F("y", PointTo(U, Ref(<<"x">>))),
   F("y", PointTo(Type("fixed", 2), A)),
   Rep(F("y", U), "to_end", Yes),
   [Rep(F("y", U), "until", E("is", <<"it", "b">>, 0)) EXCEPT !.alias = "it"],
   F("y", SwitchOn(A, <<1>>, <<Byte>>, FALSE)),
   F("y", SwitchOn(A, <<1>>, <<PointTo(Byte, A), PointTo(Byte, A)>>, TRUE)),
   F("y", SelectOf("x", "", E("is", <<"x">>, 1), Ref(<<"x">>))),
   F("y", SelectOf("x", "it", E("is", <<"it", "b">>, 1), Ref(<<"it", "b">>)))>>

(* What the unit u holds after its byte b.                                 *)
Us ==
  << <<>>,
   <<If(F("c", U), E("is", <<"b">>, 1))>>,
   <<F("c", PointTo(U, Ref(<<"b">>)))>>,
   <<F("c", Comp(E("minus", <<"parent", "a">>, 1)))>>,
   <<F("c", Counted(Ref(<<"b">>)))>>,
   <<Rep(F("c", Byte), "counted", Ref(<<"root", "a">>))>>>>

Guards == <<Yes, E("is", <<"b">>, 1)>>

Two(x, y, u, guard) ==
  [fields  |-> [m |-> <<F("a", Byte), x, y>>, u |-> <<F("b", Byte)>> \o u],
   confirm |-> [m |-> Yes, u |-> guard]]

(* What the checker's scopes ask of a reference: x is a number, a unit or  *)
(* a repetition where y takes it for one.                                  *)
Number(f) == f.type.k \in {"int", "computed"} /\ f.repeat = "none"
Unit_(f)  == f.type.k = "unit" /\ f.repeat = "none"
List(f)   == f.repeat # "none"

Fit(x, y) ==
  /\ y.type.k = "select" => List(x) /\ (y.type.alias = "it" <=> x.type.k = "unit")
  /\ <<"x">> \in {y.when.path, y.type.e.path} => Number(x)
  /\ <<"x", "b">> \in {y.when.path, y.type.e.path} => Unit_(x)

Choosing == (DOMAIN Xs) \X (DOMAIN Ys) \X (DOMAIN Us) \X (DOMAIN Guards)

At_(c) == Two(Xs[c[1]], Ys[c[2]], Us[c[3]], Guards[c[4]])

UsesUnit(s) == \E i \in 1 .. 3 : "u" \in Named(s.fields.m[i].type)

(* The bare unit stands for all of them where no field uses it.            *)
Worth(s) ==
  /\ Fit(s.fields.m[2], s.fields.m[3])
  /\ UsesUnit(s) \/ (Len(s.fields.u) = 1 /\ s.confirm.u = Yes)

MCSpecifications == [c \in {d \in Choosing : Worth(At_(d))} |-> At_(c)]

(* Every run of up to two bytes, most of three, and a few of four.         *)
MCInputs ==
  UNION {[1 .. n -> 0 .. 2] : n \in 0 .. 2}
    \cup {<<x, y, z>> : x \in 0 .. 2, y \in 0 .. 2, z \in 0 .. 1}
    \cup {<<2, 0, 1, 1>>, <<2, 1, 1, 0>>, <<1, 1, 1, 1>>}

(***************************************************************************)
(* Specifications the checker accepts and the two implementations decode   *)
(* differently, kept out of the ones above.                                *)
(***************************************************************************)
One_(x, y, u) == (0 :> Two(x, y, u, Yes))

(* A unit that may read nothing is taken to read something.                *)
MCEndlessRepeat ==
  0 :> [fields  |-> [m |-> <<F("a", Byte), Rep(F("x", U), "to_end", Yes)>>,
                     u |-> <<Rep(F("b", Byte), "counted", Ref(<<"root", "a">>))>>],
        confirm |-> [m |-> Yes, u |-> Yes]]

(* A pointer searches, or slices, the run past what has been decoded.      *)
MCPointerSearch ==
  One_(F("x", PointTo(Type("terminated", 0), Lit(0))), F("y", Byte), <<>>)

(* The cases of a switch are different pointers.                           *)
MCPointerSwitch ==
  One_(F("x", Byte),
       F("y", SwitchOn(Ref(<<"x">>), <<0>>, <<PointTo(Byte, Lit(0)),
                                            PointTo(Byte, Lit(1))>>, TRUE)), <<>>)

(* A switch in a switch's case.                                            *)
MCNestedSwitch ==
  One_(F("x", Byte),
       F("y", SwitchOn(A, <<1>>,
                <<SwitchOn(Ref(<<"x">>), <<0>>, <<Byte, Type("fixed", 2)>>, TRUE),
                  Byte>>, TRUE)), <<>>)

(* A pointer to a pointer.                                                 *)
MCPointerToPointer ==
  One_(F("x", Byte), F("y", PointTo(PointTo(Byte, Lit(1)), Lit(0))), <<>>)

(* A select from a repetition its condition may leave out.                 *)
MCAbsentSelect ==
  One_(If(Rep(F("x", Byte), "two", Yes), E("is", <<"a">>, 1)),
       F("y", SelectOf("x", "", E("is", <<"x">>, 1), Ref(<<"x">>))), <<>>)

(* A select whose alias is an earlier field's name.                        *)
MCAliasShadows ==
  0 :> [fields  |-> [m |-> <<F("a", Byte), Rep(F("x", Byte), "two", Yes),
                             F("y", SelectOf("x", "a", E("is", <<"a">>, 1), Ref(<<"a">>))),
                             F("z", Comp(A))>>,
                     u |-> <<>>],
        confirm |-> [m |-> Yes, u |-> Yes]]
=============================================================================
