--------------------------- MODULE MCExpressions ---------------------------
EXTENDS Expressions

N(k) == IntLiteral(k)
S(text) == StrLiteral(text)
R(name) == Ref(<<name>>)

Binaries == {"+", "-", "*", "/", "%", "<<", ">>", "&", "|"}

(* Two operators in both groupings, a unary one around and inside each.    *)
Grouped ==
  {BinOp(f, BinOp(g, R("a"), N(2)), R("n")) : f, g \in Binaries}
    \cup {BinOp(f, R("a"), BinOp(g, N(3), R("n"))) : f, g \in {"-", "/", "<<", "^"}}
    \cup {UnaryOp("-", BinOp(f, R("a"), N(2))) : f \in Binaries}
    \cup {BinOp(f, UnaryOp("~", R("a")), N(3)) : f \in Binaries}
    \cup {BinOp("<<", R("a"), N(k)) : k \in {0, MaxShift, MaxShift + 1}}

Is(op, k) == Compare(op, R("a"), N(k))
Flag      == R("flag")

Logical ==
  {BoolOp(op, <<Is(f, 0), Is(g, 3)>>) : op \in {"and", "or"}, f, g \in {"==", "!="}}
    \cup {UnaryOp("not", BoolOp(op, <<Is(f, 0), Is(f, 3)>>)) : op \in {"and", "or"}, f \in {"==", "!="}}
    \cup {Compare("==", UnaryOp("not", BoolOp("or", <<Is("==", 0), Is("==", 3)>>)), Flag),
          Compare("==", Is("<", 2), Flag),
          Compare("!=", Flag, Compare("==", R("n"), N(2))),
          BoolOp("and", <<Flag, BoolOp("or", <<Flag, Is(">", 0)>>)>>),
          BoolOp("or", <<Flag, BoolOp("or", <<Is("==", 0), Is("==", 3)>>)>>),
          BoolOp("and", <<Compare("!=", R("a"), N(0)), Compare(">", BinOp("/", N(3), R("a")), N(1))>>),
          BoolOp("or", <<Is("==", 0), Compare("==", R("n"), N(3))>>),
          BoolOp("or", <<Compare("==", BinOp("|", R("a"), N(1)), N(3)),
                         Compare("==", BinOp("|", R("a"), N(1)), N(0))>>),
          UnaryOp("not", UnaryOp("not", Flag)),
          Compare("==", BinOp("&", R("a"), N(1)), N(0)),
          BoolOp("or", <<Compare("==", R("s"), S(<<1, 2>>)), Compare("==", R("s"), S(<<>>))>>)}

Called ==
  {Call("to_int", <<R("s")>>),
   Call("to_int", <<Call("trim", <<R("s")>>), N(16)>>),
   Call("to_int", <<R("s"), R("a")>>),
   Compare("==", Call("before", <<R("s"), S(<<2>>)>>), S(<<1>>)),
   BoolOp("and", <<Call("startswith", <<R("s"), S(<<1>>)>>),
                   Compare(">", Call("to_int", <<R("s")>>), N(0))>>),
   BinOp("-", Call("len", <<R("d")>>), Index("m", BinOp("+", R("a"), N(1)))),
   Index("m", R("n")),
   BinOp("%", Index("m", R("a")), R("a")),
   Compare("==", Call("lower", <<R("s")>>), S(<<1, 10>>)),
   Call("to_int", <<Call("lower", <<R("s")>>), N(16)>>),
   BoolOp("or", <<Call("endswith", <<R("s"), S(<<110>>)>>),
                  Call("endswith", <<Call("trim", <<R("s")>>), S(<<2>>)>>)>>)}

Names(words, names) == {Ref(word \o name) : word \in words, name \in names}

(* What may be named where: every kind of field, its own and another       *)
(* unit's, and what is not there yet.                                      *)
NamedHere ==
  Names({<<>>, <<"this">>, <<"root">>},
        {<<"a">>, <<"n">>, <<"c">>, <<"w">>, <<"o">>, <<"h">>, <<"p">>, <<"x">>, <<"z">>,
         <<"u">>, <<"u", "b">>, <<"u", "q">>, <<"o", "b">>, <<"o", "q">>, <<"flag">>})
    \cup {R("d"), R("s"), R("r"), R("none"), Ref(<<"this">>), Ref(<<"parent", "a">>),
          Ref(<<"u", "b", "b">>), Ref(<<"w", "b">>), Ref(<<"a", "b">>), Ref(<<"flag", "b">>),
          BinOp("-", Ref(<<"o", "q">>), Ref(<<"u", "q">>)), Call("len", <<R("w")>>)}

NamedEach ==
  Names({<<>>, <<"this">>}, {<<"r">>, <<"it">>, <<"p">>})
    \cup {Ref(<<"root", "it">>), Ref(<<"it", "b">>), BinOp("+", R("it"), R("n")),
          BinOp("+", R("r"), R("a"))}

NamedOutside ==
  Names({<<"parent">>, <<"root">>},
        {<<"k">>, <<"v", "b">>, <<"v", "q">>, <<"v">>, <<"c">>, <<"l">>, <<"flag">>, <<"none">>})
    \cup {BinOp("*", Ref(<<"parent", "v", "q">>), BinOp("+", Ref(<<"root", "v", "b">>), R("a"))),
          Compare("<", Ref(<<"parent", "k">>), Ref(<<"root", "k">>))}

NamedInside ==
  Names({<<"parent">>, <<"root">>}, {<<"a">>, <<"n">>, <<"d">>, <<"u">>, <<"c">>, <<"flag">>})
    \cup {R("b"), R("q"), R("y"), R("a"), BinOp("+", R("q"), Ref(<<"parent", "n">>))}

Confused ==
  {Compare("<", R("s"), N(1)), Compare("==", R("s"), N(1)), BinOp("+", R("a"), Flag),
   UnaryOp("not", R("a")), Call("len", <<R("s")>>), BoolOp("or", <<Flag, R("a")>>)}

Of(name, kind)       == Field(name, kind, "", FALSE, FALSE)
Under(name, kind)    == Field(name, kind, "", FALSE, TRUE)
Nested(name, unit)   == Field(name, "unit", unit, FALSE, FALSE)

UnitT ==
  [name |-> "t", fields |->
     <<Of("a", "int"), Under("n", "int"), Of("s", "str"), Of("d", "bytes"), Nested("u", "u"),
       Field("r", "int", "", TRUE, FALSE),
       Field("c", "computed", Call("len", <<R("d")>>), FALSE, FALSE), Of("h", "switch"),
       Field("o", "output", "u", FALSE, TRUE), Of("w", "raw"),
       Field("p", "select", [source |-> "r", alias |-> "it", value |-> R("it")], FALSE, FALSE),
       Of("x", "int"), Of("z", "int")>>]

UnitU == [name |-> "u", fields |-> <<Of("b", "int"), Under("q", "int"), Of("y", "int")>>]

UnitE(calls) ==
  [name |-> "e", fields |->
     <<Under("k", "int"), Nested("v", "u"), Of("c", "int")>> \o calls \o <<Of("l", "int")>>]

UnitG ==
  [name |-> "g", fields |-> <<Of("k", "int"), Nested("v", "u"), Of("c", "str"), Nested("t", "t")>>]

Place(units, unit, at, of, el) ==
  [units |-> units, entry |-> units[1].name, unit |-> unit, at |-> at, of |-> of, el |-> el]

(* The unit t is the entry, with the expression at x, or its select at p   *)
(* with and without an alias; or it stands in u, which t decodes; or t is  *)
(* decoded by the entry e, or by e and by g.                               *)
MCPlaces ==
  [alone  |-> Place(<<UnitT, UnitU>>, "t", 12, "", ""),
   each   |-> Place(<<UnitT, UnitU>>, "t", 11, "r", "r"),
   alias  |-> Place(<<UnitT, UnitU>>, "t", 11, "r", "it"),
   inside |-> Place(<<UnitT, UnitU>>, "u", 3, "", ""),
   called |-> Place(<<UnitE(<<Nested("t", "t")>>), UnitT, UnitU>>, "t", 12, "", ""),
   twice  |-> Place(<<UnitE(<<Nested("t", "t"), Nested("g", "g")>>), UnitG, UnitT, UnitU>>,
                    "t", 12, "", "")]

MCCases ==
  ((Grouped \cup Logical \cup Called \cup NamedHere \cup Confused) \X {"alone"})
    \cup (NamedEach \X {"each", "alias"})
    \cup (NamedInside \X {"inside"})
    \cup (NamedOutside \X {"called", "twice"})

UnitV(frame) == Val("unit", frame)
FrameU       == [b |-> IntV(5), q |-> Absent]

Scope(this, parent, root) ==
  [this |-> UnitV(this), parent |-> parent, root |-> UnitV(root), element |-> IntV(1)]

FrameT ==
  [a |-> IntV(0), n |-> Absent, s |-> Val("str", <<1, 2>>), d |-> Val("bytes", 2), u |-> UnitV("u"),
   r |-> Val("list", 0), c |-> IntV(2), h |-> UnitV("u"), o |-> UnitV("o"), w |-> Val("bytes", 1),
   p |-> IntV(1)]

Frames(scope) ==
  [doc |-> [flag |-> BoolV(FALSE), m |-> Val("map", 1 :> 7)], scope |-> scope, t |-> FrameT,
   u |-> FrameU, o |-> FrameU,
   e |-> [k |-> IntV(3), v |-> UnitV("ev"), c |-> IntV(4)], ev |-> FrameU,
   g |-> [k |-> IntV(6), v |-> UnitV("gv"), c |-> Val("str", <<1>>)], gv |-> FrameU]

(* Decoding the first unit u of t, what follows it is not there.           *)
MCFirst ==
  [place \in DOMAIN MCPlaces |->
     CASE place \in {"called", "twice"} -> Frames(Scope("t", UnitV("e"), "e"))
       [] place = "inside" ->
            [Frames(Scope("u", UnitV("t"), "t")) EXCEPT
               !.t = [name \in DOMAIN FrameT |->
                        IF name \in {"a", "n", "s", "d"} THEN FrameT[name] ELSE Absent]]
       [] place = "each"  -> [Frames(Scope("t", Absent, "t")) EXCEPT !.t.p = Absent]
       [] place = "alias" -> [Frames(Scope("t", Absent, "t")) EXCEPT !.t.p = Absent]
       [] OTHER           -> Frames(Scope("t", Absent, "t"))]

Slot(frame, name, values) == (<<frame, name>> :> values)

Everywhere ==
  Slot("t", "a", {IntV(k) : k \in {0, 3, MaxShift + 1}}) @@ Slot("t", "n", {Absent, IntV(2)})
    @@ Slot("doc", "flag", {BoolV(b) : b \in BOOLEAN})

Wanting ==
  [place \in DOMAIN MCPlaces |->
     CASE place = "alone" ->
            Slot("t", "s", {Val("str", text) : text \in {<<>>, <<1, 2>>, <<42, 40, 15>>, <<1, 110>>}})
              @@ Slot("u", "b", {IntV(0)}) @@ Slot("u", "q", {Absent, IntV(2)})
              @@ Slot("o", "q", {Absent, IntV(2)})
              @@ Slot("t", "o", {Absent, UnitV("o"), Val("failed", 0)})
              @@ Slot("t", "w", {Val("bytes", 1), Val("failed", 0)})
              @@ Slot("doc", "m", {Val("map", m) : m \in {1 :> 7, 2 :> 0 @@ 4 :> 1}})
       [] place \in {"each", "alias"} -> Slot("scope", "element", {IntV(0), IntV(1)})
       [] place = "inside" -> Slot("u", "q", {Absent, IntV(2)}) @@ Slot("u", "b", {IntV(0)})
       [] OTHER ->
            Slot("e", "k", {Absent, IntV(0)}) @@ Slot("ev", "q", {Absent, IntV(2)})
              @@ Slot("gv", "q", {Absent, IntV(8)}) @@ Slot("gv", "b", {IntV(1)})
              @@ (IF place = "twice" THEN Slot("scope", "parent", {UnitV("e"), UnitV("g")})
                  ELSE Slot("e", "c", {IntV(0)}))]

MCHolds == [place \in DOMAIN MCPlaces |-> Everywhere @@ Wanting[place]]
=============================================================================
