--------------------------- MODULE MCSpecAnalyses ---------------------------
(***************************************************************************)
(* SpecAnalyses for TLC: two units that may name each other.               *)
(***************************************************************************)
EXTENDS SpecAnalyses

Type(k, n) == [k |-> k, n |-> n, unit |-> "", of |-> <<>>, default |-> FALSE]
UnitOf(u)  == [Type("unit", 0) EXCEPT !.unit = u]
Of(k, ts, default) == [Type(k, 0) EXCEPT !.of = ts, !.default = default]

Once(t)          == [type |-> t, repeat |-> "none", cond |-> FALSE]
Maybe(t)         == [type |-> t, repeat |-> "none", cond |-> TRUE]
Times_(t, times) == [type |-> t, repeat |-> times, cond |-> FALSE]

Byte == Type("int", 8)

MCFields ==
  {Once(Byte), Once(Type("remaining", 0)), Once(Type("fill", 0)),
   Once(Type("fixed", 2)), Maybe(Byte), Maybe(UnitOf("m")), Once(UnitOf("u")),
   Once(UnitOf("m")), Once(Of("pointer", <<UnitOf("u")>>, FALSE)),
   Once(Of("switch", <<Byte, UnitOf("u")>>, TRUE)),
   Times_(UnitOf("u"), "until"), Times_(Byte, "zero"), Times_(Byte, "two"),
   Times_(Byte, "counted"), 
   Once(Of("switch", <<Byte, Type("computed", 0)>>, TRUE)),
   Once(Of("transform", <<UnitOf("u")>>, FALSE))}

(* The same with a repetition that runs to the end.                        *)
MCEndFields ==
  {Once(Byte), Once(Type("remaining", 0)), Once(UnitOf("u")),
   Times_(Byte, "to_end"), Times_(UnitOf("u"), "to_end")}
=============================================================================
