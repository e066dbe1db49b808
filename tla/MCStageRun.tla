----------------------------- MODULE MCStageRun -----------------------------
(***************************************************************************)
(* StageRun for TLC: documents of no parameter, of a key, and of a key and *)
(* a table; parameters that fit them or do not, with the table's entries   *)
(* put in two orders; modules from before EMIT, from before SPEC_DIGEST    *)
(* and INPUT, and of now.                                                  *)
(***************************************************************************)
EXTENDS StageRun

Declaring(params, entry, inner, sites, shape) ==
  [params |-> params, entry |-> entry, inner |-> inner, sites |-> sites, shape |-> shape]

Keyed == [key |-> "bytes", table |-> "map"]
Plain == [names \in {} |-> "int"]

MCDocuments ==
  {Declaring(Keyed, "inherited", "inherited", {"inherited"}, "either"),
   Declaring(Keyed, "field", "message", {"inherited", "message"}, "stream"),
   Declaring(Keyed, "message", "none", {}, "datagram"),
   Declaring([key |-> "int"], "inherited", "none", {"message"}, "either"),
   Declaring(Plain, "none", "field", {"inherited", "field"}, "datagram"),
   Declaring(Plain, "inherited", "inherited", {"none", "message"}, "stream")}

Scalar(type, v) == [type |-> type, data |-> << <<v>> >>]
Table(entries)  == [type |-> "map", data |-> entries]

MCSuppliable ==
  {Plain,
   [key |-> Scalar("int", 1)],
   [key |-> Scalar("bytes", 1), table |-> Table(<< <<1, 7>>, <<2, 8>> >>)],
   [key |-> Scalar("bytes", 1), table |-> Table(<< <<2, 8>>, <<1, 7>> >>)],
   [key |-> Scalar("bytes", 1), table |-> Table(<< <<1, 8>> >>)],
   [key |-> Scalar("bytes", 2), table |-> Table(<< <<1, 8>> >>)],
   [key |-> Scalar("int", 1), table |-> Table(<<>>)]}

MCVintages == {{"EMIT", "SPEC_DIGEST", "INPUT"}, {"EMIT"}, {}}
=============================================================================
