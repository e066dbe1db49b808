--------------------------------- MODULE Nodes --------------------------------
(***************************************************************************)
(* The nodes of a decode tree, those of kober.node.  A node's path is the  *)
(* sequence of its ancestors' positions, where the code has their names.   *)
(***************************************************************************)
EXTENDS Sinks

(***************************************************************************)
(* A node of the decode tree.  kind says what it holds: a "leaf" that read *)
(* bytes, a "group" (a nested unit), "chunks" (a repetition of units of a  *)
(* size and its data), a "concat" of those data, or a "transform" of an    *)
(* earlier field.  source and args are the positions of the siblings a     *)
(* concat or a transform reads; typed says that a transform's output is a  *)
(* unit, whose fields are then the transform's kids.                       *)
(***************************************************************************)
Node(kind, from, to) ==
  [kind |-> kind, from |-> from, to |-> to, none |-> FALSE, status |-> "ok",
   refused |-> FALSE, failed |-> FALSE, typed |-> FALSE,
   source |-> 0, args |-> {}, kids |-> <<>>]

Width(node) == node.to - node.from

(* The data of each chunk a concat joins, with the path it was read at.    *)
Members(nodes, concat, path) ==
  LET repetition == nodes[concat.source].kids
  IN  [j \in DOMAIN repetition |->
         [node |-> repetition[j].kids[2], role |-> path \o <<concat.source, j, 2>>]]

(* The siblings some transform of the unit speaks for.                     *)
Taken(nodes) == {nodes[i].source : i \in {j \in DOMAIN nodes : nodes[j].kind = "transform"}}
=============================================================================
