------------------------------- MODULE EmitPlan -------------------------------
(***************************************************************************)
(* What the interpreter writes for one decoded tree at field granularity:  *)
(* kober.emit.plan, as a function of the tree.                             *)
(***************************************************************************)
EXTENDS Nodes

(***************************************************************************)
(* The walk.  acc holds the writes so far, records and regions apart, and  *)
(* cite is the range of the outermost transform the node is in the output  *)
(* of, or <<>> in the input.                                               *)
(***************************************************************************)
WithRecord(acc, node, role, cite) ==
  LET range == IF cite = <<>> THEN <<node.from, node.to>> ELSE cite
  IN  [acc EXCEPT !.records = Append(@, RecordOf(range[1], range[2], role))]

(* Nothing in an output can be named.                                      *)
WithRegion(acc, node, reason, cite) ==
  IF cite = <<>> THEN [acc EXCEPT !.regions = @ \o Naming(node, reason)] ELSE acc

(* A mutant: the members keep the records they wrote.                      *)
MembersTakenKept(acc, members, reason, cite) ==
  FoldLeft(LAMBDA a, m : WithRegion(a, m.node, reason, cite), acc, members)

MembersTaken(acc, members, reason, cite) ==
  LET roles == {members[j].role : j \in DOMAIN members}
      kept  == SelectSeq(acc.records, LAMBDA w : w.role \notin roles)
  IN  FoldLeft(LAMBDA a, m : WithRegion(a, m.node, reason, cite),
               [acc EXCEPT !.records = kept], members)

(* A transform that failed, or whose output is not wanted: its source is   *)
(* named instead, or the members its source joined.                        *)
SourceNamed(acc, nodes, transform, path, cite) ==
  LET source == nodes[transform.source]
      reason == IF transform.none THEN "skipped" ELSE "undecodable"
  IN  IF source.kind = "concat"
        THEN MembersTaken(acc, Members(nodes, source, path), reason, cite)
        ELSE WithRegion(acc, source, reason, cite)

(* A mutant: the regions of the arguments stay.                            *)
ArgumentsUnspoken(acc, nodes, transform) == acc

(* A transform that succeeded speaks for its argument fields: a region     *)
(* that skipped one of them is taken back.                                 *)
ArgumentsSpoken(acc, nodes, transform) ==
  LET spoken == {RegionOf(nodes[a].from, nodes[a].to, "skipped") : a \in transform.args}
  IN  [acc EXCEPT !.regions = SelectSeq(@, LAMBDA w : w \notin spoken)]

(* A mutant: what is read in an output of an output cites the outer output.*)
Innermost(cite, node) == <<node.from, node.to>>

(* What is read in an output cites what the outermost transform read.      *)
Outermost(cite, node) == IF cite = <<>> THEN <<node.from, node.to>> ELSE cite

RECURSIVE Walked(_, _, _, _)

Visited(acc, nodes, i, path, cite) ==
  LET node == nodes[i]
      here == Append(path, i)
  IN  CASE i \in Taken(nodes) -> acc
        [] i \notin Taken(nodes) /\ node.kind = "transform" ->
             IF node.none \/ node.failed
               THEN SourceNamed(acc, nodes, node, path, cite)
               ELSE LET spoken == ArgumentsSpoken(acc, nodes, node)
                        outer  == Outermost(cite, node)
                    IN  IF node.typed
                          THEN Walked(spoken, node.kids, here, outer)
                          ELSE WithRecord(spoken, node, here, outer)
        [] i \notin Taken(nodes) /\ node.refused -> WithRegion(acc, node, "undecodable", cite)
        [] i \notin Taken(nodes) /\ ~node.refused /\ node.kind \in {"group", "chunks"} ->
             Walked(acc, node.kids, here, cite)
        [] i \notin Taken(nodes) /\ node.kind \in {"leaf", "concat"} ->
             IF node.none
               THEN WithRegion(acc, node, "skipped", cite)
               ELSE IF node.status = "ok" THEN WithRecord(acc, node, here, cite) ELSE acc

Walked(acc, nodes, path, cite) ==
  FoldLeftDomain(LAMBDA a, i : Visited(a, nodes, i, path, cite), acc, nodes)

(***************************************************************************)
(* The bytes of the tree nothing spoke for are named from the innermost    *)
(* node that failed over them.  A failure stops every unit around it with  *)
(* its own status, and an output's failure stays in it, so that is the     *)
(* root's status; where nothing failed they are skipped.                   *)
(***************************************************************************)
HoleReason(tree) == IF tree.status = "ok" THEN "skipped" ELSE tree.status

Plan(tree) ==
  LET none  == [records |-> <<>>, regions |-> <<>>]
      walk  == IF tree.refused THEN none ELSE Walked(none, tree.kids, <<>>, <<>>)
      named == Named(walk.regions)
      holes == (tree.from .. (tree.to - 1)) \
                 (Cited(walk.records) \cup {n[1] : n \in named})
  IN  [records |-> walk.records, named |-> named \cup (holes \X {HoleReason(tree)})]
=============================================================================
