------------------------------ MODULE UnitDecode ------------------------------
(***************************************************************************)
(* One message read by both implementations at once.  The interpreter      *)
(* (kober.decoder) grows a tree that EmitPlan turns into writes when it is *)
(* done; a generated module (kober.pygen) writes each field as it reads    *)
(* it, through the sinks of kober.runtime.  Both call the same units, so   *)
(* one stack of frames serves: a frame holds the nodes one has decoded and *)
(* the writes the other holds back.  Every unit here has a guard or a      *)
(* transform, which is when a generated unit holds its writes back.        *)
(***************************************************************************)
EXTENDS Nodes

CONSTANTS
  Extent,     (* bytes the message may read                                *)
  OutExtent,  (* bytes a transform's output may have                       *)
  MaxFields,  (* fields a message may have, those of its nested units too  *)
  MaxDepth,   (* how deep units nest                                       *)
  Widths,     (* how many bytes a field that reads its own may have        *)
  Kinds,      (* the kinds of field its units have                         *)
  Quirks      (* what few specifications' transforms do                    *)

ASSUME ExtentAssumption == Extent \in Nat /\ OutExtent \in Nat
ASSUME BoundsAssumption == MaxFields \in Nat /\ MaxDepth \in Nat \ {0}
ASSUME WidthsAssumption == Widths \subseteq 0 .. 1
ASSUME KindsAssumption ==
  Kinds \subseteq {"leaf", "const", "group", "chunks", "concat", "transform", "output"}
ASSUME QuirksAssumption ==
  /\ Quirks \subseteq {"shared_source", "chained_arguments", "skipped_in_range",
                       "skipped_const", "skipped_chain", "skipped_in_output",
                       "silent_output", "nested_argument"}
  /\ Cardinality(Quirks) <= 1

VARIABLES
  stack,   (* the units being decoded, the message's own first             *)
  stop,    (* why the innermost unit stops: "no" while it does not         *)
  read,    (* how many fields have been decoded                            *)
  tree,    (* the interpreter's tree, NoNode until it is whole             *)
  out      (* what the generated module has handed the step's sink         *)

vars == <<stack, stop, read, tree, out>>

(***************************************************************************)
(* Frames.  from is where the unit began; at is the position in its space, *)
(* which ends at extent; path is its nodes' path.  An output's frame keeps *)
(* the transform's node, without its kids, in head.                        *)
(***************************************************************************)
Frame(kind, from, extent, path, head) ==
  [kind |-> kind, from |-> from, at |-> from, extent |-> extent, path |-> path,
   head |-> head, nodes |-> <<>>, writes |-> <<>>]

NoNode == Node("none", 0, 0)

Top    == Last(stack)
Parent == stack[Len(stack) - 1]

Decoding == stack # <<>> /\ stop = "no"

(* The path of the field a frame decodes next.                             *)
NextPath(frame) == Append(frame.path, Len(frame.nodes) + 1)

(* Whether a unit is somewhere in a transform's output.                    *)
InOutput == \E k \in DOMAIN stack : stack[k].kind = "output"

(* A mutant: a field's bytes are read again by the next.                   *)
TookNowhere(frame, node, at, writes) ==
  [frame EXCEPT !.nodes = Append(@, node), !.writes = writes]

(* The innermost unit has decoded a field that ends at at.                 *)
Took(frame, node, at, writes) ==
  [frame EXCEPT !.nodes = Append(@, node), !.at = at, !.writes = writes]

Into(frame) == stack' = Append(Front(stack), frame)

(* The innermost unit is left, and the one around it has taken its node.   *)
BackInto(frame) == stack' = Append(Front(Front(stack)), frame)

(***************************************************************************)
(* Leaves.  What a field says of its bytes: account() in the generated     *)
(* unit, after its constant has been compared.                             *)
(***************************************************************************)
Accounted(node, role) ==
  IF node.status # "ok"
    THEN Naming(node, "undecodable")
    ELSE IF node.none
      THEN Naming(node, "skipped")
      ELSE <<RecordOf(node.from, node.to, role)>>

Leaf(from, width, none) == [Node("leaf", from, from + width) EXCEPT !.none = none]

ReadLeaf ==
  \E width \in Widths, none \in BOOLEAN :
    LET node == Leaf(Top.at, width, none)
    IN  /\ "leaf" \in Kinds
        /\ node.to <= Top.extent
        /\ Into(Took(Top, node, node.to, Top.writes \o Accounted(node, NextPath(Top))))
        /\ UNCHANGED stop

(* A constant that is not what was read: the unit stops after the field.   *)
ReadWrongConst ==
  \E none \in BOOLEAN :
    LET node == [Leaf(Top.at, 1, none) EXCEPT !.status = "undecodable"]
    IN  /\ "const" \in Kinds
        /\ none => "skipped_const" \in Quirks
        /\ node.to <= Top.extent
        /\ Into(Took(Top, node, node.to, Top.writes \o Accounted(node, NextPath(Top))))
        /\ stop' = "undecodable"

(* A field that does not fit in what is left reads nothing.                *)
ReadTruncated ==
  LET node == [Leaf(Top.at, 0, FALSE) EXCEPT !.status = "truncated"]
  IN  /\ Into(Took(Top, node, Top.at, Top.writes))
      /\ stop' = "truncated"

(***************************************************************************)
(* Chunks: a repetition of units of a one-byte size and its data, and the  *)
(* concat of those data, which reads nothing where it stands and cites the *)
(* hull of the data that are not empty.                                    *)
(***************************************************************************)
Chunk(from, width, none) ==
  [Node("group", from, from + 1 + width) EXCEPT
     !.kids = <<Leaf(from, 1, none), Leaf(from + 1, width, FALSE)>>]

Chunks(from, widths, none) ==
  LET starts == [j \in DOMAIN widths |-> from + (IF j = 1 THEN 0 ELSE 1 + widths[1])]
      kids   == [j \in DOMAIN widths |-> Chunk(starts[j], widths[j], none)]
  IN  [Node("chunks", from, IF kids = <<>> THEN from ELSE Last(kids).to) EXCEPT !.kids = kids]

ChunkWrites(chunk, role) ==
  Accounted(chunk.kids[1], Append(role, 1)) \o Accounted(chunk.kids[2], Append(role, 2))

ChunksWrites(chunks, role) ==
  LET says[j \in 0 .. Len(chunks.kids)] ==
        IF j = 0 THEN <<>>
        ELSE says[j - 1] \o ChunkWrites(chunks.kids[j], Append(role, j))
  IN  says[Len(chunks.kids)]

ReadChunks ==
  \E widths \in {<<>>} \cup {<<w>> : w \in 0 .. 1} \cup {<<w, v>> : w, v \in 0 .. 1},
     none \in BOOLEAN :
    LET node == Chunks(Top.at, widths, none)
    IN  /\ "chunks" \in Kinds
        /\ node.to <= Top.extent
        /\ Into(Took(Top, node, node.to, Top.writes \o ChunksWrites(node, NextPath(Top))))
        /\ UNCHANGED stop

(* The range a node that reads nothing itself cites: from the first to the *)
(* last of the nodes it read, those of no width left out.                  *)
Hull(nodes, at) ==
  LET spans == {n \in nodes : Width(n) > 0}
  IN  IF spans = {}
        THEN <<at, at>>
        ELSE <<Min({n.from : n \in spans}), Max({n.to : n \in spans})>>

ReadConcat ==
  \E i \in DOMAIN Top.nodes, none \in BOOLEAN :
    LET data == {Top.nodes[i].kids[j].kids[2] : j \in DOMAIN Top.nodes[i].kids}
        hull == Hull(data, Top.at)
        node == [Node("concat", hull[1], hull[2]) EXCEPT !.source = i, !.none = none]
        skips == \E j \in DOMAIN Top.nodes[i].kids : Top.nodes[i].kids[j].kids[1].none
    IN  /\ "concat" \in Kinds
        /\ Top.nodes[i].kind = "chunks"
        /\ none \/ skips => "skipped_in_range" \in Quirks
        /\ (\E j \in DOMAIN Top.nodes : Top.nodes[j].kind = "concat" /\ Top.nodes[j].source = i)
             => "shared_source" \in Quirks
        /\ Into(Took(Top, node, Top.at, Top.writes \o Accounted(node, NextPath(Top))))
        /\ UNCHANGED stop

(***************************************************************************)
(* Transforms of fields already decoded.                                   *)
(***************************************************************************)
TransformsOf(frame) == {n \in ToSet(frame.nodes) : n.kind = "transform"}

(* What a transform may read: bytes decoded where they stand, what a       *)
(* concat joined, or another transform's output kept as bytes.             *)
Source(node) ==
  /\ node.kind \in {"leaf", "concat", "transform"}
  /\ ~node.typed
  /\ ~node.none

Argument(node) ==
  \/ node.kind = "leaf"
  \/ node.kind = "group" /\ "nested_argument" \in Quirks

(* Two transforms of which one takes over what the other reads.            *)
Shares(frame, node) ==
  \E t \in TransformsOf(frame) :
    \/ t.source \in {node.source} \cup node.args
    \/ node.source \in {t.source} \cup t.args

(* A transform of an output that itself stands for more than one field.    *)
ChainsArguments(frame, node) ==
  LET source == frame.nodes[node.source]
  IN  source.kind = "transform" /\
        (source.args # {} \/ frame.nodes[source.source].kind = "concat")

(* A transform of an output, decoded for control flow only.                *)
SkipsChain(frame, node) == node.none /\ frame.nodes[node.source].kind = "transform"

(* Bytes of a field it does not read lie between those it does.            *)
Spans(frame, node) ==
  \E n \in ToSet(frame.nodes) :
    /\ n.kind \in {"leaf", "group", "chunks"}
    /\ Bytes(n) \cap Bytes(node) # {}
    /\ \A i \in {node.source} \cup node.args : Bytes(n) \cap Bytes(frame.nodes[i]) = {}

(* In an output, an argument read at the offsets of a field of the input   *)
(* that was skipped there.                                                 *)
Collides(frame, node) ==
  /\ InOutput
  /\ \E a \in node.args, k \in DOMAIN stack :
       /\ \A j \in 1 .. k : stack[j].kind # "output"
       /\ RegionOf(frame.nodes[a].from, frame.nodes[a].to, "skipped") \in ToSet(stack[k].writes)

(* A transform of the field at i with some arguments, with no outcome yet. *)
NextTransform(frame, i, args, none) ==
  LET hull == Hull({frame.nodes[n] : n \in {i} \cup args}, frame.at)
  IN  [Node("transform", hull[1], hull[2]) EXCEPT !.source = i, !.args = args, !.none = none]

(* The transforms a message may have next.                                 *)
Transforms(frame) ==
  {t \in {NextTransform(frame, i, args, none) :
            i \in {j \in DOMAIN frame.nodes : Source(frame.nodes[j])},
            args \in SUBSET {j \in DOMAIN frame.nodes : Argument(frame.nodes[j])},
            none \in BOOLEAN} :
     /\ t.source \notin t.args
     /\ Shares(frame, t) => "shared_source" \in Quirks
     /\ ChainsArguments(frame, t) => "chained_arguments" \in Quirks
     /\ SkipsChain(frame, t) => "skipped_chain" \in Quirks
     /\ Spans(frame, t) => "skipped_in_range" \in Quirks
     /\ Collides(frame, t) => "skipped_in_output" \in Quirks}

(* The range a generated module cites: an argument inside a nested unit is *)
(* not one of the ranges it knows.                                         *)
CompiledHull(frame, node) ==
  LET names == {node.source} \cup {a \in node.args : frame.nodes[a].kind # "group"}
  IN  Hull({frame.nodes[n] : n \in names}, frame.at)

(***************************************************************************)
(* take_over: the source's record is taken back; a transform that failed   *)
(* or is not wanted names the source, or the members its source joined,    *)
(* and one that succeeded takes back the regions of its arguments.         *)
(***************************************************************************)
MembersNamed(writes, members, reason) ==
  LET named[j \in 0 .. Len(members)] ==
        IF j = 0 THEN writes
        ELSE Retract(named[j - 1], members[j].role) \o Naming(members[j].node, reason)
  IN  named[Len(members)]

(* The regions of the siblings at some positions are taken back.           *)
Withdrawn(writes, nodes, positions) ==
  LET left[k \in 0 .. Len(nodes)] ==
        IF k = 0 THEN writes
        ELSE IF k \in positions THEN Withdraw(left[k - 1], nodes[k]) ELSE left[k - 1]
  IN  left[Len(nodes)]

(* A mutant: the source loses its record and nothing is named instead.     *)
TakenOverUnnamed(frame, node, writes) ==
  Retract(writes, Append(frame.path, node.source))

TakenOver(frame, node, writes) ==
  LET source == frame.nodes[node.source]
      own    == Retract(writes, Append(frame.path, node.source))
      reason == IF node.none THEN "skipped" ELSE "undecodable"
      spoken == {a \in node.args : frame.nodes[a].none}
  IN  IF node.none \/ node.failed
        THEN IF source.kind = "concat"
               THEN MembersNamed(own, Members(frame.nodes, source, frame.path), reason)
               ELSE own \o Naming(source, reason)
        ELSE Withdrawn(own, frame.nodes, spoken)

(* The frame once a transform has its outcome: released is what the output *)
(* wrote.                                                                  *)
Transformed(frame, node, released) ==
  Took(frame, node, frame.at, TakenOver(frame, node, frame.writes \o released))

(* A transform whose output stays bytes, or that failed before it had any. *)
ReadTransform ==
  \E t \in Transforms(Top), failed \in BOOLEAN :
    LET node  == [t EXCEPT !.failed = failed]
        hull  == CompiledHull(Top, t)
        taken == Transformed(Top, node, <<>>)
        whole == IF failed \/ t.none THEN <<>>
                 ELSE <<RecordOf(hull[1], hull[2], NextPath(Top))>>
    IN  /\ "transform" \in Kinds
        /\ Top.nodes[t.source].failed => failed
        /\ Into([taken EXCEPT !.writes = @ \o whole])
        /\ UNCHANGED stop

(***************************************************************************)
(* A transform whose output is a unit: its frame is a space of its own,    *)
(* and what is read there is released only when the whole output decoded.  *)
(***************************************************************************)
OpenOutput ==
  \E t \in Transforms(Top), extent \in 0 .. OutExtent :
    /\ "output" \in Kinds
    /\ Len(stack) < MaxDepth
    /\ ~Top.nodes[t.source].failed
    /\ stack' = Append(stack, Frame("output", 0, extent, NextPath(Top),
                                    [t EXCEPT !.typed = TRUE]))
    /\ UNCHANGED stop

Released(frame, hull) ==
  IF frame.head.none THEN <<>> ELSE Recited(frame.writes, hull[1], hull[2])

CloseOutput ==
  LET node == [Top.head EXCEPT !.kids = Top.nodes]
  IN  /\ Decoding
      /\ Top.kind = "output"
      /\ Top.at = Top.extent
      /\ Top.head.none \/ (\E w \in ToSet(Top.writes) : IsRecord(w)) \/ "silent_output" \in Quirks
      /\ BackInto(Transformed(Parent, node, Released(Top, CompiledHull(Parent, node))))
      /\ UNCHANGED <<stop, read, tree, out>>

(* The output stopped, was refused by its guard, or was not read to its    *)
(* end: only the transform failed.                                         *)
FailOutput ==
  /\ stack # <<>>
  /\ Top.kind = "output"
  /\ BackInto(Transformed(Parent, [Top.head EXCEPT !.failed = TRUE], <<>>))
  /\ stop' = "no"
  /\ UNCHANGED <<read, tree, out>>

(***************************************************************************)
(* Nested units.                                                           *)
(***************************************************************************)
EnterGroup ==
  /\ "group" \in Kinds
  /\ Len(stack) < MaxDepth
  /\ stack' = Append(stack, Frame("group", Top.at, Top.extent, NextPath(Top), NoNode))
  /\ UNCHANGED stop

Unit(frame, status, refused) ==
  [Node("group", frame.from, frame.at) EXCEPT
     !.kids = frame.nodes, !.status = status, !.refused = refused]

(* A mutant: a refused unit releases what it held.                         *)
WrappedAnyway(frame, refused) == frame.writes

(* What a unit's wrapper writes: what was held, or one region over a unit  *)
(* its guard refused.                                                      *)
Wrapped(frame, refused) ==
  IF refused THEN Naming(Unit(frame, "undecodable", TRUE), "undecodable") ELSE frame.writes

StatusOf(refused) ==
  IF refused THEN "undecodable" ELSE IF stop = "no" THEN "ok" ELSE stop

(* The unit decoded, or it stopped, or its guard refused what was read.    *)
LeaveGroup ==
  \E refused \in BOOLEAN :
    /\ stack # <<>>
    /\ Top.kind = "group"
    /\ refused => stop = "no"
    /\ BackInto(Took(Parent, Unit(Top, StatusOf(refused), refused), Top.at,
                     Parent.writes \o Wrapped(Top, refused)))
    /\ stop' = IF refused THEN "undecodable" ELSE stop
    /\ UNCHANGED <<read, tree, out>>

(* The message is over: the interpreter has its tree, and the generated    *)
(* module has written everything.                                          *)
Finish ==
  \E refused \in BOOLEAN :
    /\ Len(stack) = 1
    /\ refused => stop = "no"
    /\ tree' = Unit(Top, StatusOf(refused), refused)
    /\ out' = Wrapped(Top, refused)
    /\ stack' = <<>>
    /\ UNCHANGED <<stop, read>>

(* One field more, in the innermost unit.                                  *)
ReadField ==
  /\ Decoding
  /\ read < MaxFields
  /\ \/ ReadLeaf
     \/ ReadWrongConst
     \/ ReadTruncated
     \/ ReadChunks
     \/ ReadConcat
     \/ ReadTransform
     \/ OpenOutput
     \/ EnterGroup
  /\ read' = read + 1
  /\ UNCHANGED <<tree, out>>

Init ==
  /\ stack = <<Frame("message", 0, Extent, <<>>, NoNode)>>
  /\ stop = "no"
  /\ read = 0
  /\ tree = NoNode
  /\ out = <<>>

Next == ReadField \/ CloseOutput \/ FailOutput \/ LeaveGroup \/ Finish

Spec == Init /\ [][Next]_vars

(***************************************************************************)
(* Properties.                                                             *)
(***************************************************************************)
Done == stack = <<>>

(* Every unit's position and fields lie inside its space, in order.        *)
TypeOK ==
  /\ stop \in {"no", "undecodable", "truncated"}
  /\ read \in 0 .. MaxFields
  /\ \A k \in DOMAIN stack :
       /\ stack[k].kind \in {"message", "group", "output"}
       /\ stack[k].from <= stack[k].at /\ stack[k].at <= stack[k].extent
       /\ \A n \in ToSet(stack[k].nodes) : 0 <= n.from /\ n.from <= n.to /\ n.to <= stack[k].at

(* A generated module, which looks for no holes, accounts for every byte   *)
(* its message read.                                                       *)
AllSpokenFor == Done => Cited(out) \cup {n[1] : n \in Named(out)} = Bytes(tree)

(* The siblings a path picks its next node from, from the message's down.  *)
Siblings(nodes, path) ==
  LET level[n \in DOMAIN path] ==
        IF n = 1 THEN nodes ELSE level[n - 1][path[n - 1]].kids
  IN  level

(* A node that may have left nothing: a unit a guard refused, a transform  *)
(* that failed or was decoded for control flow only.                       *)
Silent(node) ==
  node.refused \/ node.failed \/ (node.kind = "transform" /\ node.none)

(* What is written as a record is a field of the tree, and nothing read    *)
(* under a refused guess or in a failed output is.                         *)
NothingOfAFailure ==
  Done => \A w \in ToSet(out) : IsRecord(w) =>
            \A n \in DOMAIN w.role :
              LET siblings == Siblings(tree.kids, w.role)[n]
              IN  w.role[n] \in DOMAIN siblings /\ ~Silent(siblings[w.role[n]])

(* A field a transform read is written through the transform, and has no   *)
(* record of its own.                                                      *)
SourceSpokenForOnce ==
  Done => \A w \in ToSet(out) : IsRecord(w) =>
            LET depth == Len(w.role)
            IN  w.role[depth] \notin Taken(Siblings(tree.kids, w.role)[depth])

(* What was taken back leaves nothing behind, whatever took it back: a     *)
(* guard, an output that failed or a transform that spoke for its source.  *)
TakenBack == TypeOK /\ NothingOfAFailure /\ SourceSpokenForOnce
=============================================================================
