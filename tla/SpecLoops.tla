------------------------------ MODULE SpecLoops ------------------------------
(***************************************************************************)
(* The loops of kober.check and kober.ops over a specification's units,    *)
(* one turn a step: reachability, the units that read to the end of the    *)
(* message, the units reached only from message tails, and the closures    *)
(* of what each unit calls and of the root values it needs.  The code      *)
(* visits the units in the order they were declared until nothing changes; *)
(* a step here visits any unit that would change something.                *)
(***************************************************************************)
EXTENDS Specs

CONSTANTS
  FieldChoices, (* the fields a specification may have                     *)
  MaxFields     (* how many a unit has at most                             *)

(* Every unit named is one of the specification's, which check refuses     *)
(* anything else for, and a walk over a field's type sees all of it.       *)
ASSUME FieldsAssumption ==
  /\ MaxFields \in Nat
  /\ \A item \in FieldChoices :
       /\ \A t \in Walk(item.type) : t.k = "unit" => t.unit \in Units
       /\ WalksWhole(item.type)

VARIABLES
  spec,         (* the specification                                       *)
  phase,        (* the loop being run                                      *)
  reached,      (* units found reachable from the entry                    *)
  pending,      (* units named and not visited yet                         *)
  terminal,     (* units found to read to the end of the message           *)
  context,      (* units not yet seen reached from anywhere but a tail     *)
  calls,        (* for each unit, the units found decoded below it         *)
  needs         (* for each unit, the root values found needed below it    *)

vars == <<spec, phase, reached, pending, terminal, context, calls, needs>>

Called(u) == UNION {Named(spec[u][i].type) : i \in Fields(spec, u)}

Specifications == [Units -> UNION {[1 .. n -> FieldChoices] : n \in 0 .. MaxFields}]

(* Each unit's own expressions are taken to name one root value, its own.  *)
Init ==
  /\ spec \in Specifications
  /\ phase = "reach" /\ reached = {} /\ pending = {Entry}
  /\ terminal = {} /\ context = Units
  /\ calls = [u \in Units |-> Called(u)]
  /\ needs = [u \in Units |-> {u}]

(***************************************************************************)
(* The loops.                                                              *)
(***************************************************************************)
(* A mutant: a unit is visited again whenever it is named again.           *)
VisitAgain(u) ==
  /\ phase = "reach" /\ u \in pending
  /\ reached' = reached \cup {u}
  /\ pending' = (pending \ {u}) \cup Called(u)
  /\ UNCHANGED <<spec, phase, terminal, context, calls, needs>>

Visit(u) ==
  /\ phase = "reach" /\ u \in pending
  /\ reached' = reached \cup {u}
  /\ pending' = (pending \cup Called(u)) \ (reached \cup {u})
  /\ UNCHANGED <<spec, phase, terminal, context, calls, needs>>

EndsIn(u) == \E i \in Fields(spec, u) : ReachesEnd(spec[u][i], terminal)

FindTerminal(u) ==
  /\ phase = "terminal" /\ u \notin terminal /\ EndsIn(u)
  /\ terminal' = terminal \cup {u}
  /\ UNCHANGED <<spec, phase, reached, pending, context, calls, needs>>

Discard(u) ==
  /\ phase = "tails" /\ u \in context /\ LeavesContext(spec, context, u)
  /\ context' = context \ {u}
  /\ UNCHANGED <<spec, phase, reached, pending, terminal, calls, needs>>

(* A mutant: only what a unit names itself counts as called.              *)
OnwardOnce(u) == Called(u)

Onward(u) == UNION {calls[v] : v \in calls[u]}

Below(u) == UNION {needs[v] : v \in Called(u)}

Thread(u) ==
  /\ phase = "closures"
  /\ ~(Onward(u) \subseteq calls[u] /\ Below(u) \subseteq needs[u])
  /\ calls' = [calls EXCEPT ![u] = @ \cup Onward(u)]
  /\ needs' = [needs EXCEPT ![u] = @ \cup Below(u)]
  /\ UNCHANGED <<spec, phase, reached, pending, terminal, context>>

Settled ==
  \/ phase = "reach" /\ pending = {}
  \/ phase = "terminal" /\ \A u \in Units \ terminal : ~EndsIn(u)
  \/ phase = "tails" /\ \A u \in context : ~LeavesContext(spec, context, u)
  \/ /\ phase = "closures"
     /\ \A u \in Units : Onward(u) \subseteq calls[u] /\ Below(u) \subseteq needs[u]

After == [reach |-> "terminal", terminal |-> "tails", tails |-> "closures",
          closures |-> "done"]

NextLoop ==
  /\ Settled
  /\ phase' = After[phase]
  /\ UNCHANGED <<spec, reached, pending, terminal, context, calls, needs>>

Next ==
  \/ NextLoop
  \/ \E u \in Units : Visit(u) \/ FindTerminal(u) \/ Discard(u) \/ Thread(u)

Spec == Init /\ [][Next]_vars /\ WF_vars(Next)

recursive == {u \in Units : u \in calls[u]}

-----------------------------------------------------------------------------
(***************************************************************************)
(* Properties.                                                             *)
(***************************************************************************)
Done == phase = "done"

TypeOK ==
  /\ spec \in Specifications
  /\ phase \in {"reach", "terminal", "tails", "closures", "done"}
  /\ reached \subseteq Units /\ pending \subseteq Units
  /\ terminal \subseteq Units /\ context \subseteq Units
  /\ calls \in [Units -> SUBSET Units] /\ needs \in [Units -> SUBSET Units]

(* What a unit may come to decode, found a level at a time: a chain of     *)
(* units that decode one another needs no more levels than there are units.*)
Onwards(us) == us \cup UNION {Called(u) : u \in us}

AllBelow(u) ==
  LET below[n \in 0 .. Cardinality(Units)] ==
        IF n = 0 THEN Called(u) ELSE Onwards(below[n - 1])
  IN  below[Cardinality(Units)]

(* What a unit the plan reaches may decode it reaches, with a depth limit  *)
(* wherever a decode may come back to where it is, and with the root       *)
(* values of everything below.                                             *)
ClosuresAreWhole ==
  Done =>
    /\ reached = {Entry} \cup AllBelow(Entry)
    /\ recursive = {u \in Units : u \in AllBelow(u)}
    /\ \A u \in Units : needs[u] = {u} \cup AllBelow(u)

(* A set of units as the terminal rule would have it: whatever reads to    *)
(* the end is in it.  The units found are the least such set, so that no   *)
(* order of visits finds more or fewer.                                    *)
HoldsWhatEnds(us) ==
  \A u \in Units : (\E i \in Fields(spec, u) : ReachesEnd(spec[u][i], us)) => u \in us

TerminalIsLeast ==
  Done => /\ HoldsWhatEnds(terminal)
          /\ \A us \in SUBSET Units : HoldsWhatEnds(us) => terminal \subseteq us

(* A set of units each reached only from the tails of others in it.  The   *)
(* units left are the greatest such set.                                   *)
OnlyFromTails(us) == \A u \in us : ~LeavesContext(spec, us, u)

ContextIsGreatest ==
  Done => /\ OnlyFromTails(context)
          /\ \A us \in SUBSET Units : OnlyFromTails(us) => us \subseteq context

(* The plan is closed, and the same whichever order the units come in.     *)
PlanIsClosed ==
  TypeOK /\ ClosuresAreWhole /\ TerminalIsLeast /\ ContextIsGreatest

(* No turn is for nothing, and none is undone: a loop goes on only as long *)
(* as it finds a unit it had not, or that it had wrongly.                  *)
FindsMore ==
  \/ phase' = After[phase]
  \/ /\ phase' = phase
     /\ reached \subseteq reached' /\ terminal \subseteq terminal' /\ context' \subseteq context
     /\ \A u \in Units : calls[u] \subseteq calls'[u] /\ needs[u] \subseteq needs'[u]
     /\ <<reached, terminal, context, calls, needs>>' # <<reached, terminal, context, calls, needs>>

EveryTurnFindsMore == [][FindsMore]_vars

(* Each loop ends.                                                         *)
Ends == <>Done
=============================================================================
