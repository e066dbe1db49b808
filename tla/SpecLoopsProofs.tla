--------------------------- MODULE SpecLoopsProofs ---------------------------
(***************************************************************************)
(* Proofs about the loops over a specification's units, for every finite   *)
(* set of units and every specification made of them: whichever unit is    *)
(* visited next, the loops arrive at the closures, at the least set of     *)
(* units that read to the end and at the greatest set reached from tails.  *)
(***************************************************************************)
EXTENDS SpecLoops, FiniteSetTheorems, WellFoundedInduction, TLAPS

(***************************************************************************)
(* Induction over the natural numbers, stated for a set of them, and the   *)
(* recursion of a loop: each term is a function of the one before it.      *)
(***************************************************************************)
(* A set of natural numbers that is not empty has a least member.          *)
LEMMA LeastNat ==
  ASSUME NEW S \in SUBSET Nat, S # {}
  PROVE  \E x \in S : \A y \in S : x <= y
<1> DEFINE R == {ss \in Nat \X Nat : ss[1] < ss[2]}
<1>1. IsWellFoundedOn(R, Nat)
  BY NatLessThanWellFounded DEF OpToRel
<1>2. PICK x \in S : \A y \in S : <<y, x>> \notin R
  <2> HIDE DEF R
  <2> QED
    BY <1>1, WFMin
<1>3. \A y \in S : ~(y < x)
  BY <1>2
<1> QED
  BY <1>3

(* The least number outside such a set would have no predecessor.          *)
LEMMA SetInduction ==
  ASSUME NEW S, 0 \in S, \A n \in Nat : n \in S => n + 1 \in S
  PROVE  Nat \subseteq S
<1> SUFFICES ASSUME Nat \ S # {} PROVE FALSE
  OBVIOUS
<1>1. PICK x \in Nat \ S : \A y \in Nat \ S : x <= y
  BY LeastNat
<1>2. x - 1 \in Nat /\ x - 1 \notin Nat \ S
  BY <1>1
<1> QED
  BY <1>1, <1>2

(* f starts at c, and G says what comes next at each place.                *)
Iterates(f, D, c, G, m) ==
  /\ f \in [0 .. m -> D]
  /\ f[0] = c
  /\ \A k \in 1 .. m : f[k] = G[<<k, f[k - 1]>>]

(* There is such a function, on every interval.                            *)
LEMMA SomeIterates ==
  ASSUME NEW D, NEW c \in D, NEW m \in Nat, NEW G \in [(1 .. m) \X D -> D]
  PROVE  \E f : Iterates(f, D, c, G, m)
<1> DEFINE S == {i \in Nat : i <= m => \E f : Iterates(f, D, c, G, i)}
<1>1. 0 \in S
  <2> DEFINE f == [j \in 0 .. 0 |-> c]
  <2>1. Iterates(f, D, c, G, 0)
    BY DEF Iterates
  <2> QED
    BY <2>1
<1>2. ASSUME NEW i \in Nat, i \in S PROVE i + 1 \in S
  <2> SUFFICES ASSUME i + 1 <= m PROVE \E f : Iterates(f, D, c, G, i + 1)
    OBVIOUS
  <2>1. PICK f : Iterates(f, D, c, G, i)
    BY <1>2
  <2>2. f[i] \in D /\ i + 1 \in 1 .. m
    BY <2>1 DEF Iterates
  <2>3. PICK last \in D : last = G[<<i + 1, f[i]>>]
    BY <2>2
  <2> DEFINE h == [j \in 0 .. i + 1 |-> IF j <= i THEN f[j] ELSE last]
  <2>4. h \in [0 .. i + 1 -> D] /\ h[0] = c
    BY <2>1, <2>3 DEF Iterates
  <2>5. ASSUME NEW j \in 1 .. i + 1 PROVE h[j] = G[<<j, h[j - 1]>>]
    <3>1. CASE j <= i
      <4>1. j \in 1 .. i /\ j - 1 \in 0 .. i /\ j \in 0 .. i + 1 /\ j - 1 \in 0 .. i + 1
        BY <3>1
      <4>2. f[j] = G[<<j, f[j - 1]>>] /\ h[j] = f[j] /\ h[j - 1] = f[j - 1]
        BY <2>1, <3>1, <4>1 DEF Iterates
      <4> QED
        BY <4>2
    <3>2. CASE j = i + 1
      <4>1. h[j] = last /\ h[j - 1] = f[i]
        BY <3>2
      <4> QED
        BY <2>3, <3>2, <4>1
    <3> QED
      BY <3>1, <3>2
  <2>6. Iterates(h, D, c, G, i + 1)
    <3> HIDE DEF h
    <3> QED
      BY <2>4, <2>5 DEF Iterates
  <2> QED
    BY <2>6
<1>3. Nat \subseteq S
  <2> HIDE DEF S
  <2> QED
    BY <1>1, <1>2, SetInduction
<1> QED
  BY <1>3

(***************************************************************************)
(* What a field's type names, and which units AllBelow finds.              *)
(***************************************************************************)
(* A unit decodes only units.                                              *)
LEMMA CalledAreUnits ==
  ASSUME spec \in Specifications, NEW u \in Units
  PROVE  Called(u) \subseteq Units
<1> SUFFICES ASSUME NEW i \in Fields(spec, u), NEW v \in Named(spec[u][i].type)
             PROVE  v \in Units
  BY DEF Called
<1>1. PICK n \in 0 .. MaxFields : spec[u] \in [1 .. n -> FieldChoices]
  BY DEF Specifications
<1>2. spec[u][i] \in FieldChoices
  BY <1>1 DEF Fields
<1> QED
  BY <1>2, FieldsAssumption DEF Named

(* A set of units that holds whatever they decode.                         *)
Upward(us) == \A v \in us : Called(v) \subseteq us

(* The levels AllBelow goes through.                                       *)
Levels(b, u) ==
  /\ b \in [0 .. Cardinality(Units) -> SUBSET Units]
  /\ b[0] = Called(u)
  /\ \A k \in 1 .. Cardinality(Units) : b[k] = Onwards(b[k - 1])

LEMMA UnitsCount == Cardinality(Units) \in Nat
BY UnitsAssumption, FS_CardinalityType

LEMMA SomeLevels ==
  ASSUME spec \in Specifications, NEW u \in Units
  PROVE  \E b : Levels(b, u) /\ AllBelow(u) = b[Cardinality(Units)]
<1> DEFINE N == Cardinality(Units)
           Rec(b) == b = [n \in 0 .. N |-> IF n = 0 THEN Called(u) ELSE Onwards(b[n - 1])]
           below == CHOOSE b : Rec(b)
           D == SUBSET Units
           c == Called(u)
           G == [p \in (1 .. N) \X D |-> Onwards(p[2])]
<1>1. N \in Nat
  BY UnitsCount
<1>2. Called(u) \in SUBSET Units
  BY CalledAreUnits
<1>3. ASSUME NEW us \in SUBSET Units PROVE Onwards(us) \in SUBSET Units
  BY CalledAreUnits DEF Onwards
<1>4. G \in [(1 .. N) \X D -> D] /\ c \in D
  BY <1>2, <1>3
<1>5. PICK f : Iterates(f, D, c, G, N)
  <2> HIDE DEF N, D, c, G
  <2> QED
    BY <1>1, <1>4, SomeIterates
<1>6. ASSUME NEW k \in 1 .. N PROVE f[k] = Onwards(f[k - 1])
  <2>1. k - 1 \in 0 .. N
    BY <1>1
  <2>2. f[k - 1] \in D /\ f[k] = G[<<k, f[k - 1]>>]
    BY <1>5, <2>1 DEF Iterates
  <2> QED
    BY <2>2
<1> HIDE DEF N, G
<1>7. Rec(f)
  <2>1. \A n \in 0 .. N : f[n] = IF n = 0 THEN Called(u) ELSE Onwards(f[n - 1])
    BY <1>1, <1>5, <1>6 DEF Iterates
  <2>2. f = [n \in 0 .. N |-> f[n]]
    BY <1>5 DEF Iterates
  <2> QED
    BY <2>1, <2>2
<1>8. Rec(below)
  BY <1>7
<1>9. AllBelow(u) = below[N]
  BY DEF AllBelow, N
<1> HIDE DEF below
<1>10. below[0] = Called(u) /\ \A k \in 1 .. N : below[k] = Onwards(below[k - 1])
  BY <1>1, <1>8
<1>11. below \in [0 .. N -> SUBSET Units]
  <2> DEFINE S == {i \in Nat : i <= N => below[i] \in SUBSET Units}
  <2>1. 0 \in S
    BY <1>2, <1>10
  <2>2. ASSUME NEW i \in Nat, i \in S PROVE i + 1 \in S
    <3> SUFFICES ASSUME i + 1 <= N PROVE below[i + 1] \in SUBSET Units
      OBVIOUS
    <3>1. below[i] \in SUBSET Units /\ i + 1 \in 1 .. N /\ (i + 1) - 1 = i
      BY <1>1, <2>2
    <3> QED
      BY <1>3, <1>10, <3>1
  <2>3. Nat \subseteq S
    <3> HIDE DEF S
    <3> QED
      BY <2>1, <2>2, SetInduction
  <2>4. \A n \in 0 .. N : below[n] \in SUBSET Units
    BY <1>1, <2>3
  <2>5. below = [n \in 0 .. N |-> IF n = 0 THEN Called(u) ELSE Onwards(below[n - 1])]
    BY <1>8
  <2>6. below = [n \in 0 .. N |-> below[n]]
    BY <2>5
  <2> QED
    BY <2>4, <2>6
<1> QED
  BY <1>9, <1>10, <1>11 DEF Levels, N

(* After as many levels as there are units, the last added nothing: each   *)
(* level that adds something adds a unit.                                  *)
LEMMA LevelsSettle ==
  ASSUME spec \in Specifications, NEW u \in Units, NEW b, Levels(b, u)
  PROVE  Upward(b[Cardinality(Units)])
<1> DEFINE N == Cardinality(Units)
           S == {i \in Nat : i <= N => Upward(b[i]) \/ Cardinality(b[i]) >= i}
<1>1. N \in Nat
  BY UnitsCount
<1>2. ASSUME NEW us \in SUBSET Units
      PROVE  IsFiniteSet(us) /\ Cardinality(us) \in Nat /\ Cardinality(us) <= N
             /\ (Cardinality(us) = N => us = Units)
  BY UnitsAssumption, FS_Subset, FS_CardinalityType
<1>3. 0 \in S
  BY <1>1, <1>2 DEF Levels
<1>4. ASSUME NEW i \in Nat, i \in S PROVE i + 1 \in S
  <2> SUFFICES ASSUME i + 1 <= N PROVE Upward(b[i + 1]) \/ Cardinality(b[i + 1]) >= i + 1
    OBVIOUS
  <2>1. /\ i \in 0 .. N /\ i + 1 \in 0 .. N /\ i + 1 \in 1 .. N /\ (i + 1) - 1 = i
        /\ Upward(b[i]) \/ Cardinality(b[i]) >= i
    BY <1>1, <1>4
  <2>2. b[i] \in SUBSET Units /\ b[i + 1] \in SUBSET Units /\ b[i + 1] = Onwards(b[i])
    BY <2>1 DEF Levels
  <2>3. CASE Upward(b[i])
    <3>1. b[i + 1] = b[i]
      BY <2>2, <2>3 DEF Onwards, Upward
    <3> QED
      BY <2>3, <3>1
  <2>4. CASE ~Upward(b[i])
    <3>1. b[i] \subseteq b[i + 1] /\ b[i] # b[i + 1]
      BY <2>2, <2>4 DEF Onwards, Upward
    <3>2. Cardinality(b[i]) < Cardinality(b[i + 1])
      BY <1>2, <2>2, <3>1, FS_Subset
    <3> QED
      BY <1>2, <2>1, <2>2, <2>4, <3>2
  <2> QED
    BY <2>3, <2>4
<1>5. Nat \subseteq S
  <2> HIDE DEF S
  <2> QED
    BY <1>3, <1>4, SetInduction
<1>6. Upward(b[N]) \/ Cardinality(b[N]) >= N
  BY <1>1, <1>5
<1>7. b[N] \in SUBSET Units
  BY <1>1 DEF Levels
<1>8. CASE Cardinality(b[N]) >= N
  <2>1. b[N] = Units
    BY <1>1, <1>2, <1>7, <1>8
  <2> QED
    BY <2>1, CalledAreUnits DEF Upward
<1> QED
  BY <1>6, <1>8

(* A set that holds what a unit decodes, and is closed, holds every level. *)
LEMMA LevelsAreLeast ==
  ASSUME NEW u \in Units, NEW b, Levels(b, u),
         NEW us \in SUBSET Units, Called(u) \subseteq us, Upward(us)
  PROVE  b[Cardinality(Units)] \subseteq us
<1> DEFINE N == Cardinality(Units)
           S == {i \in Nat : i <= N => b[i] \subseteq us}
<1>1. N \in Nat
  BY UnitsCount
<1>2. 0 \in S
  BY DEF Levels
<1>3. ASSUME NEW i \in Nat, i \in S PROVE i + 1 \in S
  <2> SUFFICES ASSUME i + 1 <= N PROVE b[i + 1] \subseteq us
    OBVIOUS
  <2>1. i + 1 \in 1 .. N /\ (i + 1) - 1 = i /\ b[i] \subseteq us
    BY <1>1, <1>3
  <2>2. b[i + 1] = Onwards(b[i])
    BY <2>1 DEF Levels
  <2> QED
    BY <2>1, <2>2 DEF Onwards, Upward
<1>4. Nat \subseteq S
  <2> HIDE DEF S
  <2> QED
    BY <1>2, <1>3, SetInduction
<1> QED
  BY <1>1, <1>4

LEMMA LevelsAreWhole ==
  ASSUME NEW u \in Units, NEW b, Levels(b, u)
  PROVE  Called(u) \subseteq b[Cardinality(Units)]
<1> DEFINE N == Cardinality(Units)
           S == {i \in Nat : i <= N => Called(u) \subseteq b[i]}
<1>1. N \in Nat
  BY UnitsCount
<1>2. 0 \in S
  BY DEF Levels
<1>3. ASSUME NEW i \in Nat, i \in S PROVE i + 1 \in S
  <2> SUFFICES ASSUME i + 1 <= N PROVE Called(u) \subseteq b[i + 1]
    OBVIOUS
  <2>1. i + 1 \in 1 .. N /\ (i + 1) - 1 = i /\ Called(u) \subseteq b[i]
    BY <1>1, <1>3
  <2>2. b[i + 1] = Onwards(b[i])
    BY <2>1 DEF Levels
  <2> QED
    BY <2>1, <2>2 DEF Onwards
<1>4. Nat \subseteq S
  <2> HIDE DEF S
  <2> QED
    BY <1>2, <1>3, SetInduction
<1> QED
  BY <1>1, <1>4

(* AllBelow finds the least set of units that holds what a unit decodes    *)
(* and whatever those decode: every unit below it, and nothing else.       *)
THEOREM AllBelowIsLeast ==
  ASSUME spec \in Specifications, NEW u \in Units
  PROVE  /\ AllBelow(u) \subseteq Units
         /\ Called(u) \subseteq AllBelow(u)
         /\ Upward(AllBelow(u))
         /\ \A us \in SUBSET Units :
              Called(u) \subseteq us /\ Upward(us) => AllBelow(u) \subseteq us
<1>1. PICK b : Levels(b, u) /\ AllBelow(u) = b[Cardinality(Units)]
  BY SomeLevels
<1>2. b[Cardinality(Units)] \in SUBSET Units
  BY <1>1, UnitsCount DEF Levels
<1> QED
  BY <1>1, <1>2, LevelsSettle, LevelsAreLeast, LevelsAreWhole

(***************************************************************************)
(* The invariant: what each loop has found is found rightly, and a loop    *)
(* that is over has nothing left to find.                                  *)
(***************************************************************************)
(* What is named is visited or waits to be, and nothing else is.           *)
ReachInv ==
  /\ phase = "reach" \/ pending = {}
  /\ reached \cap pending = {}
  /\ Entry \in reached \cup pending
  /\ \A u \in reached : Called(u) \subseteq reached \cup pending
  /\ \A us \in SUBSET Units : Entry \in us /\ Upward(us) => reached \cup pending \subseteq us

(* The closures hold what a unit decodes itself, and stay below it.        *)
ClosureInv ==
  /\ \A u \in Units : Called(u) \subseteq calls[u] /\ u \in needs[u]
  /\ \A u \in Units : \A us \in SUBSET Units :
       Called(u) \subseteq us /\ Upward(us) => calls[u] \subseteq us /\ needs[u] \subseteq {u} \cup us
  /\ Done => \A u \in Units : Onward(u) \subseteq calls[u] /\ Below(u) \subseteq needs[u]

TerminalInv ==
  /\ \A us \in SUBSET Units : HoldsWhatEnds(us) => terminal \subseteq us
  /\ phase \notin {"reach", "terminal"} => HoldsWhatEnds(terminal)

ContextInv ==
  /\ \A us \in SUBSET Units : OnlyFromTails(us) => us \subseteq context
  /\ phase \in {"closures", "done"} => OnlyFromTails(context)

LoopInv == TypeOK /\ ReachInv /\ ClosureInv /\ TerminalInv /\ ContextInv

(* What a turn changes leaves the specification, and all that is decided   *)
(* of it, as it was.                                                       *)
LEMMA SameSpec ==
  ASSUME spec' = spec
  PROVE  /\ \A u : Called(u)' = Called(u)
         /\ \A us : Upward(us)' = Upward(us)
         /\ \A us : HoldsWhatEnds(us)' = HoldsWhatEnds(us)
         /\ \A us : OnlyFromTails(us)' = OnlyFromTails(us)
<1>1. \A u : Called(u)' = Called(u)
  BY DEF Called
<1>2. \A us : Upward(us)' = Upward(us)
  BY DEF Upward, Called
<1>3. \A us : HoldsWhatEnds(us)' = HoldsWhatEnds(us)
  BY DEF HoldsWhatEnds
<1>4. \A us : OnlyFromTails(us)' = OnlyFromTails(us)
  BY DEF OnlyFromTails
<1> QED
  BY <1>1, <1>2, <1>3, <1>4

(* A unit that reads to the end through the units found reads to it        *)
(* through any more of them.                                               *)
LEMMA EndsThroughMore ==
  ASSUME NEW found, NEW more, found \subseteq more, NEW item, ReachesEnd(item, found)
  PROVE  ReachesEnd(item, more)
BY DEF ReachesEnd

(* A unit that leaves the context leaves any that is smaller.              *)
LEMMA LeavesSmaller ==
  ASSUME NEW sp, NEW us, NEW more, us \subseteq more, NEW u, LeavesContext(sp, more, u)
  PROVE  LeavesContext(sp, us, u)
BY DEF LeavesContext

LEMMA LoopInit == Init => LoopInv
<1> SUFFICES ASSUME Init PROVE LoopInv
  OBVIOUS
<1>1. TypeOK
  <2>1. \A u \in Units : Called(u) \in SUBSET Units
    BY CalledAreUnits DEF Init
  <2>2. calls \in [Units -> SUBSET Units] /\ needs \in [Units -> SUBSET Units]
    BY <2>1 DEF Init
  <2> QED
    BY <2>2, UnitsAssumption DEF Init, TypeOK
<1>2. ReachInv
  BY DEF Init, ReachInv
<1>3. ClosureInv
  <2>1. \A u \in Units : calls[u] = Called(u) /\ needs[u] = {u}
    BY DEF Init
  <2>2. ~Done
    BY DEF Init, Done
  <2> QED
    BY <2>1, <2>2 DEF ClosureInv
<1>4. TerminalInv
  BY DEF Init, TerminalInv
<1>5. ContextInv
  BY DEF Init, ContextInv
<1> QED
  BY <1>1, <1>2, <1>3, <1>4, <1>5 DEF LoopInv

LEMMA VisitKeeps == ASSUME LoopInv, NEW u \in Units, Visit(u) PROVE LoopInv'
<1>1. /\ spec' = spec /\ phase' = phase /\ terminal' = terminal /\ context' = context
      /\ calls' = calls /\ needs' = needs /\ phase = "reach" /\ u \in pending
      /\ reached' = reached \cup {u}
      /\ pending' = (pending \cup Called(u)) \ (reached \cup {u})
  BY DEF Visit
<1>2. Called(u) \subseteq Units
  BY CalledAreUnits DEF LoopInv, TypeOK
<1>3. TypeOK'
  BY <1>1, <1>2 DEF LoopInv, TypeOK
<1>4. reached' \cup pending' = reached \cup pending \cup Called(u)
  BY <1>1
<1>5. ReachInv'
  <2>1. \A v \in reached' : Called(v)' \subseteq reached' \cup pending'
    BY <1>1, <1>4, SameSpec DEF LoopInv, ReachInv
  <2>2. ASSUME NEW us \in SUBSET Units, Entry \in us, Upward(us)
        PROVE  reached' \cup pending' \subseteq us
    <3>1. reached \cup pending \subseteq us
      BY <2>2 DEF LoopInv, ReachInv
    <3>2. Called(u) \subseteq us
      BY <1>1, <2>2, <3>1 DEF Upward
    <3> QED
      BY <1>4, <3>1, <3>2
  <2> QED
    BY <1>1, <1>4, <2>1, <2>2, SameSpec DEF LoopInv, ReachInv
<1>6. ~Done'
  BY <1>1 DEF Done
<1>7. ClosureInv'
  BY <1>1, <1>6, SameSpec DEF LoopInv, ClosureInv
<1>8. TerminalInv' /\ ContextInv'
  BY <1>1, SameSpec DEF LoopInv, TerminalInv, ContextInv
<1> QED
  BY <1>3, <1>5, <1>7, <1>8 DEF LoopInv

LEMMA FindTerminalKeeps == ASSUME LoopInv, NEW u \in Units, FindTerminal(u) PROVE LoopInv'
<1>1. /\ spec' = spec /\ phase' = phase /\ reached' = reached /\ pending' = pending
      /\ context' = context /\ calls' = calls /\ needs' = needs
      /\ phase = "terminal" /\ EndsIn(u) /\ terminal' = terminal \cup {u}
  BY DEF FindTerminal
<1>2. TypeOK' /\ ~Done'
  BY <1>1 DEF LoopInv, TypeOK, Done
<1>3. TerminalInv'
  <2>1. ASSUME NEW us \in SUBSET Units, HoldsWhatEnds(us)
        PROVE  terminal' \subseteq us
    <3>1. terminal \subseteq us
      BY <2>1 DEF LoopInv, TerminalInv
    <3>2. PICK i \in Fields(spec, u) : ReachesEnd(spec[u][i], terminal)
      BY <1>1 DEF EndsIn
    <3>3. ReachesEnd(spec[u][i], us)
      BY <3>1, <3>2, EndsThroughMore
    <3>4. u \in us
      BY <2>1, <3>3 DEF HoldsWhatEnds
    <3> QED
      BY <1>1, <3>1, <3>4
  <2> QED
    BY <1>1, <2>1, SameSpec DEF TerminalInv
<1>4. ReachInv' /\ ContextInv'
  BY <1>1, SameSpec DEF LoopInv, ReachInv, ContextInv
<1>5. ClosureInv'
  BY <1>1, <1>2, SameSpec DEF LoopInv, ClosureInv
<1> QED
  BY <1>2, <1>3, <1>4, <1>5 DEF LoopInv

LEMMA DiscardKeeps == ASSUME LoopInv, NEW u \in Units, Discard(u) PROVE LoopInv'
<1>1. /\ spec' = spec /\ phase' = phase /\ reached' = reached /\ pending' = pending
      /\ terminal' = terminal /\ calls' = calls /\ needs' = needs
      /\ phase = "tails" /\ LeavesContext(spec, context, u) /\ context' = context \ {u}
  BY DEF Discard
<1>2. TypeOK' /\ ~Done'
  BY <1>1 DEF LoopInv, TypeOK, Done
<1>3. ContextInv'
  <2>1. ASSUME NEW us \in SUBSET Units, OnlyFromTails(us)
        PROVE  us \subseteq context'
    <3>1. us \subseteq context
      BY <2>1 DEF LoopInv, ContextInv
    <3>2. LeavesContext(spec, us, u)
      BY <1>1, <3>1, LeavesSmaller
    <3>3. u \notin us
      BY <2>1, <3>2 DEF OnlyFromTails
    <3> QED
      BY <1>1, <3>1, <3>3
  <2> QED
    BY <1>1, <2>1, SameSpec DEF ContextInv
<1>4. ReachInv' /\ TerminalInv'
  BY <1>1, SameSpec DEF LoopInv, ReachInv, TerminalInv
<1>5. ClosureInv'
  BY <1>1, <1>2, SameSpec DEF LoopInv, ClosureInv
<1> QED
  BY <1>2, <1>3, <1>4, <1>5 DEF LoopInv

LEMMA ThreadKeeps == ASSUME LoopInv, NEW u \in Units, Thread(u) PROVE LoopInv'
<1>1. /\ spec' = spec /\ phase' = phase /\ reached' = reached /\ pending' = pending
      /\ terminal' = terminal /\ context' = context /\ phase = "closures"
      /\ calls' = [calls EXCEPT ![u] = @ \cup Onward(u)]
      /\ needs' = [needs EXCEPT ![u] = @ \cup Below(u)]
  BY DEF Thread
<1>2. /\ calls \in [Units -> SUBSET Units] /\ needs \in [Units -> SUBSET Units]
      /\ spec \in Specifications
  BY DEF LoopInv, TypeOK
<1>3. Onward(u) \subseteq Units
  BY <1>2 DEF Onward
<1>4. Called(u) \subseteq Units
  BY <1>2, CalledAreUnits
<1>5. Below(u) \subseteq Units
  BY <1>2, <1>4 DEF Below
<1>6. \A v \in Units : /\ calls'[v] = IF v = u THEN calls[u] \cup Onward(u) ELSE calls[v]
                      /\ needs'[v] = IF v = u THEN needs[u] \cup Below(u) ELSE needs[v]
  BY <1>1, <1>2
<1>7. TypeOK' /\ ~Done'
  <2>1. calls' \in [Units -> SUBSET Units] /\ needs' \in [Units -> SUBSET Units]
    BY <1>1, <1>2, <1>3, <1>5
  <2> QED
    BY <1>1, <2>1 DEF LoopInv, TypeOK, Done
<1>8. ASSUME NEW us \in SUBSET Units, Called(u) \subseteq us, Upward(us)
      PROVE  Onward(u) \subseteq us /\ Below(u) \subseteq us
  <2>1. calls[u] \subseteq us
    BY <1>8 DEF LoopInv, ClosureInv
  <2>2. \A v \in us : calls[v] \subseteq us /\ needs[v] \subseteq us
    BY <1>8 DEF LoopInv, ClosureInv, Upward
  <2> QED
    BY <1>8, <2>1, <2>2 DEF Onward, Below
<1>9. ClosureInv'
  <2>1. ASSUME NEW v \in Units
        PROVE  Called(v)' \subseteq calls'[v] /\ v \in needs'[v]
    BY <1>1, <1>6, SameSpec DEF LoopInv, ClosureInv
  <2>2. ASSUME NEW v \in Units, NEW us \in SUBSET Units, Called(v) \subseteq us, Upward(us)
        PROVE  calls'[v] \subseteq us /\ needs'[v] \subseteq {v} \cup us
    <3>1. calls[v] \subseteq us /\ needs[v] \subseteq {v} \cup us
      BY <2>2 DEF LoopInv, ClosureInv
    <3> QED
      BY <1>6, <1>8, <2>2, <3>1
  <2> QED
    BY <1>1, <1>7, <2>1, <2>2, SameSpec DEF ClosureInv
<1>10. ReachInv' /\ TerminalInv' /\ ContextInv'
  BY <1>1, SameSpec DEF LoopInv, ReachInv, TerminalInv, ContextInv
<1> QED
  BY <1>7, <1>9, <1>10 DEF LoopInv

LEMMA NextLoopKeeps == ASSUME LoopInv, NextLoop PROVE LoopInv'
<1>1. /\ spec' = spec /\ reached' = reached /\ pending' = pending /\ terminal' = terminal
      /\ context' = context /\ calls' = calls /\ needs' = needs
      /\ Settled /\ phase' = After[phase]
  BY DEF NextLoop
<1>2. \/ phase = "reach" /\ phase' = "terminal" /\ pending = {}
      \/ phase = "terminal" /\ phase' = "tails" /\ \A u \in Units \ terminal : ~EndsIn(u)
      \/ /\ phase = "tails" /\ phase' = "closures"
         /\ \A u \in context : ~LeavesContext(spec, context, u)
      \/ /\ phase = "closures" /\ phase' = "done"
         /\ \A u \in Units : Onward(u) \subseteq calls[u] /\ Below(u) \subseteq needs[u]
  BY <1>1 DEF Settled, After
<1>3. TypeOK'
  BY <1>1, <1>2 DEF LoopInv, TypeOK
<1>4. ReachInv'
  BY <1>1, <1>2, SameSpec DEF LoopInv, ReachInv
<1>5. ClosureInv'
  <2>1. \A u : Onward(u)' = Onward(u) /\ Below(u)' = Below(u)
    BY <1>1, SameSpec DEF Onward, Below
  <2> QED
    BY <1>1, <1>2, <2>1, SameSpec DEF LoopInv, ClosureInv, Done
<1>6. TerminalInv'
  <2>1. phase = "terminal" => HoldsWhatEnds(terminal)
    BY <1>2 DEF HoldsWhatEnds, EndsIn
  <2> QED
    BY <1>1, <1>2, <2>1, SameSpec DEF LoopInv, TerminalInv
<1>7. ContextInv'
  <2>1. phase = "tails" => OnlyFromTails(context)
    BY <1>2 DEF OnlyFromTails
  <2> QED
    BY <1>1, <1>2, <2>1, SameSpec DEF LoopInv, ContextInv
<1> QED
  BY <1>3, <1>4, <1>5, <1>6, <1>7 DEF LoopInv

LEMMA LoopNext == LoopInv /\ [Next]_vars => LoopInv'
<1> SUFFICES ASSUME LoopInv, [Next]_vars PROVE LoopInv'
  OBVIOUS
<1>1. CASE NextLoop
  BY <1>1, NextLoopKeeps
<1>2. CASE \E u \in Units : Visit(u) \/ FindTerminal(u) \/ Discard(u) \/ Thread(u)
  BY <1>2, VisitKeeps, FindTerminalKeeps, DiscardKeeps, ThreadKeeps
<1>3. CASE UNCHANGED vars
  <2>1. /\ spec' = spec /\ phase' = phase /\ reached' = reached /\ pending' = pending
        /\ terminal' = terminal /\ context' = context /\ calls' = calls /\ needs' = needs
    BY <1>3 DEF vars
  <2>2. TypeOK' /\ ReachInv' /\ TerminalInv' /\ ContextInv'
    BY <2>1, SameSpec DEF LoopInv, TypeOK, ReachInv, TerminalInv, ContextInv
  <2>3. ClosureInv'
    <3>1. \A u : Onward(u)' = Onward(u) /\ Below(u)' = Below(u)
      BY <2>1, SameSpec DEF Onward, Below
    <3> QED
      BY <2>1, <3>1, SameSpec DEF LoopInv, ClosureInv, Done
  <2> QED
    BY <2>2, <2>3 DEF LoopInv
<1> QED
  BY <1>1, <1>2, <1>3 DEF Next

(* The variables keep their types whatever the loops visit next.           *)
THEOREM TypeCorrect == Spec => []TypeOK
<1>1. LoopInv => TypeOK
  BY DEF LoopInv
<1> QED
  BY <1>1, LoopInit, LoopNext, PTL DEF Spec

(* Once the loops are done, a set that is closed and holds what a unit     *)
(* decodes holds what was found below it, and the other way round.         *)
LEMMA DoneIsWhole == LoopInv => ClosuresAreWhole
<1> SUFFICES ASSUME LoopInv, Done PROVE ClosuresAreWhole
  BY DEF ClosuresAreWhole
<1>1. spec \in Specifications /\ \A u \in Units : calls[u] \in SUBSET Units /\ needs[u] \in SUBSET Units
  BY DEF LoopInv, TypeOK
<1>2. reached = {Entry} \cup AllBelow(Entry)
  <2>1. pending = {} /\ Entry \in reached /\ Upward(reached) /\ reached \in SUBSET Units
    BY DEF LoopInv, ReachInv, TypeOK, Done, Upward
  <2>2. AllBelow(Entry) \subseteq reached
    BY <1>1, <2>1, UnitsAssumption, AllBelowIsLeast DEF Upward
  <2> DEFINE us == {Entry} \cup AllBelow(Entry)
  <2>3. us \in SUBSET Units /\ Upward(us)
    BY <1>1, UnitsAssumption, AllBelowIsLeast DEF Upward
  <2>4. reached \subseteq us
    BY <2>3 DEF LoopInv, ReachInv
  <2> QED
    BY <2>1, <2>2, <2>4
<1>3. ASSUME NEW u \in Units PROVE calls[u] = AllBelow(u)
  <2>1. ASSUME NEW v \in calls[u] PROVE Called(v) \subseteq calls[u]
    <3>1. v \in Units /\ calls[v] \subseteq Onward(u)
      BY <1>1 DEF Onward
    <3> QED
      BY <3>1 DEF LoopInv, ClosureInv
  <2>2. Upward(calls[u]) /\ Called(u) \subseteq calls[u]
    BY <2>1 DEF Upward, LoopInv, ClosureInv
  <2>3. AllBelow(u) \subseteq calls[u]
    BY <1>1, <2>2, AllBelowIsLeast
  <2>4. calls[u] \subseteq AllBelow(u)
    BY <1>1, AllBelowIsLeast DEF LoopInv, ClosureInv
  <2> QED
    BY <2>3, <2>4
<1>4. ASSUME NEW u \in Units PROVE needs[u] = {u} \cup AllBelow(u)
  <2> DEFINE us == {v \in Units : needs[v] \subseteq needs[u]}
  <2>1. Upward(us) /\ Called(u) \subseteq us
    <3>1. ASSUME NEW v \in Units PROVE \A w \in Called(v) : w \in Units /\ needs[w] \subseteq needs[v]
      <4>1. Called(v) \subseteq Units
        BY <1>1, CalledAreUnits
      <4>2. Below(v) \subseteq needs[v]
        BY DEF LoopInv, ClosureInv
      <4> QED
        BY <4>1, <4>2 DEF Below
    <3>2. Upward(us)
      BY <3>1 DEF Upward
    <3> QED
      BY <3>1, <3>2
  <2>2. AllBelow(u) \subseteq us
    BY <1>1, <2>1, AllBelowIsLeast
  <2>3. \A v \in us : v \in needs[u]
    BY DEF LoopInv, ClosureInv
  <2>4. u \in needs[u] /\ needs[u] \subseteq {u} \cup AllBelow(u)
    BY <1>1, AllBelowIsLeast DEF LoopInv, ClosureInv
  <2> QED
    BY <2>2, <2>3, <2>4
<1>5. recursive = {u \in Units : u \in AllBelow(u)}
  BY <1>3 DEF recursive
<1> QED
  BY <1>2, <1>4, <1>5 DEF ClosuresAreWhole

(* Whatever order the units are visited in, the plan is closed when the    *)
(* loops are done, and the sets found are the least set of units that read *)
(* to the end and the greatest reached only from tails.                    *)
THEOREM LoopsAreExact == Spec => []PlanIsClosed
<1>1. LoopInv => TerminalIsLeast /\ ContextIsGreatest
  BY DEF LoopInv, TerminalInv, ContextInv, TerminalIsLeast, ContextIsGreatest, Done
<1>2. LoopInv => PlanIsClosed
  BY <1>1, DoneIsWhole DEF LoopInv, PlanIsClosed
<1> QED
  BY <1>2, LoopInit, LoopNext, PTL DEF Spec

(* A loop makes each of its turns for a unit it had not found, or had      *)
(* wrongly: no order of visits goes round for ever.                        *)
THEOREM TurnsAreNotInVain == Spec => EveryTurnFindsMore
<1>1. ASSUME LoopInv, Next PROVE FindsMore
  <2>1. CASE NextLoop
    BY <2>1 DEF NextLoop, FindsMore
  <2>2. ASSUME NEW u \in Units, Visit(u) PROVE FindsMore
    <3>1. u \in pending /\ u \notin reached
      BY <1>1, <2>2 DEF Visit, LoopInv, ReachInv
    <3> QED
      BY <2>2, <3>1 DEF Visit, FindsMore
  <2>3. ASSUME NEW u \in Units, FindTerminal(u) PROVE FindsMore
    BY <2>3 DEF FindTerminal, FindsMore
  <2>4. ASSUME NEW u \in Units, Discard(u) PROVE FindsMore
    BY <2>4 DEF Discard, FindsMore
  <2>5. ASSUME NEW u \in Units, Thread(u) PROVE FindsMore
    <3>1. calls \in [Units -> SUBSET Units] /\ needs \in [Units -> SUBSET Units]
      BY <1>1 DEF LoopInv, TypeOK
    <3>2. /\ calls' = [calls EXCEPT ![u] = @ \cup Onward(u)]
          /\ needs' = [needs EXCEPT ![u] = @ \cup Below(u)]
          /\ phase' = phase /\ reached' = reached /\ terminal' = terminal /\ context' = context
          /\ ~(Onward(u) \subseteq calls[u] /\ Below(u) \subseteq needs[u])
      BY <2>5 DEF Thread
    <3>3. calls'[u] = calls[u] \cup Onward(u) /\ needs'[u] = needs[u] \cup Below(u)
      BY <3>1, <3>2
    <3>4. calls' # calls \/ needs' # needs
      BY <3>2, <3>3
    <3>5. \A v \in Units : calls[v] \subseteq calls'[v] /\ needs[v] \subseteq needs'[v]
      BY <3>1, <3>2
    <3> QED
      BY <3>2, <3>4, <3>5 DEF FindsMore
  <2> QED
    BY <1>1, <2>1, <2>2, <2>3, <2>4, <2>5 DEF Next
<1>2. LoopInv /\ [Next]_vars => [FindsMore]_vars
  BY <1>1
<1> QED
  BY <1>2, LoopInit, LoopNext, PTL DEF Spec, EveryTurnFindsMore
=============================================================================
