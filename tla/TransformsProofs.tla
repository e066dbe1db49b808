-------------------------- MODULE TransformsProofs --------------------------
(***************************************************************************)
(* Theorems about Transforms, for any names, codecs, specifications, data  *)
(* and limits.                                                             *)
(***************************************************************************)
EXTENDS Transforms, WellFoundedInduction, TLAPS

(***************************************************************************)
(* Induction over the natural numbers, stated for a set of them, and the   *)
(* recursion that a sum has: each term is the one before it and an amount. *)
(***************************************************************************)
(* A set of natural numbers that is not empty has a least member.          *)
LEMMA LeastNat ==
  ASSUME NEW S \in SUBSET Nat, S # {}
  PROVE  \E x \in S : \A y \in S : x <= y
<1> DEFINE R == {ss \in Nat \X Nat : ss[1] < ss[2]}
<1>1. IsWellFoundedOn(R, Nat)
  BY NatLessThanWellFounded DEF OpToRel
<1>2. PICK x \in S : \A y \in S : <<y, x>> \notin R
  <2> HIDE DEF R
  <2> QED
    BY <1>1, WFMin
<1>3. \A y \in S : ~(y < x)
  BY <1>2
<1> QED
  BY <1>3

(* The least number outside such a set would have no predecessor.          *)
LEMMA SetInduction ==
  ASSUME NEW S, 0 \in S, \A n \in Nat : n \in S => n + 1 \in S
  PROVE  Nat \subseteq S
<1> SUFFICES ASSUME Nat \ S # {} PROVE FALSE
  OBVIOUS
<1>1. PICK x \in Nat \ S : \A y \in Nat \ S : x <= y
  BY LeastNat
<1>2. x - 1 \in Nat /\ x - 1 \notin Nat \ S
  BY <1>1
<1> QED
  BY <1>1, <1>2

(* f starts at c and goes on with a times itself and what g gives.         *)
Follows(f, c, a, g, m) ==
  /\ f \in [0 .. m -> Int]
  /\ f[0] = c
  /\ \A k \in 1 .. m : f[k] = a * f[k - 1] + g[k]

(* There is a function that follows a recurrence, on every interval.       *)
LEMMA SomeFollows ==
  ASSUME NEW c \in Int, NEW a \in Int, NEW m \in Nat, NEW g \in [1 .. m -> Int]
  PROVE  \E f : Follows(f, c, a, g, m)
<1> DEFINE S == {i \in Nat : i <= m => \E f : Follows(f, c, a, g, i)}
<1>1. 0 \in S
  <2> DEFINE f == [j \in 0 .. 0 |-> c]
  <2>1. Follows(f, c, a, g, 0)
    BY DEF Follows
  <2> QED
    BY <2>1
<1>2. ASSUME NEW i \in Nat, i \in S PROVE i + 1 \in S
  <2> SUFFICES ASSUME i + 1 <= m PROVE \E f : Follows(f, c, a, g, i + 1)
    OBVIOUS
  <2>1. PICK f : Follows(f, c, a, g, i)
    BY <1>2
  <2>2. PICK last \in Int : last = a * f[i] + g[i + 1]
    BY <2>1 DEF Follows
  <2> DEFINE h == [j \in 0 .. i + 1 |-> IF j <= i THEN f[j] ELSE last]
  <2>3. h \in [0 .. i + 1 -> Int] /\ h[0] = c
    BY <2>1, <2>2 DEF Follows
  <2>4. ASSUME NEW j \in 1 .. i + 1 PROVE h[j] = a * h[j - 1] + g[j]
    <3>1. CASE j <= i
      <4>1. /\ j \in 1 .. i /\ j - 1 \in 0 .. i + 1
            /\ j \in 0 .. i + 1 /\ j - 1 <= i
        BY <3>1
      <4>2. f[j] = a * f[j - 1] + g[j]
        BY <2>1, <4>1 DEF Follows
      <4> QED
        BY <3>1, <4>1, <4>2
    <3>2. CASE j = i + 1
      <4>1. h[j] = last /\ h[j - 1] = f[i]
        BY <3>2
      <4> QED
        BY <2>2, <3>2, <4>1
    <3> QED
      BY <3>1, <3>2
  <2>5. Follows(h, c, a, g, i + 1)
    <3> HIDE DEF h
    <3> QED
      BY <2>3, <2>4 DEF Follows
  <2> QED
    BY <2>5
<1>3. Nat \subseteq S
  <2> HIDE DEF S
  <2> QED
    BY <1>1, <1>2, SetInduction
<1> QED
  BY <1>3

(* There is one such sequence: whatever is c at first and obeys the        *)
(* equation after that agrees with it.                                     *)
LEMMA OneFollows ==
  ASSUME NEW c \in Int, NEW a \in Int, NEW m \in Nat, NEW g, NEW f, Follows(f, c, a, g, m),
         NEW h, h[0] = c,
         \A k \in 1 .. m : h[k - 1] \in Int => h[k] = a * h[k - 1] + g[k]
  PROVE  \A k \in 0 .. m : h[k] = f[k]
<1> DEFINE S == {i \in Nat : i <= m => h[i] = f[i]}
<1>1. 0 \in S
  BY DEF Follows
<1>2. ASSUME NEW i \in Nat, i \in S PROVE i + 1 \in S
  <2> SUFFICES ASSUME i + 1 <= m PROVE h[i + 1] = f[i + 1]
    OBVIOUS
  <2>1. i + 1 \in 1 .. m /\ (i + 1) - 1 = i /\ h[i] = f[i] /\ h[i] \in Int
    BY <1>2 DEF Follows
  <2>2. h[i + 1] = a * h[(i + 1) - 1] + g[i + 1]
    BY <2>1
  <2>3. f[i + 1] = a * f[(i + 1) - 1] + g[i + 1]
    BY <2>1 DEF Follows
  <2> QED
    BY <2>1, <2>2, <2>3
<1>3. Nat \subseteq S
  <2> HIDE DEF S
  <2> QED
    BY <1>1, <1>2, SetInduction
<1> QED
  BY <1>3

(* What every run so far ran is what its user still holds: a user binds    *)
(* once, before its first run.                                             *)
RanWhatIsHeld ==
  \A r \in ran : /\ r \in Users \X Names \X Callables
                 /\ state[r[1]] = "ready"
                 /\ held[r[1]][r[2]] = r[3]

(* Between two members the output has not passed the limit.                *)
StillInside == phase = "inflating" => out <= call.limit

Accepted == result.ok => result.n <= result.of.limit

RunsInv == TypeOK /\ NamesAreBound /\ RanWhatIsHeld /\ StillInside /\ Accepted

LEMMA InitRuns == Init => RunsInv
<1> SUFFICES ASSUME Init PROVE RunsInv
  OBVIOUS
<1> USE DEF Init, NoResult, Came
<1>1. bound \in [Names -> Callables \cup {Nothing}]
  BY BindingsAssumption DEF Callables
<1>2. TypeOK
  <2>1. held \in [Users -> [Names -> Callables \cup {Nothing}]]
    OBVIOUS
  <2>2. state \in [Users -> {"new", "ready", "refused"}]
    OBVIOUS
  <2>3. left = <<>> /\ out = 0 /\ phase = "idle"
    OBVIOUS
  <2> HIDE DEF Init, NoResult, Came
  <2> QED
    BY <1>1, <2>1, <2>2, <2>3 DEF TypeOK
<1>3. NamesAreBound /\ RanWhatIsHeld /\ StillInside /\ Accepted
  BY DEF NamesAreBound, RanWhatIsHeld, StillInside, Accepted
<1> QED
  BY <1>2, <1>3 DEF RunsInv

(* What the next member adds is no more than what was asked for.           *)
LEMMA GrownIsBounded ==
  ASSUME TypeOK, StillInside, phase = "inflating"
  PROVE  Grown \in Nat /\ Grown <= call.limit + 1
<1>1. call.limit \in Nat /\ out \in Nat /\ out <= call.limit
  BY DataAssumption DEF TypeOK, StillInside, Calls
<1>2. Piece.n \in Nat
  <2>1. CASE left = <<>>
    BY <2>1 DEF Piece
  <2>2. CASE left # <<>>
    <3>1. Head(left) \in Pieces
      BY <2>2 DEF TypeOK
    <3> QED
      BY <2>2, <3>1 DEF Piece, Pieces
  <2> QED
    BY <2>1, <2>2
<1>3. Room \in Nat /\ out + Room = call.limit + 1
  BY <1>1 DEF Room
<1> QED
  BY <1>1, <1>2, <1>3 DEF Grown

(* One lemma per action: a step of it keeps the invariant.                 *)
LEMMA RegisterKeeps ==
  ASSUME RunsInv, NEW pair \in Registered, NEW replace \in BOOLEAN,
         Register(pair[1], pair[2], replace)
  PROVE  RunsInv'
<1> USE DEF RunsInv, Register, run
<1>1. pair[2] \in Callables
  BY BindingsAssumption DEF Callables
<1>2. TypeOK'
  BY <1>1 DEF TypeOK
<1>3. NamesAreBound' /\ RanWhatIsHeld' /\ StillInside' /\ Accepted'
  BY DEF NamesAreBound, RanWhatIsHeld, StillInside, Accepted
<1> QED
  BY <1>2, <1>3

LEMMA BindKeeps ==
  ASSUME RunsInv, NEW u \in Users, Bind(u)
  PROVE  RunsInv'
<1> USE DEF RunsInv, Bind, run
<1>1. TypeOK'
  <2>1. Bound(u) \in [Names -> Callables \cup {Nothing}]
    BY DEF Bound, TypeOK
  <2> QED
    BY <2>1 DEF TypeOK
<1>2. NamesAreBound'
  <2> SUFFICES ASSUME NEW v \in Users, state'[v] = "ready",
                      NEW names \in Fields[v], NEW name \in names
               PROVE  held'[v][name] # Nothing
    BY DEF NamesAreBound
  <2>1. CASE v = u
    <3>1. name \in Used(u)
      BY <2>1 DEF Used
    <3>2. bound[name] # Nothing
      BY <3>1 DEF Missing
    <3>3. held'[v] = Bound(u)
      BY <2>1 DEF TypeOK
    <3>4. name \in Names
      BY <2>1, BindingsAssumption
    <3> QED
      BY <3>1, <3>2, <3>3, <3>4 DEF Bound
  <2>2. CASE v # u
    <3>1. state[v] = "ready" /\ held'[v] = held[v]
      BY <2>2 DEF TypeOK
    <3> QED
      BY <3>1 DEF NamesAreBound
  <2> QED
    BY <2>1, <2>2
<1>3. RanWhatIsHeld'
  <2> SUFFICES ASSUME NEW r \in ran
               PROVE  /\ r \in Users \X Names \X Callables
                      /\ state'[r[1]] = "ready"
                      /\ held'[r[1]][r[2]] = r[3]
    BY DEF RanWhatIsHeld
  <2>1. /\ r \in Users \X Names \X Callables
        /\ state[r[1]] = "ready"
        /\ held[r[1]][r[2]] = r[3]
    BY DEF RanWhatIsHeld
  <2>2. r[1] # u /\ r[1] \in Users
    BY <2>1
  <2> QED
    BY <2>1, <2>2 DEF TypeOK
<1>4. StillInside' /\ Accepted'
  BY DEF StillInside, Accepted
<1> QED
  BY <1>1, <1>2, <1>3, <1>4

LEMMA RefuseKeeps ==
  ASSUME RunsInv, NEW u \in Users, Refuse(u)
  PROVE  RunsInv'
<1> USE DEF RunsInv, Refuse, run
<1>1. TypeOK'
  BY DEF TypeOK
<1>2. \A v \in Users : state'[v] = "ready" <=> state[v] = "ready"
  BY DEF TypeOK
<1>3. NamesAreBound'
  BY <1>2 DEF NamesAreBound
<1>4. RanWhatIsHeld'
  BY <1>2 DEF RanWhatIsHeld
<1>5. StillInside' /\ Accepted'
  BY DEF StillInside, Accepted
<1> QED
  BY <1>1, <1>3, <1>4, <1>5

(* A user that is set up asks for a run of a name it uses.                 *)
LEMMA AskedIsACall ==
  ASSUME RunsInv, NEW u \in Users, NEW name \in Names, NEW source \in Sources,
         NEW limit \in Limits, NEW type \in {Untyped, Refuses} \cup Reads,
         state[u] = "ready", NEW names \in Fields[u], name \in names
  PROVE  /\ Asked(u, name, source, limit, type) \in Calls
         /\ Runs(u, name) = held[u][name]
<1>1. held[u][name] # Nothing
  BY DEF RunsInv, NamesAreBound
<1>2. held[u][name] \in Callables
  BY <1>1 DEF RunsInv, TypeOK
<1> QED
  BY <1>2 DEF Asked, Runs, Calls

LEMMA BeginKeeps ==
  ASSUME RunsInv, NEW u \in Users, NEW name \in Names, NEW source \in Sources,
         NEW limit \in Limits, NEW type \in {Untyped, Refuses} \cup Reads,
         Begin(u, name, source, limit, type)
  PROVE  RunsInv'
<1> DEFINE asked == Asked(u, name, source, limit, type)
<1>1. PICK names \in Fields[u] : name \in names
  BY DEF Begin
<1>2. state[u] = "ready" /\ phase = "idle"
  BY DEF Begin
<1>3. asked \in Calls /\ Runs(u, name) = held[u][name]
  BY <1>1, <1>2, AskedIsACall
<1>4. asked.user = u /\ asked.name = name /\ asked.runs = held[u][name]
      /\ asked.source = source
  BY <1>3 DEF Asked
<1>5. UNCHANGED <<bound, held, state>>
  BY DEF Begin, Start, NothingToRun, registry
<1>6. NamesAreBound'
  BY <1>5 DEF RunsInv, NamesAreBound
<1>7. CASE Start(asked)
  <2> HIDE DEF asked
  <2>1. source \in Seq(Pieces)
    BY DataAssumption
  <2>2. asked.limit \in Nat
    BY <1>3, DataAssumption DEF Calls
  <2>3. TypeOK'
    BY <1>3, <1>4, <1>5, <1>7, <2>1 DEF RunsInv, TypeOK, Start
  <2>4. RanWhatIsHeld'
    <3>1. <<asked.user, asked.name, asked.runs>> \in Users \X Names \X Callables
      BY <1>3 DEF Calls
    <3> QED
      BY <1>2, <1>4, <1>5, <1>7, <3>1 DEF RunsInv, RanWhatIsHeld, Start
  <2>5. StillInside' /\ Accepted'
    BY <1>7, <2>2 DEF RunsInv, StillInside, Accepted, Start
  <2> QED
    BY <1>6, <2>3, <2>4, <2>5 DEF RunsInv
<1>8. ASSUME NEW why, NothingToRun(asked, why) PROVE RunsInv'
  <2>1. UNCHANGED <<phase, call, left, out, ran>> /\ result'.ok = FALSE
    BY <1>8 DEF NothingToRun, Came
  <2>2. TypeOK' /\ RanWhatIsHeld' /\ StillInside' /\ Accepted'
    BY <1>2, <1>5, <2>1 DEF RunsInv, TypeOK, RanWhatIsHeld, StillInside, Accepted
  <2> QED
    BY <1>6, <2>2 DEF RunsInv
<1> QED
  BY <1>7, <1>8 DEF Begin

(* A run that ends leaves nothing of itself but its result.                *)
LEMMA EndKeeps ==
  ASSUME RunsInv, NEW ok \in BOOLEAN, NEW n, NEW why, Ends(ok, n, why),
         ok => n <= call.limit
  PROVE  RunsInv'
<1> USE DEF RunsInv, Ends
<1>1. UNCHANGED <<bound, held, state, ran>>
  BY DEF registry
<1>2. TypeOK'
  BY <1>1 DEF TypeOK
<1>3. NamesAreBound' /\ RanWhatIsHeld' /\ StillInside'
  BY <1>1 DEF NamesAreBound, RanWhatIsHeld, StillInside
<1>4. Accepted'
  BY DEF Accepted, Came
<1> QED
  BY <1>2, <1>3, <1>4

LEMMA InflateKeeps ==
  ASSUME RunsInv, Inflate
  PROVE  RunsInv'
<1>1. Grown \in Nat /\ Grown <= call.limit + 1
  BY GrownIsBounded DEF RunsInv, Inflate
<1>2. ASSUME NEW why, Fails(why) PROVE RunsInv'
  BY <1>2, EndKeeps DEF Fails
<1>3. CASE /\ Grown <= call.limit /\ Piece.k = "member"
           /\ phase' \in {"returned", "inflating"}
           /\ out'  = Grown
           /\ left' = Unused
           /\ UNCHANGED <<registry, call, ran, result>>
  <2>1. UNCHANGED <<bound, held, state>>
    BY <1>3 DEF registry
  <2>2. left # <<>>
    BY <1>3 DEF Piece
  <2>3. Unused \in Seq(Pieces)
    BY <2>2 DEF Unused, RunsInv, TypeOK
  <2>4. phase = "inflating"
    BY DEF Inflate
  <2>5. TypeOK'
    BY <1>1, <1>3, <2>1, <2>3, <2>4 DEF RunsInv, TypeOK
  <2>6. NamesAreBound' /\ RanWhatIsHeld' /\ Accepted'
    BY <1>3, <2>1 DEF RunsInv, NamesAreBound, RanWhatIsHeld, Accepted
  <2>7. StillInside'
    BY <1>3 DEF StillInside
  <2> QED
    BY <2>5, <2>6, <2>7 DEF RunsInv
<1> QED
  BY <1>2, <1>3 DEF Inflate

LEMMA CallerReturnsKeeps ==
  ASSUME RunsInv, CallerReturns
  PROVE  RunsInv'
<1>1. ASSUME NEW why, Fails(why) PROVE RunsInv'
  BY <1>1, EndKeeps DEF Fails
<1>2. ASSUME NEW n \in Returned, phase' = "returned", out' = n,
             UNCHANGED <<registry, call, left, ran, result>>
      PROVE  RunsInv'
  <2>1. UNCHANGED <<bound, held, state>>
    BY <1>2 DEF registry
  <2>2. n \in Nat /\ phase = "calling"
    BY DataAssumption DEF CallerReturns
  <2>3. TypeOK'
    BY <1>2, <2>1, <2>2 DEF RunsInv, TypeOK
  <2>4. NamesAreBound' /\ RanWhatIsHeld' /\ Accepted' /\ StillInside'
    BY <1>2, <2>1 DEF RunsInv, NamesAreBound, RanWhatIsHeld, Accepted, StillInside
  <2> QED
    BY <2>3, <2>4 DEF RunsInv
<1> QED
  BY <1>1, <1>2 DEF CallerReturns

LEMMA ReturnsKeeps ==
  ASSUME RunsInv, Returns
  PROVE  RunsInv'
<1>1. ASSUME NEW why, Fails(why) PROVE RunsInv'
  BY <1>1, EndKeeps DEF Fails
<1>2. ASSUME HeldTo(out), Ends(TRUE, out, "") PROVE RunsInv'
  BY <1>2, EndKeeps DEF HeldTo
<1> QED
  BY <1>1, <1>2 DEF Returns

LEMMA DeliveredKeeps ==
  ASSUME RunsInv, Delivered
  PROVE  RunsInv'
<1>1. UNCHANGED <<bound, held, state, phase, call, left, out, ran>>
  BY DEF Delivered, registry
<1>2. result'.ok = FALSE
  BY DEF Delivered, NoResult, Came
<1>3. TypeOK'
  BY <1>1 DEF RunsInv, TypeOK
<1>4. NamesAreBound' /\ RanWhatIsHeld' /\ StillInside' /\ Accepted'
  BY <1>1, <1>2 DEF RunsInv, NamesAreBound, RanWhatIsHeld, StillInside, Accepted
<1> QED
  BY <1>3, <1>4 DEF RunsInv

LEMMA StutterKeeps == RunsInv /\ UNCHANGED vars => RunsInv'
BY DEF vars, RunsInv, TypeOK, NamesAreBound, RanWhatIsHeld, StillInside, Accepted

LEMMA NextRuns == RunsInv /\ [Next]_vars => RunsInv'
<1> SUFFICES ASSUME RunsInv, [Next]_vars PROVE RunsInv'
  OBVIOUS
<1>1. CASE Setup
  BY <1>1, RegisterKeeps, BindKeeps, RefuseKeeps DEF Setup
<1>2. CASE Asks
  BY <1>2, BeginKeeps DEF Asks
<1>3. CASE Running
  BY <1>3, InflateKeeps, CallerReturnsKeeps, ReturnsKeeps, DeliveredKeeps DEF Running
<1>4. CASE UNCHANGED vars
  BY <1>4, StutterKeeps
<1> QED
  BY <1>1, <1>2, <1>3, <1>4 DEF Next

(* The inductive invariant, of which limits and names follow.              *)
THEOREM RunsInvariant == Spec => []RunsInv
BY InitRuns, NextRuns, PTL DEF Spec

(* The variables of Transforms keep their types; in particular a run that  *)
(* is made is of a callable, whatever is registered in the meantime.       *)
THEOREM TypeCorrect == Spec => []TypeOK
<1>1. RunsInv => TypeOK
  BY DEF RunsInv
<1> QED
  BY <1>1, RunsInvariant, PTL

(* No accepted output is longer than its limit, and inflating never holds  *)
(* more than a byte past it, for data of any number of members and any     *)
(* caller's function.                                                      *)
THEOREM LimitsHold == Spec => []WithinTheLimit
<1>1. RunsInv => WithinTheLimit
  BY GrownIsBounded DEF RunsInv, Accepted, WithinTheLimit
<1> QED
  BY <1>1, RunsInvariant, PTL

(* A user that is set up has every name its specification uses bound.      *)
THEOREM NoNameIsMissing == Spec => []NamesAreBound
<1>1. RunsInv => NamesAreBound
  BY DEF RunsInv
<1> QED
  BY <1>1, RunsInvariant, PTL

(* Two runs of one name by one user run the same callable.                 *)
THEOREM NamesMeanOneThing == Spec => []OneMeaning
<1>1. RunsInv => OneMeaning
  BY DEF RunsInv, RanWhatIsHeld, OneMeaning
<1> QED
  BY <1>1, RunsInvariant, PTL

(* All a run asks of a name: bound when its user was set up, a callable,   *)
(* and the same callable every time.                                       *)
THEOREM NamesStay == Spec => []NamesStayBound
<1>1. TypeOK /\ NamesAreBound /\ OneMeaning => NamesStayBound
  BY DEF NamesStayBound
<1> QED
  BY <1>1, TypeCorrect, NoNameIsMissing, NamesMeanOneThing, PTL

-----------------------------------------------------------------------------
(***************************************************************************)
(* What the data as a whole inflates to is a sum over its pieces.          *)
(***************************************************************************)
Lengths(s) == [j \in 1 .. Len(s) |-> s[j].n]

LEMMA LengthsAreNats ==
  ASSUME NEW s \in Seq(Pieces)
  PROVE  Lengths(s) \in [1 .. Len(s) -> Nat]
<1>1. \A j \in 1 .. Len(s) : s[j] \in Pieces
  OBVIOUS
<1>2. \A j \in 1 .. Len(s) : s[j].n \in Nat
  BY <1>1 DEF Pieces
<1> QED
  BY <1>2 DEF Lengths

(* f[j] is what the first j pieces of the data inflate to.                 *)
Counts(s, f) ==
  /\ f \in [0 .. Len(s) -> Nat]
  /\ f[0] = 0
  /\ \A j \in 1 .. Len(s) : f[j] = f[j - 1] + s[j].n

LEMMA FollowsCounts ==
  ASSUME NEW s \in Seq(Pieces), NEW f, Follows(f, 0, 1, Lengths(s), Len(s))
  PROVE  Counts(s, f)
<1>1. \A j \in 1 .. Len(s) : Lengths(s)[j] = s[j].n /\ s[j].n \in Nat
  BY LengthsAreNats DEF Lengths
<1>2. /\ f \in [0 .. Len(s) -> Int] /\ f[0] = 0
      /\ \A j \in 1 .. Len(s) : f[j] = f[j - 1] + s[j].n
  <2> SUFFICES ASSUME NEW j \in 1 .. Len(s) PROVE f[j] = f[j - 1] + s[j].n
    BY DEF Follows
  <2>1. f[j] = 1 * f[j - 1] + s[j].n /\ f[j - 1] \in Int
    BY <1>1 DEF Follows
  <2> QED
    BY <1>1, <2>1
<1> DEFINE S == {i \in Nat : i <= Len(s) => f[i] \in Nat}
<1>3. 0 \in S
  BY <1>2
<1>4. ASSUME NEW i \in Nat, i \in S PROVE i + 1 \in S
  <2> SUFFICES ASSUME i + 1 <= Len(s) PROVE f[i + 1] \in Nat
    OBVIOUS
  <2>1. i + 1 \in 1 .. Len(s) /\ (i + 1) - 1 = i /\ f[i] \in Nat
    BY <1>4
  <2> QED
    BY <1>1, <1>2, <2>1
<1>5. Nat \subseteq S
  <2> HIDE DEF S
  <2> QED
    BY <1>3, <1>4, SetInduction
<1> QED
  BY <1>2, <1>5 DEF Counts

(* The recursion that defines Inflated is such a count.                    *)
LEMMA InflatedCounts ==
  ASSUME NEW s \in Seq(Pieces)
  PROVE  \E f : Counts(s, f) /\ Inflated(s) = f[Len(s)]
<1> DEFINE Rec(f) == f = [j \in 0 .. Len(s) |-> IF j = 0 THEN 0 ELSE f[j - 1] + s[j].n]
           total == CHOOSE f : Rec(f)
<1>1. PICK f : Follows(f, 0, 1, Lengths(s), Len(s))
  <2>1. Len(s) \in Nat /\ Lengths(s) \in [1 .. Len(s) -> Int]
    BY LengthsAreNats
  <2> QED
    BY <2>1, SomeFollows
<1>2. Counts(s, f)
  BY <1>1, FollowsCounts
<1>3. Rec(f)
  <2>1. \A j \in 0 .. Len(s) : f[j] = IF j = 0 THEN 0 ELSE f[j - 1] + s[j].n
    BY <1>2 DEF Counts
  <2>2. f = [j \in 0 .. Len(s) |-> f[j]]
    BY <1>2 DEF Counts
  <2> QED
    BY <2>1, <2>2
<1>4. Rec(total)
  <2> HIDE DEF Rec
  <2> QED
    BY <1>3
<1>5. Inflated(s) = total[Len(s)]
  BY DEF Inflated
<1> HIDE DEF total
<1>6. total[0] = 0
  BY <1>4
<1>7. ASSUME NEW j \in 1 .. Len(s), total[j - 1] \in Int
      PROVE  total[j] = 1 * total[j - 1] + Lengths(s)[j]
  <2>1. total[j] = total[j - 1] + s[j].n
    BY <1>4
  <2> QED
    BY <1>7, <2>1 DEF Lengths
<1>8. \A j \in 0 .. Len(s) : total[j] = f[j]
  BY <1>1, <1>6, <1>7, OneFollows
<1>9. total[Len(s)] = f[Len(s)]
  BY <1>8
<1> QED
  BY <1>2, <1>5, <1>9

(* A count only grows with the pieces counted.                             *)
LEMMA CountGrows ==
  ASSUME NEW s \in Seq(Pieces), NEW f, Counts(s, f),
         NEW d \in 0 .. Len(s)
  PROVE  f[d] <= f[Len(s)]
<1> DEFINE S == {i \in Nat : d + i <= Len(s) => f[d] <= f[d + i]}
<1>1. 0 \in S
  BY DEF Counts
<1>2. ASSUME NEW i \in Nat, i \in S PROVE i + 1 \in S
  <2> SUFFICES ASSUME d + (i + 1) <= Len(s) PROVE f[d] <= f[d + (i + 1)]
    OBVIOUS
  <2>1. f[d] <= f[d + i]
    BY <1>2
  <2>2. f[d + i + 1] = f[d + i] + s[d + i + 1].n
    BY DEF Counts
  <2>3. s[d + i + 1] \in Pieces
    <3>1. d + i + 1 \in 1 .. Len(s)
      OBVIOUS
    <3> QED
      BY <3>1
  <2>4. f[d] \in Nat /\ f[d + i] \in Nat
    BY DEF Counts
  <2> QED
    BY <2>1, <2>2, <2>3, <2>4 DEF Pieces
<1>3. Nat \subseteq S
  <2> HIDE DEF S
  <2> QED
    BY <1>1, <1>2, SetInduction
<1>4. Len(s) - d \in Nat /\ d + (Len(s) - d) = Len(s)
  OBVIOUS
<1> QED
  BY <1>3, <1>4

(***************************************************************************)
(* What a codec is found to say of its data is what the data is.           *)
(***************************************************************************)
(* So far d members have been read, whole; what is left is what follows    *)
(* them, and the output is what they inflate to.                           *)
MembersRead(d) ==
  /\ d \in 0 .. Len(call.source)
  /\ d > 1 => call.runs \in Several
  /\ \A j \in 1 .. d : call.source[j].k = "member"
  /\ Len(left) = Len(call.source) - d
  /\ \A i \in 1 .. Len(left) : left[i] = call.source[d + i]
  /\ \E f : Counts(call.source, f)
              /\ Inflated(call.source) = f[Len(call.source)] /\ out = f[d]

(* Nothing is left to read only before the first member and after the last.*)
ReadSoFar ==
  /\ phase = "calling" => call.runs \notin Codecs
  /\ phase = "inflating" =>
        /\ call.runs \in Codecs
        /\ \E d \in Nat : /\ MembersRead(d)
                          /\ d > 0 => left # <<>> /\ call.runs \in Several
  /\ phase = "returned" /\ call.runs \in Codecs =>
        \E d \in Nat \ {0} : MembersRead(d) /\ left = <<>> /\ out <= call.limit

SaysInv == RunsInv /\ ReadSoFar /\ SaysWhatTheDataIs

(* A result that claims nothing of the data.                               *)
LEMMA SaysNothing ==
  ASSUME ~result.ok,
         result.why \notin {"limit", "not valid", "ends early", "bytes follow"}
  PROVE  SaysWhatTheDataIs
BY DEF SaysWhatTheDataIs

LEMMA InitSays == Init => SaysInv
<1> SUFFICES ASSUME Init PROVE SaysInv
  OBVIOUS
<1>1. RunsInv
  BY InitRuns
<1>2. ReadSoFar
  BY DEF Init, ReadSoFar
<1>3. SaysWhatTheDataIs
  BY DEF Init, NoResult, Came, SaysWhatTheDataIs
<1> QED
  BY <1>1, <1>2, <1>3 DEF SaysInv

(* Nothing is said of a run that is not over, and setting users up does    *)
(* not touch one.                                                          *)
LEMMA ApartSays ==
  ASSUME SaysInv, UNCHANGED <<phase, call, left, out, result>>
  PROVE  (ReadSoFar /\ SaysWhatTheDataIs)'
<1>1. ReadSoFar'
  BY DEF SaysInv, ReadSoFar, MembersRead
<1>2. SaysWhatTheDataIs'
  BY DEF SaysInv, SaysWhatTheDataIs
<1> QED
  BY <1>1, <1>2

(* One lemma per action: it keeps what has been read in step with what has *)
(* come out, and says of the data only what is so.                         *)
LEMMA BeginSays ==
  ASSUME SaysInv, NEW u \in Users, NEW name \in Names, NEW source \in Sources,
         NEW limit \in Limits, NEW type \in {Untyped, Refuses} \cup Reads,
         Begin(u, name, source, limit, type)
  PROVE  (ReadSoFar /\ SaysWhatTheDataIs)'
<1> DEFINE asked == Asked(u, name, source, limit, type)
<1>1. asked.source = source /\ source \in Seq(Pieces)
  BY DataAssumption DEF Asked
<1>2. phase = "idle" /\ result = NoResult
  BY DEF Begin
<1>3. CASE Start(asked)
  <2> HIDE DEF asked
  <2>1. /\ phase' = IF asked.runs \in Codecs THEN "inflating" ELSE "calling"
        /\ call' = asked /\ left' = source /\ out' = 0 /\ result' = result
    BY <1>1, <1>3 DEF Start
  <2>2. MembersRead(0)'
    <3>1. PICK f : Counts(source, f) /\ Inflated(source) = f[Len(source)]
      BY <1>1, InflatedCounts
    <3>2. f[0] = 0
      BY <3>1 DEF Counts
    <3>3. call'.source = source /\ Len(source) \in Nat
      BY <1>1, <2>1
    <3> QED
      BY <2>1, <3>1, <3>2, <3>3 DEF MembersRead
  <2>3. ReadSoFar'
    BY <2>1, <2>2 DEF ReadSoFar
  <2>4. SaysWhatTheDataIs'
    BY <2>1 DEF SaysInv, SaysWhatTheDataIs
  <2> QED
    BY <2>3, <2>4
<1>4. ASSUME NEW why \in {"not decoded", "argument"}, NothingToRun(asked, why)
      PROVE  (ReadSoFar /\ SaysWhatTheDataIs)'
  <2>1. result'.ok = FALSE /\ result'.why = why /\ phase' = "idle"
    BY <1>2, <1>4 DEF NothingToRun, Came
  <2>2. ReadSoFar'
    BY <2>1 DEF ReadSoFar
  <2>3. SaysWhatTheDataIs'
    BY <2>1 DEF SaysWhatTheDataIs
  <2> QED
    BY <2>2, <2>3
<1> QED
  BY <1>3, <1>4 DEF Begin

(* The run ends, and its result is about its own call.                     *)
LEMMA EndSays ==
  ASSUME NEW ok \in BOOLEAN, NEW n, NEW why, Ends(ok, n, why)
  PROVE  /\ ReadSoFar'
         /\ result'.of = call /\ result'.ok = ok
         /\ result'.n = n /\ result'.why = why
BY DEF Ends, ReadSoFar, Came

LEMMA InflateSays ==
  ASSUME SaysInv, Inflate
  PROVE  (ReadSoFar /\ SaysWhatTheDataIs)'
<1> DEFINE source == call.source
<1>1. /\ phase = "inflating" /\ call.runs \in Codecs /\ call \in Calls
      /\ out \in Nat /\ out <= call.limit /\ left \in Seq(Pieces)
  BY DEF Inflate, SaysInv, RunsInv, TypeOK, ReadSoFar, StillInside
<1>2. PICK d \in Nat : /\ MembersRead(d)
                       /\ d > 0 => left # <<>> /\ call.runs \in Several
  BY <1>1 DEF SaysInv, ReadSoFar
<1>3. PICK f : /\ Counts(source, f)
               /\ Inflated(source) = f[Len(source)] /\ out = f[d]
  BY <1>2 DEF MembersRead
<1>4. /\ source \in Sources /\ source \in Seq(Pieces) /\ call.limit \in Nat
      /\ \A j \in 1 .. Len(source) - 1 : source[j].k = "member"
  BY <1>1, DataAssumption, MembersAssumption DEF Calls
<1>5. /\ d \in 0 .. Len(source) /\ Len(left) = Len(source) - d
      /\ \A j \in 1 .. d : source[j].k = "member"
      /\ \A i \in 1 .. Len(left) : left[i] = source[d + i]
  BY <1>2 DEF MembersRead
<1>6. Room \in Nat /\ out + Room = call.limit + 1
  BY <1>1, <1>4 DEF Room
<1>7. ASSUME left # <<>>
      PROVE  /\ d + 1 \in 1 .. Len(source) /\ Piece = source[d + 1]
             /\ Piece.n \in Nat
             /\ f[d + 1] = out + Piece.n /\ f[d + 1] \in Nat
             /\ f[d + 1] <= f[Len(source)]
             /\ Piece.k # "member" => d + 1 = Len(source)
  <2>1. Len(left) \in Nat /\ Len(left) > 0
    BY <1>1, <1>7
  <2>2. d + 1 \in 1 .. Len(source)
    BY <1>4, <1>5, <2>1
  <2>3. Piece = source[d + 1]
    <3>1. Piece = left[1]
      BY <1>1, <1>7 DEF Piece
    <3> QED
      BY <1>5, <2>1, <3>1
  <2>4. source[d + 1] \in Pieces
    BY <1>4, <2>2
  <2>5. f[d + 1] = f[d] + source[d + 1].n /\ f[d + 1] \in Nat
    <3>1. (d + 1) - 1 = d
      OBVIOUS
    <3> QED
      BY <1>3, <2>2, <3>1 DEF Counts
  <2>6. f[d + 1] <= f[Len(source)]
    <3>1. d + 1 \in 0 .. Len(source)
      BY <2>2
    <3> HIDE DEF source
    <3> QED
      BY <1>3, <1>4, <3>1, CountGrows
  <2>7. source[d + 1].k # "member" => d + 1 = Len(source)
    BY <1>4, <2>2
  <2> QED
    BY <1>3, <2>2, <2>3, <2>4, <2>5, <2>6, <2>7 DEF Pieces
<1>8. CASE Unreadable /\ Fails("not valid")
  <2>1. left # <<>> /\ Piece.k = "corrupt" /\ Piece.n < Room
    BY <1>8 DEF Unreadable, Piece
  <2>2. d + 1 = Len(source) /\ source[Len(source)].k = "corrupt"
    BY <1>7, <2>1
  <2>3. Inflated(source) <= call.limit
    <3>1. Inflated(source) = out + Piece.n /\ Piece.n \in Nat
      BY <1>3, <1>7, <2>1, <2>2
    <3> QED
      BY <1>1, <1>4, <1>6, <2>1, <3>1
  <2>4. /\ ReadSoFar' /\ result'.of = call /\ result'.ok = FALSE
        /\ result'.why = "not valid"
    BY <1>8, EndSays DEF Fails
  <2>5. SaysWhatTheDataIs'
    BY <2>2, <2>3, <2>4 DEF SaysWhatTheDataIs
  <2> QED
    BY <2>4, <2>5
<1>9. CASE ~Unreadable /\ Grown > call.limit /\ Fails("limit")
  <2>1. left # <<>>
    <3>1. CASE left = <<>>
      <4>1. Piece.n = 0
        BY <3>1 DEF Piece
      <4>2. Grown = out
        BY <1>1, <1>4, <1>6, <4>1 DEF Grown
      <4> QED
        BY <1>1, <1>4, <1>9, <4>2
    <3> QED
      BY <3>1
  <2>2. out + Piece.n > call.limit
    BY <1>1, <1>4, <1>6, <1>7, <1>9, <2>1 DEF Grown
  <2>3. Inflated(source) > call.limit
    <3>1. Inflated(source) \in Nat
      BY <1>3, <1>4 DEF Counts
    <3> QED
      BY <1>3, <1>4, <1>7, <2>1, <2>2, <3>1
  <2>4. /\ ReadSoFar' /\ result'.of = call /\ result'.ok = FALSE
        /\ result'.why = "limit"
    BY <1>9, EndSays DEF Fails
  <2>5. SaysWhatTheDataIs'
    BY <2>3, <2>4 DEF SaysWhatTheDataIs
  <2> QED
    BY <2>4, <2>5
<1>10. CASE /\ ~Unreadable /\ Grown <= call.limit /\ Piece.k # "member"
            /\ Fails("ends early")
  <2>1. /\ source = <<>> \/ source[Len(source)].k = "cut"
        /\ Inflated(source) <= call.limit
    <3>1. CASE left = <<>>
      <4>1. d = 0 /\ Len(source) = 0
        BY <1>2, <1>4, <1>5, <3>1
      <4>2. Inflated(source) = 0
        BY <1>3, <4>1 DEF Counts
      <4> QED
        BY <1>4, <4>1, <4>2
    <3>2. CASE left # <<>>
      <4>1. d + 1 = Len(source) /\ Piece = source[Len(source)]
        BY <1>7, <1>10, <3>2
      <4>2. Piece.n < Room
        <5>1. CASE ~(Piece.n < Room)
          <6>1. Grown = out + Room
            BY <5>1 DEF Grown
          <6>2. Grown <= call.limit
            BY <1>10
          <6>3. PICK limit \in Nat : limit = call.limit
            BY <1>4
          <6>4. out + Room <= limit /\ out + Room = limit + 1
            BY <1>6, <6>1, <6>2, <6>3
          <6> QED
            BY <6>4
        <5>2. CASE Piece.n < Room
          BY <5>2
        <5> QED
          BY <5>1, <5>2
      <4>3. Piece.k # "corrupt" /\ Piece \in Pieces
        <5>1. Piece = Head(left) /\ Head(left) \in Pieces
          BY <1>1, <3>2 DEF Piece
        <5> QED
          BY <1>10, <4>2, <5>1 DEF Unreadable
      <4>4. Piece.k = "cut"
        BY <1>10, <4>3 DEF Pieces
      <4>5. Inflated(source) = out + Piece.n
        BY <1>3, <1>7, <3>2, <4>1
      <4> QED
        BY <1>1, <1>4, <1>6, <1>7, <3>2, <4>1, <4>2, <4>4, <4>5
    <3> QED
      BY <3>1, <3>2
  <2>2. /\ ReadSoFar' /\ result'.of = call /\ result'.ok = FALSE
        /\ result'.why = "ends early"
    BY <1>10, EndSays DEF Fails
  <2>3. SaysWhatTheDataIs'
    BY <2>1, <2>2 DEF SaysWhatTheDataIs
  <2> QED
    BY <2>2, <2>3
<1>11. CASE Len(left) > 1 /\ Fails("bytes follow")
  <2>1. Len(source) > 1
    <3>1. PICK l \in Nat : l = Len(left)
      BY <1>1
    <3>2. PICK n \in Nat : n = Len(source)
      BY <1>4
    <3>3. l = n - d /\ l > 1 /\ d \in Nat
      BY <1>5, <1>11, <3>1, <3>2
    <3>4. n > 1
      BY <3>3
    <3> QED
      BY <3>2, <3>4
  <2>2. /\ ReadSoFar' /\ result'.of = call /\ result'.ok = FALSE
        /\ result'.why = "bytes follow"
    BY <1>11, EndSays DEF Fails
  <2>3. SaysWhatTheDataIs'
    BY <2>1, <2>2 DEF SaysWhatTheDataIs
  <2> QED
    BY <2>2, <2>3
<1>12. CASE /\ Grown <= call.limit /\ Piece.k = "member"
            /\ \/ Unused = <<>> /\ phase' = "returned"
               \/ Unused # <<>> /\ call.runs \in Several /\ phase' = "inflating"
            /\ out'  = Grown
            /\ left' = Unused
            /\ UNCHANGED <<registry, call, ran, result>>
  <2>1. left # <<>>
    BY <1>12 DEF Piece
  <2>2. /\ Len(left') = Len(left) - 1 /\ left' \in Seq(Pieces)
        /\ \A i \in 1 .. Len(left') : left'[i] = left[i + 1]
    BY <1>1, <1>12, <2>1 DEF Unused
  <2>3. Piece.n < Room /\ out' = f[d + 1]
    BY <1>1, <1>4, <1>6, <1>7, <1>12, <2>1 DEF Grown
  <2>4. call' = call /\ result' = result
    BY <1>12
  <2>5. MembersRead(d + 1)'
    <3>1. d + 1 \in 0 .. Len(source)
      BY <1>7, <2>1
    <3>2. d + 1 > 1 => call.runs \in Several
      BY <1>2
    <3>3. \A j \in 1 .. d + 1 : source[j].k = "member"
      <4>1. source[d + 1].k = "member"
        BY <1>7, <1>12, <2>1
      <4>2. \A j \in 1 .. d + 1 : j \in 1 .. d \/ j = d + 1
        OBVIOUS
      <4> QED
        BY <1>5, <4>1, <4>2
    <3>4. Len(left') = Len(source) - (d + 1)
      BY <1>4, <1>5, <2>2
    <3>5. ASSUME NEW i \in 1 .. Len(left') PROVE left'[i] = source[d + 1 + i]
      <4>1. i + 1 \in 1 .. Len(left)
        BY <1>1, <2>2
      <4>2. left'[i] = left[i + 1]
        BY <2>2
      <4>3. d + (i + 1) = d + 1 + i
        BY <2>2
      <4> QED
        BY <1>5, <4>1, <4>2, <4>3
    <3> HIDE DEF source
    <3>6. call'.source = source
      BY <2>4 DEF source
    <3> QED
      BY <1>3, <2>3, <2>4, <3>1, <3>2, <3>3, <3>4, <3>5, <3>6 DEF MembersRead
  <2>6. d + 1 \in Nat \ {0}
    OBVIOUS
  <2>7. ReadSoFar'
    BY <1>1, <1>12, <2>4, <2>5, <2>6 DEF ReadSoFar
  <2>8. SaysWhatTheDataIs'
    BY <2>4 DEF SaysInv, SaysWhatTheDataIs
  <2> QED
    BY <2>7, <2>8
<1> QED
  BY <1>8, <1>9, <1>10, <1>11, <1>12 DEF Inflate

LEMMA ReturnsSays ==
  ASSUME SaysInv, Returns
  PROVE  (ReadSoFar /\ SaysWhatTheDataIs)'
<1>1. phase = "returned" /\ call \in Calls
  BY DEF Returns, SaysInv, RunsInv, TypeOK
<1>2. call.source \in Seq(Pieces)
  BY <1>1, DataAssumption DEF Calls
<1>3. ASSUME call.runs \in Codecs
      PROVE  /\ call.source # <<>>
             /\ \A j \in DOMAIN call.source : call.source[j].k = "member"
             /\ Len(call.source) = 1 \/ call.runs \in Several
             /\ out = Inflated(call.source) /\ out <= call.limit
  <2>1. PICK d \in Nat \ {0} : MembersRead(d) /\ left = <<>> /\ out <= call.limit
    BY <1>1, <1>3 DEF SaysInv, ReadSoFar
  <2>2. d = Len(call.source)
    BY <1>2, <2>1 DEF MembersRead
  <2>3. call.source # <<>> /\ DOMAIN call.source = 1 .. d
    BY <1>2, <2>2
  <2>4. /\ \A j \in 1 .. d : call.source[j].k = "member"
        /\ d > 1 => call.runs \in Several
        /\ out = Inflated(call.source)
    BY <2>1, <2>2 DEF MembersRead
  <2>5. d = 1 \/ d > 1
    OBVIOUS
  <2> QED
    BY <2>1, <2>2, <2>3, <2>4, <2>5
<1>4. CASE ~HeldTo(out) /\ Fails("limit")
  <2>1. call.runs \notin Codecs
    BY <1>3, <1>4 DEF HeldTo
  <2>2. ReadSoFar' /\ result'.of = call
    BY <1>4, EndSays DEF Fails
  <2> QED
    BY <2>1, <2>2 DEF SaysWhatTheDataIs
<1>5. CASE Ends(TRUE, out, "")
  <2>1. /\ ReadSoFar' /\ result'.of = call /\ result'.n = out /\ result'.why = ""
    BY <1>5, EndSays
  <2> QED
    BY <1>3, <2>1 DEF SaysWhatTheDataIs
<1>6. ASSUME NEW why \in {"does not decode", "ends before its type does",
                          "has bytes its type does not read"}, Fails(why)
      PROVE  (ReadSoFar /\ SaysWhatTheDataIs)'
  <2>1. ReadSoFar' /\ result'.ok = FALSE /\ result'.why = why
    BY <1>6, EndSays DEF Fails
  <2> QED
    BY <2>1 DEF SaysWhatTheDataIs
<1> QED
  BY <1>4, <1>5, <1>6 DEF Returns

LEMMA CallerSays ==
  ASSUME SaysInv, CallerReturns
  PROVE  (ReadSoFar /\ SaysWhatTheDataIs)'
<1>1. call.runs \notin Codecs
  BY DEF SaysInv, ReadSoFar, CallerReturns
<1>2. ASSUME NEW why, Fails(why) PROVE (ReadSoFar /\ SaysWhatTheDataIs)'
  <2>1. ReadSoFar' /\ result'.of = call
    BY <1>2, EndSays DEF Fails
  <2> QED
    BY <1>1, <2>1 DEF SaysWhatTheDataIs
<1>3. CASE phase' = "returned" /\ UNCHANGED <<call, result>>
  <2>1. ReadSoFar'
    BY <1>1, <1>3 DEF ReadSoFar
  <2>2. SaysWhatTheDataIs'
    BY <1>3 DEF SaysInv, SaysWhatTheDataIs
  <2> QED
    BY <2>1, <2>2
<1> QED
  BY <1>2, <1>3 DEF CallerReturns

LEMMA DeliveredSays ==
  ASSUME SaysInv, Delivered
  PROVE  (ReadSoFar /\ SaysWhatTheDataIs)'
<1>1. UNCHANGED <<phase, call, left, out>> /\ result'.ok = FALSE /\ result'.why = ""
  BY DEF Delivered, NoResult, Came
<1>2. ReadSoFar'
  BY <1>1 DEF SaysInv, ReadSoFar, MembersRead
<1>3. SaysWhatTheDataIs'
  BY <1>1 DEF SaysWhatTheDataIs
<1> QED
  BY <1>2, <1>3

LEMMA NextSays == SaysInv /\ [Next]_vars => SaysInv'
<1> SUFFICES ASSUME SaysInv, [Next]_vars PROVE SaysInv'
  OBVIOUS
<1>1. RunsInv'
  BY NextRuns DEF SaysInv
<1>2. ASSUME Setup PROVE (ReadSoFar /\ SaysWhatTheDataIs)'
  BY <1>2, ApartSays DEF Setup, Register, Bind, Refuse, run
<1>3. ASSUME Asks PROVE (ReadSoFar /\ SaysWhatTheDataIs)'
  BY <1>3, BeginSays DEF Asks
<1>4. ASSUME Running PROVE (ReadSoFar /\ SaysWhatTheDataIs)'
  BY <1>4, InflateSays, CallerSays, ReturnsSays, DeliveredSays DEF Running
<1>5. ASSUME UNCHANGED vars PROVE (ReadSoFar /\ SaysWhatTheDataIs)'
  BY <1>5, ApartSays DEF vars
<1> QED
  BY <1>1, <1>2, <1>3, <1>4, <1>5 DEF Next, SaysInv

(* What is said of a run of a codec, that its output is whole, or too      *)
(* long, or that the data is corrupt, cut short or followed by more, is    *)
(* so of the data as a whole, for any number of members and any limit.     *)
THEOREM FailuresAreOfTheData == Spec => []SaysWhatTheDataIs
<1>1. SaysInv => SaysWhatTheDataIs
  BY DEF SaysInv
<1> QED
  BY <1>1, InitSays, NextSays, PTL DEF Spec

=============================================================================
