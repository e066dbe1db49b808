----------------------------- MODULE Transforms -----------------------------
(***************************************************************************)
(* What a transform's name is bound to and how one runs (kober.transforms, *)
(* and run_transform of kober.runtime).                                    *)
(*                                                                         *)
(* Decoders and generated modules, the Users, bind the names their         *)
(* specification uses when they are set up, from a registry a program may  *)
(* go on registering in.  A run inflates its source member by member, or   *)
(* calls a caller's function, then holds the output to its limit and to    *)
(* its type.  Compressed data is a sequence of pieces, each with the bytes *)
(* it inflates to: a whole member, one that is cut off at the end of the   *)
(* data, or one that turns out corrupt after so many bytes.                *)
(***************************************************************************)
EXTENDS Naturals, Sequences

CONSTANTS
  Names,      (* the transform names, the well-known and specs' own        *)
  Codecs,     (* the standard library's decompressors                      *)
  Callers,    (* functions a caller registers                              *)
  Standard,   (* what the standard registry binds: names to codecs         *)
  Several,    (* the codecs whose format allows several members            *)
  Registered, (* the pairs of a name and a callable a program registers    *)
  Users,      (* decoders and generated modules                            *)
  Fields,     (* of each user's specification, the transform fields: each  *)
              (* the names it runs, several where a switch chooses         *)
  Sources,    (* what a run may be given, each a sequence of pieces        *)
  Limits,     (* the limits specifications give, at least 1                *)
  Returned,   (* how many bytes a caller's function may return             *)
  Reads,      (* how many bytes an output's type may read                  *)
  Untyped,    (* no type: the output is kept as bytes                      *)
  Refuses,    (* a type that cannot be decoded from the output             *)
  Nothing     (* what a name is bound to that is not bound                 *)

Pieces == [k : {"member", "cut", "corrupt"}, n : Nat]

ASSUME BindingsAssumption ==
  /\ Standard \in [DOMAIN Standard -> Codecs]
  /\ DOMAIN Standard \subseteq Names
  /\ Several \subseteq Codecs
  /\ Registered \subseteq Names \X (Codecs \cup Callers)
  /\ Codecs \cap Callers = {}
  /\ Nothing \notin Codecs \cup Callers
  /\ Fields \in [Users -> SUBSET SUBSET Names]

ASSUME DataAssumption ==
  /\ Sources \subseteq Seq(Pieces)
  /\ Limits \subseteq Nat \ {0}
  /\ Returned \subseteq Nat
  /\ Reads \subseteq Nat

(* Only the last piece may be anything but a whole member: what follows a  *)
(* cut or a corruption is not told apart into members, nor read.           *)
ASSUME MembersAssumption ==
  \A source \in Sources : \A j \in 1 .. Len(source) - 1 : source[j].k = "member"

VARIABLES
  bound,   (* the registry: what each name is bound to, or Nothing         *)
  held,    (* what each user bound when it was set up                      *)
  state,   (* of each user: "new", "ready", or "refused"                   *)
  phase,   (* of the run being made, "idle" when there is none             *)
  call,    (* what it is a run of                                          *)
  left,    (* the compressed data not yet read                             *)
  out,     (* how many bytes of output there are                           *)
  ran,     (* every run made: of whom, which name, and what it ran         *)
  result   (* what the last run came to                                    *)

registry == <<bound, held, state>>
run      == <<phase, call, left, out, ran, result>>
vars     == <<bound, held, state, phase, call, left, out, ran, result>>

Callables == Codecs \cup Callers

Calls == [user : Users, name : Names, runs : Callables, limit : Limits,
          source : Sources, type : {Untyped, Refuses} \cup Reads]

(***************************************************************************)
(* The registry.                                                           *)
(***************************************************************************)
Taken(name, replace) == bound[name] # Nothing /\ ~replace

Register(name, transformer, replace) ==
  /\ ~Taken(name, replace)
  /\ bound' = [bound EXCEPT ![name] = transformer]
  /\ UNCHANGED <<held, state, run>>

\* A bug kept as a mutant: of a switch, one case stands for all of them.
UsedOnce(u) == {CHOOSE name \in names : TRUE : names \in Fields[u] \ {{}}}

Used(u) == UNION Fields[u]

Missing(u) == {name \in Used(u) : bound[name] = Nothing}

(* bind and bind_names: every name used or none, and no other.             *)
Bound(u) == [name \in Names |-> IF name \in Used(u) THEN bound[name] ELSE Nothing]

Bind(u) ==
  /\ state[u] = "new"
  /\ Missing(u) = {}
  /\ held'  = [held EXCEPT ![u] = Bound(u)]
  /\ state' = [state EXCEPT ![u] = "ready"]
  /\ UNCHANGED <<bound, run>>

Refuse(u) ==
  /\ state[u] = "new"
  /\ Missing(u) # {}
  /\ state' = [state EXCEPT ![u] = "refused"]
  /\ UNCHANGED <<bound, held, run>>

(***************************************************************************)
(* One run.                                                                *)
(***************************************************************************)
\* A bug kept as a mutant: a run asks the registry for the name.
RunsNow(u, name) == bound[name]

Runs(u, name) == held[u][name]

Asked(u, name, source, limit, type) ==
  [user |-> u, name |-> name, runs |-> Runs(u, name), limit |-> limit,
   source |-> source, type |-> type]

Came(asked, ok, n, why) == [of |-> asked, ok |-> ok, n |-> n, why |-> why]

NoResult == Came(Nothing, FALSE, 0, "")

(* The source is a field that was not decoded, or an argument could not be *)
(* evaluated: nothing runs.                                                *)
NothingToRun(asked, why) ==
  /\ result' = Came(asked, FALSE, 0, why)
  /\ UNCHANGED <<registry, phase, call, left, out, ran>>

Start(asked) ==
  /\ phase' = IF asked.runs \in Codecs THEN "inflating" ELSE "calling"
  /\ call'  = asked
  /\ left'  = asked.source
  /\ out'   = 0
  /\ ran'   = ran \cup {<<asked.user, asked.name, asked.runs>>}
  /\ UNCHANGED <<registry, result>>

Begin(u, name, source, limit, type) ==
  LET asked == Asked(u, name, source, limit, type)
  IN  /\ state[u] = "ready" /\ phase = "idle" /\ result = NoResult
      /\ \E names \in Fields[u] : name \in names
      /\ \/ Start(asked)
         \/ NothingToRun(asked, "not decoded")
         \/ NothingToRun(asked, "argument")

Ends(ok, n, why) ==
  /\ phase'  = "idle"
  /\ call'   = Nothing
  /\ left'   = <<>>
  /\ out'    = 0
  /\ result' = Came(call, ok, n, why)
  /\ UNCHANGED <<registry, ran>>

Fails(why) == Ends(FALSE, 0, why)

\* A bug kept as a mutant: an output that fills the limit looks cut short.
RoomOfTheLimit == call.limit - out

(* The most the decompressor is asked for: a byte past what the limit      *)
(* leaves tells an output that fills it from one that passes it.           *)
Room == call.limit + 1 - out

Piece == IF left = <<>> THEN [k |-> "cut", n |-> 0] ELSE Head(left)

Unreadable == Piece.k = "corrupt" /\ Piece.n < Room

Grown == out + (IF Piece.n < Room THEN Piece.n ELSE Room)

\* A bug kept as a mutant: the next member is read from the same place.
UnusedAgain == IF Len(left) > 1 THEN left ELSE <<>>

Unused == Tail(left)

(* _decompressing: one member.                                             *)
Inflate ==
  /\ phase = "inflating"
  /\ \/ /\ Unreadable
        /\ Fails("not valid")
     \/ /\ ~Unreadable /\ Grown > call.limit
        /\ Fails("limit")
     \/ /\ ~Unreadable /\ Grown <= call.limit /\ Piece.k # "member"
        /\ Fails("ends early")
     \/ /\ Grown <= call.limit /\ Piece.k = "member" /\ Len(left) > 1
        /\ call.runs \notin Several
        /\ Fails("bytes follow")
     \/ /\ Grown <= call.limit /\ Piece.k = "member"
        /\ \/ Unused = <<>> /\ phase' = "returned"
           \/ Unused # <<>> /\ call.runs \in Several /\ phase' = "inflating"
        /\ out'  = Grown
        /\ left' = Unused
        /\ UNCHANGED <<registry, call, ran, result>>

(* A caller's function returns whatever it likes, or raises: what it says  *)
(* is not passed on.                                                       *)
CallerReturns ==
  /\ phase = "calling"
  /\ \/ \E n \in Returned :
          /\ phase' = "returned"
          /\ out'   = n
          /\ UNCHANGED <<registry, call, left, ran, result>>
     \/ \E why \in {"rejected", "raised", "not bytes"} : Fails(why)

\* A bug kept as a mutant: the output is not measured again.
HeldToLooser(n) == n <= call.limit + 1

HeldTo(n) == n <= call.limit

(* The end of apply, and run_transform's decode of the output.             *)
Returns ==
  /\ phase = "returned"
  /\ \/ ~HeldTo(out) /\ Fails("limit")
     \/ HeldTo(out) /\ call.type = Untyped /\ Ends(TRUE, out, "")
     \/ HeldTo(out) /\ call.type = Refuses /\ Fails("does not decode")
     \/ /\ HeldTo(out) /\ call.type \in Reads
        /\ \/ call.type > out /\ Fails("ends before its type does")
           \/ call.type < out /\ Fails("has bytes its type does not read")
           \/ call.type = out /\ Ends(TRUE, out, "")

(* The field has its value, or its failure, and decoding goes on.          *)
Delivered ==
  /\ result # NoResult
  /\ result' = NoResult
  /\ UNCHANGED <<registry, phase, call, left, out, ran>>

(***************************************************************************)
Init ==
  /\ bound  = [name \in Names |-> IF name \in DOMAIN Standard THEN Standard[name]
                                  ELSE Nothing]
  /\ held   = [u \in Users |-> [name \in Names |-> Nothing]]
  /\ state  = [u \in Users |-> "new"]
  /\ phase  = "idle"
  /\ call   = Nothing
  /\ left   = <<>>
  /\ out    = 0
  /\ ran    = {}
  /\ result = NoResult

Running == Inflate \/ CallerReturns \/ Returns \/ Delivered

Asks ==
  \E u \in Users, name \in Names, source \in Sources, limit \in Limits,
     type \in {Untyped, Refuses} \cup Reads : Begin(u, name, source, limit, type)

Setup ==
  \/ \E pair \in Registered, replace \in BOOLEAN : Register(pair[1], pair[2], replace)
  \/ \E u \in Users : Bind(u) \/ Refuse(u)

Next == Setup \/ Asks \/ Running

(* A transform is a call: it goes on until it returns.  A caller's own     *)
(* function is taken to return.                                            *)
Spec == Init /\ [][Next]_vars /\ WF_vars(Running)

(***************************************************************************)
(* Properties.                                                             *)
(***************************************************************************)

(* The variables have their types; a run that is made is of a callable.    *)
TypeOK ==
  /\ bound \in [Names -> Callables \cup {Nothing}]
  /\ held \in [Users -> [Names -> Callables \cup {Nothing}]]
  /\ state \in [Users -> {"new", "ready", "refused"}]
  /\ phase \in {"idle", "inflating", "calling", "returned"}
  /\ phase # "idle" => call \in Calls
  /\ left \in Seq(Pieces)
  /\ out \in Nat

(* However many members follow each other, and whatever a caller's         *)
(* function returns, no more than the limit is accepted as output, and     *)
(* inflating stops in memory the limit bounds.                             *)
WithinTheLimit ==
  /\ result.ok => result.n <= result.of.limit
  /\ phase = "inflating" => Grown <= call.limit + 1

(* No run, now or later, meets a name that is bound to nothing: a user     *)
(* that is set up has every name it may run, those a switch may choose     *)
(* included, so a message is never what discovers that one is missing.     *)
NamesAreBound ==
  \A u \in Users : state[u] = "ready" =>
    \A names \in Fields[u] : \A name \in names : held[u][name] # Nothing

(* A name means one thing to a decoder for as long as it lives, whatever   *)
(* is registered between two of its messages.                              *)
OneMeaning ==
  \A one, other \in ran :
    one[1] = other[1] /\ one[2] = other[2] => one[3] = other[3]

Inflated(source) ==
  LET total[j \in 0 .. Len(source)] == IF j = 0 THEN 0 ELSE total[j - 1] + source[j].n
  IN  total[Len(source)]

(* What a codec is found to say of its data, member by member, is what the *)
(* data as a whole is: an output that fills the limit exactly is accepted, *)
(* with empty members after it too; one a byte longer never is; and a      *)
(* failure is not blamed on the data when the limit was what stopped it,   *)
(* nor the other way round.                                                *)
SaysWhatTheDataIs ==
  LET of    == result.of
      whole == \A j \in DOMAIN of.source : of.source[j].k = "member"
      last  == of.source[Len(of.source)].k
  IN  of # Nothing /\ of.runs \in Codecs =>
        /\ result.ok => /\ whole /\ of.source # <<>>
                        /\ Len(of.source) = 1 \/ of.runs \in Several
                        /\ result.n = Inflated(of.source)
        /\ result.why = "limit" => Inflated(of.source) > of.limit
        /\ result.why = "not valid" => last = "corrupt" /\ Inflated(of.source) <= of.limit
        /\ result.why = "ends early" =>
              /\ of.source = <<>> \/ last = "cut"
              /\ Inflated(of.source) <= of.limit
        /\ result.why = "bytes follow" => Len(of.source) > 1

(* Every transform ends: a run of members is as finite as the data.        *)
EveryRunEnds == phase # "idle" ~> phase = "idle"

(* What is run under a name was bound to it when its user was set up, is a *)
(* callable, and stays the same.                                           *)
NamesStayBound == TypeOK /\ NamesAreBound /\ OneMeaning
=============================================================================
