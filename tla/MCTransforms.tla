---------------------------- MODULE MCTransforms ----------------------------
(***************************************************************************)
(* Transforms for TLC: a codec of several members and one of one, a        *)
(* caller's cipher, and a name nothing binds until the caller does.        *)
(***************************************************************************)
EXTENDS Transforms

Of(k, n) == [k |-> k, n |-> n]

MCStandard == [name \in {"gzip", "deflate"} |-> name]

MCRegistered == {<<"own", "cipher">>, <<"gzip", "cipher">>}

(* A decoder whose switch chooses between two names, one not shipped, and  *)
(* a generated module of the shipped names.                                *)
MCFields ==
  [u \in {"decoder", "module"} |->
     IF u = "decoder" THEN {{"gzip", "own"}} ELSE {{"gzip"}, {"deflate"}}]

(* Up to two members, then nothing, a cut or a corrupt one.                *)
MCSources ==
  LET whole == {<<>>} \cup {<<Of("member", n)>> : n \in 0 .. 2}
                 \cup {<<Of("member", n), Of("member", l)>> : n \in 0 .. 2, l \in 0 .. 1}
  IN  whole \cup {Append(s, Of(k, n)) : s \in whole, k \in {"cut", "corrupt"}, n \in {0, 2}}
=============================================================================
