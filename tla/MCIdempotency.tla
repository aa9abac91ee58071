--------------------------- MODULE MCIdempotency ----------------------------
(***************************************************************************)
(* Instances of Idempotency: two keys whose transactions are two days      *)
(* apart, beyond the tolerance of the imports and within the warning's.    *)
(***************************************************************************)
EXTENDS Idempotency, TLC

CONSTANTS k1, k2, r1, r2, r3, r4

Lunch(d) == [amount |-> -9000000, words |-> <<"lunch">>, date |-> [iso |-> TRUE, day |-> d]]

MCBodies == (k1 :> Lunch(1)) @@ (k2 :> Lunch(3))

Symm == Permutations(Requests)
=============================================================================
