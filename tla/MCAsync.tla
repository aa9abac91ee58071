------------------------------ MODULE MCAsync -------------------------------
(***************************************************************************)
(* Instances of AsyncUpload.                                               *)
(***************************************************************************)
EXTENDS AsyncUpload, TLC

CONSTANTS j1, j2, f1, f2, w1, w2

MCCalls == Jobs \X (1 .. MaxReceive)

On(d) == [iso |-> TRUE, day |-> d]
Coffee(d) == [amount |-> -4500050, words |-> <<"coffee">>, date |-> On(d)]
Rent(d) == [amount |-> -900000000, words |-> <<"rent">>, date |-> On(d)]

MCRows == (f1 :> <<Coffee(1), Rent(1)>>) @@ (f2 :> <<Coffee(2)>>)

SameContent == [j \in Jobs |-> f1]
OneRowEach == [j \in Jobs |-> f2]
TwoContents == (j1 :> f1) @@ (j2 :> f2)

Symm == Permutations(Workers)
SymmBoth == Permutations(Workers) \cup Permutations(Jobs)
=============================================================================
