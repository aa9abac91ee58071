------------------------------ MODULE MCImport ------------------------------
(***************************************************************************)
(* Instances of Import: two contents that share purchases.  "coffee" occurs*)
(* a day apart across the files (the same purchase under a tolerance of    *)
(* one day) and three days apart within one (two purchases).               *)
(***************************************************************************)
EXTENDS Import, TLC

CONSTANTS c1, c2, f1, f2

Day(n) == [iso |-> TRUE, day |-> n]
Raw(n) == [iso |-> FALSE, day |-> n]

Coffee(d) == [amount |-> -4500050, words |-> <<"coffee", "bv">>, date |-> d]
CoffeeId(d) == [amount |-> -4500000, words |-> <<"bv", "*123", "coffee">>, date |-> d]
Rent(d) == [amount |-> -900000000, words |-> <<"rent">>, date |-> d]

MCNoise == {"*123"}

MCRows == (f1 :> <<Coffee(Day(1)), CoffeeId(Day(2)), Coffee(Day(3))>>)
          @@ (f2 :> <<CoffeeId(Day(2)), Rent(Raw(7)), Rent(Day(7))>>)

Symm == Permutations(Calls)
=============================================================================
