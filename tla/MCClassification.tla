-------------------------- MODULE MCClassification --------------------------
(***************************************************************************)
(* An instance of Classification: a statement of two ambiguous merchants,  *)
(* one of them twice, and one with a keyword; and two of a single          *)
(* ambiguous merchant.                                                     *)
(***************************************************************************)
EXTENDS Classification, TLC

CONSTANTS u1, u2, u3, kA, kB, kK

R(m, keyword, income) == [merchant |-> m, keyword |-> keyword, income |-> income]

MCFile == [u \in Uploads |->
    IF u = u1
    THEN <<R(kK, "Food", FALSE), R(kA, NoMatch, FALSE), R(kB, NoMatch, FALSE), R(kA, NoMatch, TRUE)>>
    ELSE <<R(kA, NoMatch, FALSE), R(kA, NoMatch, TRUE)>>]

MCReplies == {Missing} \cup [category : {"Food", Unknown}, confidence : {"high"}]

Symm == Permutations({u2, u3})
=============================================================================
