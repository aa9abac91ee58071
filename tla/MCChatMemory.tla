---------------------------- MODULE MCChatMemory ----------------------------
(***************************************************************************)
(* Instances of ChatMemory: three turns over two sessions, small enough    *)
(* limits that the second turn of a session already compacts.              *)
(***************************************************************************)
EXTENDS ChatMemory, TLC

CONSTANTS t1, t2, t3, s1, s2

Symm == Permutations(Turns) \cup Permutations(Sessions)
=============================================================================
