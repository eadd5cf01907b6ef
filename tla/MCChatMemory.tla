---------------------------- MODULE MCChatMemory ----------------------------
(* ChatMemory on a small instance.                                         *)
EXTENDS ChatMemory, TLC

\* Turns, users and conversations are interchangeable.
Symmetry == Permutations(Turns) \cup Permutations(Users) \cup Permutations(Keys)
=============================================================================
