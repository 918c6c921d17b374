------------------------------- MODULE MC_Ncfs -------------------------------
(* Model-checking instance of Ncfs. *)
EXTENDS Ncfs, TLC

Permuted == Permutations(Inodes)
=============================================================================
