------------------------------ MODULE MC_Pipes ------------------------------
(* Model-checking instance of Pipes. *)
EXTENDS Pipes
=============================================================================
