---------------------------- MODULE MC_Supervisor ----------------------------
(* Model-checking instance of Supervisor: every graph over three services, *)
(* one of them socket-activated and one with a health check.               *)
EXTENDS Supervisor

InstPolicy == <<"OnFailure", "Always", "Never">>
InstHealth == <<0, 1, 0>>
=============================================================================
