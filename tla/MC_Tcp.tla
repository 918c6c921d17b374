------------------------------- MODULE MC_Tcp -------------------------------
(* Model-checking instance of Tcp: the client's sequence numbers wrap with *)
(* its first byte.                                                         *)
EXTENDS Tcp, TLC

InstIsn == Client :> 30 @@ Server :> 8
InstWrite == Client :> 2 @@ Server :> 0
=============================================================================
