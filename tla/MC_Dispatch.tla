----------------------------- MODULE MC_Dispatch -----------------------------
(* A System and an Interactive process, the latter of the class of the shell *)
(* and the desktop; a third, Background, where the run wants more.           *)
EXTENDS Dispatch, TLC

CONSTANTS sys, int, bg

MCPriorityOf ==
    (Kmain :> System) @@ (IdleTask :> Idle) @@ (sys :> System)
    @@ (int :> Interactive) @@ (bg :> Background)

MCPriority == [t \in Tasks |-> MCPriorityOf[t]]
=============================================================================
