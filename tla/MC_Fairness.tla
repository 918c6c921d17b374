----------------------------- MODULE MC_Fairness -----------------------------
(* One task in each class of the rotation, two in the class that busy-yields. *)
EXTENDS Fairness, TLC

CONSTANTS s1, s2, rt, in, ai, bg

MCPriorityOf ==
    (s1 :> System) @@ (s2 :> System) @@ (rt :> RealTime) @@ (in :> Interactive)
    @@ (ai :> AiInference) @@ (bg :> Background)

MCPriority == [t \in Tasks |-> MCPriorityOf[t]]
=============================================================================
