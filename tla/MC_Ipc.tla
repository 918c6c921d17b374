------------------------------- MODULE MC_Ipc -------------------------------
(* Small instances of Ipc: three tasks, two of which share a principal. *)
EXTENDS Ipc, TLC

CONSTANTS t1, t2, t3, pA, pB

MCTasks == {t1, t2, t3}
MCPrincipals == {pA, pB}
MCPrincipalOf == (t1 :> pA) @@ (t2 :> pA) @@ (t3 :> pB)

Policy(d, b) == [queue_depth |-> d, backpressure |-> b]

\* All three reactions to a full queue, depth 2 where order matters, and the
\* depth 0 the handler must refuse.
MCPolicies == {Policy(0, "Block"), Policy(1, "Block"), Policy(2, "Block"),
               Policy(1, "Drop"), Policy(2, "EvictOldest")}
=============================================================================
