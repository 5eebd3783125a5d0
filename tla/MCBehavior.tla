----------------------------- MODULE MCBehavior -----------------------------
(* AgentBehavior for TLC: three risky requests of one agent and one of     *)
(* another, two attempts per window, a quarantine longer than the window   *)
(* as in the default policy.                                               *)
EXTENDS AgentBehavior, TLC

CONSTANTS r1, r2, r3, r4, a1, a2

AgentOfModel == (r1 :> a1) @@ (r2 :> a1) @@ (r3 :> a1) @@ (r4 :> a2)

Interchangeable == Permutations({r1, r2, r3})
=============================================================================
