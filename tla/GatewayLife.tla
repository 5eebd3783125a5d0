---------------------------- MODULE GatewayLife ----------------------------
(***************************************************************************)
(* What the stateful parts of one gateway process have in common: whether  *)
(* it serves requests, and a budget of operations that fail.               *)
(***************************************************************************)
EXTENDS Naturals

CONSTANT MaxFaults   \* bound: file and database operations that fail

ASSUME LifeAssumption == MaxFaults \in Nat

VARIABLES up,        \* does the process serve requests?
          faults     \* operations that have failed so far

Fault == faults < MaxFaults /\ faults' = faults + 1
=============================================================================
