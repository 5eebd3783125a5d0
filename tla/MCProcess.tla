----------------------------- MODULE MCProcess -----------------------------
(* Two operators, a memory of two entries, two faults and any number of    *)
(* restarts.  The operators are interchangeable.                           *)
EXTENDS GatewayProcess, TLC

Symmetry == Permutations(Callers)
=============================================================================
