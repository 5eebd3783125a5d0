----------------------------- MODULE MCApproval -----------------------------
(* ApprovalEngine for TLC: one request, three concurrent operator calls.   *)
EXTENDS ApprovalEngine
=============================================================================
