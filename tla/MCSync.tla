------------------------------- MODULE MCSync -------------------------------
(* SyncPoller for TLC.                                                     *)
EXTENDS SyncPoller
=============================================================================
