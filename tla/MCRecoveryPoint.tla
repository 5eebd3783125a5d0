--------------------------- MODULE MCRecoveryPoint ---------------------------
(* Three snapshot ids, two keys to a page, and one manifest that somebody  *)
(* else may have left behind.                                              *)
EXTENDS RecoveryPoint

MCIds == 1..3
MCLeftovers == {"none", "foreign", "invalid", "undated"}
=============================================================================
