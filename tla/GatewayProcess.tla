--------------------------- MODULE GatewayProcess ---------------------------
(***************************************************************************)
(* What one gateway process keeps outside its memory, over any number of   *)
(* starts and ends.  main.go records that it starts, fills the audit       *)
(* registry, which cannot fail the start, and builds the pause controller, *)
(* which can.  The two parts then work side by side.                       *)
(***************************************************************************)
EXTENDS PauseController, AuditRegistry

vars == <<up, faults, pauseVars, auditVars>>

Init == up = FALSE /\ faults = 0 /\ PauseInit /\ AuditInit

Start ==
  /\ ~up /\ up' = TRUE
  /\ AuditLoad
  /\ \E startPaused \in BOOLEAN : PauseLoad(startPaused)
  /\ UNCHANGED faults

(* log.Fatalf: the startup record cannot be written, or the pause          *)
(* controller cannot be built.                                             *)
StartFails ==
  /\ ~up
  /\ \/ \E startPaused \in BOOLEAN : PauseLoadFails(startPaused)
     \/ Fault /\ UNCHANGED pauseVars
  /\ UNCHANGED <<up, auditVars>>

(* A crash, a kill, or a shutdown that gives up on what is in progress.    *)
Stop ==
  /\ up /\ up' = FALSE
  /\ PauseStop /\ AuditStop

Next ==
  \/ Start \/ StartFails \/ Stop
  \/ PauseStep /\ UNCHANGED auditVars
  \/ AuditStep /\ UNCHANGED pauseVars

Spec == Init /\ [][Next]_vars

(* The inductive invariant of the process: types, what a pause call that   *)
(* ran alone finds at each step, what faults leave in the audit file, and  *)
(* how the file and the memory go together.                                *)
ProcessInv ==
  /\ up \in BOOLEAN /\ faults \in Nat
  /\ PauseTypeOK /\ SoloInv
  /\ AuditTypeOK /\ OneFaultInv /\ HistoryInv
=============================================================================
