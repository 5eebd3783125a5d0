--------------------------- MODULE PauseController ---------------------------
(***************************************************************************)
(* gateway/pause.go and the admin handlers of main.go that use it: the     *)
(* emergency pause, in memory, in the file that is to carry it over a      *)
(* restart, and in the gauge that monitoring reads.                        *)
(*                                                                         *)
(* SetPaused changes the memory under the lock and saves after it has let  *)
(* the lock go, and os.WriteFile empties the file before it writes it, so  *)
(* the calls of two operators overlap in every way and the process may die *)
(* with an empty file.                                                     *)
(***************************************************************************)
EXTENDS GatewayLife

CONSTANT Callers   \* concurrent calls of POST /admin/pause and /admin/resume

States == {"paused", "running"}
Unreadable == {"empty", "torn"}

VARIABLES
  paused,      \* the controller's state
  file,        \* the pause file: a state, "absent", or what cannot be parsed
  gauge,       \* metrics.SetPauseState
  call,        \* [Callers -> step, argument and copy taken by save]
  solo,        \* [Callers -> has the call had the controller to itself?]
  settled      \* what the last call, if it was solo, was told is in force

pauseVars == <<paused, file, gauge, call, solo, settled>>

Idle == [step |-> "idle", arg |-> "running", copy |-> "running"]
Busy == {c \in Callers : call[c].step # "idle"}

PauseInit ==
  /\ paused = "running" /\ file = "absent" /\ gauge = "running"
  /\ call = [c \in Callers |-> Idle] /\ solo = [c \in Callers |-> FALSE]
  /\ settled = "none"

----------------------------------------------------------------------------
(* The life of the process.                                                *)

(* NewPauseController: the file, if there is one, decides; --start-paused  *)
(* then overrides and saves.                                               *)
PauseLoad(startPaused) ==
  /\ file \notin Unreadable
  /\ IF startPaused
     THEN paused' = "paused" /\ file' = "paused" /\ settled' = "paused"
     ELSE /\ paused' = IF file = "absent" THEN "running" ELSE file
          /\ UNCHANGED <<file, settled>>
  /\ gauge' = paused'
  /\ UNCHANGED <<call, solo>>

(* NewPauseController fails: the file cannot be read or parsed, or, with   *)
(* --start-paused, the save fails or is cut off.                           *)
PauseLoadFails(startPaused) ==
  /\ \/ file \in Unreadable /\ UNCHANGED <<faults, file, settled>>
     \/ Fault /\ UNCHANGED <<file, settled>>
     \/ /\ startPaused /\ file \notin Unreadable /\ Fault
        /\ file' \in Unreadable /\ settled' = "none"
  /\ UNCHANGED <<paused, gauge, call, solo>>

(* The process ends: its memory is gone, the file stays as it is.          *)
PauseStop ==
  /\ paused' = "running" /\ gauge' = "running"
  /\ call' = [c \in Callers |-> Idle] /\ solo' = [c \in Callers |-> FALSE]
  /\ UNCHANGED <<file, settled>>

----------------------------------------------------------------------------
(* makePauseHandler and SetPaused.                                         *)

At(c, s) == up /\ call[c].step = s
Goto(c, s) == call' = [call EXCEPT ![c].step = s]
Return(c) == call' = [call EXCEPT ![c] = Idle]

(* Under the lock.                                                         *)
SetPaused(c, v) ==
  /\ At(c, "idle")
  /\ paused' = v
  /\ call' = [call EXCEPT ![c] = [step |-> "copy", arg |-> v, copy |-> v]]
  /\ solo' = [d \in Callers |-> d = c /\ Busy = {}]
  /\ settled' = "none"
  /\ UNCHANGED <<up, faults, file, gauge>>

(* Variant for the mutation runs: what was in force before is saved.       *)
SaveCopyStale(c) ==
  /\ At(c, "copy")
  /\ call' = [call EXCEPT ![c].step = "open", ![c].copy = gauge]
  /\ UNCHANGED <<up, faults, paused, file, gauge, solo, settled>>

(* save: the state is read under the lock, again.                          *)
SaveCopy(c) ==
  /\ At(c, "copy")
  /\ call' = [call EXCEPT ![c].step = "open", ![c].copy = paused]
  /\ UNCHANGED <<up, faults, paused, file, gauge, solo, settled>>

(* Variant: the error of a file that cannot be opened is dropped.          *)
SaveOpenOrSkip(c) ==
  /\ At(c, "open")
  /\ \/ file' = "empty" /\ Goto(c, "write") /\ UNCHANGED faults
     \/ Fault /\ Goto(c, "reply") /\ UNCHANGED file
  /\ UNCHANGED <<up, paused, gauge, solo, settled>>

(* os.WriteFile opens with O_TRUNC ...                                     *)
SaveOpen(c) ==
  /\ At(c, "open")
  /\ \/ file' = "empty" /\ Goto(c, "write") /\ UNCHANGED faults
     \/ Fault /\ Return(c) /\ UNCHANGED file
  /\ UNCHANGED <<up, paused, gauge, solo, settled>>

(* ... and writes at offset 0.  If another call has written meanwhile, and *)
(* more, the rest of its text remains.  A failure may leave a part.        *)
SaveWrite(c) ==
  /\ At(c, "write")
  /\ \/ /\ file' \in IF file = "empty" THEN {call[c].copy} ELSE {call[c].copy, "torn"}
        /\ Goto(c, "reply")
        /\ UNCHANGED faults
     \/ /\ Fault
        /\ file' \in {file, "torn"}
        /\ Return(c)
  /\ UNCHANGED <<up, paused, gauge, solo, settled>>

(* The save succeeded: the gauge is set and the operator is told.  (A save *)
(* that failed is answered with an error, though the state has changed,    *)
(* and the gauge is left alone.)                                           *)
Reply(c) ==
  /\ At(c, "reply")
  /\ gauge' = call[c].arg
  /\ Return(c)
  /\ settled' = IF solo[c] THEN call[c].arg ELSE settled
  /\ UNCHANGED <<up, faults, paused, file, solo>>

PauseStep ==
  \E c \in Callers :
    \/ \E v \in States : SetPaused(c, v)
    \/ SaveCopy(c) \/ SaveOpen(c) \/ SaveWrite(c) \/ Reply(c)

----------------------------------------------------------------------------
(* Properties.                                                             *)

PauseTypeOK ==
  /\ paused \in States /\ gauge \in States
  /\ file \in States \cup Unreadable \cup {"absent"}
  /\ call \in [Callers -> [step : {"idle", "copy", "open", "write", "reply"},
                           arg : States, copy : States]]
  /\ solo \in [Callers -> BOOLEAN]
  /\ settled \in States \cup {"none"}

(* What makes PauseSurvives inductive: a call that has had the controller  *)
(* to itself finds at each of its steps what it left there.                *)
SoloInv ==
  /\ ~up => Busy = {}
  /\ settled # "none" => Busy = {}
  /\ \A c \in Busy : solo[c] =>
       /\ Busy = {c}
       /\ paused = call[c].arg
       /\ call[c].step \in {"open", "write", "reply"} => call[c].copy = call[c].arg
       /\ call[c].step = "write" => file = "empty"
       /\ call[c].step = "reply" => file = call[c].arg

(* What an operator was told stays true: after a call of /admin/pause or   *)
(* /admin/resume that no other call overlapped and that was answered with  *)
(* success, and until the next call, the controller, the gauge and the     *)
(* file agree with it, over any number of crashes and restarts.            *)
PauseSurvives ==
  settled # "none" =>
    /\ file = settled
    /\ up => paused = settled /\ gauge = settled
=============================================================================
