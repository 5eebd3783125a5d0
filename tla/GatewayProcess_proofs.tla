----------------------- MODULE GatewayProcess_proofs -----------------------
(***************************************************************************)
(* Proofs about what a gateway process keeps over restarts, for any number *)
(* of operators, entries, faults and restarts.                             *)
(***************************************************************************)
EXTENDS GatewayProcess, TLAPS

PInv == up \in BOOLEAN /\ PauseTypeOK /\ SoloInv /\ PauseSurvives

(* Of the types only those that the account of the faults needs: what is   *)
(* in memory plays no part in it.                                          *)
AInv ==
  /\ faults \in Nat /\ fragment \in BOOLEAN /\ last \in Nat /\ lines \in Seq(Nat)
  /\ OneFaultInv /\ TwoFaultsToLose

----------------------------------------------------------------------------
(* The pause controller.                                                   *)

(* The start and the end of the process keep what an operator was told:    *)
(* nothing is in progress while there is no process, and a start takes its *)
(* state from the file.                                                    *)
LEMMA LifeKeepsPause ==
  ASSUME PInv, Start \/ StartFails \/ Stop
  PROVE  PInv'
<1> USE DEF PInv, PauseTypeOK, SoloInv, PauseSurvives, Busy, Idle, States, Unreadable
<1>1. CASE Start
  <2>1. PICK sp \in BOOLEAN : PauseLoad(sp)
    BY <1>1 DEF Start
  <2>2. Busy = {} /\ call' = call /\ solo' = solo /\ up' = TRUE
    BY <1>1, <2>1 DEF Start, PauseLoad
  <2>3. CASE sp
    BY <2>1, <2>2, <2>3 DEF PauseLoad
  <2>4. CASE ~sp
    BY <2>1, <2>2, <2>4 DEF PauseLoad
  <2> QED
    BY <2>3, <2>4
<1>2. CASE StartFails
  <2>1. Busy = {} /\ call' = call /\ solo' = solo /\ up' = up /\ ~up
    BY <1>2 DEF StartFails, PauseLoadFails, pauseVars
  <2>2. \/ file' = file /\ settled' = settled
        \/ file' \in Unreadable /\ settled' = "none"
    BY <1>2 DEF StartFails, PauseLoadFails, pauseVars
  <2>3. paused' = paused /\ gauge' = gauge
    BY <1>2 DEF StartFails, PauseLoadFails, pauseVars
  <2> QED
    BY <2>1, <2>2, <2>3
<1>3. CASE Stop
  BY <1>3, Zenon DEF Stop, PauseStop
<1> QED
  BY <1>1, <1>2, <1>3

(* No step of a pause call undoes what an earlier one, that ran alone, was *)
(* told: a new call withdraws it, and only a call that is alone renews it. *)
LEMMA CallKeepsPause ==
  ASSUME PInv, NEW c \in Callers,
         \/ \E v \in States : SetPaused(c, v)
         \/ SaveCopy(c) \/ SaveOpen(c) \/ SaveWrite(c) \/ Reply(c)
  PROVE  PInv'
<1> USE DEF PInv, PauseTypeOK, SoloInv, PauseSurvives, Busy, Idle, States, Unreadable,
            At, Goto, Return
<1>1. ASSUME NEW v \in States, SetPaused(c, v)
      PROVE  PInv'
  <2>1. call' \in [Callers -> [step : {"idle", "copy", "open", "write", "reply"},
                               arg : States, copy : States]]
    BY <1>1 DEF SetPaused
  <2>2. solo' \in [Callers -> BOOLEAN]
    BY <1>1, Zenon DEF SetPaused
  <2>3. \A d \in Callers : solo'[d] => d = c /\ Busy = {}
    BY <1>1, Zenon DEF SetPaused
  <2>4. up /\ up' = up /\ file' = file /\ gauge' = gauge /\ paused' = v /\ settled' = "none"
    BY <1>1 DEF SetPaused
  <2>5. call'[c] = [step |-> "copy", arg |-> v, copy |-> v]
    BY <1>1 DEF SetPaused
  <2>6. \A d \in Callers \ {c} : call'[d] = call[d]
    BY <1>1 DEF SetPaused
  <2>7. SoloInv'
    BY <2>3, <2>4, <2>5, <2>6
  <2> QED
    BY <2>1, <2>2, <2>4, <2>7
<1>2. CASE SaveCopy(c)
  <2>1. /\ call[c].step = "copy" /\ up
        /\ UNCHANGED <<up, paused, file, gauge, solo, settled>>
    BY <1>2 DEF SaveCopy
  <2>2. call' \in [Callers -> [step : {"idle", "copy", "open", "write", "reply"},
                               arg : States, copy : States]]
    <3>1. [call[c] EXCEPT !.step = "open", !.copy = paused]
            \in [step : {"idle", "copy", "open", "write", "reply"}, arg : States, copy : States]
      BY Zenon
    <3>2. call' = [call EXCEPT ![c] = [@ EXCEPT !.step = "open", !.copy = paused]]
      BY <1>2, Zenon DEF SaveCopy
    <3> QED
      BY <3>1, <3>2
  <2>3. call'[c].step = "open" /\ call'[c].arg = call[c].arg /\ call'[c].copy = paused
    BY <1>2 DEF SaveCopy
  <2>4. \A d \in Callers \ {c} : call'[d] = call[d]
    BY <1>2 DEF SaveCopy
  <2>5. Busy' = Busy /\ c \in Busy
    BY <2>1, <2>3, <2>4
  <2>6. SoloInv'
    BY <2>1, <2>3, <2>4, <2>5
  <2> QED
    BY <2>1, <2>2, <2>6
<1>3. CASE SaveOpen(c)
  BY <1>3 DEF SaveOpen
<1>4. CASE SaveWrite(c)
  <2>1. /\ call[c].step = "write" /\ up /\ c \in Busy
        /\ UNCHANGED <<up, paused, gauge, solo, settled>>
    BY <1>4 DEF SaveWrite
  <2>2. settled = "none" /\ \A d \in Callers : d \in Busy /\ solo[d] => d = c
    BY <2>1
  <2>3. \A d \in Callers \ {c} : call'[d] = call[d]
    BY <1>4 DEF SaveWrite
  <2>4. CASE /\ file' \in IF file = "empty" THEN {call[c].copy} ELSE {call[c].copy, "torn"}
             /\ Goto(c, "reply")
    <3>1. /\ call'[c].step = "reply" /\ call'[c].arg = call[c].arg
          /\ call'[c].copy = call[c].copy
      BY <2>4
    <3>2. PauseTypeOK'
      BY <2>1, <2>4
    <3>3. Busy' = Busy
      BY <2>1, <2>3, <3>1
    <3>4. solo[c] => file' = call[c].arg
      BY <2>1, <2>4
    <3>5. SoloInv'
      BY <2>1, <2>2, <2>3, <3>1, <3>3, <3>4
    <3> QED
      BY <2>1, <2>2, <3>2, <3>5
  <2>5. CASE file' \in {file, "torn"} /\ Return(c)
    <3>1. PauseTypeOK'
      BY <2>1, <2>5
    <3>2. Busy' = Busy \ {c}
      BY <2>1, <2>3, <2>5
    <3>3. SoloInv'
      BY <2>1, <2>2, <2>3, <3>2
    <3> QED
      BY <2>1, <2>2, <3>1, <3>3
  <2> QED
    BY <1>4, <2>4, <2>5 DEF SaveWrite
<1>5. CASE Reply(c)
  BY <1>5 DEF Reply
<1> QED
  BY <1>1, <1>2, <1>3, <1>4, <1>5

LEMMA PauseAlways == Spec => []PInv
<1>1. Init => PInv
  <2> SUFFICES ASSUME Init
               PROVE  PInv
    OBVIOUS
  <2>1. Busy = {}
    BY DEF Init, PauseInit, Busy, Idle
  <2>2. solo \in [Callers -> BOOLEAN]
    BY Zenon DEF Init, PauseInit
  <2>3. PauseTypeOK
    BY <2>2 DEF Init, PauseInit, PauseTypeOK, Idle, States, Unreadable
  <2> QED
    BY <2>1, <2>3, Zenon DEF Init, PauseInit, PInv, SoloInv, PauseSurvives
<1>2. PInv /\ [Next]_vars => PInv'
  <2> SUFFICES ASSUME PInv, [Next]_vars
               PROVE  PInv'
    OBVIOUS
  <2>1. CASE Start \/ StartFails \/ Stop
    BY <2>1, LifeKeepsPause
  <2>2. CASE PauseStep
    BY <2>2, CallKeepsPause DEF PauseStep
  <2>3. CASE AuditStep /\ UNCHANGED pauseVars
    <3>1. up' = up
      BY <2>3 DEF AuditStep, Record, AppendAuditLog, RecordAudit
    <3> QED
      BY <2>3, <3>1 DEF PInv, PauseTypeOK, SoloInv, PauseSurvives, Busy, pauseVars
  <2>4. CASE UNCHANGED vars
    BY <2>4 DEF vars, PInv, PauseTypeOK, SoloInv, PauseSurvives, Busy, pauseVars
  <2> QED
    BY <2>1, <2>2, <2>3, <2>4 DEF Next
<1> QED
  BY <1>1, <1>2, PTL DEF Spec

(* The emergency pause outlives the process: what an operator was told by  *)
(* an answered pause or resume call that no other overlapped stays in      *)
(* force, in memory, gauge and file, until the next call, over any number  *)
(* of crashes and restarts.                                                *)
THEOREM PauseSurvivesAlways == Spec => []PauseSurvives
BY PauseAlways, PTL DEF PInv

----------------------------------------------------------------------------
(* The audit registry.                                                     *)

(* A line that is appended leaves every earlier line in its place.         *)
LEMMA AppendKeepsLines ==
  ASSUME NEW s \in Seq(Nat), NEW e \in Nat
  PROVE  /\ Append(s, e) \in Seq(Nat)
         /\ Lines(Append(s, e)) = Lines(s) \cup {e}
<1>1. Append(s, e) \in Seq(Nat) /\ Len(Append(s, e)) = Len(s) + 1
  OBVIOUS
<1>2. \A n \in 1..Len(s) : Append(s, e)[n] = s[n]
  OBVIOUS
<1>3. Append(s, e)[Len(s) + 1] = e
  OBVIOUS
<1>4. DOMAIN Append(s, e) = (1..Len(s)) \cup {Len(s) + 1} /\ DOMAIN s = 1..Len(s)
  BY <1>1
<1> QED
  BY <1>1, <1>2, <1>3, <1>4 DEF Lines

(* Every step of the process keeps the account of the faults: a fragment   *)
(* costs one, and a second is needed before an entry is in neither store.  *)
LEMMA StepKeepsAudit ==
  ASSUME AInv, [Next]_vars
  PROVE  AInv'
<1> USE DEF AInv, OneFaultInv, TwoFaultsToLose, Fault
<1>1. ASSUME NEW big \in BOOLEAN, Record(big)
      PROVE  AInv'
  <2>1. Lines(lines)' = Lines(lines)
    BY <1>1 DEF Record, Lines
  <2> QED
    BY <1>1, <2>1 DEF Record
<1>2. CASE AppendAuditLog
  <2>1. CASE AppendLine /\ UNCHANGED faults
    <3>1. lines' \in Seq(Nat) /\ Lines(lines') = Lines(lines) \cup IF fragment THEN {} ELSE {last}
      BY <2>1, AppendKeepsLines DEF AppendLine
    <3>2. Lines(lines)' = Lines(lines')
      BY DEF Lines
    <3> QED
      BY <1>2, <2>1, <3>1, <3>2, Zenon DEF AppendAuditLog, AppendLine
  <2>2. CASE Fault /\ AppendPart
    <3>1. Lines(lines)' = Lines(lines)
      BY <2>2 DEF AppendPart, Lines
    <3>2. fragment' \in BOOLEAN /\ lines' \in Seq(Nat)
      BY <2>2, Zenon DEF AppendPart
    <3>3. faults' = faults + 1 /\ step' = "row" /\ UNCHANGED <<rows, last, recorded>>
      BY <1>2, <2>2 DEF AppendAuditLog
    <3> QED
      BY <3>1, <3>2, <3>3
  <2> QED
    BY <1>2, <2>1, <2>2 DEF AppendAuditLog
<1>3. CASE RecordAudit
  <2>1. Lines(lines)' = Lines(lines)
    BY <1>3 DEF RecordAudit, Lines
  <2>2. faults' \in Nat /\ faults' >= faults /\ rows \subseteq rows'
    BY <1>3 DEF RecordAudit
  <2>3. last \in Lines(lines) \/ last \in rows' \/ faults' >= 2
    BY <1>3 DEF RecordAudit
  <2> QED
    BY <1>3, <2>1, <2>2, <2>3 DEF RecordAudit
<1>4. CASE Stop
  <2>1. Lines(lines)' = Lines(lines)
    BY <1>4 DEF Stop, AuditStop, Lines
  <2>2. \/ fragment' = fragment /\ faults' = faults
        \/ fragment' = TRUE /\ faults' = faults + 1
    BY <1>4 DEF Stop, AuditStop
  <2>3. step' = "free" /\ UNCHANGED <<lines, rows, last, recorded>>
    BY <1>4 DEF Stop, AuditStop
  <2>4. fragment' \in BOOLEAN
    BY <2>2, Zenon
  <2>5. faults' \in Nat /\ faults' >= faults /\ (fragment' => faults' >= 1)
    BY <2>2
  <2> QED
    BY <2>1, <2>3, <2>4, <2>5
<1>5. ASSUME UNCHANGED <<lines, fragment, rows, step, last, recorded>>,
             faults' \in Nat, faults' >= faults
      PROVE  AInv'
  <2>1. Lines(lines)' = Lines(lines)
    BY <1>5 DEF Lines
  <2> QED
    BY <1>5, <2>1
<1>6. CASE Start
  BY <1>5, <1>6 DEF Start, AuditLoad
<1>7. CASE StartFails
  BY <1>5, <1>7 DEF StartFails, PauseLoadFails, pauseVars, auditVars
<1>8. CASE PauseStep /\ UNCHANGED auditVars
  <2>1. faults' \in Nat /\ faults' >= faults
    BY <1>8 DEF PauseStep, SetPaused, SaveCopy, SaveOpen, SaveWrite, Reply
  <2> QED
    BY <1>5, <1>8, <2>1 DEF auditVars
<1>9. CASE UNCHANGED vars
  BY <1>5, <1>9 DEF vars, auditVars
<1> QED
  BY <1>1, <1>2, <1>3, <1>4, <1>6, <1>7, <1>8, <1>9 DEF Next, AuditStep

LEMMA StartsWithoutFaults == Init => AInv
<1> SUFFICES ASSUME Init
             PROVE  AInv
  OBVIOUS
<1>1. fragment \in BOOLEAN
  BY Zenon DEF Init, AuditInit
<1>2. lines \in Seq(Nat)
  BY DEF Init, AuditInit
<1>3. ~fragment /\ step = "free" /\ recorded = {} /\ faults = 0 /\ last = 0
  BY DEF Init, AuditInit
<1> QED
  BY <1>1, <1>2, <1>3 DEF AInv, OneFaultInv, TwoFaultsToLose

(* A recorded decision survives any single fault: an entry whose           *)
(* RecordDetailed has returned is in the audit file or in audit_events     *)
(* unless two operations failed, over any number of restarts.              *)
THEOREM TwoFaultsAlways == Spec => []TwoFaultsToLose
<1>1. AInv => TwoFaultsToLose
  BY DEF AInv
<1> QED
  BY <1>1, StartsWithoutFaults, StepKeepsAudit, PTL DEF Spec

----------------------------------------------------------------------------
(* The history in memory.                                                  *)

HInv == AuditTypeOK /\ HistoryInv /\ HistoryOrdered

(* trimLocked keeps the newest: it shifts the sequence, and by no more     *)
(* than it has to.                                                         *)
LEMMA TrimShifts ==
  ASSUME NEW s \in Seq(Nat)
  PROVE  /\ Trim(s) \in Seq(Nat)
         /\ \E d \in 0..Len(s) :
              /\ Len(Trim(s)) = Len(s) - d
              /\ \A n \in 1..Len(Trim(s)) : Trim(s)[n] = s[n + d]
              /\ d = 0 => Len(s) <= MaxInMemory
              /\ d # 0 => Len(Trim(s)) = MaxInMemory
<1>1. MaxInMemory \in Nat \ {0} /\ Len(s) \in Nat
  BY AuditAssumption
<1>2. CASE Len(s) <= MaxInMemory
  <2>1. Trim(s) = s
    BY <1>2 DEF Trim
  <2>2. 0 \in 0..Len(s)
    BY <1>1
  <2> QED
    BY <1>1, <1>2, <2>1, <2>2
<1>3. CASE ~(Len(s) <= MaxInMemory)
  <2> DEFINE d == Len(s) - MaxInMemory
  <2>1. d \in 1..Len(s) /\ Trim(s) = SubSeq(s, d + 1, Len(s))
    BY <1>1, <1>3 DEF Trim
  <2>2. /\ Trim(s) \in Seq(Nat) /\ Len(Trim(s)) = Len(s) - d
        /\ \A n \in 1..Len(Trim(s)) : Trim(s)[n] = s[n + d]
    <3>1. \A i \in (d + 1)..Len(s) : s[i] \in Nat
      BY <1>1, <2>1, SMTT(30)
    <3> QED
      BY <1>1, <2>1, <3>1, SMTT(30)
  <2>3. d \in 0..Len(s) /\ d # 0 /\ Len(s) - d = MaxInMemory
    BY <1>1, <2>1
  <2> HIDE DEF d
  <2> QED
    BY <2>2, <2>3, Zenon
<1> QED
  BY <1>2, <1>3

(* So it keeps the order, the newest entry, and an account of the others.  *)
LEMMA TrimKeepsNewest ==
  ASSUME NEW s \in Seq(Nat), Increasing(s)
  PROVE  /\ Trim(s) \in Seq(Nat) /\ Len(Trim(s)) <= MaxInMemory /\ Increasing(Trim(s))
         /\ Lines(Trim(s)) \subseteq Lines(s)
         /\ Len(s) > 0 => Len(Trim(s)) > 0 /\ Trim(s)[Len(Trim(s))] = s[Len(s)]
         /\ \A e \in Lines(s) : Covers(Trim(s), e)
         /\ Len(s) > MaxInMemory => Len(Trim(s)) = MaxInMemory
<1>1. PICK t \in Seq(Nat) : t = Trim(s)
  BY TrimShifts
<1>2. PICK d \in 0..Len(s) : /\ Len(t) = Len(s) - d
                             /\ \A n \in 1..Len(t) : t[n] = s[n + d]
                             /\ d = 0 => Len(s) <= MaxInMemory
                             /\ d # 0 => Len(t) = MaxInMemory
  BY <1>1, TrimShifts, Zenon
<1>3. /\ MaxInMemory \in Nat \ {0} /\ Len(s) \in Nat /\ Len(t) \in Nat /\ d \in Nat
      /\ DOMAIN s = 1..Len(s) /\ DOMAIN t = 1..Len(t)
      /\ \A n \in 1..Len(t) : n + d \in 1..Len(s)
  BY <1>2, AuditAssumption
<1>4. Len(t) <= MaxInMemory /\ (Len(s) > MaxInMemory => Len(t) = MaxInMemory)
  BY <1>2, <1>3
<1>5. Increasing(t)
  <2> SUFFICES ASSUME NEW n \in 1..Len(t), NEW k \in 1..Len(t), n < k
               PROVE  t[n] < t[k]
    BY <1>3 DEF Increasing
  <2>1. n + d \in DOMAIN s /\ k + d \in DOMAIN s /\ n + d < k + d
    BY <1>3
  <2>2. s[n + d] < s[k + d]
    BY <2>1 DEF Increasing
  <2> QED
    BY <1>2, <2>2
<1>6. Lines(t) \subseteq Lines(s)
  BY <1>2, <1>3, Zenon DEF Lines
<1>7. Len(s) > 0 => Len(t) > 0 /\ t[Len(t)] = s[Len(s)]
  <2>1. ASSUME Len(s) > 0
        PROVE  Len(t) > 0
    BY <1>2, <1>3, <2>1
  <2>2. Len(t) + d = Len(s)
    BY <1>2, <1>3
  <2>3. ASSUME Len(t) > 0
        PROVE  Len(t) \in 1..Len(t)
    BY <1>3, <2>3
  <2> QED
    BY <1>2, <2>1, <2>2, <2>3, Zenon
<1>8. ASSUME NEW i \in 1..Len(s)
      PROVE  Covers(t, s[i])
  <2>1. CASE i <= d
    <3>1. \A n \in 1..Len(t) : s[i] < s[n + d]
      <4> SUFFICES ASSUME NEW n \in 1..Len(t)
                   PROVE  s[i] < s[n + d]
        OBVIOUS
      <4>1. i \in DOMAIN s /\ n + d \in DOMAIN s /\ i < n + d
        BY <1>3, <2>1
      <4> QED
        BY <4>1 DEF Increasing
    <3>2. \A n \in 1..Len(t) : s[i] \in Nat /\ s[n + d] \in Nat
      BY <1>3, SMTT(30)
    <3>3. \A n \in DOMAIN t : t[n] > s[i]
      BY <1>2, <1>3, <3>1, <3>2, Zenon
    <3> QED
      BY <1>2, <2>1, <3>3 DEF Covers
  <2>2. CASE ~(i <= d)
    <3>1. i - d \in 1..Len(t) /\ (i - d) + d = i
      BY <1>2, <1>3, <2>2
    <3>2. t[i - d] = s[i]
      BY <1>2, <3>1
    <3> QED
      BY <1>3, <3>1, <3>2, Zenon DEF Covers, Lines
  <2> QED
    BY <2>1, <2>2
<1> QED
  BY <1>1, <1>3, <1>4, <1>5, <1>6, <1>7, <1>8, Zenon DEF Lines

(* A number higher than all others keeps a sequence in order.              *)
LEMMA AppendKeepsOrder ==
  ASSUME NEW s \in Seq(Nat), NEW e \in Nat, Increasing(s), \A n \in DOMAIN s : s[n] < e
  PROVE  Increasing(Append(s, e))
<1>1. /\ DOMAIN s = 1..Len(s) /\ DOMAIN Append(s, e) = 1..(Len(s) + 1) /\ Len(s) \in Nat
      /\ \A n \in 1..Len(s) : Append(s, e)[n] = s[n]
      /\ Append(s, e)[Len(s) + 1] = e
  OBVIOUS
<1> SUFFICES ASSUME NEW n \in 1..(Len(s) + 1), NEW k \in 1..(Len(s) + 1), n < k
             PROVE  Append(s, e)[n] < Append(s, e)[k]
  BY <1>1 DEF Increasing
<1>2. n \in 1..Len(s) /\ (k = Len(s) + 1 \/ k \in 1..Len(s))
  BY <1>1
<1>3. CASE k = Len(s) + 1
  BY <1>1, <1>2, <1>3
<1>4. CASE k \in 1..Len(s)
  BY <1>1, <1>2, <1>4 DEF Increasing
<1> QED
  BY <1>2, <1>3, <1>4

(* RecordDetailed in memory: the new entry is the newest, and whatever it  *)
(* pushes out is older than all that stays.                                *)
LEMMA RecordKeepsHistory ==
  ASSUME HInv, NEW big \in BOOLEAN, Record(big)
  PROVE  HInv'
<1> USE DEF HInv, AuditTypeOK, HistoryOrdered
<1> DEFINE s == Append(entries, last + 1)
<1>1. /\ last' = last + 1 /\ entries' = Trim(s) /\ step' = "file" /\ up /\ up' /\ long' = big
      /\ UNCHANGED <<faults, lines, fragment, rows, overlong, recorded>>
  BY DEF Record
<1>2. /\ s \in Seq(Nat) /\ Len(s) = Len(entries) + 1 /\ s[Len(s)] = last + 1
      /\ Lines(s) = Lines(entries) \cup {last + 1} /\ Len(entries) \in Nat
  BY AppendKeepsLines
<1>3. Increasing(s)
  <2>1. \A n \in DOMAIN entries : entries[n] < last + 1
    BY DEF HistoryInv
  <2> QED
    BY <2>1, AppendKeepsOrder
<1> HIDE DEF s
<1>4. /\ entries' \in Seq(Nat) /\ Len(entries') <= MaxInMemory /\ Increasing(entries')
      /\ Lines(entries') \subseteq Lines(s)
      /\ Len(entries') > 0 /\ entries'[Len(entries')] = last + 1
      /\ \A e \in Lines(s) : Covers(entries', e)
      /\ Len(s) > MaxInMemory => Len(entries') = MaxInMemory
  <2>1. Len(s) > 0
    BY <1>2
  <2>2. /\ Trim(s) \in Seq(Nat) /\ Len(Trim(s)) <= MaxInMemory /\ Increasing(Trim(s))
        /\ Lines(Trim(s)) \subseteq Lines(s)
        /\ Len(Trim(s)) > 0 /\ Trim(s)[Len(Trim(s))] = s[Len(s)]
        /\ \A e \in Lines(s) : Covers(Trim(s), e)
        /\ Len(s) > MaxInMemory => Len(Trim(s)) = MaxInMemory
    BY <1>2, <1>3, <2>1, TrimKeepsNewest, Zenon
  <2> QED
    BY <1>1, <1>2, <2>2, Zenon
<1>5. AuditTypeOK'
  <2>1. last' \in Nat
    BY <1>1
  <2> QED
    BY <1>1, <1>4, <2>1, Zenon
<1>6. \A n \in DOMAIN entries' : entries'[n] <= last'
  <2>1. \A e \in Lines(s) : e <= last + 1
    <3>1. \A e \in Lines(entries) : e \in Nat /\ e <= last
      BY DEF HistoryInv, Lines
    <3> QED
      BY <1>2, <3>1
  <2>2. \A n \in DOMAIN entries' : entries'[n] \in Lines(entries')
    BY DEF Lines
  <2> QED
    BY <1>1, <1>4, <2>1, <2>2
<1>7. ASSUME ~overlong, NEW e \in Lines(lines)
      PROVE  Covers(entries', e)
  <2>1. CASE e \in Lines(entries)
    BY <1>2, <1>4, <2>1
  <2>2. CASE Len(entries) = MaxInMemory /\ \A n \in DOMAIN entries : entries[n] > e
    <3>1. Len(entries') = MaxInMemory
      BY <1>2, <1>4, <2>2
    <3>2. e < last + 1
      BY DEF HistoryInv, Lines
    <3>3. \A x \in Lines(s) : x > e
      BY <1>2, <2>2, <3>2, Zenon DEF Lines
    <3> QED
      BY <1>4, <3>1, <3>3, Zenon DEF Covers, Lines
  <2> QED
    BY <1>1, <1>7, <2>1, <2>2 DEF HistoryInv, Covers
<1>8. \A n \in DOMAIN lines' : lines'[n] < last'
  BY <1>1 DEF HistoryInv
<1>9. Lines(lines)' = Lines(lines) /\ Increasing(lines)'
  BY <1>1 DEF Lines, HistoryInv, Increasing
<1> QED
  BY <1>1, <1>4, <1>5, <1>6, <1>7, <1>8, <1>9 DEF HistoryInv, Covers, Lines, Increasing

(* appendAuditLog: the line that is added holds the newest entry, which is *)
(* in memory, and no line behind a fragment or cut short can be read.      *)
LEMMA AppendKeepsHistory ==
  ASSUME AInv, HInv, AppendAuditLog
  PROVE  HInv'
<1> USE DEF HInv, AuditTypeOK, HistoryOrdered
<1>1. /\ up /\ up' = up /\ step = "file" /\ step' = "row"
      /\ UNCHANGED <<entries, rows, long, last, recorded>>
  BY DEF AppendAuditLog
<1>2. /\ faults' = 0 => faults = 0
      /\ ~overlong' => ~overlong
      /\ fragment' \in BOOLEAN /\ overlong' \in BOOLEAN
  <2>1. faults' = 0 => faults = 0
    BY DEF AppendAuditLog, Fault, AInv
  <2> QED
    BY <2>1, Zenon DEF AppendAuditLog, AppendLine, AppendPart
<1>3. lines' = lines \/ lines' = Append(lines, last)
  BY Zenon DEF AppendAuditLog, AppendLine, AppendPart
<1>4. /\ lines' \in Seq(Nat) /\ Increasing(lines')
      /\ Lines(lines) \subseteq Lines(lines') /\ Lines(lines') \subseteq Lines(lines) \cup {last}
  <2>1. CASE lines' = lines
    BY <2>1 DEF HistoryInv
  <2>2. CASE lines' = Append(lines, last)
    <3>1. Increasing(lines) /\ \A n \in DOMAIN lines : lines[n] < last
      BY <1>1 DEF HistoryInv
    <3> QED
      BY <2>2, <3>1, AppendKeepsLines, AppendKeepsOrder
  <2> QED
    BY <1>3, <2>1, <2>2
<1>5. \A n \in DOMAIN lines' : lines'[n] <= last
  <2>1. \A n \in DOMAIN lines' : lines'[n] \in Lines(lines')
    BY DEF Lines
  <2>2. \A e \in Lines(lines) : e <= last
    BY DEF HistoryInv, Lines
  <2> QED
    BY <1>4, <2>1, <2>2
<1>6. ASSUME ~overlong
      PROVE  \A e \in Lines(lines') : Covers(entries, e)
  <2>1. last \in Lines(entries)
    BY <1>1 DEF HistoryInv, Lines
  <2> QED
    BY <1>1, <1>4, <1>6, <2>1 DEF HistoryInv, Covers
<1>7. AuditTypeOK'
  BY <1>1, <1>2, <1>4, Zenon
<1>8. HistoryInv'
  <2>1. faults' = 0 => recorded' \subseteq Lines(lines')
    BY <1>1, <1>2, <1>4 DEF HistoryInv
  <2>2. /\ \A n \in DOMAIN entries : entries[n] <= last
        /\ Len(entries) > 0 /\ entries[Len(entries)] = last
    BY <1>1 DEF HistoryInv
  <2> QED
    BY <1>1, <1>2, <1>4, <1>5, <1>6, <2>1, <2>2, Zenon DEF HistoryInv, Covers, Lines, Increasing
<1> QED
  BY <1>1, <1>7, <1>8 DEF Increasing

(* Every step of the process keeps memory and file in order and together.  *)
LEMMA StepKeepsHistory ==
  ASSUME AInv, HInv, [Next]_vars
  PROVE  HInv'
<1> USE DEF HInv, AuditTypeOK, HistoryOrdered
<1>1. CASE RecordAudit
  <2>1. /\ up /\ up' = up /\ step = "row" /\ step' = "free" /\ long' = FALSE
        /\ recorded' = recorded \cup {last} /\ rows' \subseteq rows \cup {last}
        /\ UNCHANGED <<entries, lines, fragment, overlong, last>>
    BY <1>1 DEF RecordAudit
  <2>2. faults' = 0 => faults = 0 /\ last \in Lines(lines)
    BY <1>1 DEF RecordAudit, Fault, AInv, OneFaultInv
  <2>3. AuditTypeOK'
    BY <2>1, Zenon
  <2>4. faults' = 0 => recorded' \subseteq Lines(lines)
    BY <2>1, <2>2 DEF HistoryInv
  <2>5. HistoryInv'
    BY <2>1, <2>4 DEF HistoryInv, Covers, Lines, Increasing
  <2> QED
    BY <2>1, <2>3, <2>5 DEF Increasing
<1>2. CASE Stop
  <2>1. /\ ~up' /\ entries' = <<>> /\ step' = "free" /\ long' = FALSE
        /\ UNCHANGED <<lines, rows, last, recorded>>
    BY <1>2 DEF Stop, AuditStop
  <2>2. fragment' \in BOOLEAN /\ overlong' \in BOOLEAN
    BY <1>2, Zenon DEF Stop, AuditStop
  <2>3. faults' = 0 => faults = 0
    BY <1>2 DEF Stop, AuditStop, Fault, AInv
  <2>4. entries' \in Seq(Nat) /\ Len(entries') = 0 /\ DOMAIN entries' = {}
    BY <2>1
  <2>5. AuditTypeOK'
    BY <2>1, <2>2, <2>4, Zenon
  <2>6. HistoryInv'
    BY <2>1, <2>3, <2>4 DEF HistoryInv, Lines, Increasing
  <2> QED
    BY <2>4, <2>5, <2>6, AuditAssumption DEF Increasing
<1>3. CASE Start
  <2>1. /\ ~up /\ step = "free"
        /\ UNCHANGED <<faults, lines, fragment, rows, long, overlong, step, last, recorded>>
    BY <1>3 DEF Start, AuditLoad, HistoryInv
  <2>2. /\ entries' \in Seq(Nat) /\ Len(entries') <= MaxInMemory /\ Increasing(entries')
        /\ Lines(entries') \subseteq Lines(lines)
        /\ ~overlong => \A e \in Lines(lines) : Covers(entries', e)
    <3>1. CASE overlong
      <4>1. entries' = <<>>
        BY <1>3, <3>1 DEF Start, AuditLoad
      <4> QED
        BY <3>1, <4>1, AuditAssumption DEF Increasing, Lines
    <3>2. CASE ~overlong
      <4>1. entries' = Trim(lines) /\ Increasing(lines)
        BY <1>3, <3>2 DEF Start, AuditLoad, HistoryInv
      <4> QED
        BY <4>1, TrimKeepsNewest, Zenon
    <3> QED
      BY <3>1, <3>2
  <2>3. \A n \in DOMAIN entries' : entries'[n] <= last
    <3>1. \A n \in DOMAIN entries' : entries'[n] \in Lines(entries')
      BY DEF Lines
    <3>2. \A e \in Lines(lines) : e <= last
      BY DEF HistoryInv, Lines
    <3> QED
      BY <2>2, <3>1, <3>2
  <2>4. AuditTypeOK'
    BY <2>1, <2>2, Zenon
  <2>5. HistoryInv'
    BY <2>1, <2>2, <2>3, Zenon DEF HistoryInv, Covers, Lines, Increasing
  <2> QED
    BY <2>2, <2>4, <2>5 DEF Increasing
<1>4. ASSUME UNCHANGED auditVars, up' = up, faults' = 0 => faults = 0
      PROVE  HInv'
  BY <1>4 DEF auditVars, HistoryInv, Covers, Lines, Increasing
<1>5. CASE StartFails
  BY <1>4, <1>5 DEF StartFails, PauseLoadFails, Fault, AInv, pauseVars
<1>6. CASE PauseStep /\ UNCHANGED auditVars
  <2>1. up' = up /\ (faults' = 0 => faults = 0)
    BY <1>6 DEF PauseStep, SetPaused, SaveCopy, SaveOpen, SaveWrite, Reply, Fault, AInv
  <2> QED
    BY <1>4, <1>6, <2>1
<1>7. CASE UNCHANGED vars
  BY <1>4, <1>7 DEF vars
<1>8. CASE AuditStep
  BY <1>1, <1>8, RecordKeepsHistory, AppendKeepsHistory DEF AuditStep
<1> QED
  BY <1>2, <1>3, <1>5, <1>6, <1>7, <1>8 DEF Next

LEMMA HistoryAlways == Spec => [](AInv /\ HInv)
<1>1. Init => AInv
  BY StartsWithoutFaults
<1>2. Init => HInv
  <2> SUFFICES ASSUME Init
               PROVE  HInv
    OBVIOUS
  <2>1. /\ entries = <<>> /\ lines = <<>> /\ recorded = {} /\ rows = {} /\ step = "free"
        /\ last = 0 /\ up = FALSE
    BY DEF Init, AuditInit
  <2>2. fragment \in BOOLEAN /\ long \in BOOLEAN /\ overlong \in BOOLEAN
    BY Zenon DEF Init, AuditInit
  <2>3. AuditTypeOK
    BY <2>1, <2>2 DEF AuditTypeOK
  <2> QED
    BY <2>1, <2>3, AuditAssumption DEF HInv, HistoryInv, HistoryOrdered, Increasing, Lines
<1> QED
  BY <1>1, <1>2, StepKeepsAudit, StepKeepsHistory, PTL DEF Spec

(* The audit history is in order, without an entry twice and within its    *)
(* limit, however often it was read back from the file and whatever        *)
(* failed.                                                                 *)
THEOREM HistoryAlwaysOrdered == Spec => []HistoryOrdered
BY HistoryAlways, PTL DEF HInv

(* Without a fault and an overlong line, the history in memory lacks a     *)
(* recorded entry only if MaxInMemory later ones have pushed it out,       *)
(* before and after any restart.                                           *)
THEOREM HistoryAlwaysComplete == Spec => []HistoryComplete
<1>1. HInv => HistoryComplete
  BY DEF HInv, HistoryInv, HistoryComplete
<1> QED
  BY <1>1, HistoryAlways, PTL

(* The invariant of the process, as the model checker sees it.             *)
THEOREM ProcessInvAlways == Spec => []ProcessInv
<1>1. AInv /\ HInv /\ PInv => ProcessInv
  BY DEF AInv, HInv, PInv, ProcessInv
<1> QED
  BY <1>1, HistoryAlways, PauseAlways, PTL
=============================================================================
