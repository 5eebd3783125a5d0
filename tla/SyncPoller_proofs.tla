------------------------- MODULE SyncPoller_proofs -------------------------
(***************************************************************************)
(* The sidecar's word for any number of tables and any settings, however   *)
(* many calls fail and however often the process dies: a health row that   *)
(* says "healthy" never speaks of a table whose newest manifest lacks its  *)
(* data object or its metadata row.                                        *)
(***************************************************************************)
EXTENDS SyncPoller, TLAPS

(* The maps of a new process have their types.                             *)
LEMMA ForgetTypes ==
  /\ Forget(NoManifest) \in [Tables -> Manifest]
  /\ Forget(NoFingerprint) \in [Tables -> Nat]
  /\ Forget(0) \in [Tables -> 0..MinStablePolls]
  /\ Forget(FALSE) \in [Tables -> BOOLEAN]
  /\ Forget({}) \in [Tables -> SUBSET Nat]
BY SyncAssumption DEF Forget, NoManifest, Manifest, NoFingerprint

(* Every step keeps the types.                                             *)
LEMMA NextTypeOK == TypeOK /\ [Next]_vars => TypeOK'
<1> SUFFICES ASSUME TypeOK, [Next]_vars PROVE TypeOK'
    OBVIOUS
<1> USE SyncAssumption DEF TypeOK
<1>1. ASSUME NEW t \in Tables, Write(t) \/ Drop(t) \/ Create(t) PROVE TypeOK'
      BY <1>1 DEF Write, Drop, Create, Change, Elsewhere, storeVars, pollVars, fpVars
<1>2. CASE TogglePause
      BY <1>2 DEF TogglePause, Change, Elsewhere, storeVars, pollVars, fpVars
<1>3. CASE ScanFails
      BY <1>3 DEF ScanFails, EndPoll, dbVars, fpVars
<1>4. CASE ScanUnrecorded
      BY <1>4 DEF ScanUnrecorded, EndPoll, dbVars, storeVars, fpVars
<1>5. CASE ScanPaused
      BY <1>5 DEF ScanPaused, EndPoll, RecordHealth, FilterTables, dbVars, fpVars
<1>6. CASE Scan
      BY <1>6 DEF Scan, RecordHealth, Update, FilterTables, dbVars, fpVars
<1>7. CASE FetchFingerprints
  <2>1. fps' \in [Tables -> Nat]
    <3>1. [t \in Tables |-> IF t \in exists THEN stats[t] ELSE NoFingerprint] \in [Tables -> Nat]
          BY DEF NoFingerprint
    <3>2. Forget(NoFingerprint) \in [Tables -> Nat]
          BY ForgetTypes
    <3> HIDE DEF TypeOK
    <3> QED
        BY <1>7, <3>1, <3>2 DEF FetchFingerprints
  <2>4. fpErr' \in BOOLEAN
        BY <1>7 DEF FetchFingerprints
  <2>2. same' \in [Tables -> 0..MinStablePolls]
        BY <1>7 DEF FetchFingerprints
  <2>3. todo' \subseteq Tables
        BY <1>7 DEF FetchFingerprints
  <2> QED
      BY <1>7, <2>1, <2>2, <2>3, <2>4 DEF FetchFingerprints, dbVars, storeVars, pollVars
<1>8. ASSUME NEW t \in Tables, VisitTable(t) PROVE TypeOK'
      BY <1>8 DEF VisitTable, StableCount, dbVars, storeVars, pollVars
<1>9. CASE CaptureData
      BY <1>9 DEF CaptureData, Failed, dbVars, storeVars, pollVars, fpVars
<1>10. CASE PutManifest
  <2>1. newest[table].id + 1 \in Nat /\ table \in Tables
        BY <1>10 DEF PutManifest, Manifest
  <2> DEFINE m(ok) == [id |-> newest[table].id + 1, data |-> read, intact |-> ok]
  <2>2. \A ok \in BOOLEAN : m(ok) \in Manifest
        BY <2>1 DEF Manifest
  <2>3. newest' \in [Tables -> Manifest] /\ latest' \in [Tables -> Manifest]
    <3>1. /\ newest' = newest \/ \E ok \in BOOLEAN : newest' = [newest EXCEPT ![table] = m(ok)]
          /\ latest' = latest \/ latest' = [latest EXCEPT ![table] = m(TRUE)]
          BY <1>10, Zenon DEF PutManifest
    <3> HIDE DEF m
    <3>2. newest' \in [Tables -> Manifest]
          BY <2>2, <3>1
    <3>3. latest' \in [Tables -> Manifest]
          BY <2>2, <3>1
    <3> QED
        BY <3>2, <3>3
  <2>4. failing' \in [Tables -> BOOLEAN] /\ pc' \in {"record", "tables"}
        BY <1>10 DEF PutManifest, Failed
  <2> QED
      BY <1>10, <2>1, <2>3, <2>4 DEF PutManifest, dbVars, pollVars, fpVars
<1>11. CASE VerifyLatest
      BY <1>11 DEF VerifyLatest, Failed, dbVars, storeVars, pollVars, fpVars
<1>12. CASE RecordSnapshot
  <2>1. latest[table].id \in Nat
        BY <1>12 DEF RecordSnapshot, Manifest
  <2>2. recorded' \in [Tables -> SUBSET Nat] /\ pc' = "tables"
        BY <1>12, <2>1 DEF RecordSnapshot, Failed
  <2>3. failing' \in [Tables -> BOOLEAN]
        BY <1>12 DEF RecordSnapshot, Failed
  <2> QED
      BY <1>12, <2>2, <2>3 DEF RecordSnapshot, dbVars, pollVars, fpVars
<1>13. CASE FinishPoll
      BY <1>13 DEF FinishPoll, EndPoll, Readiness, dbVars
<1>14. CASE Stop
      BY <1>14, ForgetTypes DEF Stop, FreshMemory, dbVars
<1>15. CASE Start
      BY <1>15 DEF Start, dbVars, pollVars, fpVars
<1>16. CASE UNCHANGED vars
      BY <1>16 DEF vars, dbVars, storeVars, pollVars, fpVars
<1> HIDE DEF TypeOK
<1> QED
    BY <1>1, <1>2, <1>3, <1>4, <1>5, <1>6, <1>7, <1>8, <1>9, <1>10, <1>11, <1>12, <1>13,
       <1>14, <1>15, <1>16
    DEF Next, Poll

(* The invariant is inductive.  Only three steps put it at risk: a         *)
(* manifest that reaches the store out of memory's sight, which the        *)
(* failing flag accounts for; a metadata row still owed, which pc =        *)
(* "record" accounts for; and the end of a poll, which turns what memory   *)
(* holds into the word of the health row.                                  *)
LEMMA NextSyncInv == SyncInv /\ [Next]_vars => SyncInv'
<1> SUFFICES ASSUME SyncInv, [Next]_vars PROVE SyncInv'
    OBVIOUS
<1>0. TypeOK /\ TypeOK'
      BY NextTypeOK DEF SyncInv
<1> DEFINE Quiet == pc \notin {"idle", "down"} => health = "starting" /\ covered = scanned
           Owed == pc \in {"refresh", "record"} => latest[table] # NoManifest /\ ~failing[table]
           Held == \A t \in Tables : latest[t] # NoManifest /\ ~failing[t] =>
                     /\ newest[t] = latest[t]
                     /\ newest[t].intact
                     /\ newest[t].id \in recorded[t] \/ (pc = "record" /\ table = t)
<1>a. HealthyMeansRecoverable /\ Quiet /\ Owed /\ Held
      BY DEF SyncInv
<1>b. SUFFICES HealthyMeansRecoverable' /\ Quiet' /\ Owed' /\ Held'
      BY <1>0 DEF SyncInv
<1> USE <1>0, <1>a DEF HealthyMeansRecoverable
<1>1. ASSUME NEW t \in Tables, Write(t) \/ Drop(t) \/ Create(t)
      PROVE  HealthyMeansRecoverable' /\ Quiet' /\ Owed' /\ Held'
      BY <1>1 DEF Write, Drop, Create, Elsewhere, storeVars, pollVars
<1>2. CASE TogglePause
      BY <1>2 DEF TogglePause, Elsewhere, storeVars, pollVars
<1>3. CASE ScanFails
      BY <1>3 DEF ScanFails, EndPoll
<1>4. CASE ScanUnrecorded
      BY <1>4 DEF ScanUnrecorded, EndPoll, storeVars
<1>5. CASE ScanPaused
      BY <1>5 DEF ScanPaused, EndPoll, RecordHealth
<1>6. CASE Scan
      BY <1>6 DEF Scan, RecordHealth
<1>7. CASE FetchFingerprints
      BY <1>7 DEF FetchFingerprints, storeVars, pollVars
<1>8. ASSUME NEW t \in Tables, VisitTable(t)
      PROVE  HealthyMeansRecoverable' /\ Quiet' /\ Owed' /\ Held'
  <2>1. pc' = "refresh" => latest[t] # NoManifest /\ ~failing[t]
        BY <1>8 DEF VisitTable, Refreshable, HasRecoveryPoint
  <2> QED
      BY <1>8, <2>1 DEF VisitTable, storeVars, pollVars
<1>9. CASE CaptureData
      BY <1>9 DEF CaptureData, Failed, storeVars, pollVars, TypeOK
<1>10. CASE PutManifest
  <2> DEFINE m(ok) == [id |-> newest[table].id + 1, data |-> read, intact |-> ok]
  <2>1. table \in Tables /\ health = "starting" /\ covered = scanned /\ pc = "manifest"
        BY <1>10 DEF PutManifest, TypeOK
  <2>2. UNCHANGED <<health, covered, scanned, recorded, table>> /\ pc' \in {"record", "tables"}
        BY <1>10 DEF PutManifest, Failed, pollVars
  <2>3. HealthyMeansRecoverable' /\ Quiet'
        BY <2>1, <2>2
  <2>4. CASE /\ newest' = [newest EXCEPT ![table] = m(TRUE)]
             /\ latest' = [latest EXCEPT ![table] = m(TRUE)]
             /\ failing' = [failing EXCEPT ![table] = FALSE]
             /\ pc' = "record"
    <3>1. m(TRUE) # NoManifest /\ m(TRUE).intact
          BY <2>1 DEF NoManifest, TypeOK, Manifest
    <3> HIDE DEF m
    <3>2. /\ newest'[table] = m(TRUE) /\ latest'[table] = m(TRUE) /\ ~failing'[table]
          /\ \A t \in Tables \ {table} : /\ newest'[t] = newest[t] /\ latest'[t] = latest[t]
                                         /\ failing'[t] = failing[t]
          BY <2>1, <2>4 DEF TypeOK
    <3>3. Owed'
          BY <2>2, <3>1, <3>2
    <3>4. Held'
      <4> SUFFICES ASSUME NEW t \in Tables, latest'[t] # NoManifest, ~failing'[t]
                   PROVE  /\ newest'[t] = latest'[t]
                          /\ newest'[t].intact
                          /\ newest'[t].id \in recorded'[t] \/ (pc' = "record" /\ table' = t)
          OBVIOUS
      <4>1. CASE t = table
            BY <2>2, <2>4, <3>1, <3>2, <4>1
      <4>2. CASE t # table
            BY <2>1, <2>2, <3>2, <4>2
      <4> QED
          BY <4>1, <4>2
    <3> QED
        BY <2>3, <3>3, <3>4
  <2>5. CASE /\ \/ newest' = newest
                \/ \E ok \in BOOLEAN : newest' = [newest EXCEPT ![table] = m(ok)]
             /\ latest' = latest
             /\ failing' = [failing EXCEPT ![table] = TRUE] /\ pc' = "tables"
    <3> HIDE DEF m
    <3>1. /\ failing'[table] /\ latest' = latest
          /\ \A t \in Tables \ {table} : newest'[t] = newest[t] /\ failing'[t] = failing[t]
          BY <2>1, <2>5 DEF TypeOK
    <3>2. Owed'
          BY <2>5
    <3>3. Held'
          BY <2>1, <2>2, <3>1
    <3> QED
        BY <2>3, <3>2, <3>3
  <2> QED
      BY <1>10, <2>4, <2>5, Zenon DEF PutManifest, Failed
<1>11. CASE VerifyLatest
      BY <1>11 DEF VerifyLatest, Failed, storeVars, pollVars, TypeOK
<1>12. CASE RecordSnapshot
      BY <1>12 DEF RecordSnapshot, Failed, pollVars, TypeOK
<1>13. CASE FinishPoll
      BY <1>13 DEF FinishPoll, EndPoll, Readiness, HasRecoveryPoint, TypeOK
<1>14. CASE Stop
      BY <1>14 DEF Stop, FreshMemory, Forget
<1>15. CASE Start
      BY <1>15 DEF Start, pollVars
<1>16. CASE UNCHANGED vars
      BY <1>16 DEF vars, storeVars, pollVars
<1> HIDE DEF HealthyMeansRecoverable, Quiet, Owed, Held
<1> QED
    BY <1>1, <1>2, <1>3, <1>4, <1>5, <1>6, <1>7, <1>8, <1>9, <1>10, <1>11, <1>12, <1>13,
       <1>14, <1>15, <1>16
    DEF Next, Poll

(* What the sidecar holds for a table that is not failing is what the      *)
(* store and the metadata database have, in every reachable state.         *)
THEOREM SyncInvariant == Safety => []SyncInv
<1>1. Init => SyncInv
  <2> SUFFICES ASSUME Init PROVE SyncInv
      OBVIOUS
  <2>1. TypeOK
    <3>1. newest \in [Tables -> Manifest] /\ latest \in [Tables -> Manifest]
          BY ForgetTypes DEF Init
    <3>2. /\ fps \in [Tables -> Nat] /\ fingerprints \in [Tables -> Nat]
          /\ recorded \in [Tables -> SUBSET Nat]
          BY ForgetTypes DEF Init
    <3>3. stablePolls \in [Tables -> 0..MinStablePolls] /\ same \in [Tables -> 0..MinStablePolls]
          BY ForgetTypes DEF Init
    <3>4. failing \in [Tables -> BOOLEAN]
          BY ForgetTypes DEF Init
    <3>5. content \in [Tables -> Nat] /\ stats \in [Tables -> Nat \ {0}]
          BY DEF Init
    <3> QED
        BY <3>1, <3>2, <3>3, <3>4, <3>5 DEF Init, TypeOK
  <2> QED
      BY <2>1 DEF Init, SyncInv, HealthyMeansRecoverable, Forget
<1> QED
    BY <1>1, NextSyncInv, PTL DEF Safety

(* updateRecoveryReadiness tells the truth: a row that says "healthy"      *)
(* speaks only of tables whose newest manifest has its data and its row.   *)
THEOREM HealthyIsTrue == Safety => []HealthyMeansRecoverable
<1>1. SyncInv => HealthyMeansRecoverable
      BY DEF SyncInv
<1> QED
    BY <1>1, SyncInvariant, PTL
=============================================================================
