----------------------------- MODULE SyncPoller -----------------------------
(***************************************************************************)
(* sync/poller.go, delta.go and the capture path of snapshot.go: the       *)
(* sidecar that watches a schema, keeps a snapshot of every table in the   *)
(* object store and tells the gateway, through one health row of the       *)
(* metadata database, whether all of them can be relied upon.              *)
(*                                                                         *)
(* A single goroutine polls.  What it races with is outside: the tables    *)
(* are written, dropped and created between any two of its queries, calls  *)
(* to the database, the object store and the metadata database fail, an    *)
(* upload that reports an error may have taken place, and the process may  *)
(* die anywhere and start again with empty maps.                           *)
(*                                                                         *)
(* This is the sidecar with --max-snapshot-age at its default, 0, which    *)
(* switches the staleness alert and the stale list off.                    *)
(***************************************************************************)
EXTENDS Naturals, FiniteSets

CONSTANTS Tables,             \* names a table of the schema may have
          Allowlist,          \* --snapshot-tables, all of Tables when empty
          SnapshotOnStart,    \* --snapshot-on-start
          SnapshotEveryPoll,  \* --snapshot-every-poll
          MinStablePolls,     \* --snapshot-stable-polls
          PauseFileUsed,      \* does anybody ever create the pause file?
          MaxChanges,         \* bound: writes, drops, creations, pause toggles
          MaxFaults           \* bound: failing calls and crashes

ASSUME SyncAssumption ==
  /\ Allowlist \subseteq Tables
  /\ {SnapshotOnStart, SnapshotEveryPoll, PauseFileUsed} \subseteq BOOLEAN
  /\ MinStablePolls \in Nat \ {0}
  /\ MaxChanges \in Nat /\ MaxFaults \in Nat

VARIABLES exists,       \* the tables of the schema
          content,      \* a number for the rows a table holds at present
          stats,        \* a number for its counters in pg_stat_all_tables
          pauseFile,    \* does --snapshot-pause-file exist?
          changes, faults
VARIABLES newest,       \* the newest manifest of each table in the object store
          recorded,     \* the ids in table snapshots of the metadata database
          health,       \* the status of its row for component sync
          covered       \* history: the tables that row speaks of
VARIABLES pc, startup, seeded, known, scanned, added, dropped, todo, table,
          read,         \* the content written to the parquet file
          fps,          \* fetchTableFingerprints' result
          fpErr,        \* its error
          fingerprints, \* p.fingerprints
          stablePolls,  \* p.stablePolls, as far as minStablePolls
          failing,      \* p.failures[t] > 0
          latest,       \* e.latest
          same,         \* history: reads in a row with the same fingerprint
          alerted       \* history: absent tables a drop alert was sent for

dbVars == <<exists, content, stats, pauseFile, changes>>
storeVars == <<newest, recorded, health, covered>>
pollVars == <<startup, seeded, known, scanned, added, dropped>>
fpVars == <<fps, fpErr, fingerprints, stablePolls, same>>
vars == <<dbVars, faults, storeVars, pc, pollVars, todo, table, read, fpVars,
          failing, latest, alerted>>

NoFingerprint == 0                \* the empty string of a missing map entry
NoTable == "none"
NoManifest == [id |-> 0, data |-> 0, intact |-> FALSE]
Manifest == [id : Nat, data : Nat, intact : BOOLEAN]

FilterTables(ts) == IF Allowlist = {} THEN ts ELSE ts \cap Allowlist
Forget(x) == [t \in Tables |-> x]

(* The maps of a process that has just started.                            *)
FreshMemory ==
  /\ startup' = TRUE /\ seeded' = FALSE
  /\ known' = {} /\ scanned' = {} /\ added' = {} /\ dropped' = {} /\ todo' = {}
  /\ table' = NoTable /\ read' = 0
  /\ fps' = Forget(NoFingerprint) /\ fpErr' = FALSE
  /\ fingerprints' = Forget(NoFingerprint)
  /\ stablePolls' = Forget(0) /\ same' = Forget(0)
  /\ failing' = Forget(FALSE)
  /\ latest' = Forget(NoManifest)
  /\ alerted' = {}

Init ==
  /\ exists \in SUBSET Tables
  /\ content = [t \in Tables |-> 1] /\ stats = [t \in Tables |-> 2]
  /\ pauseFile = FALSE /\ changes = 0 /\ faults = 0
  /\ newest = Forget(NoManifest) /\ recorded = Forget({})
  /\ health = "starting" /\ covered = {}
  /\ pc = "idle" /\ startup = TRUE /\ seeded = FALSE
  /\ known = {} /\ scanned = {} /\ added = {} /\ dropped = {} /\ todo = {}
  /\ table = NoTable /\ read = 0
  /\ fps = Forget(NoFingerprint) /\ fpErr = FALSE
  /\ fingerprints = Forget(NoFingerprint)
  /\ stablePolls = Forget(0) /\ same = Forget(0)
  /\ failing = Forget(FALSE) /\ latest = Forget(NoManifest) /\ alerted = {}

----------------------------------------------------------------------------
(* The database and the operator, outside the sidecar.                     *)

Change == changes < MaxChanges /\ changes' = changes + 1
Elsewhere == <<faults, storeVars, pc, pollVars, todo, table, read, fpVars, failing,
               latest, alerted>>

Write(t) ==
  /\ Change /\ t \in exists
  /\ content' = [content EXCEPT ![t] = @ + 1]
  /\ stats' = [stats EXCEPT ![t] = @ + 1]
  /\ UNCHANGED <<exists, pauseFile, Elsewhere>>

Drop(t) ==
  /\ Change /\ t \in exists
  /\ exists' = exists \ {t}
  /\ UNCHANGED <<content, stats, pauseFile, Elsewhere>>

(* A new table of an old name holds other rows, and its counters start     *)
(* again from nothing.                                                     *)
Create(t) ==
  /\ Change /\ t \notin exists
  /\ exists' = exists \cup {t}
  /\ content' = [content EXCEPT ![t] = @ + 1]
  /\ stats' = [stats EXCEPT ![t] = 1]
  /\ UNCHANGED <<pauseFile, Elsewhere>>

TogglePause ==
  /\ PauseFileUsed /\ Change
  /\ pauseFile' = ~pauseFile
  /\ UNCHANGED <<exists, content, stats, Elsewhere>>

----------------------------------------------------------------------------
(* The beginning of poll.                                                  *)

Fault == faults < MaxFaults /\ faults' = faults + 1

(* RecordHealth(ctx, "sync", status): one row, replaced.                   *)
RecordHealth(status) == health' = status /\ covered' = scanned'

EndPoll == pc' = "idle" /\ startup' = FALSE

(* fetchTables fails; the attempt to say so may fail as well.              *)
ScanFails ==
  /\ pc = "idle" /\ Fault
  /\ EndPoll
  /\ health' \in {health, "unhealthy"}
  /\ UNCHANGED <<dbVars, newest, recorded, covered, seeded, known, scanned, added,
                 dropped, todo, table, read, fpVars, failing, latest, alerted>>

(* The tables are listed, but "starting" cannot be recorded.               *)
ScanUnrecorded ==
  /\ pc = "idle" /\ Fault
  /\ EndPoll
  /\ UNCHANGED <<dbVars, storeVars, seeded, known, scanned, added, dropped, todo,
                 table, read, fpVars, failing, latest, alerted>>

(* snapshotPaused: the poll ends before the tracker sees the tables.       *)
ScanPaused ==
  /\ pc = "idle" /\ pauseFile
  /\ EndPoll
  /\ scanned' = FilterTables(exists)
  /\ \/ RecordHealth("paused") /\ UNCHANGED faults
     \/ RecordHealth("starting") /\ Fault
  /\ UNCHANGED <<dbVars, newest, recorded, seeded, known, added, dropped, todo, table,
                 read, fpVars, failing, latest, alerted>>

(* DeltaTracker.Update: the first list is the baseline.                    *)
Update(ts) ==
  /\ seeded' = TRUE
  /\ known' = ts
  /\ dropped' = IF seeded THEN known \ ts ELSE {}
  /\ added' = IF seeded THEN ts \ known ELSE {}

(* Variant for the mutation runs: the row is left as the last poll wrote   *)
(* it while this one is under way.                                         *)
ScanSilently ==
  /\ pc = "idle" /\ ~pauseFile
  /\ scanned' = FilterTables(exists)
  /\ Update(scanned')
  /\ pc' = "fingerprint"
  /\ UNCHANGED <<dbVars, faults, newest, recorded, health, covered, startup, todo, table,
                 read, fpVars, failing, latest, alerted>>

Scan ==
  /\ pc = "idle" /\ ~pauseFile
  /\ scanned' = FilterTables(exists)
  /\ RecordHealth("starting")
  /\ Update(scanned')
  /\ pc' = "fingerprint"
  /\ UNCHANGED <<dbVars, faults, newest, recorded, startup, todo, table, read, fpVars,
                 failing, latest, alerted>>

(* fetchTableFingerprints covers the whole schema, as it is by now.        *)
FetchFingerprints ==
  /\ pc = "fingerprint"
  /\ \/ /\ fps' = [t \in Tables |-> IF t \in exists THEN stats[t] ELSE NoFingerprint]
        /\ fpErr' = FALSE
        /\ same' = [t \in Tables |->
             IF fps'[t] # NoFingerprint /\ fps'[t] = fingerprints[t]
             THEN IF same[t] < MinStablePolls THEN same[t] + 1 ELSE same[t]
             ELSE 0]
        /\ UNCHANGED faults
     \/ /\ fps' = Forget(NoFingerprint)
        /\ fpErr' = TRUE
        /\ Fault
        /\ UNCHANGED same
  /\ todo' = IF startup /\ ~SnapshotOnStart THEN {} ELSE scanned
  /\ pc' = "tables"
  /\ UNCHANGED <<dbVars, storeVars, pollVars, table, read, fingerprints, stablePolls,
                 failing, latest, alerted>>

----------------------------------------------------------------------------
(* The loop over the tables.  The tables' own order makes no difference to *)
(* any of them, so the next one is any that is left.                       *)

(* tableStableForSnapshot: the counter it leaves, and its answer.          *)
StableCount(t) ==
  IF SnapshotEveryPoll \/ fpErr THEN stablePolls[t]
  ELSE IF fps[t] # NoFingerprint /\ fingerprints[t] = fps[t]
       THEN IF stablePolls[t] < MinStablePolls THEN stablePolls[t] + 1 ELSE stablePolls[t]
       ELSE 0

Stable(t) == SnapshotEveryPoll \/ fpErr \/ StableCount(t) >= MinStablePolls

HasRecoveryPoint(t) == latest[t] # NoManifest
Changed(t) == \/ fpErr
              \/ fingerprints[t] = NoFingerprint
              \/ fps[t] # fingerprints[t]

(* Variant: a failure alone is no reason to capture again.                 *)
WantedWithoutRetry(t) ==
  IF startup \/ t \in added THEN Stable(t)
  ELSE \/ SnapshotEveryPoll
       \/ Stable(t) /\ (~HasRecoveryPoint(t) \/ Changed(t))

(* At startup and for a table just added, stability is all that counts.    *)
Wanted(t) ==
  IF startup \/ t \in added THEN Stable(t)
  ELSE \/ SnapshotEveryPoll
       \/ Stable(t) /\ (~HasRecoveryPoint(t) \/ Changed(t) \/ failing[t])

Refreshable(t) ==
  /\ ~startup /\ t \notin added
  /\ Stable(t) /\ HasRecoveryPoint(t) /\ ~Changed(t) /\ ~failing[t]

VisitTable(t) ==
  /\ pc = "tables" /\ t \in todo
  /\ todo' = todo \ {t}
  /\ table' = t
  /\ stablePolls' = [stablePolls EXCEPT ![t] = StableCount(t)]
  /\ pc' = IF Wanted(t) THEN "capture" ELSE IF Refreshable(t) THEN "refresh" ELSE "tables"
  /\ UNCHANGED <<dbVars, faults, storeVars, pollVars, read, fps, fpErr, fingerprints,
                 same, failing, latest, alerted>>

Failed == failing' = [failing EXCEPT ![table] = TRUE] /\ pc' = "tables"

(* CaptureTable, phases 1 to 4: read the table, upload the data object and *)
(* read it back.  Until there is a manifest nobody looks for it.           *)
CaptureData ==
  /\ pc = "capture"
  /\ \/ /\ table \in exists
        /\ read' = content[table]
        /\ pc' = "manifest"
        /\ UNCHANGED <<faults, failing>>
     \/ /\ table \notin exists \/ faults < MaxFaults
        /\ faults' = IF table \in exists THEN faults + 1 ELSE faults
        /\ Failed
        /\ UNCHANGED read
  /\ UNCHANGED <<dbVars, storeVars, pollVars, todo, table, fpVars, latest, alerted>>

(* Phases 5 and 6.  A PutObject that reports an error may still have put   *)
(* the manifest; cleanupOrphanedData then removes the data under it, or    *)
(* fails to.                                                               *)
PutManifest ==
  LET m(ok) == [id |-> newest[table].id + 1, data |-> read, intact |-> ok]
  IN /\ pc = "manifest"
     /\ \/ /\ newest' = [newest EXCEPT ![table] = m(TRUE)]
           /\ latest' = [latest EXCEPT ![table] = m(TRUE)]
           /\ failing' = [failing EXCEPT ![table] = FALSE]
           /\ pc' = "record"
           /\ UNCHANGED faults
        \/ /\ Fault
           /\ \/ UNCHANGED newest
              \/ \E ok \in BOOLEAN : newest' = [newest EXCEPT ![table] = m(ok)]
           /\ Failed
           /\ UNCHANGED latest
     /\ UNCHANGED <<dbVars, recorded, health, covered, pollVars, todo, table, read,
                    fpVars, alerted>>

(* VerifyLatest, in refreshSnapshotVerification: the data object of the    *)
(* snapshot in memory is read and hashed again.                            *)
VerifyLatest ==
  /\ pc = "refresh"
  /\ \/ pc' = "record" /\ UNCHANGED <<faults, failing>>
     \/ Fault /\ Failed
  /\ UNCHANGED <<dbVars, storeVars, pollVars, todo, table, read, fpVars, latest, alerted>>

(* Variant: a failed metadata write is only logged.                        *)
RecordSnapshotOrNot ==
  /\ pc = "record"
  /\ \/ /\ recorded' = [recorded EXCEPT ![table] = @ \cup {latest[table].id}]
        /\ UNCHANGED faults
     \/ Fault /\ UNCHANGED recorded
  /\ pc' = "tables"
  /\ UNCHANGED <<dbVars, newest, health, covered, pollVars, todo, table, read, fpVars,
                 failing, latest, alerted>>

(* metadata.RecordSnapshot, after a capture or a verification.             *)
RecordSnapshot ==
  /\ pc = "record"
  /\ \/ /\ recorded' = [recorded EXCEPT ![table] = @ \cup {latest[table].id}]
        /\ pc' = "tables"
        /\ UNCHANGED <<faults, failing>>
     \/ Fault /\ Failed /\ UNCHANGED recorded
  /\ UNCHANGED <<dbVars, newest, health, covered, pollVars, todo, table, read, fpVars,
                 latest, alerted>>

----------------------------------------------------------------------------
(* The end of poll: the fingerprints are kept, drops are alerted, and      *)
(* updateRecoveryReadiness writes the health row.                          *)

Readiness ==
  IF \A t \in scanned : HasRecoveryPoint(t) /\ ~failing[t] THEN "healthy" ELSE "degraded"

(* Variant: without fingerprints the poll ends before the alerts.          *)
FinishPollEarly ==
  /\ pc = "tables" /\ todo = {}
  /\ fingerprints' = IF fpErr THEN fingerprints ELSE fps
  /\ alerted' = (alerted \ scanned) \cup IF fpErr THEN {} ELSE dropped
  /\ health' = Readiness
  /\ EndPoll
  /\ UNCHANGED <<dbVars, faults, newest, recorded, covered, seeded, known, scanned,
                 added, dropped, todo, table, read, fps, fpErr, stablePolls, same,
                 failing, latest>>

FinishPoll ==
  /\ pc = "tables" /\ todo = {}
  /\ fingerprints' = IF fpErr THEN fingerprints ELSE fps
  /\ alerted' = (alerted \ scanned) \cup dropped
  /\ \/ health' = Readiness /\ UNCHANGED faults
     \/ Fault /\ UNCHANGED health
  /\ EndPoll
  /\ UNCHANGED <<dbVars, newest, recorded, covered, seeded, known, scanned, added,
                 dropped, todo, table, read, fps, fpErr, stablePolls, same, failing,
                 latest>>

(* SIGTERM between polls writes "stopped"; a crash writes nothing.  A new  *)
(* process writes "starting" before its first poll.                        *)
Stop ==
  /\ pc # "down" /\ Fault
  /\ \/ UNCHANGED health
     \/ pc = "idle" /\ health' = "stopped"
  /\ pc' = "down"
  /\ FreshMemory
  /\ UNCHANGED <<dbVars, newest, recorded, covered>>

Start ==
  /\ pc = "down"
  /\ health' = "starting"
  /\ pc' = "idle"
  /\ UNCHANGED <<dbVars, faults, newest, recorded, covered, pollVars, todo, table, read,
                 fpVars, failing, latest, alerted>>

Poll ==
  \/ ScanFails \/ ScanUnrecorded \/ ScanPaused \/ Scan \/ FetchFingerprints
  \/ \E t \in Tables : VisitTable(t)
  \/ CaptureData \/ PutManifest \/ VerifyLatest \/ RecordSnapshot
  \/ FinishPoll

Next ==
  \/ \E t \in Tables : Write(t) \/ Drop(t) \/ Create(t)
  \/ TogglePause
  \/ Poll \/ Start \/ Stop

Safety == Init /\ [][Next]_vars

(* The ticker keeps firing and a poll goes on to its end.  Nothing in the  *)
(* repository obliges anybody to start a dead process again.               *)
Spec == Safety /\ WF_vars(Poll)

----------------------------------------------------------------------------
TypeOK ==
  /\ exists \in SUBSET Tables
  /\ content \in [Tables -> Nat] /\ stats \in [Tables -> Nat \ {0}]
  /\ pauseFile \in BOOLEAN
  /\ newest \in [Tables -> Manifest] /\ recorded \in [Tables -> SUBSET Nat]
  /\ health \in {"starting", "unhealthy", "paused", "healthy", "degraded", "stopped"}
  /\ covered \in SUBSET Tables
  /\ pc \in {"idle", "fingerprint", "tables", "capture", "manifest", "refresh",
             "record", "down"}
  /\ startup \in BOOLEAN /\ seeded \in BOOLEAN
  /\ known \subseteq Tables /\ scanned \subseteq Tables /\ added \subseteq Tables
  /\ dropped \subseteq Tables /\ todo \subseteq Tables /\ alerted \subseteq Tables
  /\ table \in Tables \cup {NoTable}
  /\ pc \in {"capture", "manifest", "refresh", "record"} => table \in Tables
  /\ read \in Nat
  /\ fps \in [Tables -> Nat] /\ fingerprints \in [Tables -> Nat] /\ fpErr \in BOOLEAN
  /\ stablePolls \in [Tables -> 0..MinStablePolls] /\ same \in [Tables -> 0..MinStablePolls]
  /\ failing \in [Tables -> BOOLEAN]
  /\ latest \in [Tables -> Manifest]

(* The health row is the sidecar's word to the gateway.  While it says     *)
(* "healthy", the newest manifest of every table it speaks of, the one     *)
(* the gateway will pick, has its data object and its metadata row:        *)
(* whatever call failed half way, and whenever the process died.           *)
HealthyMeansRecoverable ==
  health = "healthy" =>
    \A t \in covered : newest[t].intact /\ newest[t].id \in recorded[t]

(* Its inductive strengthening.  What the sidecar holds for the latest     *)
(* snapshot of a table that is not failing is the newest one in the store, *)
(* with data and row; and the row says "starting" all through a poll.      *)
SyncInv ==
  /\ TypeOK
  /\ HealthyMeansRecoverable
  /\ pc \notin {"idle", "down"} => health = "starting" /\ covered = scanned
  /\ pc \in {"refresh", "record"} => latest[table] # NoManifest /\ ~failing[table]
  /\ \A t \in Tables : latest[t] # NoManifest /\ ~failing[t] =>
       /\ newest[t] = latest[t]
       /\ newest[t].intact
       /\ newest[t].id \in recorded[t] \/ (pc = "record" /\ table = t)

(* A sidecar that is up and not paused from some time on, with changes and *)
(* faults dying down, reports itself healthy again and again for exactly   *)
(* the tables that exist, although it may have lost its maps before.       *)
Recovers ==
  <>[](~pauseFile /\ pc # "down") => []<>(health = "healthy" /\ covered = FilterTables(exists))

(* A table the tracker knows and that stays dropped is alerted, unless it  *)
(* comes back or the process, and the tracker with it, is lost first.      *)
DropReported ==
  <>[]~pauseFile =>
    \A t \in Tables : t \in known /\ t \notin exists
                        ~> t \in alerted \/ t \in exists \/ pc = "down"

(* main.go: --snapshot-every-poll=false snapshots "only new, changed, or   *)
(* retry-needed tables"; so a table that has changed since its snapshot is *)
(* captured again sooner or later.                                         *)
ChangedIsRecaptured ==
  \A t \in Tables :
    HasRecoveryPoint(t) /\ latest[t].data # content[t]
      ~> \/ t \notin exists \/ pc = "down"
         \/ latest[t].data = content[t]

(* main.go: --snapshot-stable-polls is the number of "consecutive          *)
(* unchanged table fingerprints required before snapshotting a new or      *)
(* changed table".                                                         *)
StableBeforeCapture ==
  pc = "capture" /\ ~fpErr /\ ~SnapshotEveryPoll => same[table] >= MinStablePolls
=============================================================================
