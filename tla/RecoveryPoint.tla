--------------------------- MODULE RecoveryPoint ---------------------------
(***************************************************************************)
(* The recovery point of one table between the two processes that share    *)
(* it: the sidecar publishes and refreshes it (sync/snapshot.go and the    *)
(* per-table part of poller.go), the gateway looks for the newest one and  *)
(* decides whether it may be relied upon (gateway/snapshot_verifier.go,    *)
(* ValidateSnapshotRecord of metadata_store.go, checkRecoveryReadiness of  *)
(* mcp_server.go).  They meet in the object store and in the metadata      *)
(* database, without a lock: every call to either is a step of its own.    *)
(*                                                                         *)
(* A snapshot id is random, so the order in which the store lists the keys *)
(* says nothing about age: the sidecar takes any unused id, and the order  *)
(* of the ids is the listing's.                                            *)
(***************************************************************************)
EXTENDS Naturals, FiniteSets

CONSTANTS Ids,            \* snapshot ids, in the order of their keys
          PageSize,       \* keys in one answer of ListObjectsV2
          MaxSnapshotAge, \* max_snapshot_age_seconds, 0 for any value that turns it off
          MaxHeartbeat,   \* max_sidecar_heartbeat_seconds
          StaleAfter,     \* --max-snapshot-age of the sidecar, 0 when off
          Old,            \* the id of a manifest the sidecar did not write,
          Leftovers,      \* and what that manifest may be
          MaxNow,         \* bound: the clock
          MaxFaults       \* bound: failing calls, crashes, polls that skip

None == 0
Kind == {"none", "ok", "foreign", "invalid", "undated"}

ASSUME RecoveryAssumption ==
  /\ Ids \subseteq Nat \ {None} /\ IsFiniteSet(Ids)
  /\ PageSize \in Nat \ {0}
  /\ {MaxSnapshotAge, MaxHeartbeat, StaleAfter, MaxNow, MaxFaults} \subseteq Nat
  /\ Old \in Ids /\ Leftovers \subseteq Kind \ {"ok"}

VARIABLES
  now, faults,
  manifests,     \* [Ids -> Kind]: the manifest.json under each key
  ts,            \* [Ids -> time]: its timestamp, in whole seconds
  objects,       \* ids whose data.parquet is there, as it was hashed
  rows,          \* [Ids -> "none", "valid" or "quarantined"]: table snapshots
  health,        \* the sidecar's row of table health_checks
  (* the sidecar *)
  spc, snap, latest, verifiedAt, failing, staleAlerted,
  staleSent,     \* has a stale alert about the latest snapshot been sent, or
                 \* tried: what the channel makes of it is not modelled
  (* one verification in the gateway *)
  gpc, page, cursor, best,
  more,          \* paginator.HasMorePages
  known,         \* sidecar manifests in the store when it began
  unread,        \* those it could not read
  accepted       \* every snapshot some verification has accepted

storeVars == <<manifests, ts, objects>>
sidecarVars == <<spc, snap, latest, verifiedAt, failing, staleAlerted, staleSent>>
gatewayVars == <<gpc, page, cursor, best, more, known, unread, accepted>>
vars == <<now, faults, storeVars, rows, health, sidecarVars, gatewayVars>>

Fault == faults < MaxFaults /\ faults' = faults + 1

(* What another writer (the Python SDK) or an older version may have left. *)
Init ==
  /\ now = 0 /\ faults = 0
  /\ \E kind \in Leftovers :
       /\ manifests = [j \in Ids |-> IF j = Old THEN kind ELSE "none"]
       /\ objects = IF kind = "none" THEN {} ELSE {Old}
  /\ ts = [j \in Ids |-> 0]
  /\ rows = [j \in Ids |-> "none"]
  /\ health = [status |-> "starting", at |-> 0]
  /\ spc = "idle" /\ snap = None /\ latest = None /\ verifiedAt = 0
  /\ failing = FALSE /\ staleAlerted = FALSE /\ staleSent = FALSE
  /\ gpc = "idle" /\ page = {} /\ cursor = 0 /\ best = None /\ more = FALSE
  /\ known = {} /\ unread = {} /\ accepted = {}

Tick ==
  /\ now < MaxNow /\ now' = now + 1
  /\ UNCHANGED <<faults, storeVars, rows, health, sidecarVars, gatewayVars>>

----------------------------------------------------------------------------
(* The sidecar's poll, for this table.                                     *)

(* One row, replaced; only the time of a "healthy" is ever looked at.      *)
RecordHealth(status) ==
  health' = [status |-> status, at |-> IF status = "healthy" THEN now ELSE 0]

(* poll: the catalog was read and "starting" recorded.                     *)
BeginPoll ==
  /\ spc = "idle"
  /\ RecordHealth("starting")
  /\ spc' = "visit"
  /\ UNCHANGED <<now, faults, storeVars, rows, snap, latest, verifiedAt, failing,
                 staleAlerted, staleSent, gatewayVars>>

(* The catalog or the health row cannot be reached, or the pause file      *)
(* exists: the poll ends here, and the row, if it can be written, is not   *)
(* "healthy" ("unhealthy" and "paused" are no different from "degraded").  *)
PollFails ==
  /\ spc = "idle" /\ Fault
  /\ RecordHealth("degraded") \/ UNCHANGED health
  /\ UNCHANGED <<now, storeVars, rows, sidecarVars, gatewayVars>>

Unused == {k \in Ids : manifests[k] = "none" /\ k \notin objects /\ rows[k] = "none"}

(* A capture because it is needed (no recovery point, or the last attempt  *)
(* failed) or because the strategy or a change asks for one; the latter    *)
(* leave enough ids for the former (bound).                                *)
StartCapture ==
  /\ spc = "visit"
  /\ \/ latest = None \/ failing
     \/ Cardinality(Unused) > MaxFaults
  /\ snap' \in Unused
  /\ spc' = "upload"
  /\ UNCHANGED <<now, faults, storeVars, rows, health, latest, verifiedAt, failing,
                 staleAlerted, staleSent, gatewayVars>>

(* failures[table]++: the next poll captures.                              *)
Failed == failing' = TRUE /\ spc' = "staleness" /\ snap' = None

(* refreshSnapshotVerification: the data object of the snapshot in memory  *)
(* is hashed again; only the copy in memory gets the new verified_at.      *)
Refresh ==
  /\ spc = "visit" /\ latest # None /\ ~failing
  /\ \/ /\ latest \in objects
        /\ snap' = latest
        /\ verifiedAt' = now
        /\ staleAlerted' = FALSE
        /\ spc' = "record"
        /\ UNCHANGED <<faults, failing>>
     \/ /\ Fault
        /\ Failed
        /\ UNCHANGED <<verifiedAt, staleAlerted>>
  /\ UNCHANGED <<now, storeVars, rows, health, latest, staleSent, gatewayVars>>

(* The table keeps changing, so this poll leaves it alone.                 *)
SkipTable ==
  /\ spc = "visit" /\ Fault
  /\ spc' = "staleness"
  /\ UNCHANGED <<now, storeVars, rows, health, snap, latest, verifiedAt, failing,
                 staleAlerted, staleSent, gatewayVars>>

(* CaptureTable, phases 1 to 4, and the time stamp.  A failure leaves the  *)
(* data object there or not; without a manifest nobody looks for it.       *)
Upload ==
  /\ spc = "upload"
  /\ \/ /\ objects' = objects \cup {snap}
        /\ ts' = [ts EXCEPT ![snap] = now]
        /\ spc' = "manifest"
        /\ UNCHANGED <<faults, failing, snap>>
     \/ /\ Fault /\ Failed
        /\ objects' \in {objects, objects \cup {snap}}
        /\ UNCHANGED ts
  /\ UNCHANGED <<now, manifests, rows, health, latest, verifiedAt, staleAlerted, staleSent,
                 gatewayVars>>

(* Variant for the mutation runs: the flag of the old snapshot is kept.    *)
PutManifestKeepFlag ==
  /\ spc = "manifest"
  /\ \/ /\ manifests' = [manifests EXCEPT ![snap] = "ok"]
        /\ latest' = snap /\ verifiedAt' = ts[snap] /\ failing' = FALSE
        /\ staleSent' = FALSE
        /\ spc' = "record"
        /\ UNCHANGED faults
     \/ /\ Fault
        /\ manifests' \in {manifests, [manifests EXCEPT ![snap] = "ok"]}
        /\ spc' = "cleanup"
        /\ UNCHANGED <<latest, verifiedAt, failing, staleSent>>
  /\ UNCHANGED <<now, ts, objects, rows, health, snap, staleAlerted, gatewayVars>>

(* Variant: the map in memory is updated before the manifest is put.       *)
PutManifestLatestFirst ==
  /\ spc = "manifest"
  /\ latest' = snap /\ verifiedAt' = ts[snap]
  /\ \/ /\ manifests' = [manifests EXCEPT ![snap] = "ok"]
        /\ failing' = FALSE /\ staleAlerted' = FALSE /\ staleSent' = FALSE
        /\ spc' = "record"
        /\ UNCHANGED faults
     \/ /\ Fault
        /\ manifests' \in {manifests, [manifests EXCEPT ![snap] = "ok"]}
        /\ spc' = "cleanup"
        /\ UNCHANGED <<failing, staleAlerted, staleSent>>
  /\ UNCHANGED <<now, ts, objects, rows, health, snap, gatewayVars>>

(* Phases 5 and 6.  A PutObject that reports an error may have put the     *)
(* manifest, for the gateway to find.                                      *)
PutManifest ==
  /\ spc = "manifest"
  /\ \/ /\ manifests' = [manifests EXCEPT ![snap] = "ok"]
        /\ latest' = snap /\ verifiedAt' = ts[snap] /\ failing' = FALSE
        /\ staleAlerted' = FALSE /\ staleSent' = FALSE
        /\ spc' = "record"
        /\ UNCHANGED faults
     \/ /\ Fault
        /\ manifests' \in {manifests, [manifests EXCEPT ![snap] = "ok"]}
        /\ spc' = "cleanup"
        /\ UNCHANGED <<latest, verifiedAt, failing, staleAlerted, staleSent>>
  /\ UNCHANGED <<now, ts, objects, rows, health, snap, gatewayVars>>

(* cleanupOrphanedData: the data object goes, unless the call fails.       *)
Cleanup ==
  /\ spc = "cleanup"
  /\ \/ objects' = objects \ {snap} /\ UNCHANGED faults
     \/ Fault /\ UNCHANGED objects
  /\ Failed
  /\ UNCHANGED <<now, manifests, ts, rows, health, latest, verifiedAt, staleAlerted, staleSent,
                 gatewayVars>>

(* Variant: the row is not touched when there is one already.              *)
RecordSnapshotOnce ==
  /\ spc = "record"
  /\ rows' = IF rows[snap] = "none" THEN [rows EXCEPT ![snap] = "valid"] ELSE rows
  /\ spc' = "staleness" /\ snap' = None
  /\ UNCHANGED <<now, faults, storeVars, health, latest, verifiedAt, failing, staleAlerted,
                 staleSent, gatewayVars>>

(* RecordSnapshot after a capture or a refresh: INSERT OR REPLACE.         *)
RecordSnapshot ==
  /\ spc = "record"
  /\ \/ /\ rows' = [rows EXCEPT ![snap] = "valid"]
        /\ spc' = "staleness" /\ snap' = None
        /\ UNCHANGED <<faults, failing>>
     \/ Fault /\ Failed /\ UNCHANGED rows
  /\ UNCHANGED <<now, storeVars, health, latest, verifiedAt, staleAlerted, staleSent,
                 gatewayVars>>

(* checkSnapshotStaleness: by the manifest's timestamp, one alert until    *)
(* the flag is cleared.  The flag is set once sending the alert was tried, *)
(* also when that failed.                                                  *)
CheckStaleness ==
  LET stale == StaleAfter > 0 /\ latest # None /\ now - ts[latest] > StaleAfter
      young == StaleAfter > 0 /\ latest # None /\ now - ts[latest] <= StaleAfter
  IN /\ spc = "staleness"
     /\ staleSent' = (staleSent \/ (stale /\ ~staleAlerted))
     /\ staleAlerted' = (stale \/ (staleAlerted /\ ~young))
     /\ spc' = "readiness"
     /\ UNCHANGED <<now, faults, storeVars, rows, health, snap, latest, verifiedAt, failing,
                    gatewayVars>>

(* updateRecoveryReadiness: here by the time of the last verification.     *)
UpdateReadiness ==
  LET stale == StaleAfter > 0 /\ latest # None /\ now - verifiedAt > StaleAfter
  IN /\ spc = "readiness"
     /\ \/ /\ RecordHealth(IF latest = None \/ failing \/ stale THEN "degraded" ELSE "healthy")
           /\ UNCHANGED faults
        \/ Fault /\ UNCHANGED health
     /\ spc' = "idle"
     /\ UNCHANGED <<now, storeVars, rows, snap, latest, verifiedAt, failing, staleAlerted,
                    staleSent, gatewayVars>>

(* The process dies anywhere; a new one knows of no snapshot.              *)
Crash ==
  /\ spc # "down" /\ Fault
  /\ spc' = "down" /\ snap' = None /\ latest' = None /\ verifiedAt' = 0
  /\ failing' = FALSE /\ staleAlerted' = FALSE /\ staleSent' = FALSE
  /\ UNCHANGED <<now, storeVars, rows, health, gatewayVars>>

Restart ==
  /\ spc = "down"
  /\ RecordHealth("starting")
  /\ spc' = "idle"
  /\ UNCHANGED <<now, faults, storeVars, rows, snap, latest, verifiedAt, failing,
                 staleAlerted, staleSent, gatewayVars>>

----------------------------------------------------------------------------
(* One verification in the gateway: VerifyLatestSidecarSnapshot, then      *)
(* checkRecoveryReadiness.                                                 *)

Sidecar == {k \in Ids : manifests[k] = "ok"}

(* A CRITICAL request comes; nothing of an earlier one is kept.            *)
Verify ==
  /\ gpc \in {"idle", "accepted", "refused"}
  /\ gpc' = "page"
  /\ page' = {} /\ cursor' = 0 /\ best' = None /\ more' = TRUE
  /\ known' = Sidecar /\ unread' = {}
  /\ UNCHANGED <<now, faults, storeVars, rows, health, sidecarVars, accepted>>

(* A verification that fails leaves nothing behind but rows.               *)
Refuse ==
  /\ gpc' = "refused"
  /\ page' = {} /\ cursor' = 0 /\ best' = None /\ more' = FALSE
  /\ known' = {} /\ unread' = {}

Continue(step) == gpc' = step /\ UNCHANGED <<page, cursor, best, more, known, unread>>

Listed == {k \in Ids : k > cursor /\ manifests[k] # "none"}

(* paginator.NextPage: the next keys after the last one seen, as the store *)
(* is by now.  There are more pages if this one was cut off; the first may *)
(* be empty.                                                               *)
NextPage ==
  /\ gpc = "page" /\ page = {} /\ more
  /\ \/ /\ page' = {k \in Listed : Cardinality({j \in Listed : j <= k}) <= PageSize}
        /\ more' = (page' # Listed)
        /\ UNCHANGED <<gpc, cursor, best, known, unread, faults>>
     \/ Fault /\ Refuse
  /\ UNCHANGED <<now, storeVars, rows, health, sidecarVars, accepted>>

First == CHOOSE k \in page : \A j \in page : k <= j

(* quarantineManifest: the row is replaced; a failure to do so is only     *)
(* alerted.                                                                *)
Quarantine(k) ==
  \/ rows' = [rows EXCEPT ![k] = "quarantined"] /\ UNCHANGED faults
  \/ Fault /\ UNCHANGED rows

Advance == page' = page \ {First} /\ cursor' = First

(* Variant: the last one listed is taken for the newest.                   *)
TakeLast ==
  /\ gpc = "page" /\ page # {} /\ manifests[First] = "ok"
  /\ best' = First
  /\ Advance
  /\ UNCHANGED <<now, faults, storeVars, rows, health, sidecarVars, gpc, more, known,
                 unread, accepted>>

(* A sidecar manifest replaces the best so far only if it is younger.      *)
ReadManifest ==
  /\ gpc = "page" /\ page # {} /\ manifests[First] = "ok"
  /\ best' = IF best = None \/ ts[First] > ts[best] THEN First ELSE best
  /\ Advance
  /\ UNCHANGED <<now, faults, storeVars, rows, health, sidecarVars, gpc, more, known,
                 unread, accepted>>

(* Another writer's manifest is passed over; one without a readable        *)
(* timestamp is quarantined and passed over.                               *)
PassOver ==
  /\ gpc = "page" /\ page # {} /\ manifests[First] \in {"foreign", "undated"}
  /\ IF manifests[First] = "undated" THEN Quarantine(First) ELSE UNCHANGED <<rows, faults>>
  /\ Advance
  /\ UNCHANGED <<now, storeVars, health, sidecarVars, gpc, best, more, known, unread,
                 accepted>>

(* A manifest of the sidecar that fails validateSidecarManifest is         *)
(* quarantined and ends the verification.                                  *)
RejectInvalid ==
  /\ gpc = "page" /\ page # {} /\ manifests[First] = "invalid"
  /\ Quarantine(First)
  /\ Refuse
  /\ UNCHANGED <<now, storeVars, health, sidecarVars, accepted>>

(* GetObject fails or its body breaks off: the manifest is quarantined, if *)
(* that works, whatever it says, and passed over.                          *)
ReadFails ==
  /\ gpc = "page" /\ page # {} /\ Fault
  /\ rows' \in {rows, [rows EXCEPT ![First] = "quarantined"]}
  /\ unread' = unread \cup {First}
  /\ Advance
  /\ UNCHANGED <<now, storeVars, health, sidecarVars, gpc, best, more, known, accepted>>

(* No more pages, although a manifest may have come since behind the last  *)
(* key.  The newest must be the one the request names, which is any.       *)
EndScan ==
  /\ gpc = "page" /\ page = {} /\ ~more
  /\ (best # None /\ Continue("data")) \/ Refuse
  /\ UNCHANGED <<now, faults, storeVars, rows, health, sidecarVars, accepted>>

(* verifyDataObject: read the data object and compare its hash.            *)
VerifyDataObject ==
  /\ gpc = "data"
  /\ \/ best \in objects /\ Continue("row") /\ UNCHANGED faults
     \/ best \notin objects /\ Refuse /\ UNCHANGED faults
     \/ Fault /\ Refuse
  /\ UNCHANGED <<now, storeVars, rows, health, sidecarVars, accepted>>

FreshEnough == MaxSnapshotAge = 0 \/ now - ts[best] <= MaxSnapshotAge

(* Variant: the snapshot's row is not looked at.                           *)
CheckAgeOnly ==
  /\ gpc = "row"
  /\ IF FreshEnough THEN Continue("heartbeat") ELSE Refuse
  /\ UNCHANGED <<now, faults, storeVars, rows, health, sidecarVars, accepted>>

(* The age of the manifest, then ValidateSnapshotRecord.  The row agrees   *)
(* with the manifest in every field whenever it says "valid", because the  *)
(* sidecar writes both from one record.                                    *)
CheckAgeAndRow ==
  /\ gpc = "row"
  /\ \/ /\ IF FreshEnough /\ rows[best] = "valid" THEN Continue("heartbeat") ELSE Refuse
        /\ UNCHANGED faults
     \/ Fault /\ Refuse
  /\ UNCHANGED <<now, storeVars, rows, health, sidecarVars, accepted>>

(* GetHealth: the sidecar must have called itself healthy, not long ago.   *)
CheckHeartbeat ==
  /\ gpc = "heartbeat"
  /\ \/ /\ IF health.status = "healthy" /\ now - health.at <= MaxHeartbeat
           THEN Continue("accepted") /\ accepted' = accepted \cup {best}
           ELSE Refuse /\ UNCHANGED accepted
        /\ UNCHANGED faults
     \/ Fault /\ Refuse /\ UNCHANGED accepted
  /\ UNCHANGED <<now, storeVars, rows, health, sidecarVars>>

----------------------------------------------------------------------------

SidecarStep ==
  \/ BeginPoll \/ PollFails \/ StartCapture \/ Refresh \/ SkipTable \/ Upload \/ PutManifest
  \/ Cleanup \/ RecordSnapshot \/ CheckStaleness \/ UpdateReadiness

GatewayStep ==
  \/ Verify
  \/ NextPage \/ ReadManifest \/ PassOver \/ RejectInvalid \/ ReadFails \/ EndScan
  \/ VerifyDataObject \/ CheckAgeAndRow \/ CheckHeartbeat

Next == Tick \/ SidecarStep \/ Crash \/ Restart \/ GatewayStep

(* A live sidecar goes on polling: its ticker fires and every call it      *)
(* makes returns, at last with an error.  Nothing is assumed of the clock, *)
(* the gateway's requests or a restart.                                    *)
Spec == Init /\ [][Next]_vars /\ WF_vars(SidecarStep)

----------------------------------------------------------------------------
(* Properties.                                                             *)

TypeOK ==
  /\ now \in Nat /\ faults \in Nat
  /\ manifests \in [Ids -> Kind] /\ ts \in [Ids -> Nat] /\ objects \subseteq Ids
  /\ rows \in [Ids -> {"none", "valid", "quarantined"}]
  /\ health \in [status : {"starting", "healthy", "degraded"}, at : Nat]
  /\ spc \in {"down", "idle", "visit", "upload", "manifest", "cleanup", "record",
              "staleness", "readiness"}
  /\ snap \in Ids \cup {None} /\ latest \in Ids \cup {None} /\ verifiedAt \in Nat
  /\ failing \in BOOLEAN /\ staleAlerted \in BOOLEAN /\ staleSent \in BOOLEAN
  /\ gpc \in {"idle", "page", "data", "row", "heartbeat", "accepted", "refused"}
  /\ page \subseteq Ids /\ cursor \in Nat
  /\ best \in Ids \cup {None} /\ more \in BOOLEAN
  /\ known \subseteq Ids /\ unread \subseteq Ids /\ accepted \subseteq Ids

Complete(k) == manifests[k] = "ok" /\ k \in objects

Capturing == spc \in {"upload", "manifest", "cleanup"}

(* A valid row, the sidecar's latest snapshot and what the gateway has     *)
(* accepted are all complete in the object store, and a snapshot that is   *)
(* being captured has no row and is none of them, so the removal of its    *)
(* data can hurt nobody.                                                   *)
PointInv ==
  /\ Capturing => snap # None /\ rows[snap] # "valid" /\ snap # latest /\ snap \notin accepted
  /\ spc = "manifest" => snap \in objects
  /\ spc = "record" => snap # None /\ snap = latest
  /\ latest # None => Complete(latest)
  /\ \A k \in Ids : rows[k] = "valid" => Complete(k)
  /\ accepted \subseteq {k \in Ids : Complete(k)}
  /\ gpc \in {"data", "row", "heartbeat", "accepted"} => best # None
  /\ best # None => manifests[best] = "ok"
  /\ gpc = "heartbeat" => Complete(best) /\ (best # snap \/ ~Capturing)

(* The loop invariant of the scan: what was in the store at its start is   *)
(* behind the cursor and no newer than the best so far, or still ahead, in *)
(* this page or in one that is yet to come.                                *)
ScanInv ==
  /\ spc = "upload" => manifests[snap] = "none"
  /\ known \subseteq Sidecar
  /\ gpc = "page" =>
       /\ \A j \in page : j > cursor
       /\ \A k \in known \ unread :
            \/ k <= cursor /\ best # None /\ ts[k] <= ts[best]
            \/ k > cursor /\ (k \in page \/ (more /\ \A j \in page : j < k))
  /\ gpc \in {"data", "row", "heartbeat", "accepted"} =>
       \A k \in known \ unread : ts[k] <= ts[best]

(* The inductive invariant of the two processes.                           *)
RecoveryInv == TypeOK /\ PointInv /\ ScanInv

(* The recovery point a verification accepts stays usable: its manifest    *)
(* and its data object are there from then on, although the sidecar        *)
(* removes data objects of captures that it thinks have failed, and the    *)
(* gateway may have read such an object before it went.                    *)
AcceptedStays == \A k \in accepted : Complete(k)

(* The accepted recovery point is the newest of those that were in the     *)
(* store when the verification began, in whatever order they are listed    *)
(* and however many pages that takes; only one whose manifest could not be *)
(* read may be newer.                                                      *)
NewestAccepted ==
  gpc = "accepted" => \A k \in known \ unread : ts[k] <= ts[best]

(* An alert about a stale snapshot is held back only if one was sent, or   *)
(* tried, about this very snapshot: the flag is cleared with each new      *)
(* capture.                                                                *)
StaleNotSuppressed == staleAlerted => staleSent

(* A passing read error does not cost the recovery point: when the gateway *)
(* has quarantined the row of the sidecar's latest snapshot, the sidecar   *)
(* makes it valid again or captures another, as long as it lives.          *)
QuarantineHeals ==
  (latest # None /\ rows[latest] = "quarantined")
    ~> (spc = "down" \/ (latest # None /\ rows[latest] = "valid"))
=============================================================================
