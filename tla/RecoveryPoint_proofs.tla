------------------------ MODULE RecoveryPoint_proofs ------------------------
(***************************************************************************)
(* Proofs about the recovery point that the sidecar and the gateway share, *)
(* for any number of snapshots, pages, faults and requests.                *)
(***************************************************************************)
EXTENDS RecoveryPoint, FiniteSetTheorems, WellFoundedInduction, TLAPS

----------------------------------------------------------------------------
(* Types, in four parts.                                                   *)

StoreOK ==
  /\ now \in Nat /\ faults \in Nat
  /\ manifests \in [Ids -> Kind] /\ ts \in [Ids -> Nat] /\ objects \subseteq Ids
  /\ rows \in [Ids -> {"none", "valid", "quarantined"}]
HealthOK == health \in [status : {"starting", "healthy", "degraded"}, at : Nat]
SidecarOK ==
  /\ spc \in {"down", "idle", "visit", "upload", "manifest", "cleanup", "record",
              "staleness", "readiness"}
  /\ snap \in Ids \cup {None} /\ latest \in Ids \cup {None} /\ verifiedAt \in Nat
FlagsOK ==
  /\ failing \in BOOLEAN /\ staleAlerted \in BOOLEAN /\ staleSent \in BOOLEAN
  /\ more \in BOOLEAN
GatewayOK ==
  /\ gpc \in {"idle", "page", "data", "row", "heartbeat", "accepted", "refused"}
  /\ page \subseteq Ids /\ cursor \in Nat
  /\ best \in Ids \cup {None}
  /\ known \subseteq Ids /\ unread \subseteq Ids /\ accepted \subseteq Ids

(* The flags stay Boolean.                                                 *)
LEMMA FlagTypes ==
  ASSUME FlagsOK, [Next]_vars
  PROVE  FlagsOK'
<1> USE DEF FlagsOK, gatewayVars
<1>1. CASE BeginPoll \/ StartCapture \/ SkipTable \/ UpdateReadiness \/ Restart
  BY <1>1, Zenon DEF BeginPoll, StartCapture, SkipTable, UpdateReadiness, Restart
<1>2. CASE Refresh \/ Upload \/ Cleanup \/ RecordSnapshot
  BY <1>2, Zenon DEF Refresh, Upload, Cleanup, RecordSnapshot, Failed
<1>3. CASE PutManifest
  BY <1>3, Zenon DEF PutManifest
<1>4. CASE CheckStaleness
  BY <1>4, Zenon DEF CheckStaleness
<1>5. CASE Crash
  BY <1>5, Zenon DEF Crash
<1>6. CASE Tick \/ PollFails \/ UNCHANGED vars
  BY <1>6, Zenon DEF Tick, PollFails, vars, sidecarVars
<1>7. CASE GatewayStep
  <2>1. UNCHANGED <<failing, staleAlerted, staleSent>>
    BY <1>7, Zenon DEF GatewayStep, Verify, NextPage, ReadManifest, PassOver, RejectInvalid,
       ReadFails, EndScan, VerifyDataObject, CheckAgeAndRow, CheckHeartbeat, sidecarVars
  <2>2. more' \in BOOLEAN
    BY <1>7, Zenon DEF GatewayStep, Verify, NextPage, ReadManifest, PassOver, RejectInvalid,
       ReadFails, EndScan, VerifyDataObject, CheckAgeAndRow, CheckHeartbeat, Refuse, Continue
  <2> QED
    BY <2>1, <2>2, Zenon
<1> QED
  BY <1>1, <1>2, <1>3, <1>4, <1>5, <1>6, <1>7, Zenon DEF Next, SidecarStep

(* The steps of the sidecar keep the other types.                          *)
LEMMA SidecarTypes ==
  ASSUME StoreOK, HealthOK, SidecarOK, GatewayOK, PointInv, SidecarStep \/ Crash \/ Restart
  PROVE  StoreOK' /\ HealthOK' /\ SidecarOK' /\ GatewayOK'
<1> USE RecoveryAssumption DEF StoreOK, SidecarOK, Fault, None, storeVars, Kind
<1>1. GatewayOK'
  BY Zenon DEF SidecarStep, Crash, Restart, GatewayOK, gatewayVars, BeginPoll, PollFails,
     StartCapture, Refresh, SkipTable, Upload, PutManifest, Cleanup, RecordSnapshot, CheckStaleness,
     UpdateReadiness
<1>2. HealthOK'
  <2>1. CASE BeginPoll \/ PollFails \/ UpdateReadiness \/ Restart
    BY <2>1 DEF BeginPoll, PollFails, UpdateReadiness, Restart, RecordHealth, HealthOK
  <2>2. CASE health' = health
    BY <2>2 DEF HealthOK
  <2> QED
    BY <2>1, <2>2 DEF SidecarStep, Crash, StartCapture, Refresh, SkipTable, Upload,
       PutManifest, Cleanup, RecordSnapshot, CheckStaleness
<1>3. CASE BeginPoll \/ PollFails
  <2>1. faults' \in Nat
    BY <1>3 DEF BeginPoll, PollFails
  <2>2. UNCHANGED <<now, storeVars, rows, snap, latest, verifiedAt>>
    BY <1>3, Zenon DEF BeginPoll, PollFails, sidecarVars
  <2>3. spc' \in {spc, "visit"}
    BY <1>3 DEF BeginPoll, PollFails, sidecarVars
  <2> QED
    BY <1>1, <1>2, <2>1, <2>2, <2>3
<1>4. CASE StartCapture
  BY <1>1, <1>2, <1>4 DEF StartCapture, Unused
<1>5. CASE Refresh
  BY <1>1, <1>2, <1>5 DEF Refresh, Failed
<1>6. CASE SkipTable
  BY <1>1, <1>2, <1>6 DEF SkipTable
<1>7. CASE Upload
  <2>1. objects' \subseteq Ids
    BY <1>7 DEF Upload, PointInv, Capturing
  <2>2. ts' \in [Ids -> Nat]
    BY <1>7 DEF Upload
  <2> QED
    BY <1>1, <1>2, <1>7, <2>1, <2>2 DEF Upload, Failed
<1>8. CASE PutManifest
  BY <1>1, <1>2, <1>8 DEF PutManifest, PointInv, Capturing
<1>9. CASE Cleanup
  <2>1. objects' \subseteq Ids
    BY <1>9 DEF Cleanup
  <2>2. faults' \in Nat /\ snap' = None /\ spc' = "staleness"
    BY <1>9 DEF Cleanup, Failed
  <2> QED
    BY <1>1, <1>2, <1>9, <2>1, <2>2 DEF Cleanup
<1>10. CASE RecordSnapshot
  BY <1>1, <1>2, <1>10 DEF RecordSnapshot, Failed, PointInv
<1>11. CASE CheckStaleness
  BY <1>1, <1>2, <1>11 DEF CheckStaleness
<1>12. CASE UpdateReadiness
  BY <1>1, <1>2, <1>12 DEF UpdateReadiness
<1>13. CASE Crash
  BY <1>1, <1>2, <1>13 DEF Crash
<1>14. CASE Restart
  BY <1>1, <1>2, <1>14 DEF Restart
<1> QED
  BY <1>3, <1>4, <1>5, <1>6, <1>7, <1>8, <1>9, <1>10, <1>11, <1>12, <1>13, <1>14
  DEF SidecarStep

(* The steps of a verification keep the types.                             *)
LEMMA GatewayTypes ==
  ASSUME StoreOK, HealthOK, SidecarOK, GatewayOK, PointInv, GatewayStep,
         page # {} => First \in page
  PROVE  StoreOK' /\ HealthOK' /\ SidecarOK' /\ GatewayOK'
<1> USE RecoveryAssumption DEF StoreOK, GatewayOK, Fault, None, storeVars, Kind
<1>1. HealthOK' /\ SidecarOK'
  BY Zenon DEF GatewayStep, Verify, NextPage, ReadManifest, PassOver, RejectInvalid, ReadFails,
     EndScan, VerifyDataObject, CheckAgeAndRow, CheckHeartbeat, sidecarVars, HealthOK, SidecarOK
<1>2. StoreOK'
  <2>1. rows' \in [Ids -> {"none", "valid", "quarantined"}]
    <3>1. CASE PassOver \/ RejectInvalid
      BY <3>1 DEF PassOver, RejectInvalid, Quarantine
    <3>2. CASE ReadFails
      BY <3>2 DEF ReadFails
    <3> QED
      BY <3>1, <3>2 DEF GatewayStep, Verify, NextPage, ReadManifest, EndScan, VerifyDataObject,
         CheckAgeAndRow, CheckHeartbeat
  <2>2. faults' = faults \/ faults' = faults + 1
    BY Zenon DEF GatewayStep, Verify, NextPage, ReadManifest, PassOver, RejectInvalid,
       ReadFails, EndScan, VerifyDataObject, CheckAgeAndRow, CheckHeartbeat, Quarantine
  <2>3. now' = now /\ UNCHANGED storeVars
    BY Zenon DEF GatewayStep, Verify, NextPage, ReadManifest, PassOver, RejectInvalid,
       ReadFails, EndScan, VerifyDataObject, CheckAgeAndRow, CheckHeartbeat
  <2> QED
    BY <2>1, <2>2, <2>3
<1>3. CASE Verify
  BY <1>1, <1>2, <1>3 DEF Verify, Sidecar
<1>4. ASSUME Refuse, accepted' = accepted
      PROVE  GatewayOK'
  BY <1>4 DEF Refuse
<1>5. ASSUME NEW step \in {"data", "row", "heartbeat", "accepted"}, Continue(step),
             accepted' \subseteq Ids
      PROVE  GatewayOK'
  BY <1>5 DEF Continue
<1>6. ASSUME Advance, page # {}, gpc' = gpc, best' \in Ids \cup {None}, known' = known,
             unread' \subseteq Ids, accepted' = accepted
      PROVE  GatewayOK'
  <2>1. page' \subseteq Ids /\ cursor' \in Nat
    BY <1>6 DEF Advance
  <2> QED
    BY <1>6, <2>1
<1>7. CASE NextPage
  <2>1. CASE Refuse
    BY <1>1, <1>2, <1>4, <1>7, <2>1 DEF NextPage
  <2>2. CASE page' \subseteq Listed /\ UNCHANGED <<gpc, cursor, best, known, unread>>
    BY <1>1, <1>2, <1>7, <2>2 DEF NextPage, Listed
  <2> QED
    BY <1>7, <2>1, <2>2 DEF NextPage
<1>8. CASE ReadManifest
  <2>1. First \in Ids /\ best' \in Ids \cup {None}
    BY <1>8 DEF ReadManifest
  <2> QED
    BY <1>1, <1>2, <1>6, <1>8, <2>1 DEF ReadManifest
<1>9. CASE PassOver
  BY <1>1, <1>2, <1>6, <1>9 DEF PassOver
<1>10. CASE RejectInvalid
  BY <1>1, <1>2, <1>4, <1>10 DEF RejectInvalid
<1>11. CASE ReadFails
  <2>1. page # {} /\ Advance /\ gpc' = gpc /\ best' = best /\ known' = known
        /\ accepted' = accepted
    BY <1>11 DEF ReadFails
  <2>2. unread' = unread \cup {First} /\ First \in Ids
    BY <1>11 DEF ReadFails
  <2>3. unread' \subseteq Ids
    BY <2>2
  <2> QED
    BY <1>1, <1>2, <1>6, <2>1, <2>3
<1>12. CASE EndScan
  BY <1>1, <1>2, <1>4, <1>5, <1>12 DEF EndScan
<1>13. CASE VerifyDataObject
  BY <1>1, <1>2, <1>4, <1>5, <1>13 DEF VerifyDataObject
<1>14. CASE CheckAgeAndRow
  BY <1>1, <1>2, <1>4, <1>5, <1>14 DEF CheckAgeAndRow
<1>15. CASE CheckHeartbeat
  <2>1. best \in Ids
    BY <1>15 DEF CheckHeartbeat, PointInv
  <2> QED
    BY <1>1, <1>2, <1>4, <1>5, <1>15, <2>1 DEF CheckHeartbeat
<1> QED
  BY <1>3, <1>7, <1>8, <1>9, <1>10, <1>11, <1>12, <1>13, <1>14, <1>15 DEF GatewayStep

----------------------------------------------------------------------------
(* The recovery point.                                                     *)

(* The key that a verification looks at next is one of the page's.         *)
LEMMA FirstIsLeast ==
  ASSUME GatewayOK, page # {}
  PROVE  First \in page /\ \A j \in page : First <= j
<1>1. page \in SUBSET Nat
  BY RecoveryAssumption DEF GatewayOK
<1>2. \E k \in page : \A j \in page : k <= j
  <2>1. \E m \in page : \A n \in page : ~(<<n, m>> \in OpToRel(<, Nat))
    BY <1>1, NatLessThanWellFounded, WFMin, Zenon
  <2>2. \A n, m \in Nat : n < m => <<n, m>> \in OpToRel(<, Nat)
    BY DEF OpToRel
  <2>3. \E m \in page : \A n \in page : ~(n < m)
    BY <1>1, <2>1, <2>2, Zenon
  <2> QED
    BY <1>1, <2>3
<1> QED
  BY <1>2, Zenon DEF First

(* The sidecar never makes an accepted or a recorded recovery point        *)
(* incomplete: what it removes is the data of a capture of its own that    *)
(* has no valid row.                                                       *)
LEMMA SidecarKeepsPoint ==
  ASSUME StoreOK, SidecarOK, GatewayOK, PointInv, SidecarStep \/ Crash \/ Restart
  PROVE  PointInv'
<1> USE RecoveryAssumption DEF StoreOK, SidecarOK, GatewayOK, PointInv, Capturing, Complete,
        None, gatewayVars, storeVars
<1>1. CASE BeginPoll \/ SkipTable \/ CheckStaleness \/ UpdateReadiness \/ Crash \/ Restart
  BY <1>1 DEF BeginPoll, SkipTable, CheckStaleness, UpdateReadiness, Crash, Restart
<1>2. CASE StartCapture
  BY <1>2 DEF StartCapture, Unused
<1>3. CASE Refresh
  BY <1>3 DEF Refresh, Failed
<1>4. CASE Upload
  BY <1>4 DEF Upload, Failed
<1>5. CASE PutManifest
  <2>1. snap \in Ids /\ snap \in objects
    BY <1>5 DEF PutManifest
  <2>2. CASE manifests' = [manifests EXCEPT ![snap] = "ok"]
    BY <1>5, <2>1, <2>2 DEF PutManifest
  <2>3. CASE manifests' = manifests
    BY <1>5, <2>1, <2>3 DEF PutManifest
  <2> QED
    BY <1>5, <2>2, <2>3 DEF PutManifest
<1>6. CASE Cleanup
  BY <1>6 DEF Cleanup, Failed
<1>7. CASE RecordSnapshot
  BY <1>7 DEF RecordSnapshot, Failed
<1>8. CASE PollFails
  BY <1>8 DEF PollFails, sidecarVars
<1> QED
  BY <1>1, <1>2, <1>3, <1>4, <1>5, <1>6, <1>7, <1>8 DEF SidecarStep

(* A verification accepts only a recovery point that is complete and that  *)
(* no capture in progress can take back: the valid row says so.            *)
LEMMA GatewayKeepsPoint ==
  ASSUME StoreOK, SidecarOK, GatewayOK, PointInv, GatewayStep
  PROVE  PointInv'
<1> USE RecoveryAssumption DEF StoreOK, SidecarOK, GatewayOK, PointInv, Capturing, Complete,
        None, sidecarVars, storeVars
<1>1. CASE Verify
  BY <1>1 DEF Verify
<1>2. CASE NextPage
  BY <1>2 DEF NextPage, Refuse
<1>3. CASE ReadManifest
  BY <1>3 DEF ReadManifest
<1>4. CASE PassOver
  BY <1>4 DEF PassOver, Quarantine
<1>5. CASE RejectInvalid
  BY <1>5 DEF RejectInvalid, Refuse, Quarantine
<1>6. CASE ReadFails
  BY <1>6 DEF ReadFails
<1>7. CASE EndScan
  BY <1>7 DEF EndScan, Continue, Refuse
<1>8. CASE VerifyDataObject
  BY <1>8 DEF VerifyDataObject, Continue, Refuse
<1>9. CASE CheckAgeAndRow
  BY <1>9 DEF CheckAgeAndRow, Continue, Refuse
<1>10. CASE CheckHeartbeat
  <2>1. best \in Ids /\ Complete(best) /\ (best # snap \/ ~Capturing)
    BY <1>10 DEF CheckHeartbeat
  <2>2. CASE Refuse /\ UNCHANGED accepted
    BY <1>10, <2>2 DEF CheckHeartbeat, Refuse
  <2>3. CASE Continue("accepted") /\ accepted' = accepted \cup {best}
    BY <1>10, <2>1, <2>3 DEF CheckHeartbeat, Continue
  <2> QED
    BY <1>10, <2>2, <2>3 DEF CheckHeartbeat
<1> QED
  BY <1>1, <1>2, <1>3, <1>4, <1>5, <1>6, <1>7, <1>8, <1>9, <1>10 DEF GatewayStep

----------------------------------------------------------------------------
(* The scan.                                                               *)

(* A page is an initial part of what is listed after the cursor.           *)
LEMMA PageIsPrefix ==
  ASSUME GatewayOK, NEW k \in Listed, NEW j \in Listed, k <= j,
         Cardinality({n \in Listed : n <= j}) <= PageSize
  PROVE  Cardinality({n \in Listed : n <= k}) <= PageSize
<1> DEFINE K == {n \in Listed : n <= k}
           J == {n \in Listed : n <= j}
<1>1. IsFiniteSet(J)
  <2>1. J \in SUBSET Ids
    BY DEF Listed
  <2> QED
    BY <2>1, RecoveryAssumption, FS_Subset
<1>2. K \in SUBSET J
  <2>1. Listed \subseteq Nat
    BY RecoveryAssumption DEF Listed
  <2>2. \A n \in Nat : n <= k => n <= j
    BY <2>1
  <2>3. \A n \in K : n \in J
    BY <2>1, <2>2, Zenon
  <2> QED
    BY <2>3, Zenon
<1>3. IsFiniteSet(K) /\ Cardinality(K) <= Cardinality(J)
  BY <1>1, <1>2, FS_Subset
<1>4. Cardinality(K) \in Nat /\ Cardinality(J) \in Nat /\ PageSize \in Nat
  BY <1>1, <1>3, FS_CardinalityType, RecoveryAssumption
<1> QED
  BY <1>3, <1>4

(* A snapshot whose manifest is in the store keeps it, and its timestamp.  *)
LEMMA SidecarKeepsScan ==
  ASSUME StoreOK, SidecarOK, GatewayOK, PointInv, ScanInv, SidecarStep \/ Crash \/ Restart
  PROVE  ScanInv'
<1>1. UNCHANGED gatewayVars
  BY Zenon DEF SidecarStep, Crash, Restart, BeginPoll, PollFails, StartCapture, Refresh, SkipTable,
     Upload, PutManifest, Cleanup, RecordSnapshot, CheckStaleness, UpdateReadiness
<1>2. /\ \A k \in Ids : manifests[k] = "ok" => manifests'[k] = "ok" /\ ts'[k] = ts[k]
      /\ spc' = "upload" => manifests'[snap'] = "none"
  <2>1. CASE StartCapture
    BY <2>1 DEF StartCapture, Unused, storeVars
  <2>2. CASE Upload
    BY <2>2 DEF Upload, ScanInv, PointInv, Capturing, StoreOK, Failed
  <2>3. CASE PutManifest
    BY <2>3 DEF PutManifest, StoreOK
  <2>4. CASE UNCHANGED <<manifests, ts>> /\ spc' # "upload"
    BY <2>4
  <2>5. CASE PollFails
    BY <2>5 DEF PollFails, storeVars, sidecarVars
  <2> QED
    BY <2>1, <2>2, <2>3, <2>4, <2>5 DEF SidecarStep, Crash, Restart, BeginPoll, Refresh, SkipTable,
       Cleanup, RecordSnapshot, CheckStaleness, UpdateReadiness, Failed, storeVars
<1>3. known' \subseteq Sidecar'
  BY <1>1, <1>2 DEF ScanInv, Sidecar, gatewayVars
<1>4. \A k \in known : ts'[k] = ts[k]
  BY <1>2 DEF ScanInv, Sidecar
<1>5. best # None => ts'[best] = ts[best]
  BY <1>2 DEF PointInv, GatewayOK
<1>6. gpc \in {"data", "row", "heartbeat", "accepted"} => best # None
  BY DEF PointInv
<1> QED
  BY <1>1, <1>2, <1>3, <1>4, <1>5, <1>6 DEF ScanInv, gatewayVars

(* Each step of the scan takes one key from ahead of the cursor to behind. *)
LEMMA GatewayKeepsScan ==
  ASSUME StoreOK, SidecarOK, GatewayOK, PointInv, ScanInv, GatewayStep
  PROVE  ScanInv'
<1>1. UNCHANGED <<storeVars, sidecarVars>>
  BY Zenon DEF GatewayStep, Verify, NextPage, ReadManifest, PassOver, RejectInvalid, ReadFails,
     EndScan, VerifyDataObject, CheckAgeAndRow, CheckHeartbeat
<1>2. Ids \subseteq Nat /\ None \notin Ids
  BY RecoveryAssumption
<1>3. CASE Verify
  <2>1. known' = Sidecar /\ Sidecar' = Sidecar /\ page' = {} /\ cursor' = 0 /\ gpc' = "page"
        /\ more'
    BY <1>1, <1>3 DEF Verify, Sidecar, storeVars
  <2>2. \A k \in Sidecar : k > 0
    BY <1>2 DEF Sidecar, None
  <2> QED
    BY <1>1, <2>1, <2>2 DEF ScanInv, storeVars, sidecarVars
<1>4. CASE Refuse
  BY <1>1, <1>4 DEF ScanInv, Refuse, storeVars, sidecarVars
<1>5. CASE NextPage /\ UNCHANGED <<gpc, cursor, best, known, unread>>
  <2>1. page' = {k \in Listed : Cardinality({j \in Listed : j <= k}) <= PageSize}
    BY <1>5 DEF NextPage, Refuse
  <2>2. \A j \in page' : j > cursor
    BY <2>1 DEF Listed
  <2>3. ASSUME NEW k \in known, k > cursor
        PROVE  k \in page' \/ (more' /\ \A j \in page' : j < k)
    <3>1. k \in Listed /\ page' \subseteq Listed
      BY <2>1, <2>3 DEF Listed, ScanInv, Sidecar
    <3>2. more' = (page' # Listed)
      BY <1>5 DEF NextPage, Refuse
    <3>3. ASSUME NEW j \in page', ~(j < k)
          PROVE  k \in page'
      <4>1. j \in Listed /\ k <= j
        BY <1>2, <3>1, <3>3 DEF Listed
      <4> QED
        BY <2>1, <3>1, <3>3, <4>1, PageIsPrefix
    <3> QED
      BY <3>1, <3>2, <3>3
  <2>4. known' \subseteq Sidecar'
    BY <1>1, <1>5 DEF ScanInv, Sidecar, storeVars
  <2> QED
    BY <1>1, <1>5, <2>2, <2>3, <2>4 DEF ScanInv, NextPage, storeVars, sidecarVars
<1>6. ASSUME gpc = "page", page # {}, Advance, UNCHANGED <<gpc, known, more>>,
             First \in known \ unread' => best' # None /\ ts[First] <= ts[best'],
             best # None => best' # None /\ ts[best] <= ts[best'],
             best' \in Ids \cup {None}, unread \subseteq unread'
      PROVE  ScanInv'
  <2>1. First \in page /\ \A j \in page : First <= j
    BY <1>6, FirstIsLeast
  <2>2. known' \subseteq Sidecar' /\ known \subseteq Ids
    BY <1>1, <1>6 DEF ScanInv, Sidecar, storeVars
  <2>3. First \in Nat /\ First > cursor /\ page \subseteq Nat /\ cursor \in Nat
    BY <1>2, <1>6, <2>1 DEF ScanInv, GatewayOK
  <2>4. \A j \in page' : j > cursor'
    BY <1>6, <2>1, <2>3 DEF Advance
  <2>5. ASSUME NEW k \in known' \ unread'
        PROVE  \/ k <= cursor' /\ best' # None /\ ts[k] <= ts[best']
               \/ k > cursor' /\ (k \in page' \/ (more' /\ \A j \in page' : j < k))
    <3>1. k \in known \ unread /\ k \in Nat
      BY <1>2, <1>6, <2>2, <2>5
    <3>2. \/ k <= cursor /\ best # None /\ ts[k] <= ts[best]
          \/ k > cursor /\ (k \in page \/ (more /\ \A j \in page : j < k))
      BY <1>6, <3>1 DEF ScanInv
    <3>3. CASE k <= cursor /\ best # None /\ ts[k] <= ts[best]
      <4>1. ts[k] \in Nat /\ ts[best] \in Nat /\ ts[best'] \in Nat
        BY <1>6, <2>2, <3>1, <3>3 DEF StoreOK, GatewayOK
      <4> QED
        BY <1>6, <2>3, <3>1, <3>3, <4>1 DEF Advance
    <3>4. CASE k = First
      BY <1>6, <2>3, <2>5, <3>1, <3>4 DEF Advance
    <3>5. CASE k # First /\ k > cursor /\ (k \in page \/ (more /\ \A j \in page : j < k))
      BY <1>6, <2>1, <2>3, <3>1, <3>5 DEF Advance
    <3> QED
      BY <3>2, <3>3, <3>4, <3>5
  <2> QED
    BY <1>1, <1>6, <2>2, <2>4, <2>5 DEF ScanInv, storeVars, sidecarVars
<1>7. CASE ReadManifest
  <2>1. First \in Ids
    BY <1>7, FirstIsLeast DEF ReadManifest, GatewayOK
  <2>2. /\ best' # None /\ best' \in Ids /\ ts[First] <= ts[best']
        /\ best # None => ts[best] <= ts[best']
    BY <1>2, <1>7, <2>1 DEF ReadManifest, StoreOK, GatewayOK
  <2> QED
    BY <1>6, <1>7, <2>2 DEF ReadManifest
<1>8. CASE PassOver
  <2>1. First \notin known
    BY <1>8 DEF PassOver, ScanInv, Sidecar
  <2>2. best # None => ts[best] <= ts[best]
    BY DEF StoreOK, GatewayOK
  <2> QED
    BY <1>6, <1>8, <2>1, <2>2 DEF PassOver, GatewayOK
<1>9. CASE ReadFails
  <2>1. First \in unread' /\ unread \subseteq unread'
    BY <1>9 DEF ReadFails
  <2>2. best # None => ts[best] <= ts[best]
    BY DEF StoreOK, GatewayOK
  <2> QED
    BY <1>6, <1>9, <2>1, <2>2 DEF ReadFails, GatewayOK
<1>10. CASE EndScan /\ ~Refuse
  <2>1. Continue("data") /\ gpc = "page" /\ page = {} /\ ~more
    BY <1>10 DEF EndScan
  <2>2. \A k \in known \ unread : ts[k] <= ts[best]
    BY <2>1 DEF ScanInv
  <2>3. known' \subseteq Sidecar'
    BY <1>1, <2>1 DEF ScanInv, Sidecar, storeVars, Continue
  <2> QED
    BY <1>1, <2>1, <2>2, <2>3 DEF ScanInv, Continue, storeVars, sidecarVars
<1>11. ASSUME NEW step \in {"row", "heartbeat", "accepted"}, Continue(step),
              gpc \in {"data", "row", "heartbeat"}
       PROVE  ScanInv'
  <2>1. known' \subseteq Sidecar'
    BY <1>1, <1>11 DEF ScanInv, Sidecar, storeVars, Continue
  <2> QED
    BY <1>1, <1>11, <2>1 DEF ScanInv, Continue, storeVars, sidecarVars
<1>12. CASE VerifyDataObject \/ CheckAgeAndRow \/ CheckHeartbeat
  BY <1>4, <1>11, <1>12 DEF VerifyDataObject, CheckAgeAndRow, CheckHeartbeat
<1> QED
  BY <1>3, <1>4, <1>5, <1>7, <1>8, <1>9, <1>10, <1>12
  DEF GatewayStep, NextPage, RejectInvalid

----------------------------------------------------------------------------
(* The theorems.                                                           *)

(* The inductive invariant of the sidecar and the gateway, over the object *)
(* store and the metadata database, holds in every interleaving.           *)
THEOREM RecoveryInvAlways == Spec => []RecoveryInv
<1>1. Init => RecoveryInv
  <2> SUFFICES ASSUME Init
               PROVE  RecoveryInv
    OBVIOUS
  <2>1. FlagsOK
    BY Zenon DEF Init, FlagsOK
  <2>2. StoreOK /\ HealthOK /\ SidecarOK /\ GatewayOK
    BY RecoveryAssumption DEF Init, StoreOK, HealthOK, SidecarOK, GatewayOK, Kind, None
  <2>3. PointInv
    BY DEF Init, PointInv, Capturing, None
  <2>4. ScanInv
    BY DEF Init, ScanInv
  <2> QED
    BY <2>1, <2>2, <2>3, <2>4, Zenon DEF RecoveryInv, TypeOK, StoreOK, HealthOK,
       SidecarOK, FlagsOK, GatewayOK
<1>2. RecoveryInv /\ [Next]_vars => RecoveryInv'
  <2> SUFFICES ASSUME RecoveryInv, [Next]_vars
               PROVE  RecoveryInv'
    OBVIOUS
  <2>1. StoreOK /\ HealthOK /\ SidecarOK /\ FlagsOK /\ GatewayOK /\ PointInv /\ ScanInv
    BY Zenon DEF RecoveryInv, TypeOK, StoreOK, HealthOK,
       SidecarOK, FlagsOK, GatewayOK
  <2>2. FlagsOK'
    BY <2>1, FlagTypes
  <2>3. SUFFICES StoreOK' /\ HealthOK' /\ SidecarOK' /\ GatewayOK' /\ PointInv' /\ ScanInv'
    <3>1. TypeOK' <=> (StoreOK' /\ HealthOK' /\ SidecarOK' /\ FlagsOK' /\ GatewayOK')
      BY DEF TypeOK, StoreOK, HealthOK, SidecarOK, FlagsOK, GatewayOK
    <3> QED
      BY <2>2, <2>3, <3>1 DEF RecoveryInv
  <2>4. CASE SidecarStep \/ Crash \/ Restart
    BY <2>1, <2>4, SidecarTypes, SidecarKeepsPoint, SidecarKeepsScan
  <2>5. CASE GatewayStep
    <3>1. page # {} => First \in page
      BY <2>1, FirstIsLeast
    <3> QED
      BY <2>1, <2>5, <3>1, GatewayTypes, GatewayKeepsPoint, GatewayKeepsScan
  <2>6. CASE Tick
    <3>1. now' \in Nat /\ UNCHANGED <<faults, storeVars, rows, health, sidecarVars, gatewayVars>>
      BY <2>1, <2>6 DEF Tick, StoreOK
    <3>2. StoreOK' /\ HealthOK' /\ SidecarOK' /\ GatewayOK'
      BY <2>1, <3>1 DEF StoreOK, HealthOK, SidecarOK, GatewayOK, storeVars, sidecarVars,
         gatewayVars
    <3>3. PointInv'
      BY <2>1, <3>1 DEF PointInv, Capturing, Complete, storeVars, sidecarVars, gatewayVars
    <3>4. ScanInv'
      BY <2>1, <3>1 DEF ScanInv, Sidecar, storeVars, sidecarVars, gatewayVars
    <3> QED
      BY <3>2, <3>3, <3>4
  <2>7. CASE UNCHANGED vars
    <3>1. StoreOK' /\ HealthOK' /\ SidecarOK' /\ GatewayOK'
      BY <2>1, <2>7 DEF vars, StoreOK, HealthOK, SidecarOK, GatewayOK, storeVars, sidecarVars,
         gatewayVars
    <3>2. PointInv'
      BY <2>1, <2>7 DEF vars, PointInv, Capturing, Complete, storeVars, sidecarVars, gatewayVars
    <3>3. ScanInv'
      BY <2>1, <2>7 DEF vars, ScanInv, Sidecar, storeVars, sidecarVars, gatewayVars
    <3> QED
      BY <3>1, <3>2, <3>3
  <2> QED
    BY <2>4, <2>5, <2>6, <2>7 DEF Next
<1> QED
  BY <1>1, <1>2, PTL DEF Spec

(* A recovery point the gateway has accepted stays complete, whatever the  *)
(* sidecar's cleanup, its crashes and its later captures do.               *)
THEOREM AcceptedStaysAlways == Spec => []AcceptedStays
<1>1. RecoveryInv => AcceptedStays
  BY DEF RecoveryInv, PointInv, AcceptedStays
<1> QED
  BY <1>1, RecoveryInvAlways, PTL

(* What a verification accepts is the newest of what it could read, for    *)
(* any number of snapshots and pages, while the sidecar adds more.         *)
THEOREM NewestAcceptedAlways == Spec => []NewestAccepted
<1>1. RecoveryInv => NewestAccepted
  BY DEF RecoveryInv, ScanInv, NewestAccepted
<1> QED
  BY <1>1, RecoveryInvAlways, PTL

(* The sidecar's alert about a stale snapshot is never held back on        *)
(* account of an earlier snapshot, nor of one that a crash has forgotten.  *)
THEOREM StaleNotSuppressedAlways == Spec => []StaleNotSuppressed
<1>1. Init => StaleNotSuppressed
  BY Zenon DEF Init, StaleNotSuppressed
<1>2. StaleNotSuppressed /\ [Next]_vars => StaleNotSuppressed'
  <2> SUFFICES ASSUME StaleNotSuppressed, [Next]_vars
               PROVE  StaleNotSuppressed'
    OBVIOUS
  <2> USE DEF StaleNotSuppressed
  <2>1. CASE UNCHANGED <<staleAlerted, staleSent>>
    BY <2>1, Zenon
  <2>2. CASE Refresh
    BY <2>2, Zenon DEF Refresh
  <2>3. CASE PutManifest
    BY <2>3, Zenon DEF PutManifest
  <2>4. CASE CheckStaleness
    BY <2>4, Zenon DEF CheckStaleness
  <2>5. CASE Crash
    BY <2>5, Zenon DEF Crash
  <2>6. CASE GatewayStep \/ Tick \/ PollFails
    BY <2>6, Zenon DEF GatewayStep, Tick, PollFails, Verify, NextPage, ReadManifest, PassOver,
       RejectInvalid, ReadFails, EndScan, VerifyDataObject, CheckAgeAndRow, CheckHeartbeat,
       sidecarVars
  <2>7. CASE UNCHANGED vars
    BY <2>7, Zenon DEF vars, sidecarVars
  <2> QED
    BY <2>1, <2>2, <2>3, <2>4, <2>5, <2>6, <2>7, Zenon DEF Next, SidecarStep, BeginPoll,
       StartCapture, SkipTable, Upload, Cleanup, RecordSnapshot, UpdateReadiness, Restart
<1> QED
  BY <1>1, <1>2, PTL DEF Spec
=============================================================================
