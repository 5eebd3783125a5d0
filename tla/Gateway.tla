------------------------------ MODULE Gateway ------------------------------
(***************************************************************************)
(* gateway/mcp_server.go, toolExecuteQuery, and what surrounds it: the     *)
(* life of an execute_query request from the concurrency limit to the      *)
(* reply, composed with the approval engine (ApprovalEngine), the agent    *)
(* quarantine (AgentBehavior) and the policy (Policy).                     *)
(*                                                                         *)
(* One goroutine runs each request.  A step ends where the handler touches *)
(* state that others change: the pause flag, the agent's row, the object   *)
(* store, the sidecar's health row, the approval map, the database.  The   *)
(* administrators, the sidecar, the operators, the clients and a crash of  *)
(* the process interleave with it everywhere.                              *)
(***************************************************************************)
EXTENDS Integers, Sequences, FiniteSets, Policy

CONSTANTS Requests, Operators, Agents, AgentOf, Tables,
          Queries,                \* the analyses analyzeSQL and the impact give
          ThePolicy,              \* the loaded policy
          MaxBlockedAttempts, RetryWindow, QuarantineDuration,
          QuarantineBlocksSafe,   \* policy quarantine_blocks_safe_queries
          MaxSnapshotAge,         \* policy max_snapshot_age_seconds, off below 1
          MaxHeartbeatAge,        \* policy max_sidecar_heartbeat_seconds
          RequireHeartbeat,       \* policy require_sidecar_heartbeat
          RecoveryGroup,          \* the other tables of a table's recovery group
          SnapshotBeforeCritical, \* flag --snapshot-before-critical
          PauseBlocksSafe,        \* flag --pause-blocks-safe
          MaxConcurrent,          \* flag --max-concurrent-requests
          Sidecar,                \* is a sync sidecar deployed?
          Clock, MaxSnapshots     \* bounds: instants, snapshots of each table

ASSUME GatewayAssumption ==
  /\ IsFiniteSet(Requests) /\ AgentOf \in [Requests -> Agents]
  /\ MaxBlockedAttempts \in Int
  /\ RetryWindow \in Nat /\ QuarantineDuration \in Nat /\ Clock \subseteq Nat
  /\ Queries \subseteq Analysis(Tables)
  /\ ThePolicy \in GatewayPolicy
  /\ RecoveryGroup \in [Tables -> SUBSET Tables]
  /\ MaxSnapshotAge \in Int /\ MaxHeartbeatAge \in Int
  /\ MaxConcurrent \in Nat /\ MaxSnapshots \in [Tables -> Nat]
  /\ {SnapshotBeforeCritical, PauseBlocksSafe, QuarantineBlocksSafe,
      RequireHeartbeat, Sidecar} \subseteq BOOLEAN

VARIABLES waiter, pending, decision, timer, cancelled, outcome, call, first
VARIABLES now, agentState, stage, madeAt, row, readAt
VARIABLES pc,         \* where the request's handler is
          query,      \* its analysis
          snapArg,    \* its snapshot_id argument, 0 when it gives none
          newest,     \* history: the newest snapshot of its table when the
                      \* verifier compared its argument, 0 before
          manifest,   \* the timestamp of the manifest it verified
          readyAt,    \* history: when its recovery point was found ready
          audit,      \* the audit entries written for it, by their approved flag
          approvals,  \* the status column of its row in table approvals
          sent,       \* has its SQL been handed to the database?
          reply,      \* the status its client was told
          paused,     \* PauseController.paused
          cleared,    \* history: requests past their last pause check when
                      \* the present pause began
          latest,     \* the newest sidecar manifest of each table, 0 for none
          latestAt,   \* its timestamp
          health      \* the row of table health_checks for component sync

engineVars == <<waiter, pending, decision, timer, cancelled, outcome, call, first>>
behaviorVars == <<now, agentState, stage, madeAt, row, readAt>>
handlerVars == <<pc, query, snapArg, newest, manifest, readyAt, audit, approvals, sent,
                 reply>>
pauseVars == <<paused, cleared>>
sidecarVars == <<latest, latestAt, health>>
vars == <<engineVars, behaviorVars, handlerVars, pauseVars, sidecarVars>>

Engine == INSTANCE ApprovalEngine
(* A done context fails every statement made under it, so the gateway has  *)
(* to live with faults of the metadata database whatever SQLite does.      *)
Behavior == INSTANCE AgentBehavior WITH MetadataFaults <- TRUE

Never == -1
NoQuery == [risk |-> "SAFE", op |-> "OTHER", table |-> NoTable, recoverable |-> FALSE]

ActionOf(r) == Action(ThePolicy, query[r])
NeedsRecovery(r) == RequiresRecovery(ThePolicy, query[r]) /\ SnapshotBeforeCritical
BlocksRisk(risk) == paused /\ (PauseBlocksSafe \/ risk # "SAFE")
InFlight == {r \in Requests : pc[r] \notin {"new", "done", "dead"}}

Init ==
  /\ Engine!Init
  /\ Behavior!Init
  /\ pc = [r \in Requests |-> "new"]
  /\ query = [r \in Requests |-> NoQuery]
  /\ snapArg = [r \in Requests |-> 0]
  /\ newest = [r \in Requests |-> 0]
  /\ manifest = [r \in Requests |-> Never]
  /\ readyAt = [r \in Requests |-> Never]
  /\ audit = [r \in Requests |-> <<>>]
  /\ approvals = [r \in Requests |-> "none"]
  /\ sent = [r \in Requests |-> FALSE]
  /\ reply = [r \in Requests |-> "none"]
  /\ paused \in BOOLEAN
  /\ cleared = {}
  /\ latest = [t \in Tables |-> 0]
  /\ latestAt = [t \in Tables |-> Never]
  /\ health = [ok |-> FALSE, at |-> Never]

----------------------------------------------------------------------------
(* The pieces every path of the handler is made of.                        *)

(* registry.RecordDetailed(..., approved, ...)                             *)
Audit(r, ok) == audit' = [audit EXCEPT ![r] = Append(@, ok)]

(* Variant for the mutation runs: the update outlives the request.         *)
RecordResolvedDetached(r, status) ==
  \/ approvals' = [approvals EXCEPT ![r] = status]
  \/ UNCHANGED approvals

(* registry.RecordApprovalResolved: its error is ignored by every caller.  *)
RecordResolved(r, status) ==
  \/ ~cancelled[r] /\ approvals' = [approvals EXCEPT ![r] = status]
  \/ UNCHANGED approvals

Goto(r, label) == pc' = [pc EXCEPT ![r] = label] /\ UNCHANGED reply

Reply(r, status) == /\ pc' = [pc EXCEPT ![r] = "done"]
                    /\ reply' = [reply EXCEPT ![r] = status]

Refuse(r, status) == Audit(r, FALSE) /\ Reply(r, status)

(* recordRiskAttempt, then the reply; SAFE SQL is not counted.             *)
CountThenReply(r, status) ==
  IF query[r].risk = "SAFE" THEN Reply(r, status) ELSE Goto(r, "attempt")

----------------------------------------------------------------------------
(* The handler.                                                            *)

(* limitConcurrent: no free slot, 429.  The other tools of POST / hold     *)
(* slots too, as many as they like.                                        *)
TurnAway(r) ==
  /\ pc[r] = "new"
  /\ MaxConcurrent # 0
  /\ Reply(r, "rejected")
  /\ UNCHANGED <<engineVars, behaviorVars, pauseVars, sidecarVars, query, snapArg,
                 newest, manifest, readyAt, audit, approvals, sent>>

(* A slot, but the arguments do not parse, or the query or the agent_id is *)
(* empty: a JSON-RPC error, and no trace of the request.                   *)
InvalidParams(r) ==
  /\ pc[r] = "new"
  /\ MaxConcurrent = 0 \/ Cardinality(InFlight) < MaxConcurrent
  /\ Reply(r, "rejected")
  /\ UNCHANGED <<engineVars, behaviorVars, pauseVars, sidecarVars, query, snapArg,
                 newest, manifest, readyAt, audit, approvals, sent>>

(* The snapshot ids a client of a query can know of: those of its table.   *)
KnownSnapshots(q) == IF q.table \in Tables THEN 0..latest[q.table] ELSE {0}

(* A slot, the analysis and the policy decision, then the first pause      *)
(* check.                                                                  *)
Arrive(r) ==
  /\ pc[r] = "new"
  /\ MaxConcurrent = 0 \/ Cardinality(InFlight) < MaxConcurrent
  /\ \E q \in Queries : \E s \in KnownSnapshots(q) :
       /\ query' = [query EXCEPT ![r] = q]
       /\ snapArg' = [snapArg EXCEPT ![r] = s]
       /\ IF BlocksRisk(q.risk) THEN Refuse(r, "blocked")
                                ELSE Goto(r, "quarantine") /\ UNCHANGED audit
  /\ UNCHANGED <<engineVars, behaviorVars, pauseVars, sidecarVars, newest, manifest,
                 readyAt, approvals, sent>>

(* agentQuarantined, then the branch on the policy's action.  A failed     *)
(* read finds no quarantine.                                               *)
Quarantine(r) ==
  /\ pc[r] = "quarantine"
  /\ IF QuarantineBlocksSafe \/ query[r].risk # "SAFE"
     THEN Behavior!CheckQuarantine(r) ELSE UNCHANGED behaviorVars
  /\ cancelled[r] => stage'[r] # "done"
  /\ \/ /\ stage'[r] = "done"
        /\ Refuse(r, "blocked")
     \/ /\ stage'[r] # "done" /\ ActionOf(r) = "block"
        /\ Audit(r, FALSE)
        /\ CountThenReply(r, "blocked")
     \/ /\ stage'[r] # "done" /\ ActionOf(r) = "execute"
        /\ Audit(r, TRUE)
        /\ Goto(r, "execute")
     \/ /\ stage'[r] # "done" /\ ActionOf(r) = "approve"
        /\ Goto(r, IF NeedsRecovery(r) THEN "verify" ELSE "request")
        /\ UNCHANGED audit
  /\ UNCHANGED <<engineVars, pauseVars, sidecarVars, query, snapArg, newest, manifest,
                 readyAt, approvals, sent>>

(* Variant: the argument is not compared with the newest manifest.         *)
VerifyAnySnapshot(r) ==
  LET t == query[r].table
  IN /\ pc[r] = "verify"
     /\ \/ /\ ~cancelled[r]
           /\ HasRecoveryTable(query[r])
           /\ snapArg[r] # 0 /\ latest[t] # 0
           /\ newest' = [newest EXCEPT ![r] = latest[t]]
           /\ manifest' = [manifest EXCEPT ![r] = latestAt[t]]
           /\ Goto(r, "ready")
           /\ UNCHANGED audit
        \/ Refuse(r, "blocked") /\ UNCHANGED <<newest, manifest>>
     /\ UNCHANGED <<engineVars, behaviorVars, pauseVars, sidecarVars, query, snapArg,
                    readyAt, approvals, sent>>

(* VerifyLatestSidecarSnapshot: the argument must be the newest manifest   *)
(* of the one table at stake, and its data object must hash to what the    *)
(* manifest says; the object store may also fail.                          *)
VerifyLatest(r) ==
  LET t == query[r].table
  IN /\ pc[r] = "verify"
     /\ \/ /\ ~cancelled[r]
           /\ HasRecoveryTable(query[r])
           /\ snapArg[r] # 0 /\ latest[t] = snapArg[r]
           /\ newest' = [newest EXCEPT ![r] = latest[t]]
           /\ manifest' = [manifest EXCEPT ![r] = latestAt[t]]
           /\ Goto(r, "ready")
           /\ UNCHANGED audit
        \/ Refuse(r, "blocked") /\ UNCHANGED <<newest, manifest>>
     /\ UNCHANGED <<engineVars, behaviorVars, pauseVars, sidecarVars, query, snapArg,
                    readyAt, approvals, sent>>

(* Variant: the age of the snapshot is not looked at.                      *)
ReadyAtAnyAge(ts) ==
  RequireHeartbeat => health.ok /\ now - health.at <= MaxHeartbeatAge

(* checkRecoveryReadiness on a manifest taken at ts.                       *)
Ready(ts) ==
  /\ MaxSnapshotAge > 0 => now - ts <= MaxSnapshotAge
  /\ RequireHeartbeat => health.ok /\ now - health.at <= MaxHeartbeatAge

(* The snapshot row in the metadata database may be missing or not match.  *)
CheckReadiness(r) ==
  LET t == query[r].table
  IN /\ pc[r] = "ready"
     /\ \/ /\ ~cancelled[r]
           /\ Ready(manifest[r])
           /\ readyAt' = [readyAt EXCEPT ![r] = now]
           /\ Goto(r, IF RecoveryGroup[t] \ {t} = {} THEN "request" ELSE "group")
           /\ UNCHANGED audit
        \/ Refuse(r, "blocked") /\ UNCHANGED readyAt
     /\ UNCHANGED <<engineVars, behaviorVars, pauseVars, sidecarVars, query, snapArg,
                    newest, manifest, approvals, sent>>

(* verifyRecoveryGroup: every other member has a ready newest manifest;    *)
(* the members' checks depend on nothing but each its own table, and are   *)
(* taken together.                                                         *)
CheckGroup(r) ==
  LET t == query[r].table
  IN /\ pc[r] = "group"
     /\ \/ /\ ~cancelled[r]
           /\ \A m \in RecoveryGroup[t] \ {t} : latest[m] # 0 /\ Ready(latestAt[m])
           /\ Goto(r, "request")
           /\ UNCHANGED audit
        \/ Refuse(r, "blocked")
     /\ UNCHANGED <<engineVars, behaviorVars, pauseVars, sidecarVars, query, snapArg,
                    newest, manifest, readyAt, approvals, sent>>

(* Variant: the row is written with a status nobody reads.                 *)
RecordRequestedAsNew(r) ==
  /\ pc[r] = "request"
  /\ approvals' = [approvals EXCEPT ![r] = "new"]
  /\ Goto(r, "wait")
  /\ UNCHANGED <<engineVars, behaviorVars, pauseVars, sidecarVars, query, snapArg,
                 newest, manifest, readyAt, audit, sent>>

(* RecordApprovalRequested: no durable row, no approval.                   *)
RecordRequested(r) ==
  /\ pc[r] = "request"
  /\ \/ /\ ~cancelled[r]
        /\ approvals' = [approvals EXCEPT ![r] = "pending"]
        /\ Goto(r, "wait")
        /\ UNCHANGED audit
     \/ Refuse(r, "blocked") /\ UNCHANGED approvals
  /\ UNCHANGED <<engineVars, behaviorVars, pauseVars, sidecarVars, query, snapArg,
                 newest, manifest, readyAt, sent>>

(* Variant: an approval that timed out is asked for again, with its id.    *)
AwaitApprovalWithRetry(r) ==
  /\ pc[r] = "wait"
  /\ \/ Engine!WaiterStep(r)
     \/ /\ waiter[r] = "returned" /\ outcome[r] = "timeout"
        /\ waiter' = [waiter EXCEPT ![r] = "select"]
        /\ pending' = pending \cup {r}
        /\ outcome' = [outcome EXCEPT ![r] = Engine!None]
        /\ UNCHANGED <<decision, timer, cancelled, call, first>>
  /\ UNCHANGED <<behaviorVars, handlerVars, pauseVars, sidecarVars>>

(* The handler inside RequestApproval.                                     *)
AwaitApproval(r) ==
  /\ pc[r] = "wait"
  /\ Engine!WaiterStep(r)
  /\ UNCHANGED <<behaviorVars, handlerVars, pauseVars, sidecarVars>>

(* Variant: only a timeout and a denial are handled as errors.             *)
NotApprovedUnlessCancelled(r) ==
  /\ pc[r] = "wait" /\ waiter[r] = "returned"
  /\ outcome[r] \in {"timeout", "denied"}
  /\ Audit(r, FALSE)
  /\ RecordResolved(r, outcome[r])
  /\ CountThenReply(r, "denied")
  /\ UNCHANGED <<engineVars, behaviorVars, pauseVars, sidecarVars, query, snapArg,
                 newest, manifest, readyAt, sent>>

(* RequestApproval has returned.  The binding check that follows compares  *)
(* the request's own copies, so it always passes; the second pause check   *)
(* guards the execution; the quarantine and the recovery point are not     *)
(* looked at again.                                                        *)
NotApproved(r) ==
  /\ pc[r] = "wait" /\ waiter[r] = "returned"
  /\ outcome[r] # "approved"
  /\ Audit(r, FALSE)
  /\ RecordResolved(r, IF outcome[r] = "timeout" THEN "timeout" ELSE "denied")
  /\ CountThenReply(r, "denied")
  /\ UNCHANGED <<engineVars, behaviorVars, pauseVars, sidecarVars, query, snapArg,
                 newest, manifest, readyAt, sent>>

(* Variant: the approval is audited before the pause is looked at.         *)
AuditedThenPaused(r) ==
  /\ pc[r] = "wait" /\ waiter[r] = "returned"
  /\ outcome[r] = "approved" /\ BlocksRisk(query[r].risk)
  /\ RecordResolved(r, "paused")
  /\ Audit(r, TRUE)
  /\ Reply(r, "blocked")
  /\ UNCHANGED <<engineVars, behaviorVars, pauseVars, sidecarVars, query, snapArg,
                 newest, manifest, readyAt, sent>>

ApprovedWhilePaused(r) ==
  /\ pc[r] = "wait" /\ waiter[r] = "returned"
  /\ outcome[r] = "approved" /\ BlocksRisk(query[r].risk)
  /\ RecordResolved(r, "paused")
  /\ Refuse(r, "blocked")
  /\ UNCHANGED <<engineVars, behaviorVars, pauseVars, sidecarVars, query, snapArg,
                 newest, manifest, readyAt, sent>>

(* Variants: an error of RequestApproval is taken for consent; the second  *)
(* pause check is missing.                                                 *)
Unopposed(r) ==
  /\ pc[r] = "wait" /\ waiter[r] = "returned"
  /\ outcome[r] # "denied" /\ ~BlocksRisk(query[r].risk)
  /\ Audit(r, TRUE)
  /\ RecordResolved(r, "approved")
  /\ Goto(r, "execute")
  /\ UNCHANGED <<engineVars, behaviorVars, pauseVars, sidecarVars, query, snapArg,
                 newest, manifest, readyAt, sent>>

ApprovedUnchecked(r) ==
  /\ pc[r] = "wait" /\ waiter[r] = "returned"
  /\ outcome[r] = "approved"
  /\ Audit(r, TRUE)
  /\ RecordResolved(r, "approved")
  /\ Goto(r, "execute")
  /\ UNCHANGED <<engineVars, behaviorVars, pauseVars, sidecarVars, query, snapArg,
                 newest, manifest, readyAt, sent>>

Approved(r) ==
  /\ pc[r] = "wait" /\ waiter[r] = "returned"
  /\ outcome[r] = "approved" /\ ~BlocksRisk(query[r].risk)
  /\ Audit(r, TRUE)
  /\ RecordResolved(r, "approved")
  /\ Goto(r, "execute")
  /\ UNCHANGED <<engineVars, behaviorVars, pauseVars, sidecarVars, query, snapArg,
                 newest, manifest, readyAt, sent>>

(* recordRiskAttempt takes the time; then the read fails under a done      *)
(* context, and so does the write.                                         *)
TakeAttemptTime(r) ==
  /\ pc[r] = "attempt"
  /\ Behavior!TakeTime(r)
  /\ Goto(r, "count")
  /\ UNCHANGED <<engineVars, pauseVars, sidecarVars, query, snapArg, newest, manifest,
                 readyAt, audit, approvals, sent>>

ReadAttempt(r) ==
  /\ pc[r] = "count"
  /\ Behavior!ReadState(r)
  /\ cancelled[r] => row'[r] = Behavior!AfterAttempt(Behavior!NoState, madeAt[r])
  /\ Goto(r, "save")
  /\ UNCHANGED <<engineVars, pauseVars, sidecarVars, query, snapArg, newest, manifest,
                 readyAt, audit, approvals, sent>>

(* Variant: a save whose answer is lost is made again.                     *)
SaveAttemptWithRetry(r) ==
  /\ pc[r] = "save"
  /\ \/ /\ Behavior!SaveState(r)
        /\ Reply(r, IF ActionOf(r) = "block" THEN "blocked" ELSE "denied")
     \/ /\ agentState' = [agentState EXCEPT ![AgentOf[r]] = row[r]]
        /\ UNCHANGED <<now, stage, madeAt, row, readAt, pc, reply>>
  /\ UNCHANGED <<engineVars, pauseVars, sidecarVars, query, snapArg, newest, manifest,
                 readyAt, audit, approvals, sent>>

SaveAttempt(r) ==
  /\ pc[r] = "save"
  /\ Behavior!SaveState(r)
  /\ cancelled[r] => agentState' = agentState
  /\ Reply(r, IF ActionOf(r) = "block" THEN "blocked" ELSE "denied")
  /\ UNCHANGED <<engineVars, pauseVars, sidecarVars, query, snapArg, newest, manifest,
                 readyAt, audit, approvals, sent>>

(* executeSQL: database/sql refuses a done context before it sends         *)
(* anything, and the SQL may fail to go out; once it is out it succeeds or *)
(* fails, a lost answer included.                                          *)
SendSQL(r) ==
  /\ pc[r] = "execute"
  /\ \/ UNCHANGED sent /\ Reply(r, "failed")
     \/ /\ ~cancelled[r]
        /\ sent' = [sent EXCEPT ![r] = TRUE]
        /\ Goto(r, "running")
  /\ UNCHANGED <<engineVars, behaviorVars, pauseVars, sidecarVars, query, snapArg,
                 newest, manifest, readyAt, audit, approvals>>

FinishSQL(r) ==
  /\ pc[r] = "running"
  /\ \E status \in {"executed", "failed"} : Reply(r, status)
  /\ UNCHANGED <<engineVars, behaviorVars, pauseVars, sidecarVars, query, snapArg,
                 newest, manifest, readyAt, audit, approvals, sent>>

HandlerStep(r) ==
  \/ Quarantine(r)
  \/ VerifyLatest(r) \/ CheckReadiness(r) \/ CheckGroup(r) \/ RecordRequested(r)
  \/ NotApproved(r) \/ ApprovedWhilePaused(r) \/ Approved(r)
  \/ TakeAttemptTime(r) \/ ReadAttempt(r) \/ SaveAttempt(r)
  \/ SendSQL(r) \/ FinishSQL(r)

----------------------------------------------------------------------------
(* Operators, clients, administrators, the sidecar, time, a crash.         *)

Outside == <<behaviorVars, handlerVars, pauseVars, sidecarVars>>

Operate(o) ==
  /\ \/ \E r \in Requests, d \in Engine!Decision : Engine!SignalLoad(o, r, d)
     \/ Engine!SignalSend(o)
  /\ UNCHANGED Outside

ApprovalTimer(r) == Engine!TimerFires(r) /\ UNCHANGED Outside

ClientGone(r) == /\ r \in InFlight
                 /\ Engine!ClientGone(r)
                 /\ UNCHANGED Outside

PastPauseCheck(r) ==
  \/ pc[r] = "execute"
  \/ pc[r] = "quarantine" /\ ActionOf(r) = "execute"

(* SetPaused's effect in memory; PauseController has its file.             *)
SetPaused ==
  /\ paused' = ~paused
  /\ cleared' = IF paused' THEN {r \in Requests : PastPauseCheck(r)} ELSE {}
  /\ UNCHANGED <<engineVars, behaviorVars, handlerVars, sidecarVars>>

(* The sidecar publishes a snapshot of a table, or reports its health.     *)
Publish(t) ==
  /\ Sidecar /\ latest[t] < MaxSnapshots[t]
  /\ latest' = [latest EXCEPT ![t] = @ + 1]
  /\ latestAt' = [latestAt EXCEPT ![t] = now]
  /\ UNCHANGED <<engineVars, behaviorVars, handlerVars, pauseVars, health>>

Heartbeat ==
  /\ Sidecar
  /\ \E ok \in BOOLEAN : health' = [ok |-> ok, at |-> now]
  /\ UNCHANGED <<engineVars, behaviorVars, handlerVars, pauseVars, latest, latestAt>>

Tick == /\ Behavior!Tick
        /\ UNCHANGED <<engineVars, handlerVars, pauseVars, sidecarVars>>

(* The process dies and is started again: handlers and pending approvals   *)
(* are gone, the databases stay, the pause flag is what the pause file and *)
(* --start-paused make it.                                                 *)
Crash ==
  /\ InFlight # {}
  /\ Engine!Crash
  /\ pc' = [r \in Requests |-> IF r \in InFlight THEN "dead" ELSE pc[r]]
  /\ paused' \in BOOLEAN
  /\ cleared' = {}
  /\ UNCHANGED <<behaviorVars, sidecarVars, query, snapArg, newest, manifest, readyAt,
                 audit, approvals, sent, reply>>

Next ==
  \/ \E r \in Requests : \/ TurnAway(r) \/ InvalidParams(r) \/ Arrive(r)
                         \/ HandlerStep(r) \/ AwaitApproval(r)
                         \/ ApprovalTimer(r) \/ ClientGone(r)
  \/ \E o \in Operators : Operate(o)
  \/ \E t \in Tables : Publish(t)
  \/ SetPaused \/ Heartbeat \/ Tick \/ Crash

Safety == Init /\ [][Next]_vars

(* A handler that can go on goes on, and so does the timer it waits for:   *)
(* goroutines are scheduled, timers fire, and database calls return one    *)
(* way or the other.                                                       *)
Fairness ==
  \A r \in Requests : WF_vars(HandlerStep(r) \/ AwaitApproval(r) \/ ApprovalTimer(r))

Spec == Safety /\ Fairness

----------------------------------------------------------------------------
TypeOK ==
  /\ Engine!TypeOK
  /\ Behavior!TypeOK
  /\ pc \in [Requests -> {"new", "quarantine", "verify", "ready", "group", "request",
                          "wait", "attempt", "count", "save", "execute", "running",
                          "done", "dead"}]
  /\ query \in [Requests -> Queries \cup {NoQuery}]
  /\ snapArg \in [Requests -> Nat]
  /\ newest \in [Requests -> Nat]
  /\ manifest \in [Requests -> Nat \cup {Never}]
  /\ readyAt \in [Requests -> Nat \cup {Never}]
  /\ audit \in [Requests -> Seq(BOOLEAN)]
  /\ approvals \in [Requests -> {"none", "pending", "approved", "denied", "timeout",
                                 "paused"}]
  /\ sent \in [Requests -> BOOLEAN]
  /\ reply \in [Requests -> {"none", "rejected", "blocked", "denied", "failed",
                             "executed"}]
  /\ paused \in BOOLEAN
  /\ cleared \subseteq Requests
  /\ latest \in [Tables -> Nat]
  /\ latestAt \in [Tables -> Nat \cup {Never}]
  /\ health \in [ok : BOOLEAN, at : Nat \cup {Never}]

(* What a handler has done at each of its steps: what it has audited, sent *)
(* and answered, ...                                                       *)
AuditInv(r) ==
  /\ audit[r] \in {<<>>, <<TRUE>>, <<FALSE>>}
  /\ pc[r] \in {"new", "quarantine", "verify", "ready", "group", "request", "wait"} =>
       audit[r] = <<>> /\ ~sent[r] /\ reply[r] = "none"
  /\ pc[r] \in {"attempt", "count", "save"} =>
       audit[r] = <<FALSE>> /\ ~sent[r] /\ reply[r] = "none"
  /\ pc[r] = "execute" => audit[r] = <<TRUE>> /\ ~sent[r] /\ reply[r] = "none"
  /\ pc[r] = "running" => audit[r] = <<TRUE>> /\ reply[r] = "none"
  /\ pc[r] = "dead" => reply[r] = "none"
  /\ sent[r] => audit[r] = <<TRUE>>
  /\ reply[r] = "rejected" => audit[r] = <<>>
  /\ reply[r] \in {"blocked", "denied"} => audit[r] = <<FALSE>>
  /\ reply[r] \in {"failed", "executed"} => audit[r] = <<TRUE>>

(* ... what the policy said and RequestApproval returned, ...              *)
VerdictInv(r) ==
  /\ pc[r] \in {"verify", "ready", "group", "request", "wait"} => ActionOf(r) = "approve"
  /\ sent[r] \/ pc[r] = "execute" =>
       /\ ActionOf(r) # "block"
       /\ ActionOf(r) = "approve" => waiter[r] = "returned" /\ outcome[r] = "approved"
  /\ outcome[r] = "cancelled" => cancelled[r]

(* ... and the row in table approvals.                                     *)
RowInv(r) ==
  /\ pc[r] \in {"new", "quarantine", "verify", "ready", "group", "request"} =>
       approvals[r] = "none"
  /\ pc[r] = "wait" => approvals[r] = "pending"
  /\ (sent[r] \/ pc[r] = "execute") /\ ActionOf(r) = "approve" =>
       approvals[r] \in {"pending", "approved"}
  /\ approvals[r] \in {"denied", "timeout", "paused"} => audit[r] = <<FALSE>>
  /\ approvals[r] = "approved" => first[r] = "approve" /\ audit[r] = <<TRUE>>
  /\ approvals[r] = "denied" => first[r] = "deny"

(* Who is past the last pause check was there before the pause began, ...  *)
PauseInv(r) == PastPauseCheck(r) /\ BlocksRisk(query[r].risk) => r \in cleared

(* ... and who is past the checks of the recovery point has passed them:   *)
(* the snapshot it named was the newest of its table when the verifier     *)
(* compared them, and young enough when it was found ready.                *)
RecoveryInv(r) ==
  /\ manifest[r] <= now
  /\ NeedsRecovery(r)
     /\ (sent[r] \/ pc[r] \in {"ready", "group", "request", "wait", "execute"}) =>
       /\ HasRecoveryTable(query[r])
       /\ snapArg[r] # 0 /\ snapArg[r] = newest[r]
       /\ manifest[r] # Never
  /\ NeedsRecovery(r)
     /\ (sent[r] \/ pc[r] \in {"group", "request", "wait", "execute"}) =>
       /\ readyAt[r] # Never
       /\ manifest[r] <= readyAt[r]
       /\ MaxSnapshotAge > 0 => readyAt[r] - manifest[r] <= MaxSnapshotAge

(* A manifest in the object store has a timestamp, of the past.            *)
SidecarInv ==
  \A t \in Tables : latestAt[t] <= now /\ (latest[t] # 0 => latestAt[t] # Never)

(* The inductive invariant of the composed gateway.                        *)
GatewayInv ==
  /\ TypeOK
  /\ SidecarInv
  /\ \A r \in Requests : /\ AuditInv(r) /\ VerdictInv(r) /\ RowInv(r)
                         /\ PauseInv(r) /\ RecoveryInv(r)

(* toolExecuteQuery sends SQL to the database only as the policy allows:   *)
(* never what it blocks, and what it wants approved only after the first   *)
(* operator to decide on this very request approved it, however the timer, *)
(* the client and other operators raced, and whatever crashed in between.  *)
OnlyApprovedRisk ==
  \A r \in Requests : sent[r] =>
    /\ ActionOf(r) # "block"
    /\ ActionOf(r) = "approve" => outcome[r] = "approved" /\ first[r] = "approve"

(* With --snapshot-before-critical, SQL that needs a recovery point is     *)
(* sent only if the snapshot_id it named was the newest of its single      *)
(* table at the moment of the verification, whatever was published since   *)
(* the request came in, and was within max_snapshot_age, if there is one,  *)
(* when found ready.                                                       *)
VerifiedBeforeSent ==
  \A r \in Requests : sent[r] /\ NeedsRecovery(r) =>
    /\ HasRecoveryTable(query[r])
    /\ snapArg[r] # 0 /\ snapArg[r] = newest[r]
    /\ manifest[r] # Never /\ readyAt[r] # Never
    /\ manifest[r] <= readyAt[r]
    /\ MaxSnapshotAge > 0 => readyAt[r] - manifest[r] <= MaxSnapshotAge

(* The emergency pause: while the gateway is paused, the only risky SQL    *)
(* that still goes out is that of handlers already past their last pause   *)
(* check when the pause began; approvals that come later are held.         *)
PauseHolds ==
  [][\A r \in Requests :
       ~sent[r] /\ sent'[r] /\ BlocksRisk(query[r].risk) => r \in cleared]_vars

(* Whatever the handlers, the clients and a crash of the process do around *)
(* approval.go, an approval is requested once, decided by the first        *)
(* accepted decision, and resolved once: the gateway keeps the contract of *)
(* its approval engine.                                                    *)
ImplementsContract == Engine!Contract!Safety

(* The handlers write agents' rows as behavior.go alone would: read once,  *)
(* after the agent was found free, and saved once, in that order.  So what *)
(* holds of the rows there holds of the gateway's.                         *)
ImplementsBehavior == Behavior!Spec

(* The audit log tells the truth: a request that was not turned away or    *)
(* rejected, and was answered, has exactly one entry, approved if and only *)
(* if the handler went on to the database; and SQL is never sent without   *)
(* the entry being there first.                                            *)
AuditTellsTheTruth ==
  \A r \in Requests :
    /\ reply[r] \in {"blocked", "denied"} => audit[r] = <<FALSE>> /\ ~sent[r]
    /\ reply[r] \in {"failed", "executed"} => audit[r] = <<TRUE>>
    /\ sent[r] => audit[r] = <<TRUE>>
    /\ Len(audit[r]) <= 1

(* The approvals table never contradicts what happened, although the       *)
(* errors of its updates are ignored: a row that names an end names the    *)
(* right one, and "denied" is an operator's denial, never a client's       *)
(* departure.                                                              *)
RowTellsTheTruth ==
  \A r \in Requests :
    /\ approvals[r] = "approved" => first[r] = "approve" /\ audit[r] = <<TRUE>>
    /\ approvals[r] = "denied" => first[r] = "deny"
    /\ approvals[r] \in {"denied", "timeout", "paused"} => ~sent[r]
    /\ sent[r] /\ ActionOf(r) = "approve" => approvals[r] \in {"pending", "approved"}

(* Every request the gateway accepts is answered, operators or not, unless *)
(* the process dies first.                                                 *)
Answered == \A r \in Requests : r \in InFlight ~> r \notin InFlight

(* README: "Blocks CRITICAL writes unless a verified, fresh snapshot       *)
(* exists first".  At the moment the SQL goes out its recovery point is    *)
(* still within max_snapshot_age.                                          *)
FreshWhenSent ==
  [][\A r \in Requests :
       ~sent[r] /\ sent'[r] /\ NeedsRecovery(r) /\ MaxSnapshotAge > 0 =>
         now - manifest[r] <= MaxSnapshotAge]_vars
=============================================================================
