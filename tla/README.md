# Backstop in TLA+

Backstop stands between AI agents and a PostgreSQL database. This directory
holds a TLA+ model of its concurrent parts, the TLC configurations that check
the model on small instances, and TLAPS proofs of its main invariants.

## The system

| part | source | module | state |
|---|---|---|---|
| approval engine | `gateway/approval.go` | `ApprovalEngine`, `ApprovalContract` | modelled, proved |
| agent quarantine | `gateway/behavior.go` | `AgentBehavior` | modelled, proved |
| policy decision | `gateway/policy.go` | `Policy` | modelled |
| SQL analyzer, impact analysis | `gateway/sql_analyzer.go`, `impact.go` | `SqlAnalyzer` | modelled, proved |
| `execute_query` handler | `gateway/mcp_server.go` | `Gateway` | modelled, proved |
| recovery verification | `gateway/snapshot_verifier.go`, `mcp_server.go` | `RecoveryPoint`, `Gateway` | modelled, proved |
| emergency pause | `gateway/pause.go`, `main.go` | `PauseController`, `Gateway` | modelled, proved |
| audit registry | `gateway/agent_identity.go` | `AuditRegistry`, `Gateway` | modelled, proved |
| process start and end, HTTP server, concurrency limit | `gateway/main.go` | `GatewayProcess`, `Gateway` | partly |
| metadata stores | `gateway/metadata_store.go`, `sync/metadata_store.go` | rows in the modules that use them | partly |
| sync poller, delta tracker | `sync/poller.go`, `delta.go` | `SyncPoller`, `RecoveryPoint` | modelled but for bypass; proved |
| snapshot capture | `sync/snapshot.go` | `SyncPoller`, `RecoveryPoint` | by phases |
| auth, alerts, metrics, storage URLs | `gateway/auth.go`, `alert.go`, `metrics.go`, `storage.go`, and their `sync/` twins | | not modelled |
| bypass detector | `sync/bypass.go` | | not modelled |
| Python SDK | `sdk/python/backstop` | | not modelled |
| Node SDK, MCP server package, scripts | `packages`, `scripts` | | not modelled |

**How they interact.** An agent's statement arrives at the gateway as an
`execute_query` call. The handler classifies it, asks the policy, looks at the
emergency pause and at the agent's quarantine, and then refuses it, executes
it, or waits for an operator. A CRITICAL statement additionally needs the id of
the newest snapshot of its table. The sidecar takes those snapshots: it polls
the schema, uploads table data and then a manifest to the object store, writes a
row for each snapshot to the metadata database and, at the end of each poll, one
health row. The gateway trusts a snapshot only while that row says `healthy`.

## Modules

**`ApprovalContract`** is what the engine promises, with no goroutine in it: a
request is opened once, the first accepted decision is its verdict, and it is
resolved at most once and always, unless the process dies.

**`ApprovalEngine`** is the code. `RequestApproval` is one goroutine per
request: `Store` and the timer (action `RequestApproval`), the select (one
action per case, any ready case may be taken) and the deferred `Stop` and
`Delete` (`DeferredDelete`). `signal` is one goroutine per operator call: `Load`
(`SignalLoad`), then the non-blocking send (`SignalSend`). `pending` is the key
set of the map, `decision` the channel of capacity one. `first` is a history
variable: the first decision that was put in the channel.

**`AgentBehavior`** is the row of table `agent_state`. The check on arrival
(`CheckQuarantine`), the read of `recordRiskAttempt` (`ReadState`) and its write
(`SaveState`) are separate steps because they are separate transactions.
`recordRiskAttempt` takes the time before it reads the row (`TakeTime`), and
compares that time with what it reads, so another request's attempt may have
begun a window in between: a window that began after an attempt's time has not
lapsed for it, and the attempt is counted in it. Any statement may fail; a
failed read looks like a missing row. `readAt` is a history variable. The check
on arrival reads the row and then the clock, and uses nothing of before; it is
one step.

**`Policy`** has the decision as pure operators on an analysis record `[risk,
op, table, recoverable]`, and the loading of the fields that the decision looks
at. The other fields are limits and lists that other modules have as constants,
with any value; that 0 stands for the default only narrows these. A policy file
that cannot be read or parsed ends the process before it serves.

**`Gateway`** composes the three (named `INSTANCE`s sharing variables) with the
handler's own state. `pc` says where each handler is; a step ends where the
handler meets state that others change. A request without a slot (`TurnAway`) or
with unusable arguments (`InvalidParams`) ends before it leaves a trace. The
client names a snapshot that is known when its request comes in; the sidecar may
publish others before `VerifyLatest` compares it with the newest, which `newest`
remembers (a history variable, as `readyAt` and `cleared` are). `MaxSnapshotAge`
of 0 or less turns the check of the age off, as in the code. `SetPaused`,
`Operate`, `ClientGone`, `Publish`, `Heartbeat`, `Tick` and `Crash` are
everybody else. A client whose connection is gone (`cancelled`) makes every
later call under the request's context fail. The binding check at
`mcp_server.go:455` compares the request with its own copies and the branch at
line 484 follows an error that was already returned; both are unreachable and
are part of `ApprovedWhilePaused` and `Approved` only as lines.

**`SyncPoller`** is one poll after the other, in steps: list the tables (`Scan`
and its failing and paused forms), fetch the fingerprints, visit each table
(`VisitTable`), capture it (`CaptureData`, `PutManifest`) or verify its snapshot
(`VerifyLatest`), write its row (`RecordSnapshot`), and finish (`FinishPoll`).
Tables are written, dropped and created between any two steps. Any call may
fail; a `PutObject` of a manifest that reports an error may have taken place.
The process may stop anywhere (`Stop`) and starts with empty maps. `content` and
`stats` are numbers standing for a table's rows and for its counters in
`pg_stat_all_tables`. `covered`, `same` and `alerted` are history variables. A
SIGTERM in the middle of a poll is the failure of its remaining calls followed
by `Stop`.

**`SqlAnalyzer`** is one query text on its way to a decision: `Parse`, one
`NextStatement` per turn of the loop in `analyzeSQL`, `EndLoop`, the impact
analysis and `Decide`. A statement is what the code looks at in the parser's
tree: node, WHERE or not, target tables with their schemas, EXPLAIN. Tables are
compared by bare name, as in the code (`sql_analyzer.go:69`), and a recovery
point is looked up by it; the schema of the last qualified CRITICAL statement
goes with the name, to the operator and into the count query. A multi-table
analysis, whose name is a joined string in the code, has table `ManyTables`. The
answers of EXPLAIN and of the row count are any of `Counts`, or none.

**`RecoveryPoint`** is one table's recovery point between the two processes. The
sidecar's poll begins with `BeginPoll` or ends there (`PollFails`), and captures
(`StartCapture`, `Upload`, `PutManifest`, after an error `Cleanup`), refreshes
(`Refresh`) or leaves the table alone (`SkipTable`); then come `RecordSnapshot`,
`CheckStaleness` and `UpdateReadiness`. A verification in the gateway goes
through `Verify`, `NextPage` while the last page was truncated (`more`), one of
`ReadManifest`, `PassOver`, `RejectInvalid` and `ReadFails` for each manifest
listed, `EndScan`, `VerifyDataObject`, `CheckAgeAndRow` and `CheckHeartbeat`.
Each is one call to the object store or the metadata database, so any other step
may come between. Ids are numbers in the order of their keys, and the sidecar
takes any unused one, because ids are random. `Leftovers` is what another writer
may have left in the store. `known`, `unread`, `accepted` and `staleSent` are
history variables; `staleSent` says that a stale alert was sent or tried, as the
code's flag does, which is set whether or not the sending succeeded.
`SyncPoller` has the same poll with several tables and no clock; here there is
one table, the clock, and the gateway.

**`GatewayProcess`** is what a gateway keeps outside its memory, over restarts.
It extends two components that share the process's life (`GatewayLife`).
**`PauseController`**: `SetPaused` under the lock, then `SaveCopy`, `SaveOpen`
(the truncation), `SaveWrite` and `Reply`, one pair of hands per caller;
`PauseLoad` at a start. `solo` and `settled` are history variables: whether a
call has overlapped another, and what the last one that did not was told.
**`AuditRegistry`**: `Record`, `AppendAuditLog` and `RecordAudit`, all under one
lock, and `AuditLoad` at a start. `lines` has the entries on those lines of the
file that can be parsed: the reload skips the others, and nothing else reads
them. A broken-off append leaves a fragment that swallows the next line.
`overlong` is a line of more than 64 KB, which makes the reload load nothing.
Both stores and the pause file are taken to be configured.

Each `MC*` module gives a specification its constants for TLC. Definitions
introduced as *variants* are deliberately wrong forms of the definition that
follows them. They are no part of any specification; replacing the right form
by the variant must break the property it is paired with in `PROJECT.json`.

## Runs

| run | instance | shows |
|---|---|---|
| `approval` | 1 request, 3 operator calls, timer, departing client, crash | `EngineInv`, `PendingWhileWaiting`, `FirstDecisionWins`; no operator call hangs (`SignalReturns`); the engine implements its contract, liveness included (`ImplementsContract`) |
| `behavior` | 3 requests of one agent, 1 of another, limit 2, window 1, quarantine 2, instants 0 to 3, faults | `BehaviorInv`; a quarantine has its cause (`QuarantineHasCause`) and its limit (`QuarantineBounded`) |
| `gateway` | 2 requests, a HIGH or a blocked statement each, 1 operator, pause, crash | `GatewayInv`, `OnlyApprovedRisk`, `AuditTellsTheTruth`, `RowTellsTheTruth`, `PauseHolds`; around the agents' rows the handlers keep to `AgentBehavior` (`ImplementsBehavior`) |
| `recovery` | 1 request, 2 tables in a group, sidecar, two snapshots of the first table, instants 0 and 2, age limit 1 | `GatewayInv`, `VerifiedBeforeSent`; around the engine the handlers keep to `ApprovalContract` (`ImplementsContract`); every request is answered (`Answered`) |
| `sync` | 2 tables, 2 changes or pauses, 1 fault or stop | `SyncInv`, `HealthyMeansRecoverable`; the sidecar gets healthy (`Recovers`); drops are reported (`DropReported`) |
| `analyzer` | batches of up to 3 of 17 statements, 3 tables (1 protected), 2 schemas, 3 policies, any impact answer | `AnalyzerInv`; the table that is verified is that of every CRITICAL statement (`RecoveryCoversBatch`); no statement hides its risk (`BatchKeepsRisk`); a `DELETE` or `UPDATE` that is not promoted is known to be small, or the batch passes for another operation (`QuietMeansSmall`) |
| `recovery_point` | 3 ids, 2 to a page, time to 2, age limits 1, 1 fault or crash, a leftover manifest that is foreign, invalid, undated or not there | `RecoveryInv`; `AcceptedStays`, `NewestAccepted`, `StaleNotSuppressed`; a good snapshot that was quarantined is repaired (`QuarantineHeals`) |
| `process` | 2 operators, 3 audit entries, memory for 2, 2 faults, any restarts | `ProcessInv`; `PauseSurvives`; `TwoFaultsToLose`, `HistoryComplete`, `HistoryOrdered` |
| `quarantine_lasts` | as `behavior`, no faults | **violated**: the row is read and replaced in two transactions, and an overlapping attempt writes the quarantine away |
| `fresh_when_sent` | as `recovery`, 1 table | **violated**: the age of the recovery point is not looked at again after the wait for the operator |
| `sync_changed` | 1 table, 1 change, no fault | **violated**: a stable table is one whose fingerprint did not move, so a changed one is never captured again |
| `sync_stable` | 1 table, 2 changes, no fault | **violated**: the count of stable polls of a dropped table is taken over by a new table of the same name |

**Bounds.** Requests and operators: two of either are enough for every race the
code has between two of a kind; three operator calls let one fill the channel,
one find it full and one come late. Requests of one agent in `behavior`: one
more than the limit, so that an attempt can be lost and the limit still be
reached. `Clock` is the set of instants the clock may show, and it jumps from
one to any later one: in `behavior` to the end of a quarantine that begins in
the window of the first attempt, in `recovery` from within the age limit to
beyond it (an age of exactly the limit is met in `recovery_point`). Two
snapshots of the table at stake make one that a client named stop being the
newest; the other table of the group needs one. `MaxFaults` and `MaxChanges` of
the poller bound how often the world interferes, not where; the invariants are
proved without them. Symmetry is used for interchangeable requests and operators
and only in runs without liveness. In `recovery_point` two ids to a page and
three in all make a scan take two pages with a snapshot added between them;
optional captures leave enough ids for necessary ones, so that the bound on ids
never keeps the sidecar from repairing a table. In `process` three entries and a
memory of two make it forget one, and two faults let a fragment and a failed row
meet. In `analyzer` three statements are enough for two tables and an
unrecoverable statement in every order; the proofs need no such bound. `gateway`
has no sidecar and `recovery` no second request: a request meets others only in
the engine's map, the agent's row and the pause flag, and a recovery point only
in the sidecar's state, so each run keeps what its properties speak of. Deadlock
is not checked because every model may come to its end: all requests are
answered, all changes spent.

**Fairness.** Weak, and only for what the Go runtime and the libraries
guarantee: a goroutine that can run does (`Select`, `DeferredDelete`,
`SignalSend`, `HandlerStep`), a timer that was started fires, and the poller's
ticker goes on (`Poll`, `SidecarStep`). In `Gateway` there is one condition for
each request: its handler goes on or, where the handler waits, its timer does.
For `HandlerStep`, `Poll` and `SidecarStep` this includes that calls to the
databases and to the object store return, with a result or an error; most of
them have no deadline of their own, so this is an assumption about the drivers.
Nobody is obliged to send a request, decide, stay connected, pause, write to a
table, crash or start a dead process again. `Recovers` and `DropReported` speak
of a sidecar that is not paused for ever, `Recovers` and `QuarantineHeals` of
one that is up. Faults are bounded, so in the end its calls succeed; in
`RecoveryPoint` a poll that skips a changing table counts as one, so
`QuarantineHeals` does not speak of a table that never comes to rest.

## Proofs

TLAPS checks these for every value of the constants.

| theorem | statement |
|---|---|
| `EngineInvariant` | `Safety => []EngineInv` |
| `FirstDecisionAlwaysWins`, `PendingIsExact` | consequences of it |
| `EngineImplementsContract` | `Safety => Contract!Safety` |
| `BehaviorInvariant` | `Spec => []BehaviorInv` |
| `NoQuarantineWithoutCause`, `QuarantineNeverTooLong` | consequences of it |
| `SyncInvariant` | `Safety => []SyncInv` |
| `HealthyIsTrue` | `Safety => []HealthyMeansRecoverable` |
| `GatewayInvAlways` | `Safety => []GatewayInv` |
| `OnlyApprovedRiskAlways`, `AuditAlwaysTellsTheTruth`, `RowAlwaysTellsTheTruth`, `AlwaysVerifiedBeforeSent` | `Safety => []` of each; consequences of it |
| `PauseAlwaysHolds` | `Safety => PauseHolds`, an action property |
| `GatewayKeepsContract` | `Safety => Engine!Contract!Safety` |
| `GatewayImplementsBehavior` | `Safety => Behavior!Spec` |
| `GatewayQuarantinesWithCause` | `Safety => [](Behavior!QuarantineHasCause /\ Behavior!QuarantineBounded)` |
| `AnalyzerInvAlways` | `Spec => []AnalyzerInv` |
| `RecoveryCoversBatchAlways`, `BatchKeepsRiskAlways`, `QuietMeansSmallAlways` | `Spec => []` of each |
| `RecoveryInvAlways` | `Spec => []RecoveryInv` |
| `AcceptedStaysAlways`, `NewestAcceptedAlways` | consequences of it |
| `StaleNotSuppressedAlways` | inductive by itself |
| `ProcessInvAlways` | `Spec => []ProcessInv` |
| `PauseSurvivesAlways`, `TwoFaultsAlways`, `HistoryAlwaysOrdered`, `HistoryAlwaysComplete` | `Spec => []` of each |

*Engine.* That the outcome is the first decision is not inductive: one has to
know that while the waiter is in its select the channel holds the first decision
and nothing else, and that nothing is in the channel, and no call in flight,
before the request is stored. `EngineInv` adds these. The refinement maps
`status` to what the waiter has been told and `verdict` to `first`; each action
is shown to be an action of the contract or a stutter, under `EngineInv`.

*Quarantine.* A row in the table rests on attempts that were made, but a row
about to be saved was computed from an older table. `BehaviorInv` therefore says
it of every row, saved or still held by a handler, and that no row comes from
the future (`Timely`). The count never exceeds the number of different requests
that were being recorded, between taking the time and reading the row, at some
instant of the row's window (`CountedIn`); lost updates make it smaller, never
larger. That the time itself lies in the window is not true, see below.
The assumptions are those of `BehaviorAssumption`; requests are finitely many.

*Sidecar.* The health row is written from memory, so memory has to be right
about the store: for a table with a snapshot in memory and no failure counted,
the newest manifest in the store is that snapshot, has its data, and has its
row, or the row is being written now. And a poll must not run under an old
`healthy`: from its first step to its last the row says `starting`. `SyncInv` is
these two facts with the types.

*Handler.* What was sent and what was recorded agree only because of where the
handler is: `GatewayInv` says, for each place in the handler, which audit entry
and which row there are by now and what the engine has told it (`VerdictInv`,
`RowInv`, `AuditInv`). A handler that was told "approved" relies on the engine's
invariant for the operator's decision behind it. `PauseHolds` speaks of the step
that sends; that whoever is about to send was past the last pause check when the
pause began is `PauseInv`, which each step of a handler and each pause has to
keep. `VerifiedBeforeSent` speaks of a check made long before the send;
`RecoveryInv` carries what was checked through the wait: that the id was the
newest when it was compared, and the age when it was found ready. It needs
`SidecarInv`: a manifest has a timestamp, and not one of the future.
`GatewayHandlers_proofs` has one lemma per kind of step (`HandlerWrites` says
which entries a step may write, so that one request's facts survive the steps of
the others); `Gateway_proofs` combines them. Assumptions: `GatewayAssumption`;
requests are finitely many, and the limit of attempts is not 0, as `policy.go`
makes sure.

*Composition.* The invariants of the engine and of the agents' rows are not
proved again: every step of `Gateway` is shown to be a step of `ApprovalEngine`
(`EngineStep`) and of `AgentBehavior` (`BehaviorStep`) or to leave its variables
alone, so the gateway implements both specifications, and their theorems hold
of it by `INSTANCE`. `GatewayKeepsContract` goes one level further: the gateway
implements what the engine implements.

*Analyzer.* `AnalyzerInv` is the loop invariant: after `i` statements the
result is the analysis of the first with the highest risk (`Leads`), and the
three collections are exactly the CRITICAL tables, a schema each was named with,
and whether a CRITICAL statement is unrecoverable. Without the collections
nothing follows about the table that is settled on after the loop, and without
`Leads` nothing about which operation the impact analysis goes by. The impact
analysis may promote the result, but it changes neither table nor collections.

*Recovery point.* `AcceptedStays` needs to know why the sidecar's clean-up
cannot hit an accepted snapshot: a valid row is written only after the capture
is over, and a capture under way has none (`PointInv`), so the row check is what
protects the gateway, not the hash check before it. `NewestAccepted` needs the
loop invariant of the scan (`ScanInv`): of the manifests that were there at the
start, each is behind the cursor and no newer than the best so far, or still
ahead, in the page or, while there is `more`, after it; a page never skips one.
Assumptions: `RecoveryAssumption`; ids are finitely many.

*Process.* `PauseSurvives` is carried through a call by `SoloInv`: a call that
nobody has overlapped finds at every step what it left there.
`TwoFaultsToLose` is carried by `OneFaultInv`: a fragment, or an entry past its
turn in the file that is not in it, has already cost one fault. The history is
carried by `HistoryInv`: file and memory are in the order of the numbers, the
entry under way is the newest in memory, no recorded entry is missing from the
file without a fault, and no entry of the file is missing from memory unless
newer ones fill it. The last holds whatever failed, as long as no line is too
long, because an entry is in memory before it is in the file. It rests on a
lemma about `Trim` (`TrimKeepsNewest`): what is cut off is older than all that
stays.

Only model-checked: liveness (`SignalReturns`, `Answered`, `Recovers`,
`DropReported`, `QuarantineHeals`, and the liveness part of the refinement),
because the prover does not do fairness. Every invariant and action property of
the passing runs is also proved.

## What the models show besides

Behaviour met while modelling that no property forbids, and that a maintainer
may want to know:

- Overlapping pause and resume calls may leave the file, the gauge and the
  memory disagreeing, and a crash in the middle of a save, or a shorter text
  written over a longer one, leaves a file with which the gateway refuses to
  start. `PauseSurvives` therefore speaks of calls that did not overlap. A pause
  call whose save fails is answered with an error although the pause is in force.
- An audit line of more than 64 KB makes the next start load no history at all;
  the lines and rows remain.
- The gateway measures a snapshot's age from the manifest's first timestamp,
  the sidecar its own readiness from the last verification: an unchanged table
  is `healthy` to the sidecar and too old for the gateway.
- A manifest of the sidecar that fails validation ends every verification of
  its table until it is removed. One that cannot be read is passed over, so
  that an older snapshot may be taken for the newest; this is the exception in
  `NewestAccepted`. Timestamps have whole seconds, and of equals the first
  listed wins.
- `recordRiskAttempt` takes the time before it reads the row. An attempt that
  took its time before a window began can be counted in that window, and a
  quarantine it sets ends that much earlier. `QuarantineHasCause` therefore asks
  that each attempt was being recorded while the window ran, not that its time
  lies in it.
- A recovery point is looked up by the bare name of its table, so tables of one
  name in two schemas count as one, in `criticalTables` as in the store.
- The rules that go by the operation (impact analysis, `block_operations`) see
  the operation of the first statement with the highest risk. A `DELETE` or
  `UPDATE` with a WHERE clause behind an `INSERT` or a DDL statement, or under
  `EXPLAIN ANALYZE`, is HIGH and needs approval, but its size is not estimated.
- A `DELETE` or `UPDATE` in a multi-table batch that impact analysis promotes is
  marked recoverable although it names several tables; it is refused later, by
  the check for a comma in the table name.

## Not modelled, and why

- *In `Gateway`*: the text of queries and replies, alerts and metrics, the
  credentials of callers. A failed write of the audit file or row is in
  `AuditRegistry`.
- *In `SyncPoller` and `RecoveryPoint`*: `/health`, delivery of alerts, the number
  of failures (only whether it is above zero), the delay of PostgreSQL's
  statistics, the conversion of rows and DDL to Parquet and JSON (one step that
  may fail).
- *In `Policy`*: the defaults of limits and lists that `Decide` does not look at.
- *In `SqlAnalyzer`*: the parser, the recognition of assigned columns in the
  query text (a Boolean), and how good EXPLAIN's estimate is.
- *Authentication, storage URLs, metrics, alert payloads*: lookups and output
  without state that a decision reads; there is no order of events to check.
- *Bypass detector*: each poll compares one query result with fixed lists; it
  keeps nothing between polls, and no decision reads its health row.
- *Python SDK*: one caller on one connection. Guard and restore rely on
  PostgreSQL's savepoints and on one transaction; a model would restate these
  and leave out what is theirs, the transformation of SQL and data. Its manifests
  are in `RecoveryPoint` as another writer's.
- *Node SDK, MCP server package, scripts*: process start-up on a developer's
  machine, forwarding of requests, deployment. Nothing says what two callers of
  `ensureLocalRuntime` may expect of each other.

`PROJECT.json` lists each hazard of the code with the properties that cover it,
or why none does.
