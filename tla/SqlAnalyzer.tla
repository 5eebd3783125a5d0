---------------------------- MODULE SqlAnalyzer ----------------------------
(***************************************************************************)
(* gateway/sql_analyzer.go and impact.go: what the gateway makes of one    *)
(* query text.  The text is parsed into statements, a loop classifies one  *)
(* after the other and folds them into a single analysis, the impact of a  *)
(* DELETE or UPDATE is estimated with queries that may fail, and the       *)
(* policy decides.  The analysis is a record of module Policy.             *)
(*                                                                         *)
(* A statement is what the classification looks at: the kind of its node,  *)
(* whether it has a WHERE clause, its target tables, each with the schema  *)
(* it is qualified with, and whether it stands under EXPLAIN.  A recovery  *)
(* point is known by the bare name of its table; the schema qualifies the  *)
(* count query and is shown to the operator.                               *)
(***************************************************************************)
EXTENDS Policy, Integers, Sequences

CONSTANTS Tables,          \* table names
          Schemas,         \* schema names
          Batches,         \* the statement lists of the queries considered
          Policies,        \* the policies a gateway may be started with
          ImpactPolicy,    \* their part for the impact analysis
          SnapshotBeforeCritical, \* --snapshot-before-critical
          Counts           \* row counts the database may report

VARIABLES policy,          \* the policy in force
          parsed,          \* what the parser says: "empty", "error" or "ok"
          batch,           \* the statements
          i,               \* how many of them the loop has classified
          result,          \* the analysis so far
          criticalTables, criticalSchemas,
          criticalUnrecoverable,  \* the loop's bookkeeping
          impact,          \* was the impact found critical?
          seen,            \* the answers of the two queries, NoAnswer if none
          outcome,         \* what the handler goes on to do
          pc

loopVars == <<criticalTables, criticalSchemas, criticalUnrecoverable>>
vars == <<policy, parsed, batch, i, result, loopVars, impact, seen, outcome, pc>>

NoSchema == "no_schema"    \* a table name without a qualifier
NoAnswer == -1             \* a query failed, timed out or was not made

Node == {"SELECT", "SHOW", "SET", "TRANSACTION", "PREPARED", "INSERT", "MERGE",
         "DELETE", "UPDATE", "DROP TABLE", "DROP DATABASE", "DROP SCHEMA", "DROP",
         "TRUNCATE", "DDL", "WRITE", "UNCLASSIFIED"}

(* The names an analysis may carry.                                        *)
OperationName == Node \cup {"EMPTY", "PARSE_FAILURE", "UNKNOWN", "EXPLAIN", "EXPLAIN ANALYZE"}

SchemaName == Schemas \cup {NoSchema}
Target == [schema : SchemaName, table : Tables]

Statement == [node : Node, where : BOOLEAN, targets : Seq(Target),
              explain : {"no", "plan", "analyze"}]

ImpactRules == [enabled : BOOLEAN, maxRows : Nat, maxPercent : Nat,
                protected : SUBSET Tables, unknownAction : {"approve", "block", "execute"}]

ASSUME AnalyzerAssumption ==
  /\ Batches \subseteq Seq(Statement)
  /\ \A b \in Batches : \A k \in DOMAIN b :
       b[k].node \in {"INSERT", "MERGE", "DELETE", "UPDATE", "DROP TABLE", "TRUNCATE"}
         => b[k].targets # <<>>
  /\ Policies \subseteq GatewayPolicy
  /\ ImpactPolicy \in ImpactRules
  /\ {NoTable, ManyTables} \cap Tables = {}
  /\ SnapshotBeforeCritical \in BOOLEAN
  /\ Counts \subseteq Nat

----------------------------------------------------------------------------
(* Classification of one statement.                                        *)

(* What a statement is about, if that is not one table.                    *)
Nothing == [schema |-> NoSchema, table |-> NoTable]
Several == [schema |-> NoSchema, table |-> ManyTables]

analysis(risk, op, t, rec) ==
  [risk |-> risk, op |-> op, schema |-> t.schema, table |-> t.table, recoverable |-> rec]

safeAnalysis(op) == analysis("SAFE", op, Nothing, FALSE)
highAnalysis(op, t) == analysis("HIGH", op, t, FALSE)
criticalAnalysis(op, t, rec) == analysis("CRITICAL", op, t, rec)

(* analyzeDrop and analyzeTruncate: exactly one table is recoverable.      *)
OneTarget(op, targets) ==
  IF Len(targets) = 1 THEN criticalAnalysis(op, targets[1], TRUE)
                      ELSE criticalAnalysis(op, Several, FALSE)

RowWrite(s) ==
  IF s.where THEN highAnalysis(s.node, s.targets[1])
             ELSE criticalAnalysis(s.node, s.targets[1], TRUE)

(* The name "%T" of a node the switch does not list begins with "*", which *)
(* Decide treats as it treats UNKNOWN.                                     *)
Classify(s) ==
  CASE s.node \in {"SELECT", "SHOW", "SET", "TRANSACTION"} -> safeAnalysis(s.node)
    [] s.node = "PREPARED" -> highAnalysis("TRANSACTION", Nothing)
    [] s.node \in {"INSERT", "MERGE"} -> highAnalysis(s.node, s.targets[1])
    [] s.node \in {"DELETE", "UPDATE"} -> RowWrite(s)
    [] s.node \in {"DROP TABLE", "TRUNCATE"} -> OneTarget(s.node, s.targets)
    [] s.node \in {"DROP DATABASE", "DROP SCHEMA"} -> criticalAnalysis(s.node, Nothing, FALSE)
    [] s.node \in {"DROP", "DDL", "WRITE"} -> highAnalysis(s.node, Nothing)
    [] OTHER -> criticalAnalysis("UNKNOWN", Nothing, FALSE)

(* analyzeExplain: ANALYZE executes the statement, so it counts in full,   *)
(* under an operation name of its own.                                     *)
analyzeStatement(s) ==
  CASE s.explain = "no"   -> Classify(s)
    [] s.explain = "plan" -> safeAnalysis("EXPLAIN")
    [] OTHER              -> [Classify(s) EXCEPT !.op = "EXPLAIN ANALYZE"]

riskRank(risk) == CASE risk \in Critical -> 3 [] risk = "HIGH" -> 2 [] OTHER -> 0

(* Variant for the mutation runs: the later of two equals wins, and a      *)
(* later HIGH hides an earlier CRITICAL.                                   *)
LaterRisk(current, next) == IF next.risk # "SAFE" THEN next ELSE current

higherRisk(current, next) ==
  IF riskRank(next.risk) > riskRank(current.risk) THEN next ELSE current

----------------------------------------------------------------------------
(* analyzeSQL.                                                             *)

EmptyAnalysis == safeAnalysis("EMPTY")

Init ==
  /\ policy \in Policies
  /\ parsed \in {"empty", "error", "ok"}
  /\ batch \in IF parsed = "ok" THEN Batches \ {<<>>} ELSE {<<>>}
  /\ i = 0 /\ result = EmptyAnalysis
  /\ criticalTables = {} /\ criticalUnrecoverable = FALSE
  /\ criticalSchemas = [t \in Tables |-> NoSchema]
  /\ impact = FALSE /\ seen = [est |-> NoAnswer, total |-> NoAnswer]
  /\ outcome = "none" /\ pc = "parse"

(* Nothing to analyse is SAFE; what the parser rejects fails closed.       *)
Parse ==
  /\ pc = "parse"
  /\ result' = IF parsed = "error" THEN criticalAnalysis("PARSE_FAILURE", Nothing, FALSE)
                                   ELSE EmptyAnalysis
  /\ pc' = IF parsed = "ok" THEN "loop" ELSE "impact"
  /\ UNCHANGED <<policy, parsed, batch, i, loopVars, impact, seen, outcome>>

(* One turn of the loop over the statements.  The last schema named with a *)
(* table is kept for it.                                                   *)
NextStatement ==
  LET s == analyzeStatement(batch[i + 1])
  IN /\ pc = "loop" /\ i < Len(batch)
     /\ i' = i + 1
     /\ result' = IF i = 0 THEN s ELSE higherRisk(result, s)
     /\ IF s.risk # "CRITICAL" THEN UNCHANGED loopVars
        ELSE IF s.recoverable /\ s.table # NoTable
        THEN /\ criticalTables' = criticalTables \cup {s.table}
             /\ criticalSchemas' = [criticalSchemas EXCEPT ![s.table] =
                                      IF s.schema # NoSchema THEN s.schema ELSE @]
             /\ UNCHANGED criticalUnrecoverable
        ELSE /\ criticalUnrecoverable' = TRUE
             /\ UNCHANGED <<criticalTables, criticalSchemas>>
     /\ UNCHANGED <<policy, parsed, batch, impact, seen, outcome, pc>>

Single(ts) == \E t \in ts : ts = {t}

Recoverable(a, t, schemas) ==
  [a EXCEPT !.table = t, !.schema = schemas[t], !.recoverable = TRUE]

(* Variant: one recoverable table is enough.                               *)
SettleOnOne(a, ts, schemas, unrecoverable) ==
  IF a.risk # "CRITICAL" THEN a
  ELSE IF Single(ts) THEN Recoverable(a, CHOOSE t \in ts : TRUE, schemas)
  ELSE IF ts # {} THEN [a EXCEPT !.table = ManyTables, !.recoverable = FALSE]
  ELSE IF unrecoverable THEN [a EXCEPT !.table = NoTable, !.recoverable = FALSE]
  ELSE a

(* After the loop: a CRITICAL batch has one recovery table, several, or    *)
(* none.                                                                   *)
SettleTable(a, ts, schemas, unrecoverable) ==
  IF a.risk # "CRITICAL" THEN a
  ELSE IF Single(ts) /\ ~unrecoverable THEN Recoverable(a, CHOOSE t \in ts : TRUE, schemas)
  ELSE IF ts # {} /\ ~Single(ts)
  THEN [a EXCEPT !.table = ManyTables, !.recoverable = FALSE]
  ELSE IF unrecoverable THEN [a EXCEPT !.table = NoTable, !.recoverable = FALSE]
  ELSE a

EndLoop ==
  /\ pc = "loop" /\ i = Len(batch)
  /\ result' = SettleTable(result, criticalTables, criticalSchemas, criticalUnrecoverable)
  /\ pc' = "impact"
  /\ UNCHANGED <<policy, parsed, batch, i, loopVars, impact, seen, outcome>>

----------------------------------------------------------------------------
(* impact.go.                                                              *)

Estimated(a) == ImpactPolicy.enabled /\ a.op \in {"DELETE", "UPDATE"}

unknownImpact == ImpactPolicy.unknownAction \in {"block", "approve"}

(* Variant: the share of the table is forgotten.                           *)
RowsOnly(est, total) == est > ImpactPolicy.maxRows

(* The thresholds; percent is 0 when the count is 0.                       *)
OverThreshold(est, total) ==
  \/ est > ImpactPolicy.maxRows
  \/ total > 0 /\ est * 100 > ImpactPolicy.maxPercent * total

Protected(a, column) == a.table \in ImpactPolicy.protected \/ (a.op = "UPDATE" /\ column)

(* Are EXPLAIN and the count of the table's rows asked for at all?         *)
Queried(a, n, column) ==
  Estimated(a) /\ a.table # NoTable /\ ~Protected(a, column) /\ n = 1

(* analyzeImpact, given whether a protected column is assigned and what    *)
(* the two queries answer; the checks are made in this order.              *)
analyzeImpact(a, n, column, est, total) ==
  /\ Estimated(a)
  /\ IF a.table = NoTable THEN unknownImpact
     ELSE IF Protected(a, column) THEN TRUE
     ELSE IF n # 1 \/ est = NoAnswer \/ total = NoAnswer THEN unknownImpact
     ELSE OverThreshold(est, total)

(* The count is only asked for once EXPLAIN has answered.                  *)
AnalyzeImpact ==
  /\ pc = "impact"
  /\ \E column \in BOOLEAN, est \in Counts \cup {NoAnswer}, total \in Counts \cup {NoAnswer} :
       /\ ~Queried(result, Len(batch), column) => est = NoAnswer
       /\ est = NoAnswer => total = NoAnswer
       /\ impact' = analyzeImpact(result, Len(batch), column, est, total)
       /\ seen' = [est |-> est, total |-> total]
  /\ result' = ApplyImpact(result, impact')
  /\ pc' = "decide"
  /\ UNCHANGED <<policy, parsed, batch, i, loopVars, outcome>>

----------------------------------------------------------------------------
(* Decide, and the recovery table that verifyCriticalRecoveryPoint takes   *)
(* from the analysis before anything is asked of the object store.         *)

(* Variant: without a recovery table there is nothing to verify.           *)
OutcomeUnverified(a) ==
  IF RequiresRecovery(policy, a) /\ SnapshotBeforeCritical /\ HasRecoveryTable(a)
  THEN "verify" ELSE Action(policy, a)

Outcome(a) ==
  IF RequiresRecovery(policy, a) /\ SnapshotBeforeCritical
  THEN IF HasRecoveryTable(a) THEN "verify" ELSE "block"
  ELSE Action(policy, a)

Decide ==
  /\ pc = "decide"
  /\ outcome' = Outcome(result)
  /\ pc' = "done"
  /\ UNCHANGED <<policy, parsed, batch, i, result, loopVars, impact, seen>>

Done == pc = "done" /\ UNCHANGED vars

Next == Parse \/ NextStatement \/ EndLoop \/ AnalyzeImpact \/ Decide \/ Done

Spec == Init /\ [][Next]_vars

----------------------------------------------------------------------------
(* Properties.                                                             *)

A(k) == analyzeStatement(batch[k])
Rank(k) == riskRank(A(k).risk)
CriticalIn(n) == {k \in 1..n : A(k).risk = "CRITICAL"}
Recovered(t, n) == {k \in CriticalIn(n) : A(k).recoverable /\ A(k).table = t}

(* Of the first n statements, j is the first of those with the highest     *)
(* risk.                                                                   *)
Leads(j, n) == \A k \in 1..n : Rank(k) < Rank(j) \/ (Rank(k) = Rank(j) /\ j <= k)

TypeOK ==
  /\ policy \in Policies /\ parsed \in {"empty", "error", "ok"}
  /\ batch \in IF parsed = "ok" THEN Batches \ {<<>>} ELSE {<<>>}
  /\ i \in 0..Len(batch)
  /\ result \in [risk : Risk, op : OperationName, schema : SchemaName,
                 table : Tables \cup {NoTable, ManyTables}, recoverable : BOOLEAN]
  /\ criticalTables \subseteq Tables /\ criticalUnrecoverable \in BOOLEAN
  /\ criticalSchemas \in [Tables -> SchemaName]
  /\ impact \in BOOLEAN
  /\ outcome \in {"none", "execute", "approve", "block", "verify"}
  /\ pc \in {"parse", "loop", "impact", "decide", "done"}

(* The loop invariant of analyzeSQL: after any number of statements the    *)
(* analysis is that of the first of those with the highest risk, and the   *)
(* three collections say exactly what the CRITICAL ones touch; after the   *)
(* loop an analysis that names one table names that of all CRITICAL ones,  *)
(* with their schema if they agree on one, and its operation is still that *)
(* of the first with the highest risk.                                     *)
AnalyzerInv ==
  /\ TypeOK
  /\ \A k \in 1..i : Rank(k) <= riskRank(result.risk)
  /\ pc = "parse" => i = 0
  /\ pc = "loop" => \/ i = 0 /\ result = EmptyAnalysis
                    \/ \E j \in 1..i : result = A(j) /\ Leads(j, i)
  /\ criticalTables = {A(k).table : k \in {n \in CriticalIn(i) : A(n).recoverable}}
  /\ \A t \in Tables :
       IF criticalSchemas[t] = NoSchema
       THEN \A k \in Recovered(t, i) : A(k).schema = NoSchema
       ELSE \E k \in Recovered(t, i) : A(k).schema = criticalSchemas[t]
  /\ criticalUnrecoverable <=> \E k \in CriticalIn(i) : ~A(k).recoverable
  /\ pc \notin {"parse", "loop"} =>
       /\ i = Len(batch)
       /\ i > 0 => \E j \in 1..i : result.op = A(j).op /\ Leads(j, i)
       /\ i = 1 /\ (A(1).risk = "CRITICAL" => A(1).recoverable) =>
            result.schema = A(1).schema /\ result.table = A(1).table
       /\ result.table \notin {NoTable, ManyTables} =>
            /\ \A k \in CriticalIn(i) : A(k).recoverable /\ A(k).table = result.table
            /\ \A k \in CriticalIn(i) :
                 (\A n \in CriticalIn(i) : A(n).schema = A(k).schema)
                   => result.schema = A(k).schema
  /\ outcome # "none" => pc = "done" /\ outcome = Outcome(result)

(* What the gateway verifies before CRITICAL SQL covers the whole batch:   *)
(* when it goes on to verify a recovery point, every statement of the      *)
(* batch that is classified CRITICAL is recoverable and names the table    *)
(* that is verified, wherever it stands and whatever the impact analysis   *)
(* added.  The table is its bare name, by which snapshots are kept: tables *)
(* of one name in two schemas are the same here.  The schema the operator  *)
(* is shown is right when those statements agree on one.                   *)
RecoveryCoversBatch ==
  outcome = "verify" =>
    \A k \in CriticalIn(Len(batch)) :
      /\ A(k).recoverable /\ A(k).table = result.table
      /\ (\A n \in CriticalIn(Len(batch)) : A(n).schema = A(k).schema)
           => result.schema = A(k).schema

(* Approval for a risk extends to what ranks higher or equal.              *)
ApprovalUpward ==
  \A r \in policy.approvalRisks, q \in Risk :
    riskRank(q) >= riskRank(r) => q \in policy.approvalRisks

(* No statement hides its risk in a batch: a batch runs at once only if    *)
(* the policy asks approval for the risk of none of its statements, and    *)
(* one with a CRITICAL statement is never merely approved when the policy  *)
(* wants recovery points.  This is about risks: the rules for single       *)
(* operations look at one statement only, the first of the highest risk.   *)
BatchKeepsRisk ==
  /\ outcome = "execute" /\ ApprovalUpward
     => \A k \in DOMAIN batch : A(k).risk \notin policy.approvalRisks
  /\ outcome = "approve" /\ policy.requireRecovery /\ SnapshotBeforeCritical
     => CriticalIn(Len(batch)) = {}

(* The DELETEs and UPDATEs of the batch that are executed.                 *)
RowWrites == {k \in DOMAIN batch : /\ batch[k].node \in {"DELETE", "UPDATE"}
                                   /\ batch[k].explain # "plan"}

(* The batch is one statement, both queries answered about its own table,  *)
(* and neither threshold is passed.                                        *)
KnownSmall ==
  /\ Len(batch) = 1 /\ seen.est # NoAnswer /\ seen.total # NoAnswer
  /\ seen.est <= ImpactPolicy.maxRows
  /\ seen.est * 100 <= ImpactPolicy.maxPercent * seen.total \/ seen.total = 0
  /\ result.table \notin ImpactPolicy.protected
  /\ [schema |-> result.schema, table |-> result.table] = batch[1].targets[1]

(* The batch passes for another operation than DELETE or UPDATE: that of a *)
(* statement with a higher risk than the k-th, or with the same risk and   *)
(* not behind it; the k-th itself, if it stands under EXPLAIN ANALYZE.     *)
Hidden(k) ==
  \E j \in DOMAIN batch :
    /\ A(j).op \notin {"DELETE", "UPDATE"} /\ result.op = A(j).op
    /\ Rank(k) < Rank(j) \/ (Rank(k) = Rank(j) /\ j <= k)

(* Which executed DELETEs and UPDATEs the impact analysis lets pass as     *)
(* they were classified: those known to be small, and those it does not    *)
(* look at because the batch passes for another operation.  There is no    *)
(* other way: a failing estimate, an unreachable database, a batch that    *)
(* passes for a DELETE or UPDATE, or a protected table promotes it, unless *)
(* the policy says to execute what is unknown.                             *)
QuietMeansSmall ==
  /\ pc \in {"decide", "done"} /\ ~impact /\ ImpactPolicy.enabled
  /\ ImpactPolicy.unknownAction # "execute"
  => \A k \in RowWrites : KnownSmall \/ Hidden(k)
=============================================================================
