------------------------------- MODULE Policy -------------------------------
(***************************************************************************)
(* gateway/policy.go and the parts of sql_analyzer.go and mcp_server.go    *)
(* that say which analysed SQL runs at once, waits for an operator or is   *)
(* refused.  Pure operators: a policy and an analysis are records.         *)
(***************************************************************************)

Risk == {"SAFE", "HIGH", "IMPACT_CRITICAL", "CRITICAL"}
Critical == {"CRITICAL", "IMPACT_CRITICAL"}

(* The operations the decision tells apart; OTHER stands for every other   *)
(* name analyzeSQL gives (SELECT, INSERT, DROP TABLE, WRITE, ...), UNKNOWN *)
(* also for the "*pg_query..." names of statements it does not classify.   *)
Operation == {"DROP DATABASE", "DROP SCHEMA", "PARSE_FAILURE", "UNKNOWN", "OTHER"}

(* What the target of a statement is: none, a table, or several joined by  *)
(* commas.                                                                 *)
NoTable == "no_table"
ManyTables == "many_tables"

Analysis(Tables) == [risk : Risk, op : Operation,
                     table : Tables \cup {NoTable, ManyTables},
                     recoverable : BOOLEAN]

GatewayPolicy == [approvalRisks : SUBSET Risk, blockOps : SUBSET Operation,
                  requireRecovery : BOOLEAN, blockUnknown : BOOLEAN,
                  blockUnrecoverable : BOOLEAN]

DefaultGatewayPolicy ==
  [approvalRisks      |-> {"HIGH", "IMPACT_CRITICAL", "CRITICAL"},
   blockOps           |-> {"DROP DATABASE", "DROP SCHEMA"},
   requireRecovery    |-> TRUE,
   blockUnknown       |-> TRUE,
   blockUnrecoverable |-> TRUE]

(* LoadGatewayPolicy, for the fields that Decide looks at: the file's over *)
(* the defaults; an empty list falls back to the default list, a Boolean   *)
(* given as false stays false.  The limits of the file, where 0 stands for *)
(* the default, are constants of the modules that compare with them.  A    *)
(* file that cannot be read or parsed ends the process before it serves.   *)
LoadGatewayPolicy(file) ==
  [file EXCEPT
     !.approvalRisks = IF @ = {} THEN DefaultGatewayPolicy.approvalRisks ELSE @,
     !.blockOps      = IF @ = {} THEN DefaultGatewayPolicy.blockOps ELSE @]

RecoveryPossible(a) ==
  a.risk \in Critical /\ a.recoverable /\ a.table # NoTable

(* Decide: the first rule that applies wins.                               *)
Blocked(p, a) ==
  \/ a.op \in p.blockOps
  \/ p.blockUnknown /\ a.op \in {"PARSE_FAILURE", "UNKNOWN"}
  \/ a.risk \in Critical /\ p.blockUnrecoverable /\ ~RecoveryPossible(a)

Action(p, a) ==
  IF Blocked(p, a) THEN "block"
  ELSE IF a.risk \in p.approvalRisks THEN "approve"
  ELSE "execute"

RequiresRecovery(p, a) ==
  Action(p, a) = "approve" /\ a.risk \in Critical /\ p.requireRecovery

(* applyImpactAnalysis: a write the impact analysis finds critical is      *)
(* promoted, and counts as recoverable as soon as it names some table.     *)
ApplyImpact(a, impactCritical) ==
  IF impactCritical
  THEN [a EXCEPT !.risk = "IMPACT_CRITICAL",
                 !.recoverable = @ \/ a.table # NoTable]
  ELSE a

(* criticalRecoveryTableFromAnalysis: the one table to verify, if any.     *)
HasRecoveryTable(a) ==
  a.risk \in Critical /\ a.recoverable /\ a.table \notin {NoTable, ManyTables}
=============================================================================
