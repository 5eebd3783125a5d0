----------------------------- MODULE MCGateway -----------------------------
(* Gateway for TLC.  The queries are one of each kind the handler treats   *)
(* in its own way under the default policy.                                *)
EXTENDS Gateway, TLC

CONSTANTS r1, r2, a1, t1, t2

Select == [risk |-> "SAFE", op |-> "OTHER", table |-> NoTable, recoverable |-> FALSE]
Insert == [risk |-> "HIGH", op |-> "OTHER", table |-> t1, recoverable |-> FALSE]
DropTable == [risk |-> "CRITICAL", op |-> "OTHER", table |-> t1, recoverable |-> TRUE]
DropDatabase == [risk |-> "CRITICAL", op |-> "DROP DATABASE", table |-> NoTable,
                 recoverable |-> FALSE]
(* Two DELETEs in one batch: promoted, with a joined table name.           *)
DeleteBatch == ApplyImpact([risk |-> "CRITICAL", op |-> "OTHER", table |-> ManyTables,
                            recoverable |-> FALSE], TRUE)

RecoveryQueries == {Select, DropTable, DeleteBatch}
NoRecoveryQueries == {Insert, DropDatabase}

(* A policy file with empty lists is loaded as the default policy.         *)
FilePolicy == LoadGatewayPolicy([DefaultGatewayPolicy EXCEPT !.approvalRisks = {},
                                                             !.blockOps = {}])

OneAgent == [r \in Requests |-> a1]
(* Of the first table an older snapshot and the newest one can be named.   *)
NoSnapshots == [t \in Tables |-> 0]
OneSnapshot == [t \in Tables |-> 1]
TwoOfFirst == [t \in Tables |-> IF t = t1 THEN 2 ELSE 1]
NoGroups == [t \in Tables |-> {}]
OneGroup == [t \in Tables |-> Tables]
Interchangeable == Permutations(Requests) \cup Permutations(Operators)
=============================================================================
