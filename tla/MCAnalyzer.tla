----------------------------- MODULE MCAnalyzer -----------------------------
(* The analyzer over all batches of up to three of the statements below,   *)
(* which between them take every branch of the classification.             *)
EXTENDS SqlAnalyzer

In(schema, names) == [k \in DOMAIN names |-> [schema |-> schema, table |-> names[k]]]

S(node, where, names, explain) ==
  [node |-> node, where |-> where, targets |-> In(NoSchema, names), explain |-> explain]

Q(node, schema, name) ==
  [node |-> node, where |-> FALSE, targets |-> In(schema, <<name>>), explain |-> "no"]

MCStatements ==
  {S("SELECT", FALSE, <<>>, "no"), S("PREPARED", FALSE, <<>>, "no"),
   S("INSERT", FALSE, <<"t">>, "no"), S("DDL", FALSE, <<>>, "no"),
   S("DELETE", TRUE, <<"t">>, "no"), S("DELETE", FALSE, <<"t">>, "no"),
   S("DELETE", FALSE, <<"u">>, "no"), S("UPDATE", TRUE, <<"u">>, "no"),
   S("UPDATE", TRUE, <<"v">>, "no"),
   S("DELETE", FALSE, <<"t">>, "analyze"), S("DELETE", FALSE, <<"t">>, "plan"),
   S("DROP TABLE", FALSE, <<"t">>, "no"), S("TRUNCATE", FALSE, <<"t", "u">>, "no"),
   Q("DROP TABLE", "a", "t"), Q("DELETE", "b", "t"),
   S("DROP SCHEMA", FALSE, <<>>, "no"), S("UNCLASSIFIED", FALSE, <<>>, "no")}

MCTables == {"t", "u", "v"}
MCSchemas == {"a", "b"}
MCBatches == UNION {[1..n -> MCStatements] : n \in 1..3}
MCPolicies == {DefaultGatewayPolicy, [DefaultGatewayPolicy EXCEPT !.blockUnrecoverable = FALSE],
               [DefaultGatewayPolicy EXCEPT !.approvalRisks = Critical]}
MCImpact == [enabled |-> TRUE, maxRows |-> 2, maxPercent |-> 50, protected |-> {"v"},
             unknownAction |-> "approve"]
MCCounts == {0, 1, 2, 3, 4}
=============================================================================
