------------------------- MODULE SqlAnalyzer_proofs -------------------------
(***************************************************************************)
(* Proofs about the analysis of one query text, for batches of any length, *)
(* any policy and any tables.                                              *)
(***************************************************************************)
EXTENDS SqlAnalyzer, TLAPS

Names == Tables \cup {NoTable, ManyTables}
StatementRisk == {"SAFE", "HIGH", "CRITICAL"}

(* What the classification of one statement promises: only a CRITICAL      *)
(* statement counts as recoverable, and then it names a table.             *)
StatementOK(a) ==
  /\ a \in [risk : StatementRisk, op : OperationName, schema : SchemaName, table : Names,
             recoverable : BOOLEAN]
  /\ a.recoverable => a.risk = "CRITICAL" /\ a.table \in Tables

(* The first of the targets, if there is one, is a table.                  *)
LEMMA FirstTarget ==
  ASSUME NEW q \in Seq(Target)
  PROVE  /\ q # <<>> => q[1] \in Target
         /\ Len(q) = 1 => q[1] \in Target
<1>1. Len(q) \in Nat /\ \A n \in 1..Len(q) : q[n] \in Target
  OBVIOUS
<1>2. q # <<>> => Len(q) >= 1
  OBVIOUS
<1> QED
  BY <1>1, <1>2

(* The targets are there where the parser's grammar wants them.            *)
HasTargets(s) ==
  s.node \in {"INSERT", "MERGE", "DELETE", "UPDATE", "DROP TABLE", "TRUNCATE"}
    => s.targets # <<>>

(* The switch over the nodes stays within those bounds.                    *)
LEMMA ClassifyOK ==
  ASSUME NEW s \in Statement, HasTargets(s)
  PROVE  StatementOK(Classify(s))
<1> USE DEF HasTargets
<1>1. s.node \in Node /\ s.where \in BOOLEAN /\ s.targets \in Seq(Target)
  BY DEF Statement
<1>2. /\ s.targets # <<>> => s.targets[1] \in Target
      /\ Len(s.targets) = 1 => s.targets[1] \in Target
  BY <1>1, FirstTarget
<1> DEFINE About == [schema : SchemaName, table : Names]
<1> USE DEF StatementOK, Names, StatementRisk, analysis
<1>3. \A op \in OperationName : StatementOK(safeAnalysis(op))
  BY DEF safeAnalysis, Nothing, SchemaName
<1>4. \A op \in OperationName, t \in About : StatementOK(highAnalysis(op, t))
  BY DEF highAnalysis
<1>5. \A op \in OperationName, t \in Target : StatementOK(criticalAnalysis(op, t, TRUE))
  BY DEF criticalAnalysis, Target
<1>6. \A op \in OperationName, t \in About : StatementOK(criticalAnalysis(op, t, FALSE))
  BY DEF criticalAnalysis
<1>7. Nothing \in About /\ Several \in About /\ Target \subseteq About
  BY DEF Nothing, Several, SchemaName, Target
<1> HIDE DEF StatementOK, About, analysis
<1> USE DEF OperationName, Node
<1>8. CASE s.node \in {"DROP TABLE", "TRUNCATE"}
  BY <1>1, <1>2, <1>5, <1>6, <1>8, <1>7 DEF Classify, OneTarget
<1>9. CASE s.node \in {"DELETE", "UPDATE"}
  BY <1>1, <1>2, <1>4, <1>5, <1>9, <1>7 DEF Classify, RowWrite
<1>10. CASE s.node \in {"INSERT", "MERGE"}
  BY <1>1, <1>2, <1>4, <1>10, <1>7 DEF Classify
<1>11. CASE s.node \notin {"INSERT", "MERGE", "DELETE", "UPDATE", "DROP TABLE", "TRUNCATE"}
  BY <1>1, <1>3, <1>4, <1>6, <1>11, <1>7 DEF Classify, Statement, Node
<1> QED
  BY <1>8, <1>9, <1>10, <1>11

(* A statement of the batch is classified within those bounds.             *)
LEMMA AnalyzeOK ==
  ASSUME NEW s \in Statement, HasTargets(s)
  PROVE  StatementOK(analyzeStatement(s))
<1>1. StatementOK(Classify(s))
  BY ClassifyOK
<1>2. StatementOK(safeAnalysis("EXPLAIN"))
  BY DEF StatementOK, safeAnalysis, analysis, Nothing, SchemaName, Names, StatementRisk,
         OperationName
<1>3. \A a : StatementOK(a) => StatementOK([a EXCEPT !.op = "EXPLAIN ANALYZE"])
  BY DEF StatementOK, OperationName
<1>4. s.explain \in {"no", "plan", "analyze"}
  BY DEF Statement
<1> QED
  BY <1>1, <1>2, <1>3, <1>4 DEF analyzeStatement

(* A statement that passes for a DELETE or UPDATE is one, and is about its *)
(* first target.                                                           *)
LEMMA RowWriteTarget ==
  ASSUME NEW s \in Statement, HasTargets(s),
         analyzeStatement(s).op \in {"DELETE", "UPDATE"}
  PROVE  /\ s.targets[1] = [schema |-> analyzeStatement(s).schema,
                            table  |-> analyzeStatement(s).table]
         /\ analyzeStatement(s).risk = "CRITICAL" => analyzeStatement(s).recoverable
<1>1. analyzeStatement(s) = Classify(s)
  <2>1. \A a : StatementOK(a) => [a EXCEPT !.op = "EXPLAIN ANALYZE"].op = "EXPLAIN ANALYZE"
    BY DEF StatementOK
  <2>2. safeAnalysis("EXPLAIN").op = "EXPLAIN"
    BY DEF safeAnalysis, analysis
  <2> QED
    BY <2>1, <2>2, ClassifyOK DEF analyzeStatement
<1>2. /\ \A op : safeAnalysis(op).op = op
      /\ \A op, t : highAnalysis(op, t).op = op
      /\ \A op, t : criticalAnalysis(op, t, TRUE).op = op
      /\ \A op, t : criticalAnalysis(op, t, FALSE).op = op
  BY DEF safeAnalysis, highAnalysis, criticalAnalysis, analysis
<1>3. s.node \in {"DELETE", "UPDATE"}
  <2>1. \A op, q : OneTarget(op, q).op = op
    BY <1>2 DEF OneTarget
  <2>2. s.node \in {"DROP TABLE", "TRUNCATE"} => Classify(s) = OneTarget(s.node, s.targets)
    BY DEF Classify
  <2>3. s.node \in {"SELECT", "SHOW", "SET", "TRANSACTION"} => Classify(s) = safeAnalysis(s.node)
    BY DEF Classify
  <2>4. s.node \in {"INSERT", "MERGE"} => Classify(s) = highAnalysis(s.node, s.targets[1])
    BY DEF Classify
  <2>5. s.node \in {"DROP", "DDL", "WRITE"} => Classify(s) = highAnalysis(s.node, Nothing)
    BY DEF Classify
  <2>6. s.node \in {"DROP DATABASE", "DROP SCHEMA"}
          => Classify(s) = criticalAnalysis(s.node, Nothing, FALSE)
    BY DEF Classify
  <2>7. s.node = "PREPARED" => Classify(s) = highAnalysis("TRANSACTION", Nothing)
    BY DEF Classify
  <2>8. s.node = "UNCLASSIFIED" => Classify(s) = criticalAnalysis("UNKNOWN", Nothing, FALSE)
    BY DEF Classify
  <2>9. /\ OneTarget(s.node, s.targets).op = s.node /\ safeAnalysis(s.node).op = s.node
         /\ criticalAnalysis(s.node, Nothing, FALSE).op = s.node
    BY <1>2, <2>1, Zenon
  <2>10. s.node \in {"DROP TABLE", "TRUNCATE", "SELECT", "SHOW", "SET", "TRANSACTION"}
          => Classify(s).op = s.node
    BY <2>2, <2>3, <2>9
  <2>11. s.node \in {"INSERT", "MERGE", "DROP", "DDL", "WRITE"} => Classify(s).op = s.node
    BY <1>2, <2>4, <2>5
  <2>12. s.node \in {"DROP DATABASE", "DROP SCHEMA"} => Classify(s).op = s.node
    BY <2>6, <2>9
  <2>13. /\ s.node = "PREPARED" => Classify(s).op = "TRANSACTION"
         /\ s.node = "UNCLASSIFIED" => Classify(s).op = "UNKNOWN"
    <3>1. highAnalysis("TRANSACTION", Nothing).op = "TRANSACTION"
      BY DEF highAnalysis, analysis
    <3>2. criticalAnalysis("UNKNOWN", Nothing, FALSE).op = "UNKNOWN"
      BY DEF criticalAnalysis, analysis
    <3> QED
      BY <2>7, <2>8, <3>1, <3>2
  <2>14. Classify(s).op \in {"DELETE", "UPDATE"}
    BY <1>1
  <2>15. s.node \in Node
    BY DEF Statement
  <2> QED
    BY <2>10, <2>11, <2>12, <2>13, <2>14, <2>15 DEF Node
<1>4. s.targets[1] \in Target
  BY <1>3, FirstTarget DEF Statement, HasTargets
<1>5. analyzeStatement(s) = RowWrite(s)
  BY <1>1, <1>3 DEF Classify
<1> QED
  BY <1>4, <1>5 DEF RowWrite, Target, highAnalysis, criticalAnalysis, analysis

(* A batch is a sequence.                                                  *)
LEMMA BatchSeq ==
  ASSUME batch \in IF parsed = "ok" THEN Batches \ {<<>>} ELSE {<<>>}
  PROVE  Len(batch) \in Nat /\ DOMAIN batch = 1..Len(batch)
<1>1. CASE parsed = "ok"
  <2>1. batch \in Seq(Statement)
    BY <1>1, AnalyzerAssumption
  <2> QED
    BY <2>1
<1>2. CASE parsed # "ok"
  <2>1. batch = <<>> /\ <<>> \in Seq(Statement)
    BY <1>2
  <2> QED
    BY <2>1
<1> QED
  BY <1>1, <1>2

(* Each statement of the batch is classified within the bounds.            *)
LEMMA BatchOK ==
  ASSUME TypeOK, NEW k \in 1..Len(batch)
  PROVE  StatementOK(A(k))
<1>1. batch # <<>>
  <2>1. Len(<<>>) = 0
    OBVIOUS
  <2> QED
    BY <2>1
<1>2. batch \in Batches /\ batch \in Seq(Statement)
  BY <1>1, AnalyzerAssumption DEF TypeOK
<1>3. k \in DOMAIN batch /\ batch[k] \in Statement
  BY <1>2
<1> QED
  BY <1>2, <1>3, AnalyzeOK, AnalyzerAssumption DEF A, HasTargets

(* The types are kept.                                                     *)
LEMMA TypeStep ==
  ASSUME TypeOK, [Next]_vars
  PROVE  TypeOK'
<1> DEFINE RecordOK(a) ==
             a \in [risk : Risk, op : OperationName, schema : SchemaName, table : Names,
                    recoverable : BOOLEAN]
<1>1. \A a : StatementOK(a) => RecordOK(a)
  BY DEF StatementOK, StatementRisk, Risk
<1>2. CASE Parse
  <2>1. RecordOK(result')
    BY <1>2 DEF Parse, criticalAnalysis, EmptyAnalysis, safeAnalysis, analysis, Nothing,
                SchemaName, Risk, OperationName, Names
  <2> QED
    BY <1>2, <2>1 DEF Parse, loopVars, TypeOK, Names
<1>3. CASE NextStatement
  <2>1. i' \in 1..Len(batch) /\ i' = i + 1 /\ i \in Nat
    BY <1>3 DEF NextStatement, TypeOK
  <2>2. StatementOK(A(i + 1))
    BY <2>1, BatchOK
  <2>3. result' = A(i + 1) \/ result' = result
    BY <1>3 DEF NextStatement, higherRisk, A
  <2>4. RecordOK(result')
    BY <1>1, <2>2, <2>3 DEF TypeOK, Names
  <2>5. criticalTables' \subseteq Tables
    BY <1>3, <2>2 DEF NextStatement, loopVars, A, StatementOK, TypeOK
  <2>6. criticalUnrecoverable' \in BOOLEAN
    BY <1>3, Zenon DEF NextStatement, loopVars, TypeOK
  <2>7. criticalSchemas' \in [Tables -> SchemaName]
    <3>1. A(i + 1).schema \in SchemaName
      BY <2>2 DEF StatementOK
    <3> QED
      BY <1>3, <3>1 DEF NextStatement, loopVars, A, TypeOK
  <2> QED
    BY <1>3, <2>1, <2>4, <2>5, <2>6, <2>7 DEF NextStatement, TypeOK, Names
<1>4. CASE EndLoop
  <2>1. RecordOK(result')
    <3>1. \A a : \A t \in Tables : RecordOK(a) => RecordOK(Recoverable(a, t, criticalSchemas))
      BY DEF TypeOK, Recoverable, Names
    <3>2. \A a, t : RecordOK(a) /\ t \in Names
                     => RecordOK([a EXCEPT !.table = t, !.recoverable = FALSE])
      OBVIOUS
    <3>3. Single(criticalTables) => (CHOOSE t \in criticalTables : TRUE) \in Tables
      BY DEF Single, TypeOK
    <3>4. RecordOK(result) /\ NoTable \in Names /\ ManyTables \in Names
      BY DEF TypeOK, Names
    <3> HIDE DEF RecordOK
    <3> QED
      BY <1>4, <3>1, <3>2, <3>3, <3>4 DEF EndLoop, SettleTable
  <2> QED
    BY <1>4, <2>1 DEF EndLoop, loopVars, TypeOK, Names
<1>5. CASE AnalyzeImpact
  <2>1. impact' \in BOOLEAN
    BY <1>5, Zenon DEF AnalyzeImpact, analyzeImpact, Estimated
  <2>2. RecordOK(result')
    BY <1>5 DEF AnalyzeImpact, ApplyImpact, TypeOK, Names, Risk
  <2> QED
    BY <1>5, <2>1, <2>2 DEF AnalyzeImpact, loopVars, TypeOK, Names
<1>6. CASE Decide
  BY <1>6 DEF Decide, loopVars, Outcome, Action, TypeOK
<1>7. CASE UNCHANGED vars
  BY <1>7 DEF vars, loopVars, TypeOK
<1> QED
  BY <1>2, <1>3, <1>4, <1>5, <1>6, <1>7 DEF Next, Done

----------------------------------------------------------------------------
(* The loop of analyzeSQL and what follows it.                             *)

(* AnalyzerInv without the types.                                          *)
LoopInv ==
  /\ \A k \in 1..i : Rank(k) <= riskRank(result.risk)
  /\ pc = "parse" => i = 0
  /\ pc = "loop" => \/ i = 0 /\ result = EmptyAnalysis
                    \/ \E j \in 1..i : result = A(j) /\ Leads(j, i)
  /\ criticalTables = {A(k).table : k \in {n \in CriticalIn(i) : A(n).recoverable}}
  /\ \A t \in Tables :
       IF criticalSchemas[t] = NoSchema
       THEN \A k \in Recovered(t, i) : A(k).schema = NoSchema
       ELSE \E k \in Recovered(t, i) : A(k).schema = criticalSchemas[t]
  /\ criticalUnrecoverable <=> \E k \in CriticalIn(i) : ~A(k).recoverable
AfterInv ==
  pc \notin {"parse", "loop"} =>
    /\ i = Len(batch)
    /\ i > 0 => \E j \in 1..i : result.op = A(j).op /\ Leads(j, i)
    /\ i = 1 /\ (A(1).risk = "CRITICAL" => A(1).recoverable) =>
         result.schema = A(1).schema /\ result.table = A(1).table
    /\ result.table \notin {NoTable, ManyTables} =>
         /\ \A k \in CriticalIn(i) : A(k).recoverable /\ A(k).table = result.table
         /\ \A k \in CriticalIn(i) :
              (\A n \in CriticalIn(i) : A(n).schema = A(k).schema)
                => result.schema = A(k).schema
OutcomeInv == outcome # "none" => pc = "done" /\ outcome = Outcome(result)

(* What is said of the batch stays as it is when the batch does.           *)
LEMMA SameBatch ==
  ASSUME batch' = batch
  PROVE  /\ \A k : A(k)' = A(k) /\ Rank(k)' = Rank(k)
         /\ i' = i => CriticalIn(i)' = CriticalIn(i)
         /\ i' = i => \A t : Recovered(t, i)' = Recovered(t, i)
         /\ i' = i => \A j : Leads(j, i)' = Leads(j, i)
<1>1. \A k : A(k)' = A(k)
  BY DEF A
<1>2. \A k : Rank(k)' = Rank(k)
  BY <1>1 DEF Rank
<1>3. i' = i => CriticalIn(i)' = CriticalIn(i)
  BY <1>1 DEF CriticalIn
<1>4. i' = i => \A t : Recovered(t, i)' = Recovered(t, i)
  BY <1>1, <1>3 DEF Recovered
<1>5. i' = i => \A j : Leads(j, i)' = Leads(j, i)
  BY <1>2 DEF Leads
<1> QED
  BY <1>1, <1>2, <1>3, <1>4, <1>5

(* A step that leaves the batch, the loop's bookkeeping and the position   *)
(* alone and has no lower risk keeps the loop invariant, once it is over.  *)
LEMMA FrameKeepsInv ==
  ASSUME LoopInv, UNCHANGED <<batch, i, loopVars>>, pc' \notin {"parse", "loop"},
         \A k \in 1..i : Rank(k) <= riskRank(result'.risk)
  PROVE  LoopInv'
  BY SameBatch DEF LoopInv, loopVars

(* One turn of the loop extends what is known by one statement.            *)
LEMMA TurnKeepsInv ==
  ASSUME TypeOK, LoopInv, AfterInv, OutcomeInv, NextStatement
  PROVE  LoopInv' /\ AfterInv' /\ OutcomeInv'
<1>1. /\ pc = "loop" /\ pc' = "loop" /\ batch' = batch /\ i \in Nat /\ i' = i + 1
      /\ i' \in 1..Len(batch) /\ outcome' = "none"
  BY DEF NextStatement, TypeOK, OutcomeInv
<1> DEFINE s == A(i + 1)
<1>2. \A k : A(k)' = A(k) /\ Rank(k)' = Rank(k)
  BY <1>1, SameBatch
<1>3. 1..i' = (1..i) \cup {i + 1}
  BY <1>1
<1>4. StatementOK(s)
  BY <1>1, BatchOK
<1>5. result' = (IF i = 0 THEN s ELSE higherRisk(result, s))
  BY DEF NextStatement, A
<1>6. \A k \in 1..i' : Rank(k) \in Nat
  <2>1. \A k \in 1..i' : A(k).risk \in Risk
    BY <1>1, BatchOK DEF StatementOK, StatementRisk, Risk
  <2> QED
    BY <2>1 DEF Rank, riskRank, Critical, Risk
<1>7. \E j \in 1..i' : result' = A(j) /\ Leads(j, i')
  <2>1. CASE i = 0
    <3>1. Leads(i + 1, i')
      BY <1>1, <1>3, <2>1 DEF Leads
    <3> QED
      BY <1>3, <1>5, <2>1, <3>1
  <2>2. CASE i # 0
    <3>1. PICK j \in 1..i : result = A(j) /\ Leads(j, i)
      BY <1>1, <2>2 DEF LoopInv
    <3>2. CASE Rank(i + 1) > Rank(j)
      <4>1. Leads(i + 1, i')
        <5>1. ASSUME NEW k \in 1..i PROVE Rank(k) < Rank(i + 1)
          <6>1. Rank(k) \in Nat /\ Rank(j) \in Nat /\ Rank(i + 1) \in Nat
            BY <1>3, <1>6
          <6>2. Rank(k) < Rank(j) \/ Rank(k) = Rank(j)
            BY <3>1 DEF Leads
          <6> QED
            BY <3>2, <6>1, <6>2
        <5>2. i + 1 <= i + 1
          BY <1>1
        <5> QED
          BY <1>3, <5>1, <5>2 DEF Leads
      <4>2. result' = s
        BY <1>5, <2>2, <3>1, <3>2 DEF higherRisk, Rank
      <4> QED
        BY <1>3, <4>1, <4>2
    <3>3. CASE ~(Rank(i + 1) > Rank(j))
      <4>1. Leads(j, i')
        <5>1. Rank(i + 1) \in Nat /\ Rank(j) \in Nat /\ j <= i + 1
          BY <1>1, <1>3, <1>6
        <5>2. Rank(i + 1) < Rank(j) \/ (Rank(i + 1) = Rank(j) /\ j <= i + 1)
          BY <3>3, <5>1
        <5> QED
          BY <1>3, <3>1, <5>2 DEF Leads
      <4>2. result' = A(j)
        BY <1>5, <2>2, <3>1, <3>3 DEF higherRisk, Rank
      <4> QED
        BY <1>3, <4>1, <4>2
    <3> QED
      BY <3>2, <3>3
  <2> QED
    BY <2>1, <2>2
<1>8. /\ \A k \in 1..i' : Rank(k) <= riskRank(result'.risk)
      /\ \A j : Leads(j, i)' = Leads(j, i')
  <2>1. \A k \in 1..i' : Rank(k) <= riskRank(result'.risk)
    BY <1>6, <1>7 DEF Leads, Rank
  <2> QED
    BY <1>2, <2>1 DEF Leads
<1>9. /\ s.recoverable => s.risk = "CRITICAL" /\ s.table \in Tables
      /\ s.recoverable /\ s.risk = "CRITICAL" => s.table # NoTable
  BY <1>4, AnalyzerAssumption DEF StatementOK
<1>10. /\ criticalTables' = IF s.risk = "CRITICAL" /\ s.recoverable
                            THEN criticalTables \cup {s.table} ELSE criticalTables
       /\ criticalSchemas' = IF s.risk = "CRITICAL" /\ s.recoverable /\ s.schema # NoSchema
                             THEN [criticalSchemas EXCEPT ![s.table] = s.schema]
                             ELSE criticalSchemas
       /\ criticalUnrecoverable' <=> criticalUnrecoverable
                                     \/ (s.risk = "CRITICAL" /\ ~s.recoverable)
  BY <1>9 DEF NextStatement, loopVars, A, TypeOK
<1>11. CriticalIn(i)' = IF s.risk = "CRITICAL" THEN CriticalIn(i) \cup {i + 1} ELSE CriticalIn(i)
  BY <1>1, <1>2, <1>3 DEF CriticalIn
<1> HIDE DEF s
<1>12. criticalTables' = {A(k).table : k \in {n \in CriticalIn(i)' : A(n).recoverable}}
  BY <1>10, <1>11 DEF LoopInv, s
<1>13. criticalUnrecoverable' <=> \E k \in CriticalIn(i)' : ~A(k).recoverable
  BY <1>10, <1>11 DEF LoopInv, s
<1>14. ASSUME NEW t \in Tables
       PROVE  IF criticalSchemas'[t] = NoSchema
              THEN \A k \in Recovered(t, i)' : A(k).schema = NoSchema
              ELSE \E k \in Recovered(t, i)' : A(k).schema = criticalSchemas'[t]
  <2>1. Recovered(t, i)' = IF s.risk = "CRITICAL" /\ s.recoverable /\ s.table = t
                           THEN Recovered(t, i) \cup {i + 1} ELSE Recovered(t, i)
    BY <1>2, <1>11 DEF Recovered, s
  <2>2. IF criticalSchemas[t] = NoSchema
        THEN \A k \in Recovered(t, i) : A(k).schema = NoSchema
        ELSE \E k \in Recovered(t, i) : A(k).schema = criticalSchemas[t]
    BY DEF LoopInv
  <2>3. criticalSchemas'[t] = IF /\ s.risk = "CRITICAL" /\ s.recoverable /\ s.table = t
                                 /\ s.schema # NoSchema
                              THEN s.schema ELSE criticalSchemas[t]
    BY <1>10 DEF TypeOK
  <2> QED
    BY <2>1, <2>2, <2>3 DEF s
<1>15. LoopInv'
  BY <1>1, <1>2, <1>7, <1>8, <1>12, <1>13, <1>14 DEF LoopInv
<1> QED
  BY <1>1, <1>15 DEF AfterInv, OutcomeInv

(* When the loop is done, the table that the analysis then names is that   *)
(* of every CRITICAL statement, or it names none or several.               *)
LEMMA EndKeepsInv ==
  ASSUME TypeOK, LoopInv, AfterInv, OutcomeInv, EndLoop
  PROVE  LoopInv' /\ AfterInv' /\ OutcomeInv'
<1>1. /\ pc = "loop" /\ pc' = "impact" /\ i = Len(batch) /\ outcome = "none"
      /\ UNCHANGED <<batch, i, loopVars, outcome>>
  BY DEF EndLoop, OutcomeInv
<1>2. /\ \A k : A(k)' = A(k)
      /\ CriticalIn(i)' = CriticalIn(i)
      /\ \A j : Leads(j, i)' = Leads(j, i)
  BY <1>1, SameBatch
<1>3. result' = SettleTable(result, criticalTables, criticalSchemas, criticalUnrecoverable)
  BY DEF EndLoop
<1>4. /\ result'.risk = result.risk /\ result'.op = result.op
      /\ result.risk # "CRITICAL" => result' = result
  BY <1>3 DEF SettleTable, Recoverable, TypeOK
<1>5. LoopInv'
  BY <1>1, <1>4, FrameKeepsInv DEF LoopInv
<1>6. \A k \in CriticalIn(i) : A(k).recoverable => A(k).table \in criticalTables
  BY DEF LoopInv
<1>7. ASSUME i > 0
      PROVE  \E j \in 1..i : result = A(j) /\ result'.op = A(j).op /\ Leads(j, i)
  BY <1>1, <1>4, <1>7 DEF LoopInv
<1>8. ASSUME NEW k \in CriticalIn(i)
      PROVE  /\ i > 0 /\ result.risk = "CRITICAL"
             /\ \/ Single(criticalTables) /\ ~criticalUnrecoverable
                \/ result'.table \in {NoTable, ManyTables}
  <2>1. k \in 1..i /\ A(k).risk = "CRITICAL" /\ i > 0
    BY <1>1 DEF CriticalIn, TypeOK
  <2>2. riskRank(result.risk) >= 3 /\ result.risk \in Risk
    BY <2>1 DEF riskRank, Critical, LoopInv, Rank, TypeOK, Risk
  <2>3. result.risk \in {"SAFE", "HIGH", "CRITICAL"}
    BY <1>1, <1>7, <2>1, BatchOK DEF StatementOK, StatementRisk
  <2>4. result.risk = "CRITICAL"
    BY <2>2, <2>3 DEF riskRank, Critical
  <2>5. criticalTables # {} \/ criticalUnrecoverable
    BY <1>6, <1>8 DEF LoopInv
  <2>6. \/ Single(criticalTables) /\ ~criticalUnrecoverable
        \/ result'.table \in {NoTable, ManyTables}
    BY <1>3, <2>4, <2>5 DEF SettleTable, TypeOK
  <2> QED
    BY <2>1, <2>4, <2>6
<1>9. ASSUME Single(criticalTables), ~criticalUnrecoverable, NEW k \in CriticalIn(i)
      PROVE  /\ A(k).recoverable /\ A(k).table = result'.table
             /\ (\A n \in CriticalIn(i) : A(n).schema = A(k).schema)
                  => result'.schema = A(k).schema
  <2>1. PICK t \in Tables : criticalTables = {t}
    BY <1>9 DEF Single, TypeOK
  <2>2. (CHOOSE u \in criticalTables : TRUE) = t
    BY <2>1
  <2>3. result'.table = t /\ result'.schema = criticalSchemas[t]
    BY <1>3, <1>8, <1>9, <2>2 DEF SettleTable, Recoverable, TypeOK
  <2>4. \A n \in CriticalIn(i) : A(n).recoverable /\ A(n).table = t
    BY <1>6, <1>9, <2>1 DEF LoopInv
  <2>5. Recovered(t, i) = CriticalIn(i)
    BY <2>4 DEF Recovered
  <2>6. IF criticalSchemas[t] = NoSchema
        THEN \A n \in CriticalIn(i) : A(n).schema = NoSchema
        ELSE \E n \in CriticalIn(i) : A(n).schema = criticalSchemas[t]
    BY <2>5 DEF LoopInv
  <2> QED
    BY <1>9, <2>3, <2>4, <2>6
<1>10. ASSUME i = 1, A(1).risk = "CRITICAL" => A(1).recoverable
       PROVE  result'.schema = A(1).schema /\ result'.table = A(1).table
  <2>1. result = A(1)
    BY <1>7, <1>10
  <2>2. CASE A(1).risk # "CRITICAL"
    BY <1>4, <2>1, <2>2
  <2>3. CASE A(1).risk = "CRITICAL"
    <3>1. CriticalIn(i) = {1}
      BY <1>10, <2>3 DEF CriticalIn
    <3>2. criticalTables = {A(1).table} /\ ~criticalUnrecoverable
      BY <1>10, <2>3, <3>1 DEF LoopInv
    <3>3. Single(criticalTables)
      BY <3>2 DEF Single
    <3> QED
      BY <1>9, <3>1, <3>2, <3>3
  <2> QED
    BY <2>2, <2>3
<1>11. AfterInv'
  <2>1. ASSUME result'.table \notin {NoTable, ManyTables}, NEW k \in CriticalIn(i)
        PROVE  /\ A(k).recoverable /\ A(k).table = result'.table
               /\ (\A n \in CriticalIn(i) : A(n).schema = A(k).schema)
                    => result'.schema = A(k).schema
    BY <1>8, <1>9, <2>1
  <2> QED
    BY <1>1, <1>2, <1>7, <1>10, <2>1 DEF AfterInv
<1> QED
  BY <1>1, <1>5, <1>11 DEF OutcomeInv

(* The impact analysis changes neither the table nor, downwards, the rank. *)
LEMMA ImpactKeepsInv ==
  ASSUME TypeOK, LoopInv, AfterInv, OutcomeInv, AnalyzeImpact
  PROVE  LoopInv' /\ AfterInv' /\ OutcomeInv'
<1>1. /\ pc = "impact" /\ pc' = "decide" /\ outcome = "none"
      /\ UNCHANGED <<batch, i, loopVars, outcome>>
  BY DEF AnalyzeImpact, OutcomeInv
<1>2. /\ \A k : A(k)' = A(k)
      /\ CriticalIn(i)' = CriticalIn(i)
      /\ \A j : Leads(j, i)' = Leads(j, i)
  BY <1>1, SameBatch
<1>3. /\ result'.table = result.table /\ result'.schema = result.schema
      /\ result'.op = result.op
      /\ result'.risk = result.risk \/ result'.risk = "IMPACT_CRITICAL"
  BY DEF AnalyzeImpact, ApplyImpact, TypeOK
<1>4. \A k \in 1..i : Rank(k) <= riskRank(result'.risk)
  <2>1. \A k \in 1..i : A(k).risk \in Risk
    BY BatchOK DEF StatementOK, StatementRisk, Risk, TypeOK, AfterInv
  <2>2. \A r \in Risk : riskRank(r) <= 3
    BY DEF riskRank, Critical, Risk
  <2> QED
    BY <1>3, <2>1, <2>2 DEF riskRank, Critical, Rank, LoopInv
<1>5. LoopInv'
  BY <1>1, <1>4, FrameKeepsInv
<1> QED
  BY <1>1, <1>2, <1>3, <1>5 DEF AfterInv, OutcomeInv

----------------------------------------------------------------------------
(* The theorems.                                                           *)

(* The loop invariant of analyzeSQL, and what it becomes after the loop,   *)
(* hold for batches of any length.                                         *)
THEOREM AnalyzerInvAlways == Spec => []AnalyzerInv
<1>1. Init => AnalyzerInv
  <2> SUFFICES ASSUME Init
               PROVE  AnalyzerInv
    OBVIOUS
  <2>1. TypeOK
    <3>1. impact \in BOOLEAN /\ criticalUnrecoverable \in BOOLEAN
      BY Zenon DEF Init
    <3>2. Len(batch) \in Nat
      BY BatchSeq DEF Init
    <3>3. result \in [risk : Risk, op : OperationName, schema : SchemaName,
                      table : Tables \cup {NoTable, ManyTables}, recoverable : BOOLEAN]
      BY DEF Init, EmptyAnalysis, safeAnalysis, analysis, Nothing, SchemaName, Risk,
             OperationName
    <3>4. criticalSchemas \in [Tables -> SchemaName]
      BY DEF Init, SchemaName
    <3> QED
      BY <3>1, <3>2, <3>3, <3>4 DEF Init, TypeOK
  <2>2. i = 0 /\ criticalTables = {} /\ ~criticalUnrecoverable /\ pc = "parse" /\ outcome = "none"
    BY DEF Init
  <2>3. 1..i = {} /\ CriticalIn(i) = {} /\ \A t : Recovered(t, i) = {}
    BY <2>2 DEF CriticalIn, Recovered
  <2>4. \A t \in Tables : criticalSchemas[t] = NoSchema
    BY DEF Init
  <2> QED
    BY <2>1, <2>2, <2>3, <2>4 DEF AnalyzerInv
<1>2. AnalyzerInv /\ [Next]_vars => AnalyzerInv'
  <2> SUFFICES ASSUME AnalyzerInv, [Next]_vars
               PROVE  AnalyzerInv'
    OBVIOUS
  <2>1. TypeOK /\ LoopInv /\ AfterInv /\ OutcomeInv
    BY Zenon DEF AnalyzerInv, LoopInv, AfterInv, OutcomeInv
  <2>2. TypeOK'
    BY <2>1, TypeStep
  <2>3. SUFFICES LoopInv' /\ AfterInv' /\ OutcomeInv'
    BY <2>2, <2>3, Zenon DEF AnalyzerInv, LoopInv, AfterInv, OutcomeInv
  <2>4. CASE NextStatement
    BY <2>1, <2>4, TurnKeepsInv
  <2>5. CASE EndLoop
    BY <2>1, <2>5, EndKeepsInv
  <2>6. CASE AnalyzeImpact
    BY <2>1, <2>6, ImpactKeepsInv
  <2>7. CASE Parse
    <3>1. /\ pc = "parse" /\ i = 0 /\ outcome = "none"
          /\ pc' = IF parsed = "ok" THEN "loop" ELSE "impact"
          /\ UNCHANGED <<batch, i, loopVars, outcome>>
      BY <2>1, <2>7 DEF Parse, LoopInv, OutcomeInv
    <3>2. 1..i = {} /\ CriticalIn(i) = {}
      BY <3>1 DEF CriticalIn
    <3>3. pc' = "loop" => result' = EmptyAnalysis
      BY <2>7, <3>1 DEF Parse
    <3>4. pc' = "impact" => Len(batch) = 0
      BY <2>1, <3>1 DEF TypeOK
    <3>5. LoopInv'
      BY <2>1, <3>1, <3>2, <3>3, SameBatch DEF LoopInv, loopVars
    <3>6. AfterInv'
      BY <3>1, <3>2, <3>4, SameBatch DEF AfterInv
    <3> QED
      BY <3>1, <3>5, <3>6 DEF OutcomeInv
  <2>8. CASE Decide
    <3>1. /\ pc = "decide" /\ pc' = "done" /\ outcome' = Outcome(result)
          /\ UNCHANGED <<policy, batch, i, loopVars, result>>
      BY <2>8 DEF Decide
    <3>2. Outcome(result)' = Outcome(result)
      BY <3>1 DEF Outcome
    <3>3. LoopInv'
      BY <2>1, <3>1, FrameKeepsInv DEF LoopInv
    <3> QED
      BY <2>1, <3>1, <3>2, <3>3, SameBatch DEF AfterInv, OutcomeInv
  <2>9. CASE UNCHANGED vars
    <3>1. Outcome(result)' = Outcome(result)
      BY <2>9 DEF Outcome, vars
    <3>2. LoopInv'
      BY <2>1, <2>9, SameBatch DEF vars, loopVars, LoopInv
    <3> QED
      BY <2>1, <2>9, <3>1, <3>2, SameBatch DEF vars, AfterInv, OutcomeInv
  <2> QED
    BY <2>4, <2>5, <2>6, <2>7, <2>8, <2>9 DEF Next, Done
<1> QED
  BY <1>1, <1>2, PTL DEF Spec

(* The table whose recovery point is verified is, by name, that of every   *)
(* CRITICAL statement of the batch, however many there are; and the schema *)
(* given with it is theirs if they agree on one.                           *)
THEOREM RecoveryCoversBatchAlways == Spec => []RecoveryCoversBatch
<1>1. AnalyzerInv => RecoveryCoversBatch
  <2> SUFFICES ASSUME AnalyzerInv, outcome = "verify"
               PROVE  RecoveryCoversBatch
    BY DEF RecoveryCoversBatch
  <2>1. TypeOK /\ AfterInv /\ OutcomeInv
    BY Zenon DEF AnalyzerInv, LoopInv, AfterInv, OutcomeInv
  <2>2. pc = "done" /\ HasRecoveryTable(result)
    BY <2>1 DEF OutcomeInv, Outcome, Action
  <2>3. i = Len(batch) /\ result.table \notin {NoTable, ManyTables}
    BY <2>1, <2>2 DEF AfterInv, HasRecoveryTable
  <2> QED
    BY <2>1, <2>2, <2>3 DEF AfterInv, RecoveryCoversBatch
<1> QED
  BY <1>1, AnalyzerInvAlways, PTL

(* No statement hides its risk in a batch of any length, under any policy. *)
THEOREM BatchKeepsRiskAlways == Spec => []BatchKeepsRisk
<1>1. AnalyzerInv => BatchKeepsRisk
  <2> SUFFICES ASSUME AnalyzerInv, outcome # "none"
               PROVE  BatchKeepsRisk
    BY DEF BatchKeepsRisk
  <2>1. TypeOK /\ LoopInv /\ AfterInv /\ OutcomeInv
    BY Zenon DEF AnalyzerInv, LoopInv, AfterInv, OutcomeInv
  <2>2. DOMAIN batch = 1..Len(batch) /\ i = Len(batch) /\ outcome = Outcome(result)
    BY <2>1, BatchSeq DEF TypeOK, AfterInv, OutcomeInv
  <2>3. \A k \in 1..Len(batch) : A(k).risk \in Risk /\ riskRank(A(k).risk) <= riskRank(result.risk)
    BY <2>1, <2>2, BatchOK DEF StatementOK, StatementRisk, Risk, LoopInv, Rank
  <2>4. result.risk \in Risk /\ \A r \in Risk : riskRank(r) \in Nat
    BY <2>1 DEF TypeOK, riskRank, Critical, Risk
  <2>5. ASSUME outcome = "execute", ApprovalUpward, NEW k \in DOMAIN batch
        PROVE  A(k).risk \notin policy.approvalRisks
    <3>1. result.risk \notin policy.approvalRisks
      BY <2>2, <2>5 DEF Outcome, Action
    <3>2. A(k).risk \in Risk /\ riskRank(result.risk) >= riskRank(A(k).risk)
      BY <2>2, <2>3, <2>4, <2>5
    <3> QED
      BY <2>4, <2>5, <3>1, <3>2 DEF ApprovalUpward
  <2>6. ASSUME outcome = "approve", policy.requireRecovery, SnapshotBeforeCritical
        PROVE  CriticalIn(Len(batch)) = {}
    <3>1. result.risk \notin Critical
      BY <2>2, <2>6 DEF Outcome, RequiresRecovery, Action
    <3>2. riskRank(result.risk) < 3
      BY <2>4, <3>1 DEF riskRank, Risk, Critical
    <3>3. riskRank("CRITICAL") = 3
      BY DEF riskRank, Critical
    <3> QED
      BY <2>3, <2>4, <3>2, <3>3 DEF CriticalIn
  <2> QED
    BY <2>5, <2>6 DEF BatchKeepsRisk
<1> QED
  BY <1>1, AnalyzerInvAlways, PTL

(* The impact analysis lets an executed DELETE or UPDATE pass as it was    *)
(* classified only if it is known to be small or the batch passes for      *)
(* another operation, for any thresholds, counts and batches.              *)
THEOREM QuietMeansSmallAlways == Spec => []QuietMeansSmall
<1>1. Init => QuietMeansSmall
  BY DEF Init, QuietMeansSmall
<1>2. AnalyzerInv /\ QuietMeansSmall /\ [Next]_vars => QuietMeansSmall'
  <2> SUFFICES ASSUME AnalyzerInv, QuietMeansSmall, [Next]_vars
               PROVE  QuietMeansSmall'
    OBVIOUS
  <2>1. CASE AnalyzeImpact
    <3> SUFFICES ASSUME ~impact', ImpactPolicy.enabled, ImpactPolicy.unknownAction # "execute",
                        NEW k \in RowWrites
                 PROVE  KnownSmall' \/ Hidden(k)'
      BY <2>1, SameBatch DEF QuietMeansSmall, AnalyzeImpact, RowWrites
    <3>1. TypeOK /\ AfterInv
      BY Zenon DEF AnalyzerInv, AfterInv
    <3>2. /\ DOMAIN batch = 1..Len(batch) /\ i = Len(batch) /\ Len(batch) \in Nat
          /\ k \in DOMAIN batch /\ i > 0 /\ batch' = batch /\ result' = result
      BY <2>1, <3>1, BatchSeq DEF TypeOK, AfterInv, AnalyzeImpact, RowWrites, ApplyImpact
    <3>3. PICK j \in 1..i : result.op = A(j).op /\ Leads(j, i)
      BY <2>1, <3>1, <3>2 DEF AfterInv, AnalyzeImpact
    <3>4. CASE result.op \notin {"DELETE", "UPDATE"}
      <4>1. Hidden(k)
        BY <3>2, <3>3, <3>4 DEF Hidden, Leads
      <4>2. Hidden(k)' = Hidden(k)
        BY <3>2, SameBatch DEF Hidden
      <4> QED
        BY <4>1, <4>2
    <3>5. CASE result.op \in {"DELETE", "UPDATE"}
      <4>1. PICK column \in BOOLEAN, est \in Counts \cup {NoAnswer},
                 total \in Counts \cup {NoAnswer} :
              /\ impact' = analyzeImpact(result, Len(batch), column, est, total)
              /\ seen' = [est |-> est, total |-> total]
        BY <2>1 DEF AnalyzeImpact
      <4>2. unknownImpact
        BY AnalyzerAssumption DEF unknownImpact, ImpactRules
      <4>3. /\ ~Protected(result, column) /\ Len(batch) = 1
            /\ est # NoAnswer /\ total # NoAnswer /\ ~OverThreshold(est, total)
        BY <3>5, <4>1, <4>2 DEF analyzeImpact, Estimated
      <4>4. est \in Nat /\ total \in Nat /\ ImpactPolicy.maxRows \in Nat
            /\ ImpactPolicy.maxPercent \in Nat
        BY <4>3, AnalyzerAssumption DEF ImpactRules
      <4>5. est * 100 \in Nat /\ ImpactPolicy.maxPercent * total \in Nat
        BY <4>4
      <4>6. /\ est <= ImpactPolicy.maxRows
            /\ est * 100 <= ImpactPolicy.maxPercent * total \/ total = 0
            /\ result.table \notin ImpactPolicy.protected
        BY <4>3, <4>4, <4>5 DEF Protected, OverThreshold
      <4>7. [schema |-> result.schema, table |-> result.table] = batch[1].targets[1]
        <5>1. j = 1 /\ A(1).op \in {"DELETE", "UPDATE"}
          BY <3>2, <3>3, <3>5, <4>3
        <5>2. batch \in Batches /\ batch[1] \in Statement /\ 1 \in DOMAIN batch
          <6>1. batch # <<>>
            BY <3>2
          <6>2. batch \in Batches /\ batch \in Seq(Statement)
            BY <3>1, <6>1, AnalyzerAssumption DEF TypeOK
          <6> QED
            BY <3>2, <4>3, <6>2
        <5>3. HasTargets(batch[1])
          BY <5>2, AnalyzerAssumption DEF HasTargets
        <5>4. /\ batch[1].targets[1] = [schema |-> A(1).schema, table |-> A(1).table]
              /\ A(1).risk = "CRITICAL" => A(1).recoverable
          BY <5>1, <5>2, <5>3, RowWriteTarget DEF A
        <5> QED
          BY <2>1, <3>1, <3>2, <4>3, <5>4 DEF AfterInv, AnalyzeImpact
      <4> QED
        BY <3>2, <4>1, <4>3, <4>6, <4>7 DEF KnownSmall
    <3> QED
      BY <3>4, <3>5
  <2>2. CASE Decide \/ UNCHANGED vars
    <3>1. UNCHANGED <<batch, result, seen, impact>> /\ (pc' = pc \/ pc = "decide")
      BY <2>2 DEF Decide, vars
    <3>2. RowWrites' = RowWrites /\ KnownSmall' = KnownSmall
      BY <3>1 DEF RowWrites, KnownSmall
    <3>3. \A k : Hidden(k)' = Hidden(k)
      BY <3>1, SameBatch DEF Hidden
    <3> QED
      BY <3>1, <3>2, <3>3 DEF QuietMeansSmall
  <2>3. CASE Parse \/ NextStatement \/ EndLoop
    BY <2>3 DEF Parse, NextStatement, EndLoop, QuietMeansSmall
  <2> QED
    BY <2>1, <2>2, <2>3 DEF Next, Done
<1> QED
  BY <1>1, <1>2, AnalyzerInvAlways, PTL DEF Spec
=============================================================================
