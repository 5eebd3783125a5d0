SPECIFICATION Spec
CONSTANTS
  Tables <- MCTables
  Schemas <- MCSchemas
  Batches <- MCBatches
  Policies <- MCPolicies
  ImpactPolicy <- MCImpact
  SnapshotBeforeCritical = TRUE
  Counts <- MCCounts
INVARIANTS AnalyzerInv RecoveryCoversBatch BatchKeepsRisk QuietMeansSmall
