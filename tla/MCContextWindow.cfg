SPECIFICATION CWSpec
CONSTANTS
  RecentTurns = 2
  PreflightTail = 4
  RecoveryTail = 3
  TrimmedSize = 3
  TruncatedSize = 2
  Tier1 = 5
  Tier2 = 9
  Modes = {"full", "minimal"}
  Texts <- MCTexts
  SchemaTokens = 1
  MaxContext = 8
  Limit = 11
  Near = 10
  ResultSizes = {1, 4}
  SummarySizes = {1}
  MaxSteps = 3
  MaxBatch = 3
INVARIANTS BudgetRespected RequestPaired FreshResultsSent
CHECK_DEADLOCK FALSE
