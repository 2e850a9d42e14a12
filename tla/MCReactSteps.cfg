\* Two steps, batches of two calls, one resume, twelve policies.
SPECIFICATION FairSpec
CONSTANTS
  Policies <- MCPolicies
  MaxTaskSteps = 2
  MaxRepairs = 1
  MaxBatch = 2
  MaxResumes = 1
INVARIANTS LoopKeepsPolicy BudgetsKept 
PROPERTY LoopEnds
