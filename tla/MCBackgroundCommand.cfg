CONSTANTS
  c1 = c1
  t1 = t1
  Commands <- MCCommands
  Tasks <- MCTasks
  TaskOf <- MCTaskOf
  MaxChunks = 3
SPECIFICATION BCFairSpec
INVARIANTS
  FinishedProcessGone
  OutputBeforeTerminal
PROPERTIES
  CancelledInTimeIsReported
  CommandFinishes
CHECK_DEADLOCK FALSE
