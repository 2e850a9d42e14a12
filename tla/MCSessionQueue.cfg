CONSTANTS
  m1 = m1
  m2 = m2
  m3 = m3
  w1 = w1
  w2 = w2
  Rpc = Rpc
  NoTask = NoTask
  Tasks <- MCTasks
  Threads <- MCThreads
SPECIFICATION SQSpec
SYMMETRY MCSymmetry
INVARIANTS
  SQTypeOK
  QueueInOrder
PROPERTIES
  HandsOver
