CONSTANTS
  e1 = e1
  e2 = e2
  e3 = e3
  o1 = o1
  u1 = u1
  Events <- MCEvents
  Home <- MCHome
  Direct <- MCDirect
  Mirrored <- MCMirrored
  QueueMax = 1
  PageMax = 1
SPECIFICATION Spec
SYMMETRY MCSymmetry
INVARIANTS
  ReplayOnce
  NoneSkipped
CHECK_DEADLOCK FALSE
