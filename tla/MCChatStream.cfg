SPECIFICATION Spec
CONSTANTS
  Tools = {"fetch", "shell"}
  Kind <- MCKind
  Parallel = {"fetch"}
  Gated = {"shell"}
  MaxTurns = 2
  MaxDeltas = 2
  MaxCrashes = 1
INVARIANTS ReplayMatchesLive  AnsweredOnce ChatSettles
CHECK_DEADLOCK FALSE
