SPECIFICATION Spec
CONSTANTS
  Paths = {1, 2, 3}
  Contents = {"a", "b"}
  Class <- MCClass
  ReadOnly = {"look"}
  Workdir = 0
  Requests <- MCRequests
  Rewritten <- MCRewritten
  Scope = {0, 1, 2}
  Allowlist = {"write_file", "apply_patch", "run_command", "agent", "other"}
  Configs <- MCConfigs
  HookLists <- MCHookLists
  Budget = 2
  MaxCalls = 3
  MaxRetries = 1
  MaxMoves = 1
INVARIANTS  ReportIsTrue
PROPERTY AppliedPatchIsWhole
CHECK_DEADLOCK FALSE
