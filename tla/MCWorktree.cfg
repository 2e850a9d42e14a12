SPECIFICATION Spec
CONSTANTS
  p1 = p1
  p2 = p2
  e1 = e1
  e2 = e2
  x1 = x1
  Patches = {p1, p2}
  TaskEdits = {e1, e2}
  OutsideEdits = {x1}
  Files = {"a", "b", "c"}
  FilesOf <- MCFilesOf
  Commands <- MCCommands
  Scope = {"a", "b"}
  Targets = {"main", "release"}
  Bindings <- MCBindings
  MergePolicies = {"approval_required"}
  MaxApprovals = 1
  MaxMerges = 1
  MaxCrashes = 1
INVARIANTS MergeAuthorised  RevertAllOrNothing
PROPERTY WritesIsolated
CHECK_DEADLOCK FALSE
