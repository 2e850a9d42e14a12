\* A task's end: three tool calls, a child, a validation, three approvals.
SPECIFICATION CPSpec
CONSTANTS
  Commands = {"pytest", "nodecheck"}
  NoCmd = "none"
  Keys <- MCKeys
  Targeted = {"pytest", "nodecheck"}
  Paths = {"app.js", "tests/test_app.py"}
  Language <- MCLanguage
  Kind <- MCKind
  NodeChecks = {"nodecheck"}
  Children = {"kid"}
  Configured = "none"
  PyTests = {"pytest"}
  TestFiles = {"tests/test_app.py"}
  TestCommand = "pytest"
  TaskWindow = 2
  Window = 4
  MaxWork = 2
  MaxAsks = 3
INVARIANT CompletedIsSettled
PROPERTIES  LastCheckDecides
