SPECIFICATION Spec
CONSTANTS
  Calls = {c1, c2, c3}
  Kinds = {"start", "pause", "resume", "stop", "delete", "import", "report", "scan", "shutdown"}
  Faults = {"bind", "create", "remove", "late"}
  MaxImports = 2
  MaxCrashes = 1
  None = NoValue
SYMMETRY Symmetry
CHECK_DEADLOCK FALSE
INVARIANT AccessClosed
