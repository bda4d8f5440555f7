SPECIFICATION Spec
CONSTANTS
  Calls = {c1}
  Kinds = {"start", "pause", "resume", "stop", "cleanup", "delete", "import", "report", "scan", "shutdown", "stopmarker"}
  Faults = {"bind", "create", "portal", "late", "import"}
  MaxImports = 3
  MaxCrashes = 2
  None = NoValue
INVARIANT AccessAccounted
INVARIANT ReportCoversImports
CHECK_DEADLOCK FALSE
