SPECIFICATION Spec
CONSTANTS
  None = None
  MaxRuns = 1
  MaxConnections = 3
  MaxRequests = 3
  PlanLength = 2
  DeepAt = 1
  Faults = {"input", "write", "add", "bind", "remove", "kill", "output", "evidence", "rmtree", "crash"}
INVARIANTS
  RulesRecorded
  LeftIsReported
  ConfirmedIsWitnessed
PROPERTIES
  RunEnds
