SPECIFICATION Spec
CONSTANTS
  Workers = {w1, w2}
  MaxEndpoints = 3
  Faults = {"begin", "scan", "mark", "completion", "audit"}
  MaxCrashes = 1
  None = NoValue
CHECK_DEADLOCK FALSE
INVARIANT NoEndpointRunning
INVARIANT ResultHonest
PROPERTY JobEnds
