SPECIFICATION PortalSpec
CONSTANTS
  Threads = {t1, t2}
  Processes = {"server"}
  Home <- OneProcess
  MaxEntries = 3
  Faults = {"kill", "write"}
  MaxFaults = 1
  Torn = TornLine
  None = NoValue
  MaximumDownloads = 1
  MaximumFailures = 2
  FailureWindow = 2
  Throttle = 2
  Limit = 2
  LimitWindow = 2
  ExpiresAt = 3
  MaxClock = 3
  MaxRequests = 5
  MaxListeners = 2
CONSTRAINT TimeOrAssessor
ACTION_CONSTRAINT AppendsTogether
VIEW MCView
SYMMETRY AlikeThreads
CHECK_DEADLOCK FALSE
INVARIANT ChainLinked
INVARIANT VerifiedCoversAcked
INVARIANT DownloadsBounded
INVARIANT ThrottlesHold
