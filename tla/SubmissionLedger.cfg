SPECIFICATION FairSpec
CONSTANTS
  Threads = {t1, t2}
  Subs = {s1, s2}
  Nonces = {n1}
  Sources = {a}
  AllowedSources = {a}
  Limit = 2
  Bodies = {"valid", "untrusted"}
  Envelopes = {e1}
  TrustedRequired = TRUE
  Kinds = {"nonce", "submit", "import", "remove", "lapse"}
  MaxInstances = 1
  MaxCrashes = 0
  MaxFailures = 1
  None = NoValue
CHECK_DEADLOCK FALSE
INVARIANT EnvelopePerItem
PROPERTY ImplementsLedger
PROPERTY Progress
