SPECIFICATION Spec
CONSTANTS
  Threads = {t1, t2}
  Subs = {s1, s2}
  Nonces = {n1, n2}
  Sources = {a}
  AllowedSources = {a}
  Limit = 1
  Bodies = {"valid", "untrusted", "malformed"}
  Envelopes = {}
  TrustedRequired = FALSE
  Kinds = {"nonce", "submit", "expiry"}
  MaxInstances = 1
  MaxCrashes = 0
  MaxFailures = 0
  None = NoValue
SYMMETRY Symmetry
CHECK_DEADLOCK FALSE
INVARIANT IndexUnique
INVARIANT CapabilitiesCounted
