SPECIFICATION Spec
CONSTANTS
  Threads = {t1}
  Subs = {s1}
  Nonces = {n1, n2}
  Sources = {a}
  AllowedSources = {a}
  Limit = 2
  Bodies = {"valid", "untrusted", "malformed", "unreadable", "oversized"}
  Envelopes = {}
  TrustedRequired = FALSE
  Kinds = {"nonce", "submit", "import", "status", "remove"}
  MaxInstances = 2
  MaxCrashes = 2
  MaxFailures = 1
  None = NoValue
SYMMETRY Symmetry
CHECK_DEADLOCK FALSE
INVARIANT ReceiptBacked
INVARIANT AcceptedIsValidated
