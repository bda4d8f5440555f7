SPECIFICATION Spec
CONSTANTS
  Envelopes = {e1, e2}
  Network = {e1}
  Requests = {r1, r2}
  Challenges = {c1, c2}
  Tickets = {t1, t2}
  Downloads = {d1, d2}
  MaxChallenges = 2
  MaxDownloads = 1
  Lifetime = 3
  ProofTTL = 1
  ChallengeTTL = 2
  TicketTTL = 1
  DownloadTTL = 2
  Events = {"failure", "reconcile", "consume", "close", "revoke", "remove", "stale"}
  MaxTime = 3
  None = NoValue
SYMMETRY Symmetry
CONSTRAINT Halves
INVARIANT OneTicket
INVARIANT ServedInWindow
INVARIANT RevocationBounded
PROPERTY GrantsFinal
CHECK_DEADLOCK FALSE
