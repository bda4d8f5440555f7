SPECIFICATION CombinedSpec
CONSTANTS
  Clients = {p1, p2}
  MaxRuns = 3
  Attempts = 2
  Retries = 1
  Envelopes = {e1, e2}
  Network = {e1}
  Requests = {r1, r2}
  Challenges = {h1, h2, h3}
  Tickets = {t1}
  Downloads = {d1, d2}
  MaxChallenges = 2
  MaxDownloads = 2
  Lifetime = 2
  ProofTTL = 1
  ChallengeTTL = 1
  TicketTTL = 1
  DownloadTTL = 1
  Events = {"consume"}
  MaxTime = 2
  None = NoValue
CONSTRAINT Halves
SYMMETRY Symmetry
VIEW MCView
INVARIANT EndingIsHonest
INVARIANT WithheldStaysHome
INVARIANT EnvelopeYieldsOne
INVARIANT RetriesWithinBudget
CHECK_DEADLOCK FALSE
