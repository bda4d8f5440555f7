SPECIFICATION Spec
CONSTANTS
  None = None
  MinimumConfidence = 80
  AmbiguousScoreDifference = 5
  LastDay = 6
  MaximumSignatureAge = 3
  Skew = 1
  MaxSession = 3
  Inputs <- MCInputs
  Platforms <- MCPlatforms
  Architectures <- MCArchitectures
  Editions <- MCEditions
  Versions <- MCVersions
INVARIANTS
  ValidationIsPermitted
  AnswersFollowEvidence
  ReportFollowsEvidence
  ComplianceIsEarned
  ClaimsAreReviewed
  OnlySignedRuns
