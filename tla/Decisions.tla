----------------------------- MODULE Decisions -----------------------------
(***************************************************************************)
(* The decisions of the analysis over bounded inputs, each made once.      *)
(***************************************************************************)
EXTENDS ValidationDecisions, VulnerabilityDecisions, ComplianceDecisions, TrustBundle, EndpointPosture

Init == input \in Inputs /\ output = None

Next ==
  \/ PlanRequest \/ Assess
  \/ EvaluateCriterion \/ EvaluateConfigurations \/ EvaluateCna \/ Resolve \/ Prioritize
  \/ AssessLifecycle
  \/ AssessCompliance \/ EvaluateFramework
  \/ StartTrusted
  \/ AssessMalware \/ AssessBitLocker \/ AssessMembership \/ ReportSoftware
  \/ Decided

Spec == Init /\ [][Next]_vars

\* What the report says of a vulnerability, of a product's support and of the
\* endpoint's posture follows from the evidence it was given.
ReportFollowsEvidence == TriageFollowsEvidence /\ PostureIsEarned

=============================================================================
