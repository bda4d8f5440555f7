--------------------------- MODULE Prioritization ---------------------------
(***************************************************************************)
(* What is made of a CVE once the sources have spoken: the conflicts       *)
(* between them and whom to trust (cve/enrichment_service.py), the         *)
(* priority (cve/prioritization.py), and the support status of the         *)
(* product (software/lifecycle.py).  Dates are days, a CVSS score is in    *)
(* tenths.                                                                 *)
(***************************************************************************)
EXTENDS Applicability, FiniteSets

\* _exploitation_status: what the KEV feed says, when there is an answer of it.
_exploitation_status(a) ==
  CASE ~a.kev_answered -> "UNKNOWN" [] a.kev -> "KNOWN_EXPLOITED" [] OTHER -> "NO_KEV_EVIDENCE"

\* _detect_conflicts; each of them asks for a manual review.
_detect_conflicts(a) ==
  (IF <<a.nvd, a.cna>> \in {<<AFFECTED, NOT_AFFECTED>>, <<NOT_AFFECTED, AFFECTED>>}
   THEN {"AFFECTED_VERSION_DISAGREEMENT"} ELSE {})
    \cup (IF a.adp_kev /\ _exploitation_status(a) # "KNOWN_EXPLOITED" THEN {"OTHER"} ELSE {})

\* _resolve_applicability_trust
_resolve_applicability_trust(a) ==
  CASE "AFFECTED_VERSION_DISAGREEMENT" \in _detect_conflicts(a) -> "SOURCE_CONFLICT"
    [] a.nvd = AFFECTED /\ a.advisory       -> "AUTHORITATIVE_CONFIRMED"
    [] a.nvd = AFFECTED /\ a.cna = AFFECTED -> "CORROBORATED"
    [] a.nvd = AFFECTED                     -> "NVD_CONFIRMED"
    [] OTHER                                -> a.nvd

\* Fault: any conflict blocks the priority.
_requires_manual_review_always(a) == _detect_conflicts(a) # {}

\* _requires_manual_review
_requires_manual_review(a) ==
  "AFFECTED_VERSION_DISAGREEMENT" \in _detect_conflicts(a) /\ a.nvd # AFFECTED

Weight(condition, weight) == IF condition THEN weight ELSE 0

\* The score of calculate_priority, with its default weights.
score(a) ==
  LET sum == Weight(_exploitation_status(a) = "KNOWN_EXPLOITED", 50) + Weight(a.ransomware, 15)
             + Weight(a.nvd = AFFECTED, 20) + Weight(a.nvd = "POSSIBLY_AFFECTED", 10)
             + (CASE a.cvss >= 90 -> 15 [] a.cvss >= 70 -> 10 [] a.cvss >= 40 -> 5 [] OTHER -> 0)
             + Weight(a.cna = AFFECTED, 10) + Weight(a.ssvc = "ACTIVE", 5)
             - Weight(_detect_conflicts(a) # {}, 20)
  IN  IF sum < 0 THEN 0 ELSE sum

\* The level of calculate_priority.
calculate_priority(a) ==
  IF _requires_manual_review(a) THEN "MANUAL_REVIEW"
  ELSE IF score(a) >= 70 THEN "P1_IMMEDIATE"
  ELSE IF score(a) >= 50 THEN "P2_URGENT"
  ELSE IF score(a) >= 25 THEN "P3_PLANNED"
  ELSE "P4_MONITOR"

-----------------------------------------------------------------------------
\* Lifecycle.  An entry of the pack is about a major version or about any.

\* Fault: a branch is supported from its date on.
_assess_policy_reversed(version, entry, today) ==
  LET branches == {i \in DOMAIN entry.lts : entry.lts[i].minimum[1] = version[1]}
      first == entry.lts[earliest(branches)]
  IN  IF entry.refresh_after # None /\ today > entry.refresh_after THEN NOT_EVALUATED
      ELSE IF \/ version[1] \in entry.majors
              \/ branches # {} /\ ~Before(version, first.minimum) /\ first.until <= today
           THEN "SUPPORTED"
      ELSE "OUT_OF_SUPPORT"

\* _assess_policy: the latest majors and the long-term branches, as long as the
\* pack is current.  Only the first branch of the major counts.
_assess_policy(version, entry, today) ==
  LET branches == {i \in DOMAIN entry.lts : entry.lts[i].minimum[1] = version[1]}
      first == entry.lts[earliest(branches)]
  IN  IF entry.refresh_after # None /\ today > entry.refresh_after THEN NOT_EVALUATED
      ELSE IF \/ version[1] \in entry.majors
              \/ branches # {} /\ ~Before(version, first.minimum) /\ today <= first.until
           THEN "SUPPORTED"
      ELSE "OUT_OF_SUPPORT"

\* LifecycleRepository.assess, for an entry that gives a date.
_assess_date(entry, today, nearing_days) ==
  IF ~entry.evaluated THEN NOT_EVALUATED
  ELSE IF entry.ends = None THEN "SUPPORTED"
  ELSE IF today > entry.ends THEN "OUT_OF_SUPPORT"
  ELSE IF today + nearing_days >= entry.ends THEN "NEARING_END_OF_SUPPORT"
  ELSE "SUPPORTED"

\* LifecycleRepository.assess
assess(version, entries, today, nearing_days) ==
  LET versioned == {n \in DOMAIN entries :
                      entries[n].major = None \/ (version # <<>> /\ entries[n].major = version[1])}
      entry == entries[earliest(versioned)]
  IN  IF entries = <<>> THEN NOT_EVALUATED
      ELSE IF version = <<>> THEN "UNKNOWN_VERSION"
      ELSE IF versioned = {} THEN NOT_EVALUATED
      ELSE IF entry.policy THEN _assess_policy(version, entry, today)
      ELSE _assess_date(entry, today, nearing_days)

=============================================================================
