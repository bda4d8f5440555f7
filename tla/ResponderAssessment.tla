------------------------- MODULE ResponderAssessment -------------------------
(***************************************************************************)
(* What the engine concludes from what the validators observed: the three  *)
(* policy readers, the aggregate of the exposure to name-resolution        *)
(* spoofing, the correlation with the passive findings and the counts of   *)
(* the report (active_validation/validators/responder.py, correlation.py,  *)
(* engine.py).  None stands for a value that is not there.                 *)
(***************************************************************************)
EXTENDS Integers, FiniteSets, Decision

Enabled == {"running", "enabled", "automatic"}

\* WpadExposureValidator.interpret; o has the registry flag and the collected
\* settings.
Wpad_interpret(o) ==
  LET disabled == o.flag = 1
      known == {o.flag, o.autoDetect, o.autoConfig, o.winHttp, o.webClient} # {None}
      exposed == o.autoDetect = TRUE \/ o.autoConfig = TRUE \/ o.webClient \in Enabled
  IN  [status |-> CASE ~known -> "INCONCLUSIVE"
                    [] known /\ disabled -> "PASSED"
                    [] known /\ ~disabled /\ (exposed \/ o.flag = 0) -> "FAILED"
                    [] OTHER -> "INCONCLUSIVE",
       known |-> known, disabled |-> disabled]

\* NtlmPolicyValidator.interpret; o gives the effective value of the sources in
\* the order of precedence (MDM, domain, outgoing, incoming, audit), "absent"
\* for a source without a setting.
Ntlm_interpret(o) ==
  LET given == {i \in DOMAIN o : o[i] # "absent"}
      valued == {i \in given : o[i] # None}
      effective == IF valued = {} THEN None
                   ELSE o[earliest(valued)]
      confirmed == given \cap 1..4 # {}
      state == CASE ~confirmed -> "UNKNOWN"
                 [] confirmed /\ effective = "deny" -> "DENIED"
                 [] confirmed /\ effective = "audit" -> "AUDIT_ONLY"
                 [] confirmed /\ effective = "exceptions" -> "RESTRICTED_WITH_EXCEPTIONS"
                 [] OTHER -> "PERMITTED"
  IN  [status |-> IF state = "DENIED" THEN "PASSED" ELSE "INCONCLUSIVE",
       state |-> state, confirmed |-> confirmed]

\* SmbSigningExposureValidator.interpret; a missing value reads as not required.
Smb_interpret(o) ==
  [status |-> CASE None \in {o.client, o.server} -> "INCONCLUSIVE"
                [] {o.client, o.server} = {1} -> "PASSED"
                [] OTHER -> "FAILED",
   client |-> o.client = 1, server |-> o.server = 1]

-----------------------------------------------------------------------------
(* ResponderExposureValidator.execute.  The prior results p: deep, the       *)
(* exposure that the deep validator reported, and confirmation, whether it   *)
(* was observed on the network; legacy, the statuses of the two observers;   *)
(* path; ntlm, smb and wpad, evidence or None; config, what the collected    *)
(* settings say.                                                             *)

Assessment(status, risk, active, confidence) ==
  [status |-> status, risk |-> risk, active |-> active, confidence |-> confidence]

legacy_observed(p) == "FAILED" \in {p.legacy[i] : i \in DOMAIN p.legacy}
legacy_not_observed(p) == {p.legacy[i] : i \in DOMAIN p.legacy} = {"PASSED"}
auth_permitted(p) == p.ntlm # None /\ p.ntlm.confirmed /\ p.ntlm.state = "PERMITTED"
auth_denied(p) == p.ntlm # None /\ p.ntlm.confirmed /\ p.ntlm.state = "DENIED"
signing_known(p) == p.smb # None
outbound_relay_mitigated(p) == p.smb # None /\ p.smb.client

\* Fault: an observation of a test double counts like one of the network.
from_deep_unconfirmed(p) ==
  CASE p.deep = "EXPOSURE_CONFIRMED" ->
         Assessment("EXPOSURE_CONFIRMED", "HIGH", "FAILED", 98)
    [] OTHER -> Assessment("INCONCLUSIVE", "UNKNOWN", "INCONCLUSIVE", 35)

from_deep(p) ==
  CASE p.deep = "EXPOSURE_CONFIRMED" /\ p.confirmation ->
         Assessment("EXPOSURE_CONFIRMED", IF outbound_relay_mitigated(p) THEN "MEDIUM" ELSE "HIGH",
                    "FAILED", 98)
    [] p.deep = "EXPOSURE_CONFIRMED" /\ ~p.confirmation ->
         Assessment("EXPOSURE_LIKELY", "MEDIUM", "INCONCLUSIVE", 78)
    [] p.deep = "EXPOSURE_LIKELY" -> Assessment("EXPOSURE_LIKELY", "MEDIUM", "FAILED", 80)
    [] p.deep = "EXPOSURE_PARTIALLY_MITIGATED" ->
         Assessment("EXPOSURE_PARTIALLY_MITIGATED", "LOW", "INCONCLUSIVE", 88)
    [] p.deep = "EXPOSURE_NOT_OBSERVED" ->
         Assessment("EXPOSURE_NOT_OBSERVED", "LOW", "PASSED", 92)

from_policies(p) ==
  LET observed == legacy_observed(p)
      unmitigated == signing_known(p) /\ ~outbound_relay_mitigated(p)
      guarded == auth_denied(p) /\ outbound_relay_mitigated(p)
  IN  CASE observed /\ auth_permitted(p) /\ p.path = TRUE /\ unmitigated ->
             Assessment("EXPOSURE_CONFIRMED", "HIGH", "FAILED", 95)
        [] observed /\ auth_permitted(p) /\ ~(p.path = TRUE /\ unmitigated) ->
             Assessment("EXPOSURE_CONFIRMED", "MEDIUM", "FAILED", 85)
        [] ~observed /\ p.config /\ auth_permitted(p) /\ unmitigated ->
             Assessment("EXPOSURE_LIKELY", "MEDIUM", "FAILED", 70)
        [] observed /\ guarded -> Assessment("EXPOSURE_PARTIALLY_MITIGATED", "LOW", "INCONCLUSIVE", 80)
        [] legacy_not_observed(p) /\ guarded -> Assessment("EXPOSURE_NOT_OBSERVED", "LOW", "PASSED", 90)
        [] OTHER -> Assessment("INCONCLUSIVE", "UNKNOWN", "INCONCLUSIVE", 35)

aggregate(p) == IF p.deep \in {None, "INCONCLUSIVE"} THEN from_policies(p) ELSE from_deep(p)

missing_evidence(p) ==
  {e \in {"ntlm", "smb", "path", "wpad"} :
     CASE e = "ntlm" -> p.ntlm = None \/ ~p.ntlm.confirmed
       [] e = "smb" -> ~signing_known(p)
       [] e = "path" -> p.path = None
       [] e = "wpad" -> p.wpad = None \/ ~p.wpad.known}

attack_paths(p) ==
  (IF legacy_observed(p) \/ p.config THEN {"LEGACY_NAME_RESOLUTION"} ELSE {})
    \cup (IF p.deep # None THEN {"RESPONDER_NAME_RESOLUTION", "RELAY_REMOTE", "RELAY_LOCAL"} ELSE {})
    \cup (IF p.wpad # None /\ p.wpad.known /\ ~p.wpad.disabled THEN {"WPAD"} ELSE {})

-----------------------------------------------------------------------------

Verdicts == {"PASSED", "FAILED"}

\* correlate; passive is None without a finding for the rule.
correlate(passive, active) ==
  LET bad == passive \in {"FAIL", "WARNING"} IN
  CASE passive = "PASS" /\ active = "PASSED" -> "CONFIRMED_PASS"
    [] bad /\ active = "FAILED" -> "CONFIRMED_FAIL"
    [] (passive = "PASS" /\ active = "FAILED") \/ (bad /\ active = "PASSED") ->
         "CONFIGURATION_RUNTIME_MISMATCH"
    [] passive = None /\ active = "PASSED" -> "ACTIVE_ONLY_PASS"
    [] passive = None /\ active = "FAILED" -> "ACTIVE_ONLY_FAIL"
    [] passive = "PASS" /\ active \notin Verdicts -> "PASS_NOT_VALIDATED"
    [] bad /\ active \notin Verdicts -> "FAIL_NOT_VALIDATED"
    [] ~bad /\ passive # "PASS" /\ active \in {"INCONCLUSIVE", "ERROR", "TIMED_OUT"} -> "INCONCLUSIVE"
    [] OTHER -> "NOT_EVALUATED"

=============================================================================
