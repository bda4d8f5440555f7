------------------------- MODULE ValidationDecisions -------------------------
(***************************************************************************)
(* The decisions of the validation engine: which validators a request runs *)
(* and in which order, and what a set of observations amounts to.          *)
(***************************************************************************)
EXTENDS ValidationPlan, ResponderAssessment, SequencesExt

\* execute_active_validation up to the first worker
PlanRequest ==
  Decide("plan", [order |-> planned(input), run |-> executed(input), harness |-> starts_harness(input)])

\* What the aggregate validator is given: the results of the readers.
prior_results(o) ==
  [deep |-> o.deep, confirmation |-> o.confirmation, legacy |-> o.legacy, path |-> o.path,
   config |-> o.config,
   ntlm |-> IF o.ntlm = None THEN None ELSE Ntlm_interpret(o.ntlm),
   smb |-> IF o.smb = None THEN None ELSE Smb_interpret(o.smb),
   wpad |-> IF o.wpad = None THEN None ELSE Wpad_interpret(o.wpad)]

\* The readers, the aggregate and the correlation with a passive finding.
Assess ==
  Decide("assess",
    LET p == prior_results(input)
        a == aggregate(p)
    IN  [assessment |-> a, missing |-> missing_evidence(p), paths |-> attack_paths(p),
         rule |-> correlate(input.passive, a.active)])

-----------------------------------------------------------------------------

\* What may be asked for: with any registry that is accepted when it is loaded,
\* in which the deep validator is the one of the package.
ASSUME RequestsAssumption ==
  \A q \in Inputs : q.kind = "plan" =>
    /\ IsFiniteSet(DOMAIN q.registry) /\ _validate_definition(q.registry)
    /\ \A v \in DOMAIN q.registry : q.registry[v].risk \in Risks
    /\ "DEEP" \in DOMAIN q.registry =>
         /\ q.registry["DEEP"].risk = ResponderDeepValidator.risk
         /\ q.registry["DEEP"].impact = ResponderDeepValidator.impact
         /\ q.registry["DEEP"].privilege = ResponderDeepValidator.privilege

\* What may have been observed: by two observers, and by the deep validator.
ASSUME ObservationsAssumption ==
  \A o \in Inputs : o.kind = "assess" =>
    /\ DOMAIN o.legacy = {1, 2} /\ o.ntlm \in [1..5 -> {"absent", None, "allow", "deny", "audit", "exceptions"}]
    /\ o.deep \in {None, "INCONCLUSIVE", "EXPOSURE_CONFIRMED", "EXPOSURE_LIKELY",
                   "EXPOSURE_PARTIALLY_MITIGATED", "EXPOSURE_NOT_OBSERVED"}

-----------------------------------------------------------------------------

\* Every validator that runs, those that came in as dependencies included, is
\* reviewed, named by the authorization for this device, allowed by the policy
\* and by the profile; nothing prohibited runs.
RunIsPermitted ==
  DecidedOf("plan") => \A v \in output.run :
    /\ input.registry[v].status = "ACTIVE" /\ input.registry[v].risk \in input.policy.risks
    /\ "enabled" \in input.policy.allows
    /\ v \in input.authorization.validators /\ input.device \in input.authorization.devices
    /\ input.profile # None => input.registry[v].risk \in PROFILE_RISKS[input.profile]

\* The harness listens and changes the firewall only with the consent of all
\* who have to give it: the profile, the policy, the permissions of the
\* authorization and its network scope; and only where it was told to.
HarnessIsPermitted ==
  (DecidedOf("plan") /\ output.harness) =>
    /\ input.profile = "deep"
    /\ {"allowNetworkListeners", "allowTemporarySystemChanges", "allowTemporaryFirewallChanges",
        "allowDeepResponderValidation"} \subseteq input.policy.allows
    /\ {"temporaryListener", "temporaryFirewallChange", "authenticationChallenge",
        "nameResolutionSpoofing"} \subseteq input.authorization.permissions
    /\ input.live.listener \in input.authorization.sources
    /\ input.live.target \in input.authorization.targets \ {input.live.listener}
    /\ input.authorization.identity # None /\ "LOCAL_ADMIN" \in input.privileges

\* A validator is planned after the ones whose results it reads, which run as
\* well (the worker may only turn down the deep one), and a cycle among the
\* planned validators is never run.
DependenciesFirst ==
  DecidedOf("plan") =>
    \A i \in DOMAIN output.order : \A d \in input.registry[output.order[i]].depends :
      /\ \E j \in 1..(i - 1) : output.order[j] = d
      /\ d # "DEEP" => d \in output.run

\* A source that binds the authentication (not the audit policy) has a setting, and
\* the first value that any source gives is in the given set, None if there is no value.
PolicySays(sources, values) ==
  /\ \E i \in 1..4 : sources[i] # "absent"
  /\ \/ \E i \in DOMAIN sources : /\ sources[i] \in values \ {None}
                                /\ \A j \in 1..(i - 1) : sources[j] \in {"absent", None}
     \/ None \in values /\ \A i \in DOMAIN sources : sources[i] \in {"absent", None}

\* An exposure is confirmed only by an observation on the network, or by an
\* observed query while a setting of the authentication policy is there that does
\* not restrict it.  A setting without a value counts as none that restricts, as in
\* NtlmPolicyValidator, although docs/responder-exposure-validation.md says that an
\* unknown effective policy is inconclusive.  The exposure is denied only by the deep
\* observation, or by a policy that denies the authentication and requires the client
\* to sign; and the rule's status follows (ResponderExposureValidator.execute, correlate).
ConclusionIsGrounded ==
  DecidedOf("assess") =>
    LET a == output.assessment IN
    /\ a.status = "EXPOSURE_CONFIRMED" =>
         \/ input.deep = "EXPOSURE_CONFIRMED" /\ input.confirmation
         \/ "FAILED" \in {input.legacy[1], input.legacy[2]} /\ PolicySays(input.ntlm, {"allow", None})
    /\ a.active = "PASSED" =>
         \/ input.deep = "EXPOSURE_NOT_OBSERVED"
         \/ PolicySays(input.ntlm, {"deny"}) /\ input.smb.client = 1
    /\ output.rule = "CONFIRMED_PASS" => input.passive = "PASS" /\ a.status = "EXPOSURE_NOT_OBSERVED"

\* A validation run does what everyone concerned allowed, in the order its
\* evidence needs, and concludes no more than it saw.
ValidationIsPermitted ==
  RunIsPermitted /\ HarnessIsPermitted /\ DependenciesFirst /\ ConclusionIsGrounded

=============================================================================
