--------------------------- MODULE ValidationPlan ---------------------------
(***************************************************************************)
(* Which validators a run of the validation engine may execute, and in     *)
(* which order: the registry, the policy, the authorization, the planner   *)
(* and the last check in the worker (active_validation/registry.py,        *)
(* policy.py, authorization.py, planner.py, engine.py and validators/).    *)
(* Documents are records of what the checks read; names stand for the      *)
(* identifiers, and text that is only carried along is left out.           *)
(***************************************************************************)
EXTENDS Integers, FiniteSets, Decision, SequencesExt

(* The registry *)

Risks == {"SAFE_READ_ONLY", "LOW_IMPACT", "CONTROLLED_TEMPORARY_CHANGE", "RESTRICTED", "PROHIBITED"}

ValidatorDefinition(status, risk, impact, privilege, timeout, order, depends, rules) ==
  [status |-> status, risk |-> risk, impact |-> impact, privilege |-> privilege,
   timeout |-> timeout, order |-> order, depends |-> depends, rules |-> rules]

Reader(timeout, order, rule) ==
  ValidatorDefinition("ACTIVE", "SAFE_READ_ONLY", "NONE", "STANDARD_USER", timeout, order, {}, {rule})

DefenderRuntimeValidator == Reader(15, 100, "DEF")
NtlmPolicyValidator == Reader(10, 100, "PROTO-006")
SmbSigningExposureValidator == Reader(10, 200, "PROTO-002")
WpadExposureValidator == Reader(10, 300, "PROTO-003")
PowerShellScriptBlockLoggingValidator ==
  ValidatorDefinition("ACTIVE", "LOW_IMPACT", "NONE", "STANDARD_USER", 20, 100, {}, {"PS-002"})
ResponderDeepValidator ==
  ValidatorDefinition("ACTIVE", "CONTROLLED_TEMPORARY_CHANGE", "SCOPED_LISTENER", "LOCAL_ADMIN",
                      30, 800, {}, {"PROTO-002", "PROTO-003", "PROTO-006"})
ResponderExposureValidator ==
  ValidatorDefinition("ACTIVE", "SAFE_READ_ONLY", "NONE", "STANDARD_USER", 5, 1000,
                      {"NTLM", "SMB", "WPAD"}, {"PROTO-002", "PROTO-003", "PROTO-006"})
OutboundSmbPathValidator ==
  ValidatorDefinition("REVIEW_REQUIRED", "LOW_IMPACT", "OUTBOUND", "STANDARD_USER", 10, 100, {},
                      {"PROTO-002"})
FirewallLoopbackValidator ==
  ValidatorDefinition("REVIEW_REQUIRED", "CONTROLLED_TEMPORARY_CHANGE", "LOOPBACK_LISTENER",
                      "LOCAL_ADMIN", 30, 100, {}, {"FW-005"})

\* The identifiers in their alphabetical order, which breaks ties.
Identifiers == <<"DEFENDER", "NTLM", "PATH", "SCRIPTBLOCK", "DEEP", "EXPOSURE", "SMB", "FIREWALL",
                 "WPAD">>

Registry ==
  [v \in ToSet(Identifiers) |->
     CASE v = "DEFENDER" -> DefenderRuntimeValidator
       [] v = "NTLM" -> NtlmPolicyValidator
       [] v = "PATH" -> OutboundSmbPathValidator
       [] v = "SCRIPTBLOCK" -> PowerShellScriptBlockLoggingValidator
       [] v = "DEEP" -> ResponderDeepValidator
       [] v = "EXPOSURE" -> ResponderExposureValidator
       [] v = "SMB" -> SmbSigningExposureValidator
       [] v = "FIREWALL" -> FirewallLoopbackValidator
       [] v = "WPAD" -> WpadExposureValidator]

\* The last place in the order of execution.
LastOrder == 10000

\* ValidatorRegistry: what is refused when the registry is loaded.
_validate_definition(registry) ==
  \A v \in DOMAIN registry :
    /\ registry[v].timeout >= 1
    /\ registry[v].order \in 0..LastOrder
    /\ v \notin registry[v].depends
    /\ ~(registry[v].risk = "PROHIBITED" /\ registry[v].status = "ACTIVE")

get_active(registry) == {v \in DOMAIN registry : registry[v].status = "ACTIVE"}

-----------------------------------------------------------------------------
(* The policy and the authorization *)

Prohibited == {"allowRealCredentialObservation", "allowCredentialMaterialRetention",
               "allowCredentialRelay", "allowHashCracking", "allowExternalTargets"}
DeepPermits == {"allowDeepResponderValidation", "allowNameResolutionResponses",
                "allowAuthenticationChallenges", "allowTemporaryNetworkListeners",
                "allowTemporaryFirewallChanges", "allowSyntheticCredentialFlow"}

\* The documents that _parse_policy accepts; allows is the set of the flags
\* that are on.
_parse_policy(p) ==
  /\ p.allows \cap (Prohibited \cup {"retainRawEventData"}) = {}
  /\ p.risks \cap {"RESTRICTED", "PROHIBITED"} = {}
  /\ "allowOutboundNetworkTests" \in p.allows => p.cidrs # {}
  /\ p.maximumValidators \in 1..100 /\ p.maximumDuration \in 1..3600 /\ p.timeout \in 1..300

\* The documents that load_authorization accepts at a time.
load_authorization(a, now) ==
  /\ a.authorized
  /\ a.devices # {} /\ a.validators # {}
  /\ a.protocols \subseteq {"LLMNR", "NBT_NS", "SMB", "HTTP"}
  /\ a.permissions \cap {"credentialMaterialRetention", "credentialRelay", "hashCracking"} = {}
  /\ a.identity = "EXPLICIT_CURRENT_USER_TEST" => "explicitCurrentUserTest" \in a.permissions
  /\ a.identity = "MACHINE_ACCOUNT_OBSERVATION" => "machineAccountObservation" \in a.permissions
  /\ a.from <= now /\ now < a.until

require_scope(a, device, validators) == device \in a.devices /\ validators \subseteq a.validators

validate_validator_safety(d, p) ==
  /\ "enabled" \in p.allows
  /\ d.risk \notin {"RESTRICTED", "PROHIBITED"} /\ d.risk \in p.risks
  /\ d.risk = "CONTROLLED_TEMPORARY_CHANGE" => "allowTemporarySystemChanges" \in p.allows
  /\ d.impact \in {"LOOPBACK_LISTENER", "SCOPED_LISTENER"} => "allowNetworkListeners" \in p.allows
  /\ d.impact = "LOOPBACK_LISTENER" => "allowLoopbackNetworkTests" \in p.allows
  /\ d.impact = "OUTBOUND" => "allowOutboundNetworkTests" \in p.allows

-----------------------------------------------------------------------------
(* The planner.  A request q has the fields requested, profile, registry,   *)
(* policy, authorization, device, platform, privileges and rules (the rules *)
(* of the passive findings, or None).                                       *)

PROFILE_RISKS ==
  [safe_read_only |-> {"SAFE_READ_ONLY"},
   safe_local |-> {"SAFE_READ_ONLY", "LOW_IMPACT"},
   controlled |-> {"SAFE_READ_ONLY", "LOW_IMPACT", "CONTROLLED_TEMPORARY_CHANGE"},
   deep |-> {"SAFE_READ_ONLY", "LOW_IMPACT", "CONTROLLED_TEMPORARY_CHANGE"}]

risk_fits(q, v) == q.profile = None \/ q.registry[v].risk \in PROFILE_RISKS[q.profile]

_resolve_selection(q) ==
  CASE q.profile = None \/ q.requested # {} -> q.requested
    [] q.profile = "deep" /\ q.requested = {} -> {"DEEP", "EXPOSURE"}
    [] OTHER -> {v \in get_active(q.registry) \ {"DEEP"} : risk_fits(q, v)}

selection_allowed(q) ==
  LET selected == _resolve_selection(q) IN
  /\ selected # {}
  /\ \A v \in selected \cap DOMAIN q.registry : risk_fits(q, v)
  /\ "DEEP" \in selected => q.profile = "deep"

\* The work list: each round resolves the dependencies of all that was resolved,
\* and no round after the last one finds more.
Rounds(registry) == Cardinality(DOMAIN registry) + 2
one_more_round(registry, R) == R \cup UNION {registry[v].depends : v \in R \cap DOMAIN registry}
resolved(registry, S) ==
  LET f[n \in 1..Rounds(registry)] == IF n = 1 THEN S ELSE one_more_round(registry, f[n - 1])
  IN  f
with_dependencies(registry, S) == resolved(registry, S)[Rounds(registry)]

_resolve_dependencies(q) ==
  LET selected == _resolve_selection(q) IN
  with_dependencies(q.registry, selected \cup IF "DEEP" \in selected THEN {"EXPOSURE"} ELSE {})

\* Optional dependencies only have to be registered, which they are.
dependencies_allowed(q) ==
  \A v \in _resolve_dependencies(q) \cap DOMAIN q.registry :
    \A d \in q.registry[v].depends : d \in get_active(q.registry) /\ risk_fits(q, d)

_execution_key(registry, v) ==
  <<IF v \in DOMAIN registry THEN registry[v].order ELSE LastOrder,
    IF v \in ToSet(Identifiers) THEN CHOOSE i \in DOMAIN Identifiers : Identifiers[i] = v ELSE 0>>

before(k, l) == k[1] < l[1] \/ (k[1] = l[1] /\ k[2] < l[2])

\* The first of a set in the order of the keys.
first(registry, S) ==
  CHOOSE v \in S : \A w \in S : ~before(_execution_key(registry, w), _execution_key(registry, v))

\* The dependencies that a validator has to wait for.
waits_for(registry, selected, done, v) == (registry[v].depends \cap selected) \ done

\* Depth first: from the first validator that is left down to the first dependency
\* it waits for, and so on.  A descent that has not ended after as many steps as
\* there are validators has met one of them twice.
step_down(registry, selected, done, v) ==
  LET open == waits_for(registry, selected, done, v)
  IN  IF open = {} THEN v ELSE first(registry, open)
descent(registry, selected, done) ==
  LET f[n \in 1..Cardinality(selected)] ==
        IF n = 1 THEN first(registry, selected \ done) ELSE step_down(registry, selected, done, f[n - 1])
  IN  f
visit(registry, selected, done) == descent(registry, selected, done)[Cardinality(selected)]

\* Fault: the keys alone decide.
order_by_key(registry, selected) ==
  [order |-> SetToSortSeq(selected, LAMBDA v, w : before(_execution_key(registry, v), _execution_key(registry, w))),
   cycle |-> FALSE]

\* After its dependencies a validator is appended to the order; one that still
\* waits when it is reached waits for itself.
appended(order, n) == {order[j] : j \in 1..(n - 1)}
visited(registry, selected) ==
  LET f[n \in 1..Cardinality(selected)] == visit(registry, selected, appended(f, n))
  IN  f
_topological_order(registry, selected) ==
  LET order == visited(registry, selected)
  IN  [order |-> order,
       cycle |-> \E n \in DOMAIN order :
                   waits_for(registry, selected, appended(order, n), order[n]) # {}]

LesserOf(a, b) == IF a < b THEN a ELSE b
timeout_of(q, v) == LesserOf(q.registry[v].timeout, q.policy.timeout)

\* The checks of one validator in the loop of plan
validator_allowed(q, v) ==
  /\ v \in get_active(q.registry)
  /\ q.platform = "windows"
  /\ q.registry[v].privilege \in q.privileges
  /\ (q.rules # None /\ v \in _resolve_selection(q)) => q.registry[v].rules \cap q.rules # {}
  /\ validate_validator_safety(q.registry[v], q.policy)

\* Fault: the scope is required of what was selected only.
plan_selected_scope(q) ==
  LET chosen == _resolve_dependencies(q)
      found == _topological_order(q.registry, chosen)
  IN  IF selection_allowed(q) /\ dependencies_allowed(q) /\ ~found.cycle
           /\ require_scope(q.authorization, q.device, _resolve_selection(q))
           /\ \A v \in chosen : validator_allowed(q, v)
      THEN found.order ELSE <<>>

\* ValidationPlanner.plan: the order of execution, or <<>> when it raises.
plan(q) ==
  LET chosen == _resolve_dependencies(q)
      found == _topological_order(q.registry, chosen)
      total == FoldSet(LAMBDA v, n : n + timeout_of(q, v), 0, chosen)
  IN  IF /\ selection_allowed(q) /\ dependencies_allowed(q)
         /\ Cardinality(chosen) <= q.policy.maximumValidators
         /\ require_scope(q.authorization, q.device, chosen)
         /\ chosen \subseteq DOMAIN q.registry
         /\ ~found.cycle
         /\ \A v \in chosen : validator_allowed(q, v)
         /\ total <= q.policy.maximumDuration
      THEN found.order ELSE <<>>

-----------------------------------------------------------------------------
(* The live transport and the worker's own check *)

\* validate_live_transport_config; a request without one asks for none.
validate_live_transport_config(q) ==
  q.live # None =>
    /\ q.profile = "deep"
    /\ q.live.listener # q.live.target
    /\ q.live.interface \in q.authorization.interfaces
    /\ q.live.listener \in q.authorization.sources
    /\ q.live.target \in q.authorization.targets
    /\ {q.live.protocol, "HTTP"} \subseteq q.authorization.protocols
    /\ q.live.computer = q.device

\* check_applicability in the worker
check_applicability(q, v) ==
  /\ q.platform = "windows" /\ q.registry[v].privilege \in q.privileges
  /\ v = "DEEP" =>
       /\ q.profile = "deep"
       /\ DeepPermits \subseteq q.policy.allows /\ Prohibited \cap q.policy.allows = {}
       /\ {"nameResolutionSpoofing", "authenticationChallenge", "temporaryListener",
           "temporaryFirewallChange"} \subseteq q.authorization.permissions
       /\ {} \notin {q.authorization.interfaces, q.authorization.sources, q.authorization.targets,
                     q.authorization.protocols}
       /\ q.authorization.identity # None

\* What execute_active_validation plans, what of it the workers run, and
\* whether that starts the harness.
planned(q) == IF validate_live_transport_config(q) THEN plan(q) ELSE <<>>
executed(q) == {v \in ToSet(planned(q)) : check_applicability(q, v)}
starts_harness(q) == q.live # None /\ "DEEP" \in executed(q)

=============================================================================
