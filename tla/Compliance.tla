----------------------------- MODULE Compliance -----------------------------
(***************************************************************************)
(* What the compliance engine concludes from the findings of an analysis   *)
(* (compliance/): the evidence of each requirement, the status of each     *)
(* control of a framework, and the overall status.  A value of the         *)
(* collector is a number, given as a set of one, or a list.                *)
(***************************************************************************)
EXTENDS Decision, Integers, FiniteSets, SequencesExt

minimum_confidence == 60

Severities == <<"INFO", "LOW", "MEDIUM", "HIGH", "CRITICAL">>

Rank(severity) == CHOOSE i \in DOMAIN Severities : Severities[i] = severity

Number(n) == [numeric |-> TRUE, items |-> {n}]
List(items) == [numeric |-> FALSE, items |-> items]

\* n / d as Python rounds it, to even.
Rounded(n, d) ==
  LET q == n \div d  r == n % d IN IF 2 * r > d \/ (2 * r = d /\ q % 2 = 1) THEN q + 1 ELSE q

Total(numbers) ==
  LET sum[n \in 0..Len(numbers)] == IF n = 0 THEN 0 ELSE sum[n - 1] + numbers[n]
  IN  sum[Len(numbers)]

-----------------------------------------------------------------------------
\* Evidence

\* An evidence record; the relationship and the validation are those of the
\* mapping, None where none was applied.  No extractor says NOT_APPLICABLE.
evidence_record(req, result, confidence) ==
  [id |-> req.id, result |-> result, confidence |-> confidence, weight |-> req.weight,
   mandatory |-> req.mandatory, relationship |-> None, validated |-> None]

\* FindingEvidenceExtractor.extract: the first finding of the rule.
finding_evidence(req, findings) ==
  LET of_rule == {i \in DOMAIN findings : findings[i].rule = req.reference}
      f == findings[earliest(of_rule)]
      about(result, confidence) == evidence_record(req, result, confidence)
  IN  IF of_rule = {} THEN about("MISSING", 0)
      ELSE IF f.status \in {"NOT_EVALUATED", "NOT_APPLICABLE"} THEN about("MISSING", 0)
      ELSE IF f.status \in {"ERROR", "PARTIAL", "INFO", "WARNING"} THEN about("INCONCLUSIVE", 0)
      ELSE IF req.operator = "STATUS_IS"
      THEN about(IF f.status = req.expected THEN "SUPPORTS" ELSE "CONTRADICTS", 95)
      ELSE IF req.operator = "SEVERITY_AT_LEAST"
      THEN IF Rank(f.severity) >= Rank(req.expected) THEN about("CONTRADICTS", 90) ELSE about("SUPPORTS", 75)
      ELSE about("INCONCLUSIVE", 40)

Compared(op, n, m) ==
  CASE op = "GREATER_THAN" -> n > m [] op = "GREATER_OR_EQUAL" -> n >= m
    [] op = "LESS_THAN" -> n < m [] OTHER -> n <= m

\* _evaluate, on a field that is there; RAISES where Python would, as for a
\* number that is asked what it contains.
_evaluate(op, actual, expected) ==
  LET verdict(holds) == IF holds THEN "SUPPORTS" ELSE "CONTRADICTS"
      both == actual.numeric /\ expected.numeric
  IN  CASE op = "EXISTS" -> verdict(TRUE)
        [] op = "NOT_EXISTS" -> verdict(FALSE)
        [] op = "EQUALS" -> verdict(actual = expected)
        [] op = "NOT_EQUALS" -> verdict(actual # expected)
        [] op = "IN" -> verdict(actual.numeric /\ actual.items \subseteq expected.items)
        [] op = "NOT_IN" -> verdict(~(actual.numeric /\ actual.items \subseteq expected.items))
        [] op \in {"CONTAINS", "NOT_CONTAINS"} ->
             IF actual.numeric THEN "RAISES"
             ELSE verdict((expected.items \subseteq actual.items) <=> op = "CONTAINS")
        [] op \in {"GREATER_THAN", "GREATER_OR_EQUAL", "LESS_THAN", "LESS_OR_EQUAL"} ->
             IF ~both THEN "INCONCLUSIVE"
             ELSE verdict(\A n \in actual.items, m \in expected.items : Compared(op, n, m))
        [] OTHER -> "INCONCLUSIVE"

\* FieldEvidenceExtractor.extract; a path of no field name is unsafe.
field_evidence(req, fields) ==
  LET value == CHOOSE v \in fields[req.reference] : TRUE
  IN  IF req.reference \notin DOMAIN fields THEN evidence_record(req, "INCONCLUSIVE", 0)
      ELSE IF fields[req.reference] = {}
      THEN evidence_record(req, IF req.operator = "NOT_EXISTS" THEN "SUPPORTS" ELSE "MISSING", 0)
      ELSE evidence_record(req, _evaluate(req.operator, value, req.expected), 85)

\* The extractors of a source type, the ones there are.
extracted(req, e) ==
  IF req.source = "RAW_FIELD" THEN field_evidence(req, e.fields) ELSE finding_evidence(req, e.findings)

\* _weighted_confidence
_weighted_confidence(records) ==
  LET total == Total([i \in DOMAIN records |-> records[i].weight])
      weighted == Total([i \in DOMAIN records |-> records[i].weight * records[i].confidence])
  IN  IF total <= 0 THEN 0 ELSE Rounded(weighted, total)

\* The results of the children, by the mode of the composite.
combined(mode, results) ==
  IF mode = "OR"
  THEN IF "SUPPORTS" \in results THEN "SUPPORTS"
       ELSE IF results \cap {"INCONCLUSIVE", "MISSING"} # {} THEN "INCONCLUSIVE" ELSE "CONTRADICTS"
  ELSE IF results = {"SUPPORTS"} THEN "SUPPORTS"
  ELSE IF "CONTRADICTS" \in results THEN "CONTRADICTS" ELSE "INCONCLUSIVE"

combined_record(req, records) ==
  evidence_record(req, combined(req.mode, {r.result : r \in ToSet(records)}), _weighted_confidence(records))

\* CompositeEvidenceExtractor.extract; the children know no mapping, and are
\* extracted up to the first that has no extractor.
composite_evidence(req, e) ==
  LET unknown == {i \in DOMAIN req.children : req.children[i].source \notin {"FINDING", "RAW_FIELD"}}
      records == [i \in DOMAIN req.children |-> extracted(req.children[i], e)]
      about(result) == evidence_record(req, result, 0)
  IN  IF \E i \in DOMAIN records : records[i].result = "RAISES" /\ \A j \in unknown : i < j THEN about("RAISES")
      ELSE IF unknown # {} THEN about("INCONCLUSIVE")
      ELSE IF req.children = <<>> THEN about("MISSING")
      ELSE combined_record(req, records)

\* get_by_control and _select_mapping: of the mappings of the rule to the
\* control a validated one, and then the most confident; the first of equals.
_select_mapping(mappings, control, rule) ==
  LET matches == {i \in DOMAIN mappings : /\ mappings[i].framework = control.framework
                                          /\ mappings[i].rule = rule /\ control.id \in mappings[i].controls}
      Better(m, n) == \/ m.validated /\ ~n.validated
                      \/ m.validated = n.validated /\ m.confidence > n.confidence
      best == {i \in matches : \A j \in matches : ~Better(mappings[j], mappings[i])}
  IN  IF matches = {} THEN None ELSE mappings[earliest(best)]

\* Fault: a mapping counts whether it was validated or not.
_apply_mapping_any(record, mapping) ==
  IF mapping = None
  THEN [record EXCEPT !.result = "INCONCLUSIVE", !.confidence = 0]
  ELSE [record EXCEPT !.result = IF mapping.relationship = "CONTEXT_ONLY" THEN "INCONCLUSIVE" ELSE @,
                      !.confidence = IF mapping.confidence < @ THEN mapping.confidence ELSE @,
                      !.relationship = mapping.relationship, !.validated = TRUE]

\* _apply_mapping
_apply_mapping(record, mapping) ==
  LET result ==
        IF ~mapping.validated \/ mapping.relationship = "CONTEXT_ONLY" THEN "INCONCLUSIVE"
        ELSE IF mapping.relationship = "CONTRADICTS" /\ record.result = "SUPPORTS" THEN "CONTRADICTS"
        ELSE IF mapping.relationship = "CONTRADICTS" /\ record.result = "CONTRADICTS" THEN "SUPPORTS"
        ELSE record.result
  IN  IF mapping = None
      THEN [record EXCEPT !.result = "INCONCLUSIVE", !.confidence = 0]
      ELSE [record EXCEPT !.result = result,
                          !.confidence = IF mapping.confidence < @ THEN mapping.confidence ELSE @,
                          !.relationship = mapping.relationship, !.validated = mapping.validated]

\* _extract
_extract(req, control, e) ==
  IF req.composite THEN composite_evidence(req, e)
  ELSE IF req.source \notin {"FINDING", "RAW_FIELD", "RULE_METADATA"} THEN evidence_record(req, "INCONCLUSIVE", 0)
  ELSE IF req.source = "FINDING"
  THEN _apply_mapping(extracted(req, e), _select_mapping(e.mappings, control, req.reference))
  ELSE extracted(req, e)

-----------------------------------------------------------------------------
\* Controls

\* _is_applicable
_is_applicable(control, profile) ==
  /\ control.id \notin profile.excluded
  /\ profile.enabled # {} => control.id \in profile.enabled
  /\ control.groups # {} /\ profile.group # None => profile.group \in control.groups

\* _coverage_counts; a percentage is in tenths.
_coverage_counts(evidence) ==
  LET covered == {i \in DOMAIN evidence : evidence[i].result # "MISSING"}
      mandatory == {i \in DOMAIN evidence : evidence[i].mandatory}
  IN  [total |-> Len(evidence), covered |-> Cardinality(covered), mandatory |-> Cardinality(mandatory),
       covered_mandatory |-> Cardinality(mandatory \cap covered)]

_assessment(control, status, evidence) ==
  [id |-> control.id, status |-> status, applicable |-> status # "NOT_APPLICABLE",
   counts |-> _coverage_counts(evidence)]

\* What evaluate_control makes of the evidence, in the order of its returns.
verdict_of(control, evidence) ==
  LET records == ToSet(evidence)
      mandatory == {r \in records : \E q \in records : q.id = r.id /\ q.mandatory}
      Some(result) == \E r \in records : r.result = result
      Firm(r) == r.confidence >= minimum_confidence
      partial == \/ "ORGANISATION" \in control.scope /\ Cardinality(control.scope) > 1
                 \/ \E r \in records : r.relationship \in {"PARTIAL", "CONTEXT_ONLY"}
  IN  IF \E r \in mandatory : r.result = "CONTRADICTS" /\ Firm(r) THEN "NON_COMPLIANT"
      ELSE IF Some("CONTRADICTS") /\ Some("SUPPORTS") THEN "MANUAL_REVIEW"
      ELSE IF mandatory # {} /\ \E r \in records : r.validated = FALSE THEN "MANUAL_REVIEW"
      ELSE IF mandatory # {} /\ \A r \in mandatory : r.result = "SUPPORTS" /\ Firm(r)
      THEN IF partial \/ \E r \in records \ mandatory : r.result \in {"MISSING", "INCONCLUSIVE"}
           THEN "PARTIALLY_COMPLIANT" ELSE "COMPLIANT"
      ELSE IF Some("SUPPORTS") THEN "PARTIALLY_COMPLIANT"
      ELSE IF Some("INCONCLUSIVE") THEN "MANUAL_REVIEW" ELSE "NOT_ASSESSED"

assessed(control, evidence) ==
  IF \E r \in ToSet(evidence) : r.result = "RAISES" THEN _assessment(control, "RAISES", <<>>)
  ELSE _assessment(control, verdict_of(control, evidence), evidence)

\* evaluate_control
evaluate_control(control, profile, e) ==
  IF ~_is_applicable(control, profile) THEN _assessment(control, "NOT_APPLICABLE", <<>>)
  ELSE IF control.scope = {"ORGANISATION"} THEN _assessment(control, "NOT_ASSESSED", <<>>)
  ELSE IF control.alternative /\ control.requirements = <<>> THEN _assessment(control, "MANUAL_REVIEW", <<>>)
  ELSE assessed(control, [i \in DOMAIN control.requirements |-> _extract(control.requirements[i], control, e)])

-----------------------------------------------------------------------------
\* Profiles and frameworks.  A profile here is about one framework version.

\* _merge_profiles: a list of the later profile replaces the earlier one.
_merge_profiles(base, incoming) ==
  [base EXCEPT !.enabled = IF incoming.enabled # {} THEN incoming.enabled ELSE @,
               !.excluded = IF incoming.excluded # {} THEN incoming.excluded ELSE @,
               !.group = IF incoming.group # None THEN incoming.group ELSE @]

\* _effective_framework_profiles, for one framework version; None when no
\* profile names it.
_effective_profile(profiles, id) ==
  LET merged[n \in 0..Len(profiles)] ==
        IF n = 0 THEN None
        ELSE IF profiles[n].framework # id THEN merged[n - 1]
        ELSE IF merged[n - 1] = None THEN profiles[n]
        ELSE _merge_profiles(merged[n - 1], profiles[n])
  IN  merged[Len(profiles)]

\* What the assessments of its controls make of a framework.
framework_result(id, controls) ==
  LET Of(status) == \E c \in ToSet(controls) : c.status = status
      Applicable(value) == Total([i \in DOMAIN controls |-> IF controls[i].applicable THEN value[i] ELSE 0])
  IN  [id |-> id, controls |-> controls, raised |-> Of("RAISES"),
       complete |-> /\ ~Of("NOT_ASSESSED") /\ ~Of("MANUAL_REVIEW")
                    /\ \E c \in ToSet(controls) : c.applicable
                    /\ Applicable([i \in DOMAIN controls |-> controls[i].counts.mandatory])
                         = Applicable([i \in DOMAIN controls |-> controls[i].counts.covered_mandatory])]

\* _framework_assessment; an exception makes it a warning instead.
_framework_assessment(framework, profile, e) ==
  framework_result(framework.id,
    [i \in DOMAIN framework.controls |-> evaluate_control(framework.controls[i], profile, e)])

\* _overall_status
_overall_status(assessments, warned) ==
  LET controls == UNION {ToSet(a.controls) : a \in assessments}
      Of(status) == \E c \in controls : c.status = status
  IN  IF warned THEN "MANUAL_REVIEW"
      ELSE IF ~\E c \in controls : c.applicable THEN "NOT_ASSESSED"
      ELSE IF Of("NON_COMPLIANT") THEN "NON_COMPLIANT"
      ELSE IF Of("MANUAL_REVIEW") THEN "MANUAL_REVIEW"
      ELSE IF Of("NOT_ASSESSED") \/ Of("PARTIALLY_COMPLIANT") THEN "PARTIALLY_COMPLIANT" ELSE "COMPLIANT"

\* The warning of ControlMappingRepository._load_mappings.
mapping_warning(mappings) == \E m \in ToSet(mappings) : ~m.validated /\ m.confidence >= 80

\* What is left of the frameworks' assessments, and the overall status.
concluded(all, warned) ==
  LET done == {a \in all : ~a.raised}
  IN  [assessments |-> done, overall |-> _overall_status(done, done # all \/ warned)]

\* ComplianceEngine.assess: the frameworks that a profile names, each under the
\* profile merged for it.
assess_compliance(frameworks, profiles, e) ==
  concluded({_framework_assessment(f, _effective_profile(profiles, f.id), e) :
               f \in {g \in frameworks : _effective_profile(profiles, g.id) # None}},
            mapping_warning(e.mappings))

=============================================================================
