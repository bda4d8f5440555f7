----------------------------- MODULE Frameworks -----------------------------
(***************************************************************************)
(* Versioned framework packs (frameworks/): the review that changes the    *)
(* mappings of a pack, the validation of a pack, and what the findings of  *)
(* an analysis amount to for its controls.                                 *)
(***************************************************************************)
EXTENDS Decision, Integers, FiniteSets, SequencesExt

REVIEW_PENDING == "REVIEW PENDING"
HUMAN_REVIEW_METHODS == {"MANUAL_SOURCE_REVIEW", "PEER_REVIEW"}

mappings_of(pack) == UNION {ToSet(pack.controls[c].mappings) : c \in DOMAIN pack.controls}

-----------------------------------------------------------------------------
\* Validation of a pack

\* _validate_mapping: reviewed by a person, with what the review needs.
_validate_mapping(m, known) ==
  /\ m.rationale /\ m.method # None
  /\ m.status = "VALIDATED" =>
       /\ m.release /\ m.reference /\ ~m.pending
       /\ m.reviewer \notin {None, REVIEW_PENDING} /\ m.method \in HUMAN_REVIEW_METHODS
  /\ m.status = "PROVISIONAL" => m.pending
  /\ m.reviewer = REVIEW_PENDING => m.status = "PROVISIONAL"
  /\ known # None => m.rule \in known

\* FrameworkPackValidator.validate, without the release's own options.
validate(pack, known) ==
  LET Provisional == {m \in mappings_of(pack) : m.status = "PROVISIONAL"}
      Validated == {m \in mappings_of(pack) : m.status = "VALIDATED"}
  IN  /\ pack.status = "ARCHIVED" => pack.deprecated
      /\ \A c \in DOMAIN pack.controls : \A i, j \in DOMAIN pack.controls[c].mappings :
           pack.controls[c].mappings[i].rule = pack.controls[c].mappings[j].rule => i = j
      /\ \A m \in mappings_of(pack) : _validate_mapping(m, known) /\ (pack.eits => m.release)
      /\ pack.status = "ACTIVE" => pack.release /\ Provisional = {} /\ Validated # {}

-----------------------------------------------------------------------------
\* Review

\* _validated_decision
_validated_decision(d) ==
  /\ d.decision \in {"VALIDATE", "KEEP_PROVISIONAL", "REJECT", "DEPRECATE"}
  /\ d.reviewer # None /\ d.dated /\ d.method \in HUMAN_REVIEW_METHODS

\* What VALIDATE asks of a mapping in _apply_decision.
validatable(m) == m.reference /\ m.release /\ m.rationale

\* _apply_decision on one mapping that is not rejected.
_apply_decision(m, d) ==
  [m EXCEPT !.status = CASE d.decision = "VALIDATE" -> "VALIDATED"
                         [] d.decision = "KEEP_PROVISIONAL" -> "PROVISIONAL"
                         [] OTHER -> "DEPRECATED",
            !.pending = d.decision = "KEEP_PROVISIONAL",
            !.reviewer = d.reviewer, !.method = d.method]

About(decisions, c, m) == {d \in ToSet(decisions) : d.control = c /\ d.rule = m.rule}

\* The document once every decision is applied.  A mapping keeps its place in the
\* list of its control; the order of the list decides nothing.
reviewed(pack, decisions) ==
  LET Listed(c) == pack.controls[c].mappings
      kept(c) == {i \in DOMAIN Listed(c) : ~\E d \in About(decisions, c, Listed(c)[i]) : d.decision = "REJECT"}
      Decided_(c, m) == LET ds == About(decisions, c, m)
                        IN  IF ds = {} THEN m ELSE _apply_decision(m, CHOOSE d \in ds : TRUE)
  IN  [pack EXCEPT !.controls =
         [c \in DOMAIN pack.controls |->
            [pack.controls[c] EXCEPT !.mappings = [i \in kept(c) |-> Decided_(c, Listed(c)[i])]]]]

\* Fault: the reviewed pack replaces the old one as it is.
apply_review_unchecked(pack, decisions) ==
  IF \A d \in ToSet(decisions) : _validated_decision(d) THEN reviewed(pack, decisions) ELSE pack

\* apply_review: the pack on disk afterwards.  A review is refused as a whole,
\* and only a valid pack replaces the old one.
apply_review(pack, decisions) ==
  LET Keys == {<<d.control, d.rule>> : d \in ToSet(decisions)}
      Target(d) == {m \in ToSet(pack.controls[d.control].mappings) : m.rule = d.rule}
  IN  IF /\ \A d \in ToSet(decisions) : _validated_decision(d)
         /\ Cardinality(Keys) = Len(decisions)
         /\ \A d \in ToSet(decisions) :
              /\ d.control \in DOMAIN pack.controls /\ Target(d) # {}
              /\ d.decision = "VALIDATE" => \A m \in Target(d) : validatable(m)
         /\ validate(reviewed(pack, decisions), None)
      THEN reviewed(pack, decisions)
      ELSE pack

-----------------------------------------------------------------------------
\* Evaluation

\* The order of _findings_by_rule, the gravest first; it does not know PARTIAL.
Gravity == <<"ERROR", "FAIL", "WARNING", "NOT_EVALUATED", "INFO", "NOT_APPLICABLE", "PASS">>

statuses(findings, rule) == {findings[i].status : i \in {j \in DOMAIN findings : findings[j].rule = rule}}

\* _findings_by_rule, for one rule.
_findings_by_rule(findings, rule) ==
  LET found == statuses(findings, rule)
      grave == {i \in DOMAIN Gravity : Gravity[i] \in found}
  IN  IF found = {} THEN None ELSE IF grave = {} THEN "PARTIAL" ELSE Gravity[earliest(grave)]

\* A second finding of a rule next to one that is PARTIAL is a KeyError.
unordered(findings) ==
  \E i, j \in DOMAIN findings : i # j /\ findings[i].rule = findings[j].rule /\ findings[i].status = "PARTIAL"

\* What a control may come to, and what is shown of it.
ControlStatuses ==
  {"NOT_APPLICABLE", "NOT_EVALUATED", "NOT_SATISFIED", "NOT_ASSESSABLE", "SATISFIED", "PARTIALLY_SATISFIED"}
ShownStatuses ==
  ControlStatuses \cup {"NOT_MAPPED", "REVIEW_PENDING", "SUPPORTED_BY_TECHNICAL_EVIDENCE",
                       "TECHNICAL_EVIDENCE_INDICATES_GAP", "PARTIALLY_SUPPORTED"}

\* FrameworkEvaluator.evaluate_control
evaluate_mappings(control, id, findings, not_applicable) ==
  LET formal == {m \in ToSet(control.mappings) : m.status = "VALIDATED" /\ m.strength # "CONTEXTUAL"}
      direct == {m \in formal : m.strength = "DIRECT"}
      Found(m) == _findings_by_rule(findings, m.rule)
      Passed(m) == Found(m) = "PASS"
      Failed(m) == Found(m) \in {"FAIL", "WARNING"}
  IN  IF id \in not_applicable THEN "NOT_APPLICABLE"
      ELSE IF formal = {} THEN "NOT_EVALUATED"
      ELSE IF \E m \in direct : Failed(m) THEN "NOT_SATISFIED"
      ELSE IF direct = {}
      THEN IF \E m \in formal : Passed(m) THEN "PARTIALLY_SATISFIED" ELSE "NOT_ASSESSABLE"
      ELSE IF \E m \in direct : ~Passed(m) THEN "NOT_ASSESSABLE"
      ELSE IF control.level = "TECHNICAL" THEN "SATISFIED" ELSE "PARTIALLY_SATISFIED"

\* _presentation_status
_presentation_status(control, status) ==
  IF control.mappings = <<>> THEN "NOT_MAPPED"
  ELSE IF \E m \in ToSet(control.mappings) : m.status = "PROVISIONAL" THEN "REVIEW_PENDING"
  ELSE CASE status = "SATISFIED" -> "SUPPORTED_BY_TECHNICAL_EVIDENCE"
         [] status = "NOT_SATISFIED" -> "TECHNICAL_EVIDENCE_INDICATES_GAP"
         [] status = "PARTIALLY_SATISFIED" -> "PARTIALLY_SUPPORTED"
         [] OTHER -> status

\* FrameworkEvaluator.evaluate: None where it raises.
evaluate_pack(pack, findings, not_applicable, allow_unreviewed) ==
  LET Provisional == {m \in mappings_of(pack) : m.status = "PROVISIONAL"}
      status(c) == evaluate_mappings(pack.controls[c], c, findings, not_applicable)
  IN  IF \/ pack.status = "ACTIVE" /\ Provisional # {}
         \/ pack.status = "REVIEW_REQUIRED" /\ ~allow_unreviewed
         \/ pack.status \notin {"ACTIVE", "REVIEW_REQUIRED"}
         \/ unordered(findings)
      THEN None
      ELSE [formal |-> pack.status = "ACTIVE" /\ pack.mode = "FORMAL_ASSESSMENT",
            controls |-> [c \in DOMAIN pack.controls |->
                            [status |-> status(c),
                             shown |-> _presentation_status(pack.controls[c], status(c))]]]

\* _run_framework_evaluation, on one selected pack: one that is not valid, or
\* names a rule the analyzer does not have, stops the analysis.
_run_framework_evaluation(pack, findings, known, allow_unreviewed) ==
  IF validate(pack, known) THEN evaluate_pack(pack, findings, {}, allow_unreviewed) ELSE None

=============================================================================
