------------------------- MODULE ComplianceDecisions -------------------------
(***************************************************************************)
(* What the analyzer concludes about a compliance profile, and about a     *)
(* framework pack before and after a review of its mappings.               *)
(***************************************************************************)
EXTENDS Compliance, Frameworks, SequencesExt

\* _run_compliance_assessment
AssessCompliance ==
  Decide("compliance", assess_compliance(input.frameworks, input.profiles, input.evidence))

\* apply_review, and then the analysis with the pack on disk.
EvaluateFramework ==
  Decide("framework",
    LET pack == apply_review(input.pack, input.decisions)
    IN  [pack |-> pack,
         evaluation |-> _run_framework_evaluation(pack, input.findings, input.known, input.allow_unreviewed)])

\* Frameworks, profiles and mappings as they are loaded, with children of composites that weigh
\* nothing less than zero, and what the analysis found.
ASSUME ProfilesAssumption ==
  \A i \in {j \in Inputs : j.kind = "compliance"} :
    LET e == i.evidence
        Profiles == [framework : STRING, enabled : SUBSET STRING, excluded : SUBSET STRING, group : STRING \cup {None}]
        Relationships == {"SUPPORTS", "PARTIAL", "CONTEXT_ONLY", "CONTRADICTS"}
        IsList(list) == list \in Seq(ToSet(list))
    IN  /\ i.profiles \in Seq(Profiles) /\ None \notin Profiles
        /\ \A f, g \in i.frameworks : f.id = g.id => f = g
        /\ \A f \in i.frameworks :
             /\ IsList(f.controls)
             /\ \A c, d \in ToSet(f.controls) : c.id = d.id => c = d
             /\ \A c \in ToSet(f.controls) :
                  /\ IsList(c.requirements)
                  /\ \A r \in ToSet(c.requirements) : IsList(r.children) /\ \A q \in ToSet(r.children) : q.weight \in Nat
        /\ DOMAIN e = {"findings", "fields", "mappings"} /\ IsList(e.findings)
        /\ IsList(e.mappings) /\ None \notin ToSet(e.mappings)
        /\ \A m \in ToSet(e.mappings) : m.validated \in BOOLEAN /\ m.confidence \in 0..100 /\ m.relationship \in Relationships

\* A pack as it is read, the findings of the analyzer and its rules, and nothing
\* that is an evaluation is missing.
ASSUME PacksAssumption ==
  \A i \in {j \in Inputs : j.kind = "framework"} :
    /\ DOMAIN i.pack = {"status", "mode", "release", "deprecated", "eits", "controls"}
    /\ \A c \in DOMAIN i.pack.controls :
         /\ DOMAIN i.pack.controls[c] = {"level", "mappings"}
         /\ \A m \in ToSet(i.pack.controls[c].mappings) :
              DOMAIN m = {"rule", "strength", "status", "rationale", "reference", "release", "reviewer", "method",
                          "pending"}
    /\ i.known \subseteq STRING
    /\ i.findings \in Seq([rule : STRING, status : {Gravity[n] : n \in DOMAIN Gravity} \cup {"PARTIAL"}])
    /\ None # "PASS"
    /\ None \notin [formal : BOOLEAN,
                    controls : [DOMAIN i.pack.controls -> [status : ControlStatuses, shown : ShownStatuses]]]

-----------------------------------------------------------------------------

Without(findings, i) == SubSeq(findings, 1, i - 1) \o SubSeq(findings, i + 1, Len(findings))

\* The evidence with the only finding of a rule, or one field, lost.
Poorer(e) ==
  {[e EXCEPT !.findings = Without(@, i)] :
     i \in {j \in DOMAIN e.findings : \A k \in DOMAIN e.findings : e.findings[k].rule = e.findings[j].rule => k = j}}
    \cup {[e EXCEPT !.fields[f] = {}] : f \in DOMAIN e.fields}

\* A field that is asked not to be there is no loss.
AsksAbsence(framework) ==
  \E c \in ToSet(framework.controls) : \E r \in ToSet(c.requirements) :
    \E q \in {r} \cup ToSet(r.children) : q.operator = "NOT_EXISTS"

\* The frameworks that a profile names, and the controls that are in scope.
Named(f) == {n \in DOMAIN input.profiles : input.profiles[n].framework = f.id}
Selected == {f \in input.frameworks : Named(f) # {}}
InScope(c, f) == _is_applicable(c, _effective_profile(input.profiles, f.id))

\* A mapping of the requirement's rule to the control that a person validated.
Counts(c, r, kinds, least) ==
  \E m \in ToSet(input.evidence.mappings) :
    /\ m.framework = c.framework /\ m.rule = r.reference /\ c.id \in m.controls /\ m.validated
    /\ m.relationship \in kinds /\ m.confidence >= least

\* A mandatory status of a rule.
Demands(r) == r.source = "FINDING" /\ ~r.composite /\ r.operator = "STATUS_IS" /\ r.mandatory

\* The overall answer is COMPLIANT only when every framework that was selected could be
\* assessed, and every mandatory finding of a control in scope is there and counts by a
\* validated mapping that is more than context.
CompliantIsBacked ==
  output.overall = "COMPLIANT" =>
    /\ {f.id : f \in Selected} = {a.id : a \in output.assessments}
    /\ \A f \in Selected : \A c \in ToSet(f.controls) :
         InScope(c, f) =>
           /\ c.scope # {"ORGANISATION"}
           /\ \A r \in ToSet(c.requirements) : Demands(r) =>
                /\ Counts(c, r, {"SUPPORTS", "CONTRADICTS"}, minimum_confidence)
                /\ \E x \in ToSet(input.evidence.findings) : x.rule = r.reference

\* A demanded PASS that failed under a mapping that counts is never explained away.
FailureStands ==
  \A a \in output.assessments, f \in Selected : a.id = f.id =>
    \A c \in ToSet(f.controls) : \A r \in ToSet(c.requirements) :
      LET of_rule == {i \in DOMAIN input.evidence.findings : input.evidence.findings[i].rule = r.reference}
      IN  (/\ Demands(r) /\ InScope(c, f) /\ c.scope # {"ORGANISATION"} /\ r.expected = "PASS"
           /\ of_rule # {} /\ input.evidence.findings[earliest(of_rule)].status = "FAIL"
           /\ Counts(c, r, {"SUPPORTS", "PARTIAL"}, minimum_confidence)
           /\ ~Counts(c, r, {"CONTRADICTS", "CONTEXT_ONLY"}, 0))
          => \A k \in ToSet(a.controls) : k.id = c.id => k.status = "NON_COMPLIANT"

\* Losing evidence never earns compliance, unless it is evidence that could not be
\* compared, which costs its framework the assessment.
LossEarnsNothing ==
  (/\ output.overall # "COMPLIANT" /\ ~\E f \in Selected : AsksAbsence(f)
   /\ {f.id : f \in Selected} = {a.id : a \in output.assessments}) =>
    \A d \in Poorer(input.evidence) : assess_compliance(input.frameworks, input.profiles, d).overall # "COMPLIANT"

\* Of several profiles a control is in scope if it is for each of them, and only if
\* it is for the last.
ScopeFollowsProfiles ==
  \A f \in Selected : \A c \in ToSet(f.controls) :
    /\ (\A n \in Named(f) : _is_applicable(c, input.profiles[n])) => InScope(c, f)
    /\ InScope(c, f) => \A n \in Named(f) : (\A k \in Named(f) : k <= n) => _is_applicable(c, input.profiles[n])

\* Compliance is earned: it is backed by evidence that counts, no failure is explained
\* away, losing evidence does not help, and the profiles decide what is in scope.
ComplianceIsEarned ==
  DecidedOf("compliance") => CompliantIsBacked /\ FailureStands /\ LossEarnsNothing /\ ScopeFollowsProfiles

\* A claim about a framework is reviewed and backed.  A control is called
\* satisfied only when it is technical, every direct mapping that counts was
\* validated by a person, and every finding of those rules passed; one more
\* finding that did not pass never makes a control satisfied or partially satisfied
\* (an ERROR may make an unsatisfied one NOT_ASSESSABLE); an assessment is formal
\* only when no mapping waits for its review; and a review never leaves an
\* active pack that the analysis then rejects.
ClaimsAreReviewed ==
  DecidedOf("framework") =>
    LET pack == output.pack
        known == input.known
        Good == {"SATISFIED", "PARTIALLY_SATISFIED"}
        StatusOf(evaluation, c) == evaluation.controls[c].status
    IN  /\ output.evaluation # None => \A c \in DOMAIN pack.controls :
             LET direct == {m \in ToSet(pack.controls[c].mappings) : m.strength = "DIRECT" /\ m.status = "VALIDATED"}
             IN  /\ StatusOf(output.evaluation, c) = "SATISFIED" =>
                      /\ pack.controls[c].level = "TECHNICAL" /\ direct # {}
                      /\ \A m \in direct :
                           /\ statuses(input.findings, m.rule) = {"PASS"}
                           /\ m.reviewer \notin {None, REVIEW_PENDING} /\ m.method \in HUMAN_REVIEW_METHODS
                 /\ StatusOf(output.evaluation, c) \notin Good =>
                      \A r \in known, s \in {Gravity[i] : i \in DOMAIN Gravity} \ {"PASS"} :
                        LET more == _run_framework_evaluation(pack, Append(input.findings, [rule |-> r, status |-> s]),
                                                              known, input.allow_unreviewed)
                        IN  more = None \/ StatusOf(more, c) \notin Good
        /\ (output.evaluation # None /\ output.evaluation.formal) =>
             \A m \in mappings_of(pack) : m.status # "PROVISIONAL"
        /\ (pack.status = "ACTIVE" /\ validate(input.pack, known) /\ ~unordered(input.findings)) =>
             output.evaluation # None

=============================================================================
