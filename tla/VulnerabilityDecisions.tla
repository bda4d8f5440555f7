----------------------- MODULE VulnerabilityDecisions -----------------------
(***************************************************************************)
(* The decisions about a product and a CVE: whether a criterion and a      *)
(* configuration apply, what the CNA says, which CPE family the product    *)
(* is, how urgent the CVE is, and whether the product is supported.        *)
(***************************************************************************)
EXTENDS CpeResolution, Prioritization

CONSTANTS
  Platforms, Architectures, Editions, Versions,   \* what a collector can see
  LastDay      \* the days are 0..LastDay

\* One criterion of a CVE.
EvaluateCriterion ==
  Decide("criterion", _evaluate_match(input.software, input.match, input.evidence))

\* The configurations of a CVE, over the results of their criteria.
EvaluateConfigurations ==
  Decide("configurations", evaluate_applicability_result(input.identified, input.configurations))

\* The affected ranges of the CNA.
EvaluateCna == Decide("cna", evaluate_cna_applicability(input.software, input.items, input.os))

\* resolve_with_trace
Resolve == Decide("cpe", resolve_with_trace(input.software, input.os, input.rows))

\* _enrich_assessment, once the sources have answered
Prioritize ==
  Decide("triage", [level |-> calculate_priority(input.a), trust |-> _resolve_applicability_trust(input.a)])

\* The support status of an installed version.
AssessLifecycle == Decide("support", assess(input.version, input.entries, input.today, input.nearing))

\* What the sources may answer, and what a pack says of the support.
ASSUME SourcesAssumption ==
  \A i \in Inputs :
    /\ i.kind = "triage" =>
         i.a \in [kev_answered : BOOLEAN, kev : BOOLEAN, adp_kev : BOOLEAN, ransomware : BOOLEAN,
                 advisory : BOOLEAN, cvss : 0..100, ssvc : STRING, nvd : STRING, cna : STRING]
    /\ i.kind = "support" =>
         /\ i.today \in Nat /\ i.nearing \in Nat
         /\ \A n \in DOMAIN i.entries :
              /\ n \in Nat /\ i.entries[n].ends \in {None} \cup Nat
              /\ \A k \in DOMAIN i.entries[n].lts : k \in Nat /\ i.entries[n].lts[k].until \in Nat

\* A release number, and what the products, the criteria, the configurations, the
\* ranges and the catalogue are made of.  A node of a configuration comes after its
\* parts, and a vendor counts for at most 50.
ReleaseNumber == [numeric : Seq(Nat)]
TreeNode == [operator : STRING, parts : Seq(Nat),
          result : {None} \cup [status : {AFFECTED, NOT_AFFECTED, NOT_EVALUATED}, vulnerable : BOOLEAN]]
AffectedRange ==
  [product : BOOLEAN, modules : BOOLEAN, platforms : SUBSET [os : {AnyPlatform} \cup Platforms, architecture : STRING],
   type : {None} \cup STRING, version : {None, AnyVersion} \cup ReleaseNumber,
   less_than : {None, AnyVersion} \cup ReleaseNumber, less_than_or_equal : {None, AnyVersion} \cup ReleaseNumber,
   status : {None} \cup STRING, default : {None} \cup STRING, changes : Seq([at : ReleaseNumber, status : STRING])]

ASSUME ProductsAssumption ==
  /\ AmbiguousScoreDifference \in Nat \ {0}
  /\ None \notin ReleaseNumber \cup {AnyVersion, AnyPlatform, "affected", "unaffected"}
  /\ \A i \in Inputs :
       /\ i.kind = "criterion" =>
            /\ DOMAIN i.software = {"python", "minor", "number", "titled", "version", "architecture"}
            /\ i.software.python \in BOOLEAN
            /\ DOMAIN i.match = {"vulnerable", "about", "os", "exact", "starts", "ends", "target_sw",
                                 "target_hw", "edition", "other", "desktop"}
       /\ i.kind = "configurations" =>
            \A c \in DOMAIN i.configurations :
              /\ i.configurations[c] \in Seq(TreeNode) /\ Len(i.configurations[c]) > 0
              /\ \A n \in DOMAIN i.configurations[c] :
                   LET node == i.configurations[c][n]
                   IN  /\ \A k \in DOMAIN node.parts : node.parts[k] \in 1..(n - 1)
                       /\ node.operator = "LEAF" => node.result # None
       /\ i.kind = "cna" =>
            /\ i.software.python \in BOOLEAN /\ i.software.version \in {None} \cup ReleaseNumber
            /\ i.items \in Seq(AffectedRange)
       /\ i.kind = "cpe" =>
            \A r \in i.rows :
              /\ r.vendor \in 0..50
              /\ {r.application, r.same_product, r.same_title, r.deprecated} \subseteq BOOLEAN

-----------------------------------------------------------------------------

Known(value, domain) == IF value = None THEN domain ELSE {value}

\* Whatever the missing evidence turns out to be.
Completions(evidence) ==
  [os : Known(evidence.os, Platforms), os_version : Known(evidence.os_version, Versions),
   architecture : Known(evidence.architecture, Architectures), edition : Known(evidence.edition, Editions)]

\* A configuration as a formula, for a choice of the criteria left open.
node_truth(node, truth, open) ==
  IF node.operator = "LEAF"
  THEN node.result.status = AFFECTED \/ (node.result.status = NOT_EVALUATED /\ open)
  ELSE IF node.operator = "AND" THEN \A k \in DOMAIN node.parts : truth[node.parts[k]]
  ELSE \E k \in DOMAIN node.parts : truth[node.parts[k]]

truths(tree, open) ==
  LET truth[i \in DOMAIN tree] == node_truth(tree[i], truth, open)
  IN  truth

Holds(tree, open) == truths(tree, open)[Len(tree)]

\* An answer is given only when the evidence forces it: evidence that arrives
\* later never turns AFFECTED into NOT_AFFECTED or back, and the configurations
\* of NVD hold, or fail, however the open criteria come out.
AnswerIsForced ==
  /\ DecidedOf("criterion") /\ output.status # NOT_EVALUATED =>
       \A a \in Known(input.software.architecture, Architectures),
          v \in Known(input.software.version, Versions), e \in Completions(input.evidence) :
         _evaluate_match([input.software EXCEPT !.architecture = a, !.version = v], input.match, e).status
           \in {output.status, NOT_EVALUATED}
  /\ DecidedOf("configurations") /\ output.status # NOT_EVALUATED =>
       \A open \in BOOLEAN :
         (\E i \in DOMAIN input.configurations : Holds(input.configurations[i], open))
           <=> output.status = AFFECTED

\* One release number comes before another.
Older(v, w) == Before(Pad(v.numeric), Pad(w.numeric))

\* The changes of an item that the installed version has reached, the latest.
Newest(item, installed) ==
  LET reached == {c \in {item.changes[i] : i \in DOMAIN item.changes} : ~Older(installed, c.at)}
  IN  {c.status : c \in {d \in reached : \A e \in reached : ~Older(d.at, e.at)}}

\* For a product that goes by its release number: an answer from the CNA's ranges is the status of every range that holds the
\* version, at the latest change the version has reached, in whatever order the
\* changes and the ranges are listed.
CnaFollowsRanges ==
  DecidedOf("cna") /\ ~input.software.python /\ output # NOT_EVALUATED =>
    LET says == IF output = AFFECTED THEN "affected" ELSE "unaffected"
        installed == input.software.version
        From(i) == i.version = AnyVersion \/ ~Older(installed, i.version)
        UpTo(i) == IF i.less_than # None
                   THEN i.less_than = AnyVersion \/ Older(installed, i.less_than)
                   ELSE IF i.less_than_or_equal # None
                   THEN i.less_than_or_equal = AnyVersion \/ ~Older(i.less_than_or_equal, installed)
                   ELSE i.version # AnyVersion
                        /\ ~Older(installed, i.version) /\ ~Older(i.version, installed)
    IN  \A i \in {input.items[j] : j \in DOMAIN input.items} :
          (i.product /\ i.platforms = {} /\ i.version # None /\ From(i) /\ UpTo(i)) =>
             says \in (IF Newest(i, installed) = {} THEN {i.status} ELSE Newest(i, installed))

\* A family is chosen on evidence: a row of it that is not deprecated names the
\* vendor, the product and the editions of the inventory, nothing the collector
\* saw speaks against it, and no other family that says as much about the
\* platform is one whose rows match in full.
MappingIsEvidenced ==
  DecidedOf("cpe") /\ output.status = "SUCCESS" /\ output.candidate # None =>
    LET family == output.candidate.family
        Fits(r) == /\ ~r.deprecated /\ r.application /\ r.same_product /\ r.vendor >= 45
                   /\ r.edition \in Wildcards \cup input.software.words
                   /\ IF input.software.edition_alias = None
                      THEN r.sw_edition \in Wildcards \cup input.software.words
                      ELSE r.sw_edition = input.software.edition_alias
                   /\ r.target_hw \in {"*", input.software.architecture}
                   /\ r.target_sw = AnyPlatform \/ platform_matches(r.target_sw, input.os) = TRUE
    IN  /\ \E r \in input.rows : _canonical_family_key(r) = family /\ Fits(r)
        /\ \A r \in input.rows :
             (/\ Fits(r) /\ r.target_sw = family.target_sw /\ {r.sw_edition, r.edition, r.target_hw} = {"*"}
              /\ \A s \in input.rows : _canonical_family_key(s) = _canonical_family_key(r) /\ Fits(s) =>
                   s.vendor = 50 /\ s.same_title)
             => _canonical_family_key(r) = family

\* What is said of a product and a vulnerability is what the evidence says.
AnswersFollowEvidence == AnswerIsForced /\ CnaFollowsRanges /\ MappingIsEvidenced

Urgency(level) ==
  CASE level = "P1_IMMEDIATE" -> 1 [] level = "P2_URGENT" -> 2 [] level = "P3_PLANNED" -> 3 [] OTHER -> 4

\* More evidence of exploitation or a higher score never makes a CVE less
\* urgent, not even when it settles a conflict between the sources.
PriorityFollowsEvidence ==
  DecidedOf("triage") =>
    \A b \in {[input.a EXCEPT !.kev_answered = TRUE, !.kev = TRUE], [input.a EXCEPT !.ransomware = TRUE],
              [input.a EXCEPT !.cvss = 98], [input.a EXCEPT !.ssvc = "ACTIVE"]} :
      IF output.level = "MANUAL_REVIEW" THEN calculate_priority(b) = output.level
      ELSE Urgency(calculate_priority(b)) <= Urgency(output.level)

\* Support that has ended does not come back: no later day has a better answer.
SupportNeverReturns ==
  DecidedOf("support") /\ output \in {"OUT_OF_SUPPORT", "NEARING_END_OF_SUPPORT"} =>
    \A day \in input.today..LastDay :
      assess(input.version, input.entries, day, input.nearing) \in
        {output, "OUT_OF_SUPPORT", NOT_EVALUATED}

\* Evidence of danger never calms the triage, and time never brings support back.
TriageFollowsEvidence == PriorityFollowsEvidence /\ SupportNeverReturns

=============================================================================
