--------------------------- MODULE CpeResolution ---------------------------
(***************************************************************************)
(* Which CPE family an installed product is (cve/cpe_resolver.py): a local *)
(* mapping, or the rows of the NVD catalogue that establish vendor,        *)
(* product and edition, grouped into families and chosen by the platform   *)
(* the collector saw.  Names are compared, never spelled: a row says how   *)
(* well its vendor matches and whether its product and title are the same. *)
(* A family is a vendor and product, with the constraints of the CPE name. *)
(***************************************************************************)
EXTENDS Applicability, FiniteSets

CONSTANTS
  MinimumConfidence,         \* of a mapping that is used, 80
  AmbiguousScoreDifference   \* 5

Wildcards == {"*", "-"}

\* _identity_confidence: vendor, product and editions have to be established;
\* the title only adds to it.  None: rejected.
_identity_confidence(software, row) ==
  IF /\ row.application /\ row.vendor >= 45 /\ row.same_product
     /\ IF software.edition_alias # None THEN row.sw_edition = software.edition_alias
        ELSE row.sw_edition \in Wildcards \cup software.words
     /\ row.edition \in Wildcards \cup software.words
  THEN row.vendor + 35 + (IF row.same_title THEN 10 ELSE 5)
  ELSE None

\* _canonical_family_key
_canonical_family_key(row) ==
  [name |-> row.name, edition |-> row.edition, sw_edition |-> row.sw_edition,
   target_sw |-> row.target_sw, target_hw |-> row.target_hw]

\* _catalog_version_matches
_catalog_version_matches(installed, row) ==
  row.update = "*" /\ compare_applicability_versions(installed.interpreted, row.version, installed.scheme) = 0

\* _family_candidate_sort_key, as the tuple it compares; rows of the same rank
\* make the same candidate.
_family_candidate_sort_key(software, row) ==
  <<IF row.deprecated THEN 1 ELSE 0, IF row.update = "*" THEN 0 ELSE 1, -_identity_confidence(software, row)>>

\* _collapse_equivalent_candidates: one candidate per family, from its active
\* rows when it has any, from those of the installed version when there are.
_collapse_equivalent_candidates(software, rows) ==
  LET installed == version_evidence(software)
      Candidate(family) ==
        LET values == {r \in rows : _canonical_family_key(r) = family}
            active == {r \in values : ~r.deprecated}
            available == IF active # {} THEN active ELSE values
            exact == {r \in available : _catalog_version_matches(installed, r)}
            choice == IF exact # {} THEN exact ELSE available
            best == CHOOSE r \in choice : \A s \in choice :
                      ~Before(_family_candidate_sort_key(software, s), _family_candidate_sort_key(software, r))
        IN  [family |-> family, deprecated |-> best.deprecated, exact |-> exact # {},
             confidence |-> _identity_confidence(software, best)]
  IN  {Candidate(_canonical_family_key(r)) : r \in rows}

\* _is_neutral_family
_is_neutral_family(candidate) ==
  /\ {candidate.family.edition, candidate.family.sw_edition, candidate.family.target_hw} = {"*"}
  /\ candidate.family.target_sw = AnyPlatform

\* Fault: the architecture of a family is not looked at.
ranked_any_architecture(software, os, candidates) ==
  LET active == {c \in candidates : ~c.deprecated}
      platform_match == {c \in active : c.family.target_sw # AnyPlatform
                                        /\ platform_matches(c.family.target_sw, os) = TRUE}
  IN  IF platform_match # {} THEN platform_match
      ELSE {c \in active : c.family.target_sw = AnyPlatform}

\* The candidates that are ranked: active, of the product's architecture, and
\* of its platform; without one for the platform the neutral ones, or those that
\* name no platform.  Empty when none fits.
ranked(software, os, candidates) ==
  LET active == {c \in candidates : ~c.deprecated}
      scoped == {c \in active : c.family.target_hw \in {"*"} \cup ({software.architecture} \ {None})}
      platform_match == {c \in scoped : c.family.target_sw # AnyPlatform
                                        /\ platform_matches(c.family.target_sw, os) = TRUE}
      generic == {c \in scoped : c.family.target_sw = AnyPlatform}
      neutral == {c \in generic : _is_neutral_family(c)}
  IN  IF platform_match # {} THEN platform_match ELSE IF neutral # {} THEN neutral ELSE generic

\* _resolve_local
_resolve_local(mapping) ==
  LET confidence == IF mapping.validated \/ mapping.confidence <= 85 THEN mapping.confidence ELSE 85
  IN  IF mapping = None THEN None ELSE IF confidence < MinimumConfidence THEN None ELSE confidence

\* resolve_with_trace: the status and the candidate, which counts only on SUCCESS.
resolve_with_trace(software, os, rows) ==
  LET installed  == version_evidence(software)
      accepted   == {r \in rows : _identity_confidence(software, r) # None}
      candidates == ranked(software, os, _collapse_equivalent_candidates(software, accepted))
      best == CHOOSE c \in candidates : \A d \in candidates : d.confidence <= c.confidence
      Unmapped(status) == [status |-> status, candidate |-> None, catalogued |-> FALSE]
  IN  IF _resolve_local(software.mapping) # None THEN Unmapped("SUCCESS")
      ELSE IF candidates = {} \/ best.confidence < MinimumConfidence THEN Unmapped("NO_RELIABLE_MAPPING")
      ELSE IF \E d \in candidates \ {best} : best.confidence - d.confidence < AmbiguousScoreDifference
      THEN [status |-> "AMBIGUOUS", candidate |-> best, catalogued |-> FALSE]
      ELSE [status |-> "SUCCESS", candidate |-> best,
            catalogued |-> \E r \in accepted : /\ ~r.deprecated /\ _canonical_family_key(r) = best.family
                                               /\ _catalog_version_matches(installed, r)]

============================================================================
