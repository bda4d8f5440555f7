--------------------------- MODULE Applicability ---------------------------
(***************************************************************************)
(* Whether a CVE applies to an installed product, as NVD's configurations  *)
(* say it (cve/applicability.py, cve/environment.py, software/version.py)  *)
(* and as the CNA's affected ranges say it (cve/cna_applicability.py).     *)
(* What the evidence does not decide is NOT_EVALUATED.  A version is the   *)
(* scheme it is written in and its comparison key, a sequence of numbers;  *)
(* product names are the same or not, reasons are left out.                *)
(***************************************************************************)
EXTENDS Integers, Decision, SequencesExt

AFFECTED == "AFFECTED"
NOT_AFFECTED == "NOT_AFFECTED"
NOT_EVALUATED == "NOT_EVALUATED"

----------------------------------------------------------------------------
\* Versions.  A version is a function: the schemes it can be read in, and its
\* key in each of them.

AnyVersion == [any |-> <<>>]   \* "*"
NaVersion == [na |-> <<>>]     \* "-"

\* The order of tuples.
Before(a, b) ==
  \/ Len(a) < Len(b) /\ a = SubSeq(b, 1, Len(a))
  \/ \E i \in DOMAIN a \cap DOMAIN b : a[i] < b[i] /\ \A j \in 1..(i - 1) : a[j] = b[j]

Order(a, b) == IF a = b THEN 0 ELSE IF Before(a, b) THEN -1 ELSE 1

Pad(key) == [i \in 1..4 |-> IF i \in DOMAIN key THEN key[i] ELSE 0]

\* _scheme_key of CPython: release, then a, b, rc or final, then the serial.
_scheme_key(release, level, serial) ==
  release \o <<CASE level = "a" -> 0 [] level = "b" -> 1 [] level = "rc" -> 2 [] OTHER -> 3, serial>>

\* compare_applicability_versions, None when there is no order.  A build number
\* that only one side has makes two numeric versions incomparable.
compare_applicability_versions(left, right, scheme) ==
  IF None \in {left, right} THEN None
  ELSE IF scheme \notin DOMAIN left \cap DOMAIN right THEN None
  ELSE IF scheme # "numeric" THEN Order(left[scheme], right[scheme])
  ELSE LET lhs == Pad(left[scheme])
           rhs == Pad(right[scheme])
       IN  IF /\ (Len(left[scheme]) = 4) # (Len(right[scheme]) = 4)
              /\ SubSeq(lhs, 1, 3) = SubSeq(rhs, 1, 3) /\ lhs[4] # rhs[4]
           THEN None ELSE Order(lhs, rhs)

\* The release a CPython installer's number stands for: micro, level and serial.
decode_msi(minor, number) ==
  LET release == number % 1000
      level == release \div 10
  IN  CASE level \in 10..12 -> [cpython |-> _scheme_key(<<3, minor, number \div 1000>>,
                                                        <<"a", "b", "rc">>[level - 9], release % 10)]
        [] release = 150    -> [cpython |-> _scheme_key(<<3, minor, number \div 1000>>, "final", 0)]
        [] OTHER            -> None

\* version_evidence: a CPython release is decoded from the installer's version
\* and has to agree with the title; other products go by their display version.
version_evidence(software) ==
  CASE software.python ->
         LET decoded == decode_msi(software.minor, software.number)
         IN  [interpreted |-> IF decoded = software.titled THEN decoded ELSE None, scheme |-> "cpython"]
    [] OTHER -> [interpreted |-> software.version, scheme |-> "numeric"]

----------------------------------------------------------------------------
\* Platforms: a family, a release, and what else the name says.

AnyPlatform == [family |-> "*", release |-> None, detail |-> None]

Servers == {"server", "server 2019", "server 2022"}

\* platform_matches over os_identity, None where it cannot be told.
platform_matches(expected, actual) ==
  IF None \in {expected, actual} THEN None
  ELSE LET named == IF expected.detail \in {None, actual.detail} THEN TRUE ELSE None
       IN  CASE expected.family # actual.family -> FALSE
             [] expected.release = None /\ expected.family = "linux" -> named
             [] expected.release = None     -> TRUE
             [] actual.release = None       -> None
             [] expected.release = "server" /\ actual.release \in Servers -> TRUE
             [] expected.release \in Servers /\ actual.release = "server" -> None
             [] expected.release # actual.release -> FALSE
             [] OTHER                       -> named

----------------------------------------------------------------------------
\* NVD criteria

Result(status, vulnerable) == [status |-> status, vulnerable |-> vulnerable]
_unknown == Result(NOT_EVALUATED, FALSE)
_excluded == Result(NOT_AFFECTED, FALSE)

Having(results, status) == {i \in DOMAIN results : results[i].status = status}

\* _combine
_combine(operator, results) ==
  LET confirmed == {i \in Having(results, AFFECTED) : results[i].vulnerable}
  IN  IF DOMAIN results = {} THEN _unknown
      ELSE IF operator = "AND"
      THEN IF Having(results, NOT_AFFECTED) # {} THEN _excluded
           ELSE IF Having(results, NOT_EVALUATED) # {} THEN _unknown
           ELSE Result(AFFECTED, confirmed # {})
      ELSE IF confirmed # {} THEN Result(AFFECTED, TRUE)
      ELSE IF Having(results, NOT_EVALUATED) # {} THEN _unknown
      ELSE IF Having(results, AFFECTED) = {} THEN _excluded
      ELSE Result(AFFECTED, FALSE)

\* The comparisons a criterion asks for: a bound and the orders it allows.
Tests(match) ==
  {<<b.at, IF b.including THEN {0, 1} ELSE {1}>> : b \in match.starts}
    \cup {<<b.at, IF b.including THEN {-1, 0} ELSE {-1}>> : b \in match.ends}
    \cup (IF match.exact = AnyVersion THEN {} ELSE {<<match.exact, {0}>>})

\* The bounds exclude each other, or cannot be compared.
contradictory(match, scheme) ==
  \E s \in match.starts, e \in match.ends :
    LET order == compare_applicability_versions(s.at, e.at, scheme)
    IN  order = None \/ order = 1 \/ (order = 0 /\ ~(s.including /\ e.including))

\* The criterion says nothing about versions that could be decided: a bound is
\* not applicable or there twice, they contradict each other, or there is none.
unreadable(match, scheme) ==
  \/ NaVersion \in {match.exact} \cup {b.at : b \in match.starts \cup match.ends}
  \/ \E bounds \in {match.starts, match.ends} : \E b, c \in bounds : b # c
  \/ contradictory(match, scheme)
  \/ Tests(match) = {} /\ match.vulnerable

\* Fault: an incomparable bound is passed over.
_evaluate_version_lenient(installed, scheme, match) ==
  LET orders == {<<compare_applicability_versions(installed, t[1], scheme), t[2]>> : t \in Tests(match)}
  IN  IF \E o \in orders : o[1] # None /\ o[1] \notin o[2] THEN _excluded
      ELSE Result(AFFECTED, match.vulnerable)

\* _evaluate_version
_evaluate_version(installed, scheme, match) ==
  LET orders == {<<compare_applicability_versions(installed, t[1], scheme), t[2]>> : t \in Tests(match)}
  IN  IF unreadable(match, scheme) \/ \E o \in orders : o[1] = None THEN _unknown
      ELSE IF \E o \in orders : o[1] \notin o[2] THEN _excluded
      ELSE Result(AFFECTED, match.vulnerable)

\* One component of the environment: matched, excluded or open.
component(expected, observed) ==
  IF expected = "*" THEN TRUE
  ELSE IF None \in {observed, expected} \/ expected = "-" THEN None
  ELSE expected = observed

\* _evaluate_environment: platform, then architecture, then edition; another
\* component that is asked for can never be confirmed.
_evaluate_environment(match, architecture, evidence) ==
  LET platform == IF match.target_sw = AnyPlatform THEN TRUE
                  ELSE platform_matches(match.target_sw, evidence.os)
      tests == {platform, component(match.target_hw, architecture),
                component(match.edition, evidence.edition)}
  IN  IF FALSE \in tests THEN _excluded
      ELSE IF None \in tests \/ match.other # "*" THEN _unknown
      ELSE Result(AFFECTED, FALSE)

Windows == [family |-> "windows", release |-> None, detail |-> None]

\* _teams_windows_desktop_start: the lower bound Microsoft names for the classic
\* client on Windows, for a range that has none and names no platform, "-".
_teams_windows_desktop_start(match, evidence) ==
  IF /\ match.desktop # None /\ match.vulnerable /\ match.exact = AnyVersion /\ match.target_sw = None
     /\ match.starts = {} /\ match.ends # {} /\ \A e \in match.ends : ~e.including
     /\ platform_matches(Windows, evidence.os) = TRUE
  THEN [match EXCEPT !.starts = {[at |-> match.desktop, including |-> TRUE]},
                     !.target_sw = Windows]
  ELSE match

\* _evaluate_match.  A criterion is about the operating system, the product
\* itself, or another product.
_evaluate_match(software, match, evidence) ==
  LET installed == version_evidence(software)
      scoped    == _teams_windows_desktop_start(match, evidence)
      InVersion(version, scheme, m, architecture) ==
        _combine("AND", <<_evaluate_version(version, scheme, m),
                          _evaluate_environment(m, architecture, evidence)>>)
      platform == platform_matches(match.os, evidence.os)
      family   == IF match.exact = NaVersion /\ match.starts \cup match.ends = {}
                  THEN [match EXCEPT !.exact = AnyVersion] ELSE match
  IN  CASE match.about = "platform" ->
             IF platform = None THEN _unknown
             ELSE IF platform = FALSE THEN _excluded
             ELSE InVersion(evidence.os_version, "numeric", family, evidence.architecture)
        [] match.about = "unnamed" -> _unknown
        [] match.about = "other" -> IF match.vulnerable THEN _excluded ELSE _unknown
        [] OTHER -> InVersion(installed.interpreted, installed.scheme, scoped, software.architecture)

\* A node over the results of its parts; a leaf is the result of a criterion.
node_result(node, value) ==
  IF node.operator = "LEAF" THEN node.result
  ELSE IF node.operator \notin {"AND", "OR"} THEN _unknown
  ELSE _combine(node.operator, [k \in DOMAIN node.parts |-> value[node.parts[k]]])

\* A tree is a sequence of nodes in which each comes after its parts.
node_results(tree) ==
  LET value[i \in DOMAIN tree] == node_result(tree[i], value)
  IN  value

\* _evaluate_node: the root is last.
_evaluate_node(tree) == node_results(tree)[Len(tree)]

\* evaluate_applicability_result over the configurations of a CVE.
evaluate_applicability_result(identified, configurations) ==
  LET result == _combine("OR", [i \in DOMAIN configurations |-> _evaluate_node(configurations[i])])
  IN  IF \/ ~identified \/ configurations = <<>>
         \/ result.status = AFFECTED /\ ~result.vulnerable
      THEN _unknown ELSE result

----------------------------------------------------------------------------
\* CNA ranges

\* _platform_matches of one label: an operating system, an architecture or both.
LabelMatches(label, architecture, os) ==
  LET on == IF label.os = AnyPlatform THEN TRUE ELSE platform_matches(label.os, os)
      built == component(label.architecture, architecture)
  IN  IF FALSE \in {on, built} THEN FALSE ELSE IF None \in {on, built} THEN None ELSE TRUE

\* _platform_matches: one label is enough.
_platform_matches(labels, architecture, os) ==
  LET results == {LabelMatches(l, architecture, os) : l \in labels}
  IN  IF labels = {} \/ TRUE \in results THEN TRUE ELSE IF None \in results THEN None ELSE FALSE

\* _version_matches: a single version, or from a version to an open or closed bound.
_version_matches(installed, item, scheme) ==
  LET bound == IF item.less_than # None THEN item.less_than ELSE item.less_than_or_equal
      start == IF item.version = AnyVersion THEN 1
               ELSE compare_applicability_versions(installed, item.version, scheme)
      end   == compare_applicability_versions(installed, bound, scheme)
      width == IF item.version = AnyVersion THEN -1
               ELSE compare_applicability_versions(item.version, bound, scheme)
  IN  IF \/ None \notin {item.less_than, item.less_than_or_equal}
         \/ item.version = None \/ (item.version = AnyVersion /\ bound = None) \/ start = None
      THEN None
      ELSE IF bound = None THEN start = 0
      ELSE IF bound = AnyVersion THEN start >= 0
      ELSE IF None \in {end, width} \/ width > 0 \/ (width = 0 /\ item.less_than # None) THEN None
      ELSE start >= 0 /\ (end < 0 \/ (end = 0 /\ item.less_than = None))

\* Fault: the change listed last wins.
_effective_status_listed(installed, item, scheme) ==
  LET Reached(i) == compare_applicability_versions(installed, item.changes[i].at, scheme) \in {0, 1}
      reached == SelectSeq([i \in DOMAIN item.changes |-> i], Reached)
  IN  IF reached = <<>> THEN item.status ELSE item.changes[reached[Len(reached)]].status

\* One change of an item: one that the installed version has reached replaces an
\* earlier one.  The status is None once a change cannot be compared or
\* contradicts the latest one.
changed(installed, scheme, state, change) ==
  LET reached == compare_applicability_versions(installed, change.at, scheme)
      ordering == IF state.latest = None THEN 1
                  ELSE compare_applicability_versions(change.at, state.latest, scheme)
  IN  IF state.status = None \/ reached = -1 THEN state
      ELSE IF None \in {reached, ordering} \/ (ordering = 0 /\ state.status # change.status)
      THEN [state EXCEPT !.status = None]
      ELSE IF ordering < 0 THEN state ELSE [latest |-> change.at, status |-> change.status]

\* What is known before each of the changes, and after the last, in the order
\* they are listed.
change_states(installed, item, scheme) ==
  LET state[n \in 1..(Len(item.changes) + 1)] ==
        IF n = 1 THEN [latest |-> None, status |-> IF item.status = None THEN "unknown" ELSE item.status]
        ELSE changed(installed, scheme, state[n - 1], item.changes[n - 1])
  IN  state

\* _effective_status
_effective_status(installed, item, scheme) ==
  change_states(installed, item, scheme)[Len(item.changes) + 1].status

\* evaluate_cna_applicability.  An item with neither a version nor a status only
\* gives a default; the defaults count when no range holds the version.
evaluate_cna_applicability(software, items, os) ==
  LET installed == version_evidence(software)
      matching == {i \in DOMAIN items : items[i].product}
      Applies(i) == _platform_matches(items[i].platforms, software.architecture, os)
      scoped == {i \in matching : Applies(i) = TRUE}
      Scheme(i) == IF items[i].type = None THEN installed.scheme
                   ELSE IF items[i].type = "pep440" /\ installed.scheme = "cpython" THEN "cpython"
                   ELSE items[i].type
      ranges == {i \in scoped : items[i].version # None \/ items[i].status # None \/ items[i].default = None}
      Holds(i) == _version_matches(installed.interpreted, items[i], Scheme(i))
      holding == {i \in ranges : Holds(i) = TRUE}
      Status(i) == _effective_status(installed.interpreted, items[i], Scheme(i))
      statuses == IF holding # {} THEN {Status(i) : i \in holding} ELSE {items[i].default : i \in scoped}
  IN  IF \/ matching = {} \/ installed.interpreted = None
         \/ \E i \in matching : Applies(i) = None
      THEN NOT_EVALUATED
      ELSE IF scoped = {} THEN NOT_AFFECTED
      ELSE IF \/ \E i \in scoped : items[i].modules \/ Scheme(i) \notin DOMAIN installed.interpreted
              \/ \E i \in ranges : Holds(i) = None
      THEN NOT_EVALUATED
      ELSE IF statuses = {"affected"} THEN AFFECTED
      ELSE IF statuses = {"unaffected"} THEN NOT_AFFECTED ELSE NOT_EVALUATED

============================================================================
