---------------------------- MODULE MCDecisions ----------------------------
(***************************************************************************)
(* Bounded inputs for the decisions of the analysis.                       *)
(***************************************************************************)
EXTENDS Decisions, BundleInputs, TLC

(* The validation engine *)

MCPolicies ==
  {p \in [allows : {{}, {"enabled"}, {"enabled", "allowNetworkListeners", "allowTemporarySystemChanges"},
                    {"enabled", "allowNetworkListeners", "allowTemporarySystemChanges"} \cup DeepPermits,
                    {"enabled"} \cup DeepPermits \cup Prohibited},
          risks : {{"SAFE_READ_ONLY"}, {"SAFE_READ_ONLY", "LOW_IMPACT", "CONTROLLED_TEMPORARY_CHANGE"}, Risks},
          cidrs : {{}}, maximumValidators : {3, 10}, maximumDuration : {300}, timeout : {20}] :
     _parse_policy(p)}

Permissions == {"nameResolutionSpoofing", "authenticationChallenge", "temporaryListener",
                "temporaryFirewallChange"}

\* The authorization is read before a run, at time 1.  One that grants all, and
\* some that lack one thing.
FullAuthorization ==
  [authorized |-> TRUE, devices |-> {"pc"}, interfaces |-> {"eth"}, sources |-> {"lab"},
   targets |-> {"pc-address"}, protocols |-> {"LLMNR", "HTTP"}, permissions |-> Permissions,
   identity |-> "DEDICATED_TEST_ACCOUNT", from |-> 0, until |-> 2,
   validators |-> {"EXPOSURE", "DEEP", "NTLM", "SMB", "WPAD"}]

MCAuthorizations ==
  {a \in UNION {{[b EXCEPT !.validators = vs] :
                   vs \in {{"EXPOSURE", "DEEP"}, {"SCRIPTBLOCK"}, FullAuthorization.validators}} :
                 b \in {FullAuthorization,
                        [FullAuthorization EXCEPT !.permissions = {}],
                        [FullAuthorization EXCEPT !.permissions = @ \cup {"hashCracking"}],
                        [FullAuthorization EXCEPT !.identity = None],
                        [FullAuthorization EXCEPT !.identity = "MACHINE_ACCOUNT_OBSERVATION"],
                        [FullAuthorization EXCEPT !.sources = {}],
                        [FullAuthorization EXCEPT !.until = 1]}} :
     load_authorization(a, 1)}

\* The registry of the package, and others that a change of it could produce.
MCRegistries ==
  {r \in {Registry,
          [Registry EXCEPT !["WPAD"].status = "REVIEW_REQUIRED"],
          [Registry EXCEPT !["SMB"].risk = "LOW_IMPACT"],
          [Registry EXCEPT !["SMB"].depends = {"WPAD"}],
          [Registry EXCEPT !["NTLM"].depends = {"EXPOSURE"}],
          [Registry EXCEPT !["NTLM"].depends = {"NTLM"}]} : _validate_definition(r)}

MCLive == [interface |-> "eth", listener |-> "lab", target |-> "pc-address", protocol |-> "LLMNR",
           computer |-> "pc"]

MCRequests ==
  [kind : {"plan"}, requested : {{}, {"EXPOSURE"}, {"DEEP"}, {"SCRIPTBLOCK"}, {"other"}},
   profile : {None, "safe_read_only", "safe_local", "deep"},
   registry : MCRegistries, policy : MCPolicies, authorization : MCAuthorizations,
   device : {"pc"}, platform : {"windows"},
   privileges : {{"STANDARD_USER"}, {"STANDARD_USER", "LOCAL_ADMIN"}},
   rules : {None, {"PROTO-002"}}, live : {None, MCLive}]

MCObservations ==
  [kind : {"assess"}, deep : {None, "INCONCLUSIVE", "EXPOSURE_CONFIRMED", "EXPOSURE_LIKELY",
           "EXPOSURE_PARTIALLY_MITIGATED", "EXPOSURE_NOT_OBSERVED"},
   confirmation : BOOLEAN,
   legacy : {<<None, None>>, <<"PASSED", "FAILED">>, <<"PASSED", "PASSED">>},
   path : {None, TRUE},
   config : BOOLEAN,
   passive : {None, "PASS", "FAIL"},
   ntlm : {<<a, "absent", b, "absent", c>> : a \in {"absent", None, "deny"}, b \in {"absent", "allow", "audit"},
                                             c \in {"absent", "deny", "exceptions"}},
   smb : {None} \cup [client : {None, 0, 1}, server : {1}],
   wpad : {None, [flag |-> 1, autoDetect |-> None, autoConfig |-> None, winHttp |-> None,
                  webClient |-> None]}]

-----------------------------------------------------------------------------
(* Products and vulnerabilities *)

\* Release numbers, with and without a build, and a CPython release.
V(key) == [numeric |-> key]
V1 == V(<<1, 0>>)
V2 == V(<<2, 0>>)
V2b == V(<<2, 0, 0, 5>>)
V3 == V(<<3, 0>>)
P(minor, micro, level, serial) == [cpython |-> _scheme_key(<<3, minor, micro>>, level, serial)]

MCVersions == {V1, V2, V2b, V3}

OS(family, release, detail) == [family |-> family, release |-> release, detail |-> detail]
Win10 == OS("windows", "10", None)
Server22 == OS("windows", "server 2022", None)
Debian == OS("linux", None, "debian")
MCPlatforms == {Windows, Win10, OS("windows", "10", "1809"), Server22, OS("windows", "server", None),
                OS("linux", None, None), Debian}
MCArchitectures == {"x64", "x86"}
MCEditions == {"pro", "home"}

Plain == [python |-> FALSE, minor |-> 0, number |-> 0, titled |-> None, version |-> V2,
          architecture |-> "x64"]
Python(number, titled) == [Plain EXCEPT !.python = TRUE, !.minor = 12, !.number = number,
                                        !.titled = titled, !.version = V1]

Bounds(versions) == {{}} \cup {{[at |-> v, including |-> i]} : v \in versions, i \in BOOLEAN}

Match == [vulnerable |-> TRUE, about |-> "product", os |-> None, exact |-> AnyVersion, starts |-> {},
          ends |-> {[at |-> V3, including |-> FALSE]}, target_sw |-> AnyPlatform, target_hw |-> "*",
          edition |-> "*", other |-> "*", desktop |-> None]
Evidence == [os |-> Win10, os_version |-> V2, architecture |-> "x64", edition |-> "pro"]

\* Version bounds, with the environment open.
VersionCriteria ==
  [kind : {"criterion"},
   software : {[Plain EXCEPT !.version = v] : v \in MCVersions \cup {None}}
                \cup {Python(4150, P(12, 4, "final", 0)), Python(5121, P(12, 5, "rc", 1)),
                      Python(4150, P(12, 5, "final", 0)), Python(4140, None)},
   match : {[Match EXCEPT !.vulnerable = x, !.exact = e, !.starts = s, !.ends = t] :
              x \in BOOLEAN, e \in {AnyVersion, NaVersion, V2, P(12, 4, "final", 0)},
              s \in Bounds({V1, V2b, P(12, 4, "rc", 1)}), t \in Bounds({V2, NaVersion, P(12, 5, "final", 0)})
                \cup {{[at |-> V2, including |-> TRUE], [at |-> V3, including |-> FALSE]}}},
   evidence : {Evidence}]

\* Platforms, architectures and editions, known or not.
EnvironmentCriteria ==
  [kind : {"criterion"},
   software : {[Plain EXCEPT !.architecture = a] : a \in {None, "x86"}},
   match : {[Match EXCEPT !.about = about, !.vulnerable = x, !.os = p, !.target_sw = t, !.target_hw = h,
                          !.edition = d, !.other = o, !.desktop = c] :
              about \in {"product", "platform", "unnamed", "other"}, x \in BOOLEAN,
              p \in {Win10, Debian}, t \in {AnyPlatform, None, Win10, OS("windows", "server", None)},
              h \in {"*", "-", "x64"}, d \in {"*", "home"}, o \in {"*", "any"}, c \in {None, V1, V2b}},
   evidence : {[Evidence EXCEPT !.os = p, !.os_version = v, !.architecture = a, !.edition = d] :
                 p \in {None, OS("windows", "10", "1809"), Server22}, v \in {None, V3},
                 a \in {None, "x86"}, d \in {None, "pro"}}]

\* Trees: a leaf, and a node over trees whose parts are moved behind each other.
Leaf(result) == <<[operator |-> "LEAF", result |-> result, parts |-> <<>>]>>
Leaves == {Leaf(r) : r \in {_unknown, _excluded, Result(AFFECTED, TRUE), Result(AFFECTED, FALSE)}}
Moved(tree, by) ==
  [i \in DOMAIN tree |-> [tree[i] EXCEPT !.parts = [k \in DOMAIN @ |-> @[k] + by]]]
Node(op, trees) ==
  LET sizes == [i \in 0..Len(trees) |-> FoldLeft(LAMBDA n, t : n + Len(t), 0, SubSeq(trees, 1, i))]
      Joined(all, i) == all \o Moved(trees[i], sizes[i - 1])
  IN  Append(FoldLeft(Joined, <<>>, [i \in DOMAIN trees |-> i]),
             [operator |-> op, result |-> None, parts |-> [i \in DOMAIN trees |-> sizes[i]]])
Pairs == {<<>>} \cup {<<a>> : a \in Leaves} \cup {<<a, b>> : a, b \in Leaves}
Nodes == {Node(op, ns) : op \in {"AND", "OR"}, ns \in Pairs} \cup {Node("XOR", <<Leaf(_excluded)>>)}

Configurations ==
  [kind : {"configurations"}, identified : BOOLEAN,
   configurations : {<<>>} \cup {<<n>> : n \in Nodes} \cup {<<m, n>> : m, n \in Nodes}
                      \cup {<<Node("AND", <<m, n>>)>> : m, n \in Nodes}]

\* Affected ranges: from a version, up to another, with changes in between.
Item == [product |-> TRUE, platforms |-> {}, modules |-> FALSE, type |-> None, version |-> V1,
         less_than |-> V3, less_than_or_equal |-> None, status |-> "affected", default |-> "unaffected",
         changes |-> <<>>]
Changes == [at : {V1, V2, V2b, V3}, status : {"affected", "unaffected"}]
Items ==
  {[Item EXCEPT !.changes = c] :
     c \in {<<a>> : a \in Changes} \cup {<<a, b>> : a, b \in Changes}
             \cup {<<a, b, c>> : a, b \in [at : {V1, V2}, status : {"affected", "unaffected"}],
                                 c \in {[at |-> V2, status |-> "affected"], [at |-> V1, status |-> "unaffected"]}}}
OddItems ==
  {Item, [Item EXCEPT !.product = FALSE], [Item EXCEPT !.modules = TRUE], [Item EXCEPT !.type = "semver"],
   [Item EXCEPT !.version = None, !.status = None], [Item EXCEPT !.version = AnyVersion],
   [Item EXCEPT !.less_than = V1], [Item EXCEPT !.less_than = AnyVersion], [Item EXCEPT !.less_than = None],
   [Item EXCEPT !.less_than = None, !.less_than_or_equal = V2], [Item EXCEPT !.less_than_or_equal = V2],
   [Item EXCEPT !.status = "unaffected", !.less_than = V2]}
    \cup {[Item EXCEPT !.platforms = {[os |-> o, architecture |-> a]}] :
            o \in {AnyPlatform, Win10, Debian}, a \in {"*", "x86"}}

CnaRanges ==
  [kind : {"cna"}, os : {None, Win10},
   software : {[Plain EXCEPT !.version = v] : v \in MCVersions \cup {None}},
   items : {<<i>> : i \in Items} \cup {<<i, j>> : i, j \in OddItems}
             \cup {<<[Item EXCEPT !.status = "unaffected", !.less_than = V2], i>> : i \in Items}]

\* Catalogue rows of two names.
Row == [name |-> "A", application |-> TRUE, vendor |-> 50, same_product |-> TRUE, same_title |-> TRUE,
        sw_edition |-> "*", edition |-> "*", target_sw |-> AnyPlatform, target_hw |-> "*",
        update |-> "*", version |-> V2, deprecated |-> FALSE]
Rows ==
  {Row, [Row EXCEPT !.deprecated = TRUE], [Row EXCEPT !.version = V1, !.update = "1"],
   [Row EXCEPT !.name = "B", !.vendor = 45], [Row EXCEPT !.name = "B"],
   [Row EXCEPT !.name = "B", !.update = "1"], [Row EXCEPT !.name = "B", !.same_title = FALSE], [Row EXCEPT !.name = "B", !.same_product = FALSE],
   [Row EXCEPT !.target_hw = "x86"], [Row EXCEPT !.target_hw = "x64", !.same_title = FALSE],
   [Row EXCEPT !.target_sw = Win10, !.vendor = 45], [Row EXCEPT !.target_sw = Debian],
   [Row EXCEPT !.sw_edition = "pro"], [Row EXCEPT !.edition = "home"], [Row EXCEPT !.application = FALSE],
   [Row EXCEPT !.vendor = 0]}

CpeQueries ==
  [kind : {"cpe"}, os : {None, Win10, Server22},
   software : {[architecture |-> a, words |-> w, edition_alias |-> e, mapping |-> m, python |-> FALSE,
                version |-> V2] :
                 a \in {None, "x64"}, w \in {{}, {"pro"}}, e \in {None, "pro"},
                 m \in {None, [validated |-> FALSE, confidence |-> 95],
                        [validated |-> TRUE, confidence |-> 70]}},
   rows : {s \in SUBSET Rows : Cardinality(s) <= 3}]

Triage ==
  [kind : {"triage"},
   a : [kev_answered : BOOLEAN, kev : BOOLEAN, adp_kev : BOOLEAN, ransomware : BOOLEAN, advisory : BOOLEAN,
        cvss : {0, 39, 40, 69, 70, 89, 90}, ssvc : {"UNKNOWN", "POC", "ACTIVE"},
        nvd : {AFFECTED, NOT_AFFECTED, NOT_EVALUATED, "POSSIBLY_AFFECTED"},
        cna : {AFFECTED, NOT_AFFECTED, NOT_EVALUATED}]]

Entry == [major |-> None, policy |-> FALSE, evaluated |-> TRUE, ends |-> None, refresh_after |-> None,
          majors |-> {3}, lts |-> <<>>]
Entries ==
  {[Entry EXCEPT !.major = m, !.evaluated = e, !.ends = d] : m \in {None, 2}, e \in BOOLEAN, d \in {None, 2, 4}}
    \cup {[Entry EXCEPT !.policy = TRUE, !.refresh_after = r,
                        !.lts = <<[minimum |-> <<2, 1>>, until |-> 3], [minimum |-> <<2>>, until |-> 5]>>] :
            r \in {None, 4}}

Support ==
  [kind : {"support"}, version : {<<>>, <<1>>, <<2>>, <<2, 1>>, <<3, 5>>},
   entries : {<<>>} \cup {<<e>> : e \in Entries} \cup {<<e, f>> : e, f \in Entries},
   today : 0..LastDay, nearing : {0, 1}]

-----------------------------------------------------------------------------
(* Compliance profiles and framework packs *)

Requirement(id, rule) ==
  [id |-> id, source |-> "FINDING", reference |-> rule, operator |-> "STATUS_IS", expected |-> "PASS",
   mandatory |-> TRUE, weight |-> 1, composite |-> FALSE, mode |-> "AND", children |-> <<>>]
FieldRequirement(id, op) ==
  [Requirement(id, "field") EXCEPT !.source = "RAW_FIELD", !.operator = op, !.expected = Number(5)]
Composite(mode, children) ==
  [Requirement("both", "-") EXCEPT !.composite = TRUE, !.mode = mode, !.children = children]
Optional(r) == [r EXCEPT !.mandatory = FALSE]

Control(id, requirements) ==
  [framework |-> "f1", id |-> id, scope |-> {"ENDPOINT"}, groups |-> {}, alternative |-> FALSE,
   requirements |-> requirements]
R1 == Requirement("one", "r1")
R2 == Requirement("two", "r2")
Grave == [R2 EXCEPT !.operator = "SEVERITY_AT_LEAST", !.expected = "HIGH"]

Framework(controls) == {[id |-> "f1", controls |-> controls]}
MCFrameworks ==
  {Framework(<<Control("c1", rs)>>) :
     rs \in {<<R1>>, <<R1, R2>>, <<R1, Optional(R2)>>, <<Optional(R1)>>, <<R1, Grave>>,
             <<R1, Optional([R2 EXCEPT !.source = "EXTERNAL_SYSTEM"])>>,
             <<[R1 EXCEPT !.operator = "EQUALS"], R2>>, <<[R1 EXCEPT !.source = "RULE_METADATA"]>>,
             <<R1, [FieldRequirement("f", "EXISTS") EXCEPT !.reference = "a..b"]>>}
            \cup {<<R1, FieldRequirement("f", op)>> : op \in {"EXISTS", "EQUALS", "CONTAINS", "GREATER_OR_EQUAL"}}
            \cup {<<Optional(FieldRequirement("f", op)), R2>> : op \in {"NOT_EXISTS", "IN", "LESS_THAN"}}
            \cup {<<Composite(mode, cs)>> : mode \in {"AND", "OR"},
                    cs \in {<<R1>>, <<R1, R2>>, <<R1, R1, R2>>, <<R1, FieldRequirement("f", "NOT_EQUALS")>>,
                           <<R1, R1, FieldRequirement("f", "CONTAINS")>>, <<R1, [R2 EXCEPT !.source = "MANUAL_ATTESTATION"]>>}}}
    \cup {Framework(<<[Control("c1", <<R1>>) EXCEPT !.scope = {"ENDPOINT", "ORGANISATION"}]>>),
          Framework(<<Control("c1", <<R1>>), [Control("c2", <<>>) EXCEPT !.scope = {"ORGANISATION"}]>>),
          Framework(<<Control("c1", <<R1>>), [Control("c2", <<>>) EXCEPT !.alternative = TRUE]>>)}

Mapping(rule, relationship, validated, confidence) ==
  [framework |-> "f1", rule |-> rule, controls |-> {"c1", "c2"}, relationship |-> relationship, validated |-> validated,
   confidence |-> confidence]
Sure(rule) == Mapping(rule, "SUPPORTS", TRUE, 90)
MCMappings ==
  {<<Sure("r2")>>} \cup {<<m, Sure("r2")>> :
    m \in {Mapping("r1", "SUPPORTS", v, n) : v \in BOOLEAN, n \in {50, 70, 90}}
            \cup {Mapping("r1", rel, TRUE, 90) : rel \in {"PARTIAL", "CONTEXT_ONLY", "CONTRADICTS"}}}
    \cup {<<Mapping("r1", "SUPPORTS", FALSE, 70), Sure("r1")>>, <<Mapping("r1", "CONTRADICTS", TRUE, 70), Sure("r1")>>}

Found(rule, status) == [rule |-> rule, status |-> status, severity |-> "HIGH"]
FoundOf(rule) == {<<>>} \cup {<<Found(rule, s)>> : s \in {"PASS", "FAIL", "ERROR", "NOT_EVALUATED"}}
MCFindings ==
  {a \o b : a \in FoundOf("r1"), b \in FoundOf("r2")}
    \cup {<<Found("r1", "PASS"), Found("r1", "FAIL")>>,
          <<Found("r1", "PASS"), [Found("r2", "PASS") EXCEPT !.severity = "LOW"]>>}

Profile == [framework |-> "f1", enabled |-> {}, excluded |-> {}, group |-> None]

EvidenceCases ==
  [kind : {"compliance"}, frameworks : MCFrameworks, profiles : {<<Profile>>},
   evidence : [findings : MCFindings, fields : {("field" :> v) : v \in {{}, {Number(5)}, {Number(9)}, {List({5, 6})}}},
               mappings : MCMappings]]

Grouped(id, groups) == [Control(id, <<R1>>) EXCEPT !.groups = groups]
TwoControls(f) ==
  <<[Grouped("c1", {"IG1", "IG2"}) EXCEPT !.framework = f], [Grouped("c2", {"IG2"}) EXCEPT !.framework = f]>>
Profiles ==
  {p \in [framework : {"f1"}, enabled : SUBSET {"c1", "c2"}, excluded : SUBSET {"c1", "c2"}, group : {None, "IG1", "IG2"}] :
     p.enabled \cap p.excluded = {}}

ProfileCases ==
  [kind : {"compliance"}, frameworks : {{[id |-> f, controls |-> TwoControls(f)] : f \in {"f1", "f2"}}},
   profiles : {<<p, q>> : p, q \in Profiles} \cup {<<p, Profile, [Profile EXCEPT !.framework = "f2"]>> : p \in Profiles},
   evidence : [findings : {<<>>, <<Found("r1", "PASS")>>}, fields : {<<>>}, mappings : {<<Sure("r1")>>, <<Sure("r1"), [Sure("r1") EXCEPT !.framework = "f2"]>>}]]

\* A pack with one or two mappings, and reviews of them.
PackMapping ==
  [rule |-> "r1", strength |-> "DIRECT", status |-> "VALIDATED", rationale |-> TRUE, reference |-> TRUE,
   release |-> TRUE, reviewer |-> "person", method |-> "PEER_REVIEW", pending |-> FALSE]
Provisional ==
  [PackMapping EXCEPT !.status = "PROVISIONAL", !.reviewer = REVIEW_PENDING, !.method = "IMPORTED_UNREVIEWED",
                      !.pending = TRUE]
Mapped ==
  {<<PackMapping>>, <<Provisional>>, <<[Provisional EXCEPT !.reference = FALSE]>>}
    \cup {<<m, [n EXCEPT !.rule = "r2"]>> :
            m \in {PackMapping, Provisional}, n \in {PackMapping, Provisional,
                  [PackMapping EXCEPT !.strength = "SUPPORTING"], [PackMapping EXCEPT !.strength = "CONTEXTUAL"],
                  [Provisional EXCEPT !.status = "DEPRECATED"]}}
    \cup {<<[PackMapping EXCEPT !.strength = "SUPPORTING"]>>}

Pack == [status |-> "ACTIVE", mode |-> "FORMAL_ASSESSMENT", release |-> TRUE, deprecated |-> FALSE, eits |-> FALSE,
         controls |-> [c \in {"k1"} |-> [level |-> "TECHNICAL", mappings |-> <<>>]]]
Packs ==
  {[Pack EXCEPT !.status = s, !.mode = m, !.controls["k1"] = [level |-> l, mappings |-> ms]] :
     s \in {"ACTIVE", "REVIEW_REQUIRED", "DRAFT"}, m \in {"FORMAL_ASSESSMENT", "TRACEABILITY_ONLY"},
     l \in {"TECHNICAL", "MIXED"}, ms \in Mapped}

Reviewed(rule, decision) ==
  [control |-> "k1", rule |-> rule, decision |-> decision, reviewer |-> "person", dated |-> TRUE,
   method |-> "MANUAL_SOURCE_REVIEW"]
Reviews ==
  {<<>>} \cup {<<Reviewed(r, d)>> : r \in {"r1", "r2"}, d \in {"VALIDATE", "KEEP_PROVISIONAL", "REJECT", "DEPRECATE"}}
    \cup {<<Reviewed("r1", d), Reviewed("r2", e)>> : d, e \in {"VALIDATE", "KEEP_PROVISIONAL", "REJECT"}}
    \cup {<<Reviewed("r1", "VALIDATE"), Reviewed("r1", "REJECT")>>,
          <<[Reviewed("r1", "VALIDATE") EXCEPT !.reviewer = REVIEW_PENDING]>>,
          <<[Reviewed("r1", "VALIDATE") EXCEPT !.method = "IMPORTED_UNREVIEWED"]>>}

Of(rule, status) == [rule |-> rule, status |-> status]
PackCases ==
  [kind : {"framework"}, pack : Packs, decisions : Reviews, known : {{"r1"}, {"r1", "r2"}}, allow_unreviewed : BOOLEAN,
   findings : {<<>>, <<Of("r1", "PASS"), Of("r1", "FAIL"), Of("r2", "PASS")>>,
               <<Of("r1", "PARTIAL"), Of("r1", "PASS")>>, <<Of("r1", "FAIL"), Of("r1", "ERROR")>>,
               <<Of("r1", "PASS"), Of("r2", "PASS")>>, <<Of("r1", "PASS"), Of("r2", "WARNING")>>,
               <<Of("r1", "FAIL"), Of("r2", "PARTIAL")>>, <<Of("r1", "INFO"), Of("r2", "PASS")>>}]

-----------------------------------------------------------------------------
(* The posture of the endpoint *)

Registered ==
  [name : {None, "Microsoft Defender", "other"}, state : {"ON", "OFF", "UNKNOWN"},
   signature : {"UP_TO_DATE", "OUT_OF_DATE", "UNKNOWN"}]
LocalDefender == [name |-> "Windowsi kaitsja", state |-> "ON", signature |-> "OUT_OF_DATE"]
Answers == {None} \cup BOOLEAN

Labelled == {p \in Registered : p.name # None}
Others == {p \in Registered : p.name = "other"}

\* One or two registrations, of one product or of two.
Registrations ==
  {<<>>} \cup {<<p>> : p \in Registered} \cup {<<p, LocalDefender>> : p \in Registered}
    \cup {<<p, q>> : p, q \in Labelled} \cup {<<p, [q EXCEPT !.name = "second"]>> : p, q \in Others}

MalwareCases ==
  [kind : {"malware"}, products : {None} \cup Registrations, passive : BOOLEAN, enabled : Answers,
   realtime : Answers, cloud : {None}, pua : {None, FALSE}, age : {None, -1, 3, 4}]

Silent == [value |-> None, read |-> None, failed |-> FALSE]
Shells == {Silent} \cup [value : {0, 1, 2, 3, 5, 6, 7}, read : {None, "SUCCESS"}, failed : {FALSE}]
            \cup {[value |-> 2, read |-> "SUCCESS", failed |-> TRUE]}
Volume ==
  [kind |-> "bitlocker", setting |-> TRUE, collection |-> "SUCCESS", value |-> TRUE, provider |-> "direct",
   authority |-> TRUE, os_volume |-> TRUE, encryption |-> "FULLY_ENCRYPTED", lock |-> "UNLOCKED",
   percentage |-> 100, protection |-> "ON", shell |-> Silent]
Conversions == {"USED_SPACE_ONLY", "FULLY_DECRYPTED", "SUSPENDED", "ENCRYPTION_PAUSED", "SOURCE_CONFLICT", "UNKNOWN"}

VolumeCases ==
  {[Volume EXCEPT !.value = v, !.encryption = e, !.lock = l, !.percentage = n, !.protection = p, !.shell = s] :
     v \in Answers, e \in Conversions, l \in {"LOCKED", "UNLOCKED"}, n \in {None, 0, 100},
     p \in {"ON", "OFF", "UNKNOWN"}, s \in Shells}
  \cup
  {[Volume EXCEPT !.setting = t, !.collection = c, !.provider = p, !.authority = a, !.os_volume = o,
                  !.encryption = e, !.shell = s] :
     t \in BOOLEAN, c \in {"SUCCESS", "PARTIAL", "FAILED", "NOT_AVAILABLE"}, p \in {"direct", "shell", "other"},
     a \in BOOLEAN, o \in BOOLEAN, e \in {"FULLY_ENCRYPTED", "SOURCE_CONFLICT", "ENCRYPTION_PAUSED"}, s \in Shells}

Whole ==
  [success : {TRUE}, complete : {TRUE}, subject : {"same"}, present : BOOLEAN, enabled : BOOLEAN, deny : BOOLEAN,
   attributes : {None, {}, {"enabled"}, {"deny"}}]
Absent ==
  [success |-> TRUE, complete |-> TRUE, subject |-> "same", present |-> FALSE, enabled |-> FALSE, deny |-> FALSE,
   attributes |-> None]
Tokens ==
  Whole \cup {[Absent EXCEPT !.success = FALSE], [Absent EXCEPT !.complete = FALSE], [Absent EXCEPT !.subject = None],
              [Absent EXCEPT !.subject = "other"], [Absent EXCEPT !.subject = "other", !.complete = FALSE]}

\* The principal and the groups are read from the local list.
NoPrincipal == [same |-> FALSE, class |-> "UNKNOWN"]
Principals == [same : BOOLEAN, class : {"UNKNOWN", "SERVICE"}]
InList ==
  [direct : {TRUE}, principal : Principals, groups : {{}, {"group"}}]
    \cup [direct : {FALSE}, principal : {NoPrincipal}, groups : {{}, {"group"}}]
    \cup {[direct |-> None, principal |-> NoPrincipal, groups |-> {}]}
Observations ==
  {[scoped |-> s, class |-> c, direct |-> l.direct, principal |-> l.principal, token |-> t, groups |-> l.groups] :
     s \in BOOLEAN, c \in {"UNKNOWN", "LOCAL", "SERVICE"}, l \in InList, t \in {None} \cup Tokens}

MembershipCases ==
  [kind : {"membership"}, controls : {1}, observed : {"other"}, duplicated : {FALSE}, modern : {TRUE},
   raw : {TRUE}, control : {"PASS", "FAIL", "PARTIAL"}, listed : {TRUE}, settings : {TRUE}, observation : Observations]
  \cup
  [kind : {"membership"}, controls : 0..2, observed : {None, "conflict", "other"}, duplicated : BOOLEAN,
   modern : BOOLEAN, raw : BOOLEAN, control : {"PASS", "FAIL", "PARTIAL"}, listed : BOOLEAN, settings : BOOLEAN,
   observation : {o \in Observations : o.scoped /\ o.class = "LOCAL" /\ o.groups = {} /\ o.token = None}]

Ended == [terminal : {"COMPLETED", "FAILED"}, mapping : {"SUCCESS", "NOT_RUN"}]
SoftwareCases ==
  [kind : {"software"}, related : SUBSET {AFFECTED, "POSSIBLY_AFFECTED", NOT_EVALUATED, NOT_AFFECTED},
   pipeline : {None} \cup Ended, sure : BOOLEAN,
   support : {"SUPPORTED", "NEARING_END_OF_SUPPORT", "OUT_OF_SUPPORT", NOT_EVALUATED}]

MCInputs ==
  MalwareCases \cup VolumeCases \cup MembershipCases \cup SoftwareCases \cup
  EvidenceCases \cup ProfileCases \cup PackCases \cup BundleCases \cup
  MCRequests \cup MCObservations
    \cup VersionCriteria \cup EnvironmentCriteria \cup Configurations \cup CnaRanges \cup CpeQueries
    \cup Triage \cup Support

=============================================================================
