--------------------------- MODULE EndpointPosture ---------------------------
(***************************************************************************)
(* What a report says of an endpoint from several sources that may be      *)
(* missing, stale or in conflict: its malware protection                   *)
(* (evidence/malware_protection.py), its BitLocker volume (bitlocker.py),  *)
(* the administrator membership of the account the collector ran as        *)
(* (administrator_membership.py, administrative_privileges.py), and each   *)
(* installed product (analyzer.py).  None is a value that was not          *)
(* collected; versions, wording and names that decide nothing are left     *)
(* out.                                                                    *)
(***************************************************************************)
EXTENDS Integers, FiniteSets, Decision

CONSTANT MaximumSignatureAge   \* in days, 3 without a policy

(* Malware protection.  An input has products, the registrations of the      *)
(* Security Center in their order or None, and what Defender says of itself. *)

DefenderLabels == {"Microsoft Defender", "Windowsi kaitsja"}

\* What is not there is no product, and a policy allows so many days.
ASSUME PostureAssumption == None \notin DefenderLabels \cup {"Defender"} /\ MaximumSignatureAge \in Nat

\* Localized names of Defender are one product.
_canonical_product_name(name) == IF name \in DefenderLabels THEN "Defender" ELSE name

\* The registrations that have a name, by their places.
named(i) == IF i.products = None THEN {} ELSE {n \in DOMAIN i.products : i.products[n].name # None}
name_of(i, n) == _canonical_product_name(i.products[n].name)
named_products(i) == {[i.products[n] EXCEPT !.name = name_of(i, n)] : n \in named(i)}

\* Registrations of one product are merged: it is on when one of them is, and the
\* first one that knows the signatures tells.
registrations(i, name) == {n \in named(i) : name_of(i, n) = name}
merged(i, name) ==
  LET own == registrations(i, name)
      on == {n \in own : i.products[n].state = "ON"}
      said == {n \in own : i.products[n].signature # "UNKNOWN"}
  IN  [name |-> name, state |-> IF on # {} THEN "ON" ELSE i.products[earliest(own)].state,
       signature |-> IF said = {} THEN "UNKNOWN" ELSE i.products[earliest(said)].signature]

\* _deduplicate_products
registered_products(i) == {merged(i, name_of(i, n)) : n \in named(i)}
registered_defender(i) == {p \in registered_products(i) : p.name = "Defender"}
active_products(i) == {p \in registered_products(i) : p.state = "ON"}
third_party(i) == {p \in active_products(i) : p.name # "Defender"}
defender_on(i) == i.enabled = TRUE /\ i.realtime = TRUE

\* The active product that was registered first.
first_third_party(i) ==
  merged(i, name_of(i, earliest({n \in named(i) : merged(i, name_of(i, n)) \in third_party(i)})))

\* Defender protects: nobody else does, and it is registered as on or says so itself.
active_defender(i) == third_party(i) = {} /\ (active_products(i) # {} \/ defender_on(i))

registration_conflict(i) == active_defender(i) /\ \E p \in registered_defender(i) : p.state # "ON"

security_center_signature(i) ==
  IF third_party(i) # {} THEN first_third_party(i).signature
  ELSE IF registered_defender(i) # {} THEN merged(i, "Defender").signature
  ELSE "UNKNOWN"

direct_freshness(i) ==
  CASE i.age = None \/ i.age < 0 -> "UNKNOWN"
    [] i.age # None /\ i.age > MaximumSignatureAge -> "OUT_OF_DATE"
    [] OTHER -> "UP_TO_DATE"

freshness_conflict(i) ==
  active_defender(i) /\ {direct_freshness(i), security_center_signature(i)} = {"UP_TO_DATE", "OUT_OF_DATE"}

freshness_status(i) ==
  CASE freshness_conflict(i) -> "SOURCE_CONFLICT"
    [] ~freshness_conflict(i) /\ active_defender(i) /\ direct_freshness(i) # "UNKNOWN" -> direct_freshness(i)
    [] ~active_defender(i) /\ third_party(i) = {} -> "UNKNOWN"
    [] OTHER -> security_center_signature(i)

\* Fault: the registration in the Security Center is not compared.
defender_status_unregistered(i) ==
  IF \/ FALSE \in {i.enabled, i.realtime, i.cloud, i.pua} \/ freshness_conflict(i)
     \/ freshness_status(i) # "UP_TO_DATE"
  THEN "PARTIAL" ELSE "PASS"

defender_status(i) ==
  IF \/ FALSE \in {i.enabled, i.realtime, i.cloud, i.pua}
     \/ registration_conflict(i) \/ freshness_conflict(i) \/ freshness_status(i) # "UP_TO_DATE"
  THEN "PARTIAL" ELSE "PASS"

\* The answers in the order of the code, which has one more for a Defender that
\* is on and not active; there is none.
malware_status(i) ==
  IF i.products # None /\ active_products(i) = {} /\ ~active_defender(i)
  THEN IF \/ \E p \in registered_products(i) : p.state = "UNKNOWN"
          \/ i.products # <<>> /\ registered_products(i) = {}
       THEN "PARTIAL" ELSE "FAIL"
  ELSE IF third_party(i) # {}
  THEN IF freshness_status(i) = "UP_TO_DATE" THEN "PASS" ELSE "PARTIAL"
  ELSE IF i.passive
  THEN IF active_products(i) # {} THEN "PARTIAL" ELSE "NOT_EVALUATED"
  ELSE IF i.realtime = FALSE /\ i.products # None THEN "FAIL"
  ELSE IF active_defender(i) THEN defender_status(i)
  ELSE IF {i.enabled, i.realtime} # {None} THEN "PARTIAL"
  ELSE "NOT_EVALUATED"

\* The product that the report calls the active one.
selected(i) ==
  IF third_party(i) # {} THEN first_third_party(i).name
  ELSE IF active_defender(i) THEN "Defender" ELSE None

\* A Defender that is only known by what it says of itself is listed as well.
listed_products(i) ==
  registered_products(i) \cup
    IF active_defender(i) /\ registered_defender(i) = {}
    THEN {[name |-> "Defender", state |-> "DIRECT_EVIDENCE", signature |-> "UNKNOWN"]} ELSE {}

product_role(i, p) ==
  IF p.name = "Defender" /\ (third_party(i) # {} \/ i.passive) THEN "PASSIVE"
  ELSE IF p.name = selected(i) THEN "PRIMARY" ELSE "INACTIVE"

product_protection(i, p) ==
  IF p.name # selected(i)
  THEN IF product_role(i, p) = "PASSIVE" THEN "PASSIVE_NOT_PRIMARY"
       ELSE IF p.state # "ON" THEN "INACTIVE" ELSE "UNKNOWN"
  ELSE IF ~active_defender(i) THEN "ENABLED"
  ELSE IF FALSE \in {i.enabled, i.realtime} THEN "DISABLED"
  ELSE IF i.realtime = TRUE THEN "ENABLED" ELSE "PARTIAL"

_enrich_product_inventory(i) ==
  {[name |-> p.name, role |-> product_role(i, p), protection |-> product_protection(i, p)] :
     p \in listed_products(i)}

evaluate_malware_protection(i) ==
  [status |-> malware_status(i), inventory |-> _enrich_product_inventory(i),
   confirmed |-> \/ third_party(i) # {}
                 \/ active_defender(i) /\ FALSE \notin {i.enabled, i.realtime}]

-----------------------------------------------------------------------------
(* BitLocker.  An input has setting (it is that of the OS volume), collection, *)
(* value, provider, authority, os_volume, encryption, lock, percentage,        *)
(* protection and shell, the reading of the Windows Shell.                     *)

authoritative(b) == b.authority /\ b.provider = "direct" /\ b.os_volume

SHELL_LABELS ==
  <<"ON", "OFF", "TRANSITIONING", "TRANSITIONING", "SUSPENDED", "LOCKED">>

\* A reading that is not recorded as one counts for the two values of old evidence.
shell_read(b) ==
  CASE b.shell.failed -> "ERROR"
    [] ~b.shell.failed /\ b.shell.read # None -> b.shell.read
    [] ~b.shell.failed /\ b.shell.read = None /\ b.provider = "shell" /\ b.shell.value \in {1, 2} -> "SUCCESS"
    [] OTHER -> "UNAVAILABLE"

_shell_observation(b) ==
  CASE shell_read(b) # "SUCCESS" \/ ~b.os_volume -> "UNKNOWN"
    [] shell_read(b) = "SUCCESS" /\ b.os_volume /\ b.shell.value = 0 -> "OFF"
    [] shell_read(b) = "SUCCESS" /\ b.os_volume /\ b.shell.value \in DOMAIN SHELL_LABELS ->
         SHELL_LABELS[b.shell.value]
    [] OTHER -> "UNKNOWN"

volume_conversion(b) ==
  LET recorded == IF b.encryption = "USED_SPACE_ONLY" THEN "FULLY_ENCRYPTED" ELSE b.encryption IN
  CASE authoritative(b) /\ recorded # "SOURCE_CONFLICT" /\ b.lock = "LOCKED" -> "LOCKED"
    [] authoritative(b) /\ (recorded = "SOURCE_CONFLICT" \/ b.lock # "LOCKED") -> recorded
    [] ~authoritative(b) /\ recorded = "SOURCE_CONFLICT" /\ b.provider # "shell" -> recorded
    [] OTHER -> "UNKNOWN"

Unsettled == {"ENCRYPTION_IN_PROGRESS", "DECRYPTION_IN_PROGRESS", "ENCRYPTION_PAUSED", "DECRYPTION_PAUSED",
              "WIPE_IN_PROGRESS_OR_PAUSED", "LOCKED"}
Collected == {"SUCCESS", "PARTIAL"}

\* The fields of the operating system's volume contradict each other.
volume_conflict(b) ==
  LET full == [FULLY_ENCRYPTED |-> 100, FULLY_DECRYPTED |-> 0] IN
  \/ b.protection # (IF b.value THEN "ON" ELSE "OFF")
  \/ volume_conversion(b) \in DOMAIN full /\ b.percentage \notin {None, full[volume_conversion(b)]}
  \/ b.value /\ volume_conversion(b) = "FULLY_DECRYPTED"

volume_state(b) ==
  LET conversion == volume_conversion(b) IN
  CASE volume_conflict(b) -> "SOURCE_CONFLICT"
    [] ~volume_conflict(b) /\ b.value /\ conversion = "FULLY_ENCRYPTED" -> "ENABLED"
    [] ~volume_conflict(b) /\ ~b.value /\ conversion = "FULLY_DECRYPTED" -> "DISABLED_FULLY_DECRYPTED"
    [] ~volume_conflict(b) /\ ~b.value /\ conversion \in {"FULLY_ENCRYPTED", "SUSPENDED"} ->
         "PROTECTION_OFF_ENCRYPTED"
    [] OTHER -> "NOT_EVALUATED"

recorded_state(b) ==
  LET conversion == volume_conversion(b) IN
  IF conversion = "SOURCE_CONFLICT" THEN "SOURCE_CONFLICT"
  ELSE IF b.collection \in Collected /\ conversion \in Unsettled THEN conversion
  ELSE IF b.collection = "FAILED" THEN "ERROR"
  ELSE IF b.setting /\ b.collection = "SUCCESS" /\ authoritative(b) /\ b.value # None THEN volume_state(b)
  ELSE "NOT_EVALUATED"

\* The Shell contradicts what the operating system reports.
shell_disagrees(b) ==
  LET indication == _shell_observation(b) IN
  /\ authoritative(b) /\ b.collection \in Collected
  /\ \/ {b.protection, indication} = {"ON", "OFF"}
     \/ indication = "SUSPENDED" /\ b.protection = "ON"
     \/ indication = "TRANSITIONING" /\ volume_conversion(b) \in {"FULLY_ENCRYPTED", "FULLY_DECRYPTED"}
     \/ indication = "LOCKED" /\ b.lock = "UNLOCKED"

\* Fault: the Shell is asked only when nothing else is known.
resolved_state_alone(b) ==
  IF recorded_state(b) = "NOT_EVALUATED" /\ _shell_observation(b) # "UNKNOWN" /\ b.collection \in Collected
  THEN "INDICATED" ELSE recorded_state(b)

resolved_state(b) ==
  CASE shell_disagrees(b) -> "SOURCE_CONFLICT"
    [] ~shell_disagrees(b) /\ recorded_state(b) = "NOT_EVALUATED" /\ _shell_observation(b) # "UNKNOWN"
         /\ b.collection \in Collected -> "INDICATED"
    [] OTHER -> recorded_state(b)

\* resolve_bitlocker: every state has its status.
resolve_bitlocker(b) ==
  LET state == resolved_state(b) IN
  [state |-> state,
   status |-> CASE state = "ENABLED" -> "PASS"
                [] state \in {"DISABLED_FULLY_DECRYPTED", "PROTECTION_OFF_ENCRYPTED"} -> "FAIL"
                [] state \in {"ERROR", "NOT_EVALUATED"} -> state
                [] OTHER -> "PARTIAL"]

-----------------------------------------------------------------------------
(* Administrator membership of the account the collector ran as.  An         *)
(* observation has scoped (a user's identifier, not a built-in one), class,  *)
(* direct (it is in the local list), principal, token and groups, the listed *)
(* groups that the token says the account is in.                             *)

token_valid(o) == o.token # None /\ o.token.success /\ o.token.complete /\ o.token.subject = "same"

\* What a complete token says of the administrators' identifier.
token_member(o) ==
  LET t == o.token IN
  CASE ~token_valid(o) -> "UNKNOWN"
    [] token_valid(o) /\ ~t.present /\ {t.enabled, t.deny} = {FALSE} /\ t.attributes = None -> "ABSENT"
    [] /\ token_valid(o) /\ t.present /\ t.attributes # None
       /\ t.enabled = ("enabled" \in t.attributes) /\ t.deny = ("deny" \in t.attributes)
       /\ ~(t.enabled /\ t.deny) -> IF t.enabled \/ t.deny THEN "MEMBER" ELSE "DISABLED"
    [] OTHER -> "INCONSISTENT"

inherited(o) == IF token_valid(o) THEN o.groups ELSE {}

\* A service by its own class, or by that of the principal found in the list.
service_account(o) ==
  o.class = "SERVICE" \/ (o.class = "UNKNOWN" /\ o.direct = TRUE /\ o.principal.same /\ o.principal.class = "SERVICE")

\* Fault: a miss in the local list is taken for the answer.
member_by_list(o) == IF o.direct = None THEN "NOT_EVALUATED" ELSE IF o.direct THEN "MEMBER" ELSE "NOT_MEMBER"

member_state(o) ==
  LET says == token_member(o)
      conflict ==
        \/ o.direct = TRUE /\ ~o.principal.same
        \/ o.token # None /\ o.token.success /\ o.token.subject = "other"
        \/ says = "INCONSISTENT"
        \/ says = "ABSENT" /\ (o.direct = TRUE \/ inherited(o) # {})
        \/ says = "MEMBER" /\ o.direct = FALSE /\ inherited(o) = {}
  IN  IF ~o.scoped \/ service_account(o) THEN "NOT_EVALUATED"
      ELSE IF conflict THEN "SOURCE_CONFLICT"
      ELSE IF o.direct = TRUE \/ says = "MEMBER" THEN "MEMBER"
      ELSE IF says = "ABSENT" THEN "NOT_MEMBER" ELSE "NOT_EVALUATED"

resolve_administrator_membership(o) ==
  LET state == member_state(o) IN
  [state |-> state,
   status |-> CASE state = "MEMBER" -> "FAIL"
                [] state = "NOT_MEMBER" -> "PASS"
                [] state = "SOURCE_CONFLICT" -> "PARTIAL"
                [] OTHER -> IF o.scoped /\ ~service_account(o) /\ token_member(o) = "DISABLED"
                            THEN "PARTIAL" ELSE "NOT_EVALUATED"]

\* The observation of evidence that has only the list, if its fields agree.
legacy_agrees(a) ==
  /\ a.observation.direct # None /\ (a.control = "FAIL") = a.observation.direct /\ a.listed
  /\ a.observation.direct => a.observation.principal.same /\ a.observation.principal.class # "SERVICE"
  /\ a.settings

\* The stored control is reconciled with the proof it was drawn from: controls
\* of its rule, observed (its evidence: None, "conflict" or "other"), duplicated
\* settings, modern evidence, raw (the proof follows from the settings), control
\* (the stored status).
administrative_privilege_posture(a) ==
  LET Unresolved(state) ==
        [state |-> state, status |-> IF state = "SOURCE_CONFLICT" THEN "PARTIAL" ELSE "NOT_EVALUATED"]
      resolved == resolve_administrator_membership(a.observation)
      old == resolve_administrator_membership([a.observation EXCEPT !.token = None, !.groups = {}, !.class =
               IF a.observation.direct = TRUE THEN a.observation.principal.class ELSE "UNKNOWN"])
  IN  IF a.controls # 1 \/ a.observed = None THEN Unresolved("NOT_EVALUATED")
      ELSE IF a.duplicated \/ (a.modern /\ (~a.raw \/ a.control # resolved.status))
      THEN Unresolved("SOURCE_CONFLICT")
      ELSE IF a.modern THEN resolved
      ELSE IF a.control \notin {"PASS", "FAIL"}
      THEN Unresolved(IF a.observed = "conflict" THEN "SOURCE_CONFLICT" ELSE "NOT_EVALUATED")
      ELSE IF legacy_agrees(a) THEN old ELSE Unresolved("NOT_EVALUATED")

-----------------------------------------------------------------------------
(* An installed product: the applicability of the CVEs found for it          *)
(* (related), its evaluation by the scan (pipeline), how sure its name is    *)
(* (sure) and its support.                                                   *)

\* Fault: an evaluation that did not finish counts.
evaluation_status_unfinished(s) ==
  CASE "AFFECTED" \in s.related -> "CONFIRMED"
    [] "AFFECTED" \notin s.related /\ "POSSIBLY_AFFECTED" \in s.related -> "POSSIBLE"
    [] OTHER -> "NO_KNOWN_VULNERABILITIES"

evaluation_status(s) ==
  CASE "AFFECTED" \in s.related -> "CONFIRMED"
    [] "AFFECTED" \notin s.related /\ "POSSIBLY_AFFECTED" \in s.related -> "POSSIBLE"
    [] s.related \subseteq {"NOT_AFFECTED"} /\ s.pipeline # None /\ s.pipeline.terminal = "COMPLETED" ->
         "NO_KNOWN_VULNERABILITIES"
    [] OTHER -> "NOT_EVALUATED"

product_recognized(s) == s.sure \/ (s.pipeline # None /\ s.pipeline.mapping = "SUCCESS")

_software_results(s) ==
  LET evaluation == evaluation_status(s)
      ended == s.support = "OUT_OF_SUPPORT"
  IN  [evaluation |-> evaluation,
       security |->
         IF ended THEN IF evaluation = "CONFIRMED" THEN "Both vulnerable and out of support" ELSE "Out of support"
         ELSE IF evaluation = "CONFIRMED" THEN "Known vulnerabilities"
         ELSE IF evaluation = "POSSIBLE" THEN "Possible vulnerabilities"
         ELSE IF ~product_recognized(s) THEN "Product not recognized"
         ELSE IF evaluation # "NO_KNOWN_VULNERABILITIES" THEN "CVE not evaluated"
         ELSE IF s.support \notin {"SUPPORTED", "NEARING_END_OF_SUPPORT"} THEN "Lifecycle not evaluated"
         ELSE "None identified"]

-----------------------------------------------------------------------------

Answer == {None} \cup BOOLEAN

\* What a collector may report.
ASSUME EvidenceAssumption ==
  \A i \in Inputs :
    /\ i.kind = "malware" =>
         /\ i.products # None =>
              /\ DOMAIN i.products \subseteq Nat \ {0}
              /\ \A n \in DOMAIN i.products : 1..n \subseteq DOMAIN i.products
              /\ \A n \in DOMAIN i.products : DOMAIN i.products[n] = {"name", "state", "signature"}
         /\ i.age \in {None} \cup Int
         /\ {i.enabled, i.realtime} \subseteq Answer
    /\ i.kind = "bitlocker" =>
         i \in [kind : {"bitlocker"}, setting : BOOLEAN, collection : STRING, value : Answer, provider : STRING,
               authority : BOOLEAN, os_volume : BOOLEAN, encryption : STRING, lock : STRING,
               percentage : {None} \cup Int, protection : STRING,
               shell : [value : {None} \cup Int, read : {None} \cup STRING, failed : BOOLEAN]]
    /\ i.kind = "membership" =>
         /\ {"scoped", "class", "direct", "principal", "token", "groups"} = DOMAIN i.observation
         /\ i.observation.direct \in Answer

AssessMalware == Decide("malware", evaluate_malware_protection(input))
AssessBitLocker == Decide("bitlocker", resolve_bitlocker(input))
AssessMembership == Decide("membership", administrative_privilege_posture(input))
ReportSoftware == Decide("software", _software_results(input))

\* The product of the n-th registration.
product(n) == _canonical_product_name(input.products[n].name)

\* Of the registrations of a product, the first that knows its signatures says so
\* of them.
FirstSaid(name, signature) ==
  \E n \in DOMAIN input.products :
    /\ product(n) = name /\ input.products[n].signature = signature
    /\ \A m \in 1..(n - 1) : product(m) = name => input.products[m].signature = "UNKNOWN"

\* The product is registered first of all that are on and not Defender.
RegisteredFirst(name) ==
  \E n \in DOMAIN input.products :
    /\ product(n) = name
    /\ \A m \in 1..(n - 1) : product(m) \notin {None, "Defender"} =>
         \A k \in DOMAIN input.products : product(k) = product(m) => input.products[k].state # "ON"

\* Malware protection passes only for a product that is registered as on, or for a
\* Defender that says so of itself.  Of other products only the first is looked at,
\* and of its registrations only the first that knows its signatures: it calls them
\* current, whatever the later ones say.  Defender passes when no source calls it
\* off, neither its own age nor that first registration calls its signatures old,
\* and one of the two calls them current.  It fails only when nobody else protects
\* and Defender is off or not there.  The list of products agrees: one is primary
\* if it passes, none is enabled if it fails (evaluate_malware_protection).
ProtectionIsSeen ==
  DecidedOf("malware") =>
    LET on == {p \in named_products(input) : p.state = "ON"}
        others == {p \in on : p.name # "Defender"}
        aged == input.age # None /\ input.age >= 0
        old == aged /\ input.age > MaximumSignatureAge
    IN  /\ output.status = "PASS" =>
             /\ output.confirmed
             /\ others # {} => \E p \in others : RegisteredFirst(p.name) /\ FirstSaid(p.name, "UP_TO_DATE")
             /\ others = {} =>
                  /\ FALSE \notin {input.enabled, input.realtime, input.cloud, input.pua}
                  /\ ~old /\ (input.products # None => ~FirstSaid("Defender", "OUT_OF_DATE"))
                  /\ aged \/ (input.products # None /\ FirstSaid("Defender", "UP_TO_DATE"))
                  /\ \A p \in named_products(input) :
                       p.name = "Defender" => \E q \in on : q.name = "Defender"
        /\ output.status = "FAIL" =>
             /\ ~output.confirmed /\ others = {} /\ input.products # None
             /\ on = {} \/ input.realtime = FALSE
        /\ LET primary == {p \in output.inventory : p.role = "PRIMARY"}
               enabled == {p \in output.inventory : p.protection = "ENABLED"}
           IN  /\ Cardinality(primary) <= 1 /\ Cardinality(enabled) <= 1
               /\ output.status = "PASS" => primary # {} /\ enabled \subseteq primary
               /\ output.status = "FAIL" => enabled = {}

\* A volume passes or fails only on what the operating system says of it; the
\* Windows Shell can cast doubt on that, does so whenever it says otherwise, and
\* never decides.
ShellNeverDecides ==
  DecidedOf("bitlocker") =>
    /\ output.status \in {"PASS", "FAIL"} =>
         /\ input.authority /\ input.os_volume /\ input.collection = "SUCCESS"
         /\ input.value = (output.status = "PASS") /\ input.protection = (IF input.value THEN "ON" ELSE "OFF")
    /\ shell_read(input) = "SUCCESS" =>
         /\ output.status = "PASS" => input.shell.value \notin {0, 2, 3, 4, 5}
         /\ output.status = "FAIL" => input.shell.value # 1
    /\ \A value \in {None} \cup 0..6 :
         resolve_bitlocker([input EXCEPT !.shell.value = value]).status \in
           {resolve_bitlocker([input EXCEPT !.shell.value = None]).status, "PARTIAL"}

\* Who is an administrator is said only on proof, and the local list, when it was
\* missing, could put that in doubt but never turn it around.
MembershipIsProved ==
  DecidedOf("membership") /\ output.state \in {"MEMBER", "NOT_MEMBER"} =>
    LET o == input.observation
        Found == [same : BOOLEAN, class : {"UNKNOWN", "SERVICE"}]
        Later(d, p, g) ==
          resolve_administrator_membership([o EXCEPT !.direct = d, !.principal = p, !.groups = g]).state
    IN  /\ input.control = output.status /\ o.scoped
        /\ output.state = "NOT_MEMBER" => input.modern /\ token_valid(o) /\ ~o.token.present
        /\ output.state = "MEMBER" => o.direct # FALSE \/ o.groups # {}
        /\ input.modern /\ o.direct = None =>
             \A d \in BOOLEAN, p \in Found, g \in {{}, {"group"}} :
               Later(d, p, g) \notin {"MEMBER", "NOT_MEMBER"} \ {output.state}

\* A product without a finding was evaluated to the end, is known by name and is
\* supported; a confirmed CVE is named whatever else is known.
SoundIsEvaluated ==
  DecidedOf("software") =>
    /\ output.security = "None identified" =>
         /\ input.related \subseteq {"NOT_AFFECTED"} /\ input.pipeline # None
         /\ input.pipeline.terminal = "COMPLETED" /\ (input.sure \/ input.pipeline.mapping = "SUCCESS")
         /\ input.support \in {"SUPPORTED", "NEARING_END_OF_SUPPORT"}
    /\ "AFFECTED" \in input.related <=>
         output.security \in {"Known vulnerabilities", "Both vulnerable and out of support"}

\* A posture is earned by evidence: missing evidence leaves it open, sources in
\* conflict leave it in doubt.
PostureIsEarned == ProtectionIsSeen /\ ShellNeverDecides /\ MembershipIsProved /\ SoundIsEvaluated

=============================================================================
