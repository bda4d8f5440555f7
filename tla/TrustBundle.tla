---------------------------- MODULE TrustBundle ----------------------------
(***************************************************************************)
(* What the trusted collector verifies before it runs a collection script: *)
(* the trust policy of the endpoint, the publisher's release, the Lab's    *)
(* session envelope, the archive, the staged files, and the policies of    *)
(* Windows (collector/trusted/, bootstrapper/Program.cs and the script).   *)
(* A digest is the value it stands for, a content is a name, and a path    *)
(* has a name, which Windows compares, and a spelling.  Sizes and the      *)
(* syntax of fields are left out.                                          *)
(***************************************************************************)
EXTENDS Decision, Integers, FiniteSets, SequencesExt

CONSTANTS
  Skew,        \* how far a clock may be ahead of the issuer's
  MaxSession   \* the longest life of a session envelope

\* A policy that is not set is no policy against scripts.
ASSUME PolicyAssumption == None # "Restricted"

Path(name) == [name |-> name, spelling |-> "exact"]

Script == Path("Invoke-CSACollector.ps1")
Manifest == Path("trusted-manifest.json")
Configuration == Path("session-config.json")
Certificate == Path("server-cert.pem")
DataPaths == {Configuration, Certificate, Path("offline-public.xml"), Path("OPERATOR-INSTRUCTIONS.txt")}

\* The script takes every file of the manifest's name for the manifest, wherever it is.
NestedManifest == Path("collector/trusted-manifest.json")
CalledManifest == {Manifest.name, NestedManifest.name}

Names(entries) == {e.path.name : e \in entries}

\* No two entries of a list are the same file for Windows.
distinct(list) == \A i, j \in DOMAIN list : list[i].path.name = list[j].path.name => i = j

-----------------------------------------------------------------------------
\* The signed documents

\* Protocol.Window
Window(v, now) == v.from <= now + Skew /\ v.from < v.until /\ now < v.until

\* Protocol.Policy
Policy(p, now) ==
  LET Spkis(role) == {p[role][i].spki : i \in DOMAIN p[role]}
  IN  /\ Window(p, now)
      /\ now < p.fresh /\ p.fresh <= p.until
      /\ p.minimum >= 1
      /\ \A role \in {"publishers", "labs"} :
           /\ p[role] # <<>>
           /\ \A i, j \in DOMAIN p[role] : p[role][i].id = p[role][j].id => i = j
           /\ \A k \in ToSet(p[role]) : k.from < k.until
      /\ Spkis("publishers") \cap Spkis("labs") = {}

\* Protocol.Key
Key(p, role, id, now) == {k \in ToSet(p[role]) : k.id = id /\ ~k.revoked /\ Window(k, now)}

\* Protocol.VerifySigned
VerifySigned(v, signature, p, role, now) ==
  /\ \E k \in Key(p, role, v.key, now) :
       /\ signature.of = v /\ signature.strong
       /\ signature.from <= now /\ now < signature.until
       /\ signature.spki = k.spki
       /\ role = "publishers" => signature.certificate = k.certificate
       /\ role = "labs" => v.lab = k.lab /\ v.origin = k.origin /\ v.tls = k.tls
  /\ Window(v, now)
  /\ role = "publishers" => v.type = "CSA_PUBLISHER_RELEASE" /\ v.sequence >= p.minimum
  /\ role = "labs" => /\ v.type = "CSA_LAB_SESSION" /\ v.schema \in {1, 2}
                      /\ v.recipient = p.endpoint /\ v.mode = "STANDARD_USER_COLLECTION"
                      /\ v.until - v.from <= MaxSession

\* Protocol.VerifyProfile
VerifyProfile(release, session) ==
  LET matches == {i \in DOMAIN release.profiles : release.profiles[i].id = session.profile}
  IN  /\ Cardinality(matches) = 1
      /\ \A i \in matches : /\ release.profiles[i].digest = session.profile_digest
                           /\ release.profiles[i].privacy = session.privacy

\* Protocol.EngineInventory
EngineInventory(release) ==
  /\ distinct(release.files)
  /\ Script.name \in Names(ToSet(release.files))
  /\ \A f \in ToSet(release.files) : f.path # Manifest /\ f.path.name \notin {d.name : d \in DataPaths}

\* BundleMetadata.Verify
BundleVerified(b, now) ==
  /\ VerifySigned(b.release, b.release_signature, b.policy, "publishers", now)
  /\ b.release.bootstrap = b.executable.content /\ b.release.entry_point = b.entry_point
  /\ VerifySigned(b.session, b.session_signature, b.policy, "labs", now)
  /\ b.session.release = b.release
  /\ b.session.receipt_required
  /\ VerifyProfile(b.release, b.session)
  /\ EngineInventory(b.release)

-----------------------------------------------------------------------------
\* The archive

\* Fault: what the Lab signed is taken for what the publisher released.
VerifyArchive_signed(archive, release, session) ==
  /\ session.package = archive
  /\ VerifyProfile(release, session)
  /\ Script.name \in Names(ToSet(archive))

\* Protocol.VerifyArchive
VerifyArchive(archive, release, session) ==
  LET engine == ToSet(release.files)
      entries == ToSet(archive)
  IN  /\ session.package = archive
      /\ VerifyProfile(release, session)
      /\ distinct(archive)
      /\ \A e \in entries :
           IF e.path = Manifest THEN e.content = session.manifest
           ELSE IF e.path.name \in Names(engine) THEN e \in engine
           ELSE e.path \in DataPaths
      /\ Names(engine) \cup {d.name : d \in DataPaths \cup {Manifest}} \subseteq Names(entries)

\* ReadTrustedManifest
ReadTrustedManifest(list) == distinct(list) /\ Manifest.name \notin Names(ToSet(list))

\* ExtractVerifiedArchive; lists are the file lists that manifests contain.
ExtractVerifiedArchive(archive, lists) ==
  LET entries == ToSet(archive)
      manifest == {e \in entries : e.path.name = Manifest.name}
  IN  /\ distinct(archive) /\ manifest # {}
      /\ \A m \in manifest :
           LET declared == lists[m.content].files
           IN  /\ ReadTrustedManifest(declared)
               /\ Names(entries \ manifest) = Names(ToSet(declared))
               /\ \A e \in entries \ manifest, d \in ToSet(declared) :
                    e.path.name = d.path.name => e.content = d.content

-----------------------------------------------------------------------------
\* The staged files

ContentAt(staged, path) == {e.content : e \in {f \in staged : f.path.name = path.name}}

\* LeaseVerifiedFiles: what is staged of the archive, and then held.
LeaseVerifiedFiles(archive, staged) ==
  \A e \in ToSet(archive) : ContentAt(staged, e.path) = {e.content}

\* VerifyTrustedConfiguration
VerifyTrustedConfiguration(b) ==
  \E c \in ContentAt(b.staged, Configuration), m \in ContentAt(b.staged, Manifest) :
    LET config == b.configs[c]  list == b.lists[m]  s == b.session
    IN  /\ config.assessment = s.assessment /\ list.assessment = s.assessment
        /\ config.origin = s.origin /\ config.tls = s.tls /\ list.tls = s.tls
        /\ config.mode = s.mode /\ config.profile = s.profile
        /\ config.profile_digest = s.profile_digest /\ list.profile_digest = s.profile_digest
        /\ config.envelope = s.envelope
        /\ IF s.schema = 2 THEN config.proof = s.authorization ELSE config.proof = s.nonce
        /\ ContentAt(b.staged, config.privacy) = {s.privacy}
        /\ config.until = s.until
        /\ ContentAt(b.staged, Certificate) = {s.tls}

\* Test-CSATrustedPackage, without the signatures of the scripts.
TestTrustedPackage(b) ==
  \E m \in ContentAt(b.staged, Manifest) :
    LET declared == b.lists[m].files
        others == {e \in b.staged : e.path.name \notin CalledManifest}
    IN  /\ ReadTrustedManifest(declared)
        /\ \A d \in ToSet(declared) : ContentAt(b.staged, d.path) = {d.content}
        /\ Names(others) = Names(ToSet(declared))

\* What the script asks of its configuration and of its process.
RunPermitted(b) ==
  \A c \in ContentAt(b.staged, Configuration) :
    /\ b.configs[c].mode = "STANDARD_USER_COLLECTION" /\ ~b.configs[c].active_validation
    /\ b.launched < b.configs[c].until
    /\ ~b.process.elevated /\ b.process.integrity = "MEDIUM"

-----------------------------------------------------------------------------
\* Windows

\* VerifyPublisherExecutable
VerifyPublisherExecutable(b, now) ==
  /\ b.executable.authenticode
  /\ LET keys == {i \in DOMAIN b.policy.publishers :
                    /\ b.policy.publishers[i].spki = b.executable.spki
                    /\ b.policy.publishers[i].certificate = b.executable.certificate}
     IN  /\ Cardinality(keys) = 1
         /\ \A i \in keys : Key(b.policy, "publishers", b.policy.publishers[i].id, now) # {}

\* VerifyEnforcedScriptPolicy: the policy of the machine comes before the user's.
VerifyEnforcedScriptPolicy(machine, user) ==
  LET effective == IF machine.enabled # None \/ machine.execution # None THEN machine ELSE user
  IN  effective.enabled # 0 /\ effective.execution # "Restricted"

\* RunTrusted up to the script's own work: everything by the time it started
\* at, and the session once more before the script is started.
RunTrustedVerified(b) ==
  /\ ~b.process.elevated
  /\ Policy(b.policy, b.started)
  /\ VerifyPublisherExecutable(b, b.started)
  /\ VerifyEnforcedScriptPolicy(b.machine, b.user)
  /\ BundleVerified(b, b.started)
  /\ b.local => b.session.schema = 1
  /\ VerifyArchive(b.archive, b.release, b.session)
  /\ ExtractVerifiedArchive(b.archive, b.lists)
  /\ VerifyTrustedConfiguration(b)
  /\ LeaseVerifiedFiles(b.archive, b.staged)
  /\ Window(b.session, b.launched)
  /\ TestTrustedPackage(b) /\ RunPermitted(b)

\* A collection with the trusted collector.
StartTrusted == Decide("bundle", [accepted |-> RunTrustedVerified(input)])

-----------------------------------------------------------------------------

\* Only what both parties signed runs.  When the script does its work, an
\* enrolled publisher and an enrolled Lab, two different keys that were neither
\* revoked nor out of date, vouched for it; each staged file is one of the
\* publisher's inventory as it was released, or one of the few the session
\* brings (or bears the manifest's name, which alone is not compared), and
\* none is missing; the session is
\* meant for this endpoint, still open, under a profile the publisher approved,
\* and its configuration leads to the address and the certificate enrolled for
\* the Lab; and a machine policy against scripts is never overruled by the user's.
OnlySignedRuns ==
  DecidedOf("bundle") /\ output.accepted =>
    LET b == input
        Enrolled(role, id) == {k \in ToSet(b.policy[role]) : k.id = id}
    IN  /\ \E p \in Enrolled("publishers", b.release.key), l \in Enrolled("labs", b.session.key) :
             /\ ~p.revoked /\ ~l.revoked /\ p.spki # l.spki
             /\ b.started < p.until /\ b.started < l.until
             /\ p.spki = b.release_signature.spki /\ b.release_signature.of = b.release
             /\ l.spki = b.session_signature.spki /\ b.session_signature.of = b.session
             /\ \A c \in ContentAt(b.staged, Configuration) :
                  b.configs[c].origin = l.origin /\ b.configs[c].tls = l.tls
             /\ ContentAt(b.staged, Certificate) = {l.tls}
        /\ \A f \in ToSet(b.release.files) :
             f.path.name # Manifest.name => ContentAt(b.staged, f.path) = {f.content}
        /\ Names(b.staged) \subseteq
             Names(ToSet(b.release.files)) \cup {d.name : d \in DataPaths} \cup CalledManifest
        /\ b.session.recipient = b.policy.endpoint /\ b.launched < b.session.until
        /\ \E p \in ToSet(b.release.profiles) :
             /\ p.id = b.session.profile /\ p.digest = b.session.profile_digest
             /\ \E e \in b.staged : e.content = p.privacy
        /\ 0 # b.machine.enabled /\ b.machine.execution # "Restricted"

=============================================================================
