---------------------------- MODULE BundleInputs ----------------------------
(***************************************************************************)
(* Bundles for the trusted collector: one that a publisher and a Lab made  *)
(* as they should, and what one or two changes make of it, before or after *)
(* the Lab, or the publisher and the Lab, signed.                          *)
(***************************************************************************)
EXTENDS TrustBundle, FiniteSets, SequencesExt

File(path, content) == [path |-> path, content |-> content]
Respelled(path) == [path EXCEPT !.spelling = "other"]

Engine == <<File(Script, "script"), File(Path("collector/profiles/p.json"), "privacy")>>
SessionFiles ==
  <<File(Manifest, "list"), File(Configuration, "config"), File(Certificate, "lab-tls"),
    File(Path("offline-public.xml"), "offline-key"), File(Path("OPERATOR-INSTRUCTIONS.txt"), "text")>>

PublisherKey == [id |-> "pub", spki |-> "pub-key", certificate |-> "pub-cert", from |-> 0, until |-> 5, revoked |-> FALSE]
LabKey == [id |-> "lab", spki |-> "lab-key", from |-> 0, until |-> 5, revoked |-> FALSE,
           lab |-> "lab-id", origin |-> "lab-origin", tls |-> "lab-tls"]
Profile1 == [id |-> "standard", digest |-> "standard-1", privacy |-> "privacy"]
Release ==
  [key |-> "pub", from |-> 0, until |-> 5, type |-> "CSA_PUBLISHER_RELEASE", sequence |-> 2, bootstrap |-> "exe",
   entry_point |-> "starter", files |-> Engine, profiles |-> <<Profile1>>]
Session ==
  [key |-> "lab", from |-> 1, until |-> 4, type |-> "CSA_LAB_SESSION", schema |-> 1, lab |-> "lab-id",
   origin |-> "lab-origin", tls |-> "lab-tls", recipient |-> "endpoint", mode |-> "STANDARD_USER_COLLECTION",
   profile |-> "standard", profile_digest |-> "standard-1", privacy |-> "privacy", release |-> Release,
   package |-> Engine \o SessionFiles, manifest |-> "list", envelope |-> "envelope", nonce |-> "nonce",
   authorization |-> "proof", assessment |-> "assessment", receipt_required |-> TRUE]
Configured ==
  [assessment |-> "assessment", origin |-> "lab-origin", tls |-> "lab-tls", mode |-> "STANDARD_USER_COLLECTION",
   profile |-> "standard", profile_digest |-> "standard-1", envelope |-> "envelope", proof |-> "nonce",
   privacy |-> Path("collector/profiles/p.json"), until |-> 4, active_validation |-> FALSE]
Listed(archive) ==
  [files |-> SelectSeq(archive, LAMBDA e : e.path.name # Manifest.name), assessment |-> "assessment",
   tls |-> "lab-tls", profile_digest |-> "standard-1"]

\* A file with the content "changed" says something else, whatever it is.
Good ==
  [kind |-> "bundle",
   policy |-> [from |-> 0, until |-> 5, fresh |-> 5, minimum |-> 2, endpoint |-> "endpoint",
               publishers |-> <<PublisherKey>>, labs |-> <<LabKey>>],
   started |-> 2, launched |-> 2, local |-> TRUE, release |-> Release,
   release_signature |-> [of |-> Release, spki |-> "pub-key", certificate |-> "pub-cert", from |-> 0, until |-> 5,
                          strong |-> TRUE],
   session |-> Session,
   session_signature |-> [of |-> Session, spki |-> "lab-key", certificate |-> "lab-cert", from |-> 0, until |-> 5,
                          strong |-> TRUE],
   archive |-> Engine \o SessionFiles,
   configs |-> [c \in {"config", "changed"} |->
                  IF c = "config" THEN Configured ELSE [Configured EXCEPT !.origin = "other-origin", !.tls = "other-tls"]],
   lists |-> [c \in {"list", "changed"} |-> Listed(Engine \o SessionFiles)],
   staged |-> ToSet(Engine \o SessionFiles),
   executable |-> [content |-> "exe", authenticode |-> TRUE, spki |-> "pub-key", certificate |-> "pub-cert"],
   entry_point |-> "starter",
   machine |-> [enabled |-> None, execution |-> None], user |-> [enabled |-> None, execution |-> None],
   process |-> [elevated |-> FALSE, integrity |-> "MEDIUM"]]

PublisherSigns(b) == [b EXCEPT !.release_signature.of = b.release]
LabSigns(b) ==
  LET session == [b.session EXCEPT !.release = b.release, !.package = b.archive]
  IN  [b EXCEPT !.session = session, !.session_signature.of = session]
Packed(b) == [b EXCEPT !.lists = [c \in DOMAIN b.lists |-> Listed(b.archive)], !.staged = ToSet(b.archive)]

-----------------------------------------------------------------------------

Tampered(list) ==
  {[list EXCEPT ![i].content = "changed"] : i \in DOMAIN list}
    \cup {[list EXCEPT ![i].path = Respelled(@)] : i \in DOMAIN list}
    \cup {RemoveAt(list, i) : i \in DOMAIN list}
    \cup {Append(list, [list[i] EXCEPT !.path = Respelled(@)]) : i \in DOMAIN list}
    \cup {Append(list, File(p, "extra")) : p \in {Path("extra.ps1"), NestedManifest, Respelled(Manifest), Manifest}}

Policies(p) ==
  {[p EXCEPT !.publishers[1].revoked = TRUE], [p EXCEPT !.labs[1].revoked = TRUE], [p EXCEPT !.labs[1].until = 2],
   [p EXCEPT !.publishers[1].until = 2], [p EXCEPT !.labs[1].spki = "pub-key"], [p EXCEPT !.labs[1].tls = "other-tls"],
   [p EXCEPT !.publishers[1].certificate = "old-cert"], [p EXCEPT !.minimum = 3], [p EXCEPT !.fresh = 2],
   [p EXCEPT !.until = 2], [p EXCEPT !.publishers = Append(@, [PublisherKey EXCEPT !.id = "pub2"])],
   [p EXCEPT !.labs = Append(@, [LabKey EXCEPT !.spki = "lab2-key"])], [p EXCEPT !.labs = <<>>]}

Releases(r) ==
  {[r EXCEPT !.sequence = 1], [r EXCEPT !.type = "CSA_LAB_SESSION"], [r EXCEPT !.until = 2], [r EXCEPT !.bootstrap = "old-exe"],
   [r EXCEPT !.from = 4], [r EXCEPT !.profiles = <<>>], [r EXCEPT !.profiles = <<Profile1, Profile1>>],
   [r EXCEPT !.profiles[1].privacy = "changed"], [r EXCEPT !.entry_point = "old-starter"]}
    \cup {[r EXCEPT !.files = fs] : fs \in Tampered(r.files)}

Sessions(s) ==
  {[s EXCEPT !.recipient = "other"], [s EXCEPT !.origin = "other-origin"], [s EXCEPT !.tls = "other-tls"],
   [s EXCEPT !.until = 5], [s EXCEPT !.from = 3], [s EXCEPT !.schema = 2], [s EXCEPT !.schema = 3], [s EXCEPT !.manifest = "changed"],
   [s EXCEPT !.profile = "other"], [s EXCEPT !.privacy = "changed"], [s EXCEPT !.receipt_required = FALSE],
   [s EXCEPT !.key = "pub"], [s EXCEPT !.mode = "other"]}

Surroundings(b) ==
  {[b EXCEPT !.launched = t] : t \in 3..5}
    \cup {[b EXCEPT !.started = t, !.launched = t] : t \in {0, 4, 5}}
    \cup {[b EXCEPT !.machine = m, !.user = u] :
            m \in {[enabled |-> None, execution |-> None], [enabled |-> 1, execution |-> None],
                   [enabled |-> 1, execution |-> "Restricted"]},
            u \in {[enabled |-> 0, execution |-> None], [enabled |-> None, execution |-> None]}}
    \cup {[b EXCEPT !.process.elevated = TRUE], [b EXCEPT !.process.integrity = "HIGH"],
          [b EXCEPT !.executable.authenticode = FALSE], [b EXCEPT !.executable.content = "old-exe"], [b EXCEPT !.local = FALSE],
          [b EXCEPT !.release_signature.strong = FALSE], [b EXCEPT !.session_signature.spki = "other-key"],
          [b EXCEPT !.session_signature.until = 2], [b EXCEPT !.configs["config"].active_validation = TRUE],
          [b EXCEPT !.configs["config"].origin = "other-origin"], [b EXCEPT !.configs["config"].proof = "proof"],
          [b EXCEPT !.configs["config"].until = 5], [b EXCEPT !.lists["list"].tls = "other-tls"]}

Changed(b) ==
  {LabSigns(Packed([b EXCEPT !.archive = a])) : a \in Tampered(b.archive)}
    \cup {[b EXCEPT !.archive = a] : a \in Tampered(b.archive)}
    \cup {[b EXCEPT !.staged = ToSet(a)] : a \in Tampered(b.archive)}
    \cup {[b EXCEPT !.policy = p] : p \in Policies(b.policy)}
    \cup {LabSigns(PublisherSigns([b EXCEPT !.release = r])) : r \in Releases(b.release)}
    \cup {LabSigns([b EXCEPT !.release = r]) : r \in Releases(b.release)}
    \cup {LabSigns([b EXCEPT !.session = s]) : s \in Sessions(b.session)}
    \cup {[b EXCEPT !.session = s] : s \in Sessions(b.session)}
    \cup Surroundings(b)

BundleCases ==
  LET once == {Good} \cup Changed(Good)
  IN  once \cup UNION {Surroundings(b) : b \in {c \in once : RunTrustedVerified(c)}}

=============================================================================
