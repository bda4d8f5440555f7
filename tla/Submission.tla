----------------------------- MODULE Submission -----------------------------
(***************************************************************************)
(* The evidence intake of the Console: csa_console/submission.py,          *)
(* nonces.py and sessions.py, as the HTTPS handler threads of server.py    *)
(* and the local operator's calls run them against one assessment's        *)
(* storage.  One session is modelled.  A thread is one call in progress: a *)
(* nonce request, an upload (accept and the analysis that follows it), an  *)
(* offline import, an operator's removal of a submission or change of the  *)
(* session status; it becomes idle when the call returns or raises.  Every *)
(* JSON file is written by a temporary file and a rename, so that one read *)
(* or write of it is one step; an archive is written in place, and is torn *)
(* until it is complete.  A write of a file or of the audit log may fail   *)
(* (HostFails).  The audit records are the subject of AuditChain.          *)
(***************************************************************************)
EXTENDS Naturals, FiniteSets, TLC

CONSTANTS
  Threads,          \* calls that may be in progress together
  Subs,             \* submission ids
  Nonces,           \* values random_token can return (bounds the requests)
  Sources,          \* client addresses
  AllowedSources,   \* those the session's source networks contain
  Limit,            \* min(token_max_uses, allowed_submission_count)
  Envelopes,        \* trusted envelopes issued for the session
  TrustedRequired,  \* TrustedGrantStore.required(session)
  Bodies,           \* the kinds of archive clients upload
  Kinds,            \* the kinds of call and event this instance has
  MaxInstances,     \* bound: server instances started by this process
  MaxCrashes,       \* bound: process terminations
  MaxFailures,      \* bound: writes the host fails
  None              \* an absent file, record or parameter

AllKinds == {"nonce", "submit", "import", "status", "remove", "expiry", "lapse"}

ASSUME ConstantsAssumption ==
  /\ Limit \in Nat
  /\ MaxInstances \in Nat \ {0}
  /\ MaxCrashes \in Nat
  /\ MaxFailures \in Nat
  /\ TrustedRequired \in BOOLEAN
  /\ AllowedSources \subseteq Sources
  /\ Kinds \subseteq AllKinds
  /\ Bodies \subseteq {"valid", "untrusted", "malformed", "unreadable", "oversized"}
  /\ None \notin Threads \cup Subs \cup Nonces \cup Sources \cup Envelopes

VARIABLES
  session,      \* sessions/<id>.json: status and token_uses
  expired,      \* the clock is past expires_at = token_expires_at
  nonces,       \* nonces/<sub>.json
  issued,       \* nonces random_token has returned
  spent,        \* nonces consume has marked used (a history variable)
  grants,       \* what each READY envelope was consumed for
  quarantine,   \* submissions/quarantine/<sub>.csa.zip
  accepted,     \* submissions/accepted/<sub>.csa.zip
  index,        \* the items of submissions/index.json
  processing,   \* processingState of the item of each submission
  unsettled,    \* submissions that a failed write or an import that raised left
                \* without analysis or ERROR mark (a history variable)
  receipts,     \* submissions/accepted/<sub>.receipt.json
  rejected,     \* submissions/rejected/<sub>.json
  normalized,   \* normalized/<sub>.json
  findings,     \* findings/<sub>.json
  removed,      \* items remove_submission has removed (the audit log keeps them)
  instance,     \* the server instance that serves new requests
  nonceLock,    \* NonceService._lock of each instance: its holder
  indexLock,    \* path_lock(index.json): its holder
  pc, req,      \* where each call is, and its parameters
  cur,          \* the session object a call has loaded to write back
  nrec,         \* the nonce record a call has read
  crashes, failures

sessionVars == <<session, expired>>
nonceVars   == <<nonces, issued, spent, grants>>
derivedVars == <<normalized, findings, removed>>
fileVars    == <<quarantine, accepted, receipts, rejected, derivedVars>>
indexVars   == <<index, processing, unsettled>>
lockVars    == <<nonceLock, indexLock>>
callVars    == <<pc, req, cur, nrec>>
hostVars    == <<instance, crashes, failures>>
vars == <<sessionVars, nonceVars, fileVars, indexVars, lockVars, callVars, hostVars>>

-----------------------------------------------------------------------------
(* Types *)

Statuses    == {"OPEN", "PAUSED", "CLOSED", "ARCHIVED"}
Session     == [status : Statuses, uses : Nat]
\* What accept tells apart in an archive: a well-formed package of the trusted
\* build, one of another build, one validation refuses, one on which it raises
\* something else than PackageValidationError (a damaged ZIP member raises
\* BadZipFile when it is read), and one above the session's size limit.  A file
\* whose write has begun and not ended is torn.
AllBodies   == {"valid", "untrusted", "malformed", "unreadable", "oversized", "torn"}
\* The package digest covers the submission id, the nonce and the payload.
Archives    == [sub : Subs, nonce : Nonces \cup {None}, body : AllBodies]
NonceRecord == [nonce : Nonces, source : Sources, used : BOOLEAN, live : BOOLEAN]
Grant       == [sub : Subs, transport : {"HTTPS", "OFFLINE_ENCRYPTED"}, live : BOOLEAN]
\* "by" tells two items for the same package apart, as receivedAt does.
Item        == [sub : Subs, digest : Archives, by : Threads]

\* No record is the absent value.
ASSUME RecordsAssumption == None \notin Archives \cup NonceRecord \cup Grant

ProcessingStates == {"RECEIVED", "NORMALIZING", "ANALYZING", "COMPLETE", "ERROR"}
RejectStates == {"REJECTED_TOKEN", "REJECTED_REPLAY", "REJECTED_INVALID",
                 "REJECTED_PACKAGE_LIMIT", "REJECTED_UNTRUSTED_COLLECTOR"}
Request == [kind : AllKinds, sub : Subs \cup {None}, nonce : Nonces \cup {None},
            body : AllBodies \cup {None}, source : Sources \cup {None},
            envelope : Envelopes \cup {None}, to : Statuses \cup {None},
            instance : 1..MaxInstances]
AnalysisLabels == {"normalizing", "normalize", "analyzing", "analyze", "complete", "report"}
Labels == {"idle", "grant", "bind", "issue", "authorize", "consume", "markused", "stage",
           "staging", "validate", "lock", "move", "write", "writing", "append", "useload",
           "usewrite", "receipt", "provenance", "normalizing", "normalize", "analyzing",
           "analyze", "complete", "report", "failed", "rmarchive", "rmreceipt",
           "rmnormalized", "rmfindings", "rmitem", "statuswrite"}

TypeOK ==
  /\ session \in Session
  /\ expired \in BOOLEAN
  /\ nonces \in [Subs -> NonceRecord \cup {None}]
  /\ issued \subseteq Nonces
  /\ spent \subseteq Nonces
  /\ grants \in [Envelopes -> Grant \cup {None}]
  /\ quarantine \in [Subs -> Archives \cup {None}]
  /\ accepted \in [Subs -> Archives \cup {None}]
  /\ index \subseteq Item
  /\ processing \in [Subs -> ProcessingStates]
  /\ unsettled \subseteq Subs
  /\ receipts \in [Subs -> Archives \cup {None}]
  /\ rejected \in [Subs -> RejectStates \cup {None}]
  /\ normalized \subseteq Subs
  /\ findings \subseteq Subs
  /\ removed \subseteq Item
  /\ instance \in 1..MaxInstances
  /\ nonceLock \in [1..MaxInstances -> Threads \cup {None}]
  /\ indexLock \in Threads \cup {None}
  /\ pc \in [Threads -> Labels]
  /\ req \in [Threads -> Request \cup {None}]
  /\ cur \in [Threads -> Session \cup {None}]
  /\ nrec \in [Threads -> NonceRecord \cup {None}]
  /\ crashes \in 0..MaxCrashes
  /\ failures \in 0..MaxFailures

Init ==
  /\ session = [status |-> "OPEN", uses |-> 0]
  /\ expired = FALSE
  /\ nonces = [s \in Subs |-> None]
  /\ issued = {}
  /\ spent = {}
  /\ grants = [e \in Envelopes |-> None]
  /\ quarantine = [s \in Subs |-> None]
  /\ accepted = [s \in Subs |-> None]
  /\ index = {}
  /\ processing = [s \in Subs |-> "RECEIVED"]
  /\ unsettled = {}
  /\ receipts = [s \in Subs |-> None]
  /\ rejected = [s \in Subs |-> None]
  /\ normalized = {}
  /\ findings = {}
  /\ removed = {}
  /\ instance = 1
  /\ nonceLock = [i \in 1..MaxInstances |-> None]
  /\ indexLock = None
  /\ pc = [t \in Threads |-> "idle"]
  /\ req = [t \in Threads |-> None]
  /\ cur = [t \in Threads |-> None]
  /\ nrec = [t \in Threads |-> None]
  /\ crashes = 0
  /\ failures = 0

-----------------------------------------------------------------------------
(* Helpers *)

Goto(t, label) == pc' = [pc EXCEPT ![t] = label]

\* The call returns or raises: its parameters and copies are gone.
Return(t) ==
  /\ pc'   = [pc EXCEPT ![t] = "idle"]
  /\ req'  = [req EXCEPT ![t] = None]
  /\ cur'  = [cur EXCEPT ![t] = None]
  /\ nrec' = [nrec EXCEPT ![t] = None]

\* A call starts with its parameters at its first step.
Call(t, r, label) ==
  /\ pc[t] = "idle"
  /\ r.kind \in Kinds
  /\ req' = [req EXCEPT ![t] = r]
  /\ Goto(t, label)
  /\ UNCHANGED <<cur, nrec>>

NoRequest == [kind |-> "status", sub |-> None, nonce |-> None, body |-> None,
              source |-> None, envelope |-> None, to |-> None, instance |-> instance]

Archive(r) == [sub |-> r.sub, nonce |-> r.nonce, body |-> r.body]

\* The file of an archive while write_bytes writes it, and a directory in which
\* that write has ended, wherever the file was renamed to meanwhile.
Torn(a) == [a EXCEPT !.body = "torn"]

Written(files, a) == [s \in Subs |-> IF files[s] = Torn(a) THEN a ELSE files[s]]

Items(s) == {e \in index : e.sub = s}

Reject(s, state) == rejected' = [rejected EXCEPT ![s] = state]

require_source(source) == ~expired /\ source \in AllowedSources

\* _verify_token_contract: expiry and use limit, for the genuine token.
token_contract == ~expired /\ session.uses < Limit

verify_token == session.status = "OPEN" /\ token_contract

verify_offline_token == session.status \in {"OPEN", "CLOSED"} /\ token_contract

\* The envelopes consumed for submission s over one transport.
ConsumedFor(s, transport) ==
  {e \in Envelopes : grants[e] # None /\ grants[e].sub = s /\ grants[e].transport = transport}

Transport(r) == IF r.kind = "import" THEN "OFFLINE_ENCRYPTED" ELSE "HTTPS"

-----------------------------------------------------------------------------
\* Bound: requests in progress that will each take one of Nonces.
PendingNonces == {t \in Threads : req[t] # None /\ req[t].kind = "nonce"}

(* request_nonce.  A request that fails _require_source or verify_token, or *)
(* whose grant is refused, raises and changes nothing.                      *)

RequestNonce(t, s, source, e) ==
  /\ require_source(source)
  /\ verify_token
  /\ Cardinality(issued) + Cardinality(PendingNonces) < Cardinality(Nonces)
  /\ Call(t, [NoRequest EXCEPT !.kind = "nonce", !.sub = s, !.source = source,
                               !.envelope = e],
          IF TrustedRequired THEN "grant" ELSE "issue")
  /\ UNCHANGED <<sessionVars, nonceVars, fileVars, indexVars, lockVars, hostVars>>

\* Fault: consume does not look at the used mark.
grant_exists(e) == e \in Envelopes

\* The presented envelope exists, is READY and is unused.
grant_unused(e) == e \in Envelopes /\ grants[e] = None

\* TrustedGrantStore.consume, one SQLite transaction; after it a nonce request
\* goes on to issue, an offline import to require_evidence_binding.
ConsumeGrant(t) ==
  LET r == req[t] IN
  /\ pc[t] = "grant"
  /\ IF grant_unused(r.envelope)
     THEN /\ grants' = [grants EXCEPT ![r.envelope] =
                          [sub |-> r.sub, transport |-> Transport(r), live |-> TRUE]]
          /\ Goto(t, IF r.kind = "import" THEN "bind" ELSE "issue")
          /\ UNCHANGED <<req, cur, nrec>>
     ELSE Return(t) /\ UNCHANGED grants
  /\ UNCHANGED <<sessionVars, nonces, issued, spent, fileVars, indexVars, lockVars, hostVars>>

\* NonceService.issue: a fresh nonce replaces the record of the submission,
\* used or not; the lock of consume is not taken.
IssueNonce(t, n) ==
  LET r == req[t] IN
  /\ pc[t] = "issue"
  /\ n \in Nonces \ issued
  /\ issued' = issued \cup {n}
  /\ nonces' = [nonces EXCEPT ![r.sub] =
                  [nonce |-> n, source |-> r.source, used |-> FALSE, live |-> TRUE]]
  /\ Return(t)
  /\ UNCHANGED <<sessionVars, spent, grants, fileVars, indexVars, lockVars, hostVars>>

-----------------------------------------------------------------------------
(* accept.  A request that fails _require_source raises and leaves nothing; *)
(* a refused token leaves a rejection record.  Uploads carry a genuine token. *)

Accept(t, s, n, body, source) ==
  /\ require_source(source)
  /\ verify_token
  /\ n \in issued
  /\ Call(t, [NoRequest EXCEPT !.kind = "submit", !.sub = s, !.nonce = n,
                               !.body = body, !.source = source],
          IF TrustedRequired THEN "authorize" ELSE "consume")
  /\ UNCHANGED <<sessionVars, nonceVars, fileVars, indexVars, lockVars, hostVars>>

\* verify_token raises: the session is not open, or the use limit is reached.
AcceptRefusedToken(t, s, source) ==
  /\ "submit" \in Kinds
  /\ pc[t] = "idle"
  /\ require_source(source)
  /\ ~verify_token
  /\ Reject(s, "REJECTED_TOKEN")
  /\ UNCHANGED <<sessionVars, nonceVars, quarantine, accepted, receipts, derivedVars, indexVars,
                 lockVars, callVars, hostVars>>

\* TrustedGrantStore.require_authorized_submission: exactly one unexpired
\* envelope was consumed for this submission over HTTPS.
RequireAuthorized(t) ==
  LET s == req[t].sub IN
  /\ pc[t] = "authorize"
  /\ IF Cardinality({e \in ConsumedFor(s, "HTTPS") : grants[e].live}) = 1
     THEN Goto(t, "consume") /\ UNCHANGED <<req, cur, nrec, rejected>>
     ELSE Return(t) /\ Reject(s, "REJECTED_REPLAY")
  /\ UNCHANGED <<sessionVars, nonceVars, quarantine, accepted, receipts, derivedVars, indexVars,
                 lockVars, hostVars>>

\* Fault: consume does not take its lock.
nonce_lock_ignored(i) == TRUE

nonce_lock_free(i) == nonceLock[i] = None

\* NonceService.consume up to its write: the instance's lock is taken and the
\* record read and checked.  A missing record raises FileNotFoundError, which
\* accept does not turn into a rejection.
ConsumeNonce(t) ==
  LET r == req[t]
      d == nonces[r.sub]
  IN
  /\ pc[t] = "consume"
  /\ nonce_lock_free(r.instance)
  /\ IF d # None /\ d.nonce = r.nonce /\ d.source = r.source /\ ~d.used /\ d.live
     THEN /\ nonceLock' = [nonceLock EXCEPT ![r.instance] = t]
          /\ nrec' = [nrec EXCEPT ![t] = d]
          /\ Goto(t, "markused")
          /\ UNCHANGED <<req, cur, rejected>>
     ELSE /\ Return(t)
          /\ IF d = None THEN UNCHANGED rejected ELSE Reject(r.sub, "REJECTED_REPLAY")
          /\ UNCHANGED nonceLock
  /\ UNCHANGED <<sessionVars, nonceVars, quarantine, accepted, receipts, derivedVars, indexVars,
                 indexLock, hostVars>>

\* consume writes back the record it read, marked used, and releases the lock.
MarkUsed(t) ==
  LET r == req[t] IN
  /\ pc[t] = "markused"
  /\ nonces' = [nonces EXCEPT ![r.sub] = [nrec[t] EXCEPT !.used = TRUE]]
  /\ nonceLock' = [nonceLock EXCEPT ![r.instance] = None]
  /\ nrec' = [nrec EXCEPT ![t] = None]
  /\ spent' = spent \cup {r.nonce}
  /\ Goto(t, "stage")
  /\ UNCHANGED <<sessionVars, issued, grants, fileVars, indexVars, indexLock, req, cur, hostVars>>

\* An archive above the session's limit is rejected (the handler's _read_body
\* has the same limit); any other one is staged in quarantine under the
\* submission id.  The file exists, torn, from the start of its write.
Stage(t) ==
  LET r == req[t] IN
  /\ pc[t] = "stage"
  /\ IF r.body = "oversized"
     THEN Return(t) /\ Reject(r.sub, "REJECTED_PACKAGE_LIMIT") /\ UNCHANGED quarantine
     ELSE /\ quarantine' = [quarantine EXCEPT ![r.sub] = Torn(Archive(r))]
          /\ Goto(t, "staging")
          /\ UNCHANGED <<req, cur, nrec, rejected>>
  /\ UNCHANGED <<sessionVars, nonceVars, accepted, receipts, derivedVars, indexVars, lockVars,
                 hostVars>>

\* write_bytes ends, of a staged or of an imported archive.
EndWrite(t) ==
  /\ pc[t] \in {"staging", "writing"}
  /\ quarantine' = Written(quarantine, Archive(req[t]))
  /\ accepted' = Written(accepted, Archive(req[t]))
  /\ Goto(t, IF pc[t] = "staging" THEN "validate" ELSE "append")
  /\ UNCHANGED <<sessionVars, nonceVars, receipts, rejected, derivedVars, indexVars, lockVars,
                 req, cur, nrec, hostVars>>

\* Fault: the build digest is not compared with the trusted ones.
package_well_formed(r) == r.body \in {"valid", "untrusted"}

package_accepted(r) == r.body = "valid"

UnlinkQuarantine(r) == quarantine' = [quarantine EXCEPT ![r.sub] = None]

\* EvidencePackageValidator.validate and the trusted-build check, both on the
\* request's own bytes.  Rejected content is removed from quarantine; an
\* exception that is not a rejection leaves accept past the clean-up.
Validate(t) ==
  LET r == req[t] IN
  /\ pc[t] = "validate"
  /\ IF package_accepted(r)
     THEN /\ Goto(t, IF TrustedRequired THEN "bind" ELSE "lock")
          /\ UNCHANGED <<req, cur, nrec, quarantine, rejected>>
     ELSE /\ Return(t)
          /\ IF r.body = "unreadable" THEN UNCHANGED <<quarantine, rejected>>
             ELSE /\ UnlinkQuarantine(r)
                  /\ Reject(r.sub, IF r.body = "untrusted" THEN "REJECTED_UNTRUSTED_COLLECTOR"
                                   ELSE "REJECTED_INVALID")
  /\ UNCHANGED <<sessionVars, nonceVars, accepted, receipts, derivedVars, indexVars, lockVars,
                 hostVars>>

\* TrustedGrantStore.require_evidence_binding, for an upload and an import.
RequireBinding(t) ==
  LET r == req[t] IN
  /\ pc[t] = "bind"
  /\ IF Cardinality(ConsumedFor(r.sub, Transport(r))) = 1
     THEN Goto(t, "lock") /\ UNCHANGED <<req, cur, nrec, quarantine, rejected>>
     ELSE /\ Return(t)
          /\ IF r.kind = "submit"
             THEN /\ UnlinkQuarantine(r)
                  /\ Reject(r.sub, "REJECTED_UNTRUSTED_COLLECTOR")
             ELSE UNCHANGED <<quarantine, rejected>>
  /\ UNCHANGED <<sessionVars, nonceVars, accepted, receipts, derivedVars, indexVars, lockVars,
                 hostVars>>

-----------------------------------------------------------------------------
(* The critical section of accept and import_file under path_lock(index).   *)

\* Fault: only the package digest is searched for.
duplicate_digest(r) == \E e \in index : e.digest = Archive(r)

duplicate(r) == \E e \in index : e.sub = r.sub \/ e.digest = Archive(r)

\* Fault: a repeated submission is answered with a receipt.
AcknowledgeDuplicate(t) == Goto(t, "receipt") /\ UNCHANGED <<req, cur, nrec>>

\* SubmissionRejected(REJECTED_REPLAY) is raised.
RefuseDuplicate(t) == Return(t)

\* The lock is taken, the index read and searched for a duplicate.
LockIndex(t) ==
  LET r == req[t] IN
  /\ pc[t] = "lock"
  /\ indexLock = None
  /\ IF duplicate(r)
     THEN /\ RefuseDuplicate(t)
          /\ IF r.kind = "submit"
             THEN /\ UnlinkQuarantine(r)
                  /\ Reject(r.sub, "REJECTED_REPLAY")
             ELSE UNCHANGED <<quarantine, rejected>>
          /\ UNCHANGED indexLock
     ELSE /\ indexLock' = t
          /\ Goto(t, IF r.kind = "submit" THEN "move" ELSE "write")
          /\ UNCHANGED <<req, cur, nrec, quarantine, rejected>>
  /\ UNCHANGED <<sessionVars, nonceVars, accepted, receipts, derivedVars, indexVars, nonceLock,
                 hostVars>>

\* Leaving the with-block, normally or by an exception.
ReleaseIndex(t) == indexLock' = IF indexLock = t THEN None ELSE indexLock

\* accept renames the quarantined file, whatever it holds by now, and raises
\* if it is gone.
MoveToAccepted(t) ==
  LET s == req[t].sub IN
  /\ pc[t] = "move"
  /\ IF quarantine[s] = None
     THEN Return(t) /\ ReleaseIndex(t) /\ UNCHANGED <<quarantine, accepted>>
     ELSE /\ Goto(t, "append")
          /\ accepted' = [accepted EXCEPT ![s] = quarantine[s]]
          /\ quarantine' = [quarantine EXCEPT ![s] = None]
          /\ UNCHANGED <<req, cur, nrec, indexLock>>
  /\ UNCHANGED <<sessionVars, nonceVars, receipts, rejected, derivedVars, indexVars, nonceLock,
                 hostVars>>

\* import_file begins to write its own bytes to accepted storage, in place.
WriteAccepted(t) ==
  LET r == req[t] IN
  /\ pc[t] = "write"
  /\ accepted' = [accepted EXCEPT ![r.sub] = Torn(Archive(r))]
  /\ Goto(t, "writing")
  /\ UNCHANGED <<sessionVars, nonceVars, quarantine, receipts, rejected, derivedVars, indexVars,
                 lockVars, req, cur, nrec, hostVars>>

\* Fault: accept, too, counts the token use outside the critical section.
leaves_always(r) == TRUE

leaves_after_append(r) == r.kind = "import"

\* The item is added and the index written; import_file leaves the critical
\* section here, accept only after record_token_use.
AppendIndex(t) ==
  LET r == req[t] IN
  /\ pc[t] = "append"
  /\ index' = index \cup {[sub |-> r.sub, digest |-> Archive(r), by |-> t]}
  /\ processing' = [processing EXCEPT ![r.sub] = "RECEIVED"]
  /\ unsettled' = unsettled \ {r.sub}
  /\ indexLock' = IF leaves_after_append(r) THEN None ELSE indexLock
  /\ Goto(t, "useload")
  /\ UNCHANGED <<sessionVars, nonceVars, fileVars, nonceLock, req, cur, nrec, hostVars>>

\* record_token_use loads the session; at the limit it raises, and the item
\* just written to the index stays.
UseLoad(t) ==
  /\ pc[t] = "useload"
  /\ IF session.uses >= Limit
     THEN /\ Return(t)
          /\ ReleaseIndex(t)
     ELSE /\ cur' = [cur EXCEPT ![t] = session]
          /\ Goto(t, "usewrite")
          /\ UNCHANGED <<req, nrec, indexLock>>
  /\ UNCHANGED <<sessionVars, nonceVars, fileVars, indexVars, nonceLock, hostVars>>

\* record_token_use writes the session it loaded, one use higher.
UseWrite(t) ==
  /\ pc[t] = "usewrite"
  /\ session' = [cur[t] EXCEPT !.uses = @ + 1]
  /\ cur' = [cur EXCEPT ![t] = None]
  /\ ReleaseIndex(t)
  /\ Goto(t, "receipt")
  /\ UNCHANGED <<expired, nonceVars, fileVars, indexVars, nonceLock, req, nrec, hostVars>>

\* The receipt is signed and stored.
WriteReceipt(t) ==
  LET r == req[t] IN
  /\ pc[t] = "receipt"
  /\ receipts' = [receipts EXCEPT ![r.sub] = Archive(r)]
  /\ Goto(t, "provenance")
  /\ UNCHANGED <<sessionVars, nonceVars, quarantine, accepted, rejected, derivedVars, indexVars,
                 lockVars, req, cur, nrec, hostVars>>

\* record_accepted_provenance and the audit record of the acceptance; the caller
\* then analyzes.
RecordProvenance(t) ==
  /\ pc[t] = "provenance"
  /\ Goto(t, "normalizing")
  /\ UNCHANGED <<sessionVars, nonceVars, fileVars, indexVars, lockVars, req, cur, nrec, hostVars>>

-----------------------------------------------------------------------------
(* ConsoleAnalysisPipeline.analyze and the handler around it.               *)

\* Fault: the handler does not catch exceptions of the analysis.
RaiseUncaught(t) == Return(t) /\ UNCHANGED unsettled

\* An exception in the analysis: the HTTPS handler records ERROR, an import
\* lets it propagate to the operator.
Raise(t) == IF req[t].kind = "submit" THEN Goto(t, "failed") /\ UNCHANGED <<req, cur, nrec, unsettled>>
            ELSE Return(t) /\ unsettled' = unsettled \cup {req[t].sub}

\* update_processing_state, a locked read-modify-write of the index that
\* raises when the item is gone.  (If only the audit record that follows fails,
\* the caller raises as it may in its next step.)
update_processing_state(t, state, next) ==
  /\ indexLock = None
  /\ IF Items(req[t].sub) # {}
     THEN /\ processing' = [processing EXCEPT ![req[t].sub] = state]
          /\ Goto(t, next) /\ UNCHANGED <<req, cur, nrec, unsettled>>
     ELSE Raise(t) /\ UNCHANGED processing
  /\ UNCHANGED <<sessionVars, nonceVars, fileVars, index, lockVars, hostVars>>

Normalizing(t) == pc[t] = "normalizing" /\ update_processing_state(t, "NORMALIZING", "normalize")

Analyzing(t) == pc[t] = "analyzing" /\ update_processing_state(t, "ANALYZING", "analyze")

Complete(t) == pc[t] = "complete" /\ update_processing_state(t, "COMPLETE", "report")

\* normalize_endpoint_package and the two files it leaves.
Normalize(t) ==
  /\ pc[t] = "normalize"
  /\ \/ /\ normalized' = normalized \cup {req[t].sub}
        /\ Goto(t, "analyzing") /\ UNCHANGED <<req, cur, nrec, unsettled>>
     \/ Raise(t) /\ UNCHANGED normalized
  /\ UNCHANGED <<sessionVars, nonceVars, quarantine, accepted, receipts, rejected, findings,
                 removed, index, processing, lockVars, hostVars>>

\* analyze_file and the findings it leaves.
Analyze(t) ==
  /\ pc[t] = "analyze"
  /\ \/ /\ findings' = findings \cup {req[t].sub}
        /\ Goto(t, "complete") /\ UNCHANGED <<req, cur, nrec, unsettled>>
     \/ Raise(t) /\ UNCHANGED findings
  /\ UNCHANGED <<sessionVars, nonceVars, quarantine, accepted, receipts, rejected, normalized,
                 removed, index, processing, lockVars, hostVars>>

\* ConsoleReportGenerator.generate_endpoint, then the response.
Report(t) ==
  /\ pc[t] = "report"
  /\ (Return(t) /\ UNCHANGED unsettled) \/ Raise(t)
  /\ UNCHANGED <<sessionVars, nonceVars, fileVars, index, processing, lockVars, hostVars>>

failure_state == "ERROR"

\* The handler's update to ERROR; a ValueError for a removed item is only logged.
AnalysisFailed(t) ==
  /\ pc[t] = "failed"
  /\ indexLock = None
  /\ processing' = IF Items(req[t].sub) # {} THEN [processing EXCEPT ![req[t].sub] = failure_state]
                   ELSE processing
  /\ Return(t)
  /\ UNCHANGED <<sessionVars, nonceVars, fileVars, index, unsettled, lockVars, hostVars>>

-----------------------------------------------------------------------------
(* The operator *)

\* import_file up to the index: the package is decrypted, its token, contents
\* and build checked; any failure raises and leaves nothing.
ImportFile(t, s, e) ==
  /\ verify_offline_token
  /\ Call(t, [NoRequest EXCEPT !.kind = "import", !.sub = s, !.body = "valid", !.envelope = e],
          IF TrustedRequired THEN "grant" ELSE "lock")
  /\ UNCHANGED <<sessionVars, nonceVars, fileVars, indexVars, lockVars, hostVars>>

AllowedTransitions ==
  [OPEN |-> {"PAUSED", "CLOSED"}, PAUSED |-> {"OPEN", "CLOSED"},
   CLOSED |-> {"ARCHIVED"}, ARCHIVED |-> {}]

\* set_session_status loads the session and checks the transition (one
\* operator, hence one such call at a time) ...
StatusLoad(t, status) ==
  /\ "status" \in Kinds
  /\ pc[t] = "idle"
  /\ \A u \in Threads : pc[u] # "statuswrite"
  /\ status \in AllowedTransitions[session.status]
  /\ req' = [req EXCEPT ![t] = [NoRequest EXCEPT !.to = status]]
  /\ cur' = [cur EXCEPT ![t] = session]
  /\ Goto(t, "statuswrite")
  /\ UNCHANGED <<sessionVars, nonceVars, fileVars, indexVars, lockVars, nrec, hostVars>>

\* ... and writes the session it loaded with the new status.
StatusWrite(t) ==
  /\ pc[t] = "statuswrite"
  /\ session' = [cur[t] EXCEPT !.status = req[t].to]
  /\ Return(t)
  /\ UNCHANGED <<expired, nonceVars, fileVars, indexVars, lockVars, hostVars>>

\* remove_submission takes the index lock, and raises for an unknown id.
RemoveSubmission(t, s) ==
  /\ indexLock = None
  /\ Items(s) # {}
  /\ Call(t, [NoRequest EXCEPT !.kind = "remove", !.sub = s], "rmarchive")
  /\ indexLock' = t
  /\ UNCHANGED <<sessionVars, nonceVars, fileVars, indexVars, nonceLock, hostVars>>

\* It deletes the files of the submission one by one ...
RemoveFile(t) ==
  LET s == req[t].sub IN
  /\ \/ /\ pc[t] = "rmarchive" /\ Goto(t, "rmreceipt")
        /\ accepted' = [accepted EXCEPT ![s] = None]
        /\ UNCHANGED <<receipts, normalized, findings>>
     \/ /\ pc[t] = "rmreceipt" /\ Goto(t, "rmnormalized")
        /\ receipts' = [receipts EXCEPT ![s] = None]
        /\ UNCHANGED <<accepted, normalized, findings>>
     \/ /\ pc[t] = "rmnormalized" /\ Goto(t, "rmfindings")
        /\ normalized' = normalized \ {s}
        /\ UNCHANGED <<accepted, receipts, findings>>
     \/ /\ pc[t] = "rmfindings" /\ Goto(t, "rmitem")
        /\ findings' = findings \ {s}
        /\ UNCHANGED <<accepted, receipts, normalized>>
  /\ UNCHANGED <<sessionVars, nonceVars, quarantine, rejected, removed, indexVars, lockVars,
                 req, cur, nrec, hostVars>>

\* ... and writes the index without its item last.
RemoveItem(t) ==
  LET s == req[t].sub IN
  /\ pc[t] = "rmitem"
  /\ index' = index \ Items(s)
  /\ removed' = removed \cup Items(s)
  /\ ReleaseIndex(t)
  /\ Return(t)
  /\ UNCHANGED <<sessionVars, nonceVars, quarantine, accepted, receipts, rejected, normalized,
                 findings, processing, unsettled, nonceLock, hostVars>>

-----------------------------------------------------------------------------
(* Time and the host *)

\* The session and its token expire together.
Expire == "expiry" \in Kinds /\ ~expired /\ expired' = TRUE
          /\ UNCHANGED <<session, nonceVars, fileVars, indexVars, lockVars, callVars, hostVars>>

\* 120 seconds have passed since the nonce was issued.
NonceExpires(s) ==
  /\ "expiry" \in Kinds
  /\ nonces[s] # None /\ nonces[s].live
  /\ nonces' = [nonces EXCEPT ![s].live = FALSE]
  /\ UNCHANGED <<sessionVars, issued, spent, grants, fileVars, indexVars, lockVars, callVars,
                 hostVars>>

\* The lifetime of a consumed envelope is over.
GrantExpires(e) ==
  /\ "lapse" \in Kinds
  /\ grants[e] # None /\ grants[e].live
  /\ grants' = [grants EXCEPT ![e].live = FALSE]
  /\ UNCHANGED <<sessionVars, nonces, issued, spent, fileVars, indexVars, lockVars, callVars,
                 hostVars>>

\* Collection is paused and resumed: a new ConsoleHttpsServer with a new
\* NonceService; shutdown does not wait for the handlers of the old one.
RestartServer ==
  /\ instance < MaxInstances
  /\ instance' = instance + 1
  /\ UNCHANGED <<sessionVars, nonceVars, fileVars, indexVars, lockVars, callVars, crashes,
                 failures>>

\* The process terminates: calls and locks are gone, the files stay.
Crash ==
  /\ crashes < MaxCrashes
  /\ crashes' = crashes + 1
  /\ pc' = [t \in Threads |-> "idle"]
  /\ req' = [t \in Threads |-> None]
  /\ cur' = [t \in Threads |-> None]
  /\ nrec' = [t \in Threads |-> None]
  /\ nonceLock' = [i \in 1..MaxInstances |-> None]
  /\ indexLock' = None
  /\ UNCHANGED <<sessionVars, nonceVars, fileVars, indexVars, instance, failures>>

\* A write of a file, of the ledger or of the audit log fails (a full disk, a file
\* in use): the call raises out of its critical sections, and its analysis as any
\* exception there.  Past the stored receipt, and in the update to ERROR, nothing
\* is left to settle the submission.
HostFails(t) ==
  /\ failures < MaxFailures
  /\ failures' = failures + 1
  /\ pc[t] # "idle"
  /\ IF pc[t] \in AnalysisLabels THEN Raise(t)
     ELSE /\ Return(t)
          /\ unsettled' = IF pc[t] \in {"provenance", "failed"} THEN unsettled \cup {req[t].sub}
                          ELSE unsettled
  /\ nonceLock' = [i \in 1..MaxInstances |-> IF nonceLock[i] = t THEN None ELSE nonceLock[i]]
  /\ ReleaseIndex(t)
  /\ UNCHANGED <<sessionVars, nonceVars, fileVars, index, processing, instance, crashes>>

-----------------------------------------------------------------------------
\* The steps a call in progress takes on its own.
Step(t) ==
  \/ ConsumeGrant(t) \/ (\E n \in Nonces : IssueNonce(t, n))
  \/ RequireAuthorized(t) \/ ConsumeNonce(t) \/ MarkUsed(t) \/ Stage(t) \/ EndWrite(t)
  \/ Validate(t) \/ RequireBinding(t) \/ LockIndex(t) \/ MoveToAccepted(t) \/ WriteAccepted(t)
  \/ AppendIndex(t) \/ UseLoad(t) \/ UseWrite(t) \/ WriteReceipt(t) \/ RecordProvenance(t)
  \/ Normalizing(t) \/ Normalize(t) \/ Analyzing(t) \/ Analyze(t) \/ Complete(t)
  \/ Report(t) \/ AnalysisFailed(t) \/ RemoveFile(t) \/ RemoveItem(t) \/ StatusWrite(t)

\* The calls clients and the operator make.
Arrive(t) ==
  \/ \E s \in Subs, source \in Sources, e \in Envelopes \cup {None} : RequestNonce(t, s, source, e)
  \/ \E s \in Subs, n \in Nonces, body \in Bodies, source \in Sources : Accept(t, s, n, body, source)
  \/ \E s \in Subs, source \in Sources : AcceptRefusedToken(t, s, source)
  \/ \E s \in Subs, e \in Envelopes \cup {None} : ImportFile(t, s, e)
  \/ \E status \in Statuses : StatusLoad(t, status)
  \/ \E s \in Subs : RemoveSubmission(t, s)

Environment ==
  \/ Expire \/ (\E s \in Subs : NonceExpires(s)) \/ (\E e \in Envelopes : GrantExpires(e))
  \/ RestartServer \/ Crash \/ (\E t \in Threads : HostFails(t))

Next ==
  \/ \E t \in Threads : Step(t) \/ Arrive(t)
  \/ Environment

Spec == Init /\ [][Next]_vars

\* A running thread is scheduled.  Nothing is assumed of clients, of the
\* operator or of the clock.
Fairness == \A t \in Threads : WF_vars(Step(t))

FairSpec == Spec /\ Fairness

-----------------------------------------------------------------------------
(* Properties *)

\* The index holds at most one item for a submission id, however uploads,
\* offline imports and removals of that id interleave (the duplicate check
\* and the append of accept and import_file are one critical section).
IndexUnique == \A e, f \in index : e.sub = f.sub => e = f

\* A receipt acknowledges the very package that the index holds (or held,
\* until the operator removed it).
ReceiptBacked ==
  \A s \in Subs : receipts[s] # None =>
    \E e \in index \cup removed : e.sub = s /\ e.digest = receipts[s]

\* Every recorded token use is one receipted acceptance and conversely: the
\* counter that enforces the session's limit neither loses nor invents a use
\* while handlers accept concurrently.
TokenUsesCounted ==
  session.uses = Cardinality({s \in Subs : receipts[s] # None})
                 + Cardinality({t \in Threads : pc[t] = "receipt"})

\* consume honours a nonce once: no call is about to mark used a nonce that
\* was already marked used, whatever nonces were issued for the submission
\* between its read and its write.
NonceSpentOnce == \A t \in Threads : pc[t] = "markused" => nrec[t].nonce \notin spent

\* What entitles a call to hand in evidence is used up exactly when it does: the
\* session's limit of uses and the one-time nonces hold for racing handlers.
CapabilitiesCounted == TokenUsesCounted /\ NonceSpentOnce

\* With one call at a time, the archive of an indexed submission is the very package
\* validation passed (or is gone, where a removal was cut short), and what else is in
\* accepted storage is a package that passed or the torn file of an import, whatever
\* rejections, failed writes and ended processes left behind.  (Two uploads of one
\* submission id do share a quarantine path.)
AcceptedIsValidated ==
  /\ \A e \in index : e.digest.body = "valid" /\ accepted[e.sub] \in {e.digest, None}
  /\ \A s \in Subs : (accepted[s] # None /\ Items(s) = {}) =>
       \/ accepted[s].body = "valid"
       \/ accepted[s].body = "torn" /\ accepted[s].nonce = None

\* In a session that requires trusted envelopes every indexed submission
\* consumed an envelope of its own, for the transport it arrived over.
EnvelopePerItem ==
  TrustedRequired =>
    \E f \in [index -> Envelopes] :
      /\ \A d, e \in index : f[d] = f[e] => d = e
      /\ \A e \in index : /\ grants[f[e]] # None
                          /\ grants[f[e]].sub = e.sub
                          /\ grants[f[e]].transport =
                               IF e.digest.nonce = None THEN "OFFLINE_ENCRYPTED" ELSE "HTTPS"

\* Every call returns: no two calls wait for each other's locks.
CallsReturn == \A t \in Threads : pc[t] # "idle" ~> pc[t] = "idle"

\* A receipted upload reaches a terminal processing state, also when its
\* normalization, analysis or report raises or a write of theirs fails, unless it
\* is removed or the code leaves it unsettled: by one of two failed writes (the
\* record of its acceptance, after the receipt was stored, and the update to ERROR
\* itself), or by the analysis of an earlier import of its id, since removed, that
\* raises to the operator.
ReceiptedSettles ==
  \A s \in Subs :
    (\E e \in Items(s) : e.digest = receipts[s] /\ e.digest.nonce # None)
      ~> (processing[s] \in {"COMPLETE", "ERROR"} \/ Items(s) = {} \/ s \in unsettled)

\* The intake keeps no caller waiting and leaves no receipted endpoint half-way
\* but for a failed write that the code does not recover from.
Progress == CallsReturn /\ ReceiptedSettles

-----------------------------------------------------------------------------
(* Refinement of EvidenceLedger *)

LedgerEntries(items) == {[sub |-> e.sub, digest |-> e.digest] : e \in items}

Ledger == INSTANCE EvidenceLedger WITH
            Packages <- {a \in Archives : a.body = "valid"},
            live     <- LedgerEntries(index),
            recorded <- LedgerEntries(index \cup removed),
            receipt  <- receipts

\* The index, the removals and the receipts behave as the ledger of the
\* assessment's evidence: each submission is recorded once, as a validated
\* package, and acknowledged only afterwards.
ImplementsLedger == Ledger!Spec

\* For TLC: nothing tells one thread, submission, nonce or envelope from another.
Symmetry == Permutations(Threads) \cup Permutations(Subs) \cup Permutations(Nonces)
            \cup Permutations(Envelopes)

=============================================================================
