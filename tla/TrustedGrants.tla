---------------------------- MODULE TrustedGrants ----------------------------
(***************************************************************************)
(* The ledger of trusted envelopes of one session: TrustedGrantStore of    *)
(* csa_console/trusted_grants.py, the issuer create_trusted_bundle of      *)
(* csa_lab/trusted_distribution.py, the operator's reconciliation and the  *)
(* network service of csa_console/trusted_network.py.  Each use of         *)
(* _transaction is one SQLite transaction and one step; session file,      *)
(* published bundle and audit log are separate stores, written in steps of *)
(* their own.  Issuers and the reconciler may be terminated at any step.   *)
(* The ids are random, so each is given out at most once.  A challenge or  *)
(* a download that is used or expired is refused by every reader whether   *)
(* or not its row has been purged, so the purge is not a step.             *)
(***************************************************************************)
EXTENDS Naturals, FiniteSets

CONSTANTS
  Envelopes,     \* envelope ids
  Network,       \* those issued as network invitations
  Requests,      \* handler threads that serve the network routes
  Challenges, Tickets, Downloads,   \* ids of the secrets handed out
  MaxChallenges, MaxDownloads,      \* 32 live challenges, 3 downloads
  Lifetime, ProofTTL, ChallengeTTL, TicketTTL, DownloadTTL,
  Events,        \* the faults and events of the environment this instance has
  MaxTime,       \* bound: the clock
  None

AllEvents == {"failure", "reconcile", "consume", "close", "revoke", "remove", "stale"}

ASSUME GrantAssumption ==
  /\ Events \subseteq AllEvents
  /\ Network \subseteq Envelopes
  /\ MaxChallenges \in Nat /\ MaxDownloads \in Nat
  /\ Lifetime \in Nat /\ ProofTTL \in Nat /\ ChallengeTTL \in Nat
  /\ TicketTTL \in Nat /\ DownloadTTL \in Nat /\ MaxTime \in Nat
  /\ None \notin Nat \cup Envelopes \cup Challenges \cup Tickets \cup Downloads

VARIABLES
  now,
  session,      \* the session is OPEN
  flag,         \* trustedEnvelopeRequired in the session file
  loaded,       \* the flag in a session that an intake call has loaded
  ledger,       \* the ledger's file exists
  grants,       \* table grants
  challenges, tickets, downloads,   \* the other tables
  published,    \* envelopes whose bundle is at its output path
  prepared,     \* envelopes whose preparation has been audited
  enrolled,     \* envelopes that the local authority verifies
  cache,        \* expiry of the cached proof of an envelope
  issuer,       \* where the issuer of an envelope is
  reconciler,   \* where the reconciliation is
  pc, req,      \* where each request is, and what it asks for
  authorizedAt, consumedAt, servedAt, revokedAt, provedAt   \* history

tableVars   == <<challenges, tickets, downloads>>
storeVars   == <<flag, loaded, ledger, published, prepared>>
issueVars   == <<issuer, reconciler>>
requestVars == <<pc, req>>
historyVars == <<authorizedAt, consumedAt, servedAt, revokedAt, provedAt>>
vars == <<now, session, storeVars, grants, tableVars, enrolled, cache, issueVars, requestVars,
          historyVars>>

Times == 0..(MaxTime + Lifetime + ProofTTL + ChallengeTTL + TicketTTL + DownloadTTL)
Grant == [state : {"PREPARING", "READY", "FAILED"}, used : BOOLEAN, network : BOOLEAN,
          authUsed : BOOLEAN, expiresAt : Times]
Challenge == [envelope : Envelopes, expiresAt : Times, used : BOOLEAN]
Ticket == [envelope : Envelopes, expiresAt : Times, remaining : 0..MaxDownloads]
Download == [envelope : Envelopes, expiresAt : Times, used : BOOLEAN]
Request == [kind : {"challenge", "authorize", "mint", "package"}, envelope : Envelopes,
            token : Challenges \cup Tickets \cup Downloads \cup {None}]

ASSUME NoneAssumption ==
  None \notin Grant \cup Challenge \cup Ticket \cup Download \cup Request

IssueSteps == {"none", "sign", "verify", "publish", "session", "audit", "ready", "fail", "done"}

TypeOK ==
  /\ now \in 0..MaxTime
  /\ session \in BOOLEAN /\ flag \in BOOLEAN /\ loaded \in BOOLEAN \cup {None}
  /\ ledger \in BOOLEAN
  /\ grants \in [Envelopes -> Grant \cup {None}]
  /\ challenges \in [Challenges -> Challenge \cup {None}]
  /\ tickets \in [Tickets -> Ticket \cup {None}]
  /\ downloads \in [Downloads -> Download \cup {None}]
  /\ published \subseteq Envelopes /\ prepared \subseteq Envelopes /\ enrolled \subseteq Envelopes
  /\ cache \in [Envelopes -> Times \cup {None}]
  /\ issuer \in [Envelopes -> IssueSteps]
  /\ reconciler \in {"idle", "session"}
  /\ pc \in [Requests -> {"idle", "proof", "act", "insert"}]
  /\ req \in [Requests -> Request \cup {None}]
  /\ authorizedAt \in [Envelopes -> Times \cup {None}]
  /\ consumedAt \in [Envelopes -> Times \cup {None}]
  /\ servedAt \in [Downloads -> Times \cup {None}]
  /\ revokedAt \in [Envelopes -> Times \cup {None}]
  /\ provedAt \in [Requests -> Times \cup {None}]

Init ==
  /\ now = 0
  /\ session = TRUE /\ flag = FALSE /\ loaded = None
  /\ ledger = FALSE
  /\ grants = [e \in Envelopes |-> None]
  /\ challenges = [c \in Challenges |-> None]
  /\ tickets = [t \in Tickets |-> None]
  /\ downloads = [d \in Downloads |-> None]
  /\ published = {} /\ prepared = {} /\ enrolled = Envelopes
  /\ cache = [e \in Envelopes |-> None]
  /\ issuer = [e \in Envelopes |-> "none"]
  /\ reconciler = "idle"
  /\ pc = [r \in Requests |-> "idle"]
  /\ req = [r \in Requests |-> None]
  /\ authorizedAt = [e \in Envelopes |-> None]
  /\ consumedAt = [e \in Envelopes |-> None]
  /\ servedAt = [d \in Downloads |-> None]
  /\ revokedAt = [e \in Envelopes |-> None]
  /\ provedAt = [r \in Requests |-> None]

-----------------------------------------------------------------------------
(* Helpers *)

Earlier(a, b) == IF a <= b THEN a ELSE b

IssuerAt(e, step) == issuer' = [issuer EXCEPT ![e] = step]

\* A row that record() returns.
recorded(e) == grants[e] # None /\ grants[e].state = "READY" /\ now < grants[e].expiresAt

\* Envelopes are required once the session says so or the ledger exists.
required == flag \/ ledger

-----------------------------------------------------------------------------
(* Issuance: create_trusted_bundle, begin_issue, finish_issue, fail_issue.  *)
(* Any step may raise, which leads to fail_issue.                           *)

BeginIssue(e) ==
  /\ issuer[e] = "none"
  /\ ledger' = TRUE
  /\ grants' = [grants EXCEPT ![e] = [state |-> "PREPARING", used |-> FALSE, network |-> FALSE,
                                      authUsed |-> FALSE, expiresAt |-> now + Lifetime]]
  /\ IssuerAt(e, "sign")
  /\ UNCHANGED <<now, session, flag, loaded, published, prepared, tableVars, enrolled, cache,
                 reconciler, requestVars, historyVars>>

\* sign_session and the five files in the staging directory.
Sign(e) ==
  /\ issuer[e] = "sign"
  /\ \/ IssuerAt(e, "verify")
     \/ "failure" \in Events /\ IssuerAt(e, "fail")
  /\ UNCHANGED <<now, session, storeVars, grants, tableVars, enrolled, cache, reconciler,
                 requestVars, historyVars>>

\* authority.verify of the staged bundle; a private handoff needs none.
VerifyStaged(e) ==
  /\ issuer[e] = "verify"
  /\ \/ (e \in Network => e \in enrolled) /\ IssuerAt(e, "publish")
     \/ "failure" \in Events /\ IssuerAt(e, "fail")
  /\ UNCHANGED <<now, session, storeVars, grants, tableVars, enrolled, cache, reconciler,
                 requestVars, historyVars>>

\* staged.replace(output)
Publish(e) ==
  /\ issuer[e] = "publish"
  /\ \/ published' = published \cup {e} /\ IssuerAt(e, "session")
     \/ "failure" \in Events /\ IssuerAt(e, "fail") /\ UNCHANGED published
  /\ UNCHANGED <<now, session, flag, loaded, ledger, prepared, grants, tableVars, enrolled, cache,
                 reconciler, requestVars, historyVars>>

\* The session is loaded and written under its path lock.
RegisterSession(e) ==
  /\ issuer[e] = "session"
  /\ \/ flag' = TRUE /\ IssuerAt(e, "audit")
     \/ "failure" \in Events /\ IssuerAt(e, "fail") /\ UNCHANGED flag
  /\ UNCHANGED <<now, session, loaded, ledger, published, prepared, grants, tableVars, enrolled,
                 cache, reconciler, requestVars, historyVars>>

AuditPrepared(e) ==
  /\ issuer[e] = "audit"
  /\ \/ prepared' = prepared \cup {e} /\ IssuerAt(e, "ready")
     \/ "failure" \in Events /\ IssuerAt(e, "fail") /\ UNCHANGED prepared
  /\ UNCHANGED <<now, session, flag, loaded, ledger, published, grants, tableVars, enrolled, cache,
                 reconciler, requestVars, historyVars>>

\* Fault: the update asks for the envelope alone.
not_used(e) == ~grants[e].used

preparing(e) == grants[e].state = "PREPARING" /\ ~grants[e].used

\* The conditional update to READY.
MakeReady(e) ==
  /\ issuer[e] = "ready"
  /\ \/ /\ preparing(e)
        /\ grants' = [grants EXCEPT ![e] = [@ EXCEPT !.state = "READY", !.network = (e \in Network)]]
        /\ IssuerAt(e, "done")
     \/ ~preparing(e) /\ IssuerAt(e, "fail") /\ UNCHANGED grants
     \/ "failure" \in Events /\ IssuerAt(e, "fail") /\ UNCHANGED grants
  /\ UNCHANGED <<now, session, storeVars, tableVars, enrolled, cache, reconciler, requestVars,
                 historyVars>>

\* fail_issue; an error of the store itself is swallowed.
FailIssue(e) ==
  /\ issuer[e] = "fail"
  /\ IssuerAt(e, "done")
  /\ \/ preparing(e) /\ grants' = [grants EXCEPT ![e].state = "FAILED"]
     \/ UNCHANGED grants
  /\ UNCHANGED <<now, session, storeVars, tableVars, enrolled, cache, reconciler, requestVars,
                 historyVars>>

IssuerTerminates(e) ==
  /\ "failure" \in Events
  /\ issuer[e] \notin {"none", "done"}
  /\ IssuerAt(e, "done")
  /\ UNCHANGED <<now, session, storeVars, grants, tableVars, enrolled, cache, reconciler,
                 requestVars, historyVars>>

-----------------------------------------------------------------------------
(* reconcile *)

\* Rows to fail: interrupted issuances, and unused ready rows whose bundle is
\* incomplete.
interrupted(e) ==
  /\ grants[e] # None /\ ~grants[e].used
  /\ \/ grants[e].state = "PREPARING"
     \/ grants[e].state = "READY" /\ e \notin published

Reconcile ==
  /\ "reconcile" \in Events
  /\ reconciler = "idle"
  /\ ledger' = TRUE
  /\ grants' = [e \in Envelopes |-> IF interrupted(e) THEN [grants[e] EXCEPT !.state = "FAILED"]
                                    ELSE grants[e]]
  /\ reconciler' = "session"
  /\ UNCHANGED <<now, session, flag, loaded, published, prepared, tableVars, enrolled, cache,
                 issuer, requestVars, historyVars>>

\* The session is made to require envelopes and the result audited, unless the
\* reconciliation is terminated first.
ReconcileSession ==
  /\ reconciler = "session"
  /\ reconciler' = "idle"
  /\ flag' \in {flag, TRUE}
  /\ UNCHANGED <<now, session, loaded, ledger, published, prepared, grants, tableVars, enrolled,
                 cache, issuer, requestVars, historyVars>>

-----------------------------------------------------------------------------
(* consume: the nonce request of a collector, or the import of its package  *)

consumable(e) ==
  /\ recorded(e)
  /\ ~grants[e].used
  /\ grants[e].network => grants[e].authUsed

Consume(e) ==
  /\ "consume" \in Events
  /\ consumable(e)
  /\ grants' = [grants EXCEPT ![e].used = TRUE]
  /\ consumedAt' = [consumedAt EXCEPT ![e] = now]
  /\ UNCHANGED <<now, session, storeVars, tableVars, enrolled, cache, issueVars, requestVars,
                 authorizedAt, servedAt, revokedAt, provedAt>>

-----------------------------------------------------------------------------
(* The network routes: _view, then the transaction of the route.            *)

\* The session is open and the row usable; a request that fails a check is
\* refused and changes nothing.
View(r, kind, e, token) ==
  /\ pc[r] = "idle"
  /\ session
  /\ recorded(e) /\ grants[e].network /\ ~grants[e].used
  /\ pc' = [pc EXCEPT ![r] = "proof"]
  /\ req' = [req EXCEPT ![r] = [kind |-> kind, envelope |-> e, token |-> token]]
  /\ UNCHANGED <<now, session, storeVars, grants, tableVars, enrolled, cache, issueVars,
                 historyVars>>

Answer(r) ==
  /\ pc' = [pc EXCEPT ![r] = "idle"]
  /\ req' = [req EXCEPT ![r] = None]
  /\ provedAt' = [provedAt EXCEPT ![r] = None]

Refuse(r) ==
  /\ pc[r] # "idle"
  /\ Answer(r)
  /\ UNCHANGED <<now, session, storeVars, grants, tableVars, enrolled, cache, issueVars,
                 authorizedAt, consumedAt, servedAt, revokedAt>>

\* Fault: a proof is kept as long as its envelope lives.
proof_expiry_envelope(e) == grants[e].expiresAt

proof_expiry(e) == Earlier(now + ProofTTL, grants[e].expiresAt)

\* A cached proof or a new one of the local authority, and the digests of the
\* bundle's files.  authority.verify is one step, however long it takes.
Prove(r) ==
  LET e == req[r].envelope
      cached == cache[e] # None /\ now < cache[e]
  IN
  /\ pc[r] = "proof"
  /\ now < grants[e].expiresAt
  /\ e \in published
  /\ \/ cached /\ UNCHANGED cache
     \/ ~cached /\ e \in enrolled /\ cache' = [cache EXCEPT ![e] = proof_expiry(e)]
  /\ pc' = [pc EXCEPT ![r] = "act"]
  /\ provedAt' = [provedAt EXCEPT ![r] = now]
  /\ UNCHANGED <<now, session, storeVars, grants, tableVars, enrolled, issueVars, req,
                 authorizedAt, consumedAt, servedAt, revokedAt>>

At(r, kind, label) == pc[r] = label /\ req[r].kind = kind

\* challenge reads the row once more ...
ReadForChallenge(r) ==
  LET e == req[r].envelope IN
  /\ At(r, "challenge", "act")
  /\ recorded(e) /\ grants[e].network /\ ~grants[e].authUsed /\ ~grants[e].used
  /\ pc' = [pc EXCEPT ![r] = "insert"]
  /\ UNCHANGED <<now, session, storeVars, grants, tableVars, enrolled, cache, issueVars, req,
                 historyVars>>

LiveChallenges(e) ==
  {c \in Challenges : /\ challenges[c] # None /\ challenges[c].envelope = e
                      /\ ~challenges[c].used /\ now < challenges[c].expiresAt}

challenge_slot(e) == Cardinality(LiveChallenges(e)) < MaxChallenges

\* ... and inserts the challenge in a second transaction.
InsertChallenge(r) ==
  LET e == req[r].envelope IN
  /\ At(r, "challenge", "insert")
  /\ challenge_slot(e)
  /\ \E c \in Challenges :
       /\ challenges[c] = None
       /\ challenges' = [challenges EXCEPT ![c] =
            [envelope |-> e, expiresAt |-> Earlier(now + ChallengeTTL, grants[e].expiresAt),
             used |-> FALSE]]
  /\ Answer(r)
  /\ UNCHANGED <<now, session, storeVars, grants, tickets, downloads, enrolled, cache, issueVars,
                 authorizedAt, consumedAt, servedAt, revokedAt>>

\* Fault: the secret of an invitation can be used again.
authorizable_again(e, c) ==
  /\ recorded(e) /\ grants[e].network /\ ~grants[e].used
  /\ challenges[c] # None /\ challenges[c].envelope = e
  /\ ~challenges[c].used /\ now < challenges[c].expiresAt

authorizable(e, c) ==
  /\ recorded(e) /\ grants[e].network /\ ~grants[e].authUsed /\ ~grants[e].used
  /\ challenges[c] # None /\ challenges[c].envelope = e
  /\ ~challenges[c].used /\ now < challenges[c].expiresAt

\* The assessor's secret and the challenge are used up for one ticket.
Authorize(r) ==
  LET e == req[r].envelope
      c == req[r].token
  IN
  /\ At(r, "authorize", "act")
  /\ authorizable(e, c)
  /\ challenges' = [challenges EXCEPT ![c].used = TRUE]
  /\ grants' = [grants EXCEPT ![e].authUsed = TRUE]
  /\ \E t \in Tickets :
       /\ tickets[t] = None
       /\ tickets' = [tickets EXCEPT ![t] =
            [envelope |-> e, expiresAt |-> Earlier(now + TicketTTL, grants[e].expiresAt),
             remaining |-> MaxDownloads]]
  /\ authorizedAt' = [authorizedAt EXCEPT ![e] = now]
  /\ Answer(r)
  /\ UNCHANGED <<now, session, storeVars, downloads, enrolled, cache, issueVars, consumedAt,
                 servedAt, revokedAt>>

\* The row lets downloads of its envelope happen.
downloadable(e) ==
  /\ recorded(e) /\ grants[e].network /\ grants[e].authUsed /\ ~grants[e].used

ticket_left(t) == tickets[t].remaining - 1

\* Fault: a download may outlive its ticket.
download_expiry_unbounded(t) == now + DownloadTTL

download_expiry(t) == Earlier(now + DownloadTTL, tickets[t].expiresAt)

ticket_usable(t) == now < tickets[t].expiresAt /\ tickets[t].remaining > 0

MintDownload(r) ==
  LET e == req[r].envelope
      t == req[r].token
  IN
  /\ At(r, "mint", "act")
  /\ downloadable(e)
  /\ tickets[t] # None /\ tickets[t].envelope = e
  /\ ticket_usable(t)
  /\ \E d \in Downloads :
       /\ downloads[d] = None
       /\ downloads' = [downloads EXCEPT ![d] =
            [envelope |-> e, expiresAt |-> download_expiry(t), used |-> FALSE]]
  /\ tickets' = [tickets EXCEPT ![t].remaining = ticket_left(t)]
  /\ Answer(r)
  /\ UNCHANGED <<now, session, storeVars, grants, challenges, enrolled, cache, issueVars,
                 authorizedAt, consumedAt, servedAt, revokedAt>>

\* package: the archive is read, then the download consumed and the archive sent.
ConsumeDownload(r) ==
  LET e == req[r].envelope
      d == req[r].token
  IN
  /\ At(r, "package", "act")
  /\ downloads[d] # None /\ downloads[d].envelope = e
  /\ ~downloads[d].used /\ now < downloads[d].expiresAt
  /\ downloadable(e)
  /\ downloads' = [downloads EXCEPT ![d].used = TRUE]
  /\ servedAt' = [servedAt EXCEPT ![d] = now]
  /\ Answer(r)
  /\ UNCHANGED <<now, session, storeVars, grants, challenges, tickets, enrolled, cache, issueVars,
                 authorizedAt, consumedAt, revokedAt>>

-----------------------------------------------------------------------------
(* Environment *)

Tick ==
  /\ now < MaxTime
  /\ now' = now + 1
  /\ UNCHANGED <<session, storeVars, grants, tableVars, enrolled, cache, issueVars, requestVars,
                 historyVars>>

CloseSession ==
  /\ "close" \in Events
  /\ session /\ session' = FALSE
  /\ UNCHANGED <<now, storeVars, grants, tableVars, enrolled, cache, issueVars, requestVars,
                 historyVars>>

\* The local policy no longer approves an envelope's publisher or Lab key.
Revoke(e) ==
  /\ "revoke" \in Events
  /\ e \in enrolled
  /\ enrolled' = enrolled \ {e}
  /\ revokedAt' = [revokedAt EXCEPT ![e] = now]
  /\ UNCHANGED <<now, session, storeVars, grants, tableVars, cache, issueVars, requestVars,
                 authorizedAt, consumedAt, servedAt, provedAt>>

\* The operator deletes a published bundle.
RemoveBundle(e) ==
  /\ "remove" \in Events
  /\ e \in published
  /\ published' = published \ {e}
  /\ UNCHANGED <<now, session, flag, loaded, ledger, prepared, grants, tableVars, enrolled, cache,
                 issueVars, requestVars, historyVars>>

\* record_token_use and set_session_status write back a session loaded earlier.
LoadSession ==
  /\ "stale" \in Events
  /\ loaded = None /\ loaded' = flag
  /\ UNCHANGED <<now, session, flag, ledger, published, prepared, grants, tableVars, enrolled,
                 cache, issueVars, requestVars, historyVars>>

WriteSession ==
  /\ loaded # None
  /\ flag' = loaded /\ loaded' = None
  /\ UNCHANGED <<now, session, ledger, published, prepared, grants, tableVars, enrolled, cache,
                 issueVars, requestVars, historyVars>>

-----------------------------------------------------------------------------
Issue(e) ==
  \/ BeginIssue(e) \/ Sign(e) \/ VerifyStaged(e) \/ Publish(e) \/ RegisterSession(e)
  \/ AuditPrepared(e) \/ MakeReady(e) \/ FailIssue(e) \/ IssuerTerminates(e)

Serve(r) ==
  \/ Prove(r) \/ ReadForChallenge(r) \/ InsertChallenge(r) \/ Authorize(r) \/ MintDownload(r)
  \/ ConsumeDownload(r) \/ Refuse(r)

\* A request that presents a secret which was never handed out is refused.
Arrive(r, e) ==
  \/ View(r, "challenge", e, None)
  \/ \E c \in Challenges : challenges[c] # None /\ View(r, "authorize", e, c)
  \/ \E t \in Tickets : tickets[t] # None /\ View(r, "mint", e, t)
  \/ \E d \in Downloads : downloads[d] # None /\ View(r, "package", e, d)

Next ==
  \/ \E e \in Envelopes : Issue(e) \/ Consume(e) \/ Revoke(e) \/ RemoveBundle(e)
  \/ Reconcile \/ ReconcileSession
  \/ \E r \in Requests : Serve(r) \/ \E e \in Envelopes : Arrive(r, e)
  \/ Tick \/ CloseSession \/ LoadSession \/ WriteSession

Spec == Init /\ [][Next]_vars

-----------------------------------------------------------------------------
(* Properties *)

\* An envelope becomes READY only after the preparation has been audited, its
\* bundle published and the session made to require envelopes, although a
\* termination, a failure or a reconciliation may come between any two steps;
\* a ready row of a network invitation has the flag of one.
ReadyIsPrepared ==
  \A e \in Envelopes :
    grants[e] # None /\ grants[e].state = "READY" =>
      /\ e \in prepared /\ required
      /\ grants[e].network <=> e \in Network
      /\ issuer[e] = "done"

\* A failed envelope never becomes usable and a consumed one is never reset,
\* whether the issuer finishes before or after the reconciliation that took its
\* issuance for interrupted; and what an issuer left PREPARING when it was
\* terminated, or could not mark as failed, is never made READY.
GrantsFinal ==
  [][\A e \in Envelopes : grants[e] # None =>
       /\ grants'[e] # None
       /\ grants[e].state = "FAILED" => grants'[e].state = "FAILED"
       /\ grants[e].used => grants'[e].used /\ grants'[e].state = "READY"
       /\ grants[e].state = "PREPARING" /\ issuer[e] = "done" => grants'[e].state # "READY"]_vars

\* A network invitation is consumed only after its assessor authorized it.
UseIsAuthorized ==
  \A e \in Envelopes :
    consumedAt[e] # None /\ e \in Network =>
      authorizedAt[e] # None /\ authorizedAt[e] <= consumedAt[e]

\* The one-time secret yields one ticket, however many challenges race.
OneTicket ==
  \A t, u \in Tickets :
    tickets[t] # None /\ tickets[u] # None /\ tickets[t].envelope = tickets[u].envelope => t = u

\* Every archive is sent while its ticket and its envelope are valid and before
\* the envelope's submission capability is used.
ServedInWindow ==
  \A d \in Downloads : servedAt[d] # None =>
    LET e == downloads[d].envelope IN
      /\ authorizedAt[e] # None /\ servedAt[d] < authorizedAt[e] + TicketTTL
      /\ servedAt[d] < grants[e].expiresAt
      /\ consumedAt[e] # None => servedAt[d] <= consumedAt[e]

\* A revocation takes effect within the lifetime of a cached proof.
RevocationBounded ==
  \A r \in Requests :
    pc[r] \in {"act", "insert"} /\ revokedAt[req[r].envelope] # None =>
      provedAt[r] <= revokedAt[req[r].envelope] + ProofTTL
=============================================================================
