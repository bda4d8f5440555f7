# Formal model of the Collector Security Analyzer

TLA+ specifications, TLC configurations and TLAPS proofs for the parts of the
Collector Security Analyzer (CSA) that keep state, run concurrently, talk to
unreliable parties, or decide what an operator is told about an endpoint.

Contents: 1 the system, 2 the modules, 3 runs, 4 bounds, 5 fairness, 6 proofs,
7 abstractions, 8 observations, 9 not modelled, 10 plan.

## 1. The system

CSA assesses Windows endpoints. An assessor runs *CSA Lab* (`csa_lab`), a local
administration server that creates an assessment, opens a collection session,
serves a collector package over HTTPS and shows the results. *Collectors*
(`collector`, PowerShell and C#) on the endpoints gather evidence and upload it to
the *Console* (`csa_console`), or write encrypted files that the assessor imports.
The Console validates, normalizes and analyses each package: `analyzer.py` looks up
CVEs (`cve`), may run active validation (`active_validation`), and evaluates
compliance profiles (`compliance`) and framework packs (`frameworks`).

| component | state | operations | interacts with |
|---|---|---|---|
| Submission intake (`submission.py`, `nonces.py`, `offline.py`, `pipeline.py`) | nonce records, quarantine, accepted storage, index, receipts, derived files | request_nonce, accept, import_file, update_processing_state, remove_submission, analyze | handler threads and the operator; shares the session file; consumes envelopes |
| Sessions (`sessions.py`) | status, token uses, trusted flag in one JSON file | open_session, set_session_status, verify_token, record_token_use | rewritten as a whole by intake, Lab and issuance |
| Lab service (`csa_lab/service.py`, `firewall.py`) | lab state file, servers, firewall rule, stop marker, jobs | start, pause, resume, stop, delete, clean up, import, report, scan, shutdown | starts and stops the listener, changes the session |
| HTTPS listener and portal (`server.py`, `portal.py`) | handler threads, rate limiter, throttle of failed joins, download count and its file | join, download, launcher package | the audit log, the session, start and pause |
| Trusted envelope ledger (`trusted_grants.py`, `trusted_network.py`, `trusted_distribution.py`) | SQLite tables, bundle directories, cached proofs | issue, reconcile, challenge, authorize, download, consume | session, audit, intake, the trusted collector |
| Collector (`Invoke-CSACollector.ps1`, `bootstrapper/Program.cs`) | directories, evidence, exit code | collect, transform, check, submit, export, retry | the intake |
| Trusted collector (`collector/trusted`) | markers, lease on the extracted files, retries | acquire, verify, extract, launch | network routes of the ledger, the script |
| Background scan (`csa_lab/service.py`, `pipeline.py`) | job record, cancel events, status in findings | start, cancel, progress, worker | administration threads, one worker per job |
| CVE providers (`cve/client.py`, `rate_limiter.py`, `cache.py`, `providers`) | window of request times, response, catalogue and provider caches | scan, enrich, cancel | NVD, CISA KEV, CVE Program; the background scan |
| Active validation (`active_validation`) | run directories and their registry, worker and harness processes, firewall rules, state file | plan, authorize, execute, observe, roll back, assess | the operator's Windows, a target host |
| Pure decisions (`cve/applicability.py`, `cpe_resolver.py`, `prioritization.py`, `software/lifecycle.py`, `compliance`, `frameworks`, the posture in `evidence`) | none, and the pack files of a review | assess, resolve, prioritize, evaluate, review | the findings of an analysis |
| Audit log (`audit.py`, `canonical.py`) | hash-chained JSON lines | append, verify | appended to by all of the above |

The hard behaviours are listed with their lines under `hazards` in `PROJECT.json`:
whole-file read-modify-write by different components; locks that belong to one
object, one path or one process; terminations between the files one operation
writes; one failing step of several; state loaded before another call changed it;
budgets, throttles and lifetimes at their limits; answers that are lost and calls that
are repeated; processes that are killed while another still acts for them; caches
that outlive what they cached; decisions in which rules compete.

## 2. The modules

| module | models | extended or instantiated by |
|---|---|---|
| `Submission` | intake, session file, envelope consumption, analysis, restarts | `SubmissionProofs` |
| `EvidenceLedger` | abstract: what the Console promises about evidence | instantiated by `Submission` |
| `LabService` | the life cycle of one assessment in the Lab | `LabServiceProofs` |
| `AuditChain` | append and verify of the audit log | `Portal`, `PortalProofs` |
| `Portal` | join, throttle, rate limit, downloads, start and pause, on the audit log | `MCPortal`, `PortalProofs` |
| `TrustedGrants` | issuance, reconciliation, network routes, consumption | `TrustedCollector`, `MCTrustedGrants`, `CollectorProofs` |
| `Collector` | the script and the bootstrapper of a collection | `TrustedCollector`, `CollectorProofs` |
| `TrustedCollector` | composition: trusted and plain collections against the ledger, with lost answers | `MCCollector`, `CollectorProofs` |
| `CveJob` | job record, events, worker threads, endpoint statuses | `CveJobProofs` |
| `NvdClient` | paging, retry, window limiter, response cache of NVD | `CveScan` |
| `CveScan` | scan and enrichment of endpoints, all caches, cancellation | `MCCveScan`, `CveScanProofs` |
| `TransportHarness` | the process of the deep validator: rules, observation, rollback | `ActiveValidation` |
| `ActiveValidation` | composition: engine, worker and harness processes | `ActiveValidationProofs` |
| `Decision` | an input is decided once | the modules below |
| `ValidationPlan`, `ResponderAssessment`, `ValidationDecisions` | which validators run; what observations amount to | `Decisions` |
| `Applicability`, `CpeResolution`, `Prioritization`, `VulnerabilityDecisions` | versions, configurations, CNA ranges, product mapping, conflicts, priority, support | `Decisions` |
| `Compliance`, `Frameworks`, `ComplianceDecisions` | evidence, controls, profiles; packs and their review | `Decisions` |
| `TrustBundle`, `BundleInputs` | every check of a trusted bundle; bundles and their changes | `Decisions`, `MCDecisions` |
| `EndpointPosture` | malware protection, BitLocker, administrator membership and product status from sources that may be missing or disagree | `Decisions` |
| `Decisions` | the decisions over given inputs | `MCDecisions`, `DecisionsProofs` |

Each action is named after the function, or the part of it, that it translates;
`map` in `PROJECT.json` gives the lines. A definition introduced by `Fault:` is a
plausible mistake used to test that a property can fail; no specification uses it.

**Submission.** A thread is one call in progress (`pc`, `req`, and the session
`cur` or nonce record `nrec` it has loaded). An upload runs
`Accept -> RequireAuthorized -> ConsumeNonce -> MarkUsed -> Stage -> EndWrite ->
Validate -> RequireBinding -> LockIndex -> MoveToAccepted -> AppendIndex -> UseLoad ->
UseWrite -> WriteReceipt -> RecordProvenance -> Normalizing -> ... -> Report`, leaving at
every check that can refuse it; an import joins at the grant or the index lock and writes its
archive to accepted storage itself (`WriteAccepted`, `EndWrite`). A read or write of a JSON file is
one step, because those files are replaced by a rename; an archive is written in place and is
torn until its write ends. A removal unlinks its files one by one before it writes the index.
`HostFails` lets the write of any step fail: the call then raises as the code
does, and `unsettled` records where nothing is left to settle the submission. Locks are
the code's own: one nonce lock per server instance, one path lock for the index.
`EvidenceLedger` has only Record, Acknowledge, Retract and Withdraw; `Submission` maps
index, removed items and receipts to its variables.

**LabService.** Calls hold `lock` for as long as the code holds `_lock`; resume,
clean-up, report and scan do not take it. `server` is the entry in `_servers`,
`listening` the accept loop, `firewall` the rule, `lab` the state file and `copy`
the state a call has loaded. `Boot` is `detect_recovery_items`. A call of the elevated `netsh`
gives up after 120 seconds and leaves the process behind (`helper`); what that one adds after the
call has failed is `late`. An import whose `import_file` raises after the package is in the index
is `raised`, and skips what the service does after it.

**AuditChain and Portal.** An entry is its own hash and that of the entry before it.
A write may end half-way, leaving part of a line, or a whole line without its end.
`Portal` runs the handler threads of the listener: a failed join and a download end
with an append, whose steps are those of `AuditChain` on the same thread. Each
listener has its own binding (count, failures, block, window); the count of the
file goes from one to the next through `Start`, `ReadStatus` and `WriteStatus`.

**TrustedGrants and TrustedCollector.** One SQLite transaction is one step; session,
bundle and audit log are separate stores, written in the order of the code. In
`TrustedCollector` the client's calls are requests of `TrustedGrants`; a request may
be lost, its answer may be lost, and a request the client has given up is still
served. The launcher marks an envelope as used before it starts the script of `Collector`.

**Collector.** The script collects, transforms, checks, submits or exports, and cleans
up in its `finally`; the launcher sees its exit code, offers retry and offline, and
removes its directory.

**CveJob, NvdClient and CveScan.** Accesses to the job record and the event
dictionary are one step each; a worker keeps the Event it looked up, while progress
and the last check look into the dictionary again. The mark of a cancelled or failed scan is a step
of its own that may raise, before its write or after it, with the second attempt of the outer handler; an
endpoint whose last mark was not written is `unmarked`. `NvdClient` keeps the provider's list as
an `order` of rows into which `Tick` may insert at any place, since pages are asked for by
offset. `CveScan` is what such a worker
runs for one endpoint: the wait for the window, the request, the answer and each
cache write are steps, and `Tick` makes everything one tick older.

**ActiveValidation.** The engine follows a plan; for each entry it makes and tracks a
directory, spawns a worker and waits with a time-out. The worker of the deep validator
starts the harness, which writes its state file, adds two firewall rules through scripts that
may outlive it (`orphans`), listens, answers, observes and rolls back. Killing a
process leaves the others where they are.

**The decision modules** are operators. An input is a record of what the code reads;
`Decide` evaluates the operator once. A property compares the result with a
reference statement over the input, written without the operator.

## 3. Runs

| run | question | distinct states |
|---|---|---|
| `submission_uploads` | Do two racing uploads with expiring nonces, an expiring session and a limit of one spend every nonce and use exactly once? | @U@ |
| `submission_ledger` | Do uploads, imports and removals over one envelope that may lapse implement the ledger, and does every call end, one write failing at any step? | @L@ |
| `submission_crash` | What does the next process find after a termination at any step, within an archive or a removal too? | @C@ |
| `lab_concurrent` | Can requests of the assessor that interleave leave a closed session reachable? | @LC@ |
| `lab_sequence` | Does any sequence of calls, failures and terminations lose a rule or offer an outdated report? | @LS@ |
| `grants` | Do tickets, downloads, revocations and issuances stay within their windows and states? | @G@ |
| `cve_job` | Do jobs that fail, are cancelled or overlap end, and speak for what they read? | @J@ |
| `portal` | Do threads that share throttle, count and log keep their limits? | @P@ |
| `validation_run` | What does a validation run leave behind, and what does it claim? | @V@ |
| `cve_scan` | Do limits, cancellation and completeness hold over slow, failing and changing providers, and over pages of different age? | @S@ |
| `collector` | Is what a user is told what happened, over lost answers, retries and kills? | @CO@ |
| `decisions` | Does each decision agree with its reference statement? | @D@ (two for each input) |

All pass. What they show beyond their names:

- `CapabilitiesCounted`: the session's count of uses and the used nonces agree with
  the evidence taken, under every interleaving of loads and writes of the session.
- `ReceiptBacked`, `AcceptedIsValidated`: whatever step a termination or a failed write interrupts, a
  receipt names an item of the index, and an indexed archive is the one that was validated. What
  accepted storage holds beyond the index was validated too, or is the torn file of an import.
- `Progress`: calls return, and a receipted upload settles unless a write fails that nothing
  follows up (`unsettled`).
- `AccessClosed`, `AccessAccounted`: no listener and no rule for a closed session; a rule
  that is left is owned by a server or reported for recovery. A rule that an elevated process adds after its
  call has failed is excepted, by the second only until the next start of the application.
- `ReportCoversImports`: a report on offer covers every import but those that raised after they were indexed,
  which is less than `docs/offline-assessment-et.md:30` promises (section 8).
- `GrantsFinal`: a failed or consumed envelope stays so, and what an issuer left behind in
  preparation is never made ready, whatever a late step or a reconciliation does.
- `NoEndpointRunning`: an ended job leaves no endpoint RUNNING, though the first attempt at the mark may fail,
  unless the process was terminated or the last attempt failed too; a completed job repairs those.
- `RevocationBounded`: a proof cached before a revocation serves for `ProofTTL` at most.
- `DownloadsBounded`: over listeners, pauses and crashes the Collector is served at
  most `maximum_downloads` times, and once more for each download counted while a
  start or pause rewrote the file; `ThrottlesHold` bounds what threads that share
  a throttle or a window can gain: a late failure sets the block to its own, earlier time, so
  that `n` threads may compare up to `n (n + 1) / 2 - 1` codes beyond the limit.
- `RulesRecorded`: a firewall rule never exists without its record on disk;
  `LeftIsReported`: what a run leaves behind is in its result; `ConfirmedIsWitnessed`:
  a confirmed exposure was seen on the wire, in that run, by that harness.
- `WindowRespected`, `CancelBounded`: no more than the limiter's requests are sent in a
  window, whatever is retried, and a cancelled scan sends no more than the one it is in;
  `EnrichmentHonest`: an enrichment that says it is complete speaks for what the providers said within
  the lifetimes of the caches; `CompleteIsCurrent`: so does a scan, wherever rows were
  inserted between pages of different age, unless a page told of fewer rows than the page before it.
- `EndingIsHonest`: what the user is told at the end of a collection is what happened to the
  evidence; `WithheldStaysHome`: evidence that failed the privacy transformation or the sensitive-data
  check is neither sent nor exported; `EnvelopeYieldsOne`, `RetriesWithinBudget`.
- `ValidationIsPermitted`, `AnswersFollowEvidence`, `ReportFollowsEvidence`,
  `ComplianceIsEarned`, `ClaimsAreReviewed`, `OnlySignedRuns`: the answers of the
  pure functions against reference statements, for each input. `ValidationIsPermitted` states what the
  code takes for a permitted authentication, which includes a setting without a value;
  `ReportFollowsEvidence` states which product and which of its registrations malware protection
  passes for. Section 8 says where documents and messages say otherwise.

All runs but `validation_run` and `decisions` disable TLC's deadlock check: a
component may rest when its bounds are used up or its assessment is deleted. That
nobody waits for ever is `Progress`, `JobEnds`, `RunEnds` and `ScanEnds`.

Each property has a mutant: a definition that models code is replaced by a mistake
(a dropped lock, an uncounted download, a record written after the rule) and TLC then
finds the property violated under the same configuration.

## 4. Bounds

- *Intake*: two threads, since its races are between two calls on a shared file; two ids make
  "same id" and "different ids" possible; two nonces let one id be issued a second
  while an upload holds the first. A limit of one in `submission_uploads` lets two
  uploads in flight meet at its end. Nonces and the session expire there; the envelope lapses in
  `submission_ledger`. `submission_crash` has one call at a time
  (section 8); two terminations let a recovery be interrupted, and calls that interleave with terminations
  are left to the theorems. One write fails, at any step; a second would only end another call. One source address, in
  the session's networks.
- *Lab*: three calls so that two can queue behind a lock holder. `lab_concurrent` leaves
  out clean-up, stop marker and a failing portal write, and `lab_sequence` has them, one call
  at a time (section 8); that run leaves out a denied removal of the rule, after
  which the rule stays although nothing asks for recovery. Late helpers are in both, imports that raise in
  `lab_sequence`.
- *Grants*: two of everything that is competed for and lifetimes of one to three
  ticks in three ticks of time. The constraint `Halves` explores serving of an invitation issued
  without a fault, and issuing before any request, one at a time: the first
  reads nothing that the second leaves unfinished but the state of the grant.
- *Jobs*: a second job can start during the clean-up of the first; endpoints arrive
  during a scan.
- *Portal*: two threads; one download, two failures and two requests allowed, so that two
  threads can pass each limit together; two listeners; one fault. `TimeOrAssessor` explores
  downloads, assessor and faults at one time (two requests, or three without wrong
  codes and faults), and time with up to five requests to one listener. Where time passes,
  `AppendsTogether` takes the steps of an append without a gap, which touch nothing of
  the portal. The view leaves out what no step reads again.
- *Active validation*: a plan of two validators of which the first is the deep one, so that a
  worker follows the harness; three connections and three requests, enough for
  challenge, authentication and a repetition; any number of the listed faults. A kind of fault may
  occur at every place where the code can meet it.
- *CVE scan*: two scans of inventories with a product to be discovered, one with a local
  mapping, one that is not eligible and one without a version; two requests a window, one retry,
  one row a page and two rows, so that a row can be added between two pages. A second
  world of the run has one product with three rows on three pages, so that pages of three ages can meet an
  insertion at each place, and nobody who cancels. A behaviour is in one world from its first step; what the second leaves
  out are choices of the environment, to which no fairness is given.
- *Collector*: three runs of a script, two download attempts, one retry, two clients.
  `Halves` explores two clients that race for one envelope, without script failures
  the race does not see, and one client of any kind alone. The view
  leaves out the history of the ledger.
- *Decisions*: one or two of everything an answer combines (criteria, nodes, mappings,
  findings, profiles, controls, products), each with every value the code tells apart; versions
  below, on and above each boundary, of two or four numbers and so none that is read as a semantic version; a bundle with up to two changes. What a theorem assumes of an
  input (its fields and their types) is an assumption that TLC evaluates over all of them.

Symmetry is used only in runs without liveness properties, and only over sets whose members
the specification does not tell apart; no run with a liveness property has a constraint.

## 5. Fairness

- `Submission!Fairness`: weak fairness of each thread's own steps, because a
  Python thread that can run is scheduled. It says nothing of a lock that others
  keep taking; in the run new calls are bounded by nonces, ids and the envelope.
- `CveJob!Fairness`: weak fairness of each worker. A scan returns or raises since every
  provider request has a timeout; `Progress` callbacks are not assumed.
- `ActiveValidation`: weak fairness of the engine's steps, of the worker's and of the time-out,
  which the operating system delivers. The harness gets none: a harness that
  hangs is ended by the time-out of its worker.
- `CveScan`: weak fairness of the scanning thread and of the clock, without which a wait for
  the window does not end. A provider may answer with any error for ever; the retries are bounded.

Nothing is assumed of clients, operators, targets, cancellations, restarts or faults.
`LabService`, `TrustedGrants`, `AuditChain`, `Portal`, `Collector` and `TrustedCollector`
state safety only.

## 6. Proofs

All theorems hold for every value of the constants that satisfies the named
assumptions of the modules (sets of any size, any bounds).

- `SubmissionProofs`. `TypeCorrect` rests on `TypeInv`: besides the types, a call at
  a label has the request, session copy or nonce record that its next step uses.
  `IndexUniqueAlways`, `ReceiptBackedAlways` and `RefinesLedger` rest on `Safety`:
  a call between its duplicate check and its append holds the index lock and its id
  is not listed; a call between append and receipt has its item in the index or
  among the removed; a removal at work holds the lock and has its item in the index until its last
  step; indexed items are validated packages. An unlinked receipt is a Retract, the index write of
  the removal a Withdraw, the other steps of a removal are invisible, and so a
  termination between them is none the ledger has not. `IndexUnique` alone
  is not inductive: the append would not know that the check still holds.
  `EnvelopePerItemAlways`: a call that may append has passed
  `require_evidence_binding`, and a consumed envelope stays consumed by its id.
  `AcceptedIsValidatedAlways`, for one call at a time: the staged file is the call's
  own until it is moved, and a file in accepted storage that the index does not list is what a move
  left there or what an import was writing. `NonceSpentOnceAlways`, for one server instance: a fresh
  nonce that is on disk as unused is unspent. `CapabilitiesCountedAlways` counts, under the
  index lock, the receipts and the call that still owes one, for any finite set of threads.
  It covers handlers of one instance and no failed write: an import counts its use outside the lock, a status
  change writes back the session it loaded, a removal withdraws a receipt, a termination or a failed write
  loses what was owed, and with those the count may differ.
- `LabServiceProofs`. `LabTypeCorrect`; `AccessClosedAlways`, assuming that
  `cleanup_recovery` is not called: `AccessInv` says that a call which opens
  access holds the lock and its session is open, and that what a closing call has
  shut stays shut, but for a rule that is `late`. The assumption is needed (section 8). For one request at a time,
  `AccessAccountedAlways` from `RuleInv` (what each position knows of a rule without a server), if a
  rule can be removed, and `ReportCoversImportsAlways` from `ReportInv` (a request that
  imports ends with the report dropped or made again, or with its package among the `raised`).
- `CveJobProofs`. `JobTypeCorrect`; `OneScanAlways` from *a working worker keeps the
  job active*; `NoEndpointRunningAlways` from *before a termination, an endpoint
  marked RUNNING is under a worker, or its last mark has failed*; `ResultHonestAlways` from *a worker with clean-up left has
  not read more of the dashboard than the one about to publish*.
- `PortalProofs`, the log. `AuditTypeCorrect`; `EndedLinesKeptAlways`;
  `VerifiedCoversAckedAlways`, for any processes, from *unless a line is torn, what
  was written is in the log*; `ChainLinkedAlways`, for the threads of one process,
  from *the thread inside append holds the lock and what it read is still final*.
- `PortalProofs`, the portal. `PortalImplementsAudit`: every step of the portal is a step of `AuditChain`
  or leaves its variables alone, so the composition implements the audit log;
  `PortalLogHolds` carries the theorems about the log over to it.
  `DownloadsBoundedAlways`, for any finite number of threads: every place from which the count
  is taken next (the file, the newest binding, the copy of the assessor) accounts for what
  was served. `ThrottlesHoldAlways`, for any number of threads but none, from two conditions. Of the
  limiter: as long as nothing of a window has dropped out of its deque the limit bounds what was granted,
  and what drops out ends the window for all but the threads that wait. Of a listener in a throttle
  period: it is below the limit and what was compared is recorded or failing, or it is blocked to the
  end, or a slow thread has cut the block, and each cut uses up one slow thread. The attempt at the proof showed that
  the first form of the bound, exact for two threads, was false for three.
- `ActiveValidationProofs`. `ValidationTypeCorrect`; `RulesRecordedAlways` and `LeftIsReportedAlways`
  from the invariant of the firewall: while rules are being added both are on record in a
  directory that is tracked, and a result that asks for nothing by hand exists only when no rule is left;
  `ConfirmedIsWitnessedAlways` from the invariant of the observation, which at every
  stage says no more than was on the wire. They hold for any number of runs, of which the
  configuration has one.
- `CollectorProofs`, the endpoint. `CollectorTypeCorrect`; `EndingIsHonestAlways` and `WithheldStaysHomeAlways` from *where evidence
  is, what the script may still do with it, and what the launcher can still claim of it*;
  `EnvelopeYieldsOneAlways` from the ownership of an envelope by the client that marked it, which starts one
  run and has the ledger's one consumption; `RetriesWithinBudgetAlways`, when a client tries no more
  downloads than the Lab grants, from what is left on a ticket against the attempts left.
  They assume that no request is named like the absent value.
- `CollectorProofs`, the ledger. `GrantTypeCorrect`; `ReadyIsPreparedAlways` and
  `GrantsFinalAlways` from `IssueInv`, which ties the
  position of each issuer to the stores it has written, so that an issuer that has ended has
  nothing left with which it could make its envelope ready; `OneTicketAlways`,
  `UseIsAuthorizedAlways` and `ServedInWindowAlways` from `AuthInv`, which bounds
  each ticket and download by the lifetimes it was cut from; `RevocationBoundedAlways`:
  a cached proof ends within its lifetime of now, and of the revocation once there is one.
- `CveScanProofs`. `CancelBoundedAlways` from a bound on what may have been sent at each stage of the work in
  hand; `EnrichmentHonestAlways` from *what was stale or failed has marked its provider*;
  `WindowRespectedAlways` from *the requests granted in the window are the youngest timestamps of
  the limiter, the oldest first*, so that removing expired heads loses none of them;
  `CompleteIsCurrentAlways` from *a page knows
  the rows older than it, and goes on where the page before it ended unless that one knew of more rows* (`PageInv`, `Continues`):
  rows are only added, so none moves to an earlier place, and as long as every page was whole and none knew fewer rows than
  the one before it, the due rows up to the end of the last page have been read (`ReadInv`). Without that
  condition the formula is false (section 8).

- `DecisionsProofs`. `Spec` decides any input of the set `Inputs` once, and the theorems are about
  every such set; what an input is (which fields, of which types) is stated by `RequestsAssumption`,
  `ObservationsAssumption`, `ProductsAssumption`, `SourcesAssumption`, `EvidenceAssumption`,
  `ProfilesAssumption` and `PacksAssumption`. The one
  invariant is `Answered`: the output is the answer of the operator to the input; the work is in the
  lemmas about the operators. `ValidationIsPermittedAlways`: the work list of the planner reaches
  a fixed point within its rounds, since a round that adds nothing is the last and every other adds
  a validator; a descent that meets nobody twice ends at one that waits for nobody, so that the order is a
  permutation in which dependencies come first; and the verdict is traced through the aggregate to the first
  value of the setting that the binding source carries. `AnswersFollowEvidenceAlways`: a result of a
  criterion that is settled stays what it is when evidence is added, and the bound that the desktop client gets on Windows can
  only exclude more; a node of a configuration speaks for its formula if its parts do, the least one that did not would refute it; release
  numbers padded to four components are totally ordered, and after every change of an item the state
  is that of a reached change that no reached one is newer than; no candidate is surer than 95, which a row that
  matches in full reaches, so that a second family of the same platform would make the mapping ambiguous.
  `CnaFollowsRanges` is about products that go by their release number, not about CPython.
  `ReportFollowsEvidenceAlways`: more evidence moves the score of the triage
  up and no date moves support back; each answer about the posture is traced to the source that
  bears it out, that of malware protection through the merging of the registrations to the first
  product and the registration its signature state came from. `ComplianceIsEarnedAlways`: what the profiles up to a place have merged to
  is carried along the list; the mapping selected is no less validated and confident than any other; a compliant control
  has only supporting evidence, so without the only finding of a rule, or a field, each child of a composite finds the
  same or nothing, and the weighted confidence of a composite, a total that grows with its terms and rounding that keeps order,
  does not rise. It assumes that the children of a composite weigh nothing less than zero, which
  the loader does not check; the frameworks that ship have no composite. `ClaimsAreReviewedAlways`: a mapping is validated only by an accepted decision of a
  review, a finding more cannot remove a status of its rule, and the reviewed pack passes the
  validation that the analysis repeats. `OnlySignedRunsAlways`: each check of the trusted
  entry is carried to the staged file it was made for.

Every invariant of a run is proved. Only model-checked: the liveness properties (`Progress`, `JobEnds`,
`RunEnds`, `ScanEnds`), which the prover cannot handle.
Type correctness is proved where it is listed above and is a TLC invariant of no run.

## 7. Abstractions

- One assessment, one session, one Lab process. The documents exclude two
  processes that write one session (`docs/sprint-5.6.8-trusted-distribution.md`);
  `AuditChain` alone has a constant for processes.
- A package is valid, of another build, malformed, or one on which validation
  raises; its digest is the triple of id, nonce and kind.
- Token comparison, signatures and encryption succeed or refuse.
- What is audited is left out of every module but `AuditChain` and `Portal`, except
  where a failing audit changes what the code does next.
- `set_session_status` is one step in `LabService` and two in `Submission`.
- Removing a directory tree is one step; so is deleting one file of a removed submission, where its
  provenance and its reports are left out. A row that is used or expired is refused
  whether or not it has been purged, so the purge is not a step.
- Random identifiers are fresh by construction; hashes are the order of writes. Computing
  takes no time: where there is a clock, only waiting and being sent or served do.
- *Portal*: one source address; `trusted` sessions are not `required`; the assessor's own audit
  entries are left out.
- *Active validation*: a run starts once the processes of the previous one have ended; the sweep of
  registered directories runs between runs; the Remove script of a killed
  recovery worker is ignored. The two LLMNR and NBT-NS observers end in REVIEW_REQUIRED
  without a state of their own.
- *CVE scan*: providers only add rows, at any place, and keep the others in their order (NVD goes on listing
  what it has rejected); catalogue answers are not paged; scan and enrichment share
  the CVEs and the cancel event, so a behaviour follows one of them; errors of the
  cache database are left out.
- *Collector*: a kill ends launcher and script together; one user per endpoint; the clock of the endpoint is the Lab's; the policy
  file of the endpoint does not change during a collection; directories are followed
  once they may hold data.
- *Decisions*: names are equal or different, never spelled; numbers have the few values that
  boundaries need. Compliance scores are left out and no extractor answers NOT_APPLICABLE.
- *Trust bundle*: sizes and syntax, Authenticode of the script, access-control lists and
  installation paths are left out; the staged files are read once.
- Percentages, messages and timestamps shown to the operator are left out.

## 8. Observations

Facts about the code met while modelling. Where a property is stated with an
exception, this is why.

*Console and Lab*

- `record_token_use` writes back a session loaded earlier, so a close in between is undone
  (`sessions.py:269`; `docs/architecture.md:79` has no way back from CLOSED).
- After a termination the session is OPEN and `resume_collection` asks for OPEN again, which
  raises (`service.py:600`; `docs/architecture.md:80`).
- Two uploads of one id share the quarantine file, and the one moved need not be the one validated
  (`submission.py:241`); `AcceptedIsValidated` is checked one call at a time. An archive that
  makes validation raise stays in quarantine (`submission.py:181`), which `docs/operations.md:30`
  calls packages in progress. `remove_submission` may run while the analysis still writes derived
  files (`submission.py:373`).
- An import writes its archive in place (`offline.py:378`): cut short, the file stays in accepted storage,
  torn, not in the index, and the next import of the id overwrites it. A removal cut short leaves an item without its
  files.
- When the provenance or the audit record of an acceptance fails after the receipt was stored
  (`submission.py:273`, `:293`), or the update to ERROR itself does (`server.py:523`), the submission stays as it
  is, RECEIVED or half-way. `Progress` excepts both.
- With two server instances a nonce can be consumed twice: each has its own lock
  (`nonces.py:61`). The index can exceed the limit by the uploads in flight (`submission.py:262`).
- `cleanup_recovery` does not take the lock and races with `start_collection`
  (`service.py:1337`). A start that fails after registration leaves a stopped server
  registered (`service.py:468`, `:555`). Uploads in progress at a stop finish after the dashboard was
  counted (`service.py:620`). `configure_development_distribution` shares no lock with
  `record_token_use` (`service.py:432`).
- An import that raises after the package is in the index (receipt, audit, analysis, report;
  `offline.py:445`) skips the invalidation of the report (`service.py:817`): the earlier report stays on offer
  (`docs/offline-assessment-et.md:30`). `ReportCoversImports` excepts such imports.
- The elevated `netsh` outlives the 120 seconds its caller waits (`firewall.py:154`): it may add the rule after
  `start_collection` has undone what it did. Nothing looks for the rule until the next start of the application.
- A report beside an import, and a call that loaded the state before `delete_assessment`, write the
  older state (`service.py:1139`, `:391`).
- The `finally` of an ended job removes the Event of the job started after it, which then cannot be
  cancelled (`service.py:1137`; `docs/sprint-5.4.1-intelligence.md:38`). A raising audit of a cancellation
  leaves the job CANCELLING (`service.py:1110`).
- The writes that mark a scan as cancelled or failed (`pipeline.py:375`, `:408`) may raise; when both attempts do, the job is
  FAILED and the findings keep RUNNING, without a termination, until a job completes. `NoEndpointRunning` excepts
  them.
- After a whole audit line without its end the next entry is joined to it and both are lost, although
  `append` returned a hash (`audit.py:52`).

*Portal*

- `_write_portal_status` can overwrite a count, and a handler that outlives its listener can set it
  back. After a torn audit line downloads are counted but not served.
- A slow failed attempt can shorten a block; the limiter grants up to one more per other thread.

*Active validation*

- An Add script that finishes after the rollback leaves a rule no result reports
  (`docs/responder-deep-validation.md:48`); `LeftIsReported` excepts it. `cleanup --apply` deletes the
  state file while such a rule stays.
- The SMB reader reports `clientRequired` FALSE when the registry value is missing. An NTLM setting that is there without a
  value is taken as PERMITTED and confirmed (`responder.py:260`), and an observed query then confirms
  the exposure, where `docs/responder-exposure-validation.md:16` makes an unknown effective policy INCONCLUSIVE.

*CVE*

- Each endpoint has a new limiter (`analyzer.py:939`), so the window holds per scan. Time between
  acquiring and sending is not counted.
- Pages of one query are asked for by offset and cached one by one (`client.py:81`). When a cached page knew of fewer
  rows than the fresh page before it, the collected rows are compared with the older total, and a scan can be
  COMPLETE without a row that was listed long before; `CompleteIsCurrent` excepts it.
- An answer of an invalid schema is cached before it is validated; `clear_expired` makes
  PROVIDER_STALE nearly unreachable; the CVE Program's waits ignore the cancellation.
- With EnrichNotAffected off, NVD NOT_AFFECTED against CNA AFFECTED is never detected. An unconfirmed
  ADP KEV entry lowers the score by 20. A conflict that "requires manual review" never yields
  MANUAL_REVIEW.
- The CNA status depends on the order of contradictory changes; 1.2.3 equals 1.2.3.0; a newer major than
  latestMajor is OUT_OF_SUPPORT until refreshAfter.

*Posture*

- Registrations of one third-party product are merged field by field, ON if any is on and the first known signature
  state (`malware_protection.py:410`): a product that is on without signature state passes with the current signatures of
  a registration that is off, though the reason given is that it "is registered with current
  signatures" (`malware_protection.py:198`). Of two active products only the first is looked at, so that one whose signatures are
  out of date does not show behind it.

*Compliance and frameworks*

- Only the first finding of a rule counts. Composite children know no mapping. AND of failed and missing
  ends NOT_ASSESSED; OR of pass and missing ends PARTIALLY_COMPLIANT, of pass and fail COMPLIANT. A low-confidence
  contradiction ends NOT_ASSESSED.
- In merged profiles a later list replaces the earlier one, and a later enabling does not lift an earlier
  exclusion. Warnings of the resolver are added after the overall status.
- A comparison that raises, as a number asked what it contains, takes its whole framework out of the assessment
  and makes the overall answer MANUAL_REVIEW; with the field lost the same profile can be COMPLIANT. `LossEarnsNothing` is
  therefore about evidence that can be compared.
- `Status.PARTIAL` is missing in the order of `_findings_by_rule`, so two findings of a rule
  raise KeyError if one has it; ERROR beside FAIL hides the FAIL. A review writes the pack and then its
  audit, not atomically and without a lock.

*Collector and trusted bundle*

- A lost receipt followed by Retry or Offline gives two submissions; a failed offline export
  starts another online collection. A refused sensitive-data check exits 1, so the launcher offers a retry. The exit
  code says nothing of a failed clean-up.
- A lost answer to an authorization uses up the invitation; a kill after the marker uses up the
  envelope. Markers are per user.
- The validity windows are checked with the time of the start; at launch only the session's again. An
  inventory entry spelled like the manifest in another case is accepted and not compared.

## 9. Not modelled

`components` in `PROJECT.json` lists every part with its status. Not modelled: fleet counts and scoring
(arithmetic over stored findings), report rendering, package building, archive encryption and
command-line parsing, which keep no state; the reading of Windows facts; UI preferences, NVD settings and the
diagnostic bundle of the Lab; the order of checks in the package validator and the cryptographic
checks of the trust authority, which appear as verdicts; request parsing and TLS. The PowerShell collector
appears as environment in the modules of the Console and as a program in `Collector`.

## 10. Plan

Done: all modules of section 2 with their runs, and the proofs of section 6. Left:

1. A sequential abstract specification for `TrustedGrants` shown to be implemented.
2. The composition of `LabService` with the session steps of `Submission`, so that the close of
   `stop_collection` meets uploads in flight.
3. The order of checks of the package validator as a decision.
