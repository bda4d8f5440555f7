------------------------------ MODULE CveScan ------------------------------
(***************************************************************************)
(* One endpoint after another is scanned for vulnerabilities               *)
(* (analyzer.py: _run_cve_scan and _run_cve_enrichment): CveService maps    *)
(* each product to a CPE and queries NVD for it, then                       *)
(* VulnerabilityEnrichmentService asks the CISA KEV feed and the CVE        *)
(* Program about every CVE found.  Each scan has its own rate limiter and   *)
(* its own provider objects; the caches outlive it.  The two halves share   *)
(* no more than the CVEs and the event that cancels them, so a behaviour    *)
(* follows one of them: scans, or enrichments of any set of CVEs.           *)
(***************************************************************************)
EXTENDS NvdClient

CONSTANTS
  Kind,         \* product -> how far CveService takes it
  Inventories,  \* the unique products of the endpoints, each a sequence
  Cves,         \* CVEs a scan may find
  CatalogTtl,   \* lifetime of a CPE catalogue entry
  NegativeTtl,  \* lifetime of one without products
  KevTtl,       \* CisaKevProvider.cache_ttl_hours
  MaxScans      \* bound: scans, one after the other

ASSUME ScanAssumption ==
  /\ Inventories \subseteq Seq(Products) /\ Cves \subseteq Nat
  /\ Kind \in [Products -> {"ineligible", "unversioned", "local", "remote"}]
  /\ {CatalogTtl, NegativeTtl, KevTtl, MaxScans} \subseteq Nat \ {0}
  /\ NegativeTtl <= CatalogTtl

VARIABLES
  half,      \* the half this behaviour follows: "scan" or "enrichment"
  scan,      \* scans or enrichments begun
  inventory, \* the products of the endpoint being scanned
  todo,      \* those the loop has still to visit
  catalog,   \* cpe_catalog_v2: product -> its entry, or None
  evals,     \* product -> CveProductEvaluation
  asked,     \* the CVEs to enrich
  ids,       \* those still to be enriched
  kevFile,   \* the cached KEV feed, or None
  kev,       \* CisaKevProvider._catalog
  records,   \* cve_program_cache: CVE -> its entry, or None
  tries,     \* attempts of the CVE Program request
  states,    \* provider -> ProviderExecutionState
  enriched,  \* CVEs with at least one enrichment
  tainted    \* history: CVEs enriched from a stale or failed provider

scanVars == <<half, scan, inventory, todo, catalog, evals>>
enrichVars == <<asked, ids, kevFile, kev, records, tries, states, enriched, tainted>>
vars == <<pc, providerVars, cancel, late, clientVars, scanVars, enrichVars>>

Discoveries == {"exact", "family", "unmatched", "empty"}   \* unmatched: ambiguous or rejected
Statuses == {"AFFECTED", "POSSIBLY_AFFECTED", "NOT_AFFECTED", "NOT_EVALUATED"}
Ended == {"idle", "done", "cancelled"}

----------------------------------------------------------------------------
\* _is_eligible: identity, version and confidence are there.
_is_eligible(p) == Kind[p] # "ineligible"

Eligible == {p \in ToSet(inventory) : _is_eligible(p)}

\* history "current": the rows that were due were among the rows received;
\* "shrunk": a page had a smaller total than the page before it.
NotRun == [terminal |-> "NOT_RUN", result |-> "NOT_EVALUATED", unresolved |-> FALSE,
           current |-> FALSE, shrunk |-> FALSE]

\* _mark_terminal_failure
_mark_terminal_failure(p, terminal) ==
  evals' = [evals EXCEPT ![p] = [NotRun EXCEPT !.terminal = terminal]]

NextProduct == pc' = "product" /\ todo' = Tail(todo) /\ call' = NoCall

lifetime(entry) == IF entry.found = "empty" THEN NegativeTtl ELSE CatalogTtl

\* _run_cve_scan: clear_expired, a new limiter, client, resolver and event.
_run_cve_scan ==
  /\ half = "scan" /\ pc \in Ended /\ scan < MaxScans
  /\ scan' = scan + 1
  /\ cache' = [key \in DOMAIN cache |-> IF fresh(key) THEN cache[key] ELSE None]
  /\ catalog' = [p \in Products |->
       IF catalog[p] # None /\ catalog[p].age >= lifetime(catalog[p]) THEN None ELSE catalog[p]]
  /\ \E products \in Inventories : inventory' = products /\ todo' = products
  /\ evals' = [p \in Products |-> NotRun]
  /\ stamps' = <<>> /\ granted' = <<>> /\ cancel' = FALSE /\ late' = 0
  /\ pc' = "product" /\ call' = NoCall
  /\ UNCHANGED <<providerVars, wait, half, enrichVars>>

\* The head of scan_inventory's loop, for a product that needs no provider.
SkipProduct ==
  /\ pc = "product" /\ todo # <<>> /\ ~cancel
  /\ LET p == Head(todo)
     IN  \/ Kind[p] = "ineligible" /\ _mark_terminal_failure(p, "NOT_ELIGIBLE")
         \/ Kind[p] = "unversioned" /\ _mark_terminal_failure(p, "PARTIAL")
  /\ NextProduct
  /\ UNCHANGED <<providerVars, cancel, late, cache, stamps, granted, wait, half, scan, inventory, catalog, enrichVars>>

\* resolve_with_trace by a local mapping: the query covers the family.
_resolve_local ==
  /\ pc = "product" /\ todo # <<>> /\ ~cancel /\ Kind[Head(todo)] = "local"
  /\ StartQuery("cves", Head(todo))
  /\ pc' = "page"
  /\ UNCHANGED <<providerVars, cancel, late, cache, stamps, granted, wait, scanVars, enrichVars>>

\* What the candidates of the catalogue lead to: a CVE query or a product that
\* is not evaluated.
Selected(found) ==
  IF found \in {"exact", "family"}
  THEN /\ StartQuery("cves", Head(todo))
       /\ pc' = "page"
       /\ UNCHANGED <<evals, todo>>
  ELSE /\ _mark_terminal_failure(Head(todo), "NOT_EVALUATED")
       /\ NextProduct

\* _resolve_nvd with a fresh catalogue entry.
_resolve_catalog ==
  /\ pc = "product" /\ todo # <<>> /\ ~cancel /\ Kind[Head(todo)] = "remote"
  /\ LET entry == catalog[Head(todo)]
     IN  entry # None /\ entry.age < lifetime(entry) /\ Selected(entry.found)
  /\ UNCHANGED <<providerVars, cancel, late, cache, stamps, granted, wait, half, scan, inventory, catalog, enrichVars>>

\* _resolve_nvd without one: the CPE dictionary is asked.
_resolve_nvd ==
  /\ pc = "product" /\ todo # <<>> /\ ~cancel /\ Kind[Head(todo)] = "remote"
  /\ LET entry == catalog[Head(todo)] IN entry # None => entry.age >= lifetime(entry)
  /\ StartQuery("cpes", Head(todo))
  /\ pc' = "page"
  /\ UNCHANGED <<providerVars, cancel, late, cache, stamps, granted, wait, scanVars, enrichVars>>

\* The answer to it, kept by set_cpe_catalog.
set_cpe_catalog ==
  /\ pc = "sent" /\ call.kind = "cpes"
  /\ \E found \in Discoveries :
       /\ catalog' = [catalog EXCEPT ![call.product] = [age |-> 0, found |-> found]]
       /\ Selected(found)
  /\ UNCHANGED <<providerVars, cancel, late, cache, stamps, granted, wait, half, scan, inventory, enrichVars>>

\* Whether the installed version itself is in the catalogue (cpeName query).
catalogued_version(p) == Kind[p] = "remote" /\ catalog[p] # None /\ catalog[p].found = "exact"

\* _complete_evaluation
_complete_evaluation(p, statuses, malformed) ==
  LET partial == \/ malformed
                 \/ statuses = {} /\ ~catalogued_version(p)
                 \/ "NOT_EVALUATED" \in statuses
  IN  [terminal |-> IF partial THEN "PARTIAL" ELSE "COMPLETED",
       result   |-> CASE "AFFECTED" \in statuses          -> "CONFIRMED"
                      [] "POSSIBLY_AFFECTED" \in statuses -> "POSSIBLE"
                      [] partial                          -> "NOT_EVALUATED"
                      [] OTHER                            -> "NO_KNOWN_VULNERABILITIES",
       unresolved |-> "NOT_EVALUATED" \in statuses,
       current    |-> call.due \subseteq call.read,
       shrunk     |-> call.shrunk]

\* parse_cve_items and _assess over the rows of a query that succeeded.
_assess ==
  /\ pc = "evaluate"
  /\ \E statuses \in SUBSET Statuses, malformed \in BOOLEAN :
       /\ (statuses = {}) <=> (call.got = 0 \/ (malformed /\ call.got = 1))
       /\ malformed => call.got > 0
       /\ Cardinality(statuses) <= call.got
       /\ evals' = [evals EXCEPT ![call.product] =
                      _complete_evaluation(call.product, statuses, malformed)]
  /\ NextProduct
  /\ UNCHANGED <<providerVars, cancel, late, cache, stamps, granted, wait, half, scan, inventory, catalog, enrichVars>>

\* Any error but a cancellation ends the product, never the scan.
ProductFailed ==
  /\ pc = "failed"
  /\ _mark_terminal_failure(call.product, "FAILED")
  /\ NextProduct
  /\ UNCHANGED <<providerVars, cancel, late, cache, stamps, granted, wait, half, scan, inventory, catalog, enrichVars>>

\* _summary
scan_complete == \A p \in Products : evals[p].terminal # "FAILED"
evaluated_products == {p \in Eligible : evals[p].terminal = "COMPLETED"}
coverage_complete ==
  /\ Eligible # {} /\ evaluated_products = Eligible /\ scan_complete
  /\ \A p \in Products : ~evals[p].unresolved

\* status.py: _decision over scan_metadata.
assessment_status(collection) ==
  CASE collection \notin {"SUCCESS", "PARTIAL"} \/ Eligible = {} -> "NOT_EVALUATED"
    [] collection = "SUCCESS" /\ coverage_complete               -> "COMPLETE"
    [] evaluated_products # {}                                   -> "PARTIAL"
    [] scan_complete /\ \E p \in Products : evals[p].terminal = "PARTIAL" -> "PARTIAL"
    [] OTHER                                                     -> "NOT_EVALUATED"

\* The end of the loop.
_summary ==
  /\ pc = "product" /\ todo = <<>>
  /\ pc' = "done"
  /\ UNCHANGED <<providerVars, cancel, late, clientVars, scanVars, enrichVars>>

\* The test of the event at the head of both loops, and after a CVE was asked about.
CancelSeen ==
  /\ cancel
  /\ \/ pc = "product" /\ todo # <<>>
     \/ pc = "enrich" /\ ids # {}
     \/ pc = "asked"
  /\ pc' = "cancelled"
  /\ UNCHANGED <<providerVars, cancel, late, clientVars, scanVars, enrichVars>>

----------------------------------------------------------------------------
\* VulnerabilityEnrichmentService and its providers

\* New provider objects and execution states for the CVEs of a summary.
_run_cve_enrichment ==
  /\ half = "enrichment" /\ pc \in Ended /\ scan < MaxScans
  /\ scan' = scan + 1
  /\ \E found \in SUBSET Cves : asked' = found /\ ids' = found
  /\ kev' = "unread" /\ tries' = 0 /\ enriched' = {} /\ tainted' = {}
  /\ states' = [provider \in {"kev", "program"} |-> [succeeded |-> TRUE, partial |-> FALSE]]
  /\ cancel' = FALSE /\ late' = 0
  /\ pc' = "enrich"
  /\ UNCHANGED <<providerVars, clientVars, half, inventory, todo, catalog, evals, kevFile, records>>

Next_id == CHOOSE p \in ids : \A q \in ids : p <= q

\* enrich_summary takes up one CVE.
_load_enrichments ==
  /\ pc = "enrich" /\ ids # {} /\ ~cancel
  /\ pc' = "kev"
  /\ UNCHANGED <<providerVars, cancel, late, clientVars, scanVars, enrichVars>>

Taint(failed) == tainted' = IF failed THEN tainted \cup {Next_id} ELSE tainted

\* _merge_provider_status, and the warnings of the enrichment itself.
_merge_provider_status(provider, failed, partial) ==
  states' = [states EXCEPT ![provider] =
    [succeeded |-> @.succeeded /\ ~failed, partial |-> @.partial \/ partial]]

\* CisaKevProvider.enrich with the catalogue as loaded.
KevAnswered(loaded, failed) ==
  /\ kev' = loaded
  /\ _merge_provider_status("kev", loaded \in {"stale", "unavailable"}, loaded \in {"stale", "warned"})
  /\ Taint(failed)
  /\ enriched' = IF loaded = "unavailable" THEN enriched ELSE enriched \cup {Next_id}
  /\ pc' = "program"

\* _load_catalog, from memory or from a cached feed that has not expired.
_load_catalog ==
  /\ pc = "kev"
  /\ \/ kev # "unread" /\ KevAnswered(kev, kev \in {"stale", "unavailable"})
     \/ /\ kev = "unread" /\ kevFile # None
        /\ kevFile.age <= KevTtl
        /\ KevAnswered(IF kevFile.warned THEN "warned" ELSE "fresh", FALSE)
  /\ UNCHANGED <<providerVars, cancel, late, clientVars, scanVars, asked, ids, kevFile, records, tries>>

\* _load_catalog, from the feed.
KevRequest ==
  /\ pc = "kev" /\ kev = "unread" /\ (kevFile # None => kevFile.age > KevTtl)
  /\ CountLate
  /\ pc' = "kev_sent"
  /\ UNCHANGED <<providerVars, cancel, clientVars, scanVars, enrichVars>>

\* Fault: a feed that could not be refreshed is used as if it had been.
KevFailed_quietly ==
  /\ pc = "kev_sent"
  /\ KevAnswered(IF kevFile # None THEN "fresh" ELSE "unavailable", TRUE)
  /\ UNCHANGED <<providerVars, cancel, late, clientVars, scanVars, asked, ids, kevFile, records, tries>>

\* The feed is unreachable or unreadable: the expired copy, or nothing.
KevFailed ==
  /\ pc = "kev_sent"
  /\ KevAnswered(IF kevFile # None THEN "stale" ELSE "unavailable", TRUE)
  /\ UNCHANGED <<providerVars, cancel, late, clientVars, scanVars, asked, ids, kevFile, records, tries>>

KevLoaded ==
  /\ pc = "kev_sent"
  /\ \E warned \in BOOLEAN :
       /\ kevFile' \in {kevFile, [age |-> 0, warned |-> warned]}
       /\ KevAnswered(IF warned THEN "warned" ELSE "fresh", FALSE)
  /\ UNCHANGED <<providerVars, cancel, late, clientVars, scanVars, asked, ids, records, tries>>

\* CveProgramProvider.enrich returned: a record, no record, or an error it kept.
ProgramAnswered(record, failed, partial) ==
  /\ _merge_provider_status("program", failed, partial)
  /\ Taint(failed \/ (record /\ pc = "program_failed"))
  /\ enriched' = IF record THEN enriched \cup {Next_id} ELSE enriched
  /\ tries' = 0
  /\ pc' = "asked"

\* _load_record from the cache.
_load_record ==
  /\ pc = "program" /\ records[Next_id] # None /\ records[Next_id].age < Ttl
  /\ ProgramAnswered(TRUE, FALSE, records[Next_id].warned)
  /\ UNCHANGED <<providerVars, cancel, late, clientVars, scanVars, asked, ids, kevFile, kev, records>>

\* _get_remote_json: one request.
ProgramRequest ==
  /\ pc = "program" /\ (records[Next_id] # None => records[Next_id].age >= Ttl)
  /\ CountLate
  /\ pc' = "program_sent"
  /\ UNCHANGED <<providerVars, cancel, clientVars, scanVars, enrichVars>>

ProgramLoaded ==
  /\ pc = "program_sent"
  /\ \E warned \in BOOLEAN :
       /\ records' = [records EXCEPT ![Next_id] = [age |-> 0, warned |-> warned]]
       /\ ProgramAnswered(TRUE, FALSE, warned)
  /\ UNCHANGED <<providerVars, cancel, late, clientVars, scanVars, asked, ids, kevFile, kev>>

\* 404, or no JSON object: no record, and no error either.
ProgramMissing ==
  /\ pc = "program_sent"
  /\ ProgramAnswered(FALSE, FALSE, FALSE)
  /\ UNCHANGED <<providerVars, cancel, late, clientVars, scanVars, asked, ids, kevFile, kev, records>>

\* 429, 5xx, timeout: sleep and try again.  time.sleep does not see the event.
ProgramTransient ==
  /\ pc = "program_sent"
  /\ IF tries < MaxRetries
     THEN \E delay \in {0, RetryAfter} :
            /\ wait' = [ticks |-> delay + Min({2 ^ tries, 8}), after |-> "program"]
            /\ pc' = "sleep" /\ tries' = tries + 1
     ELSE pc' = "program_failed" /\ UNCHANGED <<tries, wait>>
  /\ UNCHANGED <<providerVars, cancel, late, cache, stamps, granted, call, scanVars, asked, ids, kevFile, kev,
                 records, states, enriched, tainted>>

Slept ==
  /\ pc = "sleep" /\ wait.ticks = 0
  /\ pc' = wait.after /\ wait' = NoWait
  /\ UNCHANGED <<providerVars, cancel, late, cache, stamps, granted, call, scanVars, enrichVars>>

\* Another 4xx, or a request that cannot be made.
ProgramPermanent ==
  /\ pc = "program_sent"
  /\ pc' = "program_failed"
  /\ UNCHANGED <<providerVars, cancel, late, clientVars, scanVars, enrichVars>>

\* _load_record's last resort: a record that expired, else the error.
get_stale ==
  /\ pc = "program_failed"
  /\ IF records[Next_id] # None
     THEN ProgramAnswered(TRUE, FALSE, TRUE)
     ELSE ProgramAnswered(FALSE, TRUE, FALSE)
  /\ UNCHANGED <<providerVars, cancel, late, clientVars, scanVars, asked, ids, kevFile, kev, records>>

_enrich_assessment ==
  /\ pc = "asked" /\ ~cancel
  /\ ids' = ids \ {Next_id}
  /\ pc' = "enrich"
  /\ UNCHANGED <<providerVars, cancel, late, clientVars, scanVars, asked, kevFile, kev, records, tries,
                 states, enriched, tainted>>

\* enrichment_complete of the summary.
enrichment_complete ==
  enriched = asked /\ \A provider \in DOMAIN states :
                        states[provider].succeeded /\ ~states[provider].partial

ScanDone ==
  /\ pc = "enrich" /\ ids = {}
  /\ pc' = "done"
  /\ UNCHANGED <<providerVars, cancel, late, clientVars, scanVars, enrichVars>>

----------------------------------------------------------------------------
\* The clock: everything is one tick older.
AgeAll(f, cap) == [k \in DOMAIN f |-> IF f[k] = None THEN None ELSE [f[k] EXCEPT !.age = Older(@, cap)]]

\* Requests, waits and the pauses between scans take time, computing takes
\* none.  With a tick the provider may list one more CVE for some products, at
\* any place: startIndex counts places, and NVD promises no order.
Tick ==
  /\ pc \in {"sent", "wait", "kev_sent", "program_sent", "sleep"} \cup Ended
  /\ pc \in {"done", "cancelled"} => scan < MaxScans
  /\ \E more \in SUBSET {p \in Products : half = "scan" /\ Len(rows[p]) < MaxRows[p]} :
       /\ rows' = [p \in Products |-> [i \in DOMAIN rows[p] |-> Older(rows[p][i], Ttl)]
                                      \o (IF p \in more THEN <<0>> ELSE <<>>)]
       /\ \E place \in [more -> UNION {1..MaxRows[p] : p \in more}] :
            /\ \A p \in more : place[p] <= Len(order[p]) + 1
            /\ order' = [p \in Products |-> IF p \in more
                                            THEN InsertAt(order[p], place[p], Len(order[p]) + 1)
                                            ELSE order[p]]
  /\ stamps' = [i \in DOMAIN stamps |-> Older(stamps[i], Window)]
  /\ granted' = Younger([i \in DOMAIN granted |-> granted[i] + 1], Window)
  /\ cache' = AgeAll(cache, Ttl)
  /\ catalog' = AgeAll(catalog, CatalogTtl)
  /\ records' = AgeAll(records, Ttl)
  /\ kevFile' = IF kevFile = None THEN None ELSE [kevFile EXCEPT !.age = Older(@, KevTtl + 1)]
  /\ wait' = [wait EXCEPT !.ticks = IF @ > 0 THEN @ - 1 ELSE 0]
  /\ UNCHANGED <<pc, cancel, late, call, half, scan, inventory, todo, evals, asked, ids, kev, tries,
                 states, enriched, tainted>>

\* The operator cancels the scan.
SetCancel ==
  /\ ~cancel /\ pc \notin Ended
  /\ cancel' = TRUE
  /\ UNCHANGED <<pc, providerVars, late, clientVars, scanVars, enrichVars>>

Init ==
  /\ pc = "idle" /\ cancel = FALSE /\ late = 0
  /\ rows = [p \in Products |-> <<>>] /\ order = [p \in Products |-> <<>>]
  /\ cache = [key \in Products \X Pages |-> None]
  /\ stamps = <<>> /\ granted = <<>> /\ wait = NoWait
  /\ call = NoCall
  /\ half \in {"scan", "enrichment"} /\ scan = 0 /\ inventory = <<>> /\ todo = <<>>
  /\ catalog = [p \in Products |-> None]
  /\ evals = [p \in Products |-> NotRun]
  /\ asked = {} /\ ids = {} /\ kev = "unread" /\ tries = 0 /\ enriched = {} /\ tainted = {}
  /\ states = [provider \in {"kev", "program"} |-> [succeeded |-> TRUE, partial |-> FALSE]]
  /\ kevFile = None
  /\ records = [cve \in Cves |-> None]

Step ==
  \/ ClientStep /\ UNCHANGED <<scanVars, enrichVars>>
  \/ SkipProduct \/ _resolve_local \/ _resolve_catalog \/ _resolve_nvd \/ set_cpe_catalog
  \/ _assess \/ ProductFailed \/ _summary \/ CancelSeen
  \/ _load_enrichments \/ _load_catalog \/ KevRequest \/ KevFailed \/ KevLoaded
  \/ _load_record \/ ProgramRequest \/ ProgramLoaded \/ ProgramMissing \/ ProgramTransient
  \/ Slept \/ ProgramPermanent \/ get_stale \/ _enrich_assessment \/ ScanDone

Next ==
  \/ Step \/ _run_cve_scan \/ _run_cve_enrichment \/ Tick \/ SetCancel

\* The thread goes on whenever it can (a request ends by its timeout at the
\* latest), and time passes.
Fairness == WF_vars(Step) /\ WF_vars(Tick)

Spec == Init /\ [][Next]_vars /\ Fairness

----------------------------------------------------------------------------
\* In no window of Window ticks does a scan grant more than Requests requests,
\* retries and the pages of a query included (SlidingWindowRateLimiter.acquire).
WindowRespected == Len(granted) <= Requests

\* Once the scan is cancelled, NVD gets at most the one request that had passed
\* its last test of the event, and the enrichment no more than the requests
\* about the CVE in hand: the feed and every attempt of the CVE Program
\* (NvdClient._check_cancelled, enrich_summary).
CancelBounded == late <= IF ids = {} THEN 1 ELSE MaxRetries + 2

\* A scan that is reported COMPLETE has evaluated, for every eligible product,
\* every CVE row the provider had listed for at least the lifetime of a cache
\* entry: no retry, cached page, short answer or row inserted between two pages
\* loses one.  The one exception is a query in which a page read from the cache
\* knew fewer rows than the page before it: rows may then have moved from the
\* older page to a place already passed, and the total compared in the end is the
\* older one (_get_paginated, NvdCache, _complete_evaluation, status._decision).
CompleteIsCurrent ==
  half = "scan" /\ pc = "done" /\ assessment_status("SUCCESS") = "COMPLETE"
    => \A p \in Eligible : evals[p].current \/ evals[p].shrunk

\* enrichment_complete is only reported when no CVE was enriched from an expired
\* copy or in spite of a provider's failure (_merge_provider_status).
EnrichmentHonest == half = "enrichment" /\ pc = "done" /\ enrichment_complete => tainted = {}

\* A scan ends, by itself or cancelled, whatever the providers answer.
ScanEnds == pc \notin Ended ~> pc \in {"done", "cancelled"}

============================================================================
