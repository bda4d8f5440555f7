---------------------------- MODULE CveScanProofs ----------------------------
(***************************************************************************)
(* Proofs about the vulnerability scan: what a cancelled run still sends,  *)
(* what an enrichment reported as complete rests on, that no window grants *)
(* too much, and that a complete scan missed no row listed long enough,    *)
(* unless a page of the cache knew fewer rows than the one before it.      *)
(***************************************************************************)
EXTENDS CveScan, FiniteSetTheorems, WellFoundedInduction, TLAPS

----------------------------------------------------------------------------
(* Where the thread may be in either half, and where a wait leads.         *)

Querying == {"page", "acquire", "granted", "send", "sent", "wait", "read"}
InHand == {"kev", "kev_sent", "program", "program_sent", "sleep", "program_failed", "asked"}

PlaceInv ==
  /\ half \in {"scan", "enrichment"}
  /\ half = "scan" => pc \in Ended \cup Querying \cup {"product", "evaluate", "failed"} /\ ids = {}
  /\ half = "enrichment" => pc \in Ended \cup InHand \cup {"enrich"}
  /\ pc \in InHand => ids # {}
  /\ DOMAIN wait = {"ticks", "after"}
  /\ pc = "wait" => wait.after = "acquire"
  /\ pc = "sleep" => wait.after = "program"

LEMMA InitPlace == Init => PlaceInv
  BY DEF Init, PlaceInv, Ended, InHand, NoWait

LEMMA ClientPlace ==
  ASSUME PlaceInv, ClientStep, UNCHANGED <<scanVars, enrichVars>>
  PROVE  PlaceInv'
<1> USE DEF PlaceInv, scanVars, enrichVars, clientVars, Querying, InHand, Ended, NoWait, _wait, Retry
<1>1. CASE acquire
  BY <1>1 DEF acquire
<1>2. CASE Waited
  BY <1>2 DEF Waited
<1>3. CASE Cancelled
  BY <1>3 DEF Cancelled
<1>4. CASE _get_json \/ _check_cancelled
  BY <1>4 DEF _get_json, _check_cancelled
<1>5. CASE Send \/ AnswerPage
  BY <1>5 DEF Send, AnswerPage
<1>6. CASE AnswerTransient \/ AnswerPermanent
  BY <1>6 DEF AnswerTransient, AnswerPermanent
<1>7. CASE _get_paginated
  BY <1>7 DEF _get_paginated
<1> QED
  BY <1>1, <1>2, <1>3, <1>4, <1>5, <1>6, <1>7 DEF ClientStep

LEMMA NextPlace ==
  ASSUME PlaceInv, [Next]_vars
  PROVE  PlaceInv'
<1> USE DEF PlaceInv, scanVars, enrichVars, clientVars, Querying, InHand, Ended, NoWait
<1>1. CASE UNCHANGED vars
  BY <1>1 DEF vars
<1>2. CASE ClientStep /\ UNCHANGED <<scanVars, enrichVars>>
  BY <1>2, ClientPlace
<1>3. CASE SkipProduct \/ _resolve_local \/ _resolve_catalog \/ _resolve_nvd
  BY <1>3 DEF SkipProduct, _resolve_local, _resolve_catalog, _resolve_nvd, Selected, NextProduct
<1>4. CASE set_cpe_catalog
  BY <1>4 DEF set_cpe_catalog, Selected, NextProduct
<1>5. CASE _assess \/ ProductFailed \/ _summary
  BY <1>5 DEF _assess, ProductFailed, _summary, NextProduct
<1>6. CASE CancelSeen
  BY <1>6 DEF CancelSeen
<1>7. CASE _load_enrichments \/ _load_catalog \/ KevRequest \/ KevFailed \/ KevLoaded
  BY <1>7 DEF _load_enrichments, _load_catalog, KevRequest, KevFailed, KevLoaded, KevAnswered
<1>8. CASE _load_record \/ ProgramRequest \/ ProgramLoaded \/ ProgramMissing \/ get_stale
  BY <1>8 DEF _load_record, ProgramRequest, ProgramLoaded, ProgramMissing, get_stale, ProgramAnswered
<1>9. CASE ProgramTransient \/ ProgramPermanent
  BY <1>9 DEF ProgramTransient, ProgramPermanent
<1>10. CASE Slept \/ _enrich_assessment \/ ScanDone
  BY <1>10 DEF Slept, _enrich_assessment, ScanDone
<1>11. CASE _run_cve_scan
  BY <1>11 DEF _run_cve_scan
<1>12. CASE _run_cve_enrichment
  BY <1>12 DEF _run_cve_enrichment
<1>13. CASE Tick \/ SetCancel
  BY <1>13 DEF Tick, SetCancel
<1> QED
  BY <1>1, <1>2, <1>3, <1>4, <1>5, <1>6, <1>7, <1>8, <1>9, <1>10, <1>11, <1>12, <1>13 DEF Next, Step

----------------------------------------------------------------------------
(* Requests after the cancellation: each stage of the work on one CVE      *)
(* bounds what may have been sent since, and no new CVE is taken up.       *)

LateInv ==
  /\ late \in Nat /\ tries \in Nat /\ tries <= MaxRetries
  /\ late > 0 => cancel
  /\ half = "scan" => late <= 1 /\ (pc = "send" => late = 0)
  /\ half = "enrichment" =>
       /\ pc \in {"idle", "done", "enrich", "kev"} => late = 0
       /\ pc = "kev_sent" => late <= 1
       /\ pc \in {"program", "sleep"} => late <= 1 + tries
       /\ pc = "program_sent" => late <= 2 + tries
       /\ late <= 2 + MaxRetries
       /\ ids = {} => late = 0

LEMMA InitLate == Init => LateInv
  BY ClientAssumption DEF Init, LateInv

LEMMA ClientLate ==
  ASSUME PlaceInv, LateInv, ClientStep, UNCHANGED <<scanVars, enrichVars>>
  PROVE  LateInv'
<1> USE ClientAssumption DEF PlaceInv, LateInv, scanVars, enrichVars, clientVars, InHand, Ended, client_cancelled
<1>1. CASE acquire
  BY <1>1 DEF acquire, _wait
<1>2. CASE Waited \/ Cancelled
  BY <1>2 DEF Waited, Cancelled
<1>3. CASE _get_json \/ _check_cancelled
  BY <1>3 DEF _get_json, _check_cancelled
<1>4. CASE Send
  BY <1>4 DEF Send, CountLate
<1>5. CASE AnswerPage \/ AnswerTransient \/ AnswerPermanent
  BY <1>5 DEF AnswerPage, AnswerTransient, AnswerPermanent, Retry, _wait
<1>6. CASE _get_paginated
  BY <1>6 DEF _get_paginated
<1> QED
  BY <1>1, <1>2, <1>3, <1>4, <1>5, <1>6 DEF ClientStep

LEMMA NextLate ==
  ASSUME PlaceInv, LateInv, [Next]_vars
  PROVE  LateInv'
<1> USE ClientAssumption DEF PlaceInv, LateInv, scanVars, enrichVars, clientVars, InHand, Ended, Querying
<1>1. CASE UNCHANGED vars
  BY <1>1 DEF vars
<1>2. CASE ClientStep /\ UNCHANGED <<scanVars, enrichVars>>
  BY <1>2, ClientLate
<1>3. CASE SkipProduct \/ _resolve_local \/ _resolve_catalog \/ _resolve_nvd
  BY <1>3 DEF SkipProduct, _resolve_local, _resolve_catalog, _resolve_nvd, Selected, NextProduct
<1>4. CASE set_cpe_catalog
  BY <1>4 DEF set_cpe_catalog, Selected, NextProduct
<1>5. CASE _assess \/ ProductFailed \/ _summary
  BY <1>5 DEF _assess, ProductFailed, _summary, NextProduct
<1>6. CASE CancelSeen
  BY <1>6 DEF CancelSeen
<1>7. CASE _load_enrichments \/ _load_catalog \/ KevFailed \/ KevLoaded
  <2>1. /\ (pc = "enrich" /\ pc' = "kev") \/ (pc \in {"kev", "kev_sent"} /\ pc' = "program")
        /\ UNCHANGED <<cancel, late, half, ids, tries>>
    <3>1. CASE _load_enrichments
      BY <3>1 DEF _load_enrichments
    <3>2. CASE _load_catalog
      <4>1. pc' = "program"
        BY <3>2 DEF _load_catalog, KevAnswered
      <4> QED
        BY <3>2, <4>1 DEF _load_catalog
    <3>3. CASE KevFailed
      BY <3>3 DEF KevFailed, KevAnswered
    <3>4. CASE KevLoaded
      <4>1. pc' = "program"
        BY <3>4 DEF KevLoaded, KevAnswered
      <4> QED
        BY <3>4, <4>1 DEF KevLoaded
    <3> QED
      BY <1>7, <3>1, <3>2, <3>3, <3>4
  <2>2. pc = "enrich" => late = 0
    BY <1>7, <2>1
  <2> QED
    BY <2>1, <2>2
<1>8. CASE KevRequest \/ ProgramRequest
  BY <1>8 DEF KevRequest, ProgramRequest, CountLate
<1>9. CASE _load_record \/ ProgramLoaded \/ ProgramMissing \/ get_stale
  <2>1. /\ pc \in {"program", "program_sent", "program_failed"} /\ pc' = "asked" /\ tries' = 0
        /\ UNCHANGED <<cancel, late, half, ids>>
    BY <1>9 DEF _load_record, ProgramLoaded, ProgramMissing, get_stale, ProgramAnswered
  <2> QED
    BY <2>1
<1>10. CASE ProgramTransient \/ ProgramPermanent
  BY <1>10 DEF ProgramTransient, ProgramPermanent
<1>11. CASE Slept
  BY <1>11 DEF Slept
<1>12. CASE _enrich_assessment \/ ScanDone
  BY <1>12 DEF _enrich_assessment, ScanDone
<1>13. CASE _run_cve_scan
  BY <1>13 DEF _run_cve_scan
<1>14. CASE _run_cve_enrichment
  BY <1>14 DEF _run_cve_enrichment
<1>15. CASE Tick \/ SetCancel
  BY <1>15 DEF Tick, SetCancel
<1> QED
  BY <1>1, <1>2, <1>3, <1>4, <1>5, <1>6, <1>7, <1>8, <1>9, <1>10, <1>11, <1>12, <1>13, <1>14, <1>15
     DEF Next, Step

\* A cancelled scan sends NVD at most the one request that had passed its last test
\* of the event, an enrichment at most those about the CVE in hand, for any number of
\* products, CVEs and retries (NvdClient._check_cancelled, enrich_summary).
THEOREM CancelBoundedAlways == Spec => []CancelBounded
<1>1. LateInv /\ PlaceInv => CancelBounded
  BY ClientAssumption DEF LateInv, PlaceInv, CancelBounded
<1>2. QED
  BY <1>1, InitPlace, NextPlace, InitLate, NextLate, PTL DEF Spec

----------------------------------------------------------------------------
(* A CVE enriched from an expired copy or in spite of a failure leaves its *)
(* mark on the execution state of the provider.                            *)

Loaded == {"unread", "fresh", "warned", "stale", "unavailable"}

TaintInv ==
  /\ kev \in Loaded
  /\ DOMAIN states = {"kev", "program"}
  /\ tainted = {} \/ \E provider \in {"kev", "program"} :
                        ~states[provider].succeeded \/ states[provider].partial

LEMMA InitTaint == Init => TaintInv
  BY DEF Init, TaintInv, Loaded

\* One answer of a provider, good or bad.
LEMMA Merged ==
  ASSUME TaintInv, NEW provider \in {"kev", "program"}, NEW failed, NEW partial, NEW taints,
         _merge_provider_status(provider, failed, partial), Taint(taints),
         taints => failed \/ partial, kev' \in Loaded
  PROVE  TaintInv'
<1>1. DOMAIN states' = {"kev", "program"}
  BY DEF TaintInv, _merge_provider_status
<1>2. states'[provider].succeeded <=> (states[provider].succeeded /\ ~failed)
  BY DEF TaintInv, _merge_provider_status
<1>3. states'[provider].partial <=> (states[provider].partial \/ partial)
  BY DEF TaintInv, _merge_provider_status
<1>4. \A other \in {"kev", "program"} : other # provider => states'[other] = states[other]
  BY DEF TaintInv, _merge_provider_status
<1>5. CASE taints
  BY <1>1, <1>2, <1>3, <1>5 DEF TaintInv
<1>6. CASE ~taints
  <2>1. tainted' = tainted
    BY <1>6 DEF Taint
  <2> QED
    BY <1>1, <1>2, <1>3, <1>4, <2>1 DEF TaintInv
<1> QED
  BY <1>5, <1>6

LEMMA NextTaint ==
  ASSUME TaintInv, [Next]_vars
  PROVE  TaintInv'
<1> SUFFICES ASSUME ~ UNCHANGED <<kev, states, tainted>>
             PROVE  TaintInv'
  BY DEF TaintInv
<1>1. \/ _load_catalog \/ KevFailed \/ KevLoaded \/ _run_cve_enrichment
      \/ _load_record \/ ProgramLoaded \/ ProgramMissing \/ get_stale
  <2> USE DEF enrichVars
  <2>1. ~ UNCHANGED vars
    BY DEF vars
  <2>2. ~ (SkipProduct \/ _resolve_local \/ _resolve_catalog \/ _resolve_nvd \/ set_cpe_catalog
           \/ _assess \/ ProductFailed \/ _summary \/ CancelSeen)
    BY DEF SkipProduct, _resolve_local, _resolve_catalog, _resolve_nvd, set_cpe_catalog,
           _assess, ProductFailed, _summary, CancelSeen
  <2>3. ~ (_load_enrichments \/ KevRequest \/ ProgramRequest \/ ProgramTransient \/ Slept
           \/ ProgramPermanent \/ _enrich_assessment \/ ScanDone)
    BY DEF _load_enrichments, KevRequest, ProgramRequest, ProgramTransient, Slept,
           ProgramPermanent, _enrich_assessment, ScanDone
  <2>4. ~ (_run_cve_scan \/ Tick \/ SetCancel)
    BY DEF _run_cve_scan, Tick, SetCancel
  <2> QED
    BY <2>1, <2>2, <2>3, <2>4 DEF Next, Step
<1>2. ASSUME NEW loaded \in Loaded \ {"unread"}, NEW failed, KevAnswered(loaded, failed),
             failed => loaded \in {"stale", "unavailable"}
      PROVE  TaintInv'
  BY <1>2, Merged DEF KevAnswered
<1>3. ASSUME NEW record, NEW failed, NEW partial, ProgramAnswered(record, failed, partial),
             record /\ pc = "program_failed" => partial, kev' = kev
      PROVE  TaintInv'
  <2>1. kev' \in Loaded
    BY <1>3 DEF TaintInv
  <2> QED
    BY <1>3, <2>1, Merged DEF ProgramAnswered
<1>4. CASE _load_catalog
  BY <1>4, <1>2 DEF _load_catalog, TaintInv, Loaded
<1>5. CASE KevFailed
  BY <1>5, <1>2 DEF KevFailed, Loaded
<1>6. CASE KevLoaded
  BY <1>6, <1>2 DEF KevLoaded, Loaded
<1>7. CASE _load_record
  BY <1>7, <1>3 DEF _load_record
<1>8. CASE ProgramLoaded
  BY <1>8, <1>3 DEF ProgramLoaded
<1>9. CASE ProgramMissing
  BY <1>9, <1>3 DEF ProgramMissing
<1>10. CASE get_stale
  BY <1>10, <1>3 DEF get_stale
<1>11. CASE _run_cve_enrichment
  BY <1>11 DEF _run_cve_enrichment, TaintInv, Loaded
<1> QED
  BY <1>1, <1>4, <1>5, <1>6, <1>7, <1>8, <1>9, <1>10, <1>11

\* An enrichment is reported complete only if no CVE was enriched from an expired copy
\* or in spite of a provider's failure (_merge_provider_status), for any set of CVEs.
THEOREM EnrichmentHonestAlways == Spec => []EnrichmentHonest
<1>1. TaintInv => EnrichmentHonest
  BY DEF TaintInv, EnrichmentHonest, enrichment_complete
<1>2. QED
  BY <1>1, InitTaint, NextTaint, PTL DEF Spec

----------------------------------------------------------------------------
(* The limiter forgets no request of the current window: those granted in  *)
(* it are the youngest of its timestamps, the oldest first.                *)

\* A set of numbers that is not empty has a least one.
LEMMA LeastNumber ==
  ASSUME NEW S \in SUBSET Nat, S # {}
  PROVE  Min(S) \in S /\ \A n \in S : Min(S) <= n
<1>1. PICK x \in S : \A y \in S : ~ (<<y, x>> \in OpToRel(<, Nat))
  BY NatLessThanWellFounded, WFMin, Zenon
<1>2. \A y \in S : ~ (y < x)
  BY <1>1 DEF OpToRel
<1>3. x \in Nat /\ \A y \in S : y \in Nat
  BY <1>1
<1>4. \A y \in S : x <= y
  BY <1>2, <1>3
<1> QED
  BY <1>4 DEF Min

\* What Younger keeps begins with the first element below the age.
LEMMA YoungerType ==
  ASSUME NEW times \in Seq(Nat), NEW age \in Nat
  PROVE  \E k \in 1..(Len(times) + 1) :
           /\ Younger(times, age) = SubSeq(times, k, Len(times))
           /\ \A i \in 1..(k - 1) : times[i] >= age
           /\ k <= Len(times) => times[k] < age
<1> DEFINE S == {i \in 1..Len(times) : times[i] < age} \cup {Len(times) + 1}
           k == Min(S)
<1>1. Len(times) \in Nat
  OBVIOUS
<1>2. S \in SUBSET Nat /\ S # {}
  BY <1>1
<1>3. k \in S /\ \A n \in S : k <= n
  <2> HIDE DEF S
  <2> QED
    BY <1>2, LeastNumber
<1>4. Younger(times, age) = SubSeq(times, k, Len(times))
  BY DEF Younger
<1> HIDE DEF k
<1>5. k \in 1..(Len(times) + 1) /\ (k <= Len(times) => times[k] < age)
  BY <1>1, <1>3
<1>6. ASSUME NEW i \in 1..(k - 1) PROVE times[i] >= age
  <2>1. i \in 1..Len(times) /\ i < k
    BY <1>1, <1>5, <1>6
  <2>2. i \notin S
    BY <1>3, <2>1
  <2>3. times[i] \in Nat
    BY <2>1
  <2> QED
    BY <2>1, <2>2, <2>3
<1> QED
  BY <1>4, <1>5, <1>6

WindowInv ==
  /\ stamps \in Seq(Nat) /\ granted \in Seq(Nat)
  /\ Len(granted) <= Requests /\ Len(granted) <= Len(stamps)
  /\ \A i \in 1..Len(granted) :
       stamps[Len(stamps) - Len(granted) + i] = granted[i] /\ granted[i] < Window
  /\ \A i, j \in 1..Len(granted) : i <= j => granted[j] <= granted[i]

\* A list without its first elements.
LEMMA Sliced ==
  ASSUME NEW s \in Seq(Nat), NEW k \in 1..(Len(s) + 1)
  PROVE  /\ SubSeq(s, k, Len(s)) \in Seq(Nat)
         /\ Len(SubSeq(s, k, Len(s))) = Len(s) - k + 1
         /\ \A i \in 1..(Len(s) - k + 1) : SubSeq(s, k, Len(s))[i] = s[k + i - 1]
OBVIOUS

LEMMA InitWindow == Init => WindowInv
  BY ClientAssumption DEF Init, WindowInv

LEMMA AcquireWindow ==
  ASSUME WindowInv, acquire
  PROVE  WindowInv'
<1> DEFINE n == Len(stamps)
           g == Len(granted)
           live == _drop_expired(stamps)
<1>1. n \in Nat /\ g \in Nat /\ g <= n /\ g <= Requests /\ Window \in Nat \ {0} /\ Requests \in Nat
  BY ClientAssumption DEF WindowInv
<1>2. PICK k \in 1..(n + 1) :
        /\ live = SubSeq(stamps, k, n)
        /\ \A i \in 1..(k - 1) : stamps[i] >= Window
  BY <1>1, YoungerType DEF WindowInv, _drop_expired
<1>3. \A i \in 1..g : stamps[n - g + i] = granted[i] /\ granted[i] < Window /\ granted[i] \in Nat
  <2>1. \A i \in 1..Len(granted) : granted[i] \in Nat
    BY DEF WindowInv
  <2> QED BY <2>1, Zenon DEF WindowInv
<1> HIDE DEF n, g
<1>4. k <= n - g + 1
  <2> SUFFICES ASSUME k > n - g + 1 PROVE FALSE
    BY <1>1, <1>2
  <2>1. 1 \in 1..g /\ n - g + 1 \in 1..(k - 1)
    BY <1>1, <1>2
  <2> QED
    BY <1>1, <1>2, <1>3, <2>1
<1>5. /\ live \in Seq(Nat) /\ Len(live) = n - k + 1
      /\ \A i \in 1..(n - k + 1) : live[i] = stamps[k + i - 1]
  <2>1. stamps \in Seq(Nat) /\ k \in 1..(Len(stamps) + 1) /\ n = Len(stamps)
    BY <1>2 DEF WindowInv, n
  <2>2. live = SubSeq(stamps, k, Len(stamps))
    BY <1>2, <2>1
  <2> HIDE DEF live, n
  <2> QED BY <2>1, <2>2, Sliced
<1> HIDE DEF live
<1>6. /\ g <= Len(live)
      /\ \A i \in 1..g : live[Len(live) - g + i] = granted[i]
  <2>1. g <= Len(live)
    BY <1>1, <1>4, <1>5
  <2>2. ASSUME NEW i \in 1..g PROVE live[Len(live) - g + i] = granted[i]
    <3>1. Len(live) - g + i \in 1..(n - k + 1) /\ k + (Len(live) - g + i) - 1 = n - g + i
      BY <1>1, <1>2, <1>4, <1>5
    <3> QED
      BY <1>3, <1>5, <3>1
  <2> QED
    BY <2>1, <2>2
<1>7. CASE Len(live) < Requests
  <2>1. stamps' = Append(live, 0) /\ granted' = Append(granted, 0)
    BY <1>7 DEF acquire, live
  <2>2. /\ Len(stamps') = Len(live) + 1 /\ Len(granted') = g + 1
        /\ stamps' \in Seq(Nat) /\ granted' \in Seq(Nat)
    BY <1>5, <2>1 DEF WindowInv, g
  <2>3. /\ \A i \in 1..g : granted'[i] = granted[i]
        /\ granted'[g + 1] = 0
        /\ \A i \in 1..Len(live) : stamps'[i] = live[i]
        /\ stamps'[Len(live) + 1] = 0
    <3>1. live \in Seq(Nat) /\ granted \in Seq(Nat) /\ Len(live) \in Nat
      BY <1>5 DEF WindowInv
    <3>2. ASSUME NEW s \in Seq(Nat)
          PROVE  /\ \A i \in 1..Len(s) : Append(s, 0)[i] = s[i]
                 /\ Append(s, 0)[Len(s) + 1] = 0
      OBVIOUS
    <3> QED
      BY <2>1, <3>1, <3>2 DEF g
  <2>4. ASSUME NEW i \in 1..(g + 1)
        PROVE  stamps'[Len(live) - g + i] = granted'[i] /\ granted'[i] < Window
    <3>1. CASE i <= g
      <4>1. i \in 1..g /\ Len(live) - g + i \in 1..Len(live)
        BY <1>1, <1>5, <1>6, <3>1
      <4> QED
        BY <1>3, <1>6, <2>3, <4>1
    <3>2. CASE i = g + 1
      <4>1. Len(live) - g + i = Len(live) + 1
        BY <1>1, <1>2, <1>5, <3>2
      <4> QED
        BY <1>1, <2>3, <3>2, <4>1
    <3> QED
      BY <1>1, <3>1, <3>2
  <2>5. ASSUME NEW i \in 1..(g + 1), NEW j \in 1..(g + 1), i <= j
        PROVE  granted'[j] <= granted'[i]
    <3>1. CASE j <= g
      <4>1. i \in 1..g /\ j \in 1..g
        BY <1>1, <2>5, <3>1
      <4>2. granted[j] <= granted[i]
        BY <2>5, <4>1 DEF WindowInv, g
      <4> QED
        BY <2>3, <4>1, <4>2
    <3>2. CASE j = g + 1
      <4>1. granted'[i] \in Nat
        BY <2>2
      <4> QED
        BY <2>3, <3>2, <4>1
    <3> QED
      BY <1>1, <3>1, <3>2
  <2>6. Len(stamps') - Len(granted') = Len(live) - g
    BY <1>1, <1>2, <1>5, <2>2
  <2>7. Len(granted') <= Requests /\ Len(granted') <= Len(stamps')
    BY <1>1, <1>2, <1>5, <1>6, <1>7, <2>2
  <2> QED
    BY <2>2, <2>4, <2>5, <2>6, <2>7 DEF WindowInv
<1>8. CASE ~(Len(live) < Requests)
  <2>1. stamps' = live /\ granted' = granted
    BY <1>8 DEF acquire, live
  <2> QED
    BY <1>5, <1>6, <2>1 DEF WindowInv, g
<1> QED
  BY <1>7, <1>8

LEMMA TickWindow ==
  ASSUME WindowInv, Tick
  PROVE  WindowInv'
<1> DEFINE n == Len(stamps)
           g == Len(granted)
           aged == [i \in DOMAIN granted |-> granted[i] + 1]
<1>1. n \in Nat /\ g \in Nat /\ g <= n /\ g <= Requests /\ Window \in Nat /\ Requests \in Nat
  BY ClientAssumption DEF WindowInv
<1>2. stamps' = [i \in 1..n |-> Older(stamps[i], Window)] /\ granted' = Younger(aged, Window)
  BY DEF Tick, WindowInv
<1>3. \A i \in 1..g : stamps[n - g + i] = granted[i] /\ granted[i] < Window /\ granted[i] \in Nat
  BY DEF WindowInv
<1>4. aged = [i \in 1..g |-> granted[i] + 1]
  BY DEF WindowInv
<1> HIDE DEF n, g, aged
<1>5. aged \in Seq(Nat) /\ Len(aged) = g /\ \A i \in 1..g : aged[i] = granted[i] + 1
  BY <1>1, <1>3, <1>4
<1>6. /\ stamps' \in Seq(Nat) /\ Len(stamps') = n
      /\ \A i \in 1..n : stamps'[i] = Older(stamps[i], Window)
  <2>1. \A i \in 1..n : stamps[i] \in Nat
    BY DEF WindowInv, n
  <2>2. \A i \in 1..n : Older(stamps[i], Window) \in Nat
    BY <1>1, <2>1 DEF Older
  <2> QED
    BY <1>1, <1>2, <2>2
<1>7. PICK m \in 1..(g + 1) :
        /\ granted' = SubSeq(aged, m, g)
        /\ m <= g => aged[m] < Window
  BY <1>1, <1>2, <1>5, YoungerType
<1>8. /\ granted' \in Seq(Nat) /\ Len(granted') = g - m + 1
      /\ \A i \in 1..(g - m + 1) : granted'[i] = aged[m + i - 1]
  BY <1>1, <1>5, <1>7
<1>9. ASSUME NEW i \in 1..(g - m + 1)
      PROVE  /\ m + i - 1 \in 1..g
             /\ granted'[i] = granted[m + i - 1] + 1
  BY <1>1, <1>5, <1>7, <1>8
<1>10. ASSUME NEW i \in 1..g, NEW j \in 1..g, i <= j
       PROVE  granted[j] <= granted[i]
  BY <1>10 DEF WindowInv, g
<1>11. ASSUME NEW i \in 1..(g - m + 1), NEW j \in 1..(g - m + 1), i <= j
       PROVE  granted'[j] <= granted'[i]
  <2>1. m + i - 1 <= m + j - 1
    BY <1>1, <1>7, <1>11
  <2>2. granted[m + j - 1] <= granted[m + i - 1]
    BY <1>9, <1>10, <2>1
  <2>3. granted[m + j - 1] \in Nat /\ granted[m + i - 1] \in Nat
    BY <1>3, <1>9
  <2> QED
    BY <1>9, <2>2, <2>3
<1>12. ASSUME NEW i \in 1..(g - m + 1)
       PROVE  /\ granted'[i] < Window
              /\ stamps'[n - (g - m + 1) + i] = granted'[i]
  <2>1. m \in 1..g /\ aged[m] = granted[m] + 1 /\ aged[m] < Window
    BY <1>1, <1>5, <1>7, <1>12
  <2>2. m + i - 1 \in 1..g /\ m <= m + i - 1 /\ granted'[i] = granted[m + i - 1] + 1
    BY <1>9, <1>7, <1>1
  <2>3. granted[m + i - 1] <= granted[m]
    BY <1>10, <2>1, <2>2
  <2>4. granted[m + i - 1] \in Nat /\ granted[m] \in Nat
    BY <1>3, <2>1, <2>2
  <2>5. granted'[i] < Window
    BY <1>1, <2>1, <2>2, <2>3, <2>4
  <2>6. n - (g - m + 1) + i = n - g + (m + i - 1) /\ n - (g - m + 1) + i \in 1..n
    BY <1>1, <1>7, <2>2
  <2>7. stamps'[n - (g - m + 1) + i] = Older(granted[m + i - 1], Window)
    BY <1>3, <1>6, <2>2, <2>6
  <2>8. Older(granted[m + i - 1], Window) = granted[m + i - 1] + 1
    BY <1>3, <2>2 DEF Older
  <2> QED
    BY <2>2, <2>5, <2>7, <2>8
<1>13. g - m + 1 <= Requests /\ g - m + 1 <= n
  BY <1>1, <1>7
<1> QED
  BY <1>6, <1>8, <1>11, <1>12, <1>13 DEF WindowInv

LEMMA NextWindow ==
  ASSUME WindowInv, [Next]_vars
  PROVE  WindowInv'
<1>1. CASE UNCHANGED <<stamps, granted>>
  BY <1>1 DEF WindowInv
<1>2. CASE acquire
  BY <1>2, AcquireWindow
<1>3. CASE Tick
  BY <1>3, TickWindow
<1>4. CASE _run_cve_scan
  BY <1>4, ClientAssumption DEF _run_cve_scan, WindowInv
<1>5. UNCHANGED <<stamps, granted>> \/ acquire \/ Tick \/ _run_cve_scan
  <2> USE DEF clientVars
  <2>1. UNCHANGED vars => UNCHANGED <<stamps, granted>>
    BY DEF vars
  <2>2. ClientStep => acquire \/ UNCHANGED <<stamps, granted>>
    BY DEF ClientStep, Waited, Cancelled, _get_json, _check_cancelled, Send, AnswerPage,
           AnswerTransient, AnswerPermanent, _get_paginated
  <2>3. (SkipProduct \/ _resolve_local \/ _resolve_catalog \/ _resolve_nvd \/ set_cpe_catalog
         \/ _assess \/ ProductFailed \/ _summary \/ CancelSeen) => UNCHANGED <<stamps, granted>>
    BY DEF SkipProduct, _resolve_local, _resolve_catalog, _resolve_nvd, set_cpe_catalog,
           _assess, ProductFailed, _summary, CancelSeen
  <2>4. (_load_enrichments \/ _load_catalog \/ KevRequest \/ KevFailed \/ KevLoaded \/ _load_record
         \/ ProgramRequest \/ ProgramLoaded \/ ProgramMissing \/ ProgramTransient)
        => UNCHANGED <<stamps, granted>>
    BY DEF _load_enrichments, _load_catalog, KevRequest, KevFailed, KevLoaded, _load_record,
           ProgramRequest, ProgramLoaded, ProgramMissing, ProgramTransient
  <2>5. (Slept \/ ProgramPermanent \/ get_stale \/ _enrich_assessment \/ ScanDone
         \/ _run_cve_enrichment \/ SetCancel) => UNCHANGED <<stamps, granted>>
    BY DEF Slept, ProgramPermanent, get_stale, _enrich_assessment, ScanDone,
           _run_cve_enrichment, SetCancel
  <2> QED
    BY <2>1, <2>2, <2>3, <2>4, <2>5 DEF Next, Step
<1> QED
  BY <1>1, <1>2, <1>3, <1>4, <1>5

\* In no window does a scan grant more than the allowed requests, retries and pages
\* included, for any window and any allowance (SlidingWindowRateLimiter.acquire).
THEOREM WindowRespectedAlways == Spec => []WindowRespected
<1>1. WindowInv => WindowRespected
  BY DEF WindowInv, WindowRespected
<1>2. QED
  BY <1>1, InitWindow, NextWindow, PTL DEF Spec

----------------------------------------------------------------------------
(* What a query reads.  A page in the cache knows the rows older than it,  *)
(* and as rows are only ever added, what stood before it has not moved     *)
(* behind it: a page read after one that knows no fewer rows goes on where *)
(* that one ended.                                                         *)

Row(p, i) == rows[p][i]
Page(p, n) == cache[<<p, n>>]

\* A page with an inventory; one with all the rows of its place; the rows up to its end.
Cached(p, n) == Page(p, n) # None /\ Page(p, n).valid
Whole(p, n) == Page(p, n).got = PageSize(n, Page(p, n).total)
UpTo(p, n) == Page(p, n).ahead \cup Page(p, n).listed

RowsInv ==
  /\ rows \in [Products -> Seq(Nat)]
  /\ order \in [Products -> Seq(Nat)]
  /\ \A p \in Products :
       /\ Len(rows[p]) <= MaxRows[p] /\ Len(order[p]) = Len(rows[p])
       /\ \A i \in 1..Len(order[p]) : order[p][i] \in 1..Len(rows[p])
       /\ \A row \in 1..Len(rows[p]) : \E i \in 1..Len(order[p]) : order[p][i] = row

\* A page knows what is older than it.
Covers(p, n) == \A i \in 1..Len(rows[p]) : Row(p, i) > Page(p, n).age => i <= Page(p, n).total

PageInv(p, n) ==
  /\ Page(p, n).total <= Len(rows[p])
  /\ Page(p, n).got <= PageSize(n, Page(p, n).total)
  /\ Page(p, n).age < Ttl => Covers(p, n)
  /\ n = 0 => Page(p, n).ahead = {}
  /\ Page(p, n).total = Len(rows[p]) => Page(p, n).ahead = Places(p, 0, n * PerPage)
  /\ Whole(p, n) =>
       /\ \A row \in Places(p, 0, (n + 1) * PerPage) : row <= Page(p, n).total => row \in UpTo(p, n)
       /\ Page(p, n).total <= (n + 1) * PerPage => 1..Page(p, n).total \subseteq UpTo(p, n)

\* A page goes on where the page before it ended.
Continues(p, n) ==
  Cached(p, n) /\ Cached(p, n + 1) /\ Whole(p, n) /\ Page(p, n).total <= Page(p, n + 1).total
    => \A row \in Page(p, n + 1).ahead : row <= Page(p, n).total => row \in UpTo(p, n)

CacheInv ==
  /\ cache \in [Products \X Pages -> Answer \cup {None}]
  /\ \A p \in Products, n \in Pages : Cached(p, n) => PageInv(p, n)
  /\ \A p \in Products, n \in Pages : n + 1 \in Pages => Continues(p, n)

CallType == [product : Products \cup {None}, kind : {"cves", "cpes", None}, page : Nat,
             attempt : Nat, got : Nat, due : SUBSET Nat, read : SUBSET Nat, total : Nat,
             shrunk : BOOLEAN]

\* Every page the query may still read knows the rows that are due.
Promised ==
  /\ call.page \in Pages
  /\ call.due \subseteq 1..Len(rows[call.product])
  /\ \A n \in Pages : fresh(<<call.product, n>>) /\ Page(call.product, n).valid =>
       call.due \subseteq 1..Page(call.product, n).total

\* As long as every page was whole and none knew fewer rows than the one before it, the
\* due rows up to the end of the last page have been read.
ReadInv ==
  /\ call.got <= call.page * PerPage
  /\ call.page = 0 => call.total = 0
  /\ call.page > 0 =>
       /\ call.page * PerPage < call.total /\ call.due \subseteq 1..call.total
       /\ ~call.shrunk /\ call.got = call.page * PerPage =>
            /\ call.page - 1 \in Pages /\ Cached(call.product, call.page - 1)
            /\ Page(call.product, call.page - 1).total = call.total
            /\ Whole(call.product, call.page - 1)
            /\ call.due \cap UpTo(call.product, call.page - 1) \subseteq call.read

CallInv ==
  /\ call \in CallType
  /\ pc \in Querying \cup {"evaluate", "failed"} => call.product \in Products /\ todo # <<>>
  /\ pc \in Querying /\ call.kind = "cves" => Promised /\ ReadInv
  /\ pc = "read" => call.kind = "cves" /\ fresh(<<call.product, call.page>>)
  /\ pc = "evaluate" => call.shrunk \/ call.due \subseteq call.read

EvalInv ==
  /\ DOMAIN evals = Products
  /\ \A p \in Products : evals[p].terminal = "COMPLETED" => evals[p].current \/ evals[p].shrunk

TodoInv == todo \in Seq(Products) /\ inventory \in Seq(Products)

DataInv == RowsInv /\ CacheInv /\ CallInv /\ EvalInv /\ TodoInv

LEMMA InitData == Init => DataInv
<1> SUFFICES ASSUME Init PROVE DataInv
  OBVIOUS
<1>1. RowsInv
  BY ClientAssumption DEF Init, RowsInv
<1>2. CacheInv
  BY DEF Init, CacheInv, Page, Cached, Continues, Pages
<1>3. CallInv
  BY DEF Init, CallInv, CallType, NoCall, Querying
<1>4. EvalInv /\ TodoInv
  BY DEF Init, EvalInv, TodoInv, NotRun
<1> QED
  BY <1>1, <1>2, <1>3, <1>4 DEF DataInv

\* The smaller of two numbers.
LEMMA MinOfTwo ==
  ASSUME NEW a \in Nat, NEW b \in Nat
  PROVE  Min({a, b}) \in {a, b} /\ Min({a, b}) <= a /\ Min({a, b}) <= b
<1>1. \E x \in {a, b} : \A y \in {a, b} : x <= y
  BY a <= b \/ b <= a
<1> QED
  BY <1>1 DEF Min

\* The first row of a page, and of the next one.
LEMMA PageStart ==
  ASSUME NEW n \in Nat
  PROVE  n * PerPage \in Nat /\ (n + 1) * PerPage = n * PerPage + PerPage /\ PerPage \in Nat \ {0}
  BY ClientAssumption

LEMMA PageSizeBounds ==
  ASSUME NEW n \in Nat, NEW total \in Nat
  PROVE  /\ PageSize(n, total) \in Nat /\ PageSize(n, total) <= PerPage
         /\ n * PerPage <= total => PageSize(n, total) <= total - n * PerPage
         /\ n * PerPage < total => PageSize(n, total) > 0
<1> DEFINE start == n * PerPage
           skipped == Min({start, total})
<1>1. start \in Nat /\ PerPage \in Nat \ {0}
  BY PageStart
<1> HIDE DEF start
<1>2. skipped \in {start, total} /\ skipped <= start /\ skipped <= total
  BY <1>1, MinOfTwo
<1> HIDE DEF skipped
<1>3. total - skipped \in Nat
  BY <1>1, <1>2
<1>4. Min({PerPage, total - skipped}) \in {PerPage, total - skipped}
      /\ Min({PerPage, total - skipped}) <= PerPage /\ Min({PerPage, total - skipped}) <= total - skipped
  BY <1>1, <1>3, MinOfTwo
<1>5. PageSize(n, total) = Min({PerPage, total - skipped})
  BY DEF PageSize, skipped, start
<1>6. start <= total => skipped = start
  BY <1>1, <1>2
<1>7. /\ PageSize(n, total) \in Nat /\ PageSize(n, total) <= PerPage
      /\ start <= total => PageSize(n, total) <= total - start
      /\ start < total => PageSize(n, total) > 0
  BY <1>1, <1>2, <1>3, <1>4, <1>5, <1>6
<1> QED
  BY <1>7 DEF start

\* The places of a list, taken in two pieces; all of them; none.
LEMMA PlacesOfList ==
  ASSUME RowsInv, NEW p \in Products, NEW first \in Nat, NEW last \in Nat, NEW end \in Nat,
         first <= last, last <= end
  PROVE  /\ Places(p, first, end) = Places(p, first, last) \cup Places(p, last, end)
         /\ Places(p, first, end) \subseteq 1..Len(rows[p])
         /\ Len(rows[p]) <= end => Places(p, 0, end) = 1..Len(rows[p])
         /\ Places(p, 0, 0) = {}
<1>1. order[p] \in Seq(Nat) /\ DOMAIN order[p] = 1..Len(order[p]) /\ Len(order[p]) = Len(rows[p])
  BY DEF RowsInv
<1>2. \A i \in DOMAIN order[p] : i \in Nat /\ i > 0 /\ order[p][i] \in 1..Len(rows[p])
  <2>1. \A i \in 1..Len(order[p]) : order[p][i] \in 1..Len(rows[p])
    BY DEF RowsInv
  <2>2. \A i \in DOMAIN order[p] : i \in Nat /\ i > 0 /\ i \in 1..Len(order[p])
    BY <1>1
  <2> QED
    BY <2>1, <2>2, Zenon
<1>3. Places(p, first, end) = Places(p, first, last) \cup Places(p, last, end)
  <2>1. \A i \in DOMAIN order[p] :
          (first < i /\ i <= end) <=> ((first < i /\ i <= last) \/ (last < i /\ i <= end))
    BY <1>2
  <2> QED
    BY <2>1, Zenon DEF Places
<1>4. Places(p, first, end) \subseteq 1..Len(rows[p])
  BY <1>2, Zenon DEF Places
<1>5. ASSUME Len(rows[p]) <= end PROVE Places(p, 0, end) = 1..Len(rows[p])
  <2>1. Places(p, 0, end) \subseteq 1..Len(rows[p])
    BY <1>2, Zenon DEF Places
  <2>2. ASSUME NEW row \in 1..Len(rows[p]) PROVE row \in Places(p, 0, end)
    <3>1. PICK i \in 1..Len(order[p]) : order[p][i] = row
      BY DEF RowsInv
    <3>2. i \in DOMAIN order[p] /\ 0 < i /\ i <= end
      BY <1>1, <1>5, <3>1
    <3> QED
      BY <3>1, <3>2, Zenon DEF Places
  <2> QED
    BY <2>1, <2>2
<1>6. Places(p, 0, 0) = {}
  BY <1>2 DEF Places
<1> QED
  BY <1>3, <1>4, <1>5, <1>6

\* What a provider may answer: nothing, or a page that says the truth about its list.
LEMMA PageAnswersType ==
  ASSUME RowsInv, NEW p \in Products, NEW n \in Nat, NEW answer \in PageAnswers(p, n)
  PROVE  /\ answer \in Answer /\ answer.age = 0
         /\ answer.valid =>
              /\ answer.total = Len(rows[p]) /\ answer.ahead = Places(p, 0, n * PerPage)
              /\ answer.got <= PageSize(n, answer.total)
              /\ answer.got = PageSize(n, answer.total) =>
                   answer.ahead \cup answer.listed = Places(p, 0, (n + 1) * PerPage)
<1> DEFINE total == Len(rows[p])
           ahead == Places(p, 0, n * PerPage)
           full == Places(p, n * PerPage, (n + 1) * PerPage)
           size == PageSize(n, total)
           With(listed, got) == [age |-> 0, listed |-> listed, ahead |-> ahead, got |-> got,
                                 total |-> total, valid |-> TRUE]
<1>1. total \in Nat /\ n * PerPage \in Nat /\ (n + 1) * PerPage \in Nat
      /\ n * PerPage <= (n + 1) * PerPage
  BY PageStart DEF RowsInv
<1>2. size \in Nat /\ (n * PerPage < total => size > 0)
  BY <1>1, PageSizeBounds
<1>3. /\ Places(p, 0, (n + 1) * PerPage) = ahead \cup full
      /\ ahead \subseteq 1..total /\ full \subseteq 1..total
  BY <1>1, PlacesOfList
<1>4. full # {} => size > 0
  <2>1. \A i \in DOMAIN order[p] : i \in Nat /\ i <= total
    <3>1. order[p] \in Seq(Nat) /\ Len(order[p]) = total
      BY DEF RowsInv
    <3> HIDE DEF total
    <3> QED
      BY <3>1
  <2>2. full # {} => \E i \in DOMAIN order[p] : n * PerPage < i
    BY DEF Places
  <2> QED
    BY <1>1, <1>2, <2>1, <2>2
<1>5. \/ answer = NoInventory
      \/ answer = With(full, size)
      \/ \E row \in full : answer = With(full \ {row}, size - 1)
  BY DEF PageAnswers
<1> HIDE DEF total, ahead, full, size
<1>6. ahead \in SUBSET Nat /\ full \in SUBSET Nat
  BY <1>1, <1>3
<1>7. CASE answer = NoInventory
  BY <1>7 DEF NoInventory, Answer
<1>8. CASE answer = With(full, size)
  BY <1>1, <1>2, <1>3, <1>6, <1>8 DEF Answer, total, ahead, size
<1>9. ASSUME NEW row \in full, answer = With(full \ {row}, size - 1)
      PROVE  /\ answer \in Answer /\ answer.age = 0 /\ answer.total = total /\ answer.ahead = ahead
             /\ answer.got < size
  <2>1. size - 1 \in Nat /\ size - 1 < size /\ full \ {row} \in SUBSET Nat
    BY <1>2, <1>4, <1>6, <1>9
  <2> QED
    BY <1>1, <1>6, <1>9, <2>1 DEF Answer
<1>10. CASE \E row \in full : answer = With(full \ {row}, size - 1)
  <2>1. /\ answer \in Answer /\ answer.age = 0 /\ answer.total = total /\ answer.ahead = ahead
        /\ answer.got < size
    BY <1>9, <1>10
  <2>2. answer.got \in Nat /\ answer.got <= size /\ answer.got # size
    BY <1>2, <2>1 DEF Answer
  <2> QED
    BY <2>1, <2>2 DEF total, ahead, size
<1> QED
  BY <1>5, <1>7, <1>8, <1>10

\* A query begins: what is due is listed by the provider and by each fresh page.
LEMMA QueryBegins ==
  ASSUME DataInv, NEW p \in Products, NEW kind \in {"cves", "cpes"}, StartQuery(kind, p),
         UNCHANGED <<rows, order, cache>>
  PROVE  /\ call' \in CallType
         /\ call'.product = p /\ call'.kind = kind
         /\ Promised' /\ ReadInv'
<1> DEFINE due == {i \in DOMAIN rows[p] : rows[p][i] >= Ttl}
<1>1. rows[p] \in Seq(Nat)
  BY DEF DataInv, RowsInv
<1>2. due \subseteq 1..Len(rows[p]) /\ due \in SUBSET Nat
  BY <1>1
<1>3. call' = [NoCall EXCEPT !.product = p, !.kind = kind, !.due = due]
  BY DEF StartQuery
<1>4. ASSUME NEW n \in Pages, fresh(<<p, n>>), Page(p, n).valid
      PROVE  due \subseteq 1..Page(p, n).total
  <2>1. Cached(p, n) /\ Page(p, n).age < Ttl
    BY <1>4 DEF fresh, Page, Cached
  <2>2. Page(p, n) \in Answer
    BY <2>1 DEF DataInv, CacheInv, Page, Cached
  <2>3. Covers(p, n)
    BY <2>1 DEF DataInv, CacheInv, PageInv
  <2> SUFFICES ASSUME NEW i \in due PROVE i \in 1..Page(p, n).total
    OBVIOUS
  <2>4. i \in 1..Len(rows[p]) /\ Row(p, i) \in Nat /\ Row(p, i) >= Ttl
    BY <1>1 DEF Row
  <2>5. Row(p, i) > Page(p, n).age
    BY <2>1, <2>2, <2>4, ClientAssumption DEF Answer
  <2>6. i <= Page(p, n).total
    BY <2>3, <2>4, <2>5 DEF Covers
  <2> QED
    BY <2>2, <2>4, <2>6 DEF Answer
<1>5. 0 \in Pages
  BY DEF Pages
<1> HIDE DEF due
<1>6. /\ call' \in CallType /\ call'.product = p /\ call'.kind = kind /\ call'.page = 0
      /\ call'.due = due /\ call'.got = 0 /\ call'.total = 0
  BY <1>2, <1>3 DEF CallType, NoCall
<1>7. \A n \in Pages : fresh(<<p, n>>)' /\ Page(p, n)'.valid => due \subseteq 1..Page(p, n)'.total
  BY <1>4 DEF fresh, Page
<1>8. Promised'
  BY <1>2, <1>5, <1>6, <1>7 DEF Promised, fresh, Page
<1>9. ReadInv'
  BY <1>6, ClientAssumption DEF ReadInv
<1> QED
  BY <1>6, <1>8, <1>9

\* A page is answered: it agrees with the pages before and after it.
LEMMA AnswerCache ==
  ASSUME RowsInv, CacheInv, NEW p \in Products, NEW n \in Pages, n \in Nat,
         NEW answer \in PageAnswers(p, n), cache' = [cache EXCEPT ![<<p, n>>] = answer],
         UNCHANGED <<rows, order>>
  PROVE  /\ CacheInv'
         /\ cache'[<<p, n>>] = answer
         /\ \A q \in Products, m \in Pages : <<q, m>> # <<p, n>> => cache'[<<q, m>>] = Page(q, m)
<1>1. /\ answer \in Answer /\ answer # None /\ answer.age = 0
      /\ answer.valid =>
           /\ answer.total = Len(rows[p]) /\ answer.ahead = Places(p, 0, n * PerPage)
           /\ answer.got <= PageSize(n, answer.total)
           /\ answer.got = PageSize(n, answer.total) =>
                answer.ahead \cup answer.listed = Places(p, 0, (n + 1) * PerPage)
  BY PageAnswersType, AnswerAssumption
<1>2. cache' \in [Products \X Pages -> Answer \cup {None}]
  BY <1>1 DEF CacheInv
<1>3. cache'[<<p, n>>] = answer
  BY DEF CacheInv
<1>4. \A q \in Products, m \in Pages : <<q, m>> # <<p, n>> => cache'[<<q, m>>] = Page(q, m)
  BY DEF CacheInv, Page
<1>5. n * PerPage \in Nat /\ (n + 1) * PerPage \in Nat
  BY PageStart
<1>6. ASSUME answer.valid PROVE PageInv(p, n)'
  <2>1. Len(rows[p]) \in Nat /\ rows[p] \in Seq(Nat)
    BY DEF RowsInv
  <2>2. Covers(p, n)'
    BY <1>1, <1>3, <1>6, <2>1 DEF Covers, Page, Row
  <2>3. n = 0 => answer.ahead = {}
    <3>1. Places(p, 0, 0) = {}
      BY PlacesOfList, 0 \in Nat
    <3>2. 0 * PerPage = 0
      BY ClientAssumption
    <3> QED
      BY <1>1, <1>6, <3>1, <3>2
  <2>4. answer.total <= (n + 1) * PerPage => Places(p, 0, (n + 1) * PerPage) = 1..answer.total
    BY <1>1, <1>5, <1>6, PlacesOfList, 0 \in Nat, 0 <= 0, 0 <= (n + 1) * PerPage
  <2>5. answer.total <= Len(rows[p])
    BY <1>1, <1>6, <2>1
  <2>6. Page(p, n)' = answer
    BY <1>3 DEF Page
  <2>7. ASSUME Whole(p, n)'
        PROVE  /\ \A row \in Places(p, 0, (n + 1) * PerPage)' : row \in UpTo(p, n)'
               /\ answer.total <= (n + 1) * PerPage => 1..answer.total \subseteq UpTo(p, n)'
    <3>1. UpTo(p, n)' = Places(p, 0, (n + 1) * PerPage)
      BY <1>1, <1>6, <2>6, <2>7 DEF Whole, UpTo
    <3>2. Places(p, 0, (n + 1) * PerPage)' = Places(p, 0, (n + 1) * PerPage)
      BY DEF Places
    <3> QED
      BY <2>4, <3>1, <3>2
  <2>8. Places(p, 0, n * PerPage)' = Places(p, 0, n * PerPage)
    BY DEF Places
  <2> QED
    BY <1>1, <1>6, <2>2, <2>3, <2>5, <2>6, <2>7, <2>8 DEF PageInv
<1>7. ASSUME NEW q \in Products, NEW m \in Pages, Cached(q, m)'
      PROVE  PageInv(q, m)'
  <2>1. CASE <<q, m>> = <<p, n>>
    <3>1. q = p /\ m = n
      BY <2>1
    <3>2. answer.valid
      BY <1>3, <1>7, <3>1 DEF Cached, Page
    <3> QED
      BY <1>6, <3>1, <3>2
  <2>2. CASE <<q, m>> # <<p, n>>
    <3>1. cache'[<<q, m>>] = cache[<<q, m>>]
      BY <1>4, <2>2 DEF Page
    <3>2. Page(q, m)' = Page(q, m) /\ PageInv(q, m)
      BY <1>7, <3>1 DEF CacheInv, Cached, Page
    <3>3. /\ Covers(q, m)' <=> Covers(q, m)
          /\ Whole(q, m)' <=> Whole(q, m)
          /\ UpTo(q, m)' = UpTo(q, m)
          /\ Places(q, 0, m * PerPage)' = Places(q, 0, m * PerPage)
          /\ Places(q, 0, (m + 1) * PerPage)' = Places(q, 0, (m + 1) * PerPage)
      BY <3>2 DEF Covers, Row, Whole, UpTo, Places
    <3> QED
      BY <3>2, <3>3, Zenon DEF PageInv
  <2> QED
    BY <2>1, <2>2
<1>8. ASSUME NEW q \in Products, NEW m \in Pages, m + 1 \in Pages
      PROVE  Continues(q, m)'
  <2>1. m \in Nat
    BY DEF Pages
  <2> SUFFICES ASSUME Cached(q, m)', Cached(q, m + 1)', Whole(q, m)',
                      Page(q, m)'.total <= Page(q, m + 1)'.total,
                      NEW row \in Page(q, m + 1)'.ahead, row <= Page(q, m)'.total
               PROVE  row \in UpTo(q, m)'
    BY DEF Continues
  <2>2. CASE q = p /\ m = n
    <3>1. cache'[<<p, n + 1>>] = Page(p, n + 1)
      BY <1>4, <2>1, <2>2, <1>8
    <3>2. answer.valid /\ Cached(p, n + 1)
      BY <1>3, <2>2, <3>1 DEF Cached, Page
    <3>3. PageInv(p, n + 1) /\ Page(p, n + 1) \in Answer
      BY <1>8, <2>2, <3>2 DEF CacheInv, Cached, Page
    <3>4. answer.total = Len(rows[p]) /\ Page(p, n + 1).total <= Len(rows[p])
      BY <1>1, <3>2, <3>3 DEF PageInv
    <3>5. Page(p, n + 1).total = Len(rows[p])
      <4>1. answer.total <= Page(p, n + 1).total
        BY <1>3, <2>2, <3>1 DEF Page
      <4>2. answer.total \in Nat /\ Page(p, n + 1).total \in Nat
        BY <1>1, <3>3 DEF Answer
      <4> QED
        BY <3>4, <4>1, <4>2
    <3>6. row \in Places(p, 0, (n + 1) * PerPage)
      BY <2>2, <3>1, <3>3, <3>5 DEF PageInv, Page
    <3>7. answer.got = PageSize(n, answer.total)
      BY <1>3, <2>2 DEF Whole, Page
    <3>8. row \in answer.ahead \cup answer.listed
      BY <1>1, <3>2, <3>6, <3>7
    <3> QED
      BY <1>3, <2>2, <3>8 DEF UpTo, Page
  <2>3. CASE q = p /\ m + 1 = n
    <3>1. cache'[<<p, m>>] = Page(p, m) /\ m # n
      BY <1>4, <2>1, <2>3
    <3>2. answer.valid /\ Cached(p, m) /\ Whole(p, m)
      BY <1>3, <2>3, <3>1 DEF Cached, Page, Whole
    <3>3. PageInv(p, m)
      BY <3>2 DEF CacheInv
    <3>4. row \in Places(p, 0, (m + 1) * PerPage)
      BY <1>1, <1>3, <2>3, <3>2 DEF Page
    <3>5. row <= Page(p, m).total
      BY <2>3, <3>1 DEF Page
    <3>6. row \in UpTo(p, m)
      BY <3>2, <3>3, <3>4, <3>5 DEF PageInv
    <3> QED
      BY <2>3, <3>1, <3>6 DEF UpTo, Page
  <2>4. CASE <<q, m>> # <<p, n>> /\ <<q, m + 1>> # <<p, n>>
    <3>1. cache'[<<q, m>>] = cache[<<q, m>>] /\ cache'[<<q, m + 1>>] = cache[<<q, m + 1>>]
      BY <1>4, <1>8, <2>4 DEF Page
    <3>2. Continues(q, m)
      BY <1>8 DEF CacheInv
    <3>3. /\ Cached(q, m) /\ Cached(q, m + 1) /\ Whole(q, m)
          /\ Page(q, m).total <= Page(q, m + 1).total
          /\ row \in Page(q, m + 1).ahead /\ row <= Page(q, m).total
      BY <3>1 DEF Cached, Whole, Page
    <3>4. row \in UpTo(q, m)
      BY <3>2, <3>3 DEF Continues
    <3> QED
      BY <3>1, <3>4 DEF UpTo, Page
  <2> QED
    BY <2>2, <2>3, <2>4
<1> QED
  BY <1>2, <1>3, <1>4, <1>7, <1>8 DEF CacheInv

\* A page with an inventory has been read.
LEMMA PageRead ==
  ASSUME DataInv, pc = "read", call' = _collect(Page(call.product, call.page)),
         Page(call.product, call.page).valid
  PROVE  LET page == Page(call.product, call.page)
             got == call.got + page.got IN
         /\ page.total <= MaxRows[call.product] /\ call.due \subseteq 1..page.total
         /\ got <= (call.page + 1) * PerPage
         /\ ~call'.shrunk /\ got = (call.page + 1) * PerPage =>
              Whole(call.product, call.page) /\ call.due \cap UpTo(call.product, call.page) \subseteq call'.read
         /\ ~call'.shrunk /\ got = page.total /\ page.total <= (call.page + 1) * PerPage =>
              call.due \subseteq call'.read
<1> DEFINE p == call.product
           n == call.page
           page == Page(p, n)
           got == call.got + page.got
           start == n * PerPage
           end == (n + 1) * PerPage
<1>1. /\ call \in CallType /\ Promised /\ ReadInv /\ call.kind = "cves"
      /\ p \in Products /\ n \in Pages /\ fresh(<<p, n>>)
  BY DEF DataInv, CallInv, Querying, Promised
<1>2. page \in Answer /\ Cached(p, n) /\ PageInv(p, n)
  BY <1>1 DEF DataInv, CacheInv, fresh, Page, Cached
<1>3. /\ n \in Nat /\ call.got \in Nat /\ call.total \in Nat /\ call.read \in SUBSET Nat
      /\ page.got \in Nat /\ page.total \in Nat
  BY <1>1, <1>2 DEF CallType, Answer
<1>4. start \in Nat /\ end = start + PerPage /\ PerPage \in Nat \ {0}
  BY <1>3, PageStart
<1>5. /\ PageSize(n, page.total) \in Nat /\ PageSize(n, page.total) <= PerPage
      /\ start <= page.total => PageSize(n, page.total) <= page.total - start
  BY <1>3, PageSizeBounds
<1>6. page.got <= PageSize(n, page.total) /\ page.total <= Len(rows[p])
  BY <1>2 DEF PageInv
<1>7. call.got <= start
  BY <1>1 DEF ReadInv
<1>8. call.due \subseteq 1..page.total
  BY <1>1 DEF Promised
<1>9. page.total <= MaxRows[p]
  <2>1. Len(rows[p]) \in Nat /\ Len(rows[p]) <= MaxRows[p] /\ MaxRows[p] \in Nat
    <3>1. rows[p] \in Seq(Nat) /\ Len(rows[p]) <= MaxRows[p]
      BY <1>1 DEF DataInv, RowsInv
    <3>2. MaxRows[p] \in Nat
      BY <1>1, ClientAssumption
    <3> QED
      BY <3>1, <3>2
  <2> QED
    BY <1>3, <1>6, <2>1
<1>10. /\ call'.read = call.read \cup page.listed
       /\ call'.shrunk <=> (call.shrunk \/ page.total < call.total)
  BY <1>1 DEF _collect, CallType
<1>11. ASSUME ~call'.shrunk, call.got = start
       PROVE  call.due \cap page.ahead \subseteq call.read
  <2>1. CASE n = 0
    BY <1>2, <2>1 DEF PageInv
  <2>2. CASE n > 0
    <3>1. /\ n - 1 \in Pages /\ Cached(p, n - 1) /\ Page(p, n - 1).total = call.total
          /\ Whole(p, n - 1) /\ call.due \cap UpTo(p, n - 1) \subseteq call.read
          /\ call.due \subseteq 1..call.total
      BY <1>1, <1>10, <1>11, <2>2 DEF ReadInv
    <3>2. (n - 1) + 1 = n /\ call.total <= page.total
      BY <1>3, <1>10, <1>11
    <3>3. Continues(p, n - 1)
      BY <1>1, <3>1, <3>2 DEF DataInv, CacheInv
    <3>4. \A row \in page.ahead : row <= call.total => row \in UpTo(p, n - 1)
      BY <1>2, <3>1, <3>2, <3>3 DEF Continues
    <3>5. \A row \in call.due : row <= call.total
      BY <1>3, <3>1
    <3> QED
      BY <3>1, <3>4, <3>5
  <2> QED
    BY <1>3, <2>1, <2>2
<1> HIDE DEF page, start, end, p, n
<1>12. got <= end
  BY <1>3, <1>4, <1>5, <1>6, <1>7
<1>13. ASSUME ~call'.shrunk, got = end
       PROVE  Whole(p, n) /\ call.due \cap UpTo(p, n) \subseteq call'.read
  <2>1. call.got = start /\ page.got = PageSize(n, page.total)
    BY <1>3, <1>4, <1>5, <1>6, <1>7, <1>13
  <2> QED
    BY <1>10, <1>11, <1>13, <2>1 DEF Whole, UpTo, page
<1>14. ASSUME ~call'.shrunk, got = page.total, page.total <= end
       PROVE  call.due \subseteq call'.read
  <2>1. start <= page.total
    <3>1. CASE n = 0
      BY <1>3, <3>1, ClientAssumption DEF start
    <3>2. CASE n > 0
      <4>1. start < call.total
        BY <1>1, <3>2 DEF ReadInv, start, n
      <4> QED
        BY <1>3, <1>4, <1>10, <1>14, <4>1
    <3> QED
      BY <1>3, <3>1, <3>2
  <2>2. call.got = start /\ page.got = PageSize(n, page.total)
    BY <1>3, <1>4, <1>5, <1>6, <1>7, <1>14, <2>1
  <2>3. 1..page.total \subseteq UpTo(p, n)
    BY <1>2, <1>14, <2>2 DEF PageInv, Whole, page, end
  <2> QED
    BY <1>8, <1>10, <1>11, <1>14, <2>2, <2>3 DEF UpTo, page
<1> QED
  BY <1>8, <1>9, <1>12, <1>13, <1>14 DEF page, end, p, n

\* What is read of the provider and the cache stays as it is.
LEMMA SamePages ==
  ASSUME RowsInv, CacheInv, UNCHANGED <<rows, order, cache>>
  PROVE  RowsInv' /\ CacheInv'
<1>1. RowsInv'
  BY DEF RowsInv
<1>2. ASSUME NEW p \in Products, NEW n \in Pages
      PROVE  /\ Cached(p, n)' <=> Cached(p, n)
             /\ PageInv(p, n)' <=> PageInv(p, n)
             /\ Continues(p, n)' <=> Continues(p, n)
  BY DEF Cached, PageInv, Continues, Covers, Row, Whole, UpTo, Places, Page
<1>3. CacheInv'
  BY <1>2 DEF CacheInv
<1> QED
  BY <1>1, <1>3

\* A query that has read no further page knows what it knew.
LEMMA SameQuery ==
  ASSUME UNCHANGED <<rows, order, cache>>, call'.product = call.product, call'.due = call.due,
         call'.page = call.page, call'.got = call.got, call'.total = call.total,
         call'.read = call.read, call'.shrunk = call.shrunk
  PROVE  (Promised => Promised') /\ (ReadInv => ReadInv')
<1>1. Promised => Promised'
  BY DEF Promised, fresh, Page
<1>2. ReadInv => ReadInv'
  BY DEF ReadInv, Cached, Page, Whole, UpTo
<1> QED
  BY <1>1, <1>2

\* What the steps of a query do to it, the clock apart.
LEMMA ClientData ==
  ASSUME DataInv, PlaceInv, ClientStep, UNCHANGED <<scanVars, enrichVars>>
  PROVE  DataInv'
<1>1. UNCHANGED <<rows, order, evals, todo, inventory>>
  BY DEF scanVars, ClientStep, acquire, Waited, Cancelled, _get_json, _check_cancelled, Send,
         AnswerPage, AnswerTransient, AnswerPermanent, _get_paginated, clientVars, providerVars
<1>2. EvalInv' /\ TodoInv' /\ RowsInv'
  <2>1. RowsInv'
    BY <1>1 DEF DataInv, RowsInv
  <2> QED
    BY <1>1, <2>1 DEF DataInv, EvalInv, TodoInv
<1>3. ASSUME UNCHANGED cache PROVE CacheInv'
  BY <1>1, <1>3, SamePages DEF DataInv
<1>4. ASSUME UNCHANGED cache, pc \in Querying, pc' \in Querying, call' \in CallType,
             call'.product = call.product, call'.kind = call.kind, call'.due = call.due,
             call'.page = call.page, call'.got = call.got, call'.total = call.total,
             call'.read = call.read, call'.shrunk = call.shrunk, pc' # "read"
      PROVE  CallInv'
  <2>1. (Promised => Promised') /\ (ReadInv => ReadInv')
    BY <1>1, <1>4, SameQuery
  <2> QED
    BY <1>1, <1>4, <2>1 DEF CallInv, DataInv, Querying
<1>5. CASE acquire \/ Waited \/ _check_cancelled \/ Send
  <2>1. UNCHANGED <<cache, call>> /\ pc \in Querying /\ pc' \in Querying \ {"read"}
    BY <1>5 DEF acquire, Waited, _check_cancelled, Send, _wait, clientVars, Querying, PlaceInv
  <2>2. CallInv'
    BY <1>4, <2>1 DEF DataInv, CallInv
  <2> QED
    BY <1>2, <1>3, <2>1, <2>2 DEF DataInv
<1>6. CASE Cancelled \/ AnswerPermanent
  <2>1. UNCHANGED <<cache, call>> /\ pc \in Querying /\ pc' \in {"cancelled", "failed"}
    BY <1>6 DEF Cancelled, AnswerPermanent, clientVars, Querying
  <2>2. CallInv'
    BY <1>1, <2>1 DEF DataInv, CallInv, Querying
  <2> QED
    BY <1>2, <1>3, <2>1, <2>2 DEF DataInv
<1>7. CASE _get_json
  <2>1. CASE call.kind = "cves" /\ fresh(<<call.product, call.page>>)
    <3>1. UNCHANGED <<cache, call>> /\ pc = "page" /\ pc' = "read"
      BY <1>7, <2>1 DEF _get_json
    <3>2. Promised' /\ ReadInv'
      BY <1>1, <2>1, <3>1, SameQuery DEF DataInv, CallInv, Querying
    <3>3. CallInv'
      BY <1>1, <2>1, <3>1, <3>2 DEF DataInv, CallInv, Querying, fresh
    <3> QED
      BY <1>2, <1>3, <3>1, <3>3 DEF DataInv
  <2>2. CASE ~(call.kind = "cves" /\ fresh(<<call.product, call.page>>))
    <3>1. /\ UNCHANGED cache /\ pc = "page" /\ pc' = "acquire"
          /\ call' = [call EXCEPT !.attempt = 0]
      BY <1>7, <2>2 DEF _get_json
    <3>2. call \in CallType
      BY DEF DataInv, CallInv
    <3>3. /\ call' \in CallType /\ call'.product = call.product /\ call'.kind = call.kind
          /\ call'.due = call.due /\ call'.page = call.page /\ call'.got = call.got
          /\ call'.total = call.total /\ call'.read = call.read /\ call'.shrunk = call.shrunk
      BY <3>1, <3>2 DEF CallType
    <3>4. CallInv'
      BY <1>4, <3>1, <3>3 DEF Querying
    <3> QED
      BY <1>2, <1>3, <3>1, <3>4 DEF DataInv
  <2> QED
    BY <2>1, <2>2
<1>8. CASE AnswerTransient
  <2>1. CASE call.attempt < MaxRetries
    <3>1. /\ UNCHANGED cache /\ pc = "sent" /\ pc' = "wait"
          /\ call' = [call EXCEPT !.attempt = @ + 1]
      BY <1>8, <2>1 DEF AnswerTransient, Retry, _wait
    <3>2. call \in CallType /\ call.attempt + 1 \in Nat
      BY DEF DataInv, CallInv, CallType
    <3>3. /\ call' \in CallType /\ call'.product = call.product /\ call'.kind = call.kind
          /\ call'.due = call.due /\ call'.page = call.page /\ call'.got = call.got
          /\ call'.total = call.total /\ call'.read = call.read /\ call'.shrunk = call.shrunk
      BY <3>1, <3>2 DEF CallType
    <3>4. CallInv'
      BY <1>4, <3>1, <3>3 DEF Querying
    <3> QED
      BY <1>2, <1>3, <3>1, <3>4 DEF DataInv
  <2>2. CASE ~(call.attempt < MaxRetries)
    <3>1. UNCHANGED <<cache, call>> /\ pc = "sent" /\ pc' = "failed"
      BY <1>8, <2>2 DEF AnswerTransient, Retry
    <3>2. CallInv'
      BY <1>1, <3>1 DEF DataInv, CallInv, Querying
    <3> QED
      BY <1>2, <1>3, <3>1, <3>2 DEF DataInv
  <2> QED
    BY <2>1, <2>2
<1>9. CASE AnswerPage
  <2> DEFINE p == call.product
             n == call.page
  <2>1. pc = "sent" /\ pc' = "read" /\ call.kind = "cves" /\ UNCHANGED call
    BY <1>9 DEF AnswerPage
  <2>2. p \in Products /\ n \in Nat /\ n \in Pages /\ Promised /\ ReadInv /\ call \in CallType
    BY <2>1 DEF DataInv, CallInv, CallType, Querying, Promised
  <2>3. PICK answer \in PageAnswers(p, n) : cache' = [cache EXCEPT ![<<p, n>>] = answer]
    BY <1>9 DEF AnswerPage
  <2>4. /\ CacheInv'
        /\ cache'[<<p, n>>] = answer
        /\ \A q \in Products, m \in Pages : <<q, m>> # <<p, n>> => cache'[<<q, m>>] = Page(q, m)
    BY <1>1, <2>2, <2>3, AnswerCache DEF DataInv
  <2>5. /\ answer \in Answer /\ answer.age = 0 /\ answer # None
        /\ answer.valid => answer.total = Len(rows[p])
    BY <2>2, <2>3, PageAnswersType, AnswerAssumption DEF DataInv
  <2> HIDE DEF p, n
  <2>6. \A m \in Pages : fresh(<<p, m>>)' /\ cache'[<<p, m>>].valid =>
           call.due \subseteq 1..cache'[<<p, m>>].total
    <3> SUFFICES ASSUME NEW m \in Pages, fresh(<<p, m>>)', cache'[<<p, m>>].valid
                 PROVE  call.due \subseteq 1..cache'[<<p, m>>].total
      OBVIOUS
    <3>1. CASE m = n
      <4>1. call.due \subseteq 1..Len(rows[p])
        BY <2>2 DEF Promised, p
      <4> QED
        BY <3>1, <4>1, <2>4, <2>5
    <3>2. CASE m # n
      <4>1. cache'[<<p, m>>] = cache[<<p, m>>]
        BY <3>2, <2>2, <2>4 DEF Page
      <4>2. p' = p
        BY <2>1 DEF p
      <4>3. fresh(<<p, m>>)
        BY <4>1, <4>2 DEF fresh
      <4> QED
        BY <4>1, <4>3, <2>2 DEF Promised, Page, p
    <3> QED
      BY <3>1, <3>2
  <2>7. Promised'
    BY <2>1, <2>2, <2>6, <1>1 DEF Promised, Page, p
  <2>8. ReadInv'
    <3>1. n - 1 # n
      BY <2>2
    <3>2. n - 1 \in Pages => cache'[<<p, n - 1>>] = cache[<<p, n - 1>>]
      BY <2>2, <2>4, <3>1 DEF Page
    <3> QED
      BY <2>1, <2>2, <3>2 DEF ReadInv, Cached, Page, Whole, UpTo, p, n
  <2>9. fresh(<<p, n>>)'
    <3>1. p' = p /\ n' = n
      BY <2>1 DEF p, n
    <3>2. cache'[<<p, n>>] # None /\ cache'[<<p, n>>].age < Ttl
      BY <2>4, <2>5, ClientAssumption
    <3> QED
      BY <3>1, <3>2 DEF fresh
  <2>10. CallInv'
    BY <2>1, <2>2, <2>7, <2>8, <2>9, <1>1 DEF DataInv, CallInv, Querying, p, n, fresh
  <2> QED
    BY <1>2, <2>4, <2>10 DEF DataInv
<1>10. CASE _get_paginated
  <2> DEFINE page == Page(call.product, call.page)
             got == call.got + page.got
  <2>1. pc = "read" /\ UNCHANGED cache /\ call' = _collect(page)
    BY <1>10 DEF _get_paginated, Page
  <2>2. /\ call \in CallType /\ Promised /\ ReadInv /\ call.kind = "cves"
        /\ call.product \in Products /\ todo # <<>> /\ call.page \in Pages
        /\ fresh(<<call.product, call.page>>)
    BY <2>1 DEF DataInv, CallInv, Querying, Promised
  <2>3. page \in Answer
    BY <2>2 DEF DataInv, CacheInv, fresh, Page
  <2>4. \/ pc' = "page" /\ page.valid /\ (call.page + 1) * PerPage < page.total
        \/ /\ pc' = "evaluate" /\ page.valid
           /\ ~((call.page + 1) * PerPage < page.total) /\ got = page.total
        \/ pc' = "failed"
    BY <1>10, Zenon DEF _get_paginated, Page
  <2>5. page.valid =>
         /\ page.total <= MaxRows[call.product] /\ call.due \subseteq 1..page.total
         /\ got <= (call.page + 1) * PerPage
         /\ ~call'.shrunk /\ got = (call.page + 1) * PerPage =>
              Whole(call.product, call.page) /\ call.due \cap UpTo(call.product, call.page) \subseteq call'.read
         /\ ~call'.shrunk /\ got = page.total /\ page.total <= (call.page + 1) * PerPage =>
              call.due \subseteq call'.read
    BY <2>1, PageRead
  <2>6. /\ page.got \in Nat /\ page.total \in Nat /\ page.listed \in SUBSET Nat
        /\ call.page \in Nat /\ call.got \in Nat
    BY <2>2, <2>3 DEF Answer, CallType
  <2> HIDE DEF page
  <2>7. /\ call' \in CallType /\ call'.product = call.product /\ call'.kind = "cves"
        /\ call'.due = call.due /\ call'.page = call.page + 1
        /\ call'.got = got /\ call'.total = page.total
    <3>1. got \in Nat /\ call.page + 1 \in Nat /\ call.read \cup page.listed \in SUBSET Nat
      BY <2>2, <2>6 DEF CallType
    <3>2. (call.shrunk \/ page.total < call.total) \in BOOLEAN
      BY <2>2 DEF CallType
    <3>3. call' = [call EXCEPT !.got = call.got + page.got, !.page = call.page + 1,
                               !.read = call.read \cup page.listed, !.total = page.total,
                               !.shrunk = call.shrunk \/ page.total < call.total]
      BY <2>1 DEF _collect
    <3> QED
      BY <2>2, <2>6, <3>1, <3>2, <3>3 DEF CallType
  <2>8. CASE pc' = "page"
    <3>1. page.valid /\ (call.page + 1) * PerPage < page.total
      BY <2>4, <2>8
    <3>2. (call.page + 1) * PerPage < MaxRows[call.product] /\ MaxRows[call.product] \in Nat
      <4>1. PerPage \in Nat /\ MaxRows[call.product] \in Nat
        BY <2>2, ClientAssumption
      <4>2. (call.page + 1) * PerPage \in Nat
        BY <4>1, <2>6
      <4> QED
        BY <3>1, <4>1, <4>2, <2>5, <2>6
    <3>3. call.page + 1 <= (call.page + 1) * PerPage
      BY <2>6, ClientAssumption
    <3>4. call.page + 1 \in 1..MaxRows[call.product]
      BY <2>6, <3>2, <3>3, ClientAssumption
    <3>5. call.page + 1 \in Pages
      BY <2>2, <3>2, <3>4 DEF Pages
    <3>6. Promised'
      BY <1>1, <2>1, <2>2, <2>7, <3>5 DEF Promised, fresh, Page
    <3>7. ReadInv'
      <4>1. call'.page > 0 /\ call'.page # 0 /\ call'.page - 1 = call.page
        BY <2>6, <2>7
      <4>2. call'.got <= call'.page * PerPage /\ call'.page * PerPage < call'.total
            /\ call'.due \subseteq 1..call'.total
        BY <2>5, <2>7, <3>1
      <4>3. cache'[<<call'.product, call'.page - 1>>] = page
        BY <2>1, <2>7, <4>1 DEF Page, page
      <4>4. page # None /\ page.valid /\ page.total = call'.total
        BY <2>2, <2>7, <3>1 DEF Page, page, fresh
      <4>5. ~call'.shrunk /\ call'.got = call'.page * PerPage =>
              /\ page.got = PageSize(call'.page - 1, page.total)
              /\ call'.due \cap (page.ahead \cup page.listed) \subseteq call'.read
        BY <2>5, <2>7, <3>1, <4>1 DEF Whole, UpTo, Page, page
      <4> QED
        BY <2>2, <4>1, <4>2, <4>3, <4>4, <4>5 DEF ReadInv, Cached, Whole, UpTo, Page
    <3>8. CallInv'
      BY <1>1, <2>2, <2>7, <2>8, <3>6, <3>7 DEF CallInv
    <3> QED
      BY <1>2, <1>3, <2>1, <3>8 DEF DataInv
  <2>9. CASE pc' = "failed"
    <3>1. CallInv'
      BY <1>1, <2>2, <2>7, <2>9 DEF CallInv, Querying
    <3> QED
      BY <1>2, <1>3, <2>1, <3>1 DEF DataInv
  <2>10. CASE pc' = "evaluate"
    <3>1. page.valid /\ got = page.total /\ page.total <= (call.page + 1) * PerPage
      <4>1. page.valid /\ got = page.total /\ ~((call.page + 1) * PerPage < page.total)
        BY <2>4, <2>10, Zenon
      <4>2. (call.page + 1) * PerPage \in Nat
        BY <2>6, ClientAssumption
      <4> QED
        BY <2>6, <4>1, <4>2
    <3>2. call'.shrunk \/ call'.due \subseteq call'.read
      BY <2>5, <2>7, <3>1
    <3>3. CallInv'
      BY <1>1, <2>2, <2>7, <2>10, <3>2 DEF CallInv, Querying
    <3> QED
      BY <1>2, <1>3, <2>1, <3>3 DEF DataInv
  <2> QED
    BY <2>4, <2>8, <2>9, <2>10, Zenon
<1> QED
  BY <1>5, <1>6, <1>7, <1>8, <1>9, <1>10 DEF ClientStep

\* The products to visit are products, and so is the first of them.
LEMMA HeadOfTodo ==
  ASSUME TodoInv, todo # <<>>
  PROVE  Head(todo) \in Products /\ Tail(todo) \in Seq(Products)
  BY DEF TodoInv

\* A product is done with: the next one begins without a query.
LEMMA ProductEnds ==
  ASSUME DataInv, todo # <<>>, NextProduct, EvalInv', UNCHANGED <<rows, order, cache, inventory>>
  PROVE  DataInv'
<1>1. RowsInv' /\ CacheInv'
  BY SamePages DEF DataInv
<1>2. TodoInv'
  BY HeadOfTodo DEF DataInv, TodoInv, NextProduct
<1>3. CallInv'
  BY DEF NextProduct, CallInv, CallType, NoCall, Querying
<1> QED
  BY <1>1, <1>2, <1>3 DEF DataInv

LEMMA MarkedFailure ==
  ASSUME EvalInv, NEW p \in Products, NEW terminal \in {"NOT_ELIGIBLE", "PARTIAL", "NOT_EVALUATED", "FAILED"},
         _mark_terminal_failure(p, terminal)
  PROVE  EvalInv'
  BY DEF EvalInv, _mark_terminal_failure, NotRun

\* A query of the scan begins, whatever is asked.
LEMMA QueryData ==
  ASSUME DataInv, todo # <<>>, NEW kind \in {"cves", "cpes"}, StartQuery(kind, Head(todo)),
         pc' = "page", UNCHANGED <<rows, order, cache, todo, inventory, evals>>
  PROVE  DataInv'
<1>1. RowsInv' /\ CacheInv' /\ TodoInv' /\ EvalInv'
  BY SamePages DEF DataInv, TodoInv, EvalInv
<1>2. Head(todo) \in Products
  BY HeadOfTodo DEF DataInv
<1>3. call' \in CallType /\ call'.product = Head(todo) /\ Promised' /\ ReadInv'
  BY <1>2, QueryBegins
<1>4. CallInv'
  BY <1>2, <1>3 DEF CallInv, Querying
<1> QED
  BY <1>1, <1>4 DEF DataInv

LEMMA SelectedData ==
  ASSUME DataInv, todo # <<>>, NEW found, Selected(found), UNCHANGED <<rows, order, cache, inventory>>
  PROVE  DataInv'
<1>1. CASE found \in {"exact", "family"}
  BY <1>1, QueryData DEF Selected
<1>2. CASE found \notin {"exact", "family"}
  <2>1. _mark_terminal_failure(Head(todo), "NOT_EVALUATED") /\ NextProduct
    BY <1>2 DEF Selected
  <2>2. EvalInv'
    BY <2>1, HeadOfTodo, MarkedFailure DEF DataInv
  <2> QED
    BY <2>1, <2>2, ProductEnds
<1> QED
  BY <1>1, <1>2

\* The evaluation of a product speaks for the rows that were read.
LEMMA AssessData ==
  ASSUME DataInv, _assess
  PROVE  DataInv'
<1>1. call.product \in Products /\ todo # <<>> /\ (call.shrunk \/ call.due \subseteq call.read)
  BY DEF _assess, DataInv, CallInv
<1>2. PICK statuses \in SUBSET Statuses, malformed \in BOOLEAN :
        evals' = [evals EXCEPT ![call.product] =
                    _complete_evaluation(call.product, statuses, malformed)]
  BY DEF _assess
<1>3. LET eval == _complete_evaluation(call.product, statuses, malformed) IN eval.current \/ eval.shrunk
  BY <1>1 DEF _complete_evaluation
<1>4. EvalInv'
  BY <1>1, <1>2, <1>3 DEF DataInv, EvalInv
<1>5. NextProduct /\ UNCHANGED <<rows, order, cache, inventory>>
  BY DEF _assess, providerVars
<1> QED
  BY <1>1, <1>4, <1>5, ProductEnds

\* A step that touches nothing of the scan and leads nowhere near a query.
LEMMA OtherData ==
  ASSUME DataInv, UNCHANGED <<rows, order, cache, call, todo, inventory, evals>>,
         pc' = pc \/ pc' \notin Querying \cup {"evaluate", "failed"}
  PROVE  DataInv'
<1>1. RowsInv' /\ CacheInv' /\ TodoInv' /\ EvalInv'
  BY SamePages DEF DataInv, TodoInv, EvalInv
<1>2. (Promised => Promised') /\ (ReadInv => ReadInv')
  BY SameQuery
<1>3. CallInv'
  BY <1>2 DEF DataInv, CallInv, fresh, Querying
<1> QED
  BY <1>1, <1>3 DEF DataInv

\* A new scan keeps the answers that have not expired.
LEMMA BeginData ==
  ASSUME DataInv, _run_cve_scan
  PROVE  DataInv'
<1>1. UNCHANGED <<rows, order>>
  BY DEF _run_cve_scan, providerVars
<1>2. RowsInv'
  BY <1>1 DEF DataInv, RowsInv
<1>3. CacheInv'
  <2>1. cache' = [key \in Products \X Pages |-> IF fresh(key) THEN cache[key] ELSE None]
    BY DEF _run_cve_scan, DataInv, CacheInv
  <2>2. \A p \in Products, n \in Pages : cache'[<<p, n>>] \in {None, Page(p, n)}
    BY <2>1 DEF Page
  <2>3. cache' \in [Products \X Pages -> Answer \cup {None}]
    BY <2>1 DEF DataInv, CacheInv
  <2>4. ASSUME NEW p \in Products, NEW n \in Pages, Cached(p, n)'
        PROVE  Cached(p, n) /\ Page(p, n)' = Page(p, n)
    BY <2>2, <2>4 DEF Cached, Page
  <2>5. ASSUME NEW p \in Products, NEW n \in Pages, Cached(p, n)'
        PROVE  PageInv(p, n)'
    <3>1. PageInv(p, n) /\ Page(p, n)' = Page(p, n)
      BY <2>4, <2>5 DEF DataInv, CacheInv
    <3> QED
      BY <1>1, <3>1 DEF PageInv, Covers, Row, Whole, UpTo, Places
  <2>6. ASSUME NEW p \in Products, NEW n \in Pages, n + 1 \in Pages
        PROVE  Continues(p, n)'
    <3>1. Continues(p, n)
      BY <2>6 DEF DataInv, CacheInv
    <3>2. Cached(p, n)' => Cached(p, n) /\ Page(p, n)' = Page(p, n)
      BY <2>4
    <3>3. Cached(p, n + 1)' => Cached(p, n + 1) /\ Page(p, n + 1)' = Page(p, n + 1)
      BY <2>4, <2>6
    <3> QED
      BY <3>1, <3>2, <3>3 DEF Continues, Whole, UpTo
  <2> QED
    BY <2>3, <2>5, <2>6 DEF CacheInv
<1>4. TodoInv' /\ EvalInv'
  BY ScanAssumption DEF _run_cve_scan, TodoInv, EvalInv, NotRun
<1>5. CallInv'
  BY DEF _run_cve_scan, CallInv, CallType, NoCall, Querying
<1> QED
  BY <1>2, <1>3, <1>4, <1>5 DEF DataInv

\* The clock: rows and pages age together, and what a product gains is new.
LEMMA OlderType ==
  ASSUME NEW age \in Nat, NEW cap \in Nat
  PROVE  /\ Older(age, cap) \in Nat
         /\ Older(age, cap) < cap => age < cap /\ Older(age, cap) = age + 1
         /\ Older(age, cap) <= age + 1
  BY DEF Older

LEMMA RowsTick ==
  ASSUME DataInv, Tick, NEW p \in Products
  PROVE  /\ rows'[p] \in Seq(Nat)
         /\ Len(rows'[p]) \in {Len(rows[p]), Len(rows[p]) + 1} /\ Len(rows'[p]) <= MaxRows[p]
         /\ \A i \in 1..Len(rows'[p]) : rows'[p][i] > 0 =>
              i \in 1..Len(rows[p]) /\ rows'[p][i] <= rows[p][i] + 1
<1> DEFINE old == [i \in DOMAIN rows[p] |-> Older(rows[p][i], Ttl)]
<1>1. rows[p] \in Seq(Nat) /\ Len(rows[p]) \in Nat /\ DOMAIN rows[p] = 1..Len(rows[p])
      /\ Len(rows[p]) <= MaxRows[p] /\ MaxRows[p] \in Nat
  BY ClientAssumption DEF DataInv, RowsInv
<1>2. PICK more \in SUBSET {q \in Products : half = "scan" /\ Len(rows[q]) < MaxRows[q]} :
        rows' = [q \in Products |-> [i \in DOMAIN rows[q] |-> Older(rows[q][i], Ttl)]
                                    \o (IF q \in more THEN <<0>> ELSE <<>>)]
  BY DEF Tick
<1>3. rows'[p] = old \o (IF p \in more THEN <<0>> ELSE <<>>)
  BY <1>2
<1>4. \A i \in 1..Len(rows[p]) : old[i] \in Nat /\ old[i] <= rows[p][i] + 1
  <2> SUFFICES ASSUME NEW i \in 1..Len(rows[p])
               PROVE  old[i] \in Nat /\ old[i] <= rows[p][i] + 1
    OBVIOUS
  <2>1. old[i] = Older(rows[p][i], Ttl) /\ rows[p][i] \in Nat /\ Ttl \in Nat
    <3>1. i \in DOMAIN rows[p] /\ rows[p][i] \in Nat
      BY <1>1
    <3>2. old[i] = Older(rows[p][i], Ttl)
      BY <3>1, Zenon
    <3>3. Ttl \in Nat
      BY ClientAssumption
    <3> QED BY <3>1, <3>2, <3>3, Zenon
  <2> HIDE DEF old
  <2>2. \A age \in Nat : Older(age, Ttl) \in Nat /\ Older(age, Ttl) <= age + 1
    BY <2>1, OlderType
  <2> QED
    BY <2>1, <2>2
<1>5. old \in Seq(Nat) /\ Len(old) = Len(rows[p])
  <2>1. old \in [1..Len(rows[p]) -> Nat]
    BY <1>1, <1>4
  <2> HIDE DEF old
  <2> QED
    BY <1>1, <2>1
<1> HIDE DEF old
<1>6. CASE p \in more
  <2>1. rows'[p] = Append(old, 0)
    BY <1>3, <1>5, <1>6
  <2>2. Len(rows[p]) < MaxRows[p]
    BY <1>2, <1>6
  <2>3. rows'[p] \in Seq(Nat) /\ Len(rows'[p]) = Len(rows[p]) + 1
    BY <1>5, <2>1
  <2>4. \A i \in 1..Len(rows'[p]) : rows'[p][i] = IF i <= Len(rows[p]) THEN old[i] ELSE 0
    BY <1>1, <1>5, <2>1, <2>3
  <2> QED
    BY <1>1, <1>4, <2>2, <2>3, <2>4
<1>7. CASE p \notin more
  <2>1. rows'[p] = old
    BY <1>3, <1>5, <1>7
  <2> QED
    BY <1>1, <1>4, <1>5, <2>1
<1> QED
  BY <1>6, <1>7

\* Two lists, one after the other.
LEMMA Joined ==
  ASSUME NEW s \in Seq(Nat), NEW t \in Seq(Nat)
  PROVE  /\ s \o t \in Seq(Nat) /\ Len(s \o t) = Len(s) + Len(t)
         /\ \A i \in 1..Len(s) : (s \o t)[i] = s[i]
         /\ \A i \in 1..Len(t) : (s \o t)[Len(s) + i] = t[i]
OBVIOUS

\* A list with one more element.
Widened(longer, s, place, new) ==
  /\ longer \in Seq(Nat) /\ Len(longer) = Len(s) + 1
  /\ \A i \in 1..(Len(s) + 1) :
       longer[i] = IF i < place THEN s[i] ELSE IF i = place THEN new ELSE s[i - 1]

LEMMA Inserted ==
  ASSUME NEW s \in Seq(Nat), NEW place \in 1..(Len(s) + 1), NEW new \in Nat
  PROVE  Widened(InsertAt(s, place, new), s, place, new)
<1> DEFINE head == SubSeq(s, 1, place - 1)
           tail == SubSeq(s, place, Len(s))
<1>1. Len(s) \in Nat /\ place \in Nat /\ 1 <= place /\ place <= Len(s) + 1
  OBVIOUS
<1>2. /\ head \in Seq(Nat) /\ Len(head) = place - 1
      /\ \A i \in 1..(place - 1) : head[i] = s[i]
  BY <1>1
<1>3. /\ tail \in Seq(Nat) /\ Len(tail) = Len(s) - place + 1
      /\ \A i \in 1..(Len(s) - place + 1) : tail[i] = s[place + i - 1]
  BY <1>1, Sliced
<1>4. InsertAt(s, place, new) = head \o <<new>> \o tail
  BY DEF InsertAt
<1> HIDE DEF head, tail
<1>5. /\ head \o <<new>> \in Seq(Nat) /\ Len(head \o <<new>>) = place
      /\ \A i \in 1..place : (head \o <<new>>)[i] = IF i < place THEN head[i] ELSE new
  BY <1>1, <1>2
<1> DEFINE front == head \o <<new>>
<1> HIDE DEF front
<1>6. /\ front \in Seq(Nat) /\ Len(front) = place
      /\ \A i \in 1..place : front[i] = IF i < place THEN head[i] ELSE new
  BY <1>5 DEF front
<1>7. /\ front \o tail \in Seq(Nat) /\ Len(front \o tail) = place + Len(tail)
      /\ \A i \in 1..place : (front \o tail)[i] = front[i]
      /\ \A i \in 1..Len(tail) : (front \o tail)[place + i] = tail[i]
  BY <1>3, <1>6, Joined
<1> DEFINE whole == front \o tail
<1> HIDE DEF whole
<1>8. ASSUME NEW i \in 1..(Len(s) + 1)
      PROVE  whole[i] = IF i < place THEN s[i] ELSE IF i = place THEN new ELSE s[i - 1]
  <2>1. CASE i < place
    <3>1. i \in 1..place /\ i \in 1..(place - 1)
      BY <1>1, <2>1
    <3>2. whole[i] = front[i] /\ front[i] = head[i] /\ head[i] = s[i]
      BY <1>2, <1>6, <1>7, <2>1, <3>1 DEF whole
    <3> QED
      BY <2>1, <3>2
  <2>2. CASE i = place
    <3>1. place \in 1..place /\ ~(place < place)
      BY <1>1
    <3>2. whole[place] = front[place] /\ front[place] = new
      BY <1>6, <1>7, <3>1 DEF whole
    <3> QED
      BY <2>2, <3>1, <3>2
  <2>3. CASE i > place
    <3>1. /\ i - place \in 1..(Len(s) - place + 1) /\ i - place \in 1..Len(tail)
          /\ place + (i - place) = i /\ place + (i - place) - 1 = i - 1
      BY <1>1, <1>3, <2>3
    <3>2. whole[place + (i - place)] = tail[i - place]
      BY <1>7, <3>1 DEF whole
    <3>3. tail[i - place] = s[place + (i - place) - 1]
      BY <1>3, <3>1
    <3>4. ~(i < place) /\ i # place
      BY <1>1, <2>3
    <3> QED
      BY <3>1, <3>2, <3>3, <3>4
  <2> QED
    BY <1>1, <2>1, <2>2, <2>3
<1>9. whole \in Seq(Nat) /\ Len(whole) = Len(s) + 1
  BY <1>1, <1>3, <1>7 DEF whole
<1>10. InsertAt(s, place, new) = whole
  BY <1>4 DEF front, whole
<1> QED
  BY <1>8, <1>9, <1>10 DEF Widened

\* A function on the first n numbers is a sequence of that length.
LEMMA AgesAreSequence ==
  ASSUME NEW n \in Nat, NEW ages \in [1..n -> Nat]
  PROVE  ages \in Seq(Nat) /\ Len(ages) = n
OBVIOUS

\* What stood before a place has moved nowhere but back, and only a new row came before it.
LEMMA OrderTick ==
  ASSUME DataInv, Tick, NEW p \in Products
  PROVE  /\ order'[p] \in Seq(Nat) /\ Len(order'[p]) = Len(rows'[p])
         /\ \A i \in 1..Len(order'[p]) : order'[p][i] \in 1..Len(rows'[p])
         /\ \A row \in 1..Len(rows'[p]) : \E i \in 1..Len(order'[p]) : order'[p][i] = row
         /\ Len(rows'[p]) = Len(rows[p]) => order'[p] = order[p]
         /\ \A end \in Nat : \A row \in Places(p, 0, end)' :
              row \in Places(p, 0, end) \/ row = Len(rows[p]) + 1
<1> DEFINE old == order[p]
           n == Len(rows[p])
<1>1. /\ old \in Seq(Nat) /\ Len(old) = n /\ n \in Nat
      /\ \A i \in 1..n : old[i] \in 1..n
      /\ \A row \in 1..n : \E i \in 1..n : old[i] = row
  <2>1. old \in Seq(Nat) /\ Len(old) = n /\ rows[p] \in Seq(Nat)
    BY DEF DataInv, RowsInv
  <2>2. /\ \A i \in 1..Len(old) : old[i] \in 1..n
        /\ \A row \in 1..n : \E i \in 1..Len(old) : old[i] = row
    BY DEF DataInv, RowsInv
  <2> HIDE DEF old
  <2> QED
    BY <2>1, <2>2
<1>2. PICK more \in SUBSET {q \in Products : half = "scan" /\ Len(rows[q]) < MaxRows[q]} :
        /\ rows' = [q \in Products |-> [i \in DOMAIN rows[q] |-> Older(rows[q][i], Ttl)]
                                       \o (IF q \in more THEN <<0>> ELSE <<>>)]
        /\ \E place \in [more -> UNION {1..MaxRows[q] : q \in more}] :
             /\ \A q \in more : place[q] <= Len(order[q]) + 1
             /\ order' = [q \in Products |-> IF q \in more
                                             THEN InsertAt(order[q], place[q], Len(order[q]) + 1)
                                             ELSE order[q]]
  BY DEF Tick
<1>3. PICK place \in [more -> UNION {1..MaxRows[q] : q \in more}] :
        /\ \A q \in more : place[q] <= Len(order[q]) + 1
        /\ order' = [q \in Products |-> IF q \in more
                                        THEN InsertAt(order[q], place[q], Len(order[q]) + 1)
                                        ELSE order[q]]
  BY <1>2
<1>4. Len(rows'[p]) = n + (IF p \in more THEN 1 ELSE 0)
  <2> DEFINE aged == [i \in DOMAIN rows[p] |-> Older(rows[p][i], Ttl)]
  <2>1. rows'[p] = aged \o (IF p \in more THEN <<0>> ELSE <<>>)
    BY <1>2
  <2>2. rows[p] \in Seq(Nat) /\ DOMAIN rows[p] = 1..n
    BY DEF DataInv, RowsInv
  <2>3. \A i \in 1..n : Older(rows[p][i], Ttl) \in Nat
    <3>1. \A i \in 1..n : rows[p][i] \in Nat
      BY <2>2
    <3>2. Ttl \in Nat
      BY ClientAssumption
    <3>3. \A age \in Nat : Older(age, Ttl) \in Nat
      BY <3>2 DEF Older
    <3> QED
      BY <3>1, <3>3
  <2>4. aged \in Seq(Nat) /\ Len(aged) = n
    <3>1. aged \in [1..n -> Nat] /\ n \in Nat
      BY <1>1, <2>2, <2>3
    <3> HIDE DEF aged, n
    <3> QED
      BY <3>1, AgesAreSequence
  <2> HIDE DEF aged, n
  <2>5. CASE p \in more
    <3>1. rows'[p] = aged \o <<0>>
      BY <2>1, <2>5
    <3>2. Len(aged \o <<0>>) = n + 1
      BY <2>4, <1>1
    <3> QED
      BY <2>5, <3>1, <3>2
  <2>6. CASE p \notin more
    <3>1. rows'[p] = aged \o <<>>
      BY <2>1, <2>6
    <3>2. Len(aged \o <<>>) = n
      BY <2>4, <1>1
    <3> QED
      BY <1>1, <2>6, <3>1, <3>2
  <2> QED
    BY <2>5, <2>6
<1>5. order'[p] = IF p \in more THEN InsertAt(old, place[p], n + 1) ELSE old
  BY <1>1, <1>3
<1> HIDE DEF old, n
<1>6. \A i \in DOMAIN old : i \in 1..n
  BY <1>1
<1>7. CASE p \notin more
  <2>1. order'[p] = old /\ Len(rows'[p]) = n
    BY <1>1, <1>4, <1>5, <1>7
  <2>2. \A end \in Nat : Places(p, 0, end)' = Places(p, 0, end)
    BY <2>1 DEF Places, old
  <2>3. /\ \A i \in 1..Len(order'[p]) : order'[p][i] \in 1..Len(rows'[p])
        /\ \A row \in 1..Len(rows'[p]) : \E i \in 1..Len(order'[p]) : order'[p][i] = row
    BY <1>1, <2>1
  <2> QED
    BY <1>1, <2>1, <2>2, <2>3 DEF old
<1>8. CASE p \in more
  <2> DEFINE new == order'[p]
             at == place[p]
  <2>1. at \in 1..(n + 1)
    <3>1. at \in UNION {1..MaxRows[q] : q \in more} /\ at <= n + 1
      BY <1>1, <1>3, <1>8 DEF old
    <3>2. PICK q \in more : at \in 1..MaxRows[q]
      BY <3>1
    <3>3. MaxRows[q] \in Nat
      BY <1>2, ClientAssumption
    <3> QED
      BY <1>1, <3>1, <3>2, <3>3
  <2>2. /\ new \in Seq(Nat) /\ Len(new) = n + 1
        /\ \A i \in 1..(n + 1) : new[i] = IF i < at THEN old[i] ELSE IF i = at THEN n + 1 ELSE old[i - 1]
    <3>1. new = InsertAt(old, at, n + 1)
      BY <1>5, <1>8
    <3> HIDE DEF new, at
    <3>2. Len(old) = n
      BY <1>1
    <3>3. old \in Seq(Nat)
      BY <1>1
    <3>4. n + 1 \in Nat
      BY <1>1
    <3>5. at \in 1..(Len(old) + 1)
      BY <2>1, <3>2
    <3>6. Widened(InsertAt(old, at, n + 1), old, at, n + 1)
      BY <3>3, <3>4, <3>5, Inserted
    <3> QED
      BY <3>1, <3>2, <3>6 DEF Widened
  <2>3. Len(rows'[p]) = n + 1
    BY <1>4, <1>8
  <2> HIDE DEF new, at
  <2>4. ASSUME NEW i \in 1..(n + 1)
        PROVE  new[i] = n + 1 \/ \E j \in 1..n : j <= i /\ new[i] = old[j]
    <3>1. CASE i < at
      <4>1. i \in 1..n /\ i <= i
        BY <1>1, <2>1, <3>1
      <4>2. new[i] = old[i]
        BY <2>2, <3>1
      <4> QED
        BY <4>1, <4>2
    <3>2. CASE i = at
      BY <1>1, <2>1, <2>2, <3>2
    <3>3. CASE i > at
      <4>1. i - 1 \in 1..n /\ i - 1 <= i /\ new[i] = old[i - 1]
        BY <1>1, <2>1, <2>2, <3>3
      <4> QED
        BY <4>1
    <3> QED
      BY <1>1, <2>1, <3>1, <3>2, <3>3
  <2>5. ASSUME NEW i \in 1..(n + 1) PROVE new[i] \in 1..(n + 1)
    <3>1. \A j \in 1..n : old[j] \in 1..(n + 1)
      BY <1>1
    <3>2. n + 1 \in 1..(n + 1)
      BY <1>1
    <3> QED
      BY <2>4, <2>5, <3>1, <3>2
  <2>6. ASSUME NEW row \in 1..(n + 1) PROVE \E i \in 1..(n + 1) : new[i] = row
    <3>1. CASE row = n + 1
      <4>1. at \in 1..(n + 1) /\ ~(at < at)
        BY <1>1, <2>1
      <4>2. new[at] = n + 1
        BY <2>2, <4>1
      <4> QED
        BY <3>1, <4>1, <4>2
    <3>2. CASE row \in 1..n
      <4>1. PICK j \in 1..n : old[j] = row
        BY <1>1, <3>2
      <4>2. CASE j < at
        <5>1. j \in 1..(n + 1)
          BY <1>1
        <5>2. new[j] = old[j]
          BY <2>2, <4>2, <5>1
        <5> QED
          BY <4>1, <5>1, <5>2
      <4>3. CASE j >= at
        <5>1. j + 1 \in 1..(n + 1) /\ new[j + 1] = old[j]
          <6>1. j + 1 \in 1..(n + 1) /\ ~(j + 1 < at) /\ j + 1 # at /\ (j + 1) - 1 = j
            <7>1. \A a, b, c \in Nat : a >= 1 /\ a <= c /\ a >= b =>
                    a + 1 \in 1..(c + 1) /\ ~(a + 1 < b) /\ a + 1 # b /\ (a + 1) - 1 = a
              OBVIOUS
            <7>2. j \in Nat /\ j >= 1 /\ j <= n /\ n \in Nat /\ at \in Nat
              BY <1>1, <2>1
            <7> QED
              BY <4>3, <7>1, <7>2
          <6>2. new[j + 1] = IF j + 1 < at THEN old[j + 1]
                             ELSE IF j + 1 = at THEN n + 1 ELSE old[(j + 1) - 1]
            BY <2>2, <6>1
          <6> QED
            BY <6>1, <6>2
        <5> QED
          BY <4>1, <5>1
      <4> QED
        BY <1>1, <2>1, <4>2, <4>3
    <3> QED
      BY <1>1, <3>1, <3>2
  <2>7. ASSUME NEW end \in Nat, NEW row \in Places(p, 0, end)'
        PROVE  row \in Places(p, 0, end) \/ row = n + 1
    <3>1. PICK i \in DOMAIN new : 0 < i /\ i <= end /\ row = new[i]
      BY <2>7 DEF Places, new
    <3>2. i \in 1..(n + 1)
      BY <2>2, <3>1
    <3>3. CASE \E j \in 1..n : j <= i /\ new[i] = old[j]
      <4>1. PICK j \in 1..n : j <= i /\ new[i] = old[j]
        BY <3>3
      <4>2. j \in DOMAIN old /\ 0 < j /\ j <= end
        BY <1>1, <3>1, <3>2, <4>1
      <4> QED
        BY <3>1, <4>1, <4>2 DEF Places, old
    <3> QED
      BY <2>4, <3>1, <3>2, <3>3
  <2>8. /\ \A i \in 1..Len(new) : new[i] \in 1..Len(rows'[p])
        /\ \A row \in 1..Len(rows'[p]) : \E i \in 1..Len(new) : new[i] = row
    BY <2>2, <2>3, <2>5, <2>6
  <2>9. Len(rows'[p]) # n
    BY <1>1, <2>3
  <2> QED
    BY <2>2, <2>3, <2>7, <2>8, <2>9 DEF new, n
<1> QED
  BY <1>7, <1>8


\* The pages of the cache grow older and say what they said.
LEMMA PagesTick ==
  ASSUME DataInv, Tick, NEW p \in Products, NEW n \in Pages
  PROVE  /\ Page(p, n)' \in Answer \cup {None}
         /\ Cached(p, n)' <=> Cached(p, n)
         /\ Page(p, n)' # None /\ Page(p, n)'.valid => Cached(p, n)
         /\ Cached(p, n) =>
              /\ Page(p, n) \in Answer
              /\ Page(p, n)'.total = Page(p, n).total
              /\ Page(p, n)'.ahead = Page(p, n).ahead
              /\ (Whole(p, n)' <=> Whole(p, n)) /\ UpTo(p, n)' = UpTo(p, n)
              /\ Page(p, n)'.got = Page(p, n).got
              /\ Page(p, n)'.age < Ttl => Page(p, n).age < Ttl /\ Page(p, n)'.age = Page(p, n).age + 1
<1> DEFINE page == Page(p, n)
           aged == cache'[<<p, n>>]
<1>1. aged = IF page = None THEN None ELSE [page EXCEPT !.age = Older(@, Ttl)]
  <2>1. cache' = [key \in Products \X Pages |-> IF cache[key] = None THEN None
                                                ELSE [cache[key] EXCEPT !.age = Older(@, Ttl)]]
    BY DEF Tick, AgeAll, DataInv, CacheInv
  <2> QED
    BY <2>1 DEF Page
<1>2. page \in Answer \cup {None} /\ None \notin Answer
  BY AnswerAssumption DEF DataInv, CacheInv, Page
<1>3. Page(p, n)' = aged
  BY DEF Page
<1> HIDE DEF aged, page
<1>4. CASE page = None
  BY <1>1, <1>2, <1>3, <1>4 DEF Cached, page
<1>5. CASE page # None
  <2>1. page \in Answer /\ page.age \in Nat /\ Ttl \in Nat
    BY <1>2, <1>5, ClientAssumption DEF Answer
  <2>2. Older(page.age, Ttl) \in Nat
    BY <2>1, OlderType
  <2>3. aged = [page EXCEPT !.age = Older(page.age, Ttl)]
    BY <1>1, <1>5
  <2>4. /\ aged \in Answer /\ aged.age = Older(page.age, Ttl)
        /\ aged.total = page.total /\ aged.ahead = page.ahead /\ aged.listed = page.listed
        /\ aged.got = page.got /\ aged.valid = page.valid
    BY <2>1, <2>2, <2>3 DEF Answer
  <2>5. aged # None
    BY <1>2, <2>4
  <2>6. aged.age < Ttl => page.age < Ttl /\ aged.age = page.age + 1
    <3>1. Older(page.age, Ttl) < Ttl => page.age < Ttl /\ Older(page.age, Ttl) = page.age + 1
      BY <2>1, OlderType
    <3> QED
      BY <2>4, <3>1
  <2>7. (Whole(p, n)' <=> Whole(p, n)) /\ UpTo(p, n)' = UpTo(p, n)
    BY <1>3, <2>4 DEF Whole, UpTo, page
  <2>8. Cached(p, n)' <=> Cached(p, n)
    BY <1>3, <1>5, <2>4, <2>5 DEF Cached, page
  <2>9. Cached(p, n) <=> page.valid
    BY <1>5 DEF Cached, page
  <2> QED
    BY <1>3, <2>1, <2>4, <2>6, <2>7, <2>8, <2>9 DEF page
<1> QED
  BY <1>4, <1>5

\* What a page knows, it knows of the longer list as well.
LEMMA PageTick ==
  ASSUME DataInv, Tick, NEW p \in Products, NEW n \in Pages, Cached(p, n)'
  PROVE  PageInv(p, n)'
<1>1. /\ Cached(p, n) /\ Page(p, n) \in Answer /\ Page(p, n)'.total = Page(p, n).total
      /\ Page(p, n)'.ahead = Page(p, n).ahead /\ Page(p, n)'.got = Page(p, n).got
      /\ (Whole(p, n)' <=> Whole(p, n)) /\ UpTo(p, n)' = UpTo(p, n)
      /\ Page(p, n)'.age < Ttl => Page(p, n).age < Ttl /\ Page(p, n)'.age = Page(p, n).age + 1
  BY PagesTick
<1>2. PageInv(p, n)
  BY <1>1 DEF DataInv, CacheInv
<1>3. /\ Page(p, n).age \in Nat /\ Page(p, n).total \in Nat
      /\ rows[p] \in Seq(Nat) /\ Len(rows[p]) \in Nat /\ rows'[p] \in Seq(Nat) /\ Len(rows'[p]) \in Nat
      /\ Len(rows'[p]) \in {Len(rows[p]), Len(rows[p]) + 1}
  BY <1>1, RowsTick DEF Answer, DataInv, RowsInv
<1>4. Page(p, n).total <= Len(rows[p])
  BY <1>2 DEF PageInv
<1>5. n \in Nat /\ n * PerPage \in Nat /\ (n + 1) * PerPage \in Nat
  <2>1. n \in Nat
    BY DEF Pages
  <2> QED
    BY <2>1, PageStart
<1>6. Page(p, n).total <= Len(rows'[p])
  BY <1>3, <1>4
<1>7. ASSUME Page(p, n)'.age < Ttl PROVE Covers(p, n)'
  <2>1. Page(p, n).age < Ttl /\ Page(p, n)'.age = Page(p, n).age + 1 /\ Covers(p, n)
    BY <1>1, <1>2, <1>7 DEF PageInv
  <2>2. ASSUME NEW i \in 1..Len(rows'[p]), rows'[p][i] > Page(p, n).age + 1
        PROVE  i <= Page(p, n).total
    <3>1. rows'[p][i] \in Nat
      BY <1>3
    <3>2. i \in 1..Len(rows[p]) /\ rows'[p][i] <= rows[p][i] + 1
      <4>1. rows'[p][i] > 0
        BY <1>3, <2>2, <3>1
      <4>2. \A j \in 1..Len(rows'[p]) : rows'[p][j] > 0 =>
              j \in 1..Len(rows[p]) /\ rows'[p][j] <= rows[p][j] + 1
        BY RowsTick
      <4> QED
        BY <2>2, <4>1, <4>2, Zenon
    <3>3. rows[p][i] \in Nat
      <4>1. rows[p] \in Seq(Nat)
        BY <1>3
      <4> QED
        BY <3>2, <4>1
    <3>4. \A was, is, age \in Nat : is > age + 1 /\ is <= was + 1 => was > age
      OBVIOUS
    <3>5. Row(p, i) > Page(p, n).age
      BY <1>3, <2>2, <3>1, <3>2, <3>3, <3>4, Zenon DEF Row
    <3> QED
      BY <2>1, <3>2, <3>5 DEF Covers
  <2> QED
    BY <1>1, <2>1, <2>2 DEF Covers, Row
<1>8. /\ Len(rows'[p]) = Len(rows[p]) => order'[p] = order[p]
      /\ \A end \in Nat : \A row \in Places(p, 0, end)' :
           row \in Places(p, 0, end) \/ row = Len(rows[p]) + 1
  BY OrderTick
<1>9. Page(p, n).total = Len(rows'[p]) => Page(p, n).ahead = Places(p, 0, n * PerPage)'
  <2> SUFFICES ASSUME Page(p, n).total = Len(rows'[p])
               PROVE  Page(p, n).ahead = Places(p, 0, n * PerPage)'
    OBVIOUS
  <2>1. Len(rows'[p]) = Len(rows[p]) /\ Page(p, n).total = Len(rows[p])
    BY <1>3, <1>4
  <2>2. Places(p, 0, n * PerPage)' = Places(p, 0, n * PerPage)
    BY <1>8, <2>1 DEF Places
  <2> QED
    BY <1>2, <2>1, <2>2 DEF PageInv
<1>10. ASSUME Whole(p, n), NEW row \in Places(p, 0, (n + 1) * PerPage)', row <= Page(p, n).total
       PROVE  row \in UpTo(p, n)
  <2>1. row # Len(rows[p]) + 1
    BY <1>3, <1>4, <1>10
  <2>2. row \in Places(p, 0, (n + 1) * PerPage)
    BY <1>5, <1>8, <1>10, <2>1
  <2> QED
    BY <1>2, <1>10, <2>2 DEF PageInv
<1>11. Page(p, n).got <= PageSize(n, Page(p, n).total) /\ (n = 0 => Page(p, n).ahead = {})
  BY <1>2 DEF PageInv
<1>12. Whole(p, n) /\ Page(p, n).total <= (n + 1) * PerPage => 1..Page(p, n).total \subseteq UpTo(p, n)
  BY <1>2 DEF PageInv
<1> QED
  BY <1>1, <1>6, <1>7, <1>9, <1>10, <1>11, <1>12 DEF PageInv

LEMMA TickData ==
  ASSUME DataInv, Tick
  PROVE  DataInv'
<1>1. RowsInv'
  <2>1. /\ DOMAIN rows' = Products /\ rows' = [p \in Products |-> rows'[p]]
        /\ DOMAIN order' = Products /\ order' = [p \in Products |-> order'[p]]
    BY DEF Tick
  <2>2. \A p \in Products : rows'[p] \in Seq(Nat) /\ order'[p] \in Seq(Nat)
    BY RowsTick, OrderTick
  <2>3. rows' \in [Products -> Seq(Nat)] /\ order' \in [Products -> Seq(Nat)]
    BY <2>1, <2>2
  <2>4. ASSUME NEW p \in Products
        PROVE  /\ Len(rows'[p]) <= MaxRows[p] /\ Len(order'[p]) = Len(rows'[p])
               /\ \A i \in 1..Len(order'[p]) : order'[p][i] \in 1..Len(rows'[p])
               /\ \A row \in 1..Len(rows'[p]) : \E i \in 1..Len(order'[p]) : order'[p][i] = row
    BY RowsTick, OrderTick
  <2> QED
    BY <2>3, <2>4 DEF RowsInv
<1>2. CacheInv'
  <2>1. cache' \in [Products \X Pages -> Answer \cup {None}]
    <3>1. DOMAIN cache' = Products \X Pages /\ cache' = [key \in Products \X Pages |-> cache'[key]]
      BY DEF Tick, AgeAll, DataInv, CacheInv
    <3>2. \A p \in Products, n \in Pages : cache'[<<p, n>>] \in Answer \cup {None}
      BY PagesTick DEF Page
    <3>3. \A key \in Products \X Pages : cache'[key] \in Answer \cup {None}
      BY <3>2
    <3> QED
      BY <3>1, <3>3
  <2>2. ASSUME NEW p \in Products, NEW n \in Pages, n + 1 \in Pages
        PROVE  Continues(p, n)'
    <3> SUFFICES ASSUME Cached(p, n)', Cached(p, n + 1)', Whole(p, n)',
                        Page(p, n)'.total <= Page(p, n + 1)'.total,
                        NEW row \in Page(p, n + 1)'.ahead, row <= Page(p, n)'.total
                 PROVE  row \in UpTo(p, n)'
      BY DEF Continues
    <3>1. /\ Cached(p, n) /\ Whole(p, n) /\ Page(p, n)'.total = Page(p, n).total
          /\ UpTo(p, n)' = UpTo(p, n)
      BY PagesTick
    <3>2. /\ Cached(p, n + 1) /\ Page(p, n + 1)'.total = Page(p, n + 1).total
          /\ Page(p, n + 1)'.ahead = Page(p, n + 1).ahead
      BY <2>2, PagesTick
    <3>3. Continues(p, n)
      BY <2>2 DEF DataInv, CacheInv
    <3> QED
      BY <3>1, <3>2, <3>3 DEF Continues
  <2>3. \A p \in Products, n \in Pages : Cached(p, n)' => PageInv(p, n)'
    BY PageTick
  <2> QED
    BY <2>1, <2>2, <2>3 DEF CacheInv
<1>3. TodoInv' /\ EvalInv'
  BY DEF Tick, DataInv, TodoInv, EvalInv
<1>4. UNCHANGED <<pc, call, todo>> /\ pc \notin {"read", "evaluate"}
  BY DEF Tick, Ended
<1>5. ASSUME Promised, call.product \in Products
      PROVE  Promised'
  <2> DEFINE p == call.product
  <2>1. call.due \subseteq 1..Len(rows'[p])
    <3>1. /\ call.due \subseteq 1..Len(rows[p]) /\ Len(rows[p]) \in Nat
          /\ Len(rows'[p]) \in {Len(rows[p]), Len(rows[p]) + 1}
      BY <1>5, RowsTick DEF DataInv, RowsInv, Promised
    <3>2. 1..Len(rows[p]) \subseteq 1..Len(rows'[p])
      BY <3>1
    <3> QED
      BY <3>1, <3>2
  <2>2. ASSUME NEW n \in Pages, Page(p, n)' # None, Page(p, n)'.age < Ttl, Page(p, n)'.valid
        PROVE  call.due \subseteq 1..Page(p, n)'.total
    <3>1. ASSUME NEW q \in Products, Page(q, n)' # None, Page(q, n)'.age < Ttl, Page(q, n)'.valid
          PROVE  Cached(q, n) /\ Page(q, n)'.total = Page(q, n).total /\ Page(q, n).age < Ttl
      BY <3>1, PagesTick
    <3>2. Cached(p, n) /\ Page(p, n)'.total = Page(p, n).total /\ Page(p, n).age < Ttl
      <4>1. p' = p
        BY <1>4
      <4> HIDE DEF p
      <4>2. p \in Products
        BY <1>5 DEF p
      <4> QED
        BY <2>2, <3>1, <4>1, <4>2 DEF Page
    <3> QED
      BY <1>5, <3>2 DEF Promised, fresh, Cached, Page
  <2> QED
    BY <1>4, <1>5, <2>1, <2>2 DEF Promised, fresh, Page
<1>6. ASSUME ReadInv, call.product \in Products
      PROVE  ReadInv'
  <2> DEFINE p == call.product
             n == call.page - 1
  <2>1. ASSUME n \in Pages, Cached(p, n)
        PROVE  /\ Cached(p, n)' /\ Page(p, n)'.total = Page(p, n).total
               /\ (Whole(p, n)' <=> Whole(p, n)) /\ UpTo(p, n)' = UpTo(p, n)
    <3> HIDE DEF p, n
    <3>1. p' = p /\ n' = n
      BY <1>4 DEF p, n
    <3>2. p \in Products
      BY <1>6 DEF p
    <3> QED
      BY <2>1, <3>1, <3>2, PagesTick DEF Cached, Page, Whole, UpTo
  <2>2. /\ call.got <= call.page * PerPage
        /\ call.page = 0 => call.total = 0
        /\ call.page > 0 =>
             /\ call.page * PerPage < call.total /\ call.due \subseteq 1..call.total
             /\ ~call.shrunk /\ call.got = call.page * PerPage =>
                  /\ n \in Pages /\ Cached(p, n)' /\ Page(p, n)'.total = call.total /\ Whole(p, n)'
                  /\ call.due \cap UpTo(p, n)' \subseteq call.read
    BY <1>6, <2>1 DEF ReadInv
  <2> QED
    BY <1>4, <2>2 DEF ReadInv
<1>7. CallInv'
  BY <1>4, <1>5, <1>6 DEF DataInv, CallInv, Querying
<1> QED
  BY <1>1, <1>2, <1>3, <1>7 DEF DataInv

LEMMA NextData ==
  ASSUME DataInv, PlaceInv, [Next]_vars
  PROVE  DataInv'
<1> USE DEF scanVars, enrichVars, clientVars, providerVars
<1>1. CASE UNCHANGED vars
  BY <1>1, OtherData DEF vars
<1>2. CASE ClientStep /\ UNCHANGED <<scanVars, enrichVars>>
  BY <1>2, ClientData
<1>3. CASE SkipProduct
  <2>1. /\ todo # <<>> /\ NextProduct /\ UNCHANGED <<rows, order, cache, inventory>>
        /\ \/ _mark_terminal_failure(Head(todo), "NOT_ELIGIBLE")
           \/ _mark_terminal_failure(Head(todo), "PARTIAL")
    BY <1>3 DEF SkipProduct
  <2>2. EvalInv'
    BY <2>1, HeadOfTodo, MarkedFailure DEF DataInv
  <2> QED
    BY <2>1, <2>2, ProductEnds
<1>4. CASE _resolve_local \/ _resolve_nvd
  BY <1>4, QueryData DEF _resolve_local, _resolve_nvd
<1>5. CASE _resolve_catalog
  BY <1>5, SelectedData DEF _resolve_catalog
<1>6. CASE set_cpe_catalog
  <2>1. todo # <<>>
    BY <1>6 DEF set_cpe_catalog, DataInv, CallInv, Querying
  <2> QED
    BY <1>6, <2>1, SelectedData DEF set_cpe_catalog
<1>7. CASE _assess
  BY <1>7, AssessData
<1>8. CASE ProductFailed
  <2>1. call.product \in Products /\ todo # <<>>
    BY <1>8 DEF ProductFailed, DataInv, CallInv
  <2>2. EvalInv'
    BY <1>8, <2>1, MarkedFailure DEF ProductFailed, DataInv
  <2> QED
    BY <1>8, <2>1, <2>2, ProductEnds DEF ProductFailed
<1>9. CASE _summary \/ CancelSeen
  BY <1>9, OtherData DEF _summary, CancelSeen, Querying
<1>10. CASE _load_enrichments \/ _load_catalog \/ KevRequest \/ KevFailed \/ KevLoaded
  BY <1>10, OtherData DEF _load_enrichments, _load_catalog, KevRequest, KevFailed, KevLoaded,
                          KevAnswered, Querying
<1>11. CASE _load_record \/ ProgramRequest \/ ProgramLoaded \/ ProgramMissing \/ get_stale
  BY <1>11, OtherData DEF _load_record, ProgramRequest, ProgramLoaded, ProgramMissing, get_stale,
                          ProgramAnswered, Querying
<1>12. CASE ProgramTransient \/ ProgramPermanent
  BY <1>12, OtherData DEF ProgramTransient, ProgramPermanent, Querying
<1>13. CASE Slept
  BY <1>13, OtherData DEF Slept, PlaceInv, Querying
<1>14. CASE _enrich_assessment \/ ScanDone \/ _run_cve_enrichment \/ SetCancel
  BY <1>14, OtherData DEF _enrich_assessment, ScanDone, _run_cve_enrichment, SetCancel, Querying
<1>15. CASE _run_cve_scan
  BY <1>15, BeginData
<1>16. CASE Tick
  BY <1>16, TickData
<1> QED
  BY <1>1, <1>2, <1>3, <1>4, <1>5, <1>6, <1>7, <1>8, <1>9, <1>10, <1>11, <1>12, <1>13, <1>14,
     <1>15, <1>16 DEF Next, Step

\* A scan reported COMPLETE has evaluated every row listed for the lifetime of a cache
\* entry, wherever rows were inserted since, or put a page from the cache behind one that
\* knew more rows: for any products, page size, retries and life times (_get_paginated,
\* NvdCache, _complete_evaluation, status._decision).
THEOREM CompleteIsCurrentAlways == Spec => []CompleteIsCurrent
<1>1. DataInv => CompleteIsCurrent
  <2> SUFFICES ASSUME DataInv, assessment_status("SUCCESS") = "COMPLETE", NEW p \in Eligible
               PROVE  evals[p].current \/ evals[p].shrunk
    BY DEF CompleteIsCurrent
  <2>1. coverage_complete
    BY DEF assessment_status
  <2>2. p \in Products
    BY DEF Eligible, ToSet, DataInv, TodoInv
  <2>3. evals[p].terminal = "COMPLETED"
    BY <2>1 DEF coverage_complete, evaluated_products
  <2> QED
    BY <2>2, <2>3 DEF DataInv, EvalInv
<1>2. QED
  BY <1>1, InitData, NextData, InitPlace, NextPlace, PTL DEF Spec

=============================================================================
