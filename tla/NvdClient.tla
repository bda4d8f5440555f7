----------------------------- MODULE NvdClient -----------------------------
(***************************************************************************)
(* The client of the NVD API (cve/client.py) with its sliding-window rate  *)
(* limiter (cve/rate_limiter.py) and its response cache (cve/cache.py).    *)
(* One thread calls it; the clock, the provider and whoever cancels the    *)
(* scan act at any moment.  Times are ages in ticks: a Tick makes          *)
(* everything one tick older.  The provider only ever adds CVE rows, at    *)
(* any place of its list, and keeps the others in their order.             *)
(***************************************************************************)
EXTENDS Naturals, SequencesExt

CONSTANTS
  Products,      \* the unique software products, in the order of the scan: 1..n
  Requests,      \* SlidingWindowRateLimiter.requests
  Window,        \* SlidingWindowRateLimiter.window_seconds
  MaxRetries,    \* NvdClient.max_retries
  Ttl,           \* NvdClient.cache_ttl_hours
  PerPage,       \* resultsPerPage
  MaxRows,       \* bound: product -> CVE rows the provider lists for it
  RetryAfter,    \* the delay a 429 answer asks for
  None

ASSUME ClientAssumption ==
  /\ {Requests, Window, Ttl, PerPage} \subseteq Nat \ {0}
  /\ {MaxRetries, RetryAfter} \subseteq Nat
  /\ Products \subseteq Nat
  /\ MaxRows \in [Products -> Nat]

VARIABLES
  pc,        \* where the scanning thread is
  rows,      \* the provider: product -> ages of its CVE rows, in the order of publication
  order,     \* the provider: product -> the numbers of these rows, in the order of its list
  cache,     \* nvd_cache: <<product, page>> -> the stored answer, or None
  stamps,    \* the limiter's _timestamps, as ages
  granted,   \* history: ages of the requests granted in this scan, whatever the limiter dropped
  call,      \* the query in progress
  wait,      \* ticks until the current wait is over
  cancel,    \* cancel_event
  late       \* history: requests sent since cancel_event was set

clientVars == <<cache, stamps, granted, call, wait>>

providerVars == <<rows, order>>

\* An answer as the cache keeps it: its rows, and totalResults.  History "ahead":
\* the rows the provider had before this page.
Answer == [age : Nat, listed : SUBSET Nat, ahead : SUBSET Nat, got : Nat, total : Nat,
           valid : BOOLEAN]

ASSUME AnswerAssumption == None \notin Answer

\* A query.  History: the rows due when it began, those it has read, the total of
\* the page it read last, and whether a page had a smaller total than the one before.
NoCall == [product |-> None, kind |-> None, page |-> 0, attempt |-> 0, got |-> 0,
           due |-> {}, read |-> {}, total |-> 0, shrunk |-> FALSE]
NoWait == [ticks |-> 0, after |-> None]
Pages == {0} \cup UNION {{n \in 1..MaxRows[p] : n * PerPage < MaxRows[p]} : p \in Products}

Older(age, cap) == IF age < cap THEN age + 1 ELSE cap

----------------------------------------------------------------------------
\* SlidingWindowRateLimiter

\* What is left when the head is removed as long as it has the given age.
Younger(times, age) ==
  SubSeq(times, Min({i \in 1..Len(times) : times[i] < age} \cup {Len(times) + 1}), Len(times))

\* Fault: a timestamp leaves the window one tick early.
_drop_expired_early(times) == Younger(times, Window - 1)

\* The timestamps still inside the window.
_drop_expired(times) == Younger(times, Window)

\* Fault: the scan's cancel_event never reaches the client.
never_cancelled == FALSE

\* What _check_cancelled tests, and acquire and _wait again.
client_cancelled == cancel

\* _wait: go on at "after" once the ticks are over.
_wait(ticks, after) == wait' = [ticks |-> ticks, after |-> after] /\ pc' = "wait"

\* acquire, with the test at the head of the attempt: a place in the window is
\* taken, or the thread waits until the oldest timestamp leaves it.
acquire ==
  /\ pc = "acquire" /\ ~client_cancelled
  /\ LET live == _drop_expired(stamps)
     IN  IF Len(live) < Requests
         THEN /\ stamps' = Append(live, 0)
              /\ granted' = Append(granted, 0)
              /\ pc' = "granted"
              /\ UNCHANGED wait
         ELSE /\ stamps' = live
              /\ _wait(Window - Head(live), "acquire")
              /\ UNCHANGED granted
  /\ UNCHANGED <<providerVars, cache, call, cancel, late>>

Waited ==
  /\ pc = "wait" /\ ~client_cancelled /\ wait.ticks = 0
  /\ pc' = wait.after /\ wait' = NoWait
  /\ UNCHANGED <<providerVars, cache, stamps, granted, call, cancel, late>>

\* CveScanCancelled leaves the client and the scan from every test of the event.
Cancelled ==
  /\ pc \in {"acquire", "granted", "wait"} /\ client_cancelled
  /\ pc' = "cancelled" /\ wait' = NoWait
  /\ UNCHANGED <<providerVars, cache, stamps, granted, call, cancel, late>>

----------------------------------------------------------------------------
\* NvdClient

StartQuery(kind, product) ==
  call' = [NoCall EXCEPT !.product = product, !.kind = kind,
                         !.due = {i \in DOMAIN rows[product] : rows[product][i] >= Ttl}]

\* NvdCache.get: an entry that has not expired.
fresh(key) == cache[key] # None /\ cache[key].age < Ttl

\* _get_json up to its retry loop.
_get_json ==
  /\ pc = "page"
  /\ IF call.kind = "cves" /\ fresh(<<call.product, call.page>>)
     THEN pc' = "read" /\ UNCHANGED call
     ELSE pc' = "acquire" /\ call' = [call EXCEPT !.attempt = 0]
  /\ UNCHANGED <<providerVars, cache, stamps, granted, wait, cancel, late>>

\* The last test of the event before the request goes out.
_check_cancelled ==
  /\ pc = "granted" /\ ~client_cancelled
  /\ pc' = "send"
  /\ UNCHANGED <<providerVars, cancel, late, clientVars>>

CountLate == late' = IF cancel THEN late + 1 ELSE late

Send ==
  /\ pc = "send"
  /\ pc' = "sent"
  /\ CountLate
  /\ UNCHANGED <<providerVars, cancel, clientVars>>

\* The rows at the places first + 1 to last of the list.
Places(product, first, last) ==
  {order[product][i] : i \in {j \in DOMAIN order[product] : first < j /\ j <= last}}

\* How many rows a full page holds in a list of the given length.
PageSize(page, total) == Min({PerPage, total - Min({page * PerPage, total})})

\* What a 200 answer to a CVE query holds: the page in full or, after a fault of
\* the provider, one row too few or no inventory at all.
NoInventory == [age |-> 0, listed |-> {}, ahead |-> {}, got |-> 0, total |-> 0, valid |-> FALSE]

PageAnswers(product, page) ==
  LET total == Len(rows[product])
      full  == Places(product, page * PerPage, (page + 1) * PerPage)
      size  == PageSize(page, total)
      With(listed, got) ==
        [age |-> 0, listed |-> listed, ahead |-> Places(product, 0, page * PerPage),
         got |-> got, total |-> total, valid |-> TRUE]
  IN  {NoInventory, With(full, size)} \cup {With(full \ {row}, size - 1) : row \in full}

\* NvdCache.set keeps the answer before anything but its JSON type was looked at.
\* (A database error would only lose the entry.)
AnswerPage ==
  /\ pc = "sent" /\ call.kind = "cves"
  /\ \E answer \in PageAnswers(call.product, call.page) :
       cache' = [cache EXCEPT ![<<call.product, call.page>>] = answer]
  /\ pc' = "read"
  /\ UNCHANGED <<providerVars, stamps, granted, call, wait, cancel, late>>

\* An attempt failed and may be repeated, after the backoff of _backoff and after
\* what a 429 answer asked for; or it was the last one.
Retry(delay) ==
  IF call.attempt < MaxRetries
  THEN /\ _wait(delay + Min({2 ^ call.attempt, 8}), "acquire")
       /\ call' = [call EXCEPT !.attempt = @ + 1]
  ELSE pc' = "failed" /\ UNCHANGED <<call, wait>>

\* Fault: the attempt that waits is not counted.
AnswerTransientForever ==
  /\ pc = "sent"
  /\ _wait(1, "acquire")
  /\ UNCHANGED <<providerVars, cache, stamps, granted, call, cancel, late>>

\* 429, 5xx, a timeout or a lost connection.
AnswerTransient ==
  /\ pc = "sent"
  /\ \E delay \in {0, RetryAfter} : Retry(delay)
  /\ UNCHANGED <<providerVars, cache, stamps, granted, cancel, late>>

\* 4xx, no JSON object, or another error of the HTTP library.
AnswerPermanent ==
  /\ pc = "sent"
  /\ pc' = "failed"
  /\ UNCHANGED <<providerVars, cancel, late, clientVars>>

\* The query with the rows of one more page.
_collect(page) ==
  [call EXCEPT !.got = @ + page.got, !.page = @ + 1, !.read = @ \cup page.listed,
               !.total = page.total, !.shrunk = @ \/ page.total < call.total]

\* Fault: pages are put together without comparing their number with the total.
_get_paginated_unchecked ==
  /\ pc = "read"
  /\ LET page == cache[<<call.product, call.page>>]
     IN  /\ call' = _collect(page)
         /\ pc' = IF ~page.valid THEN "failed"
                  ELSE IF (call.page + 1) * PerPage < page.total THEN "page" ELSE "evaluate"
  /\ UNCHANGED <<providerVars, cache, stamps, granted, wait, cancel, late>>

\* _get_paginated: one page read.  The total that counts is the last page's.
_get_paginated ==
  /\ pc = "read"
  /\ LET page  == cache[<<call.product, call.page>>]
         more  == (call.page + 1) * PerPage < page.total
         whole == call.got + page.got = page.total
     IN  /\ call' = _collect(page)
         /\ pc' = CASE page.valid /\ more            -> "page"
                    [] page.valid /\ ~more /\ whole -> "evaluate"
                    [] OTHER                        -> "failed"
  /\ UNCHANGED <<providerVars, cache, stamps, granted, wait, cancel, late>>

ClientStep ==
  \/ acquire \/ Waited \/ Cancelled \/ _get_json \/ _check_cancelled \/ Send \/ AnswerPage
  \/ AnswerTransient \/ AnswerPermanent \/ _get_paginated

============================================================================
