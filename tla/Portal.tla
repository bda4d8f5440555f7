-------------------------------- MODULE Portal --------------------------------
(***************************************************************************)
(* The download portal of a collecting assessment: PortalBinding of        *)
(* csa_console/portal.py and _RateLimiter of csa_console/server.py, as the *)
(* handler threads of the HTTPS listener use them for one endpoint         *)
(* address, and the assessor's start and pause of csa_lab/service.py that  *)
(* give each listener its binding.  Every binding lives as long as its     *)
(* listener's handlers; sessions/<id>.portal.json carries the download     *)
(* count from one to the next.  The threads are the threads of AuditChain: *)
(* a failed authorization and a download end with an append to the log.    *)
(* The assessor's own entries are left out.                                *)
(***************************************************************************)
EXTENDS AuditChain, FiniteSets

CONSTANTS
  MaximumDownloads,  \* maximum_downloads
  MaximumFailures,   \* maximum_failed_attempts
  FailureWindow,     \* failure_window_seconds
  Throttle,          \* throttle_seconds
  Limit,             \* limit of _RateLimiter
  LimitWindow,       \* window_seconds
  ExpiresAt,         \* the end of the session
  MaxClock,          \* bound: the clock
  MaxRequests,       \* bound: requests
  MaxListeners       \* bound: starts of the listener

ASSUME PortalAssumption ==
  /\ MaximumDownloads \in Nat /\ MaximumFailures \in Nat \ {0}
  /\ FailureWindow \in Nat /\ Throttle \in 1..FailureWindow
  /\ Limit \in Nat /\ LimitWindow \in Nat \ {0}
  /\ {ExpiresAt, MaxClock, MaxRequests, MaxListeners} \subseteq Nat
  /\ None \notin Nat

VARIABLES
  clock,
  handler,      \* the request each thread is handling
  binding,      \* the PortalBinding and the _RateLimiter of every listener so far
  listening,    \* the last of them accepts connections
  allowed,      \* the session's networks include the address
  session,      \* the status in sessions/<id>.json
  development,  \* its distribution is DEVELOPMENT_UNSIGNED for the address
  stored,       \* downloadCount in sessions/<id>.portal.json
  assessor,     \* where start or pause is
  copy,         \* the download count it has read
  served,       \* history: downloads answered with the Collector
  overlapped,   \* history: downloads counted while the status was rewritten
  stray,        \* history: a download was counted behind a newer listener
  guesses,      \* history: when each wrong code was compared, and by which listener
  requests

portalVars == <<clock, handler, binding, listening, allowed, session, development, stored,
                assessor, copy, served, overlapped, stray, guesses, requests>>
allVars == <<vars, portalVars>>

Idle == [at |-> "idle", listener |-> 0, kind |-> None, right |-> FALSE, now |-> 0]
Listener == Len(binding)

PortalInit ==
  /\ Init
  /\ clock = 0
  /\ handler = [t \in Threads |-> Idle]
  /\ binding = <<>>
  /\ listening = FALSE
  /\ allowed \in BOOLEAN
  /\ session = "OPEN"
  /\ development = FALSE
  /\ stored = None
  /\ assessor = "idle"
  /\ copy = 0
  /\ served = 0
  /\ overlapped = 0
  /\ stray = FALSE
  /\ guesses = <<>>
  /\ requests = 0

sessionVars == <<clock, listening, allowed, session, development, assessor, copy>>
countVars == <<stored, served, overlapped, stray>>

Tick ==
  /\ clock < MaxClock
  /\ clock' = clock + 1
  /\ UNCHANGED <<vars, handler, binding, listening, allowed, session, development, assessor,
                 copy, countVars, guesses, requests>>

-----------------------------------------------------------------------------
(* A handler thread *)

At(t, label) == handler[t].at = label
mine(t) == binding[handler[t].listener]
Become(t, record) == handler' = [handler EXCEPT ![t] = record]
Proceed(t, label) == Become(t, [handler[t] EXCEPT !.at = label])
Answer(t) == Become(t, Idle)
Bind(l, record) == binding' = [binding EXCEPT ![l] = record]

\* The blocked source is refused and the code is not looked at.
throttled(l) == clock < binding[l].blocked

\* Fault: the block is not looked at.
authorize_unthrottled(t, l, kind, right) ==
  /\ guesses' = IF right THEN guesses ELSE Append(guesses, [at |-> clock, by |-> l])
  /\ Become(t, [at |-> IF right THEN "session" ELSE "failed",
                listener |-> l, kind |-> kind, right |-> right, now |-> clock])

\* authorize and authorize_launcher take the time, look at the block and compare the
\* code or the credential.
authorize(t, l, kind, right) ==
  IF throttled(l)
  THEN Answer(t) /\ UNCHANGED guesses
  ELSE /\ guesses' = IF right THEN guesses ELSE Append(guesses, [at |-> clock, by |-> l])
       /\ Become(t, [at |-> IF right THEN "session" ELSE "failed",
                     listener |-> l, kind |-> kind, right |-> right, now |-> clock])

\* do_GET of a join page or a download.
Get(t, right) ==
  /\ At(t, "idle") /\ listening
  /\ requests < MaxRequests
  /\ requests' = requests + 1
  /\ authorize(t, Listener, "portal", right)
  /\ UNCHANGED <<vars, binding, sessionVars, countVars>>

\* do_POST of the collector package: allow takes the time before its lock.
Post(t, right) ==
  /\ At(t, "idle") /\ listening
  /\ requests < MaxRequests
  /\ requests' = requests + 1
  /\ Become(t, [at |-> "limited", listener |-> Listener, kind |-> "launcher",
                right |-> right, now |-> clock])
  /\ UNCHANGED <<vars, binding, sessionVars, countVars, guesses>>

\* The values of the deque once the expired ones at its head are popped.
unexpired(values, now) ==
  LET live == {i \in 1..Len(values) : values[i] + LimitWindow > now}
  IN  IF live = {} THEN <<>>
      ELSE SubSeq(values, CHOOSE i \in live : \A j \in live : i <= j, Len(values))

\* Fault: an expired head empties the whole deque.
allow_reset(t) ==
  LET values == IF mine(t).values # <<>> /\ mine(t).values[1] + LimitWindow > handler[t].now
                THEN mine(t).values ELSE <<>>
      granted == Len(values) <= Limit
  IN  /\ Bind(handler[t].listener,
              [mine(t) EXCEPT !.values = IF granted THEN Append(values, handler[t].now) ELSE values,
                              !.granted = IF granted THEN Append(@, handler[t].now) ELSE @])
      /\ IF granted /\ mine(t).policy THEN Proceed(t, "launcher") ELSE Answer(t)

\* allow under its lock, then _require_legacy.
allow(t) ==
  LET values == unexpired(mine(t).values, handler[t].now)
      granted == Len(values) < Limit
  IN  /\ Bind(handler[t].listener,
              [mine(t) EXCEPT !.values = IF granted THEN Append(values, handler[t].now) ELSE values,
                              !.granted = IF granted THEN Append(@, handler[t].now) ELSE @])
      /\ IF granted /\ mine(t).policy THEN Proceed(t, "launcher") ELSE Answer(t)

Allow(t) ==
  /\ At(t, "limited")
  /\ allow(t)
  /\ UNCHANGED <<vars, sessionVars, countVars, guesses, requests>>

AuthorizeLauncher(t) ==
  /\ At(t, "launcher")
  /\ authorize(t, handler[t].listener, "launcher", handler[t].right)
  /\ UNCHANGED <<vars, binding, sessionVars, countVars, requests>>

\* The attempts of one time.
made(attempts, now) == {a \in attempts : a.at = now}

\* _record_failed_authorization under the lock, with the time its caller took.  Nothing
\* reads the order of the attempts: those of one time are numbered.
RecordFailure(t) ==
  LET now == handler[t].now
      recent == {a \in mine(t).failures : a.at + FailureWindow >= now}
      attempts == recent \cup {[at |-> now, no |-> Cardinality(made(recent, now))]}
  IN  /\ At(t, "failed")
      /\ Bind(handler[t].listener,
              [mine(t) EXCEPT !.failures = attempts,
                              !.blocked = IF Cardinality(attempts) >= MaximumFailures
                                          THEN now + Throttle ELSE @])
      /\ Become(t, [handler[t] EXCEPT !.at = "append", !.right = FALSE])
      /\ UNCHANGED <<vars, sessionVars, countVars, guesses, requests>>

\* _authorize_session; then a page is rendered, or _require_legacy precedes
\* a download of the portal.
AuthorizeSession(t) ==
  /\ At(t, "session")
  /\ IF session # "OPEN" \/ clock >= ExpiresAt THEN Answer(t)
     ELSE IF ~allowed THEN Become(t, [handler[t] EXCEPT !.at = "failed", !.now = clock])
     ELSE \/ /\ mine(t).count < MaximumDownloads
             /\ handler[t].kind = "portal" => mine(t).policy
             /\ Proceed(t, "counted")
          \/ /\ mine(t).count < MaximumDownloads => handler[t].kind = "portal"
             /\ Answer(t)
  /\ UNCHANGED <<vars, binding, sessionVars, countVars, guesses, requests>>

\* The bytes are read and record_download counts under the lock, ...
RecordDownload(t) ==
  /\ At(t, "counted")
  /\ mine(t).count < MaximumDownloads
  /\ Bind(handler[t].listener, [mine(t) EXCEPT !.count = @ + 1])
  /\ stored' = mine(t).count + 1
  /\ overlapped' = IF assessor = "write" THEN overlapped + 1 ELSE overlapped
  /\ stray' = (stray \/ assessor = "bind" \/ handler[t].listener # Listener)
  /\ Proceed(t, "append")
  /\ UNCHANGED <<vars, sessionVars, served, guesses, requests>>

\* ... or fails in writing the count, which stays counted in memory, ...
CountNotStored(t) ==
  /\ At(t, "counted")
  /\ mine(t).count < MaximumDownloads
  /\ "write" \in Faults
  /\ Bind(handler[t].listener, [mine(t) EXCEPT !.count = @ + 1])
  /\ Answer(t)
  /\ UNCHANGED <<vars, sessionVars, countVars, guesses, requests>>

\* ... or raises: the file cannot be read, or others have used up the budget.
DownloadRaises(t) ==
  /\ At(t, "counted")
  /\ Answer(t)
  /\ UNCHANGED <<vars, binding, sessionVars, countVars, guesses, requests>>

\* The append of the entry; a download is answered once it has returned.
AppendEntry(t) ==
  /\ At(t, "append")
  /\ \/ (Lock(t) \/ ReadFinalHash(t) \/ Write(t)) /\ UNCHANGED <<handler, served>>
     \/ (AppendRaises(t) \/ WriteFails(t)) /\ Answer(t) /\ UNCHANGED served
     \/ /\ Return(t)
        /\ Answer(t)
        /\ served' = IF handler[t].right THEN served + 1 ELSE served
  /\ UNCHANGED <<binding, sessionVars, stored, overlapped, stray, guesses, requests>>

Handle(t) ==
  \/ \E right \in BOOLEAN : Get(t, right) \/ Post(t, right)
  \/ Allow(t) \/ AuthorizeLauncher(t) \/ RecordFailure(t) \/ AuthorizeSession(t)
  \/ RecordDownload(t) \/ CountNotStored(t) \/ DownloadRaises(t) \/ AppendEntry(t)

-----------------------------------------------------------------------------
(* The assessor *)

handlerVars == <<clock, handler, served, overlapped, stray, guesses, requests>>

loaded == IF stored = None THEN 0 ELSE stored

\* start_collection loads the state with the count of the portal file, ...
Start ==
  /\ assessor = "idle" /\ ~listening
  /\ Listener < MaxListeners
  /\ copy' = loaded
  /\ session' = "OPEN"
  /\ assessor' = "bind"
  /\ UNCHANGED <<vars, handlerVars, binding, listening, allowed, development, stored>>

\* Fault: a new binding counts from nothing.
new_portal_uncounted ==
  [count |-> 0, policy |-> development, failures |-> {}, blocked |-> 0,
   values |-> <<>>, granted |-> <<>>]

new_portal ==
  [count |-> copy, policy |-> development, failures |-> {}, blocked |-> 0,
   values |-> <<>>, granted |-> <<>>]

\* ... gives it to a new binding and listener, ...
Listen ==
  /\ assessor = "bind"
  /\ binding' = Append(binding, new_portal)
  /\ listening' = TRUE
  /\ assessor' = "read"
  /\ UNCHANGED <<vars, handlerVars, allowed, session, development, stored, copy>>

\* pause_collection ends the listener; the threads of its handlers go on.
Pause ==
  /\ assessor = "idle" /\ listening
  /\ copy' = loaded
  /\ listening' = FALSE
  /\ assessor' = "read"
  /\ UNCHANGED <<vars, handlerVars, binding, allowed, session, development, stored>>

\* _write_portal_status reads the file ...
ReadStatus ==
  /\ assessor = "read"
  /\ copy' = IF stored = None THEN copy ELSE stored
  /\ assessor' = "write"
  /\ UNCHANGED <<vars, handlerVars, binding, listening, allowed, session, development, stored>>

\* ... and writes it, with no lock that record_download takes.
WriteStatus ==
  /\ assessor = "write"
  /\ stored' = copy
  /\ session' = IF listening THEN session ELSE "PAUSED"
  /\ assessor' = "idle"
  /\ UNCHANGED <<vars, handlerVars, binding, listening, allowed, development, copy>>

\* configure_development_distribution.
Configure(enabled) ==
  /\ assessor = "idle"
  /\ enabled => ~listening
  /\ development # enabled
  /\ development' = enabled
  /\ IF listening THEN Bind(Listener, [binding[Listener] EXCEPT !.policy = enabled])
                  ELSE UNCHANGED binding
  /\ UNCHANGED <<vars, handlerVars, listening, allowed, session, stored, assessor, copy>>

\* The process ends: its threads and bindings with it.
Crash ==
  /\ \E p \in Processes : Kill(p)
  /\ handler' = [t \in Threads |-> Idle]
  /\ listening' = FALSE
  /\ assessor' = "idle"
  /\ UNCHANGED <<clock, binding, allowed, session, development, stored, copy,
                 served, overlapped, stray, guesses, requests>>

PortalNext ==
  \/ \E t \in Threads : Handle(t)
  \/ Start \/ Listen \/ Pause \/ ReadStatus \/ WriteStatus
  \/ \E enabled \in BOOLEAN : Configure(enabled)
  \/ Crash \/ Tick

PortalSpec == PortalInit /\ [][PortalNext]_allVars

-----------------------------------------------------------------------------
(* Properties *)

Within(times, from, length) == Cardinality({i \in DOMAIN times : times[i] \in from..(from + length - 1)})

\* The wrong codes that a listener compared in the throttle period from a time on.
compared(l, from) ==
  {i \in DOMAIN guesses : guesses[i].by = l /\ guesses[i].at \in from..(from + Throttle - 1)}

\* Over every listener, pause, crash and half-way write, the Collector is served at most
\* maximum_downloads times, and once more for each download counted while a start or a
\* pause rewrote the portal file.  A handler that outlived its listener may undo the count.
DownloadsBounded == ~stray => served <= MaximumDownloads + overlapped

\* However the n handler threads interleave, one listener compares few wrong codes of an
\* address in a throttle period.  Those that make up the limit set a block; a thread that
\* failed before the period may shorten it when it records late, and then each thread that
\* is not itself late compares one more before the block is back: in all at most
\* 1 + 2 + ... + n more than the limit less one.
GuessesBounded ==
  LET n == Cardinality(Threads)
  IN  \A l \in 1..Listener, from \in 0..MaxClock :
        2 * Cardinality(compared(l, from)) <= 2 * (MaximumFailures - 1) + n * (n + 1)

\* One listener lets an address make at most limit requests in a window, and one more for
\* each other thread that took the time before a later request emptied the deque.
RequestsBounded ==
  \A l \in 1..Listener, from \in 0..MaxClock :
    Within(binding[l].granted, from, LimitWindow) < Limit + Cardinality(Threads)

\* Neither the throttle of wrong codes nor the rate limit is outrun by handler threads
\* that share their counts.
ThrottlesHold == GuessesBounded /\ RequestsBounded

=============================================================================
