------------------------------- MODULE CveJob -------------------------------
(***************************************************************************)
(* The background vulnerability scan of one assessment: start, progress    *)
(* and cancel in csa_lab/service.py, the worker thread _run_cve_job, and   *)
(* the per-endpoint retry_analysis of csa_console/pipeline.py with the     *)
(* status that it leaves in the endpoint's findings.  The job record and   *)
(* the dictionary of cancel events are shared between the administration   *)
(* threads and workers; every access to the job record holds the service's *)
(* lock and is one step.                                                   *)
(***************************************************************************)
EXTENDS Naturals

CONSTANTS
  Workers,      \* jobs that may be started, each with its worker and Event
  MaxEndpoints, \* bound: endpoints whose evidence has been analysed
  Faults,       \* what may raise
  MaxCrashes,   \* bound: process terminations
  None

AllFaults == {"begin", "scan", "mark", "completion", "audit"}

ASSUME JobAssumption ==
  /\ MaxEndpoints \in Nat \ {0}
  /\ MaxCrashes \in Nat
  /\ Faults \subseteq AllFaults
  /\ None \notin Workers \cup {"RUNNING", "CANCELLING", "COMPLETED", "FAILED", "CANCELLED"}

VARIABLES
  job,       \* state of the entry in _cve_jobs
  event,     \* the worker whose Event is in _cve_cancel_events
  set,       \* workers whose Event is set
  pc,        \* where each worker is
  held,      \* the Event a worker passed to run_cve_analysis
  index,     \* the endpoint a worker is at
  present,   \* endpoints whose evidence has been analysed: 1..present
  total,     \* the endpoints a worker found when its scan began
  status,    \* cveAnalysisStatus in the findings of each endpoint
  unmarked,  \* endpoints whose scan ended with a mark that could not be written
             \* (a history variable)
  read,      \* the endpoints on the dashboard a worker read at its end
  result,    \* the result the job has published
  crashes

findings == <<present, status, unmarked>>
local == <<held, index, total, read>>
vars == <<job, event, set, pc, local, findings, result, crashes>>

Endpoints == 1..MaxEndpoints
Active == {"RUNNING", "CANCELLING"}
Terminal == {"COMPLETED", "FAILED", "CANCELLED"}
Outcomes == {"COMPLETE", "PARTIAL", "NOT_EVALUATED", "FAILED"}
Statuses == Outcomes \cup {"NOT_PERFORMED", "RUNNING", "CANCELLED"}
Working == {"begin", "endpoint", "scan", "markcancelled", "markfailed", "remark", "check",
            "publish", "cancelled", "failed"}

TypeOK ==
  /\ job \in Active \cup Terminal \cup {None}
  /\ event \in Workers \cup {None}
  /\ set \subseteq Workers
  /\ pc \in [Workers -> Working \cup {"none", "final", "raised", "done", "lost"}]
  /\ held \in [Workers -> Workers \cup {None}]
  /\ index \in [Workers -> 1..(MaxEndpoints + 1)]
  /\ present \in Endpoints
  /\ total \in [Workers -> 0..present]
  /\ status \in [Endpoints -> Statuses]
  /\ unmarked \subseteq Endpoints
  /\ read \in [Workers -> 0..present]
  /\ result \in Statuses \cup {None}
  /\ crashes \in 0..MaxCrashes

Init ==
  /\ job = None
  /\ event = None
  /\ set = {}
  /\ pc = [w \in Workers |-> "none"]
  /\ held = [w \in Workers |-> None]
  /\ index = [w \in Workers |-> 1]
  /\ present = 1
  /\ total = [w \in Workers |-> 0]
  /\ status = [i \in Endpoints |-> "NOT_PERFORMED"]
  /\ unmarked = {}
  /\ read = [w \in Workers |-> 0]
  /\ result = None
  /\ crashes = 0

-----------------------------------------------------------------------------
(* The administration requests *)

startable == job \notin Active

StartJob(w) ==
  /\ pc[w] = "none"
  /\ startable
  /\ job' = "RUNNING"
  /\ result' = None
  /\ event' = w
  /\ pc' = [pc EXCEPT ![w] = "begin"]
  /\ UNCHANGED <<set, local, findings, crashes>>

\* cancel_cve_analysis; without an Event the call raises KeyError.
Cancel ==
  /\ job \in Active
  /\ event # None
  /\ set' = set \cup {event}
  /\ job' = "CANCELLING"
  /\ UNCHANGED <<event, pc, local, findings, result, crashes>>

\* Evidence of another endpoint is analysed, by an upload or an import.
Arrive ==
  /\ present < MaxEndpoints
  /\ present' = present + 1
  /\ UNCHANGED <<job, event, set, pc, local, status, unmarked, result, crashes>>

-----------------------------------------------------------------------------
(* The worker *)

Goto(w, label) == pc' = [pc EXCEPT ![w] = label]

\* The job's state after a progress update by update().
progress_state == IF event # None /\ event \in set THEN "CANCELLING" ELSE "RUNNING"

\* The worker looks up its Event (a missing entry is a KeyError), the endpoints
\* to scan are read, and the start is audited.
BeginJob(w) ==
  /\ pc[w] = "begin"
  /\ held' = [held EXCEPT ![w] = event]
  /\ total' = [total EXCEPT ![w] = present]
  /\ \/ event # None /\ Goto(w, "endpoint")
     \/ (event = None \/ "begin" \in Faults) /\ Goto(w, "failed")
  /\ UNCHANGED <<job, event, set, index, read, findings, result, crashes>>

remaining(w) == index[w] <= total[w]

\* run_cve_analysis between two endpoints: retry_analysis reads the endpoint's
\* files and marks its findings; before that it may raise, and before its own
\* handler the load of the provider's key may.
NextEndpoint(w) ==
  /\ pc[w] = "endpoint"
  /\ remaining(w)
  /\ held[w] \notin set
  /\ job' = progress_state
  /\ \/ /\ status' = [status EXCEPT ![index[w]] = "RUNNING"]
        /\ unmarked' = unmarked \ {index[w]}
        /\ Goto(w, "scan")
     \/ /\ "scan" \in Faults
        /\ Goto(w, "remark") \/ Goto(w, "failed")
        /\ UNCHANGED <<status, unmarked>>
  /\ UNCHANGED <<event, set, local, present, result, crashes>>

StopBetweenEndpoints(w) ==
  /\ pc[w] = "endpoint"
  /\ remaining(w)
  /\ held[w] \in set
  /\ Goto(w, "cancelled")
  /\ UNCHANGED <<job, event, set, local, findings, result, crashes>>

\* A progress callback while an endpoint is scanned.
Progress(w) ==
  /\ pc[w] = "scan"
  /\ job' = progress_state
  /\ UNCHANGED <<event, set, pc, local, findings, result, crashes>>

\* retry_analysis returns, ...
ScanEndpoint(w) ==
  /\ pc[w] = "scan"
  /\ \E outcome \in Outcomes : status' = [status EXCEPT ![index[w]] = outcome]
  /\ index' = [index EXCEPT ![w] = @ + 1]
  /\ Goto(w, "endpoint")
  /\ UNCHANGED <<job, event, set, held, total, read, present, unmarked, result, crashes>>

\* ... is cancelled ...
ScanCancelled(w) ==
  /\ pc[w] = "scan"
  /\ held[w] \in set
  /\ Goto(w, "markcancelled")
  /\ UNCHANGED <<job, event, set, local, findings, result, crashes>>

\* ... or raises: in analyze_file, which has a handler of its own, or outside it,
\* also after the new findings were written.
ScanFailed(w) ==
  /\ "scan" \in Faults
  /\ pc[w] = "scan"
  /\ \/ Goto(w, "markfailed") /\ UNCHANGED status
     \/ /\ Goto(w, "remark")
        /\ status' \in {status} \cup {[status EXCEPT ![index[w]] = outcome] : outcome \in Outcomes}
  /\ UNCHANGED <<job, event, set, local, present, unmarked, result, crashes>>

\* Fault: the findings keep the status of the running scan.
kept_status(i) == status[i]

cancelled_status(i) == "CANCELLED"

\* mark_cve_analysis_cancelled, in the handler of analyze_file and again in that of
\* retry_analysis, where it finds its mark.  It may raise before its write or after
\* it: in the inner handler the outer one takes that for a failure.
MarkCancelled(w) ==
  LET marked == [status EXCEPT ![index[w]] = cancelled_status(index[w])] IN
  /\ pc[w] = "markcancelled"
  /\ \/ status' = marked /\ Goto(w, "cancelled")
     \/ "mark" \in Faults /\ status' \in {status, marked} /\ Goto(w, "remark")
     \/ "mark" \in Faults /\ status' = marked /\ Goto(w, "failed")
  /\ UNCHANGED <<job, event, set, local, present, unmarked, result, crashes>>

\* mark_cve_analysis_failed, in the handler of analyze_file ("markfailed"), where
\* an exception of it leads to a second attempt, and in that of retry_analysis.
MarkFailed(w) ==
  LET marked == [status EXCEPT ![index[w]] = "FAILED"] IN
  /\ pc[w] \in {"markfailed", "remark"}
  /\ \/ status' = marked /\ Goto(w, "failed") /\ UNCHANGED unmarked
     \/ /\ "mark" \in Faults
        /\ status' \in {status, marked}
        /\ IF pc[w] = "markfailed" THEN Goto(w, "remark") /\ UNCHANGED unmarked
           ELSE Goto(w, "failed") /\ unmarked' = unmarked \cup {index[w]}
  /\ UNCHANGED <<job, event, set, local, present, result, crashes>>

\* After the last endpoint the completion is audited, the report dropped and
\* the dashboard read.
CompleteScan(w) ==
  /\ pc[w] = "endpoint"
  /\ ~remaining(w)
  /\ read' = [read EXCEPT ![w] = present]
  /\ \/ Goto(w, "check")
     \/ "completion" \in Faults /\ Goto(w, "failed")
  /\ UNCHANGED <<job, event, set, held, index, total, findings, result, crashes>>

\* The last look at the dictionary of Events; a missing entry is a KeyError.
CheckCancelled(w) ==
  /\ pc[w] = "check"
  /\ Goto(w, CASE event = None -> "failed"
               [] event \in set -> "cancelled"
               [] OTHER -> "publish")
  /\ UNCHANGED <<job, event, set, local, findings, result, crashes>>

\* Fault: one endpoint that is complete makes the result complete.
aggregate_any(states) == IF "COMPLETE" \in states THEN "COMPLETE" ELSE "PARTIAL"

\* aggregate_statuses, of at least one endpoint
aggregate_statuses(states) ==
  CASE "RUNNING" \in states -> "RUNNING"
    [] \E s \in states : states = {s} -> CHOOSE s \in states : TRUE
    [] OTHER -> "PARTIAL"

PublishCompleted(w) ==
  /\ pc[w] = "publish"
  /\ job' = "COMPLETED"
  /\ result' = aggregate_statuses({status[i] : i \in 1..read[w]})
  /\ Goto(w, "final")
  /\ UNCHANGED <<event, set, local, findings, crashes>>

\* The cancellation is audited and published; an audit that raises skips the
\* publication and ends the thread.
PublishCancelled(w) ==
  /\ pc[w] = "cancelled"
  /\ \/ job' = "CANCELLED" /\ result' = "CANCELLED" /\ Goto(w, "final")
     \/ "audit" \in Faults /\ UNCHANGED <<job, result>> /\ Goto(w, "raised")
  /\ UNCHANGED <<event, set, local, findings, crashes>>

\* Fault: a failure ends the worker and leaves the job as it was.
leave_job == UNCHANGED <<job, result>>

fail_job == job' = "FAILED" /\ result' = "FAILED"

PublishFailed(w) ==
  /\ pc[w] = "failed"
  /\ fail_job
  /\ Goto(w, "final")
  /\ UNCHANGED <<event, set, local, findings, crashes>>

\* The finally clause removes whatever Event is there.
PopEvent(w) ==
  /\ pc[w] \in {"final", "raised"}
  /\ event' = None
  /\ Goto(w, IF pc[w] = "final" THEN "done" ELSE "lost")
  /\ UNCHANGED <<job, set, local, findings, result, crashes>>

-----------------------------------------------------------------------------
\* Jobs, Events and workers live in the process; the findings on disk.
Crash ==
  /\ crashes < MaxCrashes
  /\ crashes' = crashes + 1
  /\ job' = None
  /\ result' = None
  /\ event' = None
  /\ set' = {}
  /\ pc' = [w \in Workers |-> IF pc[w] = "none" THEN "none" ELSE "done"]
  /\ UNCHANGED <<local, findings>>

Worker(w) ==
  \/ BeginJob(w) \/ NextEndpoint(w) \/ StopBetweenEndpoints(w)
  \/ ScanEndpoint(w) \/ ScanCancelled(w) \/ ScanFailed(w) \/ MarkCancelled(w)
  \/ MarkFailed(w) \/ CompleteScan(w)
  \/ CheckCancelled(w) \/ PublishCompleted(w) \/ PublishCancelled(w) \/ PublishFailed(w)
  \/ PopEvent(w)

Next == Cancel \/ Arrive \/ Crash \/ \E w \in Workers : StartJob(w) \/ Worker(w) \/ Progress(w)

\* A started thread keeps running until its target returns; analyze_file
\* returns or raises, since every provider request has a timeout.
Fairness == \A w \in Workers : WF_vars(Worker(w))

Spec == Init /\ [][Next]_vars /\ Fairness

-----------------------------------------------------------------------------
(* Properties *)

\* One scan of the assessment works at a time, although a job that has been
\* published still has its clean-up to do when the next one starts.
OneScan == \A v, w \in Workers : pc[v] \in Working /\ pc[w] \in Working => v = w

\* When a job has ended, completed, failed or cancelled in the middle of an
\* endpoint, none is left as RUNNING, but for a termination of the process and for
\* an endpoint whose last mark could not be written; the second attempt at the mark
\* makes up for a failure of the first.  And what a job left behind, whatever the
\* reason, the next one that completes repairs.
NoEndpointRunning ==
  /\ crashes = 0 /\ job \in Terminal => \A i \in Endpoints \ unmarked : status[i] # "RUNNING"
  /\ job = "COMPLETED" => \A i \in Endpoints : status[i] # "RUNNING"

\* A published result COMPLETE speaks for every endpoint of the dashboard that
\* the job read, those included that arrived while it was scanning.
ResultHonest ==
  \A w \in Workers :
    job = "COMPLETED" /\ pc[w] = "final" /\ result = "COMPLETE"
      => \A i \in 1..read[w] : status[i] = "COMPLETE"

\* A scan that runs or is being cancelled comes to an end, unless the handler
\* of its cancellation raises itself.
JobEnds == job \in Active ~> (job \notin Active \/ \E w \in Workers : pc[w] = "lost")

=============================================================================
