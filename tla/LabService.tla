----------------------------- MODULE LabService -----------------------------
(***************************************************************************)
(* The life cycle of one assessment in CSA Lab: LabApplicationService of   *)
(* csa_lab/service.py, called by the threads of the administration server  *)
(* (csa_lab/web.py).  start, pause, stop, delete, import and shutdown hold *)
(* the service's lock from their first step to their last; resume, the     *)
(* recovery clean-up, report generation and the vulnerability scan do not. *)
(* The process may terminate at any step; lab-state.json, the session and  *)
(* the firewall rule outlive it.  set_session_status is one step here: its *)
(* load and its write are taken apart in Submission.                       *)
(***************************************************************************)
EXTENDS Naturals, TLC

CONSTANTS
  Calls,        \* administration requests that may be in progress together
  Kinds,        \* the kinds of call and event this instance has
  Faults,       \* the external steps that may fail
  MaxImports,   \* bound: offline packages imported
  MaxCrashes,   \* bound: process terminations
  None

AllKinds == {"start", "pause", "resume", "stop", "cleanup", "delete", "import", "report",
             "scan", "shutdown", "stopmarker"}
AllFaults == {"bind", "create", "portal", "remove", "late", "import"}

ASSUME LabAssumption ==
  /\ Kinds \subseteq AllKinds
  /\ Faults \subseteq AllFaults
  /\ MaxImports \in Nat
  /\ MaxCrashes \in Nat
  /\ None \notin Calls \cup Nat

VARIABLES
  up,         \* the CSA Lab process runs
  lab,        \* lab-state.json, absent once the assessment is deleted
  session,    \* the status in sessions/<id>.json
  evidence,   \* the dashboard shows an endpoint
  imports,    \* offline packages imported so far
  raised,     \* those whose import raised after the index was written (history)
  uploading,  \* a handler thread of the listener is accepting an upload
  server,     \* the assessment has an entry in _servers
  listening,  \* the HTTPS listener accepts connections
  firewall,   \* the assessment's firewall rule exists
  helper,     \* the elevated netsh that outlives the call that timed out on it
  late,       \* "no", or the rule was added by such a helper and no start of the
              \* application has seen it yet ("unseen") or has ("seen") (history)
  marker,     \* sessions/<id>.stop.json exists
  lock,       \* the call that holds _lock
  pc, op,     \* where each call is, and its kind
  copy,       \* the LabAssessmentState a call has loaded
  crashes

ruleVars   == <<firewall, helper, late>>
accessVars == <<server, listening, ruleVars>>
dataVars   == <<evidence, imports, raised, uploading>>
callVars   == <<pc, op, copy>>
vars == <<up, lab, session, dataVars, accessVars, marker, lock, callVars, crashes>>

LabStatuses == {"DRAFT", "COLLECTING", "PAUSED", "READY_FOR_REPORT", "COMPLETED", "CLOSED",
                "RECOVERY_REQUIRED"}
\* report: the imports that the recorded report covers.
LabState == [status : LabStatuses, report : 0..MaxImports \cup {None}]

\* No state is the absent file.
ASSUME StateAssumption == None \notin LabState

SessionStatuses == {"OPEN", "PAUSED", "CLOSED"}
Labels == {"idle", "reopen", "start", "bind", "create", "register", "portal", "collecting",
           "rule", "session", "state", "rmtree", "importing", "imported", "render",
           "rendered", "scanning", "scanned", "exit"}

TypeOK ==
  /\ up \in BOOLEAN
  /\ lab \in LabState \cup {None}
  /\ session \in SessionStatuses \cup {None}
  /\ evidence \in BOOLEAN /\ uploading \in BOOLEAN
  /\ imports \in 0..MaxImports
  /\ raised \subseteq 1..MaxImports
  /\ helper \in {"add", "delete", None} /\ late \in {"no", "unseen", "seen"}
  /\ server \in BOOLEAN /\ listening \in BOOLEAN /\ firewall \in BOOLEAN
  /\ marker \in BOOLEAN
  /\ lock \in Calls \cup {None}
  /\ pc \in [Calls -> Labels]
  /\ op \in [Calls -> Kinds \cup {None}]
  /\ copy \in [Calls -> LabState \cup {None}]
  /\ crashes \in 0..MaxCrashes

\* create_assessment: a draft with an open session.
Init ==
  /\ up = TRUE
  /\ lab = [status |-> "DRAFT", report |-> None]
  /\ session = "OPEN"
  /\ evidence = FALSE /\ uploading = FALSE
  /\ imports = 0 /\ raised = {}
  /\ server = FALSE /\ listening = FALSE
  /\ firewall = FALSE /\ helper = None /\ late = "no"
  /\ marker = FALSE
  /\ lock = None
  /\ pc = [c \in Calls |-> "idle"]
  /\ op = [c \in Calls |-> None]
  /\ copy = [c \in Calls |-> None]
  /\ crashes = 0

-----------------------------------------------------------------------------
(* Helpers *)

Goto(c, label) == pc' = [pc EXCEPT ![c] = label]

\* The call returns or raises; leaving the with-block releases the lock.
\* However service.shutdown ends, the process exits after it.
Leave(c) ==
  /\ pc' = [pc EXCEPT ![c] = IF op[c] = "shutdown" THEN "exit" ELSE "idle"]
  /\ op' = [op EXCEPT ![c] = IF @ = "shutdown" THEN @ ELSE None]
  /\ copy' = [copy EXCEPT ![c] = None]
  /\ lock' = IF lock = c THEN None ELSE lock

\* A call that takes no lock loads the state and goes on.
Begin(c, kind, label) ==
  /\ up
  /\ kind \in Kinds
  /\ pc[c] = "idle"
  /\ lab # None
  /\ op' = [op EXCEPT ![c] = kind]
  /\ copy' = [copy EXCEPT ![c] = lab]
  /\ Goto(c, label)

\* A locked call waits for the lock first; waiting has no other effect.
BeginLocked(c, kind, label) ==
  /\ lock = None
  /\ lock' = c
  /\ Begin(c, kind, label)

AllowedTransitions == [OPEN |-> {"PAUSED", "CLOSED"}, PAUSED |-> {"OPEN", "CLOSED"}, CLOSED |-> {}]

\* set_session_status raises unless the transition is allowed; the session of
\* a deleted assessment cannot be loaded.
transition_allowed(to) == session # None /\ to \in AllowedTransitions[session]

\* The status once collection has been stopped.
stopped_status == IF evidence THEN "READY_FOR_REPORT" ELSE "CLOSED"

-----------------------------------------------------------------------------
(* start_collection *)

already_running == server

\* Fault: only the existence of the session is checked.
session_exists == session # None

session_startable == session \in {"OPEN", "PAUSED"}

\* A paused session is opened.
reactivated == IF session = "PAUSED" THEN "OPEN" ELSE session

\* The checks under the lock.  A call that finds a server, or a session that is
\* no longer active, changes nothing.
StartChecks(c) ==
  /\ ~already_running
  /\ session_startable
  /\ session' = reactivated
  /\ UNCHANGED <<up, lab, dataVars, accessVars, marker, crashes>>

Start(c) == BeginLocked(c, "start", "bind") /\ StartChecks(c)

\* ConsoleHttpsServer: a stale stop marker is removed, the socket bound.
Bind(c) ==
  /\ pc[c] = "bind"
  /\ marker' = FALSE
  /\ \/ Goto(c, "create") /\ UNCHANGED <<lock, op, copy>>
     \/ "bind" \in Faults /\ Leave(c)
  /\ UNCHANGED <<up, lab, session, dataVars, accessVars, crashes>>

\* A rule that is gone, or stays as it is.
RuleIs(there) == firewall' = there /\ late' = IF there THEN late ELSE "no"

\* A call that times out on _elevated_netsh kills the launcher, not the elevated
\* process or the question to the operator; one at a time is followed.
Outlives(action) ==
  helper' \in {helper} \cup (IF "late" \in Faults /\ helper = None THEN {action} ELSE {})

\* The except clause of start_collection removes the rule; a rule that is there
\* stays when the removal is denied as well.
RuleAfterFailure == {FALSE} \cup (IF "remove" \in Faults THEN {TRUE} ELSE {})

\* firewall.create and its audit record; a failure removes the rule and raises.
CreateRule(c) ==
  /\ pc[c] = "create"
  /\ \/ /\ firewall' = TRUE /\ late' = "no" /\ UNCHANGED helper
        /\ Goto(c, "register") /\ UNCHANGED <<lock, op, copy>>
     \/ /\ "create" \in Faults
        /\ \E there \in RuleAfterFailure : RuleIs(there)
        /\ Outlives("add")
        /\ Leave(c)
  /\ UNCHANGED <<up, lab, session, dataVars, server, listening, marker, crashes>>

\* The listener thread is started and the server entered in _servers.
Register(c) ==
  /\ pc[c] = "register"
  /\ server' = TRUE /\ listening' = TRUE
  /\ Goto(c, "portal")
  /\ UNCHANGED <<up, lab, session, dataVars, ruleVars, marker, lock, op, copy, crashes>>

\* _write_portal_status and its audit record; a failure closes the listener and
\* removes the rule, but the entry in _servers stays.
WritePortal(c) ==
  /\ pc[c] = "portal"
  /\ \/ Goto(c, "collecting") /\ UNCHANGED <<accessVars, lock, op, copy>>
     \/ /\ "portal" \in Faults
        /\ listening' = FALSE
        /\ \E there \in RuleAfterFailure : RuleIs(there)
        /\ Leave(c)
        /\ UNCHANGED <<server, helper>>
  /\ UNCHANGED <<up, lab, session, dataVars, marker, crashes>>

WriteCollecting(c) ==
  /\ pc[c] = "collecting"
  /\ lab' = [copy[c] EXCEPT !.status = "COLLECTING"]
  /\ Leave(c)
  /\ UNCHANGED <<up, session, dataVars, accessVars, marker, crashes>>

-----------------------------------------------------------------------------
(* resume_collection: the check and the change of the session status are    *)
(* made without the lock, then start_collection is called.                   *)

Resume(c) ==
  /\ Begin(c, "resume", "reopen")
  /\ lab.status \in {"PAUSED", "RECOVERY_REQUIRED"}
  /\ UNCHANGED <<up, lab, session, dataVars, accessVars, marker, lock, crashes>>

Reopen(c) ==
  /\ pc[c] = "reopen"
  /\ IF transition_allowed("OPEN")
     THEN session' = "OPEN" /\ Goto(c, "start") /\ UNCHANGED <<lock, op, copy>>
     ELSE Leave(c) /\ UNCHANGED session
  /\ UNCHANGED <<up, lab, dataVars, accessVars, marker, crashes>>

ResumeStarts(c) ==
  /\ pc[c] = "start"
  /\ lock = None
  /\ IF lab # None /\ ~already_running /\ session_startable
     THEN /\ lock' = c
          /\ copy' = [copy EXCEPT ![c] = lab]
          /\ session' = reactivated
          /\ Goto(c, "bind")
          /\ UNCHANGED op
     ELSE Leave(c) /\ UNCHANGED session
  /\ UNCHANGED <<up, lab, dataVars, accessVars, marker, crashes>>

-----------------------------------------------------------------------------
(* pause_collection, stop_collection, cleanup_recovery and shutdown share    *)
(* _stop_runtime.                                                            *)

\* The server is taken out of _servers and its listener closed; handlers that
\* are accepting an upload are not waited for.
StopServer ==
  /\ server' = FALSE /\ listening' = FALSE
  /\ UNCHANGED <<up, lab, session, dataVars, ruleVars, marker, crashes>>

Pause(c) == BeginLocked(c, "pause", "rule") /\ StopServer

Stop(c) == BeginLocked(c, "stop", "rule") /\ StopServer

\* cleanup_recovery takes no lock.
Cleanup(c) == Begin(c, "cleanup", "rule") /\ StopServer /\ UNCHANGED lock

\* The user interface is closed: collection is paused, then the process ends.
Shutdown(c) == server /\ BeginLocked(c, "shutdown", "rule") /\ StopServer

ShutdownIdle(c) ==
  /\ ~server
  /\ BeginLocked(c, "shutdown", "exit")
  /\ UNCHANGED <<up, lab, session, dataVars, accessVars, marker, crashes>>

\* firewall.remove, which raises when the elevation is denied, and the portal
\* file and audit records after it.
RemoveRule(c) ==
  /\ pc[c] = "rule"
  /\ \/ RuleIs(FALSE) /\ Goto(c, "session") /\ UNCHANGED <<helper, lock, op, copy>>
     \/ /\ "remove" \in Faults /\ firewall
        /\ Outlives("delete")
        /\ Leave(c)
        /\ UNCHANGED <<firewall, late>>
     \/ "portal" \in Faults /\ RuleIs(FALSE) /\ Leave(c) /\ UNCHANGED helper
  /\ UNCHANGED <<up, lab, session, dataVars, server, listening, marker, crashes>>

\* pause and shutdown pause the session; stop and clean-up close it unless it
\* is closed already.  Clean-up also removes the stop marker.
ChangeSession(c) ==
  LET to == IF op[c] \in {"pause", "shutdown"} THEN "PAUSED" ELSE "CLOSED" IN
  /\ pc[c] = "session"
  /\ marker' = (marker /\ op[c] # "cleanup")
  /\ \/ /\ transition_allowed(to)
        /\ session' = to
        /\ Goto(c, "state") /\ UNCHANGED <<lock, op, copy>>
     \/ /\ to = "CLOSED" /\ session = "CLOSED"
        /\ Goto(c, "state") /\ UNCHANGED <<session, lock, op, copy>>
     \/ /\ ~transition_allowed(to) /\ (to = "CLOSED" => session # "CLOSED")
        /\ Leave(c) /\ UNCHANGED session
  /\ UNCHANGED <<up, lab, dataVars, accessVars, crashes>>

WriteState(c) ==
  /\ pc[c] = "state"
  /\ lab' = [copy[c] EXCEPT !.status = IF op[c] \in {"pause", "shutdown"} THEN "PAUSED"
                                       ELSE stopped_status]
  /\ Leave(c)
  /\ UNCHANGED <<up, session, dataVars, accessVars, marker, crashes>>

-----------------------------------------------------------------------------
(* delete_assessment *)

\* A draft is deleted only while it is empty.
deletable ==
  /\ lab.status \in {"DRAFT", "CLOSED", "COMPLETED"}
  /\ lab.status = "DRAFT" => lab.report = None /\ ~evidence
  /\ ~server
  /\ ~firewall

\* The checks; an open or paused session is closed first.
Delete(c) ==
  /\ BeginLocked(c, "delete", "rmtree")
  /\ deletable
  /\ session # None
  /\ session' = "CLOSED"
  /\ UNCHANGED <<up, lab, dataVars, accessVars, marker, crashes>>

\* shutil.rmtree of the assessment's directory.
RemoveTree(c) ==
  /\ pc[c] = "rmtree"
  /\ lab' = None /\ session' = None
  /\ evidence' = FALSE /\ marker' = FALSE
  /\ Leave(c)
  /\ UNCHANGED <<up, imports, raised, uploading, accessVars, crashes>>

-----------------------------------------------------------------------------
(* import_offline *)

Import(c) ==
  /\ BeginLocked(c, "import", "importing")
  /\ lab.status \in {"COLLECTING", "CLOSED", "READY_FOR_REPORT", "COMPLETED"}
  /\ UNCHANGED <<up, lab, session, dataVars, accessVars, marker, crashes>>

\* OfflineImportService.import_file, which may refuse the package, or raise after
\* the package is in the index: at the token use, the receipt, the audit record, the
\* analysis or the endpoint's report.  The import then ends without WriteImported.
ImportPackage(c) ==
  /\ pc[c] = "importing"
  /\ \/ /\ session \in {"OPEN", "CLOSED"}
        /\ imports < MaxImports
        /\ imports' = imports + 1
        /\ evidence' = TRUE
        /\ \/ Goto(c, "imported") /\ UNCHANGED <<raised, lock, op, copy>>
           \/ "import" \in Faults /\ raised' = raised \cup {imports'} /\ Leave(c)
     \/ Leave(c) /\ UNCHANGED <<imports, raised, evidence>>
  /\ UNCHANGED <<up, lab, session, uploading, accessVars, marker, crashes>>

\* Fault: a report that exists stays recorded.
report_kept(state) == state.report

report_after_import(state) == None

\* The report is invalidated and the assessment is ready for a new one.
WriteImported(c) ==
  /\ pc[c] = "imported"
  /\ lab' = [status |-> IF copy[c].status = "COLLECTING" THEN "COLLECTING" ELSE "READY_FOR_REPORT",
             report |-> report_after_import(copy[c])]
  /\ Leave(c)
  /\ UNCHANGED <<up, session, dataVars, accessVars, marker, crashes>>

-----------------------------------------------------------------------------
(* generate_unified_report and run_cve_analysis hold no lock: each writes    *)
(* back the state it loaded when it began.                                   *)

GenerateReport(c) ==
  /\ Begin(c, "report", "render")
  /\ lab.status \in {"READY_FOR_REPORT", "COMPLETED"}
  /\ evidence
  /\ UNCHANGED <<up, lab, session, dataVars, accessVars, marker, lock, crashes>>

\* UnifiedReportGenerator.generate reads the evidence there is; it raises when
\* the assessment is gone.
Render(c) ==
  /\ pc[c] = "render"
  /\ IF lab # None
     THEN /\ copy' = [copy EXCEPT ![c] = [status |-> "COMPLETED", report |-> imports]]
          /\ Goto(c, "rendered") /\ UNCHANGED <<lock, op>>
     ELSE Leave(c)
  /\ UNCHANGED <<up, lab, session, dataVars, accessVars, marker, crashes>>

WriteReport(c) ==
  /\ pc[c] = "rendered"
  /\ lab' = copy[c]
  /\ Leave(c)
  /\ UNCHANGED <<up, session, dataVars, accessVars, marker, crashes>>

\* start_cve_analysis lets one scan of the assessment run at a time.
RunScan(c) ==
  /\ Begin(c, "scan", "scanning")
  /\ \A d \in Calls : op[d] # "scan"
  /\ lab.status # "DRAFT"
  /\ evidence
  /\ UNCHANGED <<up, lab, session, dataVars, accessVars, marker, lock, crashes>>

\* The endpoints are analyzed and the completion audited, or the job raises.
Scan(c) ==
  /\ pc[c] = "scanning"
  /\ \/ lab # None /\ Goto(c, "scanned") /\ UNCHANGED <<lock, op, copy>>
     \/ Leave(c)
  /\ UNCHANGED <<up, lab, session, dataVars, accessVars, marker, crashes>>

\* A report that was recorded when the scan began is dropped.
WriteScanned(c) ==
  /\ pc[c] = "scanned"
  /\ lab' = IF copy[c].report = None THEN lab
            ELSE [report |-> None,
                  status |-> IF copy[c].status = "COMPLETED" THEN "READY_FOR_REPORT"
                             ELSE copy[c].status]
  /\ Leave(c)
  /\ UNCHANGED <<up, session, dataVars, accessVars, marker, crashes>>

-----------------------------------------------------------------------------
(* The listener, the Console command line and the process *)

\* An upload passes verify_token ...
UploadBegins ==
  /\ listening /\ session = "OPEN"
  /\ uploading' = TRUE
  /\ UNCHANGED <<up, lab, session, evidence, imports, raised, accessVars, marker, lock, callVars,
                 crashes>>

\* ... and its endpoint shows on the dashboard later, or it is rejected.
UploadEnds ==
  /\ uploading
  /\ uploading' = FALSE
  /\ evidence' \in {evidence, lab # None}
  /\ UNCHANGED <<up, lab, session, imports, raised, accessVars, marker, lock, callVars, crashes>>

\* request_server_stop, from a console command.
RequestServerStop ==
  /\ "stopmarker" \in Kinds
  /\ session # None
  /\ marker' = TRUE
  /\ UNCHANGED <<up, lab, session, dataVars, accessVars, lock, callVars, crashes>>

\* _monitor_stop of the running listener.
MonitorStop ==
  /\ listening /\ marker
  /\ marker' = FALSE /\ listening' = FALSE
  /\ UNCHANGED <<up, lab, session, dataVars, server, ruleVars, lock, callVars, crashes>>

\* The elevated process of a call that timed out ends.
LateHelper ==
  /\ helper # None /\ helper' = None
  /\ firewall' = (helper = "add")
  /\ late' = CASE helper = "delete" -> "no" [] firewall -> late [] OTHER -> "unseen"
  /\ UNCHANGED <<up, lab, session, dataVars, server, listening, marker, lock, callVars, crashes>>

\* Every call, lock and listener of the process is gone; files, the firewall
\* rule and an elevated process that a call waits for stay.
Terminate ==
  /\ up /\ up' = FALSE
  /\ uploading' = FALSE
  /\ server' = FALSE /\ listening' = FALSE
  /\ lock' = None
  /\ pc' = [c \in Calls |-> "idle"]
  /\ op' = [c \in Calls |-> None]
  /\ copy' = [c \in Calls |-> None]
  /\ IF \E c \in Calls : pc[c] = "create" THEN Outlives("add") ELSE UNCHANGED helper
  /\ UNCHANGED <<lab, session, evidence, imports, raised, firewall, late, marker>>

Crash == crashes < MaxCrashes /\ crashes' = crashes + 1 /\ Terminate

Exit(c) == pc[c] = "exit" /\ Terminate /\ UNCHANGED crashes

\* Fault: only the status is looked at.
was_collecting == lab.status = "COLLECTING"

orphaned == lab.status = "COLLECTING" \/ firewall \/ marker

\* The application starts; detect_recovery_items marks orphaned state.
Boot ==
  /\ ~up /\ up' = TRUE
  /\ lab' = IF lab # None /\ orphaned THEN [lab EXCEPT !.status = "RECOVERY_REQUIRED"] ELSE lab
  /\ late' = IF late = "unseen" /\ lab # None THEN "seen" ELSE late
  /\ UNCHANGED <<session, dataVars, server, listening, firewall, helper, marker, lock, callVars,
                 crashes>>

-----------------------------------------------------------------------------
Step(c) ==
  \/ Bind(c) \/ CreateRule(c) \/ Register(c) \/ WritePortal(c) \/ WriteCollecting(c)
  \/ Reopen(c) \/ ResumeStarts(c) \/ RemoveRule(c) \/ ChangeSession(c) \/ WriteState(c)
  \/ RemoveTree(c) \/ ImportPackage(c) \/ WriteImported(c) \/ Render(c) \/ WriteReport(c)
  \/ Scan(c) \/ WriteScanned(c) \/ Exit(c)

Arrive(c) ==
  \/ Start(c) \/ Pause(c) \/ Resume(c) \/ Stop(c) \/ Cleanup(c) \/ Delete(c) \/ Import(c)
  \/ GenerateReport(c) \/ RunScan(c) \/ Shutdown(c) \/ ShutdownIdle(c)

Environment ==
  \/ UploadBegins \/ UploadEnds \/ RequestServerStop \/ MonitorStop \/ LateHelper \/ Crash
  \/ Boot

Next == (\E c \in Calls : Step(c) \/ Arrive(c)) \/ Environment

Spec == Init /\ [][Next]_vars

-----------------------------------------------------------------------------
(* Properties *)

Quiet == \A c \in Calls : pc[c] = "idle"

\* A closed session has no network access left: from the moment stop, delete
\* or a clean-up writes CLOSED, no listener accepts and no rule admits, but for a
\* rule that was added after its call had failed.
AccessClosed == session = "CLOSED" => ~listening /\ (firewall => late # "no")

\* While the application runs, a firewall rule that no server uses is known to
\* the operator as RECOVERY_REQUIRED, wherever the last process was terminated; a
\* rule added after its call had failed, at the latest from the next start on.
AccessAccounted ==
  up /\ Quiet /\ firewall /\ ~server /\ late # "unseen"
    => lab # None /\ lab.status = "RECOVERY_REQUIRED"

\* While the process is not terminated, the recorded report covers every
\* imported package, since an import invalidates the report before it, but for the
\* packages whose import raised after they were in the index.
ReportCoversImports ==
  crashes = 0 /\ Quiet /\ lab # None /\ lab.report # None
    => (lab.report + 1)..imports \subseteq raised

\* For TLC: nothing tells one call from another.
Symmetry == Permutations(Calls)

=============================================================================
