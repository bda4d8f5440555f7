-------------------------- MODULE LabServiceProofs --------------------------
(***************************************************************************)
(* Theorems about the assessment life cycle, for any number of calls in    *)
(* progress, any faults and any number of terminations.                    *)
(***************************************************************************)
EXTENDS LabService, TLAPS

\* What a call has loaded when it uses it.
Loaded(c) ==
  pc[c] \in {"collecting", "portal", "register", "create", "bind", "rule", "session", "state",
             "importing", "imported", "rendered", "scanning", "scanned"} => copy[c] \in LabState

TypeInv == TypeOK /\ \A c \in Calls : Loaded(c)

USE DEF accessVars, ruleVars, dataVars, callVars

LEMMA InitTypeInv == Init => TypeInv
<1> SUFFICES ASSUME Init PROVE TypeInv
  OBVIOUS
<1>1. lab \in LabState /\ session \in SessionStatuses
  BY DEF Init, LabState, LabStatuses, SessionStatuses
<1>2. imports \in 0..MaxImports /\ crashes \in 0..MaxCrashes
  BY LabAssumption DEF Init
<1> QED
  BY <1>1, <1>2 DEF Init, TypeInv, TypeOK, Loaded, Labels

LEMMA StutterTypeInv == TypeInv /\ UNCHANGED vars => TypeInv'
  BY DEF TypeInv, TypeOK, Loaded, vars

\* The call variables have their types after a step.
CallsOK ==
  /\ lock' \in Calls \cup {None}
  /\ pc' \in [Calls -> Labels]
  /\ op' \in [Calls -> Kinds \cup {None}]
  /\ copy' \in [Calls -> LabState \cup {None}]
  /\ \A c \in Calls : Loaded(c)'

LEMMA LeaveTypes == ASSUME TypeInv, NEW c \in Calls, Leave(c) PROVE CallsOK
  BY DEF TypeInv, TypeOK, Loaded, CallsOK, Leave, Labels

\* A call that keeps its copy moves to a label at which it needs it only if it
\* already did.
LEMMA GotoTypes ==
  ASSUME TypeInv, NEW c \in Calls, NEW l \in Labels, Goto(c, l), UNCHANGED <<op, copy>>,
         lock' \in Calls \cup {None}, copy[c] \in LabState \/ l \in {"start", "rmtree", "exit"}
  PROVE  CallsOK
  BY DEF TypeInv, TypeOK, Loaded, CallsOK, Goto

LEMMA BeginTypes ==
  ASSUME TypeInv, NEW c \in Calls, NEW k, NEW l \in Labels, Begin(c, k, l),
         lock' \in Calls \cup {None}
  PROVE  CallsOK /\ k \in Kinds /\ lab \in LabState
  BY DEF TypeInv, TypeOK, Loaded, CallsOK, Begin, Goto

\* The variables of the rule have their types after a step.
RuleOK ==
  firewall' \in BOOLEAN /\ helper' \in {"add", "delete", None} /\ late' \in {"no", "unseen", "seen"}

LEMMA RuleIsTypes == ASSUME TypeInv, NEW there \in BOOLEAN, RuleIs(there) PROVE
  firewall' \in BOOLEAN /\ late' \in {"no", "unseen", "seen"}
  BY DEF TypeInv, TypeOK, RuleIs

LEMMA OutlivesTypes == ASSUME TypeInv, NEW action \in {"add", "delete"}, Outlives(action)
                       PROVE helper' \in {"add", "delete", None}
<1>1. helper' \in {helper, action}
  BY Zenon DEF Outlives
<1> QED
  BY <1>1 DEF TypeInv, TypeOK

LEMMA StepTypeInv == ASSUME TypeInv, NEW c \in Calls, Step(c) PROVE TypeInv'
<1> USE LabAssumption DEF TypeInv, TypeOK, CallsOK
<1>0. /\ \A l \in {"idle", "reopen", "start", "bind", "create", "register", "portal",
                   "collecting", "rule", "session", "state", "rmtree", "importing",
                   "imported", "render", "rendered", "scanning", "scanned", "exit"} :
           l \in Labels
      /\ \A s \in {"COLLECTING", "PAUSED", "READY_FOR_REPORT", "COMPLETED", "CLOSED"} :
           s \in LabStatuses
  BY DEF Labels, LabStatuses
<1>1. CASE Bind(c)
  <2>1. CallsOK
    BY <1>0, <1>1, LeaveTypes, GotoTypes DEF Bind, Loaded
  <2>2. UNCHANGED <<up, lab, session, evidence, imports, raised, uploading, server, listening,
                    firewall, helper, late, crashes>>
    BY <1>1 DEF Bind
  <2>3. marker' \in BOOLEAN
    BY <1>1 DEF Bind
  <2> QED BY <2>1, <2>2, <2>3
<1>2. CASE CreateRule(c)
  <2>1. CallsOK
    BY <1>0, <1>2, LeaveTypes, GotoTypes DEF CreateRule, Loaded
  <2>2. RuleOK
    <3>1. \A there \in RuleAfterFailure : there \in BOOLEAN
      BY Zenon DEF RuleAfterFailure
    <3>2. CASE firewall' = TRUE /\ late' = "no" /\ UNCHANGED helper
      BY <3>2 DEF RuleOK
    <3>3. CASE (\E there \in RuleAfterFailure : RuleIs(there)) /\ Outlives("add")
      BY <3>1, <3>3, RuleIsTypes, OutlivesTypes DEF RuleOK
    <3> QED
      BY <1>2, <3>2, <3>3, Zenon DEF CreateRule
  <2>3. UNCHANGED <<up, lab, session, dataVars, server, listening, marker, crashes>>
    BY <1>2, Zenon DEF CreateRule
  <2> QED BY <2>1, <2>2, <2>3 DEF RuleOK
<1>3. CASE Register(c)
  <2>1. CallsOK
    BY <1>0, <1>3, GotoTypes DEF Register, Loaded
  <2> QED BY <1>3, <2>1 DEF Register
<1>4. CASE WritePortal(c)
  <2>1. CallsOK
    BY <1>0, <1>4, LeaveTypes, GotoTypes DEF WritePortal, Loaded
  <2>2. RuleOK /\ listening' \in BOOLEAN /\ UNCHANGED server
    <3>1. \A there \in RuleAfterFailure : there \in BOOLEAN
      BY Zenon DEF RuleAfterFailure
    <3>2. CASE UNCHANGED accessVars
      BY <3>2 DEF RuleOK
    <3>3. CASE /\ listening' = FALSE /\ UNCHANGED <<server, helper>>
               /\ \E there \in RuleAfterFailure : RuleIs(there)
      BY <3>1, <3>3, RuleIsTypes DEF RuleOK
    <3> QED
      BY <1>4, <3>2, <3>3, Zenon DEF WritePortal
  <2>3. UNCHANGED <<up, lab, session, dataVars, marker, crashes>>
    BY <1>4, Zenon DEF WritePortal
  <2> QED BY <2>1, <2>2, <2>3 DEF RuleOK
<1>5. CASE WriteCollecting(c)
  <2>1. CallsOK
    BY <1>5, LeaveTypes DEF WriteCollecting
  <2>2. lab' \in LabState
    BY <1>0, <1>5 DEF WriteCollecting, Loaded, LabState
  <2> QED BY <1>5, <2>1, <2>2 DEF WriteCollecting
<1>6. CASE Reopen(c)
  <2>1. CallsOK
    BY <1>0, <1>6, LeaveTypes, GotoTypes DEF Reopen
  <2> QED BY <1>6, <2>1 DEF Reopen, SessionStatuses
<1>7. CASE ResumeStarts(c)
  <2>1. CASE lab # None /\ ~already_running /\ session_startable
    <3>1. CallsOK
      BY <1>0, <1>7, <2>1 DEF ResumeStarts, reactivated, Goto, Loaded
    <3> QED BY <1>7, <2>1, <3>1 DEF ResumeStarts, reactivated, SessionStatuses
  <2>2. CASE ~(lab # None /\ ~already_running /\ session_startable)
    <3>1. CallsOK
      BY <1>7, <2>2, LeaveTypes DEF ResumeStarts, reactivated
    <3> QED BY <1>7, <2>2, <3>1 DEF ResumeStarts, reactivated
  <2> QED BY <2>1, <2>2
<1>8. CASE RemoveRule(c)
  <2>1. CallsOK
    BY <1>0, <1>8, LeaveTypes, GotoTypes DEF RemoveRule, Loaded
  <2>2. RuleOK
    <3>1. CASE RuleIs(FALSE) /\ UNCHANGED helper
      BY <3>1, RuleIsTypes DEF RuleOK
    <3>2. CASE Outlives("delete") /\ UNCHANGED <<firewall, late>>
      BY <3>2, OutlivesTypes DEF RuleOK
    <3> QED
      BY <1>8, <3>1, <3>2, Zenon DEF RemoveRule
  <2>3. UNCHANGED <<up, lab, session, dataVars, server, listening, marker, crashes>>
    BY <1>8, Zenon DEF RemoveRule
  <2> QED BY <2>1, <2>2, <2>3 DEF RuleOK
<1>9. CASE ChangeSession(c)
  <2>1. CallsOK
    BY <1>0, <1>9, LeaveTypes, GotoTypes DEF ChangeSession, Loaded
  <2> QED BY <1>9, <2>1 DEF ChangeSession, SessionStatuses
<1>10. CASE WriteState(c)
  <2>1. CallsOK
    BY <1>10, LeaveTypes DEF WriteState
  <2>2. lab' \in LabState
    BY <1>0, <1>10 DEF WriteState, Loaded, LabState, stopped_status
  <2> QED BY <1>10, <2>1, <2>2 DEF WriteState
<1>11. CASE RemoveTree(c)
  <2>1. CallsOK
    BY <1>11, LeaveTypes DEF RemoveTree
  <2> QED BY <1>11, <2>1 DEF RemoveTree
<1>12. CASE ImportPackage(c)
  <2>1. CallsOK
    BY <1>0, <1>12, LeaveTypes, GotoTypes DEF ImportPackage, Loaded
  <2>2. imports' \in 0..MaxImports
    BY <1>12 DEF ImportPackage
  <2>3. raised' \subseteq 1..MaxImports
    <3>1. CASE raised' = raised
      BY <3>1
    <3>2. CASE imports' = imports + 1 /\ raised' = raised \cup {imports'}
      BY <2>2, <3>2
    <3> QED
      BY <1>12, <3>1, <3>2, Zenon DEF ImportPackage
  <2>4. evidence' \in BOOLEAN /\ UNCHANGED <<up, lab, session, uploading, accessVars, marker, crashes>>
    BY <1>12 DEF ImportPackage
  <2> QED BY <2>1, <2>2, <2>3, <2>4
<1>13. CASE WriteImported(c)
  <2>1. CallsOK
    BY <1>13, LeaveTypes DEF WriteImported
  <2>2. lab' \in LabState
    BY <1>0, <1>13 DEF WriteImported, LabState, report_after_import
  <2> QED BY <1>13, <2>1, <2>2 DEF WriteImported
<1>14. CASE Render(c)
  <2>1. CASE lab # None
    <3>1. [status |-> "COMPLETED", report |-> imports] \in LabState
      BY <1>0 DEF LabState
    <3>2. CallsOK
      BY <1>0, <1>14, <2>1, <3>1 DEF Render, Goto, Loaded
    <3> QED BY <1>14, <3>2 DEF Render
  <2>2. CASE lab = None
    <3>1. CallsOK
      BY <1>14, <2>2, LeaveTypes DEF Render
    <3> QED BY <1>14, <3>1 DEF Render
  <2> QED BY <2>1, <2>2
<1>15. CASE WriteReport(c)
  <2>1. CallsOK
    BY <1>15, LeaveTypes DEF WriteReport
  <2> QED BY <1>15, <2>1 DEF WriteReport
<1>16. CASE Scan(c)
  <2>1. CallsOK
    BY <1>0, <1>16, LeaveTypes, GotoTypes DEF Scan, Loaded
  <2> QED BY <1>16, <2>1 DEF Scan
<1>17. CASE WriteScanned(c)
  <2>1. CallsOK
    BY <1>17, LeaveTypes DEF WriteScanned
  <2>2. lab' \in LabState \cup {None}
    BY <1>0, <1>17 DEF WriteScanned, Loaded, LabState
  <2> QED BY <1>17, <2>1, <2>2 DEF WriteScanned
<1>18. CASE Exit(c)
  BY <1>0, <1>18 DEF Exit, Terminate, Outlives, Loaded
<1> QED
  BY <1>1, <1>2, <1>3, <1>4, <1>5, <1>6, <1>7, <1>8, <1>9, <1>10, <1>11, <1>12, <1>13, <1>14,
     <1>15, <1>16, <1>17, <1>18 DEF Step

LEMMA ArriveTypeInv == ASSUME TypeInv, NEW c \in Calls, Arrive(c) PROVE TypeInv'
<1> USE DEF TypeInv, TypeOK, CallsOK
<1>0. \A l \in {"reopen", "bind", "rule", "rmtree", "importing", "render", "scanning", "exit"} :
        l \in Labels
  BY DEF Labels
<1>1. CallsOK
  BY <1>0, BeginTypes DEF Arrive, Start, Pause, Resume, Stop, Cleanup, Delete, Import,
       GenerateReport, RunScan, Shutdown, ShutdownIdle, BeginLocked
<1>2. CASE Start(c)
  BY <1>1, <1>2 DEF Start, StartChecks, reactivated, SessionStatuses
<1>3. CASE Pause(c) \/ Stop(c) \/ Cleanup(c) \/ Shutdown(c)
  <2>1. StopServer
    BY <1>3, Zenon DEF Pause, Stop, Cleanup, Shutdown
  <2> QED
    BY <1>1, <2>1 DEF StopServer
<1>4. CASE Resume(c) \/ Import(c) \/ ShutdownIdle(c)
  <2>1. UNCHANGED <<up, lab, session, dataVars, accessVars, marker, crashes>>
    BY <1>4, Zenon DEF Resume, Import, ShutdownIdle
  <2> QED
    BY <1>1, <2>1
<1>5. CASE GenerateReport(c) \/ RunScan(c)
  <2>1. UNCHANGED <<up, lab, session, dataVars, accessVars, marker, crashes>>
    BY <1>5, Zenon DEF GenerateReport, RunScan
  <2> QED
    BY <1>1, <2>1
<1>6. CASE Delete(c)
  BY <1>1, <1>6 DEF Delete, SessionStatuses
<1> QED
  BY <1>2, <1>3, <1>4, <1>5, <1>6 DEF Arrive

LEMMA EnvironmentTypeInv == TypeInv /\ Environment => TypeInv'
<1> SUFFICES ASSUME TypeInv, Environment PROVE TypeInv'
  OBVIOUS
<1> USE LabAssumption DEF TypeInv, TypeOK, Loaded
<1>1. CASE UploadBegins \/ UploadEnds
  <2>1. /\ uploading' \in BOOLEAN /\ evidence' \in BOOLEAN
        /\ UNCHANGED <<up, lab, session, imports, raised, server, listening, firewall, helper, late,
                       marker, lock, pc, op, copy, crashes>>
    BY <1>1 DEF UploadBegins, UploadEnds
  <2> QED
    BY <2>1
<1>5. CASE RequestServerStop \/ MonitorStop
  <2>1. /\ marker' \in BOOLEAN /\ listening' \in BOOLEAN
        /\ UNCHANGED <<up, lab, session, evidence, imports, raised, uploading, server, firewall, helper,
                       late, lock, pc, op, copy, crashes>>
    BY <1>5 DEF RequestServerStop, MonitorStop
  <2> QED
    BY <2>1
<1>4. CASE LateHelper
  <2>1. late' \in {"no", "unseen", "seen"}
    BY <1>4 DEF LateHelper
  <2> QED
    BY <1>4, <2>1 DEF LateHelper
<1>2. CASE Crash
  <2>1. crashes' \in 0..MaxCrashes
    BY <1>2 DEF Crash
  <2>2. helper' \in {"add", "delete", None}
    BY <1>2, OutlivesTypes DEF Crash, Terminate
  <2> QED BY <1>2, <2>1, <2>2 DEF Crash, Terminate, Labels
<1>3. CASE Boot
  <2>1. lab' \in LabState \cup {None}
    BY <1>3 DEF Boot, LabState, LabStatuses
  <2> QED BY <1>3, <2>1 DEF Boot
<1> QED
  BY <1>1, <1>2, <1>3, <1>4, <1>5 DEF Environment

LEMMA NextTypeInv == TypeInv /\ [Next]_vars => TypeInv'
  BY StepTypeInv, ArriveTypeInv, EnvironmentTypeInv, StutterTypeInv DEF Next

\* Every file, flag and loaded copy of the life cycle is of its type in every
\* reachable state.
THEOREM LabTypeCorrect == Spec => []TypeOK
<1>1. TypeInv => TypeOK
  BY DEF TypeInv
<1> QED
  BY <1>1, InitTypeInv, NextTypeInv, PTL DEF Spec

-----------------------------------------------------------------------------
(* Access and the session.  AccessClosed is not inductive: closing the       *)
(* session must find the access removed, and a start that has passed its     *)
(* check must find the session still open.  Both rest on the lock, which     *)
(* every call that opens access or closes the session holds, except the      *)
(* recovery clean-up.                                                        *)

Opening == {"bind", "create", "register", "portal", "collecting"}

Closing == {"rule", "session", "state", "rmtree"}

HoldsLock(c) == pc[c] \in Opening \cup Closing => lock = c

\* A start in progress: the session it found open or opened is still open.
OpensOpenSession(c) == pc[c] \in Opening => session = "OPEN"

\* A stop or a deletion in progress: the access it has closed, or found closed,
\* stays closed.
StaysClosed(c) ==
  /\ pc[c] \in Closing => ~listening
  /\ pc[c] \in {"session", "state", "rmtree"} => (firewall => late # "no")

AccessInv ==
  /\ AccessClosed
  /\ listening => server
  /\ \A c \in Calls : HoldsLock(c) /\ OpensOpenSession(c) /\ StaysClosed(c)

USE DEF Opening, Closing

LEMMA InitAccess == Init => AccessInv
  BY DEF Init, AccessInv, AccessClosed, HoldsLock, OpensOpenSession, StaysClosed

LEMMA StutterAccess == AccessInv /\ UNCHANGED vars => AccessInv'
  BY DEF vars, AccessInv, AccessClosed, HoldsLock, OpensOpenSession, StaysClosed

LEMMA StepAccess ==
  ASSUME TypeInv, AccessInv, NEW c \in Calls, Step(c) PROVE AccessInv'
<1> USE LabAssumption DEF TypeInv, TypeOK, AccessInv, AccessClosed, HoldsLock,
        OpensOpenSession, StaysClosed, Goto, Leave
<1>1. CASE Bind(c)
  BY <1>1 DEF Bind
<1>2. CASE CreateRule(c)
  BY <1>2 DEF CreateRule, RuleIs
<1>3. CASE Register(c)
  BY <1>3 DEF Register
<1>4. CASE WritePortal(c)
  BY <1>4 DEF WritePortal, RuleIs
<1>5. CASE WriteCollecting(c)
  BY <1>5 DEF WriteCollecting
<1>6. CASE Reopen(c)
  BY <1>6 DEF Reopen, transition_allowed, AllowedTransitions
<1>7. CASE ResumeStarts(c)
  BY <1>7 DEF ResumeStarts, reactivated, session_startable
<1>8. CASE RemoveRule(c)
  BY <1>8 DEF RemoveRule, RuleIs
<1>9. CASE ChangeSession(c)
  BY <1>9 DEF ChangeSession
<1>10. CASE WriteState(c)
  BY <1>10 DEF WriteState
<1>11. CASE RemoveTree(c)
  BY <1>11 DEF RemoveTree
<1>12. CASE ImportPackage(c)
  BY <1>12 DEF ImportPackage
<1>13. CASE WriteImported(c)
  BY <1>13 DEF WriteImported
<1>14. CASE Render(c)
  BY <1>14 DEF Render
<1>15. CASE WriteReport(c)
  BY <1>15 DEF WriteReport
<1>16. CASE Scan(c)
  BY <1>16 DEF Scan
<1>17. CASE WriteScanned(c)
  BY <1>17 DEF WriteScanned
<1>18. CASE Exit(c)
  BY <1>18 DEF Exit, Terminate
<1> QED
  BY <1>1, <1>2, <1>3, <1>4, <1>5, <1>6, <1>7, <1>8, <1>9, <1>10, <1>11, <1>12, <1>13, <1>14,
     <1>15, <1>16, <1>17, <1>18 DEF Step

LEMMA ArriveAccess ==
  ASSUME "cleanup" \notin Kinds, TypeInv, AccessInv, NEW c \in Calls, Arrive(c)
  PROVE  AccessInv'
<1> USE LabAssumption DEF TypeInv, TypeOK, AccessInv, AccessClosed, HoldsLock,
        OpensOpenSession, StaysClosed, Goto, Begin, BeginLocked
<1>1. CASE Start(c)
  BY <1>1 DEF Start, StartChecks, reactivated, session_startable
<1>2. CASE Pause(c) \/ Stop(c) \/ Shutdown(c)
  BY <1>2 DEF Pause, Stop, Shutdown, StopServer
<1>3. CASE Resume(c)
  BY <1>3 DEF Resume
<1>4. CASE Delete(c)
  BY <1>4 DEF Delete, deletable
<1>5. CASE Import(c) \/ GenerateReport(c) \/ RunScan(c) \/ ShutdownIdle(c)
  BY <1>5 DEF Import, GenerateReport, RunScan, ShutdownIdle
<1>6. ~Cleanup(c)
  BY DEF Cleanup
<1> QED
  BY <1>1, <1>2, <1>3, <1>4, <1>5, <1>6 DEF Arrive

LEMMA EnvironmentAccess == AccessInv /\ Environment => AccessInv'
<1> SUFFICES ASSUME AccessInv, Environment PROVE AccessInv'
  OBVIOUS
<1> USE DEF AccessInv, AccessClosed, HoldsLock, OpensOpenSession, StaysClosed
<1>1. CASE UploadBegins \/ UploadEnds \/ RequestServerStop \/ MonitorStop
  BY <1>1 DEF UploadBegins, UploadEnds, RequestServerStop, MonitorStop
<1>2. CASE LateHelper
  <2>1. /\ UNCHANGED <<session, server, listening, lock, pc>>
        /\ firewall' => IF firewall THEN late' = late ELSE late' = "unseen"
    BY <1>2 DEF LateHelper
  <2> QED
    BY <2>1
<1>3. CASE Crash
  BY <1>3 DEF Crash, Terminate
<1>4. CASE Boot
  <2>1. UNCHANGED <<session, server, listening, firewall, lock, pc>> /\ (late # "no" => late' # "no")
    BY <1>4 DEF Boot
  <2> QED
    BY <2>1
<1> QED
  BY <1>1, <1>2, <1>3, <1>4 DEF Environment

\* As long as the recovery clean-up is not called, a closed session has no
\* listener and no firewall rule, in every interleaving of starts, pauses,
\* resumes, stops, deletions, imports and terminations, and with every fault.
THEOREM AccessClosedAlways == ASSUME "cleanup" \notin Kinds PROVE Spec => []AccessClosed
<1>1. TypeInv /\ AccessInv /\ [Next]_vars => AccessInv'
  BY StepAccess, ArriveAccess, EnvironmentAccess, StutterAccess DEF Next
<1>2. AccessInv => AccessClosed
  BY DEF AccessInv
<1> QED
  BY <1>1, <1>2, InitTypeInv, NextTypeInv, InitAccess, PTL DEF Spec

-----------------------------------------------------------------------------
(* The firewall rule, one request at a time.  A rule without a server is one   *)
(* that a terminated process left: whoever finds it must find it marked, and   *)
(* the calls that change the state must have removed it or kept the mark.      *)

OneCall == \A c, d \in Calls : c = d

Marked == firewall /\ ~server /\ late # "unseen" => lab # None /\ lab.status = "RECOVERY_REQUIRED"

\* What a call in progress knows of the rule.
RuleOf(c) ==
  /\ pc[c] \notin {"idle", "exit"} => lab # None
  /\ pc[c] \in {"reopen", "start", "bind", "create", "scanning", "scanned"} => Marked
  /\ pc[c] \in {"portal", "collecting"} => server
  /\ pc[c] \in {"session", "state", "rmtree"} => (firewall => late = "unseen")
  /\ pc[c] \in {"importing", "imported", "render", "rendered"} =>
       (firewall /\ late # "unseen" => server)
  /\ pc[c] \in {"scanning", "scanned"} /\ firewall /\ ~server /\ late # "unseen" =>
       copy[c].status = "RECOVERY_REQUIRED"

RuleInv ==
  /\ lab = None => (firewall => late = "unseen")
  /\ ~up => ~server /\ Quiet
  /\ up /\ Quiet => Marked
  /\ \A c \in Calls : RuleOf(c)

LEMMA InitRule == Init => RuleInv
<1>1. [status |-> "DRAFT", report |-> None] # None
  <2>1. [status |-> "DRAFT", report |-> None] \in LabState
    BY DEF LabState, LabStatuses
  <2> QED
    BY <2>1, StateAssumption
<1> QED
  BY <1>1 DEF Init, RuleInv, RuleOf, Marked, Quiet

LEMMA StepRule ==
  ASSUME OneCall, "remove" \notin Faults, TypeInv, TypeInv', RuleInv, NEW c \in Calls, Step(c)
  PROVE  RuleInv'
<1>0. (\A d \in Calls : d = c) /\ (pc[c] # "idle" => up) /\ None \notin LabState
  BY StateAssumption DEF OneCall, RuleInv, Quiet
<1> USE DEF TypeInv, TypeOK, Loaded, RuleInv, RuleOf, Marked, Quiet, Goto, Leave, LabState
<1>1. CASE Bind(c)
  BY <1>0, <1>1 DEF Bind
<1>2. CASE CreateRule(c)
  <2>1. CASE firewall' = TRUE /\ Goto(c, "register") /\ UNCHANGED <<lock, op, copy>>
    BY <1>0, <1>2, <2>1 DEF CreateRule
  <2>2. CASE firewall' = FALSE /\ Leave(c)
    BY <1>0, <1>2, <2>2 DEF CreateRule
  <2>3. RuleAfterFailure = {FALSE}
    BY Zenon DEF RuleAfterFailure
  <2> QED BY <1>2, <2>1, <2>2, <2>3 DEF CreateRule, RuleIs
<1>3. CASE Register(c)
  BY <1>0, <1>3 DEF Register
<1>4. CASE WritePortal(c)
  BY <1>0, <1>4 DEF WritePortal, RuleAfterFailure, RuleIs
<1>5. CASE WriteCollecting(c)
  <2>1. lab' = [copy[c] EXCEPT !.status = "COLLECTING"] /\ copy[c] \in LabState /\ server
    BY <1>5 DEF WriteCollecting
  <2>2. lab' \in LabState
    BY <2>1 DEF LabStatuses
  <2> HIDE DEF LabState
  <2>3. lab' # None
    BY <1>0, <2>2
  <2> QED
    BY <1>0, <1>5, <2>1, <2>3 DEF WriteCollecting
<1>6. CASE Reopen(c)
  BY <1>0, <1>6 DEF Reopen
<1>7. CASE ResumeStarts(c)
  BY <1>0, <1>7 DEF ResumeStarts
<1>8. CASE RemoveRule(c)
  BY <1>0, <1>8 DEF RemoveRule, RuleIs
<1>9. CASE ChangeSession(c)
  BY <1>0, <1>9 DEF ChangeSession
<1>10. CASE WriteState(c)
  BY <1>0, <1>10 DEF WriteState
<1>11. CASE RemoveTree(c)
  BY <1>0, <1>11 DEF RemoveTree
<1>12. CASE ImportPackage(c)
  BY <1>0, <1>12 DEF ImportPackage
<1>13. CASE WriteImported(c)
  <2>1. /\ pc[c] = "imported" /\ (firewall /\ late # "unseen" => server)
        /\ UNCHANGED <<up, firewall, late, server>>
    BY <1>13 DEF WriteImported
  <2>2. lab' \in LabState
    BY <1>13 DEF WriteImported, report_after_import, LabStatuses
  <2> HIDE DEF LabState
  <2>3. lab' # None
    BY <1>0, <2>2
  <2>4. pc'[c] \in {"idle", "exit"}
    BY <1>13 DEF WriteImported
  <2> QED
    BY <1>0, <2>1, <2>3, <2>4
<1>14. CASE Render(c)
  BY <1>0, <1>14 DEF Render
<1>15. CASE WriteReport(c)
  BY <1>0, <1>15 DEF WriteReport
<1>16. CASE Scan(c)
  BY <1>0, <1>16 DEF Scan
<1>17. CASE WriteScanned(c)
  <2>1. /\ pc[c] = "scanned" /\ UNCHANGED <<up, firewall, late, server>>
        /\ lab # None /\ Marked /\ copy[c] \in LabState
        /\ (firewall /\ ~server /\ late # "unseen" => copy[c].status = "RECOVERY_REQUIRED")
    BY <1>17 DEF WriteScanned
  <2>2. pc'[c] \in {"idle", "exit"}
    BY <1>17 DEF WriteScanned
  <2>3. CASE lab' = lab
    BY <1>0, <2>1, <2>2, <2>3
  <2>4. CASE lab' # lab
    <3>1. lab' = [report |-> None,
                  status |-> IF copy[c].status = "COMPLETED" THEN "READY_FOR_REPORT"
                             ELSE copy[c].status]
      BY <1>17, <2>4 DEF WriteScanned
    <3>2. lab' \in LabState
      BY <2>1, <3>1 DEF LabStatuses
    <3>3. firewall /\ ~server /\ late # "unseen" => lab'.status = "RECOVERY_REQUIRED"
      BY <2>1, <3>1
    <3> HIDE DEF LabState
    <3>4. lab' # None
      BY <1>0, <3>2
    <3> QED
      BY <1>0, <2>1, <2>2, <3>3, <3>4
  <2> QED
    BY <2>3, <2>4
<1>18. CASE Exit(c)
  BY <1>0, <1>18 DEF Exit, Terminate
<1> QED
  BY <1>1, <1>2, <1>3, <1>4, <1>5, <1>6, <1>7, <1>8, <1>9,
     <1>10, <1>11, <1>12, <1>13, <1>14, <1>15, <1>16, <1>17, <1>18 DEF Step

LEMMA ArriveRule ==
  ASSUME OneCall, TypeInv, TypeInv', RuleInv, NEW c \in Calls, Arrive(c)
  PROVE  RuleInv'
<1>0. \A d \in Calls : d = c
  BY DEF OneCall
<1> USE DEF TypeInv, TypeOK, RuleInv, RuleOf, Marked, Quiet, Goto, Begin, BeginLocked
<1>1. CASE Start(c)
  BY <1>0, <1>1 DEF Start, StartChecks
<1>2. CASE Pause(c) \/ Stop(c) \/ Cleanup(c) \/ Shutdown(c)
  BY <1>0, <1>2 DEF Pause, Stop, Cleanup, Shutdown, StopServer
<1>3. CASE Resume(c)
  BY <1>0, <1>3 DEF Resume
<1>4. CASE Delete(c)
  BY <1>0, <1>4 DEF Delete, deletable
<1>5. CASE Import(c)
  BY <1>0, <1>5 DEF Import
<1>6. CASE GenerateReport(c)
  BY <1>0, <1>6 DEF GenerateReport
<1>7. CASE RunScan(c)
  BY <1>0, <1>7 DEF RunScan
<1>8. CASE ShutdownIdle(c)
  BY <1>0, <1>8 DEF ShutdownIdle
<1> QED
  BY <1>1, <1>2, <1>3, <1>4, <1>5, <1>6, <1>7, <1>8 DEF Arrive

LEMMA EnvironmentRule ==
  ASSUME TypeInv, TypeInv', RuleInv, Environment
  PROVE  RuleInv'
<1> USE DEF TypeInv, TypeOK, RuleInv, RuleOf, Marked, Quiet
<1>1. CASE UploadBegins \/ UploadEnds \/ RequestServerStop \/ MonitorStop \/ LateHelper
  BY <1>1 DEF UploadBegins, UploadEnds, RequestServerStop, MonitorStop, LateHelper
<1>2. CASE Crash
  BY <1>2 DEF Crash, Terminate
<1>3. CASE Boot
  <2>1. CASE lab # None /\ orphaned
    <3>1. lab' = [lab EXCEPT !.status = "RECOVERY_REQUIRED"] /\ lab \in LabState
      BY <1>3, <2>1 DEF Boot
    <3>2. lab'.status = "RECOVERY_REQUIRED" /\ lab' \in LabState
      BY <3>1 DEF LabState, LabStatuses
    <3>3. lab' # None
      BY <3>2, StateAssumption
    <3> QED
      BY <1>3, <3>2, <3>3 DEF Boot
  <2>2. CASE ~(lab # None /\ orphaned)
    BY <1>3, <2>2 DEF Boot, orphaned
  <2> QED
    BY <2>1, <2>2
<1> QED
  BY <1>1, <1>2, <1>3 DEF Environment

\* With one request at a time and a firewall rule that can be removed, whatever is
\* terminated, fails to start or to close: while the application runs, a rule that
\* no server uses is there only in the state RECOVERY_REQUIRED.
THEOREM AccessAccountedAlways ==
  ASSUME OneCall, "remove" \notin Faults
  PROVE  Spec => []AccessAccounted
<1>1. TypeInv /\ RuleInv /\ [Next]_vars => RuleInv'
  <2> SUFFICES ASSUME TypeInv, RuleInv, [Next]_vars PROVE RuleInv'
    OBVIOUS
  <2>1. TypeInv'
    BY NextTypeInv
  <2>2. CASE UNCHANGED vars
    BY <2>2 DEF vars, RuleInv, RuleOf, Marked, Quiet
  <2> QED
    BY <2>1, <2>2, StepRule, ArriveRule, EnvironmentRule DEF Next
<1>2. RuleInv => AccessAccounted
  BY DEF RuleInv, Marked, AccessAccounted
<1> QED
  BY <1>1, <1>2, InitTypeInv, NextTypeInv, InitRule, PTL DEF Spec

-----------------------------------------------------------------------------
(* The report, one request at a time.  The state a call writes back is the one  *)
(* it loaded, so what that one says of the imports must still hold; only        *)
(* between a stored package and the state that drops the report is it stale.    *)

Covers(state) == state.report # None => (state.report + 1)..imports \subseteq raised

ReportInv ==
  crashes = 0 =>
    /\ lab # None /\ (\A c \in Calls : pc[c] # "imported") => Covers(lab)
    /\ \A c \in Calls :
         pc[c] \in {"bind", "create", "register", "portal", "collecting", "rule", "session",
                    "state", "rendered"} => Covers(copy[c])

LEMMA InitReport == Init => ReportInv
  BY DEF Init, ReportInv, Covers

LEMMA StepReport ==
  ASSUME OneCall, TypeInv, TypeInv', ReportInv, NEW c \in Calls, Step(c)
  PROVE  ReportInv'
<1>0. (\A d \in Calls : d = c) /\ None \notin LabState
  BY StateAssumption DEF OneCall
<1> USE DEF TypeInv, TypeOK, Loaded, ReportInv, Covers, Goto, Leave, LabState
<1>1. CASE Bind(c)
  BY <1>0, <1>1 DEF Bind
<1>2. CASE CreateRule(c)
  <2>1. CASE firewall' = TRUE /\ Goto(c, "register") /\ UNCHANGED <<lock, op, copy>>
    BY <1>0, <1>2, <2>1 DEF CreateRule
  <2>2. CASE Leave(c)
    BY <1>0, <1>2, <2>2 DEF CreateRule
  <2> QED BY <1>2, <2>1, <2>2, Zenon DEF CreateRule
<1>3. CASE Register(c)
  BY <1>0, <1>3 DEF Register
<1>4. CASE WritePortal(c)
  <2>1. CASE Goto(c, "collecting") /\ UNCHANGED <<accessVars, lock, op, copy>>
    BY <1>0, <1>4, <2>1 DEF WritePortal
  <2>2. CASE Leave(c)
    BY <1>0, <1>4, <2>2 DEF WritePortal
  <2> QED BY <1>4, <2>1, <2>2, Zenon DEF WritePortal
<1>5. CASE WriteCollecting(c)
  BY <1>0, <1>5 DEF WriteCollecting
<1>6. CASE Reopen(c)
  BY <1>0, <1>6 DEF Reopen
<1>7. CASE ResumeStarts(c)
  BY <1>0, <1>7 DEF ResumeStarts
<1>8. CASE RemoveRule(c)
  <2>1. CASE RuleIs(FALSE) /\ Goto(c, "session") /\ UNCHANGED <<helper, lock, op, copy>>
    BY <1>0, <1>8, <2>1 DEF RemoveRule
  <2>2. CASE Leave(c)
    BY <1>0, <1>8, <2>2 DEF RemoveRule
  <2> QED BY <1>8, <2>1, <2>2, Zenon DEF RemoveRule
<1>9. CASE ChangeSession(c)
  BY <1>0, <1>9 DEF ChangeSession
<1>10. CASE WriteState(c)
  BY <1>0, <1>10 DEF WriteState
<1>11. CASE RemoveTree(c)
  BY <1>0, <1>11 DEF RemoveTree
<1>12. CASE ImportPackage(c)
  BY <1>0, <1>12 DEF ImportPackage
<1>13. CASE WriteImported(c)
  BY <1>0, <1>13 DEF WriteImported, report_after_import
<1>14. CASE Render(c)
  BY <1>0, <1>14 DEF Render
<1>15. CASE WriteReport(c)
  BY <1>0, <1>15 DEF WriteReport
<1>16. CASE Scan(c)
  BY <1>0, <1>16 DEF Scan
<1>17. CASE WriteScanned(c)
  BY <1>0, <1>17 DEF WriteScanned
<1>18. CASE Exit(c)
  BY <1>0, <1>18 DEF Exit, Terminate
<1> QED
  BY <1>1, <1>2, <1>3, <1>4, <1>5, <1>6, <1>7, <1>8, <1>9,
     <1>10, <1>11, <1>12, <1>13, <1>14, <1>15, <1>16, <1>17, <1>18 DEF Step

LEMMA ArriveReport ==
  ASSUME OneCall, TypeInv, TypeInv', ReportInv, NEW c \in Calls, Arrive(c)
  PROVE  ReportInv'
<1>0. \A d \in Calls : d = c
  BY DEF OneCall
<1> USE DEF TypeInv, TypeOK, ReportInv, Covers, Goto, Begin, BeginLocked
<1>1. CASE Start(c)
  BY <1>0, <1>1 DEF Start, StartChecks
<1>2. CASE Pause(c) \/ Stop(c) \/ Cleanup(c) \/ Shutdown(c)
  BY <1>0, <1>2 DEF Pause, Stop, Cleanup, Shutdown, StopServer
<1>3. CASE Resume(c) \/ Delete(c) \/ Import(c)
  BY <1>0, <1>3 DEF Resume, Delete, Import
<1>4. CASE GenerateReport(c) \/ RunScan(c) \/ ShutdownIdle(c)
  BY <1>0, <1>4 DEF GenerateReport, RunScan, ShutdownIdle
<1> QED
  BY <1>1, <1>2, <1>3, <1>4 DEF Arrive

LEMMA EnvironmentReport ==
  ASSUME TypeInv, TypeInv', ReportInv, Environment
  PROVE  ReportInv'
<1> USE DEF TypeInv, TypeOK, ReportInv, Covers
<1>1. CASE UploadBegins \/ UploadEnds \/ RequestServerStop \/ MonitorStop \/ LateHelper
  BY <1>1 DEF UploadBegins, UploadEnds, RequestServerStop, MonitorStop, LateHelper
<1>2. CASE Crash
  <2>1. crashes' # 0
    BY <1>2, LabAssumption DEF Crash
  <2> QED
    BY <2>1
<1>3. CASE Boot
  <2>1. lab # None => lab'.report = lab.report
    BY <1>3 DEF Boot, LabState
  <2>2. lab = None => lab' = None
    BY <1>3 DEF Boot
  <2> QED
    BY <1>3, <2>1, <2>2 DEF Boot
<1> QED
  BY <1>1, <1>2, <1>3 DEF Environment

\* With one request at a time and no termination, the recorded report covers every
\* imported package, in every order of imports, reports, scans, starts and stops.
THEOREM ReportCoversImportsAlways ==
  ASSUME OneCall
  PROVE  Spec => []ReportCoversImports
<1>1. TypeInv /\ ReportInv /\ [Next]_vars => ReportInv'
  <2> SUFFICES ASSUME TypeInv, ReportInv, [Next]_vars PROVE ReportInv'
    OBVIOUS
  <2>1. TypeInv'
    BY NextTypeInv
  <2>2. CASE UNCHANGED vars
    BY <2>2 DEF vars, ReportInv, Covers
  <2> QED
    BY <2>1, <2>2, StepReport, ArriveReport, EnvironmentReport DEF Next
<1>2. ReportInv => ReportCoversImports
  BY DEF ReportInv, Covers, Quiet, ReportCoversImports
<1> QED
  BY <1>1, <1>2, InitTypeInv, NextTypeInv, InitReport, PTL DEF Spec
=============================================================================
