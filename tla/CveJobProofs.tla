---------------------------- MODULE CveJobProofs ----------------------------
(***************************************************************************)
(* Proofs about the background scan, for every number of workers and       *)
(* endpoints and every choice of faults.                                   *)
(***************************************************************************)
EXTENDS CveJob, TLAPS

\* A worker is at an endpoint.
Scanning == {"scan", "markcancelled", "markfailed", "remark"}

\* A worker at an endpoint has a next one to scan, within its own list.
IndexOK == \A w \in Workers :
  /\ index[w] <= total[w] + 1
  /\ pc[w] \in Scanning => index[w] <= total[w]

TypeInv == TypeOK /\ IndexOK

LEMMA AggregateType ==
  ASSUME NEW states \in SUBSET Statuses
  PROVE  aggregate_statuses(states) \in Statuses
<1>1. CASE "RUNNING" \in states
  BY <1>1 DEF aggregate_statuses, Statuses
<1>2. CASE "RUNNING" \notin states /\ \E s \in states : states = {s}
  <2>1. (CHOOSE s \in states : TRUE) \in states
    BY <1>2
  <2>2. QED BY <1>2, <2>1 DEF aggregate_statuses
<1>3. CASE "RUNNING" \notin states /\ ~\E s \in states : states = {s}
  BY <1>3 DEF aggregate_statuses, Statuses, Outcomes
<1>4. QED BY <1>1, <1>2, <1>3

LEMMA TypeInit == Init => TypeInv
BY JobAssumption DEF Init, TypeInv, TypeOK, IndexOK, Endpoints, Statuses, Active, Terminal, Working, Scanning

\* Where only the label of one worker changes, and the status of endpoints with it.
LEMMA LabelType ==
  ASSUME TypeInv, NEW w \in Workers,
         UNCHANGED <<event, set, held, index, total, read, present, result, crashes>>,
         job' \in Active \cup Terminal \cup {None},
         status' \in [Endpoints -> Statuses], unmarked' \subseteq Endpoints,
         pc' = [pc EXCEPT ![w] = pc'[w]], pc'[w] \in Working,
         pc'[w] \in Scanning => index[w] <= total[w]
  PROVE  TypeInv'
<1>1. pc' \in [Workers -> Working \cup {"none", "final", "raised", "done", "lost"}]
  BY DEF TypeInv, TypeOK
<1>2. TypeOK'
  BY <1>1 DEF TypeInv, TypeOK
<1>3. IndexOK'
  BY DEF TypeInv, TypeOK, IndexOK
<1> QED
  BY <1>2, <1>3 DEF TypeInv

LEMMA TypeNext == TypeInv /\ [Next]_vars => TypeInv'
<1> SUFFICES ASSUME TypeInv, [Next]_vars PROVE TypeInv'
  OBVIOUS
<1> USE JobAssumption DEF TypeInv, TypeOK, IndexOK, Endpoints, Statuses, Outcomes, Active, Terminal,
                          Working, Scanning, local, findings, Goto
<1>1. CASE Cancel
  BY <1>1 DEF Cancel
<1>2. CASE Arrive
  BY <1>2 DEF Arrive
<1>3. CASE Crash
  BY <1>3 DEF Crash
<1>4. CASE UNCHANGED vars
  BY <1>4 DEF vars
<1>5. ASSUME NEW w \in Workers, StartJob(w) PROVE TypeInv'
  BY <1>5 DEF StartJob
<1>6. ASSUME NEW w \in Workers, BeginJob(w) PROVE TypeInv'
  <2>1. total[w] <= present /\ total[w] \in Nat /\ present \in Nat /\ index[w] \in Nat
    OBVIOUS
  <2>2. index[w] <= present + 1
    BY <2>1
  <2>3. pc' = [pc EXCEPT ![w] = pc'[w]] /\ pc'[w] \in {"endpoint", "failed"}
    BY <1>6 DEF BeginJob
  <2>4. IndexOK'
    BY <1>6, <2>1, <2>2, <2>3 DEF BeginJob
  <2>5. TypeOK'
    <3>1. present \in 0..present
      BY <2>1
    <3>2. total' \in [Workers -> 0..present]
      BY <1>6, <3>1 DEF BeginJob
    <3>3. held' \in [Workers -> Workers \cup {None}]
      BY <1>6 DEF BeginJob
    <3>4. pc' \in [Workers -> Working \cup {"none", "final", "raised", "done", "lost"}]
      BY <2>3
    <3>5. QED BY <1>6, <3>2, <3>3, <3>4 DEF BeginJob
  <2>6. QED BY <2>4, <2>5
<1>7. ASSUME NEW w \in Workers, NextEndpoint(w) PROVE TypeInv'
  <2>1. /\ pc' = [pc EXCEPT ![w] = pc'[w]] /\ pc'[w] \in {"scan", "remark", "failed"}
        /\ index[w] <= total[w]
    BY <1>7 DEF NextEndpoint, remaining
  <2>2. status' \in [Endpoints -> Statuses]
    BY <1>7 DEF NextEndpoint
  <2>3. unmarked' \subseteq Endpoints
    BY <1>7 DEF NextEndpoint
  <2>4. /\ UNCHANGED <<event, set, held, index, total, read, present, result, crashes>>
        /\ job' \in Active
    BY <1>7 DEF NextEndpoint, progress_state
  <2> QED
    BY <2>1, <2>2, <2>3, <2>4, LabelType
<1>8. ASSUME NEW w \in Workers, StopBetweenEndpoints(w) PROVE TypeInv'
  BY <1>8 DEF StopBetweenEndpoints
<1>9. ASSUME NEW w \in Workers, ScanEndpoint(w) PROVE TypeInv'
  BY <1>9 DEF ScanEndpoint
<1>10. ASSUME NEW w \in Workers, ScanCancelled(w) PROVE TypeInv'
  BY <1>10 DEF ScanCancelled
<1>11. ASSUME NEW w \in Workers, ScanFailed(w) PROVE TypeInv'
  <2>1. pc[w] = "scan" /\ pc' = [pc EXCEPT ![w] = pc'[w]] /\ pc'[w] \in {"markfailed", "remark"}
    BY <1>11 DEF ScanFailed
  <2>2. status' \in [Endpoints -> Statuses]
    <3>1. \/ status' = status
          \/ \E outcome \in Outcomes : status' = [status EXCEPT ![index[w]] = outcome]
      BY <1>11 DEF ScanFailed
    <3>2. ASSUME NEW outcome \in Outcomes PROVE [status EXCEPT ![index[w]] = outcome] \in [Endpoints -> Statuses]
      OBVIOUS
    <3> QED
      BY <3>1, <3>2
  <2>3. UNCHANGED <<job, event, set, held, index, total, read, present, unmarked, result, crashes>>
    BY <1>11 DEF ScanFailed
  <2> QED
    BY <2>1, <2>2, <2>3, LabelType
<1>19. ASSUME NEW w \in Workers, MarkCancelled(w) PROVE TypeInv'
  <2>1. /\ pc[w] = "markcancelled" /\ pc' = [pc EXCEPT ![w] = pc'[w]]
        /\ pc'[w] \in {"cancelled", "remark", "failed"}
    BY <1>19 DEF MarkCancelled
  <2>2. status' \in [Endpoints -> Statuses]
    BY <1>19 DEF MarkCancelled, cancelled_status
  <2>3. UNCHANGED <<job, event, set, held, index, total, read, present, unmarked, result, crashes>>
    BY <1>19 DEF MarkCancelled
  <2> QED
    BY <2>1, <2>2, <2>3, LabelType
<1>20. ASSUME NEW w \in Workers, MarkFailed(w) PROVE TypeInv'
  <2>1. /\ pc[w] \in {"markfailed", "remark"} /\ pc' = [pc EXCEPT ![w] = pc'[w]]
        /\ pc'[w] \in {"remark", "failed"}
    BY <1>20 DEF MarkFailed
  <2>2. status' \in [Endpoints -> Statuses]
    BY <1>20 DEF MarkFailed
  <2>3. unmarked' \subseteq Endpoints
    <3>1. index[w] <= total[w] /\ total[w] \in 0..present /\ present \in 1..MaxEndpoints
      BY <2>1
    <3>2. index[w] \in Endpoints
      BY <3>1
    <3>3. unmarked' = unmarked \/ unmarked' = unmarked \cup {index[w]}
      BY <1>20 DEF MarkFailed
    <3> QED
      BY <3>2, <3>3
  <2>4. UNCHANGED <<job, event, set, held, index, total, read, present, result, crashes>>
    BY <1>20 DEF MarkFailed
  <2> QED
    BY <2>1, <2>2, <2>3, <2>4, LabelType
<1>12. ASSUME NEW w \in Workers, CompleteScan(w) PROVE TypeInv'
  <2>1. pc' = [pc EXCEPT ![w] = pc'[w]] /\ pc'[w] \in {"check", "failed"}
    BY <1>12 DEF CompleteScan
  <2>2. present \in 0..present
    OBVIOUS
  <2>3. read' \in [Workers -> 0..present]
    BY <1>12, <2>2 DEF CompleteScan
  <2>4. pc' \in [Workers -> Working \cup {"none", "final", "raised", "done", "lost"}]
    BY <2>1
  <2>5. QED BY <1>12, <2>1, <2>3, <2>4 DEF CompleteScan
<1>13. ASSUME NEW w \in Workers, CheckCancelled(w) PROVE TypeInv'
  <2>1. pc' = [pc EXCEPT ![w] = pc'[w]] /\ pc'[w] \in {"failed", "cancelled", "publish"}
    BY <1>13 DEF CheckCancelled
  <2>2. QED BY <1>13, <2>1 DEF CheckCancelled
<1>14. ASSUME NEW w \in Workers, PublishCompleted(w) PROVE TypeInv'
  <2>1. {status[i] : i \in 1..read[w]} \in SUBSET Statuses
    <3>1. \A i \in 1..read[w] : i \in Endpoints
      <4>1. read[w] \in 0..present /\ present \in 1..MaxEndpoints
        OBVIOUS
      <4>2. QED BY <4>1
    <3>2. \A i \in 1..read[w] : status[i] \in Statuses
      BY <3>1
    <3> HIDE DEF Statuses
    <3>3. QED BY <3>2
  <2>2. result' \in Statuses
    BY <1>14, <2>1, AggregateType DEF PublishCompleted
  <2>3. QED BY <1>14, <2>2 DEF PublishCompleted
<1>15. ASSUME NEW w \in Workers, PublishCancelled(w) PROVE TypeInv'
  <2>1. pc' = [pc EXCEPT ![w] = pc'[w]] /\ pc'[w] \in {"final", "raised"}
    BY <1>15 DEF PublishCancelled
  <2>2. pc' \in [Workers -> Working \cup {"none", "final", "raised", "done", "lost"}]
    BY <2>1
  <2>3. /\ job' \in Active \cup Terminal \cup {None}
        /\ result' \in Statuses \cup {None}
    BY <1>15 DEF PublishCancelled
  <2>4. UNCHANGED <<event, set, local, findings, crashes>>
    BY <1>15 DEF PublishCancelled
  <2>5. TypeOK'
    BY <2>2, <2>3, <2>4 DEF local, findings
  <2>6. IndexOK'
    BY <2>1, <2>4 DEF local, findings
  <2>7. QED BY <2>5, <2>6
<1>16. ASSUME NEW w \in Workers, PublishFailed(w) PROVE TypeInv'
  BY <1>16 DEF PublishFailed, fail_job
<1>17. ASSUME NEW w \in Workers, PopEvent(w) PROVE TypeInv'
  <2>1. pc' = [pc EXCEPT ![w] = pc'[w]] /\ pc'[w] \in {"done", "lost"}
    BY <1>17 DEF PopEvent
  <2>2. QED BY <1>17, <2>1 DEF PopEvent
<1>18. ASSUME NEW w \in Workers, Progress(w) PROVE TypeInv'
  BY <1>18 DEF Progress, progress_state
<1>21. QED
  BY <1>1, <1>2, <1>3, <1>4, <1>5, <1>6, <1>7, <1>8, <1>9, <1>10, <1>11, <1>12, <1>13, <1>14,
     <1>15, <1>16, <1>17, <1>18, <1>19, <1>20 DEF Next, Worker

\* Every variable keeps its type: in particular an endpoint that is scanned is
\* one that the worker found, and the published result is a known status.
THEOREM JobTypeCorrect == Spec => []TypeOK
<1>1. TypeInv => TypeOK
  BY DEF TypeInv
<1>2. QED BY TypeInit, TypeNext, <1>1, PTL DEF Spec

-----------------------------------------------------------------------------
\* While a worker is at work the job is published as active, and so no other
\* can be started.
WorkIsActive == \A w \in Workers : pc[w] \in Working => job \in Active

ScanInv == TypeInv /\ WorkIsActive /\ OneScan

LEMMA ScanInit == Init => ScanInv
BY TypeInit DEF Init, ScanInv, WorkIsActive, OneScan, Working

LEMMA ScanNext == ScanInv /\ [Next]_vars => ScanInv'
<1> SUFFICES ASSUME ScanInv, [Next]_vars PROVE ScanInv'
  OBVIOUS
<1>t. TypeInv'
  BY TypeNext DEF ScanInv
<1> USE <1>t DEF ScanInv, TypeInv, TypeOK, WorkIsActive, OneScan, Active, Working, Goto
<1>1. CASE Cancel
  BY <1>1 DEF Cancel
<1>2. CASE Arrive
  BY <1>2 DEF Arrive
<1>3. CASE Crash
  BY <1>3 DEF Crash
<1>4. CASE UNCHANGED vars
  BY <1>4 DEF vars
<1>5. ASSUME NEW w \in Workers, StartJob(w) PROVE ScanInv'
  BY <1>5 DEF StartJob, startable
<1>6. ASSUME NEW w \in Workers, BeginJob(w) PROVE ScanInv'
  BY <1>6 DEF BeginJob
<1>7. ASSUME NEW w \in Workers, NextEndpoint(w) PROVE ScanInv'
  BY <1>7 DEF NextEndpoint, progress_state
<1>8. ASSUME NEW w \in Workers, StopBetweenEndpoints(w) PROVE ScanInv'
  BY <1>8 DEF StopBetweenEndpoints
<1>9. ASSUME NEW w \in Workers, ScanEndpoint(w) PROVE ScanInv'
  BY <1>9 DEF ScanEndpoint
<1>10. ASSUME NEW w \in Workers, ScanCancelled(w) PROVE ScanInv'
  BY <1>10 DEF ScanCancelled
<1>11. ASSUME NEW w \in Workers, ScanFailed(w) PROVE ScanInv'
  BY <1>11 DEF ScanFailed
<1>19. ASSUME NEW w \in Workers, MarkCancelled(w) PROVE ScanInv'
  BY <1>19 DEF MarkCancelled
<1>20. ASSUME NEW w \in Workers, MarkFailed(w) PROVE ScanInv'
  BY <1>20 DEF MarkFailed
<1>12. ASSUME NEW w \in Workers, CompleteScan(w) PROVE ScanInv'
  BY <1>12 DEF CompleteScan
<1>13. ASSUME NEW w \in Workers, CheckCancelled(w) PROVE ScanInv'
  BY <1>13 DEF CheckCancelled
<1>14. ASSUME NEW w \in Workers, PublishCompleted(w) PROVE ScanInv'
  BY <1>14 DEF PublishCompleted
<1>15. ASSUME NEW w \in Workers, PublishCancelled(w) PROVE ScanInv'
  BY <1>15 DEF PublishCancelled
<1>16. ASSUME NEW w \in Workers, PublishFailed(w) PROVE ScanInv'
  BY <1>16 DEF PublishFailed, fail_job
<1>17. ASSUME NEW w \in Workers, PopEvent(w) PROVE ScanInv'
  BY <1>17 DEF PopEvent
<1>18. ASSUME NEW w \in Workers, Progress(w) PROVE ScanInv'
  BY <1>18 DEF Progress, progress_state
<1>21. QED
  BY <1>1, <1>2, <1>3, <1>4, <1>5, <1>6, <1>7, <1>8, <1>9, <1>10, <1>11, <1>12, <1>13, <1>14,
     <1>15, <1>16, <1>17, <1>18, <1>19, <1>20 DEF Next, Worker

\* One scan of an assessment works at a time, through any sequence of starts,
\* cancellations, failures and process terminations.
THEOREM OneScanAlways == Spec => []OneScan
<1>1. ScanInv => OneScan
  BY DEF ScanInv
<1>2. QED BY ScanInit, ScanNext, <1>1, PTL DEF Spec

-----------------------------------------------------------------------------
\* Before any termination an endpoint marked RUNNING is being scanned, or could not
\* be marked.
RunningIsScanned ==
  crashes = 0 =>
    \A i \in Endpoints : status[i] = "RUNNING" =>
      i \in unmarked \/ \E w \in Workers : pc[w] \in Scanning /\ index[w] = i

\* Also after one, a worker has those marked RUNNING ahead of it, all of them in its
\* list, and a job that is published as completed has none.
RunningIsPresent == \A i \in Endpoints : status[i] = "RUNNING" => i <= present

RunningIsAhead == \A w \in Workers :
  /\ pc[w] \in {"none", "begin"} => index[w] = 1
  /\ pc[w] \in {"endpoint", "check", "publish"} \cup Scanning =>
       \A i \in Endpoints : status[i] = "RUNNING" => index[w] <= i /\ i <= total[w]
  /\ pc[w] \in {"check", "publish"} => index[w] > total[w]

CompletedIsClean == job = "COMPLETED" => \A i \in Endpoints : status[i] # "RUNNING"

AheadInv == RunningIsPresent /\ RunningIsAhead /\ CompletedIsClean

EndpointInv == ScanInv /\ RunningIsScanned /\ AheadInv

LEMMA EndpointInit == Init => EndpointInv
BY ScanInit DEF Init, EndpointInv, RunningIsScanned, AheadInv, RunningIsPresent, RunningIsAhead,
                CompletedIsClean, Scanning

LEMMA ScannedNext == ScanInv /\ RunningIsScanned /\ [Next]_vars => RunningIsScanned'
<1> SUFFICES ASSUME ScanInv, RunningIsScanned, [Next]_vars PROVE RunningIsScanned'
  OBVIOUS
<1> USE DEF ScanInv, TypeInv, TypeOK, RunningIsScanned, Scanning, Goto, local, findings
<1>1. CASE Cancel
  BY <1>1 DEF Cancel
<1>2. CASE Arrive
  BY <1>2 DEF Arrive
<1>3. CASE Crash
  BY <1>3, JobAssumption DEF Crash
<1>4. CASE UNCHANGED vars
  BY <1>4 DEF vars
<1>5. ASSUME NEW w \in Workers, StartJob(w) PROVE RunningIsScanned'
  BY <1>5 DEF StartJob
<1>6. ASSUME NEW w \in Workers, BeginJob(w) PROVE RunningIsScanned'
  BY <1>6 DEF BeginJob
<1>7. ASSUME NEW w \in Workers, NextEndpoint(w) PROVE RunningIsScanned'
  BY <1>7 DEF NextEndpoint
<1>8. ASSUME NEW w \in Workers, StopBetweenEndpoints(w) PROVE RunningIsScanned'
  BY <1>8 DEF StopBetweenEndpoints
<1>9. ASSUME NEW w \in Workers, ScanEndpoint(w) PROVE RunningIsScanned'
  BY <1>9 DEF ScanEndpoint, Outcomes
<1>10. ASSUME NEW w \in Workers, ScanCancelled(w) PROVE RunningIsScanned'
  BY <1>10 DEF ScanCancelled
<1>11. ASSUME NEW w \in Workers, ScanFailed(w) PROVE RunningIsScanned'
  BY <1>11 DEF ScanFailed, Outcomes
<1>12. ASSUME NEW w \in Workers, CompleteScan(w) PROVE RunningIsScanned'
  BY <1>12 DEF CompleteScan
<1>13. ASSUME NEW w \in Workers, CheckCancelled(w) PROVE RunningIsScanned'
  BY <1>13 DEF CheckCancelled
<1>14. ASSUME NEW w \in Workers, PublishCompleted(w) PROVE RunningIsScanned'
  BY <1>14 DEF PublishCompleted
<1>15. ASSUME NEW w \in Workers, PublishCancelled(w) PROVE RunningIsScanned'
  BY <1>15 DEF PublishCancelled
<1>16. ASSUME NEW w \in Workers, PublishFailed(w) PROVE RunningIsScanned'
  BY <1>16 DEF PublishFailed
<1>17. ASSUME NEW w \in Workers, PopEvent(w) PROVE RunningIsScanned'
  BY <1>17 DEF PopEvent
<1>18. ASSUME NEW w \in Workers, Progress(w) PROVE RunningIsScanned'
  BY <1>18 DEF Progress
<1>19. ASSUME NEW w \in Workers, MarkCancelled(w) PROVE RunningIsScanned'
  <2>1. pc[w] = "markcancelled" /\ crashes' = crashes /\ UNCHANGED <<index, unmarked>>
    BY <1>19 DEF MarkCancelled
  <2>2. \A v \in Workers \ {w} : pc'[v] = pc[v]
    BY <1>19 DEF MarkCancelled
  <2>3. \/ pc'[w] = "remark" /\ \A i \in Endpoints : status'[i] = "RUNNING" => status[i] = "RUNNING"
        \/ \A i \in Endpoints : status'[i] = "RUNNING" => status[i] = "RUNNING" /\ i # index[w]
    BY <1>19 DEF MarkCancelled, cancelled_status
  <2> QED
    BY <2>1, <2>2, <2>3
<1>20. ASSUME NEW w \in Workers, MarkFailed(w) PROVE RunningIsScanned'
  <2>1. crashes' = crashes /\ index' = index /\ unmarked \subseteq unmarked'
    BY <1>20 DEF MarkFailed
  <2>2. \A v \in Workers \ {w} : pc'[v] = pc[v]
    BY <1>20 DEF MarkFailed
  <2>3. \/ pc'[w] = "remark" /\ \A i \in Endpoints : status'[i] = "RUNNING" => status[i] = "RUNNING"
        \/ index[w] \in unmarked' /\ \A i \in Endpoints : status'[i] = "RUNNING" => status[i] = "RUNNING"
        \/ \A i \in Endpoints : status'[i] = "RUNNING" => status[i] = "RUNNING" /\ i # index[w]
    BY <1>20 DEF MarkFailed
  <2> QED
    BY <2>1, <2>2, <2>3
<1>21. QED
  BY <1>1, <1>2, <1>3, <1>4, <1>5, <1>6, <1>7, <1>8, <1>9, <1>10, <1>11, <1>12, <1>13, <1>14,
     <1>15, <1>16, <1>17, <1>18, <1>19, <1>20 DEF Next, Worker

\* A step of a worker at work that marks nothing RUNNING, or only the endpoint it is
\* at, and does not pass one it leaves RUNNING.
LEMMA AheadStep ==
  ASSUME ScanInv, AheadInv, NEW w \in Workers, pc[w] \in Working, pc'[w] # "begin" /\ pc'[w] # "none",
         \A v \in Workers \ {w} : pc'[v] = pc[v] /\ index'[v] = index[v] /\ total'[v] = total[v],
         RunningIsPresent', job' # "COMPLETED",
         pc'[w] \in {"endpoint", "check", "publish"} \cup Scanning =>
           \A i \in Endpoints : status'[i] = "RUNNING" => index'[w] <= i /\ i <= total'[w],
         pc'[w] \in {"check", "publish"} => index'[w] > total'[w]
  PROVE  AheadInv'
<1>1. \A v \in Workers \ {w} : pc[v] \notin Working
  BY DEF ScanInv, OneScan
<1>2. RunningIsAhead'
  BY <1>1 DEF AheadInv, RunningIsAhead, Working, Scanning
<1> QED
  BY <1>2 DEF AheadInv, CompletedIsClean

\* A step that marks nothing and moves nobody on.
LEMMA AheadQuiet ==
  ASSUME AheadInv, UNCHANGED <<status, index, total>>, present' >= present, RunningIsPresent',
         job' = "COMPLETED" => job = "COMPLETED",
         \A v \in Workers : \/ pc'[v] = pc[v] \/ (pc[v] = "none" /\ pc'[v] = "begin")
                            \/ pc'[v] \in {"done", "lost", "final", "raised", "failed", "cancelled"}
  PROVE  AheadInv'
<1>1. RunningIsAhead'
  BY DEF AheadInv, RunningIsAhead, Scanning
<1> QED
  BY <1>1 DEF AheadInv, CompletedIsClean

LEMMA AheadNext == ScanInv /\ AheadInv /\ [Next]_vars => AheadInv'
<1> SUFFICES ASSUME ScanInv, AheadInv, [Next]_vars PROVE AheadInv'
  OBVIOUS
<1> USE DEF Goto, local, findings
<1>t. /\ pc \in [Workers -> Working \cup {"none", "final", "raised", "done", "lost"}]
      /\ present \in Endpoints /\ index \in [Workers -> 1..(MaxEndpoints + 1)]
      /\ total \in [Workers -> 0..present] /\ status \in [Endpoints -> Statuses]
  BY DEF ScanInv, TypeInv, TypeOK
<1>i. \A w \in Workers : /\ pc[w] \in Scanning => index[w] <= total[w]
                         /\ index[w] \in Nat /\ total[w] \in Nat /\ total[w] <= present
  BY <1>t, JobAssumption DEF ScanInv, TypeInv, IndexOK, Endpoints
<1>n. MaxEndpoints \in Nat /\ present \in Nat /\ Endpoints \subseteq Nat
  BY <1>t, JobAssumption DEF Endpoints
<1>a. \A w \in Workers : pc[w] \in Working => job # "COMPLETED"
  BY DEF ScanInv, WorkIsActive, Active
<1>r. RunningIsPresent /\ RunningIsAhead /\ CompletedIsClean
  BY DEF AheadInv
<1>1. CASE Cancel
  BY <1>1, <1>r, <1>n, AheadQuiet DEF Cancel, RunningIsPresent
<1>2. CASE Arrive
  <2>1. present' = present + 1 /\ UNCHANGED <<status, index, total, pc, job>>
    BY <1>2 DEF Arrive
  <2>2. RunningIsPresent'
    BY <1>n, <1>r, <2>1 DEF RunningIsPresent, Endpoints
  <2> QED
    BY <1>n, <2>1, <2>2, AheadQuiet
<1>3. CASE Crash
  BY <1>3, <1>r, <1>n, <1>t, AheadQuiet, JobAssumption DEF Crash, RunningIsPresent
<1>4. CASE UNCHANGED vars
  BY <1>4, <1>r, <1>n, AheadQuiet DEF vars, RunningIsPresent
<1>5. ASSUME NEW w \in Workers, StartJob(w) PROVE AheadInv'
  <2>1. /\ UNCHANGED <<status, index, total, present>> /\ job' = "RUNNING"
        /\ pc[w] = "none" /\ pc' = [pc EXCEPT ![w] = "begin"]
    BY <1>5 DEF StartJob
  <2> QED
    BY <1>r, <1>n, <1>t, <2>1, AheadQuiet DEF RunningIsPresent
<1>6. ASSUME NEW w \in Workers, BeginJob(w) PROVE AheadInv'
  <2>1. /\ pc[w] = "begin" /\ pc' = [pc EXCEPT ![w] = pc'[w]] /\ pc'[w] \in {"endpoint", "failed"}
        /\ total' = [total EXCEPT ![w] = present] /\ UNCHANGED <<job, index, status, present>>
    BY <1>6, <1>t DEF BeginJob
  <2>2. index'[w] = 1 /\ total'[w] = present
    BY <1>r, <1>t, <2>1 DEF RunningIsAhead
  <2>3. \A i \in Endpoints : status'[i] = "RUNNING" => index'[w] <= i /\ i <= total'[w]
    BY <1>r, <1>n, <2>1, <2>2 DEF RunningIsPresent, Endpoints
  <2>4. RunningIsPresent' /\ job' # "COMPLETED" /\ pc[w] \in Working
    BY <1>a, <1>r, <2>1 DEF RunningIsPresent, Working
  <2>5. \A v \in Workers \ {w} : pc'[v] = pc[v] /\ index'[v] = index[v] /\ total'[v] = total[v]
    BY <1>t, <2>1
  <2> QED
    BY <2>1, <2>3, <2>4, <2>5, AheadStep
<1>7. ASSUME NEW w \in Workers, NextEndpoint(w) PROVE AheadInv'
  <2>1. /\ pc[w] = "endpoint" /\ pc' = [pc EXCEPT ![w] = pc'[w]] /\ pc'[w] \in {"scan", "remark", "failed"}
        /\ UNCHANGED <<total, index, present>> /\ index[w] <= total[w]
    BY <1>7, <1>t DEF NextEndpoint, remaining
  <2>2. \A i \in Endpoints : status'[i] = "RUNNING" => status[i] = "RUNNING" \/ i = index[w]
    BY <1>7, <1>t DEF NextEndpoint
  <2>3. job' # "COMPLETED"
    BY <1>7 DEF NextEndpoint, progress_state
  <2>4. \A i \in Endpoints : status'[i] = "RUNNING" => index'[w] <= i /\ i <= total'[w]
    BY <1>r, <1>n, <1>i, <2>1, <2>2 DEF RunningIsAhead
  <2>5. RunningIsPresent'
    <3>1. total[w] <= present /\ total[w] \in Nat /\ present \in Nat
      BY <1>n, <1>i
    <3>2. total'[w] = total[w] /\ present' = present
      BY <2>1
    <3>3. \A i \in Endpoints : status'[i] = "RUNNING" => i <= present'
      BY <2>4, <3>1, <3>2 DEF Endpoints
    <3> QED
      BY <3>3 DEF RunningIsPresent
  <2>6. \A v \in Workers \ {w} : pc'[v] = pc[v] /\ index'[v] = index[v] /\ total'[v] = total[v]
    BY <1>t, <2>1
  <2> QED
    BY <2>1, <2>3, <2>4, <2>5, <2>6, AheadStep DEF Working
<1>8. ASSUME NEW w \in Workers, StopBetweenEndpoints(w) PROVE AheadInv'
  BY <1>8, <1>r, <1>n, <1>t, AheadQuiet DEF StopBetweenEndpoints, RunningIsPresent
<1>9. ASSUME NEW w \in Workers, ScanEndpoint(w) PROVE AheadInv'
  <2>1. /\ pc[w] = "scan" /\ pc' = [pc EXCEPT ![w] = "endpoint"]
        /\ index' = [index EXCEPT ![w] = index[w] + 1] /\ UNCHANGED <<total, present, job>>
    BY <1>9, <1>t DEF ScanEndpoint
  <2>2. \A i \in Endpoints : status'[i] = "RUNNING" => status[i] = "RUNNING" /\ i # index[w]
    BY <1>9, <1>t DEF ScanEndpoint, Outcomes
  <2>3. \A i \in Endpoints : status[i] = "RUNNING" => index[w] <= i /\ i <= total[w]
    BY <1>r, <2>1 DEF RunningIsAhead, Scanning
  <2>4. index'[w] = index[w] + 1 /\ total'[w] = total[w]
    BY <1>t, <2>1
  <2>5. \A i \in Endpoints : status'[i] = "RUNNING" => index'[w] <= i /\ i <= total'[w]
    BY <1>n, <1>i, <2>2, <2>3, <2>4
  <2>6. RunningIsPresent'
    BY <1>r, <2>1, <2>2 DEF RunningIsPresent
  <2>7. \A v \in Workers \ {w} : pc'[v] = pc[v] /\ index'[v] = index[v] /\ total'[v] = total[v]
    BY <1>t, <2>1
  <2>8. pc'[w] = "endpoint"
    BY <1>t, <2>1
  <2> QED
    BY <1>a, <2>1, <2>5, <2>6, <2>7, <2>8, AheadStep DEF Working
<1>10. ASSUME NEW w \in Workers,
              ScanCancelled(w) \/ ScanFailed(w) \/ MarkCancelled(w) \/ MarkFailed(w)
       PROVE  AheadInv'
  <2>1. /\ pc[w] \in Scanning /\ pc' = [pc EXCEPT ![w] = pc'[w]]
        /\ pc'[w] \in Scanning \cup {"cancelled", "failed"}
        /\ UNCHANGED <<total, index, present, job>>
    BY <1>10, <1>t DEF ScanCancelled, ScanFailed, MarkCancelled, MarkFailed, Scanning
  <2>2. \A i \in Endpoints : status'[i] = "RUNNING" => status[i] = "RUNNING"
    BY <1>10, <1>t DEF ScanCancelled, ScanFailed, MarkCancelled, MarkFailed, cancelled_status, Outcomes
  <2>3. \A i \in Endpoints : status'[i] = "RUNNING" => index'[w] <= i /\ i <= total'[w]
    BY <1>r, <2>1, <2>2 DEF RunningIsAhead
  <2>4. RunningIsPresent'
    BY <1>r, <2>1, <2>2 DEF RunningIsPresent
  <2>5. \A v \in Workers \ {w} : pc'[v] = pc[v] /\ index'[v] = index[v] /\ total'[v] = total[v]
    BY <1>t, <2>1
  <2> QED
    BY <1>a, <2>1, <2>3, <2>4, <2>5, AheadStep DEF Working, Scanning
<1>11. ASSUME NEW w \in Workers, CompleteScan(w) \/ CheckCancelled(w) PROVE AheadInv'
  <2>1. /\ pc[w] \in {"endpoint", "check"} /\ pc' = [pc EXCEPT ![w] = pc'[w]]
        /\ pc'[w] \in {"check", "publish", "failed", "cancelled"}
        /\ UNCHANGED <<total, index, present, status, job>>
    BY <1>11, <1>t DEF CompleteScan, CheckCancelled
  <2>2. index[w] > total[w]
    BY <1>11, <1>r, <1>i DEF CompleteScan, CheckCancelled, remaining, RunningIsAhead
  <2>3. \A i \in Endpoints : status'[i] = "RUNNING" => index'[w] <= i /\ i <= total'[w]
    BY <1>r, <2>1 DEF RunningIsAhead
  <2>4. RunningIsPresent'
    BY <1>r, <2>1 DEF RunningIsPresent
  <2>5. \A v \in Workers \ {w} : pc'[v] = pc[v] /\ index'[v] = index[v] /\ total'[v] = total[v]
    BY <1>t, <2>1
  <2> QED
    BY <1>a, <2>1, <2>2, <2>3, <2>4, <2>5, AheadStep DEF Working
<1>12. ASSUME NEW w \in Workers, PublishCompleted(w) PROVE AheadInv'
  <2>1. /\ pc[w] = "publish" /\ pc' = [pc EXCEPT ![w] = "final"]
        /\ UNCHANGED <<total, index, present, status>>
    BY <1>12 DEF PublishCompleted
  <2>2. \A i \in Endpoints : status[i] # "RUNNING"
    BY <1>r, <1>n, <1>i, <2>1 DEF RunningIsAhead
  <2>3. RunningIsAhead'
    BY <1>r, <1>t, <2>1 DEF RunningIsAhead, Scanning
  <2> QED
    BY <2>1, <2>2, <2>3 DEF AheadInv, RunningIsPresent, CompletedIsClean
<1>13. ASSUME NEW w \in Workers, PublishCancelled(w) PROVE AheadInv'
  <2>1. /\ pc[w] = "cancelled" /\ pc' = [pc EXCEPT ![w] = pc'[w]] /\ pc'[w] \in {"final", "raised"}
        /\ UNCHANGED <<total, index, present, status>> /\ job' # "COMPLETED"
    BY <1>13, <1>t, <1>a DEF PublishCancelled, Working
  <2> QED
    BY <1>r, <1>n, <1>t, <2>1, AheadQuiet DEF RunningIsPresent
<1>14. ASSUME NEW w \in Workers, PublishFailed(w) PROVE AheadInv'
  BY <1>14, <1>r, <1>n, <1>t, AheadQuiet DEF PublishFailed, fail_job, RunningIsPresent
<1>15. ASSUME NEW w \in Workers, PopEvent(w) PROVE AheadInv'
  <2>1. /\ pc' = [pc EXCEPT ![w] = pc'[w]] /\ pc'[w] \in {"done", "lost"}
        /\ UNCHANGED <<total, index, present, status, job>>
    BY <1>15, <1>t DEF PopEvent
  <2> QED
    BY <1>r, <1>n, <1>t, <2>1, AheadQuiet DEF RunningIsPresent
<1>16. ASSUME NEW w \in Workers, Progress(w) PROVE AheadInv'
  BY <1>16, <1>r, <1>n, AheadQuiet DEF Progress, progress_state, RunningIsPresent
<1>17. QED
  BY <1>1, <1>2, <1>3, <1>4, <1>5, <1>6, <1>7, <1>8, <1>9, <1>10, <1>11, <1>12, <1>13, <1>14,
     <1>15, <1>16 DEF Next, Worker

\* Unless the process was terminated, a job that has ended leaves no endpoint
\* marked RUNNING whose mark could be written, and a job that completed leaves none
\* at all, for any number of jobs, endpoints and failures.
THEOREM NoEndpointRunningAlways == Spec => []NoEndpointRunning
<1>1. EndpointInv => NoEndpointRunning
  BY DEF EndpointInv, ScanInv, WorkIsActive, RunningIsScanned, AheadInv, CompletedIsClean,
         NoEndpointRunning, Working, Scanning, Active, Terminal
<1>2. EndpointInv /\ [Next]_vars => EndpointInv'
  BY ScanNext, ScannedNext, AheadNext DEF EndpointInv
<1>3. QED BY EndpointInit, <1>1, <1>2, PTL DEF Spec
-----------------------------------------------------------------------------
\* A worker whose clean-up is outstanding read no more endpoints than one that is
\* about to publish, and the published result is honest.
ReadsGrow ==
  \A v, w \in Workers : pc[v] = "final" /\ pc[w] \in {"check", "publish"} => read[v] <= read[w]

HonestInv == ScanInv /\ ReadsGrow /\ ResultHonest

\* Only endpoints that are all complete aggregate to COMPLETE.
LEMMA AggregateComplete ==
  ASSUME NEW states, aggregate_statuses(states) = "COMPLETE"
  PROVE  \A s \in states : s = "COMPLETE"
<1>1. "RUNNING" \notin states
  BY DEF aggregate_statuses
<1>2. PICK s \in states : states = {s}
  BY <1>1 DEF aggregate_statuses
<1>3. aggregate_statuses(states) = CHOOSE r \in states : TRUE
  BY <1>1, <1>2 DEF aggregate_statuses
<1>4. (CHOOSE r \in states : TRUE) = s
  BY <1>2
<1> QED
  BY <1>2, <1>3, <1>4

LEMMA HonestInit == Init => HonestInv
BY ScanInit DEF Init, HonestInv, ReadsGrow, ResultHonest

\* While nobody works, or a step does not publish, a result stays what it was.
LEMMA HonestQuiet ==
  ASSUME HonestInv, NEW w \in Workers, ScanInv', pc' = [pc EXCEPT ![w] = pc'[w]],
         pc'[w] # "final", UNCHANGED read, pc'[w] \in {"check", "publish"} => pc[w] \in {"check", "publish"},
         UNCHANGED <<job, result, status>> \/ job' # "COMPLETED"
  PROVE  HonestInv'
<1>1. pc \in [Workers -> Working \cup {"none", "final", "raised", "done", "lost"}]
  BY DEF HonestInv, ScanInv, TypeInv, TypeOK
<1>2. \A v \in Workers : pc'[v] = "final" => pc[v] = "final"
  BY <1>1
<1>3. \A v \in Workers : pc'[v] \in {"check", "publish"} => pc[v] \in {"check", "publish"}
  BY <1>1
<1>4. ReadsGrow'
  BY <1>2, <1>3 DEF HonestInv, ReadsGrow
<1>5. ResultHonest'
  BY <1>2 DEF HonestInv, ResultHonest
<1> QED
  BY <1>4, <1>5 DEF HonestInv

LEMMA HonestNext == HonestInv /\ [Next]_vars => HonestInv'
<1> SUFFICES ASSUME HonestInv, [Next]_vars PROVE HonestInv'
  OBVIOUS
<1>t. ScanInv'
  BY ScanNext DEF HonestInv
<1>p. pc \in [Workers -> Working \cup {"none", "final", "raised", "done", "lost"}]
  BY DEF HonestInv, ScanInv, TypeInv, TypeOK
<1>j. \A v \in Workers : pc[v] \in Working => job \in Active
  BY DEF HonestInv, ScanInv, WorkIsActive
<1> USE DEF Goto, local, findings
<1>1. CASE Cancel
  BY <1>1, <1>t DEF Cancel, HonestInv, ReadsGrow, ResultHonest
<1>2. CASE Arrive
  BY <1>2, <1>t DEF Arrive, HonestInv, ReadsGrow, ResultHonest
<1>3. CASE Crash
  BY <1>3, <1>t DEF Crash, HonestInv, ReadsGrow, ResultHonest
<1>4. CASE UNCHANGED vars
  BY <1>4, <1>t DEF vars, HonestInv, ReadsGrow, ResultHonest
<1>5. ASSUME NEW w \in Workers, StartJob(w) PROVE HonestInv'
  BY <1>5, <1>t, <1>p, HonestQuiet DEF StartJob
<1>6. ASSUME NEW w \in Workers, BeginJob(w) PROVE HonestInv'
  BY <1>6, <1>t, <1>p, HonestQuiet DEF BeginJob
<1>7. ASSUME NEW w \in Workers, NextEndpoint(w) PROVE HonestInv'
  BY <1>7, <1>t, <1>p, HonestQuiet DEF NextEndpoint, progress_state
<1>8. ASSUME NEW w \in Workers, StopBetweenEndpoints(w) PROVE HonestInv'
  BY <1>8, <1>t, <1>p, HonestQuiet DEF StopBetweenEndpoints
<1>9. ASSUME NEW w \in Workers, ScanEndpoint(w) PROVE HonestInv'
  BY <1>9, <1>t, <1>p, <1>j, HonestQuiet DEF ScanEndpoint, Working, Active
<1>10. ASSUME NEW w \in Workers, ScanCancelled(w) PROVE HonestInv'
  BY <1>10, <1>t, <1>p, <1>j, HonestQuiet DEF ScanCancelled, Working, Active
<1>11. ASSUME NEW w \in Workers, ScanFailed(w) PROVE HonestInv'
  BY <1>11, <1>t, <1>p, <1>j, HonestQuiet DEF ScanFailed, Working, Active
<1>19. ASSUME NEW w \in Workers, MarkCancelled(w) PROVE HonestInv'
  BY <1>19, <1>t, <1>p, <1>j, HonestQuiet DEF MarkCancelled, Working, Active
<1>20. ASSUME NEW w \in Workers, MarkFailed(w) PROVE HonestInv'
  BY <1>20, <1>t, <1>p, <1>j, HonestQuiet DEF MarkFailed, Working, Active
<1>12. ASSUME NEW w \in Workers, CompleteScan(w) PROVE HonestInv'
  <2>1. pc' = [pc EXCEPT ![w] = pc'[w]] /\ pc'[w] \in {"check", "failed"} /\ pc[w] = "endpoint"
    BY <1>12, <1>p DEF CompleteScan
  <2>2. read' = [read EXCEPT ![w] = present] /\ UNCHANGED <<job, result, status>>
    BY <1>12 DEF CompleteScan
  <2>3. \A v \in Workers : read[v] \in Nat /\ read[v] <= present
    BY DEF HonestInv, ScanInv, TypeInv, TypeOK, Endpoints
  <2>4. read \in [Workers -> 0..present]
    BY DEF HonestInv, ScanInv, TypeInv, TypeOK
  <2>5. ReadsGrow'
    BY <1>p, <2>1, <2>2, <2>3, <2>4 DEF HonestInv, ReadsGrow
  <2>6. job # "COMPLETED"
    BY <1>j, <2>1 DEF Working, Active
  <2>7. ResultHonest'
    BY <2>2, <2>6 DEF ResultHonest
  <2> QED
    BY <1>t, <2>5, <2>7 DEF HonestInv
<1>13. ASSUME NEW w \in Workers, CheckCancelled(w) PROVE HonestInv'
  <2>1. pc' = [pc EXCEPT ![w] = pc'[w]] /\ pc'[w] \in {"failed", "cancelled", "publish"}
    BY <1>13, <1>p DEF CheckCancelled
  <2> QED
    BY <1>13, <1>t, <2>1, HonestQuiet DEF CheckCancelled
<1>14. ASSUME NEW w \in Workers, PublishCompleted(w) PROVE HonestInv'
  <2>1. /\ pc[w] = "publish" /\ pc' = [pc EXCEPT ![w] = "final"]
        /\ result' = aggregate_statuses({status[i] : i \in 1..read[w]})
        /\ UNCHANGED <<read, status>>
    BY <1>14 DEF PublishCompleted
  <2>2. \A v \in Workers : pc[v] \notin {"check", "publish"} \/ v = w
    BY <2>1 DEF HonestInv, ScanInv, OneScan, Working
  <2>3. ReadsGrow'
    BY <1>p, <2>1, <2>2 DEF ReadsGrow
  <2>4. ASSUME result' = "COMPLETE", NEW v \in Workers, pc'[v] = "final", NEW i \in 1..read[v]
        PROVE  status[i] = "COMPLETE"
    <3>1. \A s \in {status[k] : k \in 1..read[w]} : s = "COMPLETE"
      BY <2>1, <2>4, AggregateComplete
    <3>2. read[v] <= read[w]
      <4>1. CASE v = w
        BY <4>1 DEF HonestInv, ScanInv, TypeInv, TypeOK, Endpoints
      <4>2. CASE v # w
        BY <1>p, <2>1, <2>4, <4>2 DEF HonestInv, ReadsGrow
      <4> QED
        BY <4>1, <4>2
    <3>3. read[v] \in Nat /\ read[w] \in Nat
      BY DEF HonestInv, ScanInv, TypeInv, TypeOK, Endpoints
    <3>4. i \in 1..read[w]
      BY <3>2, <3>3
    <3> QED
      BY <3>1, <3>4
  <2>5. ResultHonest'
    BY <2>1, <2>4 DEF ResultHonest
  <2> QED
    BY <1>t, <2>3, <2>5 DEF HonestInv
<1>15. ASSUME NEW w \in Workers, PublishCancelled(w) PROVE HonestInv'
  <2>1. pc[w] = "cancelled" /\ pc' = [pc EXCEPT ![w] = pc'[w]] /\ pc'[w] \in {"final", "raised"}
    BY <1>15, <1>p DEF PublishCancelled
  <2>2. UNCHANGED read /\ job' # "COMPLETED"
    BY <1>15, <1>j, <2>1 DEF PublishCancelled, Working, Active
  <2>3. \A v \in Workers : pc[v] \notin {"check", "publish"}
    BY <2>1 DEF HonestInv, ScanInv, OneScan, Working
  <2>4. ReadsGrow'
    BY <1>p, <2>1, <2>3 DEF ReadsGrow
  <2>5. ResultHonest'
    BY <2>2 DEF ResultHonest
  <2> QED
    BY <1>t, <2>4, <2>5 DEF HonestInv
<1>16. ASSUME NEW w \in Workers, PublishFailed(w) PROVE HonestInv'
  <2>1. pc[w] = "failed" /\ pc' = [pc EXCEPT ![w] = "final"] /\ UNCHANGED read /\ job' = "FAILED"
    BY <1>16 DEF PublishFailed, fail_job
  <2>2. \A v \in Workers : pc[v] \notin {"check", "publish"}
    BY <2>1 DEF HonestInv, ScanInv, OneScan, Working
  <2>3. ReadsGrow'
    BY <1>p, <2>1, <2>2 DEF ReadsGrow
  <2>4. ResultHonest'
    BY <2>1 DEF ResultHonest
  <2> QED
    BY <1>t, <2>3, <2>4 DEF HonestInv
<1>17. ASSUME NEW w \in Workers, PopEvent(w) PROVE HonestInv'
  <2>1. pc' = [pc EXCEPT ![w] = pc'[w]] /\ pc'[w] \in {"done", "lost"}
    BY <1>17, <1>p DEF PopEvent
  <2> QED
    BY <1>17, <1>t, <2>1, HonestQuiet DEF PopEvent
<1>18. ASSUME NEW w \in Workers, Progress(w) PROVE HonestInv'
  BY <1>18, <1>t DEF Progress, progress_state, HonestInv, ReadsGrow, ResultHonest
<1>21. QED
  BY <1>1, <1>2, <1>3, <1>4, <1>5, <1>6, <1>7, <1>8, <1>9, <1>10, <1>11, <1>12, <1>13, <1>14,
     <1>15, <1>16, <1>17, <1>18, <1>19, <1>20 DEF Next, Worker

\* A result published as COMPLETE speaks for every endpoint of the dashboard the
\* job read, also for a worker whose clean-up is still to do when a later job has
\* published, for any number of jobs, endpoints, failures and terminations.
THEOREM ResultHonestAlways == Spec => []ResultHonest
<1>1. HonestInv => ResultHonest
  BY DEF HonestInv
<1>2. QED BY HonestInit, HonestNext, <1>1, PTL DEF Spec
=============================================================================
