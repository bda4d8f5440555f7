----------------------- MODULE ActiveValidationProofs -----------------------
(***************************************************************************)
(* Proofs about the firewall rules and the verdict of the deep validator,  *)
(* for every number of runs, plan, bound and choice of faults.             *)
(***************************************************************************)
EXTENDS ActiveValidation, TLAPS

EngineTypeOK ==
  /\ pc \in EngineSteps
  /\ at \in 1..PlanLength
  /\ wpc \in WorkerSteps
  /\ job \in BOOLEAN
  /\ out \in ActiveValidationResult
  /\ dirs \subseteq Runs \X (1..PlanLength)
  /\ tracked \subseteq Runs \X (1..PlanLength)
  /\ results \in Seq(ActiveValidationResult)

\* The harness lives in the worker of the deep validator, and a worker in the
\* validator that the engine has started, even when the engine's process ended.
Nested ==
  /\ hpc # "none" => wpc = "live"
  /\ wpc = "live" => at = DeepAt
  /\ wpc \in WorkerRunning => /\ pc \in {"wait", "idle"} /\ run \in Runs
                              /\ here \in dirs \cap tracked
                              /\ Len(results) = at - 1
  /\ pc # "idle" => run \in Runs
  /\ pc = "track" => here \in dirs
  /\ pc = "spawn" => here \in dirs \cap tracked
  /\ pc \notin {"idle", "complete"} => Len(results) = at - 1

TypeInv == TypeOK /\ Nested

LEMMA Types == TypeOK <=> HarnessTypeOK /\ EngineTypeOK
BY DEF TypeOK, EngineTypeOK

LEMMA TypeInit == Init => TypeInv
<1> SUFFICES ASSUME Init PROVE TypeInv
  OBVIOUS
<1>1. HarnessTypeOK
  <2>1. 0 \in 0..MaxConnections /\ 0 \in 0..MaxRuns /\ 0 \in 0..MaxRequests
    BY HarnessAssumption
  <2>2. _base_observation \in Observation
    BY <2>1 DEF _base_observation, Observation
  <2>3. QED BY <2>1, <2>2 DEF Init, HarnessInit, HarnessTypeOK, HarnessSteps, Runs
<1>2. EngineTypeOK
  <2>1. Verdict("ERROR") \in ActiveValidationResult
    BY DEF Verdict, ActiveValidationResult, Verdicts
  <2>2. 1 \in 1..PlanLength
    BY PlanAssumption
  <2>3. <<>> \in Seq(ActiveValidationResult)
    OBVIOUS
  <2>4. QED BY <2>1, <2>2, <2>3 DEF Init, EngineTypeOK, EngineSteps, WorkerSteps
<1>3. Nested
  BY DEF Init, HarnessInit, Nested, WorkerRunning, WorkerSteps
<1>4. QED BY <1>1, <1>2, <1>3, Types DEF TypeInv

\* A clean-up only takes away rules and records.
LEMMA CleanupTypes ==
  ASSUME HarnessTypeOK, NEW outcome, cleanup_firewall_state(outcome)
  PROVE  rules' \subseteq Rules /\ rules' \subseteq rules /\ recorded' \in [Runs -> SUBSET RuleIds]
BY DEF cleanup_firewall_state, HarnessTypeOK

\* The steps of the harness keep its types.
LEMMA HarnessTypes ==
  ASSUME TypeInv, HarnessStep
  PROVE  HarnessTypeOK'
<1> USE HarnessAssumption
<1>0. /\ HarnessTypeOK /\ run' = run
      /\ hpc # "none" => run \in Runs
  BY DEF TypeInv, TypeOK, Nested, HarnessStep, WorkerRunning, WorkerSteps
<1>a. hpc # "none" => \A i \in RuleIds : <<run, i>> \in Rules
  BY <1>0 DEF Rules
<1> USE DEF HarnessTypeOK, HarnessSteps, Running, firewallVars, At, To, Raise
<1>1. CASE _validate_input
  BY <1>0, <1>1 DEF _validate_input
<1>2. CASE _write_firewall_state
  <2>1. recorded' \in [Runs -> SUBSET RuleIds]
    BY <1>0, <1>2 DEF _write_firewall_state
  <2>2. QED BY <1>0, <1>2, <2>1 DEF _write_firewall_state
<1>3. CASE StartAdd
  BY <1>0, <1>3 DEF StartAdd, RuleIds
<1>4. CASE _firewall_script
  <2>1. adding \in RuleIds /\ hpc = "add"
    BY <1>0, <1>4 DEF _firewall_script
  <2>a. <<run, adding>> \in Rules
    BY <1>a, <2>1
  <2>b. rules' \in {rules, rules \cup {<<run, adding>>}}
    BY <1>4 DEF _firewall_script
  <2>2. rules' \subseteq Rules
    BY <1>0, <2>a, <2>b
  <2>3. QED BY <1>0, <1>4, <2>2 DEF _firewall_script
<1>5. CASE MarkCreated
  BY <1>0, <1>5 DEF MarkCreated
<1>6. CASE Listen
  BY <1>0, <1>6 DEF Listen, Observation
<1>7. CASE Deadline
  BY <1>0, <1>7 DEF Deadline
<1>8. CASE _observe_resolution
  <2>1. obs' \in Observation
    <3>1. obs \in Observation /\ 1 \in 0..1
      BY <1>0
    <3>2. obs' = [obs EXCEPT !.query = TRUE, !.responses = 1]
      BY <1>8 DEF _observe_resolution
    <3>3. QED BY <3>1, <3>2 DEF Observation
  <2>2. wire' = wire \cup {"marker"} /\ hpc' = "accept"
        /\ UNCHANGED <<recorded, rules, orphans, stray, adding, raised, late, requests>>
    BY <1>8 DEF _observe_resolution
  <2>3. QED BY <1>0, <2>1, <2>2
<1>9. CASE ResolutionEnds
  BY <1>0, <1>9 DEF ResolutionEnds
<1>10. CASE Accept
  BY <1>0, <1>10 DEF Accept, accepting, Observation
<1>11. CASE Unauthenticated
  BY <1>0, <1>11 DEF Unauthenticated
<1>12. ASSUME NEW t \in MessageTypes, NEW e \in BOOLEAN, Message(t, e) PROVE HarnessTypeOK'
  <2>1. requests' \in 0..MaxRequests
    BY <1>0, <1>12 DEF Message
  <2>2. noted(t) \in SUBSET MessageTypes
    BY <1>0 DEF noted, Observation, MessageTypes
  <2>3. obs' \in Observation
    BY <1>0, <1>12, <2>2 DEF Message, Observation
  <2>4. QED BY <1>0, <1>12, <2>1, <2>3 DEF Message, MessageTypes
<1>13. CASE BadMessage
  BY <1>0, <1>13 DEF BadMessage
<1>14. CASE CompleteObservation
  BY <1>0, <1>14 DEF CompleteObservation, Observation
<1>15. CASE Finally
  <2>1. rules' \subseteq Rules /\ recorded' \in [Runs -> SUBSET RuleIds]
    BY <1>0, <1>15, CleanupTypes DEF Finally
  <2>2. hpc' \in HarnessSteps /\ UNCHANGED <<orphans, stray, adding, raised, late, requests, obs, wire>>
    BY <1>15 DEF Finally
  <2>3. QED BY <1>0, <2>1, <2>2
<1>16. CASE _error_observation
  <2>1. rules' \subseteq Rules /\ recorded' \in [Runs -> SUBSET RuleIds]
    BY <1>0, <1>16, CleanupTypes DEF _error_observation
  <2>2. /\ hpc' \in HarnessSteps /\ obs' \in {obs, _base_observation}
        /\ UNCHANGED <<orphans, stray, adding, raised, late, requests, wire>>
    BY <1>16 DEF _error_observation
  <2>3. _base_observation \in Observation
    BY DEF _base_observation, Observation
  <2>4. QED BY <1>0, <2>1, <2>2, <2>3
<1>17. CASE WriteOutput
  BY <1>0, <1>17 DEF WriteOutput
<1>18. QED
  BY <1>1, <1>2, <1>3, <1>4, <1>5, <1>6, <1>7, <1>8, <1>9, <1>10, <1>11, <1>12, <1>13, <1>14, <1>15,
     <1>16, <1>17 DEF HarnessStep, Harness

-----------------------------------------------------------------------------
(* Types of the engine and the worker, and the nesting of the processes *)

LEMMA HarnessSame ==
  ASSUME HarnessTypeOK, UNCHANGED <<run, harnessVars, firewallVars>>
  PROVE  HarnessTypeOK'
BY DEF HarnessTypeOK, harnessVars, firewallVars, Running

\* A harness that is gone has left nothing but its firewall rules.
LEMMA GoneTypes ==
  ASSUME HarnessTypeOK, Gone, UNCHANGED <<run, wire, recorded, rules, stray>>,
         orphans' \subseteq Rules
  PROVE  HarnessTypeOK'
<1>1. _base_observation \in Observation /\ 0 \in 0..MaxRequests
  <2>1. 0 \in 0..MaxConnections /\ 0 \in 0..MaxRequests
    BY HarnessAssumption
  <2>2. QED BY <2>1 DEF _base_observation, Observation
<1>2. QED BY <1>1 DEF Gone, HarnessTypeOK, HarnessSteps

LEMMA VerdictType ==
  ASSUME NEW status \in Verdicts
  PROVE  Verdict(status) \in ActiveValidationResult /\ ~Verdict(status).manual
BY DEF Verdict, ActiveValidationResult

\* What a rollback makes of a result is a result, which asks for cleaning by
\* hand exactly when the rollback did not succeed.
LEMMA RolledBack ==
  ASSUME NEW result \in ActiveValidationResult, NEW outcome \in {TRUE, FALSE, None}, 
         ~result.manual
  PROVE  /\ rolled_back(result, outcome) \in ActiveValidationResult
         /\ rolled_back(result, outcome).manual => rolled_back(result, outcome).status = "ROLLBACK_FAILED"
         /\ rolled_back(result, outcome).manual <=> outcome # TRUE
BY DEF rolled_back, ActiveValidationResult

LEMMA ClassifyType == \A o : classify(o) \in Exposures
BY DEF classify, Exposures

LEMMA StatusType == \A e : status_of(e) \in Verdicts
BY DEF status_of, Verdicts

LEMMA HarnessRuns ==
  ASSUME HarnessStep
  PROVE  hpc # "none" /\ UNCHANGED <<run, engineVars, workerVars>>
BY DEF HarnessStep, Harness, At, _validate_input, _write_firewall_state, StartAdd, _firewall_script,
   MarkCreated, Listen, Deadline, _observe_resolution, ResolutionEnds, Accept, Unauthenticated,
   Message, BadMessage, CompleteObservation, Finally, _error_observation, WriteOutput

LEMMA WorkerTypes ==
  ASSUME TypeInv, WorkerStep
  PROVE  TypeInv'
<1>0. HarnessTypeOK /\ EngineTypeOK /\ Nested /\ UNCHANGED <<run, engineVars, job>>
  BY Types DEF TypeInv, WorkerStep, check_applicability, execute, run_live_transport, LiveObserved,
     LiveFailed, rollback, Emit
<1>1. HarnessTypeOK'
  <2>1. CASE check_applicability \/ execute \/ Emit
    BY <1>0, <2>1, HarnessSame DEF check_applicability, execute, Emit
  <2>2. CASE run_live_transport
    BY <1>0, <2>2 DEF run_live_transport, HarnessTypeOK, HarnessSteps, firewallVars
  <2>3. CASE LiveObserved \/ LiveFailed
    BY <1>0, <2>3, GoneTypes DEF LiveObserved, LiveFailed, firewallVars, HarnessTypeOK
  <2>4. CASE rollback
    <3>1. rules' \subseteq Rules /\ recorded' \in [Runs -> SUBSET RuleIds]
      BY <1>0, <2>4, CleanupTypes DEF rollback, HarnessTypeOK
    <3>2. UNCHANGED <<run, harnessVars, orphans, stray>>
      BY <2>4 DEF rollback
    <3>3. QED BY <1>0, <3>1, <3>2 DEF HarnessTypeOK, harnessVars
  <2>5. QED BY <2>1, <2>2, <2>3, <2>4 DEF WorkerStep
<1>2. EngineTypeOK'
  <2>1. out' \in ActiveValidationResult
    <3>1. CASE check_applicability \/ execute \/ LiveFailed
      BY <1>0, <3>1, VerdictType DEF check_applicability, execute, LiveFailed, EngineTypeOK, Verdicts
    <3>2. CASE LiveObserved
      BY <3>2, ClassifyType, StatusType DEF LiveObserved, ActiveValidationResult
    <3>3. CASE rollback
      BY <1>0, <3>3 DEF rollback, rolled_back, EngineTypeOK, ActiveValidationResult
    <3>4. CASE run_live_transport \/ Emit
      BY <1>0, <3>4 DEF run_live_transport, Emit, EngineTypeOK
    <3>5. QED BY <3>1, <3>2, <3>3, <3>4 DEF WorkerStep
  <2>2. wpc' \in WorkerSteps
    BY DEF WorkerStep, check_applicability, execute, run_live_transport, LiveObserved, LiveFailed,
       rollback, Emit, WorkerSteps
  <2>3. QED BY <1>0, <2>1, <2>2 DEF EngineTypeOK, engineVars
<1>3. Nested'
  <2>1. wpc \in WorkerRunning
    BY DEF WorkerStep, Worker, check_applicability, execute, run_live_transport, LiveObserved, LiveFailed,
       rollback, Emit, WorkerRunning, WorkerSteps
  <2>2. hpc' # "none" => wpc' = "live"
    BY <1>0, <2>1 DEF Nested, WorkerStep, Worker, check_applicability, execute, run_live_transport,
       LiveObserved, LiveFailed, Gone, rollback, Emit, harnessVars
  <2>3. wpc' = "live" => at = DeepAt
    BY <1>0 DEF Nested, WorkerStep, deep, check_applicability, execute, run_live_transport, LiveObserved,
       LiveFailed, rollback, Emit
  <2>4. QED BY <1>0, <2>1, <2>2, <2>3 DEF Nested, engineVars, here
<1>4. QED
  <2>1. TypeOK'
    BY <1>1, <1>2 DEF HarnessTypeOK, EngineTypeOK, TypeOK
  <2>2. QED BY <1>3, <2>1 DEF TypeInv

LEMMA EngineTypes ==
  ASSUME TypeInv, EngineStep
  PROVE  TypeInv'
<1>0. HarnessTypeOK /\ EngineTypeOK /\ Nested
  BY Types DEF TypeInv
<1>1. /\ pc # "idle" /\ run \in Runs
      /\ UNCHANGED <<run, harnessVars, stray>>
  BY <1>0 DEF Nested, EngineStep, MakeDir, track, Spawn, Recovery, WorkerEnded, _rollback_in_recovery,
     Remove, forget, Record, Complete, firewallVars
<1>2. here \in Runs \X (1..PlanLength)
  BY <1>0, <1>1 DEF here, EngineTypeOK
<1>3. /\ pc \in {"dir", "track", "spawn"} => wpc \notin WorkerRunning
      /\ pc \in {"recover", "remove", "forget", "record", "complete"} => wpc \notin WorkerRunning
  BY <1>0 DEF Nested
<1> USE DEF Raises
<1>4. HarnessTypeOK'
  <2>1. orphans' \subseteq Rules
    BY <1>0 DEF HarnessTypeOK, EngineStep, MakeDir, track, Spawn, Recovery, WorkerEnded, JobClosed,
       _rollback_in_recovery, Remove, forget, Record, Complete, firewallVars
  <2>2. rules' \subseteq Rules /\ recorded' \in [Runs -> SUBSET RuleIds]
    <3>1. CASE _rollback_in_recovery
      BY <1>0, <3>1, CleanupTypes DEF _rollback_in_recovery, HarnessTypeOK
    <3>2. CASE Remove
      BY <1>0, <3>2 DEF Remove, RemoveDirs, HarnessTypeOK
    <3>3. CASE ~_rollback_in_recovery /\ ~Remove
      BY <1>0, <3>3 DEF HarnessTypeOK, EngineStep, MakeDir, track, Spawn, Recovery, WorkerEnded, forget,
         Record, Complete, firewallVars
    <3>4. QED BY <3>1, <3>2, <3>3
  <2>3. QED BY <1>0, <1>1, <2>1, <2>2 DEF HarnessTypeOK, harnessVars
<1>5. EngineTypeOK'
  <2>1. CASE MakeDir
    BY <1>0, <1>2, <2>1 DEF MakeDir, EngineTypeOK, EngineSteps, workerVars
  <2>2. CASE track
    BY <1>0, <1>2, <2>2 DEF track, EngineTypeOK, EngineSteps, workerVars
  <2>3. CASE Spawn
    BY <1>0, <2>3, VerdictType DEF Spawn, EngineTypeOK, EngineSteps, WorkerSteps, workerVars, Verdicts
  <2>4. CASE WorkerEnded
    BY <1>0, <2>4, VerdictType DEF WorkerEnded, EngineTypeOK, EngineSteps, Verdicts
  <2>5. CASE _rollback_in_recovery
    <3>1. out' \in ActiveValidationResult
      BY <1>0, <2>5 DEF _rollback_in_recovery, rolled_back, EngineTypeOK, ActiveValidationResult
    <3>2. QED BY <1>0, <2>5, <3>1 DEF _rollback_in_recovery, EngineTypeOK, EngineSteps
  <2>6. CASE Remove
    BY <1>0, <2>6 DEF Remove, RemoveDirs, EngineTypeOK, EngineSteps, workerVars
  <2>7. CASE forget
    BY <1>0, <2>7 DEF forget, EngineTypeOK, EngineSteps, workerVars
  <2>8. CASE Record
    <3>1. results' \in Seq(ActiveValidationResult)
      BY <1>0, <2>8 DEF Record, EngineTypeOK
    <3>2. at' \in 1..PlanLength
      BY <1>0, <2>8, PlanAssumption DEF Record, EngineTypeOK
    <3>3. QED BY <1>0, <2>8, <3>1, <3>2 DEF Record, EngineTypeOK, EngineSteps, workerVars
  <2>9. CASE Complete
    BY <1>0, <2>9 DEF Complete, EngineTypeOK, EngineSteps, workerVars
  <2>10. QED BY <2>1, <2>2, <2>3, <2>4, <2>5, <2>6, <2>7, <2>8, <2>9 DEF EngineStep, Recovery
<1>6. Nested'
  <2>1. hpc' = hpc /\ run' = run
    BY <1>1 DEF harnessVars
  <2>2. CASE MakeDir
    BY <1>0, <1>1, <1>3, <2>1, <2>2 DEF MakeDir, Nested, here, workerVars
  <2>3. CASE track
    BY <1>0, <1>1, <1>3, <2>1, <2>3 DEF track, Nested, here, workerVars
  <2>4. CASE Spawn
    <3>1. hpc = "none"
      BY <1>0, <1>3, <2>4 DEF Nested, Spawn, WorkerRunning, WorkerSteps
    <3>2. QED BY <1>0, <1>1, <1>3, <2>1, <2>4, <3>1 DEF Spawn, Nested, here, workerVars
  <2>5. CASE WorkerEnded
    BY <1>0, <1>1, <2>1, <2>5 DEF WorkerEnded, Nested, here, WorkerRunning
  <2>6. CASE _rollback_in_recovery
    BY <1>0, <1>1, <1>3, <2>1, <2>6 DEF _rollback_in_recovery, Nested, here
  <2>7. CASE Remove
    BY <1>0, <1>1, <1>3, <2>1, <2>7 DEF Remove, RemoveDirs, Nested, here, workerVars
  <2>8. CASE forget
    BY <1>0, <1>1, <1>3, <2>1, <2>8 DEF forget, Nested, here, workerVars
  <2>9. CASE Record
    <3>1. Len(results) = at - 1 /\ results \in Seq(ActiveValidationResult) /\ at \in Nat
      BY <1>0, <2>9 DEF Nested, Record, EngineTypeOK
    <3>2. pc' = "dir" => Len(results') = at' - 1
      BY <2>9, <3>1 DEF Record
    <3>3. pc' \in {"dir", "complete", "idle"} /\ wpc' = wpc /\ wpc \notin WorkerRunning
      BY <1>3, <2>9 DEF Record, workerVars
    <3>4. hpc # "none" => wpc = "live"
      BY <1>0 DEF Nested
    <3>5. wpc # "live"
      BY <3>3 DEF WorkerRunning, WorkerSteps
    <3>6. QED BY <1>1, <2>1, <3>2, <3>3, <3>4, <3>5 DEF Nested
  <2>10. CASE Complete
    BY <1>0, <1>1, <1>3, <2>1, <2>10 DEF Complete, Nested, here, workerVars
  <2>11. QED BY <2>2, <2>3, <2>4, <2>5, <2>6, <2>7, <2>8, <2>9, <2>10 DEF EngineStep, Recovery
<1>7. QED
  <2>1. TypeOK'
    BY <1>4, <1>5 DEF HarnessTypeOK, EngineTypeOK, TypeOK
  <2>2. QED BY <1>6, <2>1 DEF TypeInv

\* What happens to the three processes from outside, and between runs.
Outside == Begin \/ LiveTimeout \/ Timeout \/ Crash \/ OrphanStep \/ cleanup

LEMMA OutsideTypes ==
  ASSUME TypeInv, Outside
  PROVE  TypeInv'
<1>0. HarnessTypeOK /\ EngineTypeOK /\ Nested
  BY Types DEF TypeInv
<1>1. \A rule \in Rules : orphans \cup {rule} \subseteq Rules
  BY <1>0 DEF HarnessTypeOK
<1>2. CASE Begin
  <2>1. hpc = "none"
    BY <1>0, <1>2 DEF Begin, Nested, WorkerRunning, WorkerSteps
  <2>2. run' \in Runs /\ run' \in 0..MaxRuns
    BY <1>0, <1>2, HarnessAssumption DEF Begin, HarnessTypeOK, Runs
  <2>3. HarnessTypeOK'
    BY <1>0, <1>2, <2>2 DEF Begin, HarnessTypeOK, firewallVars
  <2>4. EngineTypeOK'
    <3>1. 1 \in 1..PlanLength /\ <<>> \in Seq(ActiveValidationResult)
      BY PlanAssumption
    <3>2. QED BY <1>0, <1>2, <3>1 DEF Begin, EngineTypeOK, EngineSteps, workerVars
  <2>5. Nested'
    BY <1>0, <1>2, <2>1, <2>2 DEF Begin, Nested, WorkerRunning, WorkerSteps, workerVars
  <2>6. QED BY <2>3, <2>4, <2>5 DEF HarnessTypeOK, EngineTypeOK, TypeOK, TypeInv
<1>3. CASE LiveTimeout
  <2>1. hpc # "none" /\ wpc \in WorkerRunning
    BY <1>3 DEF LiveTimeout, Running, Worker, WorkerRunning, WorkerSteps
  <2>2. adding \in RuleIds => <<run, adding>> \in Rules
    BY <1>0, <2>1 DEF Nested, Rules
  <2>3. orphans' \subseteq Rules
    BY <1>0, <1>3, <2>2 DEF LiveTimeout, KilledAlone, HarnessTypeOK
  <2>4. HarnessTypeOK'
    <3>1. _base_observation \in Observation /\ 0 \in 0..MaxRequests
      <4>1. 0 \in 0..MaxConnections /\ 0 \in 0..MaxRequests
        BY HarnessAssumption
      <4>2. QED BY <4>1 DEF _base_observation, Observation
    <3>2. QED BY <1>0, <1>3, <2>3, <3>1 DEF LiveTimeout, KilledAlone, Gone, HarnessTypeOK, HarnessSteps
  <2>5. EngineTypeOK'
    BY <1>0, <1>3, VerdictType DEF LiveTimeout, EngineTypeOK, engineVars, WorkerSteps, Verdicts
  <2>6. Nested'
    BY <1>0, <1>3, <2>1 DEF LiveTimeout, KilledAlone, Gone, Nested, engineVars, here
  <2>7. QED BY <2>4, <2>5, <2>6 DEF HarnessTypeOK, EngineTypeOK, TypeOK, TypeInv
<1>4. CASE Timeout
  <2>1. orphans' \subseteq Rules
    BY <1>0, <1>4 DEF Timeout, JobClosed, HarnessTypeOK
  <2>2. HarnessTypeOK'
    BY <1>0, <1>4, <2>1, GoneTypes DEF Timeout
  <2>3. EngineTypeOK'
    BY <1>0, <1>4, VerdictType DEF Timeout, EngineTypeOK, EngineSteps, WorkerSteps, Verdicts
  <2>4. Nested'
    BY <1>0, <1>4 DEF Timeout, Gone, Nested, WorkerRunning, here
  <2>5. QED BY <2>2, <2>3, <2>4 DEF HarnessTypeOK, EngineTypeOK, TypeOK, TypeInv
<1>5. CASE Crash
  <2>1. orphans' \subseteq Rules
    BY <1>0, <1>5 DEF Crash, JobClosed, HarnessTypeOK
  <2>2. HarnessTypeOK'
    <3>1. CASE Gone
      BY <1>0, <1>5, <2>1, <3>1, GoneTypes DEF Crash
    <3>2. CASE ~Gone
      BY <1>0, <1>5, <2>1, <3>2 DEF Crash, HarnessTypeOK
    <3>3. QED BY <3>1, <3>2
  <2>3. EngineTypeOK'
    BY <1>0, <1>5 DEF Crash, EngineTypeOK, EngineSteps, WorkerSteps
  <2>4. Nested'
    BY <1>0, <1>5 DEF Crash, Gone, Nested, WorkerRunning, WorkerSteps, here
  <2>5. QED BY <2>2, <2>3, <2>4 DEF HarnessTypeOK, EngineTypeOK, TypeOK, TypeInv
<1>6. CASE OrphanStep
  <2>1. HarnessTypeOK'
    BY <1>0, <1>6 DEF OrphanStep, OrphanAdds, harnessVars, HarnessTypeOK
  <2>2. EngineTypeOK' /\ Nested'
    BY <1>0, <1>6 DEF OrphanStep, OrphanAdds, harnessVars, engineVars, workerVars, EngineTypeOK, Nested, here
  <2>3. QED BY <2>1, <2>2 DEF HarnessTypeOK, EngineTypeOK, TypeOK, TypeInv
<1>7. CASE cleanup
  <2>1. HarnessTypeOK'
    BY <1>0, <1>7 DEF cleanup, RemoveDirs, harnessVars, HarnessTypeOK
  <2>2. EngineTypeOK'
    BY <1>0, <1>7 DEF cleanup, RemoveDirs, workerVars, EngineTypeOK
  <2>3. Nested'
    BY <1>0, <1>7 DEF cleanup, harnessVars, workerVars, Nested, WorkerRunning, WorkerSteps
  <2>4. QED BY <2>1, <2>2, <2>3 DEF HarnessTypeOK, EngineTypeOK, TypeOK, TypeInv
<1>8. QED BY <1>2, <1>3, <1>4, <1>5, <1>6, <1>7 DEF Outside

LEMMA NextParts == Next => Outside \/ EngineStep \/ WorkerStep \/ HarnessStep \/ UNCHANGED vars
BY DEF Next, Outside, Done

LEMMA TypeNext == TypeInv /\ [Next]_vars => TypeInv'
<1> SUFFICES ASSUME TypeInv, [Next]_vars PROVE TypeInv'
  OBVIOUS
<1>1. CASE HarnessStep
  <2>1. EngineTypeOK' /\ Nested'
    <3>1. EngineTypeOK /\ Nested
      BY Types DEF TypeInv
    <3>2. hpc # "none" /\ UNCHANGED <<run, engineVars, workerVars>>
      BY <1>1, HarnessRuns
    <3>3. QED BY <3>1, <3>2 DEF engineVars, workerVars, EngineTypeOK, Nested, here
  <2>2. HarnessTypeOK'
    BY <1>1, HarnessTypes
  <2>3. QED BY <2>1, <2>2 DEF HarnessTypeOK, EngineTypeOK, TypeOK, TypeInv
<1>2. CASE UNCHANGED vars
  BY <1>2 DEF vars, harnessVars, firewallVars, engineVars, workerVars, TypeInv, TypeOK, HarnessTypeOK,
     Nested, here
<1>3. QED BY <1>1, <1>2, WorkerTypes, EngineTypes, OutsideTypes, NextParts

\* The engine, its worker and the harness have the types and the nesting of the code.
THEOREM ValidationTypeCorrect == Spec => [](TypeOK /\ Nested)
<1>1. Init => TypeInv
  BY TypeInit
<1>2. TypeInv /\ [Next]_vars => TypeInv'
  BY TypeNext
<1>3. TypeInv => TypeOK /\ Nested
  BY DEF TypeInv
<1>4. QED BY <1>1, <1>2, <1>3, PTL DEF Spec

-----------------------------------------------------------------------------
(* Firewall rules *)

\* The rules of the run that no orphan added and no sweep forgot.
NoneLeft == \A r \in rules \ stray : r[1] # run

Settled == \/ wpc = "emit"
           \/ pc = "wait" /\ wpc = "exited"
           \/ pc \in {"remove", "forget", "record"}

\* What makes the two properties inductive: both rules are on record while they
\* are added, and a result that does not ask for cleaning by hand is only made
\* when no rule is left.
Accounted ==
  /\ hpc \in {"add", "mark"} => recorded[run] = RuleIds
  /\ out.manual => out.status = "ROLLBACK_FAILED"
  /\ wpc \in {"check", "execute", "live", "rollback"} => ~out.manual
  /\ pc = "recover" \/ pc = "forget" => ~out.manual
  /\ deep /\ ~out.manual /\ Settled => NoneLeft

FirewallInv == RulesRecorded /\ LeftIsReported /\ Accounted

\* A step that adds no rule but on record, and forgets none that is left.
LEMMA RecordsKept ==
  ASSUME RulesRecorded,
         \A r \in rules' \ stray' :
           /\ r \in rules \ stray
           /\ r[2] \in recorded[r[1]] => r[2] \in recorded'[r[1]]
           /\ <<r[1], DeepAt>> \in dirs \cap tracked => <<r[1], DeepAt>> \in dirs' \cap tracked'
  PROVE  RulesRecorded'
BY DEF RulesRecorded

\* A step that leaves results, rules and directories alone.
LEMMA LeftKept ==
  ASSUME LeftIsReported, UNCHANGED <<run, results>>,
         rules' \ stray' \subseteq rules \ stray,
         <<run, DeepAt>> \in dirs => <<run, DeepAt>> \in dirs'
  PROVE  LeftIsReported'
BY DEF LeftIsReported

\* A clean-up removes the records only of rules that are gone.
LEMMA CleanupRecorded ==
  ASSUME TypeInv, RulesRecorded, run \in Runs, NEW outcome, cleanup_firewall_state(outcome),
         UNCHANGED <<run, stray, dirs, tracked>>
  PROVE  RulesRecorded' /\ (outcome = TRUE => NoneLeft')
<1>1. rules' \subseteq rules /\ rules \subseteq Rules /\ recorded \in [Runs -> SUBSET RuleIds]
  BY CleanupTypes DEF TypeInv, TypeOK, HarnessTypeOK
<1>2. CASE outcome = TRUE
  <2>1. named \cap rules' = {} /\ recorded' = [recorded EXCEPT ![run] = {}]
    BY <1>2 DEF cleanup_firewall_state
  <2>2. ASSUME NEW r \in rules' \ stray' PROVE r[1] # run /\ r[1] \in Runs
    <3>1. r \in rules \ stray /\ r \in Rules
      BY <1>1
    <3>a. r = <<r[1], r[2]>> /\ r[1] \in Runs
      BY <3>1 DEF Rules
    <3>b. r[2] \in recorded[r[1]]
      BY <3>1 DEF RulesRecorded
    <3>2. r = <<r[1], r[2]>> /\ r[1] \in Runs /\ r[2] \in recorded[r[1]]
      BY <3>a, <3>b
    <3>3. r[1] = run => r \in named
      BY <3>2 DEF named
    <3>4. QED BY <2>1, <3>2, <3>3
  <2>3. \A r \in rules' \ stray' : recorded'[r[1]] = recorded[r[1]]
    BY <1>1, <2>1, <2>2
  <2>4. RulesRecorded'
    BY <1>1, <2>3, RecordsKept
  <2>5. NoneLeft'
    BY <2>2 DEF NoneLeft
  <2>6. QED BY <2>4, <2>5
<1>3. CASE outcome # TRUE
  <2>1. recorded' = recorded
    BY <1>3 DEF cleanup_firewall_state
  <2>2. QED BY <1>1, <1>3, <2>1, RecordsKept
<1>4. QED BY <1>2, <1>3

LEMMA FirewallInit == Init => FirewallInv
BY PlanAssumption DEF Init, HarnessInit, FirewallInv, RulesRecorded, LeftIsReported, Accounted, Verdict, Settled

LEMMA FirewallHarness ==
  ASSUME TypeInv, FirewallInv, HarnessStep
  PROVE  FirewallInv'
<1>0. /\ hpc # "none" /\ wpc = "live" /\ at = DeepAt /\ run \in Runs
      /\ here \in dirs \cap tracked /\ Len(results) = at - 1
      /\ pc \in {"wait", "idle"}
      /\ UNCHANGED <<run, engineVars, workerVars>>
  BY HarnessRuns DEF TypeInv, Nested, WorkerRunning, WorkerSteps
<1>1. recorded \in [Runs -> SUBSET RuleIds] /\ rules \subseteq Rules /\ at \in Nat
      /\ results \in Seq(ActiveValidationResult)
  BY DEF TypeInv, TypeOK, HarnessTypeOK
<1>2. UNCHANGED stray
  BY DEF HarnessStep, Harness, firewallVars, _validate_input, _write_firewall_state, StartAdd,
     _firewall_script, MarkCreated, Listen, Deadline, _observe_resolution, ResolutionEnds, Accept,
     Unauthenticated, Message, BadMessage, CompleteObservation, Finally, _error_observation, WriteOutput
<1>3. LeftIsReported'
  BY <1>0, <1>1 DEF LeftIsReported, engineVars
<1>4. ~Settled'
  BY <1>0 DEF Settled, engineVars, workerVars
<1>5. RulesRecorded' /\ (hpc' \in {"add", "mark"} => recorded'[run] = RuleIds)
  <2>1. CASE _write_firewall_state
    <3>1. \/ recorded' = [recorded EXCEPT ![run] = RuleIds]
          \/ recorded' = recorded /\ hpc' = "error"
      BY <2>1 DEF _write_firewall_state, To
    <3>2. rules' = rules
      BY <2>1 DEF _write_firewall_state
    <3>3. \A r \in rules : r[1] \in Runs /\ r[2] \in RuleIds
      BY <1>1 DEF Rules
    <3>4. RulesRecorded'
      BY <1>0, <1>1, <1>2, <3>1, <3>2, <3>3, RecordsKept DEF FirewallInv, engineVars
    <3>5. QED BY <1>0, <1>1, <3>1, <3>4
  <2>2. CASE _firewall_script
    <3>1. recorded[run] = RuleIds /\ recorded' = recorded /\ adding \in RuleIds
      BY <2>2 DEF _firewall_script, At, FirewallInv, Accounted, TypeInv, TypeOK, HarnessTypeOK
    <3>2. rules' \in {rules, rules \cup {<<run, adding>>}}
      BY <2>2 DEF _firewall_script
    <3>3. \A r \in rules' \ stray' : r \in rules \ stray \/ r = <<run, adding>>
      BY <1>2, <3>2
    <3>4. here = <<run, DeepAt>> /\ dirs' = dirs /\ tracked' = tracked
      BY <1>0 DEF here, engineVars
    <3>5. RulesRecorded'
      BY <1>0, <3>1, <3>3, <3>4 DEF RulesRecorded, FirewallInv
    <3>6. QED BY <1>0, <3>1, <3>5
  <2>3. CASE Finally \/ _error_observation
    <3>1. \E outcome : cleanup_firewall_state(outcome)
      BY <2>3 DEF Finally, _error_observation
    <3>2. hpc' \notin {"add", "mark"}
      BY <2>3 DEF Finally, _error_observation, To
    <3>3. QED BY <1>0, <1>2, <3>1, <3>2, CleanupRecorded DEF FirewallInv, engineVars
  <2>4. CASE ~_write_firewall_state /\ ~_firewall_script /\ ~Finally /\ ~_error_observation
    <3>1. UNCHANGED <<rules, recorded>>
      BY <2>4 DEF HarnessStep, Harness, firewallVars, _validate_input, StartAdd, MarkCreated, Listen,
         Deadline, _observe_resolution, ResolutionEnds, Accept, Unauthenticated, Message, BadMessage,
         CompleteObservation, WriteOutput
    <3>2. hpc' \in {"add", "mark"} => hpc \in {"add", "mark"}
      BY <2>4 DEF HarnessStep, Harness, At, To, Raise, _validate_input, StartAdd, MarkCreated, Listen,
         Deadline, _observe_resolution, ResolutionEnds, Accept, Unauthenticated, Message, BadMessage,
         CompleteObservation, WriteOutput
    <3>3. QED BY <1>0, <1>2, <3>1, <3>2, RecordsKept DEF FirewallInv, Accounted, engineVars
  <2>5. QED BY <2>1, <2>2, <2>3, <2>4
<1>6. QED BY <1>0, <1>3, <1>4, <1>5 DEF FirewallInv, Accounted, engineVars, workerVars

LEMMA FirewallWorker ==
  ASSUME TypeInv, FirewallInv, WorkerStep
  PROVE  FirewallInv'
<1>0. /\ wpc \in WorkerRunning /\ pc \in {"wait", "idle"} /\ run \in Runs
      /\ UNCHANGED <<run, engineVars, stray>>
      /\ out \in ActiveValidationResult
  BY DEF TypeInv, TypeOK, Nested, WorkerStep, Worker, check_applicability, execute, run_live_transport, LiveObserved,
     LiveFailed, rollback, Emit, WorkerRunning, WorkerSteps, firewallVars
<1>1. CASE rollback
  <2>0. wpc = "rollback" /\ wpc' = "emit" /\ ~out.manual /\ UNCHANGED hpc /\ hpc = "none"
    BY <1>1 DEF rollback, Worker, harnessVars, FirewallInv, Accounted, TypeInv, Nested
  <2>1. CASE deep
    <3>1. PICK outcome \in {TRUE, FALSE, None} :
            cleanup_firewall_state(outcome) /\ out' = rolled_back(out, outcome)
      BY <1>1, <2>1 DEF rollback
    <3>2. RulesRecorded' /\ (outcome = TRUE => NoneLeft')
      BY <1>0, <3>1, CleanupRecorded DEF FirewallInv, engineVars
    <3>3. LeftIsReported'
      <4>1. rules' \subseteq rules
        BY <3>1, CleanupTypes DEF TypeInv, TypeOK
      <4>2. QED BY <1>0, <4>1, LeftKept DEF FirewallInv, engineVars
    <3>4. out'.manual => out'.status = "ROLLBACK_FAILED"
      BY <1>0, <2>0, <3>1, RolledBack
    <3>5. ~out'.manual => outcome = TRUE
      BY <1>0, <2>0, <3>1, RolledBack
    <3>6. QED BY <1>0, <2>0, <3>2, <3>3, <3>4, <3>5 DEF FirewallInv, Accounted, engineVars
  <2>2. CASE ~deep
    <3>1. UNCHANGED <<rules, recorded, out>>
      BY <1>1, <2>2 DEF rollback
    <3>2. RulesRecorded' /\ LeftIsReported'
      BY <1>0, <3>1, RecordsKept, LeftKept DEF FirewallInv, engineVars
    <3>3. ~deep'
      BY <1>0, <2>2 DEF deep, engineVars
    <3>4. QED BY <1>0, <2>0, <3>1, <3>2, <3>3 DEF FirewallInv, Accounted, engineVars
  <2>3. QED BY <2>1, <2>2
<1>2. CASE ~rollback
  <2>1. UNCHANGED <<rules, recorded>>
    BY <1>2 DEF WorkerStep, check_applicability, execute, run_live_transport, LiveObserved, LiveFailed, Emit, firewallVars
  <2>2. RulesRecorded' /\ LeftIsReported'
    BY <1>0, <2>1, RecordsKept, LeftKept DEF FirewallInv, engineVars
  <2>3. hpc' \notin {"add", "mark"} \/ hpc' = hpc
    BY <1>2 DEF WorkerStep, check_applicability, execute, run_live_transport, LiveObserved, LiveFailed, Emit, Gone, harnessVars
  <2>4. CASE Emit
    <3>1. wpc = "emit" /\ wpc' \in {"exited", "failed"} /\ out' = out
      BY <2>4 DEF Emit, Worker
    <3>2. Settled' => Settled
      BY <1>0, <3>1 DEF Settled, engineVars
    <3>3. QED BY <1>0, <2>1, <2>2, <2>3, <3>1, <3>2 DEF FirewallInv, Accounted, NoneLeft, deep, engineVars
  <2>5. CASE ~Emit
    <3>1. ~out'.manual
      <4>1. CASE out' = out
        BY <1>0, <1>2, <2>5, <4>1 DEF FirewallInv, Accounted, WorkerStep, Worker, check_applicability, execute,
           run_live_transport, LiveObserved, LiveFailed
      <4>2. CASE \E status : out' = Verdict(status)
        BY <4>2 DEF Verdict
      <4>3. QED BY <1>2, <2>5, <4>1, <4>2 DEF WorkerStep, check_applicability, execute, run_live_transport,
                LiveObserved, LiveFailed
    <3>2. wpc' \in {"execute", "live", "rollback"}
      BY <1>2, <2>5 DEF WorkerStep, check_applicability, execute, run_live_transport, LiveObserved, LiveFailed
    <3>3. ~Settled'
      BY <1>0, <3>2 DEF Settled, engineVars
    <3>4. QED BY <1>0, <2>1, <2>2, <2>3, <3>1, <3>3 DEF FirewallInv, Accounted, engineVars
  <2>6. QED BY <2>4, <2>5
<1>3. QED BY <1>1, <1>2

\* The engine's steps before a worker runs and after it has ended.
LEMMA FirewallEngine ==
  ASSUME TypeInv, FirewallInv, EngineStep
  PROVE  FirewallInv'
<1>0. /\ pc # "idle" /\ run \in Runs
      /\ UNCHANGED <<run, harnessVars, stray>>
      /\ out \in ActiveValidationResult /\ results \in Seq(ActiveValidationResult)
      /\ at \in Nat /\ recorded \in [Runs -> SUBSET RuleIds] /\ rules \subseteq Rules
  <2>1. pc # "idle" /\ UNCHANGED run
    BY DEF EngineStep, MakeDir, track, Spawn, Recovery, WorkerEnded, _rollback_in_recovery, Remove, forget, Record,
       Complete
  <2>2. UNCHANGED harnessVars
    BY DEF EngineStep, MakeDir, track, Spawn, Recovery, WorkerEnded, _rollback_in_recovery, Remove, forget, Record,
       Complete
  <2>3. UNCHANGED stray
    BY DEF EngineStep, MakeDir, track, Spawn, Recovery, WorkerEnded, _rollback_in_recovery, Remove, forget, Record,
       Complete, firewallVars
  <2>4. run \in Runs
    BY <2>1 DEF TypeInv, Nested
  <2>5. QED BY <2>1, <2>2, <2>3, <2>4 DEF TypeInv, TypeOK, HarnessTypeOK
<1>1. wpc \in WorkerRunning => pc = "wait"
  BY <1>0 DEF TypeInv, Nested
<1>2. pc # "wait" => hpc \notin {"add", "mark"}
  BY <1>1 DEF TypeInv, Nested, WorkerRunning, WorkerSteps
<1>3. hpc' = hpc
  BY <1>0 DEF harnessVars
<1>4. CASE MakeDir \/ track \/ Spawn
  <2>1. UNCHANGED <<rules, recorded, results>> /\ dirs \subseteq dirs' /\ tracked \subseteq tracked'
    BY <1>4 DEF MakeDir, track, Spawn, firewallVars
  <2>2. RulesRecorded' /\ LeftIsReported'
    BY <1>0, <2>1, RecordsKept, LeftKept DEF FirewallInv
  <2>3. /\ pc # "wait" /\ pc' \in {"track", "spawn", "wait", "idle"}
        /\ wpc' \in {wpc, "check"} /\ pc \notin {"recover", "forget"}
    BY <1>4 DEF MakeDir, track, Spawn, Raises, workerVars
  <2>4. ~Settled'
    BY <1>1, <1>4, <2>3 DEF Settled, MakeDir, track, Spawn, Raises, workerVars, WorkerRunning, WorkerSteps
  <2>5. out' = out \/ out' = Verdict("ERROR")
    BY <1>4 DEF MakeDir, track, Spawn, workerVars
  <2>6. wpc' \in {"check", "execute", "live", "rollback"} => ~out'.manual
    <3>1. CASE Spawn /\ wpc' = "check"
      BY <1>1, <2>3, <3>1 DEF Spawn, Verdict, workerVars, WorkerRunning, WorkerSteps
    <3>2. CASE wpc' = wpc
      BY <1>1, <2>3, <3>2 DEF WorkerRunning, WorkerSteps
    <3>3. QED BY <1>4, <2>3, <3>1, <3>2 DEF MakeDir, track, Spawn, workerVars
  <2>7. out'.manual => out'.status = "ROLLBACK_FAILED"
    BY <2>5 DEF FirewallInv, Accounted, Verdict
  <2>8. QED BY <1>2, <1>3, <2>2, <2>3, <2>4, <2>6, <2>7 DEF FirewallInv, Accounted
<1>5. CASE WorkerEnded
  <2>1. UNCHANGED <<rules, recorded, results, dirs, wpc, at, tracked>> /\ pc = "wait" /\ wpc \in {"exited", "failed"}
    BY <1>5 DEF WorkerEnded
  <2>2. RulesRecorded' /\ LeftIsReported'
    BY <1>0, <2>1, RecordsKept, LeftKept DEF FirewallInv
  <2>3. CASE wpc = "exited"
    <3>1. out' = out /\ pc' = "remove"
      BY <1>5, <2>3 DEF WorkerEnded
    <3>2. NoneLeft => NoneLeft'
      BY <1>0, <2>1 DEF NoneLeft
    <3>3. deep /\ ~out.manual => NoneLeft
      BY <2>1, <2>3 DEF FirewallInv, Accounted, Settled
    <3>4. QED BY <1>0, <1>3, <2>1, <2>2, <3>1, <3>2, <3>3 DEF FirewallInv, Accounted, deep
  <2>4. CASE wpc = "failed"
    <3>1. out' = Verdict("ERROR") /\ pc' = "recover"
      BY <1>5, <2>4 DEF WorkerEnded
    <3>2. ~Settled' /\ ~out'.manual
      BY <2>1, <2>4, <3>1 DEF Settled, Verdict
    <3>3. QED BY <1>0, <1>3, <2>1, <2>2, <2>4, <3>1, <3>2 DEF FirewallInv, Accounted
  <2>5. QED BY <2>1, <2>3, <2>4
<1>6. CASE _rollback_in_recovery
  <2>1. /\ pc = "recover" /\ pc' = "remove" /\ wpc' = wpc /\ wpc \notin WorkerRunning /\ ~out.manual
        /\ UNCHANGED <<at, dirs, tracked, results>>
    BY <1>1, <1>6 DEF _rollback_in_recovery, FirewallInv, Accounted
  <2>2. wpc' \notin {"check", "execute", "live", "rollback"}
    BY <2>1 DEF WorkerRunning, WorkerSteps
  <2>3. CASE deep
    <3>1. PICK outcome \in {TRUE, FALSE, None}, answered \in BOOLEAN :
            cleanup_firewall_state(outcome) /\ out' = rolled_back(out, IF answered THEN outcome ELSE None)
      BY <1>6, <2>3 DEF _rollback_in_recovery
    <3>2. RulesRecorded' /\ (outcome = TRUE => NoneLeft')
      BY <1>0, <2>1, <3>1, CleanupRecorded DEF FirewallInv
    <3>3. rules' \subseteq rules
      BY <3>1, CleanupTypes DEF TypeInv, TypeOK
    <3>4. LeftIsReported'
      BY <1>0, <2>1, <3>3, LeftKept DEF FirewallInv
    <3>5. (IF answered THEN outcome ELSE None) \in {TRUE, FALSE, None}
      OBVIOUS
    <3>6. out'.manual => out'.status = "ROLLBACK_FAILED"
      BY <1>0, <2>1, <3>1, <3>5, RolledBack
    <3>7. ~out'.manual => (IF answered THEN outcome ELSE None) = TRUE
      BY <1>0, <2>1, <3>1, <3>5, RolledBack
    <3>8. ~out'.manual => NoneLeft'
      <4>1. CASE answered
        BY <3>2, <3>7, <4>1
      <4>2. CASE ~answered
        <5>1. None # TRUE
          BY NoneAssumption
        <5>2. QED BY <3>7, <4>2, <5>1
      <4>3. QED BY <4>1, <4>2
    <3>9. QED BY <1>0, <1>2, <1>3, <2>1, <2>2, <3>2, <3>4, <3>6, <3>8 DEF FirewallInv, Accounted
  <2>4. CASE ~deep
    <3>1. UNCHANGED <<rules, recorded, out>>
      BY <1>6, <2>4 DEF _rollback_in_recovery
    <3>2. RulesRecorded' /\ LeftIsReported'
      BY <1>0, <2>1, <3>1, RecordsKept, LeftKept DEF FirewallInv
    <3>3. ~deep'
      BY <2>1, <2>4 DEF deep
    <3>4. QED BY <1>0, <1>2, <1>3, <2>1, <2>2, <3>1, <3>2, <3>3 DEF FirewallInv, Accounted
  <2>5. QED BY <2>3, <2>4
<1>7. CASE Remove
  <2>1. /\ pc = "remove" /\ pc' \in {"record", "forget"} /\ UNCHANGED <<rules, at, tracked, results, wpc, out>>
        /\ wpc \notin WorkerRunning
    BY <1>1, <1>7 DEF Remove, workerVars
  <2>2. deep /\ ~out.manual => NoneLeft
    BY <2>1 DEF FirewallInv, Accounted, Settled
  <2>3. CASE UNCHANGED <<dirs, recorded>> /\ pc' = "record"
    <3>1. RulesRecorded' /\ LeftIsReported'
      BY <1>0, <2>1, <2>3, RecordsKept, LeftKept DEF FirewallInv
    <3>2. QED BY <1>0, <1>2, <1>3, <2>1, <2>2, <2>3, <3>1 DEF FirewallInv, Accounted, NoneLeft, deep, WorkerRunning,
              WorkerSteps
  <2>4. CASE ~out.manual /\ RemoveDirs({here}) /\ pc' = "forget"
    <3>1. dirs' = dirs \ {here} /\ recorded' = [r \in Runs |-> IF <<r, DeepAt>> = here THEN {} ELSE recorded[r]]
      BY <2>4 DEF RemoveDirs
    <3>2. \A r \in rules \ stray : <<r[1], DeepAt>> # here
      BY <2>2, <2>4 DEF here, deep, NoneLeft
    <3>3. \A r \in rules : r[1] \in Runs
      BY <1>0 DEF Rules
    <3>4. RulesRecorded'
      BY <1>0, <2>1, <3>1, <3>2, <3>3, RecordsKept DEF FirewallInv
    <3>5. LeftIsReported'
      <4>1. \A r \in rules \ stray : r[1] = run => here # <<run, DeepAt>>
        BY <3>2
      <4>2. QED BY <1>0, <2>1, <3>1, <4>1 DEF LeftIsReported, FirewallInv
    <3>6. QED BY <1>0, <1>2, <1>3, <2>1, <2>2, <2>4, <3>4, <3>5 DEF FirewallInv, Accounted, NoneLeft, deep, WorkerRunning,
              WorkerSteps
  <2>5. QED BY <1>7, <2>3, <2>4 DEF Remove
<1>8. CASE forget
  <2>1. /\ pc = "forget" /\ pc' \in {"record", "idle"} /\ UNCHANGED <<rules, recorded, at, dirs, results, wpc, out>>
        /\ wpc \notin WorkerRunning /\ tracked' \in {tracked, tracked \ {here}}
    BY <1>1, <1>8 DEF forget, Raises, firewallVars, workerVars
  <2>2. deep => NoneLeft
    BY <2>1 DEF FirewallInv, Accounted, Settled
  <2>3. \A r \in rules \ stray : <<r[1], DeepAt>> # here
    BY <2>2 DEF here, deep, NoneLeft
  <2>4. RulesRecorded'
    BY <1>0, <2>1, <2>3, RecordsKept DEF FirewallInv
  <2>5. LeftIsReported'
    BY <1>0, <2>1, LeftKept DEF FirewallInv
  <2>6. QED BY <1>0, <1>2, <1>3, <2>1, <2>2, <2>4, <2>5 DEF FirewallInv, Accounted, NoneLeft, deep, WorkerRunning,
            WorkerSteps
<1>9. CASE Record
  <2>1. /\ pc = "record" /\ pc' \in {"complete", "dir", "idle"} /\ UNCHANGED <<rules, recorded, dirs, tracked, wpc, out>>
        /\ wpc \notin WorkerRunning
    BY <1>1, <1>9 DEF Record, Raises, firewallVars, workerVars
  <2>2. RulesRecorded'
    BY <1>0, <2>1, RecordsKept DEF FirewallInv
  <2>3. ~Settled'
    BY <2>1 DEF Settled, WorkerRunning, WorkerSteps
  <2>4. LeftIsReported'
    <3>1. CASE results' = results
      BY <1>0, <2>1, <3>1, LeftKept DEF FirewallInv
    <3>2. CASE results' = Append(results, out)
      <4>1. Len(results) = at - 1
        BY <2>1 DEF TypeInv, Nested
      <4>2. SUFFICES ASSUME DeepAt > 0, Len(results') >= DeepAt,
                            NEW r \in rules \ stray, r[1] = run
                     PROVE  /\ results'[DeepAt].status = "ROLLBACK_FAILED" /\ results'[DeepAt].manual
                            /\ <<run, DeepAt>> \in dirs
        BY <1>0, <2>1 DEF LeftIsReported
      <4>3. <<run, DeepAt>> \in dirs
        BY <4>2 DEF FirewallInv, RulesRecorded
      <4>4. DeepAt \in Nat /\ Len(results) \in Nat
        BY <1>0, PlanAssumption
      <4>5. CASE Len(results) >= DeepAt
        <5>1. results'[DeepAt] = results[DeepAt]
          BY <1>0, <3>2, <4>2, <4>4, <4>5
        <5>2. QED BY <4>2, <4>3, <4>5, <5>1 DEF FirewallInv, LeftIsReported
      <4>6. CASE ~(Len(results) >= DeepAt)
        <5>1. at = DeepAt /\ results'[DeepAt] = out
          BY <1>0, <3>2, <4>1, <4>2, <4>4, <4>6
        <5>2. out.manual
          BY <2>1, <4>2, <5>1 DEF FirewallInv, Accounted, Settled, NoneLeft, deep
        <5>3. QED BY <4>3, <5>1, <5>2 DEF FirewallInv, Accounted
      <4>7. QED BY <4>5, <4>6
    <3>3. QED BY <1>9, <3>1, <3>2 DEF Record
  <2>5. QED BY <1>0, <1>2, <1>3, <2>1, <2>2, <2>3, <2>4 DEF FirewallInv, Accounted, WorkerRunning, WorkerSteps
<1>10. CASE Complete
  <2>1. /\ pc = "complete" /\ pc' = "idle" /\ wpc \notin WorkerRunning
        /\ UNCHANGED <<rules, recorded, at, dirs, tracked, results, wpc, out>>
    BY <1>1, <1>10 DEF Complete, Raises, firewallVars, workerVars
  <2>2. RulesRecorded' /\ LeftIsReported'
    BY <1>0, <2>1, RecordsKept, LeftKept DEF FirewallInv
  <2>3. ~Settled'
    BY <2>1 DEF Settled, WorkerRunning, WorkerSteps
  <2>4. QED BY <1>0, <1>2, <1>3, <2>1, <2>2, <2>3 DEF FirewallInv, Accounted, WorkerRunning, WorkerSteps
<1>11. QED BY <1>4, <1>5, <1>6, <1>7, <1>8, <1>9, <1>10 DEF EngineStep, Recovery

\* The others: a run begins, a time limit is reached, the engine's process ends,
\* an orphaned script completes, an operator sweeps.
LEMMA FirewallOutside ==
  ASSUME TypeInv, FirewallInv, Outside
  PROVE  FirewallInv'
<1>0. /\ out \in ActiveValidationResult /\ recorded \in [Runs -> SUBSET RuleIds] /\ rules \subseteq Rules
      /\ run \in Nat /\ DeepAt \in Nat
  BY PlanAssumption DEF TypeInv, TypeOK, HarnessTypeOK
<1>1. CASE Begin
  <2>1. /\ UNCHANGED <<hpc, rules, recorded, stray, dirs, tracked, wpc, out>> /\ pc' = "dir" /\ results' = <<>>
        /\ wpc \notin WorkerRunning /\ hpc \notin Running
    BY <1>1 DEF Begin, firewallVars, workerVars
  <2>2. RulesRecorded'
    BY <2>1, RecordsKept DEF FirewallInv
  <2>3. LeftIsReported'
    BY <1>0, <2>1 DEF LeftIsReported
  <2>4. ~Settled'
    BY <2>1 DEF Settled, WorkerRunning, WorkerSteps
  <2>5. hpc' \notin {"add", "mark"} /\ wpc' \notin {"check", "execute", "live", "rollback"}
    BY <2>1 DEF Running, HarnessSteps, WorkerRunning, WorkerSteps
  <2>6. QED BY <2>1, <2>2, <2>3, <2>4, <2>5 DEF FirewallInv, Accounted
<1>2. CASE LiveTimeout
  <2>1. /\ UNCHANGED <<run, rules, recorded, stray, dirs, tracked, results, pc, at>> /\ hpc' = "none"
        /\ out' = Verdict("INCONCLUSIVE") /\ wpc' = "rollback" /\ wpc = "live"
    BY <1>2 DEF LiveTimeout, KilledAlone, Gone, engineVars, Worker
  <2>2. RulesRecorded' /\ LeftIsReported'
    BY <2>1, RecordsKept, LeftKept DEF FirewallInv
  <2>3. ~Settled' /\ ~out'.manual
    BY <2>1 DEF Settled, Verdict, TypeInv, Nested, WorkerRunning, WorkerSteps
  <2>4. QED BY <2>1, <2>2, <2>3 DEF FirewallInv, Accounted
<1>3. CASE Timeout
  <2>1. /\ UNCHANGED <<run, rules, recorded, stray, dirs, tracked, results, at>> /\ hpc' = "none"
        /\ out' = Verdict("TIMED_OUT") /\ wpc' = "failed" /\ pc' = "recover"
    BY <1>3 DEF Timeout, Gone
  <2>2. RulesRecorded' /\ LeftIsReported'
    BY <2>1, RecordsKept, LeftKept DEF FirewallInv
  <2>3. ~Settled' /\ ~out'.manual
    BY <2>1 DEF Settled, Verdict
  <2>4. QED BY <2>1, <2>2, <2>3 DEF FirewallInv, Accounted
<1>4. CASE Crash
  <2>1. /\ UNCHANGED <<run, rules, recorded, stray, dirs, tracked, results, at, out>> /\ pc' = "idle"
    BY <1>4 DEF Crash
  <2>2. hpc' \in {hpc, "none"} /\ wpc' \in {wpc, "failed"}
    BY <1>4 DEF Crash, Gone
  <2>3. RulesRecorded' /\ LeftIsReported'
    BY <2>1, RecordsKept, LeftKept DEF FirewallInv
  <2>4. Settled' => Settled
    BY <2>1, <2>2 DEF Settled
  <2>5. NoneLeft => NoneLeft'
    BY <2>1 DEF NoneLeft
  <2>6. QED BY <2>1, <2>2, <2>3, <2>4, <2>5 DEF FirewallInv, Accounted, deep
<1>5. CASE OrphanStep
  <2>1. UNCHANGED <<run, hpc, recorded, dirs, tracked, results, pc, at, out, wpc>>
    BY <1>5 DEF OrphanStep, OrphanAdds, harnessVars, engineVars, workerVars
  <2>2. rules' \ stray' \subseteq rules \ stray
    BY <1>5 DEF OrphanStep, OrphanAdds
  <2>3. RulesRecorded' /\ LeftIsReported'
    BY <2>1, <2>2, RecordsKept, LeftKept DEF FirewallInv
  <2>4. NoneLeft => NoneLeft'
    BY <2>1, <2>2 DEF NoneLeft
  <2>5. Settled' = Settled /\ deep' = deep
    BY <2>1 DEF Settled, deep
  <2>6. QED BY <2>1, <2>3, <2>4, <2>5 DEF FirewallInv, Accounted
<1>6. CASE cleanup
  <2>1. /\ UNCHANGED <<run, hpc, rules, results, pc, at, out, wpc>> /\ pc = "idle" /\ wpc \notin WorkerRunning
    BY <1>6 DEF cleanup, harnessVars, workerVars
  <2>2. PICK gone \in SUBSET tracked :
          /\ dirs' = dirs \ gone
          /\ recorded' = [r \in Runs |-> IF <<r, DeepAt>> \in gone THEN {} ELSE recorded[r]]
          /\ stray' = stray \cup {r \in rules : <<r[1], DeepAt>> \in gone}
          /\ tracked' \in {tracked, tracked \ gone}
    BY <1>6 DEF cleanup, RemoveDirs
  <2>3. \A r \in rules' \ stray' : r \in rules \ stray /\ r[1] \in Runs /\ <<r[1], DeepAt>> \notin gone
    BY <1>0, <2>1, <2>2 DEF Rules
  <2>4. RulesRecorded'
    BY <2>2, <2>3, RecordsKept DEF FirewallInv
  <2>5. LeftIsReported'
    BY <2>1, <2>2, <2>3 DEF LeftIsReported, FirewallInv
  <2>6. hpc' \notin {"add", "mark"} /\ ~Settled' /\ wpc' \notin {"check", "execute", "live", "rollback"}
    BY <2>1 DEF Settled, TypeInv, Nested, WorkerRunning, WorkerSteps
  <2>7. QED BY <2>1, <2>4, <2>5, <2>6 DEF FirewallInv, Accounted
<1>7. QED BY <1>1, <1>2, <1>3, <1>4, <1>5, <1>6 DEF Outside

LEMMA FirewallNext ==
  ASSUME TypeInv, FirewallInv, [Next]_vars
  PROVE  FirewallInv'
<1>1. CASE UNCHANGED vars
  BY <1>1 DEF vars, harnessVars, firewallVars, engineVars, workerVars, FirewallInv, RulesRecorded, LeftIsReported,
     Accounted, Settled, NoneLeft, deep
<1>2. CASE Next
  BY <1>2, FirewallHarness, FirewallWorker, FirewallEngine, FirewallOutside, NextParts, <1>1
<1>3. QED BY <1>1, <1>2

LEMMA FirewallAlways == Spec => []FirewallInv
<1>1. Init => TypeInv /\ FirewallInv
  BY TypeInit, FirewallInit
<1>2. TypeInv /\ FirewallInv /\ [Next]_vars => TypeInv' /\ FirewallInv'
  BY TypeNext, FirewallNext
<1>3. QED BY <1>1, <1>2, PTL DEF Spec

\* A rollback or an operator finds every firewall rule: it is named in the state
\* file of a tracked directory, unless an orphaned script added it or its
\* directory was swept - for any number of runs, validators and connections.
THEOREM RulesRecordedAlways == Spec => []RulesRecorded
<1>1. FirewallInv => RulesRecorded
  BY DEF FirewallInv
<1>2. QED BY <1>1, FirewallAlways, PTL

\* A rule of the run that is left is reported as a failed rollback that asks for
\* cleaning by hand, and the directory with its name is kept.
THEOREM LeftIsReportedAlways == Spec => []LeftIsReported
<1>1. FirewallInv => LeftIsReported
  BY DEF FirewallInv
<1>2. QED BY <1>1, FirewallAlways, PTL

-----------------------------------------------------------------------------
(* What an exposure rests on *)

Witnessed(exposure) ==
  /\ exposure = "EXPOSURE_CONFIRMED" =>
       {"marker", "connection", "NEGOTIATE", "AUTHENTICATE", "EXPECTED"} \subseteq wire
  /\ exposure = "EXPOSURE_NOT_OBSERVED" => "marker" \in wire /\ "connection" \notin wire

\* Nothing has been sent before the harness of the run starts.
Unwired ==
  /\ at < DeepAt => wire = {}
  /\ at = DeepAt /\ (pc \in {"dir", "track", "spawn"} \/ wpc \in {"check", "execute"}) => wire = {}

Observing == {"input", "state", "add", "mark", "listen", "resolve", "accept", "serve"}

\* The observation of a harness says no more than what was sent, and, once the
\* target has asked, all of its connections.
Observed ==
  /\ hpc = "none" => obs = _base_observation
  /\ hpc # "none" =>
       /\ obs.query => "marker" \in wire
       /\ obs.connections > 0 => "connection" \in wire
       /\ obs.types \ {"CHALLENGE"} \subseteq wire
       /\ obs.matched => "EXPECTED" \in wire
       /\ obs.verified => MessageTypes \subseteq obs.types
       /\ obs.connections = 0 /\ (obs.query \/ hpc \in Observing) => "connection" \notin wire

Concluded ==
  /\ wpc \in {"check", "execute", "live"} => out.exposure = None
  /\ at = DeepAt /\ pc \in {"wait", "recover", "remove", "forget", "record"} => Witnessed(out.exposure)

WitnessInv == ConfirmedIsWitnessed /\ Unwired /\ Observed /\ Concluded

LEMMA WitnessInit == Init => WitnessInv
BY PlanAssumption DEF Init, HarnessInit, WitnessInv, ConfirmedIsWitnessed, Unwired, Observed, Concluded, Verdict

\* What does not touch the wire or the results, and touches the harness only to
\* end it.
LEMMA WitnessKept ==
  ASSUME WitnessInv, UNCHANGED <<wire, results>>, UNCHANGED <<hpc, obs>> \/ Gone
  PROVE  ConfirmedIsWitnessed' /\ Observed' /\ \A e : Witnessed(e) => Witnessed(e)'
<1>1. ConfirmedIsWitnessed' /\ \A e : Witnessed(e) => Witnessed(e)'
  BY DEF WitnessInv, ConfirmedIsWitnessed, Witnessed
<1>2. Observed'
  BY DEF WitnessInv, Observed, Gone
<1>3. QED BY <1>1, <1>2

\* A message of the wire reaches the observation, and nothing else does.
LEMMA ObservedHarness ==
  ASSUME TypeInv, Observed, HarnessStep
  PROVE  Observed'
<1>0. hpc # "none" /\ obs \in Observation /\ obs.connections \in Nat
  BY HarnessRuns DEF TypeInv, TypeOK, HarnessTypeOK, Observation
<1>a. hpc' # "none"
  BY HarnessRuns DEF HarnessStep, Harness, At, To, Raise, _validate_input, _write_firewall_state, StartAdd,
     _firewall_script, MarkCreated, Listen, Deadline, _observe_resolution, ResolutionEnds, Accept, Unauthenticated,
     Message, BadMessage, CompleteObservation, Finally, _error_observation, WriteOutput
<1> USE <1>a DEF Observed, Observing, At, To
<1>1. CASE UNCHANGED <<obs, wire>> /\ (hpc' \in Observing => hpc \in Observing)
  BY <1>0, <1>1
<1>2. CASE Listen
  <2>1. wire' = wire /\ hpc = "listen"
    BY <1>2 DEF Listen
  <2>2. CASE obs' = [obs EXCEPT !.listening = TRUE]
    <3>1. /\ obs'.query = obs.query /\ obs'.connections = obs.connections /\ obs'.types = obs.types
          /\ obs'.matched = obs.matched /\ obs'.verified = obs.verified
      BY <1>0, <2>2 DEF Observation
    <3>2. QED BY <1>0, <2>1, <3>1
  <2>3. CASE obs' = obs
    BY <1>0, <2>1, <2>3
  <2>4. QED BY <1>2, <2>2, <2>3 DEF Listen
<1>3. CASE _observe_resolution
  <2>1. wire' = wire \cup {"marker"} /\ hpc = "resolve" /\ obs' = [obs EXCEPT !.query = TRUE, !.responses = 1]
    BY <1>3 DEF _observe_resolution
  <2>2. /\ obs'.connections = obs.connections /\ obs'.types = obs.types
        /\ obs'.matched = obs.matched /\ obs'.verified = obs.verified
    BY <1>0, <2>1 DEF Observation
  <2>3. QED BY <1>0, <2>1, <2>2
<1>4. CASE Accept
  <2>1. wire' = wire \cup {"connection"} /\ hpc = "accept" /\ obs' = [obs EXCEPT !.connections = @ + 1]
    BY <1>4 DEF Accept
  <2>2. /\ obs'.connections = obs.connections + 1 /\ obs'.types = obs.types /\ obs'.query = obs.query
        /\ obs'.matched = obs.matched /\ obs'.verified = obs.verified
    BY <1>0, <2>1 DEF Observation
  <2>3. QED BY <1>0, <2>1, <2>2
<1>5. CASE \E t \in MessageTypes, e \in BOOLEAN : (e => t = "AUTHENTICATE") /\ Message(t, e)
  <2>1. PICK t \in MessageTypes, e \in BOOLEAN : (e => t = "AUTHENTICATE") /\ Message(t, e)
    BY <1>5
  <2>2. /\ wire' = wire \cup {t} \cup IF e THEN {"EXPECTED"} ELSE {}
        /\ hpc = "serve"
        /\ obs' = [obs EXCEPT !.types = noted(t), !.attempt = @ \/ t = "AUTHENTICATE",
                              !.matched = IF t = "AUTHENTICATE" THEN e ELSE @]
    BY <2>1 DEF Message
  <2>3. /\ obs'.connections = obs.connections /\ obs'.query = obs.query
        /\ obs'.verified = obs.verified /\ obs'.types = noted(t)
        /\ obs'.matched = (IF t = "AUTHENTICATE" THEN e ELSE obs.matched)
    BY <1>0, <2>2 DEF Observation
  <2>4. obs.types \subseteq noted(t) /\ noted(t) \ {"CHALLENGE"} \subseteq (obs.types \ {"CHALLENGE"}) \cup {t}
    BY DEF noted
  <2>5. wire \subseteq wire' /\ t \in wire' /\ ("connection" \in wire' => "connection" \in wire)
    BY <2>2 DEF MessageTypes
  <2>6. obs'.types \ {"CHALLENGE"} \subseteq wire'
    BY <1>0, <2>3, <2>4, <2>5
  <2>7. obs'.matched => "EXPECTED" \in wire'
    BY <1>0, <2>2, <2>3, <2>5
  <2>8. obs'.verified => MessageTypes \subseteq obs'.types
    BY <1>0, <2>3, <2>4
  <2>9. QED BY <1>0, <2>2, <2>3, <2>5, <2>6, <2>7, <2>8
<1>6. CASE CompleteObservation
  <2>1. /\ wire' = wire /\ hpc = "accept"
        /\ obs' = [obs EXCEPT !.window = late \/ obs.attempt, !.verified = MessageTypes \subseteq obs.types]
    BY <1>6 DEF CompleteObservation
  <2>2. /\ obs'.connections = obs.connections /\ obs'.types = obs.types /\ obs'.query = obs.query
        /\ obs'.matched = obs.matched /\ obs'.verified = (MessageTypes \subseteq obs.types)
    BY <1>0, <2>1 DEF Observation
  <2>3. QED BY <1>0, <2>1, <2>2
<1>7. CASE _error_observation
  <2>1. wire' = wire /\ hpc' \in {"failed", "output"} /\ (obs' = obs \/ obs' = _base_observation)
    BY <1>7 DEF _error_observation
  <2>2. QED BY <1>0, <2>1 DEF _base_observation
<1>8. CASE \/ _validate_input \/ _write_firewall_state \/ StartAdd \/ _firewall_script \/ MarkCreated
           \/ Deadline \/ ResolutionEnds \/ Unauthenticated \/ BadMessage \/ Finally \/ WriteOutput
  <2>1. UNCHANGED <<obs, wire>>
    BY <1>8 DEF _validate_input, _write_firewall_state, StartAdd, _firewall_script, MarkCreated,
       Deadline, ResolutionEnds, Unauthenticated, BadMessage, Finally, WriteOutput
  <2>2. hpc' \in Observing => hpc \in Observing
    BY <1>8 DEF _validate_input, _write_firewall_state, StartAdd, _firewall_script, MarkCreated, Raise,
       Deadline, ResolutionEnds, Unauthenticated, BadMessage, Finally, WriteOutput
  <2>3. QED BY <1>1, <2>1, <2>2
<1>9. QED BY <1>2, <1>3, <1>4, <1>5, <1>6, <1>7, <1>8 DEF HarnessStep, Harness

\* The verdict of a finished harness is witnessed.
LEMMA VerdictWitnessed ==
  ASSUME TypeInv, Observed, hpc = "exited"
  PROVE  Witnessed(classify(obs))
<1>1. obs.connections \in Nat /\ obs.types \subseteq MessageTypes
  BY DEF TypeInv, TypeOK, HarnessTypeOK, Observation
<1>2. CASE classify(obs) = "EXPOSURE_CONFIRMED"
  <2>1. complete_chain(obs) /\ obs.matched /\ obs.verified
    BY <1>2 DEF classify
  <2>2. {"marker", "connection", "EXPECTED"} \subseteq wire
    BY <2>1 DEF complete_chain, Observed
  <2>3. {"NEGOTIATE", "AUTHENTICATE"} \subseteq wire
    BY <2>1 DEF Observed, MessageTypes
  <2>4. QED BY <1>2, <2>2, <2>3 DEF Witnessed
<1>3. CASE classify(obs) = "EXPOSURE_NOT_OBSERVED"
  <2>1. obs.query /\ obs.responses = 1 /\ obs.listening /\ ~complete_chain(obs)
    BY <1>3 DEF classify
  <2>2. obs.connections = 0
    BY <1>1, <2>1 DEF complete_chain
  <2>3. QED BY <1>3, <2>1, <2>2 DEF Observed, Witnessed
<1>4. QED BY <1>2, <1>3 DEF Witnessed

LEMMA WitnessHarness ==
  ASSUME TypeInv, WitnessInv, HarnessStep
  PROVE  WitnessInv'
<1>1. /\ hpc # "none" /\ wpc = "live" /\ at = DeepAt /\ pc \in {"wait", "idle"} /\ Len(results) = at - 1
      /\ UNCHANGED <<engineVars, workerVars>> /\ at \in Nat
  BY HarnessRuns DEF TypeInv, TypeOK, Nested, WorkerRunning, WorkerSteps
<1>2. out.exposure = None /\ None \notin Exposures
  BY <1>1, NoneAssumption DEF WitnessInv, Concluded
<1>3. ConfirmedIsWitnessed'
  BY <1>1 DEF ConfirmedIsWitnessed, engineVars
<1>4. Unwired'
  BY <1>1 DEF Unwired, engineVars, workerVars
<1>5. Concluded'
  BY <1>1, <1>2 DEF Concluded, Witnessed, Exposures, engineVars, workerVars
<1>6. QED BY <1>3, <1>4, <1>5, ObservedHarness DEF WitnessInv

LEMMA WitnessWorker ==
  ASSUME TypeInv, WitnessInv, WorkerStep
  PROVE  WitnessInv'
<1>0. /\ wpc \in WorkerRunning /\ UNCHANGED <<engineVars, wire>> /\ out \in ActiveValidationResult
      /\ hpc # "none" => wpc = "live"
  BY DEF TypeInv, TypeOK, Nested, WorkerStep, Worker, check_applicability, execute, run_live_transport, LiveObserved,
     LiveFailed, rollback, Emit, WorkerRunning, WorkerSteps, harnessVars
<1>1. ConfirmedIsWitnessed' /\ \A e : Witnessed(e) <=> Witnessed(e)'
  BY <1>0 DEF WitnessInv, ConfirmedIsWitnessed, Witnessed, engineVars
<1>2. \A status : Verdict(status).exposure = None /\ Witnessed(None)
  BY NoneAssumption DEF Verdict, Witnessed, Exposures
<1>3. Unwired'
  <2>1. wpc' \in {"check", "execute"} => wpc \in {"check", "execute"}
    BY DEF WorkerStep, Worker, check_applicability, execute, run_live_transport, LiveObserved, LiveFailed, rollback, Emit
  <2>2. QED BY <1>0, <2>1 DEF WitnessInv, Unwired, engineVars
<1>4. CASE check_applicability \/ execute \/ LiveFailed
  <2>1. /\ (out' = out /\ wpc = "check") \/ \E status : out' = Verdict(status)
        /\ (UNCHANGED <<hpc, obs>> \/ Gone)
    BY <1>4 DEF check_applicability, execute, LiveFailed, harnessVars, Worker
  <2>2. out'.exposure = None
    BY <1>2, <2>1 DEF WitnessInv, Concluded
  <2>3. Observed'
    BY <1>0, <2>1, WitnessKept DEF engineVars
  <2>4. QED BY <1>1, <1>2, <1>3, <2>2, <2>3 DEF WitnessInv, Concluded
<1>5. CASE run_live_transport
  <2>1. wpc = "execute" /\ at = DeepAt /\ out' = out /\ obs' = obs /\ hpc = "none"
    BY <1>0, <1>5 DEF run_live_transport, Worker, deep
  <2>2. wire = {} /\ out.exposure = None
    BY <2>1 DEF WitnessInv, Unwired, Concluded
  <2>3. obs = _base_observation
    BY <2>1 DEF WitnessInv, Observed
  <2>4. Observed'
    <3>1. hpc' # "none" /\ obs' = _base_observation /\ wire' = {}
      BY <1>0, <1>5, <2>1, <2>2, <2>3 DEF run_live_transport
    <3>2. QED BY <3>1 DEF Observed, _base_observation
  <2>5. QED BY <1>1, <1>2, <1>3, <2>1, <2>2, <2>4 DEF WitnessInv, Concluded
<1>6. CASE LiveObserved
  <2>1. wpc' = "rollback" /\ out'.exposure = classify(obs) /\ hpc' = "none" /\ hpc = "exited"
    BY <1>6 DEF LiveObserved, Gone
  <2>2. Witnessed(classify(obs))
    BY <2>1, VerdictWitnessed DEF WitnessInv
  <2>3. Observed'
    BY <1>0, <1>6, WitnessKept DEF LiveObserved, engineVars
  <2>4. QED BY <1>1, <1>3, <2>1, <2>2, <2>3 DEF WitnessInv, Concluded
<1>7. CASE rollback \/ Emit
  <2>1. /\ UNCHANGED <<hpc, obs>> /\ wpc' \in {"emit", "exited", "failed"}
    BY <1>7 DEF rollback, Emit, harnessVars
  <2>2. out'.exposure = out.exposure
    BY <1>0, <1>7 DEF rollback, Emit, rolled_back, ActiveValidationResult
  <2>3. Observed'
    BY <1>0, <2>1 DEF WitnessInv, Observed
  <2>4. QED BY <1>0, <1>1, <1>3, <2>1, <2>2, <2>3 DEF WitnessInv, Concluded, engineVars
<1>8. QED BY <1>4, <1>5, <1>6, <1>7 DEF WorkerStep

LEMMA WitnessEngine ==
  ASSUME TypeInv, WitnessInv, EngineStep
  PROVE  WitnessInv'
<1>0. /\ pc # "idle" /\ UNCHANGED <<hpc, obs, wire>>
      /\ out \in ActiveValidationResult /\ results \in Seq(ActiveValidationResult)
      /\ at \in Nat /\ DeepAt \in Nat /\ PlanLength \in Nat
  <2>1. pc # "idle" /\ UNCHANGED harnessVars
    BY DEF EngineStep, MakeDir, track, Spawn, Recovery, WorkerEnded, _rollback_in_recovery, Remove, forget, Record,
       Complete
  <2>2. QED BY <2>1, PlanAssumption DEF TypeInv, TypeOK, harnessVars
<1>1. wpc \in WorkerRunning => pc = "wait"
  BY <1>0 DEF TypeInv, Nested
<1>2. Observed'
  BY <1>0 DEF WitnessInv, Observed
<1>3. \A e : Witnessed(e) => Witnessed(e)'
  BY <1>0 DEF Witnessed
<1>4. \A status : Verdict(status).exposure = None /\ Witnessed(None)'
  BY NoneAssumption DEF Verdict, Witnessed, Exposures
<1>5. CASE MakeDir \/ track \/ Spawn
  <2>1. /\ pc \in {"dir", "track", "spawn"} /\ pc' \in {"track", "spawn", "wait", "idle"} /\ UNCHANGED <<at, results>>
        /\ \/ pc' # "wait" /\ UNCHANGED <<wpc, out>>
           \/ pc' = "wait" /\ out' = Verdict("ERROR") /\ wpc' = "check"
    BY <1>5 DEF MakeDir, track, Spawn, Raises, workerVars
  <2>2. ConfirmedIsWitnessed'
    BY <1>0, <2>1 DEF WitnessInv, ConfirmedIsWitnessed
  <2>3. Unwired'
    BY <1>0, <2>1 DEF WitnessInv, Unwired
  <2>4. Concluded'
    BY <1>1, <1>4, <2>1 DEF Concluded, WorkerRunning, WorkerSteps
  <2>5. QED BY <1>2, <2>2, <2>3, <2>4 DEF WitnessInv
<1>6. CASE WorkerEnded \/ _rollback_in_recovery \/ Remove \/ forget \/ Complete
  <2>1. /\ pc \in {"wait", "recover", "remove", "forget", "complete"}
        /\ pc' \in {"recover", "remove", "forget", "record", "idle"}
        /\ pc = "complete" => pc' = "idle"
        /\ wpc \notin WorkerRunning /\ UNCHANGED <<at, results, wpc>>
    BY <1>1, <1>6 DEF WorkerEnded, _rollback_in_recovery, Remove, forget, Complete, Raises, workerVars, WorkerRunning
  <2>2. out'.exposure \in {out.exposure, None}
    <3>1. CASE _rollback_in_recovery
      BY <1>0, <3>1 DEF _rollback_in_recovery, rolled_back, ActiveValidationResult
    <3>2. CASE WorkerEnded \/ Remove \/ forget \/ Complete
      BY <3>2 DEF WorkerEnded, Remove, forget, Complete, workerVars, Verdict
    <3>3. QED BY <1>6, <3>1, <3>2
  <2>3. ConfirmedIsWitnessed'
    BY <1>0, <2>1 DEF WitnessInv, ConfirmedIsWitnessed
  <2>4. Unwired'
    BY <1>0, <2>1 DEF WitnessInv, Unwired
  <2>5. Concluded'
    BY <1>3, <1>4, <2>1, <2>2 DEF WitnessInv, Concluded, WorkerRunning, WorkerSteps
  <2>6. QED BY <1>2, <2>3, <2>4, <2>5 DEF WitnessInv
<1>7. CASE Record
  <2>1. /\ pc = "record" /\ pc' \in {"complete", "dir", "idle"} /\ wpc \notin WorkerRunning
        /\ UNCHANGED <<wpc, out>> /\ Len(results) = at - 1
        /\ \/ results' = Append(results, out) /\ at' \in {at, at + 1} /\ (at' = at => pc' # "dir")
           \/ UNCHANGED <<results, at>> /\ pc' = "idle"
    <3>1. pc = "record" /\ pc' \in {"complete", "dir", "idle"} /\ UNCHANGED <<wpc, out>>
      BY <1>7 DEF Record, Raises, workerVars
    <3>2. wpc \notin WorkerRunning /\ Len(results) = at - 1
      BY <1>1, <3>1 DEF TypeInv, Nested
    <3>3. \/ results' = Append(results, out) /\ at' \in {at, at + 1} /\ (at' = at => pc' # "dir")
          \/ UNCHANGED <<results, at>> /\ pc' = "idle"
      BY <1>0, <1>7 DEF Record, Raises
    <3>4. QED BY <3>1, <3>2, <3>3
  <2>2. ConfirmedIsWitnessed'
    <3>1. CASE results' = results
      BY <1>0, <3>1 DEF WitnessInv, ConfirmedIsWitnessed
    <3>2. CASE results' = Append(results, out)
      <4>1. ASSUME DeepAt > 0, Len(results') >= DeepAt PROVE Witnessed(results'[DeepAt].exposure)
        <5>1. CASE DeepAt <= Len(results)
          <6>1. results'[DeepAt] = results[DeepAt]
            BY <1>0, <3>2, <4>1, <5>1
          <6>2. Witnessed(results[DeepAt].exposure)
            BY <4>1, <5>1 DEF WitnessInv, ConfirmedIsWitnessed, Witnessed
          <6>3. QED BY <6>1, <6>2
        <5>2. CASE ~(DeepAt <= Len(results))
          <6>1. at = DeepAt /\ results'[DeepAt] = out
            BY <1>0, <2>1, <3>2, <4>1, <5>2
          <6>2. Witnessed(out.exposure)
            BY <2>1, <6>1 DEF WitnessInv, Concluded
          <6>3. QED BY <6>1, <6>2
        <5>3. QED BY <5>1, <5>2
      <4>2. QED BY <1>0, <4>1 DEF ConfirmedIsWitnessed, Witnessed
    <3>3. QED BY <2>1, <3>1, <3>2
  <2>3. Unwired'
    BY <1>0, <2>1 DEF WitnessInv, Unwired, WorkerRunning, WorkerSteps
  <2>4. Concluded'
    BY <2>1 DEF Concluded, WorkerRunning, WorkerSteps
  <2>5. QED BY <1>2, <2>2, <2>3, <2>4 DEF WitnessInv
<1>8. QED BY <1>5, <1>6, <1>7 DEF EngineStep, Recovery

LEMMA WitnessOutside ==
  ASSUME TypeInv, WitnessInv, Outside
  PROVE  WitnessInv'
<1>0. at \in Nat /\ DeepAt \in Nat /\ (hpc # "none" => wpc = "live") /\ (wpc = "live" => at = DeepAt)
      /\ (wpc \in WorkerRunning => Len(results) = at - 1 /\ pc \in {"wait", "idle"})
  BY PlanAssumption DEF TypeInv, TypeOK, Nested
<1>4. \A status : Verdict(status).exposure = None /\ Witnessed(None)'
  BY NoneAssumption DEF Verdict, Witnessed, Exposures
<1>1. CASE Begin
  <2>1. /\ UNCHANGED <<hpc, obs, wpc, out>> /\ wpc \notin WorkerRunning /\ hpc \notin Running /\ pc' = "dir"
        /\ results' = <<>> /\ wire' = {}
    BY <1>1 DEF Begin, workerVars
  <2>2. hpc = "none"
    BY <1>0, <2>1 DEF WorkerRunning, WorkerSteps
  <2>3. ConfirmedIsWitnessed' /\ Unwired' /\ Observed' /\ Concluded'
    BY <1>0, <2>1, <2>2 DEF WitnessInv, ConfirmedIsWitnessed, Unwired, Observed, Concluded, WorkerRunning, WorkerSteps
  <2>4. QED BY <2>3 DEF WitnessInv
<1>2. CASE LiveTimeout
  <2>1. /\ UNCHANGED <<pc, at, results>> /\ wpc = "live" /\ wpc' = "rollback" /\ out' = Verdict("INCONCLUSIVE")
        /\ Gone /\ wire' = {}
    BY <1>2 DEF LiveTimeout, KilledAlone, Worker, engineVars
  <2>2. ConfirmedIsWitnessed' /\ Unwired' /\ Observed'
    BY <1>0, <2>1 DEF ConfirmedIsWitnessed, Unwired, Observed, Gone, WorkerRunning, WorkerSteps
  <2>3. Concluded'
    BY <1>4, <2>1 DEF Concluded
  <2>4. QED BY <2>2, <2>3 DEF WitnessInv
<1>3. CASE Timeout
  <2>1. /\ UNCHANGED <<at, results, wire>> /\ wpc' = "failed" /\ out' = Verdict("TIMED_OUT") /\ Gone /\ pc' = "recover"
    BY <1>3 DEF Timeout
  <2>2. ConfirmedIsWitnessed' /\ Observed'
    BY <2>1, WitnessKept
  <2>3. Unwired'
    BY <2>1 DEF WitnessInv, Unwired
  <2>4. Concluded'
    BY <1>4, <2>1 DEF Concluded
  <2>5. QED BY <2>2, <2>3, <2>4 DEF WitnessInv
<1>5. CASE Crash
  <2>1. /\ UNCHANGED <<at, results, wire, out>> /\ pc' = "idle"
        /\ \/ UNCHANGED <<wpc, hpc, obs>>
           \/ wpc' = "failed" /\ Gone
    BY <1>5 DEF Crash
  <2>2. ConfirmedIsWitnessed' /\ Observed'
    BY <2>1, WitnessKept
  <2>3. Unwired' /\ Concluded'
    BY <2>1 DEF WitnessInv, Unwired, Concluded
  <2>4. QED BY <2>2, <2>3 DEF WitnessInv
<1>6. CASE OrphanStep \/ cleanup
  <2>1. UNCHANGED <<at, results, wire, out, hpc, obs, pc, wpc>>
    BY <1>6 DEF OrphanStep, OrphanAdds, cleanup, harnessVars, engineVars, workerVars
  <2>2. QED BY <2>1 DEF WitnessInv, ConfirmedIsWitnessed, Unwired, Observed, Concluded, Witnessed
<1>7. QED BY <1>1, <1>2, <1>3, <1>5, <1>6 DEF Outside

LEMMA WitnessNext ==
  ASSUME TypeInv, WitnessInv, [Next]_vars
  PROVE  WitnessInv'
<1>1. CASE UNCHANGED vars
  BY <1>1 DEF vars, harnessVars, engineVars, workerVars, WitnessInv, ConfirmedIsWitnessed, Unwired, Observed, Concluded,
     Witnessed
<1>2. CASE Next
  BY <1>1, <1>2, WitnessHarness, WitnessWorker, WitnessEngine, WitnessOutside, NextParts
<1>3. QED BY <1>1, <1>2

\* A confirmed exposure was witnessed on the wire from the name query to the
\* authentication as the expected identity, and an exposure that is said not to
\* be observed was asked for and answered, and no connection followed.
THEOREM ConfirmedIsWitnessedAlways == Spec => []ConfirmedIsWitnessed
<1>1. Init => TypeInv /\ WitnessInv
  BY TypeInit, WitnessInit
<1>2. TypeInv /\ WitnessInv /\ [Next]_vars => TypeInv' /\ WitnessInv'
  BY TypeNext, WitnessNext
<1>3. WitnessInv => ConfirmedIsWitnessed
  BY DEF WitnessInv
<1>4. QED BY <1>1, <1>2, <1>3, PTL DEF Spec

=============================================================================
