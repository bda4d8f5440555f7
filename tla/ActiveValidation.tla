-------------------------- MODULE ActiveValidation --------------------------
(***************************************************************************)
(* A run of the validation engine: it executes the planned validators one  *)
(* after the other, each in a worker process with a directory of its own   *)
(* (active_validation/engine.py, executor.py, worker.py, cleanup.py,       *)
(* live_transport.py).  The directory is tracked in a registry file until  *)
(* it is known to be removed.  One of the planned validators may start the *)
(* transport harness, whose firewall rules outlive every process.          *)
(*                                                                         *)
(* The engine, a worker and the harness are three processes; any of them   *)
(* may be ended while the others are in the middle of a step.              *)
(***************************************************************************)
EXTENDS TransportHarness, Sequences

CONSTANTS
  PlanLength,  \* validators in the plan
  DeepAt       \* the place of VAL-RESPONDER-DEEP-001 in it, 0 if it is not planned

ASSUME PlanAssumption ==
  /\ PlanLength \in Nat \ {0}
  /\ DeepAt \in 0..PlanLength

VARIABLES
  pc,       \* where the engine is
  at,       \* the place of the validator in progress
  wpc,      \* where its worker is
  job,      \* whether the worker was assigned to a kill-on-close job
  out,      \* the result in the making
  dirs,     \* directories that exist, <<run, place>>
  tracked,  \* directories named in the registry file
  results   \* what the engine has collected in this run

engineVars == <<pc, at, dirs, tracked, results>>
workerVars == <<wpc, job, out>>
vars == <<run, harnessVars, firewallVars, engineVars, workerVars>>

Verdicts == {"PASSED", "FAILED", "INCONCLUSIVE", "ERROR", "BLOCKED", "TIMED_OUT"}
Exposures == {"EXPOSURE_CONFIRMED", "EXPOSURE_PARTIALLY_MITIGATED", "EXPOSURE_LIKELY",
              "EXPOSURE_NOT_OBSERVED", "INCONCLUSIVE"}
ActiveValidationResult ==
  [status : Verdicts \cup {"ROLLBACK_FAILED"}, exposure : Exposures \cup {None}, manual : BOOLEAN]

ASSUME NoneAssumption == None \notin BOOLEAN /\ None \notin Exposures

EngineSteps == {"idle", "dir", "track", "spawn", "wait", "recover", "remove", "forget", "record",
                "complete"}
WorkerSteps == {"none", "check", "execute", "live", "rollback", "emit", "exited", "failed"}
WorkerRunning == WorkerSteps \ {"none", "exited", "failed"}

TypeOK ==
  /\ HarnessTypeOK
  /\ pc \in EngineSteps
  /\ at \in 1..PlanLength
  /\ wpc \in WorkerSteps
  /\ job \in BOOLEAN
  /\ out \in ActiveValidationResult
  /\ dirs \subseteq Runs \X (1..PlanLength)
  /\ tracked \subseteq Runs \X (1..PlanLength)
  /\ results \in Seq(ActiveValidationResult)

Verdict(status) == [status |-> status, exposure |-> None, manual |-> FALSE]

Init ==
  /\ HarnessInit
  /\ pc = "idle" /\ at = 1 /\ results = <<>>
  /\ dirs = {} /\ tracked = {}
  /\ wpc = "none" /\ job = FALSE /\ out = Verdict("ERROR")

here == <<run, at>>
deep == at = DeepAt

\* An exception leaves execute_active_validation; what was made stays.
Raises == pc' = "idle"

-----------------------------------------------------------------------------
(* ValidationExecutor.execute, up to the start of the worker *)

\* execute_active_validation: the plan is made and the audit log opened.  A
\* run starts once the processes of the one before are gone.
Begin ==
  /\ pc = "idle" /\ run < MaxRuns
  /\ wpc \notin WorkerRunning /\ hpc \notin Running
  /\ run' = run + 1
  /\ pc' = "dir" /\ at' = 1 /\ results' = <<>>
  /\ wire' = {}
  /\ UNCHANGED <<hpc, adding, raised, late, requests, obs, firewallVars, dirs, tracked, workerVars>>

\* tempfile.mkdtemp
MakeDir ==
  /\ pc = "dir"
  /\ dirs' = dirs \cup {here}
  /\ pc' = "track"
  /\ UNCHANGED <<run, harnessVars, firewallVars, at, tracked, results, workerVars>>

\* CleanupRegistry.track; the registry may be unreadable or unwritable.
track ==
  /\ pc = "track"
  /\ \/ tracked' = tracked \cup {here} /\ pc' = "spawn"
     \/ "write" \in Faults /\ Raises /\ UNCHANGED tracked
  /\ UNCHANGED <<run, harnessVars, firewallVars, at, dirs, results, workerVars>>

\* Sensitive input raises before there is a worker.  The assignment to a job
\* may fail without an error.
Spawn ==
  /\ pc = "spawn"
  /\ \/ pc' = "wait" /\ wpc' = "check" /\ job' \in BOOLEAN /\ out' = Verdict("ERROR")
     \/ "evidence" \in Faults /\ Raises /\ UNCHANGED workerVars
  /\ UNCHANGED <<run, harnessVars, firewallVars, at, dirs, tracked, results>>

-----------------------------------------------------------------------------
(* The worker: worker.py and the validator it runs *)

Worker(label) == wpc = label

check_applicability ==
  /\ Worker("check")
  /\ \/ wpc' = "execute" /\ UNCHANGED out
     \/ wpc' = "rollback" /\ out' = Verdict("BLOCKED")
  /\ UNCHANGED <<run, harnessVars, firewallVars, engineVars, job>>

\* BaseActiveValidator.execute of the validators that change nothing
execute ==
  /\ Worker("execute") /\ ~deep
  /\ \E status \in {"PASSED", "FAILED", "INCONCLUSIVE", "ERROR"} : out' = Verdict(status)
  /\ wpc' = "rollback"
  /\ UNCHANGED <<run, harnessVars, firewallVars, engineVars, job>>

\* run_live_transport starts the harness.
run_live_transport ==
  /\ Worker("execute") /\ deep
  /\ wpc' = "live"
  /\ hpc' = "input"
  /\ UNCHANGED <<run, adding, raised, late, requests, obs, wire, firewallVars, engineVars, job, out>>

complete_chain(o) == o.query /\ o.responses = 1 /\ o.listening /\ o.connections > 0

\* Fault: the identity in the exchange is not required to be the expected one.
classify_any(o) ==
  CASE complete_chain(o) /\ o.attempt /\ o.verified -> "EXPOSURE_CONFIRMED"
    [] complete_chain(o) -> "EXPOSURE_LIKELY"
    [] OTHER -> "INCONCLUSIVE"

\* ResponderDeepValidator.execute.  The harness reports neither a blocked NTLM
\* nor a required signature, so that no exposure is partially mitigated.
classify(o) ==
  CASE complete_chain(o) /\ o.attempt /\ o.matched /\ o.verified -> "EXPOSURE_CONFIRMED"
    [] complete_chain(o) /\ ~(o.attempt /\ o.matched /\ o.verified) -> "EXPOSURE_LIKELY"
    [] ~complete_chain(o) /\ o.query /\ o.responses = 1 /\ o.listening /\ o.window
         -> "EXPOSURE_NOT_OBSERVED"
    [] OTHER -> "INCONCLUSIVE"

status_of(exposure) ==
  CASE exposure \in {"EXPOSURE_CONFIRMED", "EXPOSURE_LIKELY"} -> "FAILED"
    [] exposure = "EXPOSURE_NOT_OBSERVED" -> "PASSED"
    [] OTHER -> "INCONCLUSIVE"

\* The attested observation is read and classified ...
LiveObserved ==
  /\ Worker("live") /\ hpc = "exited"
  /\ out' = [status |-> status_of(classify(obs)), exposure |-> classify(obs), manual |-> FALSE]
  /\ wpc' = "rollback"
  /\ Gone
  /\ UNCHANGED <<run, wire, firewallVars, engineVars, job>>

\* ... or the harness failed, or its output is not what it should be ...
LiveFailed ==
  /\ Worker("live") /\ hpc = "failed"
  /\ out' = Verdict("INCONCLUSIVE")
  /\ wpc' = "rollback"
  /\ Gone
  /\ UNCHANGED <<run, wire, firewallVars, engineVars, job>>

\* ... or it is ended because it takes too long.
LiveTimeout ==
  /\ Worker("live") /\ hpc \in Running
  /\ "kill" \in Faults
  /\ KilledAlone
  /\ out' = Verdict("INCONCLUSIVE")
  /\ wpc' = "rollback"
  /\ UNCHANGED <<run, recorded, rules, stray, engineVars, job>>

\* Fault: a failed rollback leaves the status as it was.
rolled_back_quietly(result, outcome) ==
  [result EXCEPT !.manual = @ \/ outcome # TRUE]

\* What a rollback that ended as outcome makes of a result.
rolled_back(result, outcome) ==
  IF outcome = TRUE THEN result
  ELSE [result EXCEPT !.status = "ROLLBACK_FAILED", !.manual = TRUE]

\* validator.rollback: rollback_live_transport, or nothing to do.
rollback ==
  /\ Worker("rollback")
  /\ IF deep
     THEN \E outcome \in {TRUE, FALSE, None} :
            cleanup_firewall_state(outcome) /\ out' = rolled_back(out, outcome)
     ELSE UNCHANGED <<rules, recorded, out>>
  /\ wpc' = "emit"
  /\ UNCHANGED <<run, harnessVars, orphans, stray, engineVars, job>>

\* The result is written to the worker's output.  The executor may refuse it:
\* too long, not zero, sensitive, not a result or not this validator's.
Emit ==
  /\ Worker("emit")
  /\ \/ wpc' = "exited"
     \/ "output" \in Faults /\ wpc' = "failed"
  /\ UNCHANGED <<run, harnessVars, firewallVars, engineVars, job, out>>

-----------------------------------------------------------------------------
(* ValidationExecutor.execute, from the end of the worker on *)

\* Closing the job ends what the worker left running.
JobClosed == orphans' = IF job /\ deep THEN {o \in orphans : o[1] # run} ELSE orphans

WorkerEnded ==
  /\ pc = "wait" /\ wpc \in {"exited", "failed"}
  /\ JobClosed
  /\ pc' = IF wpc = "exited" THEN "remove" ELSE "recover"
  /\ out' = IF wpc = "exited" THEN out ELSE Verdict("ERROR")
  /\ UNCHANGED <<run, harnessVars, recorded, rules, stray, at, dirs, tracked, results, wpc, job>>

\* Fault: the worker is waited for without a limit.
WaitForever == FALSE /\ UNCHANGED vars

\* _terminate_process_tree: the worker, the harness and the script it waits
\* for are ended.
Timeout ==
  /\ pc = "wait" /\ wpc \in WorkerRunning
  /\ "kill" \in Faults
  /\ wpc' = "failed"
  /\ Gone
  /\ JobClosed
  /\ pc' = "recover" /\ out' = Verdict("TIMED_OUT")
  /\ UNCHANGED <<run, wire, recorded, rules, stray, at, dirs, tracked, results, job>>

\* A fresh worker rolls back.  Its time is limited and its answer may be
\* unreadable, which counts as a failure even when nothing is left.
_rollback_in_recovery ==
  /\ pc = "recover"
  /\ IF deep
     THEN \E outcome \in {TRUE, FALSE, None}, answered \in BOOLEAN :
            /\ cleanup_firewall_state(outcome)
            /\ answered \/ "output" \in Faults
            /\ out' = rolled_back(out, IF answered THEN outcome ELSE None)
     ELSE UNCHANGED <<rules, recorded, out>>
  /\ pc' = "remove"
  /\ UNCHANGED <<run, harnessVars, orphans, stray, at, dirs, tracked, results, wpc, job>>

\* Without the directory there is no state file.
RemoveDirs(gone) ==
  /\ dirs' = dirs \ gone
  /\ recorded' = [r \in Runs |-> IF <<r, DeepAt>> \in gone THEN {} ELSE recorded[r]]

\* The directory is kept when something is left to clean by hand; errors of
\* rmtree are ignored.
Remove ==
  /\ pc = "remove"
  /\ \/ out.manual /\ pc' = "record" /\ UNCHANGED <<dirs, recorded>>
     \/ ~out.manual /\ RemoveDirs({here}) /\ pc' = "forget"
     \/ ~out.manual /\ "rmtree" \in Faults /\ pc' = "record" /\ UNCHANGED <<dirs, recorded>>
  /\ UNCHANGED <<run, harnessVars, rules, orphans, stray, at, tracked, results, workerVars>>

\* CleanupRegistry.forget
forget ==
  /\ pc = "forget"
  /\ \/ tracked' = tracked \ {here} /\ pc' = "record"
     \/ "write" \in Faults /\ Raises /\ UNCHANGED tracked
  /\ UNCHANGED <<run, harnessVars, firewallVars, at, dirs, results, workerVars>>

\* The engine keeps the result and audits it; the next validator follows.
Record ==
  /\ pc = "record"
  /\ \/ /\ results' = Append(results, out)
        /\ IF at = PlanLength THEN pc' = "complete" /\ UNCHANGED at ELSE pc' = "dir" /\ at' = at + 1
     \/ "write" \in Faults /\ Raises /\ UNCHANGED <<results, at>>
  /\ UNCHANGED <<run, harnessVars, firewallVars, dirs, tracked, workerVars>>

\* Correlation, the last audit entry and its verification.
Complete ==
  /\ pc = "complete"
  /\ Raises
  /\ UNCHANGED <<run, harnessVars, firewallVars, at, dirs, tracked, results, workerVars>>

-----------------------------------------------------------------------------
(* The engine's process ends; later an operator sweeps what is tracked. *)

\* The system closes the job with the process.  Without one the worker goes on.
Crash ==
  /\ pc # "idle" /\ "crash" \in Faults
  /\ pc' = "idle"
  /\ IF job /\ wpc \in WorkerRunning
     THEN wpc' = "failed" /\ Gone /\ JobClosed
     ELSE UNCHANGED <<wpc, hpc, adding, raised, late, requests, obs, orphans>>
  /\ UNCHANGED <<run, wire, recorded, rules, stray, at, dirs, tracked, results, job, out>>

\* CleanupRegistry.cleanup with --apply: every tracked directory that is old
\* enough goes; a directory that cannot be removed raises before the registry
\* is written.  Firewall rules are not looked at.
cleanup ==
  /\ pc = "idle" /\ wpc \notin WorkerRunning /\ tracked # {}
  /\ \E gone \in SUBSET tracked :
       /\ RemoveDirs(gone)
       /\ stray' = stray \cup {r \in rules : <<r[1], DeepAt>> \in gone}
       /\ \/ tracked' = tracked \ gone
          \/ "rmtree" \in Faults /\ UNCHANGED tracked
  /\ UNCHANGED <<run, harnessVars, rules, orphans, pc, at, results, workerVars>>

-----------------------------------------------------------------------------

HarnessStep == Harness /\ UNCHANGED <<run, engineVars, workerVars>>
OrphanStep == OrphanAdds /\ UNCHANGED <<run, engineVars, workerVars>>

WorkerStep ==
  \/ check_applicability \/ execute \/ run_live_transport \/ LiveObserved \/ LiveFailed
  \/ rollback \/ Emit
Recovery ==
  \/ WorkerEnded \/ _rollback_in_recovery \/ Remove \/ forget \/ Record \/ Complete
EngineStep == MakeDir \/ track \/ Spawn \/ Recovery

Done ==
  /\ pc = "idle" /\ run = MaxRuns /\ wpc \notin WorkerRunning /\ orphans = {}
  /\ UNCHANGED vars

Next ==
  \/ Begin \/ EngineStep \/ WorkerStep \/ HarnessStep \/ LiveTimeout \/ Timeout \/ Crash
  \/ OrphanStep \/ cleanup \/ Done

\* The engine and the worker run on; the harness is not trusted to: the
\* engine's timeout ends it, as it ends the worker.
Fairness == WF_vars(EngineStep) /\ WF_vars(WorkerStep) /\ WF_vars(Timeout)

Spec == Init /\ [][Next]_vars /\ Fairness

-----------------------------------------------------------------------------
(* Properties *)

\* A firewall rule is always named in a state file whose directory exists and,
\* once the worker runs, is tracked, so that a rollback or an operator finds
\* it - unless an orphaned script added it, or the directory was swept.
RulesRecorded ==
  \A r \in rules \ stray :
    /\ r[2] \in recorded[r[1]]
    /\ <<r[1], DeepAt>> \in dirs \cap tracked

\* When the deep validator's result is in and a rule of the run is left, the
\* result says ROLLBACK_FAILED and asks for cleaning by hand, and the directory
\* with the names of the rules is still there.
LeftIsReported ==
  (DeepAt > 0 /\ Len(results) >= DeepAt) =>
    \A r \in rules \ stray : r[1] = run =>
      /\ results[DeepAt].status = "ROLLBACK_FAILED" /\ results[DeepAt].manual
      /\ <<run, DeepAt>> \in dirs

\* An exposure is reported as confirmed only if the target asked for the marker,
\* connected and authenticated as the expected identity, and as not observed
\* only if it was answered and never connected.
ConfirmedIsWitnessed ==
  (DeepAt > 0 /\ Len(results) >= DeepAt) =>
    /\ results[DeepAt].exposure = "EXPOSURE_CONFIRMED" =>
         {"marker", "connection", "NEGOTIATE", "AUTHENTICATE", "EXPECTED"} \subseteq wire
    /\ results[DeepAt].exposure = "EXPOSURE_NOT_OBSERVED" =>
         "marker" \in wire /\ "connection" \notin wire

\* Every run ends, whatever its workers do.
RunEnds == pc # "idle" ~> pc = "idle"

=============================================================================
