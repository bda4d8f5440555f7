------------------------------ MODULE Collector ------------------------------
(***************************************************************************)
(* A collection on an endpoint: the script Invoke-CSACollector.ps1 with    *)
(* what it asks of the Lab, and the launcher CSA-Collector.exe             *)
(* (bootstrapper/Program.cs), which starts the script until the user has   *)
(* what he wants.  The script is a process of its own; the launcher waits  *)
(* for it and reads nothing but its exit code.  The Lab's side of intake   *)
(* is the module Submission: here it answers, refuses, or its answer is    *)
(* lost.  Directories are followed from the time they may hold data.       *)
(***************************************************************************)
EXTENDS Naturals, FiniteSets

CONSTANTS
  Clients,    \* collections started by users
  MaxRuns     \* bound: script runs of one collection

ASSUME CollectorAssumption == MaxRuns \in Nat

VARIABLES
  at,         \* where the launcher of a collection is
  script,     \* where its script is
  runs,       \* runs started; a run has a fresh submission id
  offline,    \* the last run exports instead of submitting
  evidence,   \* what the last run has collected
  fault,      \* the terminal error of the last run, its exit code when it ended
  disk,       \* temporary directories that exist
  reported,   \* those reported as not removed
  claim,      \* what the launcher says was achieved
  sent,       \* evidence that has left the temporary directories
  withheld,   \* history: runs whose evidence was withheld
  indexed,    \* submissions in the Lab's index
  exported    \* offline packages written

runVars == <<runs, offline, evidence, fault, withheld>>
diskVars == <<disk, reported>>
labVars == <<sent, indexed, exported>>
collectorVars == <<at, script, runVars, diskVars, claim, labVars>>

Ids == Clients \X (1..MaxRuns)
Kinds == {"package", "download", "run"}
Classes == {"none", "clean", "sensitive", "raw"}
Launcher == {"start", "launch", "running", "ask", "notice", "cleanup", "ended", "killed",
             "bundle", "metadata", "challenge", "prompt", "authorize", "mint", "package",
             "stage", "archive", "mark"}

CollectorTypeOK ==
  /\ at \in [Clients -> Launcher]
  /\ script \in [Clients -> {"off", "verify", "directory", "collect", "nonce", "build", "send",
                             "export", "finally"}]
  /\ runs \in [Clients -> 0..MaxRuns] /\ offline \in [Clients -> BOOLEAN]
  /\ evidence \in [Clients -> Classes]
  /\ fault \in [Clients -> {"none", "error", "privacy", "policy"}]
  /\ disk \in [Clients -> SUBSET (Kinds \X (0..MaxRuns))]
  /\ reported \in [Clients -> SUBSET (Kinds \X (0..MaxRuns))]
  /\ claim \in [Clients -> {"none", "accepted", "exported"}]
  /\ sent \subseteq Ids \X Classes /\ withheld \subseteq Ids
  /\ indexed \subseteq Ids /\ exported \subseteq Ids

CollectorInit ==
  /\ at = [c \in Clients |-> "start"] /\ script = [c \in Clients |-> "off"]
  /\ runs = [c \in Clients |-> 0] /\ offline = [c \in Clients |-> FALSE]
  /\ evidence = [c \in Clients |-> "none"] /\ fault = [c \in Clients |-> "none"]
  /\ disk = [c \in Clients |-> {}] /\ reported = [c \in Clients |-> {}]
  /\ claim = [c \in Clients |-> "none"]
  /\ sent = {} /\ withheld = {} /\ indexed = {} /\ exported = {}

-----------------------------------------------------------------------------
(* The script *)

To(c, step) == at' = [at EXCEPT ![c] = step]
Script(c, step) == script' = [script EXCEPT ![c] = step]
Keep(c, directory) == disk' = [disk EXCEPT ![c] = @ \cup {directory}]

Id(c) == <<c, runs[c]>>
RunDirectory(c) == <<"run", runs[c]>>

\* The script throws: every error leads to its finally block.
Throw(c, error) == Script(c, "finally") /\ fault' = [fault EXCEPT ![c] = error]

\* Manifest, digests, signatures, configuration, expiry and privileges.
VerifyPackage(c) ==
  /\ script[c] = "verify"
  /\ \/ Script(c, "directory") /\ UNCHANGED fault
     \/ \E error \in {"error", "policy"} : Throw(c, error)
  /\ UNCHANGED <<at, runs, offline, evidence, withheld, diskVars, claim, labVars>>

\* A directory whose permissions cannot be set is removed, empty, and forgotten.
MakeDirectory(c) ==
  /\ script[c] = "directory"
  /\ \/ Script(c, "collect") /\ Keep(c, RunDirectory(c)) /\ UNCHANGED fault
     \/ Throw(c, "error") /\ UNCHANGED disk
  /\ UNCHANGED <<at, runs, offline, evidence, withheld, reported, claim, labVars>>

\* The evidence is written once its privacy transformation has succeeded; what
\* it says is not known to be fit to leave before it is built into a package.
Collect(c) ==
  /\ script[c] = "collect"
  /\ \/ /\ Script(c, "nonce")
        /\ \E class \in {"clean", "sensitive"} : evidence' = [evidence EXCEPT ![c] = class]
        /\ UNCHANGED <<fault, withheld>>
     \/ /\ Throw(c, "privacy")
        /\ evidence' = [evidence EXCEPT ![c] = "raw"]
        /\ withheld' = withheld \cup {Id(c)}
     \/ \E error \in {"error", "policy"} : Throw(c, error) /\ UNCHANGED <<evidence, withheld>>
  /\ UNCHANGED <<at, runs, offline, diskVars, claim, labVars>>

\* An online run asks the Lab for a nonce, an offline run has its own.
NonceIssued(c) ==
  /\ script[c] = "nonce"
  /\ Script(c, "build")
  /\ UNCHANGED <<at, runVars, diskVars, claim, labVars>>

\* The Lab refuses, or its answer does not arrive.
NonceFails(c) ==
  /\ script[c] = "nonce" /\ ~offline[c]
  /\ Throw(c, "error")
  /\ UNCHANGED <<at, runs, offline, evidence, withheld, diskVars, claim, labVars>>

\* Fault: the collected evidence is not looked at again.
fit_to_leave_unchecked(c) == evidence[c] # "none"

\* Test-CSASensitiveData
fit_to_leave(c) == evidence[c] = "clean"

\* New-CSAEvidencePackage
Build(c) ==
  /\ script[c] = "build"
  /\ \/ fit_to_leave(c) /\ Script(c, IF offline[c] THEN "export" ELSE "send") /\ UNCHANGED fault
     \/ Throw(c, "error")
  /\ UNCHANGED <<at, runs, offline, evidence, withheld, diskVars, claim, labVars>>

Leaves(c) == sent' = sent \cup {<<Id(c), evidence[c]>>}

\* The package is posted; its receipt is compared with it.
Send(c) ==
  /\ script[c] = "send"
  /\ \/ Leaves(c) /\ indexed' = indexed \cup {Id(c)} /\ Script(c, "finally") /\ UNCHANGED fault
     \/ Leaves(c) /\ indexed' \in {indexed, indexed \cup {Id(c)}} /\ Throw(c, "error")
     \/ UNCHANGED <<sent, indexed>> /\ Throw(c, "error")
  /\ UNCHANGED <<at, runs, offline, evidence, withheld, diskVars, claim, exported>>

\* Protect-CSAOfflinePackage; an existing target is never overwritten.
Export(c) ==
  /\ script[c] = "export"
  /\ \/ Leaves(c) /\ exported' = exported \cup {Id(c)} /\ Script(c, "finally") /\ UNCHANGED fault
     \/ UNCHANGED <<sent, exported>> /\ Throw(c, "error")
  /\ UNCHANGED <<at, runs, offline, evidence, withheld, diskVars, claim, indexed>>

\* A directory is removed, or it stays and that is said.
removed(c, directories) ==
  \E rest \in SUBSET (directories \cap disk[c]) :
    /\ disk' = [disk EXCEPT ![c] = @ \ (directories \ rest)]
    /\ reported' = [reported EXCEPT ![c] = @ \cup rest]

\* The finally block of the script, and its exit.
Finally(c) ==
  /\ script[c] = "finally"
  /\ removed(c, {RunDirectory(c)})
  /\ Script(c, "off")
  /\ UNCHANGED <<at, runVars, claim, labVars>>

-----------------------------------------------------------------------------
(* The launcher CSA-Collector.exe *)

\* The embedded package is extracted into a directory and verified.
Extract(c) ==
  /\ at[c] = "start"
  /\ \/ Keep(c, <<"package", 0>>) /\ \E step \in {"launch", "notice"} : To(c, step)
     \/ UNCHANGED disk /\ To(c, "notice")
  /\ UNCHANGED <<script, runVars, reported, claim, labVars>>

\* RunPowerShell
StartScript(c, export) ==
  /\ runs[c] < MaxRuns
  /\ runs' = [runs EXCEPT ![c] = @ + 1]
  /\ offline' = [offline EXCEPT ![c] = export]
  /\ evidence' = [evidence EXCEPT ![c] = "none"] /\ fault' = [fault EXCEPT ![c] = "none"]
  /\ Script(c, "verify") /\ To(c, "running")
  /\ UNCHANGED <<withheld, diskVars, claim, labVars>>

Launch(c) == at[c] = "launch" /\ StartScript(c, FALSE)

Ended(c, error) == at[c] = "running" /\ script[c] = "off" /\ fault[c] = error

\* Fault: an error of the script is not in its exit code.
exit_zero_swallowed(c) == \E error \in {"none", "error"} : Ended(c, error)

exit_zero(c) == Ended(c, "none")

\* Exit code 0: what the launcher says depends on the run it asked for.
Achieved(c) ==
  /\ exit_zero(c)
  /\ claim' = [claim EXCEPT ![c] = IF offline[c] THEN "exported" ELSE "accepted"]
  /\ To(c, "notice")
  /\ UNCHANGED <<script, runVars, diskVars, labVars>>

\* Exit codes 12 and 13 end the collection, whichever run they come from.
Blocked(c) ==
  /\ Ended(c, "privacy") \/ Ended(c, "policy")
  /\ To(c, "notice")
  /\ UNCHANGED <<script, runVars, diskVars, claim, labVars>>

\* Any other exit code of an online run asks the user; an offline run that
\* failed is followed by an online one.
Failed(c) ==
  /\ Ended(c, "error")
  /\ To(c, IF offline[c] THEN "launch" ELSE "ask")
  /\ UNCHANGED <<script, runVars, diskVars, claim, labVars>>

\* Retry, which is also what unknown input means, offline package or cancel.
\* Bound: a run that may be followed by another leaves room for it.
Choose(c) ==
  /\ at[c] = "ask"
  /\ \/ runs[c] < MaxRuns /\ To(c, "launch") /\ UNCHANGED <<script, runVars, diskVars, claim, labVars>>
     \/ runs[c] + 1 < MaxRuns /\ StartScript(c, TRUE)
     \/ To(c, "cleanup") /\ UNCHANGED <<script, runVars, diskVars, claim, labVars>>

\* WaitForUser comes before the directory is removed.
PressEnter(c) ==
  /\ at[c] = "notice"
  /\ To(c, "cleanup")
  /\ UNCHANGED <<script, runVars, diskVars, claim, labVars>>

\* RemoveTemporaryDirectory; the exit code does not depend on it.
Cleanup(c) ==
  /\ at[c] = "cleanup"
  /\ removed(c, {<<"package", 0>>})
  /\ To(c, "ended")
  /\ UNCHANGED <<script, runVars, claim, labVars>>

\* The console is closed, at any time, with the script in it.
Kill(c) ==
  /\ at[c] \notin {"start", "ended", "killed"}
  /\ To(c, "killed") /\ Script(c, "off")
  /\ UNCHANGED <<runVars, diskVars, claim, labVars>>

-----------------------------------------------------------------------------
\* Every step of the script except the exchange of the nonce.
RunScript(c) ==
  \/ VerifyPackage(c) \/ MakeDirectory(c) \/ Collect(c) \/ Build(c) \/ Send(c) \/ Export(c)
  \/ Finally(c)

RunLauncher(c) ==
  Extract(c) \/ Launch(c) \/ Achieved(c) \/ Blocked(c) \/ Failed(c) \/ Cleanup(c)

-----------------------------------------------------------------------------
(* Properties *)

\* What is said at the end is true, whatever answers were lost and whatever
\* runs were repeated: evidence claimed to be accepted or exported is that of
\* the last run, and a temporary directory that stays is reported.
EndingIsHonest ==
  \A c \in Clients : at[c] = "ended" =>
    /\ claim[c] = "accepted" => Id(c) \in indexed
    /\ claim[c] = "exported" => Id(c) \in exported
    /\ disk[c] \subseteq reported[c]

\* Evidence that failed its privacy transformation or the sensitive-data check
\* leaves the endpoint in no run, online or offline, and withheld evidence is
\* the end of the collection.
WithheldStaysHome ==
  /\ \A id \in Ids : \A class \in Classes : <<id, class>> \in sent => class = "clean"
  /\ \A c \in Clients : \A n \in 1..runs[c] : <<c, n>> \in withheld => n = runs[c]
=============================================================================
