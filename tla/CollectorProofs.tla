--------------------------- MODULE CollectorProofs ---------------------------
(***************************************************************************)
(* Proofs about collections on endpoints, for every number of collections, *)
(* envelopes, handler threads, runs and retries, and whatever the Lab's    *)
(* ledger answers; and about the ledger by itself.                         *)
(***************************************************************************)
EXTENDS TrustedCollector, FiniteSetTheorems, TLAPS

PackageDir == <<"package", 0>>
DownloadDir == <<"download", 0>>

ClientTypeOK ==
  /\ wants \in [Clients -> Envelopes \cup {None}]
  /\ call \in [Clients -> Requests \cup {None}]

Acquiring == {"metadata", "challenge", "prompt", "authorize", "mint", "package", "stage",
              "bundle", "archive", "mark"}
Over == {"notice", "cleanup", "ended", "killed"}

\* The launcher of c waits for its script, and for a handler only where it has
\* asked; what is only done with an envelope is done by a collection that has one.
Placed(c) ==
  /\ at[c] # "running" => script[c] = "off"
  /\ at[c] = "running" => runs[c] # 0
  /\ call[c] # None => at[c] \in Calling
  /\ at[c] \in Acquiring => trusted(c)
  /\ DownloadDir \in disk[c] => trusted(c)

\* A script sends or exports what was found clean, and to where it was asked to.
Fit(c) ==
  /\ script[c] \in {"send", "export"} => evidence[c] = "clean"
  /\ script[c] = "send" => ~offline[c]
  /\ script[c] = "export" => offline[c]

\* Evidence is withheld in the last run only, and after it there is none.
Withheld(c) ==
  /\ \A n \in 1..MaxRuns : <<c, n>> \in withheld => n = runs[c]
  /\ Id(c) \in withheld =>
       \/ at[c] = "running" /\ script[c] \in {"finally", "off"} /\ fault[c] = "privacy"
       \/ at[c] \in Over

\* A run without an error has achieved what was asked, and only that is claimed.
Backed(c) ==
  /\ at[c] = "running" /\ script[c] \in {"finally", "off"} /\ fault[c] = "none" =>
       Id(c) \in IF offline[c] THEN exported ELSE indexed
  /\ claim[c] # "none" => at[c] \in Over
  /\ claim[c] = "accepted" => Id(c) \in indexed
  /\ claim[c] = "exported" => Id(c) \in exported

\* Each directory is reported, or somebody will still remove it.
Removable(c) ==
  /\ at[c] \notin {"ended", "killed"} =>
       disk[c] \subseteq reported[c] \cup {PackageDir, DownloadDir}
                           \cup IF script[c] = "off" THEN {} ELSE {RunDirectory(c)}
  /\ at[c] = "ended" => disk[c] \subseteq reported[c]

ClientInv(c) == Placed(c) /\ Fit(c) /\ Withheld(c) /\ Backed(c) /\ Removable(c)

SentClean == \A s \in sent : s[2] = "clean"

CollectorInv ==
  /\ CollectorTypeOK /\ ClientTypeOK
  /\ SentClean
  /\ \A c \in Clients : ClientInv(c)

LEMMA CollectorInvInit == CombinedInit => CollectorInv
<1> SUFFICES ASSUME CombinedInit PROVE CollectorInv
  OBVIOUS
<1>1. CollectorTypeOK
  BY CollectorAssumption DEF CombinedInit, CollectorInit, CollectorTypeOK, Launcher, Classes
<1>2. ClientTypeOK /\ SentClean
  BY DEF CombinedInit, CollectorInit, ClientTypeOK, SentClean
<1>3. ASSUME NEW c \in Clients PROVE ClientInv(c)
  BY <1>3 DEF CombinedInit, CollectorInit, ClientInv, Placed, Fit, Withheld, Backed, Removable, Acquiring, Over
<1>4. QED BY <1>1, <1>2, <1>3 DEF CollectorInv

-----------------------------------------------------------------------------
(* What a step leaves of the other clients *)

\* All that the invariant of a client looks at.
Same(d) ==
  /\ at'[d] = at[d] /\ script'[d] = script[d] /\ runs'[d] = runs[d] /\ offline'[d] = offline[d]
  /\ evidence'[d] = evidence[d] /\ fault'[d] = fault[d] /\ disk'[d] = disk[d]
  /\ reported'[d] = reported[d] /\ claim'[d] = claim[d]
  /\ wants'[d] = wants[d] /\ call'[d] = call[d]

LEMMA SameKept ==
  ASSUME NEW d \in Clients, ClientInv(d), Same(d),
         indexed \subseteq indexed', exported \subseteq exported',
         \A n : <<d, n>> \in withheld' => <<d, n>> \in withheld
  PROVE  ClientInv(d)'
<1>1. Id(d)' = Id(d) /\ RunDirectory(d)' = RunDirectory(d) /\ trusted(d)' = trusted(d)
  BY DEF Same, Id, RunDirectory, trusted
<1>2. Placed(d)' /\ Fit(d)'
  BY <1>1 DEF ClientInv, Placed, Fit, Same
<1>3. Backed(d)'
  BY <1>1 DEF ClientInv, Backed, Same
<1>4. Removable(d)'
  BY <1>1 DEF ClientInv, Removable, Same
<1>5. Id(d) \in withheld' => Id(d) \in withheld
  BY DEF Id
<1>6. Withheld(d)'
  BY <1>1, <1>5 DEF ClientInv, Withheld, Same
<1>7. QED BY <1>2, <1>3, <1>4, <1>6 DEF ClientInv

\* A step of c that keeps c's part of the invariant keeps the invariant.
LEMMA ClientStep ==
  ASSUME CollectorInv, NEW c \in Clients,
         CollectorTypeOK', ClientTypeOK', SentClean', ClientInv(c)',
         \A d \in Clients \ {c} : Same(d),
         indexed \subseteq indexed', exported \subseteq exported',
         \A d \in Clients \ {c}, n \in Nat : <<d, n>> \in withheld' => <<d, n>> \in withheld
  PROVE  CollectorInv'
<1>1. ASSUME NEW d \in Clients \ {c} PROVE ClientInv(d)'
  <2>1. \A n : <<d, n>> \in withheld' => n \in Nat
    BY CollectorAssumption DEF CollectorTypeOK, Ids
  <2>2. QED BY <2>1, SameKept DEF CollectorInv
<1>2. QED BY <1>1 DEF CollectorInv

\* Steps that leave the script, its directories and the Lab alone.
LauncherAlone == UNCHANGED <<script, runVars, diskVars, claim, labVars, wants>>

\* The launcher of c goes on to step.
LEMMA Moved ==
  ASSUME CollectorInv, NEW c \in Clients, NEW step \in Launcher \ {"running", "ended"},
         at' = [at EXCEPT ![c] = step], LauncherAlone, script[c] = "off",
         ClientTypeOK', \A d \in Clients \ {c} : call'[d] = call[d],
         call'[c] # None => step \in Calling,
         at[c] \notin {"ended", "killed"},
         at[c] \in Over \/ (at[c] = "running" /\ fault[c] = "privacy") => step \in Over,
         step \in Acquiring => trusted(c)
  PROVE  CollectorInv'
<1>1. CollectorTypeOK /\ ClientTypeOK /\ ClientInv(c)
  BY DEF CollectorInv
<1>2. CollectorTypeOK'
  BY <1>1 DEF CollectorTypeOK, LauncherAlone, runVars, diskVars, labVars
<1>3. at'[c] = step /\ \A d \in Clients \ {c} : Same(d)
  BY <1>1 DEF CollectorTypeOK, Same, LauncherAlone, runVars, diskVars, labVars
<1>4. UNCHANGED <<script, runs, offline, evidence, fault, disk, reported, claim, wants, sent, withheld, indexed, exported>>
  BY DEF LauncherAlone, runVars, diskVars, labVars
<1>5. Id(c)' = Id(c) /\ RunDirectory(c)' = RunDirectory(c) /\ trusted(c)' = trusted(c)
  BY <1>4 DEF Id, RunDirectory, trusted
<1>6. Placed(c)' /\ Fit(c)'
  BY <1>1, <1>3, <1>4, <1>5 DEF ClientInv, Placed, Fit
<1>7. Withheld(c)'
  BY <1>1, <1>3, <1>4, <1>5 DEF ClientInv, Withheld
<1>8. Backed(c)'
  BY <1>1, <1>3, <1>4, <1>5 DEF ClientInv, Backed
<1>9. Removable(c)'
  BY <1>1, <1>3, <1>4, <1>5 DEF ClientInv, Removable
<1>10. QED BY <1>2, <1>3, <1>4, <1>6, <1>7, <1>8, <1>9, ClientStep DEF ClientInv, CollectorInv, SentClean

\* A script is started by a launcher that waits for none.
LEMMA Started ==
  ASSUME CollectorInv, NEW c \in Clients, NEW export \in BOOLEAN, StartScript(c, export),
         at[c] \in {"launch", "ask"}, UNCHANGED <<wants, call>>
  PROVE  CollectorInv'
<1>1. CollectorTypeOK /\ ClientTypeOK /\ ClientInv(c)
  BY DEF CollectorInv
<1>2. /\ runs' = [runs EXCEPT ![c] = @ + 1] /\ runs[c] < MaxRuns
      /\ offline' = [offline EXCEPT ![c] = export]
      /\ evidence' = [evidence EXCEPT ![c] = "none"] /\ fault' = [fault EXCEPT ![c] = "none"]
      /\ script' = [script EXCEPT ![c] = "verify"] /\ at' = [at EXCEPT ![c] = "running"]
      /\ UNCHANGED <<withheld, disk, reported, claim, sent, indexed, exported, wants, call>>
  BY DEF StartScript, Script, To, diskVars, labVars
<1>3. runs[c] + 1 \in 0..MaxRuns /\ runs[c] \in Nat
  BY <1>1, <1>2, CollectorAssumption DEF CollectorTypeOK
<1>4. CollectorTypeOK' /\ ClientTypeOK'
  BY <1>1, <1>2, <1>3 DEF CollectorTypeOK, ClientTypeOK, Launcher, Classes
<1>5. /\ runs'[c] = runs[c] + 1 /\ script'[c] = "verify" /\ at'[c] = "running"
      /\ \A d \in Clients \ {c} : Same(d)
  BY <1>1, <1>2 DEF CollectorTypeOK, Same
<1>6. trusted(c)' = trusted(c) /\ Id(c)' = <<c, runs[c] + 1>>
  BY <1>2, <1>5 DEF trusted, Id
<1>7. Placed(c)' /\ Fit(c)'
  BY <1>1, <1>2, <1>3, <1>5, <1>6 DEF ClientInv, Placed, Fit, Calling, Acquiring
<1>8. Withheld(c)'
  <2>1. Id(c) \notin withheld
    BY <1>1 DEF ClientInv, Withheld, Over
  <2>2. \A n \in 1..MaxRuns : <<c, n>> \notin withheld
    BY <1>1, <2>1 DEF ClientInv, Withheld, Id
  <2>3. Id(c)' \notin withheld'
    BY <1>2, <1>3, <1>6, <2>2
  <2>4. QED BY <1>2, <2>2, <2>3 DEF Withheld
<1>9. Backed(c)'
  BY <1>1, <1>2, <1>5 DEF ClientInv, Backed, CollectorTypeOK, Over
<1>10. Removable(c)'
  BY <1>1, <1>2, <1>5 DEF ClientInv, Placed, Removable
<1>11. QED BY <1>2, <1>4, <1>5, <1>7, <1>8, <1>9, <1>10, ClientStep DEF ClientInv, CollectorInv, SentClean

-----------------------------------------------------------------------------
(* The script *)

\* What the script of c does before its finally block.
LEMMA ScriptMoved ==
  ASSUME CollectorInv, NEW c \in Clients, script[c] \notin {"off", "finally"}, script'[c] # "off",
         UNCHANGED <<at, runs, offline, wants, call, claim, reported>>,
         CollectorTypeOK', SentClean', Fit(c)',
         \A d \in Clients \ {c} : /\ script'[d] = script[d] /\ evidence'[d] = evidence[d]
                                  /\ fault'[d] = fault[d] /\ disk'[d] = disk[d],
         disk'[c] \subseteq disk[c] \cup {RunDirectory(c)},
         withheld' \subseteq withheld \cup {Id(c)},
         Id(c) \in withheld' => script'[c] = "finally" /\ (Id(c) \in withheld \/ fault'[c] = "privacy"),
         script'[c] = "finally" /\ fault'[c] = "none" => Id(c) \in IF offline[c] THEN exported' ELSE indexed',
         indexed \subseteq indexed', exported \subseteq exported'
  PROVE  CollectorInv'
<1>1. CollectorTypeOK /\ ClientTypeOK /\ ClientInv(c) /\ ClientTypeOK'
  BY DEF CollectorInv, ClientTypeOK
<1>2. at[c] = "running" /\ Id(c) \notin withheld /\ claim[c] = "none"
  <2>1. at[c] = "running"
    BY <1>1 DEF ClientInv, Placed
  <2>2. QED BY <1>1, <2>1 DEF ClientInv, Withheld, Backed, Over
<1>3. Id(c)' = Id(c) /\ RunDirectory(c)' = RunDirectory(c) /\ trusted(c)' = trusted(c)
  BY DEF Id, RunDirectory, trusted
<1>4. DownloadDir # RunDirectory(c)
  BY DEF DownloadDir, RunDirectory
<1>5. Placed(c)'
  BY <1>1, <1>2, <1>3, <1>4 DEF ClientInv, Placed
<1>6. Withheld(c)'
  <2>1. ASSUME NEW n \in 1..MaxRuns, <<c, n>> \in withheld' PROVE n = runs[c]
    BY <1>1, <2>1 DEF ClientInv, Withheld, Id
  <2>2. QED BY <1>2, <1>3, <2>1 DEF Withheld
<1>7. Backed(c)'
  BY <1>2, <1>3 DEF Backed
<1>8. Removable(c)'
  BY <1>1, <1>2, <1>3 DEF ClientInv, Removable
<1>9. \A d \in Clients \ {c} : Same(d)
  BY DEF Same
<1>10. \A d \in Clients \ {c}, n \in Nat : <<d, n>> \in withheld' => <<d, n>> \in withheld
  BY DEF Id
<1>11. QED BY <1>1, <1>5, <1>6, <1>7, <1>8, <1>9, <1>10, ClientStep DEF ClientInv

LEMMA ScriptSteps ==
  ASSUME CollectorInv, NEW c \in Clients, UNCHANGED clientVars,
         RunScript(c) \/ NonceIssued(c) \/ NonceFails(c)
  PROVE  CollectorInv'
<1>1. CollectorTypeOK /\ ClientTypeOK /\ ClientInv(c) /\ SentClean
  BY DEF CollectorInv
<1>2. UNCHANGED <<wants, call>>
  BY DEF clientVars
<1>3. CASE VerifyPackage(c) \/ NonceIssued(c) \/ NonceFails(c) \/ Build(c)
  <2>1. /\ script[c] \in {"verify", "nonce", "build"}
        /\ UNCHANGED <<at, runs, offline, evidence, withheld, disk, reported, claim, sent, indexed, exported>>
    BY <1>3 DEF VerifyPackage, NonceIssued, NonceFails, Build, runVars, diskVars, labVars
  <2>2. \/ /\ fault' = fault
           /\ \/ \E step \in {"directory", "build"} : script' = [script EXCEPT ![c] = step]
              \/ fit_to_leave(c) /\ script' = [script EXCEPT ![c] = IF offline[c] THEN "export" ELSE "send"]
        \/ /\ \E error \in {"error", "policy"} : fault' = [fault EXCEPT ![c] = error]
           /\ script' = [script EXCEPT ![c] = "finally"]
    BY <1>3 DEF VerifyPackage, NonceIssued, NonceFails, Build, Script, Throw, runVars
  <2>3. CollectorTypeOK'
    BY <1>1, <2>1, <2>2 DEF CollectorTypeOK
  <2>4. \A d \in Clients \ {c} : script'[d] = script[d] /\ fault'[d] = fault[d]
    BY <1>1, <2>2 DEF CollectorTypeOK
  <2>5. script'[c] # "off" /\ (script'[c] = "finally" => fault'[c] \in {"error", "policy"}) /\ Fit(c)'
    BY <1>1, <2>1, <2>2 DEF CollectorTypeOK, Fit, fit_to_leave
  <2>6. Id(c) \notin withheld
    BY <1>1, <2>1 DEF ClientInv, Placed, Withheld, Over
  <2>7. QED BY <1>1, <1>2, <2>1, <2>3, <2>4, <2>5, <2>6, ScriptMoved DEF SentClean
<1>4. CASE MakeDirectory(c)
  <2>1. /\ script[c] = "directory"
        /\ UNCHANGED <<at, runs, offline, evidence, withheld, reported, claim, sent, indexed, exported>>
    BY <1>4 DEF MakeDirectory, labVars
  <2>2. \/ /\ script' = [script EXCEPT ![c] = "collect"] /\ fault' = fault
           /\ disk' = [disk EXCEPT ![c] = @ \cup {RunDirectory(c)}]
        \/ /\ fault' = [fault EXCEPT ![c] = "error"] /\ disk' = disk
           /\ script' = [script EXCEPT ![c] = "finally"]
    BY <1>4 DEF MakeDirectory, Script, Throw, Keep
  <2>3. CollectorTypeOK'
    <3>1. RunDirectory(c) \in Kinds \X (0..MaxRuns)
      BY <1>1 DEF CollectorTypeOK, RunDirectory, Kinds
    <3>2. QED BY <1>1, <2>1, <2>2, <3>1 DEF CollectorTypeOK
  <2>4. /\ \A d \in Clients \ {c} : script'[d] = script[d] /\ fault'[d] = fault[d] /\ disk'[d] = disk[d]
        /\ disk'[c] \subseteq disk[c] \cup {RunDirectory(c)}
    BY <1>1, <2>2 DEF CollectorTypeOK
  <2>5. script'[c] \in {"collect", "finally"} /\ (script'[c] = "finally" => fault'[c] = "error") /\ Fit(c)'
    BY <1>1, <2>1, <2>2 DEF CollectorTypeOK, Fit
  <2>6. Id(c) \notin withheld
    BY <1>1, <2>1 DEF ClientInv, Placed, Withheld, Over
  <2>7. QED BY <1>1, <1>2, <2>1, <2>3, <2>4, <2>5, <2>6, ScriptMoved DEF SentClean
<1>5. CASE Collect(c)
  <2>1. /\ script[c] = "collect"
        /\ UNCHANGED <<at, runs, offline, disk, reported, claim, sent, indexed, exported>>
    BY <1>5 DEF Collect, diskVars, labVars
  <2>2. \/ /\ script' = [script EXCEPT ![c] = "nonce"] /\ UNCHANGED <<fault, withheld>>
           /\ \E class \in {"clean", "sensitive"} : evidence' = [evidence EXCEPT ![c] = class]
        \/ /\ script' = [script EXCEPT ![c] = "finally"] /\ fault' = [fault EXCEPT ![c] = "privacy"]
           /\ evidence' = [evidence EXCEPT ![c] = "raw"]
           /\ withheld' = withheld \cup {Id(c)}
        \/ /\ script' = [script EXCEPT ![c] = "finally"] /\ UNCHANGED <<evidence, withheld>>
           /\ \E error \in {"error", "policy"} : fault' = [fault EXCEPT ![c] = error]
    BY <1>5 DEF Collect, Script, Throw
  <2>3. at[c] = "running" /\ Id(c) \notin withheld
    BY <1>1, <2>1 DEF ClientInv, Placed, Withheld, Over
  <2>4. Id(c) \in Ids
    BY <1>1, <2>3, CollectorAssumption DEF Ids, Id, ClientInv, Placed, CollectorTypeOK
  <2>5. CollectorTypeOK'
    BY <1>1, <2>1, <2>2, <2>4 DEF CollectorTypeOK, Classes
  <2>6. /\ \A d \in Clients \ {c} : script'[d] = script[d] /\ fault'[d] = fault[d] /\ evidence'[d] = evidence[d]
        /\ script'[c] \in {"nonce", "finally"} /\ (script'[c] = "finally" => fault'[c] # "none")
        /\ Id(c) \in withheld' => script'[c] = "finally" /\ fault'[c] = "privacy"
        /\ Fit(c)'
    BY <1>1, <2>1, <2>2, <2>3 DEF CollectorTypeOK, Fit
  <2>7. withheld' \subseteq withheld \cup {Id(c)}
    BY <2>2
  <2>8. QED BY <1>1, <1>2, <2>1, <2>5, <2>6, <2>7, ScriptMoved DEF SentClean
<1>6. CASE Send(c) \/ Export(c)
  <2>1. /\ script[c] \in {"send", "export"} /\ evidence[c] = "clean"
        /\ script[c] = "send" => ~offline[c]
        /\ script[c] = "export" => offline[c]
        /\ UNCHANGED <<at, runs, offline, evidence, withheld, disk, reported, claim>>
    BY <1>1, <1>6 DEF Send, Export, diskVars, ClientInv, Fit
  <2>2. /\ script' = [script EXCEPT ![c] = "finally"]
        /\ fault' = fault \/ fault' = [fault EXCEPT ![c] = "error"]
        /\ sent' \in {sent, sent \cup {<<Id(c), evidence[c]>>}}
        /\ indexed' \in {indexed, indexed \cup {Id(c)}}
        /\ exported' \in {exported, exported \cup {Id(c)}}
    BY <1>6 DEF Send, Export, Script, Throw, Leaves
  <2>3. fault' = fault => IF offline[c] THEN Id(c) \in exported' \/ fault'[c] # "none"
                                        ELSE Id(c) \in indexed' \/ fault'[c] # "none"
    BY <1>1, <1>6, <2>1 DEF Send, Export, Throw, CollectorTypeOK
  <2>4. at[c] = "running" /\ Id(c) \notin withheld
    BY <1>1, <2>1 DEF ClientInv, Placed, Withheld, Over
  <2>5. Id(c) \in Ids /\ <<Id(c), evidence[c]>> \in Ids \X Classes
    <3>1. Id(c) \in Ids
      BY <1>1, <2>4, CollectorAssumption DEF Ids, Id, ClientInv, Placed, CollectorTypeOK
    <3>2. QED BY <1>1, <3>1 DEF CollectorTypeOK
  <2>6. CollectorTypeOK'
    BY <1>1, <2>1, <2>2, <2>5 DEF CollectorTypeOK
  <2>7. /\ \A d \in Clients \ {c} : script'[d] = script[d] /\ fault'[d] = fault[d]
        /\ script'[c] = "finally" /\ Fit(c)'
    BY <1>1, <2>1, <2>2 DEF CollectorTypeOK, Fit
  <2>8. fault'[c] = "none" => Id(c) \in IF offline[c] THEN exported' ELSE indexed'
    BY <1>1, <2>2, <2>3 DEF CollectorTypeOK
  <2>9. SentClean'
    BY <1>1, <2>1, <2>2 DEF SentClean
  <2>10. QED BY <1>1, <1>2, <2>1, <2>2, <2>4, <2>6, <2>7, <2>8, <2>9, ScriptMoved
<1>7. CASE Finally(c)
  <2>1. /\ script[c] = "finally" /\ script' = [script EXCEPT ![c] = "off"]
        /\ UNCHANGED <<at, runs, offline, evidence, fault, withheld, claim, sent, indexed, exported>>
    BY <1>7 DEF Finally, Script, runVars, labVars
  <2>2. PICK rest \in SUBSET ({RunDirectory(c)} \cap disk[c]) :
          /\ disk' = [disk EXCEPT ![c] = @ \ ({RunDirectory(c)} \ rest)]
          /\ reported' = [reported EXCEPT ![c] = @ \cup rest]
    BY <1>7 DEF Finally, removed
  <2>3. CollectorTypeOK' /\ ClientTypeOK'
    <3>1. rest \subseteq Kinds \X (0..MaxRuns)
      BY <1>1 DEF CollectorTypeOK
    <3>2. QED BY <1>1, <1>2, <2>1, <2>2, <3>1 DEF CollectorTypeOK, ClientTypeOK
  <2>4. \A d \in Clients \ {c} : Same(d)
    BY <1>1, <1>2, <2>1, <2>2 DEF CollectorTypeOK, Same
  <2>5. /\ script'[c] = "off" /\ disk'[c] = disk[c] \ ({RunDirectory(c)} \ rest)
        /\ reported'[c] = reported[c] \cup rest
    BY <1>1, <2>1, <2>2 DEF CollectorTypeOK
  <2>6. Id(c)' = Id(c) /\ RunDirectory(c)' = RunDirectory(c) /\ trusted(c)' = trusted(c) /\ at[c] = "running"
    BY <1>1, <1>2, <2>1 DEF Id, RunDirectory, trusted, ClientInv, Placed
  <2>7. Placed(c)' /\ Fit(c)'
    BY <1>1, <1>2, <2>1, <2>5, <2>6 DEF ClientInv, Placed, Fit
  <2>8. Withheld(c)'
    BY <1>1, <2>1, <2>5, <2>6 DEF ClientInv, Withheld
  <2>9. Backed(c)'
    BY <1>1, <2>1, <2>5, <2>6 DEF ClientInv, Backed
  <2>10. Removable(c)'
    BY <1>1, <2>1, <2>5, <2>6 DEF ClientInv, Removable
  <2>11. QED BY <1>1, <2>1, <2>3, <2>4, <2>7, <2>8, <2>9, <2>10, ClientStep DEF ClientInv, SentClean
<1>8. QED BY <1>3, <1>4, <1>5, <1>6, <1>7 DEF RunScript

-----------------------------------------------------------------------------
(* The launchers *)

\* A package or a download is put into a directory; what follows does not start
\* a script.
LEMMA Kept ==
  ASSUME CollectorInv, NEW c \in Clients, NEW directory \in {PackageDir, DownloadDir},
         NEW step \in {"launch", "notice", "mark", "bundle", "cleanup"},
         at' = [at EXCEPT ![c] = step], disk' = [disk EXCEPT ![c] = @ \cup {directory}],
         UNCHANGED <<script, runVars, reported, claim, labVars, wants, call>>,
         at[c] \in {"start", "stage", "archive"},
         at[c] # "start" => trusted(c),
         directory = DownloadDir => trusted(c),
         step \in {"mark", "bundle"} => trusted(c)
  PROVE  CollectorInv'
<1>1. CollectorTypeOK /\ ClientTypeOK /\ ClientInv(c)
  BY DEF CollectorInv
<1>2. UNCHANGED <<script, runs, offline, evidence, fault, reported, claim, wants, call, sent, withheld, indexed, exported>>
  BY DEF runVars, labVars
<1>3. CollectorTypeOK' /\ ClientTypeOK'
  <2>1. directory \in Kinds \X (0..MaxRuns)
    BY CollectorAssumption DEF Kinds, PackageDir, DownloadDir
  <2>2. QED BY <1>1, <1>2, <2>1 DEF CollectorTypeOK, ClientTypeOK, Launcher
<1>4. at'[c] = step /\ disk'[c] = disk[c] \cup {directory} /\ \A d \in Clients \ {c} : Same(d)
  BY <1>1, <1>2 DEF CollectorTypeOK, Same
<1>5. Id(c)' = Id(c) /\ RunDirectory(c)' = RunDirectory(c) /\ trusted(c)' = trusted(c)
  BY <1>2 DEF Id, RunDirectory, trusted
<1>6. script[c] = "off" /\ call[c] = None
  BY <1>1 DEF ClientInv, Placed, Calling
<1>7. PackageDir # DownloadDir
  BY DEF PackageDir, DownloadDir
<1>8. Placed(c)'
  BY <1>1, <1>2, <1>4, <1>5, <1>6, <1>7 DEF ClientInv, Placed, Acquiring
<1>9. Fit(c)'
  BY <1>1, <1>2, <1>6 DEF ClientInv, Fit
<1>10. Withheld(c)' /\ Backed(c)'
  BY <1>1, <1>2, <1>4, <1>5 DEF ClientInv, Withheld, Backed, Over
<1>11. Removable(c)'
  BY <1>1, <1>2, <1>4, <1>5, <1>6 DEF ClientInv, Removable
<1>12. QED BY <1>1, <1>2, <1>3, <1>4, <1>8, <1>9, <1>10, <1>11, ClientStep DEF ClientInv, CollectorInv, SentClean

\* The script has ended without an error, and the launcher says what was achieved.
LEMMA Claimed ==
  ASSUME CollectorInv, NEW c \in Clients, NEW step \in {"notice", "cleanup"}, exit_zero(c),
         at' = [at EXCEPT ![c] = step],
         claim' = [claim EXCEPT ![c] = IF offline[c] THEN "exported" ELSE "accepted"],
         UNCHANGED <<script, runVars, diskVars, labVars, wants, call>>
  PROVE  CollectorInv'
<1>1. CollectorTypeOK /\ ClientTypeOK /\ ClientInv(c)
  BY DEF CollectorInv
<1>2. UNCHANGED <<script, runs, offline, evidence, fault, disk, reported, wants, call, sent, withheld, indexed, exported>>
  BY DEF runVars, diskVars, labVars
<1>3. CollectorTypeOK' /\ ClientTypeOK'
  BY <1>1, <1>2 DEF CollectorTypeOK, ClientTypeOK, Launcher
<1>4. /\ at'[c] = step /\ claim'[c] = IF offline[c] THEN "exported" ELSE "accepted"
      /\ \A d \in Clients \ {c} : Same(d)
  BY <1>1, <1>2 DEF CollectorTypeOK, Same
<1>5. Id(c)' = Id(c) /\ RunDirectory(c)' = RunDirectory(c) /\ trusted(c)' = trusted(c)
  BY <1>2 DEF Id, RunDirectory, trusted
<1>6. at[c] = "running" /\ script[c] = "off" /\ fault[c] = "none"
  BY DEF exit_zero, Ended
<1>7. Placed(c)' /\ Fit(c)'
  BY <1>1, <1>2, <1>4, <1>5, <1>6 DEF ClientInv, Placed, Fit, Calling, Acquiring
<1>8. Withheld(c)'
  BY <1>1, <1>2, <1>4, <1>5 DEF ClientInv, Withheld, Over
<1>9. Backed(c)'
  BY <1>1, <1>2, <1>4, <1>5, <1>6 DEF ClientInv, Backed, Over
<1>10. Removable(c)'
  BY <1>1, <1>2, <1>4, <1>5, <1>6 DEF ClientInv, Removable
<1>11. QED BY <1>1, <1>2, <1>3, <1>4, <1>7, <1>8, <1>9, <1>10, ClientStep DEF ClientInv, CollectorInv, SentClean

\* The directories are removed, or reported; a claim may be withdrawn.
LEMMA CleanedUp ==
  ASSUME CollectorInv, NEW c \in Clients, NEW directories \in SUBSET {PackageDir, DownloadDir},
         at[c] = "cleanup", at' = [at EXCEPT ![c] = "ended"], removed(c, directories),
         claim' = claim \/ claim' = [claim EXCEPT ![c] = "none"],
         UNCHANGED <<script, runVars, labVars, wants, call>>,
         PackageDir \in directories, trusted(c) => DownloadDir \in directories
  PROVE  CollectorInv'
<1>1. CollectorTypeOK /\ ClientTypeOK /\ ClientInv(c)
  BY DEF CollectorInv
<1>2. UNCHANGED <<script, runs, offline, evidence, fault, wants, call, sent, withheld, indexed, exported>>
  BY DEF runVars, labVars
<1>3. PICK rest \in SUBSET (directories \cap disk[c]) :
        /\ disk' = [disk EXCEPT ![c] = @ \ (directories \ rest)]
        /\ reported' = [reported EXCEPT ![c] = @ \cup rest]
  BY DEF removed
<1>4. CollectorTypeOK' /\ ClientTypeOK'
  <2>1. rest \subseteq Kinds \X (0..MaxRuns)
    BY <1>1 DEF CollectorTypeOK
  <2>2. QED BY <1>1, <1>2, <1>3, <2>1 DEF CollectorTypeOK, ClientTypeOK, Launcher
<1>5. /\ at'[c] = "ended" /\ claim'[c] \in {claim[c], "none"}
      /\ disk'[c] = disk[c] \ (directories \ rest) /\ reported'[c] = reported[c] \cup rest
      /\ \A d \in Clients \ {c} : Same(d)
  BY <1>1, <1>2, <1>3 DEF CollectorTypeOK, Same
<1>6. Id(c)' = Id(c) /\ RunDirectory(c)' = RunDirectory(c) /\ trusted(c)' = trusted(c)
  BY <1>2 DEF Id, RunDirectory, trusted
<1>7. script[c] = "off" /\ call[c] = None
  BY <1>1 DEF ClientInv, Placed, Calling
<1>8. Placed(c)' /\ Fit(c)'
  BY <1>1, <1>2, <1>5, <1>6, <1>7 DEF ClientInv, Placed, Fit, Acquiring
<1>9. Withheld(c)' /\ Backed(c)'
  BY <1>1, <1>2, <1>5, <1>6 DEF ClientInv, Withheld, Backed, Over
<1>10. Removable(c)'
  BY <1>1, <1>5, <1>6, <1>7 DEF ClientInv, Removable, Placed
<1>11. QED BY <1>1, <1>2, <1>4, <1>5, <1>8, <1>9, <1>10, ClientStep DEF ClientInv, CollectorInv, SentClean

LEMMA PlainLauncher ==
  ASSUME CollectorInv, NEW c \in Clients, ~trusted(c), UNCHANGED clientVars,
         RunLauncher(c) \/ Choose(c) \/ PressEnter(c)
  PROVE  CollectorInv'
<1>1. CollectorTypeOK /\ ClientTypeOK /\ ClientInv(c)
  BY DEF CollectorInv
<1>2. UNCHANGED <<wants, call>> /\ ClientTypeOK'
  BY <1>1 DEF clientVars, ClientTypeOK
<1>3. CASE Extract(c)
  <2>1. CASE UNCHANGED disk /\ To(c, "notice")
    <3>1. at[c] = "start" /\ at' = [at EXCEPT ![c] = "notice"] /\ LauncherAlone
      BY <1>2, <1>3, <2>1 DEF Extract, To, LauncherAlone, diskVars
    <3>2. script[c] = "off" /\ call'[c] = None
      BY <1>1, <1>2, <3>1 DEF ClientInv, Placed, Calling
    <3>3. "notice" \in Launcher \ {"running", "ended"} /\ "notice" \in Over /\ "notice" \notin Acquiring
      BY DEF Launcher, Over, Acquiring
    <3>4. QED BY <1>2, <3>1, <3>2, <3>3, Moved
  <2>2. CASE Keep(c, <<"package", 0>>) /\ \E step \in {"launch", "notice"} : To(c, step)
    <3>1. /\ at[c] = "start" /\ disk' = [disk EXCEPT ![c] = @ \cup {PackageDir}]
          /\ \E step \in {"launch", "notice"} : at' = [at EXCEPT ![c] = step]
          /\ UNCHANGED <<script, runVars, reported, claim, labVars>>
      BY <1>3, <2>2 DEF Extract, Keep, To, PackageDir
    <3>2. PackageDir # DownloadDir
      BY DEF PackageDir, DownloadDir
    <3>3. QED BY <1>2, <3>1, <3>2, Kept
  <2>3. QED BY <1>3, <2>1, <2>2 DEF Extract
<1>4. CASE Launch(c)
  BY <1>2, <1>4, Started DEF Launch
<1>5. CASE Achieved(c)
  BY <1>2, <1>5, Claimed DEF Achieved, To
<1>6. CASE Cleanup(c)
  <2>1. PackageDir = <<"package", 0>>
    BY DEF PackageDir
  <2>2. QED BY <1>2, <1>6, <2>1, CleanedUp DEF Cleanup, To
<1>7. CASE Choose(c) /\ \E export \in BOOLEAN : StartScript(c, export)
  BY <1>2, <1>7, Started DEF Choose
<1>8. CASE Blocked(c) \/ Failed(c) \/ PressEnter(c) \/ (Choose(c) /\ ~\E export \in BOOLEAN : StartScript(c, export))
  <2>1. /\ LauncherAlone
        /\ \/ at[c] = "running" /\ script[c] = "off" /\ at' = [at EXCEPT ![c] = "notice"]
           \/ /\ at[c] = "running" /\ script[c] = "off" /\ fault[c] = "error"
              /\ \E step \in {"launch", "ask"} : at' = [at EXCEPT ![c] = step]
           \/ at[c] = "ask" /\ \E step \in {"launch", "cleanup"} : at' = [at EXCEPT ![c] = step]
           \/ at[c] = "notice" /\ at' = [at EXCEPT ![c] = "cleanup"]
    BY <1>2, <1>8 DEF Blocked, Failed, PressEnter, Choose, Ended, To, LauncherAlone
  <2>2. PICK step \in {"launch", "ask", "notice", "cleanup"} : at' = [at EXCEPT ![c] = step]
    BY <2>1
  <2>3. step = at'[c]
    BY <1>1, <2>2 DEF CollectorTypeOK
  <2>4. step \in Launcher \ {"running", "ended"} /\ step \notin Acquiring
    BY <2>2 DEF Launcher, Acquiring
  <2>5. \/ step \in {"notice", "cleanup"}
        \/ at[c] = "ask" \/ (at[c] = "running" /\ fault[c] = "error")
    BY <1>1, <2>1, <2>3 DEF CollectorTypeOK
  <2>6. at[c] \in Over \/ (at[c] = "running" /\ fault[c] = "privacy") => step \in Over
    BY <2>5 DEF Over
  <2>7. script[c] = "off" /\ call'[c] = None /\ at[c] \notin {"ended", "killed"}
    BY <1>1, <1>2, <2>1 DEF ClientInv, Placed, Calling
  <2>8. QED BY <1>2, <2>1, <2>2, <2>4, <2>6, <2>7, Moved
<1>9. QED BY <1>3, <1>4, <1>5, <1>6, <1>7, <1>8 DEF RunLauncher

-----------------------------------------------------------------------------
(* Acquisition *)

LEMMA GaveUp ==
  ASSUME CollectorInv, NEW c \in Clients, GiveUp(c), at[c] \in Acquiring \cup {"start"}
  PROVE  CollectorInv'
<1>1. CollectorTypeOK /\ ClientTypeOK /\ ClientInv(c)
  BY DEF CollectorInv
<1>2. /\ at' = [at EXCEPT ![c] = "cleanup"] /\ call' = [call EXCEPT ![c] = None] /\ LauncherAlone
  BY DEF GiveUp, Moves, To, LauncherAlone
<1>3. ClientTypeOK' /\ call'[c] = None /\ \A d \in Clients \ {c} : call'[d] = call[d]
  BY <1>1, <1>2 DEF ClientTypeOK, LauncherAlone
<1>4. script[c] = "off"
  BY <1>1 DEF ClientInv, Placed, Acquiring
<1>5. "cleanup" \in Launcher \ {"running", "ended"} /\ "cleanup" \in Over /\ "cleanup" \notin Acquiring
      /\ at[c] \notin {"ended", "killed"}
  BY DEF Launcher, Over, Acquiring
<1>6. QED BY <1>2, <1>3, <1>4, <1>5, Moved

LEMMA Advanced ==
  ASSUME CollectorInv, NEW c \in Clients, NEW step \in Acquiring \cup {"launch", "cleanup"}, Moves(c, step),
         at[c] \in Acquiring \cup {"start"}, trusted(c), wants' = wants,
         \/ call' = [call EXCEPT ![c] = None]
         \/ call' = call /\ at[c] \notin Calling
  PROVE  CollectorInv'
<1>1. CollectorTypeOK /\ ClientTypeOK /\ ClientInv(c)
  BY DEF CollectorInv
<1>2. at' = [at EXCEPT ![c] = step] /\ LauncherAlone
  BY DEF Moves, To, LauncherAlone
<1>3. ClientTypeOK' /\ \A d \in Clients \ {c} : call'[d] = call[d]
  BY <1>1, <1>2 DEF ClientTypeOK, LauncherAlone
<1>4. call'[c] = None
  BY <1>1 DEF ClientTypeOK, ClientInv, Placed
<1>5. script[c] = "off"
  BY <1>1 DEF ClientInv, Placed, Acquiring
<1>6. step \in Launcher \ {"running", "ended"} /\ at[c] \notin Over \cup {"running"}
  BY DEF Launcher, Over, Acquiring
<1>7. QED BY <1>2, <1>3, <1>4, <1>5, <1>6, Moved DEF Over

LEMMA Acquisition ==
  ASSUME CollectorInv, NEW c \in Clients,
         \/ Begin(c) \/ Metadata(c) \/ Refused(c) \/ Lost(c) \/ TypeSecret(c) \/ Escape(c)
         \/ VerifyBundle(c) \/ ConsumeEnvelope(c)
  PROVE  CollectorInv'
<1>1. CollectorTypeOK /\ ClientTypeOK /\ ClientInv(c)
  BY DEF CollectorInv
<1>2. at[c] \in Acquiring \cup {"start"}
  BY DEF Begin, Metadata, Refused, Lost, TypeSecret, Escape, VerifyBundle, ConsumeEnvelope, Acquiring, Calling
<1>3. trusted(c)
  BY <1>1, <1>2 DEF Begin, Metadata, Refused, Lost, TypeSecret, Escape, VerifyBundle, ConsumeEnvelope, ClientInv, Placed,
     Calling
<1>4. CASE GiveUp(c)
  BY <1>2, <1>4, GaveUp
<1>5. CASE Lost(c)
  <2>1. \E step \in Acquiring \cup {"cleanup"} : Moves(c, step)
    BY <1>5 DEF Lost, Acquiring
  <2>2. wants' = wants /\ call' = [call EXCEPT ![c] = None]
    BY <1>5 DEF Lost
  <2>3. QED BY <1>2, <1>3, <2>1, <2>2, Advanced
<1>6. CASE ~GiveUp(c) /\ ~Lost(c)
  <2>1. \E step \in Acquiring \cup {"launch"} : Moves(c, step)
    BY <1>6 DEF Begin, Metadata, Refused, TypeSecret, Escape, VerifyBundle, ConsumeEnvelope, Acquiring
  <2>2. wants' = wants /\ call' = call /\ at[c] \notin Calling
    BY <1>6 DEF Begin, Metadata, Refused, TypeSecret, Escape, VerifyBundle, ConsumeEnvelope, Calling, clientVars
  <2>3. QED BY <1>2, <1>3, <2>1, <2>2, Advanced
<1>7. QED BY <1>4, <1>5, <1>6

LEMMA Unmoved ==
  ASSUME CollectorInv, UNCHANGED <<collectorVars, wants, call>>
  PROVE  CollectorInv'
<1>1. UNCHANGED <<at, script, runs, offline, evidence, fault, disk, reported, claim, sent, withheld, indexed, exported>>
  BY DEF collectorVars, runVars, diskVars, labVars
<1>2. CollectorTypeOK' /\ ClientTypeOK' /\ SentClean'
  BY <1>1 DEF CollectorInv, CollectorTypeOK, ClientTypeOK, SentClean
<1>3. \A d \in Clients : ClientInv(d)'
  BY <1>1, SameKept DEF CollectorInv, Same
<1>4. QED BY <1>2, <1>3 DEF CollectorInv

LEMMA Asked ==
  ASSUME CollectorInv, NEW c \in Clients, NEW r \in Requests, Ask(c, r)
  PROVE  CollectorInv'
<1>1. CollectorTypeOK /\ ClientTypeOK /\ ClientInv(c)
  BY DEF CollectorInv
<1>2. at[c] \in Calling /\ call' = [call EXCEPT ![c] = r] /\ UNCHANGED <<collectorVars, wants>>
  BY DEF Ask
<1>3. UNCHANGED <<at, script, runs, offline, evidence, fault, disk, reported, claim, sent, withheld, indexed, exported>>
  BY <1>2 DEF collectorVars, runVars, diskVars, labVars
<1>4. CollectorTypeOK' /\ ClientTypeOK'
  BY <1>1, <1>2, <1>3 DEF CollectorTypeOK, ClientTypeOK
<1>5. \A d \in Clients \ {c} : Same(d)
  BY <1>1, <1>2, <1>3 DEF ClientTypeOK, Same
<1>6. Id(c)' = Id(c) /\ RunDirectory(c)' = RunDirectory(c) /\ trusted(c)' = trusted(c)
  BY <1>2, <1>3 DEF Id, RunDirectory, trusted
<1>7. ClientInv(c)'
  BY <1>1, <1>2, <1>3, <1>6 DEF ClientInv, Placed, Fit, Withheld, Backed, Removable
<1>8. QED BY <1>1, <1>3, <1>4, <1>5, <1>7, ClientStep DEF CollectorInv, SentClean

LEMMA TrustedLauncher ==
  ASSUME CollectorInv, NEW c \in Clients,
         \/ StageDownload(c) \/ ExtractTrusted(c) \/ RunTrusted(c) \/ RunTrustedEnds(c) \/ CleanupTrusted(c)
  PROVE  CollectorInv'
<1>1. CollectorTypeOK /\ ClientTypeOK /\ ClientInv(c)
  BY DEF CollectorInv
<1>2. UNCHANGED <<wants, call>> /\ ClientTypeOK'
  BY <1>1 DEF StageDownload, ExtractTrusted, RunTrusted, RunTrustedEnds, CleanupTrusted, clientVars, ClientTypeOK
<1>3. CASE StageDownload(c) \/ ExtractTrusted(c)
  <2>1. at[c] \in {"stage", "archive"}
    BY <1>3 DEF StageDownload, ExtractTrusted
  <2>2. trusted(c)
    BY <1>1, <2>1 DEF ClientInv, Placed, Acquiring
  <2>3. UNCHANGED <<script, runVars, reported, claim, labVars>>
    BY <1>3 DEF StageDownload, ExtractTrusted
  <2>4. \/ /\ \E directory \in {PackageDir, DownloadDir} : disk' = [disk EXCEPT ![c] = @ \cup {directory}]
           /\ \E step \in {"bundle", "mark", "cleanup"} : at' = [at EXCEPT ![c] = step]
        \/ UNCHANGED disk /\ at' = [at EXCEPT ![c] = "cleanup"]
    BY <1>3 DEF StageDownload, ExtractTrusted, Keep, To, PackageDir, DownloadDir
  <2>5. CASE UNCHANGED disk /\ at' = [at EXCEPT ![c] = "cleanup"]
    <3>1. script[c] = "off" /\ call'[c] = None
      BY <1>1, <1>2, <2>1 DEF ClientInv, Placed, Calling
    <3>2. "cleanup" \in Launcher \ {"running", "ended"} /\ "cleanup" \in Over /\ "cleanup" \notin Acquiring
      BY DEF Launcher, Over, Acquiring
    <3>3. LauncherAlone
      BY <1>2, <2>3, <2>5 DEF LauncherAlone, diskVars
    <3>4. QED BY <1>2, <2>1, <2>5, <3>1, <3>2, <3>3, Moved
  <2>6. QED BY <1>2, <2>1, <2>2, <2>3, <2>4, <2>5, Kept
<1>4. CASE RunTrusted(c)
  BY <1>2, <1>4, Started DEF RunTrusted
<1>5. CASE RunTrustedEnds(c) /\ exit_zero(c)
  BY <1>2, <1>5, Claimed DEF RunTrustedEnds, To
<1>6. CASE RunTrustedEnds(c) /\ ~exit_zero(c)
  <2>1. at[c] = "running" /\ script[c] = "off" /\ at' = [at EXCEPT ![c] = "cleanup"] /\ LauncherAlone
    BY <1>2, <1>6 DEF RunTrustedEnds, To, LauncherAlone
  <2>2. call'[c] = None
    BY <1>1, <1>2, <2>1 DEF ClientInv, Placed, Calling
  <2>3. "cleanup" \in Launcher \ {"running", "ended"} /\ "cleanup" \in Over /\ "cleanup" \notin Acquiring
    BY DEF Launcher, Over, Acquiring
  <2>4. QED BY <1>2, <2>1, <2>2, <2>3, Moved
<1>7. CASE CleanupTrusted(c)
  <2>1. claim' = claim \/ claim' = [claim EXCEPT ![c] = "none"]
    BY <1>7 DEF CleanupTrusted
  <2>2. removed(c, {PackageDir, DownloadDir}) /\ at' = [at EXCEPT ![c] = "ended"] /\ at[c] = "cleanup"
        /\ UNCHANGED <<script, runVars, labVars>>
    BY <1>7 DEF CleanupTrusted, To, PackageDir, DownloadDir
  <2>3. QED BY <1>2, <2>1, <2>2, CleanedUp
<1>8. QED BY <1>3, <1>4, <1>5, <1>6, <1>7

LEMMA Killed ==
  ASSUME CollectorInv, NEW c \in Clients, Kill(c), call' = [call EXCEPT ![c] = None], UNCHANGED wants
  PROVE  CollectorInv'
<1>1. CollectorTypeOK /\ ClientTypeOK /\ ClientInv(c)
  BY DEF CollectorInv
<1>2. /\ at' = [at EXCEPT ![c] = "killed"] /\ script' = [script EXCEPT ![c] = "off"]
      /\ UNCHANGED <<runs, offline, evidence, fault, disk, reported, claim, sent, withheld, indexed, exported>>
  BY DEF Kill, To, Script, runVars, diskVars, labVars
<1>3. CollectorTypeOK' /\ ClientTypeOK'
  BY <1>1, <1>2 DEF CollectorTypeOK, ClientTypeOK, Launcher
<1>4. at'[c] = "killed" /\ script'[c] = "off" /\ call'[c] = None /\ \A d \in Clients \ {c} : Same(d)
  BY <1>1, <1>2 DEF CollectorTypeOK, ClientTypeOK, Same
<1>5. Id(c)' = Id(c) /\ RunDirectory(c)' = RunDirectory(c) /\ trusted(c)' = trusted(c)
  BY <1>2 DEF Id, RunDirectory, trusted
<1>6. Placed(c)' /\ Fit(c)'
  BY <1>1, <1>2, <1>4, <1>5 DEF ClientInv, Placed, Fit, Acquiring
<1>7. Withheld(c)' /\ Backed(c)' /\ Removable(c)'
  BY <1>1, <1>2, <1>4, <1>5 DEF ClientInv, Withheld, Backed, Removable, Over
<1>8. QED BY <1>1, <1>2, <1>3, <1>4, <1>6, <1>7, ClientStep DEF ClientInv, CollectorInv, SentClean

LEMMA Imported ==
  ASSUME CollectorInv, NEW c \in Clients, Import(c)
  PROVE  CollectorInv'
<1>1. CollectorTypeOK /\ ClientTypeOK
  BY DEF CollectorInv
<1>2. /\ UNCHANGED <<at, script, runs, offline, evidence, fault, disk, reported, claim, sent, withheld, exported, wants, call>>
      /\ \E id \in exported : indexed' = indexed \cup {id}
  BY DEF Import, runVars, diskVars, clientVars
<1>3. CollectorTypeOK' /\ ClientTypeOK' /\ SentClean'
  BY <1>1, <1>2 DEF CollectorInv, CollectorTypeOK, ClientTypeOK, SentClean
<1>4. \A d \in Clients : ClientInv(d)'
  BY <1>2, SameKept DEF CollectorInv, Same
<1>5. QED BY <1>3, <1>4 DEF CollectorInv

\* A handler serves a client or, when nobody waits for it, nobody.
LEMMA Handled ==
  ASSUME CollectorInv, NEW r \in Requests, Handle(r)
  PROVE  CollectorInv'
<1>1. CollectorTypeOK /\ ClientTypeOK
  BY DEF CollectorInv
<1>2. CASE UNCHANGED <<collectorVars, clientVars>>
  BY <1>2, Unmoved DEF clientVars
<1>3. ASSUME NEW c \in Clients, call[c] = r PROVE at[c] \in Calling /\ at[c] \in Acquiring /\ trusted(c)
  BY <1>3, TrustedCollectorAssumption DEF CollectorInv, ClientInv, Placed, Calling, Acquiring
<1>4. CASE \E c \in Waiting(r) : GiveUp(c)
  BY <1>3, <1>4, GaveUp DEF Waiting
<1>5. CASE \E c \in Waiting(r) : /\ \E secret \in New(at[c]) : Gets(c, secret)
                                 /\ call' = [call EXCEPT ![c] = None] /\ UNCHANGED wants
  <2>1. PICK c \in Waiting(r) : /\ \E secret \in New(at[c]) : Gets(c, secret)
                                /\ call' = [call EXCEPT ![c] = None] /\ UNCHANGED wants
    BY <1>5
  <2>2. \E step \in {"prompt", "mint", "package", "stage"} : Moves(c, step)
    BY <2>1 DEF Gets
  <2>3. {"prompt", "mint", "package", "stage"} \subseteq Acquiring
    BY DEF Acquiring
  <2>4. c \in Clients /\ at[c] \in Acquiring /\ trusted(c)
    BY <1>3, <2>1 DEF Waiting
  <2>5. QED BY <2>1, <2>2, <2>3, <2>4, Advanced
<1>6. QED BY <1>2, <1>4, <1>5 DEF Handle, Answered, AnsweredRefused

-----------------------------------------------------------------------------

LEMMA CollectorInvNext ==
  ASSUME CollectorInv, [CombinedNext]_allVars
  PROVE  CollectorInv'
<1>1. CASE UNCHANGED <<collectorVars, clientVars>>
  BY <1>1, Unmoved DEF clientVars
<1>2. ASSUME NEW c \in Clients, Steps(c) PROVE CollectorInv'
  <2>1. CASE RunScript(c) /\ UNCHANGED clientVars
    BY <2>1, ScriptSteps
  <2>2. CASE NonceExchange(c) \/ OwnNonce(c)
    BY <2>2, ScriptSteps DEF NonceExchange, OwnNonce
  <2>3. CASE ~trusted(c) /\ RunLauncher(c) /\ UNCHANGED clientVars
    BY <2>3, PlainLauncher
  <2>4. CASE \/ Begin(c) \/ Metadata(c) \/ Refused(c) \/ Lost(c) \/ VerifyBundle(c) \/ ConsumeEnvelope(c)
    BY <2>4, Acquisition
  <2>5. CASE \E r \in Requests : Ask(c, r)
    BY <2>5, Asked
  <2>6. CASE \/ StageDownload(c) \/ ExtractTrusted(c) \/ RunTrusted(c) \/ RunTrustedEnds(c) \/ CleanupTrusted(c)
    BY <2>6, TrustedLauncher
  <2>7. QED BY <1>2, <2>1, <2>2, <2>3, <2>4, <2>5, <2>6 DEF Steps
<1>3. ASSUME NEW c \in Clients, Users(c) PROVE CollectorInv'
  BY <1>3, PlainLauncher, Acquisition, Killed DEF Users
<1>4. ASSUME NEW c \in Clients, Import(c) PROVE CollectorInv'
  BY <1>4, Imported
<1>5. ASSUME NEW r \in Requests, Handle(r) PROVE CollectorInv'
  BY <1>5, Handled
<1>6. CASE UNCHANGED allVars
  BY <1>1, <1>6 DEF allVars
<1>7. QED BY <1>1, <1>2, <1>3, <1>4, <1>5, <1>6 DEF CombinedNext

LEMMA CollectorInvAlways == CombinedSpec => []CollectorInv
<1>1. CollectorInv /\ [CombinedNext]_allVars => CollectorInv'
  BY CollectorInvNext
<1>2. QED BY <1>1, CollectorInvInit, PTL DEF CombinedSpec

\* Launchers and scripts of any number of collections keep their types.
THEOREM CollectorTypeCorrect == CombinedSpec => []CollectorTypeOK
<1>1. CollectorInv => CollectorTypeOK
  BY DEF CollectorInv
<1>2. QED BY <1>1, CollectorInvAlways, PTL

\* What a launcher says at the end is true and what stays on disk is reported,
\* whatever was lost, refused or repeated.
THEOREM EndingIsHonestAlways == CombinedSpec => []EndingIsHonest
<1>1. CollectorInv => EndingIsHonest
  BY DEF CollectorInv, ClientInv, Backed, Removable, EndingIsHonest
<1>2. QED BY <1>1, CollectorInvAlways, PTL

\* Evidence that failed its privacy transformation or the check for sensitive
\* data leaves no endpoint, and no run follows evidence that was withheld.
THEOREM WithheldStaysHomeAlways == CombinedSpec => []WithheldStaysHome
<1>1. ASSUME CollectorInv PROVE WithheldStaysHome
  <2>1. \A id \in Ids : \A class \in Classes : <<id, class>> \in sent => class = "clean"
    BY <1>1 DEF CollectorInv, SentClean
  <2>2. ASSUME NEW c \in Clients, NEW n \in 1..runs[c], <<c, n>> \in withheld PROVE n = runs[c]
    <3>1. n \in 1..MaxRuns
      BY <1>1, <2>2, CollectorAssumption DEF CollectorInv, CollectorTypeOK
    <3>2. QED BY <1>1, <2>2, <3>1 DEF CollectorInv, ClientInv, Withheld
  <2>3. QED BY <2>1, <2>2 DEF WithheldStaysHome
<1>2. QED BY <1>1, CollectorInvAlways, PTL

-----------------------------------------------------------------------------
(* One envelope, one run *)

Before == {"start", "launch"} \cup Acquiring

\* A collection that has marked its envelope as used.
owner(c) == trusted(c) /\ (at[c] = "launch" \/ runs[c] # 0)

\* The marker is created before the run, by one collection, and the Lab sees the
\* envelope used after it.
Owned ==
  /\ \A c \in Clients : trusted(c) => runs[c] <= 1 /\ (at[c] \in Before => runs[c] = 0)
  /\ \A c \in Clients : owner(c) => wants[c] \in markers
  /\ \A c, d \in Clients : owner(c) /\ owner(d) /\ wants[c] = wants[d] => c = d
  /\ \A c \in Clients, n \in 1..MaxRuns : <<c, n>> \in indexed => n <= runs[c]

Row == [state : {"READY"}, used : BOOLEAN, network : BOOLEAN, authUsed : BOOLEAN, expiresAt : {Lifetime}]

Used ==
  /\ grants \in [Envelopes -> Row]
  /\ \A e \in Envelopes : grants[e].used => e \in markers

EnvelopeInv == Owned /\ Used

LEMMA EnvelopeInvInit == CombinedInit => EnvelopeInv
BY CollectorAssumption DEF CombinedInit, CollectorInit, EnvelopeInv, Owned, Used, Row, owner, Before, Acquiring

\* No collection comes to its run, and what is indexed has run.
LEMMA OwnedKept ==
  ASSUME Owned, CollectorInv, UNCHANGED <<runs, wants, markers>>,
         \A c \in Clients : \/ at'[c] = at[c]
                            \/ ~trusted(c)
                            \/ at'[c] \notin Before
                            \/ at'[c] # "launch" /\ at[c] \in Before,
         \A c \in Clients, n \in 1..MaxRuns : <<c, n>> \in indexed' \ indexed => n <= runs[c]
  PROVE  Owned'
<1>1. \A c \in Clients : trusted(c)' = trusted(c) /\ (owner(c)' => owner(c))
  BY DEF trusted, owner, Before
<1>2. \A c \in Clients : trusted(c) /\ at'[c] \in Before => at[c] \in Before
  OBVIOUS
<1>3. QED BY <1>1, <1>2 DEF Owned

\* The rows of the ledger are used where a marker is, and otherwise only
\* authorized.
LEMMA UsedKept ==
  ASSUME Used, markers \subseteq markers',
         \/ grants' = grants
         \/ \E e \in markers : Consume(e)
         \/ \E r \in Requests : Authorize(r)
  PROVE  Used'
<1>1. CASE grants' = grants
  BY <1>1 DEF Used
<1>2. CASE \E e \in markers : Consume(e)
  <2>1. PICK e \in markers : grants' = [grants EXCEPT ![e].used = TRUE]
    BY <1>2 DEF Consume
  <2>2. \A f \in Envelopes : grants'[f] = IF f = e THEN [grants[f] EXCEPT !.used = TRUE] ELSE grants[f]
    BY <2>1 DEF Used
  <2>3. grants' \in [Envelopes -> Row]
    <3>1. \A row \in Row : [row EXCEPT !.used = TRUE] \in Row
      BY DEF Row
    <3>2. e \in Envelopes => grants[e] \in Row /\ [grants[e] EXCEPT !.used = TRUE] \in Row
      BY <3>1 DEF Used
    <3> QED BY <2>1, <3>2 DEF Used
  <2>4. QED BY <2>1, <2>2, <2>3 DEF Used
<1>3. CASE \E r \in Requests : Authorize(r)
  <2>1. PICK e : grants' = [grants EXCEPT ![e].authUsed = TRUE]
    BY <1>3 DEF Authorize
  <2>2. \A f \in Envelopes : grants'[f] = IF f = e THEN [grants[f] EXCEPT !.authUsed = TRUE] ELSE grants[f]
    BY <2>1 DEF Used
  <2>3. grants' \in [Envelopes -> Row]
    <3>1. ASSUME NEW row \in Row PROVE [row EXCEPT !.authUsed = TRUE] \in Row
      BY DEF Row
    <3>2. \A f \in Envelopes : grants'[f] \in Row
      BY <2>2, <3>1 DEF Used
    <3>3. QED BY <2>1, <3>2 DEF Used
  <2>4. \A f \in Envelopes : grants'[f].used = grants[f].used
    BY <2>2 DEF Used, Row
  <2>5. QED BY <2>3, <2>4 DEF Used
<1>4. QED BY <1>1, <1>2, <1>3

\* The script of c runs; its submission may be indexed.
LEMMA ScriptOwned ==
  ASSUME EnvelopeInv, CollectorInv, NEW c \in Clients, UNCHANGED clientVars,
         RunScript(c) \/ NonceIssued(c) \/ NonceFails(c)
  PROVE  Owned'
<1>1. UNCHANGED <<at, runs, wants, markers>> /\ indexed' \subseteq indexed \cup {Id(c)}
  BY DEF RunScript, NonceIssued, NonceFails, VerifyPackage, MakeDirectory, Collect, Build, Send, Export, Finally,
     runVars, labVars, clientVars
<1>2. \A d \in Clients, n \in 1..MaxRuns : <<d, n>> \in indexed' \ indexed => n <= runs[d]
  BY <1>1 DEF Id, CollectorInv, CollectorTypeOK
<1>3. QED BY <1>1, <1>2, OwnedKept DEF EnvelopeInv

\* A plain collection is no owner.
LEMMA PlainOwned ==
  ASSUME EnvelopeInv, CollectorInv, NEW c \in Clients, ~trusted(c), UNCHANGED clientVars,
         RunLauncher(c) \/ Choose(c) \/ PressEnter(c)
  PROVE  Owned'
<1>1. \A d \in Clients \ {c} : at'[d] = at[d] /\ runs'[d] = runs[d]
  BY DEF RunLauncher, Extract, Launch, Achieved, Blocked, Failed, Cleanup, Choose, PressEnter, StartScript, To,
     runVars, CollectorInv, CollectorTypeOK
<1>2. runs[c] \in Nat /\ runs'[c] \in {runs[c], runs[c] + 1} /\ UNCHANGED <<indexed, wants, markers>>
  BY CollectorAssumption DEF RunLauncher, Extract, Launch, Achieved, Blocked, Failed, Cleanup, Choose, PressEnter,
     StartScript, runVars, labVars, clientVars, CollectorInv, CollectorTypeOK
<1>3. \A d \in Clients : trusted(d)' = trusted(d) /\ (owner(d)' <=> owner(d))
  BY <1>1, <1>2 DEF trusted, owner
<1>4. \A d \in Clients, n \in 1..MaxRuns : <<d, n>> \in indexed => n <= runs'[d]
  BY <1>1, <1>2 DEF EnvelopeInv, Owned
<1>5. QED BY <1>1, <1>2, <1>3, <1>4 DEF EnvelopeInv, Owned

\* A collection creates the marker of its envelope, which nobody has created.
LEMMA MarkerOwned ==
  ASSUME EnvelopeInv, CollectorInv, NEW c \in Clients, ConsumeEnvelope(c)
  PROVE  Owned'
<1>1. at[c] = "mark" /\ trusted(c) /\ UNCHANGED <<runs, indexed, wants>>
      /\ \A d \in Clients \ {c} : at'[d] = at[d]
  BY DEF ConsumeEnvelope, GiveUp, Moves, To, runVars, labVars, CollectorInv, ClientInv, Placed, Acquiring, CollectorTypeOK
<1>2. CASE GiveUp(c)
  <2>1. at'[c] = "cleanup" /\ UNCHANGED markers
    BY <1>2 DEF GiveUp, Moves, To, CollectorInv, CollectorTypeOK
  <2>2. QED BY <1>1, <2>1, OwnedKept DEF EnvelopeInv, Before, Acquiring
<1>3. CASE ~GiveUp(c)
  <2>1. at'[c] = "launch" /\ wants[c] \notin markers /\ markers' = markers \cup {wants[c]}
    BY <1>3 DEF ConsumeEnvelope, unmarked, Moves, To, CollectorInv, CollectorTypeOK
  <2>2. \A d \in Clients \ {c} : owner(d)' = owner(d) /\ trusted(d)' = trusted(d)
    BY <1>1 DEF owner, trusted
  <2>3. \A d \in Clients : owner(d) => wants[d] # wants[c]
    BY <2>1 DEF EnvelopeInv, Owned
  <2>4. runs[c] = 0
    BY <1>1 DEF EnvelopeInv, Owned, Before, Acquiring
  <2>5. QED BY <1>1, <2>1, <2>2, <2>3, <2>4 DEF EnvelopeInv, Owned
<1>4. QED BY <1>2, <1>3

\* The one run of an owner.
LEMMA RunOwned ==
  ASSUME EnvelopeInv, CollectorInv, NEW c \in Clients, RunTrusted(c)
  PROVE  Owned'
<1>1. /\ trusted(c) /\ at[c] = "launch" /\ UNCHANGED <<indexed, wants, markers>>
      /\ \A d \in Clients \ {c} : at'[d] = at[d] /\ runs'[d] = runs[d]
      /\ at'[c] = "running" /\ runs'[c] = runs[c] + 1
  BY DEF RunTrusted, StartScript, To, labVars, clientVars, CollectorInv, CollectorTypeOK
<1>2. runs[c] = 0
  BY <1>1 DEF EnvelopeInv, Owned, Before
<1>3. \A d \in Clients : owner(d)' = owner(d) /\ trusted(d)' = trusted(d)
  BY <1>1, <1>2 DEF owner, trusted
<1>4. QED BY <1>1, <1>2, <1>3 DEF EnvelopeInv, Owned, Before, Acquiring

\* The other steps of a launcher: it gives up, goes on, or ends.
LEMMA OtherOwned ==
  ASSUME EnvelopeInv, CollectorInv, NEW c \in Clients,
         UNCHANGED <<runs, indexed, wants, markers>>,
         \E step \in Launcher \ {"launch"} : /\ at' = [at EXCEPT ![c] = step]
                                             /\ step \in Before => at[c] \in Before
  PROVE  Owned'
<1>1. \A d \in Clients : at'[d] = at[d] \/ (at'[d] # "launch" /\ (at'[d] \in Before => at[d] \in Before))
  BY DEF CollectorInv, CollectorTypeOK
<1>2. QED BY <1>1, OwnedKept DEF EnvelopeInv

LEMMA AcquisitionOwned ==
  ASSUME EnvelopeInv, CollectorInv, NEW c \in Clients,
         \/ Begin(c) \/ Metadata(c) \/ Refused(c) \/ Lost(c) \/ TypeSecret(c) \/ Escape(c)
         \/ VerifyBundle(c) \/ StageDownload(c) \/ ExtractTrusted(c) \/ RunTrustedEnds(c) \/ CleanupTrusted(c)
  PROVE  Owned'
<1>1. UNCHANGED <<runs, indexed, wants, markers>>
  BY DEF Begin, Metadata, Refused, Lost, TypeSecret, Escape, VerifyBundle, StageDownload, ExtractTrusted,
     RunTrustedEnds, CleanupTrusted, GiveUp, Moves, runVars, labVars, clientVars
<1>2. CASE RunTrustedEnds(c) \/ CleanupTrusted(c)
  <2>1. \E step \in {"cleanup", "ended"} : at' = [at EXCEPT ![c] = step]
    BY <1>2 DEF RunTrustedEnds, CleanupTrusted, To
  <2>2. \A step \in {"cleanup", "ended"} : step \in Launcher \ {"launch"} /\ step \notin Before
    BY DEF Launcher, Before, Acquiring
  <2>3. QED BY <1>1, <2>1, <2>2, OtherOwned
<1>3. CASE ~RunTrustedEnds(c) /\ ~CleanupTrusted(c)
  <2>1. at[c] \in Before /\ \E step \in Acquiring \cup {"cleanup"} : at' = [at EXCEPT ![c] = step]
    BY <1>3 DEF Begin, Metadata, Refused, Lost, TypeSecret, Escape, VerifyBundle, StageDownload, ExtractTrusted, GiveUp,
       Moves, To, Before, Acquiring, Calling
  <2>2. \A step \in Acquiring \cup {"cleanup"} : step \in Launcher \ {"launch"}
    BY DEF Launcher, Acquiring
  <2>3. QED BY <1>1, <2>1, <2>2, OtherOwned
<1>4. QED BY <1>2, <1>3

LEMMA HandledOwned ==
  ASSUME EnvelopeInv, CollectorInv, NEW r \in Requests, Handle(r)
  PROVE  EnvelopeInv'
<1>1. markers' = markers
  BY DEF Handle, Answered, AnsweredRefused, GiveUp, clientVars
<1>2. grants' = grants \/ Authorize(r)
  BY DEF Handle, Answered, AnsweredRefused, Prove, ReadForChallenge, InsertChallenge, MintDownload, ConsumeDownload, Refuse
<1>3. Used'
  BY <1>1, <1>2, UsedKept DEF EnvelopeInv
<1>4. CASE UNCHANGED <<collectorVars, clientVars>>
  <2>1. UNCHANGED <<at, runs, wants, markers, indexed>>
    BY <1>4 DEF collectorVars, clientVars, runVars, labVars
  <2>2. QED BY <1>3, <2>1, OwnedKept DEF EnvelopeInv
<1>5. ASSUME NEW c \in Waiting(r), GiveUp(c) \/ ((\E secret \in New(at[c]) : Gets(c, secret)) /\ UNCHANGED wants)
      PROVE  EnvelopeInv'
  <2>1. UNCHANGED <<runs, indexed, wants>> /\ \E step \in Acquiring \cup {"cleanup"} : at' = [at EXCEPT ![c] = step]
    <3>1. CASE GiveUp(c)
      BY <3>1 DEF GiveUp, Moves, To, runVars, labVars
    <3>2. CASE (\E secret \in New(at[c]) : Gets(c, secret)) /\ UNCHANGED wants
      BY <3>2 DEF Gets, Moves, To, runVars, labVars, Acquiring
    <3>3. QED BY <1>5, <3>1, <3>2
  <2>2. c \in Clients /\ at[c] \in Before
    BY TrustedCollectorAssumption DEF Waiting, CollectorInv, ClientInv, Placed, Calling, Before, Acquiring
  <2>3. PICK step \in Acquiring \cup {"cleanup"} : at' = [at EXCEPT ![c] = step]
    BY <2>1
  <2>4. step \in Launcher \ {"launch"}
    BY DEF Launcher, Acquiring
  <2>5. QED BY <1>1, <1>3, <2>1, <2>2, <2>3, <2>4, OtherOwned DEF EnvelopeInv
<1>6. CASE Answered(r) /\ ~UNCHANGED <<collectorVars, clientVars>>
  <2>1. PICK c \in Waiting(r) : (\E secret \in New(at[c]) : Gets(c, secret)) /\ UNCHANGED wants
    BY <1>6 DEF Answered
  <2>2. QED BY <1>5, <2>1
<1>7. CASE AnsweredRefused(r) /\ ~UNCHANGED <<collectorVars, clientVars>>
  <2>1. PICK c \in Waiting(r) : GiveUp(c)
    BY <1>7 DEF AnsweredRefused
  <2>2. QED BY <1>5, <2>1
<1>8. UNCHANGED <<collectorVars, clientVars>> \/ Answered(r) \/ AnsweredRefused(r)
  BY DEF Handle
<1>9. QED BY <1>4, <1>6, <1>7, <1>8

\* A script that asks for its nonce, or has exported, belongs to an owner.
LEMMA NonceOwned ==
  ASSUME EnvelopeInv, CollectorInv, NEW c \in Clients, trusted(c), script[c] = "nonce" \/ runs[c] # 0
  PROVE  wants[c] \in markers
<1>1. runs[c] # 0
  BY DEF CollectorInv, ClientInv, Placed
<1>2. QED BY <1>1 DEF EnvelopeInv, Owned, owner

LEMMA StepOwned ==
  ASSUME EnvelopeInv, CollectorInv, NEW c \in Clients, Steps(c)
  PROVE  EnvelopeInv'
<1>1. CASE (RunScript(c) \/ OwnNonce(c)) /\ UNCHANGED <<grantVars, clientVars>>
  <2>1. Owned'
    BY <1>1, ScriptOwned DEF OwnNonce
  <2>2. UNCHANGED <<markers, grants>>
    BY <1>1 DEF clientVars, grantVars, vars
  <2>3. QED BY <2>1, <2>2, UsedKept DEF EnvelopeInv
<1>2. CASE ~trusted(c) /\ RunLauncher(c) /\ UNCHANGED <<grantVars, clientVars>>
  <2>1. Owned'
    BY <1>2, PlainOwned
  <2>2. UNCHANGED <<markers, grants>>
    BY <1>2 DEF clientVars, grantVars, vars
  <2>3. QED BY <2>1, <2>2, UsedKept DEF EnvelopeInv
<1>3. CASE NonceExchange(c)
  <2>1. Owned'
    BY <1>3, ScriptOwned DEF NonceExchange
  <2>2. markers' = markers
    BY <1>3 DEF NonceExchange, clientVars
  <2>3. grants' = grants \/ \E e \in markers : Consume(e)
    <3>1. CASE trusted(c) /\ Consume(wants[c]) /\ (NonceIssued(c) \/ NonceFails(c))
      <4>1. wants[c] \in markers
        BY <3>1, NonceOwned DEF NonceIssued, NonceFails
      <4>2. QED BY <3>1, <4>1
    <3>2. CASE UNCHANGED grantVars
      BY <3>2 DEF grantVars, vars
    <3>3. QED BY <1>3, <3>1, <3>2 DEF NonceExchange
  <2>4. QED BY <2>1, <2>2, <2>3, UsedKept DEF EnvelopeInv
<1>4. CASE \/ Begin(c) \/ Metadata(c) \/ Refused(c) \/ Lost(c) \/ VerifyBundle(c) \/ StageDownload(c)
           \/ ExtractTrusted(c) \/ RunTrustedEnds(c) \/ CleanupTrusted(c)
  <2>1. Owned'
    BY <1>4, AcquisitionOwned
  <2>2. UNCHANGED <<markers, grants>>
    BY <1>4 DEF Begin, Metadata, Refused, Lost, VerifyBundle, StageDownload, ExtractTrusted, RunTrustedEnds,
       CleanupTrusted, GiveUp, clientVars, grantVars, vars
  <2>3. QED BY <2>1, <2>2, UsedKept DEF EnvelopeInv
<1>5. CASE \E r \in Requests : Ask(c, r)
  <2>1. UNCHANGED <<at, runs, indexed, wants, markers, grants>>
    BY <1>5 DEF Ask, View, collectorVars, runVars, labVars
  <2>2. QED BY <2>1, OwnedKept, UsedKept DEF EnvelopeInv
<1>6. CASE ConsumeEnvelope(c)
  <2>1. grants' = grants /\ markers \subseteq markers'
    BY <1>6 DEF ConsumeEnvelope, GiveUp, grantVars, vars
  <2>2. QED BY <1>6, <2>1, MarkerOwned, UsedKept DEF EnvelopeInv
<1>7. CASE RunTrusted(c)
  <2>1. UNCHANGED <<markers, grants>>
    BY <1>7 DEF RunTrusted, clientVars, grantVars, vars
  <2>2. QED BY <1>7, <2>1, RunOwned, UsedKept DEF EnvelopeInv
<1>8. QED BY <1>1, <1>2, <1>3, <1>4, <1>5, <1>6, <1>7 DEF Steps, OwnNonce

LEMMA UserOwned ==
  ASSUME EnvelopeInv, CollectorInv, NEW c \in Clients, Users(c)
  PROVE  EnvelopeInv'
<1>1. UNCHANGED <<markers, grants>>
  BY DEF Users, TypeSecret, Escape, GiveUp, clientVars, grantVars, vars
<1>2. Owned'
  <2>1. CASE ~trusted(c) /\ (Choose(c) \/ PressEnter(c)) /\ UNCHANGED clientVars
    BY <2>1, PlainOwned
  <2>2. CASE TypeSecret(c) \/ Escape(c)
    BY <2>2, AcquisitionOwned
  <2>3. CASE Kill(c) /\ UNCHANGED wants
    <3>1. UNCHANGED <<runs, indexed, wants, markers>> /\ at' = [at EXCEPT ![c] = "killed"]
      BY <1>1, <2>3 DEF Kill, To, runVars, labVars
    <3>2. "killed" \in Launcher \ {"launch"} /\ "killed" \notin Before
      BY DEF Launcher, Before, Acquiring
    <3>3. QED BY <3>1, <3>2, OtherOwned
  <2>4. QED BY <2>1, <2>2, <2>3 DEF Users
<1>3. QED BY <1>1, <1>2, UsedKept DEF EnvelopeInv

LEMMA ImportOwned ==
  ASSUME EnvelopeInv, CollectorInv, NEW c \in Clients, Import(c)
  PROVE  EnvelopeInv'
<1>1. PICK n \in 1..runs[c] : /\ indexed' = indexed \cup {<<c, n>>}
                              /\ IF trusted(c) THEN Consume(wants[c]) ELSE UNCHANGED grantVars
                              /\ UNCHANGED <<at, runs, wants, markers>>
  BY DEF Import, runVars, clientVars
<1>2. Owned'
  <2>1. \A d \in Clients, m \in 1..MaxRuns : <<d, m>> \in indexed' \ indexed => m <= runs[d]
    BY <1>1
  <2>2. QED BY <1>1, <2>1, OwnedKept DEF EnvelopeInv
<1>3. grants' = grants \/ \E e \in markers : Consume(e)
  <2>1. CASE trusted(c)
    <3>1. runs[c] # 0
      BY <1>1, CollectorAssumption DEF CollectorInv, CollectorTypeOK
    <3>2. QED BY <1>1, <2>1, <3>1, NonceOwned
  <2>2. CASE ~trusted(c)
    BY <1>1, <2>2 DEF grantVars, vars
  <2>3. QED BY <2>1, <2>2
<1>4. QED BY <1>1, <1>2, <1>3, UsedKept DEF EnvelopeInv

LEMMA EnvelopeInvNext ==
  ASSUME EnvelopeInv, CollectorInv, [CombinedNext]_allVars
  PROVE  EnvelopeInv'
<1>1. CASE (Tick \/ UNCHANGED grantVars) /\ UNCHANGED <<collectorVars, clientVars>>
  <2>1. UNCHANGED <<at, runs, indexed, wants, markers, grants>>
    BY <1>1 DEF Tick, collectorVars, clientVars, runVars, labVars, grantVars, vars
  <2>2. QED BY <2>1, OwnedKept, UsedKept DEF EnvelopeInv
<1>2. CASE UNCHANGED allVars
  BY <1>1, <1>2 DEF allVars
<1>3. QED BY <1>1, <1>2, StepOwned, UserOwned, ImportOwned, HandledOwned DEF CombinedNext

LEMMA EnvelopeInvAlways == CombinedSpec => [](CollectorInv /\ EnvelopeInv)
<1>1. CombinedInit => CollectorInv /\ EnvelopeInv
  BY CollectorInvInit, EnvelopeInvInit
<1>2. CollectorInv /\ EnvelopeInv /\ [CombinedNext]_allVars => (CollectorInv /\ EnvelopeInv)'
  BY CollectorInvNext, EnvelopeInvNext
<1>3. QED BY <1>1, <1>2, PTL DEF CombinedSpec

\* At most one element, at most one counted.
LEMMA AtMostOne ==
  ASSUME NEW S, \A a, b \in S : a = b
  PROVE  Cardinality(S) <= 1
<1>1. CASE S = {}
  BY <1>1, FS_EmptySet
<1>2. CASE S # {}
  <2>1. PICK a : a \in S
    BY <1>2
  <2>2. S = {a}
    BY <2>1
  <2>3. QED BY <2>2, FS_Singleton
<1>3. QED BY <1>1, <1>2

\* An envelope starts at most one run and yields at most one submission, and the
\* Lab sees it used only after its endpoint has marked it, whatever collections
\* race with it.
THEOREM EnvelopeYieldsOneAlways == CombinedSpec => []EnvelopeYieldsOne
<1>1. ASSUME CollectorInv, EnvelopeInv PROVE EnvelopeYieldsOne
  <2> SUFFICES ASSUME NEW e \in Envelopes
               PROVE  LET mine == {c \in Clients : wants[c] = e} IN
                        /\ Cardinality({id \in Ids : id[1] \in mine /\ id[2] <= runs[id[1]]}) <= 1
                        /\ Cardinality({id \in indexed : id[1] \in mine}) <= 1
                        /\ grants[e].used => e \in markers
    BY DEF EnvelopeYieldsOne
  <2> DEFINE mine == {c \in Clients : wants[c] = e}
             started == {id \in Ids : id[1] \in mine /\ id[2] <= runs[id[1]]}
  <2>1. ASSUME NEW a \in started, NEW b \in started PROVE a = b
    <3>1. /\ a \in Clients \X (1..MaxRuns) /\ wants[a[1]] = e /\ a[2] <= runs[a[1]]
          /\ b \in Clients \X (1..MaxRuns) /\ wants[b[1]] = e /\ b[2] <= runs[b[1]]
      BY DEF Ids
    <3>2. e # None
      BY GrantAssumption
    <3>3. /\ runs[a[1]] \in Nat /\ runs[a[1]] <= 1 /\ runs[a[1]] # 0
          /\ runs[b[1]] \in Nat /\ runs[b[1]] <= 1 /\ runs[b[1]] # 0
      BY <1>1, <3>1, <3>2, CollectorAssumption DEF EnvelopeInv, Owned, trusted, CollectorInv, CollectorTypeOK
    <3>4. a[1] = b[1]
      BY <1>1, <3>1, <3>2, <3>3 DEF EnvelopeInv, Owned, owner, trusted
    <3>5. a[2] = 1 /\ b[2] = 1
      BY <3>1, <3>3, CollectorAssumption
    <3>6. QED BY <3>1, <3>4, <3>5
  <2>2. {id \in indexed : id[1] \in mine} \subseteq started
    <3>1. ASSUME NEW id \in indexed PROVE id \in Ids /\ id[2] <= runs[id[1]]
      <4>1. id \in Clients \X (1..MaxRuns) /\ id = <<id[1], id[2]>>
        BY <1>1 DEF CollectorInv, CollectorTypeOK, Ids
      <4>2. QED BY <1>1, <4>1 DEF EnvelopeInv, Owned, Ids
    <3>2. QED BY <3>1
  <2>3. Cardinality(started) <= 1
    BY <2>1, AtMostOne
  <2>4. Cardinality({id \in indexed : id[1] \in mine}) <= 1
    BY <2>1, <2>2, AtMostOne
  <2>5. grants[e].used => e \in markers
    BY <1>1 DEF EnvelopeInv, Used
  <2>6. QED BY <2>3, <2>4, <2>5
<1>2. QED BY <1>1, EnvelopeInvAlways, PTL

-----------------------------------------------------------------------------
(* The download budget *)

Holding(c) == at[c] \in {"mint", "package"}

BudgetTypes ==
  /\ now \in 0..MaxTime
  /\ tickets \in [Tickets -> Ticket \cup {None}]
  /\ pc \in [Requests -> {"idle", "proof", "act", "insert"}]
  /\ \E S : req \in [Requests -> S]
  /\ \A r \in Requests : pc[r] # "idle" => req[r].envelope \in Envelopes
  /\ attempt \in [Clients -> Nat]
  /\ \E S : held \in [Clients -> [challenge : S, ticket : S, download : S]]

\* A client waits for a handler of what it has asked for, and nobody else does.
Called ==
  /\ \A c \in Clients : call[c] # None => pc[call[c]] # "idle" /\ req[call[c]].kind = at[c]
  /\ \A c, d \in Clients : call[c] # None /\ call[c] = call[d] => c = d

\* Whoever holds the ticket that a handler is about to charge waits for it.
Minters ==
  \A r \in Requests : pc[r] # "idle" /\ req[r].kind = "mint" =>
    /\ req[r].token \in Tickets /\ tickets[req[r].token] # None
    /\ \A c \in Clients : Holding(c) /\ held[c].ticket = req[r].token => call[c] = r

\* What a ticket has left and what its client has tried make up the budget.
Covers(c) ==
  LET t == held[c].ticket IN
    /\ t \in Tickets /\ tickets[t] # None
    /\ attempt[c] < Attempts
    /\ tickets[t].remaining + attempt[c] + (IF at[c] = "package" THEN 1 ELSE 0) >= Attempts

Holders ==
  /\ \A c \in Clients : Holding(c) => Covers(c)
  /\ \A c, d \in Clients : Holding(c) /\ Holding(d) /\ held[c].ticket = held[d].ticket => c = d

BudgetInv == BudgetTypes /\ Called /\ Minters /\ Holders

\* The client is as it was, or it holds nothing and waits for nobody.
SameClient(d) ==
  at'[d] = at[d] /\ call'[d] = call[d] /\ attempt'[d] = attempt[d] /\ held'[d] = held[d]
FreeClient(d) == ~Holding(d)' /\ call'[d] = None

LEMMA BudgetInvInit == CombinedInit => BudgetInv
<1> SUFFICES ASSUME CombinedInit PROVE BudgetInv
  OBVIOUS
<1>1. req \in [Requests -> {None}] /\ held \in [Clients -> [challenge : {None}, ticket : {None}, download : {None}]]
  BY DEF CombinedInit, Nothing
<1>2. BudgetTypes
  <2>1. /\ now \in 0..MaxTime /\ tickets \in [Tickets -> Ticket \cup {None}]
        /\ pc \in [Requests -> {"idle", "proof", "act", "insert"}] /\ \A r \in Requests : pc[r] = "idle"
        /\ attempt \in [Clients -> Nat]
    BY GrantAssumption DEF CombinedInit
  <2> QED BY <1>1, <2>1 DEF BudgetTypes
<1>3. \A c \in Clients : call[c] = None /\ at[c] = "start"
  BY DEF CombinedInit, CollectorInit
<1>4. \A r \in Requests : pc[r] = "idle"
  BY DEF CombinedInit
<1> QED BY <1>2, <1>3, <1>4 DEF BudgetInv, Called, Minters, Holders, Holding

\* The ledger is left alone, and clients are the same or free.
LEMMA BudgetKept ==
  ASSUME BudgetInv, BudgetTypes', UNCHANGED <<tickets, pc, req>>,
         \A d \in Clients : SameClient(d) \/ FreeClient(d)
  PROVE  BudgetInv'
<1>1. \A d \in Clients : Holding(d)' => SameClient(d)
  BY DEF FreeClient
<1>2. \A d \in Clients : call'[d] # None => SameClient(d)
  BY DEF FreeClient
<1>3. Called'
  BY <1>2 DEF BudgetInv, Called, SameClient
<1>4. \A d \in Clients : Holding(d)' => Holding(d)
  BY <1>1 DEF SameClient, Holding
<1>5. Minters'
  BY <1>1, <1>4 DEF BudgetInv, Minters, SameClient
<1>6. \A d \in Clients : Holding(d)' => Covers(d)'
  BY <1>1, <1>4 DEF BudgetInv, Holders, Covers, SameClient
<1>7. Holders'
  BY <1>1, <1>4, <1>6 DEF BudgetInv, Holders, SameClient
<1> QED BY <1>3, <1>5, <1>7 DEF BudgetInv

\* What a client holds has three parts.
LEMMA HeldTypes ==
  ASSUME BudgetInv, NEW c \in Clients, NEW secret,
         \/ Holds(c, "challenge", secret) \/ Holds(c, "download", secret)
         \/ held' = [held EXCEPT ![c] = Nothing]
         \/ held' = [held EXCEPT ![c] = [Nothing EXCEPT !.ticket = secret]]
  PROVE  /\ \E S : held' \in [Clients -> [challenge : S, ticket : S, download : S]]
         /\ \A d \in Clients \ {c} : held'[d] = held[d]
         /\ Holds(c, "download", secret) => held'[c].ticket = held[c].ticket
         /\ held' = [held EXCEPT ![c] = [Nothing EXCEPT !.ticket = secret]] => held'[c].ticket = secret
<1>1. PICK S : held \in [Clients -> [challenge : S, ticket : S, download : S]]
  BY DEF BudgetInv, BudgetTypes
<1> DEFINE T == S \cup {None, secret}
<1>2. held[c] \in [challenge : T, ticket : T, download : T]
  BY <1>1
<1>3. /\ [held[c] EXCEPT !["challenge"] = secret] \in [challenge : T, ticket : T, download : T]
      /\ [held[c] EXCEPT !["download"] = secret] \in [challenge : T, ticket : T, download : T]
      /\ [held[c] EXCEPT !["download"] = secret].ticket = held[c].ticket
      /\ Nothing \in [challenge : T, ticket : T, download : T]
      /\ [Nothing EXCEPT !.ticket = secret] \in [challenge : T, ticket : T, download : T]
      /\ [Nothing EXCEPT !.ticket = secret].ticket = secret
  BY <1>2 DEF Nothing
<1>4. held \in [Clients -> [challenge : T, ticket : T, download : T]]
  BY <1>1
<1>5. ASSUME NEW h \in [challenge : T, ticket : T, download : T], held' = [held EXCEPT ![c] = h]
      PROVE  /\ held' \in [Clients -> [challenge : T, ticket : T, download : T]] /\ held'[c] = h
             /\ \A d \in Clients \ {c} : held'[d] = held[d]
  BY <1>4, <1>5
<1> HIDE DEF T
<1>6. Holds(c, "download", secret) => held' = [held EXCEPT ![c] = [held[c] EXCEPT !["download"] = secret]]
  BY DEF Holds
<1>7. Holds(c, "challenge", secret) => held' = [held EXCEPT ![c] = [held[c] EXCEPT !["challenge"] = secret]]
  BY DEF Holds
<1> QED BY <1>3, <1>5, <1>6, <1>7

\* A launcher gives up, or goes on to something it holds nothing for.
LEMMA FreeBudget ==
  ASSUME BudgetInv, CollectorInv, NEW c \in Clients, NEW step,
         at' = [at EXCEPT ![c] = step], step \notin {"mint", "package"},
         \/ call' = [call EXCEPT ![c] = None]
         \/ call' = call /\ at[c] \notin Calling,
         attempt' \in [Clients -> Nat], \A d \in Clients \ {c} : attempt'[d] = attempt[d],
         \/ held' = held
         \/ held' = [held EXCEPT ![c] = Nothing],
         UNCHANGED <<now, tickets, pc, req>>
  PROVE  BudgetInv'
<1>1. /\ at \in [Clients -> Launcher] /\ call \in [Clients -> Requests \cup {None}]
      /\ attempt \in [Clients -> Nat]
  BY DEF CollectorInv, CollectorTypeOK, ClientTypeOK, BudgetInv, BudgetTypes
<1>2. \E S : held' \in [Clients -> [challenge : S, ticket : S, download : S]]
  <2>1. CASE held' = held
    BY <2>1, Zenon DEF BudgetInv, BudgetTypes
  <2>2. CASE held' = [held EXCEPT ![c] = Nothing]
    BY <2>2, HeldTypes, Zenon
  <2> QED BY <2>1, <2>2
<1>3. BudgetTypes'
  BY <1>1, <1>2 DEF BudgetInv, BudgetTypes
<1>4. ASSUME NEW d \in Clients \ {c} PROVE SameClient(d)
  <2>1. held'[d] = held[d]
    BY HeldTypes
  <2> QED BY <1>1, <2>1 DEF SameClient
<1>5. FreeClient(c)
  <2>1. call'[c] = None
    <3>1. CASE call' = [call EXCEPT ![c] = None]
      BY <1>1, <3>1
    <3>2. CASE call' = call /\ at[c] \notin Calling
      BY <3>2 DEF CollectorInv, ClientInv, Placed
    <3> QED BY <3>1, <3>2
  <2> QED BY <1>1, <2>1 DEF FreeClient, Holding
<1> QED BY <1>3, <1>4, <1>5, BudgetKept

LEMMA AcquisitionBudget ==
  ASSUME BudgetInv, CollectorInv, NEW c \in Clients,
         \/ Begin(c) \/ Metadata(c) \/ Refused(c) \/ TypeSecret(c) \/ Escape(c)
         \/ VerifyBundle(c) \/ StageDownload(c) \/ ExtractTrusted(c) \/ ConsumeEnvelope(c)
         \/ RunTrusted(c) \/ RunTrustedEnds(c) \/ CleanupTrusted(c)
         \/ ~trusted(c) /\ (RunLauncher(c) \/ Choose(c) \/ PressEnter(c)) /\ UNCHANGED <<grantVars, clientVars>>
         \/ Kill(c) /\ call' = [call EXCEPT ![c] = None] /\ held' = [held EXCEPT ![c] = Nothing]
                    /\ UNCHANGED <<grantVars, attempt>>
  PROVE  BudgetInv'
<1> DEFINE Killing == Kill(c) /\ call' = [call EXCEPT ![c] = None] /\ held' = [held EXCEPT ![c] = Nothing]
                        /\ UNCHANGED attempt
<1>0. attempt \in [Clients -> Nat]
  BY DEF BudgetInv, BudgetTypes
<1>1. UNCHANGED <<now, tickets, pc, req>>
  BY DEF Begin, Metadata, Refused, TypeSecret, Escape, VerifyBundle, StageDownload, ExtractTrusted, ConsumeEnvelope,
     RunTrusted, RunTrustedEnds, CleanupTrusted, grantVars, vars, tableVars, requestVars
<1>2. CASE GiveUp(c)
  <2>1. /\ at' = [at EXCEPT ![c] = "cleanup"] /\ call' = [call EXCEPT ![c] = None]
        /\ attempt' = [attempt EXCEPT ![c] = 0] /\ held' = [held EXCEPT ![c] = Nothing]
    BY <1>2 DEF GiveUp, Moves, To
  <2>2. attempt' \in [Clients -> Nat] /\ \A d \in Clients \ {c} : attempt'[d] = attempt[d]
    BY <1>0, <2>1
  <2>3. \E step : step \notin {"mint", "package"} /\ at' = [at EXCEPT ![c] = step]
    BY <2>1
  <2> QED BY <1>1, <2>1, <2>2, <2>3, FreeBudget
<1>3. CASE Killing
  <2>1. /\ at' = [at EXCEPT ![c] = "killed"] /\ call' = [call EXCEPT ![c] = None]
        /\ attempt' = attempt /\ held' = [held EXCEPT ![c] = Nothing]
    BY <1>3, Zenon DEF Kill, To
  <2>2. attempt' \in [Clients -> Nat] /\ \A d \in Clients \ {c} : attempt'[d] = attempt[d]
    BY <1>0, <2>1
  <2>3. \E step : step \notin {"mint", "package"} /\ at' = [at EXCEPT ![c] = step]
    BY <2>1
  <2> QED BY <1>1, <2>1, <2>2, <2>3, FreeBudget
<1>4. CASE ~GiveUp(c) /\ ~Killing
  <2>1. at[c] \notin Calling /\ call' = call /\ held' = held
        /\ (attempt' = attempt \/ attempt' = [attempt EXCEPT ![c] = 0])
    BY <1>4 DEF Begin, Metadata, Refused, TypeSecret, Escape, VerifyBundle, StageDownload, ExtractTrusted,
       ConsumeEnvelope, RunTrusted, RunTrustedEnds, CleanupTrusted, clientVars, Calling,
       RunLauncher, Extract, Launch, Achieved, Blocked, Failed, Cleanup, Choose, PressEnter, StartScript, Ended, exit_zero
  <2>2. \E step : step \notin {"mint", "package"} /\ at' = [at EXCEPT ![c] = step]
    BY <1>4 DEF Begin, Metadata, Refused, TypeSecret, Escape, VerifyBundle, StageDownload, ExtractTrusted,
       ConsumeEnvelope, RunTrusted, RunTrustedEnds, CleanupTrusted, Moves, To,
       RunLauncher, Extract, Launch, Achieved, Blocked, Failed, Cleanup, Choose, PressEnter, StartScript
  <2>3. attempt' \in [Clients -> Nat] /\ \A d \in Clients \ {c} : attempt'[d] = attempt[d]
    BY <1>0, <2>1
  <2> QED BY <1>1, <2>1, <2>2, <2>3, FreeBudget
<1> QED BY <1>2, <1>3, <1>4

\* An answer is lost, and a package is asked for once more.
LEMMA LostBudget ==
  ASSUME BudgetInv, CollectorInv, NEW c \in Clients, Lost(c)
  PROVE  BudgetInv'
<1>1. UNCHANGED <<now, tickets, pc, req>> /\ call' = [call EXCEPT ![c] = None]
  BY DEF Lost, grantVars, vars, tableVars, requestVars
<1>2. attempt \in [Clients -> Nat] /\ at \in [Clients -> Launcher] /\ call \in [Clients -> Requests \cup {None}]
  BY DEF BudgetInv, BudgetTypes, CollectorInv, CollectorTypeOK, ClientTypeOK
<1>3. CASE at[c] \in {"metadata", "challenge"} /\ Moves(c, at[c]) /\ attempt' = [attempt EXCEPT ![c] = @ + 1]
           /\ UNCHANGED held
  <2>1. at' = [at EXCEPT ![c] = at[c]] /\ attempt' = [attempt EXCEPT ![c] = attempt[c] + 1] /\ attempt[c] + 1 \in Nat
    BY <1>2, <1>3 DEF Moves, To
  <2>2. attempt' \in [Clients -> Nat] /\ \A d \in Clients \ {c} : attempt'[d] = attempt[d]
    BY <1>2, <2>1
  <2> QED BY <1>1, <1>3, <2>1, <2>2, FreeBudget
<1>4. CASE at[c] = "package" /\ ~last_attempt(c) /\ Moves(c, "mint")
           /\ attempt' = [attempt EXCEPT ![c] = @ + 1] /\ Holds(c, "download", None)
  <2>1. at' = [at EXCEPT ![c] = "mint"] /\ ~(attempt[c] + 1 >= Attempts)
    BY <1>4 DEF Moves, To, last_attempt
  <2>2. /\ \E S : held' \in [Clients -> [challenge : S, ticket : S, download : S]]
        /\ \A d \in Clients \ {c} : held'[d] = held[d]
        /\ held'[c].ticket = held[c].ticket
    BY <1>4, HeldTypes
  <2>3. attempt' \in [Clients -> Nat] /\ attempt'[c] = attempt[c] + 1 /\ attempt[c] \in Nat
    BY <1>2, <1>4
  <2>4. BudgetTypes'
    BY <1>1, <2>2, <2>3 DEF BudgetInv, BudgetTypes
  <2>5. at'[c] = "mint" /\ call'[c] = None /\ at[c] = "package"
        /\ \A d \in Clients \ {c} : SameClient(d)
    BY <1>1, <1>2, <1>4, <2>1, <2>2 DEF SameClient
  <2>6. Called'
    BY <1>1, <2>5 DEF BudgetInv, Called, SameClient
  <2>7. \A d \in Clients : Holding(d)' <=> Holding(d)
    BY <2>5 DEF Holding, SameClient
  <2>8. \A d \in Clients : held'[d].ticket = held[d].ticket
    BY <2>2
\* No handler charges the ticket of a package that is waited for.
  <2>9. ASSUME NEW r \in Requests, pc[r] # "idle", req[r].kind = "mint"
        PROVE  held[c].ticket # req[r].token
    <3>1. Holding(c) /\ None \notin Requests
      BY <1>4, TrustedCollectorAssumption DEF Holding
    <3>2. call[c] = r => req[r].kind = "package"
      BY <1>4, <3>1, <2>9 DEF BudgetInv, Called
    <3> QED BY <2>9, <3>1, <3>2 DEF BudgetInv, Minters
  <2>10. Minters'
    BY <1>1, <2>5, <2>7, <2>8, <2>9 DEF BudgetInv, Minters, SameClient
  <2>11. Covers(c)'
    <3>1. Covers(c) /\ at[c] = "package"
      BY <1>4 DEF BudgetInv, Holders, Holding
    <3>2. tickets[held[c].ticket].remaining \in Nat /\ Attempts \in Nat
      BY <3>1, TrustedCollectorAssumption DEF Covers, BudgetInv, BudgetTypes, Ticket
    <3> QED BY <1>1, <2>1, <2>3, <2>5, <2>8, <3>1, <3>2 DEF Covers
  <2>12. Holders'
    <3>1. \A d \in Clients \ {c} : Holding(d)' => Covers(d)'
      BY <1>1, <2>5, <2>7 DEF BudgetInv, Holders, SameClient, Covers
    <3> QED BY <2>7, <2>8, <2>11, <3>1 DEF BudgetInv, Holders
  <2> QED BY <2>4, <2>6, <2>10, <2>12 DEF BudgetInv
<1>5. CASE Moves(c, "cleanup") /\ attempt' = [attempt EXCEPT ![c] = 0] /\ held' = [held EXCEPT ![c] = Nothing]
  <2>1. at' = [at EXCEPT ![c] = "cleanup"]
        /\ attempt' \in [Clients -> Nat] /\ \A d \in Clients \ {c} : attempt'[d] = attempt[d]
    BY <1>2, <1>5 DEF Moves, To
  <2> QED BY <1>1, <1>5, <2>1, FreeBudget
<1> QED BY <1>3, <1>4, <1>5 DEF Lost

\* A handler that is idle takes what a client asks.
LEMMA AskBudget ==
  ASSUME BudgetInv, CollectorInv, NEW c \in Clients, NEW r \in Requests, Ask(c, r)
  PROVE  BudgetInv'
<1> DEFINE q == [kind |-> at[c], envelope |-> wants[c], token |-> token(c)]
<1>1. /\ UNCHANGED <<now, tickets, at, attempt, held>> /\ call' = [call EXCEPT ![c] = r]
      /\ at[c] \in Calling /\ call[c] = None /\ pc[r] = "idle"
      /\ pc' = [pc EXCEPT ![r] = "proof"] /\ req' = [req EXCEPT ![r] = q]
  BY DEF Ask, View, tableVars, collectorVars
<1>2. wants[c] \in Envelopes
  BY <1>1 DEF CollectorInv, ClientInv, Placed, ClientTypeOK, trusted, Calling, Acquiring
<1>3. q.kind = at[c] /\ q.envelope = wants[c] /\ (at[c] = "mint" => q.token = held[c].ticket)
  BY DEF token
<1>4. /\ call \in [Clients -> Requests \cup {None}] /\ None \notin Requests
      /\ pc \in [Requests -> {"idle", "proof", "act", "insert"}]
  BY TrustedCollectorAssumption DEF CollectorInv, ClientTypeOK, BudgetInv, BudgetTypes
<1> HIDE DEF q
<1>5. PICK S : req \in [Requests -> S]
  BY DEF BudgetInv, BudgetTypes
<1>6. req \in [Requests -> S \cup {q}]
  BY <1>5
<1>7. req' \in [Requests -> S \cup {q}] /\ req'[r] = q /\ \A s \in Requests \ {r} : req'[s] = req[s]
  BY <1>1, <1>6
<1>8. pc'[r] = "proof" /\ \A s \in Requests \ {r} : pc'[s] = pc[s]
  BY <1>1, <1>4
<1>9. call'[c] = r /\ \A d \in Clients \ {c} : call'[d] = call[d]
  BY <1>1, <1>4
<1>10. BudgetTypes'
  <2>1. /\ now' \in 0..MaxTime /\ tickets' \in [Tickets -> Ticket \cup {None}]
        /\ pc' \in [Requests -> {"idle", "proof", "act", "insert"}]
        /\ attempt' \in [Clients -> Nat]
    BY <1>1, <1>4 DEF BudgetInv, BudgetTypes
  <2>2. \E T : held' \in [Clients -> [challenge : T, ticket : T, download : T]]
    BY <1>1, Zenon DEF BudgetInv, BudgetTypes
  <2>3. \A s \in Requests : pc'[s] # "idle" => req'[s].envelope \in Envelopes
    BY <1>2, <1>3, <1>7, <1>8 DEF BudgetInv, BudgetTypes
  <2> QED BY <1>7, <2>1, <2>2, <2>3 DEF BudgetTypes
<1>11. \A d \in Clients : call[d] # r
  BY <1>1, <1>4 DEF BudgetInv, Called
<1>12. Called'
  BY <1>1, <1>3, <1>4, <1>7, <1>8, <1>9, <1>11 DEF BudgetInv, Called
<1>13. Holders' /\ \A d \in Clients : Holding(d)' <=> Holding(d)
  BY <1>1 DEF BudgetInv, Holders, Holding, Covers
<1>14. Minters'
  <2>1. ASSUME at[c] = "mint"
        PROVE  /\ held[c].ticket \in Tickets /\ tickets[held[c].ticket] # None
               /\ \A d \in Clients : Holding(d) /\ held[d].ticket = held[c].ticket => d = c
    BY <2>1 DEF BudgetInv, Holders, Holding, Covers
  <2>2. ASSUME NEW s \in Requests \ {r}, pc[s] # "idle", req[s].kind = "mint"
        PROVE  Holding(c) => held[c].ticket # req[s].token
    BY <1>1, <1>4, <2>2 DEF BudgetInv, Minters
  <2> QED BY <1>1, <1>3, <1>7, <1>8, <1>9, <1>13, <2>1, <2>2 DEF BudgetInv, Minters
<1> QED BY <1>10, <1>12, <1>13, <1>14 DEF BudgetInv

\* An answer charges the ticket it was asked with, or gives out a new one.
LEMMA TicketsStep ==
  ASSUME BudgetInv, Used, NEW r \in Requests,
         InsertChallenge(r) \/ Authorize(r) \/ MintDownload(r) \/ ConsumeDownload(r) \/ Refuse(r)
  PROVE  /\ tickets' \in [Tickets -> Ticket \cup {None}]
         /\ \A t \in Tickets : tickets[t] # None =>
              /\ tickets'[t] # None
              /\ \/ tickets'[t].remaining = tickets[t].remaining
                 \/ /\ req[r].kind = "mint" /\ t = req[r].token
                    /\ tickets'[t].remaining = tickets[t].remaining - 1
         /\ \A t \in Tickets : tickets[t] = None /\ tickets'[t] # None => tickets'[t].remaining = MaxDownloads
<1>1. tickets \in [Tickets -> Ticket \cup {None}] /\ None \notin Ticket /\ now \in 0..MaxTime
  BY NoneAssumption DEF BudgetInv, BudgetTypes
<1>2. CASE InsertChallenge(r) \/ ConsumeDownload(r) \/ Refuse(r)
  BY <1>1, <1>2 DEF InsertChallenge, ConsumeDownload, Refuse, tableVars
<1>3. CASE Authorize(r)
  <2> DEFINE e == req[r].envelope
             row == [envelope |-> e, expiresAt |-> Earlier(now + TicketTTL, grants[e].expiresAt),
                     remaining |-> MaxDownloads]
  <2>1. PICK t \in Tickets : tickets[t] = None /\ tickets' = [tickets EXCEPT ![t] = row]
    BY <1>3 DEF Authorize
  <2>2. e \in Envelopes
    BY <1>3 DEF Authorize, At, BudgetInv, BudgetTypes
  <2>3. grants[e].expiresAt = Lifetime
    BY <2>2 DEF Used, Row
  <2>4. Earlier(now + TicketTTL, Lifetime) \in Times
    BY <1>1, GrantAssumption DEF Earlier, Times
  <2>5. row \in Ticket /\ row.remaining = MaxDownloads
    BY <2>2, <2>3, <2>4, GrantAssumption DEF Ticket
  <2> HIDE DEF row
  <2> QED BY <1>1, <2>1, <2>5
<1>4. CASE MintDownload(r)
  <2> DEFINE t == req[r].token
             row == [tickets[t] EXCEPT !.remaining = tickets[t].remaining - 1]
  <2>1. /\ tickets' = [tickets EXCEPT ![t] = row] /\ req[r].kind = "mint" /\ tickets[t] # None
        /\ tickets[t].remaining > 0 /\ pc[r] # "idle"
    BY <1>4 DEF MintDownload, ticket_left, ticket_usable, At
  <2>2. t \in Tickets
    BY <2>1 DEF BudgetInv, Minters
  <2>3. tickets[t] \in Ticket
    BY <1>1, <2>1, <2>2
  <2>4. row \in Ticket /\ row.remaining = tickets[t].remaining - 1
    BY <2>1, <2>3, GrantAssumption DEF Ticket
  <2> HIDE DEF row
  <2> QED BY <1>1, <2>1, <2>2, <2>4
<1> QED BY <1>2, <1>3, <1>4

\* The client has been given a new ticket, or a download for the one it has.
Took(d) ==
  /\ at'[d] = "mint" /\ attempt'[d] = 0
  /\ held'[d].ticket \in Tickets
  /\ tickets[held'[d].ticket] = None /\ tickets'[held'[d].ticket] # None
Went(d) ==
  /\ at[d] = "mint" /\ at'[d] = "package"
  /\ held'[d].ticket = held[d].ticket /\ attempt'[d] = attempt[d]

LEMMA AnswerBudget ==
  ASSUME BudgetInv, CollectorInv, Used, Attempts <= MaxDownloads, BudgetTypes', NEW r \in Requests,
         InsertChallenge(r) \/ Authorize(r) \/ MintDownload(r) \/ ConsumeDownload(r) \/ Refuse(r),
         pc[r] # "idle", pc'[r] = "idle",
         \A s \in Requests \ {r} : pc'[s] = pc[s] /\ req'[s] = req[s],
         \A d \in Clients : call[d] # r => SameClient(d),
         \A d \in Clients : call[d] = r => call'[d] = None /\ (Holding(d)' => Took(d) \/ Went(d))
  PROVE  BudgetInv'
<1>1. /\ call \in [Clients -> Requests \cup {None}] /\ None \notin Requests
      /\ attempt \in [Clients -> Nat] /\ Attempts \in Nat \ {0} /\ MaxDownloads \in Nat
      /\ tickets \in [Tickets -> Ticket \cup {None}]
  BY TrustedCollectorAssumption, GrantAssumption DEF CollectorInv, ClientTypeOK, BudgetInv, BudgetTypes
<1>2. /\ \A t \in Tickets : tickets[t] # None =>
           /\ tickets'[t] # None
           /\ \/ tickets'[t].remaining = tickets[t].remaining
              \/ /\ req[r].kind = "mint" /\ t = req[r].token
                 /\ tickets'[t].remaining = tickets[t].remaining - 1
      /\ \A t \in Tickets : tickets[t] = None /\ tickets'[t] # None => tickets'[t].remaining = MaxDownloads
  BY TicketsStep
<1>3. \A d \in Clients : call'[d] # None => SameClient(d) /\ call[d] # r
  OBVIOUS
<1>4. Called'
  BY <1>1, <1>3 DEF BudgetInv, Called, SameClient
<1>5. \A d \in Clients : Holding(d) => Covers(d)
  BY DEF BudgetInv, Holders
<1>6. ASSUME NEW d \in Clients, Holding(d)'
      PROVE  \/ Took(d) /\ call[d] = r
             \/ Went(d) /\ Holding(d) /\ call[d] = r
             \/ SameClient(d) /\ Holding(d) /\ call[d] # r
  <2>1. CASE call[d] = r
    <3>1. Took(d) \/ Went(d)
      BY <1>6, <2>1
    <3>2. Went(d) => Holding(d)
      BY DEF Went, Holding
    <3> QED BY <2>1, <3>1, <3>2
  <2>2. CASE call[d] # r
    <3>1. SameClient(d)
      BY <2>2
    <3>2. Holding(d)
      BY <1>6, <3>1 DEF SameClient, Holding
    <3> QED BY <2>2, <3>1, <3>2
  <2> QED BY <2>1, <2>2
<1>7. Minters'
  <2> SUFFICES ASSUME NEW s \in Requests, pc'[s] # "idle", req'[s].kind = "mint"
               PROVE  /\ req'[s].token \in Tickets /\ tickets'[req'[s].token] # None
                      /\ \A d \in Clients : Holding(d)' /\ held'[d].ticket = req'[s].token => call'[d] = s
    BY DEF Minters
  <2>1. s # r /\ pc[s] # "idle" /\ req'[s] = req[s]
    OBVIOUS
  <2>2. /\ req[s].token \in Tickets /\ tickets[req[s].token] # None
        /\ \A d \in Clients : Holding(d) /\ held[d].ticket = req[s].token => call[d] = s
    BY <2>1 DEF BudgetInv, Minters
  <2>3. ASSUME NEW d \in Clients, Holding(d)', held'[d].ticket = req'[s].token
        PROVE  call'[d] = s
    BY <1>6, <2>1, <2>2, <2>3 DEF Took, Went, SameClient
  <2> QED BY <1>2, <2>1, <2>2, <2>3
<1>8. ASSUME NEW d \in Clients, Holding(d)'
      PROVE  Covers(d)'
  <2>1. CASE Took(d)
    BY <1>1, <1>2, <2>1 DEF Took, Covers
  <2>2. CASE Went(d) /\ Holding(d)
    <3>1. Covers(d) /\ tickets[held[d].ticket].remaining \in Nat
      BY <1>1, <1>5, <2>2 DEF Covers, Ticket
    <3>2. tickets'[held[d].ticket] # None
          /\ tickets'[held[d].ticket].remaining \in {tickets[held[d].ticket].remaining, tickets[held[d].ticket].remaining - 1}
      BY <1>2, <3>1 DEF Covers
    <3> QED BY <1>1, <2>2, <3>1, <3>2 DEF Covers, Went
  <2>3. CASE SameClient(d) /\ Holding(d) /\ call[d] # r
    <3>1. ~(req[r].kind = "mint" /\ held[d].ticket = req[r].token)
      BY <2>3 DEF BudgetInv, Minters
    <3>2. Covers(d)
      BY <1>5, <2>3
    <3>3. tickets'[held[d].ticket] # None /\ tickets'[held[d].ticket].remaining = tickets[held[d].ticket].remaining
      BY <1>2, <3>1, <3>2 DEF Covers
    <3> QED BY <2>3, <3>2, <3>3 DEF Covers, SameClient
  <2> QED BY <1>6, <1>8, <2>1, <2>2, <2>3
<1>9. Holders'
  <2> SUFFICES ASSUME NEW c \in Clients, NEW d \in Clients, Holding(c)', Holding(d)', held'[c].ticket = held'[d].ticket
               PROVE  c = d
    BY <1>8 DEF Holders
  <2>1. call[c] = r /\ call[d] = r => c = d
    BY <1>1 DEF BudgetInv, Called
  <2>2. /\ Holding(c) => tickets[held[c].ticket] # None
        /\ Holding(d) => tickets[held[d].ticket] # None
        /\ Holding(c) /\ Holding(d) /\ held[c].ticket = held[d].ticket => c = d
    BY <1>5 DEF Covers, BudgetInv, Holders
  <2> QED BY <1>6, <2>1, <2>2 DEF Took, Went, SameClient
<1> QED BY <1>4, <1>7, <1>9 DEF BudgetInv

\* A handler's step: its request ends or goes on, and other requests stay.
LEMMA HandleBudget ==
  ASSUME BudgetInv, CollectorInv, Used, Attempts <= MaxDownloads, NEW r \in Requests, Handle(r)
  PROVE  BudgetInv'
<1>1. /\ at \in [Clients -> Launcher] /\ call \in [Clients -> Requests \cup {None}]
      /\ attempt \in [Clients -> Nat] /\ None \notin Requests
      /\ pc \in [Requests -> {"idle", "proof", "act", "insert"}]
      /\ now \in 0..MaxTime /\ tickets \in [Tickets -> Ticket \cup {None}]
  BY TrustedCollectorAssumption DEF CollectorInv, CollectorTypeOK, ClientTypeOK, BudgetInv, BudgetTypes
<1>2. CASE (Prove(r) \/ ReadForChallenge(r)) /\ UNCHANGED <<collectorVars, clientVars>>
  <2>1. /\ UNCHANGED <<now, tickets, req, at, call, attempt, held>> /\ pc[r] # "idle"
        /\ \E label \in {"act", "insert"} : pc' = [pc EXCEPT ![r] = label]
    BY <1>2 DEF Prove, ReadForChallenge, At, tableVars, collectorVars, clientVars
  <2>2. /\ pc' \in [Requests -> {"idle", "proof", "act", "insert"}]
        /\ \A s \in Requests : pc'[s] # "idle" <=> pc[s] # "idle"
    BY <1>1, <2>1
  <2>3. BudgetTypes'
    BY <2>1, <2>2 DEF BudgetInv, BudgetTypes
  <2>4. Called' /\ Holders' /\ Minters'
    BY <1>1, <2>1, <2>2 DEF BudgetInv, Called, Holders, Minters, Holding, Covers
  <2> QED BY <2>3, <2>4 DEF BudgetInv
<1>3. ASSUME InsertChallenge(r) \/ Authorize(r) \/ MintDownload(r) \/ ConsumeDownload(r) \/ Refuse(r),
             attempt' \in [Clients -> Nat],
             \E S : held' \in [Clients -> [challenge : S, ticket : S, download : S]],
             \A d \in Clients : call[d] # r => SameClient(d),
             \A d \in Clients : call[d] = r => call'[d] = None /\ (Holding(d)' => Took(d) \/ Went(d))
      PROVE  BudgetInv'
  <2>1. Answer(r) /\ UNCHANGED now /\ pc[r] # "idle"
    BY <1>3 DEF InsertChallenge, Authorize, MintDownload, ConsumeDownload, Refuse, At
  <2>2. pc' = [pc EXCEPT ![r] = "idle"] /\ req' = [req EXCEPT ![r] = None]
    BY <2>1 DEF Answer
  <2>3. /\ pc' \in [Requests -> {"idle", "proof", "act", "insert"}] /\ pc'[r] = "idle"
        /\ \A s \in Requests \ {r} : pc'[s] = pc[s] /\ req'[s] = req[s]
        /\ \E S : req' \in [Requests -> S]
    <3>1. PICK S : req \in [Requests -> S]
      BY DEF BudgetInv, BudgetTypes
    <3>2. req \in [Requests -> S \cup {None}]
      BY <3>1
    <3>3. req' \in [Requests -> S \cup {None}] /\ \A s \in Requests \ {r} : req'[s] = req[s]
      BY <2>2, <3>2
    <3>4. /\ pc' \in [Requests -> {"idle", "proof", "act", "insert"}] /\ pc'[r] = "idle"
          /\ \A s \in Requests \ {r} : pc'[s] = pc[s]
      BY <1>1, <2>2
    <3> QED BY <3>3, <3>4
  <2>4. BudgetTypes'
    <3>1. tickets' \in [Tickets -> Ticket \cup {None}]
      BY <1>3, TicketsStep
    <3>2. \A s \in Requests : pc'[s] # "idle" => req'[s].envelope \in Envelopes
      BY <2>3 DEF BudgetInv, BudgetTypes
    <3> QED BY <1>1, <1>3, <2>1, <2>3, <3>1, <3>2 DEF BudgetTypes
  <2> QED BY <1>3, <2>1, <2>3, <2>4, AnswerBudget
\* Only one client waits for the handler.
<1>4. ASSUME NEW c \in Waiting(r), call' = [call EXCEPT ![c] = None], \E step : at' = [at EXCEPT ![c] = step],
             \E n : attempt' = [attempt EXCEPT ![c] = n], \A d \in Clients \ {c} : held'[d] = held[d]
      PROVE  /\ c \in Clients /\ call[c] = r /\ req[r].kind = at[c] /\ call'[c] = None
             /\ \A d \in Clients : call[d] # r => SameClient(d)
             /\ \A d \in Clients : call[d] = r => d = c
  <2>1. c \in Clients /\ call[c] = r /\ \A d \in Clients : call[d] = r => d = c
    BY <1>1 DEF Waiting, BudgetInv, Called
  <2>2. req[r].kind = at[c]
    BY <1>1, <2>1 DEF BudgetInv, Called
  <2>3. ASSUME NEW d \in Clients, call[d] # r
        PROVE  SameClient(d)
    BY <1>1, <1>4, <2>1, <2>3 DEF SameClient
  <2> QED BY <1>1, <1>4, <2>1, <2>2, <2>3
<1>5. CASE AnsweredRefused(r)
  <2>1. CASE Waiting(r) = {} /\ UNCHANGED <<collectorVars, clientVars>>
    <3>1. \A d \in Clients : call[d] # r /\ SameClient(d)
      BY <2>1 DEF Waiting, SameClient, collectorVars, clientVars
    <3>2. UNCHANGED <<attempt, held>>
      BY <2>1 DEF clientVars
    <3>3. \E S : held' \in [Clients -> [challenge : S, ticket : S, download : S]]
      BY <3>2, Zenon DEF BudgetInv, BudgetTypes
    <3> QED BY <1>1, <1>3, <1>5, <3>1, <3>2, <3>3 DEF AnsweredRefused
  <2>2. ASSUME NEW c \in Waiting(r), GiveUp(c)
        PROVE  BudgetInv'
    <3>1. /\ at' = [at EXCEPT ![c] = "cleanup"] /\ call' = [call EXCEPT ![c] = None]
          /\ attempt' = [attempt EXCEPT ![c] = 0] /\ held' = [held EXCEPT ![c] = Nothing] /\ c \in Clients
      BY <2>2 DEF GiveUp, Moves, To, Waiting
    <3>2. /\ \E S : held' \in [Clients -> [challenge : S, ticket : S, download : S]]
          /\ \A d \in Clients \ {c} : held'[d] = held[d]
      BY <3>1, HeldTypes
    <3>3. /\ \A d \in Clients : call[d] # r => SameClient(d)
          /\ \A d \in Clients : call[d] = r => d = c
          /\ call'[c] = None
      BY <1>4, <3>1, <3>2
    <3>4. attempt' \in [Clients -> Nat] /\ ~Holding(c)'
      BY <1>1, <3>1 DEF Holding
    <3> QED BY <1>3, <1>5, <3>2, <3>3, <3>4 DEF AnsweredRefused
  <2> QED BY <1>5, <2>1, <2>2 DEF AnsweredRefused
<1>6. CASE Answered(r)
  <2>1. CASE Waiting(r) = {} /\ UNCHANGED <<collectorVars, clientVars>>
    <3>1. \A d \in Clients : call[d] # r /\ SameClient(d)
      BY <2>1 DEF Waiting, SameClient, collectorVars, clientVars
    <3>2. UNCHANGED <<attempt, held>>
      BY <2>1 DEF clientVars
    <3>3. \E S : held' \in [Clients -> [challenge : S, ticket : S, download : S]]
      BY <3>2, Zenon DEF BudgetInv, BudgetTypes
    <3> QED BY <1>1, <1>3, <1>6, <3>1, <3>2, <3>3 DEF Answered
  <2>2. ASSUME NEW c \in Waiting(r), NEW secret \in New(at[c]), Gets(c, secret),
               attempt' = [attempt EXCEPT ![c] = IF at[c] \in {"mint", "package"} THEN @ ELSE 0],
               call' = [call EXCEPT ![c] = None]
        PROVE  BudgetInv'
    <3>1. c \in Clients
      BY DEF Waiting
    <3>2. /\ \E S : held' \in [Clients -> [challenge : S, ticket : S, download : S]]
          /\ \A d \in Clients \ {c} : held'[d] = held[d]
      BY <2>2, <3>1, HeldTypes DEF Gets
    <3>3. /\ \E step : at' = [at EXCEPT ![c] = step]
          /\ \E n : attempt' = [attempt EXCEPT ![c] = n]
      BY <2>2 DEF Gets, Moves, To
    <3>4. /\ \A d \in Clients : call[d] # r => SameClient(d)
          /\ \A d \in Clients : call[d] = r => d = c
          /\ call'[c] = None
      BY <1>4, <2>2, <3>2, <3>3
    <3>5. attempt' \in [Clients -> Nat] /\ attempt'[c] = IF at[c] \in {"mint", "package"} THEN attempt[c] ELSE 0
      BY <1>1, <2>2, <3>1
    <3>6. Holding(c)' => Took(c) \/ Went(c)
      <4>1. CASE at[c] = "challenge" /\ Moves(c, "prompt")
        BY <1>1, <3>1, <4>1 DEF Moves, To, Holding
      <4>2. CASE at[c] = "package" /\ Moves(c, "stage")
        BY <1>1, <3>1, <4>2 DEF Moves, To, Holding
      <4>3. CASE at[c] = "mint" /\ Moves(c, "package") /\ Holds(c, "download", secret)
        <5>1. held'[c].ticket = held[c].ticket
          BY <3>1, <4>3, HeldTypes
        <5> QED BY <1>1, <3>1, <3>5, <4>3, <5>1 DEF Moves, To, Went
      <4>4. CASE /\ at[c] = "authorize" /\ Moves(c, "mint")
                 /\ held' = [held EXCEPT ![c] = [Nothing EXCEPT !.ticket = secret]]
        <5>1. held'[c].ticket = secret
          BY <3>1, <4>4, HeldTypes
        <5>2. secret \in Tickets /\ tickets[secret] = None /\ tickets'[secret] # None
          BY <2>2, <4>4 DEF New
        <5> QED BY <1>1, <3>1, <3>5, <4>4, <5>1, <5>2 DEF Moves, To, Took
      <4> QED BY <2>2, <4>1, <4>2, <4>3, <4>4 DEF Gets
    <3> QED BY <1>3, <1>6, <3>2, <3>4, <3>5, <3>6 DEF Answered
  <2> QED BY <1>6, <2>1, <2>2 DEF Answered
<1> QED BY <1>2, <1>5, <1>6 DEF Handle

LEMMA BudgetInvNext ==
  ASSUME BudgetInv, CollectorInv, Used, Attempts <= MaxDownloads, [CombinedNext]_allVars
  PROVE  BudgetInv'
<1>1. ASSUME UNCHANGED <<at, call, attempt, held, tickets, pc, req>>, now' \in 0..MaxTime
      PROVE  BudgetInv'
  <2>1. BudgetTypes'
    BY <1>1 DEF BudgetInv, BudgetTypes
  <2> QED BY <1>1, <2>1, BudgetKept DEF SameClient
<1>2. now \in 0..MaxTime
  BY DEF BudgetInv, BudgetTypes
<1>3. CASE UNCHANGED allVars
  BY <1>1, <1>2, <1>3 DEF allVars, grantVars, vars, tableVars, requestVars, collectorVars, clientVars
<1>4. CASE Tick /\ UNCHANGED <<collectorVars, clientVars>>
  <2>1. now' \in 0..MaxTime
    BY <1>2, <1>4, GrantAssumption DEF Tick
  <2> QED BY <1>1, <1>4, <2>1 DEF Tick, tableVars, requestVars, collectorVars, clientVars
<1>5. ASSUME NEW c \in Clients, Steps(c) PROVE BudgetInv'
  <2>1. CASE RunScript(c) /\ UNCHANGED <<grantVars, clientVars>>
    <3>1. at' = at
      BY <2>1 DEF RunScript, VerifyPackage, MakeDirectory, Collect, Build, Send, Export, Finally
    <3> QED BY <1>1, <1>2, <2>1, <3>1 DEF grantVars, vars, tableVars, requestVars, clientVars
  <2>2. CASE NonceExchange(c) \/ OwnNonce(c)
    <3>1. at' = at /\ UNCHANGED clientVars
      BY <2>2 DEF NonceExchange, OwnNonce, NonceIssued, NonceFails
    <3>2. UNCHANGED <<now, tickets, pc, req>>
      BY <2>2 DEF NonceExchange, OwnNonce, Consume, grantVars, vars, tableVars, requestVars
    <3> QED BY <1>1, <1>2, <3>1, <3>2 DEF clientVars
  <2>3. CASE Lost(c)
    BY <2>3, LostBudget
  <2>4. CASE \E r \in Requests : Ask(c, r)
    BY <2>4, AskBudget
  <2>5. CASE \/ ~trusted(c) /\ RunLauncher(c) /\ UNCHANGED <<grantVars, clientVars>>
             \/ Begin(c) \/ Metadata(c) \/ Refused(c) \/ VerifyBundle(c) \/ StageDownload(c) \/ ExtractTrusted(c)
             \/ ConsumeEnvelope(c) \/ RunTrusted(c) \/ RunTrustedEnds(c) \/ CleanupTrusted(c)
    BY <2>5, AcquisitionBudget
  <2> QED BY <1>5, <2>1, <2>2, <2>3, <2>4, <2>5 DEF Steps
<1>6. ASSUME NEW c \in Clients, Users(c) PROVE BudgetInv'
  BY <1>6, AcquisitionBudget DEF Users
<1>7. ASSUME NEW c \in Clients, Import(c) PROVE BudgetInv'
  <2>1. at' = at /\ UNCHANGED clientVars /\ UNCHANGED <<now, tickets, pc, req>>
    BY <1>7 DEF Import, Consume, grantVars, vars, tableVars, requestVars
  <2> QED BY <1>1, <1>2, <2>1 DEF clientVars
<1>8. ASSUME NEW r \in Requests, Handle(r) PROVE BudgetInv'
  BY <1>8, HandleBudget
<1> QED BY <1>3, <1>4, <1>5, <1>6, <1>7, <1>8 DEF CombinedNext

\* As long as a client tries no more downloads with an authorization than the Lab grants
\* on one, three and three in the code, the ticket it holds covers every attempt it will make,
\* however many packages and answers are lost and whoever else downloads.
THEOREM RetriesWithinBudgetAlways ==
  ASSUME Attempts <= MaxDownloads
  PROVE  CombinedSpec => []RetriesWithinBudget
<1>1. CombinedInit => CollectorInv /\ EnvelopeInv /\ BudgetInv
  BY CollectorInvInit, EnvelopeInvInit, BudgetInvInit
<1>2. CollectorInv /\ EnvelopeInv /\ BudgetInv /\ [CombinedNext]_allVars => (CollectorInv /\ EnvelopeInv /\ BudgetInv)'
  BY CollectorInvNext, EnvelopeInvNext, BudgetInvNext DEF EnvelopeInv
<1>3. BudgetInv => RetriesWithinBudget
  <2> SUFFICES ASSUME BudgetInv, NEW c \in Clients, at[c] = "mint"
               PROVE  LET left == tickets[held[c].ticket].remaining IN left > 0 /\ left >= Attempts - attempt[c]
    BY DEF RetriesWithinBudget
  <2>1. Covers(c)
    BY DEF BudgetInv, Holders, Holding
  <2>2. tickets[held[c].ticket].remaining \in Nat /\ attempt[c] \in Nat /\ Attempts \in Nat
    BY <2>1, TrustedCollectorAssumption DEF Covers, BudgetInv, BudgetTypes, Ticket
  <2> QED BY <2>1, <2>2 DEF Covers
<1> QED BY <1>1, <1>2, <1>3, PTL DEF CombinedSpec

-----------------------------------------------------------------------------
(***************************************************************************)
(* The trusted ledger by itself, for any envelopes, requests, limits and   *)
(* lifetimes, and for every order of issuers, reconciliations and          *)
(* requests.                                                               *)
(***************************************************************************)

USE DEF tableVars, storeVars, issueVars, requestVars, historyVars

\* A row exists exactly from the start of its issuance.
RowsOK == \A e \in Envelopes : grants[e] = None <=> issuer[e] = "none"

\* A request in progress asks for an envelope that has a row and presents a
\* secret of the kind its route takes.
RequestsOK ==
  \A r \in Requests : pc[r] # "idle" =>
    /\ req[r] \in Request
    /\ grants[req[r].envelope] # None
    /\ req[r].kind = "authorize" => req[r].token \in Challenges
    /\ req[r].kind = "mint" => req[r].token \in Tickets
    /\ req[r].kind = "package" => req[r].token \in Downloads

TypeInv == TypeOK /\ RowsOK /\ RequestsOK

LEMMA InitTypeInv == Init => TypeInv
<1> SUFFICES ASSUME Init PROVE TypeInv
  OBVIOUS
<1>1. now \in 0..MaxTime
  BY GrantAssumption DEF Init
<1> QED
  BY <1>1 DEF Init, TypeInv, TypeOK, RowsOK, RequestsOK, IssueSteps

\* The clock and every expiry computed from it are times.
LEMMA TimesOK ==
  ASSUME TypeOK
  PROVE  /\ now \in Times
         /\ \A n \in {Lifetime, ProofTTL, ChallengeTTL, TicketTTL, DownloadTTL} : now + n \in Times
         /\ \A a, b \in Times : Earlier(a, b) \in Times /\ Earlier(a, b) <= a /\ Earlier(a, b) <= b
  BY GrantAssumption DEF TypeOK, Times, Earlier

\* A row that is there is not the missing one.
LEMMA NoGrant == ASSUME NEW g \in Grant PROVE g # None
  BY NoneAssumption

LEMMA GrantUpdates ==
  ASSUME NEW g \in Grant, NEW n \in BOOLEAN
  PROVE  /\ [g EXCEPT !.state = "READY", !.network = n] \in Grant
         /\ [g EXCEPT !.state = "FAILED"] \in Grant
         /\ [g EXCEPT !.used = TRUE] \in Grant
         /\ [g EXCEPT !.authUsed = TRUE] \in Grant
  BY DEF Grant

\* The fields that an update leaves alone.
LEMMA GrantFields ==
  ASSUME NEW g \in Grant, NEW n \in BOOLEAN
  PROVE  /\ [g EXCEPT !.state = "READY", !.network = n].state = "READY"
         /\ [g EXCEPT !.state = "READY", !.network = n].network = n
         /\ [g EXCEPT !.state = "READY", !.network = n].used = g.used
         /\ [g EXCEPT !.state = "READY", !.network = n].authUsed = g.authUsed
         /\ [g EXCEPT !.state = "READY", !.network = n].expiresAt = g.expiresAt
         /\ [g EXCEPT !.state = "FAILED"].state = "FAILED"
         /\ [g EXCEPT !.state = "FAILED"].network = g.network
         /\ [g EXCEPT !.state = "FAILED"].used = g.used
         /\ [g EXCEPT !.state = "FAILED"].authUsed = g.authUsed
         /\ [g EXCEPT !.state = "FAILED"].expiresAt = g.expiresAt
         /\ [g EXCEPT !.used = TRUE].used = TRUE
         /\ [g EXCEPT !.used = TRUE].state = g.state
         /\ [g EXCEPT !.used = TRUE].network = g.network
         /\ [g EXCEPT !.used = TRUE].authUsed = g.authUsed
         /\ [g EXCEPT !.used = TRUE].expiresAt = g.expiresAt
         /\ [g EXCEPT !.authUsed = TRUE].authUsed = TRUE
         /\ [g EXCEPT !.authUsed = TRUE].state = g.state
         /\ [g EXCEPT !.authUsed = TRUE].network = g.network
         /\ [g EXCEPT !.authUsed = TRUE].used = g.used
         /\ [g EXCEPT !.authUsed = TRUE].expiresAt = g.expiresAt
  BY DEF Grant

\* Replacing a row by a row.
LEMMA GrantsUpdate ==
  ASSUME TypeInv, NEW e \in Envelopes, grants[e] # None, NEW g \in Grant,
         grants' = [grants EXCEPT ![e] = g]
  PROVE  /\ grants' \in [Envelopes -> Grant \cup {None}]
         /\ \A f \in Envelopes : grants'[f] = None <=> grants[f] = None
  BY NoneAssumption DEF TypeInv, TypeOK

LEMMA IssueTypeInv == ASSUME TypeInv, NEW e \in Envelopes, Issue(e) PROVE TypeInv'
<1> USE GrantAssumption, NoneAssumption DEF TypeInv, RowsOK, IssuerAt
<1>1. CASE BeginIssue(e)
  <2>1. [state |-> "PREPARING", used |-> FALSE, network |-> FALSE, authUsed |-> FALSE,
         expiresAt |-> now + Lifetime] \in Grant
    BY TimesOK DEF Grant
  <2>2. \A f \in Envelopes : grants[f] # None => grants'[f] # None
    BY <1>1 DEF BeginIssue, TypeOK
  <2>3. TypeOK' /\ RowsOK'
    BY <1>1, <2>1 DEF BeginIssue, TypeOK, IssueSteps
  <2> QED BY <1>1, <2>2, <2>3 DEF BeginIssue, RequestsOK, Request
<1>2. CASE Sign(e)
  BY <1>2 DEF Sign, TypeOK, RequestsOK, IssueSteps
<1>3. CASE VerifyStaged(e)
  BY <1>3 DEF VerifyStaged, TypeOK, RequestsOK, IssueSteps
<1>4. CASE Publish(e)
  BY <1>4 DEF Publish, TypeOK, RequestsOK, IssueSteps
<1>5. CASE RegisterSession(e)
  <2>1. flag' \in BOOLEAN
    BY <1>5 DEF RegisterSession, TypeOK
  <2>2. issuer' \in [Envelopes -> IssueSteps] /\ \A f \in Envelopes : issuer'[f] = "none" <=> issuer[f] = "none"
    BY <1>5 DEF RegisterSession, TypeOK, IssueSteps
  <2> QED BY <1>5, <2>1, <2>2 DEF RegisterSession, TypeOK, RequestsOK
<1>6. CASE AuditPrepared(e)
  BY <1>6 DEF AuditPrepared, TypeOK, RequestsOK, IssueSteps
<1>7. CASE MakeReady(e)
  <2>1. CASE grants' = [grants EXCEPT ![e] =
                          [grants[e] EXCEPT !.state = "READY", !.network = (e \in Network)]]
    <3>1. grants[e] \in Grant /\ grants[e] # None
      BY <1>7 DEF MakeReady, TypeOK
    <3>2. [grants[e] EXCEPT !.state = "READY", !.network = (e \in Network)] \in Grant
      <4>1. (e \in Network) \in BOOLEAN
        OBVIOUS
      <4> QED BY <3>1, <4>1, GrantUpdates
    <3>3. /\ grants' \in [Envelopes -> Grant \cup {None}]
          /\ \A f \in Envelopes : grants'[f] = None <=> grants[f] = None
      BY <2>1, <3>1, <3>2, GrantsUpdate DEF TypeInv
    <3> QED BY <1>7, <3>3 DEF MakeReady, TypeOK, RequestsOK, IssueSteps, Request
  <2>2. CASE UNCHANGED grants
    BY <1>7, <2>2 DEF MakeReady, TypeOK, RequestsOK, IssueSteps
  <2> QED BY <1>7, <2>1, <2>2 DEF MakeReady
<1>8. CASE FailIssue(e)
  <2>1. CASE grants' = [grants EXCEPT ![e].state = "FAILED"]
    <3>1. grants[e] \in Grant /\ grants[e] # None
      BY <1>8 DEF FailIssue, TypeOK
    <3>2. [grants[e] EXCEPT !.state = "FAILED"] \in Grant
      BY <3>1, GrantUpdates
    <3>3. /\ grants' \in [Envelopes -> Grant \cup {None}]
          /\ \A f \in Envelopes : grants'[f] = None <=> grants[f] = None
      BY <2>1, <3>1, <3>2, GrantsUpdate DEF TypeInv
    <3>4. issuer' \in [Envelopes -> IssueSteps] /\ \A f \in Envelopes : issuer'[f] = "none" <=> issuer[f] = "none"
      BY <1>8 DEF FailIssue, TypeOK, IssueSteps
    <3> QED BY <1>8, <3>3, <3>4 DEF FailIssue, TypeOK, RequestsOK, Request
  <2>2. CASE UNCHANGED grants
    BY <1>8, <2>2 DEF FailIssue, TypeOK, RequestsOK, IssueSteps
  <2> QED BY <1>8, <2>1, <2>2 DEF FailIssue
<1>9. CASE IssuerTerminates(e)
  BY <1>9 DEF IssuerTerminates, TypeOK, RequestsOK, IssueSteps
<1> QED BY <1>1, <1>2, <1>3, <1>4, <1>5, <1>6, <1>7, <1>8, <1>9 DEF Issue

\* A request that is answered is forgotten.
LEMMA AnswerTypes ==
  ASSUME TypeInv, NEW r \in Requests, Answer(r)
  PROVE  /\ pc' \in [Requests -> {"idle", "proof", "act", "insert"}]
         /\ req' \in [Requests -> Request \cup {None}]
         /\ provedAt' \in [Requests -> Times \cup {None}]
         /\ \A q \in Requests : pc'[q] # "idle" => pc[q] # "idle" /\ req'[q] = req[q]
  BY DEF TypeInv, TypeOK, Answer

\* The requests stay well formed when rows stay rows.
LEMMA KeepRequests ==
  ASSUME TypeInv,
         \A e \in Envelopes : grants'[e] = None => grants[e] = None,
         \A q \in Requests : pc'[q] # "idle" => pc[q] # "idle" /\ req'[q] = req[q]
  PROVE  RequestsOK'
  BY DEF TypeInv, RequestsOK, Request

LEMMA ServeTypeInv == ASSUME TypeInv, NEW r \in Requests, Serve(r) PROVE TypeInv'
<1> DEFINE e == req[r].envelope
<1> USE GrantAssumption, NoneAssumption DEF RowsOK, At
<1>0. pc[r] # "idle" /\ req[r] \in Request /\ e \in Envelopes /\ grants[e] \in Grant
      /\ grants[e] # None /\ grants[e].expiresAt \in Times
  <2>1. pc[r] # "idle"
    BY DEF Serve, Prove, ReadForChallenge, InsertChallenge, Authorize, MintDownload,
           ConsumeDownload, Refuse
  <2>2. req[r] \in Request /\ grants[e] # None
    BY <2>1 DEF TypeInv, RequestsOK
  <2>3. e \in Envelopes
    BY <2>2 DEF Request
  <2>4. grants[e] \in Grant
    BY <2>2, <2>3 DEF TypeInv, TypeOK
  <2> QED BY <2>1, <2>2, <2>3, <2>4 DEF Grant
<1>1. CASE Prove(r)
  <2>1. proof_expiry(e) \in Times
    BY <1>0, TimesOK DEF proof_expiry, TypeInv
  <2>2. cache' \in [Envelopes -> Times \cup {None}]
    BY <1>0, <1>1, <2>1 DEF Prove, TypeInv, TypeOK
  <2>3. provedAt' \in [Requests -> Times \cup {None}]
    BY <1>1, TimesOK DEF Prove, TypeInv, TypeOK
  <2>4. RequestsOK'
    BY <1>0, <1>1, KeepRequests DEF Prove, TypeInv, TypeOK
  <2> QED BY <1>1, <2>2, <2>3, <2>4 DEF Prove, TypeInv, TypeOK
<1>2. CASE ReadForChallenge(r)
  <2>1. RequestsOK'
    BY <1>0, <1>2, KeepRequests DEF ReadForChallenge, TypeInv, TypeOK
  <2> QED BY <1>2, <2>1 DEF ReadForChallenge, TypeInv, TypeOK
<1>3. CASE InsertChallenge(r)
  <2>1. Earlier(now + ChallengeTTL, grants[e].expiresAt) \in Times
    BY <1>0, TimesOK DEF TypeInv
  <2>2. challenges' \in [Challenges -> Challenge \cup {None}]
    BY <1>0, <1>3, <2>1 DEF InsertChallenge, TypeInv, TypeOK, Challenge
  <2>3. RequestsOK'
    BY <1>3, AnswerTypes, KeepRequests DEF InsertChallenge
  <2> QED BY <1>3, <2>2, <2>3, AnswerTypes DEF InsertChallenge, TypeInv, TypeOK
<1>4. CASE Authorize(r)
  <2> DEFINE c == req[r].token
  <2>1. Earlier(now + TicketTTL, grants[e].expiresAt) \in Times
    BY <1>0, TimesOK DEF TypeInv
  <2>2. c \in Challenges /\ challenges[c] \in Challenge
    BY <1>0, <1>4 DEF Authorize, authorizable, TypeInv, TypeOK, RequestsOK
  <2>3. challenges' \in [Challenges -> Challenge \cup {None}]
    BY <1>4, <2>2 DEF Authorize, TypeInv, TypeOK, Challenge
  <2>4. tickets' \in [Tickets -> Ticket \cup {None}]
    BY <1>0, <1>4, <2>1 DEF Authorize, TypeInv, TypeOK, Ticket
  <2>5. /\ grants' \in [Envelopes -> Grant \cup {None}]
        /\ \A f \in Envelopes : grants'[f] = None <=> grants[f] = None
    <3>1. [grants[e] EXCEPT !.authUsed = TRUE] \in Grant
      BY <1>0, GrantUpdates
    <3> QED BY <1>0, <1>4, <3>1, GrantsUpdate DEF Authorize
  <2>6. RequestsOK'
    BY <1>4, <2>5, AnswerTypes, KeepRequests DEF Authorize
  <2>7. authorizedAt' \in [Envelopes -> Times \cup {None}]
    BY <1>4, TimesOK DEF Authorize, TypeInv, TypeOK
  <2> QED BY <1>4, <2>3, <2>4, <2>5, <2>6, <2>7, AnswerTypes DEF Authorize, TypeInv, TypeOK
<1>5. CASE MintDownload(r)
  <2> DEFINE t == req[r].token
  <2>1. t \in Tickets /\ tickets[t] \in Ticket
    BY <1>0, <1>5 DEF MintDownload, TypeInv, TypeOK, RequestsOK
  <2>2. download_expiry(t) \in Times
    BY <2>1, TimesOK DEF download_expiry, TypeInv, Ticket
  <2>3. downloads' \in [Downloads -> Download \cup {None}]
    BY <1>0, <1>5, <2>2 DEF MintDownload, TypeInv, TypeOK, Download
  <2>4. ticket_left(t) \in 0..MaxDownloads
    BY <1>5, <2>1 DEF MintDownload, ticket_left, ticket_usable, Ticket
  <2>5. tickets' \in [Tickets -> Ticket \cup {None}]
    BY <1>5, <2>1, <2>4 DEF MintDownload, TypeInv, TypeOK, Ticket
  <2>6. RequestsOK'
    BY <1>5, AnswerTypes, KeepRequests DEF MintDownload
  <2> QED BY <1>5, <2>3, <2>5, <2>6, AnswerTypes DEF MintDownload, TypeInv, TypeOK
<1>6. CASE ConsumeDownload(r)
  <2> DEFINE d == req[r].token
  <2>1. d \in Downloads /\ downloads[d] \in Download
    BY <1>0, <1>6 DEF ConsumeDownload, TypeInv, TypeOK, RequestsOK
  <2>2. downloads' \in [Downloads -> Download \cup {None}]
    BY <1>6, <2>1 DEF ConsumeDownload, TypeInv, TypeOK, Download
  <2>3. servedAt' \in [Downloads -> Times \cup {None}]
    BY <1>6, TimesOK DEF ConsumeDownload, TypeInv, TypeOK
  <2>4. RequestsOK'
    BY <1>6, AnswerTypes, KeepRequests DEF ConsumeDownload
  <2> QED BY <1>6, <2>2, <2>3, <2>4, AnswerTypes DEF ConsumeDownload, TypeInv, TypeOK
<1>7. CASE Refuse(r)
  <2>1. RequestsOK'
    BY <1>7, AnswerTypes, KeepRequests DEF Refuse
  <2> QED BY <1>7, <2>1, AnswerTypes DEF Refuse, TypeInv, TypeOK
<1> QED BY <1>1, <1>2, <1>3, <1>4, <1>5, <1>6, <1>7 DEF Serve

LEMMA ArriveTypeInv ==
  ASSUME TypeInv, NEW r \in Requests, NEW e \in Envelopes, Arrive(r, e) PROVE TypeInv'
<1> USE NoneAssumption DEF RowsOK, TypeInv
<1>1. PICK kind, secret :
        /\ View(r, kind, e, secret)
        /\ \/ kind = "challenge" /\ secret = None
           \/ kind = "authorize" /\ secret \in Challenges
           \/ kind = "mint" /\ secret \in Tickets
           \/ kind = "package" /\ secret \in Downloads
  BY DEF Arrive
<1>2. [kind |-> kind, envelope |-> e, token |-> secret] \in Request
  BY <1>1 DEF Request
<1>3. RequestsOK'
  BY <1>1, <1>2 DEF View, recorded, RequestsOK, TypeOK
<1> QED BY <1>1, <1>2, <1>3 DEF View, TypeOK

LEMMA OtherTypeInv ==
  ASSUME TypeInv, \/ \E e \in Envelopes : Consume(e) \/ Revoke(e) \/ RemoveBundle(e)
                  \/ Reconcile \/ ReconcileSession
                  \/ Tick \/ CloseSession \/ LoadSession \/ WriteSession
  PROVE  TypeInv'
<1> USE GrantAssumption, NoneAssumption DEF RowsOK
<1>1. ASSUME NEW e \in Envelopes, Consume(e) PROVE TypeInv'
  <2>1. grants[e] \in Grant /\ grants[e] # None
    BY <1>1 DEF Consume, consumable, recorded, TypeInv, TypeOK
  <2>2. [grants[e] EXCEPT !.used = TRUE] \in Grant
    BY <2>1, GrantUpdates
  <2>3. /\ grants' \in [Envelopes -> Grant \cup {None}]
        /\ \A f \in Envelopes : grants'[f] = None <=> grants[f] = None
    BY <1>1, <2>1, <2>2, GrantsUpdate DEF Consume
  <2>4. RequestsOK'
    BY <1>1, <2>3, KeepRequests DEF Consume
  <2>5. consumedAt' \in [Envelopes -> Times \cup {None}]
    BY <1>1, TimesOK DEF Consume, TypeInv, TypeOK
  <2> QED BY <1>1, <2>3, <2>4, <2>5 DEF Consume, TypeInv, TypeOK
<1>2. ASSUME NEW e \in Envelopes, Revoke(e) PROVE TypeInv'
  BY <1>2, TimesOK DEF Revoke, TypeInv, TypeOK, RequestsOK
<1>3. ASSUME NEW e \in Envelopes, RemoveBundle(e) PROVE TypeInv'
  BY <1>3 DEF RemoveBundle, TypeInv, TypeOK, RequestsOK
<1>4. CASE Reconcile
  <2>1. \A e \in Envelopes : interrupted(e) =>
          grants[e] # None /\ [grants[e] EXCEPT !.state = "FAILED"] \in Grant
    BY GrantUpdates DEF interrupted, TypeInv, TypeOK
  <2>2. /\ grants' \in [Envelopes -> Grant \cup {None}]
        /\ \A f \in Envelopes : grants'[f] = None <=> grants[f] = None
    BY <1>4, <2>1 DEF Reconcile, TypeInv, TypeOK
  <2>3. RequestsOK'
    BY <1>4, <2>2, KeepRequests DEF Reconcile
  <2> QED BY <1>4, <2>2, <2>3 DEF Reconcile, TypeInv, TypeOK
<1>5. CASE ReconcileSession
  <2>1. flag' \in BOOLEAN
    BY <1>5 DEF ReconcileSession, TypeInv, TypeOK
  <2> QED BY <1>5, <2>1 DEF ReconcileSession, TypeInv, TypeOK, RequestsOK
<1>6. CASE Tick
  BY <1>6 DEF Tick, TypeInv, TypeOK, RequestsOK
<1>7. CASE CloseSession
  BY <1>7 DEF CloseSession, TypeInv, TypeOK, RequestsOK
<1>8. CASE LoadSession
  BY <1>8 DEF LoadSession, TypeInv, TypeOK, RequestsOK
<1>9. CASE WriteSession
  <2>1. flag' \in BOOLEAN
    BY <1>9 DEF WriteSession, TypeInv, TypeOK
  <2> QED BY <1>9, <2>1 DEF WriteSession, TypeInv, TypeOK, RequestsOK
<1> QED BY <1>1, <1>2, <1>3, <1>4, <1>5, <1>6, <1>7, <1>8, <1>9

LEMMA StutterTypeInv == TypeInv /\ UNCHANGED vars => TypeInv'
  BY DEF TypeInv, TypeOK, RowsOK, RequestsOK, vars

LEMMA NextTypeInv == TypeInv /\ [Next]_vars => TypeInv'
  BY IssueTypeInv, ServeTypeInv, ArriveTypeInv, OtherTypeInv, StutterTypeInv DEF Next

\* Every table, every file and every request of the trusted ledger keeps its
\* type; in particular a ticket never counts below zero.
THEOREM GrantTypeCorrect == Spec => []TypeOK
<1>1. TypeInv => TypeOK
  BY DEF TypeInv
<1> QED BY <1>1, InitTypeInv, NextTypeInv, PTL DEF Spec

-----------------------------------------------------------------------------
(* Issuance: the invariant that orders the stores. *)

IssueInv ==
  /\ ReadyIsPrepared
  /\ \A e \in Envelopes : issuer[e] = "ready" => e \in prepared
  /\ \A e \in Envelopes : grants[e] # None => ledger
  /\ \A e \in Envelopes : grants[e] # None /\ grants[e].used => grants[e].state = "READY"

\* What a step may do to a row.
RowStep ==
  \A e \in Envelopes : grants[e] # None =>
    /\ grants'[e] # None
    /\ grants[e].state = "FAILED" => grants'[e].state = "FAILED"
    /\ grants[e].used => grants'[e].used /\ grants'[e].state = "READY"
    /\ grants[e].state = "PREPARING" /\ issuer[e] = "done" => grants'[e].state # "READY"

\* Steps that touch none of the stores.
LEMMA FrameIssueInv ==
  ASSUME IssueInv, UNCHANGED <<grants, issuer, prepared, ledger>> PROVE IssueInv' /\ RowStep
  BY DEF IssueInv, ReadyIsPrepared, required, RowStep

LEMMA IssueIssueInv ==
  ASSUME TypeInv, IssueInv, NEW e \in Envelopes, Issue(e) PROVE IssueInv' /\ RowStep
<1> USE NoneAssumption DEF TypeInv, TypeOK, RowsOK, IssueInv, ReadyIsPrepared, required, RowStep,
                           IssuerAt
<1>1. CASE BeginIssue(e)
  BY <1>1 DEF BeginIssue
<1>2. CASE Sign(e) \/ VerifyStaged(e) \/ Publish(e) \/ RegisterSession(e) \/ IssuerTerminates(e)
  BY <1>2 DEF Sign, VerifyStaged, Publish, RegisterSession, IssuerTerminates
<1>3. CASE AuditPrepared(e)
  BY <1>3 DEF AuditPrepared
<1>4. CASE MakeReady(e)
  <2> DEFINE g == [grants[e] EXCEPT !.state = "READY", !.network = (e \in Network)]
  <2>1. CASE preparing(e) /\ grants' = [grants EXCEPT ![e] = g] /\ IssuerAt(e, "done")
    <3>1. grants[e] \in Grant /\ issuer[e] = "ready" /\ UNCHANGED <<prepared, ledger>>
      BY <1>4 DEF MakeReady
    <3>2. (e \in Network) \in BOOLEAN
      OBVIOUS
    <3>3. g \in Grant
      BY <3>1, <3>2, GrantUpdates
    <3>4. g.state = "READY" /\ g.network = (e \in Network) /\ g.used = grants[e].used
      BY <3>1, <3>2, GrantFields
    <3>5. grants'[e] = g /\ \A f \in Envelopes : f # e => grants'[f] = grants[f]
      BY <2>1
    <3>6. issuer'[e] = "done" /\ \A f \in Envelopes : f # e => issuer'[f] = issuer[f]
      BY <2>1
    <3>7. grants[e].state = "PREPARING"
      BY <2>1 DEF preparing
    <3>8. grants[e] # None
      BY <3>1, NoGrant
    <3> HIDE DEF g
    <3>9. ReadyIsPrepared'
      <4>1. SUFFICES ASSUME NEW f \in Envelopes, grants'[f] # None, grants'[f].state = "READY"
                     PROVE  /\ f \in prepared /\ ledger
                            /\ grants'[f].network <=> f \in Network
                            /\ issuer'[f] = "done"
        BY <3>1
      <4>2. CASE f # e
        BY <3>5, <3>6, <4>1, <4>2
      <4>3. CASE f = e
        <5>1. e \in prepared /\ ledger
          BY <3>1, <3>8
        <5>2. g.network <=> e \in Network
          BY <3>4
        <5> QED BY <3>5, <3>6, <4>3, <5>1, <5>2
      <4> QED BY <4>2, <4>3
    <3>10. RowStep
      <4>1. g # None
        BY <3>3, NoGrant
      <4> QED BY <3>1, <3>4, <3>5, <3>7, <4>1
    <3>11. \A f \in Envelopes : grants'[f] # None /\ grants'[f].used => grants'[f].state = "READY"
      BY <3>4, <3>5
    <3>12. \A f \in Envelopes : issuer'[f] = "ready" => f \in prepared'
      BY <3>1, <3>6
    <3>13. \A f \in Envelopes : grants'[f] # None => ledger'
      BY <3>1, <3>5, <3>8
    <3> QED BY <3>9, <3>10, <3>11, <3>12, <3>13
  <2>2. CASE UNCHANGED grants /\ IssuerAt(e, "fail")
    BY <1>4, <2>2 DEF MakeReady
  <2> QED BY <1>4, <2>1, <2>2 DEF MakeReady
<1>5. CASE FailIssue(e)
  BY <1>5 DEF FailIssue, preparing, Grant
<1> QED BY <1>1, <1>2, <1>3, <1>4, <1>5 DEF Issue

LEMMA OtherIssueInv ==
  ASSUME TypeInv, IssueInv, [Next]_vars, ~\E e \in Envelopes : Issue(e)
  PROVE  IssueInv' /\ RowStep
<1> USE NoneAssumption
<1>1. ASSUME NEW e \in Envelopes, Consume(e) PROVE IssueInv' /\ RowStep
  <2> DEFINE g == [grants[e] EXCEPT !.used = TRUE]
  <2>1. grants[e] \in Grant /\ grants[e].state = "READY"
    BY <1>1 DEF Consume, consumable, recorded, TypeInv, TypeOK
  <2>2. g \in Grant /\ g.used /\ g.state = grants[e].state /\ g.network = grants[e].network
    BY <2>1, GrantUpdates, GrantFields
  <2>3. grants'[e] = g /\ \A f \in Envelopes : f # e => grants'[f] = grants[f]
    BY <1>1 DEF Consume, TypeInv, TypeOK
  <2>4. UNCHANGED <<issuer, prepared, ledger>>
    BY <1>1 DEF Consume
  <2> HIDE DEF g
  <2> QED BY <2>1, <2>2, <2>3, <2>4 DEF IssueInv, ReadyIsPrepared, required, RowStep
<1>2. CASE Reconcile
  <2>1. \A e \in Envelopes :
          /\ interrupted(e) => grants[e] \in Grant /\ ~grants[e].used
                               /\ grants'[e] = [grants[e] EXCEPT !.state = "FAILED"]
          /\ ~interrupted(e) => grants'[e] = grants[e]
    BY <1>2 DEF Reconcile, interrupted, TypeInv, TypeOK
  <2>2. \A e \in Envelopes :
          interrupted(e) => /\ grants'[e].state = "FAILED" /\ ~grants'[e].used
                            /\ grants'[e] # None
    <3> SUFFICES ASSUME NEW e \in Envelopes, interrupted(e)
                 PROVE  grants'[e].state = "FAILED" /\ ~grants'[e].used /\ grants'[e] # None
      OBVIOUS
    <3> DEFINE g == [grants[e] EXCEPT !.state = "FAILED"]
    <3>1. g \in Grant /\ g.state = "FAILED" /\ g.used = grants[e].used
      BY <2>1, GrantUpdates, GrantFields
    <3>2. grants'[e] = g /\ ~grants[e].used
      BY <2>1
    <3> HIDE DEF g
    <3> QED BY <3>1, <3>2
  <2>3. ledger' = TRUE /\ UNCHANGED <<prepared, issuer>>
    BY <1>2 DEF Reconcile
  <2> QED BY <2>1, <2>2, <2>3 DEF IssueInv, ReadyIsPrepared, required, RowStep, interrupted
<1>3. ASSUME NEW r \in Requests, Serve(r) PROVE IssueInv' /\ RowStep
  <2>1. CASE Authorize(r)
    <3> DEFINE e == req[r].envelope
    <3>1. e \in Envelopes /\ grants[e] \in Grant
      BY <2>1 DEF Authorize, authorizable, recorded, At, TypeInv, TypeOK, RequestsOK, Request
    <3> DEFINE g == [grants[e] EXCEPT !.authUsed = TRUE]
    <3>2. grants'[e] = g /\ \A f \in Envelopes : f # e => grants'[f] = grants[f]
      BY <2>1, <3>1 DEF Authorize, TypeInv, TypeOK
    <3>4. g \in Grant /\ g.state = grants[e].state /\ g.network = grants[e].network
          /\ g.used = grants[e].used
      BY <3>1, GrantUpdates, GrantFields
    <3>3. UNCHANGED <<issuer, prepared, ledger>>
      BY <2>1 DEF Authorize
    <3> HIDE DEF g, e
    <3> QED BY <3>1, <3>2, <3>3, <3>4 DEF IssueInv, ReadyIsPrepared, required, RowStep
  <2>2. CASE ~Authorize(r)
    BY <1>3, <2>2, FrameIssueInv DEF Serve, Prove, ReadForChallenge, InsertChallenge,
       MintDownload, ConsumeDownload, Refuse
  <2> QED BY <2>1, <2>2
<1>4. ASSUME NEW r \in Requests, NEW e \in Envelopes, Arrive(r, e) PROVE IssueInv' /\ RowStep
  BY <1>4, FrameIssueInv DEF Arrive, View
<1>5. ASSUME NEW e \in Envelopes, Revoke(e) \/ RemoveBundle(e) PROVE IssueInv' /\ RowStep
  BY <1>5, FrameIssueInv DEF Revoke, RemoveBundle
<1>6. CASE ReconcileSession \/ Tick \/ CloseSession \/ LoadSession \/ WriteSession
  BY <1>6, FrameIssueInv DEF ReconcileSession, Tick, CloseSession, LoadSession, WriteSession
<1>7. CASE UNCHANGED vars
  BY <1>7, FrameIssueInv DEF vars
<1> QED BY <1>1, <1>2, <1>3, <1>4, <1>5, <1>6, <1>7 DEF Next

LEMMA NextIssueInv == TypeInv /\ IssueInv /\ [Next]_vars => IssueInv' /\ RowStep
  BY IssueIssueInv, OtherIssueInv

LEMMA InitIssueInv == Init => IssueInv
  BY DEF Init, IssueInv, ReadyIsPrepared

\* An envelope is READY only when its preparation has been audited, whatever
\* failed, was terminated or reconciled on the way.
THEOREM ReadyIsPreparedAlways == Spec => []ReadyIsPrepared
<1>1. IssueInv => ReadyIsPrepared
  BY DEF IssueInv
<1> QED BY <1>1, InitTypeInv, NextTypeInv, InitIssueInv, NextIssueInv, PTL DEF Spec

\* A failed envelope stays failed, a consumed one consumed, and what a terminated
\* issuer left is never made ready, whatever reconciles or finishes beside it.
THEOREM GrantsFinalAlways == Spec => GrantsFinal
<1>1. RowStep => [\A e \in Envelopes : grants[e] # None =>
       /\ grants'[e] # None
       /\ grants[e].state = "FAILED" => grants'[e].state = "FAILED"
       /\ grants[e].used => grants'[e].used /\ grants'[e].state = "READY"
       /\ grants[e].state = "PREPARING" /\ issuer[e] = "done" => grants'[e].state # "READY"]_vars
  BY DEF RowStep
<1> QED BY <1>1, InitTypeInv, NextTypeInv, InitIssueInv, NextIssueInv, PTL DEF Spec, GrantsFinal

-----------------------------------------------------------------------------
(* Authorization: the one-time secret bounds everything it leads to. *)

\* The history agrees with the rows.
HistoryOK ==
  \A e \in Envelopes :
    /\ authorizedAt[e] # None <=> grants[e] # None /\ grants[e].authUsed
    /\ consumedAt[e] # None <=> grants[e] # None /\ grants[e].used
    /\ authorizedAt[e] # None => authorizedAt[e] <= now
    /\ consumedAt[e] # None => consumedAt[e] <= now

\* An expiry within the authorization of an envelope and its lifetime.
Within(e, expiresAt) ==
  /\ authorizedAt[e] # None
  /\ expiresAt <= authorizedAt[e] + TicketTTL
  /\ expiresAt <= grants[e].expiresAt

TicketsOK == \A t \in Tickets : tickets[t] # None => Within(tickets[t].envelope, tickets[t].expiresAt)

DownloadsOK ==
  \A d \in Downloads :
    /\ downloads[d] # None => Within(downloads[d].envelope, downloads[d].expiresAt)
    /\ servedAt[d] # None =>
         /\ downloads[d] # None
         /\ servedAt[d] < downloads[d].expiresAt
         /\ servedAt[d] <= now
         /\ consumedAt[downloads[d].envelope] # None => servedAt[d] <= consumedAt[downloads[d].envelope]

AuthInv == HistoryOK /\ TicketsOK /\ DownloadsOK /\ OneTicket /\ UseIsAuthorized

\* Rows that are not authorized or consumed by the step, nor get a new expiry.
RowsKept ==
  \A e \in Envelopes :
    /\ grants[e] # None =>
         /\ grants'[e] # None
         /\ grants'[e].authUsed <=> grants[e].authUsed
         /\ grants'[e].used <=> grants[e].used
         /\ grants'[e].expiresAt = grants[e].expiresAt
    /\ grants[e] = None /\ grants'[e] # None => ~grants'[e].authUsed /\ ~grants'[e].used

LEMMA FrameAuthInv ==
  ASSUME TypeInv, TypeInv', AuthInv, RowsKept, now <= now',
         UNCHANGED <<tickets, downloads, authorizedAt, consumedAt, servedAt>>
  PROVE  AuthInv'
<1> USE GrantAssumption, NoneAssumption DEF TypeInv, TypeOK, Times
<1>1. HistoryOK'
  BY DEF AuthInv, HistoryOK, RowsKept
<1>2. \A e \in Envelopes : authorizedAt[e] # None => grants[e] # None /\ grants'[e].expiresAt = grants[e].expiresAt
  BY DEF AuthInv, HistoryOK, RowsKept
<1>3. TicketsOK'
  BY <1>2 DEF AuthInv, TicketsOK, Within, Ticket
<1>4. DownloadsOK'
  BY <1>2 DEF AuthInv, DownloadsOK, Within, Download
<1>5. OneTicket' /\ UseIsAuthorized'
  BY DEF AuthInv, OneTicket, UseIsAuthorized
<1> QED BY <1>1, <1>3, <1>4, <1>5 DEF AuthInv

\* A row replaced by one that agrees with it in these fields.
LEMMA RowKept ==
  ASSUME TypeInv, NEW e \in Envelopes, grants[e] # None, NEW g \in Grant,
         grants' = [grants EXCEPT ![e] = g],
         g.authUsed = grants[e].authUsed, g.used = grants[e].used, g.expiresAt = grants[e].expiresAt
  PROVE  RowsKept
  BY NoneAssumption DEF TypeInv, TypeOK, RowsKept

LEMMA IssueRowsKept == ASSUME TypeInv, NEW e \in Envelopes, Issue(e) PROVE RowsKept
<1>1. CASE BeginIssue(e)
  <2>1. grants[e] = None
    BY <1>1 DEF BeginIssue, TypeInv, RowsOK
  <2> QED BY <1>1, <2>1, NoneAssumption DEF BeginIssue, TypeInv, TypeOK, RowsKept
<1>2. CASE UNCHANGED grants
  BY <1>2 DEF RowsKept
<1>3. CASE MakeReady(e) /\ ~UNCHANGED grants
  <2> DEFINE g == [grants[e] EXCEPT !.state = "READY", !.network = (e \in Network)]
  <2>1. grants[e] \in Grant /\ grants[e] # None
    BY <1>3 DEF MakeReady, TypeInv, TypeOK, RowsOK
  <2>2. (e \in Network) \in BOOLEAN
    OBVIOUS
  <2>3. g \in Grant /\ g.authUsed = grants[e].authUsed /\ g.used = grants[e].used
        /\ g.expiresAt = grants[e].expiresAt
    <3>1. [grants[e] EXCEPT !.state = "READY", !.network = (e \in Network)] \in Grant
      BY <2>1, <2>2, GrantUpdates
    <3> QED BY <2>1, <2>2, <3>1, GrantFields
  <2>4. grants' = [grants EXCEPT ![e] = g]
    BY <1>3 DEF MakeReady
  <2> HIDE DEF g
  <2> QED BY <2>1, <2>3, <2>4, RowKept
<1>4. CASE FailIssue(e) /\ ~UNCHANGED grants
  <2> DEFINE g == [grants[e] EXCEPT !.state = "FAILED"]
  <2>1. grants[e] \in Grant /\ grants[e] # None
    BY <1>4 DEF FailIssue, TypeInv, TypeOK, RowsOK
  <2>2. g \in Grant /\ g.authUsed = grants[e].authUsed /\ g.used = grants[e].used
        /\ g.expiresAt = grants[e].expiresAt
    BY <2>1, GrantUpdates, GrantFields
  <2>3. grants' = [grants EXCEPT ![e] = g]
    BY <1>4 DEF FailIssue
  <2> HIDE DEF g
  <2> QED BY <2>1, <2>2, <2>3, RowKept
<1> QED BY <1>1, <1>2, <1>3, <1>4 DEF Issue, Sign, VerifyStaged, Publish, RegisterSession,
                                      AuditPrepared, IssuerTerminates

LEMMA ConsumeAuthInv ==
  ASSUME TypeInv, TypeInv', IssueInv, AuthInv, NEW e \in Envelopes, Consume(e) PROVE AuthInv'
<1> DEFINE g == [grants[e] EXCEPT !.used = TRUE]
<1> USE GrantAssumption, NoneAssumption
<1>1. /\ grants[e] \in Grant /\ grants[e] # None /\ ~grants[e].used
      /\ grants[e].state = "READY" /\ (grants[e].network => grants[e].authUsed)
  BY DEF Consume, consumable, recorded, TypeInv, TypeOK
<1>2. g.used /\ g.authUsed = grants[e].authUsed /\ g.expiresAt = grants[e].expiresAt /\ g # None
  <2>1. g \in Grant
    BY <1>1, GrantUpdates
  <2>2. g.used = TRUE /\ g.authUsed = grants[e].authUsed /\ g.expiresAt = grants[e].expiresAt
    BY <1>1, GrantFields
  <2> HIDE DEF g
  <2> QED BY <2>1, <2>2
<1>3. grants'[e] = g /\ \A f \in Envelopes : f # e => grants'[f] = grants[f]
  BY DEF Consume, TypeInv, TypeOK
<1> HIDE DEF g
<1>4. /\ now \in Nat /\ now # None
      /\ consumedAt'[e] = now /\ \A f \in Envelopes : f # e => consumedAt'[f] = consumedAt[f]
      /\ UNCHANGED <<now, tickets, downloads, authorizedAt, servedAt>>
  BY DEF Consume, TypeInv, TypeOK
<1>5. HistoryOK'
  BY <1>1, <1>2, <1>3, <1>4 DEF AuthInv, HistoryOK
<1>6. \A f \in Envelopes : grants[f] # None => grants'[f].expiresAt = grants[f].expiresAt
  BY <1>2, <1>3
<1>7. TicketsOK'
  BY <1>4, <1>6 DEF AuthInv, TicketsOK, HistoryOK, Within, TypeInv, TypeOK, Ticket
<1>8. DownloadsOK'
  <2>1. \A d \in Downloads : downloads[d] # None => downloads[d].envelope \in Envelopes
    BY DEF TypeInv, TypeOK, Download
  <2> QED BY <1>4, <1>6, <2>1 DEF AuthInv, DownloadsOK, HistoryOK, Within
<1>9. OneTicket'
  BY <1>4 DEF AuthInv, OneTicket
<1>10. UseIsAuthorized'
  BY <1>1, <1>4 DEF AuthInv, HistoryOK, UseIsAuthorized, IssueInv, ReadyIsPrepared
<1> QED BY <1>5, <1>7, <1>8, <1>9, <1>10 DEF AuthInv

LEMMA AuthorizeAuthInv ==
  ASSUME TypeInv, TypeInv', AuthInv, NEW r \in Requests, Authorize(r) PROVE AuthInv'
<1> DEFINE e == req[r].envelope
           g == [grants[e] EXCEPT !.authUsed = TRUE]
<1> USE GrantAssumption, NoneAssumption
<1>1. e \in Envelopes /\ grants[e] \in Grant /\ grants[e] # None /\ ~grants[e].used
      /\ ~grants[e].authUsed /\ grants[e].expiresAt \in Times
  <2>1. e \in Envelopes /\ grants[e] # None /\ ~grants[e].used /\ ~grants[e].authUsed
    BY DEF Authorize, authorizable, recorded, At, TypeInv, RequestsOK, Request
  <2>2. grants[e] \in Grant
    BY <2>1 DEF TypeInv, TypeOK
  <2> QED BY <2>1, <2>2 DEF Grant
<1>2. g.authUsed /\ g.used = grants[e].used /\ g.expiresAt = grants[e].expiresAt /\ g # None
  <2>1. g \in Grant
    BY <1>1, GrantUpdates
  <2>2. g.authUsed = TRUE /\ g.used = grants[e].used /\ g.expiresAt = grants[e].expiresAt
    BY <1>1, GrantFields
  <2> HIDE DEF g
  <2> QED BY <2>1, <2>2
<1>3. grants'[e] = g /\ \A f \in Envelopes : f # e => grants'[f] = grants[f]
  <2>1. grants' = [grants EXCEPT ![e] = g]
    BY DEF Authorize
  <2> HIDE DEF e, g
  <2> QED BY <1>1, <2>1 DEF TypeInv, TypeOK
<1>4. PICK t \in Tickets :
        /\ tickets[t] = None
        /\ tickets' = [tickets EXCEPT ![t] =
             [envelope |-> e, expiresAt |-> Earlier(now + TicketTTL, grants[e].expiresAt),
              remaining |-> MaxDownloads]]
  BY DEF Authorize
<1> HIDE DEF g
<1>5. /\ now \in Nat /\ now # None
      /\ authorizedAt'[e] = now /\ \A f \in Envelopes : f # e => authorizedAt'[f] = authorizedAt[f]
      /\ UNCHANGED <<now, downloads, consumedAt, servedAt>>
  BY <1>1 DEF Authorize, TypeInv, TypeOK
<1>6. authorizedAt[e] = None /\ consumedAt[e] = None
  BY <1>1 DEF AuthInv, HistoryOK
<1>7. HistoryOK'
  BY <1>1, <1>2, <1>3, <1>5 DEF AuthInv, HistoryOK
<1>8. \A f \in Envelopes : grants[f] # None => grants'[f].expiresAt = grants[f].expiresAt
  BY <1>2, <1>3
<1>9. /\ tickets'[t] # None /\ tickets'[t].envelope = e
      /\ tickets'[t].expiresAt <= now + TicketTTL /\ tickets'[t].expiresAt <= grants[e].expiresAt
      /\ \A u \in Tickets : u # t => tickets'[u] = tickets[u]
  <2>1. Earlier(now + TicketTTL, grants[e].expiresAt) <= now + TicketTTL
        /\ Earlier(now + TicketTTL, grants[e].expiresAt) <= grants[e].expiresAt
        /\ Earlier(now + TicketTTL, grants[e].expiresAt) \in Times
    BY <1>1, TimesOK DEF TypeInv
  <2>2. [envelope |-> e, expiresAt |-> Earlier(now + TicketTTL, grants[e].expiresAt),
         remaining |-> MaxDownloads] \in Ticket
    BY <1>1, <2>1 DEF Ticket
  <2> QED BY <1>4, <2>1, <2>2 DEF TypeInv, TypeOK
<1>10. \A u \in Tickets : tickets[u] # None => tickets[u].envelope \in Envelopes /\ tickets[u].envelope # e
  BY <1>6 DEF AuthInv, TicketsOK, Within, TypeInv, TypeOK, Ticket
<1>11. \A d \in Downloads : downloads[d] # None => downloads[d].envelope \in Envelopes /\ downloads[d].envelope # e
  BY <1>6 DEF AuthInv, DownloadsOK, Within, TypeInv, TypeOK, Download
<1> HIDE DEF e
<1>12. TicketsOK'
  BY <1>1, <1>5, <1>8, <1>9, <1>10 DEF AuthInv, TicketsOK, HistoryOK, Within
<1>13. DownloadsOK'
  BY <1>5, <1>8, <1>11 DEF AuthInv, DownloadsOK, HistoryOK, Within
<1>14. OneTicket'
  BY <1>9, <1>10 DEF AuthInv, OneTicket
<1>15. UseIsAuthorized'
  BY <1>5, <1>6 DEF AuthInv, UseIsAuthorized
<1> QED BY <1>7, <1>12, <1>13, <1>14, <1>15 DEF AuthInv

LEMMA MintAuthInv ==
  ASSUME TypeInv, TypeInv', AuthInv, NEW r \in Requests, MintDownload(r) PROVE AuthInv'
<1> DEFINE e == req[r].envelope
           t == req[r].token
<1> USE GrantAssumption, NoneAssumption
<1>1. e \in Envelopes /\ t \in Tickets /\ tickets[t] \in Ticket /\ tickets[t] # None
      /\ tickets[t].envelope = e /\ tickets[t].expiresAt \in Times
  BY DEF MintDownload, At, TypeInv, TypeOK, RequestsOK, Request, Ticket
<1>2. PICK d \in Downloads :
        /\ downloads[d] = None
        /\ downloads' = [downloads EXCEPT ![d] =
             [envelope |-> e, expiresAt |-> download_expiry(t), used |-> FALSE]]
  BY DEF MintDownload
<1>3. download_expiry(t) \in Times /\ download_expiry(t) <= tickets[t].expiresAt
  BY <1>1, TimesOK DEF download_expiry, TypeInv
<1>4. [envelope |-> e, expiresAt |-> download_expiry(t), used |-> FALSE] \in Download
  BY <1>1, <1>3 DEF Download
<1>5. /\ downloads'[d] # None /\ downloads'[d].envelope = e
      /\ downloads'[d].expiresAt <= tickets[t].expiresAt /\ downloads'[d].expiresAt \in Times
      /\ \A x \in Downloads : x # d => downloads'[x] = downloads[x]
  BY <1>2, <1>3, <1>4 DEF TypeInv, TypeOK
<1>6. UNCHANGED <<now, grants, authorizedAt, consumedAt, servedAt>>
  BY DEF MintDownload
<1>7. \A u \in Tickets : /\ tickets'[u] # None <=> tickets[u] # None
                         /\ tickets[u] # None => /\ tickets'[u].envelope = tickets[u].envelope
                                                 /\ tickets'[u].expiresAt = tickets[u].expiresAt
  <2>1. tickets' = [tickets EXCEPT ![t].remaining = ticket_left(t)]
    BY DEF MintDownload
  <2>2. tickets'[t] = [tickets[t] EXCEPT !.remaining = ticket_left(t)]
        /\ \A u \in Tickets : u # t => tickets'[u] = tickets[u]
    BY <1>1, <2>1 DEF TypeInv, TypeOK
  <2>3. tickets'[t] \in Ticket
    <3>1. ticket_left(t) \in 0..MaxDownloads
      BY <1>1 DEF MintDownload, ticket_left, ticket_usable, Ticket
    <3> QED BY <1>1, <2>2, <3>1 DEF Ticket
  <2>4. tickets'[t].envelope = tickets[t].envelope /\ tickets'[t].expiresAt = tickets[t].expiresAt
    BY <1>1, <2>2 DEF Ticket
  <2> QED BY <1>1, <2>2, <2>3, <2>4
<1>8. Within(e, tickets[t].expiresAt) /\ authorizedAt[e] \in Times /\ grants[e].expiresAt \in Times
  BY <1>1 DEF AuthInv, TicketsOK, HistoryOK, Within, TypeInv, TypeOK, Grant
<1> HIDE DEF e, t
<1>9. Within(e, downloads'[d].expiresAt)
  BY <1>1, <1>5, <1>8 DEF Within, Times
<1>10. servedAt[d] = None
  BY <1>2 DEF AuthInv, DownloadsOK
<1>11. HistoryOK' /\ UseIsAuthorized'
  BY <1>6 DEF AuthInv, HistoryOK, UseIsAuthorized
<1>12. TicketsOK' /\ OneTicket'
  BY <1>6, <1>7 DEF AuthInv, TicketsOK, OneTicket, Within
<1>13. DownloadsOK'
  BY <1>5, <1>6, <1>9, <1>10 DEF AuthInv, DownloadsOK, Within
<1> QED BY <1>11, <1>12, <1>13 DEF AuthInv

LEMMA DownloadAuthInv ==
  ASSUME TypeInv, TypeInv', AuthInv, NEW r \in Requests, ConsumeDownload(r) PROVE AuthInv'
<1> DEFINE e == req[r].envelope
           d == req[r].token
<1> USE GrantAssumption, NoneAssumption
<1>1. e \in Envelopes /\ d \in Downloads /\ downloads[d] \in Download /\ downloads[d] # None
      /\ downloads[d].envelope = e /\ now < downloads[d].expiresAt
      /\ grants[e] # None /\ ~grants[e].used
  BY DEF ConsumeDownload, downloadable, recorded, At, TypeInv, TypeOK, RequestsOK, Request, Download
<1>2. \A x \in Downloads : /\ downloads'[x] # None <=> downloads[x] # None
                           /\ downloads[x] # None => /\ downloads'[x].envelope = downloads[x].envelope
                                                     /\ downloads'[x].expiresAt = downloads[x].expiresAt
  <2>1. downloads'[d] = [downloads[d] EXCEPT !.used = TRUE]
        /\ \A x \in Downloads : x # d => downloads'[x] = downloads[x]
    BY <1>1 DEF ConsumeDownload, TypeInv, TypeOK
  <2>2. downloads'[d] \in Download /\ downloads'[d].envelope = downloads[d].envelope
        /\ downloads'[d].expiresAt = downloads[d].expiresAt
    BY <1>1, <2>1 DEF Download
  <2> QED BY <1>1, <2>1, <2>2
<1>3. /\ UNCHANGED <<now, grants, tickets, authorizedAt, consumedAt>>
      /\ now \in Nat /\ now # None
      /\ servedAt'[d] = now /\ \A x \in Downloads : x # d => servedAt'[x] = servedAt[x]
  BY <1>1 DEF ConsumeDownload, TypeInv, TypeOK
<1>4. consumedAt[e] = None
  BY <1>1 DEF AuthInv, HistoryOK
<1> HIDE DEF e, d
<1>5. HistoryOK' /\ UseIsAuthorized' /\ TicketsOK' /\ OneTicket'
  BY <1>3 DEF AuthInv, HistoryOK, UseIsAuthorized, TicketsOK, OneTicket, Within
<1>6. DownloadsOK'
  BY <1>1, <1>2, <1>3, <1>4 DEF AuthInv, DownloadsOK, Within
<1> QED BY <1>5, <1>6 DEF AuthInv

LEMMA NextAuthInv ==
  TypeInv /\ IssueInv /\ AuthInv /\ [Next]_vars => AuthInv'
<1> SUFFICES ASSUME TypeInv, IssueInv, AuthInv, [Next]_vars PROVE AuthInv'
  OBVIOUS
<1>0. TypeInv'
  BY NextTypeInv
<1> USE GrantAssumption, NoneAssumption
<1>a. now <= now
  BY DEF TypeInv, TypeOK
<1>b. ASSUME UNCHANGED grants PROVE RowsKept
  BY <1>b DEF RowsKept
<1>1. ASSUME NEW e \in Envelopes, Issue(e) PROVE AuthInv'
  <2>1. UNCHANGED <<now, tickets, downloads, authorizedAt, consumedAt, servedAt>>
    BY <1>1 DEF Issue, BeginIssue, Sign, VerifyStaged, Publish, RegisterSession, AuditPrepared,
                MakeReady, FailIssue, IssuerTerminates
  <2> QED BY <1>0, <1>1, <1>a, <2>1, IssueRowsKept, FrameAuthInv
<1>2. ASSUME NEW e \in Envelopes, Consume(e) PROVE AuthInv'
  BY <1>0, <1>2, ConsumeAuthInv
<1>3. ASSUME NEW e \in Envelopes, Revoke(e) \/ RemoveBundle(e) PROVE AuthInv'
  BY <1>0, <1>3, <1>a, <1>b, FrameAuthInv DEF Revoke, RemoveBundle
<1>4. CASE Reconcile
  <2>1. RowsKept
    <3> SUFFICES ASSUME NEW e \in Envelopes
                 PROVE  /\ grants[e] # None =>
                             /\ grants'[e] # None
                             /\ grants'[e].authUsed <=> grants[e].authUsed
                             /\ grants'[e].used <=> grants[e].used
                             /\ grants'[e].expiresAt = grants[e].expiresAt
                        /\ grants[e] = None => grants'[e] = None
      BY DEF RowsKept
    <3>1. CASE interrupted(e)
      <4> DEFINE g == [grants[e] EXCEPT !.state = "FAILED"]
      <4>1. grants[e] \in Grant /\ grants[e] # None /\ grants'[e] = g
        BY <1>4, <3>1 DEF Reconcile, interrupted, TypeInv, TypeOK
      <4>2. g \in Grant /\ g.authUsed = grants[e].authUsed /\ g.used = grants[e].used
            /\ g.expiresAt = grants[e].expiresAt
        BY <4>1, GrantUpdates, GrantFields
      <4> HIDE DEF g
      <4> QED BY <4>1, <4>2
    <3>2. CASE ~interrupted(e)
      BY <1>4, <3>2 DEF Reconcile
    <3> QED BY <3>1, <3>2
  <2> QED BY <1>0, <1>4, <1>a, <2>1, FrameAuthInv DEF Reconcile
<1>5. CASE ReconcileSession \/ CloseSession \/ LoadSession \/ WriteSession
  BY <1>0, <1>5, <1>a, <1>b, FrameAuthInv DEF ReconcileSession, CloseSession, LoadSession, WriteSession
<1>6. CASE Tick
  <2>1. now <= now'
    BY <1>6 DEF Tick, TypeInv, TypeOK
  <2> QED BY <1>0, <1>6, <1>b, <2>1, FrameAuthInv DEF Tick
<1>7. ASSUME NEW r \in Requests, Serve(r) PROVE AuthInv'
  <2>1. CASE Prove(r) \/ ReadForChallenge(r) \/ InsertChallenge(r) \/ Refuse(r)
    BY <1>0, <2>1, <1>a, <1>b, FrameAuthInv DEF Prove, ReadForChallenge, InsertChallenge, Refuse
  <2> QED BY <1>0, <1>7, <2>1, AuthorizeAuthInv, MintAuthInv, DownloadAuthInv DEF Serve
<1>8. ASSUME NEW r \in Requests, NEW e \in Envelopes, Arrive(r, e) PROVE AuthInv'
  BY <1>0, <1>8, <1>a, <1>b, FrameAuthInv DEF Arrive, View
<1>9. CASE UNCHANGED vars
  BY <1>0, <1>9, <1>a, <1>b, FrameAuthInv DEF vars
<1> QED BY <1>1, <1>2, <1>3, <1>4, <1>5, <1>6, <1>7, <1>8, <1>9 DEF Next

LEMMA InitAuthInv == Init => AuthInv
  BY DEF Init, AuthInv, HistoryOK, TicketsOK, DownloadsOK, OneTicket, UseIsAuthorized

\* However many challenges of an invitation race, its secret yields one ticket.
THEOREM OneTicketAlways == Spec => []OneTicket
<1>1. AuthInv => OneTicket
  BY DEF AuthInv
<1> QED BY <1>1, InitTypeInv, NextTypeInv, InitIssueInv, NextIssueInv, InitAuthInv, NextAuthInv,
           PTL DEF Spec

\* A network invitation is consumed only after its authorization.
THEOREM UseIsAuthorizedAlways == Spec => []UseIsAuthorized
<1>1. AuthInv => UseIsAuthorized
  BY DEF AuthInv
<1> QED BY <1>1, InitTypeInv, NextTypeInv, InitIssueInv, NextIssueInv, InitAuthInv, NextAuthInv,
           PTL DEF Spec

\* Every archive is sent within the validity of its authorization and of its
\* envelope and before the envelope is consumed.
THEOREM ServedInWindowAlways == Spec => []ServedInWindow
<1>1. TypeInv /\ AuthInv => ServedInWindow
  <2> SUFFICES ASSUME TypeInv, AuthInv, NEW d \in Downloads, servedAt[d] # None
               PROVE  LET e == downloads[d].envelope IN
                        /\ authorizedAt[e] # None /\ servedAt[d] < authorizedAt[e] + TicketTTL
                        /\ servedAt[d] < grants[e].expiresAt
                        /\ consumedAt[e] # None => servedAt[d] <= consumedAt[e]
    BY DEF ServedInWindow
  <2> DEFINE e == downloads[d].envelope
  <2>1. e \in Envelopes /\ downloads[d].expiresAt \in Times
    BY DEF AuthInv, DownloadsOK, TypeInv, TypeOK, Download
  <2>2. Within(e, downloads[d].expiresAt) /\ servedAt[d] < downloads[d].expiresAt
        /\ (consumedAt[e] # None => servedAt[d] <= consumedAt[e])
    BY DEF AuthInv, DownloadsOK
  <2>3. authorizedAt[e] \in Times /\ grants[e].expiresAt \in Times /\ servedAt[d] \in Times
    BY <2>1, <2>2 DEF AuthInv, HistoryOK, Within, TypeInv, TypeOK, Grant
  <2> HIDE DEF e
  <2> QED BY <2>1, <2>2, <2>3, GrantAssumption DEF Within, Times, e
<1> QED BY <1>1, InitTypeInv, NextTypeInv, InitIssueInv, NextIssueInv, InitAuthInv, NextAuthInv,
           PTL DEF Spec
-----------------------------------------------------------------------------
(* Revocation: what a cached proof is worth after it. *)

\* A revoked envelope is not enrolled again, and a cached proof ends soon after
\* it was made and soon after the revocation.
ProofCacheOK ==
  \A e \in Envelopes :
    /\ revokedAt[e] # None => e \notin enrolled
    /\ cache[e] # None => cache[e] <= now + ProofTTL
    /\ cache[e] # None /\ revokedAt[e] # None => cache[e] <= revokedAt[e] + ProofTTL

\* A request that goes on was proved in the past, and in time.
ProofsInTime ==
  \A r \in Requests : pc[r] \in {"act", "insert"} =>
    /\ provedAt[r] # None /\ provedAt[r] <= now
    /\ revokedAt[req[r].envelope] # None => provedAt[r] <= revokedAt[req[r].envelope] + ProofTTL

RevocationInv == ProofCacheOK /\ ProofsInTime

\* Requests that go on only as they did before.
ProofsKept ==
  \A r \in Requests : pc'[r] \in {"act", "insert"} =>
    pc[r] \in {"act", "insert"} /\ req'[r] = req[r] /\ provedAt'[r] = provedAt[r]

LEMMA FrameRevocationInv ==
  ASSUME TypeInv, TypeInv', RevocationInv, ProofsKept, now <= now',
         UNCHANGED <<enrolled, cache, revokedAt>>
  PROVE  RevocationInv'
<1> USE GrantAssumption, NoneAssumption
<1>1. ProofCacheOK'
  <2> SUFFICES ASSUME NEW e \in Envelopes, cache[e] # None
               PROVE  cache[e] <= now' + ProofTTL
    BY DEF RevocationInv, ProofCacheOK
  <2>1. cache[e] \in Nat /\ now \in Nat /\ now' \in Nat /\ cache[e] <= now + ProofTTL
    BY DEF TypeInv, TypeOK, Times, RevocationInv, ProofCacheOK
  <2> QED BY <2>1
<1>2. ProofsInTime'
  <2> SUFFICES ASSUME NEW r \in Requests, pc'[r] \in {"act", "insert"}
               PROVE  /\ provedAt'[r] # None /\ provedAt'[r] <= now'
                      /\ revokedAt'[req'[r].envelope] # None =>
                           provedAt'[r] <= revokedAt'[req'[r].envelope] + ProofTTL
    BY DEF ProofsInTime
  <2>1. pc[r] \in {"act", "insert"} /\ req'[r] = req[r] /\ provedAt'[r] = provedAt[r]
    BY DEF ProofsKept
  <2>2. provedAt[r] # None /\ provedAt[r] <= now
    BY <2>1 DEF RevocationInv, ProofsInTime
  <2>3. provedAt[r] \in Nat /\ now \in Nat /\ now' \in Nat
    BY <2>2 DEF TypeInv, TypeOK, Times
  <2>4. provedAt'[r] <= now'
    BY <2>1, <2>2, <2>3
  <2> QED BY <2>1, <2>2, <2>4 DEF RevocationInv, ProofsInTime
<1> QED BY <1>1, <1>2 DEF RevocationInv

\* A proof is cached for a time, and only of an envelope that is enrolled.
LEMMA ProveRevocationInv ==
  ASSUME TypeInv, TypeInv', RevocationInv, NEW q \in Requests, Prove(q)
  PROVE  RevocationInv'
<1> USE GrantAssumption, NoneAssumption
<1> DEFINE e == req[q].envelope
<1>0. /\ pc[q] = "proof" /\ now < grants[e].expiresAt
      /\ pc' = [pc EXCEPT ![q] = "act"] /\ provedAt' = [provedAt EXCEPT ![q] = now]
      /\ UNCHANGED <<now, enrolled, req, revokedAt, grants>>
  BY DEF Prove
<1>1. \/ cache[e] # None /\ now < cache[e] /\ UNCHANGED cache
      \/ e \in enrolled /\ cache' = [cache EXCEPT ![e] = proof_expiry(e)]
  BY DEF Prove
<1>2. req[q] \in Request /\ grants[e] # None /\ e \in Envelopes
  BY <1>0 DEF TypeInv, RequestsOK, Request
<1>3. now \in Nat /\ grants[e] \in Grant /\ grants[e].expiresAt \in Nat /\ cache \in [Envelopes -> Times \cup {None}]
  BY <1>2 DEF TypeInv, TypeOK, Grant, Times
<1>4. proof_expiry(e) <= now + ProofTTL
  BY <1>3 DEF proof_expiry, Earlier
<1> HIDE DEF e
<1>5. ProofCacheOK'
  <2> SUFFICES ASSUME NEW f \in Envelopes
               PROVE  /\ revokedAt[f] # None => f \notin enrolled
                      /\ cache'[f] # None => cache'[f] <= now + ProofTTL
                      /\ cache'[f] # None /\ revokedAt[f] # None => cache'[f] <= revokedAt[f] + ProofTTL
    BY <1>0 DEF ProofCacheOK
  <2>1. CASE cache'[f] = cache[f]
    BY <2>1 DEF RevocationInv, ProofCacheOK
  <2>2. CASE f = e /\ e \in enrolled /\ cache'[f] = proof_expiry(e)
    BY <1>4, <2>2 DEF RevocationInv, ProofCacheOK
  <2> QED BY <1>1, <1>2, <1>3, <2>1, <2>2
<1>6. revokedAt[e] # None => now <= revokedAt[e] + ProofTTL
  <2> SUFFICES ASSUME revokedAt[e] # None PROVE now <= revokedAt[e] + ProofTTL
    OBVIOUS
  <2>1. cache[e] # None /\ now < cache[e] /\ cache[e] <= revokedAt[e] + ProofTTL
    BY <1>1, <1>2 DEF RevocationInv, ProofCacheOK
  <2>2. cache[e] \in Nat /\ revokedAt[e] \in Nat
    BY <1>2, <2>1 DEF TypeInv, TypeOK, Times
  <2> QED BY <1>3, <2>1, <2>2
<1>7. ProofsInTime'
  <2> SUFFICES ASSUME NEW r \in Requests, pc'[r] \in {"act", "insert"}
               PROVE  /\ provedAt'[r] # None /\ provedAt'[r] <= now
                      /\ revokedAt[req[r].envelope] # None =>
                           provedAt'[r] <= revokedAt[req[r].envelope] + ProofTTL
    BY <1>0 DEF ProofsInTime
  <2>1. CASE r = q
    <3>1. provedAt'[r] = now /\ now # None
      BY <1>0, <1>3, <2>1 DEF TypeInv, TypeOK
    <3> QED BY <1>3, <1>6, <2>1, <3>1 DEF e
  <2>2. CASE r # q
    <3>1. pc[r] \in {"act", "insert"} /\ provedAt'[r] = provedAt[r]
      BY <1>0, <2>2 DEF TypeInv, TypeOK
    <3> QED BY <3>1 DEF RevocationInv, ProofsInTime
  <2> QED BY <2>1, <2>2
<1> QED BY <1>5, <1>7 DEF RevocationInv

\* What is cached or proved at the moment of the revocation is bounded by now.
LEMMA RevokeRevocationInv ==
  ASSUME TypeInv, RevocationInv, NEW e \in Envelopes, Revoke(e)
  PROVE  RevocationInv'
<1> USE GrantAssumption, NoneAssumption
<1>0. /\ enrolled' = enrolled \ {e} /\ revokedAt' = [revokedAt EXCEPT ![e] = now]
      /\ UNCHANGED <<now, cache, pc, req, provedAt>>
  BY DEF Revoke
<1>1. /\ revokedAt \in [Envelopes -> Times \cup {None}] /\ now \in Nat
      /\ cache \in [Envelopes -> Times \cup {None}] /\ provedAt \in [Requests -> Times \cup {None}]
  BY DEF TypeInv, TypeOK
<1>2. ProofCacheOK'
  <2> SUFFICES ASSUME NEW f \in Envelopes
               PROVE  /\ revokedAt'[f] # None => f \notin enrolled'
                      /\ cache[f] # None => cache[f] <= now + ProofTTL
                      /\ cache[f] # None /\ revokedAt'[f] # None => cache[f] <= revokedAt'[f] + ProofTTL
    BY <1>0 DEF ProofCacheOK
  <2>1. CASE f = e
    BY <1>0, <1>1, <2>1 DEF RevocationInv, ProofCacheOK
  <2>2. CASE f # e
    BY <1>0, <1>1, <2>2 DEF RevocationInv, ProofCacheOK
  <2> QED BY <2>1, <2>2
<1>3. ProofsInTime'
  <2> SUFFICES ASSUME NEW r \in Requests, pc[r] \in {"act", "insert"}
               PROVE  /\ provedAt[r] # None /\ provedAt[r] <= now
                      /\ revokedAt'[req[r].envelope] # None =>
                           provedAt[r] <= revokedAt'[req[r].envelope] + ProofTTL
    BY <1>0 DEF ProofsInTime
  <2>1. provedAt[r] # None /\ provedAt[r] <= now /\ provedAt[r] \in Nat
    BY <1>1 DEF RevocationInv, ProofsInTime, Times
  <2>2. CASE req[r].envelope = e
    BY <1>0, <1>1, <2>1, <2>2
  <2>3. CASE req[r].envelope # e
    <3>1. req[r].envelope \in Envelopes
      BY DEF TypeInv, RequestsOK, Request
    <3> QED BY <1>0, <1>1, <2>1, <2>3, <3>1 DEF RevocationInv, ProofsInTime
  <2> QED BY <2>2, <2>3
<1> QED BY <1>2, <1>3 DEF RevocationInv

LEMMA NextRevocationInv == TypeInv /\ RevocationInv /\ [Next]_vars => RevocationInv'
<1> SUFFICES ASSUME TypeInv, RevocationInv, [Next]_vars PROVE RevocationInv'
  OBVIOUS
<1>0. TypeInv'
  BY NextTypeInv
<1>a. now <= now
  BY DEF TypeInv, TypeOK
<1>b. ASSUME UNCHANGED <<pc, req, provedAt>> PROVE ProofsKept
  BY <1>b DEF ProofsKept
<1>c. ASSUME NEW r \in Requests, Answer(r) PROVE ProofsKept
  BY <1>c DEF Answer, ProofsKept, TypeInv, TypeOK
<1>1. ASSUME NEW e \in Envelopes, Issue(e) \/ Consume(e) \/ RemoveBundle(e) PROVE RevocationInv'
  <2>1. UNCHANGED <<now, enrolled, cache, revokedAt, pc, req, provedAt>>
    BY <1>1 DEF Issue, BeginIssue, Sign, VerifyStaged, Publish, RegisterSession, AuditPrepared,
                MakeReady, FailIssue, IssuerTerminates, Consume, RemoveBundle
  <2> QED BY <1>0, <1>a, <1>b, <2>1, FrameRevocationInv
<1>2. ASSUME NEW e \in Envelopes, Revoke(e) PROVE RevocationInv'
  BY <1>2, RevokeRevocationInv
<1>3. CASE Reconcile \/ ReconcileSession \/ CloseSession \/ LoadSession \/ WriteSession
  <2>1. UNCHANGED <<now, enrolled, cache, revokedAt, pc, req, provedAt>>
    BY <1>3 DEF Reconcile, ReconcileSession, CloseSession, LoadSession, WriteSession
  <2> QED BY <1>0, <1>a, <1>b, <2>1, FrameRevocationInv
<1>4. CASE Tick
  <2>1. now <= now'
    BY <1>4 DEF Tick, TypeInv, TypeOK
  <2>2. UNCHANGED <<enrolled, cache, revokedAt, pc, req, provedAt>>
    BY <1>4 DEF Tick
  <2> QED BY <1>0, <1>b, <2>1, <2>2, FrameRevocationInv
<1>5. ASSUME NEW r \in Requests, Serve(r) PROVE RevocationInv'
  <2>1. CASE Prove(r)
    BY <1>0, <2>1, ProveRevocationInv
  <2>2. CASE ReadForChallenge(r)
    <3>1. UNCHANGED <<now, enrolled, cache, revokedAt, req, provedAt>>
          /\ pc' = [pc EXCEPT ![r] = "insert"] /\ pc[r] = "act"
      BY <2>2 DEF ReadForChallenge, At
    <3>2. ProofsKept
      BY <3>1 DEF ProofsKept, TypeInv, TypeOK
    <3> QED BY <1>0, <1>a, <3>1, <3>2, FrameRevocationInv
  <2>3. CASE InsertChallenge(r) \/ Authorize(r) \/ MintDownload(r) \/ ConsumeDownload(r) \/ Refuse(r)
    <3>1. Answer(r) /\ UNCHANGED <<now, enrolled, cache, revokedAt>>
      BY <2>3 DEF InsertChallenge, Authorize, MintDownload, ConsumeDownload, Refuse
    <3> QED BY <1>0, <1>a, <1>c, <3>1, FrameRevocationInv
  <2> QED BY <1>5, <2>1, <2>2, <2>3 DEF Serve
<1>6. ASSUME NEW r \in Requests, NEW e \in Envelopes, Arrive(r, e) PROVE RevocationInv'
  <2>1. PICK kind, secret : View(r, kind, e, secret)
    BY <1>6 DEF Arrive
  <2>2. UNCHANGED <<now, enrolled, cache, revokedAt, provedAt>>
    BY <2>1 DEF View
  <2>3. ProofsKept
    BY <2>1 DEF View, ProofsKept, TypeInv, TypeOK
  <2> QED BY <1>0, <1>a, <2>2, <2>3, FrameRevocationInv
<1>7. CASE UNCHANGED vars
  BY <1>0, <1>7, <1>a, <1>b, FrameRevocationInv DEF vars
<1> QED BY <1>1, <1>2, <1>3, <1>4, <1>5, <1>6, <1>7 DEF Next

LEMMA InitRevocationInv == Init => RevocationInv
  BY DEF Init, RevocationInv, ProofCacheOK, ProofsInTime

\* Whatever was cached or proved when a publisher or a Lab key is revoked, no
\* request is served on it later than the lifetime of a cached proof.
THEOREM RevocationBoundedAlways == Spec => []RevocationBounded
<1>1. RevocationInv => RevocationBounded
  BY DEF RevocationInv, ProofsInTime, RevocationBounded
<1> QED BY <1>1, InitTypeInv, NextTypeInv, InitRevocationInv, NextRevocationInv, PTL DEF Spec

=============================================================================
