--------------------------- MODULE EvidenceLedger ---------------------------
(***************************************************************************)
(* What the Console promises about an assessment's evidence, without       *)
(* threads, locks or files: a submission is recorded once, the operator    *)
(* may take back its receipt and withdraw it, and a receipt is given only  *)
(* for a package that was recorded.                                        *)
(***************************************************************************)
CONSTANTS Subs, Packages, None

VARIABLES live,      \* the recorded packages: [sub, digest]
          recorded,  \* every package recorded so far
          receipt    \* the package the receipt of each submission names

ledger == <<live, recorded, receipt>>

Entry == [sub : Subs, digest : Packages]

Init ==
  /\ live = {}
  /\ recorded = {}
  /\ receipt = [s \in Subs |-> None]

Record(e) ==
  /\ \A f \in live : f.sub # e.sub
  /\ live' = live \cup {e}
  /\ recorded' = recorded \cup {e}
  /\ UNCHANGED receipt

Acknowledge(e) ==
  /\ e \in recorded
  /\ receipt' = [receipt EXCEPT ![e.sub] = e.digest]
  /\ UNCHANGED <<live, recorded>>

\* A receipt is taken back only for a package that is still recorded.
Retract(s) ==
  /\ \E e \in live : e.sub = s
  /\ receipt' = [receipt EXCEPT ![s] = None]
  /\ UNCHANGED <<live, recorded>>

Withdraw(s) ==
  /\ \E e \in live : e.sub = s
  /\ live' = {e \in live : e.sub # s}
  /\ UNCHANGED <<recorded, receipt>>

Next ==
  \/ \E e \in Entry : Record(e) \/ Acknowledge(e)
  \/ \E s \in Subs : Retract(s) \/ Withdraw(s)

Spec == Init /\ [][Next]_ledger
=============================================================================
