----------------------------- MODULE MCCollector -----------------------------
\* Instance of TrustedCollector for TLC.
EXTENDS TrustedCollector, TLC

\* Two collections race for one envelope, and then their scripts do not
\* fail in ways that the race does not see; or one collection of any kind runs
\* alone.
Racing ==
  \A c \in Clients :
    /\ trusted(c) /\ \A d \in Clients : wants[d] = wants[c]
    /\ fault[c] \in {"none", "error"} /\ evidence[c] # "sensitive" /\ reported[c] = {}
    /\ at[c] = "killed" => runs[c] = 1

Alone ==
  \E c \in Clients : \A d \in Clients \ {c} : at[d] = "start" /\ wants[d] = None

Halves == Racing \/ Alone

Symmetry ==
  Permutations(Clients) \cup Permutations(Requests) \cup Permutations(Challenges)
    \cup Permutations(Downloads)

\* The history of the ledger is read by no action and no property here.
MCView ==
  <<now, session, storeVars, grants, tableVars, enrolled, cache, issueVars, requestVars,
    collectorVars, clientVars>>
=============================================================================
