--------------------------- MODULE MCTrustedGrants ---------------------------
\* Instance of TrustedGrants for TLC.
EXTENDS TrustedGrants, TLC

\* The network routes of the invitations issued without a fault at time 0,
\* with the clock, consumption, closing and revocation beside them ...
Serving ==
  /\ reconciler = "idle" /\ loaded = None /\ flag /\ published = Network
  /\ \A e \in Network :
       grants[e] # None /\ grants[e].state = "READY" /\ grants[e].expiresAt = Lifetime
  /\ \A e \in Envelopes \ Network : issuer[e] = "none"

\* ... or issuances, reconciliation and intake calls before any request comes.
Issuing ==
  /\ now <= 1 /\ session /\ enrolled = Envelopes
  /\ \A e \in Envelopes : cache[e] = None
  /\ \A r \in Requests : pc[r] = "idle"
  /\ \A c \in Challenges : challenges[c] = None

Halves == Serving \/ Issuing

Symmetry ==
  Permutations(Requests) \cup Permutations(Challenges) \cup Permutations(Tickets)
    \cup Permutations(Downloads)
=============================================================================
