-------------------------- MODULE TransportHarness --------------------------
(***************************************************************************)
(* The self-hosted harness of the deep Responder validator                 *)
(* (active_validation/transport_harness.py): a process of its own that     *)
(* adds two firewall rules, answers one name query, observes one NTLM      *)
(* exchange over HTTP, removes the rules and leaves an attested            *)
(* observation.  The rules it may have added are recorded in a state file  *)
(* of the run's directory before the first one is added.                   *)
(***************************************************************************)
EXTENDS Naturals

CONSTANTS
  MaxRuns,         \* bound: runs of the validation engine
  MaxConnections,  \* MAX_HTTP_CONNECTIONS
  MaxRequests,     \* HTTP requests read in all
  Faults,          \* what may go wrong
  None

AllFaults == {"input", "write", "add", "bind", "remove", "kill", "output", "evidence", "rmtree",
              "crash"}

ASSUME HarnessAssumption ==
  /\ {MaxRuns, MaxConnections, MaxRequests} \subseteq Nat \ {0}
  /\ Faults \subseteq AllFaults

Runs == 1..MaxRuns
RuleIds == {1, 2}         \* the rule for name resolution, then the rule for HTTP
Rules == Runs \X RuleIds

VARIABLES
  run,       \* the run in progress, or the last one
  hpc,       \* where the harness is
  adding,    \* the rule whose script the harness runs, or None
  raised,    \* whether _run is being left by an exception
  recorded,  \* run -> rules named in its state file
  rules,     \* firewall rules that exist
  orphans,   \* rules whose script outlives the harness
  stray,     \* history: rules added by an orphan, or whose record was swept
  late,      \* the deadline has passed
  requests,  \* request_count
  obs,       \* the observation
  wire       \* history: what the target really sent

harnessVars == <<hpc, adding, raised, late, requests, obs, wire>>
firewallVars == <<recorded, rules, orphans, stray>>

MessageTypes == {"NEGOTIATE", "CHALLENGE", "AUTHENTICATE"}
HarnessSteps == {"none", "input", "state", "add", "mark", "listen", "resolve", "accept", "serve",
                 "finally", "error", "output", "exited", "failed"}
Running == HarnessSteps \ {"none", "exited", "failed"}

Observation ==
  [query : BOOLEAN, responses : 0..1, listening : BOOLEAN, connections : 0..MaxConnections,
   types : SUBSET MessageTypes, attempt : BOOLEAN, matched : BOOLEAN, window : BOOLEAN,
   verified : BOOLEAN]

_base_observation ==
  [query |-> FALSE, responses |-> 0, listening |-> FALSE, connections |-> 0, types |-> {},
   attempt |-> FALSE, matched |-> FALSE, window |-> FALSE, verified |-> FALSE]

HarnessTypeOK ==
  /\ run \in 0..MaxRuns
  /\ hpc \in HarnessSteps
  /\ adding \in RuleIds \cup {None}
  /\ raised \in BOOLEAN
  /\ recorded \in [Runs -> SUBSET RuleIds]
  /\ rules \subseteq Rules
  /\ orphans \subseteq Rules
  /\ stray \subseteq Rules
  /\ late \in BOOLEAN
  /\ requests \in 0..MaxRequests
  /\ obs \in Observation
  /\ wire \subseteq {"marker", "connection", "EXPECTED"} \cup MessageTypes

HarnessInit ==
  /\ run = 0
  /\ hpc = "none" /\ adding = None /\ raised = FALSE
  /\ recorded = [r \in Runs |-> {}]
  /\ rules = {} /\ orphans = {} /\ stray = {}
  /\ late = FALSE /\ requests = 0
  /\ obs = _base_observation
  /\ wire = {}

At(label) == hpc = label
To(label) == hpc' = label

\* An exception inside the try of _run: the finally clause comes next.
Raise == To("finally") /\ raised' = TRUE

-----------------------------------------------------------------------------
(* Preparation *)

\* main and _validate_input
_validate_input ==
  /\ At("input")
  /\ \/ To("state")
     \/ "input" \in Faults /\ To("error")
  /\ UNCHANGED <<firewallVars, adding, raised, late, requests, obs, wire>>

\* Fault: the state file is written empty and filled as rules are added.
_write_firewall_state_after ==
  /\ At("state")
  /\ To("add")
  /\ UNCHANGED <<firewallVars, adding, raised, late, requests, obs, wire>>

\* The state file names both rules before the first is added; _run has not yet
\* entered its try.
_write_firewall_state ==
  /\ At("state")
  /\ \/ To("add") /\ recorded' = [recorded EXCEPT ![run] = RuleIds]
     \/ "write" \in Faults /\ To("error") /\ UNCHANGED recorded
  /\ UNCHANGED <<rules, orphans, stray, adding, raised, late, requests, obs, wire>>

\* The rules of this run that have been added.
added == {i \in RuleIds : <<run, i>> \in rules}

\* The next rule's Add script starts ...
StartAdd ==
  /\ At("add") /\ adding = None
  /\ adding' = IF 1 \in added THEN 2 ELSE 1
  /\ UNCHANGED <<firewallVars, hpc, raised, late, requests, obs, wire>>

\* ... and creates the rule, or fails or times out and is killed.
_firewall_script ==
  /\ At("add") /\ adding # None
  /\ \/ rules' = rules \cup {<<run, adding>>} /\ To("mark") /\ UNCHANGED raised
     \/ "add" \in Faults /\ Raise /\ rules' \in {rules, rules \cup {<<run, adding>>}}
  /\ adding' = None
  /\ UNCHANGED <<recorded, orphans, stray, late, requests, obs, wire>>

\* The state file is rewritten with the rule marked as created.
MarkCreated ==
  /\ At("mark")
  /\ \/ To(IF added = RuleIds THEN "listen" ELSE "add") /\ UNCHANGED raised
     \/ "write" \in Faults /\ Raise
  /\ UNCHANGED <<firewallVars, adding, late, requests, obs, wire>>

\* _resolution_listener, _http_listener and _start_trigger
Listen ==
  /\ At("listen")
  /\ \/ To("resolve") /\ obs' = [obs EXCEPT !.listening = TRUE] /\ UNCHANGED raised
     \/ "bind" \in Faults /\ Raise /\ UNCHANGED obs
  /\ UNCHANGED <<firewallVars, adding, late, requests, wire>>

-----------------------------------------------------------------------------
(* Observation.  Queries and connections from other addresses, and queries  *)
(* for other names, are counted as mismatches and change nothing else.      *)

\* It runs from the start of _run and is read from here on only.
Deadline ==
  /\ hpc \in {"resolve", "accept", "serve"} /\ ~late
  /\ late' = TRUE
  /\ UNCHANGED <<firewallVars, hpc, adding, raised, requests, obs, wire>>

\* build_llmnr_response and build_nbtns_response answer the exact marker only.
_observe_resolution ==
  /\ At("resolve") /\ ~late /\ obs.responses = 0
  /\ wire' = wire \cup {"marker"}
  /\ obs' = [obs EXCEPT !.query = TRUE, !.responses = 1]
  /\ To("accept")
  /\ UNCHANGED <<firewallVars, adding, raised, late, requests>>

ResolutionEnds ==
  /\ At("resolve") /\ late
  /\ To("accept")
  /\ UNCHANGED <<firewallVars, adding, raised, late, requests, obs, wire>>

accepting == ~late /\ obs.connections < MaxConnections /\ ~obs.attempt

Accept ==
  /\ At("accept") /\ accepting
  /\ wire' = wire \cup {"connection"}
  /\ obs' = [obs EXCEPT !.connections = @ + 1]
  /\ To("serve")
  /\ UNCHANGED <<firewallVars, adding, raised, late, requests>>

\* A request without a token is answered 401; a lost or silent peer, or the
\* limit on requests, ends the connection.
Unauthenticated ==
  /\ At("serve")
  /\ \/ requests < MaxRequests /\ requests' = requests + 1 /\ hpc' \in {"serve", "accept"}
     \/ To("accept") /\ UNCHANGED requests
  /\ UNCHANGED <<firewallVars, adding, raised, late, obs, wire>>

\* The message types noted after a message of type t: a NEGOTIATE is answered
\* with a challenge, which is noted as well.
noted(t) == obs.types \cup {t} \cup IF t = "NEGOTIATE" THEN {"CHALLENGE"} ELSE {}

\* One token: parse_ntlm_message_type and, for an AUTHENTICATE, the identity.
Message(t, expected) ==
  /\ At("serve") /\ requests < MaxRequests
  /\ requests' = requests + 1
  /\ wire' = wire \cup {t} \cup IF expected THEN {"EXPECTED"} ELSE {}
  /\ obs' = [obs EXCEPT !.types = noted(t),
                        !.attempt = @ \/ t = "AUTHENTICATE",
                        !.matched = IF t = "AUTHENTICATE" THEN expected ELSE @]
  /\ IF t = "AUTHENTICATE" THEN To("accept") ELSE hpc' \in {"serve", "accept"}
  /\ UNCHANGED <<firewallVars, adding, raised, late>>

\* A token that is too long or is no NTLM message raises.
BadMessage ==
  /\ At("serve") /\ requests < MaxRequests
  /\ requests' = requests + 1
  /\ Raise
  /\ UNCHANGED <<firewallVars, adding, late, obs, wire>>

\* _observe_http returns and the observation is completed.
CompleteObservation ==
  /\ At("accept") /\ ~accepting
  /\ obs' = [obs EXCEPT !.window = late \/ obs.attempt, !.verified = MessageTypes \subseteq obs.types]
  /\ To("finally")
  /\ UNCHANGED <<firewallVars, adding, raised, late, requests, wire>>

-----------------------------------------------------------------------------
(* Clean-up *)

named == {<<run, i>> : i \in recorded[run]}

\* cleanup_firewall_state removes the rules that the state file names, checks
\* that they are gone and only then removes the file.  A script that fails
\* raises and leaves the rest.  The outcome is TRUE, FALSE or, when raised,
\* None; without a state file there is nothing to do.
cleanup_firewall_state(outcome) ==
  \E gone \in SUBSET named :
    /\ rules' = rules \ gone
    /\ outcome = TRUE  => named \cap rules' = {}
    /\ outcome # TRUE => "remove" \in Faults /\ named # {}
    /\ recorded' = IF outcome = TRUE THEN [recorded EXCEPT ![run] = {}] ELSE recorded

\* The finally clause; an exception raised before, or by the clean-up itself,
\* makes main report an error.
Finally ==
  /\ At("finally")
  /\ \E outcome \in {TRUE, FALSE, None} :
       /\ cleanup_firewall_state(outcome)
       /\ IF raised \/ outcome = None
          THEN To("error") ELSE To("output")
  /\ UNCHANGED <<orphans, stray, adding, raised, late, requests, obs, wire>>

\* _error_observation cleans up once more and reports nothing observed; an
\* exception in it ends the harness without output.
_error_observation ==
  /\ At("error")
  /\ \E outcome \in {TRUE, FALSE, None} :
       /\ cleanup_firewall_state(outcome)
       /\ IF outcome = None
          THEN To("failed") /\ UNCHANGED obs
          ELSE To("output") /\ obs' = _base_observation
  /\ UNCHANGED <<orphans, stray, adding, raised, late, requests, wire>>

\* The attested document is put in place, and the process ends.
WriteOutput ==
  /\ At("output")
  /\ \/ To("exited")
     \/ "write" \in Faults /\ To("failed")
  /\ UNCHANGED <<firewallVars, adding, raised, late, requests, obs, wire>>

Harness ==
  \/ _validate_input \/ _write_firewall_state \/ StartAdd \/ _firewall_script \/ MarkCreated
  \/ Listen \/ Deadline \/ _observe_resolution \/ ResolutionEnds \/ Accept \/ Unauthenticated
  \/ \E t \in MessageTypes, e \in BOOLEAN : (e => t = "AUTHENTICATE") /\ Message(t, e)
  \/ BadMessage \/ CompleteObservation \/ Finally \/ _error_observation \/ WriteOutput

-----------------------------------------------------------------------------
(* What others do to it *)

\* A process ends and takes what it knew with it.
Gone ==
  /\ hpc' = "none" /\ adding' = None /\ raised' = FALSE /\ late' = FALSE /\ requests' = 0
  /\ obs' = _base_observation

\* The worker's timeout ends the harness alone: a script that it was waiting
\* for goes on.
KilledAlone ==
  /\ Gone /\ wire' = {}
  /\ orphans' = orphans \cup IF adding = None THEN {} ELSE {<<run, adding>>}

\* A script without its harness completes.
OrphanAdds ==
  /\ \E rule \in orphans :
       /\ rules' = rules \cup {rule}
       /\ stray' = stray \cup {rule}
       /\ orphans' = orphans \ {rule}
  /\ UNCHANGED <<recorded, harnessVars>>

=============================================================================
