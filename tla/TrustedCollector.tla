--------------------------- MODULE TrustedCollector ---------------------------
(***************************************************************************)
(* Collections with and without a trusted envelope against one Lab: the    *)
(* launcher RunTrusted of collector/trusted/TrustedEntry.cs, the network   *)
(* acquisition of TrustedNetwork.cs, the script and the plain launcher of  *)
(* Collector, and the Lab's ledger and network routes of TrustedGrants,    *)
(* with lost requests and answers between them.  One user works on the     *)
(* endpoint an envelope is for, and its clock is the Lab's.  A request     *)
(* whose answer the client no longer waits for is served to its end.       *)
(***************************************************************************)
EXTENDS TrustedGrants, Collector

CONSTANTS
  Attempts,     \* downloads tried with one authorization, 3 in the code
  Retries       \* repeated requests for metadata or a challenge, 2 in the code

ASSUME TrustedCollectorAssumption ==
  Attempts \in Nat \ {0} /\ Retries \in Nat /\ None \notin Requests

VARIABLES
  wants,        \* the envelope of a collection, None for CSA-Collector.exe
  call,         \* the handler thread a client waits for
  attempt,      \* answers lost in the current loop of a client
  held,         \* the challenge, ticket and download a client holds
  markers       \* envelopes marked as used on the endpoint

clientVars == <<wants, call, attempt, held, markers>>
grantVars == vars
allVars == <<grantVars, collectorVars, clientVars>>

Nothing == [challenge |-> None, ticket |-> None, download |-> None]

\* The bundles have been issued.
CombinedInit ==
  /\ CollectorInit
  /\ wants \in [Clients -> Envelopes \cup {None}]
  /\ call = [c \in Clients |-> None] /\ attempt = [c \in Clients |-> 0]
  /\ held = [c \in Clients |-> Nothing] /\ markers = {}
  /\ now = 0 /\ session = TRUE /\ flag = TRUE /\ loaded = None /\ ledger = TRUE
  /\ grants = [e \in Envelopes |-> [state |-> "READY", used |-> FALSE, network |-> e \in Network,
                                    authUsed |-> FALSE, expiresAt |-> Lifetime]]
  /\ challenges = [h \in Challenges |-> None] /\ tickets = [t \in Tickets |-> None]
  /\ downloads = [d \in Downloads |-> None]
  /\ published = Envelopes /\ prepared = Envelopes /\ enrolled = Envelopes
  /\ cache = [e \in Envelopes |-> None]
  /\ issuer = [e \in Envelopes |-> "done"] /\ reconciler = "idle"
  /\ pc = [r \in Requests |-> "idle"] /\ req = [r \in Requests |-> None]
  /\ authorizedAt = [e \in Envelopes |-> None] /\ consumedAt = [e \in Envelopes |-> None]
  /\ servedAt = [d \in Downloads |-> None] /\ revokedAt = [e \in Envelopes |-> None]
  /\ provedAt = [r \in Requests |-> None]

-----------------------------------------------------------------------------
(* Helpers *)

trusted(c) == wants[c] # None

\* The envelope's window, by the clock of the endpoint.
in_window(c) == now < grants[wants[c]].expiresAt

Holds(c, what, value) == held' = [held EXCEPT ![c][what] = value]

\* Only the launcher's step changes.
Moves(c, step) ==
  /\ To(c, step)
  /\ UNCHANGED <<script, runVars, diskVars, claim, labVars>>

\* The launcher gives up: the diagnostic is printed and the directories removed.
GiveUp(c) ==
  /\ Moves(c, "cleanup")
  /\ call' = [call EXCEPT ![c] = None] /\ attempt' = [attempt EXCEPT ![c] = 0]
  /\ held' = [held EXCEPT ![c] = Nothing]
  /\ UNCHANGED <<wants, markers>>

-----------------------------------------------------------------------------
(* NetworkBootstrap.Acquire *)

\* Policy, installation and script policy are checked before anything is fetched.
Begin(c) ==
  /\ at[c] = "start" /\ trusted(c)
  /\ \/ Moves(c, IF wants[c] \in Network THEN "metadata" ELSE "bundle") /\ UNCHANGED clientVars
     \/ GiveUp(c)
  /\ UNCHANGED grantVars

viewable(e) == session /\ recorded(e) /\ grants[e].network /\ ~grants[e].used

\* The signed metadata; the route only reads.
Metadata(c) ==
  /\ at[c] = "metadata"
  /\ \/ /\ viewable(wants[c]) /\ wants[c] \in published /\ in_window(c)
        /\ Moves(c, "challenge") /\ attempt' = [attempt EXCEPT ![c] = 0]
        /\ UNCHANGED <<wants, call, held, markers>>
     \/ GiveUp(c)
  /\ UNCHANGED grantVars

Calling == {"challenge", "authorize", "mint", "package"}

token(c) ==
  CASE at[c] = "challenge" -> None
    [] at[c] = "authorize" -> held[c].challenge
    [] at[c] = "mint" -> held[c].ticket
    [] at[c] = "package" -> held[c].download

\* A request of the client reaches a handler thread.
Ask(c, r) ==
  /\ at[c] \in Calling /\ call[c] = None
  /\ View(r, at[c], wants[c], token(c))
  /\ call' = [call EXCEPT ![c] = r]
  /\ UNCHANGED <<collectorVars, wants, attempt, held, markers>>

\* The handler refuses at once, or the client finds the window closed.
Refused(c) ==
  /\ at[c] \in Calling /\ call[c] = None
  /\ ~viewable(wants[c])
  /\ GiveUp(c)
  /\ UNCHANGED grantVars

\* Fault: a lost package does not count.
last_attempt_uncounted(c) == attempt[c] >= Attempts

last_attempt(c) == attempt[c] + 1 >= Attempts
last_retry(c) == attempt[c] >= Retries

\* TransientTransportFailure: a request for metadata or a challenge is
\* repeated, a lost package is asked for with a new download grant, and a lost
\* authorization or download grant is not asked for again.
Lost(c) ==
  /\ at[c] \in Calling \cup {"metadata"}
  /\ \/ /\ at[c] \in {"metadata", "challenge"} /\ ~last_retry(c)
        /\ Moves(c, at[c])
        /\ attempt' = [attempt EXCEPT ![c] = @ + 1] /\ UNCHANGED held
     \/ /\ at[c] = "package" /\ ~last_attempt(c)
        /\ Moves(c, "mint")
        /\ attempt' = [attempt EXCEPT ![c] = @ + 1] /\ Holds(c, "download", None)
     \/ /\ \/ at[c] \in {"metadata", "challenge"} /\ last_retry(c)
           \/ at[c] = "package" /\ last_attempt(c)
           \/ at[c] \in {"authorize", "mint"}
        /\ Moves(c, "cleanup")
        /\ attempt' = [attempt EXCEPT ![c] = 0] /\ held' = [held EXCEPT ![c] = Nothing]
  /\ call' = [call EXCEPT ![c] = None]
  /\ UNCHANGED <<grantVars, wants, markers>>

\* The secrets that the step of a handler has just stored.
New(kind) ==
  CASE kind = "challenge" -> {h \in Challenges : challenges[h] = None /\ challenges'[h] # None}
    [] kind = "authorize" -> {t \in Tickets : tickets[t] = None /\ tickets'[t] # None}
    [] kind = "mint" -> {d \in Downloads : downloads[d] = None /\ downloads'[d] # None}
    [] OTHER -> {None}

Gets(c, secret) ==
  \/ /\ at[c] = "challenge" /\ Moves(c, "prompt") /\ Holds(c, "challenge", secret)
  \/ /\ at[c] = "authorize" /\ Moves(c, "mint")
     /\ held' = [held EXCEPT ![c] = [Nothing EXCEPT !.ticket = secret]]
  \/ /\ at[c] = "mint" /\ Moves(c, "package") /\ Holds(c, "download", secret)
  \/ /\ at[c] = "package" /\ Moves(c, "stage") /\ held' = [held EXCEPT ![c] = Nothing]

Waiting(r) == {c \in Clients : call[c] = r}

\* A handler answers, and the answer arrives if somebody still waits for it.
\* Only downloads share their count of attempts.
Answered(r) ==
  /\ InsertChallenge(r) \/ Authorize(r) \/ MintDownload(r) \/ ConsumeDownload(r)
  /\ \/ Waiting(r) = {} /\ UNCHANGED <<collectorVars, clientVars>>
     \/ \E c \in Waiting(r) :
          /\ \E secret \in New(at[c]) : Gets(c, secret)
          /\ attempt' = [attempt EXCEPT ![c] = IF at[c] \in {"mint", "package"} THEN @ ELSE 0]
          /\ call' = [call EXCEPT ![c] = None]
          /\ UNCHANGED <<wants, markers>>

AnsweredRefused(r) ==
  /\ Refuse(r)
  /\ \/ Waiting(r) = {} /\ UNCHANGED <<collectorVars, clientVars>>
     \/ \E c \in Waiting(r) : GiveUp(c)

Handle(r) ==
  \/ (Prove(r) \/ ReadForChallenge(r)) /\ UNCHANGED <<collectorVars, clientVars>>
  \/ Answered(r) \/ AnsweredRefused(r)

\* The assessor's secret is asked for while challenge and envelope are valid
\* and used if they still are.
fresh(c) == in_window(c) /\ now < challenges[held[c].challenge].expiresAt

TypeSecret(c) ==
  /\ at[c] = "prompt"
  /\ \/ fresh(c) /\ Moves(c, "authorize") /\ UNCHANGED clientVars
     \/ ~fresh(c) /\ GiveUp(c)
  /\ UNCHANGED grantVars

Escape(c) ==
  /\ at[c] = "prompt"
  /\ GiveUp(c)
  /\ UNCHANGED grantVars

\* What was fetched is written into a directory of its own.
StageDownload(c) ==
  /\ at[c] = "stage"
  /\ \/ /\ in_window(c) /\ Keep(c, <<"download", 0>>)
        /\ \E step \in {"bundle", "cleanup"} : To(c, step)
     \/ UNCHANGED disk /\ To(c, "cleanup")
  /\ attempt' = [attempt EXCEPT ![c] = 0]
  /\ UNCHANGED <<script, runVars, reported, claim, labVars, grantVars, wants, call, held, markers>>

-----------------------------------------------------------------------------
(* RunTrusted *)

\* BundleMetadata.Verify and VerifyArchive of the files at hand.
VerifyBundle(c) ==
  /\ at[c] = "bundle"
  /\ \/ in_window(c) /\ Moves(c, "archive") /\ UNCHANGED clientVars
     \/ GiveUp(c)
  /\ UNCHANGED grantVars

\* The archive is extracted, its configuration compared and its files leased.
ExtractTrusted(c) ==
  /\ at[c] = "archive"
  /\ \/ Keep(c, <<"package", 0>>) /\ \E step \in {"mark", "cleanup"} : To(c, step)
     \/ UNCHANGED disk /\ To(c, "cleanup")
  /\ UNCHANGED <<script, runVars, reported, claim, labVars, grantVars, clientVars>>

\* Fault: an existing marker is overwritten.
unmarked_any(c) == in_window(c)

unmarked(c) == in_window(c) /\ wants[c] \notin markers

\* The marker file of the envelope is created, and must not exist.
ConsumeEnvelope(c) ==
  /\ at[c] = "mark"
  /\ \/ /\ unmarked(c) /\ Moves(c, "launch")
        /\ markers' = markers \cup {wants[c]}
        /\ UNCHANGED <<wants, call, attempt, held>>
     \/ GiveUp(c)
  /\ UNCHANGED grantVars

\* One run, online or to the export path of the command line.
RunTrusted(c) ==
  /\ at[c] = "launch" /\ trusted(c)
  /\ \E export \in BOOLEAN : StartScript(c, export)
  /\ UNCHANGED <<grantVars, clientVars>>

RunTrustedEnds(c) ==
  /\ trusted(c) /\ at[c] = "running" /\ script[c] = "off"
  /\ To(c, "cleanup")
  /\ claim' = IF exit_zero(c)
              THEN [claim EXCEPT ![c] = IF offline[c] THEN "exported" ELSE "accepted"] ELSE claim
  /\ UNCHANGED <<script, runVars, diskVars, labVars, grantVars, clientVars>>

\* Both directories are removed; one that stays makes the exit code 1.
CleanupTrusted(c) ==
  /\ at[c] = "cleanup" /\ trusted(c)
  /\ removed(c, {<<"package", 0>>, <<"download", 0>>})
  /\ To(c, "ended")
  /\ claim' = IF disk'[c] \cap {<<"package", 0>>, <<"download", 0>>} = {} THEN claim
              ELSE [claim EXCEPT ![c] = "none"]
  /\ UNCHANGED <<script, runVars, labVars, grantVars, clientVars>>

-----------------------------------------------------------------------------
(* The script's exchange with the Lab *)

\* The Lab consumes a trusted envelope before it issues the nonce of its
\* submission, whether or not the answer arrives.
NonceExchange(c) ==
  /\ ~offline[c]
  /\ \/ trusted(c) /\ Consume(wants[c]) /\ (NonceIssued(c) \/ NonceFails(c))
     \/ ~trusted(c) /\ NonceIssued(c) /\ UNCHANGED grantVars
     \/ NonceFails(c) /\ UNCHANGED grantVars
  /\ UNCHANGED clientVars

OwnNonce(c) == offline[c] /\ NonceIssued(c) /\ UNCHANGED <<grantVars, clientVars>>

\* The assessor imports an offline package; its envelope is consumed then.
Import(c) ==
  \E n \in 1..runs[c] :
    /\ <<c, n>> \in exported \ indexed
    /\ indexed' = indexed \cup {<<c, n>>}
    /\ IF trusted(c) THEN Consume(wants[c]) ELSE UNCHANGED grantVars
    /\ UNCHANGED <<at, script, runVars, diskVars, claim, sent, exported, clientVars>>

-----------------------------------------------------------------------------
\* What a client does without its user.
Steps(c) ==
  \/ RunScript(c) /\ UNCHANGED <<grantVars, clientVars>>
  \/ ~trusted(c) /\ RunLauncher(c) /\ UNCHANGED <<grantVars, clientVars>>
  \/ NonceExchange(c) \/ OwnNonce(c)
  \/ Begin(c) \/ Metadata(c) \/ Refused(c) \/ Lost(c) \/ StageDownload(c)
  \/ \E r \in Requests : Ask(c, r)
  \/ VerifyBundle(c) \/ ExtractTrusted(c) \/ ConsumeEnvelope(c) \/ RunTrusted(c)
  \/ RunTrustedEnds(c) \/ CleanupTrusted(c)

\* What the users do.
Users(c) ==
  \/ ~trusted(c) /\ (Choose(c) \/ PressEnter(c)) /\ UNCHANGED <<grantVars, clientVars>>
  \/ TypeSecret(c) \/ Escape(c)
  \/ Kill(c) /\ call' = [call EXCEPT ![c] = None] /\ held' = [held EXCEPT ![c] = Nothing]
             /\ UNCHANGED <<grantVars, wants, attempt, markers>>

CombinedNext ==
  \/ \E c \in Clients : Steps(c) \/ Users(c) \/ Import(c)
  \/ \E r \in Requests : Handle(r)
  \/ Tick /\ UNCHANGED <<collectorVars, clientVars>>

CombinedSpec == CombinedInit /\ [][CombinedNext]_allVars

-----------------------------------------------------------------------------
(* Properties *)

\* An envelope starts at most one run and leads to at most one submission,
\* although two collections race with it, runs are killed and answers are lost;
\* the Lab sees it used only after the endpoint has marked it.
EnvelopeYieldsOne ==
  \A e \in Envelopes :
    LET mine == {c \in Clients : wants[c] = e} IN
      /\ Cardinality({id \in Ids : id[1] \in mine /\ id[2] <= runs[id[1]]}) <= 1
      /\ Cardinality({id \in indexed : id[1] \in mine}) <= 1
      /\ grants[e].used => e \in markers

\* The Lab's download budget covers every attempt the client will make with its
\* authorization, however many packages and answers are lost.
RetriesWithinBudget ==
  \A c \in Clients :
    at[c] = "mint" /\ call[c] = None =>
      LET left == tickets[held[c].ticket].remaining IN left > 0 /\ left >= Attempts - attempt[c]
=============================================================================
