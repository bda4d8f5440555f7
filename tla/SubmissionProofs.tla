-------------------------- MODULE SubmissionProofs --------------------------
(***************************************************************************)
(* Theorems about the evidence intake, for every number of threads,        *)
(* submissions, nonces, envelopes, server instances and terminations.      *)
(***************************************************************************)
EXTENDS Submission, FiniteSetTheorems, TLAPS

(* What a call knows at each label about its own parameters and copies.     *)
Bound(t) ==
  /\ pc[t] # "idle" => req[t] \in Request
  /\ pc[t] \notin {"idle", "statuswrite"} => req[t].sub \in Subs
  /\ pc[t] = "issue" => req[t].source \in Sources
  /\ pc[t] = "grant" => /\ req[t].kind = "import" => req[t].body = "valid"
                        /\ req[t].kind # "import" => req[t].source \in Sources
  /\ pc[t] \in {"authorize", "consume", "markused", "stage", "staging", "validate"}
       => req[t].body \in AllBodies /\ req[t].nonce \in Nonces
  /\ pc[t] \in {"bind", "lock", "move", "write", "writing", "append", "useload", "usewrite",
                "receipt"}
       => req[t].body = "valid"
  /\ pc[t] = "markused" => nrec[t] \in NonceRecord
  /\ pc[t] \in {"usewrite", "statuswrite"} => cur[t] \in Session
  /\ pc[t] = "statuswrite" => req[t].to \in Statuses

TypeInv == TypeOK /\ \A t \in Threads : Bound(t)

USE DEF sessionVars, nonceVars, derivedVars, fileVars, indexVars, lockVars, callVars, hostVars

LEMMA InitTypeInv == Init => TypeInv
<1> SUFFICES ASSUME Init PROVE TypeInv
  OBVIOUS
<1>1. session \in Session
  BY DEF Init, Session, Statuses
<1>2. instance \in 1..MaxInstances /\ crashes \in 0..MaxCrashes /\ failures \in 0..MaxFailures
  BY ConstantsAssumption DEF Init
<1>3. TypeOK
  BY <1>1, <1>2 DEF Init, TypeOK, Labels, ProcessingStates
<1>4. \A t \in Threads : Bound(t)
  BY DEF Init, Bound
<1> QED
  BY <1>3, <1>4 DEF TypeInv

LEMMA StutterTypeInv == TypeInv /\ UNCHANGED vars => TypeInv'
  BY DEF TypeInv, TypeOK, Bound, vars

\* Returning or moving on keeps the types of the call's variables, and does
\* not concern the other calls.
LEMMA ReturnTypes ==
  ASSUME TypeInv, NEW t \in Threads, Return(t)
  PROVE  /\ pc' \in [Threads -> Labels]
         /\ req' \in [Threads -> Request \cup {None}]
         /\ cur' \in [Threads -> Session \cup {None}]
         /\ nrec' \in [Threads -> NonceRecord \cup {None}]
         /\ \A u \in Threads : Bound(u)'
  BY DEF TypeInv, TypeOK, Bound, Return, Labels

LEMMA GotoTypes ==
  ASSUME TypeInv, NEW t \in Threads, NEW l \in Labels, Goto(t, l), UNCHANGED <<req, cur, nrec>>
  PROVE  /\ pc' \in [Threads -> Labels]
         /\ \A u \in Threads \ {t} : Bound(u)'
         /\ pc'[t] = l
  BY DEF TypeInv, TypeOK, Bound, Goto

LEMMA CallTypes ==
  ASSUME TypeInv, NEW t \in Threads, NEW r \in Request, NEW l \in Labels, Call(t, r, l)
  PROVE  /\ pc' \in [Threads -> Labels]
         /\ req' \in [Threads -> Request \cup {None}]
         /\ cur' = cur /\ nrec' = nrec
         /\ \A u \in Threads \ {t} : Bound(u)'
         /\ pc'[t] = l /\ req'[t] = r
  BY DEF TypeInv, TypeOK, Bound, Call, Goto

\* The variables of the calls have their types after a step.
CallVarsOK ==
  /\ pc' \in [Threads -> Labels]
  /\ req' \in [Threads -> Request \cup {None}]
  /\ cur' \in [Threads -> Session \cup {None}]
  /\ nrec' \in [Threads -> NonceRecord \cup {None}]

\* Each step of a call in progress keeps the types.
LEMMA StepTypeInv == ASSUME TypeInv, NEW t \in Threads, Step(t) PROVE TypeInv'
<1>1. CASE ConsumeGrant(t)
  <2>1. CASE grant_unused(req[t].envelope)
    <3> DEFINE g == [sub |-> req[t].sub, transport |-> Transport(req[t]), live |-> TRUE]
    <3>1. g \in Grant
      BY <1>1 DEF TypeInv, TypeOK, Bound, ConsumeGrant, Grant, Transport
    <3>2. grants' = [grants EXCEPT ![req[t].envelope] = g]
      BY <1>1, <2>1 DEF ConsumeGrant
    <3>3. grants' \in [Envelopes -> Grant \cup {None}]
      BY <3>1, <3>2 DEF TypeInv, TypeOK
    <3>4. pc' \in [Threads -> Labels] /\ \A u \in Threads : Bound(u)'
      BY <1>1, <2>1 DEF TypeInv, TypeOK, Bound, ConsumeGrant, Goto, Labels
    <3> QED
      BY <1>1, <2>1, <3>3, <3>4 DEF TypeInv, TypeOK, ConsumeGrant
  <2>2. CASE ~ grant_unused(req[t].envelope)
    BY <1>1, <2>2, ReturnTypes DEF TypeInv, TypeOK, ConsumeGrant
  <2> QED
    BY <2>1, <2>2
<1>2. CASE \E n \in Nonces : IssueNonce(t, n)
  <2>1. PICK n \in Nonces : IssueNonce(t, n)
    BY <1>2
  <2>2. TypeOK'
    BY <2>1 DEF TypeInv, TypeOK, Bound, IssueNonce, Return, NonceRecord, Labels
  <2>3. \A u \in Threads : Bound(u)'
    BY <2>1, ReturnTypes DEF IssueNonce
  <2> QED
    BY <2>2, <2>3 DEF TypeInv
<1>3. CASE RequireAuthorized(t)
  <2>1. rejected' \in [Subs -> RejectStates \cup {None}]
    BY <1>3 DEF TypeInv, TypeOK, Bound, RequireAuthorized, Reject, RejectStates
  <2>2. CallVarsOK
    BY <1>3 DEF CallVarsOK, TypeInv, TypeOK, Labels, RequireAuthorized, Return, Goto
  <2>3. ASSUME NEW u \in Threads PROVE Bound(u)'
    BY <1>3 DEF TypeInv, TypeOK, Bound, RequireAuthorized, Return, Goto
  <2> QED
    BY <1>3, <2>1, <2>2, <2>3 DEF TypeInv, TypeOK, CallVarsOK, RequireAuthorized
<1>4. CASE ConsumeNonce(t)
  <2> DEFINE d == nonces[req[t].sub]
  <2>1. nonceLock' \in [1..MaxInstances -> Threads \cup {None}]
    BY <1>4 DEF TypeInv, TypeOK, Bound, ConsumeNonce, Request
  <2>2. rejected' \in [Subs -> RejectStates \cup {None}]
    BY <1>4 DEF TypeInv, TypeOK, Bound, ConsumeNonce, Reject, RejectStates
  <2>3. CASE Return(t)
    BY <1>4, <2>1, <2>2, <2>3, ReturnTypes DEF TypeInv, TypeOK, ConsumeNonce
  <2>4. CASE ~ Return(t)
    <3>1. d \in NonceRecord
      BY <1>4, <2>4 DEF TypeInv, TypeOK, Bound, ConsumeNonce
    <3>2. /\ nrec' = [nrec EXCEPT ![t] = d]
          /\ pc' = [pc EXCEPT ![t] = "markused"]
          /\ UNCHANGED <<req, cur>>
      BY <1>4, <2>4 DEF ConsumeNonce, Goto
    <3>3. CallVarsOK
      BY <3>1, <3>2 DEF CallVarsOK, TypeInv, TypeOK, Labels
    <3>4. ASSUME NEW u \in Threads PROVE Bound(u)'
      BY <1>4, <3>1, <3>2 DEF TypeInv, TypeOK, Bound, ConsumeNonce
    <3> QED
      BY <1>4, <2>1, <2>2, <3>3, <3>4 DEF TypeInv, TypeOK, ConsumeNonce, CallVarsOK
  <2> QED
    BY <2>3, <2>4
<1>5. CASE MarkUsed(t)
  <2>1. [nrec[t] EXCEPT !.used = TRUE] \in NonceRecord
    BY <1>5 DEF TypeInv, TypeOK, Bound, MarkUsed, NonceRecord, Request
  <2>2. nonces' \in [Subs -> NonceRecord \cup {None}]
    BY <1>5, <2>1 DEF TypeInv, TypeOK, Bound, MarkUsed, NonceRecord, Request
  <2>3. nonceLock' \in [1..MaxInstances -> Threads \cup {None}]
    BY <1>5, <2>1, <2>2 DEF TypeInv, TypeOK, Bound, MarkUsed, NonceRecord, Request
  <2>4. spent' \subseteq Nonces
    BY <1>5, <2>1, <2>2, <2>3 DEF TypeInv, TypeOK, Bound, MarkUsed, NonceRecord, Request
  <2>5. CallVarsOK
    BY <1>5 DEF CallVarsOK, TypeInv, TypeOK, Labels, MarkUsed, Goto, NonceRecord
  <2>6. ASSUME NEW u \in Threads PROVE Bound(u)'
    BY <1>5 DEF TypeInv, TypeOK, Bound, MarkUsed, Goto, NonceRecord
  <2> QED
    BY <1>5, <2>1, <2>2, <2>3, <2>4, <2>5, <2>6 DEF TypeInv, TypeOK, CallVarsOK, MarkUsed
<1>6. CASE Stage(t)
  <2>1. Torn(Archive(req[t])) \in Archives
    BY <1>6 DEF TypeInv, TypeOK, Bound, Stage, Torn, Archive, Archives, Request, AllBodies
  <2>2. quarantine' \in [Subs -> Archives \cup {None}]
    BY <1>6, <2>1 DEF TypeInv, TypeOK, Stage
  <2>3. rejected' \in [Subs -> RejectStates \cup {None}]
    BY <1>6 DEF TypeInv, TypeOK, Bound, Stage, Reject, RejectStates
  <2>4. CallVarsOK
    BY <1>6 DEF CallVarsOK, TypeInv, TypeOK, Labels, Stage, Return, Goto
  <2>5. ASSUME NEW u \in Threads PROVE Bound(u)'
    BY <1>6 DEF TypeInv, TypeOK, Bound, Stage, Return, Goto
  <2> QED
    BY <1>6, <2>2, <2>3, <2>4, <2>5 DEF TypeInv, TypeOK, CallVarsOK, Stage
<1>7. CASE Validate(t)
  <2>1. quarantine' \in [Subs -> Archives \cup {None}]
    BY <1>7 DEF TypeInv, TypeOK, Bound, Validate, Reject, RejectStates, UnlinkQuarantine
  <2>2. rejected' \in [Subs -> RejectStates \cup {None}]
    BY <1>7, <2>1 DEF TypeInv, TypeOK, Bound, Validate, Reject, RejectStates, UnlinkQuarantine
  <2>3. CallVarsOK
    BY <1>7 DEF CallVarsOK, TypeInv, TypeOK, Labels, Validate, Return, Goto, package_accepted
  <2>4. ASSUME NEW u \in Threads PROVE Bound(u)'
    BY <1>7 DEF TypeInv, TypeOK, Bound, Validate, Return, Goto, package_accepted
  <2> QED
    BY <1>7, <2>1, <2>2, <2>3, <2>4 DEF TypeInv, TypeOK, CallVarsOK, Validate
<1>8. CASE RequireBinding(t)
  <2>1. quarantine' \in [Subs -> Archives \cup {None}]
    BY <1>8 DEF TypeInv, TypeOK, Bound, RequireBinding, Reject, RejectStates, UnlinkQuarantine
  <2>2. rejected' \in [Subs -> RejectStates \cup {None}]
    BY <1>8, <2>1 DEF TypeInv, TypeOK, Bound, RequireBinding, Reject, RejectStates, UnlinkQuarantine
  <2>3. CallVarsOK
    BY <1>8 DEF CallVarsOK, TypeInv, TypeOK, Labels, RequireBinding, Return, Goto
  <2>4. ASSUME NEW u \in Threads PROVE Bound(u)'
    BY <1>8 DEF TypeInv, TypeOK, Bound, RequireBinding, Return, Goto
  <2> QED
    BY <1>8, <2>1, <2>2, <2>3, <2>4 DEF TypeInv, TypeOK, CallVarsOK, RequireBinding
<1>9. CASE LockIndex(t)
  <2>1. indexLock' \in Threads \cup {None}
    BY <1>9 DEF TypeInv, TypeOK, Bound, LockIndex, Reject, RejectStates, UnlinkQuarantine
  <2>2. quarantine' \in [Subs -> Archives \cup {None}]
    BY <1>9, <2>1 DEF TypeInv, TypeOK, Bound, LockIndex, Reject, RejectStates, UnlinkQuarantine
  <2>3. rejected' \in [Subs -> RejectStates \cup {None}]
    BY <1>9, <2>1, <2>2 DEF TypeInv, TypeOK, Bound, LockIndex, Reject, RejectStates, UnlinkQuarantine
  <2>4. CallVarsOK
    BY <1>9 DEF CallVarsOK, TypeInv, TypeOK, Labels, LockIndex, Return, Goto, RefuseDuplicate
  <2>5. ASSUME NEW u \in Threads PROVE Bound(u)'
    BY <1>9 DEF TypeInv, TypeOK, Bound, LockIndex, Return, Goto, RefuseDuplicate
  <2> QED
    BY <1>9, <2>1, <2>2, <2>3, <2>4, <2>5 DEF TypeInv, TypeOK, CallVarsOK, LockIndex
<1>10. CASE MoveToAccepted(t)
  <2>1. indexLock' \in Threads \cup {None}
    BY <1>10 DEF TypeInv, TypeOK, MoveToAccepted, ReleaseIndex
  <2>2. quarantine' \in [Subs -> Archives \cup {None}]
    BY <1>10 DEF TypeInv, TypeOK, MoveToAccepted
  <2>3. accepted' \in [Subs -> Archives \cup {None}]
    BY <1>10 DEF TypeInv, TypeOK, Bound, MoveToAccepted
  <2>4. CallVarsOK
    BY <1>10 DEF CallVarsOK, TypeInv, TypeOK, Labels, MoveToAccepted, Return, Goto
  <2>5. ASSUME NEW u \in Threads PROVE Bound(u)'
    BY <1>10 DEF TypeInv, TypeOK, Bound, MoveToAccepted, Return, Goto
  <2> QED
    BY <1>10, <2>1, <2>2, <2>3, <2>4, <2>5 DEF TypeInv, TypeOK, CallVarsOK, MoveToAccepted
<1>11. CASE AppendIndex(t)
  <2>1. Archive(req[t]) \in Archives
    BY <1>11 DEF TypeInv, TypeOK, Bound, AppendIndex, Archive, Archives, Request, AllBodies
  <2>2. index' \subseteq Item
    BY <1>11, <2>1 DEF TypeInv, TypeOK, Bound, AppendIndex, Item
  <2>3. processing' \in [Subs -> ProcessingStates] /\ unsettled' \subseteq Subs
    BY <1>11 DEF TypeInv, TypeOK, AppendIndex, ProcessingStates
  <2>4. indexLock' \in Threads \cup {None}
    BY <1>11 DEF TypeInv, TypeOK, AppendIndex
  <2>5. CallVarsOK
    BY <1>11 DEF CallVarsOK, TypeInv, TypeOK, Labels, AppendIndex, Goto
  <2>6. ASSUME NEW u \in Threads PROVE Bound(u)'
    BY <1>11 DEF TypeInv, TypeOK, Bound, AppendIndex, Goto
  <2> QED
    BY <1>11, <2>2, <2>3, <2>4, <2>5, <2>6 DEF TypeInv, TypeOK, CallVarsOK, AppendIndex
<1>12. CASE UseLoad(t)
  <2>1. indexLock' \in Threads \cup {None}
    BY <1>12 DEF TypeInv, TypeOK, Bound, UseLoad, ReleaseIndex
  <2>2. CallVarsOK
    BY <1>12 DEF CallVarsOK, TypeInv, TypeOK, Labels, UseLoad, Return, Goto
  <2>3. ASSUME NEW u \in Threads PROVE Bound(u)'
    BY <1>12 DEF TypeInv, TypeOK, Bound, UseLoad, Return, Goto
  <2> QED
    BY <1>12, <2>1, <2>2, <2>3 DEF TypeInv, TypeOK, CallVarsOK, UseLoad
<1>13. CASE UseWrite(t)
  <2>1. session' \in Session
    BY <1>13 DEF TypeInv, TypeOK, Bound, UseWrite, Session, ReleaseIndex
  <2>2. indexLock' \in Threads \cup {None}
    BY <1>13, <2>1 DEF TypeInv, TypeOK, Bound, UseWrite, Session, ReleaseIndex
  <2>3. CallVarsOK
    BY <1>13 DEF CallVarsOK, TypeInv, TypeOK, Labels, UseWrite, Goto
  <2>4. ASSUME NEW u \in Threads PROVE Bound(u)'
    BY <1>13 DEF TypeInv, TypeOK, Bound, UseWrite, Goto
  <2> QED
    BY <1>13, <2>1, <2>2, <2>3, <2>4 DEF TypeInv, TypeOK, CallVarsOK, UseWrite
<1>14. CASE WriteReceipt(t)
  <2>1. Archive(req[t]) \in Archives
    BY <1>14 DEF TypeInv, TypeOK, Bound, WriteReceipt, Archive, Archives, Request, AllBodies
  <2>2. receipts' \in [Subs -> Archives \cup {None}]
    BY <1>14, <2>1 DEF TypeInv, TypeOK, Bound, WriteReceipt, Archive, Archives, Request, AllBodies
  <2>3. CallVarsOK
    BY <1>14 DEF CallVarsOK, TypeInv, TypeOK, Labels, WriteReceipt, Goto
  <2>4. ASSUME NEW u \in Threads PROVE Bound(u)'
    BY <1>14 DEF TypeInv, TypeOK, Bound, WriteReceipt, Goto
  <2> QED
    BY <1>14, <2>1, <2>2, <2>3, <2>4 DEF TypeInv, TypeOK, CallVarsOK, WriteReceipt
<1>15. CASE Normalizing(t)
  <2>1. processing' \in [Subs -> ProcessingStates]
    BY <1>15 DEF TypeInv, TypeOK, Bound, Normalizing, update_processing_state, ProcessingStates
  <2>2. CallVarsOK
    BY <1>15 DEF CallVarsOK, TypeInv, TypeOK, Labels, Normalizing, update_processing_state, Raise, Return, Goto
  <2>3. ASSUME NEW u \in Threads PROVE Bound(u)'
    BY <1>15 DEF TypeInv, TypeOK, Bound, Normalizing, update_processing_state, Raise, Return, Goto
  <2>4. unsettled' \subseteq Subs
    BY <1>15 DEF TypeInv, TypeOK, Bound, Normalizing, update_processing_state, Raise
  <2> QED
    BY <1>15, <2>1, <2>2, <2>3, <2>4 DEF TypeInv, TypeOK, CallVarsOK, Normalizing, update_processing_state
<1>16. CASE Normalize(t)
  <2>1. normalized' \subseteq Subs
    BY <1>16 DEF TypeInv, TypeOK, Bound, Normalize
  <2>2. CallVarsOK
    BY <1>16 DEF CallVarsOK, TypeInv, TypeOK, Labels, Normalize, Return, Goto, Raise
  <2>3. ASSUME NEW u \in Threads PROVE Bound(u)'
    BY <1>16 DEF TypeInv, TypeOK, Bound, Normalize, Return, Goto, Raise
  <2>4. unsettled' \subseteq Subs
    BY <1>16 DEF TypeInv, TypeOK, Bound, Normalize, Raise
  <2> QED
    BY <1>16, <2>1, <2>2, <2>3, <2>4 DEF TypeInv, TypeOK, CallVarsOK, Normalize
<1>17. CASE Analyzing(t)
  <2>1. processing' \in [Subs -> ProcessingStates]
    BY <1>17 DEF TypeInv, TypeOK, Bound, Analyzing, update_processing_state, ProcessingStates
  <2>2. CallVarsOK
    BY <1>17 DEF CallVarsOK, TypeInv, TypeOK, Labels, Analyzing, update_processing_state, Raise, Return, Goto
  <2>3. ASSUME NEW u \in Threads PROVE Bound(u)'
    BY <1>17 DEF TypeInv, TypeOK, Bound, Analyzing, update_processing_state, Raise, Return, Goto
  <2>4. unsettled' \subseteq Subs
    BY <1>17 DEF TypeInv, TypeOK, Bound, Analyzing, update_processing_state, Raise
  <2> QED
    BY <1>17, <2>1, <2>2, <2>3, <2>4 DEF TypeInv, TypeOK, CallVarsOK, Analyzing, update_processing_state
<1>18. CASE Analyze(t)
  <2>1. findings' \subseteq Subs
    BY <1>18 DEF TypeInv, TypeOK, Bound, Analyze
  <2>2. CallVarsOK
    BY <1>18 DEF CallVarsOK, TypeInv, TypeOK, Labels, Analyze, Return, Goto, Raise
  <2>3. ASSUME NEW u \in Threads PROVE Bound(u)'
    BY <1>18 DEF TypeInv, TypeOK, Bound, Analyze, Return, Goto, Raise
  <2>4. unsettled' \subseteq Subs
    BY <1>18 DEF TypeInv, TypeOK, Bound, Analyze, Raise
  <2> QED
    BY <1>18, <2>1, <2>2, <2>3, <2>4 DEF TypeInv, TypeOK, CallVarsOK, Analyze
<1>19. CASE Complete(t)
  <2>1. processing' \in [Subs -> ProcessingStates]
    BY <1>19 DEF TypeInv, TypeOK, Bound, Complete, update_processing_state, ProcessingStates
  <2>2. CallVarsOK
    BY <1>19 DEF CallVarsOK, TypeInv, TypeOK, Labels, Complete, update_processing_state, Raise, Return, Goto
  <2>3. ASSUME NEW u \in Threads PROVE Bound(u)'
    BY <1>19 DEF TypeInv, TypeOK, Bound, Complete, update_processing_state, Raise, Return, Goto
  <2>4. unsettled' \subseteq Subs
    BY <1>19 DEF TypeInv, TypeOK, Bound, Complete, update_processing_state, Raise
  <2> QED
    BY <1>19, <2>1, <2>2, <2>3, <2>4 DEF TypeInv, TypeOK, CallVarsOK, Complete, update_processing_state
<1>20. CASE Report(t)
  <2>1. CallVarsOK
    BY <1>20 DEF CallVarsOK, TypeInv, TypeOK, Labels, Report, Return, Goto, Raise
  <2>2. ASSUME NEW u \in Threads PROVE Bound(u)'
    BY <1>20 DEF TypeInv, TypeOK, Bound, Report, Return, Goto, Raise
  <2>3. unsettled' \subseteq Subs
    BY <1>20 DEF TypeInv, TypeOK, Bound, Report, Raise
  <2> QED
    BY <1>20, <2>1, <2>2, <2>3 DEF TypeInv, TypeOK, CallVarsOK, Report
<1>21. CASE AnalysisFailed(t)
  <2>1. TypeOK'
    BY <1>21, ConstantsAssumption DEF TypeInv, TypeOK, Bound, Labels, AnalysisFailed, Return, ProcessingStates, failure_state
  <2>2. ASSUME NEW u \in Threads PROVE Bound(u)'
    BY <1>21 DEF TypeInv, TypeOK, Bound, AnalysisFailed, Return, ProcessingStates, failure_state
  <2> QED
    BY <2>1, <2>2 DEF TypeInv
<1>22. CASE StatusWrite(t)
  <2>1. TypeOK'
    BY <1>22, ConstantsAssumption DEF TypeInv, TypeOK, Bound, Labels, StatusWrite, Return, Session
  <2>2. ASSUME NEW u \in Threads PROVE Bound(u)'
    BY <1>22 DEF TypeInv, TypeOK, Bound, StatusWrite, Return, Session
  <2> QED
    BY <2>1, <2>2 DEF TypeInv
<1>23. CASE EndWrite(t)
  <2>1. Archive(req[t]) \in Archives
    BY <1>23 DEF TypeInv, TypeOK, Bound, EndWrite, Archive, Archives, Request, AllBodies
  <2>2. /\ quarantine' \in [Subs -> Archives \cup {None}]
        /\ accepted' \in [Subs -> Archives \cup {None}]
    BY <1>23, <2>1 DEF TypeInv, TypeOK, EndWrite, Written
  <2>3. CallVarsOK
    BY <1>23 DEF CallVarsOK, TypeInv, TypeOK, Labels, EndWrite, Goto
  <2>4. ASSUME NEW u \in Threads PROVE Bound(u)'
    BY <1>23 DEF TypeInv, TypeOK, Bound, EndWrite, Goto
  <2> QED
    BY <1>23, <2>2, <2>3, <2>4 DEF TypeInv, TypeOK, CallVarsOK, EndWrite
<1>24. CASE WriteAccepted(t)
  <2>1. Torn(Archive(req[t])) \in Archives
    BY <1>24 DEF TypeInv, TypeOK, Bound, WriteAccepted, Torn, Archive, Archives, Request, AllBodies
  <2>2. accepted' \in [Subs -> Archives \cup {None}]
    BY <1>24, <2>1 DEF TypeInv, TypeOK, WriteAccepted
  <2>3. CallVarsOK
    BY <1>24 DEF CallVarsOK, TypeInv, TypeOK, Labels, WriteAccepted, Goto
  <2>4. ASSUME NEW u \in Threads PROVE Bound(u)'
    BY <1>24 DEF TypeInv, TypeOK, Bound, WriteAccepted, Goto
  <2> QED
    BY <1>24, <2>2, <2>3, <2>4 DEF TypeInv, TypeOK, CallVarsOK, WriteAccepted
<1>25. CASE RecordProvenance(t)
  <2>1. CallVarsOK
    BY <1>25 DEF CallVarsOK, TypeInv, TypeOK, Labels, RecordProvenance, Goto
  <2>2. ASSUME NEW u \in Threads PROVE Bound(u)'
    BY <1>25 DEF TypeInv, TypeOK, Bound, RecordProvenance, Goto
  <2> QED
    BY <1>25, <2>1, <2>2 DEF TypeInv, TypeOK, CallVarsOK, RecordProvenance
<1>26. CASE RemoveFile(t)
  <2>1. /\ accepted' \in [Subs -> Archives \cup {None}]
        /\ receipts' \in [Subs -> Archives \cup {None}]
        /\ normalized' \subseteq Subs /\ findings' \subseteq Subs
    BY <1>26 DEF TypeInv, TypeOK, RemoveFile
  <2>2. CallVarsOK
    BY <1>26 DEF CallVarsOK, TypeInv, TypeOK, Labels, RemoveFile, Goto
  <2>3. ASSUME NEW u \in Threads PROVE Bound(u)'
    BY <1>26 DEF TypeInv, TypeOK, Bound, RemoveFile, Goto
  <2> QED
    BY <1>26, <2>1, <2>2, <2>3 DEF TypeInv, TypeOK, CallVarsOK, RemoveFile
<1>27. CASE RemoveItem(t)
  <2>1. index' \subseteq Item /\ removed' \subseteq Item /\ indexLock' \in Threads \cup {None}
    BY <1>27 DEF TypeInv, TypeOK, RemoveItem, Items, ReleaseIndex
  <2>2. CallVarsOK /\ \A u \in Threads : Bound(u)'
    BY <1>27, ReturnTypes DEF CallVarsOK, RemoveItem
  <2> QED
    BY <1>27, <2>1, <2>2 DEF TypeInv, TypeOK, CallVarsOK, RemoveItem
<1> QED
  BY <1>1, <1>2, <1>3, <1>4, <1>5, <1>6, <1>7, <1>8, <1>9, <1>10, <1>11, <1>12, <1>13, <1>14, <1>15, <1>16, <1>17, <1>18, <1>19, <1>20, <1>21, <1>22, <1>23, <1>24, <1>25, <1>26, <1>27 DEF Step

\* Each call that clients and the operator make keeps the types.
LEMMA ArriveTypeInv == ASSUME TypeInv, NEW t \in Threads, Arrive(t) PROVE TypeInv'
<1>1. CASE \E s \in Subs, source \in Sources, e \in Envelopes \cup {None} : RequestNonce(t, s, source, e)
  <2>1. PICK s \in Subs, source \in Sources, e \in Envelopes \cup {None} : RequestNonce(t, s, source, e)
    BY <1>1
  <2> DEFINE r == [NoRequest EXCEPT !.kind = "nonce", !.sub = s, !.source = source, !.envelope = e]
  <2>2. /\ r \in Request /\ r.sub \in Subs
        /\ r.kind # "import" /\ r.source \in Sources
    BY ConstantsAssumption DEF TypeInv, TypeOK, NoRequest, Request, AllKinds, AllBodies
  <2>3. PICK l \in {"grant", "issue"} : Call(t, r, l)
    BY <2>1 DEF RequestNonce
  <2> HIDE DEF r
  <2>4. l \in Labels
    BY <2>3 DEF Labels
  <2>5. /\ pc' \in [Threads -> Labels]
        /\ req' \in [Threads -> Request \cup {None}]
        /\ cur' = cur /\ nrec' = nrec
        /\ \A u \in Threads \ {t} : Bound(u)'
        /\ pc'[t] = l /\ req'[t] = r
    BY <2>2, <2>3, <2>4, CallTypes
  <2>6. Bound(t)'
    BY <2>2, <2>3, <2>5 DEF Bound
  <2> QED
    BY <2>1, <2>5, <2>6 DEF TypeInv, TypeOK, RequestNonce
<1>2. CASE \E s \in Subs, n \in Nonces, body \in Bodies, source \in Sources : Accept(t, s, n, body, source)
  <2>1. PICK s \in Subs, n \in Nonces, body \in Bodies, source \in Sources : Accept(t, s, n, body, source)
    BY <1>2
  <2> DEFINE r == [NoRequest EXCEPT !.kind = "submit", !.sub = s, !.nonce = n, !.body = body, !.source = source]
  <2>2. /\ r \in Request /\ r.sub \in Subs
        /\ r.body \in AllBodies /\ r.nonce \in Nonces
    BY ConstantsAssumption DEF TypeInv, TypeOK, NoRequest, Request, AllKinds, AllBodies
  <2>3. PICK l \in {"authorize", "consume"} : Call(t, r, l)
    BY <2>1 DEF Accept
  <2> HIDE DEF r
  <2>4. l \in Labels
    BY <2>3 DEF Labels
  <2>5. /\ pc' \in [Threads -> Labels]
        /\ req' \in [Threads -> Request \cup {None}]
        /\ cur' = cur /\ nrec' = nrec
        /\ \A u \in Threads \ {t} : Bound(u)'
        /\ pc'[t] = l /\ req'[t] = r
    BY <2>2, <2>3, <2>4, CallTypes
  <2>6. Bound(t)'
    BY <2>2, <2>3, <2>5 DEF Bound
  <2> QED
    BY <2>1, <2>5, <2>6 DEF TypeInv, TypeOK, Accept
<1>3. CASE \E s \in Subs, source \in Sources : AcceptRefusedToken(t, s, source)
  BY <1>3 DEF TypeInv, TypeOK, Bound, AcceptRefusedToken, Reject, RejectStates
<1>4. CASE \E s \in Subs, e \in Envelopes \cup {None} : ImportFile(t, s, e)
  <2>1. PICK s \in Subs, e \in Envelopes \cup {None} : ImportFile(t, s, e)
    BY <1>4
  <2> DEFINE r == [NoRequest EXCEPT !.kind = "import", !.sub = s, !.body = "valid", !.envelope = e]
  <2>2. /\ r \in Request /\ r.sub \in Subs
        /\ r.kind = "import" /\ r.body = "valid"
    BY ConstantsAssumption DEF TypeInv, TypeOK, NoRequest, Request, AllKinds, AllBodies
  <2>3. PICK l \in {"grant", "lock"} : Call(t, r, l)
    BY <2>1 DEF ImportFile
  <2> HIDE DEF r
  <2>4. l \in Labels
    BY <2>3 DEF Labels
  <2>5. /\ pc' \in [Threads -> Labels]
        /\ req' \in [Threads -> Request \cup {None}]
        /\ cur' = cur /\ nrec' = nrec
        /\ \A u \in Threads \ {t} : Bound(u)'
        /\ pc'[t] = l /\ req'[t] = r
    BY <2>2, <2>3, <2>4, CallTypes
  <2>6. Bound(t)'
    BY <2>2, <2>3, <2>5 DEF Bound
  <2> QED
    BY <2>1, <2>5, <2>6 DEF TypeInv, TypeOK, ImportFile
<1>5. CASE \E status \in Statuses : StatusLoad(t, status)
  <2>1. PICK status \in Statuses : StatusLoad(t, status)
    BY <1>5
  <2>2. [NoRequest EXCEPT !.to = status] \in Request
    BY DEF TypeInv, TypeOK, NoRequest, Request, AllKinds
  <2>3. [NoRequest EXCEPT !.to = status].to \in Statuses
    BY DEF NoRequest
  <2>4. CallVarsOK
    BY <2>1, <2>2 DEF CallVarsOK, TypeInv, TypeOK, Labels, StatusLoad, Goto
  <2>5. ASSUME NEW u \in Threads PROVE Bound(u)'
    BY <2>1, <2>2, <2>3 DEF TypeInv, TypeOK, Bound, StatusLoad, Goto
  <2> QED
    BY <2>1, <2>4, <2>5 DEF TypeInv, TypeOK, CallVarsOK, StatusLoad
<1>6. CASE \E s \in Subs : RemoveSubmission(t, s)
  <2>1. PICK s \in Subs : RemoveSubmission(t, s)
    BY <1>6
  <2> DEFINE r == [NoRequest EXCEPT !.kind = "remove", !.sub = s]
  <2>2. r \in Request /\ r.sub \in Subs
    BY DEF TypeInv, TypeOK, NoRequest, Request, AllKinds
  <2>3. Call(t, r, "rmarchive")
    BY <2>1 DEF RemoveSubmission
  <2> HIDE DEF r
  <2>4. "rmarchive" \in Labels
    BY DEF Labels
  <2>5. /\ pc' \in [Threads -> Labels]
        /\ req' \in [Threads -> Request \cup {None}]
        /\ cur' = cur /\ nrec' = nrec
        /\ \A u \in Threads \ {t} : Bound(u)'
        /\ pc'[t] = "rmarchive" /\ req'[t] = r
    BY <2>2, <2>3, <2>4, CallTypes
  <2>6. Bound(t)'
    BY <2>2, <2>5 DEF Bound
  <2> QED
    BY <2>1, <2>5, <2>6 DEF TypeInv, TypeOK, RemoveSubmission
<1> QED
  BY <1>1, <1>2, <1>3, <1>4, <1>5, <1>6 DEF Arrive

\* The clock and the host keep the types.
LEMMA HostTypeInv == ASSUME TypeInv, Environment PROVE TypeInv'
<1>1. CASE \E t \in Threads : HostFails(t)
  <2>1. PICK t \in Threads : HostFails(t)
    BY <1>1
  <2>2. failures' \in 0..MaxFailures
    BY <2>1, ConstantsAssumption DEF TypeInv, TypeOK, HostFails
  <2>3. nonceLock' \in [1..MaxInstances -> Threads \cup {None}]
    BY <2>1 DEF TypeInv, TypeOK, HostFails
  <2>4. indexLock' \in Threads \cup {None}
    BY <2>1 DEF TypeInv, TypeOK, HostFails, ReleaseIndex
  <2>5. unsettled' \subseteq Subs
    BY <2>1 DEF TypeInv, TypeOK, Bound, HostFails, Raise, AnalysisLabels
  <2>6. CallVarsOK
    BY <2>1 DEF CallVarsOK, TypeInv, TypeOK, Labels, HostFails, Raise, Return, Goto
  <2>7. ASSUME NEW u \in Threads PROVE Bound(u)'
    BY <2>1 DEF TypeInv, TypeOK, Bound, HostFails, Raise, Return, Goto, AnalysisLabels
  <2> QED
    BY <2>1, <2>2, <2>3, <2>4, <2>5, <2>6, <2>7 DEF TypeInv, TypeOK, CallVarsOK, HostFails
<1>2. CASE Expire
  BY <1>2 DEF TypeInv, TypeOK, Bound, Expire
<1>3. CASE \E s \in Subs : NonceExpires(s)
  <2>1. PICK s \in Subs : NonceExpires(s)
    BY <1>3
  <2>2. [nonces[s] EXCEPT !.live = FALSE] \in NonceRecord
    BY <2>1 DEF TypeInv, TypeOK, NonceExpires, NonceRecord
  <2>3. nonces' \in [Subs -> NonceRecord \cup {None}]
    BY <2>1, <2>2 DEF TypeInv, TypeOK, NonceExpires
  <2> QED
    BY <2>1, <2>3 DEF TypeInv, TypeOK, Bound, NonceExpires
<1>4. CASE \E e \in Envelopes : GrantExpires(e)
  <2>1. PICK e \in Envelopes : GrantExpires(e)
    BY <1>4
  <2>2. [grants[e] EXCEPT !.live = FALSE] \in Grant
    <3>1. grants[e] \in Grant
      BY <2>1 DEF TypeInv, TypeOK, GrantExpires
    <3> QED
      BY <3>1 DEF Grant
  <2>3. grants' \in [Envelopes -> Grant \cup {None}]
    BY <2>1, <2>2 DEF TypeInv, TypeOK, GrantExpires
  <2> QED
    BY <2>1, <2>3 DEF TypeInv, TypeOK, Bound, GrantExpires
<1>5. CASE RestartServer
  <2>1. instance' \in 1..MaxInstances
    BY <1>5, ConstantsAssumption DEF TypeInv, TypeOK, RestartServer
  <2> QED
    BY <1>5, <2>1 DEF TypeInv, TypeOK, Bound, RestartServer
<1>6. CASE Crash
  <2>1. crashes' \in 0..MaxCrashes
    BY <1>6, ConstantsAssumption DEF TypeInv, TypeOK, Crash
  <2>2. CallVarsOK
    BY <1>6 DEF CallVarsOK, Labels, Crash
  <2>3. \A t \in Threads : Bound(t)'
    BY <1>6 DEF Crash, Bound
  <2> QED
    BY <1>6, <2>1, <2>2, <2>3 DEF TypeInv, TypeOK, CallVarsOK, Crash
<1> QED
  BY <1>1, <1>2, <1>3, <1>4, <1>5, <1>6 DEF Environment

LEMMA NextTypeInv == TypeInv /\ [Next]_vars => TypeInv'
  BY StepTypeInv, ArriveTypeInv, HostTypeInv, StutterTypeInv DEF Next

\* Type correctness of the intake, with the bindings of the calls in progress:
\* whatever interleaving, expiry, restart or termination occurs, every file
\* and every local copy is of its type when it is used.
THEOREM TypeCorrect == Spec => []TypeOK
<1>1. Spec => []TypeInv
  BY InitTypeInv, NextTypeInv, PTL DEF Spec
<1>2. TypeInv => TypeOK
  BY DEF TypeInv
<1> QED
  BY <1>1, <1>2, PTL

-----------------------------------------------------------------------------
(* The inductive invariant behind the index and the receipts.  IndexUnique   *)
(* alone is not inductive: a call between the duplicate check and the append *)
(* must hold the index lock, and nobody else may have added its submission.  *)

InCriticalSection(t) ==
  pc[t] \in {"move", "write", "writing", "append"} =>
    indexLock = t /\ \A e \in index : e.sub # req[t].sub

\* A removal holds the lock, and its item is there until it removes it.
RemovalLabels == {"rmarchive", "rmreceipt", "rmnormalized", "rmfindings", "rmitem"}

Removing(t) ==
  pc[t] \in RemovalLabels => indexLock = t /\ \E e \in index : e.sub = req[t].sub

\* After the append the package stays among those recorded.
IsRecorded(t) ==
  pc[t] \in {"useload", "usewrite", "receipt"} =>
    \E e \in index \cup removed : e.sub = req[t].sub /\ e.digest = Archive(req[t])

ItemsValid == \A e \in index \cup removed : e.digest.body = "valid"

Safety ==
  /\ IndexUnique
  /\ ReceiptBacked
  /\ ItemsValid
  /\ \A t \in Threads : InCriticalSection(t) /\ IsRecorded(t) /\ Removing(t)

LEMMA InitSafety == Init => Safety
  BY DEF Init, Safety, IndexUnique, ReceiptBacked, ItemsValid, InCriticalSection, IsRecorded,
         Removing, RemovalLabels

LEMMA StutterSafety == Safety /\ UNCHANGED vars => Safety'
  BY DEF vars, Safety, IndexUnique, ReceiptBacked, ItemsValid, InCriticalSection, IsRecorded, Removing,
         Archive

\* The other calls do not move.
OthersStay(t) == \A u \in Threads \ {t} : pc'[u] = pc[u] /\ req'[u] = req[u]

\* The labels the invariant speaks of.
SafetyLabels == {"move", "write", "writing", "append", "useload", "usewrite", "receipt"}
                \cup RemovalLabels

\* A step that leaves the records alone, takes no lock and ends outside the labels
\* the invariant speaks of.
LEMMA PlainSafety ==
  ASSUME Safety, NEW t \in Threads, OthersStay(t), UNCHANGED <<index, removed, receipts>>,
         ReleaseIndex(t) \/ UNCHANGED indexLock,
         pc'[t] \notin SafetyLabels
  PROVE  Safety'
<1>1. IndexUnique' /\ ReceiptBacked' /\ ItemsValid'
  BY DEF Safety, IndexUnique, ReceiptBacked, ItemsValid
<1>2. ASSUME NEW u \in Threads PROVE InCriticalSection(u)' /\ IsRecorded(u)' /\ Removing(u)'
  <2>1. CASE u = t
    BY <2>1 DEF InCriticalSection, IsRecorded, Removing, SafetyLabels
  <2>2. CASE u # t
    <3>1. pc'[u] = pc[u] /\ req'[u] = req[u] /\ (indexLock = u => indexLock' = u)
      BY <2>2 DEF OthersStay, ReleaseIndex
    <3>2. InCriticalSection(u) /\ IsRecorded(u) /\ Removing(u)
      BY DEF Safety
    <3> QED
      BY <3>1, <3>2 DEF InCriticalSection, IsRecorded, Removing, Archive
  <2> QED
    BY <2>1, <2>2
<1> QED
  BY <1>1, <1>2 DEF Safety

\* Steps of a call outside the critical section.
LEMMA PlainStep ==
  ASSUME TypeInv, NEW t \in Threads,
         \/ ConsumeGrant(t) \/ (\E n \in Nonces : IssueNonce(t, n))
         \/ RequireAuthorized(t) \/ ConsumeNonce(t) \/ MarkUsed(t) \/ Stage(t) \/ Validate(t)
         \/ RequireBinding(t) \/ RecordProvenance(t) \/ Normalizing(t) \/ Normalize(t)
         \/ Analyzing(t) \/ Analyze(t) \/ Complete(t) \/ Report(t) \/ AnalysisFailed(t)
         \/ StatusWrite(t) \/ (EndWrite(t) /\ pc[t] = "staging")
         \/ (Arrive(t) /\ \A s \in Subs : ~RemoveSubmission(t, s))
  PROVE  /\ OthersStay(t)
         /\ UNCHANGED <<index, removed, receipts, indexLock>>
         /\ pc'[t] \notin SafetyLabels
<1> USE DEF TypeInv, TypeOK, OthersStay, Return, Goto, SafetyLabels, RemovalLabels
<1>1. CASE ConsumeGrant(t)
  BY <1>1 DEF ConsumeGrant
<1>2. CASE \E n \in Nonces : IssueNonce(t, n)
  BY <1>2 DEF IssueNonce
<1>3. CASE RequireAuthorized(t)
  BY <1>3 DEF RequireAuthorized
<1>4. CASE ConsumeNonce(t)
  BY <1>4 DEF ConsumeNonce
<1>5. CASE MarkUsed(t)
  BY <1>5 DEF MarkUsed
<1>6. CASE Stage(t)
  BY <1>6 DEF Stage
<1>7. CASE Validate(t)
  BY <1>7 DEF Validate
<1>8. CASE RequireBinding(t)
  BY <1>8 DEF RequireBinding
<1>9. CASE Normalizing(t)
  BY <1>9 DEF Normalizing, update_processing_state, Raise
<1>10. CASE Normalize(t)
  BY <1>10 DEF Normalize, Raise
<1>11. CASE Analyzing(t)
  BY <1>11 DEF Analyzing, update_processing_state, Raise
<1>12. CASE Analyze(t)
  BY <1>12 DEF Analyze, Raise
<1>13. CASE Complete(t)
  BY <1>13 DEF Complete, update_processing_state, Raise
<1>14. CASE Report(t)
  BY <1>14 DEF Report, Raise
<1>15. CASE AnalysisFailed(t)
  BY <1>15 DEF AnalysisFailed
<1>16. CASE StatusWrite(t)
  BY <1>16 DEF StatusWrite
<1>17. CASE Arrive(t) /\ \A s \in Subs : ~RemoveSubmission(t, s)
  <2>1. CASE \E s \in Subs, source \in Sources, e \in Envelopes \cup {None} : RequestNonce(t, s, source, e)
    BY <2>1 DEF RequestNonce, Call
  <2>2. CASE \E s \in Subs, n \in Nonces, body \in Bodies, source \in Sources : Accept(t, s, n, body, source)
    BY <2>2 DEF Accept, Call
  <2>3. CASE \E s \in Subs, source \in Sources : AcceptRefusedToken(t, s, source)
    BY <2>3 DEF AcceptRefusedToken
  <2>4. CASE \E s \in Subs, e \in Envelopes \cup {None} : ImportFile(t, s, e)
    BY <2>4 DEF ImportFile, Call
  <2>5. CASE \E status \in Statuses : StatusLoad(t, status)
    BY <2>5 DEF StatusLoad
  <2> QED
    BY <1>17, <2>1, <2>2, <2>3, <2>4, <2>5 DEF Arrive
<1>18. CASE RecordProvenance(t)
  BY <1>18 DEF RecordProvenance
<1>19. CASE EndWrite(t) /\ pc[t] = "staging"
  BY <1>19 DEF EndWrite
<1> QED
  BY <1>1, <1>2, <1>3, <1>4, <1>5, <1>6, <1>7, <1>8, <1>9, <1>10, <1>11, <1>12, <1>13, <1>14, <1>15,
     <1>16, <1>17, <1>18, <1>19

\* A recorded package stays recorded while its call does not change.
LEMMA StaysRecorded ==
  ASSUME NEW u \in Threads, IsRecorded(u), UNCHANGED <<index, removed>>,
         pc'[u] \in {"useload", "usewrite", "receipt"} =>
           pc[u] \in {"useload", "usewrite", "receipt"} /\ req'[u] = req[u]
  PROVE  IsRecorded(u)'
  BY DEF IsRecorded, Archive

\* A step that keeps the records and the locks of the other calls concerns only
\* what its own call must show.
LEMMA SectionStep ==
  ASSUME TypeInv, Safety, NEW t \in Threads, OthersStay(t), UNCHANGED <<index, removed, receipts>>,
         \A u \in Threads \ {t} : indexLock = u => indexLock' = u,
         InCriticalSection(t)', IsRecorded(t)', Removing(t)'
  PROVE  Safety'
<1>1. IndexUnique' /\ ReceiptBacked' /\ ItemsValid'
  BY DEF Safety, IndexUnique, ReceiptBacked, ItemsValid
<1>2. ASSUME NEW u \in Threads \ {t} PROVE InCriticalSection(u)' /\ IsRecorded(u)' /\ Removing(u)'
  <2>1. pc'[u] = pc[u] /\ req'[u] = req[u]
    BY DEF OthersStay
  <2>2. InCriticalSection(u) /\ IsRecorded(u) /\ Removing(u)
    BY DEF Safety
  <2> QED
    BY <2>1, <2>2 DEF InCriticalSection, IsRecorded, Removing, Archive
<1> QED
  BY <1>1, <1>2 DEF Safety

\* Steps of a call in or after the critical section.
LEMMA CriticalStep ==
  ASSUME TypeInv, Safety, NEW t \in Threads,
         \/ LockIndex(t) \/ MoveToAccepted(t) \/ WriteAccepted(t)
         \/ (EndWrite(t) /\ pc[t] = "writing") \/ UseLoad(t) \/ UseWrite(t)
  PROVE  Safety'
<1> USE DEF TypeInv, TypeOK, Return, Goto
<1>0. None \notin Threads /\ InCriticalSection(t) /\ IsRecorded(t)
  BY ConstantsAssumption DEF Safety
<1>1. CASE LockIndex(t)
  <2>1. OthersStay(t) /\ UNCHANGED <<index, removed, receipts>>
    BY <1>1 DEF LockIndex, RefuseDuplicate, OthersStay
  <2>2. \A u \in Threads \ {t} : indexLock = u => indexLock' = u
    BY <1>0, <1>1 DEF LockIndex
  <2>3. \/ pc'[t] = "idle"
        \/ /\ pc'[t] \in {"move", "write"} /\ indexLock' = t /\ req' = req /\ index' = index
           /\ \A e \in index : e.sub # req[t].sub
    BY <1>1 DEF LockIndex, RefuseDuplicate, duplicate
  <2>4. InCriticalSection(t)' /\ IsRecorded(t)' /\ Removing(t)'
    BY <2>3 DEF InCriticalSection, IsRecorded, Removing, RemovalLabels
  <2> QED
    BY <2>1, <2>2, <2>4, SectionStep
<1>2. CASE MoveToAccepted(t)
  <2>1. OthersStay(t) /\ UNCHANGED <<index, removed, receipts>>
    BY <1>2 DEF MoveToAccepted, OthersStay
  <2>2. \A u \in Threads \ {t} : indexLock = u => indexLock' = u
    BY <1>2 DEF MoveToAccepted, ReleaseIndex
  <2>3. \/ pc'[t] = "idle"
        \/ pc'[t] = "append" /\ indexLock' = indexLock /\ req' = req /\ index' = index
    BY <1>2 DEF MoveToAccepted
  <2>4. InCriticalSection(t)' /\ IsRecorded(t)' /\ Removing(t)'
    BY <1>0, <1>2, <2>3 DEF MoveToAccepted, InCriticalSection, IsRecorded, Removing, RemovalLabels
  <2> QED
    BY <2>1, <2>2, <2>4, SectionStep
<1>3. CASE WriteAccepted(t) \/ (EndWrite(t) /\ pc[t] = "writing")
  <2>1. OthersStay(t) /\ UNCHANGED <<index, removed, receipts, indexLock, req>>
    BY <1>3 DEF WriteAccepted, EndWrite, OthersStay
  <2>2. pc[t] \in {"write", "writing"} /\ pc'[t] \in {"writing", "append"}
    BY <1>3 DEF WriteAccepted, EndWrite
  <2>3. InCriticalSection(t)' /\ IsRecorded(t)' /\ Removing(t)'
    BY <1>0, <2>1, <2>2 DEF InCriticalSection, IsRecorded, Removing, RemovalLabels
  <2> QED
    BY <2>1, <2>3, SectionStep
<1>4. CASE UseLoad(t)
  <2>1. OthersStay(t) /\ UNCHANGED <<index, removed, receipts>>
    BY <1>4 DEF UseLoad, OthersStay
  <2>2. \A u \in Threads \ {t} : indexLock = u => indexLock' = u
    BY <1>4 DEF UseLoad, ReleaseIndex
  <2>3. pc[t] = "useload" /\ (pc'[t] = "idle" \/ (pc'[t] = "usewrite" /\ req' = req))
    BY <1>4 DEF UseLoad
  <2>4. InCriticalSection(t)' /\ IsRecorded(t)' /\ Removing(t)'
    BY <1>0, <2>1, <2>3 DEF InCriticalSection, IsRecorded, Removing, RemovalLabels, Archive
  <2> QED
    BY <2>1, <2>2, <2>4, SectionStep
<1>5. CASE UseWrite(t)
  <2>1. OthersStay(t) /\ UNCHANGED <<index, removed, receipts, req>>
    BY <1>5 DEF UseWrite, OthersStay
  <2>2. \A u \in Threads \ {t} : indexLock = u => indexLock' = u
    BY <1>5 DEF UseWrite, ReleaseIndex
  <2>3. pc[t] = "usewrite" /\ pc'[t] = "receipt"
    BY <1>5 DEF UseWrite
  <2>4. InCriticalSection(t)' /\ IsRecorded(t)' /\ Removing(t)'
    BY <1>0, <2>1, <2>3 DEF InCriticalSection, IsRecorded, Removing, RemovalLabels, Archive
  <2> QED
    BY <2>1, <2>2, <2>4, SectionStep
<1> QED
  BY <1>1, <1>2, <1>3, <1>4, <1>5

LEMMA AppendSafety ==
  ASSUME TypeInv, Safety, NEW t \in Threads, AppendIndex(t)
  PROVE  Safety'
<1> USE DEF TypeInv, TypeOK, Safety, Goto
<1> DEFINE e == [sub |-> req[t].sub, digest |-> Archive(req[t]), by |-> t]
<1>1. e.sub = req[t].sub /\ e.digest = Archive(req[t]) /\ e.digest.body = "valid"
  BY DEF AppendIndex, Bound, Archive
<1>2. index' = index \cup {e} /\ removed' = removed /\ receipts' = receipts
  BY DEF AppendIndex
<1>3. indexLock = t /\ \A f \in index : f.sub # req[t].sub
  BY DEF AppendIndex, InCriticalSection
<1> HIDE DEF e
<1>4. IndexUnique'
  BY <1>1, <1>2, <1>3 DEF IndexUnique
<1>5. ReceiptBacked' /\ ItemsValid'
  BY <1>1, <1>2 DEF ReceiptBacked, ItemsValid
<1>6. pc' = [pc EXCEPT ![t] = "useload"] /\ req' = req
  BY DEF AppendIndex
<1>7. ASSUME NEW u \in Threads PROVE InCriticalSection(u)' /\ Removing(u)'
  <2>1. CASE u = t
    BY <1>6, <2>1 DEF InCriticalSection, Removing, RemovalLabels
  <2>2. CASE u # t
    <3>1. pc[u] \notin {"move", "write", "writing", "append"} \cup RemovalLabels
      BY <1>3, <2>2 DEF InCriticalSection, Removing
    <3> QED
      BY <1>6, <2>2, <3>1 DEF InCriticalSection, Removing
  <2> QED
    BY <2>1, <2>2
<1>8. ASSUME NEW u \in Threads PROVE IsRecorded(u)'
  <2>1. CASE u = t
    BY <1>1, <1>2, <1>6, <2>1 DEF IsRecorded, Archive
  <2>2. CASE u # t
    BY <1>2, <1>6, <2>2 DEF IsRecorded, Archive
  <2> QED
    BY <2>1, <2>2
<1> QED
  BY <1>4, <1>5, <1>7, <1>8

LEMMA ReceiptSafety ==
  ASSUME TypeInv, Safety, NEW t \in Threads, WriteReceipt(t)
  PROVE  Safety'
<1> USE DEF TypeInv, TypeOK, Safety, Goto
<1>1. IndexUnique' /\ ItemsValid'
  BY DEF WriteReceipt, IndexUnique, ItemsValid
<1>2. PICK e \in index \cup removed : e.sub = req[t].sub /\ e.digest = Archive(req[t])
  BY DEF WriteReceipt, IsRecorded
<1>3. receipts' = [receipts EXCEPT ![req[t].sub] = Archive(req[t])]
  BY DEF WriteReceipt
<1>4. ReceiptBacked'
  BY <1>2, <1>3 DEF WriteReceipt, ReceiptBacked, Archive
<1>5. /\ pc' = [pc EXCEPT ![t] = "provenance"]
      /\ UNCHANGED <<index, removed, req, indexLock>>
  BY DEF WriteReceipt
<1>6. ASSUME NEW u \in Threads PROVE InCriticalSection(u)' /\ IsRecorded(u)' /\ Removing(u)'
  BY <1>5 DEF InCriticalSection, IsRecorded, Removing, RemovalLabels, Archive
<1> QED
  BY <1>1, <1>4, <1>6

\* A removal takes the lock, deletes the files under it and the item last.
LEMMA RemovalSafety ==
  ASSUME TypeInv, Safety, NEW t \in Threads,
         (\E s \in Subs : RemoveSubmission(t, s)) \/ RemoveFile(t) \/ RemoveItem(t)
  PROVE  Safety'
<1> USE DEF TypeInv, TypeOK, Return, Goto
<1>0. None \notin Threads /\ Removing(t)
  BY ConstantsAssumption DEF Safety
<1>1. ASSUME NEW s \in Subs, RemoveSubmission(t, s) PROVE Safety'
  <2>1. OthersStay(t) /\ UNCHANGED <<index, removed, receipts>>
    BY <1>1 DEF RemoveSubmission, Call, OthersStay
  <2>2. \A u \in Threads \ {t} : indexLock = u => indexLock' = u
    BY <1>0, <1>1 DEF RemoveSubmission
  <2>3. /\ pc'[t] = "rmarchive" /\ req'[t].sub = s /\ indexLock' = t
        /\ \E e \in index : e.sub = s
    BY <1>1 DEF RemoveSubmission, Call, NoRequest, Items
  <2>4. InCriticalSection(t)' /\ IsRecorded(t)' /\ Removing(t)'
    BY <2>1, <2>3 DEF InCriticalSection, IsRecorded, Removing, RemovalLabels
  <2> QED
    BY <2>1, <2>2, <2>4, SectionStep
<1>2. CASE RemoveFile(t)
  <2>1. OthersStay(t) /\ UNCHANGED <<index, removed, indexLock, req>>
    BY <1>2 DEF RemoveFile, OthersStay
  <2>2. pc[t] \in RemovalLabels /\ pc'[t] \in RemovalLabels
    BY <1>2 DEF RemoveFile, RemovalLabels
  <2>3. ReceiptBacked'
    <3>1. \A s \in Subs : receipts'[s] \in {receipts[s], None}
      BY <1>2 DEF RemoveFile
    <3>2. ReceiptBacked
      BY DEF Safety
    <3> QED
      BY <2>1, <3>1, <3>2 DEF ReceiptBacked
  <2>4. IndexUnique' /\ ItemsValid'
    BY <2>1 DEF Safety, IndexUnique, ItemsValid
  <2>5. InCriticalSection(t)' /\ IsRecorded(t)' /\ Removing(t)'
    BY <1>0, <2>1, <2>2 DEF InCriticalSection, IsRecorded, Removing, RemovalLabels
  <2>6. ASSUME NEW u \in Threads \ {t} PROVE InCriticalSection(u)' /\ IsRecorded(u)' /\ Removing(u)'
    BY <2>1 DEF Safety, OthersStay, InCriticalSection, IsRecorded, Removing, Archive
  <2> QED
    BY <2>3, <2>4, <2>5, <2>6 DEF Safety
<1>3. CASE RemoveItem(t)
  <2>1. OthersStay(t) /\ pc'[t] = "idle" /\ receipts' = receipts
    BY <1>3 DEF RemoveItem, OthersStay
  <2>2. index' \subseteq index /\ index' \cup removed' = index \cup removed
    BY <1>3 DEF RemoveItem, Items
  <2>3. IndexUnique' /\ ItemsValid' /\ ReceiptBacked'
    BY <2>1, <2>2 DEF Safety, IndexUnique, ItemsValid, ReceiptBacked
  <2>4. indexLock = t
    BY <1>0, <1>3 DEF RemoveItem, Removing, RemovalLabels
  <2>5. ASSUME NEW u \in Threads PROVE InCriticalSection(u)' /\ Removing(u)'
    <3>1. CASE u = t
      BY <2>1, <3>1 DEF InCriticalSection, Removing, RemovalLabels
    <3>2. CASE u # t
      BY <2>1, <2>4, <3>2 DEF Safety, OthersStay, InCriticalSection, Removing
    <3> QED
      BY <3>1, <3>2
  <2>6. ASSUME NEW u \in Threads PROVE IsRecorded(u)'
    BY <2>1, <2>2 DEF Safety, OthersStay, IsRecorded, Archive
  <2> QED
    BY <2>3, <2>5, <2>6 DEF Safety
<1> QED
  BY <1>1, <1>2, <1>3

\* The clock and the host.
LEMMA HostSafety == ASSUME TypeInv, Safety, Environment PROVE Safety'
<1>1. ASSUME NEW t \in Threads, HostFails(t) PROVE Safety'
  <2>1. OthersStay(t) /\ UNCHANGED <<index, removed, receipts>> /\ ReleaseIndex(t)
    BY <1>1 DEF HostFails, Raise, Return, Goto, OthersStay, TypeInv, TypeOK
  <2>2. pc'[t] \in {"idle", "failed"}
    BY <1>1 DEF HostFails, Raise, Return, Goto, TypeInv, TypeOK
  <2> QED
    BY <2>1, <2>2, PlainSafety DEF SafetyLabels, RemovalLabels
<1>2. CASE Crash
  BY <1>2 DEF Safety, Crash, IndexUnique, ReceiptBacked, ItemsValid, InCriticalSection, IsRecorded,
              Removing, RemovalLabels
<1>3. ASSUME UNCHANGED <<index, removed, receipts, indexLock, pc, req>> PROVE Safety'
  BY <1>3 DEF Safety, IndexUnique, ReceiptBacked, ItemsValid, InCriticalSection, IsRecorded,
              Removing, Archive
<1>4. ASSUME Environment, ~Crash, \A t \in Threads : ~HostFails(t)
      PROVE  UNCHANGED <<index, removed, receipts, indexLock, pc, req>>
  BY <1>4 DEF Environment, Expire, NonceExpires, GrantExpires, RestartServer
<1> QED
  BY <1>1, <1>2, <1>3, <1>4

LEMMA NextSafety == TypeInv /\ Safety /\ [Next]_vars => Safety'
<1> SUFFICES ASSUME TypeInv, Safety, Next PROVE Safety'
  BY StutterSafety
<1>1. ASSUME NEW t \in Threads, Step(t) \/ Arrive(t) PROVE Safety'
  <2>1. EndWrite(t) => pc[t] \in {"staging", "writing"}
    BY DEF EndWrite
  <2> QED
    BY <1>1, <2>1, PlainStep, PlainSafety, CriticalStep, AppendSafety, ReceiptSafety, RemovalSafety
       DEF Step
<1> QED
  BY <1>1, HostSafety DEF Next

LEMMA SafetyAlways == Spec => [](TypeInv /\ Safety)
  BY InitTypeInv, NextTypeInv, InitSafety, NextSafety, PTL DEF Spec

\* However many uploads, offline imports, removals, server restarts and
\* terminations interleave, submissions/index.json never lists a submission
\* twice.
THEOREM IndexUniqueAlways == Spec => []IndexUnique
<1>1. Safety => IndexUnique
  BY DEF Safety
<1> QED
  BY <1>1, SafetyAlways, PTL

\* Every receipt on disk names a package that the index lists, or listed until
\* remove_submission withdrew it.
THEOREM ReceiptBackedAlways == Spec => []ReceiptBacked
<1>1. Safety => ReceiptBacked
  BY DEF Safety
<1> QED
  BY <1>1, SafetyAlways, PTL

-----------------------------------------------------------------------------
(* The intake implements the evidence ledger.                                *)

LEMMA InitLedger == Init => Ledger!Init
  BY DEF Init, Ledger!Init, LedgerEntries

\* A step that leaves the records and receipts alone is a stuttering step of
\* the ledger.
LEMMA LedgerStutter ==
  ASSUME UNCHANGED <<index, removed, receipts>> PROVE UNCHANGED Ledger!ledger
  BY DEF Ledger!ledger, LedgerEntries

\* Steps of a call that do not touch the records.
LEMMA QuietStep ==
  ASSUME TypeInv, NEW t \in Threads, Step(t) \/ Arrive(t), ~AppendIndex(t), ~WriteReceipt(t),
         ~RemoveFile(t), ~RemoveItem(t)
  PROVE  UNCHANGED <<index, removed, receipts>>
<1>1. CASE LockIndex(t) \/ MoveToAccepted(t) \/ WriteAccepted(t) \/ EndWrite(t) \/ UseLoad(t) \/ UseWrite(t)
  BY <1>1 DEF LockIndex, MoveToAccepted, WriteAccepted, EndWrite, UseLoad, UseWrite
<1>2. CASE \E s \in Subs : RemoveSubmission(t, s)
  BY <1>2 DEF RemoveSubmission
<1> QED
  BY <1>1, <1>2, PlainStep DEF Step

\* The append is the ledger's Record: inside the critical section no live
\* entry has the call's submission id.
LEMMA AppendRecords ==
  ASSUME TypeInv, Safety, NEW t \in Threads, AppendIndex(t)
  PROVE  \E e \in Ledger!Entry : Ledger!Record(e)
<1> DEFINE e == [sub |-> req[t].sub, digest |-> Archive(req[t])]
           i == [sub |-> req[t].sub, digest |-> Archive(req[t]), by |-> t]
<1>1. Archive(req[t]) \in Archives /\ Archive(req[t]).body = "valid" /\ req[t].sub \in Subs
  BY DEF TypeInv, Bound, AppendIndex, Archive, Archives, Request, AllBodies
<1>2. e \in Ledger!Entry
  BY <1>1 DEF Ledger!Entry
<1>3. \A f \in index : f.sub # req[t].sub
  BY DEF Safety, InCriticalSection, AppendIndex
<1>4. \A f \in LedgerEntries(index) : f.sub # e.sub
  BY <1>3 DEF LedgerEntries
<1>5. index' = index \cup {i} /\ UNCHANGED <<removed, receipts>>
  BY DEF AppendIndex
<1>6. [sub |-> i.sub, digest |-> i.digest] = e
  OBVIOUS
<1> HIDE DEF i, e
<1>7. LedgerEntries(index \cup {i}) = LedgerEntries(index) \cup {e}
  BY <1>6 DEF LedgerEntries
<1>8. LedgerEntries((index \cup {i}) \cup removed) = LedgerEntries(index \cup removed) \cup {e}
  BY <1>6 DEF LedgerEntries
<1>9. LedgerEntries(index)' = LedgerEntries(index) \cup {e}
  BY <1>5, <1>7 DEF LedgerEntries
<1>10. LedgerEntries(index \cup removed)' = LedgerEntries(index \cup removed) \cup {e}
  BY <1>5, <1>8 DEF LedgerEntries
<1>11. Ledger!Record(e)
  BY <1>4, <1>5, <1>9, <1>10 DEF Ledger!Record
<1> QED
  BY <1>2, <1>11

\* The receipt is the ledger's Acknowledge of a recorded entry.
LEMMA ReceiptAcknowledges ==
  ASSUME TypeInv, Safety, NEW t \in Threads, WriteReceipt(t)
  PROVE  \E e \in Ledger!Entry : Ledger!Acknowledge(e)
<1> DEFINE e == [sub |-> req[t].sub, digest |-> Archive(req[t])]
<1>1. Archive(req[t]) \in Archives /\ Archive(req[t]).body = "valid" /\ req[t].sub \in Subs
  BY DEF TypeInv, Bound, WriteReceipt, Archive, Archives, Request, AllBodies
<1>2. e \in Ledger!Entry
  BY <1>1 DEF Ledger!Entry
<1>3. e \in LedgerEntries(index \cup removed)
  BY DEF Safety, IsRecorded, WriteReceipt, LedgerEntries
<1>4. /\ receipts' = [receipts EXCEPT ![e.sub] = e.digest]
      /\ UNCHANGED <<index, removed>>
  BY DEF WriteReceipt
<1> HIDE DEF e
<1>5. Ledger!Acknowledge(e)
  BY <1>3, <1>4 DEF Ledger!Acknowledge, LedgerEntries
<1> QED
  BY <1>2, <1>5

\* The index written without the item is the ledger's Withdraw.
LEMMA RemovalWithdraws ==
  ASSUME TypeInv, Safety, NEW t \in Threads, RemoveItem(t)
  PROVE  \E s \in Subs : Ledger!Withdraw(s)
<1> DEFINE s == req[t].sub
<1>1. s \in Subs
  BY DEF TypeInv, Bound, RemoveItem
<1>2. \E e \in index : e.sub = s
  BY DEF Safety, Removing, RemovalLabels, RemoveItem
<1>3. /\ index' = {e \in index : e.sub # s}
      /\ index' \cup removed' = index \cup removed
      /\ receipts' = receipts
  BY DEF RemoveItem, Items
<1> HIDE DEF s
<1>4. LedgerEntries({e \in index : e.sub # s}) = {e \in LedgerEntries(index) : e.sub # s}
  BY DEF LedgerEntries
<1>5. LedgerEntries(index)' = {e \in LedgerEntries(index) : e.sub # s}
  BY <1>3, <1>4 DEF LedgerEntries
<1>6. LedgerEntries(index \cup removed)' = LedgerEntries(index \cup removed)
  BY <1>3 DEF LedgerEntries
<1>7. \E e \in LedgerEntries(index) : e.sub = s
  <2>1. PICK i \in index : i.sub = s
    BY <1>2
  <2> DEFINE e == [sub |-> i.sub, digest |-> i.digest]
  <2>2. e \in LedgerEntries(index) /\ e.sub = s
    BY <2>1 DEF LedgerEntries
  <2> QED
    BY <2>2
<1>8. Ledger!Withdraw(s)
  BY <1>3, <1>5, <1>6, <1>7 DEF Ledger!Withdraw
<1> QED
  BY <1>1, <1>8

\* The unlinked receipt is the ledger's Retract; the other files it does not see.
LEMMA RemovalRetracts ==
  ASSUME TypeInv, Safety, NEW t \in Threads, RemoveFile(t)
  PROVE  [Ledger!Next]_(Ledger!ledger)
<1> DEFINE s == req[t].sub
<1>1. s \in Subs
  BY DEF TypeInv, Bound, RemoveFile
<1>2. UNCHANGED <<index, removed>>
  BY DEF RemoveFile
<1>3. CASE pc[t] # "rmreceipt"
  <2>1. UNCHANGED receipts
    BY <1>3 DEF RemoveFile
  <2> QED
    BY <1>2, <2>1, LedgerStutter
<1>4. CASE pc[t] = "rmreceipt"
  <2>1. receipts' = [receipts EXCEPT ![s] = None]
    BY <1>4 DEF RemoveFile
  <2>2. PICK i \in index : i.sub = s
    BY <1>4 DEF Safety, Removing, RemovalLabels
  <2> DEFINE e == [sub |-> i.sub, digest |-> i.digest]
  <2>3. e \in LedgerEntries(index) /\ e.sub = s
    BY <2>2 DEF LedgerEntries
  <2>4. Ledger!Retract(s)
    BY <1>2, <2>1, <2>3 DEF Ledger!Retract, LedgerEntries
  <2> QED
    BY <1>1, <2>4 DEF Ledger!Next
<1> QED
  BY <1>3, <1>4

LEMMA NextLedger ==
  TypeInv /\ Safety /\ [Next]_vars => [Ledger!Next]_(Ledger!ledger)
<1> SUFFICES ASSUME TypeInv, Safety, [Next]_vars PROVE [Ledger!Next]_(Ledger!ledger)
  OBVIOUS
<1>1. CASE UNCHANGED vars
  BY <1>1, LedgerStutter DEF vars
<1>2. ASSUME NEW t \in Threads, Step(t) \/ Arrive(t)
      PROVE  [Ledger!Next]_(Ledger!ledger)
  BY <1>2, QuietStep, LedgerStutter, AppendRecords, ReceiptAcknowledges, RemovalRetracts, RemovalWithdraws
     DEF Ledger!Next
<1>3. CASE Environment
  <2>1. UNCHANGED <<index, removed, receipts>>
    BY <1>3 DEF Environment, Expire, NonceExpires, GrantExpires, RestartServer, Crash, HostFails
  <2> QED
    BY <2>1, LedgerStutter
<1> QED
  BY <1>1, <1>2, <1>3 DEF Next

\* The interleaved intake, with its locks, files, failed writes, restarts and
\* terminations, implements EvidenceLedger: the duplicate check and the append of
\* accept and import_file act as one Record, the receipt as one Acknowledge, the
\* unlinked receipt of a removal as one Retract and the index written after it as one
\* Withdraw; every other step is invisible.
THEOREM RefinesLedger == Spec => ImplementsLedger
<1>1. Init => Ledger!Init
  BY InitLedger
<1>2. TypeInv /\ Safety /\ [Next]_vars => [Ledger!Next]_(Ledger!ledger)
  BY NextLedger
<1> QED
  BY <1>1, <1>2, SafetyAlways, PTL DEF Spec, ImplementsLedger, Ledger!Spec
-----------------------------------------------------------------------------
(* The envelope behind every item.  A call that may append has passed        *)
(* require_evidence_binding, and no step takes a consumed envelope back; so  *)
(* the item is backed over the transport its package names.  That no two     *)
(* items share an envelope follows from IndexUnique: an envelope is consumed *)
(* for one submission.                                                       *)

Backed(s, transport) ==
  \E e \in Envelopes : grants[e] # None /\ grants[e].sub = s /\ grants[e].transport = transport

ItemTransport(e) == IF e.digest.nonce = None THEN "OFFLINE_ENCRYPTED" ELSE "HTTPS"

\* An upload carries the nonce it was issued, an offline import carries none.
Carries(t) ==
  /\ pc[t] = "grant" /\ req[t].kind = "import" => req[t].nonce = None
  /\ pc[t] \in {"authorize", "consume", "markused", "stage", "staging", "validate"} =>
       req[t].kind = "submit"
  /\ pc[t] \in {"bind", "lock", "move", "write", "writing", "append"} =>
       \/ req[t].kind = "import" /\ req[t].nonce = None
       \/ req[t].kind = "submit" /\ req[t].nonce \in Nonces

CallBacked(t) ==
  pc[t] \in {"lock", "move", "write", "writing", "append"} /\ TrustedRequired =>
    Backed(req[t].sub, Transport(req[t]))

ItemsBacked == TrustedRequired => \A e \in index : Backed(e.sub, ItemTransport(e))

EnvelopeInv == ItemsBacked /\ \A t \in Threads : Carries(t) /\ CallBacked(t)

LEMMA InitEnvelope == Init => EnvelopeInv
  BY DEF Init, EnvelopeInv, ItemsBacked, Carries, CallBacked

\* A consumed envelope stays consumed, for the submission it was consumed for.
LEMMA BackedStays ==
  ASSUME TypeInv, Next, NEW s, NEW transport, Backed(s, transport)
  PROVE  Backed(s, transport)'
<1>1. PICK e \in Envelopes : grants[e] # None /\ grants[e].sub = s /\ grants[e].transport = transport
  BY DEF Backed
<1>2. grants \in [Envelopes -> Grant \cup {None}]
  BY DEF TypeInv, TypeOK
<1> DEFINE Kept == grants'[e] # None /\ grants'[e].sub = s /\ grants'[e].transport = transport
<1>3. Kept
  <2>1. CASE UNCHANGED grants
    BY <1>1, <2>1
  <2>2. ASSUME NEW t \in Threads, ConsumeGrant(t) PROVE Kept
    <3>1. CASE grants' = grants
      BY <1>1, <3>1
    <3>2. CASE grants' # grants
      <4>1. PICK g : grants' = [grants EXCEPT ![req[t].envelope] = g]
        BY <2>2, <3>2 DEF ConsumeGrant
      <4>2. req[t].envelope # e
        BY <2>2, <3>2, <1>1 DEF ConsumeGrant, grant_unused
      <4> QED
        BY <1>1, <1>2, <4>1, <4>2
    <3> QED
      BY <3>1, <3>2
  <2>3. ASSUME NEW g \in Envelopes, GrantExpires(g) PROVE Kept
    <3>1. grants[g] \in Grant
      BY <2>3, <1>2 DEF GrantExpires
    <3>2. grants' = [grants EXCEPT ![g].live = FALSE]
      BY <2>3 DEF GrantExpires
    <3>3. CASE e = g
      <4>1. grants'[e] = [grants[e] EXCEPT !.live = FALSE]
        BY <1>2, <3>2, <3>3
      <4>2. grants'[e] \in Grant /\ grants'[e].sub = grants[e].sub /\ grants'[e].transport = grants[e].transport
        BY <3>1, <3>3, <4>1 DEF Grant
      <4>3. grants'[e] # None
        BY <4>2, RecordsAssumption
      <4> QED
        BY <1>1, <4>2, <4>3
    <3>4. CASE e # g
      BY <1>1, <1>2, <3>2, <3>4
    <3> QED
      BY <3>3, <3>4
  <2>4. ASSUME NEW t \in Threads, Step(t) \/ Arrive(t), ~ConsumeGrant(t) PROVE UNCHANGED grants
    BY <2>4 DEF Step, Arrive, IssueNonce, RequireAuthorized, ConsumeNonce, MarkUsed, Stage, Validate,
                RequireBinding, LockIndex, MoveToAccepted, AppendIndex, UseLoad, UseWrite,
                WriteReceipt, Normalizing, Normalize, Analyzing, Analyze, Complete, Report,
                AnalysisFailed, StatusWrite, update_processing_state, RequestNonce, Accept,
                AcceptRefusedToken, ImportFile, StatusLoad, EndWrite, WriteAccepted,
                RecordProvenance, RemoveSubmission, RemoveFile, RemoveItem
  <2>5. ASSUME Environment, \A g \in Envelopes : ~GrantExpires(g) PROVE UNCHANGED grants
    BY <2>5 DEF Environment, Expire, NonceExpires, RestartServer, Crash, HostFails
  <2> QED
    BY <2>1, <2>2, <2>3, <2>4, <2>5 DEF Next
<1> QED
  BY <1>3 DEF Backed

\* A step that adds no item and leaves its call backed where it must be.
LEMMA SentStep ==
  ASSUME TypeInv, EnvelopeInv, Next, NEW t \in Threads, OthersStay(t), UNCHANGED index,
         Carries(t)', CallBacked(t)'
  PROVE  EnvelopeInv'
<1>1. ItemsBacked'
  BY BackedStays DEF EnvelopeInv, ItemsBacked
<1>2. ASSUME NEW u \in Threads PROVE Carries(u)' /\ CallBacked(u)'
  <2>1. CASE u = t
    BY <2>1
  <2>2. CASE u # t
    <3>1. pc'[u] = pc[u] /\ req'[u] = req[u]
      BY <2>2 DEF OthersStay
    <3>2. Carries(u) /\ CallBacked(u)
      BY DEF EnvelopeInv
    <3>3. Carries(u)'
      BY <3>1, <3>2 DEF Carries
    <3>4. CallBacked(u)'
      BY <3>1, <3>2, BackedStays DEF CallBacked, Transport
    <3> QED
      BY <3>3, <3>4
  <2> QED
    BY <2>1, <2>2
<1> QED
  BY <1>1, <1>2 DEF EnvelopeInv

\* The labels at which the invariant speaks of a call.
SendLabels == {"grant", "authorize", "consume", "markused", "stage", "staging", "validate", "bind",
               "lock", "move", "write", "writing", "append"}

LEMMA QuietSend ==
  ASSUME TypeInv, EnvelopeInv, Next, NEW t \in Threads, OthersStay(t), UNCHANGED index,
         pc'[t] \notin SendLabels
  PROVE  EnvelopeInv'
<1>1. Carries(t)' /\ CallBacked(t)'
  BY DEF Carries, CallBacked, SendLabels
<1> QED
  BY <1>1, SentStep

\* Steps of a call before the index lock.
LEMMA SendEnvelope ==
  ASSUME TypeInv, EnvelopeInv, NEW t \in Threads,
         \/ ConsumeGrant(t) \/ RequireAuthorized(t) \/ ConsumeNonce(t) \/ MarkUsed(t)
         \/ Stage(t) \/ EndWrite(t) \/ Validate(t) \/ RequireBinding(t) \/ LockIndex(t)
         \/ MoveToAccepted(t) \/ WriteAccepted(t)
  PROVE  OthersStay(t) /\ UNCHANGED index /\ Carries(t)' /\ (Next => CallBacked(t)')
<1> USE DEF TypeInv, TypeOK, Bound, OthersStay, Return, Goto, EnvelopeInv
<1>0. None \notin Nonces /\ Carries(t) /\ CallBacked(t)
  BY ConstantsAssumption
<1>1. CASE ConsumeGrant(t)
  BY <1>0, <1>1 DEF ConsumeGrant, Carries, CallBacked
<1>2. CASE RequireAuthorized(t)
  BY <1>0, <1>2 DEF RequireAuthorized, Carries, CallBacked
<1>3. CASE ConsumeNonce(t)
  BY <1>0, <1>3 DEF ConsumeNonce, Carries, CallBacked
<1>4. CASE MarkUsed(t)
  BY <1>0, <1>4 DEF MarkUsed, Carries, CallBacked
<1>5. CASE Stage(t)
  BY <1>0, <1>5 DEF Stage, Carries, CallBacked
<1>6. CASE Validate(t)
  BY <1>0, <1>6 DEF Validate, Carries, CallBacked
<1>7. CASE RequireBinding(t)
  <2>1. OthersStay(t) /\ UNCHANGED index /\ Carries(t)'
    BY <1>0, <1>7 DEF RequireBinding, Carries
  <2>2. Next => CallBacked(t)'
    <3>1. CASE pc'[t] = "lock"
      <4>1. Cardinality(ConsumedFor(req[t].sub, Transport(req[t]))) = 1 /\ req'[t] = req[t]
        BY <1>7, <3>1 DEF RequireBinding
      <4>2. Backed(req[t].sub, Transport(req[t]))
        <5>1. Cardinality({}) = 0 /\ 0 # 1
          BY FS_EmptySet
        <5>2. ConsumedFor(req[t].sub, Transport(req[t])) # {}
          BY <4>1, <5>1, Zenon
        <5> QED
          BY <5>2 DEF ConsumedFor, Backed
      <4> QED
        BY <4>1, <4>2, BackedStays DEF CallBacked, Transport
    <3>2. CASE pc'[t] # "lock"
      BY <1>7, <3>2 DEF RequireBinding, CallBacked
    <3> QED
      BY <3>1, <3>2
  <2> QED
    BY <2>1, <2>2
<1>8. CASE LockIndex(t)
  <2>1. OthersStay(t) /\ UNCHANGED index /\ Carries(t)'
    BY <1>0, <1>8 DEF LockIndex, RefuseDuplicate, Carries
  <2>2. pc'[t] = "idle" \/ (pc'[t] \in {"move", "write"} /\ req' = req)
    BY <1>8 DEF LockIndex, RefuseDuplicate
  <2>3. Next => CallBacked(t)'
    BY <1>0, <1>8, <2>2, BackedStays DEF LockIndex, CallBacked, Transport
  <2> QED
    BY <2>1, <2>3
<1>9. CASE MoveToAccepted(t)
  <2>1. OthersStay(t) /\ UNCHANGED index /\ Carries(t)'
    BY <1>0, <1>9 DEF MoveToAccepted, Carries
  <2>2. pc'[t] = "idle" \/ (pc'[t] = "append" /\ req' = req)
    BY <1>9 DEF MoveToAccepted
  <2>3. Next => CallBacked(t)'
    BY <1>0, <1>9, <2>2, BackedStays DEF MoveToAccepted, CallBacked, Transport
  <2> QED
    BY <2>1, <2>3
<1>10. CASE EndWrite(t) \/ WriteAccepted(t)
  <2>1. OthersStay(t) /\ UNCHANGED <<index, req>>
    BY <1>10 DEF EndWrite, WriteAccepted
  <2>2. \/ pc[t] = "staging" /\ pc'[t] = "validate"
        \/ pc[t] \in {"write", "writing"} /\ pc'[t] \in {"writing", "append"}
    BY <1>10 DEF EndWrite, WriteAccepted
  <2>3. Carries(t)'
    BY <1>0, <2>1, <2>2 DEF Carries
  <2>4. Next => CallBacked(t)'
    BY <1>0, <2>1, <2>2, BackedStays DEF CallBacked, Transport
  <2> QED
    BY <2>1, <2>3, <2>4
<1> QED
  BY <1>1, <1>2, <1>3, <1>4, <1>5, <1>6, <1>7, <1>8, <1>9, <1>10

LEMMA ArriveEnvelope ==
  ASSUME TypeInv, NEW t \in Threads, Arrive(t)
  PROVE  Carries(t)' /\ CallBacked(t)'
<1> USE DEF TypeInv, TypeOK, Call, Goto, NoRequest
<1>1. CASE \E s \in Subs, source \in Sources, e \in Envelopes \cup {None} : RequestNonce(t, s, source, e)
  BY <1>1 DEF RequestNonce, Carries, CallBacked
<1>2. CASE \E s \in Subs, n \in Nonces, body \in Bodies, source \in Sources : Accept(t, s, n, body, source)
  BY <1>2 DEF Accept, Carries, CallBacked
<1>3. CASE \E s \in Subs, source \in Sources : AcceptRefusedToken(t, s, source)
  BY <1>3 DEF AcceptRefusedToken, Carries, CallBacked
<1>4. CASE \E s \in Subs, e \in Envelopes \cup {None} : ImportFile(t, s, e)
  BY <1>4 DEF ImportFile, Carries, CallBacked
<1>5. CASE \E status \in Statuses : StatusLoad(t, status)
  BY <1>5 DEF StatusLoad, Carries, CallBacked
<1>6. CASE \E s \in Subs : RemoveSubmission(t, s)
  BY <1>6 DEF RemoveSubmission, Carries, CallBacked
<1> QED
  BY <1>1, <1>2, <1>3, <1>4, <1>5, <1>6 DEF Arrive

\* The append lists a package whose call was backed.
LEMMA AppendEnvelope ==
  ASSUME TypeInv, EnvelopeInv, Next, NEW t \in Threads, AppendIndex(t)
  PROVE  EnvelopeInv'
<1> DEFINE i == [sub |-> req[t].sub, digest |-> Archive(req[t]), by |-> t]
<1>1. index' = index \cup {i} /\ OthersStay(t) /\ pc'[t] = "useload"
  BY DEF AppendIndex, OthersStay, Goto, TypeInv, TypeOK
<1>2. i.sub = req[t].sub /\ i.digest.nonce = req[t].nonce
  BY DEF Archive
<1>3. Carries(t) /\ CallBacked(t) /\ pc[t] = "append" /\ None \notin Nonces
  BY ConstantsAssumption DEF EnvelopeInv, AppendIndex
<1>4. ItemTransport(i) = Transport(req[t])
  BY <1>2, <1>3 DEF ItemTransport, Transport, Carries
<1>5. TrustedRequired => Backed(i.sub, ItemTransport(i))
  BY <1>2, <1>3, <1>4 DEF CallBacked
<1> HIDE DEF i
<1>6. ItemsBacked'
  <2> SUFFICES ASSUME TrustedRequired, NEW e \in index \cup {i} PROVE Backed(e.sub, ItemTransport(e))'
    BY <1>1 DEF ItemsBacked
  <2>1. Backed(e.sub, ItemTransport(e))
    BY <1>5 DEF EnvelopeInv, ItemsBacked
  <2> QED
    BY <2>1, BackedStays DEF ItemTransport
<1>7. ASSUME NEW u \in Threads PROVE Carries(u)' /\ CallBacked(u)'
  <2>1. CASE u = t
    BY <1>1, <2>1 DEF Carries, CallBacked
  <2>2. CASE u # t
    <3>1. pc'[u] = pc[u] /\ req'[u] = req[u]
      BY <1>1, <2>2 DEF OthersStay
    <3>2. Carries(u) /\ CallBacked(u)
      BY DEF EnvelopeInv
    <3>3. Carries(u)'
      BY <3>1, <3>2 DEF Carries
    <3>4. CallBacked(u)'
      BY <3>1, <3>2, BackedStays DEF CallBacked, Transport
    <3> QED
      BY <3>3, <3>4
  <2> QED
    BY <2>1, <2>2
<1> QED
  BY <1>6, <1>7 DEF EnvelopeInv

\* Steps of a call that has left the critical section.
LEMMA LateEnvelope ==
  ASSUME TypeInv, NEW t \in Threads, UseLoad(t) \/ UseWrite(t) \/ WriteReceipt(t) \/ RecordProvenance(t)
  PROVE  OthersStay(t) /\ UNCHANGED index /\ pc'[t] \notin SendLabels
  BY DEF TypeInv, TypeOK, OthersStay, Return, Goto, UseLoad, UseWrite, WriteReceipt, RecordProvenance,
         SendLabels

LEMMA AfterEnvelope ==
  ASSUME TypeInv, NEW t \in Threads,
         \/ (\E n \in Nonces : IssueNonce(t, n)) \/ Normalizing(t) \/ Normalize(t) \/ Analyzing(t)
         \/ Analyze(t) \/ Complete(t) \/ Report(t) \/ AnalysisFailed(t) \/ StatusWrite(t)
  PROVE  OthersStay(t) /\ UNCHANGED index /\ pc'[t] \notin SendLabels
<1> USE DEF TypeInv, TypeOK, OthersStay, Return, Goto, SendLabels
<1>1. CASE \E n \in Nonces : IssueNonce(t, n)
  BY <1>1 DEF IssueNonce
<1>2. CASE Normalizing(t) \/ Analyzing(t) \/ Complete(t)
  BY <1>2 DEF Normalizing, Analyzing, Complete, update_processing_state, Raise
<1>3. CASE Normalize(t) \/ Analyze(t) \/ Report(t)
  BY <1>3 DEF Normalize, Analyze, Report, Raise
<1>4. CASE AnalysisFailed(t) \/ StatusWrite(t)
  BY <1>4 DEF AnalysisFailed, StatusWrite
<1> QED
  BY <1>1, <1>2, <1>3, <1>4

\* Items only leave the index with a removal.
LEMMA RemovalEnvelope ==
  ASSUME TypeInv, EnvelopeInv, Next, NEW t \in Threads, RemoveFile(t) \/ RemoveItem(t)
  PROVE  EnvelopeInv'
<1>1. index' \subseteq index /\ OthersStay(t) /\ pc'[t] \notin SendLabels
  BY DEF TypeInv, TypeOK, RemoveFile, RemoveItem, Return, Goto, OthersStay, SendLabels
<1>2. ItemsBacked'
  BY <1>1, BackedStays DEF EnvelopeInv, ItemsBacked
<1>3. ASSUME NEW u \in Threads PROVE Carries(u)' /\ CallBacked(u)'
  <2>1. CASE u = t
    BY <1>1, <2>1 DEF Carries, CallBacked, SendLabels
  <2>2. CASE u # t
    <3>1. pc'[u] = pc[u] /\ req'[u] = req[u]
      BY <1>1, <2>2 DEF OthersStay
    <3>2. Carries(u) /\ CallBacked(u)
      BY DEF EnvelopeInv
    <3>3. Carries(u)'
      BY <3>1, <3>2 DEF Carries
    <3>4. CallBacked(u)'
      BY <3>1, <3>2, BackedStays DEF CallBacked, Transport
    <3> QED
      BY <3>3, <3>4
  <2> QED
    BY <2>1, <2>2
<1> QED
  BY <1>2, <1>3 DEF EnvelopeInv

LEMMA HostEnvelope ==
  ASSUME TypeInv, EnvelopeInv, Next, Environment
  PROVE  EnvelopeInv'
<1>1. ASSUME NEW t \in Threads, HostFails(t) PROVE EnvelopeInv'
  <2>1. OthersStay(t) /\ UNCHANGED index
    BY <1>1 DEF HostFails, Raise, Return, Goto, OthersStay, TypeInv, TypeOK
  <2>2. pc'[t] \in {"idle", "failed"}
    BY <1>1 DEF HostFails, Raise, Return, Goto, TypeInv, TypeOK
  <2> QED
    BY <2>1, <2>2, QuietSend DEF SendLabels
<1>2. ASSUME \A t \in Threads : ~HostFails(t) PROVE EnvelopeInv'
  <2>1. index' = index
    BY <1>2 DEF Environment, Expire, NonceExpires, GrantExpires, RestartServer, Crash
  <2>2. ItemsBacked'
    BY <2>1, BackedStays DEF EnvelopeInv, ItemsBacked
  <2>3. ASSUME NEW u \in Threads PROVE Carries(u)' /\ CallBacked(u)'
    <3>1. CASE Crash
      BY <3>1 DEF Crash, Carries, CallBacked
    <3>2. CASE ~Crash
      <4>1. pc'[u] = pc[u] /\ req'[u] = req[u]
        BY <1>2, <3>2 DEF Environment, Expire, NonceExpires, GrantExpires, RestartServer
      <4>2. Carries(u) /\ CallBacked(u)
        BY DEF EnvelopeInv
      <4>3. Carries(u)'
        BY <4>1, <4>2 DEF Carries
      <4>4. CallBacked(u)'
        BY <4>1, <4>2, BackedStays DEF CallBacked, Transport
      <4> QED
        BY <4>3, <4>4
    <3> QED
      BY <3>1, <3>2
  <2> QED
    BY <2>2, <2>3 DEF EnvelopeInv
<1> QED
  BY <1>1, <1>2

LEMMA NextEnvelope == TypeInv /\ EnvelopeInv /\ [Next]_vars => EnvelopeInv'
<1> SUFFICES ASSUME TypeInv, EnvelopeInv, [Next]_vars PROVE EnvelopeInv'
  OBVIOUS
<1>1. CASE UNCHANGED vars
  BY <1>1 DEF vars, EnvelopeInv, ItemsBacked, Carries, CallBacked, Backed, ItemTransport, Transport
<1>2. ASSUME Next, NEW t \in Threads, Step(t) PROVE EnvelopeInv'
  BY <1>2, SendEnvelope, SentStep, AppendEnvelope, LateEnvelope, AfterEnvelope, QuietSend,
     RemovalEnvelope DEF Step
<1>3. ASSUME Next, NEW t \in Threads, Arrive(t) PROVE EnvelopeInv'
  <2>1. ASSUME NEW s \in Subs, RemoveSubmission(t, s) PROVE OthersStay(t) /\ UNCHANGED index
    BY <2>1 DEF RemoveSubmission, Call, Goto, OthersStay, TypeInv, TypeOK
  <2> QED
    BY <1>3, <2>1, PlainStep, ArriveEnvelope, SentStep
<1> QED
  BY <1>1, <1>2, <1>3, HostEnvelope DEF Next

\* In a session that requires trusted envelopes, however uploads and offline
\* imports interleave, expire or are cut off, every item of the index consumed an
\* envelope of its own, over the transport it arrived by.
THEOREM EnvelopePerItemAlways == Spec => []EnvelopePerItem
<1>1. Spec => []EnvelopeInv
  BY InitTypeInv, NextTypeInv, InitEnvelope, NextEnvelope, PTL DEF Spec
<1>2. Safety /\ EnvelopeInv => EnvelopePerItem
  <2> SUFFICES ASSUME Safety, EnvelopeInv, TrustedRequired PROVE EnvelopePerItem
    BY DEF EnvelopePerItem
  <2> DEFINE backs(e, g) == /\ grants[g] # None
                            /\ grants[g].sub = e.sub
                            /\ grants[g].transport = ItemTransport(e)
             f == [e \in index |-> CHOOSE g \in Envelopes : backs(e, g)]
  <2>1. \A e \in index : \E g \in Envelopes : backs(e, g)
    BY DEF EnvelopeInv, ItemsBacked, Backed
  <2>2. ASSUME NEW e \in index PROVE f[e] \in Envelopes /\ backs(e, f[e])
    BY <2>1
  <2>3. f \in [index -> Envelopes]
    BY <2>2
  <2> HIDE DEF f
  <2>4. ASSUME NEW d \in index, NEW e \in index, f[d] = f[e] PROVE d = e
    BY <2>2, <2>4 DEF Safety, IndexUnique
  <2> QED
    BY <2>2, <2>3, <2>4 DEF EnvelopePerItem, ItemTransport
<1> QED
  BY <1>1, <1>2, SafetyAlways, PTL
-----------------------------------------------------------------------------
(* Storage with one call at a time.  Between the start of its write and the   *)
(* rename of accept the quarantined file is the call's own, because nobody    *)
(* else stages a file of its submission; what an ended call left there is     *)
(* never moved.  The archive of an import is torn until its write ends, and   *)
(* it enters the index only then.                                             *)

\* What a call's own files hold.
Staged(t) ==
  LET r == req[t] IN
  /\ pc[t] = "staging" => quarantine[r.sub] = Torn(Archive(r))
  /\ pc[t] = "validate" => quarantine[r.sub] = Archive(r)
  /\ pc[t] \in {"bind", "lock", "move"} /\ r.kind = "submit" => quarantine[r.sub] = Archive(r)
  /\ pc[t] = "move" => r.kind = "submit"
  /\ pc[t] \in {"write", "writing"} => r.kind # "submit"
  /\ pc[t] = "writing" => accepted[r.sub] = Torn(Archive(r))
  /\ pc[t] = "append" => accepted[r.sub] = Archive(r)

StagedLabels == {"staging", "validate", "bind", "lock", "move", "write", "writing", "append"}

StorageInv == AcceptedIsValidated /\ \A t \in Threads : Staged(t)

LEMMA InitStorage == Init => StorageInv
  BY DEF Init, StorageInv, AcceptedIsValidated, Staged

\* The one call leaves accepted storage and the index alone.
LEMMA StorageStays ==
  ASSUME StorageInv, NEW t \in Threads, \A u \in Threads : u = t, UNCHANGED <<accepted, index>>,
         Staged(t)'
  PROVE  StorageInv'
  BY DEF StorageInv, AcceptedIsValidated, Items

\* An archive keeps its fields while it is torn.
LEMMA TornFields ==
  ASSUME NEW r \in Request, r.sub \in Subs, r.body \in AllBodies
  PROVE  /\ Archive(r) \in Archives /\ Torn(Archive(r)) \in Archives
         /\ Archive(r).body = r.body
         /\ Torn(Archive(r)).body = "torn" /\ Torn(Archive(r)).nonce = r.nonce
  BY DEF Archive, Torn, Archives, AllBodies, Request

\* Staging, checks and the lock.
LEMMA StageStorage ==
  ASSUME TypeInv, EnvelopeInv, StorageInv, NEW t \in Threads, \A u \in Threads : u = t,
         \/ Stage(t) \/ Validate(t) \/ RequireBinding(t) \/ LockIndex(t)
  PROVE  StorageInv'
<1> USE DEF TypeInv, TypeOK, Return, Goto
<1>0. Staged(t)
  BY DEF StorageInv
<1>1. CASE Stage(t)
  <2>1. UNCHANGED <<accepted, index>>
    BY <1>1 DEF Stage
  <2>2. \/ pc'[t] = "idle"
        \/ pc'[t] = "staging" /\ req' = req /\ quarantine'[req[t].sub] = Torn(Archive(req[t]))
    BY <1>1 DEF Stage, Bound
  <2>3. Staged(t)'
    BY <2>2 DEF Staged, Archive, Torn
  <2> QED
    BY <2>1, <2>3, StorageStays
<1>2. CASE Validate(t)
  <2>1. UNCHANGED <<accepted, index>>
    BY <1>2 DEF Validate
  <2>2. \/ pc'[t] = "idle"
        \/ pc[t] = "validate" /\ pc'[t] \in {"bind", "lock"} /\ req' = req /\ quarantine' = quarantine
    BY <1>2 DEF Validate
  <2>3. Staged(t)'
    BY <1>0, <2>2 DEF Staged, Archive, Torn
  <2> QED
    BY <2>1, <2>3, StorageStays
<1>3. CASE RequireBinding(t)
  <2>1. UNCHANGED <<accepted, index>>
    BY <1>3 DEF RequireBinding
  <2>2. \/ pc'[t] = "idle"
        \/ pc[t] = "bind" /\ pc'[t] = "lock" /\ req' = req /\ quarantine' = quarantine
    BY <1>3 DEF RequireBinding
  <2>3. Staged(t)'
    BY <1>0, <2>2 DEF Staged, Archive, Torn
  <2> QED
    BY <2>1, <2>3, StorageStays
<1>4. CASE LockIndex(t)
  <2>1. UNCHANGED <<accepted, index>>
    BY <1>4 DEF LockIndex
  <2>2. \/ pc'[t] = "idle"
        \/ /\ pc[t] = "lock" /\ req' = req /\ quarantine' = quarantine
           /\ pc'[t] = IF req[t].kind = "submit" THEN "move" ELSE "write"
    BY <1>4 DEF LockIndex, RefuseDuplicate
  <2>3. Staged(t)'
    BY <1>0, <2>2 DEF Staged, Archive, Torn
  <2> QED
    BY <2>1, <2>3, StorageStays
<1> QED
  BY <1>1, <1>2, <1>3, <1>4

\* The file of a submission that the index does not list is renamed or begun.
LEMMA MoveStorage ==
  ASSUME TypeInv, Safety, EnvelopeInv, StorageInv, NEW t \in Threads, \A u \in Threads : u = t,
         MoveToAccepted(t) \/ WriteAccepted(t)
  PROVE  StorageInv'
<1> USE DEF TypeInv, TypeOK, Return, Goto
<1> DEFINE r == req[t]
<1>1. /\ pc[t] \in {"move", "write"} /\ r \in Request /\ r.sub \in Subs /\ r.body = "valid"
      /\ Staged(t) /\ (\A e \in index : e.sub # r.sub) /\ index' = index
  BY DEF MoveToAccepted, WriteAccepted, Bound, StorageInv, Safety, InCriticalSection
<1>2. CASE MoveToAccepted(t) /\ pc'[t] = "idle"
  BY <1>1, <1>2, StorageStays DEF MoveToAccepted, Staged
<1>3. CASE MoveToAccepted(t) /\ pc'[t] # "idle"
  <2>1. /\ accepted' = [accepted EXCEPT ![r.sub] = Archive(r)]
        /\ pc'[t] = "append" /\ req' = req
    BY <1>1, <1>3 DEF MoveToAccepted, Staged
  <2>2. Archive(r).body = "valid"
    BY <1>1 DEF Archive
  <2>3. AcceptedIsValidated'
    BY <1>1, <2>1, <2>2 DEF StorageInv, AcceptedIsValidated, Items
  <2>4. Staged(t)'
    BY <1>1, <2>1 DEF Staged, Archive
  <2> QED
    BY <2>3, <2>4 DEF StorageInv
<1>4. CASE WriteAccepted(t)
  <2>1. /\ accepted' = [accepted EXCEPT ![r.sub] = Torn(Archive(r))]
        /\ pc[t] = "write" /\ pc'[t] = "writing" /\ req' = req
    BY <1>4 DEF WriteAccepted
  <2>2. r.nonce = None
    BY <1>1, <2>1 DEF Staged, EnvelopeInv, Carries
  <2>3. Torn(Archive(r)).body = "torn" /\ Torn(Archive(r)).nonce = None
    BY <1>1, <2>2, TornFields DEF AllBodies
  <2>4. AcceptedIsValidated'
    BY <1>1, <2>1, <2>3 DEF StorageInv, AcceptedIsValidated, Items
  <2>5. Staged(t)'
    BY <1>1, <2>1 DEF Staged, Archive, Torn
  <2> QED
    BY <2>4, <2>5 DEF StorageInv
<1> QED
  BY <1>2, <1>3, <1>4

\* The end of the write completes the call's own file: a torn file in accepted
\* storage is an import's, and carries no nonce.
LEMMA WriteStorage ==
  ASSUME TypeInv, EnvelopeInv, StorageInv, NEW t \in Threads, \A u \in Threads : u = t, EndWrite(t)
  PROVE  StorageInv'
<1> USE DEF TypeInv, TypeOK, Goto
<1> DEFINE r == req[t]
           a == Archive(r)
<1>1. /\ pc[t] \in {"staging", "writing"} /\ r \in Request /\ r.sub \in Subs /\ r.body \in AllBodies
      /\ index' = index /\ req' = req
  BY DEF EndWrite, Bound, AllBodies
<1>2. Staged(t) /\ AcceptedIsValidated /\ Carries(t)
  BY DEF StorageInv, EnvelopeInv
<1>3. Torn(a).body = "torn" /\ Torn(a).nonce = r.nonce /\ a.body = r.body
  BY <1>1, TornFields
<1>4. \A s \in Subs : accepted'[s] = IF accepted[s] = Torn(a) THEN a ELSE accepted[s]
  BY <1>1 DEF EndWrite, Written
<1>5. quarantine'[r.sub] = IF quarantine[r.sub] = Torn(a) THEN a ELSE quarantine[r.sub]
  BY <1>1 DEF EndWrite, Written
<1>6. ASSUME NEW e \in index PROVE accepted[e.sub] # Torn(a)
  <2>1. e.digest.body = "valid" /\ accepted[e.sub] \in {e.digest, None}
    BY <1>2 DEF AcceptedIsValidated
  <2>2. Torn(a) # None
    BY <1>1, TornFields, RecordsAssumption
  <2> QED
    BY <1>3, <2>1, <2>2
<1>7. \A e \in index : e.sub \in Subs
  BY DEF Item
<1>8. CASE pc[t] = "staging"
  <2>1. r.nonce # None
    BY <1>8, ConstantsAssumption DEF Bound
  <2>2. \A s \in Subs : accepted[s] # Torn(a)
    <3>1. ASSUME NEW s \in Subs, accepted[s] = Torn(a) PROVE FALSE
      <4>1. Items(s) = {}
        BY <1>6, <3>1 DEF Items
      <4>2. accepted[s] # None
        BY <1>1, <3>1, TornFields, RecordsAssumption
      <4>3. accepted[s].body = "valid" \/ accepted[s].nonce = None
        BY <1>2, <4>1, <4>2 DEF AcceptedIsValidated
      <4> QED
        BY <1>3, <2>1, <3>1, <4>3
    <3> QED
      BY <3>1
  <2>3. AcceptedIsValidated'
    BY <1>1, <1>2, <1>4, <1>7, <2>2 DEF AcceptedIsValidated, Items
  <2>4. pc'[t] = "validate" /\ quarantine'[r.sub] = a
    BY <1>2, <1>5, <1>8 DEF EndWrite, Staged
  <2>5. Staged(t)'
    BY <1>1, <2>4 DEF Staged, Archive
  <2> QED
    BY <2>3, <2>5 DEF StorageInv
<1>9. CASE pc[t] = "writing"
  <2>1. a.body = "valid"
    BY <1>3, <1>9 DEF Bound
  <2>2. AcceptedIsValidated'
    <3>1. ASSUME NEW e \in index PROVE e.digest.body = "valid" /\ accepted'[e.sub] \in {e.digest, None}
      BY <1>2, <1>4, <1>6, <1>7 DEF AcceptedIsValidated
    <3>2. ASSUME NEW s \in Subs, accepted'[s] # None, Items(s) = {}
          PROVE  \/ accepted'[s].body = "valid"
                 \/ accepted'[s].body = "torn" /\ accepted'[s].nonce = None
      BY <1>2, <1>4, <2>1, <3>2 DEF AcceptedIsValidated
    <3> QED
      BY <1>1, <3>1, <3>2 DEF AcceptedIsValidated, Items
  <2>3. pc'[t] = "append" /\ accepted'[r.sub] = a
    BY <1>1, <1>2, <1>4, <1>9 DEF EndWrite, Staged
  <2>4. Staged(t)'
    BY <1>1, <2>3 DEF Staged, Archive
  <2> QED
    BY <2>2, <2>4 DEF StorageInv
<1> QED
  BY <1>1, <1>8, <1>9

\* The package is listed when its archive is complete, and its files go before its
\* item does.
LEMMA IndexStorage ==
  ASSUME TypeInv, Safety, StorageInv, NEW t \in Threads, \A u \in Threads : u = t,
         AppendIndex(t) \/ RemoveFile(t) \/ RemoveItem(t)
  PROVE  StorageInv'
<1> USE DEF TypeInv, TypeOK, Return, Goto
<1>0. AcceptedIsValidated /\ Staged(t)
  BY DEF StorageInv
<1>1. CASE AppendIndex(t)
  <2> DEFINE i == [sub |-> req[t].sub, digest |-> Archive(req[t]), by |-> t]
  <2>1. i.sub = req[t].sub /\ i.digest = Archive(req[t]) /\ i.digest.body = "valid"
    BY <1>1 DEF AppendIndex, Bound, Archive
  <2>2. /\ index' = index \cup {i} /\ accepted' = accepted /\ pc'[t] = "useload"
        /\ accepted[i.sub] = i.digest
    BY <1>0, <1>1 DEF AppendIndex, Staged
  <2> HIDE DEF i
  <2>3. AcceptedIsValidated'
    BY <1>0, <2>1, <2>2 DEF AcceptedIsValidated, Items
  <2>4. Staged(t)'
    BY <2>2 DEF Staged
  <2> QED
    BY <2>3, <2>4 DEF StorageInv
<1>2. CASE RemoveFile(t)
  <2>1. index' = index /\ pc'[t] \notin StagedLabels /\ \A s \in Subs : accepted'[s] \in {accepted[s], None}
    BY <1>2 DEF RemoveFile, StagedLabels
  <2>2. \A e \in index : e.sub \in Subs
    BY DEF Item
  <2>3. AcceptedIsValidated'
    BY <1>0, <2>1, <2>2 DEF AcceptedIsValidated, Items
  <2>4. Staged(t)'
    BY <2>1 DEF Staged, StagedLabels
  <2> QED
    BY <2>3, <2>4 DEF StorageInv
<1>3. CASE RemoveItem(t)
  <2>1. index' = index \ Items(req[t].sub) /\ accepted' = accepted /\ pc'[t] = "idle"
    BY <1>3 DEF RemoveItem
  <2>2. AcceptedIsValidated'
    <3>1. ASSUME NEW s \in Subs, accepted[s] # None
          PROVE  \/ accepted[s].body = "valid"
                 \/ accepted[s].body = "torn" /\ accepted[s].nonce = None
      BY <1>0, <3>1 DEF AcceptedIsValidated, Items
    <3> QED
      BY <1>0, <2>1, <3>1 DEF AcceptedIsValidated, Items
  <2>3. Staged(t)'
    BY <2>1 DEF Staged
  <2> QED
    BY <2>2, <2>3 DEF StorageInv
<1> QED
  BY <1>1, <1>2, <1>3

\* Steps that leave the call's files alone.
LEMMA PlainStorage ==
  ASSUME TypeInv, EnvelopeInv, StorageInv, NEW t \in Threads, \A u \in Threads : u = t,
         Step(t) \/ Arrive(t),
         ~Stage(t), ~EndWrite(t), ~Validate(t), ~RequireBinding(t), ~LockIndex(t),
         ~MoveToAccepted(t), ~WriteAccepted(t), ~AppendIndex(t), ~RemoveFile(t), ~RemoveItem(t)
  PROVE  StorageInv'
<1> USE DEF TypeInv, TypeOK, Return, Goto, StagedLabels
<1> DEFINE Clear == /\ UNCHANGED <<accepted, index>>
                    /\ pc'[t] \notin StagedLabels \/ (pc'[t] \in {"bind", "lock"} /\ req'[t].kind = "import")
<1>1. CASE ConsumeGrant(t) \/ (\E n \in Nonces : IssueNonce(t, n)) \/ RequireAuthorized(t) \/ ConsumeNonce(t)
  <2>1. Clear
    BY <1>1 DEF ConsumeGrant, IssueNonce, RequireAuthorized, ConsumeNonce
  <2> QED
    BY <2>1, StorageStays DEF Staged
<1>2. CASE MarkUsed(t) \/ UseLoad(t) \/ UseWrite(t) \/ WriteReceipt(t) \/ RecordProvenance(t)
  <2>1. Clear
    BY <1>2 DEF MarkUsed, UseLoad, UseWrite, WriteReceipt, RecordProvenance
  <2> QED
    BY <2>1, StorageStays DEF Staged
<1>3. CASE \/ Normalizing(t) \/ Normalize(t) \/ Analyzing(t) \/ Analyze(t) \/ Complete(t)
           \/ Report(t) \/ AnalysisFailed(t) \/ StatusWrite(t)
  <2>1. Clear
    BY <1>3 DEF Normalizing, Normalize, Analyzing, Analyze, Complete, Report, AnalysisFailed,
                StatusWrite, update_processing_state, Raise
  <2> QED
    BY <2>1, StorageStays DEF Staged
<1>4. CASE Arrive(t)
  <2> USE DEF Call, NoRequest
  <2>1. ASSUME NEW s \in Subs, NEW source \in Sources, NEW e \in Envelopes \cup {None},
               RequestNonce(t, s, source, e)
        PROVE  Clear
    BY <2>1 DEF RequestNonce
  <2>2. ASSUME NEW s \in Subs, NEW n \in Nonces, NEW body \in Bodies, NEW source \in Sources,
               Accept(t, s, n, body, source)
        PROVE  Clear
    BY <2>2 DEF Accept
  <2>3. ASSUME NEW s \in Subs, NEW source \in Sources, AcceptRefusedToken(t, s, source)
        PROVE  Clear
    BY <2>3 DEF AcceptRefusedToken
  <2>4. ASSUME NEW s \in Subs, NEW e \in Envelopes \cup {None}, ImportFile(t, s, e)
        PROVE  Clear
    BY <2>4 DEF ImportFile
  <2>5. ASSUME NEW status \in Statuses, StatusLoad(t, status)
        PROVE  Clear
    BY <2>5 DEF StatusLoad
  <2>6. ASSUME NEW s \in Subs, RemoveSubmission(t, s)
        PROVE  Clear
    BY <2>6 DEF RemoveSubmission
  <2> HIDE DEF Clear
  <2>7. Clear
    BY <1>4, <2>1, <2>2, <2>3, <2>4, <2>5, <2>6 DEF Arrive
  <2> QED
    BY <2>7, StorageStays DEF Staged, Clear
<1> QED
  BY <1>1, <1>2, <1>3, <1>4 DEF Step

LEMMA HostStorage ==
  ASSUME TypeInv, StorageInv, \A t, u \in Threads : t = u, Environment
  PROVE  StorageInv'
<1>1. ASSUME NEW t \in Threads, HostFails(t) PROVE StorageInv'
  <2>1. UNCHANGED <<accepted, index>> /\ pc'[t] \in {"idle", "failed"}
    BY <1>1 DEF HostFails, Raise, Return, Goto, TypeInv, TypeOK
  <2> QED
    BY <2>1, StorageStays DEF Staged
<1>2. CASE Crash
  BY <1>2 DEF Crash, StorageInv, AcceptedIsValidated, Items, Staged
<1>3. CASE Environment /\ ~Crash /\ \A t \in Threads : ~HostFails(t)
  <2>1. UNCHANGED <<accepted, index, quarantine, pc, req>>
    BY <1>3 DEF Environment, Expire, NonceExpires, GrantExpires, RestartServer
  <2> QED
    BY <2>1 DEF StorageInv, AcceptedIsValidated, Items, Staged, Archive, Torn
<1> QED
  BY <1>1, <1>2, <1>3

\* With one call at a time, whatever uploads, imports and removals were rejected,
\* raised, met a failed write or were cut off by a termination before it: the archive
\* of an indexed submission is the package that validation passed, or gone, and an
\* archive that the index does not list passed validation or is an import's torn file.
THEOREM AcceptedIsValidatedAlways ==
  ASSUME \A t, u \in Threads : t = u
  PROVE  Spec => []AcceptedIsValidated
<1>1. TypeInv /\ Safety /\ EnvelopeInv /\ StorageInv /\ [Next]_vars => StorageInv'
  <2> SUFFICES ASSUME TypeInv, Safety, EnvelopeInv, StorageInv, [Next]_vars PROVE StorageInv'
    OBVIOUS
  <2>1. CASE UNCHANGED vars
    BY <2>1 DEF vars, StorageInv, AcceptedIsValidated, Items, Staged, Archive, Torn
  <2>2. ASSUME NEW t \in Threads, Step(t) \/ Arrive(t) PROVE StorageInv'
    BY <2>2, StageStorage, MoveStorage, WriteStorage, IndexStorage, PlainStorage
  <2> QED
    BY <2>1, <2>2, HostStorage DEF Next
<1>2. Spec => [](TypeInv /\ EnvelopeInv)
  BY InitTypeInv, NextTypeInv, InitEnvelope, NextEnvelope, PTL DEF Spec
<1>3. StorageInv => AcceptedIsValidated
  BY DEF StorageInv
<1> QED
  BY <1>1, <1>2, <1>3, SafetyAlways, InitStorage, PTL DEF Spec
-----------------------------------------------------------------------------
(* Nonces.  consume reads and writes a record under the lock of its server    *)
(* instance, issue writes without it: a record that consume writes back may   *)
(* have been replaced in between, but a nonce is of one submission, fresh     *)
(* when it is issued, and unspent while its record is unused.                 *)

\* The nonce a call is about to mark used is its own and is not yet spent.
Consuming(t) ==
  pc[t] = "markused" =>
    /\ nonceLock[1] = t
    /\ req[t].nonce = nrec[t].nonce
    /\ nrec[t].nonce \in issued \ spent
    /\ \A s \in Subs : nonces[s] # None /\ nonces[s].nonce = nrec[t].nonce => s = req[t].sub

RecordsSound ==
  /\ spent \subseteq issued
  /\ \A s \in Subs : nonces[s] # None => nonces[s].nonce \in issued
  /\ \A s \in Subs : nonces[s] # None /\ ~nonces[s].used => nonces[s].nonce \notin spent
  /\ \A r, s \in Subs : nonces[r] # None /\ nonces[s] # None
                        /\ nonces[r].nonce = nonces[s].nonce => r = s

NonceInv == RecordsSound /\ \A t \in Threads : Consuming(t)

LEMMA InitNonces == Init => NonceInv
  BY DEF Init, NonceInv, RecordsSound, Consuming

\* A step of t that leaves the records alone and does not end before the write.
NonceQuiet(t) ==
  /\ UNCHANGED <<nonces, issued, spent, nonceLock>>
  /\ \A u \in Threads \ {t} : pc'[u] = pc[u] /\ req'[u] = req[u] /\ nrec'[u] = nrec[u]
  /\ pc'[t] # "markused"

LEMMA QuietNonces ==
  ASSUME NonceInv, NEW t \in Threads, NonceQuiet(t)
  PROVE  NonceInv'
  BY DEF NonceInv, NonceQuiet, RecordsSound, Consuming

LEMMA StepQuiet ==
  ASSUME TypeInv, NEW t \in Threads, Step(t) \/ Arrive(t), ~ConsumeNonce(t), ~MarkUsed(t),
         \A n \in Nonces : ~IssueNonce(t, n), pc'[t] # pc[t] \/ pc[t] # "markused"
  PROVE  NonceQuiet(t)
<1> USE DEF TypeInv, TypeOK, NonceQuiet, Return, Goto
<1>1. CASE \/ ConsumeGrant(t) \/ RequireAuthorized(t) \/ Stage(t) \/ Validate(t)
           \/ RequireBinding(t) \/ LockIndex(t)
  BY <1>1 DEF ConsumeGrant, RequireAuthorized, Stage, Validate, RequireBinding, LockIndex,
              RefuseDuplicate
<1>2. CASE \/ MoveToAccepted(t) \/ AppendIndex(t) \/ UseLoad(t) \/ UseWrite(t) \/ WriteReceipt(t)
           \/ EndWrite(t) \/ WriteAccepted(t) \/ RecordProvenance(t)
  BY <1>2 DEF MoveToAccepted, AppendIndex, UseLoad, UseWrite, WriteReceipt, EndWrite, WriteAccepted,
              RecordProvenance
<1>3. CASE \/ Normalizing(t) \/ Normalize(t) \/ Analyzing(t) \/ Analyze(t) \/ Complete(t)
           \/ Report(t) \/ AnalysisFailed(t) \/ StatusWrite(t)
  BY <1>3 DEF Normalizing, Normalize, Analyzing, Analyze, Complete, Report, AnalysisFailed,
              StatusWrite, update_processing_state, Raise
<1>4. CASE RemoveFile(t) \/ RemoveItem(t)
  BY <1>4 DEF RemoveFile, RemoveItem
<1>5. CASE Arrive(t)
  <2>1. ASSUME NEW s \in Subs, NEW source \in Sources, NEW e \in Envelopes \cup {None}, RequestNonce(t, s, source, e)
        PROVE  NonceQuiet(t)
    BY <2>1 DEF RequestNonce, Call
  <2>2. ASSUME NEW s \in Subs, NEW n \in Nonces, NEW body \in Bodies, NEW source \in Sources,
               Accept(t, s, n, body, source)
        PROVE  NonceQuiet(t)
    BY <2>2 DEF Accept, Call
  <2>3. ASSUME NEW s \in Subs, NEW source \in Sources, AcceptRefusedToken(t, s, source)
        PROVE  NonceQuiet(t)
    BY <2>3 DEF AcceptRefusedToken
  <2>4. ASSUME NEW s \in Subs, NEW e \in Envelopes \cup {None}, ImportFile(t, s, e)
        PROVE  NonceQuiet(t)
    BY <2>4 DEF ImportFile, Call
  <2>5. ASSUME NEW status \in Statuses, StatusLoad(t, status)
        PROVE  NonceQuiet(t)
    BY <2>5 DEF StatusLoad
  <2>6. ASSUME NEW s \in Subs, RemoveSubmission(t, s)
        PROVE  NonceQuiet(t)
    BY <2>6 DEF RemoveSubmission, Call
  <2> HIDE DEF NonceQuiet
  <2> QED BY <1>5, <2>1, <2>2, <2>3, <2>4, <2>5, <2>6 DEF Arrive
<1> QED
  BY <1>1, <1>2, <1>3, <1>4, <1>5 DEF Step

LEMMA IssueSound ==
  ASSUME TypeInv, NonceInv, NEW t \in Threads, NEW n \in Nonces, IssueNonce(t, n)
  PROVE  NonceInv'
<1> DEFINE d == [nonce |-> n, source |-> req[t].source, used |-> FALSE, live |-> TRUE]
<1>1. d.nonce = n /\ n \notin issued /\ n \notin spent
  BY DEF IssueNonce, NonceInv, RecordsSound
<1>2. /\ nonces' = [nonces EXCEPT ![req[t].sub] = d]
      /\ issued' = issued \cup {n} /\ spent' = spent /\ nonceLock' = nonceLock
  BY DEF IssueNonce
<1>3. nonces \in [Subs -> NonceRecord \cup {None}]
  BY DEF TypeInv, TypeOK
<1> HIDE DEF d
<1>4. RecordsSound'
  BY <1>1, <1>2, <1>3 DEF NonceInv, RecordsSound
<1>5. ASSUME NEW u \in Threads PROVE Consuming(u)'
  <2>1. pc'[u] = "markused" => pc[u] = "markused" /\ req'[u] = req[u] /\ nrec'[u] = nrec[u]
    BY DEF IssueNonce, Return, TypeInv, TypeOK
  <2> QED
    BY <1>1, <1>2, <1>3, <2>1 DEF NonceInv, Consuming
<1> QED
  BY <1>4, <1>5 DEF NonceInv

LEMMA ConsumeSound ==
  ASSUME MaxInstances = 1, TypeInv, NonceInv, NEW t \in Threads, ConsumeNonce(t)
  PROVE  NonceInv'
<1> DEFINE d == nonces[req[t].sub]
<1>1. CASE pc'[t] # "markused"
  <2>1. NonceQuiet(t)
    BY <1>1 DEF ConsumeNonce, NonceQuiet, Return, Goto, TypeInv, TypeOK
  <2> QED
    BY <2>1, QuietNonces
<1>2. CASE pc'[t] = "markused"
  <2>1. /\ pc[t] = "consume" /\ nonceLock[req[t].instance] = None
        /\ d # None /\ d.nonce = req[t].nonce /\ ~d.used
        /\ nonceLock' = [nonceLock EXCEPT ![req[t].instance] = t]
        /\ nrec' = [nrec EXCEPT ![t] = d]
        /\ pc' = [pc EXCEPT ![t] = "markused"]
        /\ UNCHANGED <<req, nonces, issued, spent>>
    BY <1>2 DEF ConsumeNonce, nonce_lock_free, Return, Goto, TypeInv, TypeOK
  <2>2. req[t].instance = 1 /\ req[t].sub \in Subs
    <3>1. req[t].instance \in 1..MaxInstances /\ req[t].sub \in Subs
      BY <2>1 DEF TypeInv, Bound, Request
    <3> QED
      BY <3>1
  <2>3. None \notin Threads
    BY ConstantsAssumption
  <2>4. RecordsSound'
    BY <2>1 DEF NonceInv, RecordsSound
  <2>5. ASSUME NEW u \in Threads, u # t PROVE pc'[u] # "markused"
    BY <2>1, <2>2, <2>3, <2>5 DEF NonceInv, Consuming, TypeInv, TypeOK
  <2>6. Consuming(t)'
    <3>1. nonceLock'[1] = t
      BY <2>1, <2>2 DEF TypeInv, TypeOK
    <3>2. nrec'[t] = d /\ req'[t] = req[t]
      BY <2>1 DEF TypeInv, TypeOK
    <3>3. d.nonce \in issued \ spent
      BY <2>1, <2>2 DEF NonceInv, RecordsSound
    <3>4. \A s \in Subs : nonces[s] # None /\ nonces[s].nonce = d.nonce => s = req[t].sub
      BY <2>1, <2>2 DEF NonceInv, RecordsSound
    <3> HIDE DEF d
    <3> QED
      BY <2>1, <3>1, <3>2, <3>3, <3>4 DEF Consuming
  <2> QED
    BY <2>4, <2>5, <2>6 DEF NonceInv, Consuming
<1> QED
  BY <1>1, <1>2

LEMMA MarkSound ==
  ASSUME TypeInv, NonceInv, NEW t \in Threads, MarkUsed(t)
  PROVE  NonceInv'
<1> DEFINE d == [nrec[t] EXCEPT !.used = TRUE]
<1>1. /\ pc[t] = "markused" /\ nrec[t] \in NonceRecord /\ req[t].sub \in Subs
      /\ nonceLock[1] = t /\ req[t].nonce = nrec[t].nonce /\ nrec[t].nonce \in issued \ spent
      /\ \A s \in Subs : nonces[s] # None /\ nonces[s].nonce = nrec[t].nonce => s = req[t].sub
  BY DEF MarkUsed, TypeInv, Bound, NonceInv, Consuming
<1>2. d \in NonceRecord /\ d.nonce = nrec[t].nonce /\ d.used = TRUE
  BY <1>1 DEF NonceRecord
<1>3. /\ nonces' = [nonces EXCEPT ![req[t].sub] = d]
      /\ spent' = spent \cup {nrec[t].nonce} /\ issued' = issued
      /\ pc' = [pc EXCEPT ![t] = "stage"] /\ UNCHANGED req
      /\ \A u \in Threads \ {t} : nrec'[u] = nrec[u]
  BY <1>1 DEF MarkUsed, Goto, TypeInv, TypeOK
<1>4. nonces \in [Subs -> NonceRecord \cup {None}] /\ pc \in [Threads -> Labels]
  BY DEF TypeInv, TypeOK
<1> HIDE DEF d
<1>5. RecordsSound'
  BY <1>1, <1>2, <1>3, <1>4 DEF NonceInv, RecordsSound
<1>6. ASSUME NEW u \in Threads PROVE pc'[u] # "markused"
  <2>1. CASE u = t
    BY <1>3, <1>4, <2>1
  <2>2. CASE u # t
    BY <1>1, <1>3, <1>4, <2>2 DEF NonceInv, Consuming
  <2> QED
    BY <2>1, <2>2
<1> QED
  BY <1>5, <1>6 DEF NonceInv, Consuming

LEMMA HostNonces ==
  ASSUME TypeInv, NonceInv, Environment
  PROVE  NonceInv'
<1>1. CASE \E s \in Subs : NonceExpires(s)
  <2>1. PICK s \in Subs : NonceExpires(s)
    BY <1>1
  <2> DEFINE d == [nonces[s] EXCEPT !.live = FALSE]
  <2>2. nonces \in [Subs -> NonceRecord \cup {None}]
    BY DEF TypeInv, TypeOK
  <2>3. nonces[s] # None /\ nonces[s] \in NonceRecord
    BY <2>1, <2>2 DEF NonceExpires
  <2>4. d.nonce = nonces[s].nonce /\ d.used = nonces[s].used
    BY <2>3 DEF NonceRecord
  <2>5. nonces' = [nonces EXCEPT ![s] = d] /\ UNCHANGED <<issued, spent, nonceLock, pc, req, nrec>>
    BY <2>1 DEF NonceExpires
  <2> HIDE DEF d
  <2>6. \A r \in Subs : /\ nonces'[r] # None => nonces[r] # None
                        /\ nonces'[r].nonce = nonces[r].nonce /\ nonces'[r].used = nonces[r].used
    BY <2>2, <2>3, <2>4, <2>5
  <2>7. RecordsSound'
    BY <2>5, <2>6 DEF NonceInv, RecordsSound
  <2>8. \A u \in Threads : Consuming(u)'
    BY <2>5, <2>6 DEF NonceInv, Consuming
  <2> QED
    BY <2>7, <2>8 DEF NonceInv
<1>2. CASE Crash
  BY <1>2 DEF Crash, NonceInv, RecordsSound, Consuming
<1>3. CASE Expire \/ (\E e \in Envelopes : GrantExpires(e)) \/ RestartServer
  BY <1>3 DEF Expire, GrantExpires, RestartServer, NonceInv, RecordsSound, Consuming
<1>4. ASSUME NEW t \in Threads, HostFails(t) PROVE NonceInv'
  <2>1. /\ UNCHANGED <<nonces, issued, spent>>
        /\ \A u \in Threads \ {t} : pc'[u] = pc[u] /\ req'[u] = req[u] /\ nrec'[u] = nrec[u]
        /\ pc'[t] # "markused"
    BY <1>4 DEF HostFails, Raise, Return, Goto, TypeInv, TypeOK
  <2>2. \A u \in Threads \ {t} : nonceLock[1] = u => nonceLock'[1] = u
    BY <1>4, ConstantsAssumption DEF HostFails
  <2> QED
    BY <2>1, <2>2 DEF NonceInv, RecordsSound, Consuming
<1> QED
  BY <1>1, <1>2, <1>3, <1>4 DEF Environment

LEMMA NextNonces ==
  ASSUME MaxInstances = 1
  PROVE  TypeInv /\ NonceInv /\ [Next]_vars => NonceInv'
<1> SUFFICES ASSUME TypeInv, NonceInv, [Next]_vars PROVE NonceInv'
  OBVIOUS
<1>1. CASE UNCHANGED vars
  BY <1>1 DEF vars, NonceInv, RecordsSound, Consuming
<1>2. ASSUME NEW t \in Threads, Step(t) \/ Arrive(t) PROVE NonceInv'
  <2>1. CASE ConsumeNonce(t)
    BY <2>1, ConsumeSound
  <2>2. CASE MarkUsed(t)
    BY <2>2, MarkSound
  <2>3. ASSUME NEW n \in Nonces, IssueNonce(t, n) PROVE NonceInv'
    BY <2>3, IssueSound
  <2>4. CASE ~ConsumeNonce(t) /\ ~MarkUsed(t) /\ \A n \in Nonces : ~IssueNonce(t, n)
    <3>1. CASE pc'[t] # pc[t] \/ pc[t] # "markused"
      BY <1>2, <2>4, <3>1, StepQuiet, QuietNonces
    <3>2. CASE pc'[t] = pc[t] /\ pc[t] = "markused"
      BY <1>2, <2>4, <3>2 DEF Step, Arrive, ConsumeGrant, RequireAuthorized, Stage, Validate,
         RequireBinding, LockIndex, MoveToAccepted, AppendIndex, UseLoad, UseWrite, WriteReceipt,
         Normalizing, Normalize, Analyzing, Analyze, Complete, Report, AnalysisFailed, StatusWrite,
         EndWrite, WriteAccepted, RecordProvenance, RemoveFile, RemoveItem,
         RequestNonce, Accept, AcceptRefusedToken, ImportFile, StatusLoad, RemoveSubmission, Call
    <3> QED
      BY <3>1, <3>2
  <2> QED
    BY <2>1, <2>2, <2>3, <2>4
<1> QED
  BY <1>1, <1>2, HostNonces DEF Next

\* One server instance honours a nonce once: no call is about to mark used a nonce
\* that another call has spent, although issue replaces a record without the lock
\* that consume holds between its read and its write, and whatever terminates.
THEOREM NonceSpentOnceAlways ==
  ASSUME MaxInstances = 1
  PROVE  Spec => []NonceSpentOnce
<1>1. TypeInv /\ NonceInv /\ [Next]_vars => NonceInv'
  BY NextNonces
<1>2. Spec => []TypeInv
  BY InitTypeInv, NextTypeInv, PTL DEF Spec
<1>3. NonceInv => NonceSpentOnce
  BY DEF NonceInv, NonceSpentOnce, Consuming
<1> QED
  BY <1>1, <1>2, <1>3, InitNonces, PTL DEF Spec
-----------------------------------------------------------------------------
(* The count of uses, for handlers that serve nonce requests and uploads.     *)
(* record_token_use is inside the index lock, so the session a call has       *)
(* loaded is the one on disk when it writes; and each of the uses counted     *)
(* belongs to a submission of its own, receipted or about to be.              *)

\* Uploads and nonce requests only, one process that is not cut off and whose
\* writes succeed.  (An import counts its use outside the lock, an operator's
\* status change writes back the session it loaded, a removal withdraws the
\* receipt, a failed write leaves a use without one.)
HandlersOnly ==
  /\ Kinds \cap {"import", "status", "remove"} = {}
  /\ MaxCrashes = 0 /\ MaxFailures = 0
  /\ IsFiniteSet(Threads) /\ IsFiniteSet(Subs)

\* After the append, up to the receipt.
Owed == {"useload", "usewrite", "receipt"}

OperatorLabels == {"statuswrite", "rmarchive", "rmreceipt", "rmnormalized", "rmfindings", "rmitem"}

UseOf(t) ==
  /\ pc[t] # "idle" => req[t].kind \in {"nonce", "submit"}
  /\ pc[t] \notin OperatorLabels
  /\ pc[t] \in {"useload", "usewrite"} => indexLock = t
  /\ pc[t] = "usewrite" => cur[t] = session
  /\ pc[t] \in Owed => receipts[req[t].sub] = None

UseInv ==
  /\ removed = {}
  /\ \A t \in Threads : UseOf(t)
  /\ \A t, u \in Threads : pc[t] \in Owed /\ pc[u] \in Owed /\ req[t].sub = req[u].sub => t = u
  /\ TokenUsesCounted

LEMMA InitUses == ASSUME HandlersOnly PROVE Init => UseInv
<1> SUFFICES ASSUME Init PROVE UseInv
  OBVIOUS
<1>1. {s \in Subs : receipts[s] # None} = {} /\ {t \in Threads : pc[t] = "receipt"} = {}
  BY DEF Init
<1>2. TokenUsesCounted
  <2>1. Cardinality({}) = 0
    BY FS_EmptySet
  <2>2. session.uses = 0
    BY DEF Init
  <2> QED
    BY <1>1, <2>1, <2>2 DEF TokenUsesCounted
<1> QED
  BY <1>2 DEF Init, UseInv, UseOf, Owed, OperatorLabels

\* A step of t at labels the count does not concern.
UseQuiet(t) ==
  /\ UNCHANGED <<session, receipts, removed>>
  /\ \A u \in Threads \ {t} : pc'[u] = pc[u] /\ req'[u] = req[u] /\ cur'[u] = cur[u]
  /\ pc[t] # "receipt" /\ pc'[t] \notin Owed \cup OperatorLabels
  /\ pc'[t] # "idle" => req'[t].kind \in {"nonce", "submit"}
  /\ \A u \in Threads \ {t} : pc[u] \in {"useload", "usewrite"} => indexLock' = indexLock

LEMMA QuietUses ==
  ASSUME UseInv, NEW t \in Threads, UseQuiet(t)
  PROVE  UseInv'
<1>1. {u \in Threads : pc'[u] = "receipt"} = {u \in Threads : pc[u] = "receipt"}
  BY DEF UseQuiet, Owed
<1>2. TokenUsesCounted'
  BY <1>1 DEF UseInv, UseQuiet, TokenUsesCounted
<1>3. \A u \in Threads : UseOf(u)'
  BY DEF UseInv, UseQuiet, UseOf, Owed, OperatorLabels
<1>4. \A u, v \in Threads : pc'[u] \in Owed /\ pc'[v] \in Owed /\ req'[u].sub = req'[v].sub => u = v
  BY DEF UseInv, UseQuiet
<1> QED
  BY <1>2, <1>3, <1>4 DEF UseInv, UseQuiet

\* Steps of a call outside the critical section, or that enter or leave it
\* without a count.
LEMMA PlainUses ==
  ASSUME HandlersOnly, TypeInv, Safety, UseInv, NEW t \in Threads, Step(t) \/ Arrive(t),
         ~AppendIndex(t), ~UseLoad(t), ~UseWrite(t), ~WriteReceipt(t),
         ~\E s \in Subs, source \in Sources : AcceptRefusedToken(t, s, source)
  PROVE  UseQuiet(t)
<1> USE DEF TypeInv, TypeOK, UseQuiet, Return, Goto, Owed, OperatorLabels
<1>0. UseOf(t) /\ removed = {} /\ \A u \in Threads : InCriticalSection(u) /\ UseOf(u)
  BY DEF UseInv, Safety
<1>1. CASE ConsumeGrant(t)
  BY <1>0, <1>1 DEF ConsumeGrant, UseOf
<1>2. CASE \E n \in Nonces : IssueNonce(t, n)
  BY <1>0, <1>2 DEF IssueNonce, UseOf
<1>3. CASE RequireAuthorized(t)
  BY <1>0, <1>3 DEF RequireAuthorized, UseOf
<1>4. CASE ConsumeNonce(t)
  BY <1>0, <1>4 DEF ConsumeNonce, UseOf
<1>5. CASE MarkUsed(t)
  BY <1>0, <1>5 DEF MarkUsed, UseOf
<1>6. CASE Stage(t)
  BY <1>0, <1>6 DEF Stage, UseOf
<1>7. CASE Validate(t)
  BY <1>0, <1>7 DEF Validate, UseOf
<1>8. CASE RequireBinding(t)
  BY <1>0, <1>8 DEF RequireBinding, UseOf
<1>9. CASE LockIndex(t)
  <2>1. \A u \in Threads : pc[u] \notin {"useload", "usewrite"}
    BY <1>0, <1>9, ConstantsAssumption DEF LockIndex, UseOf
  <2> QED
    BY <1>0, <1>9, <2>1 DEF LockIndex, RefuseDuplicate, UseOf
<1>10. CASE MoveToAccepted(t)
  <2>1. indexLock = t
    BY <1>0, <1>10 DEF MoveToAccepted, InCriticalSection
  <2>2. \A u \in Threads \ {t} : pc[u] \notin {"useload", "usewrite"}
    BY <1>0, <2>1 DEF UseOf
  <2> QED
    BY <1>0, <1>10, <2>2 DEF MoveToAccepted, UseOf
<1>11. CASE Normalizing(t) \/ Analyzing(t) \/ Complete(t)
  BY <1>0, <1>11 DEF Normalizing, Analyzing, Complete, update_processing_state, Raise, UseOf
<1>12. CASE Normalize(t) \/ Analyze(t) \/ Report(t)
  BY <1>0, <1>12 DEF Normalize, Analyze, Report, Raise, UseOf
<1>13. CASE AnalysisFailed(t)
  BY <1>0, <1>13 DEF AnalysisFailed, UseOf
<1>14. ~StatusWrite(t)
  BY <1>0 DEF StatusWrite, UseOf
<1>15. ASSUME NEW s \in Subs, NEW source \in Sources, NEW e \in Envelopes \cup {None},
              RequestNonce(t, s, source, e)
       PROVE  UseQuiet(t)
  <2>1. /\ UNCHANGED <<session, receipts, removed, indexLock, cur>> /\ pc[t] = "idle"
        /\ pc' = [pc EXCEPT ![t] = IF TrustedRequired THEN "grant" ELSE "issue"]
    BY <1>15 DEF RequestNonce, Call
  <2>2. req'[t].kind = "nonce" /\ \A u \in Threads \ {t} : req'[u] = req[u]
    BY <1>15 DEF RequestNonce, Call, NoRequest
  <2> QED
    BY <2>1, <2>2
<1>16. ASSUME NEW s \in Subs, NEW n \in Nonces, NEW body \in Bodies, NEW source \in Sources,
              Accept(t, s, n, body, source)
       PROVE  UseQuiet(t)
  <2>1. /\ UNCHANGED <<session, receipts, removed, indexLock, cur>> /\ pc[t] = "idle"
        /\ pc' = [pc EXCEPT ![t] = IF TrustedRequired THEN "authorize" ELSE "consume"]
    BY <1>16 DEF Accept, Call
  <2>2. req'[t].kind = "submit" /\ \A u \in Threads \ {t} : req'[u] = req[u]
    BY <1>16 DEF Accept, Call, NoRequest
  <2> QED
    BY <2>1, <2>2
<1>17. ASSUME NEW s \in Subs, NEW e \in Envelopes \cup {None} PROVE ~ImportFile(t, s, e)
  BY DEF HandlersOnly, ImportFile, Call, NoRequest
<1>18. ASSUME NEW status \in Statuses PROVE ~StatusLoad(t, status)
  BY DEF HandlersOnly, StatusLoad
<1>19. ASSUME NEW s \in Subs PROVE ~RemoveSubmission(t, s)
  BY DEF HandlersOnly, RemoveSubmission, Call, NoRequest
<1>20. ~RemoveFile(t) /\ ~RemoveItem(t)
  BY <1>0 DEF RemoveFile, RemoveItem, UseOf
<1>21. CASE EndWrite(t) \/ WriteAccepted(t)
  BY <1>0, <1>21 DEF EndWrite, WriteAccepted, UseOf
<1>22. CASE RecordProvenance(t)
  BY <1>0, <1>22 DEF RecordProvenance, UseOf
<1> QED
  BY <1>1, <1>2, <1>3, <1>4, <1>5, <1>6, <1>7, <1>8, <1>9, <1>10, <1>11, <1>12, <1>13, <1>14,
     <1>15, <1>16, <1>17, <1>18, <1>19, <1>20, <1>21, <1>22 DEF Step, Arrive

\* The appended package is the only one of its submission, so no other call
\* owes its receipt and none was written.
LEMMA AppendUses ==
  ASSUME HandlersOnly, TypeInv, Safety, UseInv, NEW t \in Threads, AppendIndex(t)
  PROVE  UseInv'
<1> USE DEF TypeInv, TypeOK
<1>1. /\ pc[t] = "append" /\ pc' = [pc EXCEPT ![t] = "useload"]
      /\ UNCHANGED <<session, receipts, removed, req, cur>>
  BY DEF AppendIndex, Goto
<1>2. indexLock = t /\ (\A e \in index : e.sub # req[t].sub) /\ removed = {}
  BY <1>1 DEF Safety, InCriticalSection, UseInv
<1>3. indexLock' = indexLock
  BY <1>1 DEF AppendIndex, leaves_after_append, UseInv, UseOf
<1>4. receipts[req[t].sub] = None
  <2>1. req[t].sub \in Subs
    BY <1>1 DEF Bound
  <2> QED
    BY <1>2, <2>1 DEF Safety, ReceiptBacked
<1>5. ASSUME NEW u \in Threads, pc[u] \in Owed PROVE req[u].sub # req[t].sub
  BY <1>2, <1>5 DEF Safety, IsRecorded, Owed
<1>6. \A u \in Threads : UseOf(u)'
  BY <1>1, <1>2, <1>3, <1>4 DEF UseInv, UseOf, Owed, OperatorLabels
<1>7. \A u, v \in Threads : pc'[u] \in Owed /\ pc'[v] \in Owed /\ req'[u].sub = req'[v].sub => u = v
  BY <1>1, <1>5 DEF UseInv
<1>8. {u \in Threads : pc'[u] = "receipt"} = {u \in Threads : pc[u] = "receipt"}
  BY <1>1
<1>9. TokenUsesCounted'
  BY <1>1, <1>8 DEF UseInv, TokenUsesCounted
<1> QED
  BY <1>1, <1>6, <1>7, <1>9 DEF UseInv

LEMMA LoadUses ==
  ASSUME HandlersOnly, TypeInv, UseInv, NEW t \in Threads, UseLoad(t)
  PROVE  UseInv'
<1> USE DEF TypeInv, TypeOK
<1>1. /\ pc[t] = "useload" /\ UNCHANGED <<session, receipts, removed>>
      /\ \A u \in Threads \ {t} : pc'[u] = pc[u] /\ req'[u] = req[u] /\ cur'[u] = cur[u]
  BY DEF UseLoad, Return, Goto
<1>2. \/ pc'[t] = "idle"
      \/ pc'[t] = "usewrite" /\ req'[t] = req[t] /\ cur'[t] = session /\ indexLock' = indexLock
  BY DEF UseLoad, Return, Goto
<1>3. indexLock = t /\ \A u \in Threads \ {t} : pc[u] \notin {"useload", "usewrite"}
  BY <1>1 DEF UseInv, UseOf
<1>4. \A u \in Threads : UseOf(u)'
  BY <1>1, <1>2, <1>3 DEF UseInv, UseOf, Owed, OperatorLabels
<1>5. \A u, v \in Threads : pc'[u] \in Owed /\ pc'[v] \in Owed /\ req'[u].sub = req'[v].sub => u = v
  BY <1>1, <1>2 DEF UseInv, Owed
<1>6. {u \in Threads : pc'[u] = "receipt"} = {u \in Threads : pc[u] = "receipt"}
  BY <1>1, <1>2
<1>7. TokenUsesCounted'
  BY <1>1, <1>6 DEF UseInv, TokenUsesCounted
<1> QED
  BY <1>1, <1>4, <1>5, <1>7 DEF UseInv

\* One use is added, and one call owes a receipt for it.
LEMMA WriteUses ==
  ASSUME HandlersOnly, TypeInv, UseInv, NEW t \in Threads, UseWrite(t)
  PROVE  UseInv'
<1> USE DEF TypeInv, TypeOK
<1>1. /\ pc[t] = "usewrite" /\ pc' = [pc EXCEPT ![t] = "receipt"]
      /\ UNCHANGED <<receipts, removed, req>>
      /\ \A u \in Threads \ {t} : cur'[u] = cur[u]
  BY DEF UseWrite, Goto
<1>2. indexLock = t /\ (\A u \in Threads \ {t} : pc[u] \notin {"useload", "usewrite"}) /\ cur[t] = session
  BY <1>1 DEF UseInv, UseOf
<1>3. \A u \in Threads : UseOf(u)'
  BY <1>1, <1>2 DEF UseInv, UseOf, Owed, OperatorLabels
<1>4. \A u, v \in Threads : pc'[u] \in Owed /\ pc'[v] \in Owed /\ req'[u].sub = req'[v].sub => u = v
  BY <1>1 DEF UseInv, Owed
<1> DEFINE P == {u \in Threads : pc[u] = "receipt"}
           R == {s \in Subs : receipts[s] # None}
<1>5. {u \in Threads : pc'[u] = "receipt"} = P \cup {t} /\ t \notin P
  BY <1>1
<1>6. {s \in Subs : receipts'[s] # None} = R
  BY <1>1
<1>7. IsFiniteSet(P) /\ IsFiniteSet(R)
  BY FS_Subset DEF HandlersOnly
<1>8. Cardinality(P) \in Nat /\ Cardinality(R) \in Nat /\ Cardinality(P \cup {t}) = Cardinality(P) + 1
  BY <1>5, <1>7, FS_CardinalityType, FS_AddElement
<1>9. session'.uses = session.uses + 1 /\ session.uses = Cardinality(R) + Cardinality(P)
  <2>1. session' = [session EXCEPT !.uses = session.uses + 1] /\ session \in Session
    BY <1>2 DEF UseWrite
  <2>2. session'.uses = session.uses + 1
    BY <2>1 DEF Session
  <2> QED
    BY <2>2 DEF UseInv, TokenUsesCounted
<1> HIDE DEF P, R
<1>10. session'.uses = Cardinality(R) + Cardinality(P \cup {t})
  BY <1>8, <1>9
<1>11. TokenUsesCounted'
  BY <1>5, <1>6, <1>10 DEF TokenUsesCounted
<1> QED
  BY <1>1, <1>3, <1>4, <1>11 DEF UseInv

\* The receipt that was owed is written.
LEMMA ReceiptUses ==
  ASSUME HandlersOnly, TypeInv, UseInv, NEW t \in Threads, WriteReceipt(t)
  PROVE  UseInv'
<1> USE DEF TypeInv, TypeOK
<1>1. /\ pc[t] = "receipt" /\ pc' = [pc EXCEPT ![t] = "provenance"]
      /\ UNCHANGED <<session, removed, req, cur, indexLock>>
      /\ receipts' = [receipts EXCEPT ![req[t].sub] = Archive(req[t])]
  BY DEF WriteReceipt, Goto
<1>2. req[t].sub \in Subs /\ receipts[req[t].sub] = None
  BY <1>1 DEF Bound, UseInv, UseOf, Owed, OperatorLabels
<1>3. Archive(req[t]) # None
  <2>1. Archive(req[t]) \in Archives
    BY <1>1 DEF Bound, Archive, Archives, Request, AllBodies
  <2> QED
    BY <2>1, RecordsAssumption
<1>4. \A u \in Threads : UseOf(u)'
  BY <1>1, <1>2 DEF UseInv, UseOf, Owed, OperatorLabels, Bound
<1>5. \A u, v \in Threads : pc'[u] \in Owed /\ pc'[v] \in Owed /\ req'[u].sub = req'[v].sub => u = v
  BY <1>1 DEF UseInv, Owed
<1> DEFINE P == {u \in Threads : pc[u] = "receipt"}
           R == {s \in Subs : receipts[s] # None}
<1>6. {u \in Threads : pc'[u] = "receipt"} = P \ {t} /\ t \in P
  BY <1>1
<1>7. {s \in Subs : receipts'[s] # None} = R \cup {req[t].sub} /\ req[t].sub \notin R
  BY <1>1, <1>2, <1>3
<1>8. IsFiniteSet(P) /\ IsFiniteSet(R)
  BY FS_Subset DEF HandlersOnly
<1>9. /\ Cardinality(P) \in Nat /\ Cardinality(R) \in Nat
      /\ Cardinality(P \ {t}) = Cardinality(P) - 1
      /\ Cardinality(R \cup {req[t].sub}) = Cardinality(R) + 1
  <2> HIDE DEF P, R
  <2>1. Cardinality(P) \in Nat /\ Cardinality(R) \in Nat
    BY <1>8, FS_CardinalityType
  <2>2. Cardinality(P \ {t}) = Cardinality(P) - 1
    BY <1>6, <1>8, FS_RemoveElement
  <2>3. Cardinality(R \cup {req[t].sub}) = Cardinality(R) + 1
    BY <1>7, <1>8, FS_AddElement
  <2> QED BY <2>1, <2>2, <2>3
<1>10. session'.uses = Cardinality(R) + Cardinality(P)
  BY <1>1 DEF UseInv, TokenUsesCounted
<1> HIDE DEF P, R
<1>11. session'.uses = Cardinality(R \cup {req[t].sub}) + Cardinality(P \ {t})
  BY <1>9, <1>10
<1>12. TokenUsesCounted'
  BY <1>6, <1>7, <1>11 DEF TokenUsesCounted
<1> QED
  BY <1>1, <1>4, <1>5, <1>12 DEF UseInv

LEMMA NextUses ==
  ASSUME HandlersOnly
  PROVE  TypeInv /\ Safety /\ UseInv /\ [Next]_vars => UseInv'
<1> SUFFICES ASSUME TypeInv, Safety, UseInv, [Next]_vars PROVE UseInv'
  OBVIOUS
<1>1. CASE UNCHANGED <<session, receipts, removed, pc, req, cur, indexLock>>
  BY <1>1 DEF UseInv, UseOf, TokenUsesCounted
<1>2. CASE UNCHANGED vars
  BY <1>1, <1>2 DEF vars
<1>3. ASSUME NEW t \in Threads, Step(t) \/ Arrive(t) PROVE UseInv'
  <2>1. CASE AppendIndex(t)
    BY <2>1, AppendUses
  <2>2. CASE UseLoad(t)
    BY <2>2, LoadUses
  <2>3. CASE UseWrite(t)
    BY <2>3, WriteUses
  <2>4. CASE WriteReceipt(t)
    BY <2>4, ReceiptUses
  <2>5. CASE \E s \in Subs, source \in Sources : AcceptRefusedToken(t, s, source)
    BY <1>1, <2>5 DEF AcceptRefusedToken
  <2>6. CASE /\ ~AppendIndex(t) /\ ~UseLoad(t) /\ ~UseWrite(t) /\ ~WriteReceipt(t)
             /\ ~\E s \in Subs, source \in Sources : AcceptRefusedToken(t, s, source)
    BY <1>3, <2>6, PlainUses, QuietUses
  <2> QED
    BY <2>1, <2>2, <2>3, <2>4, <2>5, <2>6
<1>4. ~Crash /\ \A t \in Threads : ~HostFails(t)
  <2>1. crashes \in 0..0 /\ failures \in 0..0
    BY DEF TypeInv, TypeOK, HandlersOnly
  <2> QED
    BY <2>1 DEF Crash, HostFails, HandlersOnly
<1>5. CASE Environment
  BY <1>1, <1>4, <1>5 DEF Environment, Expire, NonceExpires, GrantExpires, RestartServer
<1> QED
  BY <1>2, <1>3, <1>5 DEF Next

\* While the handlers of one server instance take uploads, however many race and
\* whatever expires, the session's count of uses is the number of receipts written
\* or owed, and a nonce is honoured once.
THEOREM CapabilitiesCountedAlways ==
  ASSUME HandlersOnly, MaxInstances = 1
  PROVE  Spec => []CapabilitiesCounted
<1>1. Init => UseInv
  BY InitUses
<1>2. TypeInv /\ Safety /\ UseInv /\ [Next]_vars => UseInv'
  BY NextUses
<1>3. Spec => []UseInv
  BY <1>1, <1>2, SafetyAlways, PTL DEF Spec
<1>4. UseInv /\ NonceSpentOnce => CapabilitiesCounted
  BY DEF UseInv, CapabilitiesCounted
<1> QED
  BY <1>3, <1>4, NonceSpentOnceAlways, PTL
=============================================================================
