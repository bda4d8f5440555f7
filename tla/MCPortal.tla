------------------------------ MODULE MCPortal ------------------------------
\* An instance of Portal for TLC: the handler threads of one process, which are alike.
EXTENDS Portal, TLC

OneProcess == [t \in Threads |-> "server"]
AlikeThreads == Permutations(Threads)

\* Downloads, starts, pauses, terminations and half-way writes are explored at one time;
\* time passes while one listener of a session without downloads is asked.
TimeOrAssessor ==
  \/ /\ clock = 0
     /\ \/ requests <= 2 /\ Len(guesses) <= 1
        \/ requests <= 3 /\ guesses = <<>> /\ faults = 0 /\ allowed
  \/ /\ Listener = 1 /\ listening /\ assessor = "idle" /\ faults = 0 /\ ~development
     /\ allowed \/ requests <= 3

\* The steps of an append do not depend on the portal: where time passes, they are taken
\* without a gap.
AppendsTogether == \A t \in Threads : (clock > 0 \/ requests > 3) /\ pc[t] # "idle" => pc'[t] # pc[t]

\* What no step reads again is left out of the fingerprint: the link and hash of a thread
\* that is not writing, the count of an idle assessor, and a binding without handlers.
Used(l) == l = Listener \/ \E t \in Threads : handler[t].listener = l
Kept(h) ==
  [h EXCEPT !.now = IF h.at \in {"limited", "failed"} THEN @ ELSE 0,
            !.kind = IF h.at = "session" THEN @ ELSE None]
MCView ==
  <<lines, open, lock, pc, acked, fresh, faults,
    [t \in Threads |-> <<IF pc[t] = "linked" THEN link[t] ELSE None,
                         IF pc[t] = "written" THEN wrote[t] ELSE None>>],
    [l \in 1..Listener |-> IF Used(l) THEN binding[l] ELSE None],
    IF assessor = "idle" THEN 0 ELSE copy,
    clock, [t \in Threads |-> Kept(handler[t])], listening, allowed, session, development, stored, assessor,
    served, overlapped, stray, guesses, requests>>
=============================================================================
