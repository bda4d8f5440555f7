----------------------------- MODULE AuditChain -----------------------------
(***************************************************************************)
(* The audit log of an assessment, csa_console/audit.py: a file of JSON    *)
(* lines, each with the hash of the line before it.  Appending holds a     *)
(* lock on the path that threads of one process share; other processes,    *)
(* such as the console's commands beside a running server, have their own. *)
(* An entry is identified by its hash, here the order of the writes.       *)
(***************************************************************************)
EXTENDS Naturals, Sequences

CONSTANTS
  Threads,
  Processes,
  Home,          \* the process of each thread
  MaxEntries,    \* bound: entries written
  Faults,        \* "kill": a process ends; "write": a write ends half-way
  MaxFaults,     \* bound: faults
  Torn,          \* a line that is not one JSON value
  None

ASSUME AuditAssumption ==
  /\ Home \in [Threads -> Processes]
  /\ MaxEntries \in Nat \ {0}
  /\ MaxFaults \in Nat
  /\ Faults \subseteq {"kill", "write"}
  /\ None \notin Threads \cup 1..MaxEntries
  /\ Torn \notin [id : 1..MaxEntries, prev : 1..MaxEntries \cup {None}]

VARIABLES
  lines,     \* the file
  open,      \* its last line has no line end
  lock,      \* the holder of each process's lock on the path
  pc,        \* where each thread is in append
  link,      \* the previousEntryHash of the entry a thread is to write
  wrote,     \* the entry a thread has written
  acked,     \* the hashes that append has returned
  fresh,     \* the next hash
  faults

vars == <<lines, open, lock, pc, link, wrote, acked, fresh, faults>>

Ids == 1..MaxEntries
Entry == [id : Ids, prev : Ids \cup {None}]

TypeOK ==
  /\ lines \in Seq(Entry \cup {Torn})
  /\ open \in BOOLEAN
  /\ lock \in [Processes -> Threads \cup {None}]
  /\ pc \in [Threads -> {"idle", "locked", "linked", "written"}]
  /\ link \in [Threads -> Ids \cup {None}]
  /\ wrote \in [Threads -> Ids \cup {None}]
  /\ acked \subseteq Ids
  /\ fresh \in 1..(MaxEntries + 1)
  /\ faults \in 0..MaxFaults

Init ==
  /\ lines = <<>>
  /\ open = FALSE
  /\ lock = [p \in Processes |-> None]
  /\ pc = [t \in Threads |-> "idle"]
  /\ link = [t \in Threads |-> None]
  /\ wrote = [t \in Threads |-> None]
  /\ acked = {}
  /\ fresh = 1
  /\ faults = 0

-----------------------------------------------------------------------------
Goto(t, label) == pc' = [pc EXCEPT ![t] = label]
Unlock(t) == lock' = [lock EXCEPT ![Home[t]] = None]

\* Fault: every thread finds the path's lock free.
path_unlocked(t) == TRUE

path_lock(t) == lock[Home[t]] = None

Lock(t) ==
  /\ pc[t] = "idle"
  /\ fresh <= MaxEntries
  /\ path_lock(t)
  /\ lock' = [lock EXCEPT ![Home[t]] = t]
  /\ Goto(t, "locked")
  /\ UNCHANGED <<lines, open, link, wrote, acked, fresh, faults>>

\* The final line as final_hash reads it; none in an empty file.
final_line == lines[Len(lines)]

final_hash == IF lines = <<>> THEN None ELSE final_line.id

readable == lines # <<>> => final_line # Torn

\* final_hash returns, ...
ReadFinalHash(t) ==
  /\ pc[t] = "locked"
  /\ readable
  /\ link' = [link EXCEPT ![t] = final_hash]
  /\ Goto(t, "linked")
  /\ UNCHANGED <<lines, open, lock, wrote, acked, fresh, faults>>

\* ... or raises on a final line that is not JSON, and the append with it.
AppendRaises(t) ==
  /\ pc[t] = "locked"
  /\ ~readable
  /\ Unlock(t)
  /\ Goto(t, "idle")
  /\ UNCHANGED <<lines, open, link, wrote, acked, fresh, faults>>

\* A line written after one without an end becomes part of it.
joined(line) == [lines EXCEPT ![Len(lines)] = Torn]

\* The file after a write of an entry or of part of it.
appended(line) == IF open THEN joined(line) ELSE Append(lines, line)

Write(t) ==
  /\ pc[t] = "linked"
  /\ fresh <= MaxEntries
  /\ lines' = appended([id |-> fresh, prev |-> link[t]])
  /\ open' = FALSE
  /\ wrote' = [wrote EXCEPT ![t] = fresh]
  /\ fresh' = fresh + 1
  /\ Goto(t, "written")
  /\ UNCHANGED <<lock, link, acked, faults>>

\* The write raises half-way: part of the entry, or all but its line end, is
\* in the file.  The thread leaves append with the exception.
WriteFails(t) ==
  /\ "write" \in Faults
  /\ pc[t] = "linked"
  /\ fresh <= MaxEntries
  /\ faults < MaxFaults
  /\ faults' = faults + 1
  /\ \E line \in {Torn, [id |-> fresh, prev |-> link[t]]} : lines' = appended(line)
  /\ open' = TRUE
  /\ fresh' = fresh + 1
  /\ Unlock(t)
  /\ Goto(t, "idle")
  /\ UNCHANGED <<link, wrote, acked>>

\* Leaving the lock, append returns the hash.
Return(t) ==
  /\ pc[t] = "written"
  /\ acked' = acked \cup {wrote[t]}
  /\ Unlock(t)
  /\ Goto(t, "idle")
  /\ UNCHANGED <<lines, open, link, wrote, fresh, faults>>

\* A process ends, and another takes its place.
Kill(p) ==
  /\ "kill" \in Faults
  /\ faults < MaxFaults
  /\ faults' = faults + 1
  /\ lock' = [lock EXCEPT ![p] = None]
  /\ pc' = [t \in Threads |-> IF Home[t] = p THEN "idle" ELSE pc[t]]
  /\ UNCHANGED <<lines, open, link, wrote, acked, fresh>>

Thread(t) ==
  Lock(t) \/ ReadFinalHash(t) \/ AppendRaises(t) \/ Write(t) \/ WriteFails(t) \/ Return(t)

Next == (\E t \in Threads : Thread(t)) \/ (\E p \in Processes : Kill(p))

Spec == Init /\ [][Next]_vars

-----------------------------------------------------------------------------
(* verify *)

\* Fault: a line that cannot be parsed is passed over.
linked_leniently(i) ==
  lines[i] = Torn \/ i = 1 \/ lines[i-1] = Torn \/ lines[i].prev = lines[i-1].id

\* What the loop of verify requires of a line.
linked(i) ==
  /\ lines[i] # Torn
  /\ lines[i].prev = IF i = 1 THEN None ELSE lines[i-1].id

verified == lines # <<>> /\ \A i \in 1..Len(lines) : linked(i)

-----------------------------------------------------------------------------
(* Properties *)

\* Threads of one process that append at the same time, a termination and a
\* half-way write included, leave a chain: each line links to the one before,
\* and only the last can be one that verify does not parse.
ChainLinked == \A i \in 1..Len(lines) : linked(i) \/ (i = Len(lines) /\ lines[i] = Torn)

\* A log that verify accepts holds every entry whose hash append returned:
\* nothing is lost unnoticed, whatever processes and half-way writes did.
VerifiedCoversAcked ==
  verified => \A e \in acked : \E i \in 1..Len(lines) : lines[i] # Torn /\ lines[i].id = e

\* An ended line of the log is never changed and never removed.
EndedLinesKept ==
  [][\A i \in 1..Len(lines) : i < Len(lines) \/ ~open => i <= Len(lines') /\ lines'[i] = lines[i]]_vars
=============================================================================
