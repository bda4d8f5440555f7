----------------------------- MODULE PortalProofs -----------------------------
(***************************************************************************)
(* Proofs about the audit log, for every set of threads and processes, and *)
(* about the download portal, whose handlers append to it as AuditChain    *)
(* says threads do: what holds of the log holds of it in the portal's      *)
(* behaviours; and its own bounds on downloads, codes and requests.        *)
(***************************************************************************)
EXTENDS Portal, FiniteSets, FiniteSetTheorems, SequenceTheorems, WellFoundedInduction, TLAPS

-----------------------------------------------------------------------------
(* The audit log alone: its specification is that of AuditChain.           *)

\* A line without an end is there, and so is what a thread says it wrote.
TypeInv ==
  /\ TypeOK
  /\ open => lines # <<>>
  /\ \A t \in Threads : pc[t] = "written" => wrote[t] \in Ids

LEMMA FinalHashType ==
  ASSUME TypeOK, readable
  PROVE  final_hash \in Ids \cup {None}
<1>1. CASE lines = <<>>
  BY <1>1 DEF final_hash
<1>2. CASE lines # <<>>
  <2>1. Len(lines) \in 1..Len(lines)
    BY <1>2 DEF TypeOK
  <2>2. final_line \in Entry
    BY <1>2, <2>1 DEF TypeOK, final_line, readable
  <2>3. QED BY <1>2, <2>2 DEF final_hash, Entry
<1>3. QED BY <1>1, <1>2

\* The file after a write: one line more, or a torn last line.
LEMMA AppendedType ==
  ASSUME TypeInv, NEW line \in Entry \cup {Torn}
  PROVE  /\ appended(line) \in Seq(Entry \cup {Torn})
         /\ appended(line) # <<>>
         /\ open => /\ Len(appended(line)) = Len(lines)
                    /\ appended(line)[Len(lines)] = Torn
         /\ ~open => /\ Len(appended(line)) = Len(lines) + 1
                     /\ appended(line)[Len(lines) + 1] = line
         /\ \A i \in 1..Len(lines) : i < Len(lines) \/ ~open => appended(line)[i] = lines[i]
<1> USE DEF TypeInv, TypeOK
<1>1. CASE open
  <2>1. lines # <<>> /\ Len(lines) \in 1..Len(lines)
    BY <1>1
  <2>2. appended(line) = [lines EXCEPT ![Len(lines)] = Torn]
    BY <1>1 DEF appended, joined
  <2>3. appended(line) \in Seq(Entry \cup {Torn}) /\ Len(appended(line)) = Len(lines)
    BY <2>1, <2>2
  <2>4. \A i \in 1..Len(lines) : appended(line)[i] = IF i = Len(lines) THEN Torn ELSE lines[i]
    BY <2>1, <2>2
  <2>5. appended(line) # <<>>
    BY <2>1, <2>3
  <2>6. QED BY <1>1, <2>1, <2>3, <2>4, <2>5
<1>2. CASE ~open
  BY <1>2 DEF appended
<1>3. QED BY <1>1, <1>2

LEMMA TypeInit == Init => TypeInv
<1> SUFFICES ASSUME Init PROVE TypeInv
  OBVIOUS
<1>1. lines \in Seq(Entry \cup {Torn})
  BY DEF Init
<1>2. open \in BOOLEAN /\ (open => lines # <<>>)
  BY DEF Init
<1>3. fresh \in 1..(MaxEntries + 1) /\ faults \in 0..MaxFaults
  BY AuditAssumption DEF Init
<1>4. QED BY <1>1, <1>2, <1>3 DEF Init, TypeInv, TypeOK

LEMMA TypeNext == TypeInv /\ [Next]_vars => TypeInv'
<1> SUFFICES ASSUME TypeInv, [Next]_vars PROVE TypeInv'
  OBVIOUS
<1> USE AuditAssumption DEF Goto, Unlock
<1>1. ASSUME NEW t \in Threads, Lock(t) PROVE TypeInv'
  BY <1>1 DEF Lock, TypeInv, TypeOK
<1>2. ASSUME NEW t \in Threads, ReadFinalHash(t) PROVE TypeInv'
  BY <1>2, FinalHashType DEF ReadFinalHash, TypeInv, TypeOK
<1>3. ASSUME NEW t \in Threads, AppendRaises(t) PROVE TypeInv'
  BY <1>3 DEF AppendRaises, TypeInv, TypeOK
<1>4. ASSUME NEW t \in Threads, Write(t) PROVE TypeInv'
  <2>1. fresh \in Ids /\ [id |-> fresh, prev |-> link[t]] \in Entry
    BY <1>4 DEF Write, TypeInv, TypeOK, Ids, Entry
  <2>2. lines' \in Seq(Entry \cup {Torn}) /\ lines' # <<>>
    BY <1>4, <2>1, AppendedType DEF Write
  <2>3. fresh' \in 1..(MaxEntries + 1) /\ open' = FALSE
    BY <1>4, <2>1 DEF Write, Ids
  <2>4. wrote' \in [Threads -> Ids \cup {None}] /\ \A u \in Threads : pc'[u] = "written" => wrote'[u] \in Ids
    BY <1>4, <2>1 DEF Write, TypeInv, TypeOK
  <2>5. QED BY <1>4, <2>2, <2>3, <2>4 DEF Write, TypeInv, TypeOK
<1>5. ASSUME NEW t \in Threads, WriteFails(t) PROVE TypeInv'
  <2>1. fresh \in Ids /\ [id |-> fresh, prev |-> link[t]] \in Entry
    BY <1>5 DEF WriteFails, TypeInv, TypeOK, Ids, Entry
  <2>2. lines' \in Seq(Entry \cup {Torn}) /\ lines' # <<>>
    BY <1>5, <2>1, AppendedType DEF WriteFails
  <2>3. QED BY <1>5, <2>1, <2>2 DEF WriteFails, TypeInv, TypeOK, Ids
<1>6. ASSUME NEW t \in Threads, Return(t) PROVE TypeInv'
  <2>1. QED BY <1>6 DEF Return, TypeInv, TypeOK
<1>7. ASSUME NEW p \in Processes, Kill(p) PROVE TypeInv'
  BY <1>7 DEF Kill, TypeInv, TypeOK
<1>8. CASE UNCHANGED vars
  BY <1>8 DEF vars, TypeInv, TypeOK
<1>9. QED BY <1>1, <1>2, <1>3, <1>4, <1>5, <1>6, <1>7, <1>8 DEF Next, Thread

\* Every variable keeps its type: hashes are those of entries, and a hash that
\* append returns is one of an entry that was written.
THEOREM AuditTypeCorrect == Spec => []TypeOK
<1>1. TypeInv => TypeOK
  BY DEF TypeInv
<1>2. QED BY TypeInit, TypeNext, <1>1, PTL DEF Spec

-----------------------------------------------------------------------------
\* What a write does to the file.
LEMMA WriteLines ==
  ASSUME TypeInv, NEW t \in Threads, Write(t) \/ WriteFails(t)
  PROVE  \E line \in Entry \cup {Torn} : lines' = appended(line)
<1>1. [id |-> fresh, prev |-> link[t]] \in Entry
  BY DEF Write, WriteFails, TypeInv, TypeOK, Ids, Entry
<1>2. QED BY <1>1 DEF Write, WriteFails

\* The other steps leave the file alone.
LEMMA OtherLines ==
  ASSUME [Next]_vars, ~\E t \in Threads : Write(t) \/ WriteFails(t)
  PROVE  lines' = lines /\ open' = open
BY DEF Next, Thread, Lock, ReadFinalHash, AppendRaises, Return, Kill, vars

KeepsEnded == \A i \in 1..Len(lines) :
  i < Len(lines) \/ ~open => i <= Len(lines') /\ lines'[i] = lines[i]

LEMMA StepKeepsEnded == TypeInv /\ [Next]_vars => KeepsEnded
<1> SUFFICES ASSUME TypeInv, [Next]_vars PROVE KeepsEnded
  OBVIOUS
<1>1. CASE \E t \in Threads : Write(t) \/ WriteFails(t)
  <2>1. PICK line \in Entry \cup {Torn} : lines' = appended(line)
    BY <1>1, WriteLines
  <2>2. Len(lines) \in Nat
    BY DEF TypeInv, TypeOK
  <2>3. Len(lines) <= Len(lines')
    BY <2>1, <2>2, AppendedType DEF TypeInv, TypeOK
  <2>4. \A i \in 1..Len(lines) : i < Len(lines) \/ ~open => lines'[i] = lines[i]
    BY <2>1, AppendedType
  <2>5. \A i \in 1..Len(lines) : i <= Len(lines')
    <3>1. Len(lines') \in Nat
      BY <2>1, AppendedType
    <3>2. QED BY <2>2, <2>3, <3>1
  <2>6. QED BY <2>4, <2>5 DEF KeepsEnded
<1>2. CASE ~\E t \in Threads : Write(t) \/ WriteFails(t)
  <2>1. lines' = lines
    BY <1>2, OtherLines
  <2>2. Len(lines) \in Nat
    BY DEF TypeInv, TypeOK
  <2>3. QED BY <2>1, <2>2 DEF KeepsEnded
<1>3. QED BY <1>1, <1>2

\* No step of any thread or process, and no interrupted write, changes or
\* removes an ended line of the log.
THEOREM EndedLinesKeptAlways == Spec => EndedLinesKept
<1>1. Spec => []TypeInv
  BY TypeInit, TypeNext, PTL DEF Spec
<1>2. Spec => [][KeepsEnded]_vars
  BY <1>1, StepKeepsEnded, PTL DEF Spec
<1>3. QED BY <1>2 DEF EndedLinesKept, KeepsEnded
-----------------------------------------------------------------------------
(* What a verified log covers *)

InLog(e) == \E i \in 1..Len(lines) : lines[i] # Torn /\ lines[i].id = e
HasTorn == \E i \in 1..Len(lines) : lines[i] = Torn

\* Unless a line is torn, each entry that was written is still in the log.
CoverInv ==
  /\ TypeInv
  /\ HasTorn \/ /\ \A e \in acked : InLog(e)
                /\ \A t \in Threads : pc[t] = "written" => InLog(wrote[t])

LEMMA CoverNext == CoverInv /\ [Next]_vars => CoverInv'
<1> SUFFICES ASSUME CoverInv, [Next]_vars PROVE CoverInv'
  OBVIOUS
<1>t. TypeInv /\ TypeInv'
  BY TypeNext DEF CoverInv
<1>n. Len(lines) \in Nat
  BY <1>t DEF TypeInv, TypeOK
<1>1. CASE \E t \in Threads : Write(t) \/ WriteFails(t)
  <2>1. PICK t \in Threads : Write(t) \/ WriteFails(t)
    BY <1>1
  <2>2. PICK line \in Entry \cup {Torn} : lines' = appended(line)
    BY <2>1, <1>t, WriteLines
  <2>3. CASE open
    <3>1. Len(lines) \in 1..Len(lines') /\ lines'[Len(lines)] = Torn
      BY <2>2, <2>3, <1>t, <1>n, AppendedType DEF TypeInv, TypeOK
    <3>2. HasTorn'
      BY <3>1 DEF HasTorn
    <3>3. QED BY <1>t, <3>2 DEF CoverInv
  <2>4. CASE ~open
    <3>1. Len(lines') = Len(lines) + 1 /\ \A i \in 1..Len(lines) : lines'[i] = lines[i]
      BY <2>2, <2>4, <1>t, AppendedType
    <3>2. HasTorn => HasTorn'
      BY <3>1, <1>n DEF HasTorn
    <3>3. \A e \in Ids : InLog(e) => InLog(e)'
      BY <3>1, <1>n DEF InLog
    <3>4. CASE WriteFails(t)
      <4>1. \A u \in Threads : pc'[u] = "written" => pc[u] = "written" /\ wrote'[u] = wrote[u]
        BY <3>4, <1>t DEF WriteFails, Goto, TypeInv, TypeOK
      <4>2. acked' = acked
        BY <3>4 DEF WriteFails
      <4>3. acked \subseteq Ids /\ \A u \in Threads : pc[u] = "written" => wrote[u] \in Ids
        BY <1>t DEF TypeInv, TypeOK
      <4>4. (\A e \in acked : InLog(e)) => (\A e \in acked' : InLog(e)')
        BY <3>3, <4>2, <4>3
      <4>5. (\A u \in Threads : pc[u] = "written" => InLog(wrote[u]))
              => (\A u \in Threads : pc'[u] = "written" => InLog(wrote[u])')
        <5>1. SUFFICES ASSUME NEW u \in Threads, pc'[u] = "written", pc[u] = "written" => InLog(wrote[u])
                       PROVE  InLog(wrote[u])'
          OBVIOUS
        <5>2. InLog(wrote[u]) /\ wrote[u] \in Ids /\ wrote'[u] = wrote[u]
          BY <5>1, <4>1, <4>3
        <5>3. QED BY <5>2, <3>1, <1>n DEF InLog
      <4>6. QED BY <1>t, <3>2, <4>4, <4>5 DEF CoverInv
    <3>5. CASE Write(t)
      <4>1. \A u \in Threads \ {t} : pc'[u] = pc[u] /\ wrote'[u] = wrote[u]
        BY <3>5, <1>t DEF Write, Goto, TypeInv, TypeOK
      <4>2. acked' = acked /\ wrote'[t] = fresh
        BY <3>5, <1>t DEF Write, TypeInv, TypeOK
      <4>3. acked \subseteq Ids /\ \A u \in Threads : pc[u] = "written" => wrote[u] \in Ids
        BY <1>t DEF TypeInv, TypeOK
      <4>4. (\A e \in acked : InLog(e)) => (\A e \in acked' : InLog(e)')
        BY <3>3, <4>2, <4>3
      <4>5. InLog(wrote[t])'
        <5> DEFINE entry == [id |-> fresh, prev |-> link[t]]
        <5>1. entry \in Entry /\ entry.id = fresh
          BY <3>5, <1>t DEF Write, TypeInv, TypeOK, Ids, Entry
        <5>2. lines' = appended(entry)
          BY <3>5 DEF Write
        <5>3. lines'[Len(lines) + 1] = entry
          BY <5>1, <5>2, <2>4, <1>t, AppendedType
        <5>4. entry # Torn
          BY <5>1, AuditAssumption DEF Entry, Ids
        <5>5. Len(lines) + 1 \in 1..Len(lines')
          BY <3>1, <1>n
        <5> HIDE DEF entry
        <5>6. QED BY <5>1, <5>3, <5>4, <5>5, <4>2 DEF InLog
      <4>6. (\A u \in Threads : pc[u] = "written" => InLog(wrote[u]))
              => (\A u \in Threads : pc'[u] = "written" => InLog(wrote[u])')
        <5>1. SUFFICES ASSUME NEW u \in Threads, u # t, pc'[u] = "written",
                              pc[u] = "written" => InLog(wrote[u])
                       PROVE  InLog(wrote[u])'
          BY <4>5
        <5>2. InLog(wrote[u]) /\ wrote'[u] = wrote[u]
          BY <5>1, <4>1
        <5>3. QED BY <5>2, <3>1, <1>n DEF InLog
      <4>7. QED BY <1>t, <3>2, <4>4, <4>6 DEF CoverInv
    <3>6. QED BY <2>1, <3>4, <3>5
  <2>5. QED BY <2>3, <2>4
<1>2. CASE ~\E t \in Threads : Write(t) \/ WriteFails(t)
  <2>1. lines' = lines
    BY <1>2, OtherLines
  <2>2. \A u \in Threads : pc'[u] = "written" => pc[u] = "written" /\ wrote'[u] = wrote[u]
    BY <1>2, <1>t DEF Next, Thread, Lock, ReadFinalHash, AppendRaises, Return, Kill, vars, Goto,
                      TypeInv, TypeOK
  <2>3. acked' = acked \/ \E t \in Threads : pc[t] = "written" /\ acked' = acked \cup {wrote[t]}
    BY <1>2 DEF Next, Thread, Lock, ReadFinalHash, AppendRaises, Return, Kill, vars
  <2>4. QED BY <1>t, <2>1, <2>2, <2>3 DEF CoverInv, HasTorn, InLog
<1>3. QED BY <1>1, <1>2

\* A log that verify accepts holds every entry that append acknowledged, for
\* any number of threads and processes and any interrupted writes.
THEOREM VerifiedCoversAckedAlways == Spec => []VerifiedCoversAcked
<1>1. Init => CoverInv
  BY TypeInit DEF Init, CoverInv
<1>2. CoverInv => VerifiedCoversAcked
  BY DEF CoverInv, VerifiedCoversAcked, verified, linked, HasTorn, InLog
<1>3. QED BY <1>1, <1>2, CoverNext, PTL DEF Spec

-----------------------------------------------------------------------------
(* Concurrent appends of one process *)

\* The thread inside append holds the lock; what it read is still final.
ChainInv ==
  /\ TypeInv
  /\ \A t \in Threads : pc[t] # "idle" => lock[Home[t]] = t
  /\ \A t \in Threads : pc[t] = "linked" => readable /\ link[t] = final_hash
  /\ ChainLinked

LEMMA ChainNext ==
  ASSUME \A s, t \in Threads : Home[s] = Home[t]
  PROVE  ChainInv /\ [Next]_vars => ChainInv'
<1> SUFFICES ASSUME ChainInv, [Next]_vars PROVE ChainInv'
  OBVIOUS
<1>t. TypeInv /\ TypeInv'
  BY TypeNext DEF ChainInv
<1>h. \A s, t \in Threads : Home[s] = Home[t] /\ Home[s] \in Processes
  BY AuditAssumption
<1>1. ASSUME NEW t \in Threads, Write(t) \/ WriteFails(t) PROVE ChainInv'
  <2> DEFINE entry == [id |-> fresh, prev |-> link[t]]
  <2>1. entry \in Entry /\ entry.prev = link[t] /\ entry # Torn
    <3>1. entry \in Entry
      BY <1>1, <1>t DEF Write, WriteFails, TypeInv, TypeOK, Ids, Entry
    <3>2. QED BY <3>1, AuditAssumption DEF Entry, Ids
  <2>2. PICK line \in {Torn, entry} : lines' = appended(line)
    BY <1>1 DEF Write, WriteFails
  <2> HIDE DEF entry
  <2>3. line \in Entry \cup {Torn} /\ Len(lines) \in Nat
    BY <2>1, <2>2, <1>t DEF TypeInv, TypeOK
  <2>4. pc[t] = "linked" /\ readable /\ link[t] = final_hash
    BY <1>1 DEF Write, WriteFails, ChainInv
  <2>5. \A u \in Threads : u # t => pc[u] = "idle"
    BY <1>1, <1>h DEF Write, WriteFails, ChainInv
  <2>6. \A u \in Threads : pc'[u] # "linked" /\ (pc'[u] # "idle" => lock'[Home[u]] = u)
    <3>1. CASE Write(t)
      BY <3>1, <2>5, <1>t DEF Write, Goto, ChainInv, TypeInv, TypeOK
    <3>2. CASE WriteFails(t)
      BY <3>2, <2>5, <1>t DEF WriteFails, Goto, ChainInv, TypeInv, TypeOK
    <3>3. QED BY <1>1, <3>1, <3>2
  <2>7. \A i \in 1..Len(lines) : i < Len(lines) \/ ~open => linked(i)'
    <3>1. SUFFICES ASSUME NEW i \in 1..Len(lines), i < Len(lines) \/ ~open PROVE linked(i)'
      OBVIOUS
    <3>2. \A j \in 1..Len(lines) : j < Len(lines) \/ ~open => lines'[j] = lines[j]
      BY <2>2, <2>3, <1>t, AppendedType
    <3>3. lines'[i] = lines[i] /\ (i # 1 => lines'[i-1] = lines[i-1])
      BY <2>3, <3>1, <3>2
    <3>4. linked(i)
      <4>1. lines # <<>> => lines[Len(lines)] # Torn
        BY <2>4 DEF readable, final_line
      <4>2. lines # <<>>
        BY <1>t DEF TypeInv, TypeOK
      <4>3. QED BY <3>1, <4>1, <4>2 DEF ChainInv, ChainLinked
    <3>5. QED BY <3>3, <3>4 DEF linked
  <2>8. CASE open
    <3>1. Len(lines') = Len(lines) /\ lines'[Len(lines)] = Torn
      BY <2>2, <2>3, <2>8, <1>t, AppendedType
    <3>2. ChainLinked'
      BY <2>3, <2>7, <3>1 DEF ChainLinked
    <3>3. QED BY <1>t, <2>6, <3>2 DEF ChainInv
  <2>9. CASE ~open
    <3>1. /\ Len(lines') = Len(lines) + 1
          /\ lines'[Len(lines) + 1] = line
          /\ \A i \in 1..Len(lines) : lines'[i] = lines[i]
      BY <2>2, <2>3, <2>9, <1>t, AppendedType
    <3>2. \A i \in Nat : i = Len(lines) + 1 => linked(i)' \/ lines'[i] = Torn
      <4>1. SUFFICES ASSUME NEW i \in Nat, i = Len(lines) + 1, line = entry PROVE linked(i)'
        BY <2>2, <3>1
      <4>2. lines'[i] # Torn /\ lines'[i].prev = link[t]
        BY <4>1, <2>1, <3>1
      <4>3. CASE lines = <<>>
        <5>1. i = 1 /\ link[t] = None
          BY <4>1, <4>3, <2>4 DEF final_hash
        <5>2. QED BY <5>1, <4>2 DEF linked
      <4>4. CASE lines # <<>>
        <5>1. i # 1 /\ i - 1 = Len(lines) /\ i - 1 \in 1..Len(lines)
          BY <4>1, <4>4, <2>3, <1>t DEF TypeInv, TypeOK
        <5>2. link[t] = lines[i-1].id
          BY <4>4, <5>1, <2>4 DEF final_hash, final_line
        <5>3. lines'[i-1] = lines[i-1]
          BY <5>1, <3>1
        <5>4. QED BY <5>1, <5>2, <5>3, <4>2 DEF linked
      <4>5. QED BY <4>3, <4>4
    <3>3. ChainLinked'
      <4>1. SUFFICES ASSUME NEW i \in 1..Len(lines')
                     PROVE  linked(i)' \/ (i = Len(lines') /\ lines'[i] = Torn)
        BY DEF ChainLinked
      <4>2. i \in Nat /\ (i \in 1..Len(lines) \/ i = Len(lines) + 1)
        BY <2>3, <3>1
      <4>3. QED BY <4>2, <3>1, <3>2, <2>7, <2>9
    <3>4. QED BY <1>t, <2>6, <3>3 DEF ChainInv
  <2>10. QED BY <2>8, <2>9
<1>2. CASE ~\E t \in Threads : Write(t) \/ WriteFails(t)
  <2>1. lines' = lines /\ open' = open
    BY <1>2, OtherLines
  <2>2. ChainLinked'
    BY <2>1 DEF ChainInv, ChainLinked, linked
  <2>3. final_hash' = final_hash /\ (readable => readable')
    BY <2>1 DEF final_hash, final_line, readable
  <2>4. (\A t \in Threads : pc[t] # "idle" => lock[Home[t]] = t)'
    <3>1. ASSUME NEW t \in Threads, Lock(t) PROVE \A u \in Threads : pc'[u] # "idle" => lock'[Home[u]] = u
      <4>1. \A u \in Threads : pc[u] = "idle"
        BY <3>1, <1>h, AuditAssumption DEF Lock, path_lock, ChainInv
      <4>2. QED BY <3>1, <4>1, <1>h, <1>t DEF Lock, Goto, TypeInv, TypeOK
    <3>2. ASSUME NEW t \in Threads, ReadFinalHash(t) PROVE \A u \in Threads : pc'[u] # "idle" => lock'[Home[u]] = u
      BY <3>2, <1>t DEF ReadFinalHash, Goto, ChainInv, TypeInv, TypeOK
    <3>3. ASSUME NEW t \in Threads, AppendRaises(t) \/ Return(t)
          PROVE \A u \in Threads : pc'[u] # "idle" => lock'[Home[u]] = u
      <4>1. \A u \in Threads : u # t => pc[u] = "idle"
        BY <3>3, <1>h DEF AppendRaises, Return, ChainInv
      <4>2. QED BY <3>3, <4>1, <1>t DEF AppendRaises, Return, Goto, TypeInv, TypeOK
    <3>4. ASSUME NEW p \in Processes, Kill(p) PROVE \A u \in Threads : pc'[u] # "idle" => lock'[Home[u]] = u
      BY <3>4, <1>t, <1>h DEF Kill, ChainInv, TypeInv, TypeOK
    <3>5. CASE UNCHANGED vars
      BY <3>5 DEF vars, ChainInv
    <3>6. QED BY <1>2, <3>1, <3>2, <3>3, <3>4, <3>5 DEF Next, Thread
  <2>5. \A t \in Threads : pc'[t] = "linked" =>
           \/ pc[t] = "linked" /\ link'[t] = link[t]
           \/ readable /\ link'[t] = final_hash
    BY <1>2, <1>t DEF Next, Thread, Lock, ReadFinalHash, AppendRaises, Return, Kill, vars, Goto,
                            TypeInv, TypeOK
  <2>6. QED BY <1>t, <2>1, <2>2, <2>3, <2>4, <2>5 DEF ChainInv
<1>3. QED BY <1>1, <1>2

\* Any number of threads of one process leave a chain of which only the last
\* line can be damaged, at every moment and through terminations and writes
\* that end half-way.
THEOREM ChainLinkedAlways ==
  ASSUME \A s, t \in Threads : Home[s] = Home[t]
  PROVE  Spec => []ChainLinked
<1>1. Init => ChainInv
  <2>1. Init => ChainLinked
    BY DEF Init, ChainLinked
  <2>2. QED BY <2>1, TypeInit DEF Init, ChainInv
<1>2. ChainInv => ChainLinked
  BY DEF ChainInv
<1>3. ChainInv /\ [Next]_vars => ChainInv'
  BY ChainNext
<1>4. QED BY <1>1, <1>2, <1>3, PTL DEF Spec

-----------------------------------------------------------------------------
(* The portal: its variables are those of the log and its own.             *)

\* A step of the portal, of a handler or of the assessor, is a step of the audit log or
\* leaves it alone.
LEMMA PortalStep ==
  ASSUME [PortalNext]_allVars
  PROVE  [Next]_vars
<1>1. CASE UNCHANGED allVars
  BY <1>1 DEF allVars
<1>2. ASSUME NEW t \in Threads, Handle(t)
      PROVE  [Next]_vars
  <2>1. CASE AppendEntry(t)
    BY <2>1 DEF AppendEntry, Next, Thread
  <2>2. CASE ~AppendEntry(t)
    BY <1>2, <2>2 DEF Handle, Get, Post, Allow, AuthorizeLauncher, RecordFailure,
                      AuthorizeSession, RecordDownload, CountNotStored, DownloadRaises
  <2>3. QED BY <2>1, <2>2
<1>3. CASE Crash
  BY <1>3 DEF Crash, Next
<1>4. CASE Start \/ Listen \/ Pause \/ ReadStatus \/ WriteStatus \/ Tick
  BY <1>4 DEF Start, Listen, Pause, ReadStatus, WriteStatus, Tick
<1>5. CASE \E enabled \in BOOLEAN : Configure(enabled)
  BY <1>5 DEF Configure
<1>6. QED BY <1>1, <1>2, <1>3, <1>4, <1>5 DEF PortalNext

\* The portal implements the audit log: its handlers append under the log's protocol,
\* however they are paused, restarted and interrupted.
THEOREM PortalImplementsAudit == PortalSpec => Spec
<1>1. PortalInit => Init
  BY DEF PortalInit
<1>2. [PortalNext]_allVars => [Next]_vars
  BY PortalStep
<1>3. QED BY <1>1, <1>2, PTL DEF PortalSpec, Spec
\* So a log that verify accepts holds every entry a handler was told of, whatever the
\* portal's listeners went through, and the entries of one process form a chain.
THEOREM PortalLogHolds ==
  ASSUME \A s, t \in Threads : Home[s] = Home[t]
  PROVE  PortalSpec => [](VerifiedCoversAcked /\ ChainLinked)
<1>1. Spec => []ChainLinked
  BY ChainLinkedAlways
<1>2. QED BY <1>1, PortalImplementsAudit, VerifiedCoversAckedAlways, PTL
-----------------------------------------------------------------------------
(* The download count. *)

Labels == {"idle", "limited", "launcher", "failed", "session", "counted", "append"}
Handler == [at : Labels, listener : Nat, kind : {None, "portal", "launcher"}, right : BOOLEAN, now : Nat]

\* What the bound needs to know of a binding; its deques are left open.
IsBinding(b) ==
  b \in [count : 0..MaximumDownloads, policy : {b.policy}, failures : {b.failures},
         blocked : {b.blocked}, values : {b.values}, granted : {b.granted}]

BindingsOK ==
  /\ \E S : binding \in Seq(S)
  /\ \A l \in 1..Len(binding) : IsBinding(binding[l])

HandlersOK ==
  /\ handler \in [Threads -> Handler]
  /\ \A t \in Threads : handler[t].at # "idle" => handler[t].listener \in 1..Len(binding)

\* A count never exceeds the budget, in memory, in the file or on its way between them.
CountsOK ==
  /\ BindingsOK /\ HandlersOK
  /\ clock \in Nat
  /\ stored \in (0..MaximumDownloads) \cup {None}
  /\ copy \in 0..MaximumDownloads
  /\ assessor \in {"idle", "bind", "read", "write"}
  /\ listening \in BOOLEAN /\ (listening => Len(binding) > 0)
  /\ served \in Nat /\ overlapped \in Nat /\ stray \in BOOLEAN

\* Downloads that were counted and whose answer waits for the log.
Waiting == {t \in Threads : handler[t].at = "append" /\ handler[t].right}
Given == served + Cardinality(Waiting)

\* Every place the count can next be taken from accounts for what was given, save for
\* what was counted while the file was rewritten.
CountsCover ==
  ~stray =>
    /\ Given <= loaded + overlapped
    /\ Len(binding) > 0 => Given <= binding[Len(binding)].count + overlapped
    /\ assessor \in {"bind", "write"} => Given <= copy + overlapped

CountInv == CountsOK /\ CountsCover

LEMMA BindingUpdates ==
  ASSUME NEW b, IsBinding(b), NEW x, NEW y
  PROVE  /\ IsBinding([b EXCEPT !.failures = x, !.blocked = y])
         /\ [b EXCEPT !.failures = x, !.blocked = y].count = b.count
         /\ IsBinding([b EXCEPT !.values = x, !.granted = y])
         /\ [b EXCEPT !.values = x, !.granted = y].count = b.count
         /\ IsBinding([b EXCEPT !.policy = x]) /\ [b EXCEPT !.policy = x].count = b.count
  BY DEF IsBinding

LEMMA CountUpdate ==
  ASSUME NEW b, IsBinding(b), NEW n \in 0..MaximumDownloads
  PROVE  IsBinding([b EXCEPT !.count = n]) /\ [b EXCEPT !.count = n].count = n
  BY DEF IsBinding

\* One binding is replaced by another.
LEMMA BindOK ==
  ASSUME BindingsOK, NEW l \in 1..Len(binding), NEW b, IsBinding(b), Bind(l, b)
  PROVE  /\ BindingsOK' /\ Len(binding') = Len(binding)
         /\ binding'[l] = b /\ \A i \in 1..Len(binding) : i # l => binding'[i] = binding[i]
<1>1. PICK S : binding \in Seq(S)
  BY DEF BindingsOK
<1>2. binding \in Seq(S \cup {b}) /\ b \in S \cup {b}
  BY <1>1
<1>3. /\ binding' \in Seq(S \cup {b}) /\ Len(binding') = Len(binding)
      /\ \A i \in 1..Len(binding) : binding'[i] = IF i = l THEN b ELSE binding[i]
  BY <1>2, ExceptSeq DEF Bind
<1> QED BY <1>3 DEF BindingsOK

\* A thread that is not waiting for its answer, or no longer.
LEMMA WaitingLess ==
  ASSUME HandlersOK, IsFiniteSet(Threads), NEW t \in Threads, NEW h,
         Become(t, h), ~(h.at = "append" /\ h.right)
  PROVE  /\ Cardinality(Waiting) \in Nat /\ Cardinality(Waiting') \in Nat
         /\ Cardinality(Waiting') = Cardinality(Waiting) - (IF t \in Waiting THEN 1 ELSE 0)
<1>1. Waiting' = Waiting \ {t}
  BY DEF Waiting, Become, HandlersOK
<1>2. IsFiniteSet(Waiting)
  BY FS_Subset DEF Waiting
<1> QED BY <1>1, <1>2, FS_RemoveElement, FS_CardinalityType

LEMMA WaitingMore ==
  ASSUME HandlersOK, IsFiniteSet(Threads), NEW t \in Threads, NEW h,
         Become(t, h), h.at = "append", h.right, handler[t].at # "append"
  PROVE  /\ Cardinality(Waiting) \in Nat /\ Cardinality(Waiting') \in Nat
         /\ Cardinality(Waiting') = Cardinality(Waiting) + 1
<1>1. Waiting' = Waiting \cup {t} /\ t \notin Waiting
  BY DEF Waiting, Become, HandlersOK
<1>2. IsFiniteSet(Waiting)
  BY FS_Subset DEF Waiting
<1> QED BY <1>1, <1>2, FS_AddElement, FS_CardinalityType

LEMMA GivenNat ==
  CountsOK /\ IsFiniteSet(Threads) => Given \in Nat /\ Cardinality(Waiting) \in Nat
<1>1. ASSUME IsFiniteSet(Threads)
      PROVE  IsFiniteSet(Waiting)
  BY <1>1, FS_Subset DEF Waiting
<1> QED BY <1>1, FS_CardinalityType DEF Given, CountsOK

\* Nothing more is given and no count falls.
LEMMA CoverFrame ==
  ASSUME CountsOK, CountsOK', CountsCover, IsFiniteSet(Threads),
         Given' \in Nat, Given' <= Given,
         Len(binding') = Len(binding),
         \A l \in 1..Len(binding) : binding'[l].count >= binding[l].count,
         UNCHANGED <<stored, copy, overlapped, stray>>,
         assessor' \in {"bind", "write"} => assessor \in {"bind", "write"}
  PROVE  CountsCover'
<1>1. Given \in Nat /\ Given' \in Nat
  BY GivenNat
<1>2. loaded' = loaded /\ loaded \in Nat /\ overlapped \in Nat /\ copy \in Nat
  BY PortalAssumption DEF loaded, CountsOK
<1>3. ASSUME Len(binding) > 0
      PROVE  /\ binding[Len(binding)].count \in Nat /\ binding'[Len(binding)].count \in Nat
             /\ binding'[Len(binding)].count >= binding[Len(binding)].count
  <2>1. Len(binding) \in 1..Len(binding)
    BY <1>3 DEF CountsOK, BindingsOK
  <2>2. IsBinding(binding[Len(binding)]) /\ IsBinding(binding'[Len(binding)])
    BY <2>1 DEF CountsOK, BindingsOK
  <2> QED BY <2>1, <2>2 DEF IsBinding
<1> HIDE DEF Given
<1>4. SUFFICES ASSUME ~stray
      PROVE  /\ Given' <= loaded + overlapped
             /\ Len(binding) > 0 => Given' <= binding'[Len(binding)].count + overlapped
             /\ assessor' \in {"bind", "write"} => Given' <= copy + overlapped
  BY <1>2 DEF CountsCover
<1>5. /\ Given <= loaded + overlapped
      /\ Len(binding) > 0 => Given <= binding[Len(binding)].count + overlapped
      /\ assessor \in {"bind", "write"} => Given <= copy + overlapped
  BY <1>4 DEF CountsCover
<1> QED BY <1>1, <1>2, <1>3, <1>5

\* A handler goes on, and is not one that waits to answer a download.
LEMMA QuietHandler ==
  ASSUME CountsOK, CountsCover, IsFiniteSet(Threads),
         NEW t \in Threads, NEW h \in Handler, Become(t, h), ~(h.at = "append" /\ h.right),
         h.at # "idle" => h.listener \in 1..Len(binding),
         BindingsOK', Len(binding') = Len(binding),
         \A l \in 1..Len(binding) : binding'[l].count >= binding[l].count,
         UNCHANGED <<clock, stored, copy, overlapped, stray, assessor, listening, served>>
  PROVE  CountsOK' /\ CountsCover'
<1>1. HandlersOK'
  BY DEF CountsOK, HandlersOK, Become
<1>2. CountsOK'
  BY <1>1 DEF CountsOK
<1>3. Given' \in Nat /\ Given' <= Given
  BY WaitingLess DEF Given, CountsOK
<1> QED BY <1>2, <1>3, CoverFrame

LEMMA SameBinding ==
  ASSUME CountsOK, UNCHANGED binding
  PROVE  /\ BindingsOK' /\ Len(binding') = Len(binding)
         /\ \A l \in 1..Len(binding) : binding'[l].count >= binding[l].count
<1>1. \A l \in 1..Len(binding) : binding[l].count \in Nat
  BY DEF CountsOK, BindingsOK, IsBinding
<1> QED BY <1>1 DEF CountsOK, BindingsOK

LEMMA MineOK ==
  ASSUME CountsOK, NEW t \in Threads, ~At(t, "idle")
  PROVE  /\ handler[t] \in Handler /\ handler[t].listener \in 1..Len(binding)
         /\ IsBinding(mine(t)) /\ mine(t).count \in 0..MaximumDownloads
<1>1. handler[t] \in Handler /\ handler[t].listener \in 1..Len(binding)
  BY DEF CountsOK, HandlersOK, At
<1>2. IsBinding(mine(t))
  BY <1>1 DEF CountsOK, BindingsOK, mine
<1> QED BY <1>1, <1>2 DEF IsBinding

\* A handler replaces its binding by one that counts as much or more.
LEMMA MineReplaced ==
  ASSUME CountsOK, NEW t \in Threads, ~At(t, "idle"), NEW b, IsBinding(b),
         Bind(handler[t].listener, b), b.count >= mine(t).count
  PROVE  /\ BindingsOK' /\ Len(binding') = Len(binding)
         /\ \A l \in 1..Len(binding) : binding'[l].count >= binding[l].count
<1>1. BindingsOK /\ handler[t].listener \in 1..Len(binding)
  BY MineOK DEF CountsOK
<1>2. /\ BindingsOK' /\ Len(binding') = Len(binding) /\ binding'[handler[t].listener] = b
      /\ \A i \in 1..Len(binding) : i # handler[t].listener => binding'[i] = binding[i]
  BY <1>1, BindOK
<1>3. \A l \in 1..Len(binding) : binding[l].count \in Nat
  BY DEF CountsOK, BindingsOK, IsBinding
<1> QED BY <1>1, <1>2, <1>3 DEF mine

LEMMA IdleHandler ==
  Idle \in Handler /\ Idle.at = "idle" /\ ~(Idle.at = "append" /\ Idle.right)
BY DEF Idle, Handler, Labels

\* The steps of a handler that give nothing.
LEMMA QuietHandle ==
  ASSUME CountsOK, CountsCover, IsFiniteSet(Threads), NEW t \in Threads,
         \/ \E right \in BOOLEAN : Get(t, right) \/ Post(t, right)
         \/ Allow(t) \/ AuthorizeLauncher(t) \/ RecordFailure(t) \/ AuthorizeSession(t)
         \/ CountNotStored(t) \/ DownloadRaises(t)
  PROVE  CountsOK' /\ CountsCover'
<1> DEFINE Kept == UNCHANGED <<clock, stored, copy, overlapped, stray, assessor, listening, served>>
<1> USE IdleHandler
<1>0. clock \in Nat
  BY DEF CountsOK
<1>1. ASSUME NEW l \in 1..Len(binding), NEW kind \in {"portal", "launcher"}, NEW right \in BOOLEAN,
             authorize(t, l, kind, right), Kept, UNCHANGED binding
      PROVE  CountsOK' /\ CountsCover'
  <2> DEFINE h == [at |-> IF right THEN "session" ELSE "failed",
                   listener |-> l, kind |-> kind, right |-> right, now |-> clock]
  <2>1. CASE Become(t, Idle)
    BY <1>1, <2>1, QuietHandler, SameBinding
  <2>2. CASE Become(t, h)
    <3>1. h \in Handler /\ ~(h.at = "append" /\ h.right) /\ h.listener = l
      BY <1>0 DEF Handler, Labels
    <3> HIDE DEF h
    <3> QED BY <1>1, <2>2, <3>1, QuietHandler, SameBinding
  <2> QED BY <1>1, <2>1, <2>2 DEF authorize, Answer
<1>2. ASSUME NEW right \in BOOLEAN, Get(t, right)
      PROVE  CountsOK' /\ CountsCover'
  <2>1. Listener \in 1..Len(binding)
    BY <1>2 DEF Get, CountsOK, BindingsOK, Listener
  <2> QED BY <1>1, <1>2, <2>1 DEF Get, sessionVars, countVars
<1>3. ASSUME NEW right \in BOOLEAN, Post(t, right)
      PROVE  CountsOK' /\ CountsCover'
  <2> DEFINE h == [at |-> "limited", listener |-> Listener, kind |-> "launcher",
                   right |-> right, now |-> clock]
  <2>1. Listener \in 1..Len(binding)
    BY <1>3 DEF Post, CountsOK, BindingsOK, Listener
  <2>2. h \in Handler /\ ~(h.at = "append" /\ h.right) /\ h.listener = Listener
    BY <1>0, <2>1 DEF Handler, Labels
  <2>3. Become(t, h) /\ Kept /\ UNCHANGED binding
    BY <1>3 DEF Post, sessionVars, countVars
  <2> HIDE DEF h
  <2> QED BY <2>1, <2>2, <2>3, QuietHandler, SameBinding
\* The handler that goes on, at another label.
<1>4. ASSUME ~At(t, "idle"), NEW label \in Labels \ {"append"}, Become(t, [handler[t] EXCEPT !.at = label]),
             BindingsOK', Len(binding') = Len(binding),
             \A l \in 1..Len(binding) : binding'[l].count >= binding[l].count, Kept
      PROVE  CountsOK' /\ CountsCover'
  <2> DEFINE h == [handler[t] EXCEPT !.at = label]
  <2>1. h \in Handler /\ ~(h.at = "append" /\ h.right) /\ h.listener \in 1..Len(binding)
    BY <1>4, MineOK DEF Handler
  <2> HIDE DEF h
  <2> QED BY <1>4, <2>1, QuietHandler DEF h
<1>5. ASSUME Answer(t), BindingsOK', Len(binding') = Len(binding),
             \A l \in 1..Len(binding) : binding'[l].count >= binding[l].count, Kept
      PROVE  CountsOK' /\ CountsCover'
  BY <1>5, QuietHandler DEF Answer
<1>6. CASE Allow(t)
  <2>1. PICK x, y : Bind(handler[t].listener, [mine(t) EXCEPT !.values = x, !.granted = y])
    BY <1>6 DEF Allow, allow
  <2>2. ~At(t, "idle") /\ Kept /\ (Proceed(t, "launcher") \/ Answer(t))
    BY <1>6 DEF Allow, allow, At, sessionVars, countVars
  <2> DEFINE b == [mine(t) EXCEPT !.values = x, !.granted = y]
  <2>3. IsBinding(b) /\ b.count = mine(t).count /\ mine(t).count \in Nat
    <3>1. IsBinding(mine(t)) /\ mine(t).count \in Nat
      BY <2>2, MineOK
    <3>2. IsBinding(b) /\ b.count = mine(t).count
      BY <3>1 DEF IsBinding
    <3> QED BY <3>1, <3>2
  <2>4. Bind(handler[t].listener, b)
    BY <2>1
  <2> HIDE DEF b
  <2>5. /\ BindingsOK' /\ Len(binding') = Len(binding)
        /\ \A l \in 1..Len(binding) : binding'[l].count >= binding[l].count
    BY <2>2, <2>3, <2>4, MineReplaced
  <2>6. "launcher" \in Labels \ {"append"}
    BY DEF Labels
  <2> QED BY <1>4, <1>5, <2>2, <2>5, <2>6 DEF Proceed
<1>7. CASE AuthorizeLauncher(t)
  <2>1. ~At(t, "idle") /\ Kept /\ UNCHANGED binding
        /\ authorize(t, handler[t].listener, "launcher", handler[t].right)
    BY <1>7 DEF AuthorizeLauncher, At, sessionVars, countVars
  <2>2. handler[t].listener \in 1..Len(binding) /\ handler[t].right \in BOOLEAN
    BY <2>1, MineOK DEF Handler
  <2> QED BY <1>1, <2>1, <2>2
<1>8. CASE RecordFailure(t)
  <2>1. PICK x, y : Bind(handler[t].listener, [mine(t) EXCEPT !.failures = x, !.blocked = y])
    BY <1>8 DEF RecordFailure
  <2> DEFINE b == [mine(t) EXCEPT !.failures = x, !.blocked = y]
             h == [handler[t] EXCEPT !.at = "append", !.right = FALSE]
  <2>2. ~At(t, "idle") /\ Kept /\ Become(t, h)
    BY <1>8 DEF RecordFailure, At, sessionVars, countVars
  <2>3. IsBinding(b) /\ b.count = mine(t).count /\ mine(t).count \in Nat
    <3>1. IsBinding(mine(t)) /\ mine(t).count \in Nat
      BY <2>2, MineOK
    <3>2. IsBinding(b) /\ b.count = mine(t).count
      BY <3>1 DEF IsBinding
    <3> QED BY <3>1, <3>2
  <2>4. Bind(handler[t].listener, b)
    BY <2>1
  <2>5. h \in Handler /\ ~(h.at = "append" /\ h.right) /\ h.listener \in 1..Len(binding)
    BY <2>2, MineOK DEF Handler, Labels
  <2> HIDE DEF b, h
  <2>6. /\ BindingsOK' /\ Len(binding') = Len(binding)
        /\ \A l \in 1..Len(binding) : binding'[l].count >= binding[l].count
    BY <2>2, <2>3, <2>4, MineReplaced
  <2> QED BY <2>2, <2>5, <2>6, QuietHandler
<1>9. CASE AuthorizeSession(t)
  <2>1. ~At(t, "idle") /\ Kept /\ UNCHANGED binding
    BY <1>9 DEF AuthorizeSession, At, sessionVars, countVars
  <2> DEFINE h == [handler[t] EXCEPT !.at = "failed", !.now = clock]
  <2>2. h \in Handler /\ ~(h.at = "append" /\ h.right) /\ h.listener \in 1..Len(binding)
    BY <1>0, <2>1, MineOK DEF Handler, Labels
  <2>3. Answer(t) \/ Become(t, h) \/ Proceed(t, "counted")
    BY <1>9 DEF AuthorizeSession
  <2>4. "counted" \in Labels \ {"append"}
    BY DEF Labels
  <2>5. CASE Become(t, h)
    <3> HIDE DEF h
    <3> QED BY <2>1, <2>2, <2>5, QuietHandler, SameBinding
  <2> QED BY <1>4, <1>5, <2>1, <2>3, <2>4, <2>5, SameBinding DEF Proceed
<1>10. CASE CountNotStored(t)
  <2>1. ~At(t, "idle") /\ Kept /\ Answer(t)
    BY <1>10 DEF CountNotStored, At, sessionVars, countVars
  <2> DEFINE b == [mine(t) EXCEPT !.count = @ + 1]
  <2>2. mine(t).count + 1 \in 0..MaximumDownloads /\ mine(t).count \in Nat
    BY <1>10, <2>1, MineOK, PortalAssumption DEF CountNotStored
  <2>3. IsBinding(b) /\ b.count = mine(t).count + 1
    BY <2>1, <2>2, MineOK, CountUpdate
  <2>4. Bind(handler[t].listener, b)
    BY <1>10 DEF CountNotStored
  <2> HIDE DEF b
  <2>5. /\ BindingsOK' /\ Len(binding') = Len(binding)
        /\ \A l \in 1..Len(binding) : binding'[l].count >= binding[l].count
    BY <2>1, <2>2, <2>3, <2>4, MineReplaced
  <2> QED BY <1>5, <2>1, <2>5
<1>11. CASE DownloadRaises(t)
  BY <1>11, <1>5, SameBinding DEF DownloadRaises, sessionVars, countVars
<1> QED BY <1>2, <1>3, <1>6, <1>7, <1>8, <1>9, <1>10, <1>11

\* The one step that gives a download: it counts it in memory and in the file first.
LEMMA RecordDownloadCovers ==
  ASSUME CountsOK, CountsCover, IsFiniteSet(Threads), NEW t \in Threads, RecordDownload(t)
  PROVE  CountsOK' /\ CountsCover'
<1> DEFINE b == [mine(t) EXCEPT !.count = @ + 1]
           h == [handler[t] EXCEPT !.at = "append"]
           l == handler[t].listener
           n == mine(t).count + 1
<1>1. /\ handler[t].at = "counted" /\ ~At(t, "idle") /\ Bind(l, b) /\ Become(t, h)
      /\ stored' = n /\ overlapped' = IF assessor = "write" THEN overlapped + 1 ELSE overlapped
      /\ stray' = (stray \/ assessor = "bind" \/ l # Listener)
      /\ mine(t).count < MaximumDownloads
      /\ UNCHANGED <<clock, assessor, copy, listening, served>>
  BY DEF RecordDownload, At, Proceed, sessionVars
<1>2. n \in 0..MaximumDownloads /\ mine(t).count \in Nat /\ IsBinding(mine(t))
  <2>1. IsBinding(mine(t)) /\ mine(t).count \in 0..MaximumDownloads
    BY <1>1, MineOK
  <2>2. MaximumDownloads \in Nat
    BY PortalAssumption
  <2>3. \A most \in Nat : \A count \in 0..most : count < most => count + 1 \in 0..most /\ count \in Nat
    OBVIOUS
  <2> QED BY <1>1, <2>1, <2>2, <2>3, Zenon
<1>3. IsBinding(b) /\ b.count = n
  BY <1>2, CountUpdate
<1>4. h \in Handler /\ h.at = "append" /\ h.listener = l /\ h.right = handler[t].right
      /\ l \in 1..Len(binding)
  BY <1>1, MineOK DEF Handler, Labels
<1> HIDE DEF b, h, n
<1>5. BindingsOK' /\ Len(binding') = Len(binding) /\ binding'[l] = b
  BY <1>1, <1>3, <1>4, BindOK DEF CountsOK
<1>6. HandlersOK'
  BY <1>1, <1>4, <1>5 DEF CountsOK, HandlersOK, Become
<1>7. overlapped \in Nat /\ overlapped' \in Nat /\ overlapped' >= overlapped
      /\ (assessor = "write" => overlapped' = overlapped + 1)
  BY <1>1 DEF CountsOK
<1>8. CountsOK'
  BY <1>1, <1>2, <1>5, <1>6, <1>7 DEF CountsOK
<1>9. Given \in Nat /\ Given' \in Nat /\ Given' <= Given + 1
  <2>1. CASE h.right
    BY <1>1, <1>4, <2>1, WaitingMore DEF Given, CountsOK
  <2>2. CASE ~h.right
    BY <1>1, <1>4, <2>2, WaitingLess DEF Given, CountsOK
  <2> QED BY <2>1, <2>2
<1>10. loaded' = n /\ n \in Nat /\ copy \in Nat
  BY <1>1, <1>2, PortalAssumption DEF loaded, CountsOK
<1>11. SUFFICES ASSUME ~stray'
       PROVE  /\ Given' <= n + overlapped'
              /\ Len(binding) > 0 => Given' <= binding'[Len(binding)].count + overlapped'
              /\ assessor \in {"bind", "write"} => Given' <= copy + overlapped'
  BY <1>1, <1>5, <1>8, <1>10 DEF CountsCover
<1>12. ~stray /\ assessor # "bind" /\ l = Len(binding) /\ Len(binding) > 0
  <2>1. ~(stray \/ assessor = "bind" \/ l # Listener)
    BY <1>1, <1>11, Zenon
  <2>2. Len(binding) \in Nat
    BY DEF CountsOK, BindingsOK
  <2> QED BY <1>4, <2>1, <2>2 DEF Listener
<1>13. Given <= mine(t).count + overlapped /\ (assessor = "write" => Given <= copy + overlapped)
  BY <1>12 DEF CountsCover, mine
<1>14. n = mine(t).count + 1 /\ assessor \in {"idle", "bind", "read", "write"}
  BY DEF n, CountsOK
<1>15. binding'[Len(binding)].count = n
  BY <1>3, <1>5, <1>12
<1> HIDE DEF Given, l
<1>16. Given' <= n + overlapped'
  BY <1>2, <1>7, <1>9, <1>10, <1>13, <1>14
<1>17. ASSUME assessor = "write"
       PROVE  Given' <= copy + overlapped'
  BY <1>7, <1>9, <1>10, <1>13, <1>17
<1> QED BY <1>12, <1>15, <1>16, <1>17

\* Nothing is given while the log is written, and what waited is served when it is.
LEMMA AppendEntryCovers ==
  ASSUME CountsOK, CountsCover, IsFiniteSet(Threads), NEW t \in Threads, AppendEntry(t)
  PROVE  CountsOK' /\ CountsCover'
<1>1. /\ ~At(t, "idle") /\ handler[t].at = "append" /\ UNCHANGED binding
      /\ UNCHANGED <<clock, stored, copy, overlapped, stray, assessor, listening>>
  BY DEF AppendEntry, At, sessionVars
<1>2. /\ BindingsOK' /\ Len(binding') = Len(binding)
      /\ \A l \in 1..Len(binding) : binding'[l].count >= binding[l].count
  BY <1>1, SameBinding
<1>3. CASE UNCHANGED <<handler, served>>
  <2>1. CountsOK'
    BY <1>1, <1>2, <1>3 DEF CountsOK, HandlersOK
  <2>2. Given' = Given
    BY <1>3 DEF Given, Waiting
  <2> QED BY <1>1, <1>2, <2>1, <2>2, GivenNat, CoverFrame
<1>4. CASE Answer(t) /\ UNCHANGED served
  BY <1>1, <1>2, <1>4, IdleHandler, QuietHandler DEF Answer
<1>5. CASE Answer(t) /\ served' = IF handler[t].right THEN served + 1 ELSE served
  <2>1. HandlersOK'
    BY <1>1, <1>2, <1>5, IdleHandler DEF CountsOK, HandlersOK, Answer, Become
  <2>2. CountsOK'
    BY <1>1, <1>2, <1>5, <2>1 DEF CountsOK
  <2>3. Given' \in Nat /\ Given' <= Given
    <3>1. t \in Waiting <=> handler[t].right
      BY <1>1 DEF Waiting
    <3>2. Cardinality(Waiting) \in Nat /\ Cardinality(Waiting') \in Nat
          /\ Cardinality(Waiting') = Cardinality(Waiting) - (IF t \in Waiting THEN 1 ELSE 0)
      BY <1>5, IdleHandler, WaitingLess DEF CountsOK, Answer
    <3>3. served \in Nat /\ served' \in Nat /\ served' = served + (IF t \in Waiting THEN 1 ELSE 0)
      BY <1>5, <3>1 DEF CountsOK
    <3> QED BY <3>2, <3>3 DEF Given
  <2> QED BY <1>1, <1>2, <2>2, <2>3, CoverFrame
<1> QED BY <1>3, <1>4, <1>5 DEF AppendEntry

LEMMA CountsInit == IsFiniteSet(Threads) /\ PortalInit => CountInv
<1> SUFFICES ASSUME IsFiniteSet(Threads), PortalInit
             PROVE  CountInv
  OBVIOUS
<1>1. BindingsOK /\ Len(binding) = 0
  <2>1. binding \in Seq({}) /\ Len(binding) = 0
    BY DEF PortalInit
  <2> QED BY <2>1 DEF BindingsOK
<1>2. HandlersOK
  BY IdleHandler DEF PortalInit, HandlersOK
<1>3. CountsOK
  <2>1. /\ clock \in Nat /\ stored = None /\ copy \in 0..MaximumDownloads
        /\ assessor = "idle" /\ served \in Nat /\ overlapped \in Nat
    BY PortalAssumption DEF PortalInit
  <2>2. listening \in BOOLEAN /\ ~listening /\ stray \in BOOLEAN
    BY Zenon DEF PortalInit
  <2> QED BY <1>1, <1>2, <2>1, <2>2 DEF CountsOK
<1>4. Waiting = {}
  BY IdleHandler DEF PortalInit, Waiting
<1>5. Given = 0 /\ loaded = 0
  BY <1>4, FS_EmptySet DEF PortalInit, Given, loaded
<1>6. CountsCover
  BY <1>1, <1>5 DEF PortalInit, CountsCover
<1> QED BY <1>3, <1>6 DEF CountInv

\* What a step of the assessor leaves as it was.
LEMMA AssessorFrame ==
  ASSUME CountsOK, IsFiniteSet(Threads), UNCHANGED <<handler, served>>
  PROVE  Given' = Given /\ Given \in Nat /\ Given' \in Nat
BY GivenNat DEF Given, Waiting

\* The assessor hands the count from the file to the binding and back.
LEMMA AssessorCovers ==
  ASSUME CountsOK, CountsCover, IsFiniteSet(Threads),
         Start \/ Listen \/ Pause \/ ReadStatus \/ WriteStatus \/ \E enabled \in BOOLEAN : Configure(enabled)
  PROVE  CountsOK' /\ CountsCover'
<1>1. UNCHANGED <<clock, handler, served, overlapped, stray>>
  BY DEF Start, Listen, Pause, ReadStatus, WriteStatus, Configure, handlerVars
<1>2. Given' = Given /\ Given \in Nat /\ Given' \in Nat
  BY <1>1, AssessorFrame
<1>3. loaded \in 0..MaximumDownloads /\ copy \in 0..MaximumDownloads /\ overlapped \in Nat
      /\ Len(binding) \in Nat
  BY PortalAssumption DEF CountsOK, BindingsOK, loaded
<1>4. ASSUME ~stray
      PROVE  /\ Given <= loaded + overlapped
             /\ Len(binding) > 0 => Given <= binding[Len(binding)].count + overlapped
             /\ assessor \in {"bind", "write"} => Given <= copy + overlapped
  BY <1>4 DEF CountsCover
<1>5. ASSUME UNCHANGED binding
      PROVE  BindingsOK' /\ HandlersOK'
  BY <1>1, <1>5 DEF CountsOK, BindingsOK, HandlersOK
<1> HIDE DEF Given
<1>6. CASE Start \/ Pause
  <2>1. UNCHANGED <<binding, stored>> /\ copy' = loaded /\ loaded' = loaded
    BY <1>6 DEF Start, Pause, loaded
  <2>2. /\ assessor' \in {"idle", "bind", "read", "write"} /\ listening' \in BOOLEAN
        /\ listening' => Len(binding) > 0
    <3>1. assessor' \in {"idle", "bind", "read", "write"}
      BY <1>6 DEF Start, Pause
    <3>2. listening \in BOOLEAN /\ (listening => Len(binding) > 0)
      BY DEF CountsOK
    <3>3. listening' = listening \/ listening' = FALSE
      BY <1>6, Zenon DEF Start, Pause
    <3>4. listening' \in BOOLEAN
      BY <3>2, <3>3
    <3>5. listening' => Len(binding) > 0
      <4>1. CASE listening' = FALSE
        BY <4>1, Zenon
      <4>2. CASE listening' = listening
        BY <3>2, <4>2, Zenon
      <4> QED BY <3>3, <4>1, <4>2
    <3> QED BY <3>1, <3>4, <3>5
  <2>3. CountsOK'
    BY <1>1, <1>3, <1>5, <2>1, <2>2 DEF CountsOK
  <2> QED BY <1>1, <1>2, <1>4, <2>1, <2>3 DEF CountsCover
<1>7. CASE Listen
  <2>1. /\ assessor = "bind" /\ binding' = Append(binding, new_portal)
        /\ listening' = TRUE /\ assessor' = "read" /\ UNCHANGED <<stored, copy>>
    BY <1>7 DEF Listen
  <2>2. IsBinding(new_portal) /\ new_portal.count = copy
    BY <1>3 DEF new_portal, IsBinding
  <2>3. PICK S : binding \in Seq(S)
    BY DEF CountsOK, BindingsOK
  <2>4. /\ binding' \in Seq(S \cup {new_portal}) /\ Len(binding') = Len(binding) + 1
        /\ binding'[Len(binding) + 1] = new_portal
        /\ \A i \in 1..Len(binding) : binding'[i] = binding[i]
    <3>1. binding \in Seq(S \cup {new_portal}) /\ new_portal \in S \cup {new_portal}
      BY <2>3
    <3> HIDE DEF new_portal
    <3> QED BY <2>1, <3>1
  <2> HIDE DEF new_portal
  <2>5. BindingsOK'
    <3>1. \A i \in 1..Len(binding') : i \in 1..Len(binding) \/ i = Len(binding) + 1
      BY <1>3, <2>4
    <3> QED BY <2>2, <2>4, <3>1 DEF BindingsOK, CountsOK
  <2>6. HandlersOK'
    BY <1>1, <1>3, <2>4 DEF HandlersOK, CountsOK
  <2>7. CountsOK'
    BY <1>1, <1>3, <2>1, <2>4, <2>5, <2>6 DEF CountsOK
  <2>8. loaded' = loaded /\ binding'[Len(binding')].count = copy
    BY <2>1, <2>2, <2>4 DEF loaded
  <2> QED BY <1>1, <1>2, <1>4, <2>1, <2>7, <2>8 DEF CountsCover
<1>8. CASE ReadStatus
  <2>1. UNCHANGED <<binding, stored, listening>> /\ assessor' = "write" /\ loaded' = loaded
        /\ copy' = IF stored = None THEN copy ELSE stored
    BY <1>8 DEF ReadStatus, loaded
  <2>2. copy' \in 0..MaximumDownloads /\ copy' >= loaded
    BY <1>3, <2>1 DEF CountsOK, loaded
  <2>3. CountsOK'
    BY <1>1, <1>5, <2>1, <2>2 DEF CountsOK
  <2>4. ASSUME ~stray
        PROVE  Given <= copy' + overlapped
    <3>1. Given <= loaded + overlapped
      BY <1>4, <2>4, Zenon
    <3>2. Given \in Nat /\ overlapped \in Nat /\ copy' \in Int /\ loaded \in Int
      BY <1>2, <1>3, <2>2
    <3>3. copy' >= loaded
      BY <2>2
    <3>4. \A g, m, n, d \in Int : g <= m + d /\ n >= m => g <= n + d
      OBVIOUS
    <3>5. Given \in Int /\ overlapped \in Int
      BY <3>2
    <3> QED BY <3>1, <3>2, <3>3, <3>4, <3>5, Zenon
  <2> QED BY <1>1, <1>2, <1>4, <2>1, <2>3, <2>4 DEF CountsCover
<1>9. CASE WriteStatus
  <2>1. /\ UNCHANGED <<binding, copy, listening>> /\ stored' = copy
        /\ assessor = "write" /\ assessor' = "idle"
    BY <1>9 DEF WriteStatus
  <2>2. loaded' = copy
    BY <1>3, <2>1, PortalAssumption DEF loaded
  <2>3. CountsOK'
    BY <1>1, <1>3, <1>5, <2>1 DEF CountsOK
  <2> QED BY <1>1, <1>2, <1>4, <2>1, <2>2, <2>3 DEF CountsCover
<1>10. ASSUME NEW enabled \in BOOLEAN, Configure(enabled)
       PROVE  CountsOK' /\ CountsCover'
  <2>1. UNCHANGED <<stored, copy, assessor, listening>>
    BY <1>10 DEF Configure
  <2>2. /\ BindingsOK' /\ Len(binding') = Len(binding)
        /\ \A l \in 1..Len(binding) : binding'[l].count >= binding[l].count
    <3>1. CASE UNCHANGED binding
      BY <3>1, SameBinding
    <3>2. CASE listening /\ Bind(Listener, [binding[Listener] EXCEPT !.policy = enabled])
      <4> DEFINE b == [binding[Listener] EXCEPT !.policy = enabled]
      <4>1. Listener \in 1..Len(binding)
        BY <1>3, <3>2 DEF CountsOK, Listener
      <4>2. IsBinding(binding[Listener]) /\ binding[Listener].count \in Nat
        BY <4>1 DEF CountsOK, BindingsOK, IsBinding
      <4>3. IsBinding(b) /\ b.count = binding[Listener].count
        BY <4>2 DEF IsBinding
      <4>4. Bind(Listener, b)
        BY <3>2
      <4> HIDE DEF b
      <4>5. /\ BindingsOK' /\ Len(binding') = Len(binding) /\ binding'[Listener] = b
            /\ \A i \in 1..Len(binding) : i # Listener => binding'[i] = binding[i]
        BY <4>1, <4>3, <4>4, BindOK DEF CountsOK
      <4>6. \A l \in 1..Len(binding) : binding[l].count \in Nat
        BY DEF CountsOK, BindingsOK, IsBinding
      <4> QED BY <4>3, <4>5, <4>6
    <3> QED BY <1>10, <3>1, <3>2 DEF Configure
  <2>3. HandlersOK'
    BY <1>1, <2>2 DEF CountsOK, HandlersOK
  <2>4. CountsOK'
    BY <1>1, <2>1, <2>2, <2>3 DEF CountsOK
  <2> QED BY <1>1, <1>2, <2>1, <2>2, <2>4, CoverFrame
<1> QED BY <1>6, <1>7, <1>8, <1>9, <1>10

LEMMA CountsStep ==
  ASSUME CountInv, IsFiniteSet(Threads), [PortalNext]_allVars
  PROVE  CountInv'
<1> USE DEF CountInv
<1>1. CASE UNCHANGED allVars
  <2>1. UNCHANGED <<clock, handler, binding, listening, stored, assessor, copy, served, overlapped, stray>>
    BY <1>1 DEF allVars, portalVars
  <2>2. CountsOK'
    BY <2>1 DEF CountsOK, BindingsOK, HandlersOK
  <2> QED BY <2>1, <2>2 DEF CountsCover, Given, Waiting, loaded
<1>2. ASSUME NEW t \in Threads, Handle(t)
      PROVE  CountInv'
  <2>1. CASE RecordDownload(t)
    BY <2>1, RecordDownloadCovers
  <2>2. CASE AppendEntry(t)
    BY <2>2, AppendEntryCovers
  <2>3. CASE ~RecordDownload(t) /\ ~AppendEntry(t)
    <3>1. \/ \E right \in BOOLEAN : Get(t, right) \/ Post(t, right)
          \/ Allow(t) \/ AuthorizeLauncher(t) \/ RecordFailure(t) \/ AuthorizeSession(t)
          \/ CountNotStored(t) \/ DownloadRaises(t)
      BY <1>2, <2>3 DEF Handle
    <3> QED BY <3>1, QuietHandle
  <2> QED BY <2>1, <2>2, <2>3
<1>3. CASE Start \/ Listen \/ Pause \/ ReadStatus \/ WriteStatus \/ \E enabled \in BOOLEAN : Configure(enabled)
  BY <1>3, AssessorCovers
<1>4. CASE Crash
  <2>1. /\ handler' = [t \in Threads |-> Idle] /\ listening' = FALSE /\ assessor' = "idle"
        /\ UNCHANGED <<clock, binding, stored, copy, served, overlapped, stray>>
    BY <1>4 DEF Crash
  <2>2. BindingsOK' /\ Len(binding') = Len(binding)
        /\ \A l \in 1..Len(binding) : binding'[l].count >= binding[l].count
    BY <2>1, SameBinding
  <2>3. HandlersOK'
    BY <2>1, IdleHandler DEF HandlersOK
  <2>4. CountsOK'
    BY <2>1, <2>2, <2>3 DEF CountsOK
  <2>5. Waiting' = {}
    BY <2>1, IdleHandler DEF Waiting
  <2>6. Given' \in Nat /\ Given' <= Given
    BY <2>1, <2>5, FS_EmptySet, GivenNat DEF Given, CountsOK
  <2> QED BY <2>1, <2>2, <2>4, <2>6, CoverFrame
<1>5. CASE Tick
  <2>1. /\ clock' = clock + 1
        /\ UNCHANGED <<handler, binding, listening, stored, assessor, copy, served, overlapped, stray>>
    BY <1>5 DEF Tick, countVars
  <2>2. CountsOK'
    BY <2>1 DEF CountsOK, BindingsOK, HandlersOK
  <2> QED BY <2>1, <2>2 DEF CountsCover, Given, Waiting, loaded
<1> QED BY <1>1, <1>2, <1>3, <1>4, <1>5 DEF PortalNext

\* Over every listener, pause, crash and half-way write, the Collector is served at most
\* maximum_downloads times, and once more for each download counted while a start or a pause
\* rewrote the portal file, until a handler that outlived its listener counts one.
THEOREM DownloadsBoundedAlways ==
  ASSUME IsFiniteSet(Threads)
  PROVE  PortalSpec => []DownloadsBounded
<1>1. CountInv => DownloadsBounded
  <2> SUFFICES ASSUME CountInv, ~stray
               PROVE  served <= MaximumDownloads + overlapped
    BY DEF DownloadsBounded
  <2>1. Given <= loaded + overlapped
    BY DEF CountInv, CountsCover
  <2>2. loaded \in 0..MaximumDownloads /\ overlapped \in Nat /\ served \in Nat /\ MaximumDownloads \in Nat
    BY PortalAssumption DEF CountInv, CountsOK, loaded
  <2>3. Cardinality(Waiting) \in Nat
    BY GivenNat DEF CountInv
  <2> QED BY <2>1, <2>2, <2>3 DEF Given
<1>2. PortalInit => CountInv
  BY CountsInit
<1>3. CountInv /\ [PortalNext]_allVars => CountInv'
  BY CountsStep
<1> QED BY <1>1, <1>2, <1>3, PTL DEF PortalSpec
-----------------------------------------------------------------------------
(* The throttle of wrong codes and the rate limit.  Every step is of one of a few kinds *)
(* for them: calm, a failed attempt, the record of one, a request at the limiter, a crash. *)

Shared(l) == <<binding[l].failures, binding[l].blocked, binding[l].values, binding[l].granted>>

\* Nothing that the threads share with a listener's counts changes; a new binding is empty.
SharedKept ==
  /\ Len(binding') \in Nat /\ Len(binding') >= Len(binding)
  /\ \A l \in 1..Len(binding) : Shared(l)' = Shared(l)
  /\ \A l \in (Len(binding) + 1)..Len(binding') : Shared(l)' = <<{}, 0, <<>>, <<>>>>

\* A thread begins, goes on or ends, and no attempt of it has failed before or after.
Turns(t) ==
  \E h \in Handler :
    /\ Become(t, h)
    /\ handler[t].at # "failed" /\ h.at # "failed"
    /\ h.now \in {0, clock, handler[t].now}
    /\ h.at = "limited" => h.now = clock

Calm ==
  /\ UNCHANGED guesses /\ SharedKept
  /\ clock' \in {clock, clock + 1}
  /\ handler' = handler \/ (clock' = clock /\ \E t \in Threads : Turns(t))

\* An attempt fails: a code that was compared, or an address that is not allowed.
Fails(t) ==
  /\ UNCHANGED <<clock, binding>>
  /\ handler[t].at \notin {"failed", "limited"}
  /\ \E h \in Handler :
       /\ Become(t, h)
       /\ h.at = "failed" /\ h.now = clock /\ h.listener \in 1..Len(binding)
       /\ \/ UNCHANGED guesses
          \/ ~throttled(h.listener) /\ guesses' = Append(guesses, [at |-> clock, by |-> h.listener])

LEMMA SameShared ==
  ASSUME CountsOK, UNCHANGED binding
  PROVE  SharedKept
<1>1. Len(binding) \in Nat
  BY DEF CountsOK, BindingsOK
<1> QED BY <1>1 DEF SharedKept, Shared

\* A binding whose shared fields stay is replaced.
LEMMA OtherFields ==
  ASSUME CountsOK, NEW l \in 1..Len(binding), NEW b, IsBinding(b), Bind(l, b),
         b.failures = binding[l].failures, b.blocked = binding[l].blocked,
         b.values = binding[l].values, b.granted = binding[l].granted
  PROVE  SharedKept
<1>1. /\ Len(binding') = Len(binding) /\ binding'[l] = b /\ Len(binding) \in Nat
      /\ \A i \in 1..Len(binding) : i # l => binding'[i] = binding[i]
  BY BindOK DEF CountsOK, BindingsOK
<1>2. \A i \in 1..Len(binding) : Shared(i)' = Shared(i)
  BY <1>1 DEF Shared
<1> QED BY <1>1, <1>2 DEF SharedKept

LEMMA AuthorizeKinds ==
  ASSUME CountsOK, NEW t \in Threads, NEW l \in 1..Len(binding), handler[t].at \notin {"failed", "limited"},
         NEW kind \in {"portal", "launcher"}, NEW right \in BOOLEAN, authorize(t, l, kind, right),
         UNCHANGED <<clock, binding>>
  PROVE  Calm \/ Fails(t)
<1> DEFINE h == [at |-> IF right THEN "session" ELSE "failed",
                 listener |-> l, kind |-> kind, right |-> right, now |-> clock]
<1>1. h \in Handler /\ h.now = clock /\ h.at # "limited" /\ h.listener = l
      /\ (h.at = "failed" <=> ~right) /\ l \in Nat
  BY DEF Handler, Labels, CountsOK
<1>2. SharedKept
  BY SameShared
<1> HIDE DEF h
<1>3. CASE throttled(l)
  <2>1. Become(t, Idle) /\ UNCHANGED guesses
    BY <1>3 DEF authorize, Answer
  <2>2. Turns(t)
    BY <2>1, IdleHandler DEF Turns, Idle
  <2> QED BY <1>2, <2>1, <2>2 DEF Calm
<1>4. CASE ~throttled(l)
  <2>1. /\ Become(t, h)
        /\ guesses' = IF right THEN guesses ELSE Append(guesses, [at |-> clock, by |-> l])
    BY <1>4 DEF authorize, h
  <2>2. CASE right
    <3>1. Turns(t)
      BY <1>1, <2>1, <2>2 DEF Turns
    <3> QED BY <1>2, <2>1, <2>2, <3>1 DEF Calm
  <2>3. CASE ~right
    BY <1>1, <1>4, <2>1, <2>3 DEF Fails
  <2> QED BY <2>2, <2>3
<1> QED BY <1>3, <1>4

LEMMA HandleKinds ==
  ASSUME CountsOK, NEW t \in Threads, Handle(t)
  PROVE  Calm \/ Fails(t) \/ RecordFailure(t) \/ Allow(t)
<1>1. ASSUME NEW h \in Handler, Become(t, h), handler[t].at # "failed", h.at \notin {"failed", "limited"},
             h.now \in {0, handler[t].now}, UNCHANGED <<clock, guesses>>, SharedKept
      PROVE  Calm
  BY <1>1 DEF Calm, Turns
<1>2. ASSUME Answer(t), handler[t].at # "failed", UNCHANGED <<clock, guesses>>, SharedKept
      PROVE  Calm
  BY <1>1, <1>2, IdleHandler DEF Answer, Idle
<1>3. ASSUME ~At(t, "idle"), NEW label \in {"counted", "append"}, Proceed(t, label),
             handler[t].at # "failed", UNCHANGED <<clock, guesses>>, SharedKept
      PROVE  Calm
  <2> DEFINE h == [handler[t] EXCEPT !.at = label]
  <2>1. h \in Handler /\ h.at = label /\ h.now = handler[t].now
    BY <1>3, MineOK DEF Handler, Labels
  <2>2. Become(t, h)
    BY <1>3 DEF Proceed
  <2> HIDE DEF h
  <2> QED BY <1>1, <1>3, <2>1, <2>2
<1>4. ASSUME NEW right \in BOOLEAN, Get(t, right)
      PROVE  Calm \/ Fails(t)
  <2>1. Listener \in 1..Len(binding)
    BY <1>4 DEF Get, CountsOK, BindingsOK, Listener
  <2>2. handler[t].at = "idle" /\ authorize(t, Listener, "portal", right) /\ UNCHANGED <<clock, binding>>
    BY <1>4 DEF Get, At, sessionVars
  <2> QED BY <2>1, <2>2, AuthorizeKinds
<1>5. ASSUME NEW right \in BOOLEAN, Post(t, right)
      PROVE  Calm
  <2> DEFINE h == [at |-> "limited", listener |-> Listener, kind |-> "launcher",
                   right |-> right, now |-> clock]
  <2>1. Listener \in Nat
    BY DEF CountsOK, BindingsOK, Listener
  <2>2. h \in Handler /\ h.at = "limited" /\ h.now = clock
    BY <2>1 DEF Handler, Labels, CountsOK
  <2>3. Become(t, h) /\ handler[t].at = "idle" /\ UNCHANGED <<clock, binding, guesses>>
    BY <1>5 DEF Post, At, sessionVars
  <2> HIDE DEF h
  <2>4. Turns(t)
    BY <2>2, <2>3 DEF Turns
  <2> QED BY <2>3, <2>4, SameShared DEF Calm
<1>6. CASE AuthorizeLauncher(t)
  <2>1. /\ handler[t].at = "launcher" /\ UNCHANGED <<clock, binding>>
        /\ authorize(t, handler[t].listener, "launcher", handler[t].right)
    BY <1>6 DEF AuthorizeLauncher, At, sessionVars
  <2>2. handler[t].listener \in 1..Len(binding) /\ handler[t].right \in BOOLEAN
    BY <2>1, MineOK DEF Handler, At
  <2> QED BY <2>1, <2>2, AuthorizeKinds
<1>7. CASE AuthorizeSession(t)
  <2>1. handler[t].at = "session" /\ ~At(t, "idle") /\ UNCHANGED <<clock, binding, guesses>>
    BY <1>7 DEF AuthorizeSession, At, sessionVars
  <2> DEFINE h == [handler[t] EXCEPT !.at = "failed", !.now = clock]
  <2>2. h \in Handler /\ h.at = "failed" /\ h.now = clock /\ h.listener \in 1..Len(binding)
    BY <2>1, MineOK DEF Handler, Labels, CountsOK
  <2>3. Answer(t) \/ Become(t, h) \/ Proceed(t, "counted")
    BY <1>7 DEF AuthorizeSession
  <2> HIDE DEF h
  <2>4. CASE Become(t, h)
    BY <2>1, <2>2, <2>4 DEF Fails
  <2> QED BY <1>2, <1>3, <2>1, <2>3, <2>4, SameShared
<1>8. CASE RecordDownload(t) \/ CountNotStored(t)
  <2> DEFINE b == [mine(t) EXCEPT !.count = @ + 1]
  <2>1. /\ handler[t].at = "counted" /\ ~At(t, "idle") /\ mine(t).count < MaximumDownloads
        /\ Bind(handler[t].listener, b) /\ UNCHANGED <<clock, guesses>>
        /\ Proceed(t, "append") \/ Answer(t)
    BY <1>8 DEF RecordDownload, CountNotStored, At, sessionVars
  <2>2. IsBinding(mine(t)) /\ mine(t).count + 1 \in 0..MaximumDownloads /\ handler[t].listener \in 1..Len(binding)
    BY <2>1, MineOK, PortalAssumption
  <2>3. /\ IsBinding(b) /\ b.failures = mine(t).failures /\ b.blocked = mine(t).blocked
        /\ b.values = mine(t).values /\ b.granted = mine(t).granted
    BY <2>2 DEF IsBinding
  <2> HIDE DEF b
  <2>4. SharedKept
    BY <2>1, <2>2, <2>3, OtherFields DEF mine
  <2> QED BY <1>2, <1>3, <2>1, <2>4
<1>9. CASE DownloadRaises(t)
  BY <1>9, <1>2, SameShared DEF DownloadRaises, At, sessionVars
<1>10. CASE AppendEntry(t)
  <2>1. /\ handler[t].at = "append" /\ UNCHANGED <<clock, binding, guesses>>
        /\ UNCHANGED handler \/ Answer(t)
    BY <1>10 DEF AppendEntry, At, sessionVars
  <2>2. CASE UNCHANGED handler
    BY <2>1, <2>2, SameShared DEF Calm
  <2> QED BY <1>2, <2>1, <2>2, SameShared
<1> QED BY <1>4, <1>5, <1>6, <1>7, <1>8, <1>9, <1>10 DEF Handle

LEMMA AssessorKinds ==
  ASSUME CountsOK,
         Start \/ Listen \/ Pause \/ ReadStatus \/ WriteStatus
           \/ (\E enabled \in BOOLEAN : Configure(enabled)) \/ Tick \/ UNCHANGED allVars
  PROVE  Calm
<1>1. handler' = handler /\ guesses' = guesses /\ clock' \in {clock, clock + 1}
  BY DEF Start, Listen, Pause, ReadStatus, WriteStatus, Configure, Tick, handlerVars, allVars, portalVars
<1>2. SUFFICES SharedKept
  BY <1>1 DEF Calm
<1>3. CASE UNCHANGED binding
  BY <1>3, SameShared
<1>4. CASE Listen
  <2>1. /\ binding' = Append(binding, new_portal)
        /\ new_portal.failures = {} /\ new_portal.blocked = 0
        /\ new_portal.values = <<>> /\ new_portal.granted = <<>>
    BY <1>4 DEF Listen, new_portal
  <2>2. PICK S : binding \in Seq(S)
    BY DEF CountsOK, BindingsOK
  <2> HIDE DEF new_portal
  <2>3. /\ Len(binding) \in Nat /\ Len(binding') = Len(binding) + 1
        /\ binding'[Len(binding) + 1] = new_portal
        /\ \A i \in 1..Len(binding) : binding'[i] = binding[i]
    <3>1. binding \in Seq(S \cup {new_portal}) /\ new_portal \in S \cup {new_portal}
      BY <2>2
    <3> QED BY <2>1, <3>1
  <2> QED BY <2>1, <2>3 DEF SharedKept, Shared
<1>5. ASSUME NEW enabled \in BOOLEAN, Configure(enabled), binding' # binding
      PROVE  SharedKept
  <2> DEFINE b == [binding[Listener] EXCEPT !.policy = enabled]
  <2>1. listening /\ Bind(Listener, b)
    BY <1>5 DEF Configure
  <2>2. Listener \in 1..Len(binding)
    BY <2>1 DEF CountsOK, BindingsOK, Listener
  <2>3. IsBinding(binding[Listener])
    BY <2>2 DEF CountsOK, BindingsOK
  <2>4. /\ IsBinding(b) /\ b.failures = binding[Listener].failures /\ b.blocked = binding[Listener].blocked
        /\ b.values = binding[Listener].values /\ b.granted = binding[Listener].granted
    BY <2>3 DEF IsBinding
  <2> HIDE DEF b
  <2> QED BY <2>1, <2>2, <2>4, OtherFields
<1> QED BY <1>3, <1>4, <1>5 DEF Start, Pause, ReadStatus, WriteStatus, Tick, allVars, portalVars

LEMMA StepKinds ==
  ASSUME CountsOK, [PortalNext]_allVars
  PROVE  Calm \/ Crash \/ \E t \in Threads : Fails(t) \/ RecordFailure(t) \/ Allow(t)
<1>1. ASSUME NEW t \in Threads, Handle(t)
      PROVE  Calm \/ \E s \in Threads : Fails(s) \/ RecordFailure(s) \/ Allow(s)
  BY <1>1, HandleKinds
<1>2. ASSUME \/ Start \/ Listen \/ Pause \/ ReadStatus \/ WriteStatus \/ Tick \/ UNCHANGED allVars
             \/ \E enabled \in BOOLEAN : Configure(enabled)
      PROVE  Calm
  BY <1>2, AssessorKinds
<1> QED BY <1>1, <1>2 DEF PortalNext

\* No handler has a time that is still to come.
TimesPassed == \A t \in Threads : handler[t].now <= clock

LEMMA TimesStep ==
  ASSUME CountInv, TimesPassed, IsFiniteSet(Threads), [PortalNext]_allVars
  PROVE  TimesPassed'
<1>1. clock \in Nat /\ HandlersOK
  BY DEF CountInv, CountsOK
<1>2. ASSUME NEW t \in Threads, NEW h, Become(t, h), h.now \in Nat, h.now <= clock, UNCHANGED clock
      PROVE  TimesPassed'
  BY <1>1, <1>2 DEF TimesPassed, Become, HandlersOK
<1>3. CASE Calm
  <2>1. CASE handler' = handler
    <3>1. clock <= clock' /\ clock' \in Nat
      BY <1>1, <1>3 DEF Calm
    <3>2. \A t \in Threads : handler[t].now \in Nat
      BY <1>1 DEF HandlersOK, Handler
    <3> QED BY <1>1, <2>1, <3>1, <3>2 DEF TimesPassed
  <2>2. ASSUME NEW t \in Threads, Turns(t), clock' = clock
        PROVE  TimesPassed'
    <3>1. PICK h \in Handler : Become(t, h) /\ h.now \in {0, clock, handler[t].now}
      BY <2>2 DEF Turns
    <3>2. h.now \in Nat /\ h.now <= clock
      BY <1>1, <3>1 DEF Handler, TimesPassed
    <3> QED BY <1>2, <2>2, <3>1, <3>2
  <2> QED BY <1>3, <2>1, <2>2 DEF Calm
<1>4. CASE Crash
  BY <1>1, <1>4 DEF Crash, TimesPassed, Idle
<1>5. ASSUME NEW t \in Threads, Fails(t)
      PROVE  TimesPassed'
  <2>1. PICK h \in Handler : Become(t, h) /\ h.now = clock /\ UNCHANGED clock
    BY <1>5 DEF Fails
  <2> QED BY <1>1, <1>2, <2>1
<1>6. ASSUME NEW t \in Threads, RecordFailure(t)
      PROVE  TimesPassed'
  <2> DEFINE h == [handler[t] EXCEPT !.at = "append", !.right = FALSE]
  <2>1. Become(t, h) /\ UNCHANGED clock
    BY <1>6 DEF RecordFailure, sessionVars
  <2>2. h.now = handler[t].now /\ handler[t].now \in Nat /\ handler[t].now <= clock
    BY <1>1 DEF HandlersOK, Handler, TimesPassed
  <2> HIDE DEF h
  <2> QED BY <1>2, <2>1, <2>2
<1>7. ASSUME NEW t \in Threads, Allow(t)
      PROVE  TimesPassed'
  <2>1. (Proceed(t, "launcher") \/ Answer(t)) /\ UNCHANGED clock
    BY <1>7 DEF Allow, allow, sessionVars
  <2>2. CASE Answer(t)
    BY <1>1, <1>2, <2>1, <2>2 DEF Answer, Idle
  <2>3. CASE Proceed(t, "launcher")
    <3> DEFINE h == [handler[t] EXCEPT !.at = "launcher"]
    <3>1. Become(t, h)
      BY <2>3 DEF Proceed
    <3>2. h.now = handler[t].now /\ handler[t].now \in Nat /\ handler[t].now <= clock
      BY <1>1 DEF HandlersOK, Handler, TimesPassed
    <3> HIDE DEF h
    <3> QED BY <1>2, <2>1, <3>1, <3>2
  <2> QED BY <2>1, <2>2, <2>3
<1> QED BY <1>3, <1>4, <1>5, <1>6, <1>7, StepKinds DEF CountInv

(* The rate limit *)

\* What a listener still counts is the end of what it granted, and never above the limit.
RateOK(l) ==
  LET values == binding[l].values
      granted == binding[l].granted
  IN  /\ values \in Seq(Nat) /\ granted \in Seq(Nat)
      /\ Len(values) <= Limit /\ Len(values) <= Len(granted)
      /\ \A i \in 1..Len(values) : values[i] = granted[Len(granted) - Len(values) + i]

Window(from) == from..(from + LimitWindow - 1)
Granted(l, from) == {i \in DOMAIN binding[l].granted : binding[l].granted[i] \in Window(from)}

\* Requests whose time lies in the window and which wait for the limiter's lock.
Pressing(l, from) ==
  {t \in Threads : /\ handler[t].at = "limited" /\ handler[t].listener = l
                   /\ handler[t].now \in Window(from)}

\* Nothing of the window has dropped out of the count, or the window is over and only the
\* threads that already wait can still be granted something in it.
RateHeld(l, from) ==
  \/ \A i \in 1..(Len(binding[l].granted) - Len(binding[l].values)) :
       binding[l].granted[i] \notin Window(from)
  \/ /\ clock >= from + LimitWindow
     /\ Cardinality(Granted(l, from)) + Cardinality(Pressing(l, from)) < Limit + Cardinality(Threads)

RateInv == \A l \in 1..Len(binding) : RateOK(l) /\ \A from \in 0..MaxClock : RateHeld(l, from)

\* A set of numbers that is not empty has a least one.
LEMMA LeastOf ==
  ASSUME NEW S \in SUBSET Nat, S # {}
  PROVE  LET m == CHOOSE n \in S : \A j \in S : n <= j IN m \in S /\ \A j \in S : m <= j
<1>1. PICK x \in S : \A y \in S : ~ (<<y, x>> \in OpToRel(<, Nat))
  BY NatLessThanWellFounded, WFMin, Zenon
<1>2. \A y \in S : ~ (y < x)
  BY <1>1 DEF OpToRel
<1>3. x \in Nat /\ \A y \in S : y \in Nat
  BY <1>1
<1>4. \A y \in S : x <= y
  BY <1>2, <1>3
<1> QED BY <1>4

\* A list without its first elements.
LEMMA Sliced ==
  ASSUME NEW s \in Seq(Nat), NEW k \in 1..(Len(s) + 1)
  PROVE  /\ SubSeq(s, k, Len(s)) \in Seq(Nat)
         /\ Len(SubSeq(s, k, Len(s))) = Len(s) - k + 1
         /\ \A i \in 1..(Len(s) - k + 1) : SubSeq(s, k, Len(s))[i] = s[k + i - 1]
OBVIOUS

\* The limiter drops the head of its deque, of values whose window is over.
LEMMA UnexpiredDrops ==
  ASSUME NEW values \in Seq(Nat), NEW now \in Nat
  PROVE  \E q \in 0..Len(values) :
           /\ unexpired(values, now) \in Seq(Nat)
           /\ Len(unexpired(values, now)) = Len(values) - q
           /\ \A i \in 1..(Len(values) - q) : unexpired(values, now)[i] = values[q + i]
           /\ \A i \in 1..q : values[i] + LimitWindow <= now
<1> DEFINE live == {i \in 1..Len(values) : values[i] + LimitWindow > now}
           m == CHOOSE i \in live : \A j \in live : i <= j
<1>0. LimitWindow \in Nat
  BY PortalAssumption
<1>1. CASE live = {}
  <2>1. unexpired(values, now) = <<>>
    BY <1>1 DEF unexpired
  <2>2. \A i \in 1..Len(values) : values[i] + LimitWindow <= now
    BY <1>0, <1>1
  <2> WITNESS Len(values) \in 0..Len(values)
  <2> QED BY <2>1, <2>2
<1>2. CASE live # {}
  <2>1. m \in live /\ \A j \in live : m <= j
    <3>1. live \in SUBSET Nat
      OBVIOUS
    <3> HIDE DEF live
    <3> QED BY <1>2, <3>1, LeastOf
  <2>2. unexpired(values, now) = SubSeq(values, m, Len(values))
    BY <1>2 DEF unexpired
  <2>3. m \in 1..Len(values) /\ Len(values) \in Nat
    BY <2>1
  <2>4. ASSUME NEW i \in 1..(m - 1)
        PROVE  values[i] + LimitWindow <= now
    <3>1. i \in 1..Len(values) /\ i < m
      BY <2>3
    <3>2. i \notin live
      <4> HIDE DEF m, live
      <4> QED BY <2>1, <2>3, <3>1
    <3>3. values[i] \in Nat /\ ~(values[i] + LimitWindow > now)
      BY <3>1, <3>2
    <3> QED BY <1>0, <3>3
  <2> HIDE DEF m, live
  <2>5. /\ SubSeq(values, m, Len(values)) \in Seq(Nat)
        /\ Len(SubSeq(values, m, Len(values))) = Len(values) - m + 1
        /\ \A i \in 1..(Len(values) - m + 1) : SubSeq(values, m, Len(values))[i] = values[m + i - 1]
    <3>1. m \in 1..(Len(values) + 1)
      BY <2>3
    <3> QED BY <3>1, Sliced
  <2> DEFINE q == m - 1
  <2>6. q \in 0..Len(values) /\ Len(values) - q = Len(values) - m + 1
        /\ \A i \in Nat : q + i = m + i - 1
    BY <2>3
  <2>7. \A i \in 1..(Len(values) - q) : unexpired(values, now)[i] = values[q + i]
    <3> HIDE DEF q
    <3>1. \A i \in 1..(Len(values) - q) : i \in Nat
      BY <2>3, <2>6
    <3> QED BY <2>2, <2>5, <2>6, <3>1
  <2>8. \A i \in 1..q : values[i] + LimitWindow <= now
    BY <2>4
  <2>9. unexpired(values, now) \in Seq(Nat) /\ Len(unexpired(values, now)) = Len(values) - q
    BY <2>2, <2>5, <2>6
  <2> HIDE DEF q
  <2> QED BY <2>6, <2>7, <2>8, <2>9
<1> QED BY <1>1, <1>2

LEMMA RateSets ==
  ASSUME IsFiniteSet(Threads), NEW l \in 1..Len(binding), RateOK(l), NEW from \in Nat
  PROVE  /\ IsFiniteSet(Granted(l, from)) /\ Cardinality(Granted(l, from)) \in Nat
         /\ IsFiniteSet(Pressing(l, from)) /\ Cardinality(Pressing(l, from)) \in Nat
         /\ Cardinality(Pressing(l, from)) <= Cardinality(Threads) /\ Cardinality(Threads) \in Nat
         /\ DOMAIN binding[l].granted = 1..Len(binding[l].granted)
<1>1. binding[l].granted \in Seq(Nat)
  BY DEF RateOK
<1>2. DOMAIN binding[l].granted = 1..Len(binding[l].granted) /\ Len(binding[l].granted) \in Nat
  BY <1>1
<1>3. IsFiniteSet(DOMAIN binding[l].granted)
  <2> DEFINE n == Len(binding[l].granted)
  <2>1. 1 \in Int /\ n \in Int
    BY <1>2
  <2> HIDE DEF n
  <2>2. IsFiniteSet(1..n)
    BY <2>1, FS_Interval
  <2> QED BY <1>2, <2>2 DEF n
<1>4. IsFiniteSet(Granted(l, from)) /\ Cardinality(Granted(l, from)) \in Nat
  BY <1>3, FS_Subset, FS_CardinalityType DEF Granted
<1>5. Pressing(l, from) \subseteq Threads
  BY DEF Pressing
<1> QED BY <1>2, <1>4, <1>5, FS_Subset, FS_CardinalityType

\* While nothing of the window has dropped out, the limit bounds what it was granted.
LEMMA RateBound ==
  ASSUME IsFiniteSet(Threads), NEW l \in 1..Len(binding), RateOK(l), NEW from \in Nat,
         \A i \in 1..(Len(binding[l].granted) - Len(binding[l].values)) :
           binding[l].granted[i] \notin Window(from)
  PROVE  Cardinality(Granted(l, from)) <= Limit
<1> DEFINE g == Len(binding[l].granted)
           v == Len(binding[l].values)
<1>1. g \in Nat /\ v \in Nat /\ v <= g /\ v <= Limit /\ Limit \in Nat
  BY PortalAssumption DEF RateOK
<1>2. Granted(l, from) \subseteq (g - v + 1)..g
  <2>1. ASSUME NEW i \in Granted(l, from)
        PROVE  i \in 1..g /\ i \notin 1..(g - v)
    BY <2>1, RateSets DEF Granted
  <2> HIDE DEF g, v
  <2> QED BY <1>1, <2>1
<1> HIDE DEF g, v
<1>3. IsFiniteSet((g - v + 1)..g) /\ Cardinality((g - v + 1)..g) = v
  <2> DEFINE a == g - v + 1
  <2>1. a \in Int /\ g \in Int /\ (IF a > g THEN 0 ELSE g - a + 1) = v
    BY <1>1
  <2> HIDE DEF a
  <2>2. IsFiniteSet(a..g) /\ Cardinality(a..g) = IF a > g THEN 0 ELSE g - a + 1
    BY <2>1, FS_Interval
  <2> QED BY <2>1, <2>2 DEF a
<1>4. Cardinality(Granted(l, from)) <= v /\ Cardinality(Granted(l, from)) \in Nat
  BY <1>2, <1>3, FS_Subset, RateSets
<1> QED BY <1>1, <1>4

\* What every other step leaves alone.
RatesKept ==
  /\ Len(binding') \in Nat /\ Len(binding') >= Len(binding)
  /\ \A l \in 1..Len(binding) : /\ binding'[l].values = binding[l].values
                                /\ binding'[l].granted = binding[l].granted
  /\ \A l \in (Len(binding) + 1)..Len(binding') : binding'[l].values = <<>> /\ binding'[l].granted = <<>>
  /\ \A t \in Threads : handler'[t].at = "limited" =>
       handler'[t] = handler[t] \/ handler'[t].now = clock
  /\ clock' \in {clock, clock + 1}

LEMMA RateQuiet ==
  ASSUME CountsOK, RateInv, RatesKept, IsFiniteSet(Threads)
  PROVE  RateInv'
<1>1. /\ Len(binding) \in Nat /\ Len(binding') \in Nat /\ clock \in Nat /\ clock' \in Nat
      /\ clock' >= clock /\ LimitWindow \in Nat /\ Limit \in Nat
  BY PortalAssumption DEF CountsOK, BindingsOK, RatesKept
<1>2. ASSUME NEW l \in (Len(binding) + 1)..Len(binding')
      PROVE  RateOK(l)' /\ \A from \in 0..MaxClock : RateHeld(l, from)'
  <2>1. binding'[l].values = <<>> /\ binding'[l].granted = <<>>
    BY <1>2 DEF RatesKept
  <2> QED BY <1>1, <2>1 DEF RateOK, RateHeld
<1>3. ASSUME NEW l \in 1..Len(binding)
      PROVE  RateOK(l)' /\ \A from \in 0..MaxClock : RateHeld(l, from)'
  <2>1. binding'[l].values = binding[l].values /\ binding'[l].granted = binding[l].granted /\ RateOK(l)
    BY <1>3 DEF RatesKept, RateInv
  <2>2. RateOK(l)'
    BY <2>1 DEF RateOK
  <2>3. ASSUME NEW from \in 0..MaxClock
        PROVE  RateHeld(l, from)'
    <3>1. RateHeld(l, from) /\ from \in Nat
      BY <1>3, <2>3, PortalAssumption DEF RateInv
    <3>2. CASE \A i \in 1..(Len(binding[l].granted) - Len(binding[l].values)) :
                 binding[l].granted[i] \notin Window(from)
      BY <2>1, <3>2 DEF RateHeld, Window
    <3>3. CASE /\ clock >= from + LimitWindow
               /\ Cardinality(Granted(l, from)) + Cardinality(Pressing(l, from))
                    < Limit + Cardinality(Threads)
      <4>1. Granted(l, from)' = Granted(l, from)
        BY <2>1 DEF Granted, Window
      <4>2. Pressing(l, from)' \subseteq Pressing(l, from)
        <5>1. clock \notin Window(from)
          BY <1>1, <3>1, <3>3 DEF Window
        <5> QED BY <5>1 DEF Pressing, RatesKept, Window
      <4>3. IsFiniteSet(Pressing(l, from)) /\ Cardinality(Pressing(l, from)) \in Nat
            /\ Cardinality(Granted(l, from)) \in Nat /\ Cardinality(Threads) \in Nat
        BY <2>1, <3>1, RateSets
      <4>4. Cardinality(Pressing(l, from)') <= Cardinality(Pressing(l, from))
            /\ Cardinality(Pressing(l, from)') \in Nat
        BY <4>2, <4>3, FS_Subset, FS_CardinalityType
      <4> QED BY <1>1, <3>1, <3>3, <4>1, <4>3, <4>4 DEF RateHeld
    <3> QED BY <3>1, <3>2, <3>3 DEF RateHeld
  <2> QED BY <2>2, <2>3
<1>4. \A l \in 1..Len(binding') : l \in 1..Len(binding) \/ l \in (Len(binding) + 1)..Len(binding')
  BY <1>1
<1> QED BY <1>2, <1>3, <1>4 DEF RateInv

LEMMA RateOthers ==
  ASSUME CountsOK, Calm \/ Crash \/ \E t \in Threads : Fails(t) \/ RecordFailure(t)
  PROVE  RatesKept
<1>1. Len(binding) \in Nat /\ HandlersOK
  BY DEF CountsOK, BindingsOK
<1>2. CASE Calm
  <2>1. /\ Len(binding') \in Nat /\ Len(binding') >= Len(binding)
        /\ \A l \in 1..Len(binding) : /\ binding'[l].values = binding[l].values
                                      /\ binding'[l].granted = binding[l].granted
        /\ \A l \in (Len(binding) + 1)..Len(binding') :
             binding'[l].values = <<>> /\ binding'[l].granted = <<>>
    BY <1>2 DEF Calm, SharedKept, Shared
  <2>2. \A t \in Threads : handler'[t].at = "limited" =>
          handler'[t] = handler[t] \/ handler'[t].now = clock
    BY <1>1, <1>2 DEF Calm, Turns, Become, HandlersOK
  <2> QED BY <1>2, <2>1, <2>2 DEF RatesKept, Calm
<1>3. CASE Crash
  BY <1>1, <1>3 DEF Crash, RatesKept, Idle
<1>4. ASSUME NEW t \in Threads, Fails(t)
      PROVE  RatesKept
  BY <1>1, <1>4 DEF Fails, RatesKept, Become, HandlersOK
<1>5. ASSUME NEW t \in Threads, RecordFailure(t)
      PROVE  RatesKept
  <2>1. PICK x, y : Bind(handler[t].listener, [mine(t) EXCEPT !.failures = x, !.blocked = y])
    BY <1>5 DEF RecordFailure
  <2> DEFINE b == [mine(t) EXCEPT !.failures = x, !.blocked = y]
             l == handler[t].listener
  <2>2. ~At(t, "idle") /\ UNCHANGED clock /\ Become(t, [handler[t] EXCEPT !.at = "append", !.right = FALSE])
    BY <1>5 DEF RecordFailure, At, sessionVars
  <2>3. IsBinding(mine(t)) /\ l \in 1..Len(binding) /\ handler[t] \in Handler
    BY <2>2, MineOK
  <2>4. IsBinding(b) /\ b.values = mine(t).values /\ b.granted = mine(t).granted
    BY <2>3 DEF IsBinding
  <2>5. Bind(l, b)
    BY <2>1
  <2>6. \A s \in Threads : handler'[s].at = "limited" => handler'[s] = handler[s]
    BY <1>1, <2>2, <2>3 DEF Become, HandlersOK, Handler
  <2> HIDE DEF b
  <2>7. /\ Len(binding') = Len(binding) /\ binding'[l] = b
        /\ \A i \in 1..Len(binding) : i # l => binding'[i] = binding[i]
    BY <2>3, <2>4, <2>5, BindOK DEF CountsOK
  <2> QED BY <1>1, <2>2, <2>4, <2>6, <2>7 DEF RatesKept, mine
<1> QED BY <1>2, <1>3, <1>4, <1>5

\* What the limiter does to the two sequences: q values are dropped, and the request is
\* counted and granted, or neither.
LEMMA AllowCounts ==
  ASSUME CountsOK, RateInv, NEW t \in Threads, Allow(t)
  PROVE  LET l == handler[t].listener
             now == handler[t].now
             V == binding[l].values
             G == binding[l].granted
             W == binding'[l].values
             H == binding'[l].granted
         IN  /\ l \in 1..Len(binding) /\ now \in Nat /\ handler[t].at = "limited"
             /\ Len(binding') = Len(binding) /\ UNCHANGED clock
             /\ \A i \in 1..Len(binding) : i # l => binding'[i] = binding[i]
             /\ \A s \in Threads : s # t => handler'[s] = handler[s]
             /\ handler'[t].at # "limited"
             /\ W \in Seq(Nat) /\ H \in Seq(Nat) /\ Len(W) <= Limit
             /\ \E q \in 0..Len(V) :
                  /\ \A i \in 1..q : V[i] + LimitWindow <= now
                  /\ \A i \in 1..(Len(V) - q) : W[i] = V[q + i]
                  /\ \/ H = G /\ Len(W) = Len(V) - q
                     \/ /\ H = Append(G, now)
                        /\ Len(W) = Len(V) - q + 1 /\ W[Len(V) - q + 1] = now
<1> DEFINE l == handler[t].listener
           now == handler[t].now
           V == binding[l].values
           G == binding[l].granted
           u == unexpired(V, now)
           granted == Len(u) < Limit
           b == [mine(t) EXCEPT !.values = IF granted THEN Append(u, now) ELSE u,
                                !.granted = IF granted THEN Append(@, now) ELSE @]
<1>1. /\ handler[t].at = "limited" /\ ~At(t, "idle") /\ UNCHANGED clock
      /\ Proceed(t, "launcher") \/ Answer(t)
  BY DEF Allow, allow, At, sessionVars
<1>2. Bind(l, b)
  BY DEF Allow, allow, mine
<1>3. l \in 1..Len(binding) /\ now \in Nat /\ IsBinding(mine(t)) /\ mine(t) = binding[l]
  BY <1>1, MineOK DEF Handler, mine
<1>4. V \in Seq(Nat) /\ G \in Seq(Nat) /\ Len(V) <= Limit /\ Limit \in Nat
  BY <1>3, PortalAssumption DEF RateInv, RateOK
<1>5. /\ IsBinding(b) /\ b.values = (IF granted THEN Append(u, now) ELSE u)
      /\ b.granted = (IF granted THEN Append(G, now) ELSE G)
  <2> HIDE DEF u
  <2> QED BY <1>3 DEF IsBinding
<1> HIDE DEF b
<1>6. /\ Len(binding') = Len(binding) /\ binding'[l] = b
      /\ \A i \in 1..Len(binding) : i # l => binding'[i] = binding[i]
  BY <1>2, <1>3, <1>5, BindOK DEF CountsOK
<1>7. (\A s \in Threads : s # t => handler'[s] = handler[s]) /\ handler'[t].at # "limited"
  <2>1. handler \in [Threads -> Handler]
    BY DEF CountsOK, HandlersOK
  <2> QED BY <1>1, <2>1 DEF Proceed, Answer, Become, Handler, Idle
<1>8. PICK q \in 0..Len(V) :
        /\ u \in Seq(Nat) /\ Len(u) = Len(V) - q
        /\ \A i \in 1..(Len(V) - q) : u[i] = V[q + i]
        /\ \A i \in 1..q : V[i] + LimitWindow <= now
  BY <1>3, <1>4, UnexpiredDrops
<1> HIDE DEF u, V, G, now, l
<1>9. CASE granted
  <2>1. b.values = Append(u, now) /\ b.granted = Append(G, now)
    BY <1>5, <1>9
  <2>2. /\ Append(u, now) \in Seq(Nat) /\ Append(G, now) \in Seq(Nat)
        /\ Len(Append(u, now)) = Len(V) - q + 1 /\ Append(u, now)[Len(V) - q + 1] = now
        /\ \A i \in 1..(Len(V) - q) : Append(u, now)[i] = V[q + i]
    BY <1>3, <1>4, <1>8
  <2>3. Len(V) - q + 1 <= Limit
    BY <1>4, <1>8, <1>9
  <2> QED BY <1>1, <1>3, <1>6, <1>7, <1>8, <2>1, <2>2, <2>3 DEF l, now, V, G
<1>10. CASE ~granted
  <2>1. b.values = u /\ b.granted = G
    BY <1>5, <1>10
  <2>2. Len(V) - q <= Limit
    BY <1>4
  <2> QED BY <1>1, <1>3, <1>4, <1>6, <1>7, <1>8, <2>1, <2>2 DEF l, now, V, G
<1> QED BY <1>9, <1>10

LEMMA AddOne ==
  ASSUME NEW S, IsFiniteSet(S), NEW e
  PROVE  /\ IsFiniteSet(S \cup {e}) /\ Cardinality(S) \in Nat
         /\ Cardinality(S \cup {e}) \in Nat /\ Cardinality(S \cup {e}) <= Cardinality(S) + 1
<1>1. Cardinality(S) \in Nat
  BY FS_CardinalityType
<1>2. CASE e \in S
  <2> DEFINE U == S \cup {e}
  <2>1. U = S
    BY <1>2
  <2> HIDE DEF U
  <2>2. IsFiniteSet(U) /\ Cardinality(U) \in Nat /\ Cardinality(U) <= Cardinality(S) + 1
    BY <1>1, <2>1
  <2> QED BY <1>1, <2>2 DEF U
<1>3. CASE e \notin S
  BY <1>1, <1>3, FS_AddElement
<1> QED BY <1>2, <1>3

LEMMA RateAllow ==
  ASSUME CountsOK, RateInv, TimesPassed, IsFiniteSet(Threads), NEW t \in Threads, Allow(t)
  PROVE  RateInv'
<1>0. PICK l \in 1..Len(binding) : l = handler[t].listener
  BY AllowCounts
<1> DEFINE now == handler[t].now
           V == binding[l].values
           G == binding[l].granted
           W == binding'[l].values
           H == binding'[l].granted
           p == Len(G) - Len(V)
<1>1. /\ l \in 1..Len(binding) /\ now \in Nat /\ handler[t].at = "limited"
      /\ Len(binding') = Len(binding) /\ UNCHANGED clock
      /\ \A i \in 1..Len(binding) : i # l => binding'[i] = binding[i]
      /\ \A s \in Threads : s # t => handler'[s] = handler[s]
      /\ handler'[t].at # "limited"
      /\ W \in Seq(Nat) /\ H \in Seq(Nat) /\ Len(W) <= Limit
  BY <1>0, AllowCounts
<1>2. PICK q \in 0..Len(V) :
        /\ \A i \in 1..q : V[i] + LimitWindow <= now
        /\ \A i \in 1..(Len(V) - q) : W[i] = V[q + i]
        /\ \/ H = G /\ Len(W) = Len(V) - q
           \/ /\ H = Append(G, now)
              /\ Len(W) = Len(V) - q + 1 /\ W[Len(V) - q + 1] = now
  BY <1>0, AllowCounts
<1>3. /\ RateOK(l) /\ V \in Seq(Nat) /\ G \in Seq(Nat) /\ Len(V) <= Limit /\ Len(V) <= Len(G)
      /\ \A i \in 1..Len(V) : V[i] = G[p + i]
  BY <1>1 DEF RateInv, RateOK
<1>4. now <= clock /\ clock \in Nat /\ LimitWindow \in Nat \ {0} /\ Limit \in Nat /\ Len(binding) \in Nat
  BY PortalAssumption DEF TimesPassed, CountsOK, BindingsOK
<1> HIDE DEF V, G, W, H, now
<1>5. p \in Nat /\ q \in Nat /\ Len(W) <= Len(H) /\ Len(H) - Len(W) = p + q
      /\ Len(V) \in Nat /\ Len(G) \in Nat /\ Len(G) = p + Len(V)
  <2>1. Len(V) \in Nat /\ Len(G) \in Nat /\ Len(W) \in Nat
    BY <1>1, <1>3
  <2>2. \/ Len(H) = Len(G) /\ Len(W) = Len(V) - q
        \/ Len(H) = Len(G) + 1 /\ Len(W) = Len(V) - q + 1
    BY <1>1, <1>2, <1>3
  <2>4. Len(H) \in Nat /\ q \in Nat /\ q <= Len(V)
    BY <1>1, <1>2, <2>1
  <2> DEFINE v == Len(V)
             g == Len(G)
             w == Len(W)
             h == Len(H)
  <2>5. /\ v \in Nat /\ g \in Nat /\ w \in Nat /\ h \in Nat
        /\ q \in Nat /\ q <= v /\ v <= g
        /\ (h = g /\ w = v - q) \/ (h = g + 1 /\ w = v - q + 1)
    BY <1>3, <2>1, <2>2, <2>4
  <2> HIDE DEF v, g, w, h
  <2>6. g - v \in Nat /\ w <= h /\ h - w = (g - v) + q /\ g = (g - v) + v
    BY <2>5
  <2> QED BY <2>5, <2>6 DEF v, g, w, h
<1>6. \A i \in 1..Len(W) : W[i] = H[p + q + i]
  <2>1. CASE H = G /\ Len(W) = Len(V) - q
    <3>1. ASSUME NEW i \in 1..Len(W)
          PROVE  W[i] = H[p + q + i]
      <4>1. i \in 1..(Len(V) - q) /\ q + i \in 1..Len(V) /\ p + (q + i) = p + q + i
        BY <1>5, <2>1
      <4> QED BY <1>2, <1>3, <2>1, <4>1
    <3> QED BY <3>1
  <2>2. CASE H = Append(G, now) /\ Len(W) = Len(V) - q + 1 /\ W[Len(V) - q + 1] = now
    <3>1. ASSUME NEW i \in 1..Len(W)
          PROVE  W[i] = H[p + q + i]
      <4>1. CASE i = Len(V) - q + 1
        <5>1. p + q + i = Len(G) + 1
          BY <1>5, <4>1
        <5>2. W[i] = now
          BY <2>2, <4>1
        <5>3. H[Len(G) + 1] = now
          <6> HIDE DEF p
          <6> QED BY <1>1, <1>3, <2>2
        <5> QED BY <5>1, <5>2, <5>3
      <4>2. CASE i # Len(V) - q + 1
        <5>1. i \in 1..(Len(V) - q) /\ q + i \in 1..Len(V) /\ p + (q + i) = p + q + i
              /\ p + q + i \in 1..Len(G)
          BY <1>5, <2>2, <4>2
        <5>2. W[i] = G[p + q + i]
          BY <1>2, <1>3, <5>1
        <5> QED BY <1>1, <1>3, <2>2, <5>1, <5>2
      <4> QED BY <4>1, <4>2
    <3> QED BY <3>1
  <2> QED BY <1>2, <2>1, <2>2
<1>7. RateOK(l)'
  <2>1. Len(H) - Len(W) = p + q
    BY <1>5
  <2> QED BY <1>1, <1>5, <1>6, <2>1 DEF RateOK, W, H
<1>8. ASSUME NEW from \in 0..MaxClock
      PROVE  RateHeld(l, from)'
  <2>1. RateHeld(l, from) /\ from \in Nat
    BY <1>8, PortalAssumption DEF RateInv
  <2>2. /\ IsFiniteSet(Granted(l, from)) /\ Cardinality(Granted(l, from)) \in Nat
        /\ IsFiniteSet(Pressing(l, from)) /\ Cardinality(Pressing(l, from)) \in Nat
        /\ Cardinality(Threads) \in Nat
    BY <1>3, <2>1, RateSets
  <2>3. Granted(l, from) = {i \in 1..Len(G) : G[i] \in Window(from)}
    BY <1>3 DEF Granted, G
  <2>4. Granted(l, from)' = {i \in 1..Len(H) : H[i] \in Window(from)}
    <3>1. Granted(l, from)' = {i \in DOMAIN H : H[i] \in Window(from)}
      BY Zenon DEF Granted, Window, H
    <3>2. DOMAIN H = 1..Len(H)
      BY <1>1
    <3> QED BY <3>1, <3>2, Zenon
  <2>5. /\ now \notin Window(from) => Granted(l, from)' \subseteq Granted(l, from)
        /\ Granted(l, from)' \subseteq Granted(l, from) \cup {Len(G) + 1}
    <3>1. CASE H = G
      BY <2>3, <2>4, <3>1
    <3>2. CASE H = Append(G, now)
      <4>1. /\ Len(H) = Len(G) + 1 /\ H[Len(G) + 1] = now /\ Len(G) \in Nat
            /\ \A i \in 1..Len(G) : H[i] = G[i]
        BY <1>3, <3>2
      <4>2. \A i \in 1..Len(H) : i \in 1..Len(G) \/ i = Len(G) + 1
        BY <4>1
      <4> QED BY <2>3, <2>4, <4>1, <4>2
    <3> QED BY <1>2, <3>1, <3>2
  <2>6. Pressing(l, from)' \subseteq Pressing(l, from) \ {t}
    BY <1>1 DEF Pressing, Window
  <2>7. CASE \A i \in 1..p : G[i] \notin Window(from)
    <3>1. CASE \A i \in 1..q : V[i] \notin Window(from)
      <4>1. ASSUME NEW i \in 1..(p + q)
            PROVE  H[i] \notin Window(from)
        <5>1. i \in 1..Len(G)
          BY <1>2, <1>5, <4>1
        <5>2. H[i] = G[i]
          <6>1. CASE H = Append(G, now)
            BY <1>1, <1>3, <5>1, <6>1
          <6> QED BY <1>2, <6>1
        <5>3. CASE i \in 1..p
          BY <2>7, <5>2, <5>3
        <5>4. CASE i \notin 1..p
          <6>1. i - p \in 1..q /\ i - p \in 1..Len(V) /\ p + (i - p) = i
            BY <1>2, <1>5, <4>1, <5>4
          <6> QED BY <1>3, <3>1, <5>2, <6>1
        <5> QED BY <5>3, <5>4
      <4> QED BY <1>5, <4>1 DEF RateHeld, Window, W, H
    <3>2. CASE \E i \in 1..q : V[i] \in Window(from)
      <4>1. now >= from + LimitWindow
        <5>1. PICK i \in 1..q : V[i] \in Window(from)
          BY <3>2
        <5>2. V[i] + LimitWindow <= now /\ V[i] \in Nat /\ V[i] >= from
          <6>1. V[i] \in Nat /\ V[i] + LimitWindow <= now
            <7>1. V[i] + LimitWindow <= now
              BY <1>2, <5>1, Zenon
            <7>2. i \in 1..Len(V)
              BY <1>5, <5>1
            <7>3. \A s \in Seq(Nat) : \A k \in 1..Len(s) : s[k] \in Nat
              OBVIOUS
            <7> QED BY <1>3, <7>1, <7>2, <7>3, Zenon
          <6>2. V[i] \in from..(from + LimitWindow - 1)
            BY <5>1, Zenon DEF Window
          <6> HIDE DEF V, now
          <6> QED BY <1>4, <2>1, <6>1, <6>2
        <5> QED BY <1>1, <1>4, <2>1, <5>2
      <4>2. now \notin Window(from) /\ clock >= from + LimitWindow
        BY <1>1, <1>4, <2>1, <4>1 DEF Window
      <4>3. Cardinality(Granted(l, from)) <= Limit
        BY <1>3, <2>1, <2>7, RateBound DEF G, V
      <4>4. Cardinality(Granted(l, from)') <= Limit /\ Cardinality(Granted(l, from)') \in Nat
        BY <1>4, <2>2, <2>5, <4>2, <4>3, FS_Subset, FS_CardinalityType
      <4>5. /\ Cardinality(Pressing(l, from)') <= Cardinality(Threads) - 1
            /\ Cardinality(Pressing(l, from)') \in Nat
        <5>1. Pressing(l, from)' \subseteq Threads \ {t}
          BY <2>6 DEF Pressing
        <5>2. IsFiniteSet(Threads \ {t}) /\ Cardinality(Threads \ {t}) = Cardinality(Threads) - 1
          BY FS_RemoveElement
        <5> QED BY <5>1, <5>2, FS_Subset, FS_CardinalityType
      <4> HIDE DEF p, G, V, H, W, now
      <4>6. Cardinality(Granted(l, from)') + Cardinality(Pressing(l, from)') < Limit + Cardinality(Threads)
        BY <1>4, <2>2, <4>4, <4>5
      <4> QED BY <1>1, <4>2, <4>6 DEF RateHeld
    <3> QED BY <3>1, <3>2
  <2>8. CASE /\ clock >= from + LimitWindow
             /\ Cardinality(Granted(l, from)) + Cardinality(Pressing(l, from))
                  < Limit + Cardinality(Threads)
    <3>1. CASE now \in Window(from)
      <4>1. t \in Pressing(l, from)
        BY <1>0, <1>1, <3>1 DEF Pressing, now
      <4>2. /\ IsFiniteSet(Pressing(l, from) \ {t})
            /\ Cardinality(Pressing(l, from) \ {t}) = Cardinality(Pressing(l, from)) - 1
        BY <2>2, <4>1, FS_RemoveElement
      <4>3. /\ Cardinality(Pressing(l, from)') <= Cardinality(Pressing(l, from)) - 1
            /\ Cardinality(Pressing(l, from)') \in Nat
        BY <2>6, <4>2, FS_Subset, FS_CardinalityType
      <4>4. /\ Cardinality(Granted(l, from)') <= Cardinality(Granted(l, from)) + 1
            /\ Cardinality(Granted(l, from)') \in Nat
        <5> DEFINE e == Len(G) + 1
        <5>1. /\ IsFiniteSet(Granted(l, from) \cup {e})
              /\ Cardinality(Granted(l, from) \cup {e}) <= Cardinality(Granted(l, from)) + 1
              /\ Cardinality(Granted(l, from) \cup {e}) \in Nat
          <6> HIDE DEF e
          <6> QED BY <2>2, AddOne
        <5>2. Granted(l, from)' \subseteq Granted(l, from) \cup {e}
          BY <2>5
        <5> HIDE DEF e
        <5> QED BY <2>2, <5>1, <5>2, FS_Subset, FS_CardinalityType
      <4>5. Cardinality(Granted(l, from)') + Cardinality(Pressing(l, from)') < Limit + Cardinality(Threads)
        <5>1. /\ \A a, b, c, d, sum \in Nat : a <= c + 1 /\ b <= d - 1 /\ c + d < sum => a + b < sum
              /\ \A a, b \in Nat : a + b \in Nat
          OBVIOUS
        <5> QED BY <1>4, <2>2, <2>8, <4>3, <4>4, <5>1, Zenon
      <4> QED BY <1>1, <2>8, <4>5 DEF RateHeld
    <3>2. CASE now \notin Window(from)
      <4>1. /\ Cardinality(Pressing(l, from)') <= Cardinality(Pressing(l, from))
            /\ Cardinality(Pressing(l, from)') \in Nat
        <5>1. Pressing(l, from)' \subseteq Pressing(l, from)
          BY <2>6
        <5> QED BY <2>2, <5>1, FS_Subset, FS_CardinalityType
      <4>2. /\ Cardinality(Granted(l, from)') <= Cardinality(Granted(l, from))
            /\ Cardinality(Granted(l, from)') \in Nat
        BY <2>2, <2>5, <3>2, FS_Subset, FS_CardinalityType
      <4>3. Cardinality(Granted(l, from)') + Cardinality(Pressing(l, from)') < Limit + Cardinality(Threads)
        BY <1>4, <2>2, <2>8, <4>1, <4>2
      <4> QED BY <1>1, <2>8, <4>3 DEF RateHeld
    <3> QED BY <3>1, <3>2
  <2> QED BY <2>1, <2>7, <2>8 DEF RateHeld, G, V
<1>9. ASSUME NEW i \in 1..Len(binding), i # l
      PROVE  RateOK(i)' /\ \A from \in 0..MaxClock : RateHeld(i, from)'
  <2>1. binding'[i] = binding[i] /\ RateOK(i) /\ UNCHANGED clock
    BY <1>1, <1>9 DEF RateInv
  <2>2. RateOK(i)'
    BY <2>1 DEF RateOK
  <2>3. ASSUME NEW from \in 0..MaxClock
        PROVE  RateHeld(i, from)'
    <3>1. RateHeld(i, from) /\ from \in Nat
      BY <1>9, <2>3, PortalAssumption DEF RateInv
    <3>2. Pressing(i, from)' \subseteq Pressing(i, from)
      BY <1>1 DEF Pressing, Window
    <3>3. /\ IsFiniteSet(Pressing(i, from)) /\ Cardinality(Pressing(i, from)) \in Nat
          /\ Cardinality(Granted(i, from)) \in Nat /\ Cardinality(Threads) \in Nat
      BY <2>1, <3>1, RateSets
    <3>4. Cardinality(Pressing(i, from)') <= Cardinality(Pressing(i, from))
          /\ Cardinality(Pressing(i, from)') \in Nat
      BY <3>2, <3>3, FS_Subset, FS_CardinalityType
    <3>5. Granted(i, from)' = Granted(i, from)
      BY <2>1 DEF Granted, Window
    <3>6. CASE \A j \in 1..(Len(binding[i].granted) - Len(binding[i].values)) :
                 binding[i].granted[j] \notin Window(from)
      BY <2>1, <3>6 DEF RateHeld, Window
    <3>7. CASE /\ clock >= from + LimitWindow
               /\ Cardinality(Granted(i, from)) + Cardinality(Pressing(i, from))
                    < Limit + Cardinality(Threads)
      <4>1. Cardinality(Granted(i, from)') + Cardinality(Pressing(i, from)') < Limit + Cardinality(Threads)
        BY <1>4, <3>3, <3>4, <3>5, <3>7
      <4> QED BY <2>1, <3>7, <4>1 DEF RateHeld
    <3> QED BY <3>1, <3>6, <3>7 DEF RateHeld
  <2> QED BY <2>2, <2>3
<1> QED BY <1>1, <1>7, <1>8, <1>9 DEF RateInv

LEMMA RateStep ==
  ASSUME CountInv, RateInv, TimesPassed, IsFiniteSet(Threads), [PortalNext]_allVars
  PROVE  RateInv'
<1>1. CountsOK
  BY DEF CountInv
<1>2. ASSUME NEW t \in Threads, Allow(t)
      PROVE  RateInv'
  BY <1>1, <1>2, RateAllow
<1>3. ASSUME Calm \/ Crash \/ \E t \in Threads : Fails(t) \/ RecordFailure(t)
      PROVE  RateInv'
  <2>1. RatesKept
    BY <1>1, <1>3, RateOthers
  <2> QED BY <1>1, <2>1, RateQuiet
<1> QED BY <1>1, <1>2, <1>3, StepKinds

LEMMA RateHolds ==
  ASSUME CountInv, RateInv, IsFiniteSet(Threads), Threads # {}
  PROVE  RequestsBounded
<1>1. Cardinality(Threads) \in Nat /\ Cardinality(Threads) # 0
  BY FS_CardinalityType, FS_EmptySet
<1>2. SUFFICES ASSUME NEW l \in 1..Len(binding), NEW from \in 0..MaxClock
               PROVE  Within(binding[l].granted, from, LimitWindow) < Limit + Cardinality(Threads)
  BY DEF RequestsBounded, Listener
<1>3. Within(binding[l].granted, from, LimitWindow) = Cardinality(Granted(l, from))
  BY DEF Within, Granted, Window
<1>4. RateOK(l) /\ RateHeld(l, from) /\ from \in Nat /\ Limit \in Nat
  BY PortalAssumption DEF RateInv
<1>5. Cardinality(Granted(l, from)) \in Nat /\ Cardinality(Pressing(l, from)) \in Nat
  BY <1>4, RateSets
<1>6. CASE \A i \in 1..(Len(binding[l].granted) - Len(binding[l].values)) :
             binding[l].granted[i] \notin Window(from)
  <2>1. Cardinality(Granted(l, from)) <= Limit
    BY <1>4, <1>6, RateBound
  <2> QED BY <1>1, <1>3, <1>4, <1>5, <2>1
<1>7. CASE Cardinality(Granted(l, from)) + Cardinality(Pressing(l, from)) < Limit + Cardinality(Threads)
  BY <1>1, <1>3, <1>4, <1>5, <1>7
<1> QED BY <1>4, <1>6, <1>7 DEF RateHeld

(* The throttle *)

\* A listener that accepts, or one with a handler that goes on.
Live(l) ==
  \/ l = Len(binding) /\ listening
  \/ \E t \in Threads : handler[t].at # "idle" /\ handler[t].listener = l

LivesKept == \A l \in 1..Len(binding) : Live(l)' => Live(l)

LEMMA BindLen ==
  ASSUME CountsOK, NEW l \in 1..Len(binding), NEW b, Bind(l, b)
  PROVE  Len(binding') = Len(binding)
<1>1. PICK S : binding \in Seq(S)
  BY DEF CountsOK, BindingsOK
<1>2. binding \in Seq(S \cup {b}) /\ b \in S \cup {b}
  BY <1>1
<1> QED BY <1>2, ExceptSeq DEF Bind

\* No step gives a listener that is done a handler.
LEMMA HandleLives ==
  ASSUME CountsOK, NEW t \in Threads, Handle(t)
  PROVE  LivesKept
<1>0. handler \in [Threads -> Handler]
  BY DEF CountsOK, HandlersOK
<1>1. ASSUME NEW h, Become(t, h), UNCHANGED listening, Len(binding') = Len(binding),
             h.at # "idle" => \/ h.listener = Len(binding) /\ listening
                              \/ handler[t].at # "idle" /\ h.listener = handler[t].listener
      PROVE  LivesKept
  <2>1. handler'[t] = h /\ \A s \in Threads : s # t => handler'[s] = handler[s]
    BY <1>0, <1>1 DEF Become
  <2> SUFFICES ASSUME NEW l \in 1..Len(binding), Live(l)'
               PROVE  Live(l)
    BY DEF LivesKept
  <2>2. CASE l = Len(binding') /\ listening'
    BY <1>1, <2>2 DEF Live
  <2>3. ASSUME NEW s \in Threads, handler'[s].at # "idle", handler'[s].listener = l
        PROVE  Live(l)
    BY <1>1, <2>1, <2>3 DEF Live
  <2> QED BY <2>2, <2>3 DEF Live
<1>2. ASSUME NEW h, Become(t, h), UNCHANGED listening, Len(binding') = Len(binding),
             handler[t].at # "idle", h.listener = handler[t].listener
      PROVE  LivesKept
  BY <1>1, <1>2
<1>3. ASSUME Answer(t), UNCHANGED listening, Len(binding') = Len(binding)
      PROVE  LivesKept
  BY <1>1, <1>3 DEF Answer, Idle
<1>4. ASSUME NEW label, Proceed(t, label), handler[t].at # "idle", UNCHANGED listening,
             Len(binding') = Len(binding)
      PROVE  LivesKept
  <2>1. [handler[t] EXCEPT !.at = label].listener = handler[t].listener
    BY <1>0 DEF Handler
  <2> QED BY <1>2, <1>4, <2>1 DEF Proceed
<1>5. ASSUME NEW l, NEW kind, NEW right, authorize(t, l, kind, right),
             UNCHANGED listening, Len(binding') = Len(binding),
             \/ l = Len(binding) /\ listening
             \/ handler[t].at # "idle" /\ l = handler[t].listener
      PROVE  LivesKept
  <2> DEFINE h == [at |-> IF right THEN "session" ELSE "failed",
                   listener |-> l, kind |-> kind, right |-> right, now |-> clock]
  <2>1. Answer(t) \/ Become(t, h)
    BY <1>5 DEF authorize
  <2>2. h.listener = l
    OBVIOUS
  <2> HIDE DEF h
  <2> QED BY <1>1, <1>3, <1>5, <2>1, <2>2
<1>6. ASSUME NEW right \in BOOLEAN, Get(t, right)
      PROVE  LivesKept
  BY <1>5, <1>6 DEF Get, sessionVars, Listener
<1>7. ASSUME NEW right \in BOOLEAN, Post(t, right)
      PROVE  LivesKept
  BY <1>1, <1>7 DEF Post, sessionVars, Listener
<1>8. CASE AuthorizeLauncher(t)
  BY <1>5, <1>8 DEF AuthorizeLauncher, At, sessionVars
<1>9. CASE AuthorizeSession(t)
  <2>1. [handler[t] EXCEPT !.at = "failed", !.now = clock].listener = handler[t].listener
    BY <1>0 DEF Handler
  <2> QED BY <1>2, <1>3, <1>4, <1>9, <2>1 DEF AuthorizeSession, At, sessionVars
<1>10. CASE Allow(t) \/ RecordFailure(t) \/ RecordDownload(t) \/ CountNotStored(t)
  <2>1. ~At(t, "idle") /\ handler[t].at # "idle" /\ UNCHANGED listening
    BY <1>10 DEF Allow, RecordFailure, RecordDownload, CountNotStored, At, sessionVars
  <2>2. PICK b : Bind(handler[t].listener, b)
    BY <1>10 DEF Allow, allow, RecordFailure, RecordDownload, CountNotStored
  <2>3. Len(binding') = Len(binding)
    BY <2>1, <2>2, MineOK, BindLen
  <2>4. [handler[t] EXCEPT !.at = "append", !.right = FALSE].listener = handler[t].listener
    BY <1>0 DEF Handler
  <2>5. \/ Proceed(t, "launcher") \/ Proceed(t, "append") \/ Answer(t)
        \/ Become(t, [handler[t] EXCEPT !.at = "append", !.right = FALSE])
    BY <1>10 DEF Allow, allow, RecordFailure, RecordDownload, CountNotStored
  <2> QED BY <1>2, <1>3, <1>4, <2>1, <2>3, <2>4, <2>5
<1>11. CASE DownloadRaises(t)
  BY <1>3, <1>11 DEF DownloadRaises, sessionVars
<1>12. CASE AppendEntry(t)
  <2>1. UNCHANGED <<binding, listening>> /\ (UNCHANGED handler \/ Answer(t))
    BY <1>12 DEF AppendEntry, sessionVars
  <2> QED BY <1>3, <2>1 DEF LivesKept, Live
<1> QED BY <1>6, <1>7, <1>8, <1>9, <1>10, <1>11, <1>12 DEF Handle

LEMMA LiveStep ==
  ASSUME CountsOK, [PortalNext]_allVars
  PROVE  LivesKept
<1>1. CASE UNCHANGED <<handler, binding, listening>>
  BY <1>1 DEF LivesKept, Live
<1>2. CASE Pause
  BY <1>2 DEF Pause, handlerVars, LivesKept, Live
<1>3. CASE Listen
  <2>1. PICK S : binding \in Seq(S)
    BY DEF CountsOK, BindingsOK
  <2>2. Len(binding') = Len(binding) + 1 /\ Len(binding) \in Nat /\ handler' = handler
    <3>1. binding \in Seq(S \cup {new_portal}) /\ new_portal \in S \cup {new_portal}
      BY <2>1
    <3> QED BY <1>3, <3>1 DEF Listen, handlerVars
  <2> QED BY <2>2 DEF LivesKept, Live
<1>4. ASSUME NEW enabled \in BOOLEAN, Configure(enabled)
      PROVE  LivesKept
  <2>1. handler' = handler /\ listening' = listening
    BY <1>4 DEF Configure, handlerVars
  <2>2. Len(binding') = Len(binding)
    <3>1. CASE listening
      <4>1. Listener \in 1..Len(binding)
        BY <3>1 DEF CountsOK, BindingsOK, Listener
      <4> QED BY <1>4, <3>1, <4>1, BindLen DEF Configure
    <3>2. CASE ~listening
      BY <1>4, <3>2 DEF Configure
    <3> QED BY <3>1, <3>2
  <2> QED BY <2>1, <2>2 DEF LivesKept, Live
<1>5. CASE Crash
  BY <1>5 DEF Crash, Idle, LivesKept, Live
<1>6. ASSUME NEW t \in Threads, Handle(t)
      PROVE  LivesKept
  BY <1>6, HandleLives
<1> QED BY <1>1, <1>2, <1>3, <1>4, <1>5, <1>6
     DEF PortalNext, Start, ReadStatus, WriteStatus, Tick, handlerVars, allVars, portalVars

\* What is remembered of failed attempts; those of one time are told apart by numbers.
FailuresOK(l) ==
  LET failures == binding[l].failures
  IN  /\ IsFiniteSet(failures) /\ binding[l].blocked \in Nat
      /\ \A a \in failures : /\ a.at \in Nat /\ a.no \in Nat
                             /\ a.no < Cardinality(made(failures, a.at))

Period(from) == from..(from + Throttle - 1)
Recorded(l, from) == {a \in binding[l].failures : a.at \in Period(from)}

\* Attempts that failed and are not recorded yet: before the period, or in it.
Slow(l, from) ==
  {t \in Threads : handler[t].at = "failed" /\ handler[t].listener = l /\ handler[t].now < from}
Failing(l, from) ==
  {t \in Threads : handler[t].at = "failed" /\ handler[t].listener = l /\ handler[t].now >= from}

\* 2 + 4 + ... + 2 n
Steps(n) == n * (n + 1)
Bound(n) == 2 * (MaximumFailures - 1) + Steps(n)
Width == Cardinality(Threads)

\* Three conditions of a listener in a period, by the numbers of codes compared (g),
\* attempts recorded (r), failing (f) and slow (s).  Below the limit each code compared is
\* recorded or about to be.
Below(g, r, f) == r < MaximumFailures /\ g <= r + f

\* At the limit and blocked for the rest of the period: a slow thread may still end it.
Blocked(l, from, g, r, s) ==
  /\ clock >= from /\ r >= MaximumFailures
  /\ binding[l].blocked >= from + Throttle
  /\ 2 * g <= Bound(Width - s)

\* The block was cut short: whoever records next in the period puts it back.
Cut(from, g, r, f, s) ==
  /\ clock >= from /\ r >= MaximumFailures /\ s < Width
  /\ 2 * g <= Bound(Width - s - 1) + 2 * f

GuessHeld(l, from) ==
  LET g == Cardinality(compared(l, from))
      r == Cardinality(Recorded(l, from))
      f == Cardinality(Failing(l, from))
      s == Cardinality(Slow(l, from))
  IN  /\ 2 * g <= Bound(Width)
      /\ clock < from + Throttle /\ Live(l) =>
           Below(g, r, f) \/ Blocked(l, from, g, r, s) \/ Cut(from, g, r, f, s)

GuessInv ==
  /\ guesses \in Seq([at : Nat, by : Nat])
  /\ \A i \in 1..Len(guesses) : guesses[i].by \in 1..Len(binding)
  /\ \A l \in 1..Len(binding) : FailuresOK(l) /\ \A from \in 0..MaxClock : GuessHeld(l, from)

LEMMA StepsAdd ==
  ASSUME NEW n \in Nat
  PROVE  Steps(n) \in Nat /\ Steps(n + 1) = Steps(n) + 2 * (n + 1) /\ 2 * n <= Steps(n)
<1>1. (n + 1) * ((n + 1) + 1) = n * (n + 1) + 2 * (n + 1)
  OBVIOUS
<1>2. n * (n + 1) \in Nat /\ 2 * n <= n * (n + 1)
  <2>1. CASE n = 0
    BY <2>1
  <2>2. CASE n >= 1
    <3>1. n * (n + 1) = n * n + n /\ n * n >= n
      BY <2>2
    <3> QED BY <3>1
  <2> QED BY <2>1, <2>2
<1> QED BY <1>1, <1>2 DEF Steps

\* What a listener below the limit has compared stays within the bound, ...
LEMMA BelowBound ==
  ASSUME MaximumFailures \in Nat, NEW g \in Nat, NEW r \in Nat, NEW f \in Nat, NEW n \in Nat,
         r < MaximumFailures, g <= r + f, f <= n, Steps(n) \in Nat, 2 * n <= Steps(n)
  PROVE  2 * g <= Bound(n)
<1> DEFINE steps == Steps(n)
<1> HIDE DEF steps
<1>1. steps \in Nat /\ 2 * n <= steps
  BY DEF steps
<1>2. 2 * g <= 2 * (MaximumFailures - 1) + steps
  BY <1>1
<1> QED BY <1>2, Zenon DEF Bound, steps

\* ... so does what one whose block was cut has, once a failing thread is done ...
LEMMA CutBound ==
  ASSUME MaximumFailures \in Nat, NEW g \in Nat, NEW f \in Nat, NEW n \in Nat, NEW k \in Nat,
         n = k + 1, f <= n, Steps(k) \in Nat, Steps(n) = Steps(k) + 2 * n, 2 * g <= Bound(k) + 2 * f
  PROVE  2 * g <= Bound(n)
<1> DEFINE low == Steps(k)
           high == Steps(n)
<1> HIDE DEF low, high
<1>1. low \in Nat /\ high = low + 2 * n
  BY DEF low, high
<1>2. 2 * g <= 2 * (MaximumFailures - 1) + low + 2 * f
  BY Zenon DEF Bound, low
<1>3. 2 * g <= 2 * (MaximumFailures - 1) + high
  BY <1>1, <1>2
<1> QED BY <1>3, Zenon DEF Bound, high

\* ... and the bound grows with the threads.
LEMMA BoundGrows ==
  ASSUME MaximumFailures \in Nat \ {0}, NEW n \in Nat, NEW k \in Nat,
         n = k + 1, Steps(k) \in Nat, Steps(n) = Steps(k) + 2 * n
  PROVE  Bound(k) \in Nat /\ Bound(n) \in Nat /\ Bound(k) <= Bound(n)
BY DEF Bound

LEMMA StepsGrow ==
  ASSUME NEW m \in Nat, NEW n \in Nat, m <= n
  PROVE  Steps(m) <= Steps(n)
<1>1. m * m <= n * n
  OBVIOUS
<1>2. m * (m + 1) = m * m + m /\ n * (n + 1) = n * n + n
  OBVIOUS
<1>3. m * m \in Nat /\ n * n \in Nat
  OBVIOUS
<1> QED BY <1>1, <1>2, <1>3 DEF Steps

LEMMA DisjointSum ==
  ASSUME NEW S, IsFiniteSet(S), NEW A, NEW B, A \subseteq S, B \subseteq S, A \cap B = {}
  PROVE  Cardinality(A) + Cardinality(B) <= Cardinality(S)
<1>1. IsFiniteSet(B) /\ Cardinality(B) \in Nat /\ Cardinality(S) \in Nat
  BY FS_Subset, FS_CardinalityType
<1>2. IsFiniteSet(S \ B) /\ Cardinality(S \ B) = Cardinality(S) - Cardinality(B)
  <2>1. S \cap B = B
    OBVIOUS
  <2> QED BY <2>1, FS_Difference
<1>3. A \subseteq S \ B
  OBVIOUS
<1>4. Cardinality(A) <= Cardinality(S \ B) /\ Cardinality(A) \in Nat
  BY <1>2, <1>3, FS_Subset, FS_CardinalityType
<1> QED BY <1>1, <1>2, <1>4

LEMMA GuessSets ==
  ASSUME IsFiniteSet(Threads), CountsOK, guesses \in Seq([at : Nat, by : Nat]),
         NEW l \in 1..Len(binding), FailuresOK(l), NEW from \in Nat
  PROVE  /\ IsFiniteSet(compared(l, from)) /\ Cardinality(compared(l, from)) \in Nat
         /\ IsFiniteSet(Recorded(l, from)) /\ Cardinality(Recorded(l, from)) \in Nat
         /\ IsFiniteSet(Slow(l, from)) /\ Cardinality(Slow(l, from)) \in Nat
         /\ IsFiniteSet(Failing(l, from)) /\ Cardinality(Failing(l, from)) \in Nat
         /\ Width \in Nat /\ Cardinality(Failing(l, from)) + Cardinality(Slow(l, from)) <= Width
         /\ Cardinality(Recorded(l, from)) <= Cardinality(binding[l].failures)
         /\ Cardinality(binding[l].failures) \in Nat
<1>1. IsFiniteSet(compared(l, from)) /\ Cardinality(compared(l, from)) \in Nat
  <2> DEFINE n == Len(guesses)
  <2>1. 1 \in Int /\ n \in Int /\ DOMAIN guesses = 1..n
    OBVIOUS
  <2> HIDE DEF n
  <2>2. IsFiniteSet(1..n)
    BY <2>1, FS_Interval
  <2>3. compared(l, from) \subseteq 1..n
    BY <2>1 DEF compared
  <2> QED BY <2>2, <2>3, FS_Subset, FS_CardinalityType
<1>2. /\ IsFiniteSet(Recorded(l, from)) /\ Cardinality(Recorded(l, from)) \in Nat
      /\ Cardinality(Recorded(l, from)) <= Cardinality(binding[l].failures)
      /\ Cardinality(binding[l].failures) \in Nat
  <2>1. IsFiniteSet(binding[l].failures)
    BY DEF FailuresOK
  <2>2. Recorded(l, from) \subseteq binding[l].failures
    BY DEF Recorded
  <2> QED BY <2>1, <2>2, FS_Subset, FS_CardinalityType
<1>3. Slow(l, from) \subseteq Threads /\ IsFiniteSet(Slow(l, from)) /\ Cardinality(Slow(l, from)) \in Nat
  <2>1. Slow(l, from) \subseteq Threads
    BY DEF Slow
  <2> QED BY <2>1, FS_Subset, FS_CardinalityType
<1>4. Failing(l, from) \subseteq Threads /\ IsFiniteSet(Failing(l, from)) /\ Cardinality(Failing(l, from)) \in Nat
  <2>1. Failing(l, from) \subseteq Threads
    BY DEF Failing
  <2> QED BY <2>1, FS_Subset, FS_CardinalityType
<1>5. Failing(l, from) \cap Slow(l, from) = {}
  <2>1. \A t \in Threads : handler[t].now \in Nat
    BY DEF CountsOK, HandlersOK, Handler
  <2> QED BY <2>1 DEF Failing, Slow
<1>6. Width \in Nat /\ Cardinality(Failing(l, from)) + Cardinality(Slow(l, from)) <= Width
  BY <1>3, <1>4, <1>5, DisjointSum, FS_CardinalityType DEF Width
<1> QED BY <1>1, <1>2, <1>3, <1>4, <1>6

\* Each of the three conditions implies the bound.
LEMMA BoundImplied ==
  ASSUME NEW g \in Nat, NEW r \in Nat, NEW f \in Nat, NEW s \in Nat,
         Width \in Nat, f + s <= Width,
         \/ Below(g, r, f)
         \/ 2 * g <= Bound(Width - s)
         \/ s < Width /\ 2 * g <= Bound(Width - s - 1) + 2 * f
  PROVE  2 * g <= Bound(Width)
<1>0. MaximumFailures \in Nat \ {0}
  BY PortalAssumption
<1>1. CASE Below(g, r, f)
  <2>1. 2 * Width <= Steps(Width) /\ Steps(Width) \in Nat
    BY StepsAdd
  <2>2. g <= (MaximumFailures - 1) + Width
    BY <1>0, <1>1 DEF Below
  <2> QED BY <1>0, <2>1, <2>2 DEF Bound
<1>2. CASE 2 * g <= Bound(Width - s)
  <2>1. Width - s \in Nat /\ Width - s <= Width
    OBVIOUS
  <2>2. Steps(Width - s) <= Steps(Width) /\ Steps(Width - s) \in Nat /\ Steps(Width) \in Nat
    BY <2>1, StepsGrow, StepsAdd
  <2> QED BY <1>0, <1>2, <2>2 DEF Bound
<1>3. CASE s < Width /\ 2 * g <= Bound(Width - s - 1) + 2 * f
  <2> DEFINE m == Width - s - 1
  <2>1. m \in Nat /\ m + 1 = Width - s /\ m + 1 \in Nat /\ m + 1 <= Width /\ f <= m + 1
    BY <1>3
  <2>2. 2 * g <= Bound(m) + 2 * f
    BY <1>3
  <2> HIDE DEF m
  <2>3. Steps(m + 1) = Steps(m) + 2 * (m + 1) /\ Steps(m) \in Nat
    BY <2>1, StepsAdd
  <2>4. Steps(m + 1) <= Steps(Width) /\ Steps(m + 1) \in Nat /\ Steps(Width) \in Nat
    BY <2>1, StepsGrow, StepsAdd
  <2> QED BY <1>0, <2>1, <2>2, <2>3, <2>4 DEF Bound
<1> QED BY <1>1, <1>2, <1>3

\* What the other steps leave alone.
ThrottleKept ==
  /\ Len(binding') \in Nat /\ Len(binding') >= Len(binding) /\ UNCHANGED guesses
  /\ \A l \in 1..Len(binding) : /\ binding'[l].failures = binding[l].failures
                                /\ binding'[l].blocked = binding[l].blocked
  /\ \A l \in (Len(binding) + 1)..Len(binding') : binding'[l].failures = {} /\ binding'[l].blocked = 0
  /\ \A t \in Threads : handler[t].at = "failed" \/ handler'[t].at = "failed" => handler'[t] = handler[t]
  /\ clock' \in {clock, clock + 1}

LEMMA GuessQuiet ==
  ASSUME CountsOK, GuessInv, ThrottleKept, LivesKept, IsFiniteSet(Threads)
  PROVE  GuessInv'
<1>1. /\ Len(binding) \in Nat /\ Len(binding') \in Nat /\ Len(binding') >= Len(binding)
      /\ clock \in Nat /\ clock' \in Nat /\ clock' >= clock /\ guesses' = guesses
      /\ MaximumFailures \in Nat \ {0} /\ Throttle \in Nat
  BY PortalAssumption DEF CountsOK, BindingsOK, ThrottleKept
<1>2. ASSUME NEW l \in 1..Len(binding)
      PROVE  FailuresOK(l)' /\ \A from \in 0..MaxClock : GuessHeld(l, from)'
  <2>1. binding'[l].failures = binding[l].failures /\ binding'[l].blocked = binding[l].blocked /\ FailuresOK(l)
    BY <1>2 DEF ThrottleKept, GuessInv
  <2>2. FailuresOK(l)'
    BY <2>1 DEF FailuresOK, made
  <2>3. ASSUME NEW from \in 0..MaxClock
        PROVE  GuessHeld(l, from)'
    <3>1. GuessHeld(l, from) /\ from \in Nat
      BY <1>2, <2>3, PortalAssumption DEF GuessInv
    <3>2. compared(l, from)' = compared(l, from)
      BY <1>1 DEF compared
    <3>3. Recorded(l, from)' = Recorded(l, from)
      BY <2>1 DEF Recorded, Period
    <3>4. Slow(l, from)' = Slow(l, from) /\ Failing(l, from)' = Failing(l, from)
      BY DEF Slow, Failing, ThrottleKept
    <3>5. Live(l)' => Live(l)
      BY <1>2 DEF LivesKept
    <3> QED BY <1>1, <2>1, <3>1, <3>2, <3>3, <3>4, <3>5 DEF GuessHeld, Below, Blocked, Cut, Bound, Width
  <2> QED BY <2>2, <2>3
<1>3. ASSUME NEW l \in (Len(binding) + 1)..Len(binding')
      PROVE  FailuresOK(l)' /\ \A from \in 0..MaxClock : GuessHeld(l, from)'
  <2>1. binding'[l].failures = {} /\ binding'[l].blocked = 0
    BY <1>3 DEF ThrottleKept
  <2>2. FailuresOK(l)'
    BY <2>1, FS_EmptySet DEF FailuresOK
  <2>3. ASSUME NEW from \in 0..MaxClock
        PROVE  GuessHeld(l, from)'
    <3>1. compared(l, from)' = {} /\ Recorded(l, from)' = {}
      <4>1. \A i \in DOMAIN guesses : guesses[i].by # l
        <5>1. DOMAIN guesses = 1..Len(guesses)
          BY DEF GuessInv
        <5>2. \A i \in DOMAIN guesses : guesses[i].by \in 1..Len(binding)
          BY <5>1 DEF GuessInv
        <5> QED BY <1>1, <1>3, <5>2
      <4> QED BY <1>1, <2>1, <4>1 DEF compared, Recorded
    <3>2. Cardinality(compared(l, from)') = 0 /\ Cardinality(Recorded(l, from)') = 0
      BY <3>1, FS_EmptySet
    <3>3. Cardinality(Failing(l, from)') \in Nat
      <4>1. Failing(l, from)' \subseteq Threads
        BY DEF Failing
      <4> QED BY <4>1, FS_Subset, FS_CardinalityType
    <3>4. Steps(Width) \in Nat /\ Width' = Width
      BY StepsAdd, FS_CardinalityType DEF Width
    <3>5. Below(0, 0, Cardinality(Failing(l, from)'))
      BY <1>1, <3>3 DEF Below
    <3> QED BY <1>1, <3>2, <3>4, <3>5 DEF GuessHeld, Bound, Below
  <2> QED BY <2>2, <2>3
<1>4. \A l \in 1..Len(binding') : l \in 1..Len(binding) \/ l \in (Len(binding) + 1)..Len(binding')
  BY <1>1
<1>5. \A i \in 1..Len(guesses) : guesses[i].by \in 1..Len(binding')
  BY <1>1 DEF GuessInv
<1> QED BY <1>1, <1>2, <1>3, <1>4, <1>5 DEF GuessInv

\* When the process ends, nothing is compared any more for the listeners it had.
LEMMA GuessCrash ==
  ASSUME CountsOK, GuessInv, Crash
  PROVE  GuessInv'
<1>1. /\ UNCHANGED <<clock, binding, guesses>> /\ listening' = FALSE
      /\ \A t \in Threads : handler'[t].at = "idle"
  BY DEF Crash, Idle
<1>2. ASSUME NEW l \in 1..Len(binding)
      PROVE  FailuresOK(l)' /\ \A from \in 0..MaxClock : GuessHeld(l, from)'
  <2>1. FailuresOK(l)'
    BY <1>1, <1>2 DEF GuessInv, FailuresOK, made
  <2>2. ~Live(l)'
    BY <1>1 DEF Live
  <2>3. ASSUME NEW from \in 0..MaxClock
        PROVE  GuessHeld(l, from)'
    <3>1. compared(l, from)' = compared(l, from)
      BY <1>1 DEF compared
    <3> QED BY <1>1, <1>2, <2>2, <2>3, <3>1 DEF GuessInv, GuessHeld, Bound, Width
  <2> QED BY <2>1, <2>3
<1> QED BY <1>1, <1>2 DEF GuessInv

\* A failed attempt adds to what was compared and to what is failing, or to the slow.
LEMMA GuessFails ==
  ASSUME CountsOK, GuessInv, LivesKept, IsFiniteSet(Threads), NEW t \in Threads, Fails(t)
  PROVE  GuessInv'
<1>1. PICK h \in Handler :
        /\ Become(t, h)
        /\ h.at = "failed" /\ h.now = clock /\ h.listener \in 1..Len(binding)
        /\ \/ UNCHANGED guesses
           \/ ~throttled(h.listener) /\ guesses' = Append(guesses, [at |-> clock, by |-> h.listener])
  BY DEF Fails
<1>2. /\ UNCHANGED <<clock, binding>> /\ handler[t].at # "failed" /\ handler'[t] = h
      /\ \A s \in Threads : s # t => handler'[s] = handler[s]
      /\ clock \in Nat /\ MaximumFailures \in Nat \ {0} /\ Throttle \in Nat
  BY <1>1, PortalAssumption DEF Fails, Become, CountsOK, HandlersOK
<1>3. /\ guesses \in Seq([at : Nat, by : Nat]) /\ guesses' \in Seq([at : Nat, by : Nat])
      /\ \A i \in 1..Len(guesses') : guesses'[i].by \in 1..Len(binding)
  <2>1. guesses \in Seq([at : Nat, by : Nat]) /\ \A i \in 1..Len(guesses) : guesses[i].by \in 1..Len(binding)
    BY DEF GuessInv
  <2>2. CASE guesses' = Append(guesses, [at |-> clock, by |-> h.listener])
    <3> DEFINE e == [at |-> clock, by |-> h.listener]
    <3>1. e \in [at : Nat, by : Nat] /\ e.by \in 1..Len(binding)
      BY <1>1, <1>2 DEF Handler
    <3> HIDE DEF e
    <3>2. /\ Append(guesses, e) \in Seq([at : Nat, by : Nat])
          /\ \A i \in 1..Len(Append(guesses, e)) : Append(guesses, e)[i].by \in 1..Len(binding)
      BY <2>1, <3>1
    <3> QED BY <2>1, <2>2, <3>2 DEF e
  <2> QED BY <1>1, <2>1, <2>2
<1>4. ASSUME NEW l \in 1..Len(binding), NEW from \in 0..MaxClock
      PROVE  GuessHeld(l, from)'
  <2> DEFINE g == Cardinality(compared(l, from))
             r == Cardinality(Recorded(l, from))
             f == Cardinality(Failing(l, from))
             s == Cardinality(Slow(l, from))
  <2>1. GuessHeld(l, from) /\ FailuresOK(l) /\ from \in Nat /\ (Live(l)' => Live(l))
    BY <1>4, PortalAssumption DEF GuessInv, LivesKept
  <2>2. /\ IsFiniteSet(compared(l, from)) /\ g \in Nat /\ r \in Nat
        /\ IsFiniteSet(Failing(l, from)) /\ f \in Nat
        /\ IsFiniteSet(Slow(l, from)) /\ s \in Nat
        /\ Width \in Nat /\ Width' = Width /\ f + s <= Width
    BY <1>3, <2>1, GuessSets DEF Width
  <2>3. Recorded(l, from)' = Recorded(l, from) /\ binding'[l].blocked = binding[l].blocked
    BY <1>2 DEF Recorded, Period
  <2>4. /\ compared(l, from)' \subseteq compared(l, from) \cup {Len(guesses) + 1}
        /\ compared(l, from)' = compared(l, from)
           \/ (h.listener = l /\ clock \in Period(from) /\ ~throttled(l))
    <3>1. CASE UNCHANGED guesses
      BY <3>1 DEF compared
    <3>2. CASE ~throttled(h.listener) /\ guesses' = Append(guesses, [at |-> clock, by |-> h.listener])
      <4> DEFINE e == [at |-> clock, by |-> h.listener]
      <4>1. e.at = clock /\ e.by = h.listener /\ e \in [at : Nat, by : Nat]
        BY <1>1, <1>2 DEF Handler
      <4> HIDE DEF e
      <4>2. /\ DOMAIN guesses = 1..Len(guesses) /\ Len(guesses) \in Nat
            /\ DOMAIN guesses' = 1..(Len(guesses) + 1) /\ guesses'[Len(guesses) + 1] = e
            /\ \A i \in 1..Len(guesses) : guesses'[i] = guesses[i]
        BY <1>3, <3>2, <4>1 DEF e
      <4>3. \A i \in 1..(Len(guesses) + 1) : i \in 1..Len(guesses) \/ i = Len(guesses) + 1
        BY <4>2
      <4>4. compared(l, from)' \subseteq compared(l, from) \cup {Len(guesses) + 1}
        BY <4>2, <4>3 DEF compared
      <4>5. ASSUME ~(h.listener = l /\ clock \in Period(from))
            PROVE  compared(l, from)' = compared(l, from)
        <5>1. ~(e.by = l /\ e.at \in Period(from))
          BY <4>1, <4>5
        <5> QED BY <4>2, <4>3, <5>1 DEF compared, Period
      <4> QED BY <3>2, <4>4, <4>5
    <3> QED BY <1>1, <3>1, <3>2
  <2>5. CASE h.listener # l \/ clock < from \/ clock >= from + Throttle
    <3>1. compared(l, from)' = compared(l, from)
      BY <1>2, <2>1, <2>4, <2>5 DEF Period
    <3>2. CASE h.listener # l
      <4>1. Slow(l, from)' = Slow(l, from) /\ Failing(l, from)' = Failing(l, from)
        BY <1>1, <1>2, <3>2 DEF Slow, Failing
      <4> QED BY <1>2, <2>1, <2>3, <3>1, <4>1 DEF GuessHeld, Below, Blocked, Cut, Bound, Width
    <3>3. CASE clock < from
      <4>1. Failing(l, from)' = Failing(l, from)
        <5>1. ~(h.now >= from)
          BY <1>1, <1>2, <2>1, <3>3
        <5> QED BY <1>2, <5>1 DEF Failing
      <4>2. ~(clock >= from) /\ clock' = clock
        BY <1>2, <2>1, <3>3
      <4> QED BY <2>1, <2>3, <3>1, <4>1, <4>2 DEF GuessHeld, Below, Blocked, Cut, Bound, Width
    <3>4. CASE clock >= from + Throttle
      <4>1. ~(clock < from + Throttle) /\ clock' = clock
        BY <1>2, <2>1, <3>4
      <4> QED BY <2>1, <3>1, <4>1 DEF GuessHeld, Bound, Width
    <3> QED BY <2>5, <3>2, <3>3, <3>4
  <2>6. CASE h.listener = l /\ clock >= from /\ clock < from + Throttle
    <3>1. Slow(l, from)' = Slow(l, from) /\ Failing(l, from)' = Failing(l, from) \cup {t}
      <4>1. h.now >= from /\ ~(h.now < from)
        BY <1>1, <1>2, <2>1, <2>6
      <4> QED BY <1>1, <1>2, <2>6, <4>1 DEF Slow, Failing
    <3>2. Cardinality(Failing(l, from)') = f + 1
      <4>1. t \notin Failing(l, from)
        BY <1>2 DEF Failing
      <4> QED BY <2>2, <3>1, <4>1, FS_AddElement
    <3>3. /\ Cardinality(compared(l, from)') \in Nat /\ Cardinality(compared(l, from)') <= g + 1
          /\ Cardinality(compared(l, from)') = g \/ ~throttled(l)
      <4> DEFINE e == Len(guesses) + 1
      <4>1. /\ IsFiniteSet(compared(l, from) \cup {e})
            /\ Cardinality(compared(l, from) \cup {e}) \in Nat
            /\ Cardinality(compared(l, from) \cup {e}) <= g + 1
        <5> HIDE DEF e
        <5> QED BY <2>2, AddOne
      <4>2. compared(l, from)' \subseteq compared(l, from) \cup {e}
        BY <2>4
      <4> HIDE DEF e
      <4> QED BY <2>2, <2>4, <4>1, <4>2, FS_Subset, FS_CardinalityType
    <3>4. Live(l)
      <4>1. Live(l)'
        BY <1>1, <1>2, <2>6 DEF Live
      <4> QED BY <2>1, <4>1
    <3>5. (f + 1) + s <= Width
      <4>1. /\ IsFiniteSet(Threads \ {t}) /\ Cardinality(Threads \ {t}) = Width - 1
        BY FS_RemoveElement DEF Width
      <4>2. /\ Failing(l, from) \subseteq Threads \ {t} /\ Slow(l, from) \subseteq Threads \ {t}
            /\ Failing(l, from) \cap Slow(l, from) = {}
        <5>1. \A u \in Threads : handler[u].now \in Nat
          BY DEF CountsOK, HandlersOK, Handler
        <5> QED BY <1>2, <2>1, <5>1 DEF Failing, Slow
      <4>3. f + s <= Cardinality(Threads \ {t})
        BY <4>1, <4>2, DisjointSum
      <4> QED BY <2>2, <4>1, <4>3
    <3> DEFINE g2 == Cardinality(compared(l, from)')
    <3>6. \/ Below(g2, r, f + 1)
          \/ Blocked(l, from, g2, r, s)
          \/ Cut(from, g2, r, f + 1, s)
      <4>1. Below(g, r, f) \/ Blocked(l, from, g, r, s) \/ Cut(from, g, r, f, s)
        BY <2>1, <2>6, <3>4 DEF GuessHeld
      <4> HIDE DEF g, r, f, s, g2
      <4>2. CASE Below(g, r, f)
        BY <2>2, <3>3, <4>2 DEF Below, g2
      <4>3. CASE Cut(from, g, r, f, s)
        <5>1. Bound(Width - s - 1) \in Int
          <6> DEFINE m == Width - s - 1
          <6>1. m \in Nat
            BY <2>2, <4>3 DEF Cut
          <6> HIDE DEF m
          <6>2. Steps(m) \in Nat
            BY <6>1, StepsAdd
          <6>3. Bound(m) \in Int
            BY <1>2, <6>2 DEF Bound
          <6> QED BY <6>3 DEF m
        <5> QED BY <2>2, <3>3, <4>3, <5>1 DEF Cut, g2
      <4>4. CASE Blocked(l, from, g, r, s)
        <5>1. throttled(l)
          <6>1. binding[l].blocked \in Nat
            BY <2>1 DEF FailuresOK
          <6> QED BY <1>2, <2>1, <2>6, <4>4, <6>1 DEF throttled, Blocked
        <5> QED BY <3>3, <4>4, <5>1 DEF g2
      <4> QED BY <4>1, <4>2, <4>3, <4>4
    <3>7. 2 * g2 <= Bound(Width)
      <4>1. g2 \in Nat /\ r \in Nat /\ f + 1 \in Nat /\ s \in Nat
        BY <2>2, <3>3
      <4> DEFINE f2 == f + 1
      <4>2. \/ Below(g2, r, f2)
            \/ 2 * g2 <= Bound(Width - s)
            \/ s < Width /\ 2 * g2 <= Bound(Width - s - 1) + 2 * f2
        BY <3>6 DEF Blocked, Cut
      <4> HIDE DEF g, r, f, s, g2, f2
      <4>3. f2 \in Nat /\ f2 + s <= Width
        BY <3>5, <4>1 DEF f2
      <4> QED BY <2>2, <4>1, <4>2, <4>3, BoundImplied
    <3> QED BY <1>2, <2>2, <2>3, <3>1, <3>2, <3>6, <3>7 DEF GuessHeld, Below, Blocked, Cut, Bound
  <2>7. clock < from \/ clock >= from + Throttle \/ (clock >= from /\ clock < from + Throttle)
    BY <1>2, <2>1
  <2> QED BY <2>5, <2>6, <2>7
<1>5. \A l \in 1..Len(binding) : FailuresOK(l)'
  BY <1>2 DEF GuessInv, FailuresOK, made
<1> QED BY <1>2, <1>3, <1>4, <1>5 DEF GuessInv

\* What a record changes: the attempt is added under a number of its own, old ones drop out,
\* and at the limit the block is set from the time of the attempt.
LEMMA RecordCounts ==
  ASSUME CountsOK, GuessInv, NEW t \in Threads, RecordFailure(t)
  PROVE  LET l == handler[t].listener
             now == handler[t].now
             F == binding[l].failures
             E == binding'[l].failures
         IN  /\ l \in 1..Len(binding) /\ now \in Nat /\ handler[t].at = "failed"
             /\ Len(binding') = Len(binding) /\ UNCHANGED <<clock, guesses>>
             /\ \A i \in 1..Len(binding) : i # l => binding'[i] = binding[i]
             /\ \A s \in Threads : s # t => handler'[s] = handler[s]
             /\ handler'[t].at = "append"
             /\ \E e : /\ e \notin F /\ e.at = now
                       /\ E = {a \in F : a.at + FailureWindow >= now} \cup {e}
             /\ binding'[l].blocked = IF Cardinality(E) >= MaximumFailures
                                      THEN now + Throttle ELSE binding[l].blocked
             /\ IsFiniteSet(E) /\ binding'[l].blocked \in Nat
             /\ \A a \in E : a.at \in Nat /\ a.no \in Nat /\ a.no < Cardinality(made(E, a.at))
<1> DEFINE l == handler[t].listener
           now == handler[t].now
           F == binding[l].failures
           recent == {a \in F : a.at + FailureWindow >= now}
           e == [at |-> now, no |-> Cardinality(made(recent, now))]
           E == recent \cup {e}
           x == IF Cardinality(E) >= MaximumFailures THEN now + Throttle ELSE binding[l].blocked
           b == [mine(t) EXCEPT !.failures = E, !.blocked = x]
           h == [handler[t] EXCEPT !.at = "append", !.right = FALSE]
<1>1. handler[t].at = "failed" /\ ~At(t, "idle") /\ UNCHANGED <<clock, guesses>> /\ Become(t, h)
  BY DEF RecordFailure, At, sessionVars
<1>2. Bind(l, b)
  BY DEF RecordFailure, mine
<1>3. /\ l \in 1..Len(binding) /\ now \in Nat /\ IsBinding(mine(t)) /\ mine(t) = binding[l]
      /\ handler[t] \in Handler
  BY <1>1, MineOK DEF Handler, mine
<1>4. /\ (\A s \in Threads : s # t => handler'[s] = handler[s]) /\ handler'[t].at = "append"
  <2>1. handler \in [Threads -> Handler]
    BY DEF CountsOK, HandlersOK
  <2> QED BY <1>1, <1>3, <2>1 DEF Become, Handler
<1>5. IsBinding(b) /\ b.failures = E /\ b.blocked = x
  <2> HIDE DEF E, x
  <2> QED BY <1>3 DEF IsBinding
<1> HIDE DEF b
<1>6. /\ Len(binding') = Len(binding) /\ binding'[l] = b
      /\ \A i \in 1..Len(binding) : i # l => binding'[i] = binding[i]
  BY <1>2, <1>3, <1>5, BindOK DEF CountsOK
<1>7. /\ IsFiniteSet(F) /\ binding[l].blocked \in Nat /\ FailureWindow \in Nat /\ Throttle \in Nat
      /\ \A a \in F : a.at \in Nat /\ a.no \in Nat /\ a.no < Cardinality(made(F, a.at))
  <2>1. FailuresOK(l)
    BY <1>3, Zenon DEF GuessInv
  <2>2. FailureWindow \in Nat /\ Throttle \in Nat
    BY PortalAssumption
  <2> QED BY <2>1, <2>2 DEF FailuresOK
<1>8. \A n \in Nat : /\ IsFiniteSet(made(F, n)) /\ Cardinality(made(F, n)) \in Nat
                     /\ made(F, n) \subseteq F
  <2>1. \A n \in Nat : made(F, n) \subseteq F
    BY DEF made
  <2> QED BY <1>7, <2>1, FS_Subset, FS_CardinalityType
<1>9. made(recent, now) = made(F, now)
  BY <1>3, <1>7 DEF made
<1>10. e.at = now /\ e.no = Cardinality(made(F, now)) /\ e.no \in Nat
  BY <1>3, <1>8, <1>9
<1>11. e \notin F
  <2>1. \A a \in F : a.at = now => a.no < Cardinality(made(F, now))
    BY <1>7
  <2> HIDE DEF e, F
  <2> QED BY <1>3, <1>8, <1>10, <2>1
<1>12. IsFiniteSet(E)
  <2>1. IsFiniteSet(recent)
    BY <1>7, FS_Subset
  <2> HIDE DEF recent, e
  <2> QED BY <2>1, FS_AddElement, AddOne
<1> HIDE DEF e
<1>13. ASSUME NEW a \in E
       PROVE  a.at \in Nat /\ a.no \in Nat /\ a.no < Cardinality(made(E, a.at))
  <2>1. CASE a.at = now
    <3>1. made(E, now) = made(F, now) \cup {e}
      BY <1>3, <1>7, <1>10 DEF made
    <3>2. Cardinality(made(E, now)) = Cardinality(made(F, now)) + 1
      <4>1. e \notin made(F, now)
        BY <1>11 DEF made
      <4> HIDE DEF E, F
      <4> QED BY <1>3, <1>8, <3>1, <4>1, FS_AddElement
    <3>3. a.no \in Nat /\ a.no <= Cardinality(made(F, now))
      <4> DEFINE c == Cardinality(made(F, now))
      <4>0. c \in Nat
        BY <1>3, <1>8
      <4> SUFFICES a.no \in Nat /\ a.no <= c
        OBVIOUS
      <4>1. CASE a = e
        <5>1. a.no = c
          BY <1>10, <4>1
        <5> HIDE DEF c
        <5> QED BY <4>0, <5>1
      <4>2. CASE a \in F
        <5>1. a.no < c /\ a.no \in Nat
          BY <1>7, <2>1, <4>2
        <5> HIDE DEF c
        <5> QED BY <4>0, <5>1
      <4> QED BY <1>13, <4>1, <4>2
    <3> DEFINE c == Cardinality(made(F, now))
               d == Cardinality(made(E, now))
    <3>4. c \in Nat /\ d = c + 1 /\ a.no \in Nat /\ a.no <= c
      BY <1>3, <1>8, <3>2, <3>3
    <3>5. Cardinality(made(E, a.at)) = d
      BY <2>1
    <3> HIDE DEF c, d
    <3>6. a.no < d
      BY <3>4
    <3> QED BY <1>3, <2>1, <3>4, <3>5, <3>6
  <2>2. CASE a.at # now
    <3>1. a \in F /\ a.at + FailureWindow >= now
      BY <1>10, <1>13, <2>2
    <3>2. made(E, a.at) = made(F, a.at)
      BY <1>10, <2>2, <3>1 DEF made
    <3> QED BY <1>7, <3>1, <3>2
  <2> QED BY <2>1, <2>2
<1>14. x \in Nat
  BY <1>3, <1>7
<1> HIDE DEF E, x
<1>15. binding'[l].failures = E /\ binding'[l].blocked = x
  BY <1>5, <1>6
<1>16. E = {a \in F : a.at + FailureWindow >= now} \cup {e}
  BY DEF E
<1> HIDE DEF F, recent, now, l
<1> QED BY <1>1, <1>3, <1>4, <1>6, <1>10, <1>11, <1>12, <1>13, <1>14, <1>15, <1>16 DEF F, now, l, x

\* A record in the period keeps the listener below the limit or blocks it for the rest of the
\* period; a slow thread's record may cut the block, and then there is one slow thread less.
LEMMA GuessRecord ==
  ASSUME CountsOK, GuessInv, TimesPassed, LivesKept, IsFiniteSet(Threads),
         NEW t \in Threads, RecordFailure(t)
  PROVE  GuessInv'
<1>0. PICK l \in 1..Len(binding) : l = handler[t].listener
  BY RecordCounts
<1> DEFINE now == handler[t].now
           F == binding[l].failures
           E == binding'[l].failures
<1>1. /\ now \in Nat /\ handler[t].at = "failed"
      /\ Len(binding') = Len(binding) /\ UNCHANGED <<clock, guesses>>
      /\ \A i \in 1..Len(binding) : i # l => binding'[i] = binding[i]
      /\ \A s \in Threads : s # t => handler'[s] = handler[s]
      /\ handler'[t].at = "append"
      /\ binding'[l].blocked = IF Cardinality(E) >= MaximumFailures
                               THEN now + Throttle ELSE binding[l].blocked
  BY <1>0, RecordCounts
<1>2. FailuresOK(l)' /\ IsFiniteSet(E)
  BY <1>0, RecordCounts DEF FailuresOK, made
<1>3. PICK e : /\ e \notin F /\ e.at = now
               /\ E = {a \in F : a.at + FailureWindow >= now} \cup {e}
  BY <1>0, RecordCounts
<1>4. /\ now <= clock /\ clock \in Nat /\ MaximumFailures \in Nat \ {0}
      /\ Throttle \in Nat /\ FailureWindow \in Nat /\ Throttle <= FailureWindow
  BY PortalAssumption DEF TimesPassed, CountsOK
<1>5. /\ guesses \in Seq([at : Nat, by : Nat])
      /\ \A i \in 1..Len(guesses) : guesses[i].by \in 1..Len(binding)
  BY DEF GuessInv
<1>6. ASSUME NEW i \in 1..Len(binding), i # l
      PROVE  FailuresOK(i)' /\ \A from \in 0..MaxClock : GuessHeld(i, from)'
  <2>1. binding'[i] = binding[i] /\ FailuresOK(i) /\ (Live(i)' => Live(i))
    BY <1>1, <1>6 DEF GuessInv, LivesKept
  <2>2. FailuresOK(i)'
    BY <2>1 DEF FailuresOK, made
  <2>3. ASSUME NEW from \in 0..MaxClock
        PROVE  GuessHeld(i, from)'
    <3>1. GuessHeld(i, from)
      BY <1>6, <2>3 DEF GuessInv
    <3>2. /\ compared(i, from)' = compared(i, from) /\ Recorded(i, from)' = Recorded(i, from)
          /\ Slow(i, from)' = Slow(i, from) /\ Failing(i, from)' = Failing(i, from)
      BY <1>0, <1>1, <1>6, <2>1 DEF compared, Recorded, Period, Slow, Failing
    <3> QED BY <1>1, <2>1, <3>1, <3>2 DEF GuessHeld, Below, Blocked, Cut, Bound, Width
  <2> QED BY <2>2, <2>3
<1>7. ASSUME NEW from \in 0..MaxClock
      PROVE  GuessHeld(l, from)'
  <2> DEFINE g == Cardinality(compared(l, from))
             r == Cardinality(Recorded(l, from))
             f == Cardinality(Failing(l, from))
             s == Cardinality(Slow(l, from))
  <2>1. GuessHeld(l, from) /\ FailuresOK(l) /\ from \in Nat /\ (Live(l)' => Live(l))
    BY <1>7, PortalAssumption DEF GuessInv, LivesKept
  <2>2. /\ g \in Nat /\ r \in Nat /\ IsFiniteSet(Recorded(l, from))
        /\ IsFiniteSet(Failing(l, from)) /\ f \in Nat
        /\ IsFiniteSet(Slow(l, from)) /\ s \in Nat
        /\ Width \in Nat /\ Width' = Width /\ f + s <= Width
    BY <1>5, <2>1, GuessSets DEF Width
  <2>3. compared(l, from)' = compared(l, from) /\ 2 * g <= Bound(Width)
    BY <1>1, <2>1 DEF compared, GuessHeld
  <2>4. SUFFICES ASSUME clock < from + Throttle, Live(l)
                 PROVE  \/ Below(g, r, f)' \/ Blocked(l, from, g, r, s)' \/ Cut(from, g, r, f, s)'
    BY <1>1, <2>1, <2>2, <2>3 DEF GuessHeld, Bound
  <2>5. Below(g, r, f) \/ Blocked(l, from, g, r, s) \/ Cut(from, g, r, f, s)
    BY <2>1, <2>4 DEF GuessHeld
  <2>6. \A a \in F : a.at \in Nat
    BY <2>1 DEF FailuresOK
  <2>7. Recorded(l, from)' = {a \in E : a.at \in Period(from)}
    BY DEF Recorded, Period
  <2>8. CASE now >= from
    <3>1. Recorded(l, from)' = Recorded(l, from) \cup {e} /\ e \notin Recorded(l, from)
      <4>1. \A a \in F : a.at \in Period(from) => a.at + FailureWindow >= now
        BY <1>1, <1>4, <2>1, <2>4, <2>6, <2>8 DEF Period
      <4>2. e.at \in Period(from)
        BY <1>1, <1>3, <1>4, <2>1, <2>4, <2>8 DEF Period
      <4>3. Recorded(l, from) = {a \in F : a.at \in Period(from)}
        BY Zenon DEF Recorded
      <4> HIDE DEF F, E, now
      <4> QED BY <1>3, <2>7, <4>1, <4>2, <4>3
    <3>2. r' = r + 1
      BY <2>2, <3>1, FS_AddElement
    <3>3. Failing(l, from)' = Failing(l, from) \ {t} /\ t \in Failing(l, from)
          /\ Slow(l, from)' = Slow(l, from)
      BY <1>0, <1>1, <1>4, <2>1, <2>8 DEF Failing, Slow
    <3>4. f' = f - 1 /\ s' = s /\ g' = g /\ f >= 1
      <4>1. f' = f - 1
        BY <2>2, <3>3, FS_RemoveElement
      <4>2. f' \in Nat
        BY <2>2, <3>3, FS_RemoveElement, FS_CardinalityType
      <4> HIDE DEF f
      <4> QED BY <2>2, <2>3, <3>3, <4>1, <4>2
    <3>5. r + 1 >= MaximumFailures => binding'[l].blocked >= from + Throttle
      <4>1. r' <= Cardinality(E) /\ Cardinality(E) \in Nat
        <5>1. Recorded(l, from)' \subseteq E
          BY <2>7
        <5> QED BY <1>2, <5>1, FS_Subset, FS_CardinalityType
      <4> HIDE DEF r, E
      <4> SUFFICES ASSUME r + 1 >= MaximumFailures
                   PROVE  binding'[l].blocked >= from + Throttle
        OBVIOUS
      <4>2. Cardinality(E) >= MaximumFailures
        BY <1>4, <2>2, <3>2, <4>1
      <4>3. binding'[l].blocked = now + Throttle
        BY <1>1, <4>2, Zenon
      <4> QED BY <1>1, <1>4, <2>1, <2>8, <4>3
    <3>6. clock' >= from /\ clock' = clock
      BY <1>1, <1>4, <2>1, <2>8
    <3> DEFINE m == Width - s
    <3>7. m \in Nat /\ f <= m /\ m >= 1
      BY <2>2, <3>4
    <3>8. Steps(m) \in Nat /\ 2 * m <= Steps(m)
      <4> HIDE DEF m
      <4> QED BY <3>7, StepsAdd
    <3>9. CASE r + 1 < MaximumFailures
      <4>1. Below(g, r, f)
        <5> HIDE DEF g, r, f, s
        <5> QED BY <1>4, <2>2, <2>5, <3>9 DEF Blocked, Cut
      <4> HIDE DEF g, r, f, s
      <4> QED BY <2>2, <3>2, <3>4, <3>9, <4>1 DEF Below
    <3>10. CASE r + 1 >= MaximumFailures
      <4>1. 2 * g <= Bound(m)
        <5>1. CASE Below(g, r, f)
          <6> HIDE DEF g, r, f, s, m
          <6>1. r < MaximumFailures /\ g <= r + f
            BY <5>1, Zenon DEF Below
          <6> QED BY <1>4, <2>2, <3>7, <3>8, <6>1, BelowBound
        <5>2. CASE Blocked(l, from, g, r, s)
          BY <5>2 DEF Blocked
        <5>3. CASE Cut(from, g, r, f, s)
          <6> DEFINE k == m - 1
          <6>1. k \in Nat /\ m = k + 1
            BY <3>7
          <6>2. 2 * g <= Bound(k) + 2 * f
            BY <5>3 DEF Cut
          <6> HIDE DEF k, m, g, f
          <6>3. Steps(m) = Steps(k) + 2 * m /\ Steps(k) \in Nat
            BY <6>1, StepsAdd
          <6> QED BY <1>4, <2>2, <3>7, <6>1, <6>2, <6>3, CutBound
        <5> QED BY <2>5, <5>1, <5>2, <5>3
      <4>2. r' >= MaximumFailures
        BY <3>2, <3>10
      <4> HIDE DEF g, r, f, s
      <4> QED BY <2>2, <3>4, <3>5, <3>6, <3>10, <4>1, <4>2 DEF Blocked, Bound
    <3> QED BY <1>4, <2>2, <3>9, <3>10
  <2>9. CASE now < from
    <3>1. Recorded(l, from)' = Recorded(l, from)
      BY <1>1, <1>3, <1>4, <2>1, <2>4, <2>6, <2>7, <2>9 DEF Recorded, Period
    <3>2. Slow(l, from)' = Slow(l, from) \ {t} /\ t \in Slow(l, from)
          /\ Failing(l, from)' = Failing(l, from)
      BY <1>0, <1>1, <1>4, <2>1, <2>9 DEF Failing, Slow
    <3>3. s' = s - 1 /\ f' = f /\ g' = g /\ r' = r /\ s >= 1
      <4>1. s' = s - 1
        BY <2>2, <3>2, FS_RemoveElement
      <4>2. s' \in Nat
        BY <2>2, <3>2, FS_RemoveElement, FS_CardinalityType
      <4> HIDE DEF s
      <4> QED BY <2>2, <2>3, <3>1, <3>2, <4>1, <4>2
    <3>4. CASE Below(g, r, f)
      <4> HIDE DEF g, r, f, s
      <4> QED BY <3>3, <3>4 DEF Below
    <3> DEFINE m == Width - s
    <3>5. m \in Nat /\ Width - s' - 1 = m /\ s' < Width
      <4> HIDE DEF s
      <4> QED BY <2>2, <3>3
    <3>6. CASE Blocked(l, from, g, r, s) \/ Cut(from, g, r, f, s)
      <4>1. 2 * g <= Bound(m) + 2 * f
        <5>1. CASE Blocked(l, from, g, r, s)
          <6>1. 2 * g <= Bound(m) /\ Steps(m) \in Nat
            <7> HIDE DEF m
            <7>1. Steps(m) \in Nat
              BY <3>5, StepsAdd
            <7> QED BY <5>1, <7>1 DEF Blocked, m
          <6> HIDE DEF g, r, f, s, m
          <6> QED BY <1>4, <2>2, <6>1 DEF Bound
        <5>2. CASE Cut(from, g, r, f, s)
          <6> DEFINE k == m - 1
          <6>1. k \in Nat /\ m = k + 1 /\ 2 * g <= Bound(k) + 2 * f
            BY <2>2, <5>2 DEF Cut
          <6> HIDE DEF k, m, g, f
          <6>2. Steps(m) = Steps(k) + 2 * m /\ Steps(k) \in Nat
            BY <6>1, StepsAdd
          <6>3. Bound(k) + 2 * f <= Bound(m) + 2 * f
            <7>1. Bound(k) \in Nat /\ Bound(m) \in Nat /\ Bound(k) <= Bound(m)
              BY <1>4, <6>1, <6>2, BoundGrows
            <7> QED BY <2>2, <7>1
          <6>4. Bound(k) \in Nat /\ Bound(m) \in Nat
            BY <1>4, <6>1, <6>2, BoundGrows
          <6> QED BY <2>2, <6>1, <6>3, <6>4
        <5> QED BY <3>6, <5>1, <5>2
      <4>2. clock >= from /\ r >= MaximumFailures /\ clock' = clock
        BY <1>1, <3>6 DEF Blocked, Cut
      <4> HIDE DEF g, r, f, s, m
      <4> QED BY <2>2, <3>3, <3>5, <4>1, <4>2 DEF Cut, Bound
    <3> QED BY <2>5, <3>4, <3>6
  <2> QED BY <1>1, <2>1, <2>8, <2>9
<1> QED BY <1>1, <1>2, <1>5, <1>6, <1>7 DEF GuessInv

LEMMA GuessOthers ==
  ASSUME CountsOK, GuessInv, Calm \/ \E t \in Threads : Allow(t), RateInv
  PROVE  ThrottleKept
<1>1. /\ handler \in [Threads -> Handler] /\ Len(binding) \in Nat
  BY DEF CountsOK, HandlersOK, BindingsOK
<1>2. CASE Calm
  <2>1. /\ Len(binding') \in Nat /\ Len(binding') >= Len(binding) /\ UNCHANGED guesses
        /\ \A l \in 1..Len(binding) : /\ binding'[l].failures = binding[l].failures
                                      /\ binding'[l].blocked = binding[l].blocked
        /\ \A l \in (Len(binding) + 1)..Len(binding') :
             binding'[l].failures = {} /\ binding'[l].blocked = 0
    BY <1>2 DEF Calm, SharedKept, Shared
  <2>2. \A t \in Threads : handler[t].at = "failed" \/ handler'[t].at = "failed" => handler'[t] = handler[t]
    BY <1>1, <1>2 DEF Calm, Turns, Become
  <2> QED BY <1>2, <2>1, <2>2 DEF ThrottleKept, Calm
<1>3. ASSUME NEW t \in Threads, Allow(t)
      PROVE  ThrottleKept
  <2>1. PICK x, y : Bind(handler[t].listener, [mine(t) EXCEPT !.values = x, !.granted = y])
    BY <1>3 DEF Allow, allow
  <2> DEFINE b == [mine(t) EXCEPT !.values = x, !.granted = y]
             l == handler[t].listener
  <2>2. /\ ~At(t, "idle") /\ handler[t].at = "limited" /\ UNCHANGED <<clock, guesses>>
        /\ Proceed(t, "launcher") \/ Answer(t)
    BY <1>3 DEF Allow, allow, At, sessionVars
  <2>3. IsBinding(mine(t)) /\ l \in 1..Len(binding) /\ handler[t] \in Handler
    BY <2>2, MineOK
  <2>4. IsBinding(b) /\ b.failures = mine(t).failures /\ b.blocked = mine(t).blocked
    BY <2>3 DEF IsBinding
  <2>5. Bind(l, b)
    BY <2>1
  <2>6. \A s \in Threads : handler[s].at = "failed" \/ handler'[s].at = "failed" => handler'[s] = handler[s]
    BY <1>1, <2>2, <2>3 DEF Proceed, Answer, Become, Handler, Idle
  <2> HIDE DEF b
  <2>7. /\ Len(binding') = Len(binding) /\ binding'[l] = b
        /\ \A i \in 1..Len(binding) : i # l => binding'[i] = binding[i]
    BY <2>3, <2>4, <2>5, BindOK DEF CountsOK
  <2> QED BY <1>1, <2>2, <2>4, <2>6, <2>7 DEF ThrottleKept, mine
<1> QED BY <1>2, <1>3

ThrottleInv == CountInv /\ TimesPassed /\ RateInv /\ GuessInv

LEMMA ThrottleStep ==
  ASSUME ThrottleInv, IsFiniteSet(Threads), [PortalNext]_allVars
  PROVE  ThrottleInv'
<1>1. CountInv /\ CountsOK /\ TimesPassed /\ RateInv /\ GuessInv /\ LivesKept
  BY LiveStep DEF ThrottleInv, CountInv
<1>2. CountInv' /\ TimesPassed' /\ RateInv'
  BY <1>1, CountsStep, TimesStep, RateStep
<1>3. GuessInv'
  <2>1. CASE Calm \/ \E t \in Threads : Allow(t)
    BY <1>1, <2>1, GuessOthers, GuessQuiet
  <2>2. CASE Crash
    BY <1>1, <2>2, GuessCrash
  <2>3. ASSUME NEW t \in Threads, Fails(t)
        PROVE  GuessInv'
    BY <1>1, <2>3, GuessFails
  <2>4. ASSUME NEW t \in Threads, RecordFailure(t)
        PROVE  GuessInv'
    BY <1>1, <2>4, GuessRecord
  <2> QED BY <1>1, <2>1, <2>2, <2>3, <2>4, StepKinds
<1> QED BY <1>2, <1>3 DEF ThrottleInv

\* However the handler threads interleave, in a throttle period one listener compares no more
\* wrong codes than the limit less one and 1 + 2 + ... + n for n threads, and in a window it
\* grants fewer requests than the limit and one for each thread.
THEOREM ThrottlesHoldAlways ==
  ASSUME IsFiniteSet(Threads), Threads # {}
  PROVE  PortalSpec => []ThrottlesHold
<1>1. PortalInit => ThrottleInv
  <2> SUFFICES ASSUME PortalInit
               PROVE  ThrottleInv
    OBVIOUS
  <2>1. CountInv
    BY CountsInit
  <2>2. TimesPassed
    <3>1. clock = 0 /\ handler = [t \in Threads |-> Idle] /\ Idle.now = 0
      BY DEF PortalInit, Idle
    <3>2. \A t \in Threads : handler[t].now = 0
      BY <3>1
    <3>3. 0 <= 0
      OBVIOUS
    <3> QED BY <3>1, <3>2, <3>3 DEF TimesPassed
  <2>3. Len(binding) = 0 /\ Len(guesses) = 0 /\ guesses \in Seq([at : Nat, by : Nat])
    BY DEF PortalInit
  <2> QED BY <2>1, <2>2, <2>3 DEF ThrottleInv, RateInv, GuessInv
<1>2. ThrottleInv /\ [PortalNext]_allVars => ThrottleInv'
  BY ThrottleStep
<1>3. ThrottleInv => ThrottlesHold
  <2> SUFFICES ASSUME ThrottleInv
               PROVE  GuessesBounded /\ RequestsBounded
    BY DEF ThrottlesHold
  <2>1. RequestsBounded
    BY RateHolds DEF ThrottleInv
  <2>2. ASSUME NEW l \in 1..Len(binding), NEW from \in 0..MaxClock
        PROVE  2 * Cardinality(compared(l, from))
                 <= 2 * (MaximumFailures - 1) + Cardinality(Threads) * (Cardinality(Threads) + 1)
    BY DEF ThrottleInv, GuessInv, GuessHeld, Bound, Steps, Width
  <2>3. GuessesBounded
    BY <2>2 DEF GuessesBounded, Listener
  <2> QED BY <2>1, <2>3
<1> QED BY <1>1, <1>2, <1>3, PTL DEF PortalSpec
=============================================================================
