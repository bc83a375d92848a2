------------------------- MODULE MonitorThreadProofs -------------------------
(***************************************************************************)
(* Theorems about the kernel thread of the Monitor: types, the lists under *)
(* a running scan, complete scans, and the end of the thread before its    *)
(* memory is freed.                                                        *)
(***************************************************************************)
EXTENDS MonitorThread, FiniteSetTheorems, TLAPS

-----------------------------------------------------------------------------
(* The inductive invariant. *)

\* A write in progress has replaced the entries before written, and those at
\* and behind it are still of the list in force.
ListInv ==
    /\ \A pos \in 0..(written - 1) : cpuList[pos] = writing[pos + 1]
    /\ \A pos \in written..(NUMCPUS - 1) : cpuList[pos] \in inForce
    /\ ~rewritten => writing = <<>>

\* The scan stays within the array and counts what it has passed.
CountInv ==
    /\ pc = "record" => curr_cpu < ListSize
    /\ idleCount <= curr_cpu

Covered(n) == {cpuList[pos] : pos \in 0..(n - 1)}
Distinct == \A p, q \in 0..(NUMCPUS - 1) : p # q => cpuList[p] # cpuList[q]

\* What the scan knows of the cores before curr_cpu, if the list stays.
ScanInv ==
    (~rewritten /\ pc \in {"scan", "record"}) =>
        /\ curr_cpu <= NUMCPUS
        /\ \A c \in Covered(curr_cpu) : /\ c \in currMask <=> seen[c] = "active"
                                        /\ seen[c] # "unseen"
        /\ Distinct => idleCount = Cardinality(Covered(curr_cpu) \ currMask)
        /\ pc = "record" => curr_cpu < NUMCPUS /\ observed = cpuList[curr_cpu]

IInv == TypeOK /\ ListInv /\ CountInv

-----------------------------------------------------------------------------
(* Facts about the lists. *)

\* A list in the making is one that may be written, or there is none.
LEMMA WritingFacts ==
    ASSUME TypeOK
    PROVE  /\ writing \in Seq(Cores)
           /\ Len(writing) \in 0..ListSize
           /\ writing # <<>> => Len(writing) \in 1..ListSize
           /\ \A i \in 1..Len(writing) : writing[i] \in Cores
           /\ Entries(writing) \subseteq Cores
  <1>1. writing \in Lists \/ writing = <<>>
    BY DEF TypeOK
  <1>2. CASE writing \in Lists
    <2>1. writing \in Seq(Cores) /\ Len(writing) \in 1..ListSize
      BY <1>2, ListsAssumption
    <2>2. \A i \in 1..Len(writing) : writing[i] \in Cores
      BY <2>1
    <2> QED
      BY <2>1, <2>2, ListSizeAssumption DEF Entries
  <1>3. CASE writing = <<>>
    <2>1. Len(writing) = 0 /\ writing \in Seq(Cores)
      BY <1>3
    <2> QED
      BY <2>1, <1>3, ListSizeAssumption DEF Entries
  <1> QED
    BY <1>1, <1>2, <1>3

\* Waking the thread up leaves it where it is, or off to its first statement
\* or to a new scan, or damages the memory of its released task.
LEMMA WakeUpCases ==
    ASSUME WakeUp
    PROVE  \/ /\ pc = "new" /\ pc' = "init"
              /\ UNCHANGED <<scan, page, samples, look, rewritten>>
           \/ pc = "asleep" /\ BeginScan
           \/ pc \notin {"new", "asleep"} /\ UNCHANGED <<thread, rewritten>>
           \/ pc' = "damaged" /\ UNCHANGED <<scan, page, samples, look, rewritten>>
  BY DEF WakeUp

-----------------------------------------------------------------------------
(* The invariant is inductive. *)

LEMMA InitIInv == Init => IInv
  <1> SUFFICES ASSUME Init PROVE IInv
    OBVIOUS
  <1>1. TypeOK
    BY CoresAssumption, ListSizeAssumption, SampleAssumption
    DEF Init, TypeOK, OffCpu, Polling, Unseen
  <1>2. ListInv
    BY ListSizeAssumption DEF Init, ListInv
  <1>3. CountInv
    BY DEF Init, CountInv
  <1> QED
    BY <1>1, <1>2, <1>3 DEF IInv

\* What the operator does to the thread.
LEMMA WakeUpKeeps ==
    ASSUME TypeOK, CountInv, WakeUp, UNCHANGED <<cpuList, NUMCPUS, writing, written, inForce>>
    PROVE  /\ pc' \in OffCpu \cup Polling
           /\ curr_cpu' \in 0..ListSize /\ idleCount' \in 0..ListSize
           /\ currMask' = currMask /\ page' = page /\ samples' = samples
           /\ observed' = observed /\ is_idle' = is_idle
           /\ seen' \in [Cores -> {"unseen", "idle", "active"}]
           /\ rewritten' \in BOOLEAN
           /\ ~rewritten' => (~rewritten \/ writing = <<>>)
           /\ CountInv'
  <1>1. CASE pc = "asleep" /\ BeginScan
    BY <1>1, ListSizeAssumption
    DEF TypeOK, CountInv, BeginScan, look, OffCpu, Polling, Unseen
  <1>2. CASE pc = "new" /\ pc' = "init" /\ UNCHANGED <<scan, page, samples, look, rewritten>>
    BY <1>2 DEF TypeOK, CountInv, scan, look, OffCpu, Polling
  <1>3. CASE pc \notin {"new", "asleep"} /\ UNCHANGED <<thread, rewritten>>
    BY <1>3 DEF TypeOK, CountInv, thread, scan, look
  <1>4. CASE pc' = "damaged" /\ UNCHANGED <<scan, page, samples, look, rewritten>>
    BY <1>4 DEF TypeOK, CountInv, scan, look, OffCpu, Polling
  <1> QED
    BY <1>1, <1>2, <1>3, <1>4, WakeUpCases

LEMMA ThreadKeepsType ==
    ASSUME TypeOK, CountInv, ThreadStep
    PROVE  TypeOK' /\ CountInv'
  <1> USE ListSizeAssumption, SampleAssumption
  <1> USE DEF TypeOK, CountInv, OffCpu, Polling, list, command, scan, look
  <1>1. CASE Start
    BY <1>1 DEF Start
  <1>2. CASE Top
    BY <1>2 DEF Top
  <1>3. CASE Test
    <2>1. CASE runnable = 0
      BY <1>3, <2>1 DEF Test
    <2>2. CASE runnable # 0
      BY <1>3, <2>2 DEF Test, BeginScan, Unseen
    <2> QED
      BY <2>1, <2>2
  <1>4. CASE Sleep
    BY <1>4 DEF Sleep
  <1>5. CASE Observe
    BY <1>5 DEF Observe
  <1>6. CASE Record
    <2>1. curr_cpu \in 0..(ListSize - 1) /\ cpuList[curr_cpu] \in Cores
      BY <1>6 DEF Record
    <2>2. currMask' \in SUBSET Cores
      BY <1>6, <2>1 DEF Record
    <2>3. curr_cpu' \in 0..ListSize /\ idleCount' \in 0..ListSize /\ idleCount' <= curr_cpu'
      BY <1>6, <2>1 DEF Record
    <2>4. seen' \in [Cores -> {"unseen", "idle", "active"}]
      BY <1>6 DEF Record
    <2> QED
      BY <1>6, <2>2, <2>3, <2>4 DEF Record
  <1>7. CASE Publish
    BY <1>7 DEF Publish
  <1>8. CASE Serve
    BY <1>8 DEF Serve
  <1>9. CASE Count
    BY <1>9 DEF Count
  <1>10. CASE Yield
    BY <1>10 DEF Yield
  <1> QED
    BY <1>1, <1>2, <1>3, <1>4, <1>5, <1>6, <1>7, <1>8, <1>9, <1>10 DEF ThreadStep

LEMMA OperatorKeepsType ==
    ASSUME TypeOK, CountInv,
           \/ \E ctrl \in {0, 1} : WriteControl(ctrl)
           \/ WriteBindCpu \/ WriteCpuList \/ Unload
    PROVE  TypeOK' /\ CountInv'
  <1>1. ASSUME NEW ctrl \in {0, 1}, WriteControl(ctrl)
        PROVE  TypeOK' /\ CountInv'
    <2>1. UNCHANGED <<list, shouldStop, module>> /\ runnable' \in {0, 1}
      BY <1>1 DEF WriteControl
    <2>2. CASE WakeUp
      BY <2>1, <2>2, WakeUpKeeps DEF list, TypeOK
    <2>3. CASE UNCHANGED <<thread, rewritten>>
      BY <2>1, <2>3 DEF list, thread, scan, look, TypeOK, CountInv
    <2> QED
      BY <1>1, <2>2, <2>3 DEF WriteControl
  <1>2. CASE WriteBindCpu
    BY <1>2, WakeUpKeeps DEF WriteBindCpu, list, command, TypeOK
  <1>3. CASE BeginList
    BY <1>3 DEF BeginList, thread, scan, look, command, TypeOK, CountInv
  <1>4. CASE StoreEntry
    <2>1. written \in 0..(ListSize - 1) /\ writing[written + 1] \in Cores
      BY <1>4, WritingFacts, ListSizeAssumption DEF StoreEntry, TypeOK
    <2>2. cpuList' \in [0..(ListSize - 1) -> Cores]
      BY <1>4, <2>1 DEF StoreEntry, TypeOK
    <2>3. written' \in 0..Len(writing')
      BY <1>4, WritingFacts DEF StoreEntry, TypeOK
    <2> QED
      BY <1>4, <2>2, <2>3 DEF StoreEntry, thread, scan, look, command, TypeOK, CountInv
  <1>5. CASE EndList
    <2>1. NUMCPUS' \in 1..ListSize /\ inForce' \in SUBSET Cores
      BY <1>5, WritingFacts DEF EndList
    <2>2. writing' \in Lists \cup {<<>>} /\ written' \in 0..Len(writing')
      BY <1>5 DEF EndList
    <2> QED
      BY <1>5, <2>1, <2>2 DEF EndList, thread, scan, look, command, TypeOK, CountInv
  <1>6. CASE StopThread
    BY <1>6, WakeUpKeeps DEF StopThread, list, TypeOK
  <1>7. CASE FreeMemory
    BY <1>7 DEF FreeMemory, list, thread, scan, look, TypeOK, CountInv
  <1>8. CASE RemoveFiles
    BY <1>8 DEF RemoveFiles, list, thread, scan, look, TypeOK, CountInv
  <1> QED
    BY <1>1, <1>2, <1>3, <1>4, <1>5, <1>6, <1>7, <1>8 DEF WriteCpuList, Unload

\* The thread does not write the list; a scan that begins while a list is
\* being written is marked.
LEMMA ThreadKeepsLists ==
    ASSUME ListInv, ThreadStep
    PROVE  ListInv'
  <1>1. UNCHANGED list
    BY DEF ThreadStep, Start, Top, Test, Sleep, Observe, Record, Publish, Serve, Count, Yield
  <1>2. rewritten' = rewritten \/ rewritten' = (writing # <<>>)
    BY DEF ThreadStep, Start, Top, Test, BeginScan, Sleep, Observe, Record, Publish, Serve,
           Count, Yield
  <1> QED
    BY <1>1, <1>2 DEF list, ListInv

LEMMA OperatorKeepsLists ==
    ASSUME TypeOK, CountInv, ListInv,
           \/ \E ctrl \in {0, 1} : WriteControl(ctrl)
           \/ WriteBindCpu \/ WriteCpuList \/ Unload
    PROVE  ListInv'
  <1>1. ASSUME UNCHANGED list, WakeUp \/ UNCHANGED rewritten
        PROVE  ListInv'
    <2>1. ~rewritten' => (~rewritten \/ writing = <<>>)
      BY <1>1, WakeUpKeeps DEF list
    <2> QED
      BY <1>1, <2>1 DEF list, ListInv
  <1>2. CASE (\E ctrl \in {0, 1} : WriteControl(ctrl)) \/ WriteBindCpu \/ Unload
    BY <1>1, <1>2 DEF WriteControl, WriteBindCpu, Unload, StopThread, FreeMemory, RemoveFiles
  <1>3. CASE BeginList
    <2>1. written = 0 /\ \A pos \in 0..(NUMCPUS - 1) : cpuList[pos] \in inForce
      BY <1>3, WritingFacts DEF BeginList, ListInv, TypeOK
    <2> QED
      BY <1>3, <2>1 DEF BeginList, ListInv
  <1>4. CASE StoreEntry
    <2>1. written \in 0..(ListSize - 1) /\ DOMAIN cpuList = 0..(ListSize - 1)
      BY <1>4, WritingFacts, ListSizeAssumption DEF StoreEntry, TypeOK
    <2>2. ASSUME NEW pos \in 0..(written' - 1) PROVE cpuList'[pos] = writing'[pos + 1]
      <3>1. CASE pos = written
        BY <1>4, <2>1, <3>1 DEF StoreEntry
      <3>2. CASE pos # written
        <4>1. pos \in 0..(written - 1) /\ cpuList'[pos] = cpuList[pos]
          BY <1>4, <2>1, <2>2, <3>2 DEF StoreEntry
        <4> QED
          BY <1>4, <4>1 DEF StoreEntry, ListInv
      <3> QED
        BY <3>1, <3>2
    <2>3. ASSUME NEW pos \in written'..(NUMCPUS' - 1) PROVE cpuList'[pos] \in inForce'
      <3>1. NUMCPUS' = NUMCPUS /\ NUMCPUS \in Int /\ written' = written + 1
        BY <1>4 DEF StoreEntry, TypeOK
      <3>2. pos \in written..(NUMCPUS - 1) /\ pos # written /\ pos \in 0..(ListSize - 1)
        BY <2>1, <2>3, <3>1, ListSizeAssumption DEF TypeOK
      <3>3. cpuList'[pos] = cpuList[pos]
        BY <1>4, <2>1, <3>2 DEF StoreEntry
      <3> QED
        BY <1>4, <3>2, <3>3 DEF StoreEntry, ListInv
    <2>4. ~rewritten' => writing' = <<>>
      BY <1>4 DEF StoreEntry, ListInv
    <2> QED
      BY <2>2, <2>3, <2>4 DEF ListInv
  <1>5. CASE EndList
    <2>1. written' = 0 /\ NUMCPUS' = Len(writing) /\ written = Len(writing)
      BY <1>5 DEF EndList
    <2>2. ASSUME NEW pos \in 0..(NUMCPUS' - 1) PROVE cpuList'[pos] \in inForce'
      <3>1. pos + 1 \in 1..Len(writing) /\ cpuList'[pos] = writing[pos + 1]
        BY <1>5, <2>1, <2>2, WritingFacts DEF EndList, ListInv
      <3> QED
        BY <1>5, <3>1 DEF EndList, Entries
    <2> QED
      BY <1>5, <2>1, <2>2 DEF EndList, ListInv
  <1> QED
    BY <1>2, <1>3, <1>4, <1>5 DEF WriteCpuList

LEMMA NextIInv == IInv /\ [Next]_vars => IInv'
  <1> SUFFICES ASSUME IInv, [Next]_vars PROVE IInv'
    OBVIOUS
  <1>1. CASE ThreadStep
    BY <1>1, ThreadKeepsType, ThreadKeepsLists DEF IInv
  <1>2. CASE \/ \E ctrl \in {0, 1} : WriteControl(ctrl)
             \/ WriteBindCpu \/ WriteCpuList \/ Unload
    BY <1>2, OperatorKeepsType, OperatorKeepsLists DEF IInv
  <1>3. CASE UNCHANGED vars
    BY <1>3 DEF vars, thread, scan, look, list, command, IInv, TypeOK, ListInv, CountInv
  <1> QED
    BY <1>1, <1>2, <1>3 DEF Next

LEMMA Invariance == Spec => []IInv
  BY InitIInv, NextIInv, PTL DEF Spec

-----------------------------------------------------------------------------
(* Types and lists. *)

\* Whatever is written to the files, all words keep to their types and neither
\* list nor scan leaves its array.
THEOREM TypeCorrect == Spec => []TypeOK
  <1>1. IInv => TypeOK
    BY DEF IInv
  <1> QED
    BY <1>1, Invariance, PTL

\* The thread never scans a core that neither the old nor the new list names,
\* for lists of any length (procfs.h, cpulist_writer).
THEOREM OnlyNamedCoresScanned == Spec => []OnlyNamedCores
  <1>1. ASSUME IInv PROVE OnlyNamedCores
    <2> SUFFICES ASSUME NEW pos \in 0..(NUMCPUS - 1)
                 PROVE  cpuList[pos] \in inForce \cup Entries(writing)
      BY DEF OnlyNamedCores
    <2>0. written \in 0..Len(writing) /\ NUMCPUS \in Int
      BY <1>1 DEF IInv, TypeOK
    <2>1. CASE pos < written
      <3>1. cpuList[pos] = writing[pos + 1] /\ pos + 1 \in 1..Len(writing)
        BY <1>1, <2>0, <2>1, WritingFacts DEF IInv, ListInv
      <3> QED
        BY <3>1 DEF Entries
    <2>2. CASE ~(pos < written)
      BY <1>1, <2>0, <2>2, WritingFacts DEF IInv, ListInv
    <2> QED
      BY <2>1, <2>2
  <1> QED
    BY <1>1, Invariance, PTL

-----------------------------------------------------------------------------
(* The scan. *)

\* What a scan has passed is a finite set.
LEMMA CoveredFinite ==
    ASSUME NEW n \in Nat, NEW S \in SUBSET Covered(n)
    PROVE  IsFiniteSet(S) /\ Cardinality(S) \in Nat
  <1> DEFINE f == [pos \in 0..(n - 1) |-> cpuList[pos]]
  <1>1. f \in Surjection(0..(n - 1), Covered(n))
    BY DEF Surjection, Covered
  <1>2. IsFiniteSet(0..(n - 1))
    BY FS_Interval
  <1>3. IsFiniteSet(Covered(n))
    BY <1>1, <1>2, FS_Surjection
  <1> QED
    BY <1>3, FS_Subset, FS_CardinalityType

\* A scan that begins has passed nothing.
LEMMA BeginScanCovers ==
    ASSUME BeginScan, NUMCPUS' \in Nat
    PROVE  ScanInv' /\ ScanComplete'
  <1>1. pc' = "scan" /\ curr_cpu' = 0 /\ idleCount' = 0
    BY DEF BeginScan
  <1>2. ScanComplete'
    BY <1>1 DEF ScanComplete
  <1>3. (Covered(curr_cpu))' = {}
    BY <1>1 DEF Covered
  <1>4. Cardinality((Covered(curr_cpu) \ currMask)') = 0
    BY <1>3, FS_EmptySet
  <1> QED
    BY <1>1, <1>2, <1>3, <1>4 DEF ScanInv

\* One more core: its state and its bit agree, and it is counted once.
LEMMA RecordCovers ==
    ASSUME TypeOK, ListInv, ScanInv, Record
    PROVE  ScanInv' /\ ScanComplete'
  <1>1. ScanComplete'
    BY DEF Record, ScanComplete
  <1>a. CASE rewritten'
    <2>1. ScanInv'
      BY <1>a DEF ScanInv
    <2> QED
      BY <1>1, <2>1
  <1> SUFFICES ASSUME ~rewritten'
               PROVE  ScanInv'
    BY <1>1, <1>a
  <1> DEFINE o == observed
             n == curr_cpu
  <1>2. ~rewritten /\ UNCHANGED <<cpuList, NUMCPUS, observed>> /\ pc = "record" /\ pc' = "scan"
    BY DEF Record, list, look
  <1>3. n \in Nat /\ NUMCPUS \in Nat /\ idleCount \in Nat /\ o \in Cores
    BY ListSizeAssumption DEF TypeOK
  <1>4. n < NUMCPUS /\ o = cpuList[n] /\ curr_cpu' = n + 1
    BY <1>2 DEF ScanInv, Record
  <1>5. (Covered(curr_cpu))' = Covered(n) \cup {o}
    <2>1. (Covered(curr_cpu))' = {cpuList[pos] : pos \in 0..n}
      BY <1>2, <1>3, <1>4 DEF Covered
    <2>2. 0..n = (0..(n - 1)) \cup {n}
      BY <1>3
    <2> QED
      BY <2>1, <2>2, <1>4 DEF Covered
  <1>6. /\ currMask' = IF is_idle THEN currMask \ {o} ELSE currMask \cup {o}
        /\ seen' = [seen EXCEPT ![o] = IF is_idle THEN "idle" ELSE "active"]
        /\ idleCount' = IF is_idle THEN idleCount + 1 ELSE idleCount
    BY <1>4 DEF Record
  <1>7. \A c \in (Covered(curr_cpu))' : /\ c \in currMask' <=> seen'[c] = "active"
                                       /\ seen'[c] # "unseen"
    <2> SUFFICES ASSUME NEW c \in Covered(n) \cup {o}
                 PROVE  (c \in currMask' <=> seen'[c] = "active") /\ seen'[c] # "unseen"
      BY <1>5
    <2>1. CASE c = o
      BY <1>3, <1>6, <2>1 DEF TypeOK
    <2>2. CASE c # o
      <3>1. (c \in currMask <=> seen[c] = "active") /\ seen[c] # "unseen"
        BY <1>2, <2>2 DEF ScanInv
      <3>2. seen'[c] = seen[c] /\ (c \in currMask' <=> c \in currMask)
        BY <1>6, <2>2 DEF TypeOK
      <3> QED
        BY <3>1, <3>2
    <2> QED
      BY <2>1, <2>2
  <1>8. ASSUME Distinct'
        PROVE  idleCount' = Cardinality((Covered(curr_cpu) \ currMask)')
    <2>1. Distinct
      BY <1>2, <1>8 DEF Distinct
    <2>2. o \notin Covered(n)
      BY <1>3, <1>4, <2>1 DEF Covered, Distinct
    <2>3. idleCount = Cardinality(Covered(n) \ currMask)
      BY <1>2, <2>1 DEF ScanInv
    <2>4. IsFiniteSet(Covered(n) \ currMask)
      BY <1>3, CoveredFinite
    <2>5. CASE is_idle
      <3>1. (Covered(curr_cpu) \ currMask)' = (Covered(n) \ currMask) \cup {o}
        BY <1>5, <1>6, <2>5
      <3>2. Cardinality((Covered(n) \ currMask) \cup {o}) = Cardinality(Covered(n) \ currMask) + 1
        BY <2>2, <2>4, FS_AddElement
      <3> QED
        BY <1>6, <2>3, <2>5, <3>1, <3>2
    <2>6. CASE ~is_idle
      <3>1. (Covered(curr_cpu) \ currMask)' = Covered(n) \ currMask
        BY <1>5, <1>6, <2>2, <2>6
      <3> QED
        BY <1>6, <2>3, <2>6, <3>1
    <2> QED
      BY <2>5, <2>6
  <1> QED
    BY <1>2, <1>3, <1>4, <1>7, <1>8 DEF ScanInv

\* A scan that is published has passed the whole list.
LEMMA PublishCovers ==
    ASSUME TypeOK, ListInv, ScanInv, Publish
    PROVE  ScanInv' /\ ScanComplete'
  <1>1. ScanInv'
    BY DEF Publish, ScanInv
  <1> SUFFICES ASSUME ~rewritten'
               PROVE  ScanComplete'
    BY <1>1 DEF ScanComplete
  <1>2. ~rewritten /\ pc = "scan" /\ UNCHANGED <<cpuList, NUMCPUS, seen>>
        /\ page'.mask = currMask /\ page'.numIdle = idleCount
    BY DEF Publish, list, scan
  <1>3. curr_cpu = NUMCPUS
    BY <1>2 DEF Publish, ScanInv, TypeOK
  <1>4. Listed = Covered(curr_cpu) /\ Listed' = Listed
    BY <1>2, <1>3 DEF Listed, Covered
  <1>5. \A c \in Listed : (c \in currMask <=> seen[c] = "active") /\ seen[c] # "unseen"
    BY <1>2, <1>4 DEF ScanInv
  <1>6. Distinct => idleCount = Cardinality(Listed \ currMask)
    BY <1>2, <1>4 DEF ScanInv
  <1>7. Distinct' => page'.numIdle = Cardinality(Listed' \ page'.mask)
    BY <1>2, <1>4, <1>6 DEF Distinct
  <1> QED
    BY <1>2, <1>4, <1>5, <1>7 DEF ScanComplete, Distinct

\* Whatever is written to the files, a published scan covers the list it was
\* made of, and its count is that of its mask (monitor.c, check_idle_cpus).
THEOREM ScansComplete == Spec => []ScanComplete
  <1>1. Init => ScanInv /\ ScanComplete
    BY DEF Init, ScanInv, ScanComplete
  <1>2. ASSUME IInv, IInv', ScanInv, ScanComplete, [Next]_vars
        PROVE  ScanInv' /\ ScanComplete'
    <2> USE DEF IInv
    <2>0. NUMCPUS' \in Nat
      BY <1>2, ListSizeAssumption DEF TypeOK
    <2>1. ASSUME UNCHANGED <<list, thread, rewritten>>
          PROVE  ScanInv' /\ ScanComplete'
      BY <1>2, <2>1 DEF list, thread, scan, look, ScanInv, ScanComplete, Listed, Covered, Distinct
    <2>2. ASSUME pc' \notin {"scan", "record", "serve"}
          PROVE  ScanInv' /\ ScanComplete'
      BY <2>2 DEF ScanInv, ScanComplete
    <2>3. ASSUME rewritten'
          PROVE  ScanInv' /\ ScanComplete'
      BY <2>3 DEF ScanInv, ScanComplete
    <2>4. ASSUME WakeUp, UNCHANGED list
          PROVE  ScanInv' /\ ScanComplete'
      BY <2>0, <2>1, <2>2, <2>4, BeginScanCovers DEF WakeUp
    <2>5. CASE Start \/ Top \/ Sleep \/ Serve \/ Count \/ Yield
      BY <2>2, <2>5 DEF Start, Top, Sleep, Serve, Count, Yield
    <2>6. CASE Test
      BY <2>0, <2>2, <2>6, BeginScanCovers DEF Test
    <2>7. CASE Observe
      BY <1>2, <2>7 DEF Observe, list, scan, ScanInv, ScanComplete, Covered, Distinct
    <2>8. CASE Record
      BY <1>2, <2>8, RecordCovers
    <2>9. CASE Publish
      BY <1>2, <2>9, PublishCovers
    <2>10. CASE (\E ctrl \in {0, 1} : WriteControl(ctrl)) \/ WriteBindCpu \/ StopThread
      BY <2>1, <2>4, <2>10 DEF WriteControl, WriteBindCpu, StopThread
    <2>11. CASE FreeMemory \/ RemoveFiles \/ UNCHANGED vars
      BY <2>1, <2>11 DEF FreeMemory, RemoveFiles, vars
    <2>12. CASE WriteCpuList
      <3>1. CASE BeginList
        BY <2>3, <3>1 DEF BeginList
      <3>2. CASE StoreEntry \/ EndList
        <4>1. writing # <<>> /\ rewritten' = rewritten
          BY <1>2, <3>2 DEF StoreEntry, EndList, TypeOK
        <4> QED
          BY <1>2, <2>3, <4>1 DEF ListInv
      <3> QED
        BY <2>12, <3>1, <3>2 DEF WriteCpuList
    <2> QED
      BY <1>2, <2>5, <2>6, <2>7, <2>8, <2>9, <2>10, <2>11, <2>12 DEF Next, ThreadStep, Unload
  <1> QED
    BY <1>1, <1>2, Invariance, PTL DEF Spec

=============================================================================
