-------------------------- MODULE MonitorLogProofs --------------------------
(***************************************************************************)
(* Theorems about the log of the Monitor, for a log of any size and any    *)
(* list of cores: what the thread writes is what one reader gets.          *)
(***************************************************************************)
EXTENDS MonitorLog, TLAPS

-----------------------------------------------------------------------------
(* The inductive invariant. *)

\* The written part of the log, and the entry the thread is about to count.
WriterInv ==
    /\ \A i \in 0..(numentries - 1) : events[i] \in Masks
    /\ tpc \in {"compare", "write", "count"} => numentries < LogSize
    /\ tpc = "count" => events[numentries] = currMask /\ lastMask = currMask
    /\ tpc # "count" => lastMask = LastLogged
    /\ tpc = "new" => numentries = 0

\* A reader at work holds the next entry of the written part.
ReaderInv ==
    /\ entrypos <= numentries
    /\ \A r \in Readers :
          /\ rpc[r] # "idle" => entrypos < numentries
          /\ rpc[r] \in {"copy", "advance"} => line[r] = Shown(events[entrypos])
    /\ Len(delivered) = entrypos
    /\ \A i \in 1..entrypos : delivered[i] = Shown(events[i - 1])

IInv == TypeOK /\ WriterInv /\ ReaderInv

LEMMA InitIInv == Init => IInv
  <1> SUFFICES ASSUME Init PROVE IInv
    OBVIOUS
  <1>1. TypeOK
    <2>1. delivered \in Seq(Masks)
      BY DEF Init
    <2> QED
      BY <2>1, LogSizeAssumption DEF Init, TypeOK, Masks
  <1>2. WriterInv
    BY DEF Init, WriterInv, LastLogged
  <1>3. ReaderInv
    BY DEF Init, ReaderInv
  <1> QED
    BY <1>1, <1>2, <1>3 DEF IInv

\* The columns of an entry are cores of its mask.
LEMMA ShownFacts ==
    ASSUME NEW mask \in Masks
    PROVE  /\ Shown(mask) \in Masks
           /\ mask # NoEntry
           /\ \A c \in 1..Len(CpuList) : CpuList[c] \in Shown(mask) <=> CpuList[c] \in mask
  <1>1. Shown(mask) \in Masks
    BY DEF Shown, Masks
  <1>2. mask # NoEntry
    BY CoresAssumption DEF Masks, NoEntry
  <1>3. ASSUME NEW c \in 1..Len(CpuList)
        PROVE  CpuList[c] \in Shown(mask) <=> CpuList[c] \in mask
    BY ListAssumption DEF Shown
  <1> QED
    BY <1>1, <1>2, <1>3

-----------------------------------------------------------------------------
(* The thread keeps it. *)

\* The log as the thread leaves it alone, for the readers and for itself.
LEMMA LogUnchanged ==
    ASSUME ReaderInv, UNCHANGED <<log, reading>>
    PROVE  ReaderInv'
  BY DEF ReaderInv, log, reading, Shown

LEMMA StartKeeps == IInv /\ Start => IInv'
  <1> SUFFICES ASSUME IInv, Start PROVE IInv'
    OBVIOUS
  <1>1. TypeOK'
    BY LogSizeAssumption DEF IInv, TypeOK, Start, Masks
  <1>2. WriterInv'
    BY DEF Start, WriterInv, LastLogged
  <1>3. /\ UNCHANGED <<events, rpc, line, delivered>> /\ tpc = "new"
        /\ numentries' = 0 /\ entrypos' = 0
    BY DEF Start
  <1>4. entrypos = 0 /\ numentries = 0
    BY <1>3 DEF IInv, TypeOK, WriterInv, ReaderInv
  <1>5. UNCHANGED <<entrypos, numentries>>
    BY <1>3, <1>4
  <1>6. ReaderInv'
    BY <1>3, <1>5 DEF IInv, ReaderInv, Shown
  <1> QED
    BY <1>1, <1>2, <1>6 DEF IInv

LEMMA WriteKeeps == IInv /\ WriteEntry => IInv'
  <1> SUFFICES ASSUME IInv, WriteEntry PROVE IInv'
    OBVIOUS
  <1> USE DEF IInv
  <1>1. /\ numentries \in 0..(LogSize - 1) /\ DOMAIN events = 0..(LogSize - 1)
        /\ events' = [events EXCEPT ![numentries] = currMask]
        /\ currMask \in Masks /\ numentries' = numentries /\ tpc = "write"
    BY LogSizeAssumption DEF WriteEntry, TypeOK, WriterInv
  <1>2. \A i \in 0..(numentries - 1) : events'[i] = events[i]
    BY <1>1, LogSizeAssumption
  <1>3. events'[numentries] = currMask
    BY <1>1
  <1>4. TypeOK'
    BY <1>1 DEF WriteEntry, TypeOK, reading
  <1>5. WriterInv'
    BY <1>1, <1>2, <1>3 DEF WriteEntry, WriterInv
  <1>6. ReaderInv'
    <2>1. UNCHANGED <<entrypos, rpc, line, delivered>>
      BY DEF WriteEntry, reading
    <2>2. entrypos \in Nat
      BY DEF TypeOK
    <2>3. ASSUME NEW r \in Readers, rpc[r] \in {"copy", "advance"}
          PROVE  line[r] = Shown(events'[entrypos])
      <3>1. entrypos \in 0..(numentries - 1) /\ line[r] = Shown(events[entrypos])
        BY <1>1, <2>2, <2>3 DEF ReaderInv
      <3> QED
        BY <1>2, <3>1
    <2>4. ASSUME NEW i \in 1..entrypos
          PROVE  delivered[i] = Shown(events'[i - 1])
      <3>1. i - 1 \in 0..(numentries - 1)
        BY <1>1, <2>2 DEF ReaderInv
      <3> QED
        BY <1>2, <3>1 DEF ReaderInv
    <2> QED
      BY <1>1, <2>1, <2>3, <2>4 DEF ReaderInv, Shown
  <1> QED
    BY <1>4, <1>5, <1>6

LEMMA CountKeeps == IInv /\ CountEntry => IInv'
  <1> SUFFICES ASSUME IInv, CountEntry PROVE IInv'
    OBVIOUS
  <1> USE DEF IInv
  <1>1. /\ numentries \in 0..(LogSize - 1) /\ numentries' = numentries + 1
        /\ UNCHANGED <<events, currMask, lastMask, LOG_LEVEL, reading>> /\ tpc' = "scan"
        /\ events[numentries] = currMask /\ lastMask = currMask /\ currMask \in Masks
    BY LogSizeAssumption DEF CountEntry, TypeOK, WriterInv
  <1>2. TypeOK'
    BY <1>1, LogSizeAssumption DEF TypeOK, reading
  <1>3. WriterInv'
    <2>1. LastLogged' = currMask
      BY <1>1 DEF LastLogged
    <2>2. \A i \in 0..(numentries' - 1) : events'[i] \in Masks
      BY <1>1 DEF WriterInv
    <2> QED
      BY <1>1, <2>1, <2>2 DEF WriterInv
  <1>4. ReaderInv'
    BY <1>1 DEF ReaderInv, TypeOK, reading, Shown
  <1> QED
    BY <1>2, <1>3, <1>4

LEMMA ThreadKeeps == IInv /\ ThreadStep => IInv'
  <1> SUFFICES ASSUME IInv, ThreadStep PROVE IInv'
    OBVIOUS
  <1>1. CASE Scan \/ TestLevel \/ Compare
    <2>1. TypeOK'
      BY <1>1 DEF IInv, TypeOK, Scan, TestLevel, Compare, log, reading
    <2>2. WriterInv'
      BY <1>1, LogSizeAssumption
      DEF IInv, TypeOK, WriterInv, LastLogged, Scan, TestLevel, Compare, log
    <2>3. ReaderInv'
      BY <1>1, LogUnchanged DEF IInv, Scan, TestLevel, Compare
    <2> QED
      BY <2>1, <2>2, <2>3 DEF IInv
  <1> QED
    BY <1>1, StartKeeps, WriteKeeps, CountKeeps DEF ThreadStep

-----------------------------------------------------------------------------
(* The files keep it. *)

LEMMA ReadKeeps ==
    ASSUME IInv, NEW r \in Readers, Read(r)
    PROVE  IInv'
  <1> USE DEF IInv
  <1>0. /\ UNCHANGED <<thread, log, LOG_LEVEL>>
        /\ \A s \in Readers : s = r
        /\ entrypos \in 0..LogSize /\ numentries \in 0..LogSize
        /\ LogSize \in Nat
    BY OneReader, LogSizeAssumption
    DEF Read, OpenLog, FormatLine, CopyLine, AdvanceLog, TypeOK
  <1>1. WriterInv'
    BY <1>0 DEF WriterInv, LastLogged, thread, log
  <1>2. CASE OpenLog(r)
    BY <1>0, <1>1, <1>2 DEF OpenLog, TypeOK, ReaderInv, thread, log, Shown
  <1>3. CASE FormatLine(r)
    <2>1. entrypos < numentries /\ events[entrypos] \in Masks
      BY <1>0, <1>3 DEF FormatLine, ReaderInv, WriterInv
    <2>2. Shown(events[entrypos]) \in Masks
      BY <2>1, ShownFacts
    <2>3. TypeOK'
      BY <1>0, <1>3, <2>2 DEF FormatLine, TypeOK, thread, log
    <2>4. line'[r] = Shown(events[entrypos]) /\ rpc'[r] = "copy"
      BY <1>3 DEF FormatLine, TypeOK
    <2>5. ReaderInv'
      BY <1>0, <1>3, <2>1, <2>4 DEF FormatLine, ReaderInv, log, Shown
    <2> QED
      BY <1>1, <2>3, <2>5
  <1>4. CASE CopyLine(r)
    <2>1. TypeOK'
      BY <1>0, <1>4 DEF CopyLine, TypeOK, thread, log
    <2>2. rpc'[r] \in {"advance", "idle"} /\ UNCHANGED <<entrypos, line, delivered>>
      BY <1>4 DEF CopyLine, TypeOK
    <2>3. entrypos < numentries /\ line[r] = Shown(events[entrypos])
      BY <1>4 DEF CopyLine, ReaderInv
    <2>4. ReaderInv'
      BY <1>0, <2>2, <2>3 DEF ReaderInv, log, Shown
    <2> QED
      BY <1>1, <2>1, <2>4
  <1>5. CASE AdvanceLog(r)
    <2>1. entrypos < numentries /\ line[r] = Shown(events[entrypos])
      BY <1>5 DEF AdvanceLog, ReaderInv
    <2>2. events[entrypos] \in Masks
      BY <1>0, <2>1 DEF WriterInv
    <2>3. line[r] \in Masks
      BY <2>1, <2>2, ShownFacts
    <2>4. delivered \in Seq(Masks) /\ Len(delivered) = entrypos
          /\ delivered' = Append(delivered, line[r]) /\ entrypos' = entrypos + 1
      BY <1>5 DEF AdvanceLog, TypeOK, ReaderInv
    <2>5. /\ delivered' \in Seq(Masks) /\ Len(delivered') = entrypos'
          /\ \A i \in 1..entrypos : delivered'[i] = delivered[i]
          /\ delivered'[entrypos + 1] = line[r]
      BY <2>3, <2>4
    <2>6. TypeOK'
      BY <1>0, <1>5, <2>1, <2>5 DEF AdvanceLog, TypeOK, thread, log
    <2>7. ASSUME NEW i \in 1..entrypos' PROVE delivered'[i] = Shown(events[i - 1])
      <3>1. CASE i = entrypos + 1
        BY <1>0, <2>1, <2>5, <3>1
      <3>2. CASE i # entrypos + 1
        <4>1. i \in 1..entrypos
          BY <1>0, <2>4, <2>7, <3>2
        <4> QED
          BY <2>5, <4>1 DEF ReaderInv
      <3> QED
        BY <3>1, <3>2
    <2>8. rpc'[r] = "idle"
      BY <1>5 DEF AdvanceLog, TypeOK
    <2>9. ReaderInv'
      BY <1>0, <2>1, <2>4, <2>5, <2>7, <2>8 DEF ReaderInv, log, Shown
    <2> QED
      BY <1>1, <2>6, <2>9
  <1> QED
    BY <1>2, <1>3, <1>4, <1>5 DEF Read

LEMMA NextIInv == IInv /\ [Next]_vars => IInv'
  <1> SUFFICES ASSUME IInv, [Next]_vars PROVE IInv'
    OBVIOUS
  <1>1. ASSUME NEW ctrl \in -1..3, WriteLogControl(ctrl)
        PROVE  IInv'
    BY <1>1, LogUnchanged
    DEF WriteLogControl, Level, IInv, TypeOK, WriterInv, LastLogged, thread, log, reading
  <1>2. CASE UNCHANGED vars
    BY <1>2, LogUnchanged
    DEF vars, IInv, TypeOK, WriterInv, LastLogged, thread, log, reading
  <1> QED
    BY <1>1, <1>2, ThreadKeeps, ReadKeeps DEF Next

LEMMA Invariance == Spec => []IInv
  BY InitIInv, NextIInv, PTL DEF Spec

-----------------------------------------------------------------------------
(* Theorems. *)

\* All words keep to their types; the log is not written past its end.
THEOREM TypeCorrect == Spec => []TypeOK
  <1>1. IInv => TypeOK
    BY DEF IInv
  <1> QED
    BY <1>1, Invariance, PTL

\* A reader formats complete entries only, for a log of any size (procfs.h,
\* log_reader).
THEOREM ReadersSeeWritten == Spec => []ReadsWritten
  <1>1. ASSUME IInv PROVE ReadsWritten
    <2>1. ASSUME NEW r \in Readers, rpc[r] = "format"
          PROVE  entrypos < numentries /\ events[entrypos] # NoEntry
      <3>1. entrypos < numentries /\ entrypos \in Nat
        BY <1>1, <2>1 DEF IInv, TypeOK, ReaderInv
      <3>2. events[entrypos] \in Masks
        BY <1>1, <3>1 DEF IInv, TypeOK, WriterInv
      <3> QED
        BY <3>1, <3>2, ShownFacts
    <2> QED
      BY <1>1, <2>1 DEF IInv, ReadsWritten, WriterInv, ReaderInv
  <1> QED
    BY <1>1, Invariance, PTL

\* The reader receives the entries in order, once, and right for every listed
\* core (procfs.h, log_reader).
THEOREM LogReadInOrder == Spec => []ReadInOrder
  <1>1. ASSUME IInv PROVE ReadInOrder
    <2>1. ASSUME NEW i \in 1..entrypos, NEW c \in 1..Len(CpuList)
          PROVE  CpuList[c] \in delivered[i] <=> CpuList[c] \in events[i - 1]
      <3>1. i - 1 \in 0..(numentries - 1)
        BY <1>1 DEF IInv, TypeOK, ReaderInv
      <3>2. events[i - 1] \in Masks /\ delivered[i] = Shown(events[i - 1])
        BY <1>1, <3>1 DEF IInv, WriterInv, ReaderInv
      <3> QED
        BY <3>2, ShownFacts
    <2> QED
      BY <1>1, <2>1 DEF IInv, ReadInOrder, ReaderInv
  <1> QED
    BY <1>1, Invariance, PTL

\* The log tells every mask the thread has seen, whatever the operator writes
\* to logcontrol meanwhile (monitor.c, check_idle_cpus).
THEOREM LogTellsMasks == Spec => LogFollowsMask
  <1> DEFINE Told == /\ tpc \in {"compare", "count"} /\ tpc' = "scan" => LastLogged' = currMask
                     /\ tpc = "compare" /\ tpc' = "write" /\ LOG_LEVEL = 1
                           => currMask # LastLogged
  <1>1. ASSUME IInv, [Next]_vars PROVE [Told]_vars
    <2>1. CASE CountEntry
      BY <1>1, <2>1, LogSizeAssumption DEF IInv, TypeOK, WriterInv, CountEntry, LastLogged
    <2>2. CASE Compare
      BY <1>1, <2>2 DEF IInv, WriterInv, Compare, LastLogged, log
    <2>3. CASE Start \/ Scan \/ TestLevel \/ WriteEntry
      BY <2>3 DEF Start, Scan, TestLevel, WriteEntry
    <2>4. CASE (\E ctrl \in -1..3 : WriteLogControl(ctrl)) \/ (\E r \in Readers : Read(r))
      <3>1. UNCHANGED thread
        BY <2>4 DEF WriteLogControl, Read, OpenLog, FormatLine, CopyLine, AdvanceLog
      <3> QED
        BY <3>1 DEF thread
    <2> QED
      BY <1>1, <2>1, <2>2, <2>3, <2>4 DEF Next, ThreadStep
  <1> QED
    BY <1>1, Invariance, PTL DEF Spec, LogFollowsMask

=============================================================================
