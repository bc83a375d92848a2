----------------------------- MODULE MonitorLog ------------------------------
(***************************************************************************)
(* The log of idle masks that the Monitor's kernel thread writes and the   *)
(* operator reads line by line from procfs (src/Monitor/monitor.c, the end *)
(* of the loop of check_idle_cpus; procfs.h, log_reader and                *)
(* logcontrol_writer).  The thread and the readers share numentries,       *)
(* entrypos and the entries without a lock.                                *)
(***************************************************************************)
EXTENDS Integers, Sequences, FiniteSets

CONSTANTS Cores,      \* bits of a mask, those of cores no longer listed too
          CpuList,    \* the list the thread scans
          LogSize,    \* LOGSIZE, entries of the log
          Readers     \* processes that read the log

ASSUME LogSizeAssumption == LogSize \in Nat \ {0}
ASSUME CoresAssumption == Cores \subseteq Nat
\* The reader takes the last listed core for the largest one.
ASSUME ListAssumption == /\ CpuList \in Seq(Cores) /\ CpuList # <<>>
                         /\ \A i \in 1..Len(CpuList) : CpuList[i] <= CpuList[Len(CpuList)]
\* The log is read by one process at a time.
ASSUME OneReader == \A r, s \in Readers : r = s

VARIABLES tpc,         \* where the thread is
          currMask,    \* cores the last scan found active
          lastMask,    \* mask of the last entry written
          LOG_LEVEL,
          events,      \* the array of entries
          numentries,  \* entries written
          entrypos,    \* next entry to read
          rpc,         \* where each reader is
          line,        \* the entry a reader has formatted
          delivered    \* history: entries readers have received

thread == <<tpc, currMask, lastMask>>
log == <<events, numentries>>
reading == <<entrypos, rpc, line, delivered>>
vars == <<thread, log, LOG_LEVEL, reading>>

Masks == SUBSET Cores
NoEntry == {-1}

TypeOK ==
    /\ tpc \in {"new", "scan", "level", "compare", "write", "count"}
    /\ currMask \in Masks /\ lastMask \in Masks
    /\ LOG_LEVEL \in 0..2
    /\ events \in [0..(LogSize - 1) -> Masks \cup {NoEntry}]
    /\ numentries \in 0..LogSize
    /\ entrypos \in 0..LogSize
    /\ rpc \in [Readers -> {"idle", "format", "copy", "advance"}]
    /\ line \in [Readers -> Masks \cup {NoEntry}]
    /\ delivered \in Seq(Masks)

Init ==
    /\ tpc = "new"
    /\ currMask = {} /\ lastMask = {}
    /\ LOG_LEVEL = 0
    /\ events = [i \in 0..(LogSize - 1) |-> NoEntry]
    /\ numentries = 0
    /\ entrypos = 0
    /\ rpc = [r \in Readers |-> "idle"]
    /\ line = [r \in Readers |-> NoEntry]
    /\ delivered = <<>>

-----------------------------------------------------------------------------
(* The thread. *)

\* The thread's first run; a level set before is lost.
Start ==
    /\ tpc = "new"
    /\ tpc' = "scan"
    /\ numentries' = 0 /\ entrypos' = 0
    /\ LOG_LEVEL' = 0
    /\ currMask' = {} /\ lastMask' = {}
    /\ UNCHANGED <<events, rpc, line, delivered>>

\* Everything between the top of the loop and its logging part.
Scan ==
    /\ tpc = "scan"
    /\ tpc' = "level"
    /\ currMask' \in Masks
    /\ UNCHANGED <<lastMask, log, LOG_LEVEL, reading>>

TestLevel ==
    /\ tpc = "level"
    /\ tpc' = IF LOG_LEVEL = 0 \/ numentries > LogSize - 1 THEN "scan" ELSE "compare"
    /\ UNCHANGED <<currMask, lastMask, log, LOG_LEVEL, reading>>

\* LOG_LEVEL is read again: it may have changed since the test before.
Compare ==
    /\ tpc = "compare"
    /\ tpc' = IF LOG_LEVEL = 1 /\ currMask = lastMask THEN "scan" ELSE "write"
    /\ UNCHANGED <<currMask, lastMask, log, LOG_LEVEL, reading>>

\* Mutant: only level 1 remembers what was written.
WriteEntryForgetting ==
    /\ tpc = "write"
    /\ tpc' = "count"
    /\ events' = [events EXCEPT ![numentries] = currMask]
    /\ lastMask' = IF LOG_LEVEL = 1 THEN currMask ELSE lastMask
    /\ UNCHANGED <<currMask, numentries, LOG_LEVEL, reading>>

WriteEntry ==
    /\ tpc = "write"
    /\ tpc' = "count"
    /\ events' = [events EXCEPT ![numentries] = currMask]
    /\ lastMask' = currMask
    /\ UNCHANGED <<currMask, numentries, LOG_LEVEL, reading>>

CountEntry ==
    /\ tpc = "count"
    /\ tpc' = "scan"
    /\ numentries' = numentries + 1
    /\ UNCHANGED <<currMask, lastMask, events, LOG_LEVEL, reading>>

ThreadStep == Start \/ Scan \/ TestLevel \/ Compare \/ WriteEntry \/ CountEntry

-----------------------------------------------------------------------------
(* The files. *)

Level(ctrl) == IF ctrl \in 0..2 THEN ctrl ELSE 0

WriteLogControl(ctrl) ==
    /\ LOG_LEVEL' = Level(ctrl)
    /\ UNCHANGED <<thread, log, reading>>

\* Mutant: the entry being written is offered as well.
OpenLogEarly(r) ==
    /\ rpc[r] = "idle"
    /\ entrypos <= numentries /\ entrypos < LogSize
    /\ rpc' = [rpc EXCEPT ![r] = "format"]
    /\ UNCHANGED <<thread, log, LOG_LEVEL, entrypos, line, delivered>>

\* log_reader returns nothing at the end of the log.
OpenLog(r) ==
    /\ rpc[r] = "idle"
    /\ entrypos <= numentries - 1
    /\ rpc' = [rpc EXCEPT ![r] = "format"]
    /\ UNCHANGED <<thread, log, LOG_LEVEL, entrypos, line, delivered>>

\* The columns of a line: cores up to the last listed one.
Shown(mask) == {c \in mask : c <= CpuList[Len(CpuList)]}

FormatLine(r) ==
    /\ rpc[r] = "format"
    /\ rpc' = [rpc EXCEPT ![r] = "copy"]
    /\ line' = [line EXCEPT ![r] = Shown(events[entrypos])]
    /\ UNCHANGED <<thread, log, LOG_LEVEL, entrypos, delivered>>

\* Mutant: entrypos has moved on although the copy failed.
CopyLineCounting(r) ==
    /\ rpc[r] = "copy"
    /\ \/ rpc' = [rpc EXCEPT ![r] = "advance"] /\ UNCHANGED entrypos
       \/ rpc' = [rpc EXCEPT ![r] = "idle"] /\ entrypos' = entrypos + 1
    /\ UNCHANGED <<thread, log, LOG_LEVEL, line, delivered>>

\* copy_to_user may fail, and then the entry stays the next one.
CopyLine(r) ==
    /\ rpc[r] = "copy"
    /\ \E next \in {"advance", "idle"} : rpc' = [rpc EXCEPT ![r] = next]
    /\ UNCHANGED <<thread, log, LOG_LEVEL, entrypos, line, delivered>>

AdvanceLog(r) ==
    /\ rpc[r] = "advance"
    /\ rpc' = [rpc EXCEPT ![r] = "idle"]
    /\ entrypos' = entrypos + 1
    /\ delivered' = Append(delivered, line[r])
    /\ UNCHANGED <<thread, log, LOG_LEVEL, line>>

Read(r) == OpenLog(r) \/ FormatLine(r) \/ CopyLine(r) \/ AdvanceLog(r)

Next == \/ ThreadStep
        \/ \E ctrl \in -1..3 : WriteLogControl(ctrl)
        \/ \E r \in Readers : Read(r)

Spec == Init /\ [][Next]_vars

-----------------------------------------------------------------------------
(* Properties. *)

LastLogged == IF numentries = 0 THEN {} ELSE events[numentries - 1]

\* The readers receive the entries of the log in order, each exactly once and
\* right for every listed core, also when a copy to user space fails
\* (procfs.h, log_reader).
ReadInOrder ==
    /\ Len(delivered) = entrypos
    /\ \A i \in 1..entrypos, c \in 1..Len(CpuList) :
          CpuList[c] \in delivered[i] <=> CpuList[c] \in events[i - 1]

\* The thread stores within the array, and a reader never formats an entry that
\* is not complete: it relies on the entry being written before numentries
\* (monitor.c, check_idle_cpus; procfs.h, log_reader).
ReadsWritten ==
    /\ tpc \in {"compare", "write", "count"} => numentries < LogSize
    /\ \A r \in Readers :
        /\ rpc[r] = "format" => entrypos < numentries /\ events[entrypos] # NoEntry
        /\ rpc[r] \in {"copy", "advance"} => line[r] = Shown(events[entrypos])

\* An iteration that logs leaves the mask it saw as the last entry, and at
\* level 1 it adds none that repeats the last: the log tells every mask the
\* thread has seen, across changes of the level (monitor.c, check_idle_cpus;
\* monitor.h, "Log only when idle mask changes").
LogFollowsMask ==
    [][/\ tpc \in {"compare", "count"} /\ tpc' = "scan" => LastLogged' = currMask
       /\ tpc = "compare" /\ tpc' = "write" /\ LOG_LEVEL = 1
            => currMask # LastLogged]_vars
=============================================================================
