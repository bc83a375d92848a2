----------------------------- MODULE BalancerLog ------------------------------
(***************************************************************************)
(* What the Balancer records while it runs and reports when it ends        *)
(* (src/Balancer/logger.c; main.c, pollIdleCPU, doAdjust, main, cleanup).  *)
(* Three buffers of MAX_EVENTS entries, each of which may be missing, take *)
(* the changes of the idle mask, the rebalances and the adjustments of the *)
(* targets; writeLog turns them into statistics and the time each core was *)
(* active.  The controller's choices are those of module Balancer; here    *)
(* they are left open.                                                     *)
(***************************************************************************)
EXTENDS Integers, Sequences, FiniteSets, FiniteSetsExt, Functions

CONSTANTS Cores,        \* the cores of argv[4]
          Primaries,    \* Primaries[i]: the cores of the i-th Primary
          Targets,      \* values of targetIdleCores
          MAX_EVENTS,
          NsPerSec,     \* nanoseconds of a second
          Wrap,         \* uint64_t and unsigned long are modulo this
          MaxTime,      \* bound on the clock
          MaxChanges    \* bound on idleMaskChangeCount; the code has none

ASSUME ClockAssumption == /\ NsPerSec \in Nat \ {0} /\ MaxTime \in Nat
                          /\ Wrap \in Nat \ {0} /\ MaxTime < Wrap
ASSUME BuffersAssumption == MAX_EVENTS \in Nat /\ MaxChanges \in Nat
ASSUME PrimariesAssumption ==
    /\ Cores \subseteq Nat /\ IsFiniteSet(Cores) /\ Targets \subseteq Nat
    /\ Primaries \in Seq(SUBSET Cores) /\ Primaries # <<>>

VARIABLES now,              \* CLOCK_MONOTONIC_RAW
          pc,               \* where the Balancer is
          missing,          \* the buffers malloc refused
          lastIdleMask,     \* after the test also currIdleMask
          idleMaskChanges, events, dynamicEventCount,
          coreDifference, eventStart,
          report,           \* what the log files say
          shares,           \* history: what each Primary added this iteration
          observed,         \* history: times seen active and idle, by core
          served            \* history: the rebalances so far

buffers == <<missing, idleMaskChanges, events, dynamicEventCount>>
evaluation == <<coreDifference, eventStart>>
history == <<shares, observed, served>>
vars == <<now, pc, buffers, lastIdleMask, evaluation, report, history>>

Masks == SUBSET Cores
Ctrs == 1..Len(Primaries)
loggingEnabled == missing = {}
Times == 0..MaxTime

\* A timespec, and the elapsed time of writeLog and calculateExecTime.
Timespec(t) == [sec |-> t \div NsPerSec, nsec |-> t % NsPerSec]
Elapsed(from, to) == (NsPerSec * (to.sec - from.sec) + (to.nsec - from.nsec)) % Wrap

NoReport == [log |-> "none", stats |-> "none", util |-> "none", dynamic |-> "none"]

Init ==
    /\ now = 0
    /\ pc = "poll"
    /\ missing \in {{}, {"events"}, {"idleMaskChanges"}, {"dynamicEvents"}}
    /\ lastIdleMask = {}
    /\ idleMaskChanges = <<>> /\ events = <<>> /\ dynamicEventCount = 0
    /\ coreDifference = 0 /\ eventStart = Timespec(0)
    /\ report = NoReport
    /\ shares = [p \in Ctrs |-> 0]
    /\ observed = [active |-> [c \in Cores |-> 0], idle |-> [c \in Cores |-> 0],
                   since |-> 0]
    /\ served = [few |-> 0, many |-> 0, all |-> 0, fewTime |-> 0, manyTime |-> 0,
                 time |-> 0, longest |-> 0]

\* CLOCK_MONOTONIC_RAW goes on; only while it will be read again.
Tick ==
    /\ pc \in {"poll", "evaluate", "allocate"}
    /\ now < MaxTime
    /\ now' = now + 1
    /\ UNCHANGED <<pc, buffers, lastIdleMask, evaluation, report, history>>

-----------------------------------------------------------------------------
(* The polling loop. *)

Observe ==
    LET lasted == IF idleMaskChanges = <<>> THEN 0 ELSE now - observed.since
    IN  [active |-> [c \in Cores |-> observed.active[c]
                                     + (IF c \in lastIdleMask THEN lasted ELSE 0)],
         idle |-> [c \in Cores |-> observed.idle[c]
                                   + (IF c \notin lastIdleMask THEN lasted ELSE 0)],
         since |-> now]

RecordChange(mask) ==
    idleMaskChanges' = Append(idleMaskChanges,
        [ts |-> Timespec(now), oldMask |-> lastIdleMask, newMask |-> mask])

\* Mutant: an iteration with an unchanged mask is not skipped.
PollWithoutContinue ==
    /\ pc = "poll"
    /\ \E mask \in Masks :
        /\ Len(idleMaskChanges) < MaxChanges
        /\ pc' = "evaluate"
        /\ lastIdleMask' = mask
        /\ IF mask = lastIdleMask
           THEN UNCHANGED <<idleMaskChanges, observed>>
           ELSE RecordChange(mask) /\ observed' = Observe
    /\ UNCHANGED <<now, missing, events, dynamicEventCount, evaluation, report,
                   shares, served>>

\* An iteration that sees a new mask records it, or ends with a segmentation
\* fault when the buffer is missing; the others change nothing.
Poll ==
    /\ pc = "poll"
    /\ \E mask \in Masks \ {lastIdleMask} :
        IF "idleMaskChanges" \in missing
        THEN pc' = "killed" /\ UNCHANGED <<lastIdleMask, idleMaskChanges, observed>>
        ELSE /\ Len(idleMaskChanges) < MaxChanges
             /\ pc' = "evaluate"
             /\ RecordChange(mask)
             /\ lastIdleMask' = mask
             /\ observed' = Observe
    /\ UNCHANGED <<now, missing, events, dynamicEventCount, evaluation, report,
                   shares, served>>

\* logDynamicEvent, called n times; of an entry only its place matters here.
LogDynamicEvents(n) ==
    dynamicEventCount' = IF loggingEnabled
                         THEN Min({dynamicEventCount + n, MAX_EVENTS + 1})
                         ELSE dynamicEventCount

\* What a Primary may add to coreDifference: doHarvest skips one that has all
\* or none of its cores lent.
Shares(p) == {0} \cup {Cardinality(Primaries[p] \ lastIdleMask) - target : target \in Targets}

\* evaluateContainers, and the test for a rebalance.  Any of the Primaries may
\* have its target adjusted and logged.
Evaluate ==
    /\ pc = "evaluate"
    /\ \E n \in 0..Len(Primaries) : LogDynamicEvents(n)
    /\ shares' \in {f \in [Ctrs -> UNION {Shares(p) : p \in Ctrs}] :
                        \A p \in Ctrs : f[p] \in Shares(p)}
    /\ coreDifference' = coreDifference + SumFunction(shares')
    /\ IF coreDifference' # 0 \/ \E p \in Ctrs : shares'[p] # 0
       THEN pc' = "allocate" /\ eventStart' = Timespec(now)
       ELSE pc' = "end" /\ UNCHANGED eventStart
    /\ UNCHANGED <<now, missing, lastIdleMask, idleMaskChanges, events, report,
                   observed, served>>

\* addLogEvent.  Its test lets one entry be written behind the buffer, as that
\* of logDynamicEvent does.
AddLogEvent(entry) ==
    events' = IF loggingEnabled /\ Len(events) <= MAX_EVENTS
              THEN Append(events, entry) ELSE events

Serve ==
    LET difference == SumFunction(shares)
        elapsed == now - (eventStart.sec * NsPerSec + eventStart.nsec)
        If(test, n) == IF test THEN n ELSE 0
    IN  served' = [few |-> served.few + If(difference < 0, 1),
                   many |-> served.many + If(difference > 0, 1),
                   all |-> served.all + 1,
                   fewTime |-> served.fewTime + If(difference < 0, elapsed),
                   manyTime |-> served.manyTime + If(difference > 0, elapsed),
                   time |-> served.time + elapsed,
                   longest |-> Max({served.longest, elapsed})]

\* AllocateCoresToSecondary has returned and the rebalance is logged.
Rebalance ==
    /\ pc = "allocate"
    /\ pc' = "end"
    /\ AddLogEvent([start |-> eventStart, end |-> Timespec(now),
                    coreDifference |-> coreDifference, currIdleMask |-> lastIdleMask])
    /\ Serve
    /\ UNCHANGED <<now, missing, lastIdleMask, idleMaskChanges, dynamicEventCount,
                   evaluation, report, shares, observed>>

\* Mutant: the sum of the differences is carried over.
EndKeepingDifference ==
    /\ pc = "end"
    /\ pc' = "poll"
    /\ shares' = [p \in Ctrs |-> 0]
    /\ UNCHANGED <<now, buffers, lastIdleMask, evaluation, report, observed, served>>

\* eventStart is not read again and is cleared to keep the states few.
EndIteration ==
    /\ pc = "end"
    /\ pc' = "poll"
    /\ coreDifference' = 0
    /\ eventStart' = Timespec(0)
    /\ shares' = [p \in Ctrs |-> 0]
    /\ UNCHANGED <<now, buffers, lastIdleMask, report, observed, served>>

\* balancerControl is -1: pollIdleCPU returns and cleanup calls writeLog.
Exit ==
    /\ pc = "poll"
    /\ pc' = "statistics"
    /\ UNCHANGED <<now, buffers, lastIdleMask, evaluation, report, history>>

-----------------------------------------------------------------------------
(* writeLog. *)

EventTimes == [i \in 1..Len(events) |-> Elapsed(events[i].start, events[i].end)]
TooFew == {i \in 1..Len(events) : events[i].coreDifference < 0}
TooMany == {i \in 1..Len(events) : events[i].coreDifference > 0}

\* minServiceTime starts at 0, so it stays there.
Statistics ==
    LET total == SumFunction(EventTimes) % Wrap
    IN  [tooFewIdleCount |-> Cardinality(TooFew),
         tooManyIdleCount |-> Cardinality(TooMany),
         rebalance |-> Len(events),
         minServiceTime |-> Min({0} \cup Range(EventTimes)),
         maxServiceTime |-> Max({0} \cup Range(EventTimes)),
         avgServiceTime |-> total \div Len(events),
         tooFewIdleTime |-> SumFunctionOnSet(EventTimes, TooFew) % Wrap,
         tooManyIdleTime |-> SumFunctionOnSet(EventTimes, TooMany) % Wrap,
         totalProcessingTime |-> total]

Step(next, file, content) ==
    /\ pc' = next
    /\ report' = [report EXCEPT ![file] = content]
    /\ UNCHANGED <<now, buffers, lastIdleMask, evaluation, history>>

\* balancer.log and the statistics.  The division by a count of 0 is a SIGFPE;
\* what is in the buffer of the log file is lost with the process.
WriteEvents ==
    /\ pc = "statistics"
    /\ \/ Step("done", "log", "unopened")
       \/ events = <<>> /\ Step("killed", "log", "lost")
       \/ events # <<>> /\ Step("execTime", "log", Statistics)

Intervals == [e \in 1..(Len(idleMaskChanges) - 1) |->
                 Elapsed(idleMaskChanges[e].ts, idleMaskChanges[e + 1].ts)]

\* Mutant: a core counts as active by the mask that an interval ends with.
UtilizationByNewMask(c) ==
    LET busy == {e \in DOMAIN Intervals : c \in idleMaskChanges[e + 1].newMask}
    IN  [active |-> SumFunctionOnSet(Intervals, busy) % Wrap,
         idle |-> SumFunctionOnSet(Intervals, DOMAIN Intervals \ busy) % Wrap]

\* The time between two changes counts by the mask that the second one ends.
Utilization(c) ==
    LET busy == {e \in DOMAIN Intervals : c \in idleMaskChanges[e + 1].oldMask}
    IN  [active |-> SumFunctionOnSet(Intervals, busy) % Wrap,
         idle |-> SumFunctionOnSet(Intervals, DOMAIN Intervals \ busy) % Wrap]

\* calculateExecTime, with both its files.  Its bound idleMaskChangeCount - 1
\* is unsigned: without any change it runs over the end of the buffer.  No
\* result of fopen is tested.
CalculateExecTime ==
    /\ pc = "execTime"
    /\ \/ Step("killed", "util", "lost")
       \/ /\ idleMaskChanges # <<>>
          /\ Step("stats", "util", [c \in Cores |-> Utilization(c)])

\* stats.log, and balancer.log is closed.
WriteStats ==
    /\ pc = "stats"
    /\ \/ Step("killed", "stats", "lost")
       \/ Step("dynamic", "stats", report.log)

WriteDynamic ==
    /\ pc = "dynamic"
    /\ \/ Step("done", "dynamic", "unopened")
       \/ Step("done", "dynamic", dynamicEventCount)

WriteLog == \/ WriteEvents \/ CalculateExecTime \/ WriteStats \/ WriteDynamic

Next == \/ Tick
        \/ Poll \/ Evaluate \/ Rebalance \/ EndIteration \/ Exit
        \/ WriteLog

Spec == Init /\ [][Next]_vars

-----------------------------------------------------------------------------
(* Properties. *)

\* util.log gives for every core exactly the time between the first and the
\* last change during which the Balancer saw it active or idle, also across
\* the seconds of the clock (logger.c, calculateExecTime).
UtilizationExact ==
    pc = "stats" =>
        \A c \in Cores : /\ report.util[c].active = observed.active[c]
                         /\ report.util[c].idle = observed.idle[c]

\* stats.log counts and times the rebalances of the run as they happened, each
\* by the sum of what its Primaries contributed, unless the log was full; with
\* one Primary each is a surplus or a deficit (logger.c, writeLog).
StatisticsExact ==
    pc = "stats" /\ served.all <= MAX_EVENTS + 1 =>
        LET s == report.log
        IN  /\ s.rebalance = served.all
            /\ s.tooFewIdleCount = served.few /\ s.tooManyIdleCount = served.many
            /\ s.tooFewIdleTime = served.fewTime /\ s.tooManyIdleTime = served.manyTime
            /\ s.totalProcessingTime = served.time
            /\ s.maxServiceTime = served.longest
            /\ Len(Primaries) = 1 => served.few + served.many = served.all

\* Each logged rebalance has a recorded change of its own that it answers, with
\* its mask, before it and with no later change before its end: so the logs can
\* be joined, and calculateExecTime, which nothing but an empty log of
\* rebalances keeps from an empty log of changes, is in bounds (logger.c:98).
EventsMatchChanges ==
    /\ Len(events) <= Len(idleMaskChanges)
    /\ pc = "execTime" => idleMaskChanges # <<>>
    /\ \A i \in 1..Len(events) :
          \E j \in 1..Len(idleMaskChanges) :
              LET Before(s, t) == s.sec < t.sec \/ (s.sec = t.sec /\ s.nsec <= t.nsec)
              IN  /\ idleMaskChanges[j].newMask = events[i].currIdleMask
                  /\ Before(idleMaskChanges[j].ts, events[i].start)
                  /\ j < Len(idleMaskChanges) =>
                        Before(events[i].end, idleMaskChanges[j + 1].ts)
=============================================================================
