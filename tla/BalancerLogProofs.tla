-------------------------- MODULE BalancerLogProofs --------------------------
(***************************************************************************)
(* Theorems about the logs of the Balancer, for buffers of any size, any   *)
(* length of a second and any Primaries.                                   *)
(***************************************************************************)
EXTENDS BalancerLog, SumProofs

-----------------------------------------------------------------------------
(* Instants. *)

Before(s, t) == s.sec < t.sec \/ (s.sec = t.sec /\ s.nsec <= t.nsec)

\* A later reading of the clock has a later timespec.
LEMMA TimespecsInOrder ==
    ASSUME NEW a \in Nat, NEW b \in Nat, a <= b
    PROVE  Before(Timespec(a), Timespec(b))
  <1>1. NsPerSec \in Nat /\ NsPerSec > 0
    BY ClockAssumption
  <1> DEFINE q == a \div NsPerSec
             r == b \div NsPerSec
  <1>2. q \in Int /\ r \in Int
    BY <1>1
  <1>3. a % NsPerSec = a - NsPerSec * q /\ b % NsPerSec = b - NsPerSec * r
    BY <1>1
  <1>4. NsPerSec * q <= a /\ b < NsPerSec * (r + 1)
    BY <1>1
  <1>5. ~(q > r)
    <2> SUFFICES ASSUME q > r PROVE FALSE
      OBVIOUS
    <2>1. NsPerSec * q >= NsPerSec * (r + 1)
      <3>1. \A n \in Nat, k \in Int, l \in Int : k >= l => n * k >= n * l
        OBVIOUS
      <3> HIDE DEF q, r
      <3> QED
        BY <1>1, <1>2, <3>1
    <2> QED
      BY <1>1, <1>2, <1>4, <2>1
  <1>6. q = r => a % NsPerSec <= b % NsPerSec
    BY <1>1, <1>3
  <1> QED
    BY <1>2, <1>5, <1>6 DEF Before, Timespec

-----------------------------------------------------------------------------
(* Buffers. *)

\* What is stored in a buffer does not matter here, only that it is a sequence.
IsBuffer(s) == s \in Seq({s[i] : i \in 1..Len(s)})

\* What a sequence holds after an entry more.
LEMMA Appended ==
    ASSUME NEW s, IsBuffer(s), NEW e
    PROVE  /\ IsBuffer(Append(s, e)) /\ Len(s) \in Nat
           /\ Len(Append(s, e)) = Len(s) + 1 /\ Append(s, e)[Len(s) + 1] = e
           /\ \A i \in 1..Len(s) : Append(s, e)[i] = s[i]
  <1> DEFINE S == {s[i] : i \in 1..Len(s)} \cup {e}
             t == Append(s, e)
  <1>1. s \in Seq(S) /\ e \in S
    BY DEF IsBuffer
  <1>2. /\ t \in Seq(S) /\ Len(s) \in Nat /\ Len(t) = Len(s) + 1 /\ t[Len(s) + 1] = e
        /\ \A i \in 1..Len(s) : t[i] = s[i]
    <2> HIDE DEF S
    <2> QED
      BY <1>1
  <1>3. \A x \in S : \E i \in 1..Len(t) : x = t[i]
    <2> HIDE DEF t
    <2> QED
      BY <1>2
  <1>4. S \subseteq {t[i] : i \in 1..Len(t)}
    BY <1>3
  <1>5. IsBuffer(t)
    <2> HIDE DEF S, t
    <2> QED
      BY <1>2, <1>4 DEF IsBuffer
  <1> QED
    BY <1>2, <1>5

\* The lesser of two numbers.
LEMMA MinOfTwo ==
    ASSUME NEW a \in Int, NEW b \in Int
    PROVE  Min({a, b}) \in {a, b} /\ Min({a, b}) <= a /\ Min({a, b}) <= b
  <1>1. \E x \in {a, b} : \A y \in {a, b} : x <= y
    <2>1. CASE a <= b
      BY <2>1
    <2>2. CASE ~(a <= b)
      BY <2>2
    <2> QED
      BY <2>1, <2>2
  <1> QED
    BY <1>1 DEF Min

-----------------------------------------------------------------------------
(* The inductive invariant. *)

Changes == Len(idleMaskChanges)

Answers(e, changes, j) ==
    /\ changes[j].newMask = e.currIdleMask
    /\ Before(changes[j].ts, e.start)
    /\ j < Len(changes) => Before(e.end, changes[j + 1].ts)

BuffersInv ==
    /\ now \in Nat
    /\ IsBuffer(idleMaskChanges) /\ IsBuffer(events)
    /\ dynamicEventCount \in 0..(MAX_EVENTS + 1)
    /\ Len(events) <= MAX_EVENTS + 1
    /\ missing # {} => events = <<>> /\ dynamicEventCount = 0

\* An iteration records its change first and its rebalance last.
IterationInv ==
    /\ Len(events) <= Changes
    /\ pc = "execTime" => idleMaskChanges # <<>>
    /\ pc \in {"evaluate", "allocate"} =>
          /\ Len(events) < Changes
          /\ idleMaskChanges[Changes].newMask = lastIdleMask
          /\ \E t \in 0..now : idleMaskChanges[Changes].ts = Timespec(t)
    /\ pc = "allocate" => Before(idleMaskChanges[Changes].ts, eventStart)

MatchInv ==
    \A i \in 1..Len(events) :
        /\ \E t \in 0..now : events[i].end = Timespec(t)
        /\ \E j \in 1..Changes : Answers(events[i], idleMaskChanges, j)

IInv == BuffersInv /\ IterationInv /\ MatchInv

LEMMA InitIInv == Init => IInv
  <1> SUFFICES ASSUME Init PROVE IInv
    OBVIOUS
  <1>1. Len(<<>>) = 0 /\ IsBuffer(<<>>)
    BY DEF IsBuffer
  <1>2. MAX_EVENTS \in Nat
    BY BuffersAssumption
  <1>3. /\ now = 0 /\ pc = "poll" /\ idleMaskChanges = <<>> /\ events = <<>>
        /\ dynamicEventCount = 0
    BY DEF Init
  <1> QED
    BY <1>1, <1>2, <1>3 DEF IInv, BuffersInv, IterationInv, MatchInv, Changes

\* A poll records at most one change, at the time of the clock.
LEMMA PollKeeps == IInv /\ Poll => IInv'
  <1> SUFFICES ASSUME IInv, Poll PROVE IInv'
    OBVIOUS
  <1>1. /\ pc = "poll" /\ UNCHANGED <<now, missing, events, dynamicEventCount>>
        /\ BuffersInv /\ IterationInv /\ MatchInv
    BY DEF Poll, IInv
  <1>2. CASE pc' = "killed" /\ UNCHANGED idleMaskChanges
    <2>1. BuffersInv'
      BY <1>1, <1>2 DEF BuffersInv
    <2>2. IterationInv'
      BY <1>1, <1>2 DEF IterationInv, Changes
    <2>3. MatchInv'
      BY <1>1, <1>2 DEF MatchInv, Changes, Answers
    <2> QED
      BY <2>1, <2>2, <2>3 DEF IInv
  <1>3. ASSUME NEW mask, pc' = "evaluate", RecordChange(mask), lastIdleMask' = mask
        PROVE  IInv'
    <2> DEFINE c == [ts |-> Timespec(now), oldMask |-> lastIdleMask, newMask |-> mask]
    <2>1. idleMaskChanges' = Append(idleMaskChanges, c)
      BY <1>3 DEF RecordChange
    <2>2. c.ts = Timespec(now) /\ c.newMask = mask
      OBVIOUS
    <2> HIDE DEF c
    <2>3. /\ IsBuffer(idleMaskChanges') /\ Changes \in Nat
          /\ Changes' = Changes + 1 /\ idleMaskChanges'[Changes + 1] = c
          /\ \A i \in 1..Changes : idleMaskChanges'[i] = idleMaskChanges[i]
      BY <1>1, <2>1, Appended DEF BuffersInv, Changes
    <2>4. BuffersInv'
      BY <1>1, <2>3 DEF BuffersInv
    <2>5. IterationInv'
      <3>1. now \in 0..now
        BY <1>1 DEF BuffersInv
      <3>2. Len(events) \in Nat
        BY <1>1 DEF BuffersInv, IsBuffer
      <3> QED
        BY <1>1, <1>3, <2>2, <2>3, <3>1, <3>2 DEF IterationInv
    <2>6. ASSUME NEW i \in 1..Len(events)
          PROVE  \E j \in 1..Changes' : Answers(events[i], idleMaskChanges', j)
      <3>1. PICK t \in 0..now : events[i].end = Timespec(t)
        BY <1>1 DEF MatchInv
      <3>2. PICK j \in 1..Changes : Answers(events[i], idleMaskChanges, j)
        BY <1>1 DEF MatchInv
      <3>3. Before(events[i].end, c.ts)
        BY <1>1, <2>2, <3>1, TimespecsInOrder DEF BuffersInv
      <3>4. j \in 1..Changes' /\ idleMaskChanges'[j] = idleMaskChanges[j]
        BY <2>3, <3>2
      <3>5. Before(events[i].end, idleMaskChanges'[j + 1].ts)
        <4>1. CASE j < Changes
          <5>1. idleMaskChanges'[j + 1] = idleMaskChanges[j + 1]
            BY <2>3, <3>2, <4>1
          <5> QED
            BY <3>2, <4>1, <5>1 DEF Answers, Changes
        <4>2. CASE ~(j < Changes)
          <5>1. j = Changes
            BY <2>3, <3>2, <4>2
          <5> QED
            BY <2>3, <3>3, <5>1
        <4> QED
          BY <4>1, <4>2
      <3> QED
        BY <3>2, <3>4, <3>5 DEF Answers
    <2>7. MatchInv'
      BY <1>1, <2>6 DEF MatchInv
    <2> QED
      BY <2>4, <2>5, <2>7 DEF IInv
  <1> QED
    BY <1>2, <1>3 DEF Poll

\* An evaluation opens the rebalance it calls for at the time of the clock.
LEMMA EvaluateKeeps == IInv /\ Evaluate => IInv'
  <1> SUFFICES ASSUME IInv, Evaluate PROVE IInv'
    OBVIOUS
  <1>1. /\ pc = "evaluate" /\ UNCHANGED <<now, missing, lastIdleMask, idleMaskChanges, events>>
        /\ ((pc' = "allocate" /\ eventStart' = Timespec(now)) \/ pc' = "end")
        /\ BuffersInv /\ IterationInv /\ MatchInv
    BY DEF Evaluate, IInv
  <1>2. dynamicEventCount' \in 0..(MAX_EVENTS + 1)
        /\ (missing # {} => dynamicEventCount' = dynamicEventCount)
    <2>1. PICK n \in 0..Len(Primaries) : LogDynamicEvents(n)
      BY DEF Evaluate
    <2>2. Len(Primaries) \in Nat /\ MAX_EVENTS \in Nat
      BY PrimariesAssumption, BuffersAssumption
    <2>3. CASE loggingEnabled
      <3>1. dynamicEventCount + n \in Nat
        BY <1>1, <2>2 DEF BuffersInv
      <3>2. dynamicEventCount' = Min({dynamicEventCount + n, MAX_EVENTS + 1})
        BY <2>1, <2>3 DEF LogDynamicEvents
      <3>3. dynamicEventCount' \in {dynamicEventCount + n, MAX_EVENTS + 1}
            /\ dynamicEventCount' <= MAX_EVENTS + 1
        <4> DEFINE a == dynamicEventCount + n
                   b == MAX_EVENTS + 1
        <4>1. a \in Int /\ b \in Int /\ dynamicEventCount' = Min({a, b})
          BY <2>2, <3>1, <3>2
        <4>2. dynamicEventCount' \in {a, b} /\ dynamicEventCount' <= b
          <5> HIDE DEF a, b
          <5> QED
            BY <4>1, MinOfTwo
        <4> QED
          BY <4>2
      <3> QED
        BY <2>2, <2>3, <3>1, <3>3 DEF loggingEnabled
    <2>4. CASE ~loggingEnabled
      BY <1>1, <2>1, <2>4 DEF LogDynamicEvents, BuffersInv
    <2> QED
      BY <2>3, <2>4
  <1>3. BuffersInv'
    BY <1>1, <1>2 DEF BuffersInv
  <1>4. IterationInv'
    <2>1. ASSUME pc' = "allocate" PROVE Before(idleMaskChanges[Changes].ts, eventStart')
      <3>1. PICK t \in 0..now : idleMaskChanges[Changes].ts = Timespec(t)
        BY <1>1 DEF IterationInv
      <3>2. eventStart' = Timespec(now)
        BY <1>1, <2>1
      <3> QED
        BY <1>1, <3>1, <3>2, TimespecsInOrder DEF BuffersInv
    <2> QED
      BY <1>1, <2>1 DEF IterationInv, Changes
  <1>5. MatchInv'
    BY <1>1 DEF MatchInv, Changes, Answers
  <1> QED
    BY <1>3, <1>4, <1>5 DEF IInv

\* A rebalance is logged after the change it answers.
LEMMA RebalanceKeeps == IInv /\ Rebalance => IInv'
  <1> SUFFICES ASSUME IInv, Rebalance PROVE IInv'
    OBVIOUS
  <1> DEFINE e == [start |-> eventStart, end |-> Timespec(now),
                   coreDifference |-> coreDifference, currIdleMask |-> lastIdleMask]
  <1>1. /\ pc = "allocate" /\ pc' = "end" /\ AddLogEvent(e)
        /\ UNCHANGED <<now, missing, lastIdleMask, idleMaskChanges, dynamicEventCount>>
        /\ BuffersInv /\ IterationInv /\ MatchInv
    BY DEF Rebalance, IInv
  <1>2. e.start = eventStart /\ e.end = Timespec(now) /\ e.currIdleMask = lastIdleMask
    OBVIOUS
  <1> HIDE DEF e
  <1>3. CASE events' = events
    <2>1. BuffersInv' /\ IterationInv'
      BY <1>1, <1>3 DEF BuffersInv, IterationInv, Changes
    <2>2. MatchInv'
      BY <1>1, <1>3 DEF MatchInv, Changes, Answers
    <2> QED
      BY <2>1, <2>2 DEF IInv
  <1>4. CASE missing = {} /\ Len(events) <= MAX_EVENTS /\ events' = Append(events, e)
    <2>1. /\ IsBuffer(events') /\ Len(events) \in Nat
          /\ Len(events') = Len(events) + 1 /\ events'[Len(events) + 1] = e
          /\ \A i \in 1..Len(events) : events'[i] = events[i]
      BY <1>1, <1>4, Appended DEF BuffersInv
    <2>2. Changes \in Nat /\ Changes' = Changes /\ MAX_EVENTS \in Nat
      BY <1>1, Appended, BuffersAssumption DEF BuffersInv, Changes
    <2>3. BuffersInv'
      BY <1>1, <1>4, <2>1, <2>2 DEF BuffersInv
    <2>4. IterationInv'
      BY <1>1, <2>1, <2>2 DEF IterationInv
    <2>5. Changes \in 1..Changes /\ Answers(e, idleMaskChanges, Changes)
      BY <1>1, <1>2, <2>1, <2>2 DEF IterationInv, Answers, Changes
    <2>6. ASSUME NEW i \in 1..Len(events')
          PROVE  /\ \E t \in 0..now : events'[i].end = Timespec(t)
                 /\ \E j \in 1..Changes : Answers(events'[i], idleMaskChanges, j)
      <3>1. CASE i = Len(events) + 1
        <4>1. now \in 0..now
          BY <1>1 DEF BuffersInv
        <4> QED
          BY <1>2, <2>1, <2>5, <3>1, <4>1
      <3>2. CASE i # Len(events) + 1
        <4>1. i \in 1..Len(events) /\ events'[i] = events[i]
          BY <2>1, <3>2
        <4> QED
          BY <1>1, <4>1 DEF MatchInv
      <3> QED
        BY <3>1, <3>2
    <2>7. MatchInv'
      BY <1>1, <2>2, <2>6 DEF MatchInv
    <2> QED
      BY <2>3, <2>4, <2>7 DEF IInv
  <1> QED
    BY <1>1, <1>3, <1>4 DEF AddLogEvent, loggingEnabled

\* Every step keeps the logs joinable.
LEMMA NextIInv == IInv /\ [Next]_vars => IInv'
  <1> SUFFICES ASSUME IInv, [Next]_vars PROVE IInv'
    OBVIOUS
  <1>1. CASE Tick
    <2>1. /\ now' = now + 1 /\ UNCHANGED <<pc, missing, idleMaskChanges, events,
                                           dynamicEventCount, lastIdleMask, eventStart>>
          /\ BuffersInv /\ IterationInv /\ MatchInv
      BY <1>1 DEF Tick, buffers, evaluation, IInv
    <2>2. 0..now \subseteq 0..now' /\ now' \in Nat
      BY <2>1 DEF BuffersInv
    <2>3. BuffersInv'
      BY <2>1, <2>2 DEF BuffersInv
    <2>4. IterationInv'
      BY <2>1, <2>2 DEF IterationInv, Changes
    <2>5. MatchInv'
      BY <2>1, <2>2 DEF MatchInv, Changes, Answers
    <2> QED
      BY <2>3, <2>4, <2>5 DEF IInv
  <1>2. CASE EndIteration \/ Exit \/ WriteLog \/ UNCHANGED vars
    <2>1. /\ UNCHANGED <<now, missing, idleMaskChanges, events, dynamicEventCount>>
          /\ \/ pc' \notin {"evaluate", "allocate", "execTime"}
             \/ pc' = "execTime" /\ events # <<>>
             \/ UNCHANGED <<pc, lastIdleMask, eventStart>>
          /\ BuffersInv /\ IterationInv /\ MatchInv
      BY <1>2 DEF EndIteration, Exit, WriteLog, WriteEvents, CalculateExecTime, WriteStats,
                  WriteDynamic, Step, vars, buffers, evaluation, IInv
    <2>2. events # <<>> => idleMaskChanges # <<>>
      <3>1. ASSUME idleMaskChanges = <<>>, Len(events) <= 0 PROVE events = <<>>
        BY <2>1, <3>1 DEF BuffersInv, IsBuffer
      <3> QED
        BY <2>1, <3>1 DEF IterationInv, Changes
    <2>3. BuffersInv' /\ IterationInv'
      BY <2>1, <2>2 DEF BuffersInv, IterationInv, Changes
    <2>4. MatchInv'
      BY <2>1 DEF MatchInv, Changes, Answers
    <2> QED
      BY <2>3, <2>4 DEF IInv
  <1> QED
    BY <1>1, <1>2, PollKeeps, EvaluateKeeps, RebalanceKeeps DEF Next

\* The logs can be joined in every reachable state.
LEMMA Invariance == Spec => []IInv
  BY InitIInv, NextIInv, PTL DEF Spec

-----------------------------------------------------------------------------
(* Theorems. *)

\* Each rebalance of the log belongs to a change of the mask, so that the two
\* logs can be joined (main.c, pollIdleCPU; logger.c, calculateExecTime).
THEOREM RebalancesAnswerChanges == Spec => []EventsMatchChanges
  <1>1. IInv => EventsMatchChanges
    BY DEF IInv, IterationInv, MatchInv, Changes, Answers, Before, EventsMatchChanges
  <1> QED
    BY <1>1, Invariance, PTL

-----------------------------------------------------------------------------
(* What the statistics are made of, beside what really happened.           *)

Files == {"log", "stats", "util", "dynamic"}
Counters == [few : Nat, many : Nat, all : Nat, fewTime : Nat, manyTime : Nat,
             time : Nat, longest : Nat]

\* The rebalances so far took no longer than the run, nor than it had run when
\* the one under way began; that one has a reason.
RunInv ==
    /\ now <= MaxTime
    /\ served \in Counters
    /\ served.fewTime <= served.time /\ served.manyTime <= served.time
    /\ served.time <= now
    /\ Len(Primaries) = 1 => served.few + served.many = served.all
    /\ pc \in {"poll", "evaluate"} => coreDifference = 0
    /\ pc = "allocate" =>
          /\ coreDifference \in Int /\ coreDifference = SumFunction(shares)
          /\ Len(Primaries) = 1 => coreDifference # 0
          /\ \E t \in 0..now : eventStart = Timespec(t) /\ served.time <= t

\* While the log has taken every rebalance, it accounts for all of them.
TallyInv ==
    missing = {} /\ served.all <= MAX_EVENTS + 1 =>
        /\ Len(events) = served.all
        /\ \A i \in 1..Len(events) : events[i].coreDifference \in Int /\ EventTimes[i] \in Int
        /\ Cardinality(TooFew) = served.few /\ Cardinality(TooMany) = served.many
        /\ SumFunctionOnSet(EventTimes, TooFew) = served.fewTime
        /\ SumFunctionOnSet(EventTimes, TooMany) = served.manyTime
        /\ SumFunctionOnSet(EventTimes, 1..Len(events)) = served.time
        /\ served.longest \in {0} \cup Range(EventTimes)
        /\ \A i \in 1..Len(events) : EventTimes[i] <= served.longest

\* The log of changes accounts for the time between the first and the last.
Busy(c) == {e \in DOMAIN Intervals : c \in idleMaskChanges[e + 1].oldMask}

ObservedInv ==
    /\ observed \in [active : [Cores -> Nat], idle : [Cores -> Nat], since : 0..now]
    /\ \A e \in 1..Changes : \E t \in 0..now : idleMaskChanges[e].ts = Timespec(t)
    /\ Changes > 0 => idleMaskChanges[Changes].ts = Timespec(observed.since)
    /\ \A c \in Cores :
          /\ observed.active[c] <= observed.since /\ observed.idle[c] <= observed.since
          /\ SumFunctionOnSet(Intervals, Busy(c)) = observed.active[c]
          /\ SumFunctionOnSet(Intervals, DOMAIN Intervals \ Busy(c)) = observed.idle[c]

\* The log files are written after the last rebalance and the last change.
ReportInv ==
    /\ report = [f \in Files |-> report[f]]
    /\ pc \in {"execTime", "stats"} => events # <<>> /\ report.log = Statistics
    /\ pc = "stats" => report.util = [c \in Cores |-> Utilization(c)]

\* A timespec gives back the reading it was made of, and the elapsed time of two
\* of them is that of the clock, as long as it is less than the width of a word.
LEMMA TimespecExact ==
    ASSUME NEW a \in Nat
    PROVE  /\ NsPerSec * Timespec(a).sec + Timespec(a).nsec = a
           /\ Timespec(a).sec \in Int /\ Timespec(a).nsec \in Int
           /\ NsPerSec * Timespec(a).sec \in Int
           /\ Timespec(a).sec * NsPerSec + Timespec(a).nsec = a
  <1>1. NsPerSec \in Nat /\ NsPerSec > 0
    BY ClockAssumption
  <1> DEFINE q == a \div NsPerSec
  <1>2. q \in Int /\ a % NsPerSec = a - NsPerSec * q /\ a % NsPerSec \in Int
    BY <1>1
  <1>3. NsPerSec * q \in Int /\ q * NsPerSec = NsPerSec * q
    BY <1>1, <1>2
  <1>4. Timespec(a).sec = q /\ Timespec(a).nsec = a % NsPerSec
    BY DEF Timespec
  <1> HIDE DEF q
  <1> QED
    BY <1>2, <1>3, <1>4

\* What writeLog subtracts is the time between two readings of the clock.
LEMMA ElapsedExact ==
    ASSUME NEW a \in Nat, NEW b \in Nat, a <= b, b < Wrap
    PROVE  Elapsed(Timespec(a), Timespec(b)) = b - a
  <1> DEFINE s == Timespec(a)
             t == Timespec(b)
  <1>1. /\ NsPerSec * s.sec + s.nsec = a /\ NsPerSec * t.sec + t.nsec = b
        /\ s.sec \in Int /\ s.nsec \in Int /\ t.sec \in Int /\ t.nsec \in Int
        /\ NsPerSec * s.sec \in Int /\ NsPerSec * t.sec \in Int
    BY TimespecExact
  <1>2. NsPerSec * (t.sec - s.sec) = NsPerSec * t.sec - NsPerSec * s.sec
    <2>1. \A n \in Nat, k \in Int, l \in Int : n * (k - l) = n * k - n * l
      OBVIOUS
    <2> HIDE DEF s, t
    <2> QED
      BY <1>1, <2>1, ClockAssumption
  <1>3. NsPerSec * (t.sec - s.sec) + (t.nsec - s.nsec) = b - a
    <2> HIDE DEF s, t
    <2> QED
      BY <1>1, <1>2
  <1>4. (b - a) % Wrap = b - a
    BY ClockAssumption
  <1> QED
    BY <1>3, <1>4 DEF Elapsed

\* What is at least as great as the others is the maximum.
LEMMA MaxOf ==
    ASSUME NEW S \in SUBSET Int, NEW m \in S, \A x \in S : x <= m
    PROVE  Max(S) = m
  <1>1. Max(S) \in S /\ \A y \in S : Max(S) >= y
    BY DEF Max
  <1>2. Max(S) \in Int /\ m \in Int /\ Max(S) <= m /\ Max(S) >= m
    BY <1>1
  <1> QED
    BY <1>2

\* All elapsed times are numbers of a word.
LEMMA ElapsedIsWord ==
    ASSUME NEW a \in Nat, NEW b \in Nat
    PROVE  Elapsed(Timespec(a), Timespec(b)) \in Nat
  <1> DEFINE s == Timespec(a)
             t == Timespec(b)
  <1>1. s.sec \in Int /\ s.nsec \in Int /\ t.sec \in Int /\ t.nsec \in Int
    BY TimespecExact
  <1>2. NsPerSec * (t.sec - s.sec) + (t.nsec - s.nsec) \in Int
    <2> HIDE DEF s, t
    <2> QED
      BY <1>1, ClockAssumption
  <1> QED
    BY <1>2, ClockAssumption DEF Elapsed

-----------------------------------------------------------------------------
(* The log of the changes. *)

\* The times in the log of changes are those of words.
LEMMA IntervalsTyped ==
    ASSUME IInv, ObservedInv
    PROVE  /\ Changes \in Nat /\ DOMAIN Intervals = 1..(Changes - 1)
           /\ \A e \in 1..(Changes - 1) : Intervals[e] \in Nat
           /\ IsFiniteSet(1..(Changes - 1))
           /\ \A c : Busy(c) \subseteq 1..(Changes - 1)
  <1>1. Changes \in Nat /\ now \in Nat
    BY DEF IInv, BuffersInv, IsBuffer, Changes
  <1>2. DOMAIN Intervals = 1..(Changes - 1)
    BY DEF Intervals, Changes
  <1>3. ASSUME NEW e \in 1..(Changes - 1) PROVE Intervals[e] \in Nat
    <2>1. e \in 1..Changes /\ e + 1 \in 1..Changes
      BY <1>1
    <2>2. PICK a \in 0..now : idleMaskChanges[e].ts = Timespec(a)
      BY <2>1 DEF ObservedInv
    <2>3. PICK b \in 0..now : idleMaskChanges[e + 1].ts = Timespec(b)
      BY <2>1 DEF ObservedInv
    <2>4. Intervals[e] = Elapsed(Timespec(a), Timespec(b))
      BY <2>2, <2>3 DEF Intervals, Changes
    <2>5. a \in Nat /\ b \in Nat
      BY <1>1
    <2> QED
      BY <2>4, <2>5, ElapsedIsWord
  <1>4. IsFiniteSet(1..(Changes - 1))
    BY <1>1, FS_Interval
  <1>5. \A c : Busy(c) \subseteq 1..(Changes - 1)
    BY <1>2 DEF Busy
  <1> QED
    BY <1>1, <1>2, <1>3, <1>4, <1>5

\* Steps that see no change of the mask.
LEMMA ObservedKept ==
    ASSUME IInv, ObservedInv, UNCHANGED <<idleMaskChanges, observed>>,
           now' \in Nat, now <= now'
    PROVE  ObservedInv'
  <1>1. Intervals' = Intervals /\ \A c : Busy(c)' = Busy(c)
    BY DEF Intervals, Busy
  <1>2. 0..now \subseteq 0..now'
    BY DEF IInv, BuffersInv
  <1> QED
    BY <1>1, <1>2 DEF ObservedInv, Changes

\* A recorded change ends one interval, in which the core was what it was.
LEMMA PollObserves == IInv /\ RunInv /\ ObservedInv /\ Poll => ObservedInv'
  <1> SUFFICES ASSUME IInv, RunInv, ObservedInv, Poll PROVE ObservedInv'
    OBVIOUS
  <1>1. now' = now /\ now \in Nat /\ now < Wrap
    BY ClockAssumption DEF Poll, IInv, BuffersInv, RunInv
  <1>2. CASE UNCHANGED <<idleMaskChanges, observed>>
    BY <1>1, <1>2, ObservedKept
  <1>3. ASSUME NEW mask, RecordChange(mask), observed' = Observe PROVE ObservedInv'
    <2> DEFINE r == [ts |-> Timespec(now), oldMask |-> lastIdleMask, newMask |-> mask]
               n == Changes
               lasted == IF idleMaskChanges = <<>> THEN 0 ELSE now - observed.since
               share(c) == IF c \in lastIdleMask THEN lasted ELSE 0
               rest(c) == IF c \notin lastIdleMask THEN lasted ELSE 0
    <2>1. r.ts = Timespec(now) /\ r.oldMask = lastIdleMask
      OBVIOUS
    <2>2. idleMaskChanges' = Append(idleMaskChanges, r)
      BY <1>3 DEF RecordChange
    <2> HIDE DEF r
    <2>3. /\ n \in Nat /\ Changes' = n + 1 /\ idleMaskChanges'[n + 1] = r
          /\ \A i \in 1..n : idleMaskChanges'[i] = idleMaskChanges[i]
      BY <2>2, Appended DEF IInv, BuffersInv, Changes
    <2>4. idleMaskChanges = <<>> <=> n = 0
      BY DEF IInv, BuffersInv, IsBuffer, Changes
    <2>5. /\ observed.since \in 0..now /\ observed.active \in [Cores -> Nat]
          /\ observed.idle \in [Cores -> Nat]
      BY DEF ObservedInv
    <2>6. lasted \in Nat /\ observed.since + lasted <= now
      BY <1>1, <2>5
    <2>7. /\ observed'.since = now
          /\ observed'.active = [c \in Cores |-> observed.active[c] + share(c)]
          /\ observed'.idle = [c \in Cores |-> observed.idle[c] + rest(c)]
          /\ observed' = [active |-> observed'.active, idle |-> observed'.idle,
                          since |-> observed'.since]
      BY <1>3 DEF Observe
    <2>8. ASSUME NEW c \in Cores
          PROVE  /\ share(c) \in Nat /\ rest(c) \in Nat
                 /\ share(c) <= lasted /\ rest(c) <= lasted
                 /\ observed.active[c] \in Nat /\ observed.idle[c] \in Nat
                 /\ observed'.active[c] = observed.active[c] + share(c)
                 /\ observed'.idle[c] = observed.idle[c] + rest(c)
      BY <2>5, <2>6, <2>7
    <2> HIDE DEF lasted, share, rest
    <2>9. observed' \in [active : [Cores -> Nat], idle : [Cores -> Nat], since : 0..now']
      <3>1. observed'.active \in [Cores -> Nat] /\ observed'.idle \in [Cores -> Nat]
        BY <2>7, <2>8
      <3>2. observed'.since \in 0..now'
        BY <1>1, <2>7
      <3> QED
        BY <2>7, <3>1, <3>2
    <2>10. ASSUME NEW c \in Cores
           PROVE  observed'.active[c] <= observed'.since /\ observed'.idle[c] <= observed'.since
      <3>1. observed.active[c] <= observed.since /\ observed.idle[c] <= observed.since
        BY DEF ObservedInv
      <3> QED
        BY <1>1, <2>5, <2>6, <2>7, <2>8, <3>1
    <2>11. ASSUME NEW e \in 1..Changes' PROVE \E t \in 0..now' : idleMaskChanges'[e].ts = Timespec(t)
      <3>1. CASE e = n + 1
        BY <1>1, <2>1, <2>3, <3>1
      <3>2. CASE e # n + 1
        BY <1>1, <2>3, <3>2 DEF ObservedInv
      <3> QED
        BY <3>1, <3>2
    <2>12. ASSUME NEW c \in Cores
           PROVE  /\ SumFunctionOnSet(Intervals', Busy(c)') = observed'.active[c]
                  /\ SumFunctionOnSet(Intervals', DOMAIN Intervals' \ Busy(c)') = observed'.idle[c]
      <3> DEFINE on == Busy(c)
                 off == (1..(n - 1)) \ Busy(c)
      <3>1. /\ \A e \in 1..(n - 1) : Intervals[e] \in Nat
            /\ DOMAIN Intervals = 1..(n - 1)
            /\ on \in SUBSET (1..(n - 1)) /\ off \in SUBSET (1..(n - 1))
            /\ IsFiniteSet(on) /\ IsFiniteSet(off)
        BY IntervalsTyped, FS_Subset
      <3>2. /\ SumFunctionOnSet(Intervals, on) = observed.active[c]
            /\ SumFunctionOnSet(Intervals, off) = observed.idle[c]
        BY <3>1 DEF ObservedInv
      <3>3. /\ DOMAIN Intervals' = 1..n
            /\ \A e \in 1..n : Intervals'[e] =
                  Elapsed(idleMaskChanges'[e].ts, idleMaskChanges'[e + 1].ts)
        BY <2>3 DEF Intervals, Changes
      <3>4. ASSUME NEW e \in 1..(n - 1)
            PROVE  /\ e \in 1..n /\ Intervals'[e] = Intervals[e]
                   /\ e \in Busy(c)' <=> e \in Busy(c)
        <4>1. e \in 1..n /\ e + 1 \in 1..n
          BY <2>3
        <4>2. idleMaskChanges'[e] = idleMaskChanges[e] /\ idleMaskChanges'[e + 1] = idleMaskChanges[e + 1]
          BY <2>3, <4>1
        <4>3. Intervals[e] = Elapsed(idleMaskChanges[e].ts, idleMaskChanges[e + 1].ts)
          BY DEF Intervals, Changes
        <4> QED
          BY <3>1, <3>3, <4>1, <4>2, <4>3 DEF Busy
      <3>5. CASE n = 0
        <4>1. on = {} /\ off = {} /\ Busy(c)' = {} /\ DOMAIN Intervals' \ Busy(c)' = {}
          BY <3>1, <3>3, <3>5 DEF Busy
        <4>2. lasted = 0
          BY <2>4, <3>5 DEF lasted
        <4>3. SumFunctionOnSet(Intervals', {}) = 0 /\ observed.active[c] = 0 /\ observed.idle[c] = 0
          BY <3>2, <4>1, SumOfFew
        <4>4. share(c) = 0 /\ rest(c) = 0
          BY <4>2 DEF share, rest
        <4>5. observed'.active[c] = 0 /\ observed'.idle[c] = 0
          BY <2>8, <4>3, <4>4
        <4> QED
          BY <4>1, <4>3, <4>5, Zenon
      <3>6. CASE n > 0
        <4>1. Intervals'[n] = lasted
          <5>1. idleMaskChanges'[n].ts = Timespec(observed.since)
            BY <2>3, <3>6 DEF ObservedInv
          <5>2. Elapsed(Timespec(observed.since), Timespec(now)) = now - observed.since
            BY <1>1, <2>5, ElapsedExact
          <5> QED
            BY <2>1, <2>3, <2>4, <3>3, <3>6, <5>1, <5>2 DEF lasted
        <4>2. n \notin 1..(n - 1) /\ 1..n = (1..(n - 1)) \cup {n}
          BY <2>3, <3>6
        <4>3. n \in Busy(c)' <=> c \in lastIdleMask
          BY <2>1, <2>3, <3>3, <3>6 DEF Busy
        <4>4. Busy(c)' \subseteq 1..n
          BY <3>3 DEF Busy
        <4>5. ASSUME NEW K \in SUBSET (1..(n - 1)), IsFiniteSet(K)
              PROVE  /\ SumFunctionOnSet(Intervals', K) = SumFunctionOnSet(Intervals, K)
                     /\ SumFunctionOnSet(Intervals', K \cup {n}) = SumFunctionOnSet(Intervals, K) + lasted
          <5>1. \A e \in K : Intervals'[e] = Intervals[e] /\ Intervals[e] \in Int
            BY <3>1, <3>4
          <5>2. n \notin K /\ Intervals'[n] \in Int
            BY <2>6, <4>1, <4>2
          <5>3. SumFunctionOnSet(Intervals', K) = SumFunctionOnSet(Intervals, K)
            BY <4>5, <5>1, SumSame
          <5>4. SumFunctionOnSet(Intervals', K \cup {n}) = SumFunctionOnSet(Intervals', K) + Intervals'[n]
            <6>1. \A e \in K : Intervals'[e] \in Int
              BY <5>1
            <6> QED
              BY <4>5, <5>2, <6>1, SumAdds
          <5> QED
            BY <4>1, <5>3, <5>4
        <4>6. CASE c \in lastIdleMask
          <5>1. Busy(c)' = on \cup {n} /\ DOMAIN Intervals' \ Busy(c)' = off
            BY <3>1, <3>3, <3>4, <4>2, <4>3, <4>4, <4>6
          <5>2. /\ SumFunctionOnSet(Intervals', Busy(c)') = observed.active[c] + lasted
                /\ SumFunctionOnSet(Intervals', DOMAIN Intervals' \ Busy(c)') = observed.idle[c]
            BY <3>1, <3>2, <4>5, <5>1, Zenon
          <5>3. share(c) = lasted /\ rest(c) = 0
            BY <4>6 DEF share, rest
          <5>4. observed'.active[c] = observed.active[c] + lasted /\ observed'.idle[c] = observed.idle[c]
            BY <2>8, <5>3
          <5> QED
            BY <5>2, <5>4, Zenon
        <4>7. CASE c \notin lastIdleMask
          <5>1. Busy(c)' = on /\ DOMAIN Intervals' \ Busy(c)' = off \cup {n}
            BY <3>1, <3>3, <3>4, <4>2, <4>3, <4>4, <4>7
          <5>2. /\ SumFunctionOnSet(Intervals', Busy(c)') = observed.active[c]
                /\ SumFunctionOnSet(Intervals', DOMAIN Intervals' \ Busy(c)') = observed.idle[c] + lasted
            BY <3>1, <3>2, <4>5, <5>1, Zenon
          <5>3. share(c) = 0 /\ rest(c) = lasted
            BY <4>7 DEF share, rest
          <5>4. observed'.active[c] = observed.active[c] /\ observed'.idle[c] = observed.idle[c] + lasted
            BY <2>8, <5>3
          <5> QED
            BY <5>2, <5>4, Zenon
        <4> QED
          BY <4>6, <4>7
      <3> QED
        BY <2>3, <3>5, <3>6
    <2>13. Changes' > 0 => idleMaskChanges'[Changes'].ts = Timespec(observed'.since)
      BY <2>1, <2>3, <2>7
    <2> QED
      BY <2>9, <2>10, <2>11, <2>12, <2>13 DEF ObservedInv
  <1> QED
    BY <1>2, <1>3 DEF Poll

-----------------------------------------------------------------------------
(* The log of the rebalances. *)

\* The greater of two numbers.
LEMMA MaxOfTwo ==
    ASSUME NEW a \in Int, NEW b \in Int
    PROVE  Max({a, b}) \in {a, b} /\ a <= Max({a, b}) /\ b <= Max({a, b})
  <1>1. CASE a <= b
    <2>1. Max({a, b}) = b
      BY <1>1, MaxOf
    <2> QED
      BY <1>1, <2>1
  <1>2. CASE b <= a
    <2>1. Max({a, b}) = a
      BY <1>2, MaxOf
    <2> QED
      BY <1>2, <2>1
  <1> QED
    BY <1>1, <1>2

\* What leaves the log of rebalances and the run alone leaves the tally right.
LEMMA TallyKept ==
    ASSUME TallyInv, UNCHANGED <<missing, events, served>>
    PROVE  TallyInv'
  <1>1. EventTimes' = EventTimes /\ TooFew' = TooFew /\ TooMany' = TooMany
    BY DEF EventTimes, TooFew, TooMany
  <1> QED
    BY <1>1 DEF TallyInv

\* What a rebalance adds to the history.
LEMMA ServedBy ==
    ASSUME IInv, RunInv, Rebalance
    PROVE  \E t \in 0..now :
              /\ eventStart = Timespec(t) /\ served.time <= t
              /\ served'.few = served.few + (IF coreDifference < 0 THEN 1 ELSE 0)
              /\ served'.many = served.many + (IF coreDifference > 0 THEN 1 ELSE 0)
              /\ served'.all = served.all + 1
              /\ served'.fewTime = served.fewTime + (IF coreDifference < 0 THEN now - t ELSE 0)
              /\ served'.manyTime = served.manyTime + (IF coreDifference > 0 THEN now - t ELSE 0)
              /\ served'.time = served.time + (now - t)
              /\ served'.longest = Max({served.longest, now - t})
              /\ served' = [few |-> served'.few, many |-> served'.many, all |-> served'.all,
                            fewTime |-> served'.fewTime, manyTime |-> served'.manyTime,
                            time |-> served'.time, longest |-> served'.longest]
  <1>1. pc = "allocate" /\ now \in Nat
    BY DEF Rebalance, IInv, BuffersInv
  <1>2. PICK t \in 0..now : eventStart = Timespec(t) /\ served.time <= t
    BY <1>1 DEF RunInv
  <1>3. eventStart.sec * NsPerSec + eventStart.nsec = t
    BY <1>1, <1>2, TimespecExact
  <1>4. SumFunction(shares) = coreDifference
    BY <1>1 DEF RunInv
  <1> QED
    BY <1>2, <1>3, <1>4 DEF Rebalance, Serve

\* The rebalances served so far cannot have taken longer than the run.
LEMMA RebalanceRuns == IInv /\ RunInv /\ Rebalance => RunInv'
  <1> SUFFICES ASSUME IInv, RunInv, Rebalance PROVE RunInv'
    OBVIOUS
  <1>1. PICK t \in 0..now :
           /\ served.time <= t
           /\ served'.few = served.few + (IF coreDifference < 0 THEN 1 ELSE 0)
           /\ served'.many = served.many + (IF coreDifference > 0 THEN 1 ELSE 0)
           /\ served'.all = served.all + 1
           /\ served'.fewTime = served.fewTime + (IF coreDifference < 0 THEN now - t ELSE 0)
           /\ served'.manyTime = served.manyTime + (IF coreDifference > 0 THEN now - t ELSE 0)
           /\ served'.time = served.time + (now - t)
           /\ served'.longest = Max({served.longest, now - t})
           /\ served' = [few |-> served'.few, many |-> served'.many, all |-> served'.all,
                         fewTime |-> served'.fewTime, manyTime |-> served'.manyTime,
                         time |-> served'.time, longest |-> served'.longest]
    BY ServedBy
  <1>2. /\ served.few \in Nat /\ served.many \in Nat /\ served.all \in Nat
        /\ served.fewTime \in Nat /\ served.manyTime \in Nat /\ served.time \in Nat
        /\ served.longest \in Nat
    BY DEF RunInv, Counters
  <1>3. now \in Nat /\ now' = now /\ pc = "allocate" /\ pc' = "end" /\ coreDifference \in Int
    BY DEF Rebalance, IInv, BuffersInv, RunInv
  <1>4. now - t \in Nat
    BY <1>3
  <1>5. served'.longest \in Nat
    <2>1. Max({served.longest, now - t}) \in {served.longest, now - t}
      <3>1. served.longest \in Int /\ now - t \in Int
        BY <1>2, <1>4
      <3> QED
        BY <3>1, MaxOfTwo, Zenon
    <2> QED
      BY <1>1, <1>2, <1>4, <2>1
  <1>6. /\ served'.few \in Nat /\ served'.many \in Nat /\ served'.all \in Nat
        /\ served'.fewTime \in Nat /\ served'.manyTime \in Nat /\ served'.time \in Nat
    BY <1>1, <1>2, <1>3, <1>4
  <1>7. served' \in Counters
    BY <1>1, <1>5, <1>6 DEF Counters
  <1>8. served'.fewTime <= served'.time /\ served'.manyTime <= served'.time /\ served'.time <= now
    BY <1>1, <1>2, <1>3, <1>4 DEF RunInv
  <1>9. Len(Primaries) = 1 => served'.few + served'.many = served'.all
    BY <1>1, <1>2, <1>3 DEF RunInv
  <1> QED
    BY <1>3, <1>7, <1>8, <1>9 DEF RunInv

\* The log accounts for a rebalance more, or has been full before.
LEMMA RebalanceTallies == IInv /\ RunInv /\ TallyInv /\ Rebalance => TallyInv'
  <1> SUFFICES ASSUME IInv, RunInv, TallyInv, Rebalance, missing' = {},
                      served'.all <= MAX_EVENTS + 1
               PROVE  TallyInv'
    BY DEF TallyInv
  <1> DEFINE n == Len(events)
             d == coreDifference
             r == [start |-> eventStart, end |-> Timespec(now),
                   coreDifference |-> d, currIdleMask |-> lastIdleMask]
  <1>1. PICK t \in 0..now :
           /\ eventStart = Timespec(t)
           /\ served'.few = served.few + (IF d < 0 THEN 1 ELSE 0)
           /\ served'.many = served.many + (IF d > 0 THEN 1 ELSE 0)
           /\ served'.all = served.all + 1
           /\ served'.fewTime = served.fewTime + (IF d < 0 THEN now - t ELSE 0)
           /\ served'.manyTime = served.manyTime + (IF d > 0 THEN now - t ELSE 0)
           /\ served'.time = served.time + (now - t)
           /\ served'.longest = Max({served.longest, now - t})
    BY ServedBy
  <1>2. /\ served.few \in Nat /\ served.many \in Nat /\ served.all \in Nat
        /\ served.fewTime \in Nat /\ served.manyTime \in Nat /\ served.time \in Nat
        /\ served.longest \in Nat
    BY DEF RunInv, Counters
  <1>3. now \in Nat /\ now < Wrap /\ missing = {} /\ d \in Int /\ MAX_EVENTS \in Nat
    BY ClockAssumption, BuffersAssumption DEF Rebalance, IInv, BuffersInv, RunInv
  <1>4. n \in Nat /\ n = served.all /\ n <= MAX_EVENTS
    BY <1>1, <1>2, <1>3, Appended DEF TallyInv, IInv, BuffersInv
  <1>5. events' = Append(events, r)
    BY <1>3, <1>4 DEF Rebalance, AddLogEvent, loggingEnabled
  <1>6. r.start = Timespec(t) /\ r.end = Timespec(now) /\ r.coreDifference = d
    BY <1>1
  <1> HIDE DEF r
  <1>7. /\ Len(events') = n + 1 /\ events'[n + 1] = r
        /\ \A i \in 1..n : events'[i] = events[i]
    BY <1>5, Appended DEF IInv, BuffersInv
  <1>8. n + 1 \notin 1..n /\ 1..(n + 1) = (1..n) \cup {n + 1} /\ IsFiniteSet(1..n)
    <2>1. n + 1 \notin 1..n /\ 1..(n + 1) = (1..n) \cup {n + 1}
      BY <1>4
    <2>2. 1 \in Int /\ n \in Int
      BY <1>4
    <2>3. IsFiniteSet(1..n)
      BY <2>2, FS_Interval, Zenon
    <2> QED
      BY <2>1, <2>3
  <1>0. \A i \in 1..n : events[i].coreDifference \in Int /\ EventTimes[i] \in Int
    BY <1>2, <1>3, <1>4 DEF TallyInv
  <1>9. /\ DOMAIN EventTimes = 1..n /\ DOMAIN EventTimes' = 1..(n + 1)
        /\ \A i \in 1..n : EventTimes'[i] = EventTimes[i] /\ EventTimes[i] \in Int
    <2>1. DOMAIN EventTimes = 1..n /\ DOMAIN EventTimes' = 1..(n + 1)
      BY <1>7 DEF EventTimes
    <2>2. ASSUME NEW i \in 1..n PROVE EventTimes'[i] = EventTimes[i]
      <3>1. i \in 1..(n + 1) /\ events'[i] = events[i]
        BY <1>7, <1>8
      <3> QED
        BY <1>7, <3>1 DEF EventTimes
    <2> QED
      BY <1>0, <2>1, <2>2
  <1>10. EventTimes'[n + 1] = now - t
    <2>1. EventTimes'[n + 1] = Elapsed(Timespec(t), Timespec(now))
      BY <1>4, <1>6, <1>7 DEF EventTimes
    <2> QED
      BY <1>3, <2>1, ElapsedExact
  <1>11. now - t \in Nat
    BY <1>3
  <1>12. ASSUME NEW K \in SUBSET (1..n)
         PROVE  /\ SumFunctionOnSet(EventTimes', K) = SumFunctionOnSet(EventTimes, K)
                /\ SumFunctionOnSet(EventTimes', K \cup {n + 1})
                      = SumFunctionOnSet(EventTimes, K) + (now - t)
                /\ Cardinality(K \cup {n + 1}) = Cardinality(K) + 1
    <2>1. IsFiniteSet(K) /\ n + 1 \notin K
      BY <1>8, FS_Subset
    <2>2. SumFunctionOnSet(EventTimes', K) = SumFunctionOnSet(EventTimes, K)
      BY <1>9, <2>1, SumSame
    <2>3. SumFunctionOnSet(EventTimes', K \cup {n + 1})
             = SumFunctionOnSet(EventTimes', K) + EventTimes'[n + 1]
      <3>1. \A i \in K : EventTimes'[i] \in Int
        BY <1>9
      <3>2. EventTimes'[n + 1] \in Int
        BY <1>10, <1>11
      <3> QED
        BY <2>1, <3>1, <3>2, SumAdds
    <2>4. Cardinality(K \cup {n + 1}) = Cardinality(K) + 1
      BY <2>1, FS_AddElement
    <2> QED
      BY <1>10, <2>2, <2>3, <2>4
  <1>13. /\ TooFew \in SUBSET (1..n) /\ TooMany \in SUBSET (1..n)
         /\ TooFew' = IF d < 0 THEN TooFew \cup {n + 1} ELSE TooFew
         /\ TooMany' = IF d > 0 THEN TooMany \cup {n + 1} ELSE TooMany
    <2>1. ASSUME NEW i \in 1..(n + 1)
          PROVE  events'[i].coreDifference = IF i = n + 1 THEN d ELSE events[i].coreDifference
      BY <1>6, <1>7, <1>8
    <2> QED
      BY <1>7, <1>8, <2>1 DEF TooFew, TooMany
  <1>14. Cardinality(TooFew') = served'.few /\ SumFunctionOnSet(EventTimes', TooFew') = served'.fewTime
    <2>1. Cardinality(TooFew) = served.few /\ SumFunctionOnSet(EventTimes, TooFew) = served.fewTime
      BY <1>2, <1>3, <1>4 DEF TallyInv
    <2>2. CASE d < 0
      <3>1. TooFew' = TooFew \cup {n + 1}
        BY <1>13, <2>2
      <3>2. served'.few = served.few + 1 /\ served'.fewTime = served.fewTime + (now - t)
        BY <1>1, <2>2
      <3> QED
        BY <1>12, <1>13, <2>1, <3>1, <3>2, Zenon
    <2>3. CASE ~(d < 0)
      <3>1. TooFew' = TooFew
        BY <1>13, <2>3
      <3>2. served'.few = served.few /\ served'.fewTime = served.fewTime
        BY <1>1, <1>2, <2>3
      <3> QED
        BY <1>12, <1>13, <2>1, <3>1, <3>2, Zenon
    <2> QED
      BY <2>2, <2>3
  <1>15. Cardinality(TooMany') = served'.many /\ SumFunctionOnSet(EventTimes', TooMany') = served'.manyTime
    <2>1. Cardinality(TooMany) = served.many /\ SumFunctionOnSet(EventTimes, TooMany) = served.manyTime
      BY <1>2, <1>3, <1>4 DEF TallyInv
    <2>2. CASE d > 0
      <3>1. TooMany' = TooMany \cup {n + 1}
        BY <1>13, <2>2
      <3>2. served'.many = served.many + 1 /\ served'.manyTime = served.manyTime + (now - t)
        BY <1>1, <2>2
      <3> QED
        BY <1>12, <1>13, <2>1, <3>1, <3>2, Zenon
    <2>3. CASE ~(d > 0)
      <3>1. TooMany' = TooMany
        BY <1>13, <2>3
      <3>2. served'.many = served.many /\ served'.manyTime = served.manyTime
        BY <1>1, <1>2, <2>3
      <3> QED
        BY <1>12, <1>13, <2>1, <3>1, <3>2, Zenon
    <2> QED
      BY <2>2, <2>3
  <1>16. SumFunctionOnSet(EventTimes', 1..Len(events')) = served'.time
    <2>1. SumFunctionOnSet(EventTimes, 1..n) = served.time
      BY <1>2, <1>3, <1>4 DEF TallyInv
    <2>2. SumFunctionOnSet(EventTimes', (1..n) \cup {n + 1}) = served.time + (now - t)
      BY <1>12, <2>1, Zenon
    <2> QED
      BY <1>1, <1>7, <1>8, <2>2, Zenon
  <1>17. /\ served'.longest \in {0} \cup Range(EventTimes')
         /\ \A i \in 1..(n + 1) : EventTimes'[i] <= served'.longest
    <2>1. /\ served.longest \in {0} \cup Range(EventTimes)
          /\ \A i \in 1..n : EventTimes[i] <= served.longest
      BY <1>2, <1>3, <1>4 DEF TallyInv
    <2>2. /\ served'.longest \in {served.longest, now - t}
          /\ served.longest <= served'.longest /\ now - t <= served'.longest
      <3>1. served.longest \in Int /\ now - t \in Int
        BY <1>2, <1>11
      <3> QED
        BY <1>1, <3>1, MaxOfTwo, Zenon
    <2>3. Range(EventTimes) \subseteq Range(EventTimes') /\ now - t \in Range(EventTimes')
      BY <1>8, <1>9, <1>10 DEF Range
    <2>4. ASSUME NEW i \in 1..(n + 1) PROVE EventTimes'[i] <= served'.longest
      <3>1. CASE i = n + 1
        BY <1>10, <2>2, <3>1
      <3>2. CASE i # n + 1
        <4>1. i \in 1..n /\ EventTimes'[i] = EventTimes[i] /\ EventTimes[i] \in Int
          BY <1>8, <1>9, <3>2
        <4> QED
          BY <1>2, <1>11, <2>1, <2>2, <4>1
      <3> QED
        BY <3>1, <3>2
    <2> QED
      BY <2>1, <2>2, <2>3, <2>4
  <1>18. \A i \in 1..(n + 1) : events'[i].coreDifference \in Int /\ EventTimes'[i] \in Int
    <2> SUFFICES ASSUME NEW i \in 1..(n + 1)
                 PROVE  events'[i].coreDifference \in Int /\ EventTimes'[i] \in Int
      OBVIOUS
    <2>1. CASE i = n + 1
      BY <1>3, <1>6, <1>7, <1>10, <1>11, <2>1
    <2>2. CASE i # n + 1
      <3>1. i \in 1..n
        BY <1>8, <2>2
      <3> QED
        BY <1>0, <1>7, <1>9, <3>1
    <2> QED
      BY <2>1, <2>2
  <1>19. Len(events') = served'.all
    BY <1>1, <1>4, <1>7
  <1> QED
    BY <1>7, <1>14, <1>15, <1>16, <1>17, <1>18, <1>19 DEF TallyInv

-----------------------------------------------------------------------------
(* The reasons of a rebalance. *)

\* What the Primaries contribute adds up, and with one Primary it is the sum.
LEMMA SharesAddUp ==
    ASSUME NEW f, f \in [Ctrs -> UNION {Shares(p) : p \in Ctrs}]
    PROVE  /\ SumFunction(f) \in Int
           /\ Len(Primaries) = 1 => SumFunction(f) = f[1]
  <1>1. Len(Primaries) \in Nat /\ \A p \in Ctrs : Primaries[p] \subseteq Cores
    BY PrimariesAssumption DEF Ctrs
  <1>2. ASSUME NEW p \in Ctrs, NEW x \in Shares(p) PROVE x \in Int
    <2>1. Primaries[p] \ lastIdleMask \in SUBSET Cores
      BY <1>1
    <2>2. Cardinality(Primaries[p] \ lastIdleMask) \in Nat
      BY <2>1, FS_Subset, FS_CardinalityType, PrimariesAssumption
    <2>3. ASSUME NEW target \in Targets
          PROVE  Cardinality(Primaries[p] \ lastIdleMask) - target \in Int
      BY <2>2, PrimariesAssumption
    <2> QED
      BY <2>3 DEF Shares
  <1>3. DOMAIN f = Ctrs /\ \A p \in Ctrs : f[p] \in Int
    BY <1>2
  <1>4. IsFiniteSet(Ctrs)
    <2>1. 1 \in Int /\ Len(Primaries) \in Int
      BY <1>1
    <2> QED
      BY <2>1, FS_Interval, Zenon DEF Ctrs
  <1>5. SumFunction(f) = SumFunctionOnSet(f, Ctrs)
    BY <1>3 DEF SumFunction
  <1>6. SumFunctionOnSet(f, Ctrs) \in Int
    BY <1>3, <1>4, SumType
  <1>7. ASSUME Len(Primaries) = 1 PROVE SumFunctionOnSet(f, Ctrs) = f[1]
    <2>1. Ctrs = {1} /\ f[1] \in Int
      BY <1>3, <1>7 DEF Ctrs
    <2> QED
      BY <2>1, SumOfFew, Zenon
  <1> QED
    BY <1>5, <1>6, <1>7

\* The sum that is logged is the sum of what the Primaries contributed.
LEMMA EvaluateRuns == IInv /\ RunInv /\ Evaluate => RunInv'
  <1> SUFFICES ASSUME IInv, RunInv, Evaluate PROVE RunInv'
    OBVIOUS
  <1>1. /\ pc = "evaluate" /\ pc' \in {"allocate", "end"}
        /\ UNCHANGED <<now, served>> /\ now \in Nat
        /\ coreDifference' = coreDifference + SumFunction(shares')
        /\ pc' = "allocate" => /\ eventStart' = Timespec(now)
                               /\ coreDifference' # 0 \/ \E p \in Ctrs : shares'[p] # 0
    BY DEF Evaluate, IInv, BuffersInv
  <1>2. shares' \in [Ctrs -> UNION {Shares(p) : p \in Ctrs}]
    BY DEF Evaluate
  <1>3. SumFunction(shares') \in Int /\ (Len(Primaries) = 1 => SumFunction(shares') = shares'[1])
    BY <1>2, SharesAddUp
  <1>4. coreDifference' = SumFunction(shares')
    BY <1>1, <1>3 DEF RunInv
  <1>5. ASSUME pc' = "allocate", Len(Primaries) = 1 PROVE coreDifference' # 0
    BY <1>1, <1>3, <1>4, <1>5 DEF Ctrs
  <1>6. served.time <= now
    BY DEF RunInv
  <1>7. pc' = "allocate" => \E t \in 0..now : eventStart' = Timespec(t) /\ served.time <= t
    BY <1>1, <1>6
  <1> QED
    BY <1>1, <1>3, <1>4, <1>5, <1>7 DEF RunInv

-----------------------------------------------------------------------------
(* The report. *)

\* The statistics are a function of the log of rebalances alone.
LEMMA SameStatistics ==
    ASSUME UNCHANGED events PROVE Statistics' = Statistics
  <1>1. EventTimes' = EventTimes /\ TooFew' = TooFew /\ TooMany' = TooMany
    BY DEF EventTimes, TooFew, TooMany
  <1> QED
    BY <1>1 DEF Statistics

\* The utilization is a function of the log of changes alone.
LEMMA SameUtilization ==
    ASSUME UNCHANGED idleMaskChanges
    PROVE  [c \in Cores |-> Utilization(c)]' = [c \in Cores |-> Utilization(c)]
  <1>1. Intervals' = Intervals
    BY DEF Intervals
  <1> QED
    BY <1>1 DEF Utilization

\* A step of writeLog fills in one of its files.
LEMMA StepReports ==
    ASSUME ReportInv, NEW next, NEW file \in Files, NEW content, Step(next, file, content)
    PROVE  /\ report' = [f \in Files |-> report'[f]] /\ report'[file] = content
           /\ \A f \in Files \ {file} : report'[f] = report[f]
           /\ pc' = next /\ UNCHANGED <<now, missing, events, idleMaskChanges, served, observed>>
  <1>1. report' = [report EXCEPT ![file] = content]
    BY DEF Step
  <1>2. report = [f \in Files |-> report[f]]
    BY DEF ReportInv
  <1>3. /\ report' = [f \in Files |-> report'[f]] /\ report'[file] = content
        /\ \A f \in Files \ {file} : report'[f] = report[f]
    BY <1>1, <1>2
  <1> QED
    BY <1>3 DEF Step, buffers, history

\* What writeLog has written stays the account of the logs.
LEMMA WriteLogReports == ReportInv /\ WriteLog => ReportInv'
  <1> SUFFICES ASSUME ReportInv, WriteLog PROVE ReportInv'
    OBVIOUS
  <1> USE DEF Files
  <1>1. CASE WriteEvents
    <2>1. CASE Step("done", "log", "unopened") \/ Step("killed", "log", "lost")
      <3>1. report' = [f \in Files |-> report'[f]] /\ pc' \in {"done", "killed"}
        <4>1. CASE Step("done", "log", "unopened")
          BY <4>1, StepReports
        <4>2. CASE Step("killed", "log", "lost")
          BY <4>2, StepReports
        <4> QED
          BY <2>1, <4>1, <4>2
      <3> QED
        BY <3>1 DEF ReportInv
    <2>2. CASE events # <<>> /\ Step("execTime", "log", Statistics)
      <3>1. /\ report' = [f \in Files |-> report'[f]] /\ report'["log"] = Statistics
            /\ pc' = "execTime" /\ events' = events
        BY <2>2, StepReports
      <3> QED
        BY <2>2, <3>1, SameStatistics DEF ReportInv
    <2> QED
      BY <1>1, <2>1, <2>2 DEF WriteEvents
  <1>2. CASE CalculateExecTime
    <2>1. CASE Step("killed", "util", "lost")
      <3>1. report' = [f \in Files |-> report'[f]] /\ pc' = "killed"
        BY <2>1, StepReports
      <3> QED
        BY <3>1 DEF ReportInv
    <2>2. CASE Step("stats", "util", [c \in Cores |-> Utilization(c)])
      <3>1. /\ report' = [f \in Files |-> report'[f]]
            /\ report'["util"] = [c \in Cores |-> Utilization(c)]
            /\ report'["log"] = report["log"]
            /\ pc' = "stats" /\ events' = events /\ idleMaskChanges' = idleMaskChanges
        BY <2>2, StepReports
      <3>2. pc = "execTime"
        BY <1>2 DEF CalculateExecTime
      <3>3. report'.util = [c \in Cores |-> Utilization(c)]'
        BY <3>1, SameUtilization
      <3>4. report'.log = Statistics' /\ events' # <<>>
        BY <3>1, <3>2, SameStatistics DEF ReportInv
      <3> QED
        BY <3>1, <3>3, <3>4 DEF ReportInv
    <2> QED
      BY <1>2, <2>1, <2>2 DEF CalculateExecTime
  <1>3. CASE WriteStats \/ WriteDynamic
    <2>1. report' = [f \in Files |-> report'[f]] /\ pc' \in {"killed", "dynamic", "done"}
      BY <1>3, StepReports DEF WriteStats, WriteDynamic
    <2> QED
      BY <2>1 DEF ReportInv
  <1> QED
    BY <1>1, <1>2, <1>3 DEF WriteLog

-----------------------------------------------------------------------------
(* The invariant of the logs. *)

LogInv == RunInv /\ TallyInv /\ ObservedInv /\ ReportInv

\* The logs start empty.
LEMMA InitLogInv == Init => LogInv
  <1> SUFFICES ASSUME Init PROVE LogInv
    OBVIOUS
  <1>1. /\ now = 0 /\ pc = "poll" /\ idleMaskChanges = <<>> /\ events = <<>>
        /\ coreDifference = 0 /\ report = NoReport
        /\ observed = [active |-> [c \in Cores |-> 0], idle |-> [c \in Cores |-> 0],
                       since |-> 0]
        /\ served = [few |-> 0, many |-> 0, all |-> 0, fewTime |-> 0, manyTime |-> 0,
                     time |-> 0, longest |-> 0]
    BY DEF Init
  <1>2. Len(<<>>) = 0 /\ 1..0 = {}
    OBVIOUS
  <1>3. RunInv
    BY <1>1, ClockAssumption DEF RunInv, Counters
  <1>4. TallyInv
    <2>1. TooFew = {} /\ TooMany = {} /\ 1..Len(events) = {} /\ Len(events) = 0
      BY <1>1, <1>2 DEF TooFew, TooMany
    <2>2. Cardinality({}) = 0 /\ SumFunctionOnSet(EventTimes, {}) = 0
      BY FS_EmptySet, SumOfFew
    <2> QED
      BY <1>1, <2>1, <2>2 DEF TallyInv
  <1>5. ObservedInv
    <2>1. Changes = 0 /\ DOMAIN Intervals = {} /\ \A c : Busy(c) = {}
      BY <1>1, <1>2 DEF Changes, Intervals, Busy
    <2>2. SumFunctionOnSet(Intervals, {}) = 0
      BY SumOfFew
    <2>3. \A c : DOMAIN Intervals \ Busy(c) = {}
      BY <2>1
    <2>4. observed \in [active : [Cores -> Nat], idle : [Cores -> Nat], since : 0..now]
      <3>1. [c \in Cores |-> 0] \in [Cores -> Nat] /\ 0 \in 0..0
        OBVIOUS
      <3> QED
        BY <1>1, <3>1
    <2>5. observed.since = 0 /\ \A c \in Cores : observed.active[c] = 0 /\ observed.idle[c] = 0
      BY <1>1
    <2>6. ASSUME NEW c \in Cores
          PROVE  /\ observed.active[c] <= observed.since /\ observed.idle[c] <= observed.since
                 /\ SumFunctionOnSet(Intervals, Busy(c)) = observed.active[c]
                 /\ SumFunctionOnSet(Intervals, DOMAIN Intervals \ Busy(c)) = observed.idle[c]
      <3>1. SumFunctionOnSet(Intervals, Busy(c)) = 0
        BY <2>1, <2>2, Zenon
      <3>2. SumFunctionOnSet(Intervals, DOMAIN Intervals \ Busy(c)) = 0
        BY <2>2, <2>3, Zenon
      <3> QED
        BY <2>5, <3>1, <3>2
    <2>7. ~(Changes > 0) /\ \A e : e \notin 1..Changes
      BY <2>1
    <2> QED
      BY <2>4, <2>6, <2>7 DEF ObservedInv
  <1>6. ReportInv
    BY <1>1 DEF ReportInv, NoReport, Files
  <1> QED
    BY <1>3, <1>4, <1>5, <1>6 DEF LogInv

\* Every step keeps the logs an exact account of the run.
LEMMA NextLogInv == IInv /\ LogInv /\ [Next]_vars => LogInv'
  <1> SUFFICES ASSUME IInv, LogInv, [Next]_vars PROVE LogInv'
    OBVIOUS
  <1>0. RunInv /\ TallyInv /\ ObservedInv /\ ReportInv /\ now \in Nat
    BY DEF LogInv, IInv, BuffersInv
  <1>1. CASE Tick
    <2>1. /\ now' = now + 1 /\ now < MaxTime
          /\ UNCHANGED <<pc, missing, idleMaskChanges, events, coreDifference, eventStart,
                         report, shares, observed, served>>
      BY <1>1 DEF Tick, buffers, evaluation, history
    <2>2. now' \in Nat /\ now <= now' /\ now' <= MaxTime /\ 0..now \subseteq 0..now'
      BY <1>0, <2>1, ClockAssumption
    <2>3. RunInv'
      <3>1. served.time <= now'
        BY <1>0, <2>1 DEF RunInv, Counters
      <3> QED
        BY <1>0, <2>1, <2>2, <3>1 DEF RunInv
    <2>4. TallyInv' /\ ObservedInv'
      BY <1>0, <2>1, <2>2, TallyKept, ObservedKept
    <2>5. ReportInv'
      BY <1>0, <2>1, SameStatistics, SameUtilization DEF ReportInv
    <2> QED
      BY <2>3, <2>4, <2>5 DEF LogInv
  <1>2. CASE Poll
    <2>1. /\ pc = "poll" /\ pc' \in {"evaluate", "killed"}
          /\ UNCHANGED <<now, missing, events, coreDifference, report, served>>
      BY <1>2 DEF Poll, evaluation
    <2>2. RunInv'
      BY <1>0, <2>1 DEF RunInv
    <2>3. TallyInv' /\ ObservedInv'
      BY <1>0, <1>2, <2>1, TallyKept, PollObserves
    <2>4. ReportInv'
      BY <1>0, <2>1 DEF ReportInv
    <2> QED
      BY <2>2, <2>3, <2>4 DEF LogInv
  <1>3. CASE Evaluate
    <2>1. /\ pc' \in {"allocate", "end"}
          /\ UNCHANGED <<now, missing, events, idleMaskChanges, report, observed, served>>
      BY <1>3 DEF Evaluate
    <2>2. TallyInv' /\ ObservedInv'
      BY <1>0, <2>1, TallyKept, ObservedKept
    <2>3. ReportInv'
      BY <1>0, <2>1 DEF ReportInv
    <2> QED
      BY <1>0, <1>3, <2>2, <2>3, EvaluateRuns DEF LogInv
  <1>4. CASE Rebalance
    <2>1. pc' = "end" /\ UNCHANGED <<now, idleMaskChanges, report, observed>>
      BY <1>4 DEF Rebalance
    <2>2. ObservedInv'
      BY <1>0, <2>1, ObservedKept
    <2>3. ReportInv'
      BY <1>0, <2>1 DEF ReportInv
    <2> QED
      BY <1>0, <1>4, <2>2, <2>3, RebalanceRuns, RebalanceTallies DEF LogInv
  <1>5. CASE EndIteration \/ Exit
    <2>1. /\ UNCHANGED <<now, missing, events, idleMaskChanges, report, observed, served>>
          /\ pc' \in {"poll", "statistics"} /\ (pc' = "poll" => coreDifference' = 0)
      BY <1>5 DEF EndIteration, Exit, buffers, history
    <2>2. RunInv'
      BY <1>0, <2>1 DEF RunInv
    <2>3. TallyInv' /\ ObservedInv'
      BY <1>0, <2>1, TallyKept, ObservedKept
    <2>4. ReportInv'
      BY <1>0, <2>1 DEF ReportInv
    <2> QED
      BY <2>2, <2>3, <2>4 DEF LogInv
  <1>6. CASE WriteLog
    <2>1. /\ UNCHANGED <<now, missing, events, idleMaskChanges, observed, served>>
          /\ pc' \in {"done", "killed", "execTime", "stats", "dynamic"}
      BY <1>6 DEF WriteLog, WriteEvents, CalculateExecTime, WriteStats, WriteDynamic, Step,
                  buffers, history
    <2>2. RunInv'
      BY <1>0, <2>1 DEF RunInv
    <2>3. TallyInv' /\ ObservedInv'
      BY <1>0, <2>1, TallyKept, ObservedKept
    <2> QED
      BY <1>0, <1>6, <2>2, <2>3, WriteLogReports DEF LogInv
  <1>7. CASE UNCHANGED vars
    <2>1. UNCHANGED <<now, pc, missing, events, idleMaskChanges, coreDifference, eventStart,
                      report, shares, observed, served>>
      BY <1>7 DEF vars, buffers, evaluation, history
    <2>2. RunInv'
      BY <1>0, <2>1 DEF RunInv
    <2>3. TallyInv' /\ ObservedInv'
      BY <1>0, <2>1, TallyKept, ObservedKept
    <2>4. ReportInv'
      BY <1>0, <2>1, SameStatistics, SameUtilization DEF ReportInv
    <2> QED
      BY <2>2, <2>3, <2>4 DEF LogInv
  <1> QED
    BY <1>1, <1>2, <1>3, <1>4, <1>5, <1>6, <1>7 DEF Next

\* The statistics of the run are those of the rebalances that really happened,
\* for any number of Primaries, any clock and any log that was large enough
\* (logger.c, writeLog).
THEOREM StatisticsAreExact == Spec => []StatisticsExact
  <1>1. ASSUME IInv, LogInv PROVE StatisticsExact
    <2> SUFFICES ASSUME pc = "stats", served.all <= MAX_EVENTS + 1
                 PROVE  LET s == report.log
                        IN  /\ s.rebalance = served.all
                            /\ s.tooFewIdleCount = served.few
                            /\ s.tooManyIdleCount = served.many
                            /\ s.tooFewIdleTime = served.fewTime
                            /\ s.tooManyIdleTime = served.manyTime
                            /\ s.totalProcessingTime = served.time
                            /\ s.maxServiceTime = served.longest
                            /\ Len(Primaries) = 1 => served.few + served.many = served.all
      BY DEF StatisticsExact
    <2>1. report.log = Statistics /\ missing = {}
      BY <1>1 DEF LogInv, ReportInv, IInv, BuffersInv
    <2>2. /\ Len(events) = served.all
          /\ \A i \in 1..Len(events) : EventTimes[i] \in Int /\ EventTimes[i] <= served.longest
          /\ Cardinality(TooFew) = served.few /\ Cardinality(TooMany) = served.many
          /\ SumFunctionOnSet(EventTimes, TooFew) = served.fewTime
          /\ SumFunctionOnSet(EventTimes, TooMany) = served.manyTime
          /\ SumFunctionOnSet(EventTimes, 1..Len(events)) = served.time
          /\ served.longest \in {0} \cup Range(EventTimes)
      BY <1>1, <2>1 DEF LogInv, TallyInv
    <2>3. /\ served.fewTime \in Nat /\ served.manyTime \in Nat /\ served.time \in Nat
          /\ served.longest \in Nat
          /\ served.fewTime < Wrap /\ served.manyTime < Wrap /\ served.time < Wrap
      <3>1. served \in Counters /\ now \in Nat
        BY <1>1 DEF LogInv, RunInv, IInv, BuffersInv
      <3> QED
        BY <1>1, <3>1, ClockAssumption DEF LogInv, RunInv, Counters
    <2>4. \A x \in Nat : x < Wrap => x % Wrap = x
      BY ClockAssumption
    <2>5. SumFunction(EventTimes) = served.time
      <3>1. DOMAIN EventTimes = 1..Len(events)
        BY DEF EventTimes
      <3> QED
        BY <2>2, <3>1, Zenon DEF SumFunction
    <2>6. Max({0} \cup Range(EventTimes)) = served.longest
      <3>1. \A x \in Range(EventTimes) : x \in Int /\ x <= served.longest
        BY <2>2 DEF EventTimes, Range
      <3>2. {0} \cup Range(EventTimes) \in SUBSET Int
        BY <3>1
      <3>3. \A x \in {0} \cup Range(EventTimes) : x <= served.longest
        BY <2>3, <3>1
      <3> QED
        BY <2>2, <3>2, <3>3, MaxOf
    <2>7. /\ Statistics.rebalance = Len(events)
          /\ Statistics.tooFewIdleCount = Cardinality(TooFew)
          /\ Statistics.tooManyIdleCount = Cardinality(TooMany)
          /\ Statistics.tooFewIdleTime = SumFunctionOnSet(EventTimes, TooFew) % Wrap
          /\ Statistics.tooManyIdleTime = SumFunctionOnSet(EventTimes, TooMany) % Wrap
          /\ Statistics.totalProcessingTime = SumFunction(EventTimes) % Wrap
          /\ Statistics.maxServiceTime = Max({0} \cup Range(EventTimes))
      BY DEF Statistics
    <2>8. Len(Primaries) = 1 => served.few + served.many = served.all
      BY <1>1 DEF LogInv, RunInv
    <2> QED
      BY <2>1, <2>2, <2>3, <2>4, <2>5, <2>6, <2>7, <2>8
  <1> QED
    BY <1>1, InitLogInv, NextLogInv, Invariance, PTL DEF Spec

\* The time that each core was seen active and idle is all accounted for, across
\* the seconds of the clock and for any number of changes (logger.c,
\* calculateExecTime).
THEOREM UtilizationIsExact == Spec => []UtilizationExact
  <1>1. ASSUME IInv, LogInv PROVE UtilizationExact
    <2> SUFFICES ASSUME pc = "stats", NEW c \in Cores
                 PROVE  /\ report.util[c].active = observed.active[c]
                        /\ report.util[c].idle = observed.idle[c]
      BY DEF UtilizationExact
    <2>1. report.util[c] = Utilization(c)
      BY <1>1 DEF LogInv, ReportInv
    <2>2. /\ SumFunctionOnSet(Intervals, Busy(c)) = observed.active[c]
          /\ SumFunctionOnSet(Intervals, DOMAIN Intervals \ Busy(c)) = observed.idle[c]
      BY <1>1 DEF LogInv, ObservedInv
    <2>3. /\ observed.active[c] \in Nat /\ observed.active[c] < Wrap
          /\ observed.idle[c] \in Nat /\ observed.idle[c] < Wrap
      <3>1. /\ now \in Nat /\ now < Wrap
            /\ observed.since \in 0..now /\ observed.active \in [Cores -> Nat]
            /\ observed.idle \in [Cores -> Nat]
        BY <1>1, ClockAssumption DEF LogInv, RunInv, ObservedInv, IInv, BuffersInv
      <3>2. observed.active[c] <= observed.since /\ observed.idle[c] <= observed.since
        BY <1>1 DEF LogInv, ObservedInv
      <3> QED
        BY <3>1, <3>2, ClockAssumption
    <2>4. \A x \in Nat : x < Wrap => x % Wrap = x
      BY ClockAssumption
    <2>5. /\ Utilization(c).active = SumFunctionOnSet(Intervals, Busy(c)) % Wrap
          /\ Utilization(c).idle = SumFunctionOnSet(Intervals, DOMAIN Intervals \ Busy(c)) % Wrap
      BY DEF Utilization, Busy
    <2> QED
      BY <2>1, <2>2, <2>3, <2>4, <2>5
  <1> QED
    BY <1>1, InitLogInv, NextLogInv, Invariance, PTL DEF Spec

==============================================================================
