------------------------------ MODULE Balancer ------------------------------
(***************************************************************************)
(* The userspace Balancer (src/Balancer) together with the shared memory   *)
(* words through which it talks to the Monitor kernel module and to the    *)
(* Listener.  The Balancer lends the idle cores of the registered Primary  *)
(* containers to the Secondary containers.  It polls the Monitor's mask of *)
(* active cores, decides how many cores of each Primary it can spare,      *)
(* writes the new list of lent cores and asks the Monitor to install it.   *)
(*                                                                         *)
(* Data is abstracted, control is not:                                     *)
(*   - a mask of cores is a set of cores;                                  *)
(*   - clock readings and the running average of deficits are abstracted   *)
(*     to the class of the sample they lead to (see Samples);              *)
(*   - the Monitor and the Listener appear by the steps that touch the     *)
(*     words they share with the Balancer.                                 *)
(***************************************************************************)
EXTENDS Integers, FiniteSets, Sequences

CONSTANTS
    MaxPrimaries,        \* bound: Primaries that register in a behaviour
    CpuList,             \* CpuList[p]: the cores of Primary p, in list order
    StaticTarget,        \* StaticTarget[p]: static_targetIdleCores
    InitialTarget,       \* InitialTarget[p]: targetIdleCores as registered
    MinSecondary,        \* MinSecondary[p]: minSecondaryCores
    LowTic,              \* environment variable LOW_TIC of the Balancer
    RampUp,              \* RAMPUP1 + RAMPUP2
    SurplusEvtsThresh,   \* SURPLUS_EVTS_THRESH
    Dedicated,           \* cores of <secondaryCpuList>, never lent by a Primary
    MaxContainers,       \* bound: containers of Secondary pods scanned
    BootControl,         \* values balancerControl may hold when mapped
    BootUpdating,        \* values updatingPids may hold when mapped
    StopWhilePaused,     \* SIGUSR1 may reach the Balancer before it is active
    MayStopMonitor,      \* the operator may write 0 to the Monitor's control
    MayCancelListener    \* the operator may send SIGUSR1 to the Listener

Ctrs == 1..MaxPrimaries

ListedCores(p) == {CpuList[p][k] : k \in DOMAIN CpuList[p]}

Cores == UNION {ListedCores(p) : p \in Ctrs}

\* totalEligibleCores of Primary p is the length of its list.
NumCpus(p) == Len(CpuList[p])

\* The loop bounds of the code and what an operator configures: each Primary
\* lists its own cores once, and asks for idle cores between LOW_TIC and its
\* static target, which is no larger than the pool.
ASSUME CpuListAssumption ==
    /\ MaxPrimaries \in Nat
    /\ CpuList \in [Ctrs -> Seq(Nat)]
    /\ \A p \in Ctrs : \A j, k \in DOMAIN CpuList[p] :
          CpuList[p][j] = CpuList[p][k] => j = k
    /\ \A p, q \in Ctrs : p # q => ListedCores(p) \cap ListedCores(q) = {}

ASSUME TargetAssumption ==
    /\ LowTic \in Nat
    /\ StaticTarget \in [Ctrs -> Nat]
    /\ InitialTarget \in [Ctrs -> Nat]
    /\ MinSecondary \in [Ctrs -> Nat]
    /\ \A p \in Ctrs : /\ LowTic <= InitialTarget[p]
                       /\ InitialTarget[p] <= StaticTarget[p]
                       /\ StaticTarget[p] <= NumCpus(p)

ASSUME TuningAssumption ==
    /\ RampUp \in Nat
    /\ SurplusEvtsThresh \in Nat
    /\ MaxContainers \in Nat

\* The Monitor allocates the shared page without clearing it and initialises
\* neither word; every value other than -1 and 0 makes the Balancer run.
ASSUME BootAssumption ==
    /\ BootControl \subseteq {-1, 0, 1}
    /\ BootUpdating \subseteq {0, 1}
    /\ {StopWhilePaused, MayStopMonitor, MayCancelListener} \subseteq BOOLEAN

VARIABLES
    \* words of the shared page (struct idleStats)
    balancerControl,     \* 0 paused, 1 active, -1 exit
    updatingPids,        \* 1 while the Listener reads a container's tasks
    needs_rebalance,     \* 0, or the kind of rebalance asked of the Monitor
    affinity,            \* affinity_list[0 .. num_affinity-1]
    nr_primary_ctrs,     \* Primaries registered
    \* the Balancer process
    pc,                  \* where it is in pollIdleCPU
    ctr,                 \* ctr[p]: what it tracks of Primary p
    currIdleMask,        \* cores that were ACTIVE when it last looked
    setAffinityMask,     \* cores it has decided to lend
    lastAffinityMask,    \* cores lent at the end of the last iteration
    currSecondaryCoreCount,
    rebalanceAction,
    \* the Monitor's kernel thread
    mpc,                 \* "scan", "twopa" or "asleep"
    applied,             \* the lent cores of the last mask it installed
    \* the Listener's connection thread
    lpc,                 \* where it is in handle_connection
    failed,              \* result < 0 of the pod being processed
    toScan               \* containers still to be scanned

shared == <<balancerControl, updatingPids, needs_rebalance, affinity,
            nr_primary_ctrs>>
decision == <<ctr, currIdleMask, setAffinityMask, lastAffinityMask,
              currSecondaryCoreCount, rebalanceAction>>
monitor == <<mpc, applied>>
listener == <<lpc, failed, toScan>>
vars == <<shared, pc, decision, monitor, listener>>
-----------------------------------------------------------------------------
(***************************************************************************)
(* The per-Primary controller.  Once per sampling period the share of time *)
(* spent short of idle cores (deficit_rate) is compared with the Primary's *)
(* threshold: "high" is above it, "near" within the band of within_error,  *)
(* "low" below the band, "none" means the period has not elapsed.          *)
(***************************************************************************)
Samples == {"none", "high", "near", "low"}

CtrInfo == [alloc : Nat,                             \* CoresAllocatedToSecondary
            spare : Nat,                             \* SpareCoresToAllocate
            state : {"OBSERVE", "ADJUST", "HARVEST"},
            ramp : 0..RampUp,                        \* ramp_ctr
            surplus : 0..(SurplusEvtsThresh + 1),    \* surplus_evts
            within : BOOLEAN,                        \* within_error_flag
            target : Nat,                            \* targetIdleCores
            max : Nat]                               \* maxSecondaryCores

InitialCtr(p) == [alloc |-> 0, spare |-> 0, state |-> "OBSERVE", ramp |-> 0,
                  surplus |-> SurplusEvtsThresh + 1, within |-> FALSE,
                  target |-> InitialTarget[p],
                  max |-> NumCpus(p) - InitialTarget[p]]

DoObserve(c) ==
    IF c.ramp < RampUp THEN [c EXCEPT !.ramp = @ + 1]
                       ELSE [c EXCEPT !.ramp = 0, !.state = "ADJUST"]

Raised(p, t) == IF t + 1 > StaticTarget[p] THEN StaticTarget[p] ELSE t + 1

LoweredPastLowTic(t) == IF t = 0 THEN 0 ELSE t - 1
Lowered(t) == IF t - 1 < LowTic THEN LowTic ELSE t - 1

\* The target after a sample: a deficit raises it; no deficit lowers it, but
\* close to the threshold only after SURPLUS_EVTS_THRESH such samples.
AdjustTarget(p, c, s) ==
    LET within == c.within \/ s = "near"
    IN  IF s = "high"
        THEN [c EXCEPT !.target = Raised(p, @)]
        ELSE IF within /\ c.surplus < SurplusEvtsThresh
        THEN [c EXCEPT !.surplus = @ + 1, !.within = TRUE]
        ELSE [c EXCEPT !.target = Lowered(@), !.surplus = 0, !.within = FALSE]

DoAdjust(p, c, s) ==
    LET a == AdjustTarget(p, c, s)
    IN  [a EXCEPT !.max = NumCpus(p) - a.target, !.state = "HARVEST"]

\* The sampling part of evaluatePrimaryContainer: at the end of a period the
\* adjustment follows whether or not the Primary was still being observed.
Sampled(p, c, s) ==
    IF s = "none" THEN c
    ELSE DoAdjust(p, IF c.state = "OBSERVE" THEN DoObserve(c) ELSE c, s)

IdleCores(p, active) == {c \in ListedCores(p) : c \notin active}

\* coreDifference: idle cores beyond (or, negative, short of) the target.
CoreDifference(p, c, active) == Cardinality(IdleCores(p, active)) - c.target

\* doAdjust recalculates the difference when it has moved the target.
DifferenceBeforeSample(p, c, active, s) == CoreDifference(p, c, active)
SampledDifference(p, c, active, s) == CoreDifference(p, Sampled(p, c, s), active)

\* doHarvest returns early when Secondary already has the most or the least.
SkipsHarvest(p, c, diff) ==
    \/ diff > 0 /\ c.alloc = c.max
    \/ diff < 0 /\ c.alloc = MinSecondary[p]

SpareWithoutCap(c, diff) == IF c.alloc + diff <= 0 THEN 0 ELSE c.alloc + diff
SpareCores(c, diff) ==
    CASE c.alloc + diff <= 0    -> 0
      [] c.alloc + diff > c.max -> c.max
      [] OTHER                  -> c.alloc + diff

DoHarvest(p, c, diff) ==
    IF SkipsHarvest(p, c, diff) THEN c
    ELSE [c EXCEPT !.spare = SpareCores(c, diff), !.state = "ADJUST"]

\* evaluatePrimaryContainer: the new record, and whether doHarvest returned 1.
EvaluatePrimaryContainer(p, c, active, s) ==
    DoHarvest(p, Sampled(p, c, s), SampledDifference(p, c, active, s))

AsksRebalance(p, c, active, s) ==
    LET diff == SampledDifference(p, c, active, s)
    IN  diff # 0 /\ ~SkipsHarvest(p, Sampled(p, c, s), diff)
-----------------------------------------------------------------------------
(***************************************************************************)
(* The choice of the cores to lend.  The list of Primary p is walked from  *)
(* its end; a core that was not lent and is now active is skipped.         *)
(***************************************************************************)
CandidatesIgnoringActivity(p, last, active) == DOMAIN CpuList[p]
Candidates(p, last, active) ==
    {k \in DOMAIN CpuList[p] : CpuList[p][k] \in last \/ CpuList[p][k] \notin active}

\* The first `spare` candidates met by the walk.
Grant(p, spare, last, active) ==
    LET C == Candidates(p, last, active)
    IN  {CpuList[p][k] : k \in {j \in C : Cardinality({i \in C : i > j}) < spare}}

Grants == [p \in 1..nr_primary_ctrs |->
              Grant(p, ctr[p].spare, lastAffinityMask, currIdleMask)]

\* CoresAllocatedToSecondary is written also when nothing is spare.
KeepAllocWhenNoneSpare(c, granted) ==
    IF c.spare = 0 THEN c ELSE [c EXCEPT !.alloc = Cardinality(granted)]
Recount(c, granted) == [c EXCEPT !.alloc = Cardinality(granted)]

\* Mutant: grown and shrunk grants are confused.
ActionForSwapped(count, last) == IF count = 0 THEN 3 ELSE IF count > last THEN 2 ELSE 1

\* 3 suspends Secondary, 1 and 2 grow and shrink it.
ActionFor(count, last) == IF count = 0 THEN 3 ELSE IF count < last THEN 2 ELSE 1

\* The Monitor is not called when the non-empty mask is the one in force.
InForce(mask, count) == count # 0 /\ mask = lastAffinityMask
-----------------------------------------------------------------------------
(***************************************************************************)
(* The Balancer's steps.                                                   *)
(***************************************************************************)
Init ==
    /\ balancerControl \in BootControl
    /\ updatingPids \in BootUpdating
    /\ needs_rebalance = 0
    /\ affinity = {}
    /\ nr_primary_ctrs = 0
    /\ pc = "paused"
    /\ ctr = [p \in Ctrs |-> InitialCtr(p)]
    /\ currIdleMask = {}
    /\ setAffinityMask = {}
    /\ lastAffinityMask = {}
    /\ currSecondaryCoreCount = 0
    /\ rebalanceAction = 0
    /\ mpc = "scan"
    /\ applied = Cores             \* until a first mask is installed
    /\ lpc = "idle"
    /\ failed = FALSE
    /\ toScan = MaxContainers

\* The wait for balancerControl # 0, then on to the initial rebalance.
Unpause ==
    /\ pc = "paused"
    /\ balancerControl # 0
    /\ pc' = "initial"
    /\ UNCHANGED <<shared, decision, monitor, listener>>

\* The rest of the iteration is skipped for the mask of the last look.
MaskChangedAlways(m) == TRUE
MaskChanged(m) == m # currIdleMask

\* One iteration of the polling loop up to the decision to rebalance, for a
\* mask m that differs from the last one and the outcome of the samples.
Poll(m, samples) ==
    /\ pc = "poll"
    /\ balancerControl \notin {0, -1}
    /\ MaskChanged(m)
    /\ currIdleMask' = m
    /\ ctr' = [p \in Ctrs |->
                 IF p <= nr_primary_ctrs
                 THEN EvaluatePrimaryContainer(p, ctr[p], m, samples[p])
                 ELSE ctr[p]]
    /\ pc' = IF \E p \in 1..nr_primary_ctrs : AsksRebalance(p, ctr[p], m, samples[p])
             THEN "allocate" ELSE "poll"
    /\ UNCHANGED <<shared, setAffinityMask, lastAffinityMask,
                   currSecondaryCoreCount, rebalanceAction, monitor, listener>>

\* AllocateCoresToSecondary up to the call of SchedAllSecondary.  It rewrites
\* affinity_list in place.  When the mask is the one in force there is no call
\* and the iteration ends.
Allocate ==
    /\ pc \in {"initial", "allocate"}
    /\ LET grants == Grants
           mask   == UNION {grants[p] : p \in 1..nr_primary_ctrs}
           count  == Cardinality(mask)
       IN  /\ ctr' = [p \in Ctrs |-> IF p <= nr_primary_ctrs
                                     THEN Recount(ctr[p], grants[p]) ELSE ctr[p]]
           /\ setAffinityMask' = mask
           /\ affinity' = mask
           /\ currSecondaryCoreCount' = count
           /\ rebalanceAction' = ActionFor(count, currSecondaryCoreCount)
           /\ IF InForce(mask, count)
              THEN pc' = "poll" /\ lastAffinityMask' = mask
              ELSE pc' = "waitPids" /\ UNCHANGED lastAffinityMask
    /\ UNCHANGED <<balancerControl, updatingPids, needs_rebalance, nr_primary_ctrs,
                   currIdleMask, monitor, listener>>

\* SchedAllSecondary returns and the iteration ends.
EndIteration ==
    /\ pc' = "poll"
    /\ lastAffinityMask' = setAffinityMask
    /\ UNCHANGED <<shared, ctr, currIdleMask, setAffinityMask,
                   currSecondaryCoreCount, monitor, listener>>

Goto(from, to) ==
    /\ pc = from
    /\ pc' = to
    /\ UNCHANGED <<shared, decision, monitor, listener>>

\* The first spin: it ends when no PID list is being updated; the exit signal
\* is looked for only after the flag was found set.
NeverAborts == FALSE
Aborts == balancerControl = -1

PidsReady == updatingPids # 1 /\ Goto("waitPids", "publish")
PidsBusy  == updatingPids = 1 /\ Goto("waitPids", "pidsBusy")

Publish ==
    /\ pc = "publish"
    /\ needs_rebalance' = rebalanceAction
    /\ pc' = "waitMonitor"
    /\ UNCHANGED <<balancerControl, updatingPids, affinity, nr_primary_ctrs,
                   decision, monitor, listener>>

\* The second spin: it ends when the Monitor has changed the word.
AnsweredAtOnce == TRUE
Answered == needs_rebalance # rebalanceAction

MonitorAnswered ==
    /\ pc = "waitMonitor"
    /\ Answered
    /\ rebalanceAction' = 0
    /\ EndIteration

MonitorBusy == ~Answered /\ Goto("waitMonitor", "monitorBusy")

\* The exit check inside either spin: return at once, or spin again.
Abort ==
    /\ pc \in {"pidsBusy", "monitorBusy"}
    /\ Aborts
    /\ UNCHANGED rebalanceAction
    /\ EndIteration

SpinAgain ==
    \/ ~Aborts /\ Goto("pidsBusy", "waitPids")
    \/ ~Aborts /\ Goto("monitorBusy", "waitMonitor")

Exit == balancerControl = -1 /\ Goto("poll", "done")

BalancerStep ==
    \/ Unpause
    \/ \E m \in SUBSET Cores : \E samples \in [1..nr_primary_ctrs -> Samples] :
          Poll(m, samples)
    \/ Allocate
    \/ PidsReady \/ PidsBusy
    \/ Publish
    \/ MonitorAnswered \/ MonitorBusy
    \/ Abort \/ SpinAgain
    \/ Exit
-----------------------------------------------------------------------------
(***************************************************************************)
(* The Monitor's kernel thread, by what it does to needs_rebalance.  The   *)
(* pass over the Secondary tasks takes time: it begins and ends.           *)
(***************************************************************************)
MonitorBeginClearing ==
    /\ mpc = "scan"
    /\ needs_rebalance > 0
    /\ mpc' = "twopa"
    /\ needs_rebalance' = 0
    /\ UNCHANGED <<balancerControl, updatingPids, affinity, nr_primary_ctrs, pc,
                   decision, applied, listener>>

MonitorBegin ==
    /\ mpc = "scan"
    /\ needs_rebalance > 0
    /\ mpc' = "twopa"
    /\ UNCHANGED <<shared, pc, decision, applied, listener>>

\* set_cpus_allowed_ptr refuses an empty mask, and the refusal is ignored.
Installed(lent) == IF lent \cup Dedicated = {} THEN applied ELSE lent

MonitorEnd ==
    /\ mpc = "twopa"
    /\ mpc' = "scan"
    /\ applied' = Installed(affinity)
    /\ needs_rebalance' = 0
    /\ UNCHANGED <<balancerControl, updatingPids, affinity, nr_primary_ctrs, pc,
                   decision, listener>>

\* The operator writes 0, later 1, to the Monitor's control file; the thread
\* looks at the flag between two passes.
MonitorSleep ==
    /\ MayStopMonitor
    /\ mpc = "scan"
    /\ mpc' = "asleep"
    /\ UNCHANGED <<shared, pc, decision, applied, listener>>

MonitorWake ==
    /\ mpc = "asleep"
    /\ mpc' = "scan"
    /\ UNCHANGED <<shared, pc, decision, applied, listener>>

MonitorStep == MonitorBegin \/ MonitorEnd
-----------------------------------------------------------------------------
(***************************************************************************)
(* The Listener's connection thread: one message at a time.                *)
(***************************************************************************)
RegisterPrimary ==
    /\ lpc = "idle"
    /\ nr_primary_ctrs < MaxPrimaries
    /\ nr_primary_ctrs' = nr_primary_ctrs + 1
    /\ UNCHANGED <<balancerControl, updatingPids, needs_rebalance, affinity, pc,
                   decision, monitor, listener>>

\* A Secondary pod arrives; its containers are scanned one after the other.
ReceiveSecondary ==
    /\ lpc = "idle"
    /\ lpc' = "pod"
    /\ failed' = FALSE
    /\ UNCHANGED <<shared, pc, decision, monitor, toScan>>

\* A container whose task file cannot be opened fails before the flag is set.
UnreadableContainer ==
    /\ lpc = "pod"
    /\ toScan > 0
    /\ toScan' = toScan - 1
    /\ failed' = TRUE
    /\ UNCHANGED <<shared, pc, decision, monitor, lpc>>

BeginScan ==
    /\ lpc = "pod"
    /\ toScan > 0
    /\ toScan' = toScan - 1
    /\ lpc' = "scan"
    /\ updatingPids' = 1
    /\ UNCHANGED <<balancerControl, needs_rebalance, affinity, nr_primary_ctrs, pc,
                   decision, monitor, failed>>

\* The scan ends at the launcher, at the end of the file, or with an error.
EndScanLeavingFlag ==
    /\ lpc = "scan"
    /\ lpc' = "pod"
    /\ \/ failed' = TRUE /\ UNCHANGED updatingPids
       \/ UNCHANGED failed /\ updatingPids' = 0
    /\ UNCHANGED <<balancerControl, needs_rebalance, affinity, nr_primary_ctrs, pc,
                   decision, monitor, toScan>>

EndScan ==
    /\ lpc = "scan"
    /\ lpc' = "pod"
    /\ updatingPids' = 0
    /\ failed' \in {failed, TRUE}
    /\ UNCHANGED <<balancerControl, needs_rebalance, affinity, nr_primary_ctrs, pc,
                   decision, monitor, toScan>>

\* All containers done: a pod without a failure starts a paused Balancer.  The
\* test of balancerControl and the write are two steps.
ActivatesAnyway == ~failed
Activates == ~failed /\ balancerControl = 0

FinishPod ==
    /\ lpc = "pod"
    /\ lpc' = IF Activates THEN "activate" ELSE "idle"
    /\ failed' = FALSE
    /\ UNCHANGED <<shared, pc, decision, monitor, toScan>>

Activate ==
    /\ lpc = "activate"
    /\ balancerControl' = 1
    /\ lpc' = "idle"
    /\ UNCHANGED <<updatingPids, needs_rebalance, affinity, nr_primary_ctrs, pc,
                   decision, monitor, failed, toScan>>

\* SIGUSR1 cancels the thread at one of the blocking calls of these places.
Cancel ==
    /\ MayCancelListener
    /\ lpc \in {"idle", "pod", "scan"}
    /\ lpc' = "cancelled"
    /\ UNCHANGED <<shared, pc, decision, monitor, failed, toScan>>

ListenerStep == BeginScan \/ UnreadableContainer \/ EndScan \/ FinishPod \/ Activate
-----------------------------------------------------------------------------
\* SIGUSR1 to the Balancer runs trigger_cleanup between any two of its steps.
Stop ==
    /\ pc # "done"
    /\ StopWhilePaused \/ pc # "paused"
    /\ balancerControl' = -1
    /\ UNCHANGED <<updatingPids, needs_rebalance, affinity, nr_primary_ctrs, pc,
                   decision, monitor, listener>>

Next ==
    \/ BalancerStep
    \/ MonitorStep \/ MonitorSleep \/ MonitorWake
    \/ RegisterPrimary \/ ReceiveSecondary \/ ListenerStep \/ Cancel
    \/ Stop

Spec == Init /\ [][Next]_vars

\* Fairness: the Balancer and the kernel thread are busy loops and the
\* Listener's reads of /sys and /proc return, so none of them stops short of a
\* step it can take.  A new mask, a message or a signal is never owed.
BalancerProgress ==
    \/ Unpause \/ Allocate \/ PidsReady \/ PidsBusy \/ Publish
    \/ MonitorAnswered \/ MonitorBusy \/ Abort \/ SpinAgain \/ Exit

FairSpec == Spec /\ WF_vars(BalancerProgress)
                 /\ WF_vars(MonitorStep)
                 /\ WF_vars(ListenerStep)
-----------------------------------------------------------------------------
(***************************************************************************)
(* Properties.                                                             *)
(***************************************************************************)
Waiting == {"waitPids", "pidsBusy", "publish", "waitMonitor", "monitorBusy"}

\* The values every word, and every local of the three threads, may hold.
TypeOK ==
    /\ balancerControl \in {-1, 0, 1}
    /\ updatingPids \in {0, 1}
    /\ needs_rebalance \in 0..3
    /\ affinity \subseteq Cores
    /\ nr_primary_ctrs \in 0..MaxPrimaries
    /\ pc \in {"paused", "initial", "poll", "allocate", "done"} \cup Waiting
    /\ ctr \in [Ctrs -> CtrInfo]
    /\ currIdleMask \subseteq Cores
    /\ setAffinityMask \subseteq Cores
    /\ lastAffinityMask \subseteq Cores
    /\ currSecondaryCoreCount \in Nat
    /\ rebalanceAction \in 0..3
    /\ mpc \in {"scan", "twopa", "asleep"}
    /\ applied \subseteq Cores
    /\ lpc \in {"idle", "pod", "scan", "activate", "cancelled"}
    /\ failed \in BOOLEAN
    /\ toScan \in 0..MaxContainers

\* The protocol between the threads, on which the properties below rest.
\* - A request stays published only while the Balancer waits for it, or after
\*   an exit signal made it stop waiting; the Monitor works on requests only.
\* - The Listener activates only a paused Balancer, and 0 means paused.
\* - Before the first poll nothing is lent.
\* - While it waits, affinity_list is what the Balancer decided on.
\* - An answered request, and every poll, find the decision installed.
InstalledMaskIs(lent) ==
    lent \subseteq applied /\ (lent \cup Dedicated # {} => applied = lent)

Handshake ==
    /\ needs_rebalance # 0 =>
          \/ pc \in {"waitMonitor", "monitorBusy"} /\ needs_rebalance = rebalanceAction
          \/ pc \in {"poll", "done"} /\ balancerControl = -1
    /\ mpc = "twopa" => needs_rebalance # 0
    /\ lpc = "activate" => balancerControl = 0
    /\ balancerControl = 0 => pc = "paused"
    /\ pc = "done" => balancerControl = -1
    /\ pc \in {"paused", "initial"} =>
          setAffinityMask = {} /\ lastAffinityMask = {} /\ affinity = {}
    /\ pc \in Waiting => affinity = setAffinityMask /\ rebalanceAction # 0
    /\ pc \in {"waitMonitor", "monitorBusy"} /\ needs_rebalance = 0 =>
          InstalledMaskIs(affinity)
    /\ pc = "allocate" \/ (pc = "poll" /\ balancerControl # -1) =>
          /\ affinity = lastAffinityMask /\ setAffinityMask = lastAffinityMask
          /\ InstalledMaskIs(lastAffinityMask)

\* A core that Secondary is about to receive (it is in the list handed to the
\* Monitor, the installed mask lacks it) was idle in the mask the decision was
\* taken from: no core is taken from under a running Primary thread.
NoBusyCoreTaken == (affinity \ applied) \cap currIdleMask = {}

\* The Balancer never decides on a stale grant: whenever it looks at a mask or
\* chooses cores, the Monitor has installed exactly the cores the Balancer
\* believes are lent.  An exit signal excepted: it abandons the wait.
SettledGrant ==
    pc = "allocate" \/ (pc = "poll" /\ balancerControl # -1) =>
        applied = lastAffinityMask /\ affinity = lastAffinityMask

\* CoresAllocatedToSecondary, from which the next grant is computed, counts the
\* cores of the Primary that are in the mask.
Accounting ==
    \A p \in Ctrs :
        ctr[p].alloc = Cardinality(setAffinityMask \cap ListedCores(p))

\* A grant leaves each Primary its targetIdleCores: maxSecondaryCores is
\* "everything possible" to Secondary (main.c:59).  Holds for a Primary that is
\* alone; with two it is false: doHarvest skips one of them and leaves it the
\* spare cores of an older, lower target, which a rebalance for the other grants.
TargetReserved ==
    pc \in Waiting =>
        \A p \in Ctrs : ctr[p].alloc <= NumCpus(p) - ctr[p].target

\* The adaptive target stays between LOW_TIC and the static target, and the
\* bound on what Secondary may get follows it.
TargetBounds ==
    \A p \in Ctrs : /\ ctr[p].target \in LowTic..StaticTarget[p]
                    /\ ctr[p].max = NumCpus(p) - ctr[p].target

\* A rebalance, whichever Primary asked for it, leaves its target to every
\* Primary that doHarvest did not skip in this evaluation, also when the target
\* was raised meanwhile or was met and asked for nothing (main.c:69-74).
FreshTargetReserved ==
    [][pc = "allocate" /\ pc' # "allocate" =>
          \A p \in Ctrs :
             ~SkipsHarvest(p, ctr[p], CoreDifference(p, ctr[p], currIdleMask))
                => ctr'[p].alloc <= NumCpus(p) - ctr'[p].target]_vars

\* A Primary short of idle cores, or with just enough, never loses one more,
\* not even when another Primary is the reason for the rebalance.
DeficitNeverGrows ==
    [][\A p \in Ctrs :
          pc = "allocate" /\ CoreDifference(p, ctr[p], currIdleMask) <= 0
              => ctr'[p].alloc <= ctr[p].alloc]_vars

\* Once the exit signal was taken no step of another thread revokes it.
StopFinal == [][balancerControl = -1 => balancerControl' = -1]_vars

\* The exit signal ends the Balancer from wherever it is, also when the Monitor
\* is stopped and when the Listener died while updating PIDs.
StopEndsBalancer == (balancerControl = -1) ~> (pc = "done")

\* A grant handed to SchedAllSecondary is installed, unless the Balancer is
\* told to exit: provided that no Listener died, before or since, while updating
\* PIDs, and that the Monitor is not stopped for ever.
GrantTakesEffect ==
    updatingPids = 0 /\ [](lpc # "cancelled") /\ <>[](mpc # "asleep")
        => ((pc = "waitPids") ~> (applied = affinity \/ balancerControl = -1))

\* A decision that is on its way to the Monitor and lends more cores.
GrowsGrant ==
    /\ affinity \ applied # {}
    /\ needs_rebalance # 0 \/ pc \in {"waitPids", "pidsBusy", "publish"}

\* Each look at the mask is used for one grant at most: a mask that has not
\* changed is not evaluated again, a decision is neither sent nor installed
\* twice, and the Balancer looks again only when the last grant is settled, so
\* that no core is lent on a look older than its last use (main.c:282-291).
Lending == INSTANCE CoreLending WITH
    lent  <- applied,
    busy  <- currIdleMask,
    fresh <- pc = "allocate" \/ GrowsGrant

ImplementsLending == Lending!Spec

\* Balancer and Monitor keep to the channel between them: the list and what is
\* asked for do not change from the publication to the answer, not even when
\* the Balancer is told to exit meanwhile, and what is asked for is how the list
\* differs from the last one (balancer.c:115-145 and 31-49; monitor.c:304).
Channel == INSTANCE HandOver WITH
    list    <- affinity,
    chosen  <- IF pc \in {"waitPids", "pidsBusy", "publish"} THEN rebalanceAction ELSE 0,
    request <- needs_rebalance,
    reading <- mpc = "twopa"

ImplementsHandOver == Channel!Spec
=============================================================================
