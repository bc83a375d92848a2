-------------------------- MODULE TwoPhaseAffinity --------------------------
(***************************************************************************)
(* twopa (src/Monitor/monitor.c): how the Monitor's kernel thread installs *)
(* a grant on the tasks of the Secondary containers.  It refreshes a cache *)
(* of the PIDs of every container; then, container by container, it pins   *)
(* runnable tasks that share a core to single cores of a grown grant       *)
(* (phase 1) and gives every cached task the full mask (phase 2).          *)
(*                                                                         *)
(* Tasks fork, exit, block, wake up and migrate at any time, and the       *)
(* Listener registers containers at any time.  The grant itself does not   *)
(* change during a pass: the Balancer keeps to the channel HandOver, and   *)
(* so does this module.                                                    *)
(* Array indices start at 1 here.                                          *)
(***************************************************************************)
EXTENDS Integers, Sequences

CONSTANTS
    Tasks,          \* PIDs; none is used again while a cache holds it
    MaxContainers,  \* bound: Secondary containers on the machine
    Launcher,       \* Launcher[c]: the task whose PID is parent_pid
    Lendable,       \* cores a Primary may lend
    Dedicated,      \* secondary_cores_list
    MayExit,        \* tasks that may exit
    Lists,          \* affinity lists the Balancer may write
    MaxRequests,    \* bound: grants requested in a behaviour
    ListSize,       \* entries of affinity_list
    PidListSize     \* entries of a container's pidList

Containers == 1..MaxContainers
Online == Lendable \cup Dedicated
Nowhere == -1

\* A launcher belongs to one container; core 0 is what the entries of
\* affinity_list name that were never written.
ASSUME ContainerAssumption ==
    /\ MaxContainers \in Nat
    /\ Launcher \in [Containers -> Tasks]
    /\ \A c, d \in Containers : Launcher[c] = Launcher[d] => c = d
    /\ MayExit \subseteq Tasks

ASSUME CoreAssumption ==
    /\ Lendable \subseteq Nat
    /\ Dedicated \subseteq Nat /\ Dedicated # {}
    /\ Lists \subseteq Seq(Lendable)

ASSUME SizeAssumption ==
    /\ MaxRequests \in Nat
    /\ PidListSize \in Nat \ {0}
    /\ ListSize \in Nat
    /\ \A l \in Lists : Len(l) <= ListSize

\* A list is a walk over the cores of a mask, so that no core comes twice.
ASSUME ListAssumption ==
    \A l \in Lists : \A i, j \in DOMAIN l : l[i] = l[j] => i = j

VARIABLES
    \* the shared page
    nr_secondary_ctrs,
    pidList,            \* pidList[c][1..nr_pids] of container c
    affinity_list,      \* all entries, those behind num_affinity included
    num_affinity,
    needs_rebalance,
    \* the kernel: tasks of each container, in the order of their arrival
    group,
    allowed,            \* allowed[t]: the affinity mask of task t
    cpu,                \* cpu[t]: the core of a TASK_RUNNING task, or Nowhere
    \* the locals of twopa
    mpc,                \* "idle" outside a pass
    ctr,                \* curr_secondary_ctr
    pos,                \* curr_ctr_pid
    curr_cpu,
    has_task,           \* cores marked in has_task
    num_placements,
    \* bookkeeping of the specification
    requests,           \* grants requested so far
    present             \* tasks of registered containers as the pass began

grant == <<affinity_list, num_affinity, requests>>
kernel == <<group, allowed, cpu>>
placement == <<curr_cpu, has_task, num_placements>>
vars == <<nr_secondary_ctrs, pidList, needs_rebalance, grant, kernel, mpc, ctr,
          pos, placement, present>>
-----------------------------------------------------------------------------
Elements(s) == {s[i] : i \in DOMAIN s}

\* Existing tasks, registered or not.
Alive == UNION {Elements(group[c]) : c \in Containers}

Granted == {affinity_list[i] : i \in 1..num_affinity}

\* The mask of phase 2.
FullMask == Dedicated \cup Granted

\* set_cpus_allowed_ptr moves a running task at once, and refuses a mask
\* without an online core.
SetCpusAllowed(t, mask) ==
    IF mask \cap Online = {}
    THEN UNCHANGED <<allowed, cpu>>
    ELSE /\ allowed' = [allowed EXCEPT ![t] = mask]
         /\ IF cpu[t] # Nowhere /\ cpu[t] \notin mask
            THEN \E c \in mask \cap Online : cpu' = [cpu EXCEPT ![t] = c]
            ELSE UNCHANGED cpu

Init ==
    /\ nr_secondary_ctrs = 0
    /\ pidList = [c \in Containers |-> <<>>]
    /\ affinity_list = [i \in 1..ListSize |-> 0]
    /\ num_affinity = 0
    /\ needs_rebalance = 0
    /\ group = [c \in Containers |-> <<Launcher[c]>>]
    /\ allowed = [t \in Tasks |-> Online]
    /\ cpu = [t \in Tasks |-> Nowhere]
    /\ mpc = "idle"
    /\ ctr = 1
    /\ pos = 1
    /\ curr_cpu = 1
    /\ has_task = {}
    /\ num_placements = 0
    /\ requests = 0
    /\ present = {}
-----------------------------------------------------------------------------
(***************************************************************************)
(* The rest of the system.                                                 *)
(***************************************************************************)
\* The Balancer overwrites the head of the list and publishes the action.
Request(list) ==
    /\ needs_rebalance = 0
    /\ requests < MaxRequests
    /\ Len(list) = 0 \/ Elements(list) # Granted
    /\ affinity_list' = [i \in 1..ListSize |->
                           IF i <= Len(list) THEN list[i] ELSE affinity_list[i]]
    /\ num_affinity' = Len(list)
    /\ needs_rebalance' = IF Len(list) = 0 THEN 3
                          ELSE IF Len(list) < num_affinity THEN 2 ELSE 1
    /\ requests' = requests + 1
    /\ UNCHANGED <<nr_secondary_ctrs, pidList, kernel, mpc, ctr, pos, placement, present>>

\* The Listener finds the launcher of one more container.
Register ==
    /\ nr_secondary_ctrs < MaxContainers
    /\ nr_secondary_ctrs' = nr_secondary_ctrs + 1
    /\ UNCHANGED <<pidList, needs_rebalance, grant, kernel, mpc, ctr, pos,
                   placement, present>>

\* A child starts in the container, with the mask and on the core of its parent.
Fork(c, parent, child) ==
    /\ parent \in Elements(group[c])
    /\ cpu[parent] # Nowhere
    /\ child \notin Alive \cup present
    /\ \A d \in Containers : child # Launcher[d] /\ child \notin Elements(pidList[d])
    /\ group' = [group EXCEPT ![c] = Append(@, child)]
    /\ allowed' = [allowed EXCEPT ![child] = allowed[parent]]
    /\ cpu' = [cpu EXCEPT ![child] = cpu[parent]]
    /\ UNCHANGED <<nr_secondary_ctrs, pidList, needs_rebalance, grant, mpc, ctr,
                   pos, placement, present>>

\* The i-th task of the container ends.
Exit(c, i) ==
    /\ group[c][i] \in MayExit
    /\ group' = [group EXCEPT ![c] = SubSeq(@, 1, i - 1) \o SubSeq(@, i + 1, Len(@))]
    /\ cpu' = [cpu EXCEPT ![group[c][i]] = Nowhere]
    /\ UNCHANGED <<nr_secondary_ctrs, pidList, needs_rebalance, grant, allowed,
                   mpc, ctr, pos, placement, present>>

Block(t) ==
    /\ cpu[t] # Nowhere
    /\ cpu' = [cpu EXCEPT ![t] = Nowhere]
    /\ UNCHANGED <<nr_secondary_ctrs, pidList, needs_rebalance, grant, group, allowed,
                   mpc, ctr, pos, placement, present>>

\* A wake-up or a migration puts the task on a core of its mask.
Run(t, c) ==
    /\ t \in Alive
    /\ c \in allowed[t] \cap Online
    /\ cpu' = [cpu EXCEPT ![t] = c]
    /\ UNCHANGED <<nr_secondary_ctrs, pidList, needs_rebalance, grant, group, allowed,
                   mpc, ctr, pos, placement, present>>
-----------------------------------------------------------------------------
(***************************************************************************)
(* The pass.                                                               *)
(***************************************************************************)
\* Mutant: the request is answered before it is carried out.
BeginAnswering ==
    /\ mpc = "idle"
    /\ needs_rebalance > 0
    /\ mpc' = "refresh"
    /\ needs_rebalance' = 0
    /\ present' = UNION {Elements(group[c]) : c \in 1..nr_secondary_ctrs}
    /\ UNCHANGED <<nr_secondary_ctrs, pidList, grant, kernel, ctr, pos, placement>>

Begin ==
    /\ mpc = "idle"
    /\ needs_rebalance > 0
    /\ mpc' = "refresh"
    /\ present' = UNION {Elements(group[c]) : c \in 1..nr_secondary_ctrs}
    /\ UNCHANGED <<nr_secondary_ctrs, pidList, needs_rebalance, grant, kernel, ctr,
                   pos, placement>>

\* update_pid_cache stops when the list is full.
Cached(list) == SubSeq(list, 1, IF Len(list) > PidListSize THEN PidListSize ELSE Len(list))

\* The cache of a container is refreshed when the number of tasks differs.
NeverStale(c) == pidList[c] # <<>>
Fresh(c) == Len(pidList[c]) = Len(group[c])

\* Without its launcher a container is passed over, and so is the next one:
\* the loop variable is advanced twice.
StuckAtDeadLauncher == ctr
AfterDeadLauncher == ctr + 2

Refresh ==
    /\ mpc = "refresh"
    /\ ctr <= nr_secondary_ctrs
    /\ IF Launcher[ctr] \in Elements(group[ctr])
       THEN /\ ctr' = ctr + 1
            /\ pidList' = IF Fresh(ctr) THEN pidList
                          ELSE [pidList EXCEPT ![ctr] = Cached(group[ctr])]
       ELSE ctr' = AfterDeadLauncher /\ UNCHANGED pidList
    /\ UNCHANGED <<nr_secondary_ctrs, needs_rebalance, grant, kernel, mpc, pos,
                   placement, present>>

EndRefresh ==
    /\ mpc = "refresh"
    /\ ctr > nr_secondary_ctrs
    /\ mpc' = "container"
    /\ ctr' = 1
    /\ UNCHANGED <<nr_secondary_ctrs, pidList, needs_rebalance, grant, kernel, pos,
                   placement, present>>

\* Phase 1 is for grants that do not shrink.
PinsAlways == TRUE
Pins == needs_rebalance = 1

NextContainer ==
    /\ mpc = "container"
    /\ ctr <= nr_secondary_ctrs
    /\ mpc' = IF Pins THEN "phase1" ELSE "phase2"
    /\ UNCHANGED <<nr_secondary_ctrs, pidList, needs_rebalance, grant, kernel, ctr,
                   pos, placement, present>>

\* The locals start afresh in the next pass.
End ==
    /\ mpc = "container"
    /\ ctr > nr_secondary_ctrs
    /\ mpc' = "idle"
    /\ needs_rebalance' = 0
    /\ ctr' = 1
    /\ curr_cpu' = 1
    /\ has_task' = {}
    /\ num_placements' = 0
    /\ UNCHANGED <<nr_secondary_ctrs, pidList, grant, kernel, pos, present>>

InPhase(phase) == mpc = phase /\ pos <= Len(pidList[ctr])
Task == pidList[ctr][pos]

\* Tasks that are gone or not runnable are left alone.
PassOver ==
    /\ InPhase("phase1")
    /\ cpu[Task] = Nowhere
    /\ pos' = pos + 1
    /\ UNCHANGED <<nr_secondary_ctrs, pidList, needs_rebalance, grant, kernel, mpc,
                   ctr, placement, present>>

\* The first task met on a core stays there.
StayInPlace ==
    /\ InPhase("phase1")
    /\ cpu[Task] \notin has_task \cup {Nowhere}
    /\ has_task' = has_task \cup {cpu[Task]}
    /\ num_placements' = num_placements + 1
    /\ pos' = pos + 1
    /\ UNCHANGED <<nr_secondary_ctrs, pidList, needs_rebalance, grant, kernel, mpc,
                   ctr, curr_cpu, present>>

\* Behind the array lies num_affinity.
Entry(i) == IF i <= ListSize THEN affinity_list[i] ELSE num_affinity

\* The entry for the next pinned task: past the task's own core, and round to
\* the first one after exactly num_affinity entries.
NextEntry ==
    LET i == IF Entry(curr_cpu) = cpu[Task] THEN curr_cpu + 1 ELSE curr_cpu
    IN  IF i = num_affinity + 1 THEN 1 ELSE i

\* Any further task on that core is pinned to one entry of the list.  When as
\* many tasks have been placed as there are entries the phase ends.
Pin ==
    /\ InPhase("phase1")
    /\ cpu[Task] \in has_task
    /\ SetCpusAllowed(Task, {Entry(NextEntry)})
    /\ has_task' = has_task \cup {Entry(NextEntry)}
    /\ num_placements' = num_placements + 1
    /\ IF num_placements + 1 = num_affinity
       THEN mpc' = "phase2" /\ pos' = 1 /\ curr_cpu' = NextEntry
       ELSE mpc' = mpc /\ pos' = pos + 1 /\ curr_cpu' = NextEntry + 1
    /\ UNCHANGED <<nr_secondary_ctrs, pidList, needs_rebalance, grant, group,
                   ctr, present>>

EndPhase1 ==
    /\ mpc = "phase1"
    /\ pos > Len(pidList[ctr])
    /\ mpc' = "phase2"
    /\ pos' = 1
    /\ UNCHANGED <<nr_secondary_ctrs, pidList, needs_rebalance, grant, kernel, ctr,
                   placement, present>>

\* The full mask, for a task that still exists, runnable or not.
WidensRunning(t) == cpu[t] # Nowhere
Widens(t) == t \in Alive

Widen ==
    /\ InPhase("phase2")
    /\ IF Widens(Task) THEN SetCpusAllowed(Task, FullMask)
                       ELSE UNCHANGED <<allowed, cpu>>
    /\ pos' = pos + 1
    /\ UNCHANGED <<nr_secondary_ctrs, pidList, needs_rebalance, grant, group,
                   mpc, ctr, placement, present>>

\* Phase 2 uses curr_cpu as the loop variable over the list and leaves it behind
\* its end for the next container.
EndPhase2 ==
    /\ mpc = "phase2"
    /\ pos > Len(pidList[ctr])
    /\ mpc' = "container"
    /\ ctr' = ctr + 1
    /\ pos' = 1
    /\ curr_cpu' = num_affinity + 1
    /\ UNCHANGED <<nr_secondary_ctrs, pidList, needs_rebalance, grant, kernel,
                   has_task, num_placements, present>>

Twopa == \/ Begin \/ Refresh \/ EndRefresh \/ NextContainer \/ PassOver \/ StayInPlace
         \/ Pin \/ EndPhase1 \/ Widen \/ EndPhase2 \/ End

Environment ==
    \/ \E list \in Lists : Request(list)
    \/ Register
    \/ \E c \in Containers, parent, child \in Tasks : Fork(c, parent, child)
    \/ \E c \in Containers : \E i \in DOMAIN group[c] : Exit(c, i)
    \/ \E t \in Tasks : Block(t)
    \/ \E t \in Tasks, c \in Online : Run(t, c)

Next == Twopa \/ Environment

Spec == Init /\ [][Next]_vars

\* The kernel thread does not block within a pass.
FairSpec == Spec /\ WF_vars(Twopa)
-----------------------------------------------------------------------------
(***************************************************************************)
(* Properties.                                                             *)
(***************************************************************************)
TypeOK ==
    /\ nr_secondary_ctrs \in 0..MaxContainers
    /\ pidList \in [Containers -> Seq(Tasks)]
    /\ \A c \in Containers : Len(pidList[c]) <= PidListSize
    /\ affinity_list \in [1..ListSize -> Nat]
    /\ num_affinity \in 0..ListSize
    /\ needs_rebalance \in 0..3
    /\ group \in [Containers -> Seq(Tasks)]
    /\ allowed \in [Tasks -> SUBSET Nat]
    /\ cpu \in [Tasks -> Nat \cup {Nowhere}]
    /\ \A t \in Tasks : cpu[t] # Nowhere => t \in Alive
    /\ mpc \in {"idle", "refresh", "container", "phase1", "phase2"}
    /\ ctr \in Nat \ {0}
    /\ pos \in Nat \ {0}
    /\ curr_cpu \in Nat \ {0}
    /\ has_task \subseteq Nat
    /\ num_placements \in Nat
    /\ requests \in 0..MaxRequests
    /\ present \subseteq Tasks

Answered == mpc = "idle" /\ needs_rebalance = 0

\* In force on a task, unless it is gone.
Confined(t) == t \in Alive => allowed[t] = FullMask

\* A request is pending during a pass, and one for more cores in phase 1; a
\* pass starts with the first container; the phases work on registered containers,
\* from their first PID.
Pending ==
    /\ mpc # "idle" => needs_rebalance > 0
    /\ mpc = "idle" => ctr = 1
    /\ mpc = "phase1" => needs_rebalance = 1
    /\ mpc \in {"phase1", "phase2"} => ctr <= nr_secondary_ctrs
    /\ mpc \notin {"phase1", "phase2"} => pos = 1

\* Only registered containers have a cache.
RegisteredCached == \A c \in Containers : c > nr_secondary_ctrs => pidList[c] = <<>>

\* No task, nor a PID in a cache, is that of two containers.
TasksApart ==
    \A c, d \in Containers : c # d =>
        (Elements(group[c]) \cup Elements(pidList[c])) \cap
        (Elements(group[d]) \cup Elements(pidList[d])) = {}

\* The cached tasks of the containers behind curr_secondary_ctr are confined,
BehindConfined ==
    mpc \in {"container", "phase1", "phase2"} =>
        \A c \in Containers : c < ctr => \A t \in Elements(pidList[c]) : Confined(t)

\* and, in phase 2, those of the current container before curr_ctr_pid.
BeforeConfined ==
    mpc = "phase2" =>
        \A i \in DOMAIN pidList[ctr] : i < pos => Confined(pidList[ctr][i])

\* What twopa keeps while tasks come and go: with TypeOK and CachedConfined an
\* inductive invariant.
PassInv == Pending /\ RegisteredCached /\ TasksApart /\ BehindConfined /\ BeforeConfined

\* An answered request is in force on every task of the cache that still exists:
\* no pin of phase 1 and no older mask survives the pass.
CachedConfined ==
    Answered => \A c \in Containers : \A t \in Elements(pidList[c]) : Confined(t)

\* An answered request is in force on every Secondary task that existed when the
\* Monitor turned to it ("Set full affinity mask on all Secondary PIDs").
PresentConfined ==
    Answered => \A t \in present : Confined(t)

\* A request that takes cores back gives no task another mask than the new one:
\* nobody is pinned to a core of the old grant on the way.
RevokeGoesStraight ==
    [][mpc # "idle" /\ needs_rebalance > 1 =>
          \A t \in Alive : allowed'[t] \in {allowed[t], FullMask}]_vars

\* Every request is answered, whatever the tasks do meanwhile.
RequestAnswered == (needs_rebalance > 0) ~> (needs_rebalance = 0)

\* The Monitor keeps to the channel between it and the Balancer: it reads the list
\* only on request, and answers once the whole pass is over (monitor.c:304-308).
Channel == INSTANCE HandOver WITH
    Cores   <- Lendable,
    list    <- Granted,
    chosen  <- 0,
    request <- needs_rebalance,
    reading <- mpc # "idle"

ImplementsHandOver == Channel!Spec
=============================================================================
