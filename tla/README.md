# HarvestContainers in TLA+

A specification of the core of HarvestContainers (`src/Balancer`, `src/Monitor`,
`src/Listener`): TLA+ modules translated from the source, TLC configurations that
check them on small instances, and theorems checked by TLAPS. Paths below are
relative to `src/`.

## 1. The system

HarvestContainers lends the idle cores of latency-critical *Primary* containers to
batch *Secondary* containers. Three parts share one page of memory
(`struct idleStats`, `Balancer/shmem.h:23`), without any lock:

| Part | State it keeps | Operations |
|---|---|---|
| **Monitor**, a kernel thread (`Monitor/monitor.c`) and its procfs files (`Monitor/procfs.h`) | `runnable`, `currMask`, the log, cached PIDs | `check_idle_cpus`: sleep and wake up, scan the cores into `mask`, answer `update_irq`, answer `needs_rebalance` by `twopa` (two phase affinity of all Secondary tasks), log, yield, end; files `control`, `cpulist`, `bindcpu`, `log`, `logcontrol`, `irqlist`, `irqaffinity`, `irqcontrol` |
| **Balancer**, a process (`Balancer/main.c`, `balancer.c`, `logger.c`) | one `balancer_info` per Primary (observed/adjusted/harvested, target, spare and allocated cores), the affinity masks, three buffers of logs | `pollIdleCPU`: wait for activation, poll `mask`, evaluate every Primary, compute the grant, hand it to the Monitor (`SchedAllSecondary`), stop on SIGUSR1; write a log at exit |
| **Listener**, a process (`Listener/listener.cpp`, `getpids.c`) | `listenerControl`, the connection, what was read from it | receive a message until a timeout; register a Primary; for a Secondary pod find its launcher PIDs and activate the Balancer; acknowledge; SIGUSR1 cancels the thread |

Interaction through the shared page:

    Listener --- primary_ctrs, nr_primary_ctrs ---------------> Balancer
    Listener --- updatingPids (1 while it reads a container) -> Balancer spins
    Listener --- balancerControl: 0 -> 1 ---------------------> Balancer starts
    SIGUSR1  --- balancerControl := -1 -----------------------> Balancer stops
    Monitor  --- mask ----------------------------------------> Balancer polls
    Balancer --- affinity_list, num_affinity, then
                 needs_rebalance := 1 | 2 | 3 ----------------> Monitor, twopa
    Monitor  --- needs_rebalance := 0 ------------------------> Balancer spins
    Listener --- secondary_ctrs, nr_secondary_ctrs -----------> Monitor, twopa

What is hard: every hand-over is a busy wait on a plain word; words are tested and
then written by different processes (`balancerControl`, `updatingPids`); lists are
overwritten entry by entry under their readers (`cpuList`, `irqList`,
`affinity_list`, the log, the tables of containers); the grant
is computed from a mask that is already old; a process can be stopped, or cancelled,
at any place while the page keeps what it wrote; the page is not initialised
completely; the controller keeps state from one evaluation to the next and several
Primaries share one rebalance. `PROJECT.json` lists these hazards at their lines.

What makes each part correct:

* Balancer controller: targets stay within `LOW_TIC` and the static target, a grant
  leaves a Primary its target, a Primary without surplus loses no core.
* Balancer grants: no busy core is taken; a look at the mask serves for one grant; the count of allocated cores is exact;
  decisions are taken from grants in force.
* Hand-over: the list is not rewritten while it is read; a request is answered once;
  an exit signal is never lost and ends every wait.
* Monitor, tasks: every Secondary task ends up on the granted and dedicated cores, no
  runnable task is left behind.
* Monitor, thread: a started thread scans, a stopped one stops, and ends when the module
  is removed; a published mask is that of a whole scan of the list; the log
  tells every mask, once and in order.
* Monitor, interrupts: they go to dedicated and lent cores only, and all of them go.
* Listener: tables are only read complete; an acknowledged Primary is registered; no
  client waits for ever; a failed pod does not start the Balancer.
* Logger: the report is that of the run, and its logs can be joined.

## 2. Modules

| Module | Role |
|---|---|
| `Balancer.tla` | the Balancer, with the Monitor and the Listener by the steps that touch the words they share with it |
| `CoreLending.tla` | abstract specification: a lender who looks at busy cores and changes the set of cores lent |
| `HandOver.tla` | abstract specification: the list and the one-place request channel between Balancer and Monitor |
| `TwoPhaseAffinity.tla` | `twopa`: how the Monitor installs a grant on the Secondary tasks |
| `MonitorThread.tla` | the kernel thread: start, sleep, scan, publication, yielding, end, against its control files and `rmmod` |
| `MonitorLog.tla` | the log of idle masks, its level and its reader |
| `Interrupts.tla` | the files `irqlist` and `irqaffinity`, against a grant that is being rewritten |
| `Listener.tla` | clients, the connection thread, the tables, PID discovery, cancellation, death and restart |
| `BalancerLog.tla` | the logs the Balancer keeps and the report it writes at its end |
| `MCBalancer`, `MCTwoPhaseAffinity`, `MCMonitorThread`, `MCMonitorLog`, `MCInterrupts`, `MCListener`, `MCBalancerLog` | small pools, lists, messages and machines for TLC; one for each module |
| `BalancerProofs`, `TwoPhaseProofs`, `MonitorThreadProofs`, `MonitorLogProofs`, `InterruptsProofs`, `ListenerProofs`, `BalancerLogProofs` | theorems (section 4) |
| `SumProofs` | sums over finite sets, for `BalancerLogProofs` |

`Balancer` composes the three parts at the words they share, each by its steps that
touch them; the other modules look at one part in detail and leave the rest of the
system open: any grant, any mask, any command may come at any moment.

### Balancer.tla

*State.* The shared words keep their names (`balancerControl`, `updatingPids`,
`needs_rebalance`, `nr_primary_ctrs`); `affinity` is the set of cores in
`affinity_list[0..num_affinity-1]`. `ctr[p]` has the fields of `balancer_info` and
`primary_ctr_info` that control depends on. `pc`, `mpc` and `lpc` say where the
Balancer, the Monitor's thread and the Listener's thread are. `applied` is the set of
lent cores of the mask the Monitor installed last; before the first installation the
Secondary tasks are unconstrained, so it is all cores.

*Actions and code.*

| `pc` | code | actions |
|---|---|---|
| `paused` | `main.c:233` | `Unpause` |
| `initial`, `allocate` | `main.c:259`, `:301`, `balancer.c:115-145` | `Allocate` |
| `poll` | `main.c:270-298` | `Poll`, `Exit` |
| `waitPids`, `pidsBusy` | `balancer.c:33-36` | `PidsReady`, `PidsBusy`, `SpinAgain`, `Abort` |
| `publish` | `balancer.c:37` | `Publish` |
| `waitMonitor`, `monitorBusy` | `balancer.c:38-41` | `MonitorAnswered`, `MonitorBusy`, `SpinAgain`, `Abort` |

`EndIteration` (`main.c:307-309`) is part of every action that leaves
`SchedAllSecondary`. Each read of a shared word in a spin is a step of its own, so that
the other processes can run between the test of `updatingPids` and the publication,
and between a test of the spin and the test for exit. `MonitorBegin` and `MonitorEnd`
bracket `twopa`; `MonitorSleep` and `MonitorWake` are the operator's writes to
`/proc/idlecpu/control`. `BeginScan` .. `EndScan` is `get_container_tasks`,
`FinishPod` and `Activate` are the test and the write of `listener.cpp:135-136`, and
`Cancel` is SIGUSR1 to the Listener, which takes effect at blocking calls. `Stop` is
SIGUSR1 to the Balancer between any two steps.

*Abstractions.* Masks are sets of cores. `Poll` reads an arbitrary mask: nothing is
assumed of the load. A sample's outcome (`Samples`) stands for the deficit rate
compared with the threshold and with the band of `within_error`; any sequence of
outcomes is possible. An evaluation of all Primaries is one step: it reads one local
copy of the mask. The choice of cores is exact, including the order of the walk over
`cpuList`. The block under `BALANCE_INTERRUPTS`, a macro that no build defines, is
left out. A wake-up of the Monitor's thread is not lost in this model; how it can be is
`MonitorThread.tla`'s subject.

*Initial values.* `check_idle_cpus` clears `needs_rebalance`, `num_affinity` and the
counters, but not `balancerControl` and `updatingPids`, and the page comes from
`kmalloc`: `BootControl` and `BootUpdating` are the values they may have. A previous
Balancer leaves -1 in `balancerControl`, a cancelled Listener 1 in `updatingPids`.

*Properties.*

| Property | What it says |
|---|---|
| `TargetBounds` | the adaptive target stays between `LOW_TIC` and the static target |
| `Handshake` | the protocol between the processes; inductive |
| `NoBusyCoreTaken` | a core newly lent was idle in the mask of the decision |
| `SettledGrant` | every decision is taken from a grant the Monitor has installed |
| `Accounting` | `CoresAllocatedToSecondary` counts the Primary's cores in the mask |
| `TargetReserved` | a grant leaves each Primary its target: true for one that is alone, false for two, run `two_primaries_target` |
| `FreshTargetReserved` | a rebalance leaves its target to each Primary that the evaluation did not skip, whoever asked for it |
| `DeficitNeverGrows` | a Primary without surplus loses no core in a rebalance |
| `StopFinal`, `StopEndsBalancer` | an exit signal is not revoked and ends the Balancer |
| `GrantTakesEffect` | a grant is installed, unless the Balancer is stopped |
| `ImplementsLending` | the refinement of `CoreLending`: no look at the mask serves for two grants, and what is lent was idle in it |
| `ImplementsHandOver` | the refinement of `HandOver`: the list and the request stay as they are until they are answered |

### CoreLending.tla

The promise about cores without processes: `Look` at the busy cores, `Decline` to act,
or `Relend`: take cores back, or lend more cores on the strength of a look not used
yet, none of which it showed busy. Only a look that shows something new is fresh.
`Balancer` implements it with `lent` = `applied`, `busy` = `currIdleMask`, and `fresh` = a
decision is being taken, or one that lends more cores is on its way to the Monitor
(`GrowsGrant`). What this adds to `NoBusyCoreTaken` is the order: a look is used once, and
only for what it was taken for. In the code it is the comparison with the mask of the last
look (`main.c:282-291`) and the wait for the answer that see to it; without the comparison
an unchanged mask would be evaluated, and lent on, again and again.

### HandOver.tla

The promise about the words of the hand-over. `Choose` a list, which says by its size
whether it grows, shrinks or suspends; `Publish` or, on an exit signal, `Withdraw` it;
`Read` and `Answer`. The list does not change between its publication and the answer, a
request is neither dropped nor replaced, and is read once before it is answered. `Offer`
is a choice published in the same step. Two modules implement it:

| `HandOver` | `Balancer` | `TwoPhaseAffinity` |
|---|---|---|
| `list` | `affinity` | the cores in `affinity_list[1..num_affinity]` |
| `chosen` | `rebalanceAction` until it is published | nothing: `Request` is an `Offer` |
| `request` | `needs_rebalance` | `needs_rebalance` |
| `reading` | `mpc = "twopa"` | `mpc # "idle"` |

So it joins them. `Balancer` has `twopa` as a begin and an end and shows that the lists
it hands over obey the channel; `TwoPhaseAffinity` has every step of `twopa`, and what
its environment does between them is what the channel allows. The kind of a request says
how the new list compares with the one before, on which phase 1 depends.

### TwoPhaseAffinity.tla

*State.* The words of the shared page that `twopa` reads (`affinity_list` with all its
entries, `num_affinity`, `needs_rebalance`, `nr_secondary_ctrs`, and `pidList[c]` for
`secondary_ctrs[c].pidList[0..nr_pids-1]`), its locals (`ctr`, `pos`, `curr_cpu`,
`has_task`, `num_placements`, counted from 1), and the kernel's view of the tasks:
`group[c]` is the cgroup of container `c` in the order of its task list, `allowed[t]` the
affinity mask, `cpu[t]` the core of a `TASK_RUNNING` task. `present` remembers the tasks
of the registered containers as the pass began.

*Actions and code.*

| `mpc` | code | actions |
|---|---|---|
| `idle` | `monitor.c:304` | `Begin` |
| `refresh` | `monitor.c:114-141`, with `update_pid_cache` | `Refresh`, `EndRefresh` |
| `container` | `monitor.c:143-150`, `:240`, `:308` | `NextContainer`, `End` |
| `phase1` | `monitor.c:151-207` | `PassOver`, `StayInPlace`, `Pin`, `EndPhase1` |
| `phase2` | `monitor.c:209-239` | `Widen`, `EndPhase2` |

One step handles one container of the refresh, or one task of a phase: the kernel thread
can be preempted, and other cores run, between any two. The environment may act between
all of them: tasks `Fork`, `Exit`, `Block` and `Run` (wake up, migrate), and the Listener
registers containers (`Register`). `Request` is the Balancer's hand-over; it never comes
during a pass, nor before the last was answered, which is what `Balancer.tla` promises by
implementing `HandOver`.

*Abstractions.* The kernel side is external: `fork` inherits the mask,
`set_cpus_allowed_ptr` moves a running task and refuses a mask without an online core,
a task is gone for `find_vpid` when it left its group. A PID is not used again while a
cache holds it. The reads of one task's state and core in an iteration are one step.

*Properties.*

| Property | What it says |
|---|---|
| `CachedConfined` | an answered request is in force on every cached task that still exists: no pin and no older mask is left |
| `PresentConfined` | the same for every task that existed when the pass began |
| `PassInv` | a pass runs for a pending request, containers share no task, and what the pass has confined stays so; inductive |
| `RevokeGoesStraight` | a request that takes cores back changes a mask to the new one only |
| `RequestAnswered` | every request is answered, whatever the tasks do |
| `ImplementsHandOver` | the refinement of `HandOver`: a pass begins for a request and its end answers it, the list untouched |

### MonitorThread.tla

*State.* `runnable`, what was last written to `control`; `cpuList` as the array it is,
with `NUMCPUS`, and the write of a new list in progress (`writing`, `written`); the
locals of the scan (`curr_cpu`, `idleCount`, `currMask`); the words it publishes
(`page`); `samples`; `shouldStop` of `kthread_stop`; whether the module's memory and
files exist (`module`). `inForce`, `observed`, `is_idle`, `seen` and `rewritten` are
history, except that `observed`/`is_idle` carry one observation from its read to its use.

| `pc` | code | actions |
|---|---|---|
| `new`, `init` | `monitor.c:245-275` | `WakeUp`, `Start`: the first run clears `runnable` and the page |
| `top` | `monitor.c:277-280` | `Top`: `kthread_should_stop` |
| `test`, `prepare`, `asleep` | `monitor.c:281-283` | `Test`, `Sleep` |
| `scan`, `record` | `monitor.c:286-296` | `Observe`, `Record`, one core each; the entry of `cpuList` is read again for the bit |
| `scan` at its end | `monitor.c:297-298` | `Publish` |
| `serve`, `serving` | `monitor.c:304-310` | `Serve`: nothing, or a request and the `schedule` that follows |
| `count`, `yielding` | `monitor.c:312-316` | `Count`, `Yield` |
| operator | `procfs.h:35`, `:152`, `:179`; `monitor.c:461-474` | `WriteControl`, `WriteBindCpu`, `WriteCpuList` (`BeginList`, `StoreEntry`, `EndList`), `Unload` (`StopThread`, `FreeMemory`, `RemoveFiles`) |

*Abstractions.* `wake_up_process` and `schedule` are external: a wake-up of a thread that
is not off the CPU does nothing; one that comes after `set_current_state` is not lost.
Between `put_task_struct` and the removal of the files (`monitor.c:464-467`) `control` and
`bindcpu` still wake a task that was released: `pc` is then `damaged`, for what is written
to may be another's memory. The lists written to `cpulist` are well-formed: the result of
`sscanf` is not tested (`procfs.h:199`), and a token that is no number would leave the old
entry in place and be counted.
A core may be idle or not at every look. `bindcpu` moves the thread, which nothing in the
module can tell, and wakes it, which matters.

*Properties.*

| Property | What it says |
|---|---|
| `OnlyNamedCores` | a scan during a rewrite sees cores of the old and the new list only |
| `ScanComplete` | what is published is the outcome of one whole scan, and `numIdle` agrees with it |
| `StopCommandStops` | a stop command stops the polling, unless a start command overtakes it |
| `StopIsSeen` | `rmmod` ends a thread that still has to pass the top of its loop |
| `YieldsAgain` | the polling thread gives its core up again and again |
| `StartCommandStarts` | a start command starts the polling: false, run `lost_start` |

### MonitorLog.tla

*State.* `events`, `numentries`, `entrypos`, `LOG_LEVEL`, the masks `currMask` and
`lastMask` of the thread; `tpc` is the thread's place in `monitor.c:318-334`, `rpc[r]` a
reader's place in `log_reader` (`procfs.h:282-314`), `line[r]` what it has formatted,
`delivered` what readers have got. The level is read twice, the entry is stored before
it is counted, the reader tests, formats, copies and advances: each of these is a step,
and the level may change between any two.

*Abstractions.* An entry is its mask; the time stamps and the residency columns are left
out. A line is the part of the mask up to the last listed core, which the reader takes
for the largest. `copy_to_user` may fail.

*Properties.* `ReadInOrder`: entries are received once each and in order, also when a
copy fails. `ReadsWritten`: nothing incomplete is read and nothing is written behind the
array. `LogFollowsMask`: the last entry is the mask the thread saw last, across changes
of the level, and level 1 repeats none.

### Interrupts.tla

*State.* Two arrays that others overwrite entry by entry and whose length is stored
last, `irqList` (`irqlist_writer`, `procfs.h:316-343`) and `affinity_list` (the Balancer,
`balancer.c:115-144`), each with the write in progress; and `set_irq_affinity`
(`monitor.c:19-53`), which walks both after `irqaffinity_writer` (`procfs.h:121-146`)
has stored the dedicated cores: `TestSpare`, `AddSpare`, `TestIrqs`, `MoveIrq`, each
test of a length and each use of an entry a step. `affinity` is the kernel's view;
`irq_set_affinity` may refuse, and its result is ignored. `lent`, `named`, `rewritten`
and `refused` are history of one write.

*Abstractions.* One process writes each file at a time; the array of `irqaffinity_writer`
is read by nobody else, so that its entries are one step. The lists are well-formed, as in
`MonitorThread` (`procfs.h:141`, `:336`). Masks are sets.

*Properties.* `OnlyLentCores`: interrupts go to dedicated cores and to cores lent at some
moment of the write, never to a stale entry. `OnlyNamedIrqs`: no stale entry of `irqList`
is moved. `AllIrqsMoved`: an undisturbed write moves every IRQ that is not refused.

### Listener.tla

*State.* Of the clients: what each will send, its connection, how much it has sent, its
answer. Of the thread: where it is (`lpc`), the client it serves, what `read_payload` has
received, the containers of the pod still to scan. Of the page: `balancerControl`,
`updatingPids`, both tables with their counts. `received` and `interrupted` are history.

| `lpc` | code | actions |
|---|---|---|
| `accept` | `listener.cpp:106-114` | `Accept` |
| `read` | `listener.cpp:49-66`, `:117-123` | `ReadMore`, `ReadTimeout` |
| `parse` | `listener.cpp:126-146` | `Parse`: not JSON, a field missing, a Primary, a Secondary, something else |
| `list`, `numbers`, `publish` | `listener.cpp:31-46`, `:149-157` | `ParseCpuList`, `ParseNumbers` (an exception ends the process), `CountPrimary` |
| `pod`, `tasks` | `getpids.c:21-56` | `OpenTasks`, `SearchTasks` |
| `launcher`, `count`, `clear` | `getpids.c:56-67` | `StoreLauncher`, `CountLauncher`, `ClearFlag` |
| `pod` at its end, `activate` | `listener.cpp:132-136` | `EndPod`, `Activate` |
| `reply` | `listener.cpp:160-180` | `Reply` |
| any blocking call | `listener.cpp:69-76` | `Signal`: the thread is cancelled and the process ends |
| `exited` | `listener.cpp:186-222` | `Restart`; the page is mapped as it was left |

*Abstractions.* A message has a kind, a form (good, not JSON, a field missing, a number
that does not parse) and its fields. A proper part of a message does not parse. The
receive timeout may strike whenever no more has come. PIDs are those of the launchers.
The client is that of `TestFramework/bin`: one message, then it waits for the answer;
one that was turned away may try again.

*Properties.*

| Property | What it says |
|---|---|
| `TablesComplete` | every counted entry is one whole, good message, or a launcher, whatever ended earlier registrations half-way |
| `AckedIsRegistered` | an acknowledged Primary is in the table, and nobody is in it more often than his messages arrived whole |
| `FlagCleared` | every way out of a scan but a cancellation clears `updatingPids` |
| `TablesUnderFlag` | the Secondary tables change only while the flag is up |
| `ClientsAnswered` | no queued client waits for ever |

### BalancerLog.tla

*State.* The buffers `idleMaskChanges`, `events` and the count of dynamic events;
`missing`, the buffer `malloc` refused; the clock; `coreDifference` and `eventStart` of
an iteration; `report`, what the files say. `shares`, `observed` and `served` are history:
what the report should say.

*Actions and code.* `Poll`, `Evaluate`, `Rebalance`, `EndIteration`, `Exit` are an
iteration of `pollIdleCPU` (`main.c:270-309`) as far as it logs; `WriteEvents`,
`CalculateExecTime`, `WriteStats`, `WriteDynamic` are `writeLog` (`logger.c:133-281`) up
to each file it writes. `Tick` moves the clock; a `timespec` has seconds and nanoseconds,
and differences are taken field by field modulo `Wrap`, as the code does.

*Abstractions.* What a Primary contributes to `coreDifference` is open
(`Shares`); the Balancer's choices are in `Balancer.tla`. The walk behind the end of a
buffer, the division by zero and the null pointer end in the state `killed`. The tests
`eventCount > MAX_EVENTS` and the like let one entry be written behind the buffer; it is
taken to be stored, as it is where `malloc` rounds up.

*Properties.* `UtilizationExact`: `util.log` gives the times between the first and the
last change in which each core was seen active and idle. `StatisticsExact`: counts and
times of the rebalances, while the log was not full. `EventsMatchChanges`: each logged
rebalance has a recorded change that it answers, which is also what keeps the loop of
`calculateExecTime` in bounds.

## 3. Runs

| Run | Instance | Distinct states | Result |
|---|---|---|---|
| `lending` | one Primary, 3 cores, target 1..2, one container scan, exit signal, stopped Monitor and cancelled Listener allowed, with fairness | 107,260 | `Handshake`, `NoBusyCoreTaken`, `SettledGrant`, `Accounting`, `TargetBounds`, `StopFinal`, both refinements, `StopEndsBalancer`, `GrantTakesEffect` hold |
| `two_primaries` | two Primaries, 2 cores each, target 0..1 | 89,991 | `DeficitNeverGrows`, `FreshTargetReserved` hold |
| `two_primaries_target` | the same | | `TargetReserved` violated |
| `stop_while_paused` | one Primary, 2 cores, with fairness; the signal may arrive while the Balancer is paused | | `StopEndsBalancer` violated |
| `confining` | 2 containers, 3 tasks, 2 lendable cores, 2 requests, no exits, lists not full | 969,278 | `PassInv`, `PresentConfined`, `ImplementsHandOver` hold |
| `cached` | one container, 3 tasks that may all exit, lists of 2 PIDs, 2 requests, with fairness | 657,897 | `CachedConfined`, `RevokeGoesStraight`, `RequestAnswered` hold |
| `polling` | 3 cores, a list of 1 and one of 2 cores, any commands and `rmmod`, with fairness | 132,945 | all properties of `MonitorThread` but the next hold |
| `lost_start` | 3 cores, one list, with fairness | | `StartCommandStarts` violated |
| `monitor_log` | a log of 3 entries, 3 bits of which 2 are listed, every level, one reader | 545,211 | `ReadInOrder`, `ReadsWritten`, `LogFollowsMask` hold |
| `interrupts` | 2 IRQs in two lists, one dedicated and three lent cores, grants of 0, 1 and 2 cores | 1.1 million | `OnlyLentCores`, `OnlyNamedIrqs`, `AllIrqsMoved` hold |
| `listener` | 2 clients with any of 5 messages, 3 connections, a pod of 2 containers, cancellation and restart, with fairness | 390,962 | all properties of `Listener` hold |
| `balancer_log` | two Primaries of a core each, buffers of one entry, 3 changes, 3 ticks of two a second, arithmetic modulo 8 | 7.7 million | all properties of `BalancerLog` hold |

`TypeOK` of each module is proved (section 4) for every instance and so is no property
of a run.

Bounds. Three cores are the smallest pool in which a target can be raised while
Secondary holds some cores and lacks others that are busy; two cores suffice for the
hand-over, which does not look at the cores. Two Primaries suffice for the sharing of
a rebalance: each looks only at its own record. `SurplusEvtsThresh` (10 in the code)
and `RampUp` (5 + 5) are 0 to 2: larger values repeat the same step.
`MaxContainers` bounds the scans of the Listener in a behaviour, `MaxPrimaries` its
registrations. No other quantity of `Balancer` needs a bound.

In `TwoPhaseAffinity`, `MaxRequests` bounds the grants of a behaviour; two show what a
pass leaves to the next (caches, masks, entries behind `num_affinity`). Two lendable
cores distinguish grown, shrunk, exchanged and empty grants. Three tasks are enough to
have two on one core and one to come or to go. The PID lists have 2 entries instead of
128, so that they overflow; `ListSize` is larger than any list.

In `MonitorThread`, a list that grows and one that shrinks, with the common core in
another place, leave every kind of half-written array; `SampleLimit` is 1 instead of
100,000: the counter stops behind it either way. In `MonitorLog`, three entries let the reader
be two behind and the log fill up; core 2 is a core no longer listed. In `Interrupts`,
lists of different length let an entry go stale. In `Listener`, `MaxTries` bounds the
connections: with three, one client can be turned away, or lose the process, and come
again while the other is served; two containers let a scan fail, or be cancelled, between
them; `MaxContainers` is larger than what three messages register, so that the run
satisfies the hypotheses of `TablesHaveRoom` (section 4). In `BalancerLog`,
`MaxChanges` and `MaxTime` bound changes and ticks, `MAX_EVENTS` = 1 lets the buffer be
full and overrun, and a second of two ticks lets intervals cross it.

Deadlock is checked except where the system really may stop: in `cached` all Secondary
tasks may exit and both requests be answered, in `polling` and `lost_start` the module may
be unloaded, in `balancer_log` the Balancer ends. Elsewhere, a finished Balancer does not
stop the system: the Listener goes on or the Monitor goes to sleep and wakes up; with
neither, further exit signals change nothing.

Fairness (`FairSpec`). The Balancer and the kernel thread are loops that never block,
so a step that stays possible is taken: weak fairness of `BalancerProgress` and
`MonitorStep` in `Balancer`, of `Twopa` in `TwoPhaseAffinity`, of `ThreadStep` in
`MonitorThread`, none of whose steps is possible while the thread sleeps. A write to
`cpulist` that was begun is finished, a system call that does not block. The Listener's
steps are reads of `/sys` and `/proc`, which return, and waits of at most a second: weak
fairness of `ListenerStep`. No fairness is given to masks that change (`Poll`), messages,
clients, signals, commands, registrations or tasks. `GrantTakesEffect` is conditional: nobody leaves
`updatingPids` at 1, and the Monitor is not stopped for ever. `ClientsAnswered` supposes
that a client ends its message or falls silent, for the timeout starts anew with every
read.

### What the violated runs show

* `two_primaries_target`. `doHarvest` skips a Primary whose Secondary has
  `maxSecondaryCores` (`main.c:59-63`, "we've already allocated everything possible to
  Secondary") and returns before line 69, so that `SpareCoresToAllocate` is still that of
  an evaluation with a lower target, of which not all could be granted then. When another
  Primary asks for a rebalance, `AllocateCoresToSecondary` grants this number, and the
  first one is left with fewer cores than its target. In the trace, with `LOW_TIC` 0 and
  pools of two, the target of one is raised from 0 to 1 while one of its cores is lent; the
  other asks, and both are lent. The same happens with `LOW_TIC` 1 and pools of four and
  two cores. `Docs/04_setup_exp.md:11` says that several Primaries are supported. One
  Primary never gets there, for nothing else asks for its rebalance; and with several,
  `FreshTargetReserved` is what remains for those that were not skipped.
* `stop_while_paused`. The Listener finds `balancerControl = 0`, SIGUSR1 stores -1, the
  Listener stores 1 (`listener.cpp:135-136`): the signal is lost and the Balancer runs
  on, against `main.c:536`, "Trigger cleanup/exit routine on signal". Once the Balancer
  is active the Listener does not write the word, which is `StopFinal`.
* `lost_start`. The thread finds `runnable = 0`; 1 is written to `control` and wakes a
  thread that is running; the thread sets `TASK_INTERRUPTIBLE` and sleeps
  (`monitor.c:281-283`). `runnable` is 1 and nothing is polled until the next command,
  against `Monitor/README.md:17`. The command that wakes the thread for the first time is
  forgotten too: the function clears `runnable` as it begins. A stop request of `rmmod`
  can be lost in the same place, and is therefore excluded in `StopIsSeen`.

### Known divergences

What the code does against what it is meant to do, met while modelling; no run is spent
on them, and the properties above are stated so that they hold with them.

* *No ramp-up.* `doAdjust` runs in the same period as `doObserve` and overwrites the state
  (`main.c:204-208`), so that OBSERVE ends with the first sample, whatever `RAMPUP1` and
  `RAMPUP2` are, and with `RAMPUP1` above 0 the ACBF bounds of `main.c:113` are never set.
* *No dedicated core.* The usage text names five arguments, the check is for four
  (`main.c:432-433`); with four the dedicated list is empty. A grant of no core is then
  an empty mask, which the kernel refuses (`monitor.c:236` ignores the result): Secondary
  keeps its cores while the Balancer counts them as returned. So `SettledGrant` needs a
  dedicated core.
* *Stale tail.* Phase 2 uses `curr_cpu` as a loop variable and leaves it at
  `num_affinity` for the next container. There line 182 may step past it, line 184
  compares with `==`, and phase 1 goes on through entries of earlier grants: tasks are
  pinned to cores a Primary has got back, until phase 2 of the container. What is stated
  is the mask at the end of the pass.
* *Replaced task.* The cache is refreshed when the *number* of tasks differs
  (`monitor.c:136`). One exit and one fork leave it alone, and the new task keeps the mask
  it inherited. So `PresentConfined` supposes that no task exits.
* *Dead launcher.* `curr_secondary_ctr++` before `continue` and in the `for` statement
  (`monitor.c:123`, `:129`): the container after one without its launcher is not refreshed.
* *The report.* A Balancer that stops before its first logged rebalance divides by zero
  (`logger.c:206`), and no report is written. `minServiceTime` starts at 0 and stays there.
* *Buffers of the logs.* A refused buffer clears `loggingEnabled`, which guards two of the
  three; `idleMaskChanges` is written through the null pointer (`main.c:284`), and it has no
  limit either. The tests of the other two are off by one (`logger.c:33`, `:56`).
* *Released task.* `rmmod` releases the thread's task (`monitor.c:464`) before it removes
  the files `control` and `bindcpu`, which wake and bind it (`:467`), and frees the log
  that `log` prints.
* *A pod without a directory* has no containers, which counts as success: it starts the
  Balancer (`getpids.c:89`).
* *Slow clients.* What has arrived when the receive timeout strikes is handled as the
  whole message; the client is turned away without an answer. Two readers of the log at a
  time would both advance `entrypos`: `OneReader` is an assumption of `MonitorLog`.

## 4. Proofs

All theorems hold for every value of the constants that satisfies the named
assumptions of the module. Further hypotheses are written in the theorem.

### Balancer

Assumptions: Primaries list their own cores, once each, and have targets between
`LOW_TIC` and a static target not above the pool.

| Theorem | Further hypothesis | Argument |
|---|---|---|
| `TypeCorrect` | | `TypeOK` and `TargetBounds` are inductive together: the type of `spare` needs `max >= 0`, which needs the target's bounds |
| `ProtocolCorrect` | `~StopWhilePaused` | `Handshake` is inductive with the types |
| `BusyCoresStay` | `~StopWhilePaused` | step by step from `Handshake`: only `Allocate` puts cores into the list, and it starts from `applied = lastAffinityMask` |
| `DecisionsOnSettledGrants` | `~StopWhilePaused`, `Dedicated # {}` | from `Handshake` |
| `ExitIsFinal` | `~StopWhilePaused` | from `Handshake` |
| `BalancerImplementsLending` | `~StopWhilePaused` | each action maps to `Look`, `Decline`, `Relend` or a stutter, by `Handshake`, from which the steps on the way to the Monitor keep `fresh`; strengthened by `NothingSpareYet`: before the first evaluation nothing is spare, so that the first grant, which no look precedes, is empty |
| `BalancerHandsOver` | `~StopWhilePaused` | each action maps to an action of `HandOver` or a stutter, by `Handshake` and `Counted` (the list is a finite set whose size is the stored length, with which `ActionFor` compares) |
| `AccountingCorrect` | | pools are disjoint, so a Primary's part of the mask is its own grant |
| `FreshTargetsReserved` | | strengthened by `FreshSpare`: before an allocation, each Primary's spare cores are within its maximum or `doHarvest` skips it; `EvaluateCaps` says that an evaluation leaves either, and the record tells which |
| `TargetAlwaysReserved` | `MaxPrimaries = 1` | a Primary that is alone; strengthened by: before an allocation of a single Primary its spare cores were just computed and capped |
| `DeficitsNeverGrow` | `MinSecondary = 0` | strengthened by `NoHiddenSpare`: whenever nothing is allocated, nothing is left spare, so a skipped Primary keeps at most what it has |

`Handshake` is needed because no property of interest is inductive: `NoBusyCoreTaken`
relates the list to the installed mask, and only the protocol says that the two agree
when the Balancer decides. `~StopWhilePaused` is the hypothesis that the exit signal
reaches a Balancer that is active; `stop_while_paused` shows why it is needed. The
hypothesis `Dedicated # {}` excludes a known divergence, and `MaxPrimaries = 1` what
`two_primaries_target` shows. With `minSecondaryCores` above 0 the conclusion of `DeficitsNeverGrow` does
not follow: a Primary skipped at its minimum keeps a stale spare count. `GrantBound` is
the main lemma about the walk over a pool: the grant has at most `spare` cores, by an
injection from the chosen positions into `0..spare-1`.

### TwoPhaseAffinity

Assumptions: a launcher belongs to one container, there is a dedicated core, the lists
name lendable cores, none twice, and fit into `affinity_list`.

| Theorem | Further hypothesis | Argument |
|---|---|---|
| `TypeCorrect`, `PassKeepsConfined`, `CachedTasksConfined` | | `TypeOK`, `PassInv` and `CachedConfined` are inductive together (`IInv`); that containers share no task is needed for `Pin`, which narrows the mask of a task of the current container after those before it were confined |
| `RevokesGoStraight` | | from `PassInv`: phase 1 runs for `needs_rebalance = 1` only |
| `TwopaHandsOver` | | `Request` is an `Offer`: no list names a core twice (`ListAssumption`), so comparing `num_affinity` compares the sets; the steps of a pass leave list and request alone |
| `PresentTasksConfined` | `MayExit = {}` and always `Fits` | strengthened by `CacheInv`: a cache is the beginning of the list of tasks, so equal numbers mean equal lists, and a refreshed cache holds every task of `present` |
| `FewTasksConfined` | `MayExit = {}`, `FewTasks` | discharges `Fits`: containers share no task and launchers stay in theirs, so the tasks of a container, each there once (`Distinct`), are injected into those it can have |

The hypotheses of `PresentTasksConfined` exclude the replaced task and the dead launcher.

### The other modules

| Module and assumptions | Theorems | Argument |
|---|---|---|
| `MonitorThread`: lists are not empty and fit into `cpuList` | `TypeCorrect`, `OnlyNamedCoresScanned` | `ListInv`: a write in progress has replaced a beginning of the array, the rest is of the list in force; `CountInv` keeps the scan within the array |
| | `ScansComplete` | strengthened by `ScanInv`, the same about the cores before `curr_cpu`; `Record` extends it by one core, and if the cores are distinct by one in the count |
| `MonitorLog`: the last listed core is the largest; `OneReader` | `TypeCorrect`, `ReadersSeeWritten`, `LogReadInOrder`, `LogTellsMasks` | `WriterInv`: the counted part is written, and `lastMask` is its last entry except between an entry and its count; `ReaderInv`: a reader at work holds the next entry of the counted part |
| `Interrupts`: lists fit into their arrays | `TypeCorrect`, `InterruptsOnLentCores`, `NamedIrqsOnly`, `UndisturbedWriteMovesAll` | `Storing`, the state of an array while a list is stored in it, for both arrays (`ListsInv`); `MaskInv`: the mask collected so far; `MovedInv`: the IRQs passed so far have it |
| `Listener` | `ScanClearsFlag`, `TablesChangeUnderFlag` | `FlagInv`: the flag is up from the first store of a scan to the last, and otherwise only after a cancellation |
| `Listener`: messages have a list and a target; 0 is no PID | `TypeCorrect`, `CompleteWhileRoom`, both under `[]Room` | `TablesTyped`, `Served` (whom the thread serves, with which message) and `HalfStored` (the entry behind the counted ones while it is filled in); `ControlTyped` for the rest of the types |
| | `AcknowledgedAreRegistered`, under `[]Room` | `Acked`: the entries of a client, and the message of his in hand, are no more than were received whole, and an answered Primary has an entry; `Handled`: whose message is in hand, and of which kind, at each place of the thread |
| | `TablesHaveRoom`: no pod has more than `K` containers, and the tables have more entries than `MaxTries` connections and `K * MaxTries` launchers need | `Paid`: every entry made, or still to come of the message in hand, is paid for by a connection whose message has been read; a pod is paid for when its containers are listed |
| | `RegistersWithinBounds`, as the last | discharges `[]Room` in the theorems above |
| `BalancerLog`: a second has at least one nanosecond, times are below `Wrap` | `RebalancesAnswerChanges` | `BuffersInv`; `IterationInv`: within an iteration a change is recorded before the rebalance and no earlier than the last entry; `MatchInv`: the entries are matched. `TimespecsInOrder` says that instants in seconds and nanoseconds are ordered as the clock is |
| `BalancerLog`: the cores are finitely many | `StatisticsAreExact`, `UtilizationIsExact` | `LogInv`: `RunInv` (the rebalances took no longer than the run), `TallyInv` (while the log takes every rebalance, its entries account for all of them), `ObservedInv` (the intervals between recorded changes sum to the times observed, core by core), `ReportInv` (a file that was written tells the whole log) |

`Room` is the hypothesis that both tables have a free entry: the code never compares a
count with `MAX_CONTAINERS`, and an entry stored behind a table is not in it.
`TablesHaveRoom` says when it holds: as long as fewer messages are sent than the tables
have entries. Nothing ever removes an entry, so a Listener that lives long enough, or is
restarted often enough, leaves the hypothesis.

`SumProofs` has what is needed of sums (`SumFunctionOnSet`, a fold) without an induction
theorem: a property of subsets of a finite set that fails somewhere fails on a smallest
subset (`SmallestExists`, from the well-founded order of cardinalities), and removing an
element of that one contradicts it. The property is a set of subsets, so no theorem takes
an operator. From it follow that a sum over a finite set adds up, stays when no term
changes, and grows by a term that is added.

### Only model-checked

* Liveness and the fairness it needs: `StopEndsBalancer`, `GrantTakesEffect`,
  `RequestAnswered`, `StopCommandStops`, `StopIsSeen`, `YieldsAgain`, `ClientsAnswered`.
  The prover treats neither.
* `DeficitNeverGrows` outside the hypotheses above.

Every safety property of a passing run is stated by a theorem. `TargetReserved` is proved
for a single Primary only, and is the property of a violated run.

## 5. Not modelled

* `Monitor/shmem.h`, module loading, the character device: plumbing of the mapping.
* The readers of the procfs files but `log`: they print words. `cpulist_reader` and
  `irqlist_reader` add to `procfs_buffer_size` what the last reader of any file left in
  it (`procfs.h:220`), and the reader of `mask` prints `numIdleCpus`, which is never
  assigned: what they return is outside the state the program keeps. `irqcontrol` stores
  `handle_irq`, which nothing reads.
* `get_irq_times` and `hist_irq_times`: their results are read by the code under
  `BALANCE_INTERRUPTS` only, a macro that no build defines; and that code,
  `harvestCores`, `Balancer/interrupts.c` and the block in `doHarvest`, which would not
  compile.
* `Balancer/taskinfo.c`: debug output that nothing calls. `SleepSecondary`,
  `WakeSecondary`: their bodies are comments. `GetMinSecondaryCores`: not called.
* The load of the cores and the time a deficit lasts: masks change at will, and no
  property is about time except by the clock of the log.
* `TestFramework` but its client: drivers, manifests, container images; read for the
  configurations in use. The workloads (TailBench and others) and
  `Listener/external/json.hpp` are third-party programs.

## 6. Plan

1. `HarvestSystem.tla`: the components composed with a load on the cores; that a Primary
   gets its cores back as long as its load changes, that new Secondary tasks are
   constrained by the next grant (two Primaries of two cores; it would replace
   `two_primaries`).
2. An abstract specification of a list replaced under its readers, which
   `MonitorThread`, `MonitorLog` and `Interrupts` share.
3. An abstract registry for `Listener` (messages received, entries, answers), refined by
   the tables.
