---------------------------- MODULE MonitorThread ----------------------------
(***************************************************************************)
(* The kernel thread of the Monitor (src/Monitor/monitor.c,                *)
(* check_idle_cpus): it sleeps and polls on command, scans the listed      *)
(* cores for idle ones, publishes the result in the shared page, and ends  *)
(* when the module is unloaded.  The commands come from the procfs files   *)
(* control, bindcpu and cpulist (procfs.h) and from rmmod, at any moment   *)
(* between two steps of the thread.  What the thread does on request is in *)
(* Balancer, TwoPhaseAffinity and Interrupts, its log in MonitorLog.       *)
(***************************************************************************)
EXTENDS Integers, Sequences, FiniteSets

CONSTANTS Cores,         \* cores the operator may list; core 0 is the default
          ListSize,      \* entries of cpuList
          Lists,         \* lists the operator may write to cpulist
          SampleLimit    \* iterations before the thread yields by itself

ASSUME ListSizeAssumption == ListSize \in Nat \ {0}
ASSUME CoresAssumption == 0 \in Cores /\ Cores \subseteq Nat
ASSUME SampleAssumption == SampleLimit \in Nat
ASSUME ListsAssumption ==
    \A list \in Lists : list \in Seq(Cores) /\ Len(list) \in 1..ListSize

VARIABLES pc,            \* where the thread is; "new" and "asleep" off the CPU,
                         \* "damaged" when its released task was written to
          runnable,      \* what was last written to control
          shouldStop,    \* kthread_stop has been called
          module,        \* "loaded", "freed" or "gone"
          cpuList,       \* the array, also behind NUMCPUS
          NUMCPUS,       \* number of entries in use
          writing,       \* list a cpulist write is storing, or <<>>
          written,       \* entries of it stored so far
          curr_cpu, idleCount, currMask,  \* the scan
          page,          \* numIdle and mask of the shared page
          samples,
          \* History, read by the properties only:
          inForce,       \* cores of the last list stored completely
          observed,      \* core whose state was read, during a step of the scan
          is_idle,       \* and whether it was idle
          seen,          \* cores seen in this scan, and how
          rewritten      \* the list changed since the scan began

list == <<cpuList, NUMCPUS, writing, written, inForce>>
command == <<runnable, shouldStop, module>>
look == <<observed, is_idle>>
scan == <<curr_cpu, idleCount, currMask, seen>>
thread == <<pc, scan, look, page, samples>>
vars == <<thread, list, command, rewritten>>

Entries(s) == {s[i] : i \in 1..Len(s)}
Listed == {cpuList[pos] : pos \in 0..(NUMCPUS - 1)}
Unseen == [c \in Cores |-> "unseen"]

OffCpu == {"new", "asleep", "done", "damaged"}
Polling == {"init", "top", "test", "prepare", "scan", "record", "serve",
            "serving", "count", "yielding"}

TypeOK ==
    /\ pc \in OffCpu \cup Polling
    /\ runnable \in {0, 1}
    /\ shouldStop \in BOOLEAN
    /\ module \in {"loaded", "freed", "gone"}
    /\ cpuList \in [0..(ListSize - 1) -> Cores]
    /\ NUMCPUS \in 1..ListSize
    /\ writing \in Lists \cup {<<>>}
    /\ written \in 0..Len(writing)
    /\ curr_cpu \in 0..ListSize
    /\ idleCount \in 0..ListSize
    /\ currMask \in SUBSET Cores
    /\ page \in [numIdle : 0..ListSize, mask : SUBSET Cores]
    /\ samples \in 0..(SampleLimit + 1)
    /\ inForce \in SUBSET Cores
    /\ observed \in Cores
    /\ is_idle \in BOOLEAN
    /\ seen \in [Cores -> {"unseen", "idle", "active"}]
    /\ rewritten \in BOOLEAN

\* The module has been loaded; the thread exists but has never run.
Init ==
    /\ pc = "new"
    /\ runnable = 0
    /\ shouldStop = FALSE
    /\ module = "loaded"
    /\ cpuList = [pos \in 0..(ListSize - 1) |-> 0]
    /\ NUMCPUS = 1
    /\ writing = <<>>
    /\ written = 0
    /\ curr_cpu = 0 /\ idleCount = 0 /\ currMask = {}
    /\ page = [numIdle |-> 0, mask |-> {}]
    /\ samples = 0
    /\ inForce = {0}
    /\ observed = 0 /\ is_idle = FALSE
    /\ seen = Unseen
    /\ rewritten = FALSE

-----------------------------------------------------------------------------
(* The thread. *)

\* kthread runs the thread function unless it was stopped before its first
\* run; the function clears its state, the start command included.
Start ==
    /\ pc = "init"
    /\ IF shouldStop
       THEN /\ pc' = "done"
            /\ UNCHANGED <<runnable, currMask, page, samples>>
       ELSE /\ pc' = "top"
            /\ runnable' = 0
            /\ currMask' = {}
            /\ page' = [numIdle |-> 0, mask |-> {}]
            /\ samples' = 0
    /\ UNCHANGED <<list, shouldStop, module, curr_cpu, idleCount, look, seen, rewritten>>

\* Mutant: The thread looks for a stop request only when it was stopped by command.
TopWhenStopped ==
    /\ pc = "top"
    /\ pc' = IF shouldStop /\ runnable = 0 THEN "done" ELSE "test"
    /\ UNCHANGED <<list, command, scan, page, samples, look, rewritten>>

Top ==
    /\ pc = "top"
    /\ pc' = IF shouldStop THEN "done" ELSE "test"
    /\ UNCHANGED <<list, command, scan, page, samples, look, rewritten>>

\* Where the scan begins, after the test or after a sleep.
BeginScan ==
    /\ pc' = "scan"
    /\ curr_cpu' = 0
    /\ idleCount' = 0
    /\ seen' = Unseen
    /\ rewritten' = (writing # <<>>)
    /\ UNCHANGED <<currMask, page, samples, look>>

\* Mutant: The thread tests runnable only when it starts.
TestNever ==
    /\ pc = "test"
    /\ BeginScan
    /\ UNCHANGED <<list, command>>

Test ==
    /\ pc = "test"
    /\ IF runnable = 0
       THEN /\ pc' = "prepare"
            /\ UNCHANGED <<scan, page, samples, look, rewritten>>
       ELSE BeginScan
    /\ UNCHANGED <<list, command>>

\* set_current_state and schedule: a wake-up between the two is not lost, one
\* that came before them is.
Sleep ==
    /\ pc = "prepare"
    /\ pc' = "asleep"
    /\ UNCHANGED <<list, command, scan, page, samples, look, rewritten>>

Observe ==
    /\ pc = "scan"
    /\ curr_cpu < NUMCPUS
    /\ pc' = "record"
    /\ observed' = cpuList[curr_cpu]
    /\ is_idle' \in BOOLEAN
    /\ UNCHANGED <<list, command, scan, page, samples, rewritten>>

\* The entry is read again for the bit.
Record ==
    /\ pc = "record"
    /\ pc' = "scan"
    /\ currMask' = IF is_idle THEN currMask \ {cpuList[curr_cpu]}
                              ELSE currMask \cup {cpuList[curr_cpu]}
    /\ idleCount' = IF is_idle THEN idleCount + 1 ELSE idleCount
    /\ curr_cpu' = curr_cpu + 1
    /\ seen' = [seen EXCEPT ![observed] = IF is_idle THEN "idle" ELSE "active"]
    /\ UNCHANGED <<list, command, page, samples, look, rewritten>>

\* Mutant: The scan ends one core early.
PublishEarly ==
    /\ pc = "scan"
    /\ curr_cpu >= NUMCPUS - 1
    /\ pc' = "serve"
    /\ page' = [numIdle |-> idleCount, mask |-> currMask]
    /\ UNCHANGED <<list, command, scan, samples, look, rewritten>>

Publish ==
    /\ pc = "scan"
    /\ curr_cpu >= NUMCPUS
    /\ pc' = "serve"
    /\ page' = [numIdle |-> idleCount, mask |-> currMask]
    /\ UNCHANGED <<list, command, scan, samples, look, rewritten>>

\* A rebalance may have been requested; it ends with a schedule().
Serve ==
    \/ /\ pc = "serve"
       /\ pc' \in {"serving", "count"}
       /\ UNCHANGED <<list, command, scan, page, samples, look, rewritten>>
    \/ /\ pc = "serving"
       /\ pc' = "count"
       /\ UNCHANGED <<list, command, scan, page, samples, look, rewritten>>

\* Mutant: The thread yields in the one iteration that reaches the limit.
CountYieldingOnce ==
    /\ pc = "count"
    /\ pc' = IF samples = SampleLimit THEN "yielding" ELSE "top"
    /\ samples' = IF samples > SampleLimit THEN samples ELSE samples + 1
    /\ UNCHANGED <<list, command, scan, page, look, rewritten>>

Count ==
    /\ pc = "count"
    /\ IF samples > SampleLimit
       THEN pc' = "yielding" /\ UNCHANGED samples
       ELSE pc' = "top" /\ samples' = samples + 1
    /\ UNCHANGED <<list, command, scan, page, look, rewritten>>

Yield ==
    /\ pc = "yielding"
    /\ pc' = "top"
    /\ UNCHANGED <<list, command, scan, page, samples, look, rewritten>>

ThreadStep == \/ Start \/ Top \/ Test \/ Sleep \/ Observe \/ Record
              \/ Publish \/ Serve \/ Count \/ Yield

-----------------------------------------------------------------------------
(* The operator.  The files exist until the module is gone. *)

\* wake_up_process: does something only for a thread that is off the CPU.  The
\* files still call it (and kthread_bind) when put_task_struct has released the
\* ended task: the memory may be somebody else's by then, and is written to.
WakeUp ==
    \/ /\ pc = "new"
       /\ pc' = "init"
       /\ UNCHANGED <<scan, page, samples, look, rewritten>>
    \/ pc = "asleep" /\ BeginScan
    \/ pc \notin {"new", "asleep"} /\ UNCHANGED <<thread, rewritten>>
    \/ /\ module = "freed"
       /\ pc = "done"
       /\ pc' = "damaged"
       /\ UNCHANGED <<scan, page, samples, look, rewritten>>

WriteControl(ctrl) ==
    /\ module # "gone"
    /\ runnable' = ctrl
    /\ IF ctrl = 1 THEN WakeUp ELSE UNCHANGED <<thread, rewritten>>
    /\ UNCHANGED <<list, shouldStop, module>>

WriteBindCpu ==
    /\ module # "gone"
    /\ WakeUp
    /\ UNCHANGED <<list, command>>

\* Mutant: cpulist_writer stores the length before the entries.
BeginListLengthFirst ==
    /\ module # "gone"
    /\ writing = <<>>
    /\ writing' \in Lists
    /\ written' = 0
    /\ rewritten' = TRUE
    /\ NUMCPUS' = Len(writing')
    /\ UNCHANGED <<thread, command, cpuList, inForce>>

BeginList ==
    /\ module # "gone"
    /\ writing = <<>>
    /\ writing' \in Lists
    /\ written' = 0
    /\ rewritten' = TRUE
    /\ UNCHANGED <<thread, command, cpuList, NUMCPUS, inForce>>

\* Of well-formed lists only: the result of sscanf is not tested, so a token
\* that is no number would leave the old entry in place and be counted.
StoreEntry ==
    /\ written < Len(writing)
    /\ cpuList' = [cpuList EXCEPT ![written] = writing[written + 1]]
    /\ written' = written + 1
    /\ UNCHANGED <<thread, command, NUMCPUS, writing, inForce, rewritten>>

EndList ==
    /\ writing # <<>>
    /\ written = Len(writing)
    /\ NUMCPUS' = written
    /\ inForce' = Entries(writing)
    /\ writing' = <<>>
    /\ written' = 0
    /\ UNCHANGED <<thread, command, cpuList, rewritten>>

WriteCpuList == BeginList \/ StoreEntry \/ EndList

\* rmmod: kthread_stop waits for the thread, then its task is released and the
\* memory freed, and only then are the files removed.
StopThread ==
    /\ module = "loaded"
    /\ ~shouldStop
    /\ shouldStop' = TRUE
    /\ WakeUp
    /\ UNCHANGED <<list, runnable, module>>

FreeMemory ==
    /\ module = "loaded"
    /\ shouldStop
    /\ pc = "done"
    /\ module' = "freed"
    /\ UNCHANGED <<list, thread, runnable, shouldStop, rewritten>>

RemoveFiles ==
    /\ module = "freed"
    /\ writing = <<>>
    /\ module' = "gone"
    /\ UNCHANGED <<list, thread, runnable, shouldStop, rewritten>>

Unload == StopThread \/ FreeMemory \/ RemoveFiles

Next == \/ ThreadStep
        \/ \E ctrl \in {0, 1} : WriteControl(ctrl)
        \/ WriteBindCpu
        \/ WriteCpuList
        \/ Unload

Spec == Init /\ [][Next]_vars

\* The thread owns its core, so it runs whenever it is not asleep; a write to
\* cpulist that was begun is finished.
FairSpec == Spec /\ WF_vars(ThreadStep) /\ WF_vars(StoreEntry \/ EndList)

-----------------------------------------------------------------------------
(* Properties. *)

\* A list is replaced entry by entry under a running scan, and its length is
\* stored last: at no moment does the thread scan a core that neither the old
\* nor the new list names (procfs.h, cpulist_writer).
OnlyNamedCores ==
    \A pos \in 0..(NUMCPUS - 1) : cpuList[pos] \in inForce \cup Entries(writing)

\* What a scan publishes covers the whole list: when the list was not
\* rewritten meanwhile, each listed core was looked at in this very scan, its
\* bit is what was seen, and numIdle is the number of listed entries whose
\* bit says idle (monitor.c, check_idle_cpus).
ScanComplete ==
    (pc = "serve" /\ ~rewritten) =>
        /\ \A c \in Listed : c \in page.mask <=> seen[c] = "active"
        /\ \A c \in Listed : seen[c] # "unseen"
        /\ (\A p, q \in 0..(NUMCPUS - 1) : p # q => cpuList[p] # cpuList[q])
              => page.numIdle = Cardinality(Listed \ page.mask)

\* A stop command stops the polling, whatever else is written to the files and
\* wherever the thread is, unless a start command overtakes it.
StopCommandStops == (runnable = 0) ~> (pc \in OffCpu \/ runnable = 1)

\* Unloading ends: a thread that still has to pass the top of its loop sees
\* the request of kthread_stop, also when it is woken just for this.
StopIsSeen ==
    (shouldStop /\ pc \in Polling \ {"test", "prepare"}) ~> (pc = "done")

\* The polling thread gives the CPU up again and again, however long it runs
\* (the RCU backlog of Monitor/README.md, caveat 1).
YieldsAgain == []<>(pc \in OffCpu \cup {"serving", "yielding"})

\* A start command starts the polling (Monitor/README.md, step 3).  False: a
\* thread between its test of runnable and its sleep misses the wake-up.
StartCommandStarts ==
    (runnable = 1) ~> (pc \in {"scan", "done", "damaged"} \/ runnable = 0)

=============================================================================
