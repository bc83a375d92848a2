---------------------------- MODULE ListenerProofs ----------------------------
(***************************************************************************)
(* Theorems about the Listener, for any clients, messages and pods: the    *)
(* tables of the shared page are complete, and under the flag when they    *)
(* change, whatever ends a registration half-way.                          *)
(***************************************************************************)
EXTENDS Listener, FiniteSetTheorems, TLAPS

-----------------------------------------------------------------------------
(* The flag, from the first store of a scan to the last. *)

FlagInv ==
    /\ lpc \in Scanning \cup {"launcher"} => updatingPids = 1
    /\ updatingPids = 1 => lpc \in Scanning \cup {"launcher"} \/ interrupted

LEMMA FlagInvariant == Spec => []FlagInv
  <1>1. Init => FlagInv
    BY DEF Init, FlagInv, Scanning
  <1>2. ASSUME FlagInv, [Next]_vars PROVE FlagInv'
    <2> USE FlagInv DEF FlagInv, Scanning
    <2>1. ASSUME NEW c \in Clients, Connect(c) \/ Send(c) PROVE FlagInv'
      BY <2>1 DEF Connect, Send, serving
    <2>2. CASE Accept \/ ReadMore \/ ReadTimeout
      BY <2>2 DEF Accept, ReadMore, ReadTimeout, CloseWith, Goto
    <2>3. CASE Parse
      BY <2>3 DEF Parse, CloseWith, Goto
    <2>4. CASE ParseCpuList \/ ParseNumbers \/ CountPrimary \/ Reply
      BY <2>4 DEF ParseCpuList, ParseNumbers, CountPrimary, Reply, CloseWith, Goto, ProcessEnds
    <2>5. CASE OpenTasks \/ SearchTasks
      BY <2>5 DEF OpenTasks, SearchTasks, Goto
    <2>6. CASE StoreLauncher \/ CountLauncher \/ ClearFlag
      BY <2>6 DEF StoreLauncher, CountLauncher, ClearFlag, Goto, pod
    <2>7. CASE EndPod \/ Activate
      BY <2>7 DEF EndPod, Activate, Goto
    <2>8. CASE Signal \/ Restart \/ StopBalancer
      BY <2>8 DEF Signal, ProcessEnds, Restart, StopBalancer, serving
    <2>9. CASE UNCHANGED vars
      BY <2>9 DEF vars, serving
    <2> QED
      BY <1>2, <2>1, <2>2, <2>3, <2>4, <2>5, <2>6, <2>7, <2>8, <2>9
      DEF Next, ListenerStep, SearchPod
  <1> QED
    BY <1>1, <1>2, PTL DEF Spec

\* Every way out of a scan but a cancellation clears the flag (getpids.c,
\* get_container_tasks).
THEOREM ScanClearsFlag == Spec => []FlagCleared
  <1>1. FlagInv => FlagCleared
    BY DEF FlagInv, FlagCleared
  <1> QED
    BY <1>1, FlagInvariant, PTL

\* The tables of Secondary change under the flag only, also for a Listener
\* that was started again (getpids.c, get_container_tasks).
THEOREM TablesChangeUnderFlag == Spec => TablesUnderFlag
  <1> DEFINE Under == secondaries' # secondaries => updatingPids = 1 /\ updatingPids' = 1
  <1>1. ASSUME FlagInv, [Next]_vars PROVE [Under]_vars
    <2>1. CASE StoreLauncher \/ CountLauncher
      BY <1>1, <2>1 DEF FlagInv, Scanning, StoreLauncher, CountLauncher
    <2>2. CASE SearchPod /\ ~(StoreLauncher \/ CountLauncher)
      BY <2>2 DEF SearchPod, OpenTasks, SearchTasks, ClearFlag, EndPod, Activate, LeavePod, Goto
    <2>3. CASE ListenerStep /\ ~SearchPod
      BY <2>3 DEF ListenerStep, Accept, ReadMore, ReadTimeout, Parse, ParseCpuList,
                  ParseNumbers, CountPrimary, Reply
    <2>4. ASSUME NEW c \in Clients, Connect(c) \/ Send(c) PROVE Under
      BY <2>4 DEF Connect, Send
    <2>5. CASE Signal \/ Restart \/ StopBalancer
      BY <2>5 DEF Signal, Restart, StopBalancer
    <2> QED
      BY <1>1, <2>1, <2>2, <2>3, <2>4, <2>5 DEF Next, ListenerStep
  <1> QED
    BY <1>1, FlagInvariant, PTL DEF Spec, TablesUnderFlag

-----------------------------------------------------------------------------
(* The entries, as long as the tables, whose ends the code does not know,  *)
(* have room.                                                              *)

Room == nr_primary_ctrs < MaxContainers /\ nr_secondary_ctrs < MaxContainers

Entry == [from : Clients \cup {Nobody}, cpuList : Seq(Nat), NUMCPUS : Nat,
          targetIdleCores : Nat, totalEligibleCores : Nat, maxSecondaryCores : Int]

TablesTyped ==
    /\ message \in [Clients -> Messages]
    /\ primary_ctrs \in [Index -> Entry] /\ nr_primary_ctrs \in Nat
    /\ secondary_ctrs \in [Index -> Pids \cup {NoPid}] /\ nr_secondary_ctrs \in Nat

\* Whom and what the thread serves.
Served ==
    /\ backlog \in Seq(Clients) /\ toScan \subseteq Pids
    /\ lpc \notin {"accept", "exited"} => client \in Clients
    /\ lpc \in {"list", "numbers", "publish"} =>
          message[client].kind = "Primary" /\ message[client].form \in {"good", "notNumber"}
    /\ lpc \in {"tasks", "launcher", "count"} => container \in Pids

\* The entries behind the counted ones, while they are filled in.
HalfStored ==
    /\ lpc = "numbers" =>
          /\ primary_ctrs[nr_primary_ctrs].from = client
          /\ primary_ctrs[nr_primary_ctrs].cpuList = message[client].list
          /\ primary_ctrs[nr_primary_ctrs].NUMCPUS = Len(message[client].list)
    /\ lpc = "publish" =>
          primary_ctrs[nr_primary_ctrs] = EntryOf(client) /\ message[client].form = "good"
    /\ lpc = "count" => secondary_ctrs[nr_secondary_ctrs] # NoPid

IInv == TablesTyped /\ Served /\ HalfStored /\ TablesComplete

tables == <<message, primaries, secondaries>>

\* Steps that leave the tables alone disturb the control part only.
LEMMA TablesKept ==
    ASSUME IInv, UNCHANGED tables, Served',
           lpc' \in {"numbers", "publish", "count"} => lpc' = lpc /\ client' = client
    PROVE  IInv'
  <1>1. UNCHANGED <<message, primary_ctrs, nr_primary_ctrs, secondary_ctrs, nr_secondary_ctrs>>
    BY DEF tables, primaries, secondaries
  <1>2. TablesTyped' /\ TablesComplete'
    BY <1>1 DEF IInv, TablesTyped, TablesComplete, EntryOf
  <1>3. HalfStored'
    BY <1>1 DEF IInv, HalfStored, EntryOf
  <1> QED
    BY <1>2, <1>3 DEF IInv

\* An entry is told by its fields.
LEMMA SameEntry ==
    ASSUME NEW e \in Entry, NEW f \in Entry,
           e.from = f.from, e.cpuList = f.cpuList, e.NUMCPUS = f.NUMCPUS,
           e.targetIdleCores = f.targetIdleCores,
           e.totalEligibleCores = f.totalEligibleCores,
           e.maxSecondaryCores = f.maxSecondaryCores
    PROVE  e = f
  BY DEF Entry

LEMMA MessageTyped ==
    ASSUME TablesTyped, NEW c \in Clients
    PROVE  /\ message[c].list \in Seq(Nat) /\ Len(message[c].list) \in Nat
           /\ message[c].target \in Nat
           /\ PodContainers[message[c].pod] \subseteq Pids
  <1>1. message[c] \in Messages
    BY DEF TablesTyped
  <1>2. /\ message[c].list \in Seq(Nat) /\ message[c].target \in Nat
        /\ message[c].pod \in DOMAIN PodContainers
    BY <1>1, MessagesAssumption
  <1> QED
    BY <1>2 DEF Pids

LEMMA ParseKeeps == IInv /\ Parse => IInv'
  <1> SUFFICES ASSUME IInv, Parse PROVE IInv'
    OBVIOUS
  <1>1. client \in Clients /\ lpc = "parse" /\ UNCHANGED tables
    BY DEF IInv, Served, Parse, CloseWith, Goto, clients, tables
  <1>2. PodContainers[message[client].pod] \subseteq Pids
    BY <1>1, MessageTyped DEF IInv
  <1>3. message[client] \in Messages
    BY <1>1 DEF IInv, TablesTyped
  <1>4. message[client].form \in {"good", "notJson", "missingField", "notNumber"}
    BY <1>3, MessagesAssumption
  <1>5. backlog' = backlog /\ message' = message
    BY DEF Parse, CloseWith, Goto, clients
  <1>6. toScan' \subseteq Pids
    BY <1>2 DEF IInv, Served, Parse, CloseWith, Goto, pod
  <1>7. /\ lpc' \in {"accept", "reply", "list", "pod"}
        /\ lpc' # "accept" => client' = client
        /\ lpc' = "list" => /\ message[client].kind = "Primary"
                            /\ message[client].form \notin {"notJson", "missingField"}
    BY DEF Parse, CloseWith, Goto, Parses
  <1>8. Served'
    BY <1>1, <1>4, <1>5, <1>6, <1>7 DEF IInv, Served
  <1> QED
    BY <1>1, <1>7, <1>8, TablesKept

LEMMA ParseCpuListKeeps == IInv /\ Room /\ ParseCpuList => IInv'
  <1> SUFFICES ASSUME IInv, Room, ParseCpuList PROVE IInv'
    OBVIOUS
  <1>1. client \in Clients /\ lpc = "list" /\ lpc' = "numbers" /\ client' = client
        /\ UNCHANGED <<clients, pod, nr_primary_ctrs, secondaries>>
    BY DEF IInv, Served, ParseCpuList, Goto
  <1> DEFINE n == nr_primary_ctrs
             old == primary_ctrs[n]
             new == [old EXCEPT !.from = client, !.cpuList = message[client].list,
                                !.NUMCPUS = Len(message[client].list)]
  <1>2. n \in Index /\ primary_ctrs \in [Index -> Entry]
    BY BoundsAssumption DEF IInv, TablesTyped, Room, Index
  <1>3. primary_ctrs' = [primary_ctrs EXCEPT ![n] = new]
    BY <1>2 DEF ParseCpuList
  <1>4. message[client].list \in Seq(Nat) /\ Len(message[client].list) \in Nat
    BY <1>1, MessageTyped DEF IInv
  <1>5. /\ new \in Entry /\ new.from = client /\ new.cpuList = message[client].list
        /\ new.NUMCPUS = Len(message[client].list)
    <2>1. old \in Entry
      BY <1>2
    <2> HIDE DEF old
    <2> QED
      BY <1>1, <1>4, <2>1 DEF Entry
  <1> HIDE DEF new
  <1>6. /\ primary_ctrs' \in [Index -> Entry] /\ primary_ctrs'[n] = new
        /\ \A i \in Index \ {n} : primary_ctrs'[i] = primary_ctrs[i]
    BY <1>2, <1>3, <1>5
  <1>7. TablesTyped'
    BY <1>1, <1>6 DEF IInv, TablesTyped, clients, secondaries
  <1>8. Served'
    BY <1>1 DEF IInv, Served, clients, pod
  <1>9. HalfStored'
    BY <1>1, <1>5, <1>6 DEF HalfStored, clients
  <1>10. TablesComplete'
    <2>1. \A i \in 0..(n - 1) : i \in Index \ {n}
      BY <1>2, BoundsAssumption DEF Index
    <2> QED
      BY <1>1, <1>6, <2>1 DEF IInv, TablesComplete, EntryOf, clients, secondaries
  <1> QED
    BY <1>7, <1>8, <1>9, <1>10 DEF IInv

LEMMA ParseNumbersKeeps == IInv /\ Room /\ ParseNumbers => IInv'
  <1> SUFFICES ASSUME IInv, Room, ParseNumbers PROVE IInv'
    OBVIOUS
  <1>1. client \in Clients /\ lpc = "numbers" /\ UNCHANGED <<message, pod, nr_primary_ctrs, secondaries>>
    BY DEF IInv, Served, ParseNumbers, ProcessEnds, clients
  <1>2. CASE message[client].form = "notNumber"
    <2>1. lpc' = "exited" /\ backlog' = <<>> /\ primary_ctrs' = primary_ctrs
      BY <1>2 DEF ParseNumbers, ProcessEnds
    <2>2. Served'
      BY <1>1, <2>1 DEF IInv, Served, pod
    <2> QED
      BY <1>1, <2>1, <2>2, TablesKept DEF tables, primaries, secondaries
  <1>3. CASE message[client].form # "notNumber"
    <2> DEFINE n == nr_primary_ctrs
               old == primary_ctrs[n]
               cores == Len(message[client].list)
               new == [old EXCEPT !.targetIdleCores = message[client].target,
                                  !.totalEligibleCores = old.NUMCPUS,
                                  !.maxSecondaryCores = old.NUMCPUS - message[client].target]
    <2>1. lpc' = "publish" /\ client' = client /\ UNCHANGED clients
      BY <1>3 DEF ParseNumbers, Goto
    <2>2. n \in Index /\ primary_ctrs \in [Index -> Entry] /\ old \in Entry
      BY BoundsAssumption DEF IInv, TablesTyped, Room, Index
    <2>3. primary_ctrs' = [primary_ctrs EXCEPT ![n] = new]
      BY <1>3, <2>2 DEF ParseNumbers
    <2>4. /\ message[client].list \in Seq(Nat) /\ cores \in Nat
          /\ message[client].target \in Nat
      BY <1>1, MessageTyped DEF IInv
    <2>5. old.from = client /\ old.cpuList = message[client].list /\ old.NUMCPUS = cores
      BY <1>1 DEF IInv, HalfStored
    <2>6. new \in Entry /\ new = EntryOf(client)
      <3>1. cores - message[client].target \in Int
        BY <2>4
      <3>2. /\ new \in Entry /\ new.from = client /\ new.cpuList = message[client].list
            /\ new.NUMCPUS = cores /\ new.targetIdleCores = message[client].target
            /\ new.totalEligibleCores = cores
            /\ new.maxSecondaryCores = cores - message[client].target
        <4> HIDE DEF old, cores
        <4> QED
          BY <2>2, <2>4, <2>5, <3>1 DEF Entry
      <3>3. EntryOf(client) \in Entry
        BY <1>1, <2>4, <3>1 DEF Entry, EntryOf
      <3> HIDE DEF new
      <3> QED
        BY <3>2, <3>3, SameEntry DEF EntryOf
    <2> HIDE DEF new
    <2>7. /\ primary_ctrs' \in [Index -> Entry] /\ primary_ctrs'[n] = EntryOf(client)
          /\ \A i \in Index \ {n} : primary_ctrs'[i] = primary_ctrs[i]
      BY <2>2, <2>3, <2>6
    <2>8. TablesTyped'
      BY <1>1, <2>7 DEF IInv, TablesTyped, secondaries
    <2>9. Served'
      BY <1>1, <2>1 DEF IInv, Served, clients, pod
    <2>10. HalfStored'
      BY <1>1, <1>3, <2>1, <2>7 DEF IInv, HalfStored, Served, EntryOf
    <2>11. TablesComplete'
      <3>1. \A i \in 0..(n - 1) : i \in Index \ {n}
        BY <2>2, BoundsAssumption DEF Index
      <3> QED
        BY <1>1, <2>7, <3>1 DEF IInv, TablesComplete, EntryOf, secondaries
    <2> QED
      BY <2>8, <2>9, <2>10, <2>11 DEF IInv
  <1> QED
    BY <1>2, <1>3

LEMMA CountPrimaryKeeps == IInv /\ CountPrimary => IInv'
  <1> SUFFICES ASSUME IInv, CountPrimary PROVE IInv'
    OBVIOUS
  <1>1. /\ lpc = "publish" /\ lpc' = "reply" /\ client' = client
        /\ nr_primary_ctrs' = nr_primary_ctrs + 1
        /\ UNCHANGED <<clients, pod, primary_ctrs, secondaries>>
    BY DEF CountPrimary, Goto
  <1>2. TablesTyped' /\ Served' /\ HalfStored'
    BY <1>1 DEF IInv, TablesTyped, Served, HalfStored, clients, pod, secondaries
  <1>3. TablesComplete'
    <2>1. primary_ctrs[nr_primary_ctrs] = EntryOf(client) /\ client \in Clients
          /\ message[client].kind = "Primary" /\ message[client].form = "good"
      BY <1>1 DEF IInv, HalfStored, Served
    <2>2. \A i \in 0..(nr_primary_ctrs' - 1) : i \in 0..(nr_primary_ctrs - 1) \/ i = nr_primary_ctrs
      BY <1>1 DEF IInv, TablesTyped
    <2> QED
      BY <1>1, <2>1, <2>2 DEF IInv, TablesComplete, EntryOf, clients, secondaries
  <1> QED
    BY <1>2, <1>3 DEF IInv

LEMMA StoreLauncherKeeps == IInv /\ Room /\ StoreLauncher => IInv'
  <1> SUFFICES ASSUME IInv, Room, StoreLauncher PROVE IInv'
    OBVIOUS
  <1>1. /\ lpc = "launcher" /\ lpc' = "count" /\ client' = client
        /\ secondary_ctrs' = [secondary_ctrs EXCEPT ![nr_secondary_ctrs] = container]
        /\ UNCHANGED <<clients, pod, primaries, nr_secondary_ctrs>>
    BY DEF StoreLauncher, Goto
  <1>2. container \in Pids /\ container # NoPid
    BY <1>1, PodsAssumption DEF IInv, Served
  <1>3. nr_secondary_ctrs \in Index /\ secondary_ctrs \in [Index -> Pids \cup {NoPid}]
    BY BoundsAssumption DEF IInv, TablesTyped, Room, Index
  <1>4. /\ secondary_ctrs' \in [Index -> Pids \cup {NoPid}]
        /\ secondary_ctrs'[nr_secondary_ctrs] # NoPid
        /\ \A i \in Index \ {nr_secondary_ctrs} : secondary_ctrs'[i] = secondary_ctrs[i]
    BY <1>1, <1>2, <1>3
  <1>5. TablesTyped' /\ Served' /\ HalfStored'
    BY <1>1, <1>4 DEF IInv, TablesTyped, Served, HalfStored, clients, pod, primaries
  <1>6. TablesComplete'
    <2>1. \A i \in 0..(nr_secondary_ctrs - 1) : i \in Index \ {nr_secondary_ctrs}
      BY <1>3, BoundsAssumption DEF Index
    <2> QED
      BY <1>1, <1>4, <2>1 DEF IInv, TablesComplete, EntryOf, clients, primaries
  <1> QED
    BY <1>5, <1>6 DEF IInv

LEMMA CountLauncherKeeps == IInv /\ CountLauncher => IInv'
  <1> SUFFICES ASSUME IInv, CountLauncher PROVE IInv'
    OBVIOUS
  <1>1. /\ lpc = "count" /\ lpc' = "clear" /\ client' = client
        /\ nr_secondary_ctrs' = nr_secondary_ctrs + 1
        /\ UNCHANGED <<clients, pod, primaries, secondary_ctrs>>
    BY DEF CountLauncher, Goto
  <1>2. TablesTyped' /\ Served' /\ HalfStored'
    BY <1>1 DEF IInv, TablesTyped, Served, HalfStored, clients, pod, primaries
  <1>3. TablesComplete'
    <2>1. \A i \in 0..(nr_secondary_ctrs' - 1) :
             i \in 0..(nr_secondary_ctrs - 1) \/ i = nr_secondary_ctrs
      BY <1>1 DEF IInv, TablesTyped
    <2> QED
      BY <1>1, <2>1 DEF IInv, TablesComplete, HalfStored, EntryOf, clients, primaries
  <1> QED
    BY <1>2, <1>3 DEF IInv

LEMMA NextIInv == IInv /\ Room /\ [Next]_vars => IInv'
  <1> SUFFICES ASSUME IInv, Room, [Next]_vars PROVE IInv'
    OBVIOUS
  <1>1. ASSUME NEW c \in Clients, Connect(c) PROVE IInv'
    <2>1. UNCHANGED tables /\ UNCHANGED serving /\ UNCHANGED pod /\ backlog' = Append(backlog, c)
      BY <1>1 DEF Connect, tables
    <2>2. Served'
      BY <2>1 DEF IInv, Served, tables, serving, pod
    <2> QED
      BY <2>1, <2>2, TablesKept DEF serving
  <1>2. ASSUME NEW c \in Clients, Send(c) PROVE IInv'
    <2>1. UNCHANGED tables /\ UNCHANGED serving /\ UNCHANGED pod /\ UNCHANGED backlog
      BY <1>2 DEF Send, tables
    <2>2. Served'
      BY <2>1 DEF IInv, Served, tables, serving, pod
    <2> QED
      BY <2>1, <2>2, TablesKept DEF serving
  <1>3. CASE Accept
    <2>1. /\ UNCHANGED tables /\ UNCHANGED pod /\ lpc' = "read" /\ backlog # <<>>
          /\ client' = Head(backlog) /\ backlog' = Tail(backlog)
      BY <1>3 DEF Accept, tables
    <2>2. backlog \in Seq(Clients)
      BY DEF IInv, Served
    <2>3. client' \in Clients /\ backlog' \in Seq(Clients)
      BY <2>1, <2>2
    <2>4. Served'
      BY <2>1, <2>3 DEF IInv, Served, tables, pod
    <2> QED
      BY <2>1, <2>4, TablesKept
  <1>4. CASE ReadMore \/ ReadTimeout \/ Reply
    <2>1. /\ UNCHANGED tables /\ UNCHANGED pod /\ UNCHANGED backlog
          /\ lpc' \in {"accept", "read", "parse"} /\ (lpc' # "accept" => client' = client)
          /\ lpc \in {"read", "reply"}
      BY <1>4 DEF ReadMore, ReadTimeout, Reply, CloseWith, Goto, tables, clients
    <2>2. Served'
      BY <2>1 DEF IInv, Served, tables, pod
    <2> QED
      BY <2>1, <2>2, TablesKept
  <1>5. CASE OpenTasks
    <2>1. /\ UNCHANGED tables /\ UNCHANGED backlog /\ client' = client
          /\ lpc = "pod" /\ lpc' \in {"tasks", "pod"}
          /\ container' \in toScan /\ toScan' \subseteq toScan
      BY <1>5 DEF OpenTasks, Goto, tables, clients
    <2>2. Served'
      BY <2>1 DEF IInv, Served, tables
    <2> QED
      BY <2>1, <2>2, TablesKept
  <1>6. CASE SearchTasks \/ ClearFlag
    <2>1. /\ UNCHANGED tables /\ UNCHANGED <<backlog, toScan, container>> /\ client' = client
          /\ lpc' \in {"pod", "launcher"} /\ lpc \in {"tasks", "clear"}
          /\ lpc' = "launcher" => lpc = "tasks"
      BY <1>6 DEF SearchTasks, ClearFlag, Goto, tables, clients, pod
    <2>2. Served'
      BY <2>1 DEF IInv, Served, tables
    <2> QED
      BY <2>1, <2>2, TablesKept
  <1>7. CASE EndPod \/ Activate
    <2>1. /\ UNCHANGED tables /\ UNCHANGED backlog /\ client' = client
          /\ lpc' \in {"activate", "reply"} /\ lpc \in {"pod", "activate"}
          /\ toScan' \subseteq toScan
      BY <1>7 DEF EndPod, Activate, LeavePod, Goto, tables, clients, pod
    <2>2. Served'
      BY <2>1 DEF IInv, Served, tables
    <2> QED
      BY <2>1, <2>2, TablesKept
  <1>8. CASE Signal
    <2>1. UNCHANGED tables /\ backlog' = <<>> /\ lpc' = "exited" /\ toScan' = {}
      BY <1>8 DEF Signal, ProcessEnds, LeavePod, tables
    <2>2. Served'
      BY <2>1 DEF Served
    <2> QED
      BY <2>1, <2>2, TablesKept
  <1>9. CASE Restart
    <2>1. UNCHANGED tables /\ UNCHANGED <<backlog, toScan>> /\ lpc' = "accept"
      BY <1>9 DEF Restart, tables, clients, pod
    <2>2. Served'
      BY <2>1 DEF IInv, Served
    <2> QED
      BY <2>1, <2>2, TablesKept
  <1>10. CASE StopBalancer \/ UNCHANGED vars
    <2>1. UNCHANGED tables /\ UNCHANGED serving /\ UNCHANGED pod /\ UNCHANGED backlog
      BY <1>10 DEF StopBalancer, vars, clients, tables
    <2>2. Served'
      BY <2>1 DEF IInv, Served, tables, serving, pod
    <2> QED
      BY <2>1, <2>2, TablesKept DEF serving
  <1> QED
    BY <1>1, <1>2, <1>3, <1>4, <1>5, <1>6, <1>7, <1>8, <1>9, <1>10, ParseKeeps,
       ParseCpuListKeeps, ParseNumbersKeeps, CountPrimaryKeeps, StoreLauncherKeeps,
       CountLauncherKeeps
    DEF Next, ListenerStep, SearchPod

LEMMA InitIInv == Init => IInv
  <1> SUFFICES ASSUME Init PROVE IInv
    OBVIOUS
  <1>1. NoEntry \in Entry
    BY DEF NoEntry, Entry
  <1>2. TablesTyped
    BY <1>1 DEF Init, TablesTyped
  <1>3. Served /\ HalfStored /\ TablesComplete
    BY DEF Init, Served, HalfStored, TablesComplete
  <1> QED
    BY <1>2, <1>3 DEF IInv

\* As long as the tables have room, every counted entry is complete: a whole
\* and well-formed message of a Primary, or the PID of a launcher
\* (listener.cpp, handle_connection; getpids.c, get_container_tasks).
THEOREM CompleteWhileRoom == Spec /\ []Room => []TablesComplete
  <1>1. IInv => TablesComplete
    BY DEF IInv
  <1> QED
    BY <1>1, InitIInv, NextIInv, PTL DEF Spec

-----------------------------------------------------------------------------
(* Types. *)

\* The words that the invariant about the tables does not speak of.
ControlTyped ==
    /\ conn \in [Clients -> {"away", "queued", "accepted", "closed"}]
    /\ sent \in [Clients -> {"nothing", "part", "all"}]
    /\ reply \in [Clients -> {"none", "ACK"}]
    /\ tries \in 0..MaxTries
    /\ lpc \in {"accept", "read", "parse", "list", "numbers", "publish",
                "pod", "launcher", "activate", "reply", "exited"} \cup Scanning
    /\ client \in Clients \cup {Nobody}
    /\ payload \in {"nothing", "part", "all"}
    /\ container \in Pids \cup {NoPid}
    /\ failed \in BOOLEAN /\ interrupted \in BOOLEAN
    /\ balancerControl \in {-1, 0, 1}
    /\ updatingPids \in {0, 1}
    /\ received \in [Clients -> Nat]

LEMMA CloseKeepsTypes ==
    ASSUME ControlTyped, client \in Clients, NEW r \in {"none", "ACK"}, CloseWith(r)
    PROVE  /\ conn' \in [Clients -> {"away", "queued", "accepted", "closed"}]
           /\ sent' \in [Clients -> {"nothing", "part", "all"}]
           /\ reply' \in [Clients -> {"none", "ACK"}]
           /\ UNCHANGED <<message, tries, backlog, received>>
           /\ lpc' = "accept" /\ client' = Nobody /\ payload' = "nothing"
  BY DEF ControlTyped, CloseWith

LEMMA NextTypes == IInv /\ ControlTyped /\ [Next]_vars => ControlTyped'
  <1> SUFFICES ASSUME IInv, ControlTyped, [Next]_vars PROVE ControlTyped'
    OBVIOUS
  <1> USE DEF ControlTyped, Scanning
  <1>0. TablesTyped /\ Served /\ (lpc \notin {"accept", "exited"} => client \in Clients)
    BY DEF IInv, Served
  <1>1. ASSUME NEW c \in Clients, Connect(c) PROVE ControlTyped'
    BY <1>1, BoundsAssumption DEF Connect, serving, pod
  <1>2. ASSUME NEW c \in Clients, Send(c) PROVE ControlTyped'
    BY <1>2 DEF Send, serving, pod
  <1>3. CASE Accept
    <2>1. backlog # <<>> /\ backlog \in Seq(Clients)
      BY <1>0, <1>3 DEF Accept, Served
    <2>2. Head(backlog) \in Clients
      BY <2>1
    <2> QED
      BY <1>3, <2>2 DEF Accept, pod
  <1>4. CASE ReadMore
    BY <1>0, <1>4 DEF ReadMore, clients, pod
  <1>5. CASE ReadTimeout
    BY <1>0, <1>5, CloseKeepsTypes DEF ReadTimeout, Goto, clients, pod
  <1>6. CASE Parse
    BY <1>0, <1>6, CloseKeepsTypes DEF Parse, Goto, clients, pod
  <1>7. CASE ParseCpuList \/ CountPrimary
    BY <1>7 DEF ParseCpuList, CountPrimary, Goto, clients, pod
  <1>8. CASE ParseNumbers
    BY <1>8 DEF ParseNumbers, ProcessEnds, Goto, clients, pod
  <1>9. CASE Reply
    BY <1>0, <1>9, CloseKeepsTypes DEF Reply, pod
  <1>10. CASE OpenTasks
    <2>1. container' \in Pids
      BY <1>0, <1>10 DEF OpenTasks, Served
    <2> QED
      BY <1>10, <2>1 DEF OpenTasks, Goto, clients
  <1>11. CASE SearchTasks \/ StoreLauncher \/ CountLauncher \/ ClearFlag
    BY <1>11 DEF SearchTasks, StoreLauncher, CountLauncher, ClearFlag, Goto, clients, pod
  <1>12. CASE EndPod \/ Activate
    BY <1>12 DEF EndPod, Activate, LeavePod, Goto, clients, pod
  <1>13. CASE Signal
    BY <1>13 DEF Signal, ProcessEnds, LeavePod
  <1>14. CASE Restart \/ StopBalancer \/ UNCHANGED vars
    BY <1>14 DEF Restart, StopBalancer, vars, clients, serving, pod
  <1> QED
    BY <1>1, <1>2, <1>3, <1>4, <1>5, <1>6, <1>7, <1>8, <1>9, <1>10, <1>11, <1>12, <1>13, <1>14
    DEF Next, ListenerStep, SearchPod

\* The Listener starts idle.
LEMMA InitControl == Init => ControlTyped
  <1> SUFFICES ASSUME Init PROVE ControlTyped
    OBVIOUS
  <1>1. /\ conn \in [Clients -> {"away", "queued", "accepted", "closed"}]
        /\ sent \in [Clients -> {"nothing", "part", "all"}]
        /\ reply \in [Clients -> {"none", "ACK"}]
        /\ received \in [Clients -> Nat]
    BY DEF Init
  <1>2. tries \in 0..MaxTries
    BY BoundsAssumption DEF Init
  <1> QED
    BY <1>1, <1>2 DEF Init, ControlTyped

\* Every word keeps to its values, as long as the tables have room: the flag and
\* balancerControl are left in a value the other processes know by every
\* cancellation and every end of the process (listener.cpp, getpids.c).
THEOREM TypeCorrect == Spec /\ []Room => []TypeOK
  <1>1. IInv /\ ControlTyped /\ Room => TypeOK
    BY BoundsAssumption DEF IInv, TablesTyped, Served, ControlTyped, Room, TypeOK
  <1> QED
    BY <1>1, InitIInv, InitControl, NextIInv, NextTypes, PTL DEF Spec

-----------------------------------------------------------------------------
(* Acknowledgements: what a client is told, and what it is entered for.    *)

\* The counted entries of a client.
Mine(c) == {i \in 0..(nr_primary_ctrs - 1) : primary_ctrs[i].from = c}

\* A whole message of the client is held that may yet be entered.
InHand(c) ==
    c = client /\ payload = "all" /\ lpc \in {"read", "parse", "list", "numbers", "publish"}

\* Only a whole message gets as far as an entry, and a Primary is answered only
\* after its entry is counted.
Handled ==
    /\ lpc \in {"list", "numbers", "publish"} => payload = "all"
    /\ lpc \in {"pod", "tasks", "launcher", "count", "clear", "activate"} =>
          message[client].kind = "Secondary"
    /\ lpc = "reply" /\ message[client].kind = "Primary" => Mine(client) # {}

\* Each entry was paid for with a message that arrived whole, and the one in
\* hand is still to be used.
Acked ==
    \A c \in Clients :
        /\ reply[c] = "ACK" /\ message[c].kind = "Primary" => Mine(c) # {}
        /\ Cardinality(Mine(c)) + (IF InHand(c) THEN 1 ELSE 0) <= received[c]

\* The counted entries of a client are finitely many.
LEMMA MineFinite ==
    ASSUME IInv, NEW c
    PROVE  IsFiniteSet(Mine(c)) /\ Cardinality(Mine(c)) \in Nat
  <1>1. 0 \in Int /\ nr_primary_ctrs - 1 \in Int
    BY DEF IInv, TablesTyped
  <1>2. IsFiniteSet(0..(nr_primary_ctrs - 1))
    BY <1>1, FS_Interval
  <1>3. Mine(c) \in SUBSET (0..(nr_primary_ctrs - 1))
    BY DEF Mine
  <1> QED
    BY <1>2, <1>3, FS_Subset, FS_CardinalityType

\* An entry that is not counted yet is nobody's.
LEMMA MineKept ==
    ASSUME nr_primary_ctrs' = nr_primary_ctrs,
           \A i \in 0..(nr_primary_ctrs - 1) : primary_ctrs'[i] = primary_ctrs[i]
    PROVE  \A c : Mine(c)' = Mine(c)
  BY DEF Mine

\* A step that counts no entry, receives nothing and acknowledges nothing.
LEMMA AckedKept ==
    ASSUME IInv, ControlTyped, Acked, \A c : Mine(c)' = Mine(c),
           message' = message, received' = received,
           \A c \in Clients : InHand(c)' => InHand(c),
           \A c \in Clients : reply'[c] = "ACK" => reply[c] = "ACK"
    PROVE  Acked'
  <1> SUFFICES ASSUME NEW c \in Clients
               PROVE  /\ reply'[c] = "ACK" /\ message'[c].kind = "Primary" => Mine(c)' # {}
                      /\ Cardinality(Mine(c)') + (IF InHand(c)' THEN 1 ELSE 0) <= received'[c]
    BY DEF Acked
  <1>1. Mine(c)' = Mine(c)
    OBVIOUS
  <1>2. Cardinality(Mine(c)) \in Nat /\ received[c] \in Nat
    BY MineFinite DEF ControlTyped
  <1>3. Cardinality(Mine(c)) + (IF InHand(c) THEN 1 ELSE 0) <= received[c]
    BY DEF Acked
  <1>4. InHand(c)' => InHand(c)
    OBVIOUS
  <1>5. Cardinality(Mine(c)) + (IF InHand(c)' THEN 1 ELSE 0) <= received[c]
    BY <1>2, <1>3, <1>4
  <1> QED
    BY <1>1, <1>5 DEF Acked

\* A client that is sent away is told nothing.
LEMMA ClosedUnanswered ==
    ASSUME ControlTyped, CloseWith("none")
    PROVE  /\ \A c \in Clients : reply'[c] = "ACK" => reply[c] = "ACK"
           /\ message' = message /\ received' = received
           /\ lpc' = "accept"
  BY DEF ControlTyped, CloseWith

\* Bytes that arrive do not disturb what was acknowledged.
LEMMA ReadMoreAcks == IInv /\ ControlTyped /\ Handled /\ Acked /\ ReadMore => Handled' /\ Acked'
  <1> SUFFICES ASSUME IInv, ControlTyped, Handled, Acked, ReadMore PROVE Handled' /\ Acked'
    OBVIOUS
  <1>1. /\ lpc = "read" /\ lpc' = "read" /\ client' = client /\ client \in Clients
        /\ UNCHANGED <<clients, primaries>>
        /\ payload' # payload /\ payload' = sent[client]
    BY DEF ReadMore, IInv, Served
  <1>2. \A c : Mine(c)' = Mine(c)
    BY <1>1, MineKept DEF primaries
  <1>3. message' = message /\ reply' = reply
    BY <1>1 DEF clients
  <1>4. CASE sent[client] # "all"
    <2>1. received' = received /\ \A c \in Clients : InHand(c)' => InHand(c)
      BY <1>1, <1>4 DEF ReadMore, InHand
    <2> QED
      BY <1>1, <1>2, <1>3, <2>1, AckedKept DEF Handled
  <1>5. CASE sent[client] = "all"
    <2>1. received' = [received EXCEPT ![client] = @ + 1] /\ received \in [Clients -> Nat]
      BY <1>5 DEF ReadMore, ControlTyped
    <2>2. ASSUME NEW c \in Clients
          PROVE  Cardinality(Mine(c)') + (IF InHand(c)' THEN 1 ELSE 0) <= received'[c]
      <3>1. Cardinality(Mine(c)) \in Nat
        BY MineFinite
      <3>2. ~InHand(c) /\ (InHand(c)' => c = client)
        BY <1>1, <1>5 DEF InHand
      <3>3. Cardinality(Mine(c)) <= received[c] /\ received[c] \in Nat
        BY <2>1, <3>1, <3>2 DEF Acked
      <3>4. received'[c] = IF c = client THEN received[c] + 1 ELSE received[c]
        BY <2>1
      <3>5. Cardinality(Mine(c)) + (IF InHand(c)' THEN 1 ELSE 0) <= received'[c]
        BY <3>1, <3>2, <3>3, <3>4
      <3> QED
        BY <1>2, <3>5
    <2>3. ASSUME NEW c \in Clients, reply'[c] = "ACK", message'[c].kind = "Primary"
          PROVE  Mine(c)' # {}
      BY <1>2, <1>3, <2>3 DEF Acked
    <2> QED
      BY <1>1, <2>2, <2>3 DEF Handled, Acked
  <1> QED
    BY <1>4, <1>5

\* A message is taken in hand before anything of it is stored.
LEMMA ParseAcks == IInv /\ ControlTyped /\ Handled /\ Acked /\ Parse => Handled' /\ Acked'
  <1> SUFFICES ASSUME IInv, ControlTyped, Handled, Acked, Parse PROVE Handled' /\ Acked'
    OBVIOUS
  <1>1. lpc = "parse" /\ UNCHANGED primaries
    BY DEF Parse
  <1>2. \A c : Mine(c)' = Mine(c)
    BY <1>1, MineKept DEF primaries
  <1>3. CASE CloseWith("none")
    <2>1. \A c \in Clients : InHand(c)' => InHand(c)
      BY <1>3 DEF CloseWith, InHand
    <2> QED
      BY <1>2, <1>3, <2>1, ClosedUnanswered, AckedKept DEF Handled
  <1>4. CASE ~CloseWith("none")
    <2>1. /\ payload = "all" /\ payload' = "all" /\ client' = client
          /\ UNCHANGED clients /\ received' = received
          /\ \/ lpc' = "reply" /\ message[client].kind = "other"
             \/ lpc' = "list"
             \/ lpc' = "pod" /\ message[client].kind = "Secondary"
      BY <1>4 DEF Parse, Goto, Parses
    <2>2. \A c \in Clients : InHand(c)' => InHand(c)
      BY <1>1, <2>1 DEF InHand
    <2>3. message' = message /\ reply' = reply
      BY <2>1 DEF clients
    <2>4. Handled'
      BY <2>1, <2>3 DEF Handled
    <2> QED
      BY <1>2, <2>1, <2>2, <2>3, <2>4, AckedKept
  <1> QED
    BY <1>3, <1>4

\* The Primary whose pod is complete is registered before the answer.
LEMMA CountPrimaryAcks ==
    IInv /\ ControlTyped /\ Handled /\ Acked /\ CountPrimary => Handled' /\ Acked'
  <1> SUFFICES ASSUME IInv, ControlTyped, Handled, Acked, CountPrimary PROVE Handled' /\ Acked'
    OBVIOUS
  <1> DEFINE n == nr_primary_ctrs
  <1>1. /\ lpc = "publish" /\ lpc' = "reply" /\ client' = client /\ client \in Clients
        /\ payload = "all" /\ n' = n + 1 /\ n \in Nat
        /\ UNCHANGED <<clients, primary_ctrs, received>>
    BY DEF CountPrimary, Goto, Handled, IInv, Served, TablesTyped
  <1>2. primary_ctrs[n].from = client
    BY <1>1 DEF IInv, HalfStored, EntryOf
  <1>3. 0..(n' - 1) = (0..(n - 1)) \cup {n} /\ n \notin 0..(n - 1)
    BY <1>1
  <1>4. ASSUME NEW c
        PROVE  /\ c = client => Mine(c)' = Mine(c) \cup {n} /\ n \notin Mine(c)
               /\ c # client => Mine(c)' = Mine(c)
    BY <1>1, <1>2, <1>3 DEF Mine
  <1>5. message' = message /\ reply' = reply /\ received' = received
    BY <1>1 DEF clients
  <1>6. Handled'
    BY <1>1, <1>4 DEF Handled
  <1>7. ASSUME NEW c \in Clients
        PROVE  Cardinality(Mine(c)') + (IF InHand(c)' THEN 1 ELSE 0) <= received'[c]
    <2>1. IsFiniteSet(Mine(c)) /\ Cardinality(Mine(c)) \in Nat
      BY MineFinite
    <2>2. ~InHand(c)' /\ (InHand(c) <=> c = client)
      BY <1>1 DEF InHand
    <2>3. Cardinality(Mine(c)) + (IF InHand(c) THEN 1 ELSE 0) <= received[c]
      BY DEF Acked
    <2>4. CASE c = client
      <3>1. Cardinality(Mine(c)') = Cardinality(Mine(c)) + 1
        BY <1>4, <2>1, <2>4, FS_AddElement
      <3> QED
        BY <1>5, <2>1, <2>2, <2>3, <2>4, <3>1
    <2>5. CASE c # client
      BY <1>4, <1>5, <2>1, <2>2, <2>3, <2>5
    <2> QED
      BY <2>4, <2>5
  <1>8. ASSUME NEW c \in Clients, reply'[c] = "ACK", message'[c].kind = "Primary"
        PROVE  Mine(c)' # {}
    BY <1>4, <1>5, <1>8 DEF Acked
  <1> QED
    BY <1>6, <1>7, <1>8 DEF Acked

\* The answer goes out for a message whose containers are all registered.
LEMMA ReplyAcks == IInv /\ ControlTyped /\ Handled /\ Acked /\ Reply => Handled' /\ Acked'
  <1> SUFFICES ASSUME IInv, ControlTyped, Handled, Acked, Reply PROVE Handled' /\ Acked'
    OBVIOUS
  <1>1. /\ lpc = "reply" /\ lpc' = "accept" /\ client \in Clients
        /\ reply' = [reply EXCEPT ![client] = "ACK"]
        /\ UNCHANGED <<message, received, primaries>>
    BY DEF Reply, CloseWith, IInv, Served
  <1>2. \A c : Mine(c)' = Mine(c)
    BY <1>1, MineKept DEF primaries
  <1>3. ASSUME NEW c \in Clients, reply'[c] = "ACK", message'[c].kind = "Primary"
        PROVE  Mine(c)' # {}
    <2>1. message[c].kind = "Primary"
      BY <1>1, <1>3
    <2>2. CASE c = client
      BY <1>1, <1>2, <2>1, <2>2 DEF Handled
    <2>3. CASE c # client
      BY <1>1, <1>2, <1>3, <2>1, <2>3 DEF Acked, ControlTyped
    <2> QED
      BY <2>2, <2>3
  <1>4. ASSUME NEW c \in Clients
        PROVE  Cardinality(Mine(c)') + (IF InHand(c)' THEN 1 ELSE 0) <= received'[c]
    <2>1. ~InHand(c)' /\ ~InHand(c)
      BY <1>1 DEF InHand
    <2>2. Cardinality(Mine(c)) + 0 <= received[c]
      BY <2>1 DEF Acked
    <2> QED
      BY <1>1, <1>2, <2>1, <2>2
  <1> QED
    BY <1>1, <1>3, <1>4 DEF Handled, Acked

\* Every step keeps the acknowledgements covered.
LEMMA NextAcks ==
    IInv /\ Room /\ ControlTyped /\ Handled /\ Acked /\ [Next]_vars => Handled' /\ Acked'
  <1> SUFFICES ASSUME IInv, Room, ControlTyped, Handled, Acked, [Next]_vars
               PROVE  Handled' /\ Acked'
    OBVIOUS
  <1>1. ASSUME UNCHANGED <<primaries, message, received, serving>>,
               \A c \in Clients : reply'[c] = "ACK" => reply[c] = "ACK"
        PROVE  Handled' /\ Acked'
    <2>1. \A c : Mine(c)' = Mine(c) /\ InHand(c)' = InHand(c)
      BY <1>1, MineKept DEF primaries, serving, InHand
    <2>2. Handled'
      BY <1>1, <2>1 DEF Handled, serving
    <2> QED
      BY <1>1, <2>1, <2>2, AckedKept DEF serving
  <1>2. ASSUME NEW c \in Clients, Connect(c) \/ Send(c) PROVE Handled' /\ Acked'
    BY <1>1, <1>2 DEF Connect, Send, serving
  <1>3. CASE Accept \/ Restart \/ Signal
    <2>1. /\ UNCHANGED primaries /\ message' = message /\ reply' = reply /\ received' = received
          /\ lpc' \in {"read", "accept", "exited"} /\ (lpc' = "read" => payload' = "nothing")
      BY <1>3 DEF Accept, Restart, Signal, ProcessEnds, clients
    <2>2. \A c : Mine(c)' = Mine(c)
      BY <2>1, MineKept DEF primaries
    <2>3. \A c \in Clients : InHand(c)' => InHand(c)
      BY <2>1 DEF InHand
    <2>4. Handled'
      BY <2>1 DEF Handled
    <2> QED
      BY <2>1, <2>2, <2>3, <2>4, AckedKept
  <1>4. CASE ReadTimeout
    <2>1. \A c : Mine(c)' = Mine(c)
      BY <1>4, MineKept DEF ReadTimeout, primaries
    <2>2. CASE payload = "nothing"
      <3>1. CloseWith("none")
        BY <1>4, <2>2 DEF ReadTimeout
      <3>2. lpc' = "accept" /\ \A c \in Clients : InHand(c)' => InHand(c)
        BY <3>1 DEF CloseWith, InHand
      <3> QED
        BY <2>1, <3>1, <3>2, ClosedUnanswered, AckedKept DEF Handled
    <2>3. CASE payload # "nothing"
      <3>1. /\ lpc = "read" /\ lpc' = "parse" /\ UNCHANGED <<client, payload, received, clients>>
        BY <1>4, <2>3 DEF ReadTimeout, Goto
      <3>2. \A c \in Clients : InHand(c)' => InHand(c)
        BY <3>1 DEF InHand
      <3> QED
        BY <2>1, <3>1, <3>2, AckedKept DEF Handled, clients
    <2> QED
      BY <2>2, <2>3
  <1>5. CASE ParseCpuList \/ ParseNumbers
    <2>1. /\ message' = message /\ reply' = reply /\ received' = received
          /\ lpc \in {"list", "numbers"} /\ lpc' \in {"numbers", "publish", "exited"}
          /\ lpc' # "exited" => client' = client /\ payload' = payload
          /\ nr_primary_ctrs' = nr_primary_ctrs
      BY <1>5 DEF ParseCpuList, ParseNumbers, ProcessEnds, Goto, clients
    <2>2. \A i \in 0..(nr_primary_ctrs - 1) : primary_ctrs'[i] = primary_ctrs[i]
      <3>1. \A i \in 0..(nr_primary_ctrs - 1) : i \in Index /\ i # nr_primary_ctrs
        BY BoundsAssumption DEF Index, Room, IInv, TablesTyped
      <3>2. primary_ctrs \in [Index -> Entry]
        BY DEF IInv, TablesTyped
      <3> QED
        BY <1>5, <3>1, <3>2 DEF ParseCpuList, ParseNumbers
    <2>3. \A c : Mine(c)' = Mine(c)
      BY <2>1, <2>2, MineKept
    <2>4. \A c \in Clients : InHand(c)' => InHand(c)
      BY <2>1 DEF InHand
    <2>5. Handled'
      BY <2>1 DEF Handled
    <2> QED
      BY <2>1, <2>3, <2>4, <2>5, AckedKept
  <1>6. CASE SearchPod
    <2>1. /\ UNCHANGED <<clients, primaries, client, payload, received>>
          /\ lpc \in {"pod", "tasks", "launcher", "count", "clear", "activate"}
          /\ lpc' \in {"pod", "tasks", "launcher", "count", "clear", "activate", "reply"}
      BY <1>6 DEF SearchPod, OpenTasks, SearchTasks, StoreLauncher, CountLauncher,
                  ClearFlag, EndPod, Activate, Goto
    <2>2. \A c : Mine(c)' = Mine(c)
      BY <2>1, MineKept DEF primaries
    <2>3. message' = message /\ reply' = reply
      BY <2>1 DEF clients
    <2>4. \A c \in Clients : InHand(c)' => InHand(c)
      BY <2>1 DEF InHand
    <2>5. Handled'
      BY <2>1, <2>3 DEF Handled
    <2> QED
      BY <2>1, <2>2, <2>3, <2>4, <2>5, AckedKept
  <1>7. CASE StopBalancer \/ UNCHANGED vars
    <2>1. UNCHANGED <<primaries, clients, serving>>
      BY <1>7 DEF StopBalancer, vars
    <2>2. UNCHANGED <<primaries, message, received, serving>> /\ reply' = reply
      BY <2>1 DEF clients, serving
    <2> QED
      BY <1>1, <2>2
  <1> QED
    BY <1>2, <1>3, <1>4, <1>5, <1>6, <1>7, ReadMoreAcks, ParseAcks, CountPrimaryAcks, ReplyAcks
    DEF Next, ListenerStep

\* As long as the tables have room, a client that was told ACK for a Primary is
\* registered and stays so through every end of the process, and no message that
\* was cut off is entered, nor any message twice (listener.cpp, read_payload,
\* handle_connection).
THEOREM AcknowledgedAreRegistered == Spec /\ []Room => []AckedIsRegistered
  <1>1. ASSUME Init PROVE Handled /\ Acked
    <2>1. \A c : Mine(c) = {}
      BY <1>1 DEF Init, Mine
    <2>2. \A c \in Clients : Cardinality(Mine(c)) = 0 /\ ~InHand(c) /\ received[c] = 0
      BY <1>1, <2>1, FS_EmptySet DEF Init, InHand
    <2> QED
      BY <1>1, <2>2 DEF Init, Handled, Acked
  <1>2. ASSUME IInv, ControlTyped, Acked PROVE AckedIsRegistered
    <2> SUFFICES ASSUME NEW c \in Clients
                 PROVE  /\ reply[c] = "ACK" /\ message[c].kind = "Primary" => Mine(c) # {}
                        /\ Cardinality(Mine(c)) <= received[c]
      BY DEF AckedIsRegistered, Mine
    <2>1. Cardinality(Mine(c)) \in Nat /\ received[c] \in Nat
      BY <1>2, MineFinite DEF ControlTyped
    <2> QED
      BY <1>2, <2>1 DEF Acked
  <1> QED
    BY <1>1, <1>2, InitIInv, InitControl, NextIInv, NextTypes, NextAcks, PTL DEF Spec

-----------------------------------------------------------------------------
(* Room: the tables, whose ends the code does not know, are large enough   *)
(* for as many connections as they have entries, and pods accordingly.     *)

\* Clients that are queued, or served and not yet told apart.
Queue == Len(backlog) + (IF lpc \in {"read", "parse"} THEN 1 ELSE 0)

\* Connections whose message has been read, or will never be.
Settled == tries - Queue

\* Entries made, and those that may still come of the message in hand.
PrimaryEntries == nr_primary_ctrs + (IF lpc \in {"list", "numbers", "publish"} THEN 1 ELSE 0)
LauncherEntries == nr_secondary_ctrs + Cardinality(toScan)
                     + (IF lpc \in {"tasks", "launcher", "count"} THEN 1 ELSE 0)

\* Every entry is paid for by a connection, which pays for k launchers.
Counts == Settled \in Nat /\ PrimaryEntries \in Nat /\ LauncherEntries \in Nat
Paid(k) == /\ IsFiniteSet(toScan) /\ Counts
           /\ PrimaryEntries <= Settled /\ LauncherEntries <= k * Settled

\* No pod has more than k containers.
SmallPods(k) ==
    k \in Nat /\ \A p \in DOMAIN PodContainers : /\ IsFiniteSet(PodContainers[p])
                                                 /\ Cardinality(PodContainers[p]) <= k

LEMMA Product ==
    ASSUME NEW k \in Nat, NEW s \in Nat
    PROVE  k * s \in Nat /\ k * (s + 1) = k * s + k
  OBVIOUS

LEMMA ProductGrows ==
    ASSUME NEW k \in Nat, NEW s \in Nat, NEW t \in Nat, s <= t
    PROVE  k * s <= k * t
  <1>1. PICK d \in Nat : t = s + d
    <2>1. t - s \in Nat /\ t = s + (t - s)
      OBVIOUS
    <2> QED
      BY <2>1
  <1>2. k * t = k * s + k * d
    BY <1>1
  <1>3. k * d \in Nat /\ k * s \in Nat
    BY Product
  <1> QED
    BY <1>2, <1>3

\* A connection that is settled pays for k more entries, or for fewer.
LEMMA Payment ==
    ASSUME NEW k \in Nat, NEW s \in Nat, NEW t \in Nat, NEW n \in Nat, NEW m \in Nat,
           n <= k * s,
           (s <= t /\ m <= n) \/ (s + 1 <= t /\ m <= n + k)
    PROVE  m <= k * t
  <1>1. k * s \in Nat /\ k * t \in Nat /\ k * (s + 1) = k * s + k
    BY Product
  <1>2. CASE s <= t /\ m <= n
    BY <1>1, <1>2, ProductGrows
  <1>3. CASE s + 1 <= t /\ m <= n + k
    <2>1. k * (s + 1) <= k * t
      BY <1>3, ProductGrows
    <2> QED
      BY <1>1, <1>3, <2>1
  <1> QED
    BY <1>2, <1>3

LEMMA StepPays ==
    ASSUME NEW K \in Nat, Paid(K), IsFiniteSet(toScan'), Counts',
           \/ /\ Settled <= Settled'
              /\ PrimaryEntries' <= PrimaryEntries /\ LauncherEntries' <= LauncherEntries
           \/ /\ Settled + 1 <= Settled'
              /\ PrimaryEntries' <= PrimaryEntries + 1
              /\ LauncherEntries' <= LauncherEntries + K
    PROVE  Paid(K)'
  <1>1. /\ Settled \in Nat /\ PrimaryEntries \in Nat /\ LauncherEntries \in Nat
        /\ Settled' \in Nat /\ PrimaryEntries' \in Nat /\ LauncherEntries' \in Nat
        /\ PrimaryEntries <= Settled
    BY DEF Paid, Counts
  <1>2. LauncherEntries <= K * Settled
    BY DEF Paid
  <1>3. \/ Settled <= Settled' /\ LauncherEntries' <= LauncherEntries
        \/ Settled + 1 <= Settled' /\ LauncherEntries' <= LauncherEntries + K
    OBVIOUS
  <1>4. LauncherEntries' <= K * Settled'
    BY <1>1, <1>2, <1>3, Payment
  <1>5. PrimaryEntries' <= Settled'
    BY <1>1
  <1> QED
    BY <1>4, <1>5 DEF Paid

LEMMA Difference ==
    ASSUME NEW t \in Nat, NEW q \in Nat, NEW r \in Nat, r <= q, t - q \in Nat
    PROVE  t - r \in Nat /\ t - q <= t - r /\ (r + 1 <= q => (t - q) + 1 <= t - r)
  OBVIOUS

LEMMA SettledGrows ==
    ASSUME tries' = tries, tries \in Nat, Len(backlog) \in Nat, Len(backlog') \in Nat,
           Queue' <= Queue, Settled \in Nat
    PROVE  /\ Settled' \in Nat /\ Settled <= Settled'
           /\ Queue' + 1 <= Queue => Settled + 1 <= Settled'
  <1>1. Queue \in Nat /\ Queue' \in Nat
    BY DEF Queue
  <1>2. Settled = tries - Queue /\ Settled' = tries - Queue'
    BY DEF Settled
  <1> QED
    BY <1>1, <1>2, Difference

LEMMA AtMostOneMore ==
    ASSUME NEW n \in Nat, NEW e \in {0, 1}
    PROVE  n + e \in Nat
  OBVIOUS

LEMMA NextCounted ==
    ASSUME IsFiniteSet(toScan'), nr_primary_ctrs' \in Nat, nr_secondary_ctrs' \in Nat
    PROVE  PrimaryEntries' \in Nat /\ LauncherEntries' \in Nat
  <1>1. Cardinality(toScan') \in Nat
    BY FS_CardinalityType
  <1>2. PrimaryEntries' \in Nat
    BY AtMostOneMore DEF PrimaryEntries
  <1>3. LauncherEntries' \in Nat
    BY <1>1 DEF LauncherEntries
  <1> QED
    BY <1>2, <1>3

\* Most steps: the queue does not grow, and no more entries are due.
LEMMA StepOwesNoMore ==
    ASSUME NEW K \in Nat, Paid(K), tries' = tries,
           tries \in Nat, Len(backlog) \in Nat, Len(backlog') \in Nat,
           Queue' <= Queue,
           IsFiniteSet(toScan'), nr_primary_ctrs' \in Nat, nr_secondary_ctrs' \in Nat,
           \/ PrimaryEntries' <= PrimaryEntries /\ LauncherEntries' <= LauncherEntries
           \/ /\ Queue' + 1 <= Queue
              /\ PrimaryEntries' <= PrimaryEntries + 1
              /\ LauncherEntries' <= LauncherEntries + K
    PROVE  Paid(K)'
  <1>1. Settled \in Nat
    BY DEF Paid, Counts
  <1>2. /\ Settled' \in Nat /\ Settled <= Settled'
        /\ Queue' + 1 <= Queue => Settled + 1 <= Settled'
    BY <1>1, SettledGrows
  <1>3. Counts'
    BY <1>2, NextCounted DEF Counts
  <1> QED
    BY <1>2, <1>3, StepPays

LEMMA NextPays ==
    ASSUME NEW K, SmallPods(K), IInv, ControlTyped, Paid(K), [Next]_vars
    PROVE  Paid(K)'
  <1> USE DEF clients, serving, pod, primaries, secondaries
  <1>0. /\ K \in Nat /\ IsFiniteSet(toScan) /\ Cardinality(toScan) \in Nat
        /\ tries \in Nat /\ nr_primary_ctrs \in Nat /\ nr_secondary_ctrs \in Nat
        /\ Len(backlog) \in Nat /\ backlog \in Seq(Clients)
    BY FS_CardinalityType DEF SmallPods, Paid, IInv, TablesTyped, Served, ControlTyped
  <1>1. ASSUME NEW c \in Clients, Connect(c) PROVE Paid(K)'
    <2>1. /\ tries' = tries + 1 /\ Len(backlog') = Len(backlog) + 1
          /\ UNCHANGED <<lpc, toScan, nr_primary_ctrs, nr_secondary_ctrs>>
      BY <1>0, <1>1 DEF Connect
    <2>2. Queue' = Queue + 1 /\ Queue \in Nat
      BY <1>0, <2>1 DEF Queue
    <2>3. Settled' = Settled
      BY <1>0, <2>1, <2>2 DEF Settled
    <2>4. PrimaryEntries' = PrimaryEntries /\ LauncherEntries' = LauncherEntries
      BY <2>1 DEF PrimaryEntries, LauncherEntries
    <2> QED
      BY <2>1, <2>3, <2>4 DEF Paid, Counts
  <1>2. CASE Accept
    <2>1. /\ lpc = "accept" /\ lpc' = "read" /\ Len(backlog') = Len(backlog) - 1
          /\ Len(backlog') \in Nat
          /\ UNCHANGED <<tries, toScan, nr_primary_ctrs, nr_secondary_ctrs>>
      BY <1>0, <1>2 DEF Accept
    <2>2. Queue' <= Queue /\ PrimaryEntries' <= PrimaryEntries
          /\ LauncherEntries' <= LauncherEntries
      BY <1>0, <2>1 DEF Queue, PrimaryEntries, LauncherEntries
    <2> QED
      BY <1>0, <2>1, <2>2, StepOwesNoMore
  <1>3. CASE ReadMore \/ ReadTimeout
    <2>1. /\ lpc = "read" /\ lpc' \in {"read", "parse", "accept"}
          /\ UNCHANGED <<tries, toScan, backlog, nr_primary_ctrs, nr_secondary_ctrs>>
      BY <1>3 DEF ReadMore, ReadTimeout, CloseWith, Goto
    <2>2. Queue' <= Queue /\ PrimaryEntries' <= PrimaryEntries
          /\ LauncherEntries' <= LauncherEntries
      BY <1>0, <2>1 DEF Queue, PrimaryEntries, LauncherEntries
    <2> QED
      BY <1>0, <2>1, <2>2, StepOwesNoMore
  <1>4. CASE Parse
    <2>1. /\ lpc = "parse"
          /\ UNCHANGED <<tries, backlog, nr_primary_ctrs, nr_secondary_ctrs>>
          /\ \/ lpc' \in {"accept", "reply", "list"} /\ UNCHANGED toScan
             \/ lpc' = "pod" /\ toScan' \in {PodContainers[message[client].pod], {}}
      BY <1>4 DEF Parse, CloseWith, Goto
    <2>2. Queue' + 1 <= Queue /\ PrimaryEntries' <= PrimaryEntries + 1
      BY <1>0, <2>1 DEF Queue, PrimaryEntries
    <2>3. message[client].pod \in DOMAIN PodContainers
      <3>1. client \in Clients
        BY <2>1 DEF IInv, Served
      <3>2. message[client] \in Messages
        BY <3>1 DEF IInv, TablesTyped
      <3> QED
        BY <3>2, MessagesAssumption
    <2>4. IsFiniteSet(toScan') /\ Cardinality(toScan') <= Cardinality(toScan) + K
          /\ Cardinality(toScan') \in Nat
      <3>1. CASE toScan' = toScan
        BY <1>0, <3>1
      <3>2. CASE toScan' = {}
        BY <1>0, <3>2, FS_EmptySet
      <3>3. CASE toScan' = PodContainers[message[client].pod]
        <4>1. IsFiniteSet(toScan') /\ Cardinality(toScan') <= K
          BY <2>3, <3>3 DEF SmallPods
        <4>2. Cardinality(toScan') \in Nat
          BY <4>1, FS_CardinalityType
        <4> QED
          BY <1>0, <4>1, <4>2
      <3> QED
        BY <2>1, <3>1, <3>2, <3>3
    <2>5. LauncherEntries' <= LauncherEntries + K
      BY <1>0, <2>1, <2>4 DEF LauncherEntries
    <2>6. Queue' <= Queue /\ Len(backlog') \in Nat
      BY <1>0, <2>1 DEF Queue
    <2> QED
      BY <1>0, <2>1, <2>2, <2>4, <2>5, <2>6, StepOwesNoMore
  <1>5. CASE ParseCpuList \/ CountPrimary \/ Reply
    <2>1. /\ UNCHANGED <<tries, toScan, backlog, nr_secondary_ctrs>>
          /\ \/ lpc = "list" /\ lpc' = "numbers" /\ UNCHANGED nr_primary_ctrs
             \/ lpc = "publish" /\ lpc' = "reply" /\ nr_primary_ctrs' = nr_primary_ctrs + 1
             \/ lpc = "reply" /\ lpc' = "accept" /\ UNCHANGED nr_primary_ctrs
      BY <1>5 DEF ParseCpuList, CountPrimary, Reply, CloseWith, Goto
    <2>4. Queue' <= Queue
      BY <1>0, <2>1 DEF Queue
    <2>5. PrimaryEntries' <= PrimaryEntries
      BY <1>0, <2>1 DEF PrimaryEntries
    <2>6. LauncherEntries' <= LauncherEntries
      BY <1>0, <2>1 DEF LauncherEntries
    <2>2. Queue' <= Queue /\ PrimaryEntries' <= PrimaryEntries
          /\ LauncherEntries' <= LauncherEntries
      BY <2>4, <2>5, <2>6
    <2>3. nr_primary_ctrs' \in Nat
      BY <1>0, <2>1
    <2> QED
      BY <1>0, <2>1, <2>2, <2>3, StepOwesNoMore
  <1>6. CASE ParseNumbers
    <2>1. /\ lpc = "numbers"
          /\ UNCHANGED <<tries, toScan, nr_primary_ctrs, nr_secondary_ctrs>>
          /\ \/ lpc' = "publish" /\ UNCHANGED backlog
             \/ lpc' = "exited" /\ backlog' = <<>>
      BY <1>6 DEF ParseNumbers, ProcessEnds, Goto
    <2>2. Len(backlog') \in Nat /\ Len(backlog') <= Len(backlog)
      BY <1>0, <2>1
    <2>3. Queue' <= Queue /\ PrimaryEntries' <= PrimaryEntries
          /\ LauncherEntries' <= LauncherEntries
      BY <1>0, <2>1, <2>2 DEF Queue, PrimaryEntries, LauncherEntries
    <2> QED
      BY <1>0, <2>1, <2>2, <2>3, StepOwesNoMore
  <1>7. CASE OpenTasks
    <2>1. PICK next \in toScan : toScan' = toScan \ {next}
      BY <1>7 DEF OpenTasks
    <2>2. /\ lpc = "pod" /\ lpc' \in {"tasks", "pod"}
          /\ UNCHANGED <<tries, backlog, nr_primary_ctrs, nr_secondary_ctrs>>
      BY <1>7 DEF OpenTasks, Goto
    <2>3. IsFiniteSet(toScan') /\ Cardinality(toScan') = Cardinality(toScan) - 1
          /\ Cardinality(toScan') \in Nat
      BY <1>0, <2>1, FS_RemoveElement, FS_CardinalityType
    <2>4. Queue' <= Queue /\ PrimaryEntries' <= PrimaryEntries
          /\ LauncherEntries' <= LauncherEntries
      BY <1>0, <2>2, <2>3 DEF Queue, PrimaryEntries, LauncherEntries
    <2> QED
      BY <1>0, <2>2, <2>3, <2>4, StepOwesNoMore
  <1>8. CASE SearchTasks \/ StoreLauncher \/ CountLauncher \/ ClearFlag
    <2>1. /\ UNCHANGED <<tries, toScan, backlog, nr_primary_ctrs>>
          /\ \/ /\ lpc \in {"tasks", "launcher"} /\ UNCHANGED nr_secondary_ctrs
                /\ lpc' \in {"launcher", "count", "pod"}
             \/ lpc = "count" /\ lpc' = "clear" /\ nr_secondary_ctrs' = nr_secondary_ctrs + 1
             \/ lpc = "clear" /\ lpc' = "pod" /\ UNCHANGED nr_secondary_ctrs
      BY <1>8 DEF SearchTasks, StoreLauncher, CountLauncher, ClearFlag, Goto
    <2>4. Queue' <= Queue
      BY <1>0, <2>1 DEF Queue
    <2>5. PrimaryEntries' <= PrimaryEntries
      BY <1>0, <2>1 DEF PrimaryEntries
    <2>6. LauncherEntries' <= LauncherEntries
      BY <1>0, <2>1 DEF LauncherEntries
    <2>2. Queue' <= Queue /\ PrimaryEntries' <= PrimaryEntries
          /\ LauncherEntries' <= LauncherEntries
      BY <2>4, <2>5, <2>6
    <2>3. nr_secondary_ctrs' \in Nat
      BY <1>0, <2>1
    <2> QED
      BY <1>0, <2>1, <2>2, <2>3, StepOwesNoMore
  <1>9. CASE EndPod \/ Activate \/ Signal
    <2>1. /\ UNCHANGED <<tries, nr_primary_ctrs, nr_secondary_ctrs>>
          /\ lpc' \in {"activate", "reply", "exited"}
          /\ backlog' \in {backlog, <<>>} /\ toScan' \in {toScan, {}}
      BY <1>9 DEF EndPod, Activate, Signal, ProcessEnds, LeavePod, Goto
    <2>4. Len(<<>>) = 0 /\ IsFiniteSet({}) /\ Cardinality({}) = 0
      BY FS_EmptySet
    <2>5. backlog' = backlog \/ backlog' = <<>>
      BY <2>1
    <2>6. toScan' = toScan \/ toScan' = {}
      BY <2>1
    <2>7. Len(backlog') \in Nat /\ Len(backlog') <= Len(backlog)
      BY <1>0, <2>4, <2>5
    <2>8. /\ IsFiniteSet(toScan') /\ Cardinality(toScan') \in Nat
          /\ Cardinality(toScan') <= Cardinality(toScan)
      <3>1. CASE toScan' = toScan
        BY <1>0, <3>1
      <3>2. CASE toScan' = {}
        BY <1>0, <2>4, <3>2
      <3> QED
        BY <2>6, <3>1, <3>2
    <2>2. /\ Len(backlog') \in Nat /\ Len(backlog') <= Len(backlog)
          /\ IsFiniteSet(toScan') /\ Cardinality(toScan') \in Nat
          /\ Cardinality(toScan') <= Cardinality(toScan)
      BY <2>7, <2>8
    <2>3. Queue' <= Queue /\ PrimaryEntries' <= PrimaryEntries
          /\ LauncherEntries' <= LauncherEntries
      BY <1>0, <2>1, <2>2 DEF Queue, PrimaryEntries, LauncherEntries
    <2> QED
      BY <1>0, <2>1, <2>2, <2>3, StepOwesNoMore
  <1>10. CASE Restart \/ StopBalancer \/ UNCHANGED vars \/ \E c \in Clients : Send(c)
    <2>1. /\ UNCHANGED <<tries, toScan, backlog, nr_primary_ctrs, nr_secondary_ctrs>>
          /\ UNCHANGED lpc \/ (lpc = "exited" /\ lpc' = "accept")
      BY <1>10 DEF Restart, StopBalancer, vars, Send
    <2>2. Queue' <= Queue /\ PrimaryEntries' <= PrimaryEntries
          /\ LauncherEntries' <= LauncherEntries
      BY <1>0, <2>1 DEF Queue, PrimaryEntries, LauncherEntries
    <2> QED
      BY <1>0, <2>1, <2>2, StepOwesNoMore
  <1> QED
    BY <1>1, <1>2, <1>3, <1>4, <1>5, <1>6, <1>7, <1>8, <1>9, <1>10
    DEF Next, ListenerStep, SearchPod

\* The tables do not overflow as long as fewer connections are made than they have
\* entries, and K times as many for pods of K containers: that a count is never
\* compared with MAX_CONTAINERS then does no harm, whatever is repeated, cut off,
\* malformed or cancelled (listener.cpp:157, getpids.c:56-60).
THEOREM TablesHaveRoom ==
    ASSUME NEW K, SmallPods(K), MaxTries < MaxContainers, K * MaxTries < MaxContainers
    PROVE  Spec => []Room
  <1>1. Init => Paid(K)
    <2> SUFFICES ASSUME Init PROVE Paid(K)
      OBVIOUS
    <2>1. /\ tries = 0 /\ backlog = <<>> /\ lpc = "accept" /\ toScan = {}
          /\ nr_primary_ctrs = 0 /\ nr_secondary_ctrs = 0 /\ Len(<<>>) = 0
      BY DEF Init
    <2>2. K * 0 = 0 /\ IsFiniteSet({}) /\ Cardinality({}) = 0
      BY FS_EmptySet DEF SmallPods
    <2>6. Len(backlog) = 0 /\ Cardinality(toScan) = 0
      BY <2>1, <2>2
    <2>7. Queue = 0
      BY <2>1, <2>6 DEF Queue
    <2>3. Settled = 0 /\ PrimaryEntries = 0 /\ LauncherEntries = 0
      BY <2>1, <2>6, <2>7 DEF Settled, PrimaryEntries, LauncherEntries
    <2>4. K * Settled = 0
      BY <2>2, <2>3
    <2>5. IsFiniteSet(toScan)
      BY <2>1, <2>2
    <2> QED
      BY <2>3, <2>4, <2>5 DEF Paid, Counts
  <1>2. ASSUME IInv, ControlTyped, Paid(K) PROVE Room
    <2>1. /\ K \in Nat /\ tries \in Nat /\ Len(backlog) \in Nat /\ Cardinality(toScan) \in Nat
          /\ nr_primary_ctrs \in Nat /\ nr_secondary_ctrs \in Nat
      BY <1>2, FS_CardinalityType DEF SmallPods, Paid, IInv, TablesTyped, Served, ControlTyped
    <2>2. tries <= MaxTries /\ MaxTries \in Nat /\ MaxContainers \in Nat
      BY <1>2, BoundsAssumption DEF ControlTyped
    <2>3. Settled \in Nat /\ Settled <= MaxTries
      BY <1>2, <2>1, <2>2 DEF Paid, Counts, Settled, Queue
    <2>4. nr_primary_ctrs <= PrimaryEntries /\ nr_secondary_ctrs <= LauncherEntries
      BY <2>1 DEF PrimaryEntries, LauncherEntries
    <2>5. /\ PrimaryEntries \in Nat /\ LauncherEntries \in Nat
          /\ PrimaryEntries <= Settled /\ LauncherEntries <= K * Settled
      BY <1>2 DEF Paid, Counts
    <2>6. K * Settled <= K * MaxTries
      BY <2>1, <2>2, <2>3, ProductGrows
    <2>7. K * Settled \in Nat /\ K * MaxTries \in Nat
      BY <2>1, <2>2, <2>3, Product
    <2>8. nr_secondary_ctrs < MaxContainers
      BY <2>1, <2>2, <2>4, <2>5, <2>6, <2>7
    <2>9. nr_primary_ctrs < MaxContainers
      BY <2>1, <2>2, <2>3, <2>4, <2>5
    <2> QED
      BY <2>8, <2>9 DEF Room
  <1>3. IInv /\ ControlTyped /\ Paid(K) /\ [Next]_vars => Paid(K)'
    BY NextPays
  <1> QED
    BY <1>1, <1>2, <1>3, InitIInv, InitControl, NextIInv, NextTypes, PTL DEF Spec

\* So with tables that large what is registered is complete, and every ACK for a
\* Primary stands for an entry, without a hypothesis on the behaviour.
THEOREM RegistersWithinBounds ==
    ASSUME NEW K, SmallPods(K), MaxTries < MaxContainers, K * MaxTries < MaxContainers
    PROVE  Spec => [](TypeOK /\ TablesComplete /\ AckedIsRegistered)
  BY TablesHaveRoom, TypeCorrect, CompleteWhileRoom, AcknowledgedAreRegistered, PTL
==============================================================================
