------------------------------- MODULE Listener -------------------------------
(***************************************************************************)
(* The Listener process (src/Listener/listener.cpp, getpids.c).  Clients   *)
(* connect, send one message each and wait for an ACK; the connection      *)
(* thread serves one client at a time, enters Primaries and the launchers  *)
(* of Secondary pods into the tables of the shared page, and activates the *)
(* paused Balancer.  A client may be slower than the timeout of a read, a  *)
(* message may be malformed, SIGUSR1 may cancel the thread, and a number   *)
(* that does not parse ends the process; the page outlives all of this.    *)
(***************************************************************************)
EXTENDS Integers, Sequences, FiniteSets

CONSTANTS Clients,
          Messages,       \* what a client may want to send
          PodContainers,  \* PodContainers[pod]: container directories of a pod
          MaxTries,       \* bound on the connections of all clients
          MaxContainers   \* entries of each table; the code never tests it

ASSUME BoundsAssumption == MaxTries \in Nat /\ MaxContainers \in Nat
ASSUME MessagesAssumption ==
    \A m \in Messages :
        /\ m.kind \in {"Primary", "Secondary", "other"}
        /\ m.form \in {"good", "notJson", "missingField", "notNumber"}
        /\ m.list \in Seq(Nat) /\ m.target \in Nat
        /\ m.pod \in DOMAIN PodContainers

VARIABLES message,      \* message[c]: what client c sends, chosen once
          conn,         \* "away", "queued", "accepted" or "closed"
          sent,         \* how much of its message a client has sent
          reply,        \* "none" or "ACK"
          tries,        \* connections made so far
          backlog,      \* connections the kernel holds for accept
          lpc,          \* where the connection thread is
          client,       \* the client it serves
          payload,      \* how much read_payload has received
          toScan, container, failed,   \* the pod being searched
          balancerControl, updatingPids,
          primary_ctrs, nr_primary_ctrs,
          secondary_ctrs, nr_secondary_ctrs,
          received,     \* history: messages of a client received whole
          interrupted   \* history: a scan was cancelled

clients == <<message, conn, sent, reply, tries, backlog>>
serving == <<lpc, client, payload, received>>
pod == <<toScan, container, failed>>
primaries == <<primary_ctrs, nr_primary_ctrs>>
secondaries == <<secondary_ctrs, nr_secondary_ctrs>>
vars == <<clients, serving, pod, primaries, secondaries, balancerControl,
          updatingPids, interrupted>>

Nobody == 0
Pids == UNION {PodContainers[p] : p \in DOMAIN PodContainers}
Index == 0..(MaxContainers - 1)
Scanning == {"tasks", "count", "clear"}

\* What handle_connection makes of a Primary message.
EntryOf(c) ==
    LET m == message[c]
    IN  [from |-> c, cpuList |-> m.list, NUMCPUS |-> Len(m.list),
         targetIdleCores |-> m.target, totalEligibleCores |-> Len(m.list),
         maxSecondaryCores |-> Len(m.list) - m.target]

NoEntry == [from |-> Nobody, cpuList |-> <<>>, NUMCPUS |-> 0,
            targetIdleCores |-> 0, totalEligibleCores |-> 0, maxSecondaryCores |-> 0]
NoPid == 0
ASSUME PodsAssumption == NoPid \notin Pids

TypeOK ==
    /\ message \in [Clients -> Messages]
    /\ conn \in [Clients -> {"away", "queued", "accepted", "closed"}]
    /\ sent \in [Clients -> {"nothing", "part", "all"}]
    /\ reply \in [Clients -> {"none", "ACK"}]
    /\ tries \in 0..MaxTries
    /\ backlog \in Seq(Clients)
    /\ lpc \in {"accept", "read", "parse", "list", "numbers", "publish",
                "pod", "launcher", "activate", "reply", "exited"} \cup Scanning
    /\ client \in Clients \cup {Nobody}
    /\ payload \in {"nothing", "part", "all"}
    /\ toScan \subseteq Pids /\ container \in Pids \cup {NoPid}
    /\ failed \in BOOLEAN /\ interrupted \in BOOLEAN
    /\ balancerControl \in {-1, 0, 1}
    /\ updatingPids \in {0, 1}
    /\ nr_primary_ctrs \in 0..MaxContainers
    /\ nr_secondary_ctrs \in 0..MaxContainers
    /\ DOMAIN primary_ctrs = Index
    /\ secondary_ctrs \in [Index -> Pids \cup {NoPid}]
    /\ received \in [Clients -> Nat]

Init ==
    /\ message \in [Clients -> Messages]
    /\ conn = [c \in Clients |-> "away"]
    /\ sent = [c \in Clients |-> "nothing"]
    /\ reply = [c \in Clients |-> "none"]
    /\ tries = 0
    /\ backlog = <<>>
    /\ lpc = "accept" /\ client = Nobody /\ payload = "nothing"
    /\ toScan = {} /\ container = NoPid /\ failed = FALSE
    /\ balancerControl = 0
    /\ updatingPids = 0
    /\ primary_ctrs = [i \in Index |-> NoEntry] /\ nr_primary_ctrs = 0
    /\ secondary_ctrs = [i \in Index |-> NoPid] /\ nr_secondary_ctrs = 0
    /\ received = [c \in Clients |-> 0]
    /\ interrupted = FALSE

-----------------------------------------------------------------------------
(* The clients (TestFramework/bin/send_*_info.py).  One that was turned away *)
(* without an ACK may be started again.                                    *)

Connect(c) ==
    /\ lpc # "exited"
    /\ conn[c] \in {"away", "closed"} /\ reply[c] = "none"
    /\ tries < MaxTries
    /\ conn' = [conn EXCEPT ![c] = "queued"]
    /\ tries' = tries + 1
    /\ backlog' = Append(backlog, c)
    /\ UNCHANGED <<message, sent, reply, serving, pod, primaries, secondaries,
                   balancerControl, updatingPids, interrupted>>

Send(c) ==
    /\ conn[c] \in {"queued", "accepted"}
    /\ \/ sent[c] = "nothing" /\ sent' \in {[sent EXCEPT ![c] = s] : s \in {"part", "all"}}
       \/ sent[c] = "part" /\ sent' = [sent EXCEPT ![c] = "all"]
    /\ UNCHANGED <<message, conn, reply, tries, backlog, serving, pod, primaries,
                   secondaries, balancerControl, updatingPids, interrupted>>

-----------------------------------------------------------------------------
(* The connection thread. *)

Goto(l) == lpc' = l /\ UNCHANGED <<client, payload, received>>

\* close(sock), and back to the test of listenerControl.
CloseWith(r) ==
    /\ conn' = [conn EXCEPT ![client] = "closed"]
    /\ reply' = [reply EXCEPT ![client] = r]
    /\ sent' = [sent EXCEPT ![client] = "nothing"]
    /\ lpc' = "accept"
    /\ client' = Nobody
    /\ payload' = "nothing"
    /\ UNCHANGED <<message, tries, backlog, received>>

Accept ==
    /\ lpc = "accept"
    /\ backlog # <<>>
    /\ lpc' = "read"
    /\ client' = Head(backlog)
    /\ payload' = "nothing"
    /\ backlog' = Tail(backlog)
    /\ conn' = [conn EXCEPT ![Head(backlog)] = "accepted"]
    /\ UNCHANGED <<message, sent, reply, tries, received, pod, primaries, secondaries,
                   balancerControl, updatingPids, interrupted>>

\* read_payload appends what has arrived ...
ReadMore ==
    /\ lpc = "read"
    /\ payload # sent[client]
    /\ payload' = sent[client]
    /\ received' = IF sent[client] = "all"
                   THEN [received EXCEPT ![client] = @ + 1] ELSE received
    /\ UNCHANGED <<lpc, client, clients, pod, primaries, secondaries,
                   balancerControl, updatingPids, interrupted>>

\* Mutant: the timeout is tested only once something has come.
ReadTimeoutAfterData ==
    /\ lpc = "read"
    /\ payload # "nothing"
    /\ Goto("parse")
    /\ UNCHANGED <<clients, pod, primaries, secondaries, balancerControl, updatingPids,
                   interrupted>>

\* ... until nothing has come for a second.
ReadTimeout ==
    /\ lpc = "read"
    /\ IF payload = "nothing"
       THEN CloseWith("none")
       ELSE Goto("parse") /\ UNCHANGED clients
    /\ UNCHANGED <<pod, primaries, secondaries, balancerControl, updatingPids,
                   interrupted>>

\* Mutant: what has arrived is taken for the message.
ParsesAnything == message[client].form # "notJson"

\* The parser refuses every proper part of a message.
Parses == payload = "all" /\ message[client].form # "notJson"

\* All strings are fetched, and found missing, before the page is touched.
Parse ==
    /\ lpc = "parse"
    /\ LET m == message[client]
       IN  \/ /\ ~Parses \/ (m.form = "missingField" /\ m.kind # "other")
              /\ CloseWith("none")
              /\ UNCHANGED pod
           \/ /\ Parses /\ m.kind = "other"
              /\ Goto("reply")
              /\ UNCHANGED <<clients, pod>>
           \/ /\ Parses /\ m.kind = "Primary" /\ m.form # "missingField"
              /\ Goto("list")
              /\ UNCHANGED <<clients, pod>>
           \/ /\ Parses /\ m.kind = "Secondary" /\ m.form # "missingField"
              /\ Goto("pod")
              \* A pod without a directory has no containers, which is no failure.
              /\ toScan' \in {PodContainers[m.pod], {}}
              /\ failed' = FALSE
              /\ UNCHANGED <<clients, container>>
    /\ UNCHANGED <<primaries, secondaries, balancerControl, updatingPids, interrupted>>

\* Mutant: the entry is counted as soon as its list is stored.
ParseCpuListCounting ==
    /\ lpc = "list"
    /\ Goto("reply")
    /\ primary_ctrs' = [primary_ctrs EXCEPT
           ![nr_primary_ctrs].from = client,
           ![nr_primary_ctrs].cpuList = message[client].list,
           ![nr_primary_ctrs].NUMCPUS = Len(message[client].list)]
    /\ nr_primary_ctrs' = nr_primary_ctrs + 1
    /\ UNCHANGED <<clients, pod, secondaries, balancerControl, updatingPids, interrupted>>

\* parseCpuList stores into the entry behind the last counted one.
ParseCpuList ==
    /\ lpc = "list"
    /\ Goto("numbers")
    /\ primary_ctrs' = [primary_ctrs EXCEPT
           ![nr_primary_ctrs].from = client,
           ![nr_primary_ctrs].cpuList = message[client].list,
           ![nr_primary_ctrs].NUMCPUS = Len(message[client].list)]
    /\ UNCHANGED <<clients, pod, nr_primary_ctrs, secondaries, balancerControl,
                   updatingPids, interrupted>>

LeavePod == toScan' = {} /\ container' = NoPid /\ failed' = FALSE

\* All sockets of the process are closed by its end.
ProcessEnds ==
    /\ lpc' = "exited"
    /\ client' = Nobody
    /\ payload' = "nothing"
    /\ conn' = [c \in Clients |-> IF conn[c] = "away" THEN "away" ELSE "closed"]
    /\ backlog' = <<>>
    /\ sent' = [c \in Clients |-> "nothing"]
    /\ UNCHANGED <<message, reply, tries, received>>

\* stof and stoi throw what no handler catches.
ParseNumbers ==
    /\ lpc = "numbers"
    /\ IF message[client].form = "notNumber"
       THEN ProcessEnds /\ UNCHANGED primary_ctrs
       ELSE /\ Goto("publish")
            /\ primary_ctrs' = [primary_ctrs EXCEPT
                   ![nr_primary_ctrs].targetIdleCores = message[client].target,
                   ![nr_primary_ctrs].totalEligibleCores = primary_ctrs[nr_primary_ctrs].NUMCPUS,
                   ![nr_primary_ctrs].maxSecondaryCores =
                        primary_ctrs[nr_primary_ctrs].NUMCPUS - message[client].target]
            /\ UNCHANGED clients
    /\ UNCHANGED <<pod, nr_primary_ctrs, secondaries, balancerControl, updatingPids,
                   interrupted>>

CountPrimary ==
    /\ lpc = "publish"
    /\ Goto("reply")
    /\ nr_primary_ctrs' = nr_primary_ctrs + 1
    /\ UNCHANGED <<clients, pod, primary_ctrs, secondaries, balancerControl,
                   updatingPids, interrupted>>

Reply ==
    /\ lpc = "reply"
    /\ CloseWith("ACK")
    /\ UNCHANGED <<pod, primaries, secondaries, balancerControl, updatingPids,
                   interrupted>>

-----------------------------------------------------------------------------
(* get_containers and get_container_tasks. *)

\* The task file of the next container is opened, or cannot be.
OpenTasks ==
    /\ lpc = "pod"
    /\ \E next \in toScan :
          /\ toScan' = toScan \ {next}
          /\ container' = next
    /\ \/ Goto("tasks") /\ updatingPids' = 1 /\ UNCHANGED failed
       \/ Goto("pod") /\ failed' = TRUE /\ UNCHANGED updatingPids
    /\ UNCHANGED <<clients, primaries, secondaries, balancerControl, interrupted>>

\* Mutant: the error path forgets the flag.
SearchTasksKeepingFlag ==
    /\ lpc = "tasks"
    /\ \/ Goto("launcher") /\ UNCHANGED <<updatingPids, failed>>
       \/ Goto("pod") /\ updatingPids' = 0 /\ UNCHANGED failed
       \/ Goto("pod") /\ failed' = TRUE /\ UNCHANGED updatingPids
    /\ UNCHANGED <<clients, toScan, container, primaries, secondaries,
                   balancerControl, interrupted>>

\* Mutant: the flag is cleared when the launcher has been found.
FoundLauncherClearing ==
    /\ lpc = "tasks"
    /\ updatingPids' = 0
    /\ \/ Goto("launcher") /\ UNCHANGED failed
       \/ Goto("pod") /\ failed' \in {failed, TRUE}
    /\ UNCHANGED <<clients, toScan, container, primaries, secondaries,
                   balancerControl, interrupted>>

\* The tasks are read until the launcher, the end, or one that cannot be read.
SearchTasks ==
    /\ lpc = "tasks"
    /\ \/ Goto("launcher") /\ UNCHANGED <<updatingPids, failed>>
       \/ Goto("pod") /\ updatingPids' = 0 /\ UNCHANGED failed
       \/ Goto("pod") /\ updatingPids' = 0 /\ failed' = TRUE
    /\ UNCHANGED <<clients, toScan, container, primaries, secondaries,
                   balancerControl, interrupted>>

\* The launcher's PID goes into both tables at the first free index.
StoreLauncher ==
    /\ lpc = "launcher"
    /\ Goto("count")
    /\ secondary_ctrs' = [secondary_ctrs EXCEPT ![nr_secondary_ctrs] = container]
    /\ UNCHANGED <<clients, pod, primaries, nr_secondary_ctrs, balancerControl,
                   updatingPids, interrupted>>

CountLauncher ==
    /\ lpc = "count"
    /\ Goto("clear")
    /\ nr_secondary_ctrs' = nr_secondary_ctrs + 1
    /\ UNCHANGED <<clients, pod, primaries, secondary_ctrs, balancerControl,
                   updatingPids, interrupted>>

ClearFlag ==
    /\ lpc = "clear"
    /\ Goto("pod")
    /\ updatingPids' = 0
    /\ UNCHANGED <<clients, pod, primaries, secondaries, balancerControl, interrupted>>

\* A pod with a failed container never starts the Balancer, one without any
\* launcher does.
EndPod ==
    /\ lpc = "pod"
    /\ toScan = {}
    /\ Goto(IF ~failed /\ balancerControl = 0 THEN "activate" ELSE "reply")
    /\ LeavePod
    /\ UNCHANGED <<clients, primaries, secondaries, balancerControl, updatingPids,
                   interrupted>>

Activate ==
    /\ lpc = "activate"
    /\ Goto("reply")
    /\ balancerControl' = 1
    /\ UNCHANGED <<clients, pod, primaries, secondaries, updatingPids, interrupted>>

SearchPod == \/ OpenTasks \/ SearchTasks \/ StoreLauncher \/ CountLauncher
             \/ ClearFlag \/ EndPod \/ Activate

ListenerStep == \/ Accept \/ ReadMore \/ ReadTimeout \/ Parse \/ ParseCpuList
                \/ ParseNumbers \/ CountPrimary \/ Reply \/ SearchPod

-----------------------------------------------------------------------------
(* The end of the process and its next start. *)

\* handle_signal cancels the thread at its next cancellation point: a blocking
\* call, or one that prints or closes a file.
Signal ==
    /\ lpc \in {"accept", "read", "parse", "list", "numbers", "pod", "tasks",
                "launcher", "clear", "reply"}
    /\ ProcessEnds
    /\ LeavePod
    /\ interrupted' = (interrupted \/ updatingPids = 1)
    /\ UNCHANGED <<primaries, secondaries, balancerControl, updatingPids>>

\* main: the page is mapped, not cleared.  Binding the port may fail, and then
\* the process ends again.
Restart ==
    /\ lpc = "exited"
    /\ lpc' = "accept"
    /\ UNCHANGED <<clients, client, payload, received, pod, primaries, secondaries,
                   balancerControl, updatingPids, interrupted>>

\* SIGUSR1 to the Balancer.
StopBalancer ==
    /\ balancerControl = 1
    /\ balancerControl' = -1
    /\ UNCHANGED <<clients, serving, pod, primaries, secondaries, updatingPids,
                   interrupted>>

Next == \/ \E c \in Clients : Connect(c) \/ Send(c)
        \/ ListenerStep
        \/ Signal \/ Restart \/ StopBalancer

Spec == Init /\ [][Next]_vars

\* The thread blocks in accept and, for a second at most, in read; everything
\* else it calls returns.
FairSpec == Spec /\ WF_vars(ListenerStep)

-----------------------------------------------------------------------------
(* Properties. *)

\* What the Balancer and the Monitor find in the counted part of the tables is
\* complete, whatever ended earlier registrations half-way: every Primary entry
\* is one whole, well-formed message, every Secondary entry names a launcher
\* (listener.cpp, handle_connection; getpids.c, get_container_tasks).
TablesComplete ==
    /\ \A i \in 0..(nr_primary_ctrs - 1) :
          \E c \in Clients : /\ primary_ctrs[i] = EntryOf(c)
                             /\ message[c].kind = "Primary" /\ message[c].form = "good"
    /\ \A i \in 0..(nr_secondary_ctrs - 1) : secondary_ctrs[i] # NoPid

\* A client that holds an ACK for a Primary is registered, and nobody is
\* registered more often than a message of his arrived whole: a message cut off
\* by the timeout has no effect (listener.cpp, read_payload, handle_connection).
AckedIsRegistered ==
    \A c \in Clients :
        LET mine == {i \in 0..(nr_primary_ctrs - 1) : primary_ctrs[i].from = c}
        IN  /\ reply[c] = "ACK" /\ message[c].kind = "Primary" => mine # {}
            /\ Cardinality(mine) <= received[c]

\* The Secondary tables change only while the flag that holds off the Balancer
\* is up, from before the first store until after the last (getpids.c:40).
TablesUnderFlag ==
    [][secondaries' # secondaries => updatingPids = 1 /\ updatingPids' = 1]_vars

\* Every way out of a scan clears the flag, except a cancellation: otherwise no
\* grant would ever be published again (getpids.c:48, 53, 63, 72).
FlagCleared ==
    updatingPids = 1 => lpc \in Scanning \cup {"launcher"} \/ interrupted

\* No client waits for ever: one that stays silent is turned away after the
\* timeout and does not block those behind it (listener.cpp, read_payload).
ClientsAnswered ==
    \A c \in Clients : conn[c] = "queued" ~> conn[c] = "closed"
=============================================================================
