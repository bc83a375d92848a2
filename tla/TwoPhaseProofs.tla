--------------------------- MODULE TwoPhaseProofs ---------------------------
(***************************************************************************)
(* Theorems about TwoPhaseAffinity, for any number of containers, tasks,   *)
(* cores and requests, and any size of the PID lists.                      *)
(***************************************************************************)
EXTENDS TwoPhaseAffinity, SequenceTheorems, FiniteSetTheorems, TLAPS

(***************************************************************************)
(* Sequences of tasks.                                                     *)
(***************************************************************************)

\* A child is added to the tasks of its container.
LEMMA AppendElements ==
    ASSUME NEW s \in Seq(Tasks), NEW t \in Tasks
    PROVE  /\ Append(s, t) \in Seq(Tasks)
           /\ Elements(Append(s, t)) = Elements(s) \cup {t}
  <1>1. /\ Append(s, t) \in Seq(Tasks)
        /\ Len(Append(s, t)) = Len(s) + 1
        /\ \A i \in 1..Len(s) : Append(s, t)[i] = s[i]
        /\ Append(s, t)[Len(s) + 1] = t
    BY AppendProperties
  <1>2. DOMAIN Append(s, t) = 1..(Len(s) + 1) /\ DOMAIN s = 1..Len(s) /\ Len(s) \in Nat
    BY <1>1, LenProperties
  <1> QED
    BY <1>1, <1>2 DEF Elements

\* Without the task at position i the others are still there.
LEMMA DropElements ==
    ASSUME NEW s \in Seq(Tasks), NEW i \in DOMAIN s
    PROVE  LET d == SubSeq(s, 1, i - 1) \o SubSeq(s, i + 1, Len(s))
           IN  /\ d \in Seq(Tasks)
               /\ Elements(d) \subseteq Elements(s)
               /\ \A t \in Elements(s) : t # s[i] => t \in Elements(d)
  <1> DEFINE a == SubSeq(s, 1, i - 1)
             b == SubSeq(s, i + 1, Len(s))
             d == a \o b
  <1>1. Len(s) \in Nat /\ i \in 1..Len(s) /\ DOMAIN s = 1..Len(s)
    BY LenProperties
  <1>2. /\ a \in Seq(Tasks) /\ Len(a) = i - 1
        /\ \A j \in 1..(i - 1) : a[j] = s[j]
    BY <1>1
  <1>3. /\ b \in Seq(Tasks) /\ Len(b) = Len(s) - i
        /\ \A j \in 1..(Len(s) - i) : b[j] = s[i + j]
    BY <1>1
  <1>4. /\ d \in Seq(Tasks) /\ Len(d) = Len(s) - 1
        /\ \A j \in 1..(i - 1) : d[j] = s[j]
        /\ \A j \in i..(Len(s) - 1) : d[j] = s[j + 1]
    <2> HIDE DEF a, b
    <2>1. /\ d \in Seq(Tasks) /\ Len(d) = Len(a) + Len(b)
          /\ \A j \in 1..(Len(a) + Len(b)) :
                d[j] = IF j <= Len(a) THEN a[j] ELSE b[j - Len(a)]
      <3>1. a \in Seq(Tasks) /\ b \in Seq(Tasks)
        BY <1>2, <1>3
      <3> QED
        BY <3>1, ConcatProperties, Zenon
    <2>2. Len(d) = Len(s) - 1
      BY <2>1, <1>1, <1>2, <1>3
    <2>3. ASSUME NEW j \in 1..(i - 1)
          PROVE  d[j] = s[j]
      BY <2>1, <2>2, <1>1, <1>2
    <2>4. ASSUME NEW j \in i..(Len(s) - 1)
          PROVE  d[j] = s[j + 1]
      <3>1. d[j] = b[j - (i - 1)] /\ j - (i - 1) \in 1..(Len(s) - i)
        BY <2>1, <2>2, <1>1, <1>2
      <3>2. i + (j - (i - 1)) = j + 1
        BY <1>1
      <3> QED
        BY <3>1, <3>2, <1>3
    <2> QED
      BY <2>1, <2>2, <2>3, <2>4
  <1> HIDE DEF d
  <1>5. DOMAIN d = 1..(Len(s) - 1)
    BY <1>4, <1>1, LenProperties
  <1>6. Elements(d) \subseteq Elements(s)
    <2>1. \A j \in DOMAIN d : j < i => d[j] = s[j] /\ j \in DOMAIN s
      BY <1>1, <1>4, <1>5
    <2>2. \A j \in DOMAIN d : ~(j < i) => d[j] = s[j + 1] /\ j + 1 \in DOMAIN s
      <3>1. \A j \in DOMAIN d : ~(j < i) => j \in i..(Len(s) - 1) /\ j + 1 \in DOMAIN s
        BY <1>1, <1>5
      <3> QED
        BY <3>1, <1>4
    <2> QED
      BY <2>1, <2>2 DEF Elements
  <1>7. ASSUME NEW t \in Elements(s), t # s[i]
        PROVE  t \in Elements(d)
    <2>1. PICK j \in DOMAIN s : t = s[j]
      BY DEF Elements
    <2>2. CASE j < i
      <3>1. j \in DOMAIN d /\ d[j] = t
        BY <2>1, <2>2, <1>1, <1>4, <1>5
      <3> QED
        BY <3>1 DEF Elements
    <2>3. CASE j > i
      <3>1. j - 1 \in DOMAIN d /\ j - 1 \in i..(Len(s) - 1)
        BY <2>3, <1>1, <1>5
      <3>2. d[j - 1] = t
        BY <3>1, <2>1, <1>1, <1>4
      <3> QED
        BY <3>1, <3>2 DEF Elements
    <2> QED
      BY <2>1, <2>2, <2>3, <1>1, <1>7
  <1> QED
    BY <1>4, <1>6, <1>7 DEF d

\* The cache holds the first tasks of a container, as many as fit.
LEMMA CachedFacts ==
    ASSUME NEW s \in Seq(Tasks)
    PROVE  /\ Cached(s) \in Seq(Tasks)
           /\ Len(Cached(s)) <= PidListSize
           /\ Elements(Cached(s)) \subseteq Elements(s)
  <1> DEFINE n == IF Len(s) > PidListSize THEN PidListSize ELSE Len(s)
  <1>1. n \in 0..Len(s) /\ n <= PidListSize /\ DOMAIN s = 1..Len(s) /\ Len(s) \in Nat
    BY SizeAssumption, LenProperties
  <1> HIDE DEF n
  <1>2. /\ SubSeq(s, 1, n) \in Seq(Tasks)
        /\ Len(SubSeq(s, 1, n)) = n
        /\ \A j \in 1..n : SubSeq(s, 1, n)[j] = s[j]
    BY <1>1
  <1>3. DOMAIN SubSeq(s, 1, n) = 1..n
    BY <1>1, <1>2, LenProperties
  <1>4. Elements(SubSeq(s, 1, n)) \subseteq Elements(s)
    BY <1>1, <1>2, <1>3 DEF Elements
  <1> QED
    BY <1>1, <1>2, <1>4 DEF Cached, n

(***************************************************************************)
(* Masks.                                                                  *)
(***************************************************************************)

\* The mask of phase 2 has an online core.
LEMMA MaskFacts ==
    ASSUME TypeOK
    PROVE  FullMask \subseteq Nat /\ FullMask \cap Online # {}
  <1>1. Granted \subseteq Nat
    BY SizeAssumption DEF TypeOK, Granted
  <1> QED
    BY <1>1, CoreAssumption DEF FullMask, Online

\* The entry for the next pinned task is a number.
LEMMA EntryFacts ==
    ASSUME TypeOK
    PROVE  /\ NextEntry \in Nat \ {0}
           /\ Entry(NextEntry) \in Nat
  <1>1. NextEntry \in Nat \ {0}
    BY DEF TypeOK, NextEntry
  <1>2. \A i \in Nat \ {0} : Entry(i) \in Nat
    BY SizeAssumption DEF TypeOK, Entry
  <1> QED
    BY <1>1, <1>2

\* A running task is a task that exists.
LEMMA AliveTasks ==
    ASSUME TypeOK
    PROVE  Alive \subseteq Tasks
  <1>1. \A c \in Containers : \A i \in DOMAIN group[c] : group[c][i] \in Tasks
    BY LenProperties, ElementOfSeq DEF TypeOK
  <1> QED
    BY <1>1 DEF Alive, Elements

\* The kernel changes the mask of one task, and of none if no core is online.
LEMMA SetFacts ==
    ASSUME TypeOK, NEW t \in Tasks, NEW mask \in SUBSET Nat, SetCpusAllowed(t, mask)
    PROVE  /\ allowed' \in [Tasks -> SUBSET Nat]
           /\ cpu' \in [Tasks -> Nat \cup {Nowhere}]
           /\ \A u \in Tasks : u # t => allowed'[u] = allowed[u]
           /\ mask \cap Online # {} => allowed'[t] = mask
           /\ \A u \in Tasks : cpu'[u] # Nowhere => cpu[u] # Nowhere
  <1>1. CASE mask \cap Online = {}
    BY <1>1 DEF SetCpusAllowed, TypeOK
  <1>2. CASE mask \cap Online # {}
    <2>1. allowed' = [allowed EXCEPT ![t] = mask]
      BY <1>2 DEF SetCpusAllowed
    <2>2. CASE cpu[t] # Nowhere /\ cpu[t] \notin mask
      <3>1. PICK c \in mask \cap Online : cpu' = [cpu EXCEPT ![t] = c]
        BY <1>2, <2>2 DEF SetCpusAllowed
      <3> QED
        BY <2>1, <2>2, <3>1 DEF TypeOK
    <2>3. CASE ~(cpu[t] # Nowhere /\ cpu[t] \notin mask)
      <3>1. cpu' = cpu
        BY <1>2, <2>3 DEF SetCpusAllowed
      <3> QED
        BY <2>1, <3>1 DEF TypeOK
    <2> QED
      BY <2>2, <2>3
  <1> QED
    BY <1>1, <1>2

LEMMA CachedTasks ==
    ASSUME TypeOK, NEW c \in Containers
    PROVE  /\ DOMAIN pidList[c] = 1..Len(pidList[c])
           /\ Len(pidList[c]) \in Nat
           /\ Elements(pidList[c]) \subseteq Tasks
  BY LenProperties, ElementOfSeq DEF TypeOK, Elements

LEMMA AliveSame ==
    ASSUME group' = group
    PROVE  Alive' = Alive
  BY DEF Alive

(***************************************************************************)
(* Types.                                                                  *)
(***************************************************************************)
LEMMA InitType == Init => TypeOK
  <1> SUFFICES ASSUME Init PROVE TypeOK
    OBVIOUS
  <1>1. \A c \in Containers : <<Launcher[c]>> \in Seq(Tasks)
    BY ContainerAssumption
  <1>2. group \in [Containers -> Seq(Tasks)]
    BY <1>1 DEF Init
  <1>3. /\ pidList \in [Containers -> Seq(Tasks)]
        /\ \A c \in Containers : Len(pidList[c]) <= PidListSize
    BY SizeAssumption DEF Init
  <1>4. allowed \in [Tasks -> SUBSET Nat]
    BY CoreAssumption DEF Init, Online
  <1> QED
    BY <1>2, <1>3, <1>4, ContainerAssumption, SizeAssumption DEF Init, TypeOK, Nowhere

\* In a phase, the current container is registered and its current PID is a task.
LEMMA TaskFacts ==
    ASSUME TypeOK, PassInv, mpc \in {"phase1", "phase2"}
    PROVE  /\ ctr \in Containers
           /\ pos <= Len(pidList[ctr]) => /\ pos \in DOMAIN pidList[ctr]
                                          /\ Task \in Elements(pidList[ctr])
                                          /\ Task \in Tasks
  <1>1. ctr \in Containers
    BY ContainerAssumption DEF TypeOK, PassInv, Pending, Containers
  <1>2. pos <= Len(pidList[ctr]) => pos \in DOMAIN pidList[ctr]
    BY <1>1, CachedTasks DEF TypeOK
  <1> QED
    BY <1>1, <1>2, CachedTasks DEF Task, Elements

LEMMA NextType == TypeOK /\ PassInv /\ [Next]_vars => TypeOK'
  <1> SUFFICES ASSUME TypeOK, PassInv, [Next]_vars PROVE TypeOK'
    OBVIOUS
  <1> USE DEF grant, kernel, placement
  <1>1. CASE UNCHANGED vars
    BY <1>1 DEF TypeOK, vars, Alive
  <1>2. ASSUME NEW list \in Lists, Request(list) PROVE TypeOK'
    <2>1. Len(list) \in 0..ListSize /\ \A i \in 1..Len(list) : list[i] \in Nat
      <3>1. list \in Seq(Lendable)
        BY CoreAssumption
      <3>2. Len(list) \in Nat /\ \A i \in 1..Len(list) : list[i] \in Lendable
        BY <3>1
      <3>3. Len(list) <= ListSize /\ ListSize \in Nat
        BY SizeAssumption
      <3>4. \A i \in 1..Len(list) : list[i] \in Nat
        BY <3>2, CoreAssumption
      <3> QED
        BY <3>2, <3>3, <3>4
    <2>2. affinity_list' \in [1..ListSize -> Nat]
      BY <1>2, <2>1 DEF Request, TypeOK
    <2>3. num_affinity' \in 0..ListSize /\ needs_rebalance' \in 0..3
          /\ requests' \in 0..MaxRequests
      BY <1>2, <2>1, SizeAssumption DEF Request, TypeOK
    <2>4. UNCHANGED <<nr_secondary_ctrs, pidList, kernel, mpc, ctr, pos, placement, present>>
      BY <1>2 DEF Request
    <2> QED
      BY <2>2, <2>3, <2>4, AliveSame DEF TypeOK
  <1>3. ASSUME Register PROVE TypeOK'
    BY <1>3, ContainerAssumption, AliveSame DEF Register, TypeOK
  <1>4. ASSUME NEW c \in Containers, NEW parent \in Tasks, NEW child \in Tasks,
               Fork(c, parent, child)
        PROVE  TypeOK'
    <2>1. group' = [group EXCEPT ![c] = Append(@, child)]
      BY <1>4 DEF Fork
    <2>2. group' \in [Containers -> Seq(Tasks)] /\ Alive' = Alive \cup {child}
      <3>1. group[c] \in Seq(Tasks)
        BY DEF TypeOK
      <3>2. /\ Append(group[c], child) \in Seq(Tasks)
            /\ Elements(Append(group[c], child)) = Elements(group[c]) \cup {child}
        BY <3>1, AppendElements
      <3>3. \A d \in Containers : group'[d] = IF d = c THEN Append(group[c], child) ELSE group[d]
        BY <2>1 DEF TypeOK
      <3>4. group' \in [Containers -> Seq(Tasks)]
        BY <2>1, <3>2 DEF TypeOK
      <3> QED
        BY <3>2, <3>3, <3>4 DEF Alive
    <2>3. /\ allowed' \in [Tasks -> SUBSET Nat]
          /\ cpu' \in [Tasks -> Nat \cup {Nowhere}]
          /\ \A t \in Tasks : cpu'[t] # Nowhere => cpu[t] # Nowhere \/ t = child
      BY <1>4 DEF Fork, TypeOK
    <2>4. UNCHANGED <<nr_secondary_ctrs, pidList, needs_rebalance, grant, mpc, ctr,
                      pos, placement, present>>
      BY <1>4 DEF Fork
    <2> QED
      BY <2>2, <2>3, <2>4 DEF TypeOK
  <1>5. ASSUME NEW c \in Containers, NEW i \in DOMAIN group[c], Exit(c, i)
        PROVE  TypeOK'
    <2> DEFINE rest == SubSeq(group[c], 1, i - 1) \o SubSeq(group[c], i + 1, Len(group[c]))
    <2>1. /\ rest \in Seq(Tasks)
          /\ \A t \in Elements(group[c]) : t # group[c][i] => t \in Elements(rest)
      BY DropElements DEF TypeOK
    <2>2. group' = [group EXCEPT ![c] = rest]
      BY <1>5 DEF Exit
    <2> HIDE DEF rest
    <2>3. group' \in [Containers -> Seq(Tasks)]
      BY <2>1, <2>2 DEF TypeOK
    <2>4. \A t \in Alive : t # group[c][i] => t \in Alive'
      <3>1. \A d \in Containers : group'[d] = IF d = c THEN rest ELSE group[d]
        BY <2>2 DEF TypeOK
      <3> QED
        BY <2>1, <3>1 DEF Alive
    <2>5. /\ cpu' \in [Tasks -> Nat \cup {Nowhere}]
          /\ \A t \in Tasks : cpu'[t] # Nowhere => cpu[t] # Nowhere /\ t # group[c][i]
      BY <1>5 DEF Exit, TypeOK
    <2>6. UNCHANGED <<nr_secondary_ctrs, pidList, needs_rebalance, grant, allowed,
                      mpc, ctr, pos, placement, present>>
      BY <1>5 DEF Exit
    <2> QED
      BY <2>3, <2>4, <2>5, <2>6 DEF TypeOK
  <1>6. ASSUME NEW t \in Tasks, Block(t) PROVE TypeOK'
    BY <1>6, AliveSame DEF Block, TypeOK
  <1>7. ASSUME NEW t \in Tasks, NEW c \in Online, Run(t, c) PROVE TypeOK'
    <2>1. c \in Nat
      BY CoreAssumption DEF Online
    <2> QED
      BY <1>7, <2>1, AliveSame DEF Run, TypeOK
  <1>8. CASE Begin
    <2>1. present' \subseteq Tasks
      <3>1. \A c \in 1..nr_secondary_ctrs : c \in Containers
        BY ContainerAssumption DEF TypeOK, Containers
      <3>2. present' \subseteq Alive
        BY <1>8, <3>1 DEF Begin, Alive
      <3> QED
        BY <3>2, AliveTasks
    <2> QED
      BY <1>8, <2>1, AliveSame DEF Begin, TypeOK
  <1>9. CASE Refresh
    <2>1. ctr \in Containers
      BY <1>9, ContainerAssumption DEF Refresh, TypeOK, Containers
    <2>2. group[ctr] \in Seq(Tasks)
      BY <2>1 DEF TypeOK
    <2>3. /\ pidList' \in [Containers -> Seq(Tasks)]
          /\ \A c \in Containers : Len(pidList'[c]) <= PidListSize
      <3>1. CASE pidList' = pidList
        BY <3>1 DEF TypeOK
      <3>2. CASE pidList' = [pidList EXCEPT ![ctr] = Cached(group[ctr])]
        BY <3>2, <2>2, CachedFacts DEF TypeOK
      <3> QED
        BY <1>9, <3>1, <3>2 DEF Refresh
    <2>4. ctr' \in Nat \ {0}
      BY <1>9 DEF Refresh, TypeOK, AfterDeadLauncher
    <2>5. UNCHANGED <<nr_secondary_ctrs, needs_rebalance, grant, kernel, mpc, pos,
                      placement, present>>
      BY <1>9 DEF Refresh
    <2> QED
      BY <2>3, <2>4, <2>5, AliveSame DEF TypeOK
  <1>10. CASE EndRefresh
    BY <1>10, AliveSame DEF EndRefresh, TypeOK
  <1>11. CASE NextContainer
    BY <1>11, AliveSame DEF NextContainer, TypeOK
  <1>12. CASE PassOver
    BY <1>12, AliveSame DEF PassOver, TypeOK
  <1>13. CASE StayInPlace
    <2>1. Task \in Tasks
      BY <1>13, TaskFacts DEF StayInPlace, InPhase
    <2>2. cpu[Task] \in Nat
      BY <1>13, <2>1 DEF StayInPlace, TypeOK
    <2>3. has_task' \subseteq Nat
      BY <1>13, <2>2 DEF StayInPlace, TypeOK
    <2>4. num_placements' \in Nat /\ pos' \in Nat \ {0}
      BY <1>13 DEF StayInPlace, TypeOK
    <2>5. UNCHANGED <<nr_secondary_ctrs, pidList, needs_rebalance, grant, kernel, mpc,
                      ctr, curr_cpu, present>>
      BY <1>13 DEF StayInPlace
    <2> QED
      BY <2>3, <2>4, <2>5, AliveSame DEF TypeOK
  <1>14. CASE Pin
    <2>1. Task \in Tasks
      BY <1>14, TaskFacts DEF Pin, InPhase
    <2>2. NextEntry \in Nat \ {0} /\ Entry(NextEntry) \in Nat
      BY EntryFacts
    <2>3. SetCpusAllowed(Task, {Entry(NextEntry)})
      BY <1>14 DEF Pin
    <2>4. /\ allowed' \in [Tasks -> SUBSET Nat]
          /\ cpu' \in [Tasks -> Nat \cup {Nowhere}]
          /\ \A u \in Tasks : cpu'[u] # Nowhere => cpu[u] # Nowhere
      BY <2>1, <2>2, <2>3, SetFacts
    <2>5. /\ has_task' \subseteq Nat
          /\ num_placements' \in Nat
          /\ curr_cpu' \in Nat \ {0}
          /\ pos' \in Nat \ {0}
          /\ mpc' \in {"phase1", "phase2"}
      <3> DEFINE next == NextEntry
                 entry == Entry(next)
      <3>1. /\ mpc = "phase1"
            /\ has_task' = has_task \cup {entry}
            /\ num_placements' = num_placements + 1
            /\ \/ mpc' = "phase2" /\ pos' = 1 /\ curr_cpu' = next
               \/ mpc' = mpc /\ pos' = pos + 1 /\ curr_cpu' = next + 1
        BY <1>14 DEF Pin, InPhase
      <3>2. next \in Nat \ {0} /\ entry \in Nat
        BY <2>2
      <3> HIDE DEF next, entry
      <3> QED
        BY <3>1, <3>2 DEF TypeOK
    <2>6. UNCHANGED <<nr_secondary_ctrs, pidList, needs_rebalance, grant, group,
                      ctr, present>>
      BY <1>14 DEF Pin
    <2> QED
      BY <2>4, <2>5, <2>6, AliveSame DEF TypeOK
  <1>15. CASE EndPhase1
    BY <1>15, AliveSame DEF EndPhase1, TypeOK
  <1>16. CASE Widen
    <2>1. Task \in Tasks
      BY <1>16, TaskFacts DEF Widen, InPhase
    <2>2. /\ allowed' \in [Tasks -> SUBSET Nat]
          /\ cpu' \in [Tasks -> Nat \cup {Nowhere}]
          /\ \A u \in Tasks : cpu'[u] # Nowhere => cpu[u] # Nowhere
      <3>1. CASE SetCpusAllowed(Task, FullMask)
        BY <3>1, <2>1, MaskFacts, SetFacts
      <3>2. CASE UNCHANGED <<allowed, cpu>>
        BY <3>2 DEF TypeOK
      <3> QED
        BY <1>16, <3>1, <3>2 DEF Widen
    <2>3. /\ pos' \in Nat \ {0}
          /\ UNCHANGED <<nr_secondary_ctrs, pidList, needs_rebalance, grant, group,
                         mpc, ctr, placement, present>>
      BY <1>16 DEF Widen, TypeOK
    <2> QED
      BY <2>2, <2>3, AliveSame DEF TypeOK
  <1>17. CASE EndPhase2
    BY <1>17, AliveSame DEF EndPhase2, TypeOK
  <1>18. CASE End
    BY <1>18, AliveSame DEF End, TypeOK
  <1> QED
    BY <1>1, <1>2, <1>3, <1>4, <1>5, <1>6, <1>7, <1>8, <1>9, <1>10, <1>11, <1>12,
       <1>13, <1>14, <1>15, <1>16, <1>17, <1>18 DEF Next, Twopa, Environment

(***************************************************************************)
(* The pass.                                                               *)
(***************************************************************************)
IInv == TypeOK /\ PassInv /\ CachedConfined

LEMMA InitPass == Init => PassInv /\ CachedConfined
  <1> SUFFICES ASSUME Init PROVE PassInv /\ CachedConfined
    OBVIOUS
  <1>1. /\ \A c \in Containers : pidList[c] = <<>> /\ group[c] = <<Launcher[c]>>
        /\ mpc = "idle" /\ pos = 1 /\ ctr = 1
    BY DEF Init
  <1>2. \A c \in Containers : Elements(pidList[c]) = {} /\ Elements(group[c]) = {Launcher[c]}
    BY <1>1 DEF Elements
  <1> QED
    BY <1>1, <1>2, ContainerAssumption DEF PassInv, Pending, RegisteredCached, TasksApart,
       BehindConfined, BeforeConfined, CachedConfined

\* Steps that leave the pass where it is and no cached task with another mask.
LEMMA SteadyPass ==
    ASSUME TypeOK, PassInv, CachedConfined,
           UNCHANGED <<nr_secondary_ctrs, pidList, needs_rebalance, affinity_list,
                       num_affinity, mpc, ctr, pos>>,
           TasksApart',
           \A c \in Containers : \A t \in Elements(pidList[c]) :
              allowed'[t] = allowed[t] /\ (t \in Alive' => t \in Alive)
    PROVE  PassInv' /\ CachedConfined'
  <1>1. FullMask' = FullMask
    BY DEF FullMask, Granted
  <1>2. \A c \in Containers : \A t \in Elements(pidList[c]) :
            (t \in Alive => allowed[t] = FullMask) => (t \in Alive' => allowed'[t] = FullMask')
    BY <1>1
  <1>3. BehindConfined'
    BY <1>2 DEF PassInv, BehindConfined, Confined
  <1>4. BeforeConfined'
    <2> SUFFICES ASSUME mpc = "phase2", NEW i \in DOMAIN pidList[ctr], i < pos,
                        pidList[ctr][i] \in Alive'
                 PROVE  allowed'[pidList[ctr][i]] = FullMask'
      BY DEF BeforeConfined, Confined
    <2>1. ctr \in Containers /\ pidList[ctr][i] \in Elements(pidList[ctr])
      BY TaskFacts DEF Elements
    <2>2. pidList[ctr][i] \in Alive => allowed[pidList[ctr][i]] = FullMask
      BY DEF PassInv, BeforeConfined, Confined
    <2> QED
      BY <1>2, <2>1, <2>2
  <1>5. CachedConfined'
    BY <1>2 DEF CachedConfined, Answered, Confined
  <1>6. Pending' /\ RegisteredCached'
    BY DEF PassInv, Pending, RegisteredCached
  <1> QED
    BY <1>3, <1>4, <1>5, <1>6 DEF PassInv

\* Steps that change neither tasks, nor caches, nor the grant.
LEMMA SameTasks ==
    ASSUME PassInv, UNCHANGED <<group, allowed, pidList, affinity_list, num_affinity>>
    PROVE  /\ TasksApart'
           /\ \A t : Confined(t) => Confined(t)'
  <1>1. Alive' = Alive /\ FullMask' = FullMask
    BY AliveSame DEF FullMask, Granted
  <1> QED
    BY <1>1 DEF PassInv, TasksApart, Confined

\* Tasks come, go, block and move.
LEMMA NextEnvironment == IInv /\ Environment => PassInv' /\ CachedConfined'
  <1> SUFFICES ASSUME IInv, Environment PROVE PassInv' /\ CachedConfined'
    OBVIOUS
  <1> USE DEF grant, kernel, placement
  <1>0. TypeOK /\ PassInv /\ CachedConfined
    BY DEF IInv
  <1>1. ASSUME NEW list \in Lists, Request(list) PROVE PassInv' /\ CachedConfined'
    <2>1. /\ mpc = "idle" /\ mpc' = "idle"
          /\ needs_rebalance' \in {1, 2, 3}
          /\ UNCHANGED <<nr_secondary_ctrs, pidList, group, ctr, pos>>
      BY <1>0, <1>1 DEF Request, TypeOK, PassInv, Pending
    <2>2. Pending'
      BY <1>0, <2>1 DEF PassInv, Pending
    <2>3. RegisteredCached' /\ TasksApart'
      BY <1>0, <2>1 DEF PassInv, RegisteredCached, TasksApart
    <2>4. BehindConfined' /\ BeforeConfined' /\ CachedConfined'
      BY <2>1 DEF BehindConfined, BeforeConfined, CachedConfined, Answered
    <2> QED
      BY <2>2, <2>3, <2>4 DEF PassInv
  <1>2. CASE Register
    <2>1. UNCHANGED <<group, allowed, pidList, affinity_list, num_affinity, mpc, ctr, pos,
                      needs_rebalance>>
          /\ nr_secondary_ctrs' = nr_secondary_ctrs + 1
      BY <1>2 DEF Register
    <2>2. TasksApart' /\ \A t : Confined(t) => Confined(t)'
      BY <1>0, <2>1, SameTasks
    <2>3. Pending' /\ RegisteredCached'
      BY <1>0, <2>1 DEF PassInv, Pending, RegisteredCached, TypeOK, Containers
    <2>4. BehindConfined' /\ BeforeConfined' /\ CachedConfined'
      BY <1>0, <2>1, <2>2 DEF PassInv, BehindConfined, BeforeConfined, CachedConfined, Answered
    <2> QED
      BY <2>2, <2>3, <2>4 DEF PassInv
  <1>3. ASSUME NEW c \in Containers, NEW parent \in Tasks, NEW child \in Tasks,
               Fork(c, parent, child)
        PROVE  PassInv' /\ CachedConfined'
    <2>1. /\ group' = [group EXCEPT ![c] = Append(@, child)]
          /\ allowed' = [allowed EXCEPT ![child] = allowed[parent]]
          /\ child \notin Alive
          /\ \A d \in Containers : child \notin Elements(pidList[d])
          /\ UNCHANGED <<nr_secondary_ctrs, pidList, needs_rebalance, affinity_list,
                         num_affinity, mpc, ctr, pos>>
      BY <1>3 DEF Fork
    <2>2. \A d \in Containers :
             Elements(group'[d]) = IF d = c THEN Elements(group[c]) \cup {child}
                                            ELSE Elements(group[d])
      <3>1. group[c] \in Seq(Tasks)
        BY <1>0 DEF TypeOK
      <3>2. \A d \in Containers :
               group'[d] = IF d = c THEN Append(group[c], child) ELSE group[d]
        BY <1>0, <2>1 DEF TypeOK
      <3> QED
        BY <3>1, <3>2, AppendElements
    <2>3. \A d \in Containers : child \notin Elements(group[d])
      BY <2>1 DEF Alive
    <2>4. TasksApart'
      BY <1>0, <2>1, <2>2, <2>3 DEF PassInv, TasksApart
    <2>5. Alive' = Alive \cup {child}
      BY <2>2 DEF Alive
    <2>6. \A d \in Containers : \A t \in Elements(pidList[d]) :
             allowed'[t] = allowed[t] /\ (t \in Alive' => t \in Alive)
      BY <1>0, <2>1, <2>5, CachedTasks DEF TypeOK
    <2> QED
      BY <1>0, <2>1, <2>4, <2>6, SteadyPass
  <1>4. ASSUME NEW c \in Containers, NEW i \in DOMAIN group[c], Exit(c, i)
        PROVE  PassInv' /\ CachedConfined'
    <2> DEFINE rest == SubSeq(group[c], 1, i - 1) \o SubSeq(group[c], i + 1, Len(group[c]))
    <2>1. /\ group' = [group EXCEPT ![c] = rest]
          /\ UNCHANGED <<nr_secondary_ctrs, pidList, needs_rebalance, affinity_list,
                         num_affinity, mpc, ctr, pos, allowed>>
      BY <1>4 DEF Exit
    <2>2. Elements(rest) \subseteq Elements(group[c])
      BY <1>0, DropElements DEF TypeOK
    <2> HIDE DEF rest
    <2>3. \A d \in Containers : Elements(group'[d]) \subseteq Elements(group[d])
      <3>1. \A d \in Containers : group'[d] = IF d = c THEN rest ELSE group[d]
        BY <1>0, <2>1 DEF TypeOK
      <3> QED
        BY <2>2, <3>1
    <2>4. Alive' \subseteq Alive
      BY <2>3 DEF Alive
    <2>5. TasksApart'
      <3>1. \A d \in Containers : Elements(group'[d]) \cup Elements(pidList'[d])
                                  \subseteq Elements(group[d]) \cup Elements(pidList[d])
        BY <2>1, <2>3
      <3>2. TasksApart
        BY <1>0 DEF PassInv
      <3>3. ASSUME NEW d \in Containers, NEW e \in Containers, d # e
            PROVE  (Elements(group'[d]) \cup Elements(pidList'[d])) \cap
                   (Elements(group'[e]) \cup Elements(pidList'[e])) = {}
        <4>1. (Elements(group[d]) \cup Elements(pidList[d])) \cap
              (Elements(group[e]) \cup Elements(pidList[e])) = {}
          BY <3>2, <3>3 DEF TasksApart
        <4> QED
          BY <3>1, <4>1
      <3> QED
        BY <3>3 DEF TasksApart
    <2> QED
      BY <1>0, <2>1, <2>4, <2>5, SteadyPass
  <1>5. ASSUME NEW t \in Tasks, Block(t) \/ \E c \in Online : Run(t, c)
        PROVE  PassInv' /\ CachedConfined'
    <2>1. UNCHANGED <<nr_secondary_ctrs, pidList, needs_rebalance, affinity_list,
                      num_affinity, mpc, ctr, pos, group, allowed>>
      BY <1>5 DEF Block, Run
    <2>2. TasksApart' /\ Alive' = Alive
      BY <1>0, <2>1, SameTasks, AliveSame
    <2> QED
      BY <1>0, <2>1, <2>2, SteadyPass
  <1> QED
    BY <1>1, <1>2, <1>3, <1>4, <1>5 DEF Environment

\* The pass.  Only Pin needs that containers share no task: it takes the new mask
\* from one of the current container.
LEMMA NextTwopa == IInv /\ Twopa => PassInv' /\ CachedConfined'
  <1> SUFFICES ASSUME IInv, Twopa PROVE PassInv' /\ CachedConfined'
    OBVIOUS
  <1> USE DEF grant, kernel, placement
  <1>0. TypeOK /\ PassInv /\ CachedConfined
    BY DEF IInv
  <1>1. CASE Begin
    <2>1. /\ mpc' = "refresh" /\ needs_rebalance > 0
          /\ UNCHANGED <<nr_secondary_ctrs, pidList, needs_rebalance, group, pos>>
          /\ mpc = "idle"
      BY <1>1 DEF Begin
    <2>2. Pending'
      BY <1>0, <2>1 DEF PassInv, Pending
    <2>3. RegisteredCached' /\ TasksApart'
      BY <1>0, <2>1 DEF PassInv, RegisteredCached, TasksApart
    <2>4. BehindConfined' /\ BeforeConfined' /\ CachedConfined'
      BY <2>1 DEF BehindConfined, BeforeConfined, CachedConfined, Answered
    <2> QED
      BY <2>2, <2>3, <2>4 DEF PassInv
  <1>2. CASE Refresh
    <2>1. /\ mpc = "refresh" /\ mpc' = "refresh" /\ ctr <= nr_secondary_ctrs
          /\ UNCHANGED <<nr_secondary_ctrs, needs_rebalance, group, pos>>
          /\ pidList' \in {pidList, [pidList EXCEPT ![ctr] = Cached(group[ctr])]}
      BY <1>2 DEF Refresh
    <2>2. ctr \in Containers
      BY <1>0, <2>1, ContainerAssumption DEF TypeOK, Containers
    <2>3. Elements(Cached(group[ctr])) \subseteq Elements(group[ctr])
      BY <1>0, <2>2, CachedFacts DEF TypeOK
    <2>4. \A c \in Containers : Elements(pidList'[c]) \subseteq
                                Elements(pidList[c]) \cup Elements(group[c])
      BY <1>0, <2>1, <2>2, <2>3 DEF TypeOK
    <2>5. TasksApart'
      <3>1. TasksApart
        BY <1>0 DEF PassInv
      <3>2. ASSUME NEW d \in Containers, NEW e \in Containers, d # e
            PROVE  (Elements(group'[d]) \cup Elements(pidList'[d])) \cap
                   (Elements(group'[e]) \cup Elements(pidList'[e])) = {}
        <4>1. (Elements(group[d]) \cup Elements(pidList[d])) \cap
              (Elements(group[e]) \cup Elements(pidList[e])) = {}
          BY <3>1, <3>2 DEF TasksApart
        <4> QED
          BY <2>1, <2>4, <4>1
      <3> QED
        BY <3>2 DEF TasksApart
    <2>6. RegisteredCached'
      <3>1. \A c \in Containers : c > nr_secondary_ctrs => c # ctr
        BY <2>1, <1>0 DEF TypeOK, Containers
      <3> QED
        BY <1>0, <2>1, <3>1 DEF PassInv, RegisteredCached, TypeOK
    <2>7. Pending'
      BY <1>0, <2>1 DEF PassInv, Pending
    <2> QED
      BY <2>1, <2>5, <2>6, <2>7 DEF PassInv, BehindConfined, BeforeConfined,
         CachedConfined, Answered
  <1>3. CASE EndRefresh
    <2>1. /\ mpc' = "container" /\ mpc = "refresh" /\ ctr' = 1
          /\ UNCHANGED <<nr_secondary_ctrs, pidList, needs_rebalance, group, pos>>
      BY <1>3 DEF EndRefresh
    <2>2. Pending'
      BY <1>0, <2>1 DEF PassInv, Pending
    <2>3. RegisteredCached' /\ TasksApart'
      BY <1>0, <2>1 DEF PassInv, RegisteredCached, TasksApart
    <2>4. BehindConfined' /\ BeforeConfined' /\ CachedConfined'
      BY <2>1 DEF BehindConfined, BeforeConfined, CachedConfined, Answered, Containers
    <2> QED
      BY <2>2, <2>3, <2>4 DEF PassInv
  <1>4. CASE NextContainer
    <2>1. /\ mpc = "container" /\ ctr <= nr_secondary_ctrs
          /\ mpc' = IF needs_rebalance = 1 THEN "phase1" ELSE "phase2"
          /\ UNCHANGED <<nr_secondary_ctrs, pidList, needs_rebalance, affinity_list,
                         num_affinity, group, allowed, ctr, pos>>
      BY <1>4 DEF NextContainer, Pins
    <2>2. TasksApart' /\ \A t : Confined(t) => Confined(t)'
      BY <1>0, <2>1, SameTasks
    <2>3. Pending' /\ RegisteredCached' /\ pos' = 1
      BY <1>0, <2>1 DEF PassInv, Pending, RegisteredCached
    <2>4. BehindConfined'
      BY <1>0, <2>1, <2>2 DEF PassInv, BehindConfined
    <2>5. BeforeConfined' /\ CachedConfined'
      <3>1. ctr \in Containers
        BY <1>0, <2>1, ContainerAssumption DEF TypeOK, Containers
      <3>2. DOMAIN pidList[ctr] = 1..Len(pidList[ctr])
        BY <1>0, <3>1, CachedTasks
      <3> QED
        BY <2>1, <2>3, <3>2 DEF BeforeConfined, CachedConfined, Answered
    <2> QED
      BY <2>2, <2>3, <2>4, <2>5 DEF PassInv
  <1>5. CASE PassOver \/ StayInPlace
    <2>1. /\ mpc = "phase1"
          /\ UNCHANGED <<nr_secondary_ctrs, pidList, needs_rebalance, affinity_list,
                         num_affinity, group, allowed, mpc, ctr>>
      BY <1>5 DEF PassOver, StayInPlace, InPhase
    <2>2. TasksApart' /\ \A t : Confined(t) => Confined(t)'
      BY <1>0, <2>1, SameTasks
    <2>3. Pending' /\ RegisteredCached'
      BY <1>0, <2>1 DEF PassInv, Pending, RegisteredCached
    <2>4. BehindConfined' /\ BeforeConfined' /\ CachedConfined'
      BY <1>0, <2>1, <2>2 DEF PassInv, BehindConfined, BeforeConfined, CachedConfined, Answered
    <2> QED
      BY <2>2, <2>3, <2>4 DEF PassInv
  <1>6. CASE Pin
    <2>1. /\ mpc = "phase1" /\ pos <= Len(pidList[ctr])
          /\ mpc' = "phase1" \/ (mpc' = "phase2" /\ pos' = 1)
          /\ SetCpusAllowed(Task, {Entry(NextEntry)})
          /\ UNCHANGED <<nr_secondary_ctrs, pidList, needs_rebalance, affinity_list,
                         num_affinity, group, ctr>>
      BY <1>6 DEF Pin, InPhase
    <2>2. ctr \in Containers /\ Task \in Elements(pidList[ctr]) /\ Task \in Tasks
      BY <1>0, <2>1, TaskFacts
    <2>3. \A u \in Tasks : u # Task => allowed'[u] = allowed[u]
      BY <1>0, <2>1, <2>2, EntryFacts, SetFacts
    <2>4. Alive' = Alive /\ FullMask' = FullMask
      BY <2>1, AliveSame DEF FullMask, Granted
    <2>5. BehindConfined'
      <3> SUFFICES ASSUME NEW c \in Containers, c < ctr, NEW t \in Elements(pidList[c])
                   PROVE  Confined(t)'
        BY <2>1 DEF BehindConfined
      <3>1. Confined(t)
        BY <1>0, <2>1 DEF PassInv, BehindConfined
      <3>2. c # ctr
        BY <1>0, <2>2 DEF TypeOK, Containers
      <3>3. t # Task /\ t \in Tasks
        BY <1>0, <2>2, <3>2, CachedTasks DEF PassInv, TasksApart
      <3> QED
        BY <2>3, <2>4, <3>1, <3>3 DEF Confined
    <2>6. BeforeConfined' /\ CachedConfined'
      <3>1. DOMAIN pidList[ctr] = 1..Len(pidList[ctr])
        BY <1>0, <2>2, CachedTasks
      <3> QED
        BY <2>1, <3>1 DEF BeforeConfined, CachedConfined, Answered
    <2>7. Pending' /\ RegisteredCached' /\ TasksApart'
      BY <1>0, <2>1 DEF PassInv, Pending, RegisteredCached, TasksApart
    <2> QED
      BY <2>5, <2>6, <2>7 DEF PassInv
  <1>7. CASE EndPhase1
    <2>1. /\ mpc = "phase1" /\ mpc' = "phase2" /\ pos' = 1
          /\ UNCHANGED <<nr_secondary_ctrs, pidList, needs_rebalance, affinity_list,
                         num_affinity, group, allowed, ctr>>
      BY <1>7 DEF EndPhase1
    <2>2. TasksApart' /\ \A t : Confined(t) => Confined(t)'
      BY <1>0, <2>1, SameTasks
    <2>3. Pending' /\ RegisteredCached'
      BY <1>0, <2>1 DEF PassInv, Pending, RegisteredCached
    <2>4. BehindConfined'
      BY <1>0, <2>1, <2>2 DEF PassInv, BehindConfined
    <2>5. BeforeConfined' /\ CachedConfined'
      <3>1. ctr \in Containers
        BY <1>0, <2>1, TaskFacts
      <3>2. DOMAIN pidList[ctr] = 1..Len(pidList[ctr])
        BY <1>0, <3>1, CachedTasks
      <3> QED
        BY <2>1, <3>2 DEF BeforeConfined, CachedConfined, Answered
    <2> QED
      BY <2>2, <2>3, <2>4, <2>5 DEF PassInv
  <1>8. CASE Widen
    <2>1. /\ mpc = "phase2" /\ pos <= Len(pidList[ctr]) /\ mpc' = "phase2" /\ pos' = pos + 1
          /\ IF Task \in Alive THEN SetCpusAllowed(Task, FullMask)
                               ELSE UNCHANGED <<allowed, cpu>>
          /\ UNCHANGED <<nr_secondary_ctrs, pidList, needs_rebalance, affinity_list,
                         num_affinity, group, ctr>>
      BY <1>8 DEF Widen, InPhase, Widens
    <2>2. /\ ctr \in Containers /\ Task \in Tasks
          /\ pos \in DOMAIN pidList[ctr]
      BY <1>0, <2>1, TaskFacts
    <2>3. Alive' = Alive /\ FullMask' = FullMask
      BY <2>1, AliveSame DEF FullMask, Granted
    <2>4. /\ Task \in Alive' => allowed'[Task] = FullMask'
          /\ \A u \in Tasks : Confined(u) => Confined(u)'
      <3>1. CASE Task \in Alive
        <4>1. /\ allowed'[Task] = FullMask
              /\ \A u \in Tasks : u # Task => allowed'[u] = allowed[u]
          BY <1>0, <2>1, <2>2, <3>1, MaskFacts, SetFacts
        <4>2. \A u \in Tasks : (u \in Alive => allowed[u] = FullMask)
                              => (u \in Alive' => allowed'[u] = FullMask')
          BY <2>3, <4>1
        <4> QED
          BY <2>3, <3>1, <4>1, <4>2 DEF Confined
      <3>2. CASE Task \notin Alive
        BY <2>1, <2>3, <3>2 DEF Confined
      <3> QED
        BY <3>1, <3>2
    <2>5. BehindConfined'
      BY <1>0, <2>1, <2>4, CachedTasks DEF PassInv, BehindConfined
    <2>6. BeforeConfined'
      <3> SUFFICES ASSUME NEW i \in DOMAIN pidList[ctr], i < pos + 1
                   PROVE  pidList[ctr][i] \in Alive' => allowed'[pidList[ctr][i]] = FullMask'
        BY <2>1 DEF BeforeConfined, Confined
      <3>1. CASE i = pos
        BY <2>4, <3>1 DEF Task
      <3>2. CASE i < pos
        <4>1. Confined(pidList[ctr][i])
          BY <1>0, <2>1, <3>2 DEF PassInv, BeforeConfined
        <4>2. pidList[ctr][i] \in Tasks
          BY <1>0, <2>2, CachedTasks DEF Elements
        <4> QED
          BY <2>4, <4>1, <4>2 DEF Confined
      <3>3. i < pos \/ i = pos
        BY <1>0, <2>2, CachedTasks DEF TypeOK
      <3> QED
        BY <3>1, <3>2, <3>3
    <2>7. Pending' /\ RegisteredCached' /\ TasksApart' /\ CachedConfined'
      BY <1>0, <2>1 DEF PassInv, Pending, RegisteredCached, TasksApart, CachedConfined, Answered
    <2> QED
      BY <2>5, <2>6, <2>7 DEF PassInv
  <1>9. CASE EndPhase2
    <2>1. /\ mpc = "phase2" /\ pos > Len(pidList[ctr]) /\ mpc' = "container"
          /\ ctr' = ctr + 1 /\ pos' = 1
          /\ UNCHANGED <<nr_secondary_ctrs, pidList, needs_rebalance, affinity_list,
                         num_affinity, group, allowed>>
      BY <1>9 DEF EndPhase2
    <2>2. TasksApart' /\ \A t : Confined(t) => Confined(t)'
      BY <1>0, <2>1, SameTasks
    <2>3. Pending' /\ RegisteredCached'
      BY <1>0, <2>1 DEF PassInv, Pending, RegisteredCached
    <2>4. \A t \in Elements(pidList[ctr]) : Confined(t)
      <3>1. ctr \in Containers
        BY <1>0, <2>1, TaskFacts
      <3>2. \A i \in DOMAIN pidList[ctr] : i < pos
        BY <1>0, <2>1, <3>1, CachedTasks DEF TypeOK
      <3> QED
        BY <1>0, <2>1, <3>2 DEF PassInv, BeforeConfined, Elements
    <2>5. BehindConfined'
      <3>1. \A c \in Containers : c < ctr + 1 => c < ctr \/ c = ctr
        BY <1>0 DEF TypeOK, Containers
      <3>2. \A c \in Containers : c < ctr + 1 => \A t \in Elements(pidList[c]) : Confined(t)
        BY <1>0, <2>1, <2>4, <3>1 DEF PassInv, BehindConfined
      <3> QED
        BY <2>1, <2>2, <3>2 DEF BehindConfined
    <2>6. BeforeConfined' /\ CachedConfined'
      BY <2>1 DEF BeforeConfined, CachedConfined, Answered
    <2> QED
      BY <2>2, <2>3, <2>5, <2>6 DEF PassInv
  <1>10. CASE End
    <2>1. /\ mpc = "container" /\ ctr > nr_secondary_ctrs /\ mpc' = "idle" /\ ctr' = 1
          /\ UNCHANGED <<nr_secondary_ctrs, pidList, affinity_list, num_affinity,
                         group, allowed, pos>>
      BY <1>10 DEF End
    <2>2. TasksApart' /\ \A t : Confined(t) => Confined(t)'
      BY <1>0, <2>1, SameTasks
    <2>3. \A c \in Containers : \A t \in Elements(pidList[c]) : Confined(t)
      <3>1. \A c \in Containers : c < ctr \/ c > nr_secondary_ctrs
        BY <1>0, <2>1 DEF TypeOK, Containers
      <3>2. \A c \in Containers : c > nr_secondary_ctrs => Elements(pidList[c]) = {}
        BY <1>0 DEF PassInv, RegisteredCached, Elements
      <3> QED
        BY <1>0, <2>1, <3>1, <3>2 DEF PassInv, BehindConfined
    <2>4. CachedConfined'
      BY <2>1, <2>2, <2>3 DEF CachedConfined
    <2>5. Pending' /\ RegisteredCached' /\ BehindConfined' /\ BeforeConfined'
      BY <1>0, <2>1 DEF PassInv, Pending, RegisteredCached, BehindConfined, BeforeConfined
    <2> QED
      BY <2>2, <2>4, <2>5 DEF PassInv
  <1> QED
    BY <1>1, <1>2, <1>3, <1>4, <1>5, <1>6, <1>7, <1>8, <1>9, <1>10 DEF Twopa

LEMMA NextIInv == IInv /\ [Next]_vars => IInv'
  <1> SUFFICES ASSUME IInv, [Next]_vars PROVE IInv'
    OBVIOUS
  <1>1. TypeOK'
    BY NextType DEF IInv
  <1>2. CASE Next
    BY <1>1, <1>2, NextTwopa, NextEnvironment DEF Next, IInv
  <1>3. CASE UNCHANGED vars
    <2>1. UNCHANGED <<nr_secondary_ctrs, pidList, needs_rebalance, affinity_list,
                      num_affinity, mpc, ctr, pos, group, allowed>>
      BY <1>3 DEF vars, grant, kernel
    <2>2. TasksApart' /\ Alive' = Alive
      BY <2>1, SameTasks, AliveSame DEF IInv
    <2> QED
      BY <1>1, <2>1, <2>2, SteadyPass DEF IInv
  <1> QED
    BY <1>2, <1>3

\* The types, the pass and the confined tasks are an invariant together.
THEOREM PassInvariant == Spec => []IInv
  <1>1. Init => IInv
    BY InitType, InitPass DEF IInv
  <1> QED
    BY <1>1, NextIInv, PTL DEF Spec

(***************************************************************************)
(* The results.                                                            *)
(***************************************************************************)

\* All variables keep to their types and no PID list outgrows its array.
THEOREM TypeCorrect == Spec => []TypeOK
  <1>1. IInv => TypeOK
    BY DEF IInv
  <1> QED
    BY <1>1, PassInvariant, PTL

\* Whatever tasks do meanwhile, an answered request is in force on every cached
\* task that still exists.
THEOREM CachedTasksConfined == Spec => []CachedConfined
  <1>1. IInv => CachedConfined
    BY DEF IInv
  <1> QED
    BY <1>1, PassInvariant, PTL

\* A pass is always one for a pending request, and keeps what it has confined.
THEOREM PassKeepsConfined == Spec => []PassInv
  <1>1. IInv => PassInv
    BY DEF IInv
  <1> QED
    BY <1>1, PassInvariant, PTL

\* A request that takes cores back pins nobody on the way to the new mask.
THEOREM RevokesGoStraight == Spec => RevokeGoesStraight
  <1>1. IInv /\ [Next]_vars =>
          [mpc # "idle" /\ needs_rebalance > 1 =>
             \A t \in Alive : allowed'[t] \in {allowed[t], FullMask}]_vars
    <2> SUFFICES ASSUME IInv, [Next]_vars, mpc # "idle", needs_rebalance > 1,
                        NEW t \in Alive
                 PROVE  allowed'[t] \in {allowed[t], FullMask}
      OBVIOUS
    <2> USE DEF kernel
    <2>0. /\ TypeOK /\ PassInv
          /\ mpc # "phase1"
          /\ t \in Tasks
      BY AliveTasks DEF IInv, PassInv, Pending
    <2>1. CASE allowed' = allowed
      BY <2>1
    <2>2. ASSUME NEW c \in Containers, NEW parent \in Tasks, NEW child \in Tasks,
                 Fork(c, parent, child)
          PROVE  allowed'[t] \in {allowed[t], FullMask}
      <3>1. t # child /\ allowed' = [allowed EXCEPT ![child] = allowed[parent]]
        BY <2>2 DEF Fork
      <3> QED
        BY <2>0, <3>1 DEF TypeOK
    <2>3. CASE Widen
      <3>1. Task \in Tasks
        BY <2>0, <2>3, TaskFacts DEF Widen, InPhase
      <3>2. SetCpusAllowed(Task, FullMask) \/ allowed' = allowed
        BY <2>3 DEF Widen
      <3>3. ASSUME SetCpusAllowed(Task, FullMask)
            PROVE  allowed'[t] \in {allowed[t], FullMask}
        BY <2>0, <3>1, <3>3, MaskFacts, SetFacts
      <3> QED
        BY <3>2, <3>3
    <2>4. CASE Environment
      <3>1. ASSUME NEW list \in Lists, Request(list) PROVE allowed' = allowed
        BY <3>1 DEF Request
      <3>2. ASSUME NEW c \in Containers, NEW i \in DOMAIN group[c], Exit(c, i)
            PROVE  allowed' = allowed
        BY <3>2 DEF Exit
      <3>3. ASSUME NEW u \in Tasks, Block(u) \/ \E c \in Online : Run(u, c)
            PROVE  allowed' = allowed
        BY <3>3 DEF Block, Run
      <3>4. Register => allowed' = allowed
        BY DEF Register
      <3> QED
        BY <2>1, <2>2, <2>4, <3>1, <3>2, <3>3, <3>4 DEF Environment
    <2>5. CASE Twopa /\ ~Widen
      <3>1. ~Pin
        BY <2>0 DEF Pin, InPhase
      <3>2. allowed' = allowed
        BY <2>5, <3>1 DEF Twopa, Begin, Refresh, EndRefresh, NextContainer, PassOver,
           StayInPlace, EndPhase1, EndPhase2, End
      <3> QED
        BY <2>1, <3>2
    <2>6. CASE UNCHANGED vars
      BY <2>1, <2>6 DEF vars
    <2> QED
      BY <2>3, <2>4, <2>5, <2>6 DEF Next
  <1> QED
    BY <1>1, PassInvariant, PTL DEF Spec, RevokeGoesStraight

(***************************************************************************)
(* If no task ends and every container fits into its PID list, no task is  *)
(* left out.  Then a cache is the beginning of the list of tasks, and the  *)
(* test by number finds every stale one.                                   *)
(***************************************************************************)
Fits == \A c \in Containers : Len(group[c]) <= PidListSize

\* Every task that was there as the pass began is cached once its container has
\* been refreshed; containers that were not registered had none of them.
CacheInv ==
    /\ \A c \in Containers :
          /\ Launcher[c] \in Elements(group[c])
          /\ Len(pidList[c]) <= Len(group[c])
          /\ \A i \in 1..Len(pidList[c]) : pidList[c][i] = group[c][i]
    /\ mpc = "refresh" =>
          \A c \in Containers : c > nr_secondary_ctrs => present \cap Elements(group[c]) = {}
    /\ \A c \in Containers :
          mpc # "refresh" \/ c < ctr => present \cap Elements(group[c]) \subseteq Elements(pidList[c])

LEMMA InitCache == Init => CacheInv
  <1> SUFFICES ASSUME Init PROVE CacheInv
    OBVIOUS
  <1>1. /\ \A c \in Containers : pidList[c] = <<>> /\ group[c] = <<Launcher[c]>>
        /\ present = {} /\ mpc = "idle"
    BY DEF Init
  <1>2. \A c \in Containers : Elements(group[c]) = {Launcher[c]}
    BY <1>1 DEF Elements
  <1> QED
    BY <1>1, <1>2 DEF CacheInv

\* A list that has as many entries as its container is the list of its tasks; and
\* so is one that was just read, if it fits.
LEMMA WholeCache ==
    ASSUME TypeOK, Fits, CacheInv, NEW c \in Containers
    PROVE  /\ Fresh(c) => pidList[c] = group[c]
           /\ Cached(group[c]) = group[c]
  <1>1. /\ pidList[c] \in Seq(Tasks) /\ group[c] \in Seq(Tasks)
        /\ Len(group[c]) <= PidListSize
        /\ Len(group[c]) \in Nat
        /\ \A i \in 1..Len(pidList[c]) : pidList[c][i] = group[c][i]
    BY LenProperties DEF TypeOK, Fits, CacheInv
  <1>2. ASSUME Fresh(c) PROVE pidList[c] = group[c]
    BY <1>1, <1>2, SeqEqual DEF Fresh
  <1>3. Cached(group[c]) = group[c]
    <2>1. Cached(group[c]) = SubSeq(group[c], 1, Len(group[c]))
      BY <1>1, SizeAssumption DEF Cached
    <2> QED
      BY <1>1, <2>1, SubSeqFull
  <1> QED
    BY <1>2, <1>3

LEMMA StepCache ==
    ASSUME MayExit = {}, IInv, Fits, CacheInv, [Next]_vars
    PROVE  CacheInv'
  <1> USE DEF grant, kernel, placement
  <1>0. TypeOK /\ PassInv
    BY DEF IInv
  <1>1. CASE /\ UNCHANGED <<group, pidList, present, nr_secondary_ctrs, ctr>>
             /\ mpc' = "refresh" <=> mpc = "refresh"
    BY <1>1 DEF CacheInv
  <1>2. CASE Register
    <2>1. /\ UNCHANGED <<group, pidList, present, ctr, mpc>>
          /\ nr_secondary_ctrs' = nr_secondary_ctrs + 1
      BY <1>2 DEF Register
    <2>2. \A c \in Containers : c > nr_secondary_ctrs + 1 => c > nr_secondary_ctrs
      BY <1>0 DEF TypeOK, Containers
    <2> QED
      BY <2>1, <2>2 DEF CacheInv
  <1>3. ASSUME NEW c \in Containers, NEW parent \in Tasks, NEW child \in Tasks,
               Fork(c, parent, child)
        PROVE  CacheInv'
    <2>1. /\ group' = [group EXCEPT ![c] = Append(@, child)]
          /\ child \notin present
          /\ UNCHANGED <<pidList, present, nr_secondary_ctrs, ctr, mpc>>
      BY <1>3 DEF Fork
    <2>2. group[c] \in Seq(Tasks) /\ Len(group[c]) \in Nat
      BY <1>0, LenProperties DEF TypeOK
    <2>3. \A d \in Containers :
             group'[d] = IF d = c THEN Append(group[c], child) ELSE group[d]
      BY <1>0, <2>1 DEF TypeOK
    <2>4. \A d \in Containers :
             /\ Elements(group[d]) \subseteq Elements(group'[d])
             /\ present \cap Elements(group'[d]) = present \cap Elements(group[d])
      BY <2>1, <2>2, <2>3, AppendElements
    <2>5. ASSUME NEW d \in Containers
          PROVE  /\ Len(pidList[d]) <= Len(group'[d])
                 /\ \A i \in 1..Len(pidList[d]) : pidList[d][i] = group'[d][i]
      <3>1. /\ Len(pidList[d]) \in Nat
            /\ Len(pidList[d]) <= Len(group[d])
            /\ \A i \in 1..Len(pidList[d]) : pidList[d][i] = group[d][i]
        BY <1>0, CachedTasks DEF CacheInv
      <3>2. CASE d = c
        <4>1. /\ Len(group'[d]) = Len(group[c]) + 1
              /\ \A i \in 1..Len(group[c]) : group'[d][i] = group[c][i]
          <5>1. child \in Tasks /\ group'[d] = Append(group[c], child)
            BY <2>3, <3>2
          <5> QED
            BY <2>2, <5>1, AppendProperties
        <4> QED
          BY <2>2, <3>1, <3>2, <4>1
      <3>3. CASE d # c
        BY <2>3, <3>1, <3>3
      <3> QED
        BY <3>2, <3>3
    <2>6. \A d \in Containers : Launcher[d] \in Elements(group'[d])
      BY <2>4 DEF CacheInv
    <2>7. mpc = "refresh" =>
            \A d \in Containers : d > nr_secondary_ctrs => present \cap Elements(group'[d]) = {}
      BY <2>4 DEF CacheInv
    <2>8. \A d \in Containers : mpc # "refresh" \/ d < ctr =>
             present \cap Elements(group'[d]) \subseteq Elements(pidList[d])
      BY <2>4 DEF CacheInv
    <2> QED
      BY <2>1, <2>5, <2>6, <2>7, <2>8 DEF CacheInv
  <1>4. CASE Begin
    <2>1. /\ mpc = "idle" /\ mpc' = "refresh"
          /\ present' = UNION {Elements(group[c]) : c \in 1..nr_secondary_ctrs}
          /\ UNCHANGED <<group, pidList, nr_secondary_ctrs, ctr>>
      BY <1>4 DEF Begin
    <2>2. 1..nr_secondary_ctrs \subseteq Containers
      BY <1>0, ContainerAssumption DEF TypeOK, Containers
    <2>3. ctr = 1
      BY <1>0, <2>1 DEF PassInv, Pending
    <2>4. ASSUME NEW c \in Containers, c > nr_secondary_ctrs
          PROVE  present' \cap Elements(group[c]) = {}
      <3>1. ASSUME NEW d \in 1..nr_secondary_ctrs
            PROVE  Elements(group[d]) \cap Elements(group[c]) = {}
        <4>1. d # c /\ d \in Containers
          BY <1>0, <2>2, <2>4 DEF TypeOK, Containers
        <4> QED
          BY <1>0, <4>1 DEF PassInv, TasksApart
      <3> QED
        BY <2>1, <3>1
    <2>5. \A c \in Containers : ~(c < ctr)
      BY <2>3 DEF Containers
    <2> QED
      BY <2>1, <2>4, <2>5 DEF CacheInv
  <1>5. CASE Refresh
    <2>1. /\ mpc = "refresh" /\ mpc' = "refresh" /\ ctr <= nr_secondary_ctrs
          /\ UNCHANGED <<group, present, nr_secondary_ctrs>>
      BY <1>5 DEF Refresh
    <2>2. ctr \in Containers
      BY <1>0, <2>1, ContainerAssumption DEF TypeOK, Containers
    <2>3. /\ ctr' = ctr + 1
          /\ pidList' = IF Fresh(ctr) THEN pidList ELSE [pidList EXCEPT ![ctr] = Cached(group[ctr])]
      BY <1>5, <2>2 DEF Refresh, CacheInv
    <2>4. \A c \in Containers : pidList'[c] = IF c = ctr THEN group[c] ELSE pidList[c]
      BY <1>0, <2>2, <2>3, WholeCache DEF TypeOK
    <2>5. \A c \in Containers : c < ctr + 1 => c < ctr \/ c = ctr
      BY <1>0 DEF TypeOK, Containers
    <2>6. \A c \in Containers : Len(group[c]) \in Nat
      BY <1>0, LenProperties DEF TypeOK
    <2> QED
      BY <2>1, <2>3, <2>4, <2>5, <2>6 DEF CacheInv
  <1>6. CASE EndRefresh
    <2>1. /\ mpc = "refresh" /\ mpc' = "container" /\ ctr > nr_secondary_ctrs
          /\ UNCHANGED <<group, pidList, present, nr_secondary_ctrs>>
      BY <1>6 DEF EndRefresh
    <2>2. \A c \in Containers : c < ctr \/ c > nr_secondary_ctrs
      BY <1>0, <2>1 DEF TypeOK, Containers
    <2> QED
      BY <2>1, <2>2 DEF CacheInv
  <1>7. CASE NextContainer \/ PassOver \/ StayInPlace \/ Pin \/ EndPhase1 \/ Widen
             \/ EndPhase2 \/ End
    <2>1. /\ mpc # "refresh" /\ mpc' # "refresh"
          /\ UNCHANGED <<group, pidList, present, nr_secondary_ctrs>>
      BY <1>7 DEF NextContainer, PassOver, StayInPlace, Pin, EndPhase1, Widen, EndPhase2,
         End, InPhase
    <2> QED
      BY <2>1 DEF CacheInv
  <1>8. ASSUME NEW list \in Lists, Request(list) PROVE CacheInv'
    BY <1>1, <1>8 DEF Request
  <1>9. ASSUME NEW t \in Tasks, Block(t) \/ \E c \in Online : Run(t, c) PROVE CacheInv'
    BY <1>1, <1>9 DEF Block, Run
  <1>10. ASSUME NEW c \in Containers, NEW i \in DOMAIN group[c] PROVE ~Exit(c, i)
    BY DEF Exit
  <1>11. CASE UNCHANGED vars
    BY <1>1, <1>11 DEF vars
  <1> QED
    BY <1>2, <1>3, <1>4, <1>5, <1>6, <1>7, <1>8, <1>9, <1>10, <1>11
    DEF Next, Twopa, Environment

\* Without exits and with lists that fit, an answered request is in force on every
\* task that was there when the Monitor turned to it.
THEOREM PresentTasksConfined ==
    ASSUME MayExit = {}
    PROVE  Spec /\ []Fits => []PresentConfined
  <1>1. Init => CacheInv
    BY InitCache
  <1>2. IInv /\ Fits /\ CacheInv /\ [Next]_vars => CacheInv'
    BY StepCache
  <1>3. IInv /\ CacheInv => PresentConfined
    <2> SUFFICES ASSUME IInv, CacheInv, Answered, NEW t \in present, t \in Alive
                 PROVE  allowed[t] = FullMask
      BY DEF PresentConfined, Confined
    <2>1. PICK c \in Containers : t \in Elements(group[c])
      BY DEF Alive
    <2>2. t \in Elements(pidList[c])
      BY <2>1 DEF CacheInv, Answered
    <2> QED
      BY <2>2 DEF IInv, CachedConfined, Confined
  <1> QED
    BY <1>1, <1>2, <1>3, PassInvariant, PTL DEF Spec

-----------------------------------------------------------------------------
(* Lists fit, for one, where there are not more tasks than entries.        *)

\* The tasks that container c can ever have.
Own(c) == Tasks \ {Launcher[d] : d \in Containers \ {c}}

FewTasks == \A c \in Containers : IsFiniteSet(Own(c)) /\ Cardinality(Own(c)) <= PidListSize

\* No task is twice in its container.
Distinct == \A c \in Containers : \A i, j \in 1..Len(group[c]) : group[c][i] = group[c][j] => i = j

LEMMA StepDistinct ==
    ASSUME MayExit = {}, TypeOK, Distinct, [Next]_vars
    PROVE  Distinct'
  <1> USE DEF grant, kernel, placement
  <1>1. ASSUME UNCHANGED group PROVE Distinct'
    BY <1>1 DEF Distinct
  <1>2. ASSUME NEW c \in Containers, NEW parent \in Tasks, NEW child \in Tasks,
               Fork(c, parent, child)
        PROVE  Distinct'
    <2>1. group' = [group EXCEPT ![c] = Append(@, child)] /\ child \notin Alive
      BY <1>2 DEF Fork
    <2>2. group[c] \in Seq(Tasks) /\ Len(group[c]) \in Nat
      BY LenProperties DEF TypeOK
    <2>3. \A d \in Containers :
             group'[d] = IF d = c THEN Append(group[c], child) ELSE group[d]
      BY <2>1 DEF TypeOK
    <2>4. \A i \in 1..Len(group[c]) : group[c][i] # child
      <3>1. child \notin Elements(group[c])
        BY <2>1 DEF Alive
      <3>2. DOMAIN group[c] = 1..Len(group[c])
        BY <2>2
      <3> QED
        BY <3>1, <3>2 DEF Elements
    <2>5. ASSUME NEW d \in Containers,
                 NEW i \in 1..Len(group'[d]), NEW j \in 1..Len(group'[d]),
                 group'[d][i] = group'[d][j]
          PROVE  i = j
      <3>1. CASE d # c
        BY <2>3, <2>5, <3>1 DEF Distinct
      <3>2. CASE d = c
        <4>1. /\ Len(group'[d]) = Len(group[c]) + 1
              /\ \A k \in 1..Len(group[c]) : group'[d][k] = group[c][k]
              /\ group'[d][Len(group[c]) + 1] = child
          <5>1. child \in Tasks /\ group'[d] = Append(group[c], child)
            BY <2>3, <3>2
          <5> QED
            BY <2>2, <5>1, AppendProperties
        <4>2. /\ i \in 1..Len(group[c]) \/ i = Len(group[c]) + 1
              /\ j \in 1..Len(group[c]) \/ j = Len(group[c]) + 1
          BY <2>2, <4>1
        <4> QED
          BY <2>4, <2>5, <4>1, <4>2 DEF Distinct
      <3> QED
        BY <3>1, <3>2
    <2> QED
      BY <2>5 DEF Distinct
  <1>3. ASSUME NEW c \in Containers, NEW i \in DOMAIN group[c] PROVE ~Exit(c, i)
    BY DEF Exit
  <1>4. ASSUME ~\E c \in Containers, parent, child \in Tasks : Fork(c, parent, child)
        PROVE  UNCHANGED group
    BY <1>3, <1>4 DEF Next, Twopa, Environment, vars, Begin, Refresh, EndRefresh, NextContainer,
       PassOver, StayInPlace, Pin, EndPhase1, Widen, EndPhase2, End, Register, Request, Block, Run
  <1> QED
    BY <1>1, <1>2, <1>4

\* The launchers of the others stay in their containers, so that a container has
\* its own tasks only, each once.
LEMMA DistinctFit ==
    ASSUME FewTasks, IInv, CacheInv, Distinct
    PROVE  Fits
  <1> SUFFICES ASSUME NEW c \in Containers PROVE Len(group[c]) <= PidListSize
    BY DEF Fits
  <1>1. group[c] \in Seq(Tasks) /\ Len(group[c]) \in Nat /\ DOMAIN group[c] = 1..Len(group[c])
        /\ \A i \in 1..Len(group[c]) : group[c][i] \in Tasks
    BY LenProperties DEF IInv, TypeOK
  <1>2. \A i \in 1..Len(group[c]) : group[c][i] \in Own(c)
    <2> SUFFICES ASSUME NEW i \in 1..Len(group[c]), NEW d \in Containers \ {c},
                        group[c][i] = Launcher[d]
                 PROVE  FALSE
      BY <1>1 DEF Own
    <2>1. Launcher[d] \in Elements(group[d])
      BY DEF CacheInv
    <2>2. Launcher[d] \in Elements(group[c])
      BY <1>1 DEF Elements
    <2> QED
      BY <2>1, <2>2 DEF IInv, PassInv, TasksApart
  <1>3. group[c] \in Injection(1..Len(group[c]), Own(c))
    <2>1. group[c] \in [1..Len(group[c]) -> Own(c)]
      BY <1>1, <1>2
    <2> QED
      BY <2>1 DEF Distinct, Injection, IsInjective
  <1>4. /\ Cardinality(1..Len(group[c])) = Len(group[c])
        /\ Cardinality(1..Len(group[c])) <= Cardinality(Own(c))
    <2>1. IsFiniteSet(Own(c))
      BY DEF FewTasks
    <2>2. Cardinality(1..Len(group[c])) <= Cardinality(Own(c))
      BY <1>3, <2>1, FS_Injection
    <2>3. Cardinality(1..Len(group[c])) = Len(group[c])
      BY <1>1, FS_Interval
    <2> QED
      BY <2>2, <2>3
  <1>5. Cardinality(Own(c)) <= PidListSize /\ Cardinality(Own(c)) \in Nat /\ PidListSize \in Nat
    BY SizeAssumption, FS_CardinalityType DEF FewTasks
  <1> QED
    BY <1>1, <1>4, <1>5

\* With no more tasks than a PID list has entries, and without exits, an answered
\* request is in force on every task the pass found, whatever they do meanwhile.
THEOREM FewTasksConfined ==
    ASSUME MayExit = {}, FewTasks
    PROVE  Spec => [](Fits /\ PresentConfined)
  <1>1. Init => Distinct
    <2> SUFFICES ASSUME Init PROVE Distinct
      OBVIOUS
    <2>1. \A c \in Containers : group[c] = <<Launcher[c]>> /\ Len(<<Launcher[c]>>) = 1
      BY DEF Init
    <2> QED
      BY <2>1 DEF Distinct
  <1>2. IInv => TypeOK
    BY DEF IInv
  <1>3. IInv /\ Distinct /\ [Next]_vars => Distinct'
    BY <1>2, StepDistinct
  <1>4. IInv /\ CacheInv /\ Distinct => Fits
    BY DistinctFit
  <1>5. IInv /\ Fits /\ CacheInv /\ [Next]_vars => CacheInv'
    BY StepCache
  <1>6. Spec => []Fits
    BY <1>1, <1>3, <1>4, <1>5, InitCache, PassInvariant, PTL DEF Spec
  <1> QED
    BY <1>6, PresentTasksConfined, PTL

(***************************************************************************)
(* The pass keeps to the channel between Balancer and Monitor.             *)
(***************************************************************************)
\* The Balancer compares the lengths of the lists, the channel the lists.
Counted == Cardinality(Granted) = num_affinity

\* The channel counts cores as sets are counted.
LEMMA SameCount == \A S : Channel!Cardinality(S) = Cardinality(S)
  BY DEF Channel!Cardinality, Cardinality

\* A list of the Balancer has as many entries as cores.
LEMMA ListCounts ==
    ASSUME NEW list \in Lists
    PROVE  /\ Len(list) \in Nat /\ Len(list) <= ListSize /\ DOMAIN list = 1..Len(list)
           /\ Elements(list) \subseteq Lendable
           /\ Cardinality(Elements(list)) = Len(list)
  <1>1. /\ list \in Seq(Lendable) /\ Len(list) \in Nat /\ Len(list) <= ListSize
        /\ DOMAIN list = 1..Len(list)
    BY CoreAssumption, SizeAssumption
  <1>2. list \in Bijection(1..Len(list), Elements(list))
    <2>1. list \in [1..Len(list) -> Elements(list)]
      BY <1>1 DEF Elements
    <2>2. \A i, j \in 1..Len(list) : list[i] = list[j] => i = j
      BY <1>1, ListAssumption
    <2>3. \A x \in Elements(list) : \E i \in 1..Len(list) : list[i] = x
      BY <1>1 DEF Elements
    <2> QED
      BY <1>1, <2>1, <2>2, <2>3 DEF Bijection, Injection, Surjection, IsInjective
  <1>3. Cardinality(Elements(list)) = Len(list)
    BY <1>1, <1>2, FS_CountingElements DEF ExistsBijection
  <1>4. Elements(list) \subseteq Lendable
    BY <1>1 DEF Elements
  <1> QED
    BY <1>1, <1>3, <1>4

\* What a request overwrites of affinity_list is what it grants.
LEMMA RequestGrants ==
    ASSUME TypeOK, NEW list \in Lists, Request(list)
    PROVE  Granted' = Elements(list) /\ num_affinity' = Len(list)
  <1>1. /\ affinity_list' = [i \in 1..ListSize |->
                               IF i <= Len(list) THEN list[i] ELSE affinity_list[i]]
        /\ num_affinity' = Len(list)
    BY DEF Request
  <1>2. /\ Len(list) \in Nat /\ Len(list) <= ListSize /\ ListSize \in Nat
        /\ DOMAIN list = 1..Len(list)
    BY ListCounts, SizeAssumption
  <1>3. \A i \in 1..Len(list) : affinity_list'[i] = list[i]
    BY <1>1, <1>2
  <1> QED
    BY <1>1, <1>2, <1>3 DEF Granted, Elements

\* A request is the only step that changes the grant.
LEMMA GrantKept ==
    ASSUME [Next]_vars
    PROVE  (\E list \in Lists : Request(list)) \/ UNCHANGED <<affinity_list, num_affinity>>
  BY DEF Next, Twopa, Environment, vars, grant, Begin, Refresh, EndRefresh, NextContainer,
         PassOver, StayInPlace, Pin, EndPhase1, Widen, EndPhase2, End, Register, Fork, Exit,
         Block, Run

\* A list and its length change together.
LEMMA StepCounted ==
    ASSUME TypeOK, Counted, [Next]_vars
    PROVE  Counted'
  <1>1. ASSUME NEW list \in Lists, Request(list) PROVE Counted'
    BY <1>1, RequestGrants, ListCounts DEF Counted
  <1>2. ASSUME UNCHANGED <<affinity_list, num_affinity>> PROVE Counted'
    BY <1>2 DEF Counted, Granted
  <1> QED
    BY <1>1, <1>2, GrantKept

\* Every step is one of the channel or leaves it alone.
LEMMA StepHandsOver ==
    ASSUME IInv, Counted, [Next]_vars
    PROVE  [Channel!Next]_(Channel!vars)
  <1> USE DEF Channel!Next, Channel!vars
  <1>0. TypeOK /\ PassInv
    BY DEF IInv
  <1>1. ASSUME NEW list \in Lists, Request(list) PROVE Channel!Offer
    <2>1. /\ Granted' = Elements(list) /\ num_affinity' = Len(list)
          /\ Elements(list) \subseteq Lendable
          /\ Cardinality(Elements(list)) = Len(list) /\ Len(list) \in Nat
      BY <1>0, <1>1, RequestGrants, ListCounts
    <2>2. /\ needs_rebalance = 0 /\ mpc = "idle" /\ mpc' = mpc
          /\ Len(list) = 0 \/ Elements(list) # Granted
          /\ needs_rebalance' = IF Len(list) = 0 THEN 3
                                ELSE IF Len(list) < num_affinity THEN 2 ELSE 1
      BY <1>0, <1>1 DEF Request, PassInv, Pending
    <2>3. Len(list) = 0 <=> Elements(list) = {}
      <3>1. Len(list) # 0 => 1 \in DOMAIN list
        BY ListCounts
      <3>2. Len(list) = 0 => DOMAIN list = {}
        BY ListCounts
      <3> QED
        BY <3>1, <3>2 DEF Elements
    <2>4. needs_rebalance' = Channel!Kind(Granted', Granted)
      <3>1. Channel!Cardinality(Granted') = Len(list)
            /\ Channel!Cardinality(Granted) = num_affinity
        BY <2>1, SameCount DEF Counted
      <3> QED
        BY <2>1, <2>2, <2>3, <3>1 DEF Channel!Kind
    <2>5. Channel!Change
      BY <2>1, <2>2, <2>3 DEF Channel!Change
    <2> QED
      BY <2>4, <2>5 DEF Channel!Offer
  <1>2. ASSUME UNCHANGED <<affinity_list, num_affinity>> PROVE Granted' = Granted
    BY <1>2 DEF Granted
  <1>3. CASE Begin
    <2>1. UNCHANGED <<affinity_list, num_affinity, needs_rebalance>>
          /\ mpc = "idle" /\ mpc' = "refresh" /\ needs_rebalance # 0
      BY <1>0, <1>3 DEF Begin, grant, TypeOK
    <2> QED
      BY <1>2, <2>1 DEF Channel!Read
  <1>4. CASE End
    <2>1. UNCHANGED <<affinity_list, num_affinity>>
          /\ mpc = "container" /\ mpc' = "idle" /\ needs_rebalance' = 0
      BY <1>4 DEF End, grant
    <2> QED
      BY <1>2, <2>1 DEF Channel!Answer
  <1>5. CASE \/ Refresh \/ EndRefresh \/ NextContainer \/ PassOver \/ StayInPlace
             \/ Pin \/ EndPhase1 \/ Widen \/ EndPhase2
    <2>1. /\ UNCHANGED <<affinity_list, num_affinity, needs_rebalance>>
          /\ mpc # "idle" /\ mpc' # "idle"
      BY <1>5 DEF Refresh, EndRefresh, NextContainer, PassOver, StayInPlace, Pin, EndPhase1,
                  Widen, EndPhase2, InPhase, grant
    <2> QED
      BY <1>2, <2>1
  <1>6. CASE UNCHANGED <<affinity_list, num_affinity, needs_rebalance, mpc>>
    BY <1>2, <1>6
  <1>7. ASSUME NEW c \in Containers, NEW parent \in Tasks, NEW child \in Tasks,
               Fork(c, parent, child)
        PROVE  UNCHANGED <<affinity_list, num_affinity, needs_rebalance, mpc>>
    BY <1>7 DEF Fork, grant
  <1>8. ASSUME NEW c \in Containers, NEW i \in DOMAIN group[c], Exit(c, i)
        PROVE  UNCHANGED <<affinity_list, num_affinity, needs_rebalance, mpc>>
    BY <1>8 DEF Exit, grant
  <1>9. ASSUME NEW t \in Tasks, Block(t) \/ \E c \in Online : Run(t, c)
        PROVE  UNCHANGED <<affinity_list, num_affinity, needs_rebalance, mpc>>
    BY <1>9 DEF Block, Run, grant
  <1>10. CASE Register \/ UNCHANGED vars
    BY <1>6, <1>10 DEF Register, vars, grant
  <1> QED
    BY <1>1, <1>3, <1>4, <1>5, <1>6, <1>7, <1>8, <1>9, <1>10 DEF Next, Twopa, Environment

\* For any tasks and lists: the Monitor reads the list only on request and clears
\* the request once the whole pass is over, and the requests of this module are
\* those that the Balancer makes.
THEOREM TwopaHandsOver == Spec => ImplementsHandOver
  <1>1. Init => Channel!Init /\ Counted
    <2> SUFFICES ASSUME Init PROVE Channel!Init /\ Counted
      OBVIOUS
    <2>1. num_affinity = 0 /\ needs_rebalance = 0 /\ mpc = "idle"
      BY DEF Init
    <2>2. Granted = {}
      BY <2>1 DEF Granted
    <2> QED
      BY <2>1, <2>2, FS_EmptySet DEF Channel!Init, Counted
  <1>2. IInv /\ Counted /\ [Next]_vars => Counted'
    BY StepCounted DEF IInv
  <1>3. IInv /\ Counted /\ [Next]_vars => [Channel!Next]_(Channel!vars)
    BY StepHandsOver
  <1> QED
    BY <1>1, <1>2, <1>3, PassInvariant, PTL DEF Spec, ImplementsHandOver, Channel!Spec
=============================================================================
