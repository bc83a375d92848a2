--------------------------- MODULE BalancerProofs ---------------------------
(***************************************************************************)
(* Theorems about Balancer, for any number of Primaries, any pools of      *)
(* cores and any tuning that its assumptions admit.                        *)
(***************************************************************************)
EXTENDS Balancer, FiniteSetTheorems, TLAPS

(***************************************************************************)
(* Facts about the pools of cores.                                         *)
(***************************************************************************)

\* The list of a Primary is a finite sequence of numbers.
LEMMA ListFacts ==
    ASSUME NEW p \in Ctrs
    PROVE  /\ CpuList[p] \in Seq(Nat)
           /\ NumCpus(p) \in Nat
           /\ DOMAIN CpuList[p] = 1..NumCpus(p)
           /\ ListedCores(p) \subseteq Cores
  BY CpuListAssumption DEF NumCpus, ListedCores, Cores

\* A pool is finite, and no larger than its list.
LEMMA PoolFinite ==
    ASSUME NEW p \in Ctrs, NEW K \in SUBSET DOMAIN CpuList[p]
    PROVE  LET T == {CpuList[p][k] : k \in K}
           IN  /\ IsFiniteSet(K)
               /\ IsFiniteSet(T)
               /\ Cardinality(T) <= Cardinality(K)
  <1> DEFINE T == {CpuList[p][k] : k \in K}
             f == [k \in K |-> CpuList[p][k]]
  <1>1. IsFiniteSet(K)
    <2>1. IsFiniteSet(1..NumCpus(p))
      BY ListFacts, FS_Interval
    <2> QED
      BY <2>1, ListFacts, FS_Subset
  <1>2. f \in Surjection(K, T)
    BY DEF Surjection
  <1> QED
    BY <1>1, <1>2, FS_Surjection

LEMMA ListedFinite ==
    ASSUME NEW p \in Ctrs, NEW S \in SUBSET ListedCores(p)
    PROVE  IsFiniteSet(S) /\ Cardinality(S) \in Nat
  <1>1. IsFiniteSet(ListedCores(p))
    BY PoolFinite DEF ListedCores
  <1> QED
    BY <1>1, FS_Subset, FS_CardinalityType

\* A grant is made of the Primary's own cores.
LEMMA GrantListed ==
    ASSUME NEW p \in Ctrs, NEW spare, NEW last, NEW active
    PROVE  /\ Grant(p, spare, last, active) \subseteq ListedCores(p)
           /\ Cardinality(Grant(p, spare, last, active)) \in Nat
           /\ \A c \in Grant(p, spare, last, active) : c \in last \/ c \notin active
  <1>1. Grant(p, spare, last, active) \subseteq ListedCores(p)
    BY DEF Grant, Candidates, ListedCores
  <1>2. \A c \in Grant(p, spare, last, active) : c \in last \/ c \notin active
    BY DEF Grant, Candidates
  <1> QED
    BY <1>1, <1>2, ListedFinite

(***************************************************************************)
(* A grant has at most the spare number of cores: the number of candidates *)
(* behind a granted position tells granted positions apart.                *)
(***************************************************************************)
LEMMA GrantBound ==
    ASSUME NEW p \in Ctrs, NEW spare \in Nat, NEW last, NEW active
    PROVE  Cardinality(Grant(p, spare, last, active)) <= spare
  <1> DEFINE C == Candidates(p, last, active)
             Behind(j) == {i \in C : i > j}
             G == {j \in C : Cardinality(Behind(j)) < spare}
             T == {CpuList[p][k] : k \in G}
             f == [j \in G |-> Cardinality(Behind(j))]
  <1>1. C \subseteq DOMAIN CpuList[p] /\ C \subseteq Nat
    BY ListFacts DEF Candidates
  <1>2. \A j \in C : IsFiniteSet(Behind(j)) /\ Cardinality(Behind(j)) \in Nat
    <2>1. IsFiniteSet(C)
      BY <1>1, PoolFinite
    <2> QED
      BY <2>1, FS_Subset, FS_CardinalityType
  <1>3. \A j, k \in G : j < k => Cardinality(Behind(k)) # Cardinality(Behind(j))
    <2> SUFFICES ASSUME NEW j \in G, NEW k \in G, j < k
                 PROVE  Cardinality(Behind(k)) # Cardinality(Behind(j))
      OBVIOUS
    <2>1. Behind(k) \subseteq Behind(j)
      BY <1>1
    <2>2. k \in Behind(j) /\ k \notin Behind(k)
      BY <1>1
    <2> HIDE DEF Behind
    <2> QED
      BY <1>2, <2>1, <2>2, FS_Subset
  <1>4. f \in Injection(G, 0..(spare - 1))
    <2>1. \A j \in G : Cardinality(Behind(j)) \in 0..(spare - 1)
      <3> HIDE DEF Behind, C
      <3> QED  BY <1>2
    <2>2. f \in [G -> 0..(spare - 1)]
      <3> HIDE DEF Behind, G
      <3> QED  BY <2>1
    <2>3. \A j, k \in G : f[j] = f[k] => j = k
      BY <1>1, <1>3
    <2> HIDE DEF f
    <2> QED
      BY <2>2, <2>3 DEF Injection, IsInjective
  <1>5. Cardinality(G) <= spare
    <2>1. IsFiniteSet(0..(spare - 1)) /\ Cardinality(0..(spare - 1)) = spare
      BY FS_Interval
    <2> HIDE DEF G, f
    <2> QED
      BY <1>4, <2>1, FS_Injection
  <1>6. Cardinality(T) <= Cardinality(G) /\ IsFiniteSet(G) /\ IsFiniteSet(T)
    <2>1. G \in SUBSET DOMAIN CpuList[p]
      BY <1>1
    <2> HIDE DEF G
    <2> QED
      BY <2>1, PoolFinite
  <1>7. Cardinality(T) \in Nat /\ Cardinality(G) \in Nat
    BY <1>6, FS_CardinalityType
  <1>8. Grant(p, spare, last, active) = T
    BY DEF Grant
  <1> HIDE DEF T, G
  <1> QED
    BY <1>5, <1>6, <1>7, <1>8

(***************************************************************************)
(* The controller keeps a Primary's record well formed.                    *)
(***************************************************************************)
Tuned(p, c) == /\ c \in CtrInfo
               /\ c.target \in LowTic..StaticTarget[p]
               /\ c.max = NumCpus(p) - c.target

LEMMA ObserveTuned ==
    ASSUME NEW p \in Ctrs, NEW c, Tuned(p, c)
    PROVE  Tuned(p, DoObserve(c))
  <1>1. CASE c.ramp < RampUp
    <2>1. c.ramp + 1 \in 0..RampUp
      BY <1>1, TuningAssumption DEF Tuned, CtrInfo
    <2> QED
      BY <1>1, <2>1 DEF Tuned, DoObserve, CtrInfo
  <1>2. CASE ~(c.ramp < RampUp)
    <2>1. 0 \in 0..RampUp
      BY TuningAssumption
    <2> QED
      BY <1>2, <2>1 DEF Tuned, DoObserve, CtrInfo
  <1> QED
    BY <1>1, <1>2

LEMMA AdjustTuned ==
    ASSUME NEW p \in Ctrs, NEW c, Tuned(p, c), NEW s \in Samples
    PROVE  Tuned(p, DoAdjust(p, c, s))
  <1> DEFINE a == AdjustTarget(p, c, s)
  <1>1. LowTic \in Nat /\ StaticTarget[p] \in Nat /\ NumCpus(p) \in Nat
        /\ LowTic <= StaticTarget[p] /\ StaticTarget[p] <= NumCpus(p)
    BY TargetAssumption, ListFacts
  <1>2. Raised(p, c.target) \in LowTic..StaticTarget[p]
    BY <1>1 DEF Raised, Tuned, CtrInfo
  <1>3. Lowered(c.target) \in LowTic..StaticTarget[p]
    BY <1>1 DEF Lowered, Tuned, CtrInfo
  <1>4. a \in CtrInfo /\ a.target \in LowTic..StaticTarget[p]
    <2> DEFINE within == c.within \/ s = "near"
    <2>1. CASE s = "high"
      <3>1. a = [c EXCEPT !.target = Raised(p, c.target)]
        BY <2>1 DEF AdjustTarget
      <3> QED
        BY <1>1, <1>2, <3>1 DEF Tuned, CtrInfo
    <2>2. CASE s # "high" /\ within /\ c.surplus < SurplusEvtsThresh
      <3>1. a = [c EXCEPT !.surplus = c.surplus + 1, !.within = TRUE]
        BY <2>2 DEF AdjustTarget
      <3>2. c.surplus + 1 \in 0..(SurplusEvtsThresh + 1)
        BY <2>2, TuningAssumption DEF Tuned, CtrInfo
      <3> QED
        BY <3>1, <3>2 DEF Tuned, CtrInfo
    <2>3. CASE s # "high" /\ ~(within /\ c.surplus < SurplusEvtsThresh)
      <3>1. a = [c EXCEPT !.target = Lowered(c.target), !.surplus = 0, !.within = FALSE]
        BY <2>3 DEF AdjustTarget
      <3>2. 0 \in 0..(SurplusEvtsThresh + 1)
        BY TuningAssumption
      <3>3. Lowered(c.target) \in Nat
        BY <1>1, <1>3
      <3> HIDE DEF a
      <3> QED
        BY <1>3, <3>1, <3>2, <3>3 DEF Tuned, CtrInfo
    <2> QED
      BY <2>1, <2>2, <2>3
  <1>5. NumCpus(p) - a.target \in Nat
    <2> HIDE DEF a
    <2> QED  BY <1>1, <1>4
  <1> QED
    <2> DoAdjust(p, c, s) = [a EXCEPT !.max = NumCpus(p) - a.target, !.state = "HARVEST"]
      BY DEF DoAdjust
    <2> HIDE DEF a
    <2> QED  BY <1>4, <1>5 DEF Tuned, CtrInfo

LEMMA DifferenceType ==
    ASSUME NEW p \in Ctrs, NEW c, Tuned(p, c), NEW active
    PROVE  CoreDifference(p, c, active) \in Int
  <1>1. Cardinality(IdleCores(p, active)) \in Nat
    BY ListedFinite DEF IdleCores
  <1> QED
    BY <1>1 DEF CoreDifference, Tuned, CtrInfo

LEMMA HarvestTuned ==
    ASSUME NEW p \in Ctrs, NEW c, Tuned(p, c), NEW diff \in Int
    PROVE  Tuned(p, DoHarvest(p, c, diff))
  <1>1. SpareCores(c, diff) \in Nat
    BY DEF SpareCores, Tuned, CtrInfo
  <1> QED
    BY <1>1 DEF DoHarvest, Tuned, CtrInfo

LEMMA EvaluateTuned ==
    ASSUME NEW p \in Ctrs, NEW c, Tuned(p, c), NEW active, NEW s \in Samples
    PROVE  Tuned(p, EvaluatePrimaryContainer(p, c, active, s))
  <1>1. Tuned(p, Sampled(p, c, s))
    BY ObserveTuned, AdjustTuned DEF Sampled
  <1> QED
    BY <1>1, DifferenceType, HarvestTuned DEF EvaluatePrimaryContainer, SampledDifference

(***************************************************************************)
(* Type correctness, with the bounds on the adaptive target it rests on.   *)
(***************************************************************************)
AllTuned(d) == /\ d \in [Ctrs -> CtrInfo]
               /\ \A p \in Ctrs : Tuned(p, d[p])

LEMMA AllTunedMeaning ==
    ctr \in [Ctrs -> CtrInfo] /\ TargetBounds <=> AllTuned(ctr)
  BY DEF TargetBounds, AllTuned, Tuned

LEMMA AllTunedMeaningNext ==
    ctr' \in [Ctrs -> CtrInfo] /\ TargetBounds' <=> AllTuned(ctr')
  BY DEF TargetBounds, AllTuned, Tuned

LEMMA InitTyped == Init => TypeOK /\ TargetBounds
  <1> SUFFICES ASSUME Init PROVE TypeOK /\ TargetBounds
    OBVIOUS
  <1>1. ASSUME NEW p \in Ctrs PROVE Tuned(p, InitialCtr(p))
    <2>1. /\ LowTic \in Nat /\ InitialTarget[p] \in Nat /\ StaticTarget[p] \in Nat
          /\ NumCpus(p) \in Nat /\ LowTic <= InitialTarget[p]
          /\ InitialTarget[p] <= StaticTarget[p] /\ StaticTarget[p] <= NumCpus(p)
      BY TargetAssumption, ListFacts
    <2>2. NumCpus(p) - InitialTarget[p] \in Nat
      BY <2>1
    <2>3. 0 \in 0..RampUp /\ SurplusEvtsThresh + 1 \in 0..(SurplusEvtsThresh + 1)
      BY TuningAssumption
    <2> QED
      BY <2>1, <2>2, <2>3 DEF Tuned, CtrInfo, InitialCtr
  <1>2. AllTuned(ctr)
    BY <1>1 DEF Init, AllTuned, Tuned
  <1>3. TypeOK
    <2>1. ctr \in [Ctrs -> CtrInfo]
      BY <1>2 DEF AllTuned
    <2>2. balancerControl \in {-1, 0, 1} /\ updatingPids \in {0, 1}
      BY BootAssumption DEF Init
    <2>3. nr_primary_ctrs \in 0..MaxPrimaries /\ toScan \in 0..MaxContainers
      BY CpuListAssumption, TuningAssumption DEF Init
    <2>4. /\ needs_rebalance \in 0..3 /\ rebalanceAction \in 0..3
          /\ currSecondaryCoreCount \in Nat
      BY DEF Init
    <2>5. /\ affinity \subseteq Cores /\ currIdleMask \subseteq Cores
          /\ setAffinityMask \subseteq Cores /\ lastAffinityMask \subseteq Cores
          /\ applied \subseteq Cores
      BY DEF Init
    <2>6. pc = "paused" /\ mpc = "scan" /\ lpc = "idle"
      BY DEF Init
    <2>7. failed \in BOOLEAN
      BY Zenon DEF Init
    <2> QED
      BY <2>1, <2>2, <2>3, <2>4, <2>5, <2>6, <2>7 DEF TypeOK
  <1> QED
    BY <1>2, <1>3, AllTunedMeaning

\* What Allocate computes: the lent cores are listed, and their count is a
\* number.
LEMMA MaskFacts ==
    ASSUME TypeOK, NEW mask, mask = UNION {Grants[p] : p \in 1..nr_primary_ctrs}
    PROVE  /\ mask \subseteq Cores
           /\ \A c \in mask : c \in lastAffinityMask \/ c \notin currIdleMask
           /\ IsFiniteSet(mask)
           /\ Cardinality(mask) \in Nat
  <1>1. 1..nr_primary_ctrs \subseteq Ctrs
    BY CpuListAssumption DEF TypeOK, Ctrs
  <1>2. \A p \in 1..nr_primary_ctrs :
           /\ Grants[p] \subseteq ListedCores(p)
           /\ \A c \in Grants[p] : c \in lastAffinityMask \/ c \notin currIdleMask
    BY <1>1, GrantListed DEF Grants
  <1>3. mask \subseteq Cores
    BY <1>1, <1>2 DEF Cores
  <1>4. IsFiniteSet(Cores)
    <2> DEFINE F == {ListedCores(p) : p \in Ctrs}
    <2>1. IsFiniteSet(Ctrs)
      BY CpuListAssumption, FS_Interval DEF Ctrs
    <2>2. [p \in Ctrs |-> ListedCores(p)] \in Surjection(Ctrs, F)
      BY DEF Surjection
    <2>3. IsFiniteSet(F)
      BY <2>1, <2>2, FS_Surjection
    <2>4. \A S \in F : IsFiniteSet(S)
      BY ListedFinite
    <2> QED
      BY <2>3, <2>4, FS_UNION DEF Cores
  <1> QED
    BY <1>2, <1>3, <1>4, FS_Subset, FS_CardinalityType

LEMMA StepTyped == TypeOK /\ TargetBounds /\ [Next]_vars => TypeOK' /\ TargetBounds'
  <1> SUFFICES ASSUME TypeOK, TargetBounds, [Next]_vars
               PROVE  TypeOK' /\ TargetBounds'
    OBVIOUS
  <1> USE DEF TypeOK, TargetBounds, Waiting
  <1>1. CASE Unpause
    BY <1>1 DEF Unpause, shared, decision, monitor, listener
  <1>2. ASSUME NEW m \in SUBSET Cores, NEW samples \in [1..nr_primary_ctrs -> Samples],
               Poll(m, samples)
        PROVE  TypeOK' /\ TargetBounds'
    <2>1. AllTuned(ctr)
      BY AllTunedMeaning
    <2>2. ASSUME NEW p \in Ctrs PROVE Tuned(p, ctr'[p])
      <3>1. CASE p <= nr_primary_ctrs
        <4>1. samples[p] \in Samples
          BY <3>1, CpuListAssumption DEF Ctrs
        <4>2. ctr'[p] = EvaluatePrimaryContainer(p, ctr[p], m, samples[p])
          BY <1>2, <3>1 DEF Poll
        <4> QED
          BY <2>1, <4>1, <4>2, EvaluateTuned DEF AllTuned
      <3>2. CASE ~(p <= nr_primary_ctrs)
        BY <1>2, <2>1, <3>2 DEF Poll, AllTuned
      <3> QED
        BY <3>1, <3>2
    <2>3. AllTuned(ctr')
      <3>1. ctr' = [p \in Ctrs |-> ctr'[p]]
        BY <1>2 DEF Poll
      <3> QED
        BY <2>2, <3>1 DEF AllTuned, Tuned
    <2>4. ctr' \in [Ctrs -> CtrInfo] /\ TargetBounds'
      BY <2>3, AllTunedMeaningNext
    <2> QED
      BY <1>2, <2>4 DEF Poll, shared, monitor, listener
  <1>3. CASE Allocate
    <2> DEFINE mask == UNION {Grants[p] : p \in 1..nr_primary_ctrs}
               count == Cardinality(mask)
    <2>1. mask \subseteq Cores /\ count \in Nat
      BY MaskFacts
    <2>2. ASSUME NEW p \in Ctrs
          PROVE  Tuned(p, ctr'[p])
      <3>1. Tuned(p, ctr[p])
        BY AllTunedMeaning DEF AllTuned
      <3>2. CASE p <= nr_primary_ctrs
        <4>1. Cardinality(Grants[p]) \in Nat
          BY <3>2, GrantListed, CpuListAssumption DEF Grants, Ctrs
        <4>2. ctr'[p] = [ctr[p] EXCEPT !.alloc = Cardinality(Grants[p])]
          BY <1>3, <3>2 DEF Allocate, Recount
        <4> QED
          BY <3>1, <4>1, <4>2 DEF Tuned, CtrInfo
      <3>3. CASE ~(p <= nr_primary_ctrs)
        BY <1>3, <3>1, <3>3 DEF Allocate
      <3> QED
        BY <3>2, <3>3
    <2>3. AllTuned(ctr')
      <3>1. ctr' = [p \in Ctrs |-> ctr'[p]]
        BY <1>3 DEF Allocate
      <3> QED
        BY <2>2, <3>1 DEF AllTuned, Tuned
    <2>4. ctr' \in [Ctrs -> CtrInfo] /\ TargetBounds'
      BY <2>3, AllTunedMeaningNext
    <2>5. ActionFor(count, currSecondaryCoreCount) \in 0..3
      BY DEF ActionFor
    <2>6. /\ setAffinityMask' = mask /\ currSecondaryCoreCount' = count
          /\ rebalanceAction' = ActionFor(count, currSecondaryCoreCount)
          /\ pc' \in {"poll", "waitPids"} /\ affinity' = mask
          /\ lastAffinityMask' \in {mask, lastAffinityMask}
          /\ UNCHANGED <<balancerControl, updatingPids, needs_rebalance,
                         nr_primary_ctrs, currIdleMask,
                         mpc, applied, lpc, failed, toScan>>
      BY <1>3 DEF Allocate, monitor, listener
    <2> HIDE DEF mask, count
    <2> QED
      BY <2>1, <2>4, <2>5, <2>6
  <1>4. CASE \/ PidsReady \/ PidsBusy \/ MonitorBusy \/ SpinAgain \/ Exit
    BY <1>4 DEF PidsReady, PidsBusy, MonitorBusy, SpinAgain, Exit, Goto,
                shared, decision, monitor, listener
  <1>5. CASE Publish
    BY <1>5 DEF Publish, decision, monitor, listener
  <1>6. CASE MonitorAnswered \/ Abort
    BY <1>6 DEF MonitorAnswered, Abort, EndIteration, shared, monitor, listener
  <1>7. CASE MonitorStep \/ MonitorSleep \/ MonitorWake
    BY <1>7 DEF MonitorStep, MonitorBegin, MonitorEnd, Installed, MonitorSleep,
                MonitorWake, shared, decision, listener
  <1>8. CASE RegisterPrimary
    BY <1>8, CpuListAssumption DEF RegisterPrimary, decision, monitor, listener
  <1>9. CASE ReceiveSecondary \/ FinishPod \/ Cancel
    BY <1>9 DEF ReceiveSecondary, FinishPod, Cancel, shared, decision, monitor
  <1>10. CASE UnreadableContainer \/ BeginScan
    <2>1. toScan' \in 0..MaxContainers
      BY <1>10, TuningAssumption DEF UnreadableContainer, BeginScan
    <2> QED
      BY <1>10, <2>1 DEF UnreadableContainer, BeginScan, shared, decision, monitor
  <1>11. CASE EndScan \/ Activate
    BY <1>11 DEF EndScan, Activate, decision, monitor
  <1>12. CASE Stop
    BY <1>12 DEF Stop, decision, monitor, listener
  <1>13. CASE UNCHANGED vars
    BY <1>13 DEF vars, shared, decision, monitor, listener
  <1> QED
    BY <1>1, <1>2, <1>3, <1>4, <1>5, <1>6, <1>7, <1>8, <1>9, <1>10, <1>11, <1>12, <1>13
    DEF Next, BalancerStep, ListenerStep

\* Every word of the protocol keeps to its values, each Primary's target stays
\* between LOW_TIC and its static target, and its maxSecondaryCores follows.
THEOREM TypeCorrect == Spec => [](TypeOK /\ TargetBounds)
  BY InitTyped, StepTyped, PTL DEF Spec

(***************************************************************************)
(* The protocol.  The theorems of this part are about a Balancer that is   *)
(* not signalled before it is active: the run stop_while_paused shows what *)
(* they lose otherwise.                                                    *)
(***************************************************************************)
Protocol == TypeOK /\ Handshake /\ NoBusyCoreTaken

LEMMA InitProtocol == Init => Handshake /\ NoBusyCoreTaken
  <1> SUFFICES ASSUME Init PROVE Handshake /\ NoBusyCoreTaken
    OBVIOUS
  <1>1. Handshake
    BY DEF Init, Handshake, Waiting
  <1>2. NoBusyCoreTaken
    BY DEF Init, NoBusyCoreTaken
  <1> QED
    BY <1>1, <1>2

\* What Allocate does to the words of the protocol.
LEMMA AllocateFacts ==
    ASSUME TypeOK, Allocate
    PROVE  /\ pc \in {"initial", "allocate"}
           /\ \A c \in setAffinityMask' : c \in lastAffinityMask \/ c \notin currIdleMask
           /\ affinity' = setAffinityMask'
           /\ \/ /\ pc' = "poll"
                 /\ setAffinityMask' = lastAffinityMask /\ setAffinityMask' # {}
              \/ pc' = "waitPids" /\ rebalanceAction' \in 1..3
           /\ UNCHANGED <<balancerControl, needs_rebalance, currIdleMask,
                          lastAffinityMask, mpc, applied, lpc>>
  <1> DEFINE mask == UNION {Grants[p] : p \in 1..nr_primary_ctrs}
             count == Cardinality(mask)
  <1>1. /\ setAffinityMask' = mask
        /\ affinity' = mask
        /\ rebalanceAction' = ActionFor(count, currSecondaryCoreCount)
        /\ IF InForce(mask, count)
           THEN pc' = "poll" /\ lastAffinityMask' = mask
           ELSE pc' = "waitPids" /\ UNCHANGED lastAffinityMask
        /\ pc \in {"initial", "allocate"}
        /\ UNCHANGED <<balancerControl, needs_rebalance, currIdleMask, mpc, applied, lpc>>
    BY DEF Allocate, monitor, listener
  <1>2. \A c \in mask : c \in lastAffinityMask \/ c \notin currIdleMask
    BY MaskFacts
  <1>3. InForce(mask, count) => mask = lastAffinityMask /\ mask # {}
    BY FS_EmptySet DEF InForce
  <1>4. ActionFor(count, currSecondaryCoreCount) \in 1..3
    BY DEF ActionFor
  <1> HIDE DEF mask, count
  <1> QED
    BY <1>1, <1>2, <1>3, <1>4

LEMMA StepHandshake ==
    ASSUME ~StopWhilePaused, TypeOK, TypeOK', Handshake, [Next]_vars
    PROVE  Handshake'
  <1> USE DEF Handshake, Waiting, InstalledMaskIs
  <1>1. CASE Unpause
    BY <1>1 DEF Unpause, shared, decision, monitor, listener
  <1>2. ASSUME NEW m \in SUBSET Cores, NEW samples \in [1..nr_primary_ctrs -> Samples],
               Poll(m, samples)
        PROVE  Handshake'
    BY <1>2 DEF Poll, shared, monitor, listener
  <1>3. CASE Allocate
    BY <1>3, AllocateFacts
  <1>4. CASE \/ PidsReady \/ PidsBusy \/ MonitorBusy \/ SpinAgain \/ Exit
    BY <1>4 DEF PidsReady, PidsBusy, MonitorBusy, SpinAgain, Exit, Goto,
                shared, decision, monitor, listener
  <1>5. CASE Publish
    BY <1>5 DEF Publish, decision, monitor, listener
  <1>6. CASE MonitorAnswered
    BY <1>6 DEF MonitorAnswered, Answered, EndIteration, shared, monitor, listener
  <1>7. CASE Abort
    BY <1>7 DEF Abort, Aborts, EndIteration, shared, monitor, listener
  <1>8. CASE MonitorBegin \/ MonitorSleep \/ MonitorWake
    BY <1>8 DEF MonitorBegin, MonitorSleep, MonitorWake, shared, decision, listener
  <1>9. CASE MonitorEnd
    BY <1>9 DEF MonitorEnd, Installed, decision, listener
  <1>10. CASE RegisterPrimary
    BY <1>10 DEF RegisterPrimary, decision, monitor, listener
  <1>11. CASE ReceiveSecondary \/ FinishPod \/ Cancel
    BY <1>11 DEF ReceiveSecondary, FinishPod, Activates, Cancel, shared, decision, monitor
  <1>12. CASE UnreadableContainer \/ BeginScan \/ EndScan
    BY <1>12 DEF UnreadableContainer, BeginScan, EndScan, shared, decision, monitor
  <1>13. CASE Activate
    BY <1>13 DEF Activate, decision, monitor
  <1>14. CASE Stop
    BY <1>14 DEF Stop, decision, monitor, listener
  <1>15. CASE UNCHANGED vars
    BY <1>15 DEF vars, shared, decision, monitor, listener
  <1> QED
    BY <1>1, <1>2, <1>3, <1>4, <1>5, <1>6, <1>7, <1>8, <1>9, <1>10, <1>11, <1>12,
       <1>13, <1>14, <1>15
    DEF Next, BalancerStep, MonitorStep, ListenerStep

LEMMA StepNoBusyCoreTaken ==
    ASSUME ~StopWhilePaused, TypeOK, Handshake, NoBusyCoreTaken, [Next]_vars
    PROVE  NoBusyCoreTaken'
  <1> USE DEF NoBusyCoreTaken
  <1>1. ASSUME NEW m \in SUBSET Cores, NEW samples \in [1..nr_primary_ctrs -> Samples],
               Poll(m, samples)
        PROVE  NoBusyCoreTaken'
    \* a new mask is read only when what was decided is installed
    BY <1>1 DEF Poll, Handshake, InstalledMaskIs, shared, monitor
  <1>2. CASE Allocate
    \* a lent core was lent before, and installed, or it is idle
    BY <1>2, AllocateFacts DEF Handshake, InstalledMaskIs
  <1>3. CASE MonitorEnd
    BY <1>3 DEF MonitorEnd, Installed, decision
  <1>4. CASE UNCHANGED <<affinity, applied, currIdleMask>>
    BY <1>4
  <1> QED
    BY <1>1, <1>2, <1>3, <1>4
    DEF Next, BalancerStep, MonitorStep, ListenerStep, vars, shared, decision,
        monitor, listener, Unpause, PidsReady, PidsBusy, MonitorBusy, SpinAgain,
        Exit, Goto, Publish, MonitorAnswered, Abort, EndIteration, MonitorBegin,
        MonitorSleep, MonitorWake, RegisterPrimary, ReceiveSecondary, FinishPod,
        Cancel, UnreadableContainer, BeginScan, EndScan, Activate, Stop

\* The inductive invariant.
LEMMA ProtocolInvariant ==
    ASSUME ~StopWhilePaused
    PROVE  Spec => []Protocol
  <1>1. Init => TypeOK /\ TargetBounds /\ Protocol
    BY InitTyped, InitProtocol DEF Protocol
  <1>2. TypeOK /\ TargetBounds /\ Protocol /\ [Next]_vars
            => (TypeOK /\ TargetBounds /\ Protocol)'
    BY StepTyped, StepHandshake, StepNoBusyCoreTaken DEF Protocol
  <1> QED
    BY <1>1, <1>2, PTL DEF Spec

\* Requests, answers and exits of the threads never get out of step.
THEOREM ProtocolCorrect ==
    ASSUME ~StopWhilePaused
    PROVE  Spec => []Handshake
  <1>1. Protocol => Handshake
    BY DEF Protocol
  <1> QED
    BY <1>1, ProtocolInvariant, PTL

\* No core is taken from under a running Primary thread.
THEOREM BusyCoresStay ==
    ASSUME ~StopWhilePaused
    PROVE  Spec => []NoBusyCoreTaken
  <1>1. Protocol => NoBusyCoreTaken
    BY DEF Protocol
  <1> QED
    BY <1>1, ProtocolInvariant, PTL

\* Every decision is taken from an installed grant, provided that Secondary
\* keeps a core of its own: without one the kernel refuses the empty mask.
THEOREM DecisionsOnSettledGrants ==
    ASSUME ~StopWhilePaused, Dedicated # {}
    PROVE  Spec => []SettledGrant
  <1>1. Protocol => SettledGrant
    BY DEF Protocol, Handshake, InstalledMaskIs, SettledGrant
  <1> QED
    BY <1>1, ProtocolInvariant, PTL

\* The exit signal is final.
THEOREM ExitIsFinal ==
    ASSUME ~StopWhilePaused
    PROVE  Spec => StopFinal
  <1>1. Protocol /\ [Next]_vars => [balancerControl = -1 => balancerControl' = -1]_vars
    <2> SUFFICES ASSUME Protocol, Next, balancerControl = -1
                 PROVE  balancerControl' = -1
      OBVIOUS
    <2>1. ~Activate
      BY DEF Protocol, Handshake, Activate
    <2> QED
      BY <2>1
      DEF Next, BalancerStep, MonitorStep, ListenerStep, shared, Unpause, Poll,
          Allocate, PidsReady, PidsBusy, MonitorBusy, SpinAgain, Exit, Goto, Publish,
          MonitorAnswered, Abort, EndIteration, MonitorBegin, MonitorEnd,
          MonitorSleep, MonitorWake, RegisterPrimary, ReceiveSecondary, FinishPod,
          Cancel, UnreadableContainer, BeginScan, EndScan, Stop
  <1> QED
    BY <1>1, ProtocolInvariant, PTL DEF Spec, StopFinal

\* Only an evaluation and an allocation touch what is granted.
LEMMA CountingSteps ==
    ASSUME [Next]_vars
    PROVE  \/ \E m \in SUBSET Cores : \E samples \in [1..nr_primary_ctrs -> Samples] :
                Poll(m, samples)
           \/ Allocate
           \/ /\ UNCHANGED <<ctr, setAffinityMask, currIdleMask>>
              /\ nr_primary_ctrs' \in {nr_primary_ctrs, nr_primary_ctrs + 1}
              /\ pc' = "allocate" <=> pc = "allocate"
              /\ pc' = "initial" => pc \in {"paused", "initial"}
              /\ pc' = "paused" => pc = "paused"
              /\ pc' \in Waiting => pc \in Waiting
  BY DEF Next, BalancerStep, MonitorStep, ListenerStep, vars, shared, decision,
         monitor, listener, Unpause, PidsReady, PidsBusy, MonitorBusy, SpinAgain,
         Exit, Goto, Publish, MonitorAnswered, Abort, EndIteration, MonitorBegin,
         MonitorEnd, MonitorSleep, MonitorWake, RegisterPrimary, ReceiveSecondary,
         FinishPod, Cancel, UnreadableContainer, BeginScan, EndScan, Activate, Stop,
         Waiting

(***************************************************************************)
(* The protocol implements CoreLending.                                    *)
(***************************************************************************)
Fresh == pc = "allocate" \/ GrowsGrant

\* Nothing is spare before the first evaluation, so the first grant is empty.
NothingSpareYet == pc \in {"paused", "initial"} => \A p \in Ctrs : ctr[p].spare = 0

LEMMA InitNothingSpare == Init => NothingSpareYet
  BY DEF Init, InitialCtr, NothingSpareYet

LEMMA StepNothingSpare == NothingSpareYet /\ [Next]_vars => NothingSpareYet'
  <1> SUFFICES ASSUME NothingSpareYet, [Next]_vars PROVE NothingSpareYet'
    OBVIOUS
  <1> USE DEF NothingSpareYet
  <1>1. CASE \E m \in SUBSET Cores : \E samples \in [1..nr_primary_ctrs -> Samples] :
                Poll(m, samples)
    BY <1>1 DEF Poll
  <1>2. CASE Allocate
    BY <1>2 DEF Allocate
  <1> QED
    BY <1>1, <1>2, CountingSteps

LEMMA FirstGrantEmpty ==
    ASSUME TypeOK, TargetBounds, NothingSpareYet, Allocate, pc = "initial"
    PROVE  affinity' = {}
  <1>1. 1..nr_primary_ctrs \subseteq Ctrs
    BY CpuListAssumption DEF TypeOK, Ctrs
  <1>2. ASSUME NEW p \in 1..nr_primary_ctrs
        PROVE  Grants[p] = {}
    <2>1. p \in Ctrs /\ p <= nr_primary_ctrs
      BY <1>1, <1>2
    <2>2. ctr[p].spare = 0
      BY <2>1 DEF NothingSpareYet
    <2>3. Grants[p] = Grant(p, 0, lastAffinityMask, currIdleMask)
      BY <1>2, <2>2 DEF Grants
    <2>4. Cardinality(Grants[p]) <= 0 /\ IsFiniteSet(Grants[p])
      BY <2>1, <2>3, GrantBound, GrantListed, ListedFinite, FS_Subset
    <2>5. Cardinality(Grants[p]) \in Nat
      BY <2>4, FS_CardinalityType
    <2> QED
      BY <2>4, <2>5, FS_EmptySet
  <1> QED
    BY <1>2 DEF Allocate

LEMMA InitLends == Init => Lending!Init
  BY DEF Init, Lending!Init, GrowsGrant

LEMMA StepLends ==
    ASSUME ~StopWhilePaused, TypeOK, TypeOK', TargetBounds, NothingSpareYet,
           Protocol, Protocol', [Next]_vars
    PROVE  [Lending!Next]_(Lending!vars)
  <1> USE DEF Lending!Next, Lending!vars, Lending!Look, Lending!Decline, Lending!Relend
  <1>1. ASSUME NEW m \in SUBSET Cores, NEW samples \in [1..nr_primary_ctrs -> Samples],
               Poll(m, samples)
        PROVE  Lending!Look
    <2>1. /\ currIdleMask' \in SUBSET Cores /\ currIdleMask' # currIdleMask
          /\ UNCHANGED applied
      BY <1>1 DEF Poll, MaskChanged, monitor
    <2>2. (pc = "allocate" \/ GrowsGrant)' \in BOOLEAN
      BY DEF GrowsGrant
    <2> QED
      BY <2>1, <2>2
  <1>2. CASE Allocate
    <2>1. /\ UNCHANGED <<applied, currIdleMask>> /\ currIdleMask \in SUBSET Cores
          /\ pc \in {"initial", "allocate"} /\ pc' # "allocate"
      BY <1>2, AllocateFacts DEF TypeOK
    <2>2. CASE pc = "allocate"
      <3>1. Fresh
        BY <2>2 DEF Fresh
      <3>2. Fresh' \in BOOLEAN
        BY DEF Fresh, GrowsGrant
      <3> QED
        BY <2>1, <3>1, <3>2 DEF Fresh
    <2>3. CASE pc = "initial"
      <3>1. affinity' = {} /\ needs_rebalance = 0
        BY <1>2, <2>3, FirstGrantEmpty DEF Protocol, Handshake
      <3>2. ~Fresh' /\ ~Fresh
        BY <2>1, <2>3, <3>1 DEF Fresh, GrowsGrant
      <3> QED
        BY <2>1, <3>2 DEF Fresh
    <2> QED
      BY <2>1, <2>2, <2>3
  <1>3. CASE Publish
    <2>1. /\ Fresh <=> Fresh'
          /\ UNCHANGED <<applied, currIdleMask>>
      BY <1>3 DEF Publish, Fresh, GrowsGrant, decision, monitor, Protocol, Handshake, Waiting
    <2> QED
      BY <2>1 DEF Fresh
  <1>4. CASE MonitorAnswered
    <2>1. /\ ~Fresh /\ ~Fresh' /\ UNCHANGED <<applied, currIdleMask>>
      BY <1>4 DEF MonitorAnswered, Answered, EndIteration, Fresh, GrowsGrant, shared,
                  monitor, Protocol, Handshake
    <2> QED
      BY <2>1 DEF Fresh
  <1>5. CASE Abort
    <2>1. /\ UNCHANGED <<applied, currIdleMask>>
          /\ Fresh' => Fresh
      BY <1>5 DEF Abort, EndIteration, shared, monitor, Fresh, GrowsGrant
    <2> QED
      BY <2>1 DEF Fresh, GrowsGrant
  <1>6. CASE MonitorEnd
    <2>1. /\ ~Fresh'
          /\ UNCHANGED currIdleMask
      BY <1>6 DEF MonitorEnd, decision, Protocol, Handshake, Fresh, GrowsGrant
    <2>2. applied' \in SUBSET Cores /\ (applied' \ applied) \cap currIdleMask = {}
      BY <1>6 DEF MonitorEnd, Installed, TypeOK, Protocol, NoBusyCoreTaken
    <2>3. applied' \subseteq applied \/ Fresh
      BY <1>6 DEF MonitorEnd, Installed, Protocol, Handshake, Fresh, GrowsGrant
    <2> QED
      BY <2>1, <2>2, <2>3 DEF Fresh
  <1>7. CASE \/ Unpause \/ PidsReady \/ PidsBusy \/ MonitorBusy \/ SpinAgain \/ Exit
    <2>1. UNCHANGED <<applied, currIdleMask>> /\ (Fresh <=> Fresh')
      BY <1>7 DEF Unpause, PidsReady, PidsBusy, MonitorBusy, SpinAgain, Exit, Goto,
                  shared, decision, monitor, Fresh, GrowsGrant, Protocol, Handshake
    <2> QED
      BY <2>1 DEF Fresh
  <1>8. CASE UNCHANGED <<needs_rebalance, pc, currIdleMask, applied, affinity>>
    BY <1>8 DEF GrowsGrant
  <1> QED
    BY <1>1, <1>2, <1>3, <1>4, <1>5, <1>6, <1>7, <1>8
    DEF Next, BalancerStep, MonitorStep, ListenerStep, vars, shared, decision,
        monitor, listener, MonitorBegin, MonitorSleep, MonitorWake, RegisterPrimary,
        ReceiveSecondary, FinishPod, Cancel, UnreadableContainer, BeginScan, EndScan,
        Activate, Stop

\* Cores are lent only on the strength of a look that showed them idle, and a
\* look justifies at most one change of the loan.
THEOREM BalancerImplementsLending ==
    ASSUME ~StopWhilePaused
    PROVE  Spec => ImplementsLending
  <1>1. TypeOK /\ TypeOK' /\ TargetBounds /\ NothingSpareYet /\ Protocol /\ Protocol' /\ [Next]_vars
            => [Lending!Next]_(Lending!vars)
    BY StepLends
  <1> QED
    BY <1>1, InitLends, InitNothingSpare, StepNothingSpare, TypeCorrect, ProtocolInvariant, PTL
    DEF Spec, ImplementsLending, Lending!Spec

(***************************************************************************)
(* The two threads keep to the channel HandOver.                           *)
(***************************************************************************)
\* The Balancer compares counts, the channel the lists themselves.
Counted == currSecondaryCoreCount = Cardinality(affinity)

Chosen == IF pc \in {"waitPids", "pidsBusy", "publish"} THEN rebalanceAction ELSE 0

\* The channel counts cores as the Balancer does.
LEMMA SameCount == \A S : Channel!Cardinality(S) = Cardinality(S)
  BY DEF Channel!Cardinality, Cardinality

\* What an allocation asks for is how its list differs from the last one.
LEMMA AllocateKind ==
    ASSUME TypeOK, Counted, Allocate
    PROVE  Counted' /\ affinity' \subseteq Cores
           /\ rebalanceAction' = Channel!Kind(affinity', affinity)
  <1> DEFINE mask == UNION {Grants[p] : p \in 1..nr_primary_ctrs}
             count == Cardinality(mask)
  <1>1. /\ affinity' = mask /\ currSecondaryCoreCount' = count
        /\ rebalanceAction' = ActionFor(count, currSecondaryCoreCount)
    BY DEF Allocate
  <1>2. mask \subseteq Cores /\ IsFiniteSet(mask)
    BY MaskFacts
  <1>3. count = 0 <=> mask = {}
    BY <1>2, FS_EmptySet
  <1> HIDE DEF mask, count
  <1>4. count = Cardinality(mask)
    BY DEF count
  <1> QED
    BY <1>1, <1>2, <1>3, <1>4, SameCount DEF Counted, ActionFor, Channel!Kind

\* Nothing else changes the list or its count.
LEMMA StepCounted ==
    ASSUME TypeOK, Counted, [Next]_vars
    PROVE  Counted'
  <1>1. CASE Allocate
    BY <1>1, AllocateKind
  <1>2. CASE UNCHANGED <<currSecondaryCoreCount, affinity>>
    BY <1>2 DEF Counted
  <1> QED
    BY <1>1, <1>2
    DEF Next, BalancerStep, MonitorStep, ListenerStep, vars, shared, decision,
        Unpause, Poll, PidsReady, PidsBusy, MonitorBusy, SpinAgain, Exit, Goto, Publish,
        MonitorAnswered, Abort, EndIteration, MonitorBegin, MonitorEnd,
        MonitorSleep, MonitorWake, RegisterPrimary, ReceiveSecondary, FinishPod,
        Cancel, UnreadableContainer, BeginScan, EndScan, Activate, Stop

\* Every step is one of the channel or leaves it alone.
LEMMA StepHandsOver ==
    ASSUME TypeOK, Protocol, Protocol', Counted, [Next]_vars
    PROVE  [Channel!Next]_(Channel!vars)
  <1> USE DEF Channel!Next, Channel!vars
  <1>1. CASE Allocate
    <2>1. /\ needs_rebalance = 0 /\ mpc # "twopa" /\ pc \in {"initial", "allocate"}
          /\ affinity = lastAffinityMask
      BY <1>1 DEF Allocate, Protocol, Handshake
    <2>2. CASE pc' = "poll"
      <3>1. affinity' = affinity /\ UNCHANGED <<needs_rebalance, mpc>>
        BY <1>1, <2>1, <2>2, AllocateFacts
      <3> QED
        BY <2>1, <2>2, <3>1
    <2>3. CASE pc' = "waitPids"
      <3>1. /\ UNCHANGED <<needs_rebalance, mpc>>
            /\ affinity' \in SUBSET Cores
            /\ rebalanceAction' = Channel!Kind(affinity', affinity)
        BY <1>1, AllocateFacts, AllocateKind
      <3>2. affinity' # {} => affinity' # affinity
        <4> DEFINE mask == UNION {Grants[p] : p \in 1..nr_primary_ctrs}
        <4>1. affinity' = mask /\ ~InForce(mask, Cardinality(mask)) /\ IsFiniteSet(mask)
          BY <1>1, <2>3, MaskFacts DEF Allocate
        <4>2. mask # {} => Cardinality(mask) # 0
          BY <4>1, FS_EmptySet
        <4> HIDE DEF mask
        <4> QED
          BY <2>1, <4>1, <4>2 DEF InForce
      <3>3. Channel!Choose
        BY <2>1, <2>3, <3>1, <3>2 DEF Channel!Choose, Channel!Change
      <3> QED
        BY <3>3
    <2> QED
      BY <1>1, <2>2, <2>3, AllocateFacts
  <1>2. CASE Publish
    <2>1. /\ pc = "publish" /\ pc' = "waitMonitor" /\ needs_rebalance' = rebalanceAction
          /\ UNCHANGED <<affinity, mpc>> /\ rebalanceAction # 0
      BY <1>2 DEF Publish, monitor, Protocol, Handshake, Waiting
    <2> QED
      BY <2>1 DEF Channel!Publish
  <1>3. CASE Abort
    <2>1. /\ UNCHANGED <<affinity, needs_rebalance, mpc>> /\ pc' = "poll"
          /\ pc \in {"pidsBusy", "monitorBusy"} /\ rebalanceAction # 0
      BY <1>3 DEF Abort, EndIteration, shared, monitor, Protocol, Handshake, Waiting
    <2> QED
      BY <2>1 DEF Channel!Withdraw
  <1>4. CASE MonitorBegin
    <2>1. /\ mpc = "scan" /\ mpc' = "twopa" /\ needs_rebalance # 0
          /\ UNCHANGED <<affinity, needs_rebalance, pc, rebalanceAction>>
      BY <1>4 DEF MonitorBegin, shared, decision
    <2> QED
      BY <2>1 DEF Channel!Read
  <1>5. CASE MonitorEnd
    <2>1. /\ mpc = "twopa" /\ mpc' = "scan" /\ needs_rebalance' = 0
          /\ UNCHANGED <<affinity, pc, rebalanceAction>>
      BY <1>5 DEF MonitorEnd, decision
    <2> QED
      BY <2>1 DEF Channel!Answer
  <1>6. CASE \/ Unpause \/ PidsReady \/ PidsBusy \/ MonitorAnswered \/ MonitorBusy
             \/ SpinAgain \/ Exit
             \/ \E m \in SUBSET Cores : \E samples \in [1..nr_primary_ctrs -> Samples] :
                   Poll(m, samples)
    <2>1. /\ UNCHANGED <<affinity, needs_rebalance, mpc>>
          /\ Chosen' = Chosen
      BY <1>6 DEF Unpause, PidsReady, PidsBusy, MonitorAnswered, MonitorBusy, SpinAgain,
                  Exit, Goto, Poll, EndIteration, shared, decision, monitor, Chosen
    <2> QED
      BY <2>1 DEF Chosen
  <1>7. CASE \/ ListenerStep \/ Stop \/ UNCHANGED vars
    <2>1. UNCHANGED <<affinity, needs_rebalance, mpc, pc, rebalanceAction>>
      BY <1>7 DEF ListenerStep, vars, shared, decision, monitor, RegisterPrimary,
                  ReceiveSecondary, FinishPod, Cancel, UnreadableContainer, BeginScan,
                  EndScan, Activate, Stop
    <2> QED
      BY <2>1
  <1>8. CASE MonitorSleep \/ MonitorWake \/ RegisterPrimary \/ ReceiveSecondary \/ Cancel
    <2>1. /\ UNCHANGED <<affinity, needs_rebalance, pc, rebalanceAction>>
          /\ (mpc # "twopa" /\ mpc' # "twopa") \/ UNCHANGED mpc
      BY <1>8 DEF MonitorSleep, MonitorWake, RegisterPrimary, ReceiveSecondary, Cancel,
                  shared, decision, monitor
    <2> QED
      BY <2>1
  <1> QED
    BY <1>1, <1>2, <1>3, <1>4, <1>5, <1>6, <1>7, <1>8 DEF Next, BalancerStep, MonitorStep

\* The list and the request stand still from the publication to the answer, and
\* the request tells how the list differs from the one before.
THEOREM BalancerHandsOver ==
    ASSUME ~StopWhilePaused
    PROVE  Spec => ImplementsHandOver
  <1>1. Init => Counted /\ Channel!Init
    BY FS_EmptySet DEF Init, Counted, Channel!Init
  <1>2. TypeOK /\ Counted /\ [Next]_vars => Counted'
    BY StepCounted
  <1>3. TypeOK /\ Protocol /\ Protocol' /\ Counted /\ [Next]_vars
            => [Channel!Next]_(Channel!vars)
    BY StepHandsOver
  <1> QED
    BY <1>1, <1>2, <1>3, TypeCorrect, ProtocolInvariant, PTL
    DEF Spec, ImplementsHandOver, Channel!Spec

-----------------------------------------------------------------------------
(***************************************************************************)
(* The number of cores that the Balancer grants.                           *)
(***************************************************************************)

\* An evaluation changes the spare cores, not the allocated ones.
LEMMA EvaluateKeepsAlloc ==
    ASSUME NEW p \in Ctrs, NEW c, Tuned(p, c), NEW active, NEW s \in Samples
    PROVE  EvaluatePrimaryContainer(p, c, active, s).alloc = c.alloc
  <1> DEFINE a == Sampled(p, c, s)
  <1>1. a.alloc = c.alloc /\ Tuned(p, a)
    <2>1. CASE s = "none"
      BY <2>1 DEF Sampled
    <2>2. CASE s # "none"
      <3> DEFINE o == IF c.state = "OBSERVE" THEN DoObserve(c) ELSE c
      <3>1. o.alloc = c.alloc /\ Tuned(p, o)
        BY ObserveTuned DEF DoObserve, Tuned, CtrInfo
      <3>2. DoAdjust(p, o, s).alloc = o.alloc
        BY <3>1 DEF DoAdjust, AdjustTarget, Tuned, CtrInfo
      <3>3. Tuned(p, DoAdjust(p, o, s))
        BY <3>1, AdjustTuned
      <3> QED
        BY <2>2, <3>1, <3>2, <3>3 DEF Sampled
    <2> QED
      BY <2>1, <2>2
  <1>2. \A diff : DoHarvest(p, a, diff).alloc = a.alloc
    BY <1>1 DEF DoHarvest, Tuned, CtrInfo
  <1> QED
    BY <1>1, <1>2 DEF EvaluatePrimaryContainer, SampledDifference

\* What a Primary has before it registers.
Unregistered == \A p \in Ctrs : p > nr_primary_ctrs =>
                                    ctr[p].alloc = 0 /\ ctr[p].spare = 0

\* What Allocate leaves of each Primary.
LEMMA AllocateCounts ==
    ASSUME TypeOK, TargetBounds, Allocate, NEW p \in Ctrs
    PROVE  /\ p <= nr_primary_ctrs =>
                /\ ctr'[p].alloc = Cardinality(Grants[p])
                /\ ctr'[p].alloc <= ctr[p].spare
                /\ setAffinityMask' \cap ListedCores(p) = Grants[p]
           /\ p > nr_primary_ctrs =>
                /\ ctr'[p] = ctr[p]
                /\ setAffinityMask' \cap ListedCores(p) = {}
           /\ ctr'[p].spare = ctr[p].spare
           /\ ctr'[p].target = ctr[p].target
           /\ ctr'[p].max = ctr[p].max
           /\ UNCHANGED <<nr_primary_ctrs, currIdleMask>>
  <1>1. ctr[p] \in CtrInfo /\ nr_primary_ctrs \in Nat /\ p \in Nat /\ p >= 1
        /\ 1..nr_primary_ctrs \subseteq Ctrs
    BY CpuListAssumption DEF TypeOK, Ctrs
  <1>2. setAffinityMask' = UNION {Grants[q] : q \in 1..nr_primary_ctrs}
    BY DEF Allocate
  <1>3. \A q \in 1..nr_primary_ctrs : Grants[q] \subseteq ListedCores(q)
    BY <1>1, GrantListed DEF Grants
  <1>4. \A q \in 1..nr_primary_ctrs : q # p => Grants[q] \cap ListedCores(p) = {}
    BY <1>1, <1>3, CpuListAssumption
  <1>5. CASE p <= nr_primary_ctrs
    <2>1. ctr'[p] = [ctr[p] EXCEPT !.alloc = Cardinality(Grants[p])]
      BY <1>5 DEF Allocate, Recount
    <2>2. Cardinality(Grants[p]) <= ctr[p].spare
      BY <1>1, <1>5, GrantBound DEF Grants, CtrInfo
    <2>3. setAffinityMask' \cap ListedCores(p) = Grants[p]
      BY <1>1, <1>2, <1>3, <1>4, <1>5
    <2> QED
      BY <1>1, <1>5, <2>1, <2>2, <2>3 DEF CtrInfo, Allocate
  <1>6. CASE ~(p <= nr_primary_ctrs)
    <2>1. ctr'[p] = ctr[p]
      BY <1>6 DEF Allocate
    <2>2. setAffinityMask' \cap ListedCores(p) = {}
      BY <1>1, <1>2, <1>4, <1>6
    <2> QED
      BY <1>1, <1>6, <2>1, <2>2 DEF Allocate
  <1> QED
    BY <1>5, <1>6

(***************************************************************************)
(* CoresAllocatedToSecondary counts what is lent.                          *)
(***************************************************************************)
LEMMA InitAccounting == Init => Accounting /\ Unregistered
  <1> SUFFICES ASSUME Init PROVE Accounting /\ Unregistered
    OBVIOUS
  <1>1. \A p \in Ctrs : ctr[p].alloc = 0 /\ ctr[p].spare = 0
    BY DEF Init, InitialCtr
  <1>2. setAffinityMask = {}
    BY DEF Init
  <1> QED
    BY <1>1, <1>2, FS_EmptySet DEF Accounting, Unregistered

LEMMA StepAccounting ==
    ASSUME TypeOK, TypeOK', TargetBounds, Accounting, Unregistered, [Next]_vars
    PROVE  Accounting' /\ Unregistered'
  <1> USE DEF Accounting, Unregistered
  <1>1. ASSUME NEW m \in SUBSET Cores, NEW samples \in [1..nr_primary_ctrs -> Samples],
               Poll(m, samples)
        PROVE  Accounting' /\ Unregistered'
    <2>1. UNCHANGED <<setAffinityMask, nr_primary_ctrs>>
      BY <1>1 DEF Poll, shared
    <2>2. ASSUME NEW p \in Ctrs
          PROVE  /\ ctr'[p].alloc = ctr[p].alloc
                 /\ p > nr_primary_ctrs => ctr'[p] = ctr[p]
      <3>1. CASE p <= nr_primary_ctrs
        <4>1. samples[p] \in Samples
          BY <3>1, CpuListAssumption DEF Ctrs
        <4>2. ctr'[p] = EvaluatePrimaryContainer(p, ctr[p], m, samples[p])
          BY <1>1, <3>1 DEF Poll
        <4>3. Tuned(p, ctr[p])
          BY AllTunedMeaning DEF TypeOK, AllTuned
        <4>4. ~(p > nr_primary_ctrs)
          BY <3>1, CpuListAssumption DEF Ctrs, TypeOK
        <4> QED
          BY <4>1, <4>2, <4>3, <4>4, EvaluateKeepsAlloc
      <3>2. CASE ~(p <= nr_primary_ctrs)
        BY <1>1, <3>2 DEF Poll
      <3> QED
        BY <3>1, <3>2
    <2> QED
      BY <2>1, <2>2
  <1>2. CASE Allocate
    <2> SUFFICES ASSUME NEW p \in Ctrs
                 PROVE  /\ ctr'[p].alloc = Cardinality(setAffinityMask' \cap ListedCores(p))
                        /\ p > nr_primary_ctrs' => ctr'[p].alloc = 0 /\ ctr'[p].spare = 0
      OBVIOUS
    <2>1. p <= nr_primary_ctrs \/ p > nr_primary_ctrs
      BY CpuListAssumption DEF Ctrs, TypeOK
    <2>2. nr_primary_ctrs' = nr_primary_ctrs
      BY <1>2, AllocateCounts
    <2>3. CASE p <= nr_primary_ctrs
      <3>1. ~(p > nr_primary_ctrs)
        BY <2>3, CpuListAssumption DEF Ctrs, TypeOK
      <3> QED
        BY <1>2, <2>2, <2>3, <3>1, AllocateCounts
    <2>4. CASE p > nr_primary_ctrs
      BY <1>2, <2>2, <2>4, AllocateCounts, FS_EmptySet
    <2> QED
      BY <2>1, <2>3, <2>4
  <1>3. CASE /\ UNCHANGED <<ctr, setAffinityMask>>
             /\ nr_primary_ctrs' \in {nr_primary_ctrs, nr_primary_ctrs + 1}
    <2>1. \A p \in Ctrs : p > nr_primary_ctrs' => p > nr_primary_ctrs
      BY <1>3, CpuListAssumption DEF Ctrs, TypeOK
    <2> QED
      BY <1>3, <2>1
  <1> QED
    BY <1>1, <1>2, <1>3, CountingSteps

\* The Balancer's count of what Secondary has of a Primary is exact.
THEOREM AccountingCorrect == Spec => []Accounting
  <1>1. Init => Accounting /\ Unregistered
    BY InitAccounting
  <1>2. TypeOK /\ TargetBounds /\ TypeOK' /\ Accounting /\ Unregistered /\ [Next]_vars
            => Accounting' /\ Unregistered'
    BY StepAccounting
  <1> QED
    BY <1>1, <1>2, TypeCorrect, PTL DEF Spec

(***************************************************************************)
(* A Primary that the evaluation did not skip keeps its target, however    *)
(* many Primaries share the rebalance.                                     *)
(***************************************************************************)
LEMMA HarvestCaps ==
    ASSUME NEW p \in Ctrs, NEW c, Tuned(p, c), NEW diff \in Int,
           ~SkipsHarvest(p, c, diff)
    PROVE  LET h == DoHarvest(p, c, diff) IN h.spare <= h.max
  <1>1. SpareCores(c, diff) <= c.max /\ c.max \in Nat
    BY DEF SpareCores, Tuned, CtrInfo
  <1> QED
    BY <1>1 DEF DoHarvest, Tuned, CtrInfo

Skipped(p) == SkipsHarvest(p, ctr[p], CoreDifference(p, ctr[p], currIdleMask))

\* Spare cores of this evaluation are capped; only skipped ones may be older.
FreshSpare == pc = "allocate" => \A p \in Ctrs : Skipped(p) \/ ctr[p].spare <= ctr[p].max

\* The record tells whether its Primary was skipped in the evaluation.
LEMMA EvaluateCaps ==
    ASSUME NEW p \in Ctrs, NEW c, Tuned(p, c), NEW active, NEW s \in Samples
    PROVE  LET e == EvaluatePrimaryContainer(p, c, active, s)
           IN  SkipsHarvest(p, e, CoreDifference(p, e, active)) \/ e.spare <= e.max
  <1> DEFINE a == Sampled(p, c, s)
             diff == CoreDifference(p, a, active)
             e == EvaluatePrimaryContainer(p, c, active, s)
  <1>1. Tuned(p, a)
    BY ObserveTuned, AdjustTuned DEF Sampled
  <1>2. diff \in Int
    BY <1>1, DifferenceType
  <1>3. e = DoHarvest(p, a, diff)
    BY DEF EvaluatePrimaryContainer, SampledDifference
  <1>4. CASE SkipsHarvest(p, a, diff)
    <2>1. e = a
      BY <1>3, <1>4 DEF DoHarvest
    <2> QED
      BY <1>4, <2>1
  <1>5. CASE ~SkipsHarvest(p, a, diff)
    <2> HIDE DEF a, diff
    <2> QED
      BY <1>1, <1>2, <1>3, <1>5, HarvestCaps
  <1> QED
    BY <1>4, <1>5

LEMMA StepFreshSpare ==
    ASSUME TypeOK, TargetBounds, Unregistered, FreshSpare, [Next]_vars
    PROVE  FreshSpare'
  <1> SUFFICES ASSUME pc' = "allocate", NEW p \in Ctrs
               PROVE  Skipped(p)' \/ ctr'[p].spare <= ctr'[p].max
    BY DEF FreshSpare
  <1>1. ASSUME NEW m \in SUBSET Cores, NEW samples \in [1..nr_primary_ctrs -> Samples],
               Poll(m, samples)
        PROVE  Skipped(p)' \/ ctr'[p].spare <= ctr'[p].max
    <2>1. CASE p <= nr_primary_ctrs
      <3>1. Tuned(p, ctr[p]) /\ samples[p] \in Samples
        BY <2>1, AllTunedMeaning, CpuListAssumption DEF TypeOK, AllTuned, Ctrs
      <3>2. ctr'[p] = EvaluatePrimaryContainer(p, ctr[p], m, samples[p]) /\ currIdleMask' = m
        BY <1>1, <2>1 DEF Poll
      <3> QED
        BY <3>1, <3>2, EvaluateCaps DEF Skipped
    <2>2. CASE ~(p <= nr_primary_ctrs)
      <3>1. ctr'[p] = ctr[p] /\ ctr[p].spare = 0 /\ ctr[p].max \in Nat
        BY <1>1, <2>2, CpuListAssumption DEF Poll, Unregistered, TypeOK, Ctrs, CtrInfo
      <3> QED
        BY <3>1
    <2> QED
      BY <2>1, <2>2
  <1>2. CASE Allocate
    BY <1>2 DEF Allocate
  <1>3. CASE UNCHANGED <<ctr, currIdleMask>> /\ pc = "allocate"
    <2>1. Skipped(p)' <=> Skipped(p)
      BY <1>3 DEF Skipped, SkipsHarvest, CoreDifference, IdleCores
    <2> QED
      BY <1>3, <2>1 DEF FreshSpare
  <1> QED
    BY <1>1, <1>2, <1>3, CountingSteps

LEMMA FreshTargetStep ==
    ASSUME TypeOK, TargetBounds, Unregistered, FreshSpare, [Next]_vars,
           pc = "allocate", pc' # "allocate", NEW p \in Ctrs, ~Skipped(p)
    PROVE  ctr'[p].alloc <= NumCpus(p) - ctr'[p].target
  <1>1. Allocate
    BY CountingSteps DEF Poll
  <1>2. /\ ctr[p].max = NumCpus(p) - ctr[p].target /\ ctr[p].max \in Nat
        /\ ctr[p].spare \in Nat /\ ctr[p].spare <= ctr[p].max
        /\ ctr[p].alloc \in Nat
    BY DEF TargetBounds, TypeOK, CtrInfo, FreshSpare
  <1>3. ctr'[p].target = ctr[p].target
    BY <1>1, AllocateCounts
  <1>4. CASE p <= nr_primary_ctrs
    <2>1. ctr'[p].alloc <= ctr[p].spare /\ ctr'[p].alloc = Cardinality(Grants[p])
      BY <1>1, <1>4, AllocateCounts
    <2>2. Cardinality(Grants[p]) \in Nat
      <3>1. Grants[p] = Grant(p, ctr[p].spare, lastAffinityMask, currIdleMask)
        BY <1>4, CpuListAssumption DEF Grants, Ctrs, TypeOK
      <3> QED
        BY <3>1, GrantListed
    <2> QED
      BY <1>2, <1>3, <2>1, <2>2
  <1>5. CASE ~(p <= nr_primary_ctrs)
    <2>1. p > nr_primary_ctrs
      BY <1>5, CpuListAssumption DEF Ctrs, TypeOK
    <2>2. ctr'[p] = ctr[p] /\ ctr[p].alloc = 0
      BY <1>1, <2>1, AllocateCounts DEF Unregistered
    <2> QED
      BY <1>2, <1>3, <2>2
  <1> QED
    BY <1>4, <1>5

\* Whichever Primary a rebalance is for, and however many there are, it leaves
\* its targetIdleCores to every Primary that doHarvest did not skip (main.c:69).
THEOREM FreshTargetsReserved == Spec => FreshTargetReserved
  <1>1. Init => Unregistered /\ Accounting /\ FreshSpare
    BY InitAccounting DEF Init, FreshSpare
  <1>2. TypeOK /\ TargetBounds /\ TypeOK' /\ Accounting /\ Unregistered /\ [Next]_vars
            => Accounting' /\ Unregistered'
    BY StepAccounting
  <1>3. TypeOK /\ TargetBounds /\ Unregistered /\ FreshSpare /\ [Next]_vars => FreshSpare'
    BY StepFreshSpare
  <1>4. TypeOK /\ TargetBounds /\ Unregistered /\ FreshSpare /\ [Next]_vars
            => [pc = "allocate" /\ pc' # "allocate" =>
                  \A p \in Ctrs :
                     ~SkipsHarvest(p, ctr[p], CoreDifference(p, ctr[p], currIdleMask))
                        => ctr'[p].alloc <= NumCpus(p) - ctr'[p].target]_vars
    BY FreshTargetStep DEF Skipped
  <1> QED
    BY <1>1, <1>2, <1>3, <1>4, TypeCorrect, PTL DEF Spec, FreshTargetReserved

(***************************************************************************)
(* A Primary that is alone keeps its target at every grant: nobody else    *)
(* asks for a rebalance after it was skipped (run two_primaries_target).   *)
(***************************************************************************)
SpareCapped ==
    /\ pc = "allocate" => \A p \in Ctrs : ctr[p].spare <= ctr[p].max
    /\ pc \in {"paused", "initial"} => \A p \in Ctrs : ctr[p].spare = 0

LEMMA StepSpareCapped ==
    ASSUME MaxPrimaries = 1, TypeOK, TypeOK', TargetBounds, Unregistered,
           SpareCapped, TargetReserved, [Next]_vars
    PROVE  SpareCapped' /\ TargetReserved'
  <1> USE DEF SpareCapped, TargetReserved, Waiting
  <1>0. Ctrs = {1} /\ 1 \in Ctrs
    BY DEF Ctrs
  <1>1. ASSUME NEW m \in SUBSET Cores, NEW samples \in [1..nr_primary_ctrs -> Samples],
               Poll(m, samples)
        PROVE  SpareCapped' /\ TargetReserved'
    <2>1. CASE pc' = "allocate"
      <3> DEFINE a == Sampled(1, ctr[1], samples[1])
                 diff == CoreDifference(1, a, m)
      <3>1. PICK p \in 1..nr_primary_ctrs : AsksRebalance(p, ctr[p], m, samples[p])
        BY <1>1, <2>1 DEF Poll
      <3>2. nr_primary_ctrs = 1 /\ p = 1
        BY <3>1 DEF TypeOK
      <3>3. ~SkipsHarvest(1, a, diff)
        BY <3>1, <3>2 DEF AsksRebalance, SampledDifference
      <3>4. Tuned(1, ctr[1]) /\ samples[1] \in Samples
        BY <1>0, <3>2, AllTunedMeaning DEF TypeOK, AllTuned
      <3>5. Tuned(1, a) /\ diff \in Int
        BY <1>0, <3>4, ObserveTuned, AdjustTuned, DifferenceType DEF Sampled
      <3>6. ctr'[1] = DoHarvest(1, a, diff)
        BY <1>0, <1>1, <3>2 DEF Poll, EvaluatePrimaryContainer, SampledDifference
      <3> HIDE DEF a, diff
      <3> QED
        BY <1>0, <2>1, <3>3, <3>5, <3>6, HarvestCaps
    <2>2. CASE pc' = "poll"
      BY <2>2
    <2> QED
      BY <1>1, <2>1, <2>2 DEF Poll
  <1>2. CASE Allocate
    <2>1. pc' \notin {"allocate", "paused", "initial"} /\ pc \in {"allocate", "initial"}
      BY <1>2 DEF Allocate
    <2>2. ASSUME NEW p \in Ctrs
          PROVE  ctr'[p].alloc <= NumCpus(p) - ctr'[p].target
      <3>1. /\ ctr[p].max = NumCpus(p) - ctr[p].target /\ ctr[p].max \in Nat
            /\ ctr[p].spare \in Nat /\ ctr[p].spare <= ctr[p].max
            /\ ctr'[p].alloc \in Nat
        BY <2>1 DEF TargetBounds, TypeOK, CtrInfo
      <3>2. p <= nr_primary_ctrs \/ p > nr_primary_ctrs
        BY CpuListAssumption DEF Ctrs, TypeOK
      <3>3. ctr'[p].alloc <= ctr[p].spare /\ ctr'[p].target = ctr[p].target
        BY <1>2, <3>1, <3>2, AllocateCounts DEF Unregistered
      <3> QED
        BY <3>1, <3>3
    <2> QED
      BY <2>1, <2>2
  <1> QED
    BY <1>1, <1>2, CountingSteps

\* A Primary alone on the machine keeps its targetIdleCores at every grant.
THEOREM TargetAlwaysReserved ==
    ASSUME MaxPrimaries = 1
    PROVE  Spec => []TargetReserved
  <1>1. Init => SpareCapped /\ TargetReserved
    <2> SUFFICES ASSUME Init PROVE SpareCapped /\ TargetReserved
      OBVIOUS
    <2>1. pc = "paused" /\ \A p \in Ctrs : ctr[p].spare = 0
      BY DEF Init, InitialCtr
    <2> QED
      BY <2>1 DEF SpareCapped, TargetReserved, Waiting
  <1>2. TypeOK /\ TypeOK' /\ TargetBounds /\ Unregistered /\ SpareCapped
            /\ TargetReserved /\ [Next]_vars => SpareCapped' /\ TargetReserved'
    BY StepSpareCapped
  <1>3. Init => Accounting /\ Unregistered
    BY InitAccounting
  <1>4. TypeOK /\ TargetBounds /\ TypeOK' /\ Accounting /\ Unregistered /\ [Next]_vars
            => Accounting' /\ Unregistered'
    BY StepAccounting
  <1> QED
    BY <1>1, <1>2, <1>3, <1>4, TypeCorrect, PTL DEF Spec

(***************************************************************************)
(* A Primary that is not above its target never loses one more core, when  *)
(* its minSecondaryCores is 0, the value that the experiments use.         *)
(***************************************************************************)

\* A grant of something from some candidates is not empty.
LEMMA GrantNonempty ==
    ASSUME NEW p \in Ctrs, NEW spare \in Nat, spare > 0, NEW last, NEW active,
           Candidates(p, last, active) # {}
    PROVE  Grant(p, spare, last, active) # {}
  <1> DEFINE C == Candidates(p, last, active)
             Behind(j) == {i \in C : i > j}
             B == {Behind(j) : j \in C}
  <1>1. C \subseteq Nat /\ IsFiniteSet(C)
    <2>1. C \subseteq DOMAIN CpuList[p]
      BY DEF Candidates
    <2>2. C \subseteq Nat
      BY <2>1, ListFacts
    <2>3. IsFiniteSet(C)
      <3> HIDE DEF C
      <3> QED  BY <2>1, PoolFinite
    <2> QED
      BY <2>2, <2>3
  <1>2. B \subseteq FiniteSubsetsOf(C)
    BY <1>1, FS_Subset DEF FiniteSubsetsOf
  <1>3. B # {}
    OBVIOUS
  <1>4. PICK S \in B : \A U \in B : ~ (<<U, S>> \in StrictSubsetOrdering(C))
    <2> HIDE DEF B, C
    <2> QED
      BY <1>2, <1>3, FS_StrictSubsetOrderingWellFounded, WFMin
  <1>5. PICK j \in C : S = Behind(j)
    BY <1>4
  <1>6. Behind(j) = {}
    <2> SUFFICES ASSUME NEW i \in Behind(j) PROVE FALSE
      OBVIOUS
    <2>1. Behind(i) \in B /\ Behind(i) \subseteq Behind(j) /\ Behind(i) # Behind(j)
      BY <1>1
    <2>2. Behind(i) \in SUBSET C /\ Behind(j) \in SUBSET C
      OBVIOUS
    <2> HIDE DEF Behind, B, C
    <2> QED
      BY <1>4, <1>5, <2>1, <2>2 DEF StrictSubsetOrdering
  <1>7. Cardinality(Behind(j)) < spare
    BY <1>6, FS_EmptySet
  <1> QED
    BY <1>5, <1>7 DEF Grant

LEMMA SampledFacts ==
    ASSUME NEW p \in Ctrs, NEW c, Tuned(p, c), NEW s \in Samples
    PROVE  /\ Tuned(p, Sampled(p, c, s))
           /\ Sampled(p, c, s).alloc = c.alloc
           /\ Sampled(p, c, s).spare = c.spare
  <1>1. CASE s = "none"
    BY <1>1 DEF Sampled
  <1>2. CASE s # "none"
    <2> DEFINE o == IF c.state = "OBSERVE" THEN DoObserve(c) ELSE c
    <2>1. o.alloc = c.alloc /\ o.spare = c.spare /\ Tuned(p, o)
      BY ObserveTuned DEF DoObserve, Tuned, CtrInfo
    <2>2. DoAdjust(p, o, s).alloc = o.alloc /\ DoAdjust(p, o, s).spare = o.spare
      BY <2>1 DEF DoAdjust, AdjustTarget, Tuned, CtrInfo
    <2>3. Tuned(p, DoAdjust(p, o, s))
      BY <2>1, AdjustTuned
    <2> QED
      BY <1>2, <2>1, <2>2, <2>3 DEF Sampled
  <1> QED
    BY <1>1, <1>2

\* What an evaluation makes of the spare cores.
LEMMA EvaluateSpare ==
    ASSUME NEW p \in Ctrs, MinSecondary[p] = 0, NEW c, Tuned(p, c),
           c.alloc = 0 => c.spare = 0, NEW active, NEW s \in Samples
    PROVE  LET e == EvaluatePrimaryContainer(p, c, active, s)
           IN  /\ CoreDifference(p, e, active) <= 0 => e.spare <= e.alloc
               /\ e.spare > 0 => e.alloc > 0 \/ CoreDifference(p, e, active) > 0
               /\ ~AsksRebalance(p, c, active, s) => (e.alloc = 0 => e.spare = 0)
  <1> DEFINE a == Sampled(p, c, s)
             diff == CoreDifference(p, a, active)
             e == EvaluatePrimaryContainer(p, c, active, s)
  <1>1. /\ Tuned(p, a) /\ (a.alloc = 0 => a.spare = 0)
        /\ a.alloc \in Nat /\ a.spare \in Nat /\ a.max \in Nat
    BY SampledFacts DEF Tuned, CtrInfo
  <1>2. diff \in Int
    BY <1>1, DifferenceType
  <1>3. CoreDifference(p, e, active) = diff
    BY <1>1 DEF EvaluatePrimaryContainer, SampledDifference, DoHarvest, CoreDifference,
                Tuned, CtrInfo
  <1>4. CASE SkipsHarvest(p, a, diff)
    <2>1. e = a
      BY <1>4 DEF EvaluatePrimaryContainer, SampledDifference, DoHarvest
    <2>2. diff > 0 \/ (diff < 0 /\ a.alloc = 0)
      BY <1>4 DEF SkipsHarvest
    <2> HIDE DEF a, diff
    <2> QED
      BY <1>1, <1>2, <1>3, <2>1, <2>2
  <1>5. CASE ~SkipsHarvest(p, a, diff)
    <2>1. e.alloc = a.alloc /\ e.spare = SpareCores(a, diff)
      BY <1>1, <1>5 DEF EvaluatePrimaryContainer, SampledDifference, DoHarvest, Tuned, CtrInfo
    <2>2. /\ SpareCores(a, diff) \in Nat
          /\ diff <= 0 => SpareCores(a, diff) <= a.alloc
      BY <1>1, <1>2 DEF SpareCores
    <2>3. ~AsksRebalance(p, c, active, s) => diff = 0
      BY <1>5 DEF AsksRebalance, SampledDifference
    <2> HIDE DEF a, diff
    <2> QED
      BY <1>1, <1>2, <1>3, <2>1, <2>2, <2>3
  <1> QED
    BY <1>4, <1>5

NoHiddenSpare ==
    /\ pc \in {"poll", "allocate"} => lastAffinityMask = setAffinityMask
    /\ pc # "allocate" => \A p \in Ctrs : ctr[p].alloc = 0 => ctr[p].spare = 0
    /\ pc = "allocate" => \A p \in Ctrs :
          /\ CoreDifference(p, ctr[p], currIdleMask) <= 0 => ctr[p].spare <= ctr[p].alloc
          /\ ctr[p].spare > 0 => Candidates(p, lastAffinityMask, currIdleMask) # {}
    /\ pc \in {"paused", "initial"} => \A p \in Ctrs : ctr[p].spare = 0

\* Lent cores, and idle ones, are candidates.
LEMMA CandidateExists ==
    ASSUME NEW p \in Ctrs, NEW last, NEW active, NEW c \in ListedCores(p),
           c \in last \/ c \notin active
    PROVE  Candidates(p, last, active) # {}
  BY DEF ListedCores, Candidates

LEMMA PollNoHiddenSpare ==
    ASSUME \A q \in Ctrs : MinSecondary[q] = 0,
           TypeOK, TargetBounds, Accounting, Unregistered, NoHiddenSpare,
           NEW m \in SUBSET Cores, NEW samples \in [1..nr_primary_ctrs -> Samples],
           Poll(m, samples)
    PROVE  NoHiddenSpare'
  <1>1. /\ pc = "poll" /\ pc' \in {"poll", "allocate"} /\ currIdleMask' = m
        /\ UNCHANGED <<setAffinityMask, lastAffinityMask, nr_primary_ctrs>>
    BY DEF Poll, shared
  <1>2. lastAffinityMask = setAffinityMask
    BY <1>1 DEF NoHiddenSpare
  <1>3. ASSUME NEW p \in Ctrs
        PROVE  /\ pc' = "poll" => (ctr'[p].alloc = 0 => ctr'[p].spare = 0)
               /\ CoreDifference(p, ctr'[p], m) <= 0 => ctr'[p].spare <= ctr'[p].alloc
               /\ ctr'[p].spare > 0 => Candidates(p, lastAffinityMask, m) # {}
    <2>1. /\ Tuned(p, ctr[p]) /\ (ctr[p].alloc = 0 => ctr[p].spare = 0)
          /\ ctr[p].alloc = Cardinality(setAffinityMask \cap ListedCores(p))
          /\ ctr[p].alloc \in Nat /\ ctr[p].spare \in Nat
      BY <1>1, AllTunedMeaning DEF TypeOK, AllTuned, NoHiddenSpare, Accounting, Tuned, CtrInfo
    <2>2. CASE p <= nr_primary_ctrs
      <3> DEFINE e == EvaluatePrimaryContainer(p, ctr[p], m, samples[p])
      <3>1. samples[p] \in Samples /\ p \in 1..nr_primary_ctrs
        BY <2>2, CpuListAssumption DEF Ctrs, TypeOK
      <3>2. ctr'[p] = e
        BY <2>2 DEF Poll
      <3>3. pc' = "poll" => ~AsksRebalance(p, ctr[p], m, samples[p])
        BY <3>1 DEF Poll
      <3>4. /\ CoreDifference(p, e, m) <= 0 => e.spare <= e.alloc
            /\ e.spare > 0 => e.alloc > 0 \/ CoreDifference(p, e, m) > 0
            /\ ~AsksRebalance(p, ctr[p], m, samples[p]) => (e.alloc = 0 => e.spare = 0)
        BY <2>1, <3>1, EvaluateSpare
      <3>5. Tuned(p, e) /\ e.alloc = ctr[p].alloc
        BY <2>1, <3>1, EvaluateTuned, EvaluateKeepsAlloc
      <3>6. e.alloc > 0 => Candidates(p, lastAffinityMask, m) # {}
        <4> SUFFICES ASSUME e.alloc > 0 PROVE Candidates(p, lastAffinityMask, m) # {}
          OBVIOUS
        <4>1. setAffinityMask \cap ListedCores(p) # {}
          <5>1. ctr[p].alloc > 0
            BY <3>5
          <5> HIDE DEF e
          <5>2. Cardinality(setAffinityMask \cap ListedCores(p)) # 0
            BY <2>1, <5>1
          <5> QED
            BY <5>2, FS_EmptySet
        <4> QED
          BY <1>2, <4>1, CandidateExists
      <3>7. CoreDifference(p, e, m) > 0 => Candidates(p, lastAffinityMask, m) # {}
        <4> SUFFICES ASSUME CoreDifference(p, e, m) > 0
                     PROVE  Candidates(p, lastAffinityMask, m) # {}
          OBVIOUS
        <4>1. Cardinality(IdleCores(p, m)) \in Nat /\ e.target \in Nat
          BY <3>5, ListedFinite DEF IdleCores, Tuned, CtrInfo
        <4>2. Cardinality(IdleCores(p, m)) # 0
          BY <4>1 DEF CoreDifference
        <4>3. IdleCores(p, m) # {}
          BY <4>2, FS_EmptySet
        <4> QED
          BY <4>3, CandidateExists DEF IdleCores
      <3> HIDE DEF e
      <3> QED
        BY <3>2, <3>3, <3>4, <3>6, <3>7
    <2>3. CASE ~(p <= nr_primary_ctrs)
      <3>1. ctr'[p] = ctr[p]
        BY <2>3 DEF Poll
      <3>2. ctr[p].alloc = 0 /\ ctr[p].spare = 0
        BY <2>3, CpuListAssumption DEF Unregistered, Ctrs, TypeOK
      <3> QED
        BY <3>1, <3>2
    <2> QED
      BY <2>2, <2>3
  <1> QED
    BY <1>1, <1>2, <1>3 DEF NoHiddenSpare

LEMMA StepNoHiddenSpare ==
    ASSUME \A q \in Ctrs : MinSecondary[q] = 0,
           TypeOK, TypeOK', TargetBounds, Accounting, Unregistered, NoHiddenSpare, [Next]_vars
    PROVE  NoHiddenSpare'
  <1>1. CASE \E m \in SUBSET Cores : \E samples \in [1..nr_primary_ctrs -> Samples] :
                Poll(m, samples)
    BY <1>1, PollNoHiddenSpare
  <1>2. CASE Allocate
    <2>1. /\ pc \in {"initial", "allocate"} /\ pc' \in {"poll", "waitPids"}
          /\ pc' = "poll" => lastAffinityMask' = setAffinityMask'
      BY <1>2, AllocateFacts
    <2>2. ASSUME NEW p \in Ctrs, ctr'[p].alloc = 0
          PROVE  ctr'[p].spare = 0
      <3>1. ctr'[p].spare = ctr[p].spare /\ ctr[p].spare \in Nat
        BY <1>2, AllocateCounts DEF TypeOK, CtrInfo
      <3>2. p <= nr_primary_ctrs \/ p > nr_primary_ctrs
        BY CpuListAssumption DEF Ctrs, TypeOK
      <3>3. CASE p <= nr_primary_ctrs /\ ctr[p].spare > 0
        <4>1. Cardinality(Grants[p]) = 0
          BY <1>2, <2>2, <3>3, AllocateCounts
        <4>2. Grants[p] = Grant(p, ctr[p].spare, lastAffinityMask, currIdleMask)
          BY <3>3, CpuListAssumption DEF Grants, Ctrs, TypeOK
        <4>3. Candidates(p, lastAffinityMask, currIdleMask) # {}
          BY <2>1, <3>3 DEF NoHiddenSpare
        <4>4. Grants[p] # {} /\ IsFiniteSet(Grants[p])
          BY <3>1, <3>3, <4>2, <4>3, GrantNonempty, GrantListed, ListedFinite
        <4> QED
          BY <4>1, <4>4, FS_EmptySet
      <3>4. CASE p > nr_primary_ctrs
        BY <3>1, <3>4 DEF Unregistered
      <3> QED
        BY <3>1, <3>2, <3>3, <3>4
    <2> QED
      BY <2>1, <2>2 DEF NoHiddenSpare
  <1>3. CASE MonitorAnswered \/ Abort
    <2>1. /\ pc' = "poll" /\ lastAffinityMask' = setAffinityMask'
          /\ UNCHANGED ctr /\ pc # "allocate"
      BY <1>3 DEF MonitorAnswered, Abort, EndIteration
    <2> QED
      BY <2>1 DEF NoHiddenSpare
  <1>4. CASE /\ UNCHANGED <<ctr, currIdleMask, lastAffinityMask, setAffinityMask>>
             /\ \/ pc' = pc
                \/ pc = "paused" /\ pc' = "initial"
                \/ pc \in Waiting /\ pc' \in Waiting
                \/ pc = "poll" /\ pc' = "done"
    BY <1>4 DEF NoHiddenSpare, Waiting
  <1> QED
    BY <1>1, <1>2, <1>3, <1>4
    DEF Next, BalancerStep, MonitorStep, ListenerStep, vars, shared, decision,
        monitor, listener, Unpause, PidsReady, PidsBusy, MonitorBusy, SpinAgain,
        Exit, Goto, Publish, MonitorBegin, MonitorEnd, MonitorSleep, MonitorWake,
        RegisterPrimary, ReceiveSecondary, FinishPod, Cancel, UnreadableContainer,
        BeginScan, EndScan, Activate, Stop, Waiting

LEMMA InitNoHiddenSpare == Init => NoHiddenSpare
  <1> SUFFICES ASSUME Init PROVE NoHiddenSpare
    OBVIOUS
  <1>1. pc = "paused" /\ \A p \in Ctrs : ctr[p].alloc = 0 /\ ctr[p].spare = 0
    BY DEF Init, InitialCtr
  <1> QED
    BY <1>1 DEF NoHiddenSpare

LEMMA DeficitStep ==
    ASSUME TypeOK, TargetBounds, Unregistered, NoHiddenSpare, [Next]_vars,
           pc = "allocate", NEW p \in Ctrs, CoreDifference(p, ctr[p], currIdleMask) <= 0
    PROVE  ctr'[p].alloc <= ctr[p].alloc
  <1>1. ctr[p].alloc \in Nat /\ ctr[p].spare \in Nat
    BY DEF TypeOK, CtrInfo
  <1>2. CASE Allocate
    <2>1. ctr[p].spare <= ctr[p].alloc
      BY DEF NoHiddenSpare
    <2>2. CASE p <= nr_primary_ctrs
      <3>1. ctr'[p].alloc <= ctr[p].spare /\ ctr'[p].alloc = Cardinality(Grants[p])
        BY <1>2, <2>2, AllocateCounts
      <3>2. Grants[p] = Grant(p, ctr[p].spare, lastAffinityMask, currIdleMask)
        BY <2>2, CpuListAssumption DEF Grants, Ctrs, TypeOK
      <3>3. Cardinality(Grants[p]) \in Nat
        BY <1>1, <3>2, GrantListed
      <3> QED
        BY <1>1, <2>1, <3>1, <3>3
    <2>3. CASE ~(p <= nr_primary_ctrs)
      <3>1. p > nr_primary_ctrs
        BY <2>3, CpuListAssumption DEF Ctrs, TypeOK
      <3> QED
        BY <1>1, <1>2, <3>1, AllocateCounts
    <2> QED
      BY <2>2, <2>3
  <1>3. CASE UNCHANGED ctr
    BY <1>1, <1>3
  <1>4. pc # "poll"
    OBVIOUS
  <1> QED
    BY <1>2, <1>3, <1>4, CountingSteps DEF Poll

\* A Primary that is short of idle cores, or has just enough, never loses one
\* more core to Secondary, whichever Primary the rebalance is for and however
\* many there are.  minSecondaryCores is 0, as in every configuration the
\* repository ships: a Primary that must leave cores to Secondary keeps a
\* stale SpareCoresToAllocate when doHarvest skips it (main.c:61).
THEOREM DeficitsNeverGrow ==
    ASSUME \A q \in Ctrs : MinSecondary[q] = 0
    PROVE  Spec => DeficitNeverGrows
  <1> DEFINE I == Accounting /\ Unregistered /\ NoHiddenSpare
  <1>1. Init => I
    BY InitAccounting, InitNoHiddenSpare
  <1>2. TypeOK /\ TargetBounds /\ TypeOK' /\ I /\ [Next]_vars => I'
    BY StepAccounting, StepNoHiddenSpare
  <1>3. TypeOK /\ TargetBounds /\ I /\ [Next]_vars
            => [\A p \in Ctrs :
                   pc = "allocate" /\ CoreDifference(p, ctr[p], currIdleMask) <= 0
                       => ctr'[p].alloc <= ctr[p].alloc]_vars
    BY DeficitStep
  <1> HIDE DEF I
  <1> QED
    BY <1>1, <1>2, <1>3, TypeCorrect, PTL DEF Spec, DeficitNeverGrows
=============================================================================
