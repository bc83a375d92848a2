------------------------------ MODULE Interrupts ------------------------------
(***************************************************************************)
(* The interrupts the Monitor moves on command (src/Monitor/procfs.h,      *)
(* irqlist_writer and irqaffinity_writer; monitor.c, set_irq_affinity).    *)
(* A write to irqaffinity names the dedicated cores and sends every IRQ of *)
(* irqlist to these and to the cores now lent to Secondary, which it reads *)
(* from the list in the shared page while the Balancer may be rewriting it *)
(* (src/Balancer/balancer.c).  Another process may be writing irqlist.     *)
(***************************************************************************)
EXTENDS Integers, Sequences, FiniteSets

CONSTANTS Cores, Irqs,
          IrqLists,      \* lists written to irqlist
          Dedicated,     \* lists written to irqaffinity
          Grants,        \* lists of lent cores
          ListSize       \* entries of each array

ASSUME ListSizeAssumption == ListSize \in Nat \ {0}
ASSUME ListsAssumption ==
    /\ \A list \in IrqLists : list \in Seq(Irqs) /\ Len(list) \in 1..ListSize
    /\ \A list \in Dedicated : list \in Seq(Cores) /\ Len(list) \in 1..ListSize
    /\ \A list \in Grants : list \in Seq(Cores) /\ Len(list) \in 0..ListSize

VARIABLES irqList, NUM_INTERRUPTS, irqWrite,       \* the IRQs, and a write of them
          affinity_list, num_affinity, grant,      \* the lent cores, and a new grant
          wpc,                  \* where the writer of irqaffinity is
          irqAffinity,          \* the cores it names
          i, new_affinity_mask, \* set_irq_affinity
          affinity,             \* cores that serve each IRQ
          irqsInForce, lentInForce, \* history: the last complete lists
          lent,                 \* history: cores of all grants during the write
          named,                \* history: IRQs of all lists during the write
          rewritten,            \* history: irqlist was written during the write
          refused               \* history: IRQs the kernel left where they were

irqs == <<irqList, NUM_INTERRUPTS, irqWrite, irqsInForce>>
grants == <<affinity_list, num_affinity, grant, lentInForce>>
writer == <<wpc, irqAffinity, i, new_affinity_mask>>
recent == <<lent, named, rewritten, refused>>
vars == <<irqs, grants, writer, affinity, recent>>

Entries(s) == {s[n] : n \in 1..Len(s)}
Array(S) == [0..(ListSize - 1) -> S]
\* A list that is being stored, and how much of it has been.
Stored(list) == [list |-> list, pos |-> 0, on |-> TRUE]
\* The history covers one write of irqaffinity.
Watched(list) == IF wpc = "idle" THEN {} ELSE Entries(list)
Nothing == [list |-> <<>>, pos |-> 0, on |-> FALSE]
NoIrq == "none"
NoCore == -1

TypeOK ==
    /\ irqList \in Array(Irqs \cup {NoIrq}) /\ NUM_INTERRUPTS \in 0..ListSize
    /\ irqWrite \in [list : IrqLists \cup {<<>>}, pos : 0..ListSize, on : BOOLEAN]
    /\ affinity_list \in Array(Cores \cup {NoCore}) /\ num_affinity \in 0..ListSize
    /\ grant \in [list : Grants \cup {<<>>}, pos : 0..ListSize, on : BOOLEAN]
    /\ wpc \in {"idle", "test", "add", "irqs", "move"}
    /\ irqAffinity \in SUBSET Cores /\ new_affinity_mask \in SUBSET Cores
    /\ i \in 0..ListSize
    /\ affinity \in [Irqs -> SUBSET Cores]
    /\ irqsInForce \in SUBSET Irqs /\ lentInForce \in SUBSET Cores
    /\ lent \in SUBSET Cores /\ named \in SUBSET Irqs
    /\ rewritten \in BOOLEAN /\ refused \in SUBSET Irqs

Init ==
    /\ irqList = [n \in 0..(ListSize - 1) |-> NoIrq] /\ NUM_INTERRUPTS = 0
    /\ irqWrite = Nothing /\ irqsInForce = {}
    /\ affinity_list = [n \in 0..(ListSize - 1) |-> NoCore] /\ num_affinity = 0
    /\ grant = Nothing /\ lentInForce = {}
    /\ wpc = "idle" /\ irqAffinity = {} /\ i = 0 /\ new_affinity_mask = {}
    /\ affinity = [irq \in Irqs |-> Cores]
    /\ lent = {} /\ named = {} /\ rewritten = FALSE /\ refused = {}

-----------------------------------------------------------------------------
(* irqlist_writer: the entries one by one, then their number. *)

\* Mutant: the number is stored before the entries.
BeginIrqListWithNumber ==
    /\ ~irqWrite.on
    /\ \E list \in IrqLists :
          /\ irqWrite' = Stored(list) /\ named' = named \cup Watched(list)
          /\ NUM_INTERRUPTS' = Len(list)
    /\ rewritten' = (wpc # "idle")
    /\ UNCHANGED <<irqList, irqsInForce, grants, writer, affinity, lent, refused>>

BeginIrqList ==
    /\ ~irqWrite.on
    /\ \E list \in IrqLists :
          irqWrite' = Stored(list) /\ named' = named \cup Watched(list)
    /\ rewritten' = (wpc # "idle")
    /\ UNCHANGED <<irqList, NUM_INTERRUPTS, irqsInForce, grants, writer, affinity,
                   lent, refused>>

\* Of well-formed lists only: the result of sscanf is not tested, so a token
\* that is no number would leave the old entry in place and be counted.
StoreIrq ==
    /\ irqWrite.on /\ irqWrite.pos < Len(irqWrite.list)
    /\ irqList' = [irqList EXCEPT ![irqWrite.pos] = irqWrite.list[irqWrite.pos + 1]]
    /\ irqWrite' = [irqWrite EXCEPT !.pos = @ + 1]
    /\ UNCHANGED <<NUM_INTERRUPTS, irqsInForce, grants, writer, affinity, recent>>

EndIrqList ==
    /\ irqWrite.on /\ irqWrite.pos = Len(irqWrite.list)
    /\ NUM_INTERRUPTS' = irqWrite.pos
    /\ irqsInForce' = Entries(irqWrite.list)
    /\ irqWrite' = Nothing
    /\ UNCHANGED <<irqList, grants, writer, affinity, recent>>

WriteIrqList == BeginIrqList \/ StoreIrq \/ EndIrqList

-----------------------------------------------------------------------------
(* The Balancer: the cores one by one, then their number. *)

\* Mutant: the number is stored before the cores.
BeginGrantWithNumber ==
    /\ ~grant.on
    /\ \E list \in Grants : /\ grant' = Stored(list) /\ lent' = lent \cup Watched(list)
                            /\ num_affinity' = Len(list)
    /\ UNCHANGED <<affinity_list, lentInForce, irqs, writer, affinity, named, rewritten, refused>>

BeginGrant ==
    /\ ~grant.on
    /\ \E list \in Grants : grant' = Stored(list) /\ lent' = lent \cup Watched(list)
    /\ UNCHANGED <<affinity_list, num_affinity, lentInForce, irqs, writer, affinity,
                   named, rewritten, refused>>

StoreCore ==
    /\ grant.on /\ grant.pos < Len(grant.list)
    /\ affinity_list' = [affinity_list EXCEPT ![grant.pos] = grant.list[grant.pos + 1]]
    /\ grant' = [grant EXCEPT !.pos = @ + 1]
    /\ UNCHANGED <<num_affinity, lentInForce, irqs, writer, affinity, recent>>

EndGrant ==
    /\ grant.on /\ grant.pos = Len(grant.list)
    /\ num_affinity' = grant.pos
    /\ lentInForce' = Entries(grant.list)
    /\ grant' = Nothing
    /\ UNCHANGED <<affinity_list, irqs, writer, affinity, recent>>

Allocate == BeginGrant \/ StoreCore \/ EndGrant

-----------------------------------------------------------------------------
(* irqaffinity_writer, whose array nobody else reads, and set_irq_affinity; *)
(* well-formed lists only, for here too the result of sscanf is not tested. *)

WriteIrqAffinity ==
    /\ wpc = "idle"
    /\ wpc' = "test"
    /\ \E list \in Dedicated : irqAffinity' = Entries(list)
    /\ new_affinity_mask' = irqAffinity'
    /\ i' = 0
    /\ lent' = lentInForce \cup Entries(grant.list)
    /\ named' = irqsInForce \cup Entries(irqWrite.list)
    /\ rewritten' = irqWrite.on
    /\ refused' = {}
    /\ UNCHANGED <<irqs, grants, affinity>>

\* num_affinity is read in every iteration, before the entry.
TestSpare ==
    /\ wpc = "test"
    /\ IF i < num_affinity
       THEN wpc' = "add" /\ UNCHANGED i
       ELSE wpc' = "irqs" /\ i' = 0
    /\ UNCHANGED <<irqs, grants, irqAffinity, new_affinity_mask, affinity, recent>>

\* Mutant: the mask holds the spare cores alone.
AddSpareOnly ==
    /\ wpc = "add"
    /\ wpc' = "test"
    /\ new_affinity_mask' = (new_affinity_mask \ irqAffinity) \cup {affinity_list[i]}
    /\ i' = i + 1
    /\ UNCHANGED <<irqs, grants, irqAffinity, affinity, recent>>

AddSpare ==
    /\ wpc = "add"
    /\ wpc' = "test"
    /\ new_affinity_mask' = new_affinity_mask \cup {affinity_list[i]}
    /\ i' = i + 1
    /\ UNCHANGED <<irqs, grants, irqAffinity, affinity, recent>>

TestIrqs ==
    /\ wpc = "irqs"
    /\ IF i < NUM_INTERRUPTS
       THEN /\ wpc' = "move"
            /\ UNCHANGED <<i, new_affinity_mask, recent>>
       ELSE /\ wpc' = "idle" /\ i' = 0 /\ new_affinity_mask' = {}
            /\ lent' = {} /\ named' = {} /\ rewritten' = FALSE /\ refused' = {}
    /\ UNCHANGED <<irqs, grants, irqAffinity, affinity>>

\* irq_set_affinity may refuse; nobody looks at its result.
MoveIrq ==
    /\ wpc = "move"
    /\ wpc' = "irqs"
    /\ \/ /\ affinity' = [affinity EXCEPT ![irqList[i]] = new_affinity_mask]
          /\ UNCHANGED refused
       \/ refused' = refused \cup {irqList[i]} /\ UNCHANGED affinity
    /\ i' = i + 1
    /\ UNCHANGED <<irqs, grants, irqAffinity, new_affinity_mask, lent, named, rewritten>>

SetIrqAffinity == WriteIrqAffinity \/ TestSpare \/ AddSpare \/ TestIrqs \/ MoveIrq

Next == WriteIrqList \/ Allocate \/ SetIrqAffinity

Spec == Init /\ [][Next]_vars

-----------------------------------------------------------------------------
(* Properties. *)

\* Interrupts are sent to dedicated cores and to cores that were lent at some
\* moment of the write, never to one that a half-written list shows from an
\* older grant (monitor.c, set_irq_affinity).
OnlyLentCores == wpc # "idle" => new_affinity_mask \subseteq irqAffinity \cup lent

\* Only IRQs of a list that was in force or being stored during the write are
\* moved: a stale entry of the array is never reached (procfs.h,
\* irqlist_writer).
OnlyNamedIrqs == wpc = "move" => i < ListSize /\ irqList[i] \in named

\* A write moves every IRQ of a list that nobody changed meanwhile, unless the
\* kernel refused it, to one mask that has all dedicated cores (monitor.c,
\* set_irq_affinity).
AllIrqsMoved ==
    [][(wpc = "irqs" /\ wpc' = "idle" /\ ~rewritten) =>
         \A irq \in irqsInForce \ refused :
             affinity[irq] = new_affinity_mask /\ irqAffinity \subseteq affinity[irq]]_vars
=============================================================================
