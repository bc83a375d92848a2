-------------------------- MODULE InterruptsProofs --------------------------
(***************************************************************************)
(* Theorems about the interrupts the Monitor moves, for any number of      *)
(* cores, IRQs and entries: half-written lists do no harm.                 *)
(***************************************************************************)
EXTENDS Interrupts, TLAPS

-----------------------------------------------------------------------------
(* The inductive invariant. *)

\* An array while a list is stored in it: the new entries, then those of the
\* list in force.
Storing(array, num, list, pos, inForce) ==
    /\ pos <= Len(list)
    /\ \A n \in 0..(pos - 1) : array[n] = list[n + 1]
    /\ \A n \in pos..(num - 1) : array[n] \in inForce

\* The lists, and what the history knows of them during a write.
ListsInv ==
    /\ Storing(irqList, NUM_INTERRUPTS, irqWrite.list, irqWrite.pos, irqsInForce)
    /\ Storing(affinity_list, num_affinity, grant.list, grant.pos, lentInForce)
    /\ (irqWrite.on \/ irqWrite.list = <<>>) /\ (grant.on \/ grant.list = <<>>)
    /\ wpc # "idle" =>
          /\ lentInForce \cup Entries(grant.list) \subseteq lent
          /\ irqsInForce \cup Entries(irqWrite.list) \subseteq named

\* What the writer has read, and what it is about to read.
MaskInv ==
    wpc # "idle" =>
        /\ irqAffinity \subseteq new_affinity_mask
        /\ new_affinity_mask \subseteq irqAffinity \cup lent
        /\ wpc = "add" => i < ListSize /\ affinity_list[i] \in lent
        /\ wpc = "move" => i < ListSize /\ irqList[i] \in named

\* The IRQs the writer has passed, if nobody writes their list.
MovedInv ==
    /\ ~irqWrite.on => irqsInForce = {irqList[n] : n \in 0..(NUM_INTERRUPTS - 1)}
    /\ wpc # "idle" /\ ~rewritten => ~irqWrite.on
    /\ wpc \in {"irqs", "move"} /\ ~rewritten =>
          \A n \in 0..(i - 1) : /\ irqList[n] \in Irqs
                                /\ \/ irqList[n] \in refused
                                   \/ affinity[irqList[n]] = new_affinity_mask

IInv == TypeOK /\ ListsInv /\ MaskInv /\ MovedInv

-----------------------------------------------------------------------------
(* Facts about arrays that are being written. *)

LEMMA ListFacts ==
    /\ \A list \in IrqLists \cup {<<>>} :
          list \in Seq(Irqs) /\ Len(list) \in 0..ListSize /\ Entries(list) \subseteq Irqs
    /\ \A list \in Grants \cup {<<>>} :
          list \in Seq(Cores) /\ Len(list) \in 0..ListSize /\ Entries(list) \subseteq Cores
  <1>1. ASSUME NEW S, NEW list \in Seq(S) PROVE Entries(list) \subseteq S
    BY <1>1 DEF Entries
  <1>2. <<>> \in Seq(Irqs) /\ <<>> \in Seq(Cores) /\ Len(<<>>) = 0
    OBVIOUS
  <1>3. \A list \in IrqLists \cup {<<>>} : list \in Seq(Irqs) /\ Len(list) \in 0..ListSize
    <2> TAKE list \in IrqLists \cup {<<>>}
    <2>1. CASE list = <<>>
      BY <1>2, <2>1, ListSizeAssumption
    <2>2. CASE list \in IrqLists
      <3>1. list \in Seq(Irqs) /\ (Len(list) \in 0..ListSize \/ Len(list) \in 1..ListSize)
        BY <2>2, ListsAssumption
      <3> QED
        BY <3>1, ListSizeAssumption
    <2> QED
      BY <2>1, <2>2
  <1>4. \A list \in Grants \cup {<<>>} : list \in Seq(Cores) /\ Len(list) \in 0..ListSize
    <2> TAKE list \in Grants \cup {<<>>}
    <2>1. CASE list = <<>>
      BY <1>2, <2>1, ListSizeAssumption
    <2>2. CASE list \in Grants
      <3>1. list \in Seq(Cores) /\ (Len(list) \in 0..ListSize \/ Len(list) \in 1..ListSize)
        BY <2>2, ListsAssumption
      <3> QED
        BY <3>1, ListSizeAssumption
    <2> QED
      BY <2>1, <2>2
  <1> QED
    BY <1>1, <1>3, <1>4

\* Every counted entry is of the list in force or of the one being stored.
LEMMA StoringShows ==
    ASSUME NEW S, NEW array, NEW num \in Nat, NEW inForce, NEW list, NEW pos,
           list \in Seq(S), pos \in Nat,
           Storing(array, num, list, pos, inForce), NEW n \in 0..(num - 1)
    PROVE  array[n] \in inForce \cup Entries(list)
  <1>1. CASE n < pos
    <2>1. array[n] = list[n + 1] /\ n + 1 \in 1..Len(list)
      BY <1>1 DEF Storing
    <2> QED
      BY <2>1 DEF Entries
  <1>2. CASE ~(n < pos)
    BY <1>2 DEF Storing
  <1> QED
    BY <1>1, <1>2

\* One more entry is stored.
LEMMA StoreEntry ==
    ASSUME NEW array, NEW num \in 0..ListSize, NEW inForce, NEW list, NEW pos, NEW new,
           Len(list) \in 0..ListSize, pos \in Nat, pos < Len(list),
           Storing(array, num, list, pos, inForce),
           new[pos] = list[pos + 1],
           \A n \in 0..(ListSize - 1) : n # pos => new[n] = array[n]
    PROVE  Storing(new, num, list, pos + 1, inForce) /\ new[pos] \in Entries(list)
  <1>0. ListSize \in Nat /\ Len(list) \in Nat
    BY ListSizeAssumption
  <1>1. pos \in 0..(ListSize - 1)
    BY <1>0
  <1>2. pos + 1 \in 1..Len(list)
    BY <1>0
  <1>3. new[pos] \in Entries(list)
    BY <1>2 DEF Entries
  <1>4. ASSUME NEW n \in 0..pos PROVE new[n] = list[n + 1]
    <2>1. CASE n = pos
      BY <2>1
    <2>2. CASE n # pos
      <3>1. n \in 0..(pos - 1) /\ n \in 0..(ListSize - 1)
        BY <1>0, <1>1, <1>4, <2>2
      <3>2. array[n] = list[n + 1]
        BY <3>1 DEF Storing
      <3> QED
        BY <2>2, <3>1, <3>2
    <2> QED
      BY <2>1, <2>2
  <1>5. ASSUME NEW n \in (pos + 1)..(num - 1) PROVE new[n] \in inForce
    <2>1. n \in pos..(num - 1) /\ n # pos /\ n \in 0..(ListSize - 1)
      BY <1>0, <1>1, <1>5
    <2>2. array[n] \in inForce
      BY <2>1 DEF Storing
    <2> QED
      BY <2>1, <2>2
  <1>6. pos + 1 <= Len(list)
    BY <1>0
  <1>7. Storing(new, num, list, pos + 1, inForce)
    BY <1>4, <1>5, <1>6 DEF Storing
  <1> QED
    BY <1>3, <1>7

\* A list that has been stored is in force.
LEMMA EndStoring ==
    ASSUME NEW array, NEW num, NEW inForce, NEW list, NEW pos,
           Len(list) \in Nat, pos = Len(list),
           Storing(array, num, list, pos, inForce)
    PROVE  /\ Storing(array, pos, <<>>, 0, Entries(list))
           /\ Entries(list) = {array[n] : n \in 0..(pos - 1)}
  <1>1. Len(list) \in Nat
    OBVIOUS
  <1>2. \A n \in 0..(pos - 1) : array[n] = list[n + 1]
    BY DEF Storing
  <1>3. Entries(list) = {array[n] : n \in 0..(pos - 1)}
    <2>1. ASSUME NEW n \in 1..Len(list)
          PROVE  n - 1 \in 0..(pos - 1) /\ list[n] = array[n - 1]
      BY <1>1, <1>2, <2>1
    <2>2. ASSUME NEW n \in 0..(pos - 1)
          PROVE  n + 1 \in 1..Len(list) /\ array[n] = list[n + 1]
      BY <1>1, <1>2, <2>2
    <2> QED
      BY <2>1, <2>2 DEF Entries
  <1>4. Len(<<>>) = 0
    OBVIOUS
  <1> QED
    BY <1>3, <1>4 DEF Storing

-----------------------------------------------------------------------------
(* Initially. *)

LEMMA InitIInv == Init => IInv
  <1> SUFFICES ASSUME Init PROVE IInv
    OBVIOUS
  <1> USE DEF Init, Nothing
  <1>1. TypeOK
    <2>1. irqList \in Array(Irqs \cup {NoIrq}) /\ affinity_list \in Array(Cores \cup {NoCore})
      BY DEF Array
    <2>2. 0 \in 0..ListSize
      BY ListSizeAssumption
    <2>3. /\ irqWrite \in [list : IrqLists \cup {<<>>}, pos : 0..ListSize, on : BOOLEAN]
          /\ grant \in [list : Grants \cup {<<>>}, pos : 0..ListSize, on : BOOLEAN]
      BY <2>2
    <2>4. affinity \in [Irqs -> SUBSET Cores]
      OBVIOUS
    <2> QED
      BY <2>1, <2>2, <2>3, <2>4 DEF TypeOK
  <1>2. ListsInv
    BY DEF ListsInv, Storing
  <1>3. MaskInv /\ MovedInv
    BY DEF MaskInv, MovedInv
  <1> QED
    BY <1>1, <1>2, <1>3 DEF IInv

-----------------------------------------------------------------------------
(* The list of IRQs is written. *)

LEMMA BeginIrqListKeeps == IInv /\ BeginIrqList => IInv'
  <1> SUFFICES ASSUME IInv, BeginIrqList PROVE IInv'
    OBVIOUS
  <1> USE DEF IInv
  <1>1. PICK list \in IrqLists : irqWrite' = Stored(list) /\ named' = named \cup Watched(list)
    BY DEF BeginIrqList
  <1>2. /\ irqWrite'.list = list /\ irqWrite'.pos = 0 /\ irqWrite'.on
        /\ irqWrite' \in [list : IrqLists \cup {<<>>}, pos : 0..ListSize, on : BOOLEAN]
    BY <1>1, ListSizeAssumption DEF Stored
  <1>3. Len(list) \in 0..ListSize /\ Entries(list) \subseteq Irqs /\ list \in Seq(Irqs)
    BY ListFacts
  <1>4. UNCHANGED <<irqList, NUM_INTERRUPTS, irqsInForce, grants, writer, affinity, lent, refused>>
        /\ ~irqWrite.on /\ rewritten' = (wpc # "idle")
    BY DEF BeginIrqList
  <1>5. TypeOK'
    BY <1>1, <1>2, <1>3, <1>4 DEF TypeOK, grants, writer, Watched
  <1>6. Storing(irqList, NUM_INTERRUPTS, irqWrite.list, irqWrite.pos, irqsInForce)'
    <2>1. irqWrite.pos = 0
      BY <1>4 DEF TypeOK, ListsInv, Storing
    <2> QED
      BY <1>2, <1>3, <1>4, <2>1 DEF ListsInv, Storing
  <1>7. ListsInv'
    BY <1>1, <1>2, <1>4, <1>6 DEF ListsInv, grants, writer, Watched
  <1>8. MaskInv'
    BY <1>1, <1>4 DEF MaskInv, grants, writer
  <1>9. MovedInv'
    BY <1>2, <1>4 DEF MovedInv, writer
  <1> QED
    BY <1>5, <1>7, <1>8, <1>9

LEMMA StoreIrqKeeps == IInv /\ StoreIrq => IInv'
  <1> SUFFICES ASSUME IInv, StoreIrq PROVE IInv'
    OBVIOUS
  <1> USE DEF IInv
  <1>1. /\ irqWrite.on /\ irqWrite.pos < Len(irqWrite.list)
        /\ irqList' = [irqList EXCEPT ![irqWrite.pos] = irqWrite.list[irqWrite.pos + 1]]
        /\ irqWrite' = [irqWrite EXCEPT !.pos = @ + 1]
        /\ UNCHANGED <<NUM_INTERRUPTS, irqsInForce, grants, writer, affinity, recent>>
    BY DEF StoreIrq
  <1>2. /\ irqWrite.list \in IrqLists \cup {<<>>} /\ irqWrite.pos \in 0..ListSize
        /\ irqWrite.list \in Seq(Irqs) /\ Len(irqWrite.list) \in 0..ListSize
        /\ Entries(irqWrite.list) \subseteq Irqs
    BY ListFacts DEF TypeOK
  <1>3. irqWrite'.list = irqWrite.list /\ irqWrite'.pos = irqWrite.pos + 1 /\ irqWrite'.on = irqWrite.on
        /\ irqWrite' \in [list : IrqLists \cup {<<>>}, pos : 0..ListSize, on : BOOLEAN]
    <2>1. irqWrite \in [list : IrqLists \cup {<<>>}, pos : 0..ListSize, on : BOOLEAN]
      BY DEF TypeOK
    <2>2. irqWrite.pos + 1 \in 0..ListSize
      BY <1>1, <1>2, ListSizeAssumption
    <2> QED
      BY <1>1, <2>1, <2>2
  <1>4. /\ Storing(irqList', NUM_INTERRUPTS, irqWrite'.list, irqWrite'.pos, irqsInForce)
        /\ irqList'[irqWrite.pos] \in Entries(irqWrite.list)
        /\ \A n \in 0..(ListSize - 1) : n # irqWrite.pos => irqList'[n] = irqList[n]
    <2>1. DOMAIN irqList = 0..(ListSize - 1) /\ NUM_INTERRUPTS \in 0..ListSize
          /\ Storing(irqList, NUM_INTERRUPTS, irqWrite.list, irqWrite.pos, irqsInForce)
      BY DEF TypeOK, ListsInv, Array
    <2>2. irqWrite.pos \in 0..(ListSize - 1) /\ irqWrite.pos \in Nat
      BY <1>1, <1>2, ListSizeAssumption
    <2>3. /\ irqList'[irqWrite.pos] = irqWrite.list[irqWrite.pos + 1]
          /\ \A n \in 0..(ListSize - 1) : n # irqWrite.pos => irqList'[n] = irqList[n]
      BY <1>1, <2>1, <2>2
    <2>4. Len(irqWrite.list) \in 0..ListSize /\ irqWrite.pos < Len(irqWrite.list)
      BY <1>1, <1>2
    <2>5. /\ Storing(irqList', NUM_INTERRUPTS, irqWrite.list, irqWrite.pos + 1, irqsInForce)
          /\ irqList'[irqWrite.pos] \in Entries(irqWrite.list)
      <3> HIDE DEF IInv
      <3> QED
        BY <2>1, <2>2, <2>3, <2>4, StoreEntry
    <2> QED
      BY <1>3, <2>3, <2>5
  <1>5. TypeOK'
    <2>1. irqWrite.list[irqWrite.pos + 1] \in Irqs
      BY <1>1, <1>2, ListSizeAssumption
    <2>2. irqList' \in Array(Irqs \cup {NoIrq})
      BY <1>1, <2>1 DEF TypeOK, Array
    <2> QED
      BY <1>1, <1>3, <2>2 DEF TypeOK, grants, writer, recent
  <1>6. ListsInv'
    BY <1>1, <1>3, <1>4 DEF ListsInv, grants, writer, recent
  <1>7. MaskInv'
    <2>1. ASSUME wpc = "move" PROVE irqList'[i] \in named
      <3>1. i \in 0..(ListSize - 1) /\ irqList[i] \in named
            /\ Entries(irqWrite.list) \subseteq named
        BY <2>1, ListSizeAssumption DEF MaskInv, ListsInv, TypeOK
      <3> QED
        BY <1>4, <3>1
    <2> QED
      BY <1>1, <2>1 DEF MaskInv, grants, writer, recent
  <1>8. MovedInv'
    BY <1>1, <1>3 DEF MovedInv, writer, recent
  <1> QED
    BY <1>5, <1>6, <1>7, <1>8

LEMMA EndIrqListKeeps == IInv /\ EndIrqList => IInv'
  <1> SUFFICES ASSUME IInv, EndIrqList PROVE IInv'
    OBVIOUS
  <1> USE DEF IInv
  <1>1. /\ irqWrite.on /\ irqWrite.pos = Len(irqWrite.list)
        /\ NUM_INTERRUPTS' = irqWrite.pos /\ irqsInForce' = Entries(irqWrite.list)
        /\ irqWrite' = Nothing /\ UNCHANGED <<irqList, grants, writer, affinity, recent>>
    BY DEF EndIrqList
  <1>2. irqWrite.list \in Seq(Irqs) /\ Entries(irqWrite.list) \subseteq Irqs
        /\ irqWrite.pos \in 0..ListSize
    BY ListFacts DEF TypeOK
  <1>3. /\ Storing(irqList, irqWrite.pos, <<>>, 0, Entries(irqWrite.list))
        /\ Entries(irqWrite.list) = {irqList[n] : n \in 0..(irqWrite.pos - 1)}
    <2>1. Storing(irqList, NUM_INTERRUPTS, irqWrite.list, irqWrite.pos, irqsInForce)
      BY DEF ListsInv
    <2>2. Len(irqWrite.list) \in Nat
      BY <1>2
    <2> QED
      BY <1>1, <2>1, <2>2, EndStoring
  <1>4. Nothing.list = <<>> /\ Nothing.pos = 0 /\ Entries(Nothing.list) = {}
    BY DEF Entries, Nothing
  <1>5. TypeOK'
    BY <1>1, <1>2, ListSizeAssumption DEF TypeOK, grants, writer, recent, Nothing
  <1>6. ListsInv'
    BY <1>1, <1>3, <1>4 DEF ListsInv, grants, writer, recent
  <1>7. MaskInv'
    BY <1>1 DEF MaskInv, grants, writer, recent
  <1>8. MovedInv'
    BY <1>1, <1>3 DEF MovedInv, writer, recent
  <1> QED
    BY <1>5, <1>6, <1>7, <1>8

-----------------------------------------------------------------------------
(* The Balancer writes a grant. *)

LEMMA BeginGrantKeeps == IInv /\ BeginGrant => IInv'
  <1> SUFFICES ASSUME IInv, BeginGrant PROVE IInv'
    OBVIOUS
  <1> USE DEF IInv
  <1>1. PICK list \in Grants : grant' = Stored(list) /\ lent' = lent \cup Watched(list)
    BY DEF BeginGrant
  <1>2. /\ grant'.list = list /\ grant'.pos = 0 /\ grant'.on
        /\ grant' \in [list : Grants \cup {<<>>}, pos : 0..ListSize, on : BOOLEAN]
    BY <1>1, ListSizeAssumption DEF Stored
  <1>3. Len(list) \in 0..ListSize /\ Entries(list) \subseteq Cores
    BY ListFacts
  <1>4. UNCHANGED <<affinity_list, num_affinity, lentInForce, irqs, writer, affinity,
                    named, rewritten, refused>> /\ ~grant.on
    BY DEF BeginGrant
  <1>5. TypeOK'
    BY <1>1, <1>2, <1>3, <1>4 DEF TypeOK, irqs, writer, Watched
  <1>6. Storing(affinity_list, num_affinity, grant.list, grant.pos, lentInForce)'
    <2>1. grant.pos = 0
      BY <1>4 DEF TypeOK, ListsInv, Storing
    <2> QED
      BY <1>2, <1>3, <1>4, <2>1 DEF ListsInv, Storing
  <1>7. ListsInv'
    BY <1>1, <1>2, <1>4, <1>6 DEF ListsInv, irqs, writer, Watched
  <1>8. MaskInv'
    BY <1>1, <1>4 DEF MaskInv, irqs, writer
  <1>9. MovedInv'
    BY <1>4 DEF MovedInv, irqs, writer
  <1> QED
    BY <1>5, <1>7, <1>8, <1>9

LEMMA StoreCoreKeeps == IInv /\ StoreCore => IInv'
  <1> SUFFICES ASSUME IInv, StoreCore PROVE IInv'
    OBVIOUS
  <1> USE DEF IInv
  <1>1. /\ grant.on /\ grant.pos < Len(grant.list)
        /\ affinity_list' = [affinity_list EXCEPT ![grant.pos] = grant.list[grant.pos + 1]]
        /\ grant' = [grant EXCEPT !.pos = @ + 1]
        /\ UNCHANGED <<num_affinity, lentInForce, irqs, writer, affinity, recent>>
    BY DEF StoreCore
  <1>2. /\ grant.list \in Grants \cup {<<>>} /\ grant.pos \in 0..ListSize
        /\ grant.list \in Seq(Cores) /\ Len(grant.list) \in 0..ListSize
        /\ Entries(grant.list) \subseteq Cores
    BY ListFacts DEF TypeOK
  <1>3. grant'.list = grant.list /\ grant'.pos = grant.pos + 1 /\ grant'.on = grant.on
        /\ grant' \in [list : Grants \cup {<<>>}, pos : 0..ListSize, on : BOOLEAN]
    <2>1. grant \in [list : Grants \cup {<<>>}, pos : 0..ListSize, on : BOOLEAN]
      BY DEF TypeOK
    <2>2. grant.pos + 1 \in 0..ListSize
      BY <1>1, <1>2, ListSizeAssumption
    <2> QED
      BY <1>1, <2>1, <2>2
  <1>4. /\ Storing(affinity_list', num_affinity, grant'.list, grant'.pos, lentInForce)
        /\ affinity_list'[grant.pos] \in Entries(grant.list)
        /\ \A n \in 0..(ListSize - 1) : n # grant.pos => affinity_list'[n] = affinity_list[n]
    <2>1. DOMAIN affinity_list = 0..(ListSize - 1) /\ num_affinity \in 0..ListSize
          /\ Storing(affinity_list, num_affinity, grant.list, grant.pos, lentInForce)
      BY DEF TypeOK, ListsInv, Array
    <2>2. grant.pos \in 0..(ListSize - 1) /\ grant.pos \in Nat
      BY <1>1, <1>2, ListSizeAssumption
    <2>3. /\ affinity_list'[grant.pos] = grant.list[grant.pos + 1]
          /\ \A n \in 0..(ListSize - 1) : n # grant.pos => affinity_list'[n] = affinity_list[n]
      BY <1>1, <2>1, <2>2
    <2>4. Len(grant.list) \in 0..ListSize /\ grant.pos < Len(grant.list)
      BY <1>1, <1>2
    <2>5. /\ Storing(affinity_list', num_affinity, grant.list, grant.pos + 1, lentInForce)
          /\ affinity_list'[grant.pos] \in Entries(grant.list)
      <3> HIDE DEF IInv
      <3> QED
        BY <2>1, <2>2, <2>3, <2>4, StoreEntry
    <2> QED
      BY <1>3, <2>3, <2>5
  <1>5. TypeOK'
    <2>1. grant.list[grant.pos + 1] \in Cores
      BY <1>1, <1>2, ListSizeAssumption
    <2>2. affinity_list' \in Array(Cores \cup {NoCore})
      BY <1>1, <2>1 DEF TypeOK, Array
    <2> QED
      BY <1>1, <1>3, <2>2 DEF TypeOK, irqs, writer, recent
  <1>6. ListsInv'
    BY <1>1, <1>3, <1>4 DEF ListsInv, irqs, writer, recent
  <1>7. MaskInv'
    <2>1. ASSUME wpc = "add" PROVE affinity_list'[i] \in lent
      <3>1. i \in 0..(ListSize - 1) /\ affinity_list[i] \in lent
            /\ Entries(grant.list) \subseteq lent
        BY <2>1, ListSizeAssumption DEF MaskInv, ListsInv, TypeOK
      <3> QED
        BY <1>4, <3>1
    <2> QED
      BY <1>1, <2>1 DEF MaskInv, irqs, writer, recent
  <1>8. MovedInv'
    BY <1>1 DEF MovedInv, irqs, writer, recent
  <1> QED
    BY <1>5, <1>6, <1>7, <1>8

LEMMA EndGrantKeeps == IInv /\ EndGrant => IInv'
  <1> SUFFICES ASSUME IInv, EndGrant PROVE IInv'
    OBVIOUS
  <1> USE DEF IInv
  <1>1. /\ grant.on /\ grant.pos = Len(grant.list)
        /\ num_affinity' = grant.pos /\ lentInForce' = Entries(grant.list)
        /\ grant' = Nothing /\ UNCHANGED <<affinity_list, irqs, writer, affinity, recent>>
    BY DEF EndGrant
  <1>2. grant.list \in Seq(Cores) /\ Entries(grant.list) \subseteq Cores
        /\ grant.pos \in 0..ListSize
    BY ListFacts DEF TypeOK
  <1>3. Storing(affinity_list, grant.pos, <<>>, 0, Entries(grant.list))
    BY <1>1, <1>2, EndStoring DEF ListsInv
  <1>4. Nothing.list = <<>> /\ Nothing.pos = 0 /\ Entries(Nothing.list) = {}
    BY DEF Entries, Nothing
  <1>5. TypeOK'
    BY <1>1, <1>2, ListSizeAssumption DEF TypeOK, irqs, writer, recent, Nothing
  <1>6. ListsInv'
    BY <1>1, <1>3, <1>4 DEF ListsInv, irqs, writer, recent
  <1>7. MaskInv' /\ MovedInv'
    BY <1>1 DEF MaskInv, MovedInv, irqs, writer, recent
  <1> QED
    BY <1>5, <1>6, <1>7

-----------------------------------------------------------------------------
(* The interrupts are moved. *)

LEMMA WriterKeeps == IInv /\ SetIrqAffinity => IInv'
  <1> SUFFICES ASSUME IInv, SetIrqAffinity PROVE IInv'
    OBVIOUS
  <1> USE DEF IInv
  <1>0. /\ UNCHANGED <<irqs, grants>>
        /\ irqWrite.list \in Seq(Irqs) /\ Entries(irqWrite.list) \subseteq Irqs
        /\ grant.list \in Seq(Cores) /\ Entries(grant.list) \subseteq Cores
        /\ ListSize \in Nat
    BY ListFacts, ListSizeAssumption
    DEF SetIrqAffinity, WriteIrqAffinity, TestSpare, AddSpare, TestIrqs, MoveIrq, TypeOK
  <1>1. CASE WriteIrqAffinity
    <2>1. irqAffinity' \in SUBSET Cores
      <3>1. PICK list \in Dedicated : irqAffinity' = Entries(list)
        BY <1>1 DEF WriteIrqAffinity
      <3> QED
        BY <3>1, ListsAssumption DEF Entries
    <2>2. /\ wpc' = "test" /\ new_affinity_mask' = irqAffinity' /\ i' = 0
          /\ lent' = lentInForce \cup Entries(grant.list)
          /\ named' = irqsInForce \cup Entries(irqWrite.list)
          /\ rewritten' = irqWrite.on /\ refused' = {} /\ UNCHANGED affinity
      BY <1>1 DEF WriteIrqAffinity
    <2>3. TypeOK'
      BY <1>0, <2>1, <2>2 DEF TypeOK, irqs, grants
    <2>4. ListsInv' /\ MaskInv' /\ MovedInv'
      BY <1>0, <2>2 DEF ListsInv, MaskInv, MovedInv, irqs, grants
    <2> QED
      BY <2>3, <2>4
  <1>2. CASE TestSpare
    <2>1. /\ wpc = "test" /\ UNCHANGED <<irqAffinity, new_affinity_mask, affinity, recent>>
          /\ \/ i < num_affinity /\ wpc' = "add" /\ i' = i
             \/ wpc' = "irqs" /\ i' = 0
      BY <1>2 DEF TestSpare
    <2>2. ASSUME i < num_affinity PROVE i < ListSize /\ affinity_list[i] \in lent
      <3>1. /\ i \in 0..(num_affinity - 1) /\ num_affinity \in 0..ListSize
            /\ grant.pos \in Nat
            /\ Storing(affinity_list, num_affinity, grant.list, grant.pos, lentInForce)
            /\ lentInForce \cup Entries(grant.list) \subseteq lent
        BY <1>0, <2>1, <2>2 DEF TypeOK, ListsInv
      <3>2. affinity_list[i] \in lentInForce \cup Entries(grant.list)
        BY <1>0, <3>1, StoringShows
      <3> QED
        BY <1>0, <3>1, <3>2
    <2>3. TypeOK'
      BY <1>0, <2>1 DEF TypeOK, irqs, grants, recent
    <2>4. ListsInv'
      BY <1>0, <2>1 DEF ListsInv, irqs, grants, recent
    <2>5. MaskInv'
      BY <1>0, <2>1, <2>2 DEF MaskInv, irqs, grants, recent
    <2>6. MovedInv'
      BY <1>0, <2>1 DEF MovedInv, irqs, recent
    <2> QED
      BY <2>3, <2>4, <2>5, <2>6
  <1>3. CASE AddSpare
    <2>1. /\ wpc = "add" /\ wpc' = "test" /\ i' = i + 1
          /\ new_affinity_mask' = new_affinity_mask \cup {affinity_list[i]}
          /\ UNCHANGED <<irqAffinity, affinity, recent>>
      BY <1>3 DEF AddSpare
    <2>2. i < ListSize /\ affinity_list[i] \in lent
      BY <2>1 DEF MaskInv
    <2>3. TypeOK'
      BY <1>0, <2>1, <2>2 DEF TypeOK, irqs, grants, recent
    <2>4. ListsInv'
      BY <1>0, <2>1 DEF ListsInv, irqs, grants, recent
    <2>5. MaskInv' /\ MovedInv'
      BY <1>0, <2>1, <2>2 DEF MaskInv, MovedInv, irqs, recent
    <2> QED
      BY <2>3, <2>4, <2>5
  <1>4. CASE TestIrqs
    <2>1. CASE i < NUM_INTERRUPTS
      <3>1. wpc = "irqs" /\ wpc' = "move"
            /\ UNCHANGED <<i, new_affinity_mask, recent, irqAffinity, affinity>>
        BY <1>4, <2>1 DEF TestIrqs
      <3>2. /\ i \in 0..(NUM_INTERRUPTS - 1) /\ NUM_INTERRUPTS \in 0..ListSize
            /\ irqWrite.pos \in Nat
            /\ Storing(irqList, NUM_INTERRUPTS, irqWrite.list, irqWrite.pos, irqsInForce)
            /\ irqsInForce \cup Entries(irqWrite.list) \subseteq named
        BY <1>0, <2>1, <3>1 DEF TypeOK, ListsInv
      <3>3. irqList[i] \in irqsInForce \cup Entries(irqWrite.list)
        <4>1. NUM_INTERRUPTS \in Nat
          BY <1>0, <3>2
        <4> QED
          BY <1>0, <3>2, <4>1, StoringShows
      <3>4. i < ListSize /\ irqList[i] \in named
        BY <1>0, <3>2, <3>3
      <3>5. TypeOK' /\ ListsInv'
        BY <1>0, <3>1 DEF TypeOK, ListsInv, irqs, grants, recent
      <3>6. MaskInv'
        BY <1>0, <3>1, <3>4 DEF MaskInv, irqs, grants, recent
      <3>7. MovedInv'
        BY <1>0, <3>1 DEF MovedInv, irqs, recent
      <3> QED
        BY <3>5, <3>6, <3>7
    <2>2. CASE ~(i < NUM_INTERRUPTS)
      <3>1. /\ wpc' = "idle" /\ i' = 0 /\ new_affinity_mask' = {}
            /\ lent' = {} /\ named' = {} /\ rewritten' = FALSE /\ refused' = {}
            /\ UNCHANGED <<irqAffinity, affinity>>
        BY <1>4, <2>2 DEF TestIrqs
      <3>2. TypeOK'
        <4>1. 0 \in 0..ListSize /\ wpc' \in {"idle"}
          BY <1>0, <3>1
        <4> QED
          BY <1>0, <3>1, <4>1 DEF TypeOK, irqs, grants
      <3>3. ListsInv' /\ MaskInv' /\ MovedInv'
        BY <1>0, <3>1 DEF ListsInv, MaskInv, MovedInv, irqs, grants
      <3> QED
        BY <3>2, <3>3
    <2> QED
      BY <2>1, <2>2
  <1>5. CASE MoveIrq
    <2>1. /\ wpc = "move" /\ wpc' = "irqs" /\ i' = i + 1
          /\ UNCHANGED <<irqAffinity, new_affinity_mask, lent, named, rewritten>>
          /\ \/ /\ affinity' = [affinity EXCEPT ![irqList[i]] = new_affinity_mask]
                /\ refused' = refused
             \/ refused' = refused \cup {irqList[i]} /\ affinity' = affinity
      BY <1>5 DEF MoveIrq
    <2>2. i \in 0..(ListSize - 1) /\ irqList[i] \in Irqs
      BY <1>0, <2>1 DEF MaskInv, TypeOK
    <2>3. TypeOK'
      BY <1>0, <2>1, <2>2 DEF TypeOK, irqs, grants
    <2>4. ListsInv'
      BY <1>0, <2>1 DEF ListsInv, irqs, grants
    <2>5. MaskInv'
      BY <1>0, <2>1 DEF MaskInv
    <2>6. ASSUME ~rewritten, NEW n \in 0..i
          PROVE  /\ irqList[n] \in Irqs
                 /\ irqList[n] \in refused' \/ affinity'[irqList[n]] = new_affinity_mask
      <3>1. CASE irqList[n] = irqList[i]
        BY <2>1, <2>2, <3>1 DEF TypeOK
      <3>2. CASE irqList[n] # irqList[i]
        <4>1. n \in 0..(i - 1)
          BY <2>2, <2>6, <3>2
        <4>2. /\ irqList[n] \in Irqs
              /\ irqList[n] \in refused \/ affinity[irqList[n]] = new_affinity_mask
          BY <2>1, <2>6, <4>1 DEF MovedInv
        <4>3. affinity'[irqList[n]] = affinity[irqList[n]]
          BY <2>1, <3>2, <4>2 DEF TypeOK
        <4> QED
          BY <2>1, <4>2, <4>3
      <3> QED
        BY <3>1, <3>2
    <2>7. 0..(i' - 1) = 0..i
      BY <2>1, <2>2
    <2>8. MovedInv'
      BY <1>0, <2>1, <2>6, <2>7 DEF MovedInv, irqs
    <2> QED
      BY <2>3, <2>4, <2>5, <2>8
  <1> QED
    BY <1>1, <1>2, <1>3, <1>4, <1>5 DEF SetIrqAffinity

LEMMA NextIInv == IInv /\ [Next]_vars => IInv'
  <1> SUFFICES ASSUME IInv, UNCHANGED vars PROVE IInv'
    BY BeginIrqListKeeps, StoreIrqKeeps, EndIrqListKeeps, BeginGrantKeeps, StoreCoreKeeps,
       EndGrantKeeps, WriterKeeps DEF Next, WriteIrqList, Allocate
  <1> QED
    BY DEF IInv, TypeOK, ListsInv, MaskInv, MovedInv, vars, irqs, grants, writer, recent

LEMMA Invariance == Spec => []IInv
  BY InitIInv, NextIInv, PTL DEF Spec

-----------------------------------------------------------------------------
(* Theorems. *)

\* All words keep to their types and no array is left.
THEOREM TypeCorrect == Spec => []TypeOK
  <1>1. IInv => TypeOK
    BY DEF IInv
  <1> QED
    BY <1>1, Invariance, PTL

\* Interrupts go to dedicated cores and to cores lent during the write only,
\* although the Balancer may be in the middle of a grant (monitor.c,
\* set_irq_affinity).
THEOREM InterruptsOnLentCores == Spec => []OnlyLentCores
  <1>1. IInv => OnlyLentCores
    BY DEF IInv, MaskInv, OnlyLentCores
  <1> QED
    BY <1>1, Invariance, PTL

\* No entry behind the list, or of a list before, is taken for an IRQ
\* (procfs.h, irqlist_writer).
THEOREM NamedIrqsOnly == Spec => []OnlyNamedIrqs
  <1>1. IInv => OnlyNamedIrqs
    BY DEF IInv, MaskInv, OnlyNamedIrqs
  <1> QED
    BY <1>1, Invariance, PTL

\* A write that is not disturbed moves all IRQs (monitor.c, set_irq_affinity).
THEOREM UndisturbedWriteMovesAll == Spec => AllIrqsMoved
  <1> DEFINE Moved == (wpc = "irqs" /\ wpc' = "idle" /\ ~rewritten) =>
                         \A irq \in irqsInForce \ refused :
                             affinity[irq] = new_affinity_mask /\ irqAffinity \subseteq affinity[irq]
  <1>1. ASSUME IInv, [Next]_vars PROVE [Moved]_vars
    <2> SUFFICES ASSUME wpc = "irqs", wpc' = "idle", ~rewritten,
                        NEW irq \in irqsInForce \ refused
                 PROVE  affinity[irq] = new_affinity_mask /\ irqAffinity \subseteq affinity[irq]
      OBVIOUS
    <2>1. ~(i < NUM_INTERRUPTS)
      BY <1>1 DEF Next, WriteIrqList, BeginIrqList, StoreIrq, EndIrqList, Allocate, BeginGrant,
                  StoreCore, EndGrant, SetIrqAffinity, WriteIrqAffinity, TestSpare, AddSpare,
                  TestIrqs, MoveIrq, vars, writer
    <2>2. irqsInForce = {irqList[n] : n \in 0..(NUM_INTERRUPTS - 1)}
      BY <1>1 DEF IInv, MovedInv
    <2>3. PICK n \in 0..(NUM_INTERRUPTS - 1) : irq = irqList[n]
      BY <2>2
    <2>4. n \in 0..(i - 1)
      BY <1>1, <2>1 DEF IInv, TypeOK
    <2>5. affinity[irq] = new_affinity_mask
      BY <1>1, <2>3, <2>4 DEF IInv, MovedInv
    <2> QED
      BY <1>1, <2>5 DEF IInv, MaskInv
  <1> QED
    BY <1>1, Invariance, PTL DEF Spec, AllIrqsMoved

=============================================================================
