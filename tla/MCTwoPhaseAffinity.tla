------------------------- MODULE MCTwoPhaseAffinity --------------------------
(***************************************************************************)
(* Small machines for TLC.  Task c is the launcher of container c.         *)
(***************************************************************************)
EXTENDS TwoPhaseAffinity

\* Lists in the order of a walk from the end of the Primary's pool.
TwoCores == {<<>>, <<1>>, <<2>>, <<2, 1>>}

\* A grant to one of two cores, and its reduction.
Shrinking == {<<>>, <<1>>, <<2, 1>>}

FirstTasks == [c \in 1..MaxContainers |-> c]
=============================================================================
