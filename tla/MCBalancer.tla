----------------------------- MODULE MCBalancer ------------------------------
(***************************************************************************)
(* Small pools of cores for TLC.  A cfg chooses a pool by its operators.   *)
(***************************************************************************)
EXTENDS Balancer

\* One Primary with three cores.
OnePool == [p \in 1..1 |-> <<1, 2, 3>>]
One1 == [p \in 1..1 |-> 1]
One2 == [p \in 1..1 |-> 2]
One0 == [p \in 1..1 |-> 0]
OneSmallPool == [p \in 1..1 |-> <<1, 2>>]

\* Two Primaries with their own cores.
TwoPools == [p \in 1..2 |-> IF p = 1 THEN <<1, 2>> ELSE <<3, 4>>]
Two0 == [p \in 1..2 |-> 0]
Two1 == [p \in 1..2 |-> 1]

OnlyPaused == {0}
AnyBootControl == {-1, 0, 1}
NotUpdating == {0}
AnyBootUpdating == {0, 1}
=============================================================================
