------------------------------- MODULE HandOver -------------------------------
(***************************************************************************)
(* The channel between the Balancer and the Monitor, without the code on   *)
(* either side: a list of cores, and one word by which the Balancer asks   *)
(* for the list to be installed and the Monitor answers.  The Balancer     *)
(* chooses a list only while nothing is asked and nobody reads; what it    *)
(* asks for says how the list compares with the one before; list and       *)
(* request then stay as they are until the Monitor has read the list and   *)
(* cleared the request.  An exit signal may withdraw a choice, but not a   *)
(* request.                                                                *)
(***************************************************************************)
EXTENDS Integers, FiniteSets

CONSTANT Cores

VARIABLES list,      \* the cores to be lent
          chosen,    \* what the Balancer is about to ask for, 0 if nothing
          request,   \* what it asks for, 0 if nothing
          reading    \* the Monitor installs the list

vars == <<list, chosen, request, reading>>

\* 3 suspends the Secondary containers, 1 and 2 grow and shrink their grant.
Kind(new, old) == IF new = {} THEN 3
                  ELSE IF Cardinality(new) < Cardinality(old) THEN 2 ELSE 1

Init == list = {} /\ chosen = 0 /\ request = 0 /\ reading = FALSE

\* A list is not offered twice in a row unless it is empty.
Change == /\ chosen = 0 /\ request = 0 /\ ~reading
          /\ list' \in SUBSET Cores
          /\ list' # {} => list' # list
          /\ reading' = reading

Choose == Change /\ chosen' = Kind(list', list) /\ request' = 0

\* Chosen and asked for at once.
Offer == Change /\ request' = Kind(list', list) /\ chosen' = 0

Publish == /\ chosen # 0
           /\ request' = chosen
           /\ chosen' = 0
           /\ UNCHANGED <<list, reading>>

Withdraw == chosen # 0 /\ chosen' = 0 /\ UNCHANGED <<list, request, reading>>

Read == /\ request # 0 /\ ~reading
        /\ reading' = TRUE
        /\ UNCHANGED <<list, chosen, request>>

Answer == /\ reading
          /\ reading' = FALSE /\ request' = 0
          /\ UNCHANGED <<list, chosen>>

Next == Choose \/ Offer \/ Publish \/ Withdraw \/ Read \/ Answer

Spec == Init /\ [][Next]_vars
===============================================================================
