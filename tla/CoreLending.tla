----------------------------- MODULE CoreLending -----------------------------
(***************************************************************************)
(* What HarvestContainers promises about cores, without its machinery.     *)
(* A lender looks at which cores are busy and changes the set of cores     *)
(* lent to the Secondary containers.  Cores may be taken back at any time; *)
(* a core is lent only on the strength of a look that has not been used    *)
(* yet, and only if that look showed the core idle.  What shows nothing    *)
(* new is not a look: a used one does not become fresh by repeating it.    *)
(***************************************************************************)
CONSTANT Cores

VARIABLES lent,      \* cores the Secondary containers may run on
          busy,      \* cores the last look found busy
          fresh      \* the last look may still justify a loan

vars == <<lent, busy, fresh>>

Init == lent \subseteq Cores /\ busy = {} /\ fresh = FALSE

Look == /\ busy' \in SUBSET Cores
        /\ busy' # busy
        /\ fresh' \in BOOLEAN
        /\ UNCHANGED lent

\* The lender decides that nothing needs to change.
Decline == fresh' = FALSE /\ UNCHANGED <<lent, busy>>

Relend == /\ lent' \in SUBSET Cores
          /\ lent' \subseteq lent \/ (fresh /\ (lent' \ lent) \cap busy = {})
          /\ fresh' = FALSE
          /\ UNCHANGED busy

Next == Look \/ Decline \/ Relend

Spec == Init /\ [][Next]_vars
=============================================================================
