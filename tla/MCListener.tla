------------------------------ MODULE MCListener ------------------------------
(***************************************************************************)
(* Two clients and one pod of two containers for TLC.                      *)
(***************************************************************************)
EXTENDS Listener

OnePod == [p \in {"pod"} |-> {101, 102}]

Primary(list, form) ==
    [kind |-> "Primary", form |-> form, list |-> list, target |-> 1, pod |-> "pod"]
Secondary(form) ==
    [kind |-> "Secondary", form |-> form, list |-> <<>>, target |-> 0, pod |-> "pod"]

SomeMessages ==
    {Primary(<<1, 2>>, "good"), Primary(<<3>>, "notNumber"), Primary(<<3>>, "missingField"),
     Secondary("good"), [Secondary("good") EXCEPT !.kind = "other"]}
=============================================================================
