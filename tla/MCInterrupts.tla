---------------------------- MODULE MCInterrupts -----------------------------
(***************************************************************************)
(* Lists of two IRQs and of four cores, one of them dedicated, for TLC.     *)
(***************************************************************************)
EXTENDS Interrupts

SomeIrqLists == {<<"eth0", "eth1">>, <<"eth1">>}
SomeDedicated == {<<0>>}
SomeGrants == {<<>>, <<1>>, <<2, 3>>}
=============================================================================
