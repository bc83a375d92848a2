--------------------------- MODULE MCBalancerLog ----------------------------
(***************************************************************************)
(* Two Primaries of a core each for TLC.                                   *)
(***************************************************************************)
EXTENDS BalancerLog

OneEach == <<{0}, {1}>>
=============================================================================
