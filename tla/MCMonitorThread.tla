--------------------------- MODULE MCMonitorThread ---------------------------
(***************************************************************************)
(* A small machine for TLC.                                                *)
(***************************************************************************)
EXTENDS MonitorThread

\* Lists that shrink, grow and change places.
SomeLists == {<<1>>, <<2, 1>>}
OneList == {<<1, 2>>}
=============================================================================
