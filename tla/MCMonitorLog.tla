---------------------------- MODULE MCMonitorLog -----------------------------
(***************************************************************************)
(* A log of a few entries and three cores for TLC.                           *)
(***************************************************************************)
EXTENDS MonitorLog

\* Core 2 was listed once; its bit stays in the mask.
ThreeBits == {0, 1, 2}
FirstTwo == <<0, 1>>
=============================================================================
