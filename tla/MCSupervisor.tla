---------------------------- MODULE MCSupervisor ----------------------------
(* Small instances of Supervisor for TLC. *)
EXTENDS Supervisor

CONSTANTS m1, m2

OneMonitor == {m1}
TwoMonitors == {m1, m2}
NoMonitor == {}
TwoTakes == 1..2
=============================================================================
