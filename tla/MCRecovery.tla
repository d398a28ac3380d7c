------------------------------ MODULE MCRecovery ------------------------------
(* Small instances of Recovery for TLC. *)
EXTENDS Recovery

CONSTANTS m1, m2

OneMonitor == {m1}
TwoMonitors == {m1, m2}
OneTake == 1..1
TwoTakes == 1..2

\* The takes of a behaviour meet on one monitor; a behaviour chooses which.
OnOneMonitor == \E m \in Monitors : \A t \in Takes : owner[t] \in {None, m}
=============================================================================
