------------------------------ MODULE TakeLedger ------------------------------
(***************************************************************************)
(* What the capture side of the program promises, with no word on tasks,   *)
(* maps or permits: a take is opened once, for one monitor, and settled    *)
(* once; a capture process runs for an open take only; and a monitor has   *)
(* at most one capture process.                                            *)
(***************************************************************************)
CONSTANTS Monitors, Takes, None, Verdicts

VARIABLES
  state,    \* take -> "none", "recording" or a verdict
  on,       \* take -> the monitor it was opened for
  running   \* takes whose capture process runs

lvars == <<state, on, running>>

LInit ==
  /\ state = [t \in Takes |-> "none"]
  /\ on = [t \in Takes |-> None]
  /\ running = {}

Open(t, m) ==
  /\ state[t] = "none"
  /\ state' = [state EXCEPT ![t] = "recording"]
  /\ on' = [on EXCEPT ![t] = m]
  /\ UNCHANGED running

Launch(t) ==
  /\ state[t] = "recording"
  /\ \A u \in running : on[u] # on[t]
  /\ running' = running \cup {t}
  /\ UNCHANGED <<state, on>>

End(t) ==
  /\ t \in running
  /\ running' = running \ {t}
  /\ UNCHANGED <<state, on>>

Close(t, verdict) ==
  /\ state[t] = "recording"
  /\ t \notin running
  /\ state' = [state EXCEPT ![t] = verdict]
  /\ UNCHANGED <<on, running>>

LNext == \E t \in Takes :
  \/ \E m \in Monitors : Open(t, m)
  \/ Launch(t) \/ End(t)
  \/ \E v \in Verdicts : Close(t, v)

LSpec == LInit /\ [][LNext]_lvars
=============================================================================
