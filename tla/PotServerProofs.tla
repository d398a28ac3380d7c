--------------------------- MODULE PotServerProofs ---------------------------
(***************************************************************************)
(* Types of PotServer, for any number of servers, clicks, mishaps and      *)
(* runs.  The pid that kill_managed goes by is the hard part: it is the    *)
(* child's or that of the server starting up, and while one starts up it   *)
(* cannot be an older child's.  Kept, further down, is about the servers   *)
(* of this run: which the watchdog holds, by where it is.                  *)
(***************************************************************************)
EXTENDS PotServer, TLAPS

MachineType ==
  /\ proc \in [Servers -> {"none", "booting", "up", "busy", "wedged"}]
  /\ of \in [Servers -> {"mine", "old", "others"}]
  /\ storm \in BOOLEAN

\* The listener is the one server that has got to the port.
OneListener ==
  /\ port \in {None} \cup {s \in Servers : proc[s] \in {"up", "busy", "wedged"}}
  /\ \A s \in Servers : proc[s] \in {"up", "busy", "wedged"} => port = s

RunType ==
  /\ settings \in [autostart : BOOLEAN, installed : BOOLEAN]
  /\ app \in {"runs", "stops", "stopped", "gone"}
  /\ desired \in {"auto", "on", "off"}
  /\ mode \in {"Disabled", "Down", "Starting", "Managed", "External", "Failed"}
  /\ at \in {"top", "ping", "kill", "suspect", "start", "boot", "asleep", "over"}
  /\ misses \in 0..3 /\ failures \in 0..1

Pids ==
  /\ saved \in Servers \cup {None}
  /\ {child, adopted, launched, victim} \subseteq Servers \cup {None}

\* While a server starts up, the pid is its own or has been taken.
OwnedPid ==
  /\ owned \in {None, child, launched}
  /\ (at = "boot") = (launched # None)
  /\ at = "boot" => owned \in {None, launched} /\ app # "gone"

CountsType == counts \in [mishaps : 0..MaxMishaps, clicks : 0..MaxClicks, runs : 1..MaxRuns]

PotInv == MachineType /\ OneListener /\ RunType /\ Pids /\ OwnedPid /\ CountsType

LEMMA InvGivesTypes == PotInv => PTypeOK
BY DEF PotInv, MachineType, OneListener, RunType, Pids, OwnedPid, CountsType, PTypeOK

LEMMA StartsWell == Init => PotInv
<1> SUFFICES ASSUME Init PROVE PotInv
  OBVIOUS
<1> USE PotAssumption DEF Init
<1>0. (CHOOSE s \in Servers : TRUE) \in Servers
  OBVIOUS
<1>1. MachineType
  BY DEF MachineType
<1>2. OneListener
  BY <1>0 DEF OneListener
<1>3. RunType
  BY DEF RunType
<1>4. Pids /\ OwnedPid
  BY DEF Pids, OwnedPid
<1>5. CountsType
  BY DEF CountsType
<1> QED
  BY <1>1, <1>2, <1>3, <1>4, <1>5 DEF PotInv

\* A server that dies gives the port up, if it had it.
LEMMA DeathIsClean ==
  ASSUME MachineType, OneListener, NEW s \in Servers \cup {None}, Die(s),
         UNCHANGED <<of, storm>>
  PROVE  MachineType' /\ OneListener'
BY PotAssumption DEF MachineType, OneListener, Die, Alive

LEMMA MishapCounts == ASSUME CountsType, Mishap PROVE CountsType'
BY PotAssumption DEF CountsType, Mishap

LEMMA ClickCounts == ASSUME CountsType, Click PROVE CountsType'
BY PotAssumption DEF CountsType, Click

\* What the servers do by themselves concerns the machine only.
LEMMA OutsideKeeps ==
  ASSUME RunType, Pids, OwnedPid, OutsideOnly
  PROVE  RunType' /\ Pids' /\ OwnedPid'
BY DEF RunType, Pids, OwnedPid, OutsideOnly, run, local

LEMMA MachineKeepsInv ==
  ASSUME PotInv, NEW s \in Servers,
         Machine(s) \/ OthersLaunch(s) \/ GetsBusy(s) \/ Wedges(s) \/ Crashes(s) \/ StormEnds
  PROVE  PotInv'
<1> USE DEF PotInv
<1>1. CASE Binds(s)
  <2>1. MachineType' /\ OneListener'
    BY <1>1, DeathIsClean, PotAssumption DEF Binds, MachineType, OneListener, Die, Alive
  <2>2. CountsType'
    BY <1>1 DEF Binds, CountsType
  <2> QED
    BY <1>1, <2>1, <2>2, OutsideKeeps DEF Binds
<1>2. ASSUME NEW state \in {"up", "busy", "wedged"}, Turns(s, state)
      PROVE  MachineType' /\ OneListener' /\ OutsideOnly
  BY <1>2, PotAssumption DEF Turns, MachineType, OneListener
<1>3. CASE Recovers(s)
  BY <1>2, <1>3, OutsideKeeps DEF Recovers, CountsType
<1>4. CASE GetsBusy(s) \/ Wedges(s)
  BY <1>2, <1>4, OutsideKeeps, MishapCounts DEF GetsBusy, Wedges
<1>5. CASE OthersLaunch(s)
  <2>1. Fresh(s) => proc[s] = "none"
    BY DEF Fresh, Unused
  <2>2. MachineType' /\ OneListener'
    BY <1>5, <2>1, PotAssumption DEF OthersLaunch, MachineType, OneListener
  <2> QED
    BY <1>5, <2>2, OutsideKeeps, MishapCounts DEF OthersLaunch
<1>6. CASE Crashes(s)
  BY <1>6, DeathIsClean, OutsideKeeps, MishapCounts DEF Crashes
<1>7. CASE StormEnds
  <2>1. MachineType' /\ OneListener' /\ CountsType'
    BY <1>7 DEF StormEnds, MachineType, OneListener, CountsType
  <2> QED
    BY <1>7, <2>1, OutsideKeeps DEF StormEnds
<1> QED
  BY <1>1, <1>3, <1>4, <1>5, <1>6, <1>7 DEF Machine

LEMMA OwnIsPid == ASSUME Pids PROVE Own \in Servers \cup {None}
BY DEF Pids, Own

LEMMA WatchKeepsInv ==
  ASSUME PotInv, Watch \/ LaunchFails
  PROVE  PotInv'
<1> USE DEF PotInv
<1>1. CASE Looks
  <2>1. MachineType' /\ OneListener' /\ CountsType'
    BY <1>1 DEF Looks, machine, MachineType, OneListener, CountsType
  <2>2. RunType'
    BY <1>1 DEF Looks, RunType
  <2>3. Pids'
    BY <1>1 DEF Looks, Pids
  <2>4. OwnedPid'
    BY <1>1, PotAssumption DEF Looks, OwnedPid, Alive
  <2> QED
    BY <2>1, <2>2, <2>3, <2>4
<1>2. CASE Pings
  <2>1. MachineType' /\ OneListener' /\ CountsType'
    BY <1>2 DEF Pings, machine, MachineType, OneListener, CountsType
  <2>2. misses' \in 0..3 /\ failures' \in 0..1
    BY <1>2 DEF Pings, RunType, Missed
  <2>3. mode' \in {"Disabled", "Down", "Starting", "Managed", "External", "Failed"}
    BY <1>2 DEF Pings, RunType
  <2>4. at' \in {"kill", "suspect", "start", "asleep"}
    BY <1>2 DEF Pings
  <2>5. RunType'
    BY <1>2, <2>2, <2>3, <2>4 DEF Pings, RunType
  <2>6. Pids'
    BY <1>2 DEF Pings, Pids, OneListener
  <2>7. OwnedPid'
    BY <1>2, <2>4 DEF Pings, OwnedPid
  <2> QED
    BY <2>1, <2>5, <2>6, <2>7
<1>3. CASE Kills
  <2>1. MachineType' /\ OneListener'
    BY <1>3, DeathIsClean, OwnIsPid DEF Kills
  <2>2. RunType' /\ CountsType'
    BY <1>3 DEF Kills, RunType, CountsType
  <2>3. Pids' /\ OwnedPid'
    BY <1>3 DEF Kills, Pids, OwnedPid
  <2> QED
    BY <2>1, <2>2, <2>3
<1>4. CASE Spares
  <2>1. MachineType' /\ OneListener' /\ CountsType'
    BY <1>4 DEF Spares, machine, MachineType, OneListener, CountsType
  <2>2. RunType'
    BY <1>4 DEF Spares, RunType
  <2>3. Pids' /\ OwnedPid'
    BY <1>4 DEF Spares, Pids, OwnedPid
  <2> QED
    BY <2>1, <2>2, <2>3
<1>5. CASE KillsListener
  <2>1. MachineType' /\ OneListener'
    <3>1. victim \in Servers \cup {None}
      BY DEF Pids
    <3> QED
      BY <1>5, <3>1, DeathIsClean DEF KillsListener
  <2>2. RunType' /\ CountsType'
    BY <1>5 DEF KillsListener, run, RunType, CountsType
  <2>3. Pids' /\ OwnedPid'
    BY <1>5 DEF KillsListener, run, Pids, OwnedPid
  <2> QED
    BY <2>1, <2>2, <2>3
<1>6. CASE NotInstalled
  <2>1. MachineType' /\ OneListener' /\ CountsType'
    BY <1>6 DEF NotInstalled, machine, MachineType, OneListener, CountsType
  <2>2. RunType'
    BY <1>6 DEF NotInstalled, local, RunType
  <2>3. Pids' /\ OwnedPid'
    BY <1>6 DEF NotInstalled, local, Pids, OwnedPid
  <2> QED
    BY <2>1, <2>2, <2>3
<1>7. CASE LaunchFails
  <2>1. MachineType' /\ OneListener'
    BY <1>7 DEF LaunchFails, machine, MachineType, OneListener
  <2>2. RunType'
    BY <1>7 DEF LaunchFails, RunType
  <2>3. Pids' /\ OwnedPid'
    BY <1>7 DEF LaunchFails, Pids, OwnedPid
  <2> QED
    BY <1>7, <2>1, <2>2, <2>3, MishapCounts DEF LaunchFails
<1>8. ASSUME NEW s \in Servers, Launches(s) PROVE PotInv'
  <2>1. proc[s] = "none"
    BY <1>8 DEF Launches, Fresh, Unused
  <2>2. MachineType' /\ OneListener'
    BY <1>8, <2>1, PotAssumption DEF Launches, MachineType, OneListener
  <2>3. RunType' /\ CountsType'
    BY <1>8 DEF Launches, RunType, CountsType
  <2>4. Pids' /\ OwnedPid'
    BY <1>8, PotAssumption DEF Launches, Watching, Pids, OwnedPid
  <2> QED
    BY <2>2, <2>3, <2>4
<1>9. CASE ComesUp
  <2>1. MachineType' /\ OneListener' /\ CountsType'
    BY <1>9 DEF ComesUp, BootEnds, MachineType, OneListener, CountsType
  <2>2. RunType'
    BY <1>9 DEF ComesUp, BootEnds, RunType
  <2>3. Pids' /\ OwnedPid'
    BY <1>9 DEF ComesUp, BootEnds, Pids, OwnedPid
  <2> QED
    BY <2>1, <2>2, <2>3
<1>10. CASE FindsAnother
  <2>1. MachineType' /\ OneListener' /\ CountsType'
    BY <1>10 DEF FindsAnother, BootEnds, MachineType, OneListener, CountsType
  <2>2. RunType'
    BY <1>10 DEF FindsAnother, BootEnds, RunType
  <2>3. Pids' /\ OwnedPid'
    BY <1>10 DEF FindsAnother, BootEnds, Pids, OwnedPid
  <2> QED
    BY <2>1, <2>2, <2>3
<1>11. CASE StartupFails
  <2>1. MachineType' /\ OneListener'
    <3>1. launched \in Servers \cup {None}
      BY DEF Pids
    <3> QED
      BY <1>11, <3>1, DeathIsClean DEF StartupFails, BootEnds
  <2>2. RunType'
    BY <1>11 DEF StartupFails, BootEnds, RunType
  <2>3. CountsType'
    BY <1>11, MishapCounts DEF StartupFails, CountsType
  <2>4. Pids' /\ OwnedPid'
    BY <1>11 DEF StartupFails, BootEnds, Pids, OwnedPid
  <2> QED
    BY <2>1, <2>2, <2>3, <2>4
<1>12. CASE Wakes
  <2>1. MachineType' /\ OneListener' /\ CountsType'
    BY <1>12 DEF Wakes, machine, MachineType, OneListener, CountsType
  <2>2. RunType'
    BY <1>12 DEF Wakes, run, local, RunType
  <2>3. Pids' /\ OwnedPid'
    BY <1>12 DEF Wakes, run, local, Pids, OwnedPid
  <2> QED
    BY <2>1, <2>2, <2>3
<1> QED
  BY <1>1, <1>2, <1>3, <1>4, <1>5, <1>6, <1>7, <1>8, <1>9, <1>10, <1>11, <1>12 DEF Watch

LEMMA RequestsKeepInv ==
  ASSUME PotInv,
         RequestStart \/ RequestStop \/ StopExternal \/ TakeControl \/ EnsureUp \/ ApplySettings
  PROVE  PotInv'
<1> USE DEF PotInv
<1>1. ASSUME NEW d \in {"auto", "on", "off"}, Asks(d)
      PROVE  RunType' /\ Pids' /\ OwnedPid' /\ CountsType'
  <2>1. RunType'
    BY <1>1 DEF Asks, local, RunType
  <2>2. Pids' /\ OwnedPid'
    BY <1>1 DEF Asks, local, Pids, OwnedPid
  <2> QED
    BY <1>1, <2>1, <2>2, ClickCounts DEF Asks
<1>2. UNCHANGED machine => MachineType' /\ OneListener'
  BY DEF machine, MachineType, OneListener
<1>3. KillExternal => MachineType' /\ OneListener'
  <2>1. port \in Servers \cup {None}
    BY DEF OneListener
  <2> QED
    BY <2>1, DeathIsClean DEF KillExternal
<1>4. CASE RequestStart \/ RequestStop \/ EnsureUp
  BY <1>1, <1>2, <1>4 DEF RequestStart, RequestStop, EnsureUp
<1>5. CASE StopExternal \/ TakeControl
  BY <1>1, <1>2, <1>3, <1>5 DEF StopExternal, TakeControl
<1>6. CASE ApplySettings
  <2>1. RunType'
    BY <1>6 DEF ApplySettings, run, local, RunType
  <2>2. Pids' /\ OwnedPid'
    BY <1>6 DEF ApplySettings, run, local, Pids, OwnedPid
  <2> QED
    BY <1>2, <1>6, <2>1, <2>2, ClickCounts DEF ApplySettings
<1> QED
  BY <1>4, <1>5, <1>6

LEMMA RunsKeepInv ==
  ASSUME PotInv, Exits \/ StopAll \/ KillManaged \/ Starts
  PROVE  PotInv'
<1> USE DEF PotInv
<1>1. CASE Exits
  <2>1. MachineType' /\ OneListener'
    BY <1>1 DEF Exits, Ends, MachineType, OneListener
  <2>2. RunType' /\ CountsType'
    BY <1>1 DEF Exits, Ends, RunType, CountsType
  <2>3. Pids' /\ OwnedPid'
    BY <1>1 DEF Exits, Ends, Pids, OwnedPid
  <2> QED
    BY <2>1, <2>2, <2>3
<1>2. CASE StopAll
  <2>1. MachineType' /\ OneListener' /\ CountsType'
    BY <1>2 DEF StopAll, machine, MachineType, OneListener, CountsType
  <2>2. RunType'
    BY <1>2 DEF StopAll, local, RunType
  <2>3. Pids' /\ OwnedPid'
    BY <1>2 DEF StopAll, local, Pids, OwnedPid
  <2> QED
    BY <2>1, <2>2, <2>3
<1>3. CASE KillManaged
  <2>1. owned \in Servers \cup {None}
    BY DEF OwnedPid, Pids
  <2>2. MachineType' /\ OneListener'
    BY <1>3, <2>1, DeathIsClean DEF KillManaged
  <2>3. RunType' /\ CountsType'
    BY <1>3 DEF KillManaged, local, RunType, CountsType
  <2>4. Pids' /\ OwnedPid'
    BY <1>3 DEF KillManaged, local, Pids, OwnedPid
  <2> QED
    BY <2>2, <2>3, <2>4
<1>4. CASE Starts
  <2>1. MachineType' /\ OneListener'
    BY <1>4 DEF Starts, MachineType, OneListener
  <2>2. CountsType'
    BY <1>4, PotAssumption DEF Starts, CountsType
  <2>3. RunType'
    BY <1>4 DEF Starts, RunType
  <2>4. Pids'
    BY <1>4 DEF Starts, Pids
  <2>5. OwnedPid'
    BY <1>4 DEF Starts, OwnedPid
  <2> QED
    BY <2>1, <2>2, <2>3, <2>4, <2>5
<1> QED
  BY <1>1, <1>2, <1>3, <1>4

LEMMA StutterKeepsInv == ASSUME PotInv, UNCHANGED vars PROVE PotInv'
<1>1. MachineType' /\ OneListener' /\ CountsType'
  BY DEF PotInv, vars, machine, MachineType, OneListener, CountsType
<1>2. RunType'
  BY DEF PotInv, vars, run, local, RunType
<1>3. Pids' /\ OwnedPid'
  BY DEF PotInv, vars, run, local, Pids, OwnedPid
<1> QED
  BY <1>1, <1>2, <1>3 DEF PotInv

LEMMA StepKeepsInv == PotInv /\ [Next]_vars => PotInv'
<1>1. ASSUME PotInv, UNCHANGED vars PROVE PotInv'
  BY <1>1, StutterKeepsInv
<1>2. ASSUME PotInv, Next PROVE PotInv'
  BY <1>2, MachineKeepsInv, WatchKeepsInv, RequestsKeepInv, RunsKeepInv, PotAssumption DEF Next
<1> QED
  BY <1>1, <1>2

LEMMA PotInvHolds == Spec => []PotInv
BY StartsWell, StepKeepsInv, PTL DEF Spec

\* The state of the watchdog, the pids it and the quit path go by and the
\* processes on the machine fit together: one listener, the server that starts
\* up is known to the watchdog, and OWNED_PID is that of a child of this run.
THEOREM PotTypesHold == Spec => []PTypeOK
BY PotInvHolds, InvGivesTypes, PTL

-----------------------------------------------------------------------------
(* The servers of this run, as long as none is given up: a launch that a   *)
(* silent server of the run's own brings about makes two.                  *)

\* The servers the watchdog may have running, by where it is.
Entitled ==
  IF at = "boot" THEN {launched} ELSE IF at \in {"suspect", "start"} THEN {} ELSE {Own}

Kept ==
  /\ Mine \subseteq Entitled
  /\ app = "gone" => Mine = {} /\ child = None /\ at = "over"
  /\ app \in {"runs", "stops"} => Mine \subseteq {saved}

\* What happens on the machine makes nothing the program's own.
LEMMA MachineMine ==
  ASSUME PotInv, NEW s \in Servers,
         Machine(s) \/ OthersLaunch(s) \/ GetsBusy(s) \/ Wedges(s) \/ Crashes(s) \/ StormEnds
  PROVE  Mine' \subseteq Mine /\ OutsideOnly
<1> USE PotAssumption DEF PotInv, MachineType, Mine, Alive
<1>1. CASE Binds(s) \/ Crashes(s)
  BY <1>1 DEF Binds, Crashes, Die, Alive
<1>2. CASE Recovers(s) \/ GetsBusy(s) \/ Wedges(s) \/ StormEnds
  BY <1>2 DEF Recovers, GetsBusy, Wedges, StormEnds, Turns, OneListener
<1>3. CASE OthersLaunch(s)
  BY <1>3 DEF OthersLaunch
<1> QED
  BY <1>1, <1>2, <1>3 DEF Machine

\* A kill leaves less of them, and not the one it names.
LEMMA KillMine ==
  ASSUME PotInv, NEW s \in Servers \cup {None}, Die(s), UNCHANGED of
  PROVE  Mine' \subseteq Mine \ {s}
BY PotAssumption DEF PotInv, MachineType, Mine, Alive, Die

LEMMA SameMine == ASSUME UNCHANGED <<proc, of>> PROVE Mine' = Mine
BY DEF Mine, Alive

LEMMA WatchMine ==
  ASSUME PotInv, Kept, Watch \/ LaunchFails, ~ GivenUp'
  PROVE  Kept'
<1> USE DEF Kept, Watching
<1>0. Mine \subseteq Servers /\ Own \in Servers \cup {None} /\ None \notin Servers
  BY OwnIsPid, PotAssumption DEF PotInv, Mine
<1>1. CASE Looks
  <2>1. Mine' = Mine
    BY <1>1, SameMine DEF Looks, machine
  <2>2. \A s \in Mine : Alive(s) /\ s \in Servers
    BY DEF Mine
  <2>3. Mine \subseteq {Own}'
    BY <1>0, <1>1, <2>2 DEF Looks, Own, Entitled, Alive
  <2> QED
    BY <1>1, <2>1, <2>3 DEF Looks, Entitled
<1>2. CASE Pings
  <2>1. Mine' = Mine /\ Own' = Own /\ (Alive(Own))' = Alive(Own)
    BY <1>2, SameMine DEF Pings, machine, Own, Alive
  <2>2. Mine \subseteq {Own}
    BY <1>2 DEF Pings, Entitled
  <2>3. at' \in {"kill", "asleep", "suspect", "start"} /\ UNCHANGED <<app, saved, child>>
    BY <1>2 DEF Pings
  <2>4. at' \in {"suspect", "start"} => Mine = {}
    <3>1. SUFFICES ASSUME at' \in {"suspect", "start"} PROVE Mine = {}
      OBVIOUS
    <3>2. Action = "spawn"
      BY <1>2, <3>1 DEF Pings
    <3>3. ~ Answers /\ (Own = None \/ ~ (Missed < 3))
      BY <3>2 DEF Action, Present
    <3>4. misses' = Missed /\ Missed \in 0..3
      BY <1>2, <3>3 DEF Pings, Missed, PotInv, RunType
    <3>5. Own = None \/ ~ Alive(Own)
      BY <2>1, <3>3, <3>4 DEF GivenUp
    <3> QED
      BY <1>0, <2>2, <3>5 DEF Mine
  <2>5. Mine' \subseteq Entitled'
    BY <2>1, <2>2, <2>3, <2>4 DEF Entitled
  <2>6. app # "gone"
    BY <1>2 DEF Pings
  <2> QED
    BY <2>1, <2>3, <2>5, <2>6
<1>3. CASE Kills
  <2>1. Mine' = {}
    BY <1>0, <1>3, KillMine DEF Kills, Entitled
  <2> QED
    BY <1>3, <2>1 DEF Kills, Entitled
<1>4. CASE Spares \/ NotInstalled \/ LaunchFails
  <2>1. Mine' = {}
    BY <1>4, SameMine DEF Spares, NotInstalled, LaunchFails, machine, Entitled
  <2> QED
    BY <1>4, <2>1 DEF Spares, NotInstalled, LaunchFails
<1>5. CASE KillsListener
  <2>1. victim \in Servers \cup {None}
    BY DEF PotInv, Pids
  <2>2. Mine' = {}
    BY <1>5, <2>1, KillMine DEF KillsListener, Entitled
  <2> QED
    BY <1>5, <2>2 DEF KillsListener, run
<1>6. ASSUME NEW s \in Servers, Launches(s) PROVE Kept'
  <2>1. Mine' \subseteq {s}
    BY <1>6 DEF Launches, Entitled, Mine, Alive, PotInv, MachineType
  <2> QED
    BY <1>6, <2>1 DEF Launches, Entitled
<1>7. CASE ComesUp
  <2>1. Mine' = Mine /\ Own' = launched
    BY <1>7, SameMine DEF ComesUp, BootEnds, Own, Alive
  <2> QED
    BY <1>7, <2>1 DEF ComesUp, BootEnds, Entitled
<1>8. CASE FindsAnother
  <2>1. Mine' = {}
    BY <1>8, SameMine DEF FindsAnother, BootEnds, Entitled, Mine
  <2> QED
    BY <1>8, <2>1 DEF FindsAnother, BootEnds
<1>9. CASE StartupFails
  <2>1. launched \in Servers \cup {None}
    BY DEF PotInv, Pids
  <2>2. Mine' = {}
    BY <1>9, <2>1, KillMine DEF StartupFails, BootEnds, Entitled
  <2> QED
    BY <1>9, <2>2 DEF StartupFails, BootEnds
<1>10. CASE Wakes
  <2>1. Mine' = Mine /\ Own' = Own
    BY <1>10, SameMine DEF Wakes, machine, local, Own
  <2> QED
    BY <1>10, <2>1 DEF Wakes, run, Entitled
<1> QED
  BY <1>1, <1>2, <1>3, <1>4, <1>5, <1>6, <1>7, <1>8, <1>9, <1>10 DEF Watch

\* Steps that leave the watchdog and the run where they are.
LEMMA QuietMine ==
  ASSUME Kept, Mine' \subseteq Mine, UNCHANGED <<app, saved, at, child, adopted, launched>>
  PROVE  Kept'
BY DEF Kept, Entitled, Own

LEMMA RequestsMine ==
  ASSUME PotInv, Kept,
         RequestStart \/ RequestStop \/ StopExternal \/ TakeControl \/ EnsureUp \/ ApplySettings
  PROVE  Kept'
<1>1. UNCHANGED <<app, saved, at, child, adopted, launched>>
  BY DEF RequestStart, RequestStop, StopExternal, TakeControl, EnsureUp, ApplySettings, Asks, local, run
<1>2. UNCHANGED machine \/ KillExternal
  BY DEF RequestStart, RequestStop, StopExternal, TakeControl, EnsureUp, ApplySettings
<1>3. port \in Servers \cup {None}
  BY DEF PotInv, OneListener
<1>4. Mine' \subseteq Mine
  BY <1>2, <1>3, KillMine, SameMine DEF machine, KillExternal
<1> QED
  BY <1>1, <1>4, QuietMine

LEMMA RunsMine ==
  ASSUME PotInv, Kept, Exits \/ StopAll \/ KillManaged \/ Starts
  PROVE  Kept'
<1>1. CASE Exits
  <2>1. Mine' = {}
    BY <1>1 DEF Exits, Ends, Mine, PotInv, MachineType
  <2> QED
    BY <1>1, <2>1 DEF Exits, Ends, Kept
<1>2. CASE StopAll
  <2>1. Mine' = Mine
    BY <1>2, SameMine DEF StopAll, machine
  <2> QED
    BY <1>2, <2>1 DEF StopAll, local, Kept, Entitled, Own
<1>3. CASE KillManaged
  <2>1. owned \in Servers \cup {None}
    BY DEF PotInv, OwnedPid, Pids
  <2>2. Mine' \subseteq Mine
    BY <1>3, <2>1, KillMine DEF KillManaged
  <2> QED
    BY <1>3, <2>2 DEF KillManaged, local, Kept, Entitled, Own
<1>4. CASE Starts
  <2>1. Mine' \subseteq {adopted'} /\ (adopted' \in {saved, None}) /\ None \notin Servers
    BY <1>4, PotAssumption DEF Starts, Kept, Mine, Alive, PotInv, MachineType
  <2>2. Mine' \subseteq {saved} /\ Mine' \subseteq Servers
    BY <2>1, PotAssumption DEF Mine
  <2> QED
    BY <1>4, <2>1, <2>2 DEF Starts, Kept, Entitled, Own
<1> QED
  BY <1>1, <1>2, <1>3, <1>4

LEMMA StepMine == PotInv /\ Kept /\ ~ GivenUp' /\ [Next]_vars => Kept'
<1> SUFFICES ASSUME PotInv, Kept, ~ GivenUp', [Next]_vars PROVE Kept'
  OBVIOUS
<1>1. ASSUME NEW s \in Servers,
             Machine(s) \/ OthersLaunch(s) \/ GetsBusy(s) \/ Wedges(s) \/ Crashes(s) \/ StormEnds
      PROVE  Kept'
  BY <1>1, MachineMine, QuietMine DEF OutsideOnly, run, local
<1>2. CASE UNCHANGED vars
  BY <1>2, SameMine, QuietMine DEF vars, machine, run, local
<1> QED
  BY <1>1, <1>2, WatchMine, RequestsMine, RunsMine, PotAssumption DEF Next

LEMMA KeptHolds == Spec /\ []~ GivenUp => []Kept
<1>1. Init => Kept
  BY DEF Init, Kept, Mine, Entitled
<1> QED
  BY <1>1, StepMine, PotInvHolds, PTL DEF Spec

\* The program has one server of its own at a time, the watchdog holds it by its
\* pid, and while the program runs its pid is the one that is saved.
OneOwnServer ==
  /\ \A s, u \in Mine : s = u
  /\ Mine \subseteq {child, adopted, launched}
  /\ app = "runs" => Mine \subseteq {saved}

\* Whatever clicks, crashes, slow answers and strangers on the port do, no
\* launch doubles a server and none gets out of sight, of a restart either
\* (pot_server_pid is what init adopts), unless a live one was given up.
THEOREM NoServerIsLost == Spec /\ []~ GivenUp => []OneOwnServer
<1>1. PotInv /\ Kept => OneOwnServer
  BY PotAssumption DEF PotInv, Kept, Entitled, Own, OneOwnServer, Mine
<1> QED
  BY <1>1, KeptHolds, PotInvHolds, PTL

\* One kill is enough: when the watchdog gets to it, whatever it was about when
\* the user clicked Stop, no server of this run is left.  The safety half of
\* StopEndsIt.
THEOREM KillEndsAll == Spec /\ []~ GivenUp => [][Kills => Mine' = {}]_vars
<1>1. PotInv /\ Kept /\ Kills => Mine' = {}
  BY OwnIsPid, KillMine DEF Kills, Kept, Entitled, PotInv
<1> QED
  BY <1>1, KeptHolds, PotInvHolds, PTL
=============================================================================
