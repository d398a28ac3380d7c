------------------------------ MODULE PotServer ------------------------------
(***************************************************************************)
(* The PO token server (src/src/pot_server.rs): a server on a fixed port   *)
(* that captures need, launched and restarted by a watchdog, stopped by    *)
(* the user, left running when the program quits and adopted by its next   *)
(* run.  A server somebody else has started on the port is used as it is.  *)
(*                                                                         *)
(* The watchdog does one thing at a time; pings take seconds and the       *)
(* startup of a server more, and meanwhile users click, captures ask for   *)
(* the server, servers come, hang and crash, and the program may end.      *)
(* A nudge only cuts a sleep short, and sleeps have no length here.        *)
(***************************************************************************)
EXTENDS Integers, FiniteSets

CONSTANTS
  Servers,     \* processes that may run on the machine at one time
  None,
  MaxMishaps,  \* bound on what goes wrong or comes from outside
  MaxClicks,   \* bound on what the user and captures ask for
  MaxRuns      \* bound on the runs of the program

ASSUME PotAssumption ==
  /\ None \notin Servers /\ Servers # {} /\ IsFiniteSet(Servers)
  /\ {MaxMishaps, MaxClicks} \subseteq Nat /\ MaxRuns \in Nat \ {0}

VARIABLES
  \* the machine
  proc,      \* "none", "booting" (not on the port yet), "up", "busy" (answers
             \* slowly), "wedged" (never answers)
  of,        \* who has launched it: "mine" (this run, or adopted by it), "old"
             \* (an earlier run) or "others"
  port,      \* the listener
  storm,     \* a storm of token rejections: every server is slow
  \* what outlives a run
  settings,  \* autostart; installed (main.js is there)
  saved,     \* pot_server_pid
  \* the run
  app,       \* "runs", "stops" (shutdown is set), "stopped" (after kill_managed),
             \* "gone"
  desired,   \* DESIRED: "auto", "on", "off"
  mode,      \* STATUS
  owned,     \* OWNED_PID
  \* the watchdog
  at,        \* "top", "ping", "kill", "suspect", "start", "boot", "asleep", "over"
  want,      \* desired, as it was at the top of the loop
  child,
  adopted,
  launched,  \* the server that is starting up
  victim,    \* the silent listener
  misses,    \* ping_failures, up to 3
  failures,  \* consecutive_failures, up to 1
  counts

machine == <<proc, of, port, storm>>
run == <<app, desired, mode, owned>>
local == <<want, child, adopted, launched, victim, misses, failures>>
vars == <<machine, settings, saved, run, at, local, counts>>

Alive(s) == s # None /\ proc[s] # "none"

Init ==
  \* A server of others may be there before the program.
  /\ port \in {None, CHOOSE s \in Servers : TRUE}
  /\ proc = [s \in Servers |-> IF s = port THEN "up" ELSE "none"]
  /\ of = [s \in Servers |-> "others"]
  /\ storm \in BOOLEAN
  /\ settings \in [autostart : BOOLEAN, installed : BOOLEAN]
  /\ saved = None
  /\ app = "runs" /\ desired = "auto" /\ mode = "Disabled" /\ owned = None
  /\ at = "top" /\ want = "auto" /\ child = None /\ adopted = None
  /\ launched = None /\ victim = None /\ misses = 0 /\ failures = 0
  /\ counts = [mishaps |-> 0, clicks |-> 0, runs |-> 1]

Mishap == counts.mishaps < MaxMishaps /\ counts' = [counts EXCEPT !.mishaps = @ + 1]
Click == counts.clicks < MaxClicks /\ counts' = [counts EXCEPT !.clicks = @ + 1]

-----------------------------------------------------------------------------
(* The machine.                                                            *)

\* Processes the program still refers to by their pid.
Referenced == {saved, owned, child, adopted, launched, victim}
Unused == {s \in Servers : proc[s] = "none"} \ Referenced
Fresh(s) == Unused # {} /\ s = CHOOSE u \in Unused : TRUE

Die(s) ==
  /\ proc' = IF Alive(s) THEN [proc EXCEPT ![s] = "none"] ELSE proc
  /\ port' = IF port = s THEN None ELSE port

OutsideOnly == UNCHANGED <<settings, saved, run, at, local>>

OthersLaunch(s) ==
  /\ Fresh(s)
  /\ Mishap
  /\ proc' = [proc EXCEPT ![s] = "booting"] /\ of' = [of EXCEPT ![s] = "others"]
  /\ UNCHANGED <<port, storm>> /\ OutsideOnly

\* A server that finds the port taken exits.
Binds(s) ==
  /\ proc[s] = "booting"
  /\ IF port = None
     THEN port' = s /\ proc' = [proc EXCEPT ![s] = "up"]
     ELSE Die(s)
  /\ UNCHANGED <<of, storm, counts>> /\ OutsideOnly

Turns(s, state) ==
  /\ port = s /\ proc[s] # state
  /\ proc' = [proc EXCEPT ![s] = state]
  /\ UNCHANGED <<of, port, storm>> /\ OutsideOnly

GetsBusy(s) == proc[s] = "up" /\ Turns(s, "busy") /\ Mishap
Wedges(s) == Turns(s, "wedged") /\ Mishap
Recovers(s) == proc[s] = "busy" /\ Turns(s, "up") /\ UNCHANGED counts
Crashes(s) == Alive(s) /\ Die(s) /\ Mishap /\ UNCHANGED <<of, storm>> /\ OutsideOnly

StormEnds == storm /\ storm' = FALSE /\ UNCHANGED <<proc, of, port, counts>> /\ OutsideOnly

\* ping: within its time limit.
Answers == port # None /\ proc[port] = "up"

-----------------------------------------------------------------------------
(* The watchdog.                                                           *)

Watching == app # "gone"

\* The top of the loop: the shutdown flag, the request, a child that has gone.
Looks ==
  /\ Watching /\ at = "top"
  /\ IF app # "runs"
     THEN at' = "over" /\ UNCHANGED <<want, child, adopted, owned>>
     ELSE /\ at' = "ping" /\ want' = desired
          /\ LET exited == IF child # None THEN ~Alive(child) ELSE adopted # None /\ ~Alive(adopted)
             IN  /\ owned' = IF exited THEN None ELSE owned
                 /\ child' = IF Alive(child) THEN child ELSE None
                 /\ adopted' = IF child = None /\ ~Alive(adopted) THEN None ELSE adopted
  /\ UNCHANGED <<machine, settings, saved, app, desired, mode, launched, victim, misses, failures, counts>>

\* owned_pid_now.
Own == IF child # None THEN child ELSE adopted

Wanted(d) == d = "on" \/ (d = "auto" /\ settings.autostart)

Missed == IF misses < 3 THEN misses + 1 ELSE 3

\* A server is there: the own one, or a listener that did not answer.
Present == Own # None \/ (port # None /\ ~Answers)

\* watch_action.
Action ==
  IF ~Wanted(want) THEN IF Present THEN "kill" ELSE "idle"
  ELSE IF Answers THEN "healthy"
  ELSE IF Present /\ Missed < 3 THEN "grace" ELSE "spawn"

Pings ==
  /\ Watching /\ at = "ping"
  /\ misses' = IF Answers THEN 0 ELSE Missed
  /\ failures' = IF Action = "healthy" THEN 0 ELSE failures
  /\ mode' = CASE Action = "healthy" -> (IF Own # None THEN "Managed" ELSE "External")
               [] Action = "idle" -> (IF want = "off" THEN "Down" ELSE "Disabled")
               [] OTHER -> mode
  /\ at' = CASE Action = "kill" -> "kill"
             [] Action = "spawn" -> (IF failures > 0 /\ port \notin {None, Own} THEN "suspect" ELSE "start")
             [] OTHER -> "asleep"
  /\ victim' = IF at' = "suspect" THEN port ELSE None
  /\ UNCHANGED <<machine, settings, saved, app, desired, owned, want, child, adopted, launched, counts>>

\* (Mutant: only a child is killed, not a server that was adopted.)
KillsChild ==
  /\ Watching /\ at = "kill"
  /\ Die(child)
  /\ child' = None /\ adopted' = None /\ owned' = None /\ saved' = None
  /\ mode' = "Down"
  /\ at' = "top"
  /\ UNCHANGED <<of, storm, settings, app, desired, want, launched, victim, misses, failures, counts>>

\* What is not the program's own is left alone; the saved pid goes all the same.
Kills ==
  /\ Watching /\ at = "kill"
  /\ Die(Own)
  /\ child' = None /\ adopted' = None /\ owned' = None /\ saved' = None
  /\ mode' = "Down"
  /\ at' = "top"
  /\ UNCHANGED <<of, storm, settings, app, desired, want, launched, victim, misses, failures, counts>>

\* The last chance of the listener: a long ping and, in a storm, the log, which
\* a server that is at work writes to (as a launch does that has just failed).
AnswersSlowly == Answers \/ (port # None /\ proc[port] = "busy")

Spares ==
  /\ Watching /\ at = "suspect"
  /\ \/ AnswersSlowly /\ mode' = "External" /\ misses' = 0 /\ failures' = 0
     \/ ~Answers /\ storm /\ mode' = "Failed" /\ UNCHANGED <<misses, failures>>
  /\ at' = "asleep" /\ victim' = None
  /\ UNCHANGED <<machine, settings, saved, app, desired, owned, want, child, adopted, launched, counts>>

KillsListener ==
  /\ Watching /\ at = "suspect"
  /\ ~AnswersSlowly
  /\ Die(victim)
  /\ at' = "start" /\ victim' = None
  /\ UNCHANGED <<of, storm, settings, saved, run, want, child, adopted, launched, misses, failures, counts>>

NotInstalled ==
  /\ Watching /\ at = "start" /\ ~settings.installed
  /\ mode' = "Failed" /\ at' = "asleep"
  /\ UNCHANGED <<machine, settings, saved, app, desired, owned, local, counts>>

LaunchFails ==
  /\ Watching /\ at = "start" /\ settings.installed
  /\ Mishap
  /\ mode' = "Failed" /\ failures' = 1 /\ at' = "asleep"
  /\ UNCHANGED <<machine, settings, saved, app, desired, owned, want, child, adopted, launched, victim, misses>>

\* spawn_server; the pid is saved for the next run.
Launches(s) ==
  /\ Watching /\ at = "start" /\ settings.installed
  /\ Fresh(s)
  /\ proc' = [proc EXCEPT ![s] = "booting"] /\ of' = [of EXCEPT ![s] = "mine"]
  /\ launched' = s /\ owned' = s /\ saved' = s
  /\ mode' = "Starting" /\ at' = "boot"
  /\ UNCHANGED <<port, storm, settings, app, desired, want, child, adopted, victim, misses, failures, counts>>

\* (Mutant: the handle of the start-up is kept.)
BootEndsHalf ==
  /\ Watching /\ at = "boot"
  /\ launched' = launched /\ at' = "asleep"
  /\ UNCHANGED <<of, storm, settings, app, desired, want, adopted, victim>>

BootEnds ==
  /\ Watching /\ at = "boot"
  /\ launched' = None /\ at' = "asleep"
  /\ UNCHANGED <<of, storm, settings, app, desired, want, adopted, victim>>

\* A server answers and the one that was launched is alive; it need not be the
\* one that answers.
ComesUp ==
  /\ BootEnds
  /\ Answers /\ Alive(launched)
  /\ child' = launched /\ mode' = "Managed" /\ misses' = 0 /\ failures' = 0
  /\ UNCHANGED <<proc, port, owned, saved, counts>>

\* It is gone, and another one answers.
FindsAnother ==
  /\ BootEnds
  /\ ~Alive(launched) /\ Answers
  /\ owned' = None /\ saved' = None
  /\ mode' = "External" /\ misses' = 0 /\ failures' = 0
  /\ UNCHANGED <<proc, port, child, counts>>

\* (Mutant: the failure is not counted.)
StartupFailsUncounted ==
  /\ BootEnds
  /\ ~Answers
  /\ IF Alive(launched) /\ proc[launched] = "booting" THEN Mishap ELSE UNCHANGED counts
  /\ Die(launched)
  /\ owned' = None /\ saved' = None
  /\ mode' = "Failed"
  /\ UNCHANGED <<child, misses, failures>>

\* It is gone, or does not answer in STARTUP_WAIT, which is long enough for a
\* server to get to the port unless something is wrong.
StartupFails ==
  /\ BootEnds
  /\ ~Answers
  /\ IF Alive(launched) /\ proc[launched] = "booting" THEN Mishap ELSE UNCHANGED counts
  /\ Die(launched)
  /\ owned' = None /\ saved' = None
  /\ mode' = "Failed" /\ failures' = 1
  /\ UNCHANGED <<child, misses>>

Wakes ==
  /\ Watching /\ at = "asleep"
  /\ at' = "top"
  /\ UNCHANGED <<machine, settings, saved, run, local, counts>>

Watch ==
  \/ Looks \/ Pings \/ Kills \/ Spares \/ KillsListener \/ NotInstalled
  \/ (\E s \in Servers : Launches(s)) \/ ComesUp \/ FindsAnother \/ StartupFails \/ Wakes

-----------------------------------------------------------------------------
(* Requests.                                                               *)

Asks(d) ==
  /\ app = "runs"
  /\ Click
  /\ desired' = d
  /\ UNCHANGED <<settings, saved, app, mode, owned, at, local>>

RequestStart == mode \in {"Down", "Disabled", "Failed"} /\ Asks("on") /\ UNCHANGED machine
RequestStop == mode \in {"Managed", "Starting"} /\ Asks("off") /\ UNCHANGED machine

\* kill_external_listener, unless the listener is the managed server.
KillExternal == port \notin {None, owned} /\ Die(port) /\ UNCHANGED <<of, storm>>

\* The request holds even if there is nothing to kill.
StopExternal ==
  /\ mode = "External"
  /\ Asks("off")
  /\ KillExternal \/ (port \in {None, owned} /\ UNCHANGED machine)

TakeControl == mode = "External" /\ KillExternal /\ Asks("on")

\* ensure_up: a capture has died for want of a token.
EnsureUp ==
  /\ ~Answers /\ desired = "auto" /\ ~settings.autostart
  /\ Asks("on") /\ UNCHANGED machine

ApplySettings ==
  /\ app = "runs"
  /\ Click
  /\ settings' \in [autostart : BOOLEAN, installed : BOOLEAN] \ {settings}
  /\ UNCHANGED <<machine, saved, run, at, local>>

-----------------------------------------------------------------------------
(* The runs of the program.                                                *)

\* A crash, a quit that detaches, or the end of one that stops everything: the
\* watchdog is dropped wherever it is.
Ends ==
  /\ app \in {"runs", "stopped"}
  /\ app' = "gone" /\ at' = "over"
  /\ desired' = "auto" /\ mode' = "Disabled" /\ owned' = None
  /\ want' = "auto" /\ child' = None /\ adopted' = None /\ launched' = None /\ victim' = None
  /\ misses' = 0 /\ failures' = 0
  /\ of' = [s \in Servers |-> IF of[s] = "mine" THEN "old" ELSE of[s]]
  /\ UNCHANGED <<proc, port, storm, settings, saved, counts>>

\* stop_all_recordings: the flag, the drain, then kill_managed.
StopAll ==
  /\ app = "runs" /\ counts.runs < MaxRuns
  /\ app' = "stops"
  /\ UNCHANGED <<machine, settings, saved, desired, mode, owned, at, local, counts>>

KillManaged ==
  /\ app = "stops"
  /\ app' = "stopped"
  /\ Die(owned)
  /\ owned' = None /\ saved' = None
  /\ UNCHANGED <<of, storm, settings, desired, mode, at, local, counts>>

Exits == (app = "runs" => counts.runs < MaxRuns) /\ Ends

\* init: the saved server, if it is still the same process.
Starts ==
  /\ app = "gone" /\ counts.runs < MaxRuns
  /\ counts' = [counts EXCEPT !.runs = @ + 1]
  /\ app' = "runs" /\ at' = "top"
  /\ adopted' = IF Alive(saved) THEN saved ELSE None
  /\ of' = [s \in Servers |-> IF s = adopted' THEN "mine" ELSE of[s]]
  /\ UNCHANGED <<proc, port, storm, settings, saved, desired, mode, owned, want, child, launched, victim, misses, failures>>

Machine(s) == Binds(s) \/ Recovers(s)

Next ==
  \/ Watch \/ LaunchFails
  \/ \E s \in Servers :
       Machine(s) \/ OthersLaunch(s) \/ GetsBusy(s) \/ Wedges(s) \/ Crashes(s)
  \/ StormEnds
  \/ RequestStart \/ RequestStop \/ StopExternal \/ TakeControl \/ EnsureUp \/ ApplySettings
  \/ Exits \/ StopAll \/ KillManaged \/ Starts

Spec == Init /\ [][Next]_vars

Fairness ==
  /\ WF_vars(Watch) /\ WF_vars(StormEnds)
  /\ \A s \in Servers : WF_vars(Machine(s))

LiveSpec == Spec /\ Fairness

-----------------------------------------------------------------------------
PTypeOK ==
  /\ proc \in [Servers -> {"none", "booting", "up", "busy", "wedged"}]
  /\ of \in [Servers -> {"mine", "old", "others"}]
  /\ port \in {None} \cup {s \in Servers : proc[s] \in {"up", "busy", "wedged"}}
  /\ \A s \in Servers : proc[s] \in {"up", "busy", "wedged"} => port = s
  /\ storm \in BOOLEAN
  /\ settings \in [autostart : BOOLEAN, installed : BOOLEAN]
  /\ saved \in Servers \cup {None}
  /\ app \in {"runs", "stops", "stopped", "gone"}
  /\ desired \in {"auto", "on", "off"}
  /\ mode \in {"Disabled", "Down", "Starting", "Managed", "External", "Failed"}
  /\ at \in {"top", "ping", "kill", "suspect", "start", "boot", "asleep", "over"}
  /\ {child, adopted, launched, victim} \subseteq Servers \cup {None}
  /\ owned \in {None, child, launched}
  /\ (at = "boot") = (launched # None)
  /\ misses \in 0..3 /\ failures \in 0..1
  /\ counts \in [mishaps : 0..MaxMishaps, clicks : 0..MaxClicks, runs : 1..MaxRuns]

Mine == {s \in Servers : Alive(s) /\ of[s] = "mine"}

\* The own server is alive and has missed so many pings that another is
\* launched beside it.
GivenUp == Alive(Own) /\ misses = 3

\* "An explicit Stop is always respected": whatever the watchdog was about when
\* the user clicked, the servers of this run end; unless one was given up.
StopEndsIt ==
  []~GivenUp => ((app = "runs" /\ desired = "off") ~> (app # "runs" \/ desired # "off" \/ Mine = {}))

Needed == app = "runs" /\ Wanted(desired) /\ settings.installed
Hangs == Own # None /\ proc[Own] = "wedged"

\* A server that is wanted comes up and stays, whoever was on the port and
\* whatever failed before, and the launches end; unless the own one hangs.
ServerStaysUp == <>[]Needed /\ ~<>[]Hangs => <>[](Answers /\ at \notin {"start", "boot"})
=============================================================================
