------------------------------ MODULE Simulcast ------------------------------
(***************************************************************************)
(* Simulcast dedup (src/src/simulcast.rs, try_begin of                     *)
(* src/src/downloader/supervisor.rs): a channel is live on several         *)
(* platforms at once, one instance of it each, and only the preferred one  *)
(* is to be recorded.  Every instance decides for itself, at its own poll  *)
(* or push, from what the others show at that moment; those that stand by  *)
(* must notice when the preferred one does not get a capture going.        *)
(*                                                                         *)
(* Time goes in poll intervals: in each one the scheduler polls every      *)
(* instance that is not recorded, in any order.  Ages stop at Settle, from *)
(* where on the code does not tell them apart.  Starts by the user and by  *)
(* trigger words, which go round the dedup, are left out.  SABR retries    *)
(* are bounded by the mishaps, not by a budget of their own.               *)
(***************************************************************************)
EXTENDS Integers, FiniteSets

CONSTANTS
  Instances,    \* the instances of a channel, one per platform
  None,
  Dated,        \* those whose platform reports when it went live
  Sabr,         \* those captured from the start with SABR
  Givens,       \* the circumstances to check, see given
  Settle,       \* simulcast_settle_secs
  StopWait,     \* the 120 s of manual_stop
  FailStep,     \* the backoff of a capture without footage: a step for each
  MaxWait,      \*   failure in a row, up to 600 s
  SlowFinalize, \* a finalize outlasts the next poll
  MaxMishaps    \* bound on broadcasts that end, captures that drop or are
                \* retried, failed polls and pushes

ASSUME SimulcastAssumption ==
  /\ None \notin Instances
  /\ Dated \subseteq Instances /\ Sabr \subseteq Instances
  /\ Givens \subseteq
       [policy : [Instances -> [pref : Instances \cup {None}, adFreePref : Instances \cup {None}]],
        adFree : SUBSET Instances,
        stance : [Instances -> {"auto", "off", "blocked", "dormant"}],
        broken : SUBSET Instances]
  /\ {Settle, StopWait, FailStep, MaxWait} \subseteq Nat \ {0}
  /\ SlowFinalize \in BOOLEAN
  /\ MaxMishaps \in Nat

VARIABLES
  given,     \* what does not change: policy, the SimulcastPolicy of each instance;
             \* adFree, the instances without ad breaks; stance: "auto", "off"
             \* (Auto is off), "blocked" (a blacklist rule matches), "dormant"
             \* (not polled); broken, the instances whose captures get no footage
  \* the broadcast
  air,       \* None or for how long it has been on, if that is reported
  \* monitor and recording rows
  shown,     \* last_state is "live"
  since,     \* the age of last_live_since, while it is shown live
  row,       \* the newest open row: "none", "session" (not recorded), "take"
  age,       \* of that row
  ended,     \* for how long the tool of the last take has been gone
  \* the supervisor
  slot,      \* "free"; in active: "deciding", "starting" (no row yet), "setup",
             \* "launching" (the tombstone was tested, no tool yet, or none
             \* between two SABR attempts), "running", "killed"
  finalizing,
  stopping,  \* stopping_monitors
  wait,      \* backoff: what is left of it, and the failures in a row
  fails,
  signal,    \* live signals that the run loop has not received yet
  loop,      \* the instance the run loop is in try_begin for
  polled,
  mishaps,
  \* history
  missed     \* whose stop found no tool to kill and comes after their test

rowVars == <<shown, since, row, age, ended>>
backoff == <<wait, fails>>
feed == <<signal, loop>>
clock == <<polled, mishaps>>
vars == <<given, air, rowVars, slot, finalizing, stopping, backoff, feed, clock, missed>>

Each(v) == [i \in Instances |-> v]

Init ==
  /\ given \in Givens
  /\ air = Each(None)
  \* A dormant instance shows what it did when it was switched off.
  /\ shown \in [Instances -> BOOLEAN]
  /\ \A i \in Instances : shown[i] => given.stance[i] = "dormant"
  /\ since = Each(Settle) /\ ended = Each(Settle)
  /\ row = Each("none") /\ age = Each(0)
  /\ slot = Each("free") /\ finalizing = Each(FALSE) /\ stopping = {}
  /\ wait = Each(0) /\ fails = Each(0)
  /\ signal = {} /\ loop = None
  /\ polled = {} /\ mishaps = 0 /\ missed = {}

-----------------------------------------------------------------------------
(* The decision, as instance i takes it.                                   *)

\* (Mutant: a capture is what has a row.)
CapturingByRow(i, j) == j # i /\ slot[j] \in {"setup", "launching", "running", "killed"}

\* InstanceState::capturing: i does not count its own reservation.
Capturing(i, j) == j # i /\ slot[j] # "free"

EligibleLive(i, j) ==
  Capturing(i, j) \/ finalizing[j] \/ (shown[j] /\ given.stance[j] # "dormant")

\* The platform the policy of j resolves to.
EffectivePlatform(i, j) ==
  LET afp == given.policy[j].adFreePref
  IN  IF afp \in given.adFree /\ EligibleLive(i, afp) THEN afp ELSE given.policy[j].pref

\* Captures that the preferred instance may still take over.
Young(i) == {j \in Instances : Capturing(i, j) /\ row[j] # "none" /\ age[j] < Settle}
Established(i) == {j \in Instances \ {i} : Capturing(i, j) \/ finalizing[j]} \ Young(i)

LastChance(j) ==
  LET end == IF row[j] = "none" THEN ended[j] ELSE Settle
  IN  IF since[j] < end THEN since[j] ELSE end

Agree(i, j) == EffectivePlatform(i, j) = j

\* (Mutant: there is no settle window.)
WaitsOn(i, j) == EligibleLive(i, j) /\ Agree(i, j) /\ given.stance[j] # "off"

\* Standby of an instance that is not the preferred one, for j.
WaitsFor(i, j) ==
  /\ EligibleLive(i, j)
  /\ Agree(i, j)
  /\ \/ Capturing(i, j) \/ finalizing[j]
     \/ given.stance[j] # "off" /\ LastChance(j) < Settle

StandsBy(i) ==
  LET pref == EffectivePlatform(i, i)
  IN  \/ pref = i /\ Young(i) = {} /\ Established(i) # {}
      \/ pref \in Instances \ {i} /\ WaitsFor(i, pref)

TakesOver(i) == IF EffectivePlatform(i, i) = i THEN Young(i) ELSE {}

-----------------------------------------------------------------------------
(* Detection.                                                              *)

Mishap == mishaps < MaxMishaps /\ mishaps' = mishaps + 1

GoesLive(i) ==
  /\ air[i] = None
  /\ air' = [air EXCEPT ![i] = 0]
  /\ UNCHANGED <<given, rowVars, slot, finalizing, stopping, backoff, feed, clock, missed>>

GoesOff(i) ==
  /\ air[i] # None
  /\ air' = [air EXCEPT ![i] = None]
  /\ Mishap
  /\ UNCHANGED <<given, rowVars, slot, finalizing, stopping, backoff, feed, polled,
                 missed>>

\* last_state is no longer "live".
Unshown(i) == shown' = [shown EXCEPT ![i] = FALSE] /\ since' = [since EXCEPT ![i] = Settle]

\* close_open_not_recorded_sessions.
CloseSession(i) ==
  IF row[i] = "session"
  THEN row' = [row EXCEPT ![i] = "none"] /\ ended' = [ended EXCEPT ![i] = 0]
  ELSE UNCHANGED <<row, ended>>

Due(i) == slot[i] = "free" /\ given.stance[i] # "dormant" /\ i \notin polled

\* tick of the scheduler: an instance that is not in active is polled.  What
\* the platform does not date keeps the time it was first seen.
Poll(i) ==
  /\ Due(i)
  /\ polled' = polled \cup {i}
  /\ shown' = [shown EXCEPT ![i] = air[i] # None]
  /\ since' = [since EXCEPT ![i] =
       IF air[i] = None THEN Settle
       ELSE IF i \in Dated THEN air[i] ELSE IF shown[i] THEN @ ELSE 0]
  /\ signal' = IF air[i] = None THEN signal ELSE signal \cup {i}
  /\ IF shown[i] /\ air[i] = None THEN CloseSession(i) ELSE UNCHANGED <<row, ended>>
  /\ UNCHANGED <<given, air, age, slot, finalizing, stopping, backoff, loop, mishaps,
                 missed>>

PollFails(i) ==
  /\ Due(i)
  /\ Mishap
  /\ polled' = polled \cup {i}
  /\ Unshown(i)
  /\ UNCHANGED <<given, air, row, age, ended, slot, finalizing, stopping, backoff, feed,
                 missed>>

-----------------------------------------------------------------------------
(* try_begin.                                                              *)

MayOverlap(i) == SlowFinalize \/ ~finalizing[i]

\* The run loop receives a signal: one at a time.
TryBegin(i) ==
  /\ i \in signal /\ loop = None /\ MayOverlap(i)
  /\ signal' = signal \ {i}
  /\ IF slot[i] = "free" /\ wait[i] = 0
     THEN slot' = [slot EXCEPT ![i] = "deciding"] /\ loop' = i
     ELSE UNCHANGED <<slot, loop>>
  /\ UNCHANGED <<given, air, rowVars, finalizing, stopping, backoff, clock, missed>>

\* manual_start on a push: a task of its own, and it forgets the backoff.
Push(i) ==
  /\ air[i] # None /\ given.stance[i] \in {"auto", "blocked"} /\ slot[i] = "free" /\ MayOverlap(i)
  /\ Mishap
  /\ slot' = [slot EXCEPT ![i] = "deciding"]
  /\ wait' = [wait EXCEPT ![i] = 0] /\ fails' = [fails EXCEPT ![i] = 0]
  /\ UNCHANGED <<given, air, rowVars, finalizing, stopping, feed, polled, missed>>

\* mark_live_not_recording; what is not dated went live when it was seen.
MarkLive(i) ==
  /\ shown' = [shown EXCEPT ![i] = TRUE]
  /\ since' = [since EXCEPT ![i] =
       IF i \notin Dated THEN 0 ELSE IF air[i] # None THEN air[i] ELSE @]

\* insert_not_recorded_session, unless one is open; it began with the broadcast.
OpenSession(i) ==
  /\ row' = [row EXCEPT ![i] = IF @ = "none" THEN "session" ELSE @]
  /\ age' = [age EXCEPT ![i] = IF row[i] = "none" THEN since'[i] ELSE @]

Decided(i) ==
  /\ slot[i] = "deciding"
  /\ loop' = IF loop = i THEN None ELSE loop
  /\ UNCHANGED <<given, air, ended, finalizing, signal, clock>>

\* A blacklist rule matches.
Vetoed(i) ==
  /\ Decided(i) /\ given.stance[i] = "blocked"
  /\ slot' = [slot EXCEPT ![i] = "free"]
  /\ MarkLive(i)
  /\ UNCHANGED <<row, age, stopping, missed, backoff>>

\* Auto is off, or another instance has the broadcast.
Declines(i) ==
  /\ Decided(i)
  /\ given.stance[i] = "off" \/ (given.stance[i] = "auto" /\ StandsBy(i))
  /\ slot' = [slot EXCEPT ![i] = "free"]
  /\ MarkLive(i) /\ OpenSession(i)
  /\ UNCHANGED <<stopping, missed, backoff>>

\* manual_stop of others: what runs is killed, what does not run is to find the
\* tombstone, but may have looked for it already.
Stop(others) ==
  /\ stopping' = stopping \cup others
  /\ missed' = missed \cup {j \in others : slot[j] = "launching"}
  /\ wait' = [j \in Instances |-> IF j \in others THEN StopWait ELSE wait[j]]
  /\ fails' = [j \in Instances |-> IF j \in others THEN 0 ELSE fails[j]]

Records(i) ==
  /\ Decided(i) /\ given.stance[i] = "auto" /\ ~StandsBy(i)
  /\ Stop(TakesOver(i))
  /\ slot' = [j \in Instances |->
       IF j = i THEN "starting"
       ELSE IF j \in TakesOver(i) /\ slot[j] = "running" THEN "killed" ELSE slot[j]]
  /\ UNCHANGED <<shown, since, row, age>>

-----------------------------------------------------------------------------
(* The take.  Supervisor models it in full.                                *)

\* (Mutant: the session of a broadcast that was not recorded stays open.)
InsertBehindSession(i) ==
  /\ slot[i] = "starting"
  /\ slot' = [slot EXCEPT ![i] = "setup"]
  /\ row' = [row EXCEPT ![i] = IF @ = "session" THEN @ ELSE "take"] /\ age' = [age EXCEPT ![i] = 0]
  /\ Unshown(i)
  /\ UNCHANGED <<given, air, ended, finalizing, stopping, backoff, feed, clock, missed>>

\* insert_recording_row: the session, if there was one, is closed.
InsertRow(i) ==
  /\ slot[i] = "starting"
  /\ slot' = [slot EXCEPT ![i] = "setup"]
  /\ row' = [row EXCEPT ![i] = "take"] /\ age' = [age EXCEPT ![i] = 0]
  /\ Unshown(i)
  /\ UNCHANGED <<given, air, ended, finalizing, stopping, backoff, feed, clock, missed>>

PassStopCheck(i) ==
  /\ slot[i] = "setup" /\ i \notin stopping
  /\ slot' = [slot EXCEPT ![i] = "launching"]
  /\ UNCHANGED <<given, air, rowVars, finalizing, stopping, backoff, feed, clock, missed>>

\* run_process: the tombstone is not looked at again.
Spawn(i) ==
  /\ slot[i] = "launching"
  /\ slot' = [slot EXCEPT ![i] = "running"]
  /\ UNCHANGED <<given, air, rowVars, finalizing, stopping, backoff, feed, clock, missed>>

\* A SABR capture that dies with its state left behind is to be run again, after
\* a wait with the pid of the dead tool in the slot.
Retry(i) ==
  /\ slot[i] = "running" /\ i \in Sabr \ given.broken /\ i \notin stopping
  /\ slot' = [slot EXCEPT ![i] = "launching"]
  /\ Mishap
  /\ UNCHANGED <<given, air, rowVars, finalizing, stopping, backoff, feed, polled, missed>>

\* The tool has exited or was not started.  (Two takes of one instance that are
\* both in finalize are left out.)
CaptureOver(i) ==
  /\ ~finalizing[i]
  /\ slot' = [slot EXCEPT ![i] = "free"]
  /\ finalizing' = [finalizing EXCEPT ![i] = TRUE]
  /\ ended' = [ended EXCEPT ![i] = 0]
  /\ missed' = missed \ {i}
  /\ UNCHANGED <<given, air, shown, since, row, age, stopping, backoff, feed, polled>>

SkipSpawn(i) == slot[i] = "setup" /\ i \in stopping /\ CaptureOver(i) /\ UNCHANGED mishaps

Killed(i) == slot[i] = "killed" /\ CaptureOver(i) /\ UNCHANGED mishaps

ToolEnds(i) ==
  /\ slot[i] = "running" /\ (air[i] = None \/ i \in given.broken)
  /\ CaptureOver(i) /\ UNCHANGED mishaps

ToolDrops(i) == slot[i] = "running" /\ CaptureOver(i) /\ Mishap

\* (Mutant: every failure is the first.)
NoteFlat(i) ==
  IF i \in stopping THEN UNCHANGED backoff
  ELSE LET n == IF i \in given.broken THEN 1 ELSE 0
       IN  fails' = [fails EXCEPT ![i] = n] /\ wait' = [wait EXCEPT ![i] = FailStep * n]

\* note_result, unless the take was stopped.  A failure more does not count when
\* the backoff is at its longest.
NoteResult(i) ==
  IF i \in stopping THEN UNCHANGED backoff
  ELSE LET n == IF i \notin given.broken THEN 0
                ELSE IF FailStep * fails[i] < MaxWait THEN fails[i] + 1 ELSE fails[i]
       IN  /\ fails' = [fails EXCEPT ![i] = n]
           /\ wait' = [wait EXCEPT ![i] = IF FailStep * n < MaxWait THEN FailStep * n ELSE MaxWait]

\* finalize_recording: last_state becomes the verdict, unless a new take has it.
Settles(i) ==
  /\ finalizing[i]
  /\ finalizing' = [finalizing EXCEPT ![i] = FALSE]
  /\ stopping' = stopping \ {i}
  /\ NoteResult(i)
  /\ row' = [row EXCEPT ![i] = IF slot[i] \in {"free", "deciding", "starting"} THEN "none" ELSE @]
  /\ IF slot[i] = "free" THEN Unshown(i) ELSE UNCHANGED <<shown, since>>
  /\ UNCHANGED <<given, air, age, ended, slot, feed, clock, missed>>

-----------------------------------------------------------------------------
Older(a) == IF a < Settle THEN a + 1 ELSE a
AllOlder(f) == [i \in Instances |-> Older(f[i])]

\* The next interval: what takes moments is over.
Tick ==
  /\ signal = {}
  /\ \A i \in Instances : ~Due(i) /\ slot[i] \in {"free", "running"} /\ MayOverlap(i)
  /\ polled' = {}
  /\ air' = [i \in Instances |-> IF air[i] = None \/ i \notin Dated THEN air[i] ELSE Older(air[i])]
  /\ since' = AllOlder(since) /\ age' = AllOlder(age) /\ ended' = AllOlder(ended)
  /\ wait' = [i \in Instances |-> IF wait[i] > 0 THEN wait[i] - 1 ELSE 0]
  /\ UNCHANGED <<given, shown, row, slot, finalizing, stopping, fails, feed, mishaps, missed>>

Work(i) ==
  Poll(i) \/ TryBegin(i) \/ Vetoed(i) \/ Declines(i) \/ Records(i)
  \/ InsertRow(i) \/ PassStopCheck(i) \/ Spawn(i) \/ SkipSpawn(i) \/ Killed(i)

Next ==
  \/ Tick
  \/ \E i \in Instances :
       \/ Work(i) \/ ToolEnds(i) \/ Settles(i)
       \/ GoesLive(i) \/ GoesOff(i) \/ PollFails(i) \/ Push(i) \/ ToolDrops(i) \/ Retry(i)

Spec == Init /\ [][Next]_vars

\* The scheduler goes on, and what is done once in an interval gets done; a
\* capture that is over ends, and its finalize comes to an end.
Fairness ==
  /\ WF_vars(Tick \/ \E i \in Instances : Work(i))
  /\ \A i \in Instances : WF_vars(ToolEnds(i)) /\ WF_vars(Settles(i))

LiveSpec == Spec /\ Fairness

-----------------------------------------------------------------------------
(* Properties.                                                             *)

Ages == 0..Settle

TypeOK ==
  /\ given \in Givens
  /\ air \in [Instances -> {None} \cup Ages]
  /\ shown \in [Instances -> BOOLEAN]
  /\ since \in [Instances -> Ages] /\ age \in [Instances -> Ages] /\ ended \in [Instances -> Ages]
  /\ row \in [Instances -> {"none", "session", "take"}]
  /\ slot \in [Instances ->
       {"free", "deciding", "starting", "setup", "launching", "running", "killed"}]
  /\ finalizing \in [Instances -> BOOLEAN] /\ stopping \subseteq Instances
  /\ wait \in [Instances -> Nat] /\ fails \in [Instances -> Nat]
  /\ signal \subseteq Instances /\ loop \in Instances \cup {None}
  /\ polled \subseteq Instances /\ mishaps \in 0..MaxMishaps /\ missed \subseteq Instances
  /\ \A i \in Instances : slot[i] \in {"setup", "launching", "running", "killed"} => row[i] = "take"

\* One setting for the whole channel, and no instance that overrides it.
Agreeing == \A i, j \in Instances : given.policy[i] = given.policy[j]
Dedups == Agreeing /\ \A i \in Instances : given.policy[i].pref # None

\* Whose tool runs, told to stop or not.
Recording == {i \in Instances : slot[i] = "running"}

\* However polls, pushes, takeovers, retries and failures interleave, a broadcast
\* on two platforms is not captured twice, but for a tool launched after a stop
\* that came between the test of the tombstone and the launch: nothing kills it,
\* and it records beside the preferred one.
OneCapture == Dedups => \A i, j \in Recording \ missed : i = j

Captured == \E i \in Instances : slot[i] = "running" /\ i \notin given.broken
Capable(i) == given.stance[i] = "auto" /\ i \notin given.broken
StaysOn(i) == <>[](air[i] # None)

\* "Two rules keep this from ever costing a broadcast": while it is on where it
\* could be recorded, it is, again and again, whatever the others wait for.  (Not
\* whatever the settings are: a preferred source that a blacklist rule matches
\* and that nobody dates strands it, see StandbyTakesOver.)
SomebodyRecords == \A i \in Instances : [](Capable(i)) /\ StaysOn(i) => []<>Captured

\* With one setting, the instances stop taking the broadcast from each other:
\* a preferred source that never gets a capture going loses it for good.
ACaptureLasts == [](Dedups) => \A i \in Instances : [](Capable(i)) /\ StaysOn(i) => <>[]Captured
=============================================================================
