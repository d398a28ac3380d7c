------------------------------ MODULE Supervisor ------------------------------
(***************************************************************************)
(* The capture slot of a monitor over one run of the program: try_begin    *)
(* reserves it, record() holds it while it sets a take up and while the    *)
(* capture tool runs, and gives it back when the tool has exited; the take *)
(* is then promoted and settled WITHOUT the slot, so that the next take of *)
(* the same monitor overlaps the finalize of the last one.                 *)
(*                                                                         *)
(* A take is one call of record(): a tokio task, a row of the recording    *)
(* table, a capture process and a row of the detached-process registry,    *)
(* all identified by the take here.  Several takes of one monitor may be   *)
(* in flight; every map the supervisor keeps (active, stopping_monitors,   *)
(* backoff, finalizing) is keyed by MONITOR, and most of what is hard in   *)
(* this code follows from that.                                            *)
(*                                                                         *)
(* The decision whether to record at all (holds, trigger words, simulcast, *)
(* stream gating) is "Admit or Decline" here.  Dual capture is off.        *)
(***************************************************************************)
EXTENDS Naturals, FiniteSets

CONSTANTS Monitors,      \* monitor ids
          Takes,         \* take ids, in the order the rows are inserted
          None,          \* no entry in a map
          Reserved,      \* the pid 0 of an ActiveSet entry: no process yet
          Permits,       \* permits of the download semaphore (max_concurrent)
          MaxRetries,    \* MAX_SABR_RETRIES
          SabrMonitors   \* monitors captured from the start with SABR

ASSUME IdAssumption ==
  /\ Takes \subseteq Nat
  /\ None \notin Takes \cup Monitors
  /\ Reserved \notin Takes
  /\ None # Reserved
ASSUME BoundAssumption ==
  /\ Permits \in Nat \ {0}
  /\ MaxRetries \in Nat
  /\ SabrMonitors \subseteq Monitors

VARIABLES
  \* Supervisor: in memory, gone when the program ends
  active,         \* monitor -> pid of its capture, Reserved, or None
  stopping,       \* stopping_monitors: the user-stop tombstones
  backoff,        \* monitor -> why automatic starts are held off
  finalizing,     \* monitor -> the take shown as finalizing
  stallKilled,    \* takes whose process the stall watchdog killed
  stallCooldown,  \* monitors within STALL_RESTART_COOLDOWN_SECS of such a kill
  watching,       \* takes with a quality-upgrade watcher
  \* the tasks
  task,           \* take -> how far its task is
  owner,          \* take -> its monitor
  kind,           \* take -> which function runs it in this session
  retries,        \* take -> SABR retries spent
  \* the store and the machine: they outlive the program
  row,            \* take -> status column of its recording row
  registry,       \* takes with a row in detached_process
  proc,           \* take -> its capture process
  media,          \* take -> where its bytes are: working file, final file, nowhere
  app,            \* life of the program
  \* history
  asked           \* takes stopped while they held their monitor's slot

supervisor == <<active, stopping, backoff, finalizing, stallKilled, stallCooldown, watching>>
tasks == <<task, owner, kind, retries>>
store == <<row, registry>>
machine == <<proc, media>>
vars == <<supervisor, tasks, store, machine, app, asked>>

(* The task of a take, from try_begin's reservation to the end of its      *)
(* finalize.  The phases adopting, resuming and refinalize are entered     *)
(* after a restart only (module Recovery).                                 *)
SetupPhases == {"deciding", "starting", "permitted", "inserted"}
SlotPhases == SetupPhases \cup {"spawning", "capturing", "exited", "skipped",
                                "adopting", "resuming"}
FinalPhases == {"finalizing", "promoted"}
PermitPhases == {"permitted", "inserted", "spawning", "capturing", "exited", "skipped"}
                  \cup FinalPhases
Phases == {"none", "refinalize", "notFound", "settled", "purging", "done"} \cup SlotPhases \cup FinalPhases

Settled == {"completed", "stopped", "aborted", "ended", "failed", "orphaned"}
Statuses == {"none", "recording"} \cup Settled
AppPhases == {"running", "draining", "drained", "timedOut", "purged", "exiting", "down",
              "reconciling", "inflight"}
ShuttingDown == app \in {"draining", "drained", "timedOut", "purged", "exiting"}

TypeOK ==
  /\ active \in [Monitors -> Takes \cup {None, Reserved}]
  /\ stopping \subseteq Monitors
  /\ backoff \in [Monitors -> {"none", "stopped", "restart", "failed"}]
  /\ finalizing \in [Monitors -> Takes \cup {None}]
  /\ stallKilled \subseteq Takes
  /\ stallCooldown \subseteq Monitors
  /\ watching \subseteq Takes
  /\ task \in [Takes -> Phases]
  /\ owner \in [Takes -> Monitors \cup {None}]
  /\ kind \in [Takes -> {"record", "resume", "reattach"}]
  /\ retries \in [Takes -> 0..MaxRetries]
  /\ row \in [Takes -> Statuses]
  /\ registry \subseteq Takes
  /\ proc \in [Takes -> {"none", "live", "dead"}]
  /\ media \in [Takes -> {"none", "capture", "final"}]
  /\ app \in AppPhases
  /\ asked \subseteq Takes

Init ==
  /\ active = [m \in Monitors |-> None]
  /\ stopping = {}
  /\ backoff = [m \in Monitors |-> "none"]
  /\ finalizing = [m \in Monitors |-> None]
  /\ stallKilled = {}
  /\ stallCooldown = {}
  /\ watching = {}
  /\ task = [t \in Takes |-> "none"]
  /\ owner = [t \in Takes |-> None]
  /\ kind = [t \in Takes |-> "record"]
  /\ retries = [t \in Takes |-> 0]
  /\ row = [t \in Takes |-> "none"]
  /\ registry = {}
  /\ proc = [t \in Takes |-> "none"]
  /\ media = [t \in Takes |-> "none"]
  /\ app = "running"
  /\ asked = {}

-----------------------------------------------------------------------------
(* Helpers.                                                                *)

\* The takes whose task holds the slot of monitor m.
Holders(m) == {t \in Takes : owner[t] = m /\ task[t] \in SlotPhases}

Used(t) == task[t] # "none" \/ row[t] # "none"
\* The next take id: row ids grow, and a declined start inserts no row.
NextTake(t) ==
  /\ \A u \in Takes : Used(u) => u < t
  /\ \A v \in Takes : v < t => \E u \in Takes : u >= v /\ Used(u)

HasMedia(t) == media[t] # "none"

Step(t, from, to) == task[t] = from /\ task' = [task EXCEPT ![t] = to]

\* A reservation counts as an entry.  (Mutant: only a pid does.)
SlotFreeOfPids(m) == active[m] \in {None, Reserved}
SlotFree(m) == active[m] = None

\* release_active drops the monitor's entry, whichever take put it there.
\* (Mutant: a reservation no process was started for is left behind.)
ReleasePid(m) == active' = [active EXCEPT ![m] = IF @ = Reserved THEN @ ELSE None]
ReleaseActive(m) == active' = [active EXCEPT ![m] = None]

PermitFree == Cardinality({t \in Takes : task[t] \in PermitPhases /\ kind[t] # "reattach"})
                < Permits

\* finish_recording writes one row.  (Mutant: every row of the monitor.)
FinishMonitor(t, status) ==
  row' = [u \in Takes |-> IF owner[u] = owner[t] /\ row[u] # "none"
                         THEN status ELSE row[u]]
Finish(t, status) == row' = [row EXCEPT ![t] = status]

\* kill_process_tree: only a pid that is a live process dies.
KillPid(pid) == proc' = [t \in Takes |-> IF t = pid /\ proc[t] = "live" THEN "dead" ELSE proc[t]]

-----------------------------------------------------------------------------
(* try_begin and the head of record().                                     *)

\* The gates before the reservation, the reservation under the lock, and the
\* cleared backoff of a start that bypasses it.  A poll or push passes
\* neither flag, a WebSub push bypasses the backoff, a user Start is forced.
TryBegin(m, t, bypass, forced) ==
  /\ forced => bypass
  /\ bypass \/ ~ShuttingDown      \* live signals are dropped while draining
  /\ forced \/ m \notin stallCooldown
  /\ SlotFree(m)
  /\ bypass \/ backoff[m] = "none"
  /\ NextTake(t)
  /\ active' = [active EXCEPT ![m] = Reserved]
  /\ backoff' = IF bypass THEN [backoff EXCEPT ![m] = "none"] ELSE backoff
  /\ Step(t, "none", "deciding")
  /\ owner' = [owner EXCEPT ![t] = m]
  /\ UNCHANGED <<stopping, finalizing, stallKilled, stallCooldown, watching, kind, retries,
                 store, machine, app, asked>>

\* A task that has touched nothing but its reservation moves on, or ends and
\* gives the reservation back.
Advance(t, from, to) ==
  /\ Step(t, from, to)
  /\ UNCHANGED <<supervisor, owner, kind, retries, store, machine, app, asked>>
GiveBack(t, from) ==
  /\ Step(t, from, "none")
  /\ ReleaseActive(owner[t])
  /\ owner' = [owner EXCEPT ![t] = None]
  /\ asked' = asked \ {t}         \* the id will name another take
  /\ UNCHANGED <<stopping, backoff, finalizing, stallKilled, stallCooldown, watching, kind,
                 retries, store, machine, app>>

Decline(t) == GiveBack(t, "deciding")
Admit(t) == Advance(t, "deciding", "starting")

\* The duplicate-recording guard looks at the file named by the newest open
\* row.  That is the FINAL path: the tool writes in the working directory,
\* and the final file is only there once the take has been promoted.
OpenRows(m) == {u \in Takes : owner[u] = m /\ row[u] = "recording"}
NewestOpen(m, u) == u \in OpenRows(m) /\ \A v \in OpenRows(m) : v <= u
RefuseDuplicate(t) ==
  /\ \E u \in Takes : NewestOpen(owner[t], u) /\ media[u] = "final"
  /\ GiveBack(t, "starting")

\* The permit is kept until the take is settled; shutdown is checked after it.
Acquire(t) == PermitFree /\ ~ShuttingDown /\ Advance(t, "starting", "permitted")
AbandonStart(t) == PermitFree /\ ShuttingDown /\ GiveBack(t, "starting")

\* insert_recording_row, and the quality-upgrade watcher of some Twitch takes.
InsertRow(t) ==
  /\ Step(t, "permitted", "inserted")
  /\ row' = [row EXCEPT ![t] = "recording"]
  /\ \/ UNCHANGED watching
     \/ owner[t] \notin SabrMonitors /\ watching' = watching \cup {t}
  /\ UNCHANGED <<active, stopping, backoff, finalizing, stallKilled, stallCooldown, owner,
                 kind, retries, registry, machine, app, asked>>

\* A stop that arrived during set-up is honoured: no process is spawned.
SkipSpawn(t) == owner[t] \in stopping /\ Advance(t, "inserted", "skipped")
PassStopCheck(t) == owner[t] \notin stopping /\ Advance(t, "inserted", "spawning")

-----------------------------------------------------------------------------
(* run_process, and the capture tool itself.                               *)

\* The pid goes into the slot and the registry before the first await.
\* (Mutant: the slot keeps the reservation until the process is reaped.)
RegisterOnly(t) == registry' = registry \cup {t} /\ UNCHANGED active
Track(t) == registry' = registry \cup {t} /\ active' = [active EXCEPT ![owner[t]] = t]

Spawn(t) ==
  /\ Step(t, "spawning", "capturing")
  /\ proc' = [proc EXCEPT ![t] = "live"]
  /\ Track(t)
  /\ UNCHANGED <<stopping, backoff, finalizing, stallKilled, stallCooldown, watching, owner,
                 kind, retries, row, media, app, asked>>

\* The log cannot be opened or the program cannot be started.
SpawnFails(t) == Advance(t, "spawning", "exited")

ToolWrites(t) ==
  /\ proc[t] = "live" /\ ~HasMedia(t)
  /\ media' = [media EXCEPT ![t] = "capture"]
  /\ UNCHANGED <<supervisor, tasks, store, proc, app, asked>>

ToolExits(t) ==
  /\ proc[t] = "live"
  /\ proc' = [proc EXCEPT ![t] = "dead"]
  /\ UNCHANGED <<supervisor, tasks, store, media, app, asked>>

\* The watchdog of a process this session runs or has adopted.
StallKill(t) ==
  /\ task[t] \in {"capturing", "adopting"} /\ proc[t] = "live" /\ ~ShuttingDown
  /\ stallKilled' = stallKilled \cup {t}
  /\ stallCooldown' = stallCooldown \cup {owner[t]}
  /\ KillPid(t)
  /\ UNCHANGED <<active, stopping, backoff, finalizing, watching, tasks, store, media, app, asked>>

\* child.wait returns; the registry row goes, the slot is kept.
Reap(t) ==
  /\ proc[t] = "dead"
  /\ Step(t, "capturing", "exited")
  /\ registry' = registry \ {t}
  /\ UNCHANGED <<supervisor, owner, kind, retries, row, machine, app, asked>>

\* The retry budget.  (Mutant: it is spent and never looked at.)
SpendUnchecked(t) == retries' = [retries EXCEPT ![t] = @ + 1]
Spend(t) ==
  \/ retries[t] < MaxRetries /\ retries' = [retries EXCEPT ![t] = @ + 1]
  \/ retries[t] > 0 /\ retries' = [retries EXCEPT ![t] = 1]   \* refunded by a long run

\* A SABR capture that died with its state left behind is run again.  The
\* delay, and the next spawn, come after this test of the tombstone.
Retry(t) ==
  /\ kind[t] = "record" /\ owner[t] \in SabrMonitors /\ HasMedia(t)
  /\ owner[t] \notin stopping /\ ~ShuttingDown
  /\ Step(t, "exited", "spawning")
  /\ Spend(t)
  /\ UNCHANGED <<supervisor, owner, kind, store, machine, app, asked>>

-----------------------------------------------------------------------------
(* The end of a take.                                                      *)

\* A take that never ran its tool ends like one that did.  (Mutant: it does not.)
ToolRan(t) == task[t] = "exited"
CaptureOver(t) == task[t] \in {"exited", "skipped"}

\* The slot is free from here on, the take is shown as finalizing.
FinalizeBegin(t) ==
  /\ CaptureOver(t)
  /\ task' = [task EXCEPT ![t] = "finalizing"]
  /\ finalizing' = [finalizing EXCEPT ![owner[t]] = t]
  /\ ReleaseActive(owner[t])
  /\ UNCHANGED <<stopping, backoff, stallKilled, stallCooldown, watching, owner, kind, retries,
                 store, machine, app, asked>>

\* promote_capture and the renames: minutes, or hours behind the disk gate.  A
\* remux or a move that fails keeps the working file.
Promote(t) ==
  /\ kind[t] # "reattach"
  /\ Step(t, "finalizing", "promoted")
  /\ \/ UNCHANGED media
     \/ media[t] = "capture" /\ media' = [media EXCEPT ![t] = "final"]
  /\ UNCHANGED <<supervisor, owner, kind, retries, store, proc, app, asked>>

\* finalize_recording's status.  gone: the log says the stream had ended.
\* (Mutant: a take cut short by the shutdown is left to the next launch.)
VerdictButNotAborted(t, gone) ==
  IF ShuttingDown THEN "recording" ELSE IF HasMedia(t) THEN "completed" ELSE "failed"
Verdict(t, gone) ==
  IF owner[t] \in stopping THEN IF HasMedia(t) THEN "completed" ELSE "stopped"
  ELSE IF ShuttingDown THEN "aborted"
  ELSE IF HasMedia(t) THEN "completed"
  ELSE IF t \in stallKilled \/ gone THEN "ended" ELSE "failed"

\* note_result: success clears the backoff, an empty capture sets it.
NoteResult(t) == [backoff EXCEPT ![owner[t]] = IF HasMedia(t) THEN "none" ELSE "failed"]

\* From the removal of the tombstone to the end of record(): no await between.
Settle(t, gone) ==
  /\ kind[t] = "record"
  /\ Step(t, "promoted", "done")
  /\ Finish(t, Verdict(t, gone))
  /\ backoff' = IF owner[t] \in stopping THEN backoff ELSE NoteResult(t)
  /\ stopping' = stopping \ {owner[t]}
  /\ stallKilled' = stallKilled \ {t}
  /\ finalizing' = [finalizing EXCEPT ![owner[t]] = None]
  /\ UNCHANGED <<active, stallCooldown, watching, owner, kind, retries, registry, machine,
                 app, asked>>

-----------------------------------------------------------------------------
(* Stops, the clock, shutdown.                                             *)

\* manual_stop: tombstone, kill, 120 s cooldown.  The Stop button, a scheduled
\* stop, a trigger that no longer matches, a simulcast takeover.
Stop(m) ==
  /\ active[m] # None
  /\ stopping' = stopping \cup {m}
  /\ KillPid(active[m])
  /\ backoff' = [backoff EXCEPT ![m] = "stopped"]
  /\ asked' = asked \cup Holders(m)
  /\ UNCHANGED <<active, finalizing, stallKilled, stallCooldown, watching, tasks, store, media, app>>

\* quality_upgrade_watcher restarts the take for a better rendition.  It saw
\* the slot taken, then awaited two probes: what holds the slot now is killed.
QualityRestart(t) ==
  /\ t \in watching
  /\ watching' = watching \ {t}
  /\ stopping' = stopping \cup {owner[t]}
  /\ KillPid(active[owner[t]])
  /\ backoff' = [backoff EXCEPT ![owner[t]] = "restart"]
  /\ asked' = asked \cup Holders(owner[t])
  /\ UNCHANGED <<active, finalizing, stallKilled, stallCooldown, tasks, store, media, app>>

WatcherEnds(t) ==
  /\ t \in watching
  /\ watching' = watching \ {t}
  /\ UNCHANGED <<active, stopping, backoff, finalizing, stallKilled, stallCooldown, tasks,
                 store, machine, app, asked>>

BackoffExpires(m) ==
  /\ backoff[m] # "none"
  /\ backoff' = [backoff EXCEPT ![m] = "none"]
  /\ UNCHANGED <<active, stopping, finalizing, stallKilled, stallCooldown, watching, tasks,
                 store, machine, app, asked>>

StallCooldownExpires(m) ==
  /\ m \in stallCooldown
  /\ stallCooldown' = stallCooldown \ {m}
  /\ UNCHANGED <<active, stopping, backoff, finalizing, stallKilled, watching, tasks, store,
                 machine, app, asked>>

\* stop_all_recordings: raise the flag, kill every pid of the active map on
\* each turn of the loop, and go on once the map is empty, or give up after
\* SHUTDOWN_DRAIN_TIMEOUT.
StopAll ==
  /\ app = "running"
  /\ app' = "draining"
  /\ UNCHANGED <<supervisor, tasks, store, machine, asked>>

DrainKill(m) ==
  /\ app = "draining"
  /\ \E t \in Takes : active[m] = t /\ proc[t] = "live"
  /\ KillPid(active[m])
  /\ UNCHANGED <<supervisor, tasks, store, media, app, asked>>

DrainDone ==
  /\ app = "draining"
  /\ \A m \in Monitors : active[m] = None
  /\ app' = "drained"
  /\ UNCHANGED <<supervisor, tasks, store, machine, asked>>

DrainTimesOut ==
  /\ app = "draining"
  /\ \E m \in Monitors : active[m] # None
  /\ app' = "timedOut"
  /\ UNCHANGED <<supervisor, tasks, store, machine, asked>>

-----------------------------------------------------------------------------
Begin(m) == \E t \in Takes, bypass, forced \in BOOLEAN : TryBegin(m, t, bypass, forced)

TakeStep(t) ==
  \/ Decline(t) \/ Admit(t) \/ RefuseDuplicate(t) \/ Acquire(t) \/ AbandonStart(t)
  \/ InsertRow(t) \/ SkipSpawn(t) \/ PassStopCheck(t) \/ Spawn(t) \/ SpawnFails(t)
  \/ Reap(t) \/ Retry(t) \/ FinalizeBegin(t) \/ Promote(t)
  \/ \E gone \in BOOLEAN : Settle(t, gone)

OutsideStep(t) ==
  \/ ToolWrites(t) \/ ToolExits(t) \/ StallKill(t) \/ QualityRestart(t) \/ WatcherEnds(t)

MonitorStep(m) ==
  \/ Begin(m) \/ Stop(m) \/ BackoffExpires(m) \/ StallCooldownExpires(m) \/ DrainKill(m)

AppStep == StopAll \/ DrainDone \/ DrainTimesOut

Next ==
  \/ \E t \in Takes : TakeStep(t) \/ OutsideStep(t)
  \/ \E m \in Monitors : MonitorStep(m)
  \/ AppStep

Spec == Init /\ [][Next]_vars

-----------------------------------------------------------------------------
(* What holds.                                                             *)

\* One take per monitor is being set up or captured, and one capture process
\* per monitor runs: no two takes record one broadcast twice.
SlotExclusive ==
  /\ \A m \in Monitors : Cardinality(Holders(m)) <= 1
  /\ \A t, u \in Takes : proc[t] = "live" /\ proc[u] = "live" /\ owner[t] = owner[u] => t = u

\* A running capture is the pid of its monitor's slot, so that Stop, shutdown
\* and the scheduler's skip all see it; it is in the registry, so that a
\* restart finds it; and its row is open.
LiveIsTracked ==
  \A t \in Takes : proc[t] = "live" =>
    active[owner[t]] = t /\ t \in registry /\ row[t] = "recording"

\* An open row always has a task that will settle it, and a settled one has none.
OpenRowIsOwned ==
  \A t \in Takes : row[t] = "recording" <=>
    task[t] \in {"inserted", "spawning", "capturing", "exited", "skipped"} \cup FinalPhases

\* A settled take is never reopened and its verdict never overwritten.
SettledIsFinal ==
  [][\A t \in Takes : row[t] \in Settled => row'[t] = row[t]]_vars

-----------------------------------------------------------------------------
(* Fairness.  A task that can move is polled by the runtime; the semaphore *)
(* is first come first served, so a task that could take a permit again    *)
(* and again gets one; a retry budget is refunded only by a long run, and  *)
(* a broadcast ends, so a take is not retried for ever.  The drain loop    *)
(* turns every 200 ms.                                                     *)
GetPermit(t) == Acquire(t) \/ AbandonStart(t) \/ RefuseDuplicate(t)
Scheduling ==
  /\ \A t \in Takes : WF_vars(TakeStep(t)) /\ SF_vars(GetPermit(t)) /\ SF_vars(FinalizeBegin(t))
  /\ \A m \in Monitors : WF_vars(DrainKill(m))
  /\ SF_vars(DrainDone)
FairSpec == Spec /\ Scheduling

\* A capture tool ends: the broadcast does, or the stall watchdog kills it.
\* That takes hours, so while stop_all_recordings drains none has to.
ToolsEnd == \A t \in Takes : WF_vars(app # "draining" /\ ToolExits(t))
LiveSpec == FairSpec /\ ToolsEnd

\* Every slot that is taken is given back: the monitor can record again.
SlotIsFreed == \A m \in Monitors : active[m] # None ~> active[m] = None

\* Every row that is opened is settled while the program runs.
EveryTakeSettles == \A t \in Takes : row[t] = "recording" ~> row[t] \in Settled

\* stop_all_recordings leaves its loop even if no tool ever ends by itself and
\* the time limit never strikes: its kills, and the tasks that then return,
\* empty the map, of a start that was under way when the flag went up too.
DrainEnds == app = "draining" ~> app \in {"drained", "timedOut"}

-----------------------------------------------------------------------------
(* The supervisor implements the ledger.                                   *)
Ledger == INSTANCE TakeLedger WITH
  Verdicts <- Settled,
  state <- row,
  on <- [t \in Takes |-> IF row[t] = "none" THEN None ELSE owner[t]],
  running <- {t \in Takes : proc[t] = "live"}
LedgerSpec == Ledger!LSpec
=============================================================================
