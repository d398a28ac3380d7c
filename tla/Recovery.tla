------------------------------- MODULE Recovery -------------------------------
(***************************************************************************)
(* The supervisor over several runs of the program.  A capture process is  *)
(* spawned detached: it outlives a quit that leaves downloads running, and *)
(* a crash.  Start-up reads the registry of detached processes and the     *)
(* open rows, and adopts, resumes, finalizes or orphans each take before   *)
(* the supervisor takes its first signal.                                  *)
(*                                                                         *)
(* A process is recognised by pid and creation time; that both can be read *)
(* is assumed.  The orphan repair of a take is one step.                   *)
(***************************************************************************)
EXTENDS Supervisor

CONSTANT MaxRestarts       \* bound: how often the program is started again

ASSUME RestartAssumption == MaxRestarts \in Nat

VARIABLES
  pending,     \* takes start-up has still to decide about
  restarts

recovery == <<pending, restarts>>
rvars == <<vars, recovery>>

RTypeOK == TypeOK /\ pending \subseteq Takes /\ restarts \in 0..MaxRestarts

RInit == Init /\ pending = {} /\ restarts = 0

\* Bound: the last run of the program goes on for ever.
MayEnd == restarts < MaxRestarts

\* A capture in its final container.  If yt-dlp left its state beside it
\* (sabr_state_exists; the model lets either be so) the capture is resumed.
SabrCapture(t) == owner[t] \in SabrMonitors /\ media[t] = "capture"

-----------------------------------------------------------------------------
(* The end of a run.                                                       *)

\* detach_all: raise the flag, leave the tools running.
Detach ==
  /\ app = "running" /\ MayEnd
  /\ app' = "exiting"
  /\ UNCHANGED <<supervisor, tasks, store, machine, asked, recovery>>

Stopping == MayEnd /\ StopAll /\ UNCHANGED recovery

\* After its drain stop_all_recordings kills every registered job by name and
\* clears the registry.  (Mutant: it relies on the kills of the drain loop.)
PurgeRowsOnly == registry' = {} /\ UNCHANGED proc
PurgeJobs ==
  /\ proc' = [t \in Takes |-> IF t \in registry /\ proc[t] = "live" THEN "dead" ELSE proc[t]]
  /\ registry' = {}

Purge ==
  /\ app \in {"drained", "timedOut"}
  /\ app' = IF app = "drained" THEN "purged" ELSE "exiting"
  /\ PurgeJobs
  /\ UNCHANGED <<supervisor, tasks, row, media, asked, recovery>>

MemoryLost ==
  /\ active' = [m \in Monitors |-> None]
  /\ stopping' = {}
  /\ backoff' = [m \in Monitors |-> "none"]
  /\ finalizing' = [m \in Monitors |-> None]
  /\ stallKilled' = {}
  /\ stallCooldown' = {}
  /\ watching' = {}
  /\ task' = [t \in Takes |-> IF row[t] \in Settled THEN "done" ELSE "none"]
  /\ owner' = [t \in Takes |-> IF row[t] = "none" THEN None ELSE owner[t]]
  /\ kind' = [t \in Takes |-> "record"]
  /\ retries' = [t \in Takes |-> 0]
  /\ asked' = {}
  /\ pending' = {}
  /\ app' = "down"
  /\ UNCHANGED <<store, media, restarts>>

\* The runtime is shut down: every task is dropped where it stands.
Exit == app \in {"purged", "exiting"} /\ MemoryLost /\ UNCHANGED proc

\* The program dies at any moment, alone or with the whole machine.
Crash ==
  /\ app # "down" /\ MayEnd
  /\ MemoryLost
  /\ proc' \in {proc, [t \in Takes |-> IF proc[t] = "live" THEN "dead" ELSE proc[t]]}

-----------------------------------------------------------------------------
(* Start-up: reconcile_detached, then resume_inflight, nothing else moving *)
(* but the processes, and the re-attached tasks during the second pass.    *)

Launch ==
  /\ app = "down" /\ MayEnd
  /\ app' = "reconciling"
  /\ pending' = registry
  /\ restarts' = restarts + 1
  /\ UNCHANGED <<supervisor, tasks, store, machine, asked>>

Decided(t, phase, k) ==
  /\ pending' = pending \ {t}
  /\ task' = [task EXCEPT ![t] = phase]
  /\ kind' = [kind EXCEPT ![t] = k]
  /\ UNCHANGED <<stopping, backoff, finalizing, stallKilled, stallCooldown, watching, owner,
                 retries, machine, app, asked, restarts>>

\* mark_recording_orphaned touches an open row only.  (Mutant: any row.)
OrphanAny(t) == row' = [row EXCEPT ![t] = "orphaned"]
Orphan(t) == row' = [row EXCEPT ![t] = IF @ = "recording" THEN "orphaned" ELSE @]

\* The process still runs: its pid takes the slot, whatever the slot held.
\* (Mutants: the slot is left for the scheduler to find free; the monitor is
\* entered under itself.)
AdoptLater(t) == UNCHANGED active
TakeSlotSwapped(t) == active' = [active EXCEPT ![owner[t]] = owner[t]]
TakeSlot(t) == active' = [active EXCEPT ![owner[t]] = t]
Adopt(t) ==
  /\ proc[t] = "live"
  /\ Decided(t, "adopting", "reattach")
  /\ TakeSlot(t)
  /\ UNCHANGED store

\* It has ended and left a state to resume from, and the slot is free.
Resume(t) ==
  /\ proc[t] # "live" /\ SabrCapture(t) /\ SlotFree(owner[t])
  /\ Decided(t, "resuming", "resume")
  /\ active' = [active EXCEPT ![owner[t]] = Reserved]
  /\ UNCHANGED store

Refinalize(t) ==
  /\ proc[t] # "live" /\ HasMedia(t)
  /\ Decided(t, "refinalize", "reattach")
  /\ UNCHANGED <<active, store>>

LeftNothing(t) ==
  /\ proc[t] # "live" /\ ~HasMedia(t)
  /\ Orphan(t)
  /\ registry' = registry \ {t}
  /\ Decided(t, "done", "record")
  /\ UNCHANGED active

Reconcile(t) ==
  /\ app = "reconciling" /\ t \in pending
  /\ Adopt(t) \/ Resume(t) \/ Refinalize(t) \/ LeftNothing(t)

\* resume_inflight lists the open rows the registry does not know.  (The list
\* is made before a re-attached task has got anywhere.)
ListInflight ==
  /\ app = "reconciling" /\ pending = {}
  /\ app' = "inflight"
  /\ pending' = {t \in Takes : row[t] = "recording" /\ t \notin registry}
  /\ UNCHANGED <<supervisor, tasks, store, machine, asked, restarts>>

\* Nothing to resume from: orphaned.  (Mutant: left as it is.)
LeaveRow(t) == UNCHANGED row
OrphanRow(t) == Orphan(t)
Interrupted(t) ==
  /\ app = "inflight" /\ t \in pending
  /\ \/ OrphanRow(t) /\ Decided(t, "done", "record") /\ UNCHANGED <<active, registry>>
     \/ Resume(t)
     \/ /\ SabrCapture(t) /\ ~SlotFree(owner[t])     \* continue: the row stays open
        /\ Decided(t, "none", "record") /\ UNCHANGED <<active, store>>

\* The supervisor's loop starts to take signals and commands.  (By then a
\* re-attached task that is to finalize has run to its first await.)
OpenForBusiness ==
  /\ app = "inflight" /\ pending = {}
  /\ \A t \in Takes : task[t] # "refinalize"
  /\ app' = "running"
  /\ UNCHANGED <<supervisor, tasks, store, machine, asked, recovery>>

-----------------------------------------------------------------------------
(* The re-attached tasks.                                                  *)

\* adopt_detached, quitting again: the slot is given up, the row kept.
\* (Mutant: the registry row goes, as at the end of a finalize.)
ForgetOnQuit(t) == registry' = registry \ {t}
KeepOnQuit(t) == UNCHANGED registry
AdoptQuits(t) ==
  /\ ShuttingDown
  /\ Step(t, "adopting", "none")
  /\ ReleaseActive(owner[t])
  /\ KeepOnQuit(t)
  /\ UNCHANGED <<stopping, backoff, finalizing, stallKilled, stallCooldown, watching, owner,
                 kind, retries, row, machine, app, asked, recovery>>

\* finalize_reattached: shown as finalizing, and the monitor's entry removed,
\* whichever take put it there.
FinalizeReattached(t) ==
  /\ task[t] = "refinalize" \/ (task[t] = "adopting" /\ proc[t] = "dead")
  /\ task' = [task EXCEPT ![t] = "finalizing"]
  /\ finalizing' = [finalizing EXCEPT ![owner[t]] = t]
  /\ active' = [active EXCEPT ![owner[t]] = None]
  /\ UNCHANGED <<stopping, backoff, stallKilled, stallCooldown, watching, owner, kind, retries,
                 store, machine, app, asked, recovery>>

\* As Promote; but where the promotion is a remux, and an earlier run of the
\* program has done it, the working file is gone and the take is found empty.
PromoteReattached(t) ==
  /\ kind[t] = "reattach"
  /\ IF media[t] = "final" /\ owner[t] \notin SabrMonitors
     THEN Step(t, "finalizing", "notFound") ELSE Step(t, "finalizing", "promoted")
  /\ \/ UNCHANGED media
     \/ media[t] = "capture" /\ media' = [media EXCEPT ![t] = "final"]
  /\ UNCHANGED <<supervisor, owner, kind, retries, store, proc, app, asked, recovery>>

\* Its verdict knows no shutdown, and the backoff is not told.
ReattachedVerdict(t, gone) ==
  IF task[t] = "promoted" /\ HasMedia(t) THEN "completed"
  ELSE IF owner[t] \in stopping THEN "stopped"
  ELSE IF t \in stallKilled \/ gone THEN "ended" ELSE "failed"
SettleReattached(t, gone) ==
  /\ kind[t] = "reattach"
  /\ Step(t, "promoted", "settled") \/ Step(t, "notFound", "settled")
  /\ Finish(t, ReattachedVerdict(t, gone))
  /\ stopping' = stopping \ {owner[t]}
  /\ stallKilled' = stallKilled \ {t}
  /\ UNCHANGED <<active, backoff, finalizing, stallCooldown, watching, owner, kind, retries,
                 registry, machine, app, asked, recovery>>

ClearRow(t) ==
  /\ Step(t, "settled", "purging")
  /\ registry' = registry \ {t}
  /\ UNCHANGED <<supervisor, owner, kind, retries, row, machine, app, asked, recovery>>

\* purge_cache removes the working files that still carry the take's name, the
\* capture too if the promote failed and no rename gave it another one.
PurgeCache(t) ==
  /\ Step(t, "purging", "done")
  /\ \/ UNCHANGED media
     \/ media[t] = "capture" /\ media' = [media EXCEPT ![t] = "none"]
  /\ finalizing' = [finalizing EXCEPT ![owner[t]] = None]
  /\ UNCHANGED <<active, stopping, backoff, stallKilled, stallCooldown, watching, owner, kind,
                 retries, store, proc, app, asked, recovery>>

\* resume_recording: permit, shutdown check, then the tool is run at once.
ResumeStart(t) ==
  /\ PermitFree /\ ~ShuttingDown
  /\ Advance(t, "resuming", "spawning")
  /\ UNCHANGED recovery
ResumeGivesUp(t) ==
  /\ PermitFree /\ ShuttingDown
  /\ Step(t, "resuming", "none")
  /\ ReleaseActive(owner[t])
  /\ UNCHANGED <<stopping, backoff, finalizing, stallKilled, stallCooldown, watching, owner,
                 kind, retries, store, machine, app, asked, recovery>>

SettleResumed(t, gone) ==
  /\ kind[t] = "resume"
  /\ Step(t, "promoted", "done")
  /\ Finish(t, Verdict(t, gone))
  /\ backoff' = IF owner[t] \in stopping \/ ShuttingDown THEN backoff ELSE NoteResult(t)
  /\ stopping' = stopping \ {owner[t]}
  /\ stallKilled' = stallKilled \ {t}
  /\ finalizing' = [finalizing EXCEPT ![owner[t]] = None]
  /\ UNCHANGED <<active, stallCooldown, watching, owner, kind, retries, registry, machine,
                 app, asked, recovery>>

\* reconcile_orphan_outputs: a final file, or a capture in its final container
\* (SABR), makes the take complete; a .ts is left to the user.
RepairOrphan(t) ==
  /\ app = "running" /\ row[t] = "orphaned"
  /\ media[t] = "final" \/ SabrCapture(t)
  /\ row' = [row EXCEPT ![t] = "completed"]
  /\ UNCHANGED <<supervisor, tasks, registry, machine, app, asked, recovery>>

-----------------------------------------------------------------------------
Up == app \notin {"down", "reconciling"}
Serving == Up /\ app # "inflight"

RecoveryStep(t) ==
  \/ AdoptQuits(t) \/ FinalizeReattached(t) \/ PromoteReattached(t) \/ ClearRow(t) \/ PurgeCache(t)
  \/ ResumeStart(t) \/ ResumeGivesUp(t)
  \/ \E gone \in BOOLEAN : SettleReattached(t, gone) \/ SettleResumed(t, gone)

TaskStep(t) == Up /\ (RecoveryStep(t) \/ (TakeStep(t) /\ UNCHANGED recovery))

SessionStep ==
  \/ \E t \in Takes : Up /\ (StallKill(t) \/ QualityRestart(t) \/ WatcherEnds(t))
  \/ \E m \in Monitors : Serving /\ MonitorStep(m)
  \/ DrainDone \/ DrainTimesOut

StartUp == Launch \/ ListInflight \/ OpenForBusiness \/ \E t \in Takes : Reconcile(t) \/ Interrupted(t)

RNext ==
  \/ \E t \in Takes : TaskStep(t) \/ RepairOrphan(t)
  \/ \E t \in Takes : (ToolWrites(t) \/ ToolExits(t)) /\ UNCHANGED recovery
  \/ SessionStep /\ UNCHANGED recovery
  \/ Stopping \/ Purge \/ Detach \/ Exit \/ Crash \/ StartUp

RSpec == RInit /\ [][RNext]_rvars

-----------------------------------------------------------------------------
(* Fairness, as in Supervisor: the runtime polls what can move, the permits*)
(* are first come first served, capture tools end.  An exit that has begun *)
(* completes, and a program that has ended is started again.               *)
Permitted(t) == ResumeStart(t) \/ ResumeGivesUp(t) \/ (GetPermit(t) /\ UNCHANGED recovery)
RScheduling ==
  /\ \A t \in Takes :
       /\ WF_rvars(TaskStep(t)) /\ SF_rvars(Permitted(t))
       /\ WF_rvars(ToolExits(t) /\ UNCHANGED recovery)
  /\ \A m \in Monitors : WF_rvars(DrainKill(m) /\ UNCHANGED recovery)
  /\ SF_rvars(DrainDone /\ UNCHANGED recovery)
  /\ WF_rvars(StartUp) /\ WF_rvars(Purge) /\ WF_rvars(Exit)
RLiveSpec == RSpec /\ RScheduling

-----------------------------------------------------------------------------
(* What holds.                                                             *)

\* However runs end, a capture that is still running is known to the registry:
\* the next start finds it.
LiveIsRegistered == \A t \in Takes : proc[t] = "live" => t \in registry

\* When start-up has gone through the registry, the slot of every monitor with
\* a running capture names a process, so that no detection, no resume and no
\* finalize of another take finds it free.
AdoptedBeforeDetection ==
  [][app = "reconciling" /\ app' = "inflight" =>
       \A t \in Takes : proc[t] = "live" => active[owner[t]] \in Takes]_rvars

\* What this start of the program re-attached of monitor m.  Where there are two
\* takes, or one and takes that are resumed, the end of one removes the entry
\* of another from the active map.
Reattached(m) == {u \in Takes : owner[u] = m /\ kind[u] = "reattach"}
Contended(m) == \E u \in Reattached(m) : m \in SabrMonitors \/ Reattached(m) # {u}

\* A quit that stops the recordings, and whose drain was not cut short, leaves
\* no capture running: none that start-up re-attached, and one this run started
\* only where its entry had been removed under it, so that the drain did not
\* wait for a start that was past its last look at the flag.
StopLeavesNothing ==
  app = "purged" =>
    \A t \in Takes : proc[t] = "live" => kind[t] # "reattach" /\ Contended(owner[t])

\* The second pass found a capture it could resume and the slot taken by another
\* take of the monitor that start-up had adopted or resumed.
PassedOver(t) ==
  SabrCapture(t) /\ \E u \in Takes \ {t} : owner[u] = owner[t] /\ kind[u] # "record"

\* An open row has a task that settles it, or was passed over: no start-up
\* forgets a take for any other reason.
NoneForgotten ==
  app = "running" =>
    \A t \in Takes : row[t] = "recording" /\ task[t] \in {"none", "done"} => PassedOver(t)

\* Every row that is opened is settled in the end, by the task that opened it
\* or, when that was cut off, by a later start, however often that happens.
EveryRowSettles == \A t \in Takes : row[t] = "recording" ~> row[t] \in Settled

\* Over all the runs of the program a verdict is passed again only by a task
\* that start-up re-attached or resumed; an orphan may also turn out complete.
\* In particular neither pass of start-up orphans a take that has a verdict.
VerdictStands ==
  [][\A t \in Takes : row[t] \in Settled \ {"orphaned"} /\ kind[t] = "record" =>
       row'[t] = row[t]]_rvars
=============================================================================
