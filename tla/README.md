# A TLA+ model of StreamArchiver

StreamArchiver records live streams (Twitch, YouTube, Kick) unattended: it
polls channels and listens to pushes, starts a capture tool (streamlink,
yt-dlp) as a detached process when a channel goes live, and remuxes and files
the result when the tool ends. The program is a tokio application with a UI;
nearly all of its coordination goes through a few maps behind mutexes that are
**keyed by monitor** (a channel being watched), a SQLite store, and capture
processes that outlive the program.

This directory holds TLA+ modules for the parts of it where several tasks meet:
the life of a *take* (one recording), from the decision to record to its settled
row and over restarts of the program; the decision itself, where several
instances of a channel see one broadcast; the queue of ranges a take has lost
and the jobs that rewrite its files afterwards; the gate that a drive's bulk
passes queue at; and the token server that captures depend on. Paths below are
relative to the repository.

## 1. Inventory

| component | source | state it keeps | operations | what makes it correct |
|---|---|---|---|---|
| supervisor | `src/src/downloader/supervisor.rs`, `src/src/downloader.rs` | `active` (monitor -> pid, 0 = reserved), `stopping_monitors`, `backoff`, `finalizing`, `stall_killed`, `stall_restart_cooldown`, `last_state`, stop holds, the download semaphore | react to live/offline signals (`try_begin`, `handle_offline_signal`), manual start/stop, `record`, SABR retries, quality restart | one take per monitor; every slot given back; every open row settled once and with the right verdict; a stop is honoured |
| process | `src/src/downloader/process.rs` | pid in `active`, row in `detached_process` | spawn, reap, stall watchdog; after a restart: adopt, resume, finalize | every live capture is reachable by Stop, shutdown and the next start |
| app core | `src/src/app_core.rs` | `shutting_down` flag | start-up reconcile, stop-all with drain, detach-all | nothing is lost over a restart; the drain ends |
| store | `src/src/store/*.rs` | recording rows, registry rows, jobs | single statements under one lock | a settled row is not reopened |
| scheduler | `src/src/scheduler.rs` | snapshot of `active`, per-monitor clocks | poll due monitors, emit live/offline | a monitor being recorded is not polled; an edge is reported once |
| stop holds | `src/src/downloader.rs:472-530` | hold per monitor | set, expire, test | a stopped channel is not restarted by the same broadcast |
| simulcast dedup | `src/src/simulcast.rs`, `try_begin` | none of its own: reads slots, rows, `last_state`, `last_live_since` of every instance of a channel | record, stand by, or take over from another instance | one broadcast is captured once, but for a stop that is missed, and always by somebody |
| io gate | `src/src/io_gate.rs` | per drive: a semaphore, its number of permits, shrink debt, mode; saved limits, pins, adjuster streaks | acquire and release a pass, save limits and resize, pin, adjust to the disk's queue | no permit lost or made up, a lowered limit is reached, nobody waits for nobody, the gate follows the settings |
| scheduled recordings | `src/src/scheduled_recordings.rs` | rules with last-fired marks | fire due rules, stop expired ones | a rule fires once per occurrence |
| sub-only, chat-only, chat sidecars | `src/src/downloader/sub_only.rs`, `chat_only.rs`, `src/src/chat.rs` | sessions keyed by monitor | start, stop, replace | one session per monitor, always ended |
| dual capture | `supervisor.rs:5482-5605` | companion take of a SABR take | start, stop with the primary | the companion settles even if the primary fails |
| gap recovery | `src/src/downloader/alerts.rs`, `gap_recover.rs`, `src/src/store/alerts.rs` | `gap_range` rows, `LogScan`, the set of takes with a job | scan the tool's log, queue lost ranges, fetch them from the VOD, settle them | every loss is queued once, tried, and settled for good |
| post-processing of a take | `src/src/downloader/gap_splice.rs`, `backfill.rs`, `chapters.rs`, `ffmpeg_job.rs`, `src/src/disposal.rs` | `output_path`, `full_path`, the jobs' states, `ffmpeg_job` rows, in-flight sets | splice patches in, join the head, embed chapters, dispose of the parts; sweeps | no media lost or doubled, the row names files that exist, every job comes to an end |
| PO token server | `src/src/pot_server.rs` | `DESIRED`, `STATUS`, `OWNED_PID`, the watchdog's child, the saved pid | ping, launch, kill, adopt, start and stop requests | a wanted server is up, a Stop ends it |
| rolling, manual delete | `src/src/rolling.rs`, `manual_delete.rs` | disposal records | delete files | nothing in use is deleted |
| push sources | `src/src/eventsub.rs`, `websub.rs` | session, subscriptions, leases | connect, reconnect, renew | no live event lost without a poll behind it |
| VOD archive, clips, detectors, raid follow, diagnostics, UI, accounts, assets | see `PROJECT.json` | | | mostly I/O; the reason each is left out is in its note |

**Interactions.** The scheduler and the push sources send `LiveSignal`s to the
supervisor over a channel; the supervisor's loop calls `try_begin`, which
reserves the monitor's slot in `active` under the lock and spawns `record()`.
Watchdogs, watchers, the UI's Stop, scheduled stops and shutdown all act on
whatever `active[monitor]` holds at that moment. `record()` inserts the row,
writes the registry, and at its end promotes the file and settles the row.

**What is hard.** (1) `record()` gives the slot back *before* the remux, so two
takes of one monitor overlap, and the maps they share have one entry per
monitor. (2) A stop is a tombstone plus a kill: it may arrive when there is no
process yet, and the tombstone is read much later. (3) Quality watchers, SABR
retries and duplicate guards decide from something read before an await. (4)
Captures outlive the program; a start must adopt, resume or finalize them.
(5) The permit semaphore is held through the remux queue. (6) The number of
permits of a disk gate changes while passes hold and await them, from three
sides, each of which decides from something it read under another lock.
(7) The post-processing jobs of a take are kept single each by itself and by
nothing else; their ffmpeg passes outlive the program; each re-points the row
the others have read. (8) A fetch job works from rows that the scanner deletes
and inserts anew. (9) The instances of a channel decide without a common lock,
each from what the others show at that moment, and wait for each other under
clocks that may restart. (10) The token server's watchdog credits whatever
answers on the port.
The list with source lines is under `hazards` in `PROJECT.json`.

## 2. Modules

| module | what it is |
|---|---|
| `Supervisor` | the detailed model: capture slot and take lifecycle over one run of the program |
| `TakeLedger` | what the supervisor promises: a ledger of takes, each opened once, captured alone on its monitor, and settled once, after its capture is over |
| `SupervisorProofs` | the inductive invariants and the theorems for every value of the constants |
| `SupervisorRefinement` | the proof that `Supervisor` implements `TakeLedger` |
| `Recovery` | `Supervisor` over several runs of the program: quits that detach or stop, crashes at any step, the two passes of start-up, the re-attached tasks |
| `RecoveryClaims` | a statement of the repository about restarts that the code does not keep |
| `RecoveryProofs` | the inductive invariant and the theorems over any number of runs |
| `IoGate` | the disk gate of one drive: passes, saved limits, pins and the adjuster |
| `IoGateProofs` | the inductive invariant of the gate and its theorems |
| `Simulcast` | the instances of one channel deciding who records a broadcast |
| `SimulcastProofs` | its types, and that a broadcast on two platforms is captured twice only by a stop that was missed |
| `MCSimulcastClaims` | a statement of `simulcast.rs` that the code does not keep |
| `GapRanges` | the queue of lost ranges of one take: scanner, fetch job, sweeps, restarts |
| `GapRangesProofs` | the invariants of that queue and its theorems |
| `TakeFiles` | the files of one finished take: splice, join, chapters, clean-ups, restarts |
| `TakeFilesProofs` | the inductive invariant of the files and its theorems |
| `PotServer` | the PO token server, its watchdog, the requests, and the runs of the program |
| `PotServerProofs` | the invariant that ties the watchdog's pids to the machine |
| `MC*` | instances for TLC |

### Supervisor

A take is one call of `record()`; its task, its row, its registry row and its
process share one identity. `task[t]` is the program counter of the task:

    none -> deciding -> starting -> permitted -> inserted -> spawning -> capturing -> exited
         (try_begin)  (guard, permit)   (row)     |  (tombstone test)             |     |
                                                  +-> skipped                retry +<----+
    exited/skipped -> finalizing -> promoted -> done
                (slot freed)  (remux)   (verdict)

Every step boundary is an `.await` (or a lock release) of the code at which
other tasks run; code between two awaits is one action, with every state change
it makes: `Settle` removes the tombstone, writes the row and clears the
`finalizing` entry in one step because no await separates them.

| code | action |
|---|---|
| `try_begin`, up to the reservation | `TryBegin` (poll, push, WebSub, forced manual start) |
| the rest of `try_begin` (holds, trigger words, simulcast, gating) | `Admit` or `Decline` |
| duplicate guard, semaphore, shutdown check | `RefuseDuplicate`, `Acquire`, `AbandonStart` |
| `insert_recording_row` and the watcher it starts | `InsertRow` |
| tombstone test before the spawn | `SkipSpawn`, `PassStopCheck` |
| `run_process` | `Spawn`, `SpawnFails`, `Reap` |
| SABR retries | `Retry` with the budget in `Spend` |
| end of `record()` | `FinalizeBegin`, `Promote`, `Settle` |
| `manual_stop`, `quality_upgrade_watcher`, stall watchdog | `Stop`, `QualityRestart`, `StallKill` |
| `stop_all_recordings` | `StopAll`, `DrainKill`, `DrainDone`, `DrainTimesOut` |
| the capture tool (external) | `ToolWrites`, `ToolExits` |

What is abstracted: whether to record is a free choice; of a take's media only
the place matters (`media`: nowhere, the working file, the final file), since
the verdict reads whether there are bytes and the guards read where; clocks are free (a
backoff or a cooldown may expire at any time, a drain may time out); pids are
the take's id, never reused; store calls do not fail. Dual capture is off.

### Recovery

`Recovery` EXTENDS `Supervisor` and adds the ends and beginnings of a run. The
store (`row`, `registry`) and the machine (`proc`, `media`) survive;
`MemoryLost` resets everything else. The life of the program is `app`:

    running -> draining -> drained/timedOut -> purged/exiting -> down -> reconciling -> inflight -> running
           \-> exiting (detach)                (any state -> down: Crash)

| code | action |
|---|---|
| `detach_all`; `stop_all_recordings` after its drain; the runtime shut down | `Detach`; `Purge`; `Exit` |
| power cut, kill, panic: alone or with every child process | `Crash` |
| `reconcile_detached`, one registry row | `Adopt`, `Resume`, `Refinalize`, `LeftNothing` |
| `resume_inflight`, one open row the registry does not know | `Interrupted` |
| `adopt_detached` / `wait_for_exit` | `AdoptQuits`, or on to `FinalizeReattached` |
| `finalize_reattached` | `FinalizeReattached`, `PromoteReattached`, `SettleReattached`, `ClearRow`, `PurgeCache` |
| `resume_recording` | `ResumeStart`, `ResumeGivesUp`, then the supervisor's `Spawn` to `Promote`, `SettleResumed` |
| `reconcile_orphan_outputs` | `RepairOrphan` |

`finalize_reattached` is cut between its row write and its registry delete
although no await is there, because a crash does not wait for an await. Whether
yt-dlp left a state to resume from is a free choice for a SABR capture whose
working file is there. A process is recognised by pid and creation time
(`reconcile_detached` refuses one without), so pid reuse across runs is not
modelled. The first await of a finalizing re-attached task is assumed to be
reached before the supervisor's loop starts (`OpenForBusiness`).

### IoGate

`IoGate` stands beside the other modules: a remux queues at the gate, but to
`Supervisor` it is a promote that takes its time. One drive and its local gate
are modelled; the CDN gate is a second map with the same code.

| code | action |
|---|---|
| `local_pass`: pause and limits; `gate_sem`; `acquire_owned` | `ReadLimits`; `EnterGate`; `Acquire` |
| `LocalPass::drop`, `release_permit` under the lock; the drop after it | `PayDebt` or `NothingOwed`; `Return` |
| `modify_disk_limits`; `resize_existing_gates` | `Commit`; `SweepNothing`, `SweepStatic` and `ClearPin`, `SweepDynamic` |
| `pin_dynamic_permits` | `SetPin` |
| `dynamic_tick_for`: limits; pin; disk and permits; `set_dynamic_permits` | `TickRead`; `TickPin`; `TickMeasure`; `TickApply` |
| `apply_target` | the operators `Grow`, `Shrink`, `ApplyTarget` in all of them |

Each action is one lock's scope. Permits that come in (`Supply`) go to the
waiting tasks first, in order, as tokio's semaphore does; `held` are the tasks a
permit was handed to, so a pass is `in` while it waits and while it runs. An
entry with no permits stands for a drive without an entry. Abstracted: a paused
drive is a pass that comes later; a kill of a holder is a pass that ends; tasks
are not aborted; the streak of low readings is counted up to
`DYNAMIC_GROW_STREAK`; pins are cleared by the sweep of the local gate only.
Saves and pins come from the UI thread (`ui/app.rs`, `ui/background.rs`,
`ui/settings.rs`), so they do not overlap each other.

### Simulcast

One instance for each platform, and time in poll intervals: in every interval
the scheduler polls each instance that is not in `active`, in any order, and
what takes moments (a decision, a set-up, a kill) is over before the next.
`try_begin` is cut where other tasks run: the reservation is one step, the
decision another, the row a third, so an instance may decide while another has
a reservation and no row. The run loop handles one signal at a time; a push is
a task of its own and forgets the backoff. What cannot change during a
broadcast is one constant record `given`: the policies, who is ad-free, whose
Auto is off, blacklisted or dormant, whose captures get no footage.

| code | action |
|---|---|
| `tick` of the scheduler, one outcome; its error | `Poll`; `PollFails` |
| `run` and `try_begin` to the reservation; `manual_start` on a push | `TryBegin`; `Push` |
| `simulcast_decision`, `decide`, `effective_platform` | the operators `StandsBy`, `TakesOver`, `WaitsFor`, `EffectivePlatform` |
| blacklist veto; Auto off and Standby (`mark_live_not_recording`); Record and Takeover (`manual_stop`) | `Vetoed`; `Declines`; `Records` |
| `insert_recording_row`; the tombstone test; `run_process` to the pid in `active` | `InsertRow`; `PassStopCheck`, `SkipSpawn`; `Spawn` |
| a SABR retry, from the test of the tombstone to the wait before its `run_process` | `Retry`, then `Spawn` |
| the end of the capture | `Killed`, `ToolEnds`, `ToolDrops` |
| finalize: state, `note_result`, tombstone | `Settles` |
| the settle window, the backoff and the stop's 120 s run down | `Tick` |

As in `Supervisor`, the test of the tombstone and the launch are two steps, and
a SABR retry makes the test before `ensure_up` and its sleep: the slot is then
`launching`, with no tool behind it. `manual_stop` finds nothing to kill there.
The history variable `missed` records whom such a stop has hit; no guard reads
it.

Left out: forced starts, trigger hits and holds, which go round the dedup;
subscriber-only sessions; the stall cool-down; a tool that cannot be started;
two takes of one instance that are both in finalize. Retries are bounded by the
mishaps, not by a budget of their own. With `SlowFinalize` a finalize may outlast the next poll.

### GapRanges

Time is the position of the live edge, and a step of it is minutes (the scanner
runs every 60 s, the VOD lags by 240 s). A loss is a position; neighbouring
losses are one range, so padding and coalescing need no arithmetic; that a
range the VOD covers is too far back for a new loss to touch it is
`RangesAssumption`.

| code | action |
|---|---|
| `scan_log_cycle`, `replace_pending_gap_ranges` | `Scan`, with `Replace` and `Ranges` |
| `maybe_kick_gap_recovery`; the final sweep of a take | `Kick`; `Finalize` |
| `gap_recover_job`: rows and anchor; playlist; one range after the other; end | `JobReads`; `Resolves`, `Misses`, `Cools`; `Marks`, `Fetches`, `FetchFails`; `JobEnds` |
| the watchdog is aborted with the tool | `ToolExits` |
| restart: adopted log; `retro_scan_capture_logs`; `sweep_pending_gap_recoveries` | `Restart`; `Retro`; `Sweep` |

Row ids are modelled, because the job writes by id and the table gives ids out
again; the history variable `strayed` records that it has so written to a range
it had not read. The YouTube heal, which fills the same queue, and a dismissed row are
left out.

### TakeFiles

A file is the set of what can be seen in it. A job's program counter `at` moves
from its trigger over an adopted or a new ffmpeg pass to the rename, the row and
the clean-up; every await of the code separates two actions.

| code | action |
|---|---|
| `finalize_recording`; `head_backfill_job`; the last range settles | `Finalize`; `HeadStarts`, `HeadLands`, `HeadFails`; `GapsSettle` |
| `maybe_spawn_gap_splice`, `maybe_spawn_chapters`; the hourly sweeps | `Trigger`; `Sweep` |
| `gap_splice_job` up to ffmpeg | `SpliceProceeds`, `SpliceRefused`, `TurnsBack` |
| `maybe_concat_backfill` up to ffmpeg | `Proceeds`, `JoinRefused` |
| `chapters_job` up to ffmpeg | `Proceeds`, `ChaptersSkipped` |
| `spawn_ffmpeg_job`, `adopt_or_clear_prior_ffmpeg_job`, `finish_ffmpeg_job` | `Spawn`, `Adopt`, `PassSucceeds`, `PassFails`, `OrphanEnds` |
| verification and rename | `Promote`, `Discard`, `PromoteFails` |
| `post_gap_splice_cleanup` | `SplicePoint`, `SpliceDone`, `DropPatches`, `DropMain` |
| `post_join_cleanup` | `JoinDone`, `DropHead`, `MainIsThere`, `MainIsGone`, `JoinPoint`, `DropMain` |
| start-up sweeps, `requeue_stale_head_backfills` | `Restart` |

Assumed: gap splice is turned on; one writer for each temporary file (a quit
drops the jobs at once); an embed that succeeds has copied all of its source;
the anchor check accepts the live capture and no file made from it (generous:
the code tells them by a window of plausible start times, remux.rs:896, and
keeps the live start for later runs, backfill.rs:210; `NothingTwice` rests on
it); database
writes succeed; one drive. Left out: re-embeds by hand, the re-fetch of a
mismatched head and the supersede of old ones, dismissal, the embed into a
broadcast file.

### PotServer

The machine (processes, the listener on the one port, a storm of token
rejections), what outlives a run (settings, the saved pid), the run (`DESIRED`,
`STATUS`, `OWNED_PID`) and the watchdog's locals are separate variables, because
the code keeps them in separate places that disagree for a while. The watchdog
does one thing at a time; between two of its steps anything else may happen.
Sleeps have no length, so a nudge, which only cuts one short, is no action.

| code | action |
|---|---|
| `watchdog_loop`: top; ping and `watch_action` | `Looks`; `Pings` (Idle, Healthy and Grace included) |
| `Action::Kill`; `Action::Spawn` | `Kills`; `Spares`, `KillsListener`, `NotInstalled`, `Launches`, `LaunchFails` |
| the startup window | `ComesUp`, `FindsAnother`, `StartupFails` |
| `request_start`, `request_stop`, `stop_external`, `take_control`, `ensure_up`, `apply_settings` | `RequestStart`, `RequestStop`, `StopExternal`, `TakeControl`, `EnsureUp`, `ApplySettings` |
| `stop_all_recordings`, `kill_managed`; exit, detach or crash; `init` | `StopAll`, `KillManaged`; `Exits`; `Starts` |
| the server (external) | `Binds`, `GetsBusy`, `Recovers`, `Wedges`, `Crashes`, `OthersLaunch` |

A busy server misses the 4 s ping and answers the long one; a wedged one answers
none. That the long ping tells them apart is therefore given, and that a busy
server is never killed is not checked. During a storm the code spares a silent
server while its log is fresh (pot_server.rs:736); here the storm itself ends. A change of the port and a bind of one address family only are left out.

### TakeLedger

Opening gives a take a monitor; a capture starts only on an open take and only
if none runs on the same monitor; a verdict is given once and only when the
capture is over. `Supervisor!Ledger` is the refinement mapping: `row` is the
ledger's state and the live processes its running captures.

## 3. Runs

| run | instance | properties |
|---|---|---|
| `supervisor_safety` | two monitors (one SABR, one with a quality watcher), two takes, two permits, one retry | `TypeOK`, `SlotExclusive`, `LiveIsTracked`, `OpenRowIsOwned`, `SettledIsFinal`, `LedgerSpec` |
| `supervisor_live` | one monitor, two takes, one permit, retries | `SlotIsFreed`, `EveryTakeSettles`, `DrainEnds` |
| `recovery_safety` | two takes that meet on a SABR or on a non-SABR monitor (`OnOneMonitor`), two restarts | `RTypeOK`, `LiveIsRegistered`, `NoneForgotten`, `StopLeavesNothing`, `AdoptedBeforeDetection`, `VerdictStands` |
| `recovery_live` | a SABR and a non-SABR monitor, one take, two restarts | `EveryRowSettles` |
| `io_gate` | three passes, limits 1 (saved as 0) and 3 | `GTypeOK`, `PermitsAddUp`, `NobodyWaitsIdly` |
| `io_gate_live` | three passes, limits 1 (saved as 0) and 2, saves and ticks in turn | `LimitIsReached`, `EveryPassIsServed` |
| `simulcast` | two platforms, one of them without a time of going live; eleven settings; settle window of 3 intervals, stop 2, backoff 5 and 10; one mishap | `TypeOK`, `OneCapture`, `SomebodyRecords`, `ACaptureLasts` |
| `gap_ranges` | a stream of four positions, lag 2, two tries, one missing playlist, one restart | `RangesTypeOK`, `RowsAreApart`, `LossesAreQueued`, `SpliceIsAsked`, `SettledForGood`, `JobIsOver` |
| `take_files` | one take with or without head and patches, two embed attempts, one restart | `FTypeOK`, `RowNamesFiles`, `NothingTwice`, `NothingIsLost`, `SpliceComesToAnEnd`, `ChaptersComeToAnEnd` |
| `pot_server` | four processes, one mishap, two clicks, two runs | `PTypeOK`, `StopEndsIt`, `ServerStaysUp` |
| `claim_capture_kept`, `claim_stranded` | the smallest instance that shows the disagreement | `CaptureIsKept`; `StandbyTakesOver` |

Two takes are what the hazards need: the older one in finalize, the newer one
in capture. Both may be on one monitor or on two, so the runs cover takes that
share every per-monitor map and takes that share only the semaphore.
`MaxRetries = 1` already allows a retry, an exhausted budget and a refund. The
proofs remove the bounds for the safety properties. The monitor of
`supervisor_live` is a SABR monitor, so no quality watcher runs in it; with
`SabrMonitors` empty, where one does and nothing is retried, the same instance
was checked once (78 000 states). Monitors are not symmetric
(SABR or not) and takes are ordered, so no symmetry is used in these runs.
Deadlock checking is off in them: a take id is used once, so an instance ends
when all are done, and the program stops after its drain.

At a gate, three passes are the least that let two hold permits over a lowered
limit while a third is the backlog; the step from 1 to 3 lets a resize meet idle
permits, waiters and debt at once. A pass comes again when it has ended, so
runs are endless and deadlock is checked. Passes are symmetric, which the
safety run uses. In `io_gate_live` a save and a tick start only when the other
is over (`TakeTurns`); `io_gate` lets them overlap at every lock.

Two restarts (three runs) let a take be captured in one run, adopted or cut off
in its finalize in the next, and re-attached or finalized again in the last. Two takes of one monitor are needed wherever one
take's recovery meets another's capture; takes of two monitors share only the
semaphore after a restart, so a constraint keeps them on one monitor, and the
behaviour chooses whether its takes can be resumed. Two of the properties have
an exception, because the code has (section 4). `NoneForgotten` lets an open row
be that was `PassedOver`: a capture `resume_inflight` could resume, whose slot
start-up had given to another take (process.rs:416-418). `StopLeavesNothing` lets
a capture be whose monitor is `Contended`: start-up has re-attached two takes of
it, or one and it is a SABR monitor, so that the end of one can remove the
entry of another. Both exceptions are reached here, on the SABR monitor, and
each property is violated without its exception. Without SABR the exception of
`StopLeavesNothing` takes three takes and three restarts, which only the proof
covers in full; that instance was searched with the takes' phases narrowed (3.4
million states). `MaxRetries` is 0 in these runs: retries are the subject of `Supervisor`'s.

The dedup needs two instances and two stretches of waiting that differ: a settle
window that ends before a backoff does, and one that does not; the third
failure in a row is the first whose wait is the longest (`MaxWait`). A mishap (a
broadcast that ends, a failed poll, a push, a capture that drops or is retried)
may fall anywhere; the safety part, with the inductive invariant of its proof,
has also been checked with two (2.0 million states). YouTube is captured with
SABR here; it is the one taken over from where Twitch is preferred. The two
windows of a missed stop are reached, and without `\ missed` TLC finds
`OneCapture` violated after 13 steps.
`CHECK_DEADLOCK` is off where a run may stop: without a broadcast the intervals
do go on, but a dormant channel has nothing else to do.

Four positions leave room for two ranges with a covered gap between them and for
a loss next to a range that is being fetched. A job strays in this instance
after a restart, and without one from six positions on; with nine,
`LossesAreQueued` does not hold without its hypothesis `~strayed`. The safety
part was checked once with nine (without restarts, 30
million states) and is proved for any number. In `take_files` one restart may
fall between any two steps, and the pass it leaves behind meets the repeated
job; the proofs take the bound away for safety. Four servers let a launch, an
older server, one of others and one that replaces them be there together; the
instance with two mishaps and two clicks was checked once as well (3.3 million
states).

**Fairness.** A task that can move is polled by the runtime (`WF` on each
take). Tokio's semaphore is first come, first served, so a task that could take
a permit infinitely often gets one (`SF` on `GetPermit`). A retry budget refunds
itself on a long run, so in principle a take could be retried for ever; a
broadcast ends, hence `SF` on `FinalizeBegin`. `LiveSpec` adds that a tool ends
(the broadcast ends, or the stall watchdog kills it), except while the program
drains: there the loop's own kills must do it, and `DrainEnds` says that they
do. No fairness is put on stops, starts, clocks or the drain's time limit. `recovery_live` adds that
an exit that has begun completes and that the program is started again; the
last run it explores goes on for ever (`MayEnd`), so "in the end" means that
the program is at last left running. At the gate (`GFairness`) a task that
waits or runs is polled, an ffmpeg pass ends, and the UI thread finishes a save
it has begun; nothing is assumed of new passes, saves, pins or the adjuster. The scheduler and the
run loop go on (`WF` on `Tick` or any work of an instance; a `Tick` waits until
everything due is done), a capture of a broadcast that is over ends, and so does
a finalize. `SomebodyRecords` and `ACaptureLasts` are about broadcasts that stay
on. A fetch job's step comes to an end (`WF` on `JobStep`): requests and
cool-downs have a time limit, of the ffmpeg mux it is assumed; for takes, see
`FLiveSpec`: jobs and ffmpeg passes go on, and the hourly sweeps come. The
watchdog of the token server goes on, a storm of rejections ends, and a server
that boots or is busy gets done (`Machine`); nothing is assumed of clicks or of
wedged servers.

## 4. What the code does that its comments do not say

Two sentences of the repository are stated as properties and found violated by a
run (`PROJECT.json` quotes the lines):

* `CaptureIsKept` (`claim_capture_kept`): `finalize_reattached` purges the
  working directory even if the promote failed, and so deletes the only file of
  a take it has just marked `completed`. The other finalize paths purge after a
  promotion only.
* `StandbyTakesOver` (`claim_stranded`): a preferred instance on a platform that
  does not say when it went live, whose broadcast a blacklist rule matches, is
  stamped as having just gone live at every poll, so the instances that stand by
  for it wait for ever.

The following came up while modelling. They are behaviours of the modules above
(or of the code at the given line) and are described rather than run.

* *Takes.* Tombstones of a stop are per monitor: an older take in finalize
  consumes the one meant for the newer take, which is then `failed`
  (supervisor.rs:4317, against the comment at 5401). A stop of a bare
  reservation that is later declined leaves its tombstone, and the next take is
  skipped. Between the exit of a tool and the next spawn `active` keeps the pid
  of a dead process (supervisor.rs:2656). The duplicate guard looks at a file
  that exists only after the promote (supervisor.rs:3995).
* *Restarts.* Finalizing an older re-attached take evicts the adopted capture of
  a newer one (process.rs:1062), and detection finds the monitor free. The take
  that starts beside it then loses its own entry when the adopted one ends or
  quits (process.rs:874, 1062): the drain of "Quit & stop" finds the map empty
  while that start is past its last look at the flag, and its tool is launched
  after the kills and runs on, against "kill the tool process trees (so each
  task's child exits), then wait" (app_core.rs:688-690). A resumable row that
  start-up passes over stays open until a later start. A
  re-attached take whose finalize is cut off after the remux is finalized again
  by the next start, which finds no working file and marks the saved recording
  `failed`.
* *Lost ranges.* The job writes by ids that the table may have given to another
  range since (gap_recover.rs:213, migrations.rs:1320): the wrong range is marked
  done; it takes three ranges, one of them fetched in vain. If it is one at the
  live edge, a loss that lengthens it is in no range at all, because a row that
  is kept bars the longer one. The final sweep of a take is dropped while a job
  of its live phase is in flight (gap_recover.rs:48), and what that job had not
  read waits for the next start, against supervisor.rs:5442. The start-up sweep
  takes a take that is still live for a finished one (gap_recover.rs:64). The
  last minute of a log is not read when the tool exits (process.rs:1984), and a
  retro scan passes over logs that have an alert.
* *Files of a take.* A join that re-points the row before the ranges settle
  leaves the take unspliced, against README.md:2113. An embed renames its copy
  over the path it read at its beginning (remux.rs:1234), so the markers may end
  up in a file the row no longer names, against README.md:2185.
* *Simulcast.* With three platforms the preferred one takes over only the young
  capture and records beside an established one. A sibling may start right after
  the preferred capture ended, because its state is no longer "live"
  (against simulcast.rs:363-366). Instances that each prefer themselves take the
  broadcast from each other again and again. A takeover whose stop falls between
  the loser's test of the tombstone and the launch of its tool
  (supervisor.rs:4156, process.rs:1821-1841), or into the wait before a SABR
  retry (tested at 4209, run at 4239), kills nothing: the tool is launched, and
  both instances record until the loser's broadcast ends, unless the preferred
  instance starts again while that capture is young and stops it. This is against
  "only that one records" (README.md:327); it is the exception (`missed`) of
  `OneCapture`. When a finalize outlasts the next
  poll (`SlowFinalize`) and two mishaps meet, an older take's settle removes the
  tombstone of a takeover and both instances capture.
* *Detection.* A not-recorded session is closed only on the edge from "live" to
  "offline" (scheduler.rs:500): a failed poll in between leaves it open, and the
  next broadcast continues it.
* *Token server.* A server, own or adopted, that misses three pings gets another
  launched beside it; if it answers again while that one boots, the new one is
  credited as up (pot_server.rs:826) although it will find the port taken, and
  the old one is forgotten and survives a Stop: hence the hypothesis of
  `StopEndsIt`. `kill_managed` goes by a pid that an adopted server never sets,
  so "Quit & stop" leaves that server running and forgets it (app_core.rs:745).
  An own child that hangs is never killed, and launches beside it fail for ever:
  hence the hypothesis of `ServerStaysUp`. A kill with nothing but a foreign
  silent listener around clears the saved pid and loops without a sleep.
* *Disk gate.* A save that makes a drive dynamic without raising its limit leaves
  the gate's own flag static until a new pass comes, against a comment that says
  the flag cannot drift.

## 5. What is proved

`SupervisorProofs` (TLAPS), for any finite or infinite set of monitors and
takes, any number of permits and retries, from `IdAssumption` and
`BoundAssumption` alone:

* `TypeCorrect`: `Spec => []TypeOK`.
* `OneTakePerSlot`, `NoStrayCapture`, `OpenRowHasTask`, `VerdictIsFinal`: the
  safety properties of the run `supervisor_safety`.
* `NoLeakedSlot`: an entry is in the active map exactly while a take of its
  monitor is set up or captured. `DrainIsFinal`: once the drain has found the
  map empty no capture runs and none can start. They are the safety halves of
  `SlotIsFreed` and `DrainEnds`.

None of them is inductive alone. The invariant `SlotInv` ties the five pictures
the program has of a take together: a task in a slot phase means its monitor's
entry is there, and no other task of the monitor is in one; a capturing task's
entry is its own pid; a live process belongs to a task that is capturing; a
capturing task is in the registry; a row is open in exactly the phases between
its insert and its settle. That `release_active` is keyed by monitor only is
harmless because whoever releases is the one holder. `HeldInv`, on top of it, is
the other direction: an entry that is there has such a task behind it, what is
shown as finalizing is in its finalize, and after a complete drain every task
that is under way has the check of the shutdown flag still before it.

`SupervisorRefinement` proves `ImplementsLedger == Spec => LedgerSpec`: each
action maps to opening, starting, ending or settling a take, or to a stutter.

`RecoveryProofs` proves, with `RestartAssumption` added, for any number of
restarts: `RecoveryTypes` (`RTypeOK`), `NoStrayAfterRestart`
(`LiveIsRegistered`), `VerdictOutlivesRuns` (`VerdictStands`) and
`AdoptionPrecedesDetection` (`AdoptedBeforeDetection`). `RInv` adds to the types
that a take the registry or the start-up list names has a row and an owner (so
its id is not given out again), that a live process is registered *and* its
task is capturing, adopting, or gone with the last run (so no task that deletes
registry rows is at work on it), and that the row of a task of this session is
open. `AdoptionPrecedesDetection` needs one more: while the registry is gone
through, a live capture is either still to be decided about or its monitor's
slot names a process; a resume takes only a free slot and an adoption always
puts a pid, so neither undoes the other. What the supervisor's own steps do to
types is taken from `SupervisorProofs`.

The other theorems of the module rest on two more invariants. `StartInv` says
which function runs a take in which phase, that before the supervisor's loop
runs nothing is recorded and a taken slot belongs to a take start-up has decided
about, and where an open row may be without a task at each stage of start-up;
it gives `NoTakeIsForgotten` (`NoneForgotten`). `SeatInv` is `SlotInv` over
restarts. There the holder may lose its entry to another take, so each part has
the exception `Contended`, and the work is to show that nothing else can do it:
a task that clears an entry is the holder, or one that start-up re-attached
beside another or beside a resumed take, and start-up alone re-attaches. It
gives `CleanStop` (`StopLeavesNothing`), `OneCaptureOverRestarts` (two captures
on one monitor only if it is contended) and `CapturesAreSeenOverRestarts` (Stop
and the drain find every capture by its pid, or its monitor is contended).
`NoSlotLeaksOverRestarts` needs no exception: an entry always has a holder, for
whoever leaves its slot clears the monitor's entry, its own or not. One lemma
for each kind of step (`TaskFacts`, `OutsideFacts`, `BeginFacts`) says what it
may do to the rest, and the invariants are proved from those, not from the
single actions. The three theorems without a run property were checked with
TLC as well before they were proved.

`IoGateProofs` proves, from `GateAssumption` (finitely many passes, limits that
are numbers), `GateTypesHold` (`GTypeOK`), `PermitsAreConserved`
(`PermitsAddUp`) and `QueueHasARunner` (`NobodyWaitsIdly`) for any number of
passes and any limits, 0 included. The conservation law alone is not inductive:
a permit handed to a pass that already has one, or to one queued twice, would
vanish. `GateInv` adds that the queue has no repetitions and holds no permit,
that permits are idle only when nobody waits, that a pass is in the queue or
holds a permit only while its task is at the gate, where the gate has at least
one permit, and that what the threads carry between two
locks has a value. `NeverMoreThanSet` says for every `n` of at least 1: if no
limit and no pin is ever above `n`, no more than `n` passes ever hold a permit.
Right after a limit was lowered a pass may still be admitted over it (a permit
on its way back is handed on), so the bound is the highest number set, and the
invariant (`Below`) is about the permits in circulation together with every
number a thread has read and not yet applied. TLC checked it for `n = 3` in the
instance of `io_gate`. Resizes are treated once, in a lemma on `ApplyTarget` that
every action with a resize cites.

`TakeFilesProofs` proves, from `FilesAssumption`, `FilesTypesHold` (`FTypeOK`),
`NamedFilesExist` (`RowNamesFiles`), `NothingIsThereTwice` (`NothingTwice`) and
`NothingGetsLost` (`NothingIsLost`) for any number of embed attempts and
restarts. `FilesInv` says what every file may hold (a gapless file has the live
media and the patches, a full one the head as well), that the temporary file of
a pass has what its sources had, also when the pass is an earlier run's, and
what is left to do to a file depends on where the other two jobs are: a main
file is removed only when the row names one that has all of its media.

`GapRangesProofs` proves, from `RangesAssumption`, all safety properties of
`gap_ranges` for a stream of any length and any number of attempts, restarts and
missing playlists: `RangesTypesHold` (`RangesTypeOK`), `NoRangeTwice`
(`RowsAreApart`), `NoLossIsDropped` (`LossesAreQueued`), `SpliceIsNotForgotten`
(`SpliceIsAsked`) and `SettledIsSettled` (`SettledForGood`). `QueueInv` says of
each row the job has read that the row which now has its id, if any, is pending
or the one the job is at; so a write never opens what is settled, and attempts
stay in bounds though the job counts from what it read. `LossInv` adds that a
range a job has begun with is closed: it ends behind the live edge with no loss
next to it, since the VOD lags and the scanner has read the whole log when the
job starts. A range of losses that meets it later is therefore the same range,
and dropping it loses nothing. The ids rest on two lemmas about ranges (maximal
runs of losses are apart and cover every loss) and one about their ranks.

`SimulcastProofs` proves, from `SimulcastAssumption`, `SimulcastTypesHold`
(`TypeOK`) for any number of instances, and `NeverCapturedTwice` (`OneCapture`)
for a channel on at most two platforms (`AtMostTwo`; with three it does not
hold, see section 4) and finalizes that are over before the next start of their
monitor, for any settle window, backoff and number of mishaps: of the tools that
run, told to stop or not, at most one is not among the `missed`. The invariant
`DedupInv` has three parts beside the types. `OneClaim`: at most one instance is
between its decision and the end of its tool without a tombstone, because who
records has either found every other slot free or stopped whoever has one (with
one setting for all the preferred instance of one is that of the other).
`StopsAreMissed`: a tool that runs against a tombstone, or is about to, is one
whose stop fell between test and launch; every other stop is found by the test
or kills the tool. `OneTakeEach`: only the end of a take removes its tombstone,
when its instance has no newer take. TLC has checked the three before the proof.

`PotServerProofs` proves `PotTypesHold` (`PTypeOK`) for any number of servers,
clicks, mishaps and runs: at most one server has the port and it is the one the
machine says is up, and `OWNED_PID`, which the quit path kills by, is `None`, the
watchdog's child or the server that starts up. That is inductive only with the
fact that while a server starts up the pid is not an older child's.

Under the hypothesis `[]~GivenUp` of `StopEndsIt` (without it the statements are
false, section 4), `NoServerIsLost` says that the program has at most one server
of its own, that the watchdog holds its pid, and that while the program runs it
is the pid saved for the next run; `KillEndsAll` that after the watchdog's kill
none of this run is left, which is the safety half of `StopEndsIt`. The
invariant is `Kept`: which servers may be there depends on where the watchdog
is, none while it suspects or launches, the launched one while that boots, the
own one otherwise. `OneOwnServer` was checked with two mishaps (1.3 million
states) before.

Only model-checked: the liveness properties (fairness and ENABLED are out of
the prover's reach: `SlotIsFreed`, `EveryTakeSettles`, `DrainEnds`,
`EveryRowSettles`, `LimitIsReached`, `EveryPassIsServed`, `SomebodyRecords`,
`ACaptureLasts`, `JobIsOver`, `SpliceComesToAnEnd`, `ChaptersComeToAnEnd`,
`StopEndsIt`, `ServerStaysUp`) and the two claims, which do not hold. Every
invariant and every action property of a passing run is proved, and so is the
refinement.

## 6. Not modelled, and the plan

Left out of the modules above: failing store calls, the quality of a capture,
file names, chat, thumbnails, alerts and statistics written on the way; dual
capture; videos and chat processes, which share the registry but not the slot
map. Components without a module are listed in `PROJECT.json` with the reason.

Not under `hazards` in `PROJECT.json`, or there without a property, because no
module reaches them yet: watchers and chat loggers that do not stop
(supervisor.rs:5114), the Issues panel's Finalize now against a take's own
finalize (process.rs:1357), a pid that is used again (supervisor.rs:2656), and
those of section 4 that name a line.

Read and not modelled, although there is state in it: EventSub (a
`stream.online` that arrives while the previous take is active is lost to a
monitor without polls; a subscription whose POST failed is tried again only
after a reconnect) and WebSub (leases). Both amount to "a poll comes behind",
which a model with a fair poll makes true by construction.

Out of reach or without shared state: network probing and scraping (detectors,
CDN recovery), formatting (plans, names), the user interface, which only reads
the shared maps and sends the requests modelled above.

Next, in this order:

1. `FinalizeNow`: the Issues panel's rescue of a quiet open row against the
   take's own finalize (composes with `Supervisor`).
2. `StopHold`: holds of a stop against polls, pushes, triggers and restarts,
   with an abstract "a stopped broadcast is not restarted" it implements.
3. `Simulcast` with holds and forced starts, and over `Supervisor`'s takes in
   place of its own.
4. `Sessions`: chat sidecars, chat-only and subscriber-only sessions, the dual
   capture companion.
5. `ScheduledRecordings`, rolling expiry and manual delete against the jobs of
   `TakeFiles`; the YouTube heal against `GapRanges`.
6. `IoGate` with an abstract gate it implements, the CDN gate as a second
   instance (both clear one pin), and the pause.
7. More proofs: the abstract gate of item 6 as a refinement, and the safety
   halves of the liveness properties of `TakeFiles`, `GapRanges` and `Simulcast`
   (what a job that waits is waiting for).
