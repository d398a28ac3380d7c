---------------------------- MODULE RecoveryProofs ----------------------------
(***************************************************************************)
(* What holds over any number of runs of the program, for every set of     *)
(* monitors and takes.  RInv adds to the type invariant what a restart     *)
(* relies on: an id the store or the registry knows is not given to        *)
(* another take, a running process is registered and its task in one of    *)
(* four phases, and the open row of a take of this session is its task's.  *)
(* StartInv says what start-up has decided and what it has still to, and   *)
(* SeatInv is the slot over restarts, with the exceptions the code makes.  *)
(***************************************************************************)
EXTENDS Recovery, SupervisorProofs

USE IdAssumption DEF SlotFree, ReleaseActive, Finish, Track, CaptureOver, Spend, TakeSlot,
                     OrphanRow, KeepOnQuit, PurgeJobs

\* Before its row exists a take is in one of these phases.
EarlyPhases == {"deciding", "starting", "permitted"}

Known ==
  /\ \A t \in Takes : row[t] # "none" => owner[t] \in Monitors
  /\ \A t \in Takes : task[t] \in EarlyPhases => row[t] = "none"
  /\ \A t \in registry \cup pending : row[t] # "none"
  /\ \A t \in Takes : row[t] = "none" => kind[t] = "record"
Watched ==
  /\ \A t \in watching : kind[t] = "record" /\ t \notin pending
  /\ \A t \in Takes : task[t] \in {"adopting", "resuming", "refinalize"} => kind[t] # "record"
  /\ app \in {"down", "reconciling"} => watching = {}
Registered ==
  \A t \in Takes : proc[t] = "live" =>
    t \in registry /\ task[t] \in {"none", "done", "capturing", "adopting"}
OwnRow ==
  \A t \in Takes : kind[t] = "record" /\ task[t] \in OpenPhases => row[t] = "recording"

RTypeInv == RTypeOK /\ TypeInv
RInv == RTypeInv /\ Known /\ Watched /\ Registered /\ OwnRow

-----------------------------------------------------------------------------
(* The beginning, and what a step of the supervisor alone preserves.       *)

LEMMA InitRInv == RInit => RInv
<1> SUFFICES ASSUME RInit PROVE RInv
  OBVIOUS
<1>1. TypeInv
  BY InitTypeInv DEF RInit
<1>2. RTypeOK
  BY <1>1, RestartAssumption DEF RInit, RTypeOK, TypeInv
<1>3. Known /\ Watched /\ Registered /\ OwnRow
  BY DEF RInit, Init, Known, EarlyPhases, Watched, Registered, OwnRow, OpenPhases, FinalPhases
<1>4. QED
  BY <1>1, <1>2, <1>3 DEF RInv, RTypeInv

LEMMA SupervisorStepTypes ==
  ASSUME RTypeInv, Next, UNCHANGED recovery
  PROVE  RTypeInv'
BY StepTypeInv DEF RTypeInv, RTypeOK, TypeInv, recovery

LEMMA TakeStepRInv ==
  ASSUME RInv, NEW t \in Takes, TakeStep(t), UNCHANGED recovery, Up
  PROVE  RInv'
<1> USE DEF RInv, Step
<1>0. RTypeInv'
  BY SupervisorStepTypes DEF Next
<1> USE <1>0 DEF RTypeInv, RTypeOK, TypeInv, TypeOK, recovery
<1>1. ASSUME NEW from \in SlotPhases \cup FinalPhases, NEW to, Advance(t, from, to),
             to \notin {"adopting", "resuming", "refinalize"},
             to \in EarlyPhases => from \in EarlyPhases,
             to \in OpenPhases => from \in OpenPhases,
             from \notin {"none", "done", "capturing", "adopting"}
      PROVE  RInv'
  <2>1. Known' /\ Watched'
    BY <1>1 DEF Advance, supervisor, store, machine, Known, Watched
  <2>2. Registered' /\ OwnRow'
    BY <1>1 DEF Advance, supervisor, store, machine, Registered, OwnRow
  <2>3. QED
    BY <2>1, <2>2
<1>2. CASE Decline(t) \/ RefuseDuplicate(t) \/ AbandonStart(t)
  <2>1. PICK from \in {"deciding", "starting"} : GiveBack(t, from)
    BY <1>2 DEF Decline, RefuseDuplicate, AbandonStart
  <2>2. row[t] = "none" /\ t \notin registry \cup pending
    BY <2>1 DEF GiveBack, Known, EarlyPhases
  <2>3. Known' /\ Watched'
    BY <2>1, <2>2 DEF GiveBack, store, machine, Known, EarlyPhases, Watched
  <2>4. Registered' /\ OwnRow'
    BY <2>1 DEF GiveBack, store, machine, Registered, OwnRow, OpenPhases, FinalPhases
  <2>5. QED
    BY <2>3, <2>4
<1>3. CASE Admit(t) \/ Acquire(t)
  BY <1>1, <1>3 DEF Admit, Acquire, Advance, EarlyPhases, OpenPhases, FinalPhases, SlotPhases,
     SetupPhases
<1>4. CASE SkipSpawn(t) \/ PassStopCheck(t) \/ SpawnFails(t)
  BY <1>1, <1>4 DEF SkipSpawn, PassStopCheck, SpawnFails, Advance, EarlyPhases, OpenPhases,
     FinalPhases, SlotPhases, SetupPhases
<1>5. CASE InsertRow(t)
  <2>1. row[t] = "none" /\ t \notin pending /\ kind[t] = "record"
    BY <1>5 DEF InsertRow, Known, EarlyPhases
  <2>2. owner[t] \in Monitors
    BY <1>5 DEF InsertRow, OwnerKnown
  <2>3. Known'
    BY <1>5, <2>1, <2>2 DEF InsertRow, machine, Known, EarlyPhases
  <2>4. watching' \subseteq watching \cup {t}
    BY <1>5 DEF InsertRow
  <2>5. Watched'
    BY <1>5, <2>1, <2>4 DEF InsertRow, machine, Watched, Up
  <2>6. Registered' /\ OwnRow'
    BY <1>5 DEF InsertRow, machine, Registered, OwnRow, OpenPhases, FinalPhases
  <2>7. QED
    BY <2>3, <2>5, <2>6
<1>6. CASE Spawn(t)
  <2>1. row[t] # "none"
    BY <1>6 DEF Spawn, Known, OwnRow, OpenPhases
  <2>2. Known' /\ Watched'
    BY <1>6, <2>1 DEF Spawn, Known, EarlyPhases, Watched
  <2>3. Registered' /\ OwnRow'
    BY <1>6 DEF Spawn, Registered, OwnRow, OpenPhases, FinalPhases
  <2>4. QED
    BY <2>2, <2>3
<1>7. CASE Reap(t)
  <2>1. Known' /\ Watched'
    BY <1>7 DEF Reap, supervisor, machine, Known, EarlyPhases, Watched
  <2>2. Registered' /\ OwnRow'
    BY <1>7 DEF Reap, supervisor, machine, Registered, OwnRow, OpenPhases, FinalPhases
  <2>3. QED
    BY <2>1, <2>2
<1>8. CASE Retry(t)
  <2>1. Known' /\ Watched'
    BY <1>8 DEF Retry, supervisor, store, machine, Known, EarlyPhases, Watched
  <2>2. Registered' /\ OwnRow'
    BY <1>8 DEF Retry, supervisor, store, machine, Registered, OwnRow, OpenPhases, FinalPhases
  <2>3. QED
    BY <2>1, <2>2
<1>9. CASE FinalizeBegin(t)
  <2>1. Known' /\ Watched'
    BY <1>9 DEF FinalizeBegin, store, machine, Known, EarlyPhases, Watched
  <2>2. Registered' /\ OwnRow'
    BY <1>9 DEF FinalizeBegin, store, machine, Registered, OwnRow, OpenPhases, FinalPhases
  <2>3. QED
    BY <2>1, <2>2
<1>10. CASE Promote(t)
  <2>1. Known' /\ Watched'
    BY <1>10 DEF Promote, supervisor, store, Known, EarlyPhases, Watched
  <2>2. Registered' /\ OwnRow'
    BY <1>10 DEF Promote, supervisor, store, Registered, OwnRow, OpenPhases, FinalPhases
  <2>3. QED
    BY <2>1, <2>2
<1>11. CASE \E gone \in BOOLEAN : Settle(t, gone)
  <2> PICK gone \in BOOLEAN : Settle(t, gone)
    BY <1>11
  <2>1. row[t] = "recording" /\ Verdict(t, gone) \in Settled
    BY DEF Settle, OwnRow, OpenPhases, FinalPhases, Verdict, Settled
  <2>2. Known' /\ Watched'
    BY <2>1 DEF Settle, machine, Known, EarlyPhases, Watched, Settled
  <2>3. Registered' /\ OwnRow'
    BY DEF Settle, machine, Registered, OwnRow, OpenPhases, FinalPhases
  <2>4. QED
    BY <2>2, <2>3
<1>12. QED
  BY <1>2, <1>3, <1>4, <1>5, <1>6, <1>7, <1>8, <1>9, <1>10, <1>11 DEF TakeStep

LEMMA SessionStepRInv ==
  ASSUME RInv, UNCHANGED recovery,
         SessionStep \/ \E t \in Takes : ToolWrites(t) \/ ToolExits(t)
  PROVE  RInv'
<1> USE DEF RInv
<1>0. RTypeInv'
  BY SupervisorStepTypes DEF SessionStep, Next, OutsideStep, AppStep
<1> USE <1>0 DEF RTypeInv, RTypeOK, TypeInv, TypeOK, recovery
<1>1. ASSUME NEW t \in Takes,
             ToolWrites(t) \/ ToolExits(t) \/ StallKill(t) \/ QualityRestart(t) \/ WatcherEnds(t)
      PROVE  RInv'
  <2>1. UNCHANGED <<tasks, store, app>> /\ watching' \subseteq watching
    BY <1>1 DEF ToolWrites, ToolExits, StallKill, QualityRestart, WatcherEnds, supervisor, tasks,
       store
  <2>2. \A u \in Takes : proc'[u] = "live" => proc[u] = "live"
    BY <1>1 DEF ToolWrites, ToolExits, StallKill, QualityRestart, WatcherEnds, KillPid, machine
  <2>3. Known' /\ Watched' /\ OwnRow'
    BY <2>1 DEF tasks, store, Known, Watched, OwnRow
  <2>4. Registered'
    BY <2>1, <2>2 DEF tasks, store, Registered
  <2>5. QED
    BY <2>3, <2>4
<1>2. ASSUME NEW m \in Monitors,
             Stop(m) \/ BackoffExpires(m) \/ StallCooldownExpires(m) \/ DrainKill(m)
      PROVE  RInv'
  <2>1. UNCHANGED <<tasks, store, app, watching>>
    BY <1>2 DEF Stop, BackoffExpires, StallCooldownExpires, DrainKill, supervisor, tasks, store
  <2>2. \A u \in Takes : proc'[u] = "live" => proc[u] = "live"
    BY <1>2 DEF Stop, BackoffExpires, StallCooldownExpires, DrainKill, KillPid, machine
  <2>3. Known' /\ Watched' /\ OwnRow'
    BY <2>1 DEF tasks, store, Known, Watched, OwnRow
  <2>4. Registered'
    BY <2>1, <2>2 DEF tasks, store, Registered
  <2>5. QED
    BY <2>3, <2>4
<1>3. ASSUME NEW m \in Monitors, Begin(m)
      PROVE  RInv'
  <2> PICK t \in Takes, bypass \in BOOLEAN, forced \in BOOLEAN : TryBegin(m, t, bypass, forced)
    BY <1>3 DEF Begin
  <2>1. task[t] = "none" /\ row[t] = "none"
    <3>1. task[t] = "none" /\ NextTake(t)
      BY DEF TryBegin, Step
    <3>2. ~ t < t
      OBVIOUS
    <3>3. QED
      BY <3>1, <3>2 DEF NextTake, Used
  <2>2. Known' /\ Watched'
    BY <2>1 DEF TryBegin, Step, store, machine, Known, EarlyPhases, Watched
  <2>3. Registered' /\ OwnRow'
    BY <2>1 DEF TryBegin, Step, store, machine, Known, Registered, OwnRow, OpenPhases,
       FinalPhases
  <2>4. QED
    BY <2>2, <2>3
<1>4. CASE DrainDone \/ DrainTimesOut
  BY <1>4 DEF DrainDone, DrainTimesOut, supervisor, tasks, store, machine, Known, Watched,
     Registered, OwnRow
<1>5. QED
  BY <1>1, <1>2, <1>3, <1>4 DEF SessionStep, MonitorStep

-----------------------------------------------------------------------------
(* The end of a run and the start of the next.                             *)

LEMMA MemoryLostRInv ==
  ASSUME RInv, MemoryLost,
         proc' \in {proc, [t \in Takes |-> IF proc[t] = "live" THEN "dead" ELSE proc[t]]}
  PROVE  RInv'
<1> USE DEF RInv, RTypeInv, RTypeOK, TypeInv, TypeOK, MemoryLost, store
<1>1. proc' \in [Takes -> {"none", "live", "dead"}]
  OBVIOUS
<1>2. \A t \in Takes : proc'[t] = "live" => proc[t] = "live"
  OBVIOUS
<1>3. RTypeOK' /\ OwnerKnown'
  <2>1. task' \in [Takes -> Phases] /\ owner' \in [Takes -> Monitors \cup {None}]
    BY DEF Phases
  <2>2. UNCHANGED <<row, registry, media, restarts>> /\ app' \in AppPhases
    BY DEF AppPhases
  <2>3. TypeOK'
    <3>1. active' \in [Monitors -> Takes \cup {None, Reserved}]
          /\ backoff' \in [Monitors -> {"none", "stopped", "restart", "failed"}]
          /\ finalizing' \in [Monitors -> Takes \cup {None}]
      OBVIOUS
    <3>2. kind' \in [Takes -> {"record", "resume", "reattach"}]
          /\ retries' \in [Takes -> 0..MaxRetries]
      BY BoundAssumption
    <3>3. QED
      BY <1>1, <2>1, <2>2, <3>1, <3>2
  <2>4. OwnerKnown'
    BY DEF Known, OwnerKnown, Settled
  <2>5. QED
    BY <2>2, <2>3, <2>4
<1>4. Known' /\ Watched' /\ OwnRow'
  BY DEF Known, EarlyPhases, Watched, OwnRow, OpenPhases, FinalPhases
<1>5. Registered'
  BY <1>2 DEF Registered
<1>6. QED
  BY <1>3, <1>4, <1>5

LEMMA ShutdownRInv ==
  ASSUME RInv, Detach \/ Stopping \/ Purge \/ Launch \/ ListInflight \/ OpenForBusiness
  PROVE  RInv'
<1> USE DEF RInv, RTypeInv, RTypeOK, TypeInv, TypeOK, supervisor, tasks, recovery
<1>1. CASE Purge
  <2>1. proc' \in [Takes -> {"none", "live", "dead"}] /\ registry' = {}
    BY <1>1 DEF Purge
  <2>2. \A t \in Takes : proc'[t] # "live"
    BY <1>1 DEF Purge, Registered
  <2>3. RTypeOK' /\ OwnerKnown'
    BY <1>1, <2>1 DEF Purge, AppPhases, OwnerKnown
  <2>4. Known' /\ Watched' /\ OwnRow'
    BY <1>1, <2>1 DEF Purge, Known, Watched, OwnRow
  <2>5. Registered'
    BY <2>2 DEF Registered
  <2>6. QED
    BY <2>3, <2>4, <2>5
<1>2. CASE Detach \/ Stopping \/ OpenForBusiness
  <2>1. UNCHANGED <<supervisor, tasks, row, registry, proc, media, asked, recovery>>
    BY <1>2 DEF Detach, Stopping, StopAll, OpenForBusiness, store, machine
  <2>2. app' \in {"exiting", "draining", "running"}
    BY <1>2 DEF Detach, Stopping, StopAll, OpenForBusiness
  <2>3. RTypeOK' /\ OwnerKnown'
    BY <2>1, <2>2 DEF AppPhases, OwnerKnown
  <2>4. Known' /\ Watched' /\ Registered' /\ OwnRow'
    BY <2>1, <2>2 DEF Known, Watched, Registered, OwnRow
  <2>5. QED
    BY <2>3, <2>4
<1>3. CASE Launch
  BY <1>3, RestartAssumption DEF Launch, MayEnd, AppPhases, store, machine, OwnerKnown, Known,
     Watched, Registered, OwnRow
<1>4. CASE ListInflight
  BY <1>4 DEF ListInflight, AppPhases, store, machine, OwnerKnown, Known, Watched, Registered,
     OwnRow
<1>5. QED
  BY <1>1, <1>2, <1>3, <1>4

-----------------------------------------------------------------------------
(* Start-up decides about a take.                                          *)

LEMMA ReconcileRInv ==
  ASSUME RInv, NEW t \in Takes, Reconcile(t) \/ Interrupted(t)
  PROVE  RInv'
<1> USE DEF RInv, RTypeInv, RTypeOK, TypeInv, TypeOK
<1>1. t \in pending /\ row[t] # "none" /\ owner[t] \in Monitors /\ t \notin watching
  BY DEF Reconcile, Interrupted, Known, Watched
<1>2. ASSUME NEW phase \in {"adopting", "resuming", "refinalize", "none", "done"},
             NEW k \in {"record", "resume", "reattach"}, Decided(t, phase, k),
             active' \in [Monitors -> Takes \cup {None, Reserved}],
             registry' \in {registry, registry \ {t}},
             UNCHANGED row \/ (Orphan(t) /\ phase = "done"),
             phase \in {"adopting", "resuming", "refinalize"} => k # "record",
             proc[t] = "live" => t \in registry' /\ phase \in {"none", "done", "adopting"}
      PROVE  RInv'
  <2>1. row' \in [Takes -> Statuses] /\ \A u \in Takes : row'[u] = "none" <=> row[u] = "none"
    BY <1>2 DEF Orphan, Statuses, Settled
  <2>2. RTypeOK' /\ OwnerKnown'
    BY <1>1, <1>2, <2>1 DEF Decided, machine, Phases, SlotPhases, SetupPhases, OwnerKnown,
       UnopenedPhases
  <2>3. Known' /\ Watched'
    BY <1>1, <1>2, <2>1 DEF Decided, machine, Known, EarlyPhases, Watched
  <2>4. Registered'
    BY <1>2 DEF Decided, machine, Registered
  <2>5. OwnRow'
    BY <1>2 DEF Decided, OwnRow, Orphan, OpenPhases, FinalPhases
  <2>6. QED
    BY <2>2, <2>3, <2>4, <2>5
<1>3. CASE Adopt(t)
  BY <1>1, <1>2, <1>3 DEF Adopt, store, Registered
<1>4. CASE Resume(t)
  BY <1>1, <1>2, <1>4 DEF Resume, store
<1>5. CASE Refinalize(t)
  BY <1>1, <1>2, <1>5 DEF Refinalize, store
<1>6. CASE LeftNothing(t)
  BY <1>1, <1>2, <1>6 DEF LeftNothing
<1>7. CASE Orphan(t) /\ Decided(t, "done", "record") /\ UNCHANGED <<active, registry>>
  BY <1>1, <1>2, <1>7 DEF Registered
<1>8. CASE Decided(t, "none", "record") /\ UNCHANGED <<active, store>>
  BY <1>1, <1>2, <1>8 DEF Registered, store
<1>9. QED
  BY <1>3, <1>4, <1>5, <1>6, <1>7, <1>8 DEF Reconcile, Interrupted

-----------------------------------------------------------------------------
(* The re-attached tasks.                                                  *)

LEMMA RecoveryStepRInv ==
  ASSUME RInv, NEW t \in Takes, RecoveryStep(t) \/ RepairOrphan(t)
  PROVE  RInv'
<1> USE DEF RInv, RTypeInv, RTypeOK, TypeInv, TypeOK, Step, recovery
<1>1. ASSUME NEW from \in {"adopting", "refinalize", "resuming", "finalizing", "promoted",
                           "notFound", "settled", "purging"},
             NEW to \in {"none", "finalizing", "promoted", "notFound", "settled", "purging",
                         "spawning", "done"},
             Step(t, from, to), kind[t] # "record" \/ to \notin OpenPhases,
             from = "adopting" /\ to # "none" => proc[t] # "live",
             to = "none" => kind[t] # "record",
             supervisor' = <<active', stopping', backoff', finalizing', stallKilled',
                            stallCooldown, watching>>,
             active' \in [Monitors -> Takes \cup {None, Reserved}],
             finalizing' \in [Monitors -> Takes \cup {None}],
             backoff' \in [Monitors -> {"none", "stopped", "restart", "failed"}],
             stopping' \subseteq Monitors, stallKilled' \subseteq Takes,
             media' \in [Takes -> {"none", "capture", "final"}],
             UNCHANGED row \/ (from \in {"promoted", "notFound"} /\ to \notin OpenPhases
                              /\ row[t] # "none" /\ \E v \in Settled : Finish(t, v)),
             registry' = registry \/ (to = "purging" /\ registry' = registry \ {t}),
             UNCHANGED <<owner, kind, retries, proc, app, asked, recovery>>
      PROVE  RInv'
  <2>1. UNCHANGED <<watching, stallCooldown>>
    BY <1>1 DEF supervisor
  <2>2. row' \in [Takes -> Statuses] /\ \A u \in Takes : row'[u] = "none" <=> row[u] = "none"
    BY <1>1 DEF Statuses, Settled
  <2>3. RTypeOK' /\ OwnerKnown'
    BY <1>1, <2>1, <2>2 DEF Phases, SlotPhases, SetupPhases, FinalPhases, OwnerKnown,
       UnopenedPhases, Watched
  <2>4. Known' /\ Watched'
    <3>1. task' = [task EXCEPT ![t] = to] /\ to \notin EarlyPhases \cup {"adopting", "resuming", "refinalize"}
          /\ registry' \subseteq registry
      BY <1>1 DEF EarlyPhases
    <3>2. Known'
      BY <1>1, <2>2, <3>1 DEF Known
    <3>3. Watched'
      BY <1>1, <2>1, <3>1 DEF Watched
    <3>4. QED
      BY <3>2, <3>3
  <2>5. Registered'
    BY <1>1 DEF Registered
  <2>6. OwnRow'
    BY <1>1 DEF OwnRow, OpenPhases, FinalPhases
  <2>7. QED
    BY <2>3, <2>4, <2>5, <2>6
<1>2. kind[t] # "record" => row[t] # "none"
  BY DEF Known
<1>3. task[t] # "none" => owner[t] \in Monitors
  BY DEF OwnerKnown
<1>4. CASE AdoptQuits(t) \/ ResumeGivesUp(t)
  BY <1>1, <1>4 DEF AdoptQuits, ResumeGivesUp, supervisor, store, machine, Watched, OpenPhases,
     FinalPhases
<1>5. CASE FinalizeReattached(t)
  <2>1. PICK from \in {"adopting", "refinalize"} : Step(t, from, "finalizing")
    BY <1>5 DEF FinalizeReattached
  <2>2. kind[t] # "record"
    BY <2>1 DEF Watched
  <2>3. QED
    BY <1>1, <1>5, <2>1, <2>2 DEF FinalizeReattached, supervisor, store, machine
<1>6. CASE PromoteReattached(t)
  <2>1. PICK to \in {"promoted", "notFound"} : Step(t, "finalizing", to)
    BY <1>6 DEF PromoteReattached
  <2>2. QED
    BY <1>1, <1>6, <2>1 DEF PromoteReattached, supervisor, store
<1>7. CASE ClearRow(t)
  BY <1>1, <1>7 DEF ClearRow, supervisor, machine, OpenPhases, FinalPhases
<1>8. CASE PurgeCache(t)
  BY <1>1, <1>8 DEF PurgeCache, supervisor, store, OpenPhases, FinalPhases
<1>9. CASE ResumeStart(t)
  BY <1>1, <1>9 DEF ResumeStart, Advance, supervisor, store, machine, Watched
<1>10. ASSUME NEW gone \in BOOLEAN, SettleReattached(t, gone)
       PROVE  RInv'
  <2>1. ReattachedVerdict(t, gone) \in Settled
    BY DEF ReattachedVerdict, Settled
  <2>2. PICK from \in {"promoted", "notFound"} : Step(t, from, "settled")
    BY <1>10 DEF SettleReattached
  <2>3. QED
    BY <1>1, <1>2, <1>10, <2>1, <2>2 DEF SettleReattached, supervisor, machine, OpenPhases,
       FinalPhases
<1>11. ASSUME NEW gone \in BOOLEAN, SettleResumed(t, gone)
       PROVE  RInv'
  <2>1. Verdict(t, gone) \in Settled
    BY DEF Verdict, Settled
  <2>2. backoff' \in [Monitors -> {"none", "stopped", "restart", "failed"}]
    BY <1>11 DEF SettleResumed, NoteResult
  <2>3. QED
    BY <1>1, <1>2, <1>3, <1>11, <2>1, <2>2 DEF SettleResumed, supervisor, machine, OpenPhases,
       FinalPhases
<1>12. CASE RepairOrphan(t)
  <2>1. row' = [row EXCEPT ![t] = "completed"] /\ row[t] = "orphaned"
        /\ UNCHANGED <<supervisor, tasks, registry, machine, app, asked, recovery>>
    BY <1>12 DEF RepairOrphan
  <2>2. RTypeOK' /\ OwnerKnown'
    BY <2>1 DEF supervisor, tasks, machine, Statuses, Settled, OwnerKnown
  <2>3. Known' /\ Watched' /\ Registered' /\ OwnRow'
    BY <2>1 DEF supervisor, tasks, machine, Known, Watched, Registered, OwnRow
  <2>4. QED
    BY <2>2, <2>3
<1>13. QED
  BY <1>4, <1>5, <1>6, <1>7, <1>8, <1>9, <1>10, <1>11, <1>12 DEF RecoveryStep

-----------------------------------------------------------------------------
(* Theorems.                                                               *)

LEMMA StepRInv == RInv /\ [RNext]_rvars => RInv'
<1> SUFFICES ASSUME RInv, [RNext]_rvars PROVE RInv'
  OBVIOUS
<1>1. ASSUME NEW t \in Takes, TaskStep(t)
      PROVE  RInv'
  BY <1>1, TakeStepRInv, RecoveryStepRInv DEF TaskStep
<1>2. ASSUME NEW t \in Takes, RepairOrphan(t)
      PROVE  RInv'
  BY <1>2, RecoveryStepRInv
<1>3. CASE /\ SessionStep \/ \E t \in Takes : ToolWrites(t) \/ ToolExits(t)
           /\ UNCHANGED recovery
  BY <1>3, SessionStepRInv
<1>4. CASE Exit \/ Crash
  BY <1>4, MemoryLostRInv DEF Exit, Crash
<1>5. CASE Stopping \/ Purge \/ Detach \/ Launch \/ ListInflight \/ OpenForBusiness
  BY <1>5, ShutdownRInv
<1>6. ASSUME NEW t \in Takes, Reconcile(t) \/ Interrupted(t)
      PROVE  RInv'
  BY <1>6, ReconcileRInv
<1>7. CASE UNCHANGED rvars
  BY <1>7 DEF rvars, vars, supervisor, tasks, store, machine, recovery, RInv, RTypeInv, RTypeOK,
     TypeInv, TypeOK, OwnerKnown, Known, Watched, Registered, OwnRow
<1>8. QED
  BY <1>1, <1>2, <1>3, <1>4, <1>5, <1>6, <1>7 DEF RNext, StartUp

LEMMA RInvHolds == RSpec => []RInv
  BY InitRInv, StepRInv, PTL DEF RSpec

\* Every map, table and phase keeps its shape over any number of restarts.
THEOREM RecoveryTypes == RSpec => []RTypeOK
<1>1. RInv => RTypeOK
  BY DEF RInv, RTypeInv
<1>2. QED
  BY <1>1, RInvHolds, PTL

\* However the runs of the program end, by a quit that detaches, a quit that
\* stops, or a crash at any step, a capture that is still running has its row
\* in detached_process.
THEOREM NoStrayAfterRestart == RSpec => []LiveIsRegistered
<1>1. RInv => LiveIsRegistered
  BY DEF RInv, Registered, LiveIsRegistered
<1>2. QED
  BY <1>1, RInvHolds, PTL

\* Start-up orphans open rows only, and a verdict is passed a second time only
\* by a task it re-attached or resumed.
THEOREM VerdictOutlivesRuns == RSpec => VerdictStands
<1> DEFINE Kept == \A t \in Takes :
             row[t] \in Settled \ {"orphaned"} /\ kind[t] = "record" => row'[t] = row[t]
<1>1. ASSUME RInv, [RNext]_rvars, NEW t \in Takes,
             row[t] \in Settled \ {"orphaned"}, kind[t] = "record"
      PROVE  row'[t] = row[t]
  <2> USE <1>1 DEF Step
  <2>1. task[t] \notin OpenPhases \cup EarlyPhases
    BY DEF RInv, OwnRow, Known, Settled
  <2>2. row \in [Takes -> Statuses]
    BY DEF RInv, RTypeInv, TypeInv, TypeOK
  <2>3. ASSUME NEW u \in Takes, TakeStep(u)
        PROVE  row'[t] = row[t]
    <3>1. CASE InsertRow(u)
      BY <2>1, <2>2, <3>1 DEF InsertRow, EarlyPhases
    <3>2. CASE \E gone \in BOOLEAN : Settle(u, gone)
      BY <2>1, <2>2, <3>2 DEF Settle, OpenPhases, FinalPhases
    <3>3. CASE ~ InsertRow(u) /\ ~ \E gone \in BOOLEAN : Settle(u, gone)
      BY <2>3, <3>3 DEF TakeStep, Decline, Admit, RefuseDuplicate, Acquire, AbandonStart,
         SkipSpawn, PassStopCheck, Spawn, SpawnFails, Reap, Retry, FinalizeBegin, Promote,
         Advance, GiveBack, store
    <3>4. QED
      BY <3>1, <3>2, <3>3
  <2>4. ASSUME NEW u \in Takes, RecoveryStep(u) \/ RepairOrphan(u)
        PROVE  row'[t] = row[t]
    BY <2>2, <2>4 DEF RecoveryStep, AdoptQuits, FinalizeReattached, PromoteReattached, ClearRow,
       PurgeCache, ResumeStart, ResumeGivesUp, SettleReattached, SettleResumed, RepairOrphan,
       Advance, store
  <2>5. CASE SessionStep \/ \E u \in Takes : ToolWrites(u) \/ ToolExits(u)
    BY <2>5 DEF SessionStep, ToolWrites, ToolExits, StallKill, QualityRestart, WatcherEnds,
       MonitorStep, Begin, TryBegin, Stop, BackoffExpires, StallCooldownExpires, DrainKill,
       DrainDone, DrainTimesOut, store
  <2>6. CASE Stopping \/ Purge \/ Detach \/ Exit \/ Crash \/ Launch \/ ListInflight
             \/ OpenForBusiness \/ UNCHANGED rvars
    BY <2>6 DEF Stopping, StopAll, Purge, Detach, Exit, Crash, MemoryLost, Launch, ListInflight,
       OpenForBusiness, rvars, vars, store
  <2>7. ASSUME NEW u \in Takes, Reconcile(u) \/ Interrupted(u)
        PROVE  row'[t] = row[t]
    <3>1. UNCHANGED row \/ Orphan(u)
      BY <2>7 DEF Reconcile, Interrupted, Adopt, Resume, Refinalize, LeftNothing, store
    <3>2. QED
      BY <2>2, <3>1 DEF Orphan, Settled
  <2>8. QED
    BY <2>3, <2>4, <2>5, <2>6, <2>7 DEF RNext, TaskStep, StartUp
<1>2. RInv /\ [RNext]_rvars => [Kept]_rvars
  BY <1>1
<1>3. QED
  BY <1>2, RInvHolds, PTL DEF RSpec, VerdictStands

\* While start-up goes through the registry nothing but its own decisions and
\* the end of a process moves.
SlotsSet ==
  app = "reconciling" =>
    \A t \in Takes : proc[t] = "live" => t \in pending \/ active[owner[t]] \in Takes

LEMMA StepSlotsSet == RInv /\ SlotsSet /\ [RNext]_rvars => SlotsSet'
<1> SUFFICES ASSUME RInv, SlotsSet, [RNext]_rvars, app' = "reconciling" PROVE SlotsSet'
  BY DEF SlotsSet
<1> USE DEF RInv, RTypeInv, RTypeOK, TypeInv, TypeOK
<1>1. CASE Launch
  BY <1>1 DEF Launch, SlotsSet, Registered, machine
<1>2. ASSUME NEW t \in Takes, Reconcile(t)
      PROVE  SlotsSet'
  <2>1. UNCHANGED <<owner, proc>> /\ pending' = pending \ {t} /\ app = "reconciling"
    BY <1>2 DEF Reconcile, Adopt, Resume, Refinalize, LeftNothing, Decided, machine
  <2>2. owner[t] \in Monitors
    BY <1>2 DEF Reconcile, Known
  <2>3. CASE Adopt(t)
    BY <2>1, <2>2, <2>3 DEF Adopt, SlotsSet
  <2>4. CASE Resume(t)
    BY <2>1, <2>2, <2>4 DEF Resume, SlotsSet
  <2>5. CASE Refinalize(t) \/ LeftNothing(t)
    BY <2>1, <2>5 DEF Refinalize, LeftNothing, SlotsSet
  <2>6. QED
    BY <1>2, <2>3, <2>4, <2>5 DEF Reconcile
<1>3. ASSUME NEW t \in Takes, (ToolWrites(t) \/ ToolExits(t)) /\ UNCHANGED recovery
      PROVE  SlotsSet'
  BY <1>3 DEF ToolWrites, ToolExits, supervisor, tasks, recovery, SlotsSet
<1>4. CASE UNCHANGED rvars
  BY <1>4 DEF rvars, vars, supervisor, tasks, machine, recovery, SlotsSet
<1>5. CASE \/ Stopping \/ Purge \/ Detach \/ Exit \/ Crash \/ ListInflight \/ OpenForBusiness
           \/ \E t \in Takes : RepairOrphan(t) \/ Interrupted(t)
  BY <1>5 DEF Stopping, StopAll, Purge, Detach, Exit, Crash, MemoryLost, ListInflight,
     OpenForBusiness, RepairOrphan, Interrupted, Resume, Decided
<1>6. CASE SessionStep \/ \E t \in Takes : TaskStep(t)
  <2>1. app # "reconciling"
    BY <1>6 DEF SessionStep, TaskStep, Up, Serving, DrainDone, DrainTimesOut
  <2>2. ASSUME NEW t \in Takes, TaskStep(t)
        PROVE  UNCHANGED app
    BY <2>2 DEF TaskStep, TakeStep, Decline, Admit, RefuseDuplicate, Acquire, AbandonStart,
       InsertRow, SkipSpawn, PassStopCheck, Spawn, SpawnFails, Reap, Retry, FinalizeBegin,
       Promote, Settle, Advance, GiveBack, RecoveryStep, AdoptQuits, FinalizeReattached,
       PromoteReattached, ClearRow, PurgeCache, ResumeStart, ResumeGivesUp, SettleReattached,
       SettleResumed
  <2>3. ASSUME SessionStep
        PROVE  app' \in {app, "drained", "timedOut"}
    BY <2>3 DEF SessionStep, StallKill, QualityRestart, WatcherEnds, MonitorStep, Begin, TryBegin,
       Stop, BackoffExpires, StallCooldownExpires, DrainKill, DrainDone, DrainTimesOut
  <2>4. QED
    BY <1>6, <2>1, <2>2, <2>3
<1>7. QED
  BY <1>1, <1>2, <1>3, <1>4, <1>5, <1>6 DEF RNext, StartUp

\* Once the registry has been gone through, the monitor of every capture that
\* outlived the last run of the program shows as recording.
THEOREM AdoptionPrecedesDetection == RSpec => AdoptedBeforeDetection
<1>1. RInit => SlotsSet
  BY DEF RInit, Init, SlotsSet
<1>2. ASSUME SlotsSet, RNext, app = "reconciling", app' = "inflight"
      PROVE  \A t \in Takes : proc[t] = "live" => active[owner[t]] \in Takes
  <2>1. pending = {}
    BY <1>2 DEF RNext, StartUp, TaskStep, SessionStep, Up, Serving, ToolWrites, ToolExits,
       RepairOrphan, DrainDone, DrainTimesOut, Stopping, StopAll, Purge, Detach, Exit, Crash,
       MemoryLost, Launch, ListInflight, OpenForBusiness, Interrupted, Reconcile, Adopt, Resume,
       Refinalize, LeftNothing, Decided
  <2>2. QED
    BY <1>2, <2>1 DEF SlotsSet
<1>3. SlotsSet /\ [RNext]_rvars =>
        [app = "reconciling" /\ app' = "inflight" =>
           \A t \in Takes : proc[t] = "live" => active[owner[t]] \in Takes]_rvars
  BY <1>2
<1>4. QED
  BY <1>1, <1>3, StepSlotsSet, RInvHolds, PTL DEF RSpec, AdoptedBeforeDetection

-----------------------------------------------------------------------------
(* Which function runs a take, what start-up has still to decide, and what *)
(* a step of one task may do to the rest.                                  *)

Idle == {"none", "done"}
AfterPhases == {"refinalize", "notFound", "settled", "purging"}
\* Past the last look at the shutdown flag, and without a process.
Committed == {"permitted", "inserted", "spawning"}

KindsKnown ==
  \A t \in Takes :
    /\ kind[t] = "record" => task[t] \notin AfterPhases \cup {"adopting", "resuming"}
    /\ kind[t] = "resume" => task[t] \notin AfterPhases \cup {"adopting"} /\ owner[t] \in SabrMonitors
    /\ kind[t] = "reattach" => task[t] \notin SlotPhases \ {"adopting"}
    /\ task[t] = "refinalize" => app \in {"reconciling", "inflight"}
    /\ task[t] \in {"settled", "purging"} => row[t] \in Settled

\* Before the supervisor's loop runs no take is recorded, and a slot is taken by
\* a take start-up has decided about.
QuietStart ==
  /\ app \in {"down", "reconciling", "inflight"} =>
       /\ \A t \in Takes : kind[t] = "record" => task[t] \in Idle
       /\ \A m \in Monitors :
            active[m] # None => \E u \in Takes : owner[u] = m /\ kind[u] # "record"
  /\ \A t \in pending : kind[t] = "record" /\ app \in {"reconciling", "inflight"}
  /\ app = "down" => \A t \in Takes : kind[t] = "record"
  /\ app = "reconciling" => \A t \in Takes : kind[t] # "record" \/ t \in pending => t \in registry

\* Where an open row can be without a task.
Attended ==
  \A t \in Takes : row[t] = "recording" /\ task[t] \in Idle =>
    /\ app = "reconciling" => t \in pending \/ t \notin registry
    /\ app = "inflight" => t \in pending \/ PassedOver(t)
    /\ app = "running" => PassedOver(t)

StartInv == KindsKnown /\ QuietStart /\ Attended

\* What a step of the task of take t leaves alone, and where it can get.
TaskFacts(t) ==
  /\ UNCHANGED <<kind, app, pending>>
  /\ \A u \in Takes \ {t} :
       task'[u] = task[u] /\ owner'[u] = owner[u] /\ row'[u] = row[u] /\ media'[u] = media[u]
  /\ task[t] \notin Idle /\ task'[t] \notin {"adopting", "resuming", "refinalize"}
  /\ task'[t] \in Idle /\ row'[t] = "recording" => ShuttingDown
  /\ task'[t] \in AfterPhases => kind[t] = "reattach"
  /\ task'[t] \in {"settled", "purging"} => row'[t] \in Settled
  /\ kind[t] # "record" => owner'[t] = owner[t]
  /\ task'[t] \in SlotPhases =>
       task[t] \in SlotPhases /\ kind[t] # "reattach" /\ owner'[t] = owner[t]
  /\ task'[t] \in Committed \cup {"capturing"} => task[t] \in Committed \/ ~ShuttingDown
  /\ task'[t] = "capturing" => active'[owner[t]] = t
  /\ proc'[t] = "live" =>
       task'[t] = "capturing" \/ (task'[t] = "none" /\ kind[t] = "reattach" /\ ShuttingDown)
  /\ \/ active' = active
     \/ active' = [active EXCEPT ![owner[t]] = t] /\ task[t] = "spawning" /\ task'[t] = "capturing"
     \/ /\ active' = [active EXCEPT ![owner[t]] = None] /\ owner[t] \in Monitors
        /\ task[t] \in SlotPhases \cup {"refinalize"} /\ task'[t] \notin SlotPhases
  /\ task[t] \in SlotPhases /\ task'[t] \notin SlotPhases =>
       active' = [active EXCEPT ![owner[t]] = None]
  /\ \A u \in Takes : proc'[u] = "live" => proc[u] = "live" \/ (u = t /\ task[t] = "spawning")

LEMMA TakeStepFacts ==
  ASSUME RInv, KindsKnown, NEW t \in Takes, TakeStep(t), UNCHANGED recovery
  PROVE  TaskFacts(t)
<1> USE DEF RInv, RTypeInv, RTypeOK, TypeInv, TypeOK, recovery, Step, TaskFacts, Idle, AfterPhases,
            Committed, SlotPhases, SetupPhases
<1>1. kind[t] \in {"record", "resume", "reattach"}
  OBVIOUS
<1>2. /\ task[t] # "none" => owner[t] \in Monitors
      /\ proc[t] = "live" => task[t] \in {"none", "done", "capturing", "adopting"}
  BY DEF OwnerKnown, Registered
<1>3. ASSUME NEW from \in {"deciding", "starting"}, GiveBack(t, from)
      PROVE  TaskFacts(t)
  <2>1. row[t] = "none" /\ kind[t] = "record"
    BY <1>2, <1>3 DEF GiveBack, Known, EarlyPhases
  <2>2. QED
    BY <1>2, <1>3, <2>1 DEF GiveBack, store, machine
<1>4. CASE Decline(t) \/ RefuseDuplicate(t) \/ AbandonStart(t)
  BY <1>3, <1>4 DEF Decline, RefuseDuplicate, AbandonStart
<1>5. CASE Admit(t) \/ Acquire(t)
  BY <1>2, <1>5 DEF Admit, Acquire, Advance, supervisor, store, machine, KindsKnown
<1>6. CASE SkipSpawn(t) \/ PassStopCheck(t) \/ SpawnFails(t)
  BY <1>2, <1>6 DEF SkipSpawn, PassStopCheck, SpawnFails, Advance, supervisor, store, machine, KindsKnown
<1>7. CASE InsertRow(t)
  BY <1>2, <1>7 DEF InsertRow, machine, KindsKnown
<1>8. CASE Spawn(t)
  BY <1>2, <1>8 DEF Spawn, KindsKnown
<1>9. CASE Reap(t)
  BY <1>2, <1>9 DEF Reap, supervisor, machine, KindsKnown
<1>10. CASE Retry(t)
  BY <1>2, <1>10 DEF Retry, supervisor, store, machine
<1>11. CASE FinalizeBegin(t)
  BY <1>2, <1>11 DEF FinalizeBegin, store, machine
<1>12. CASE Promote(t)
  BY <1>2, <1>12 DEF Promote, supervisor, store
<1>13. CASE \E gone \in BOOLEAN : Settle(t, gone)
  <2> PICK gone \in BOOLEAN : Settle(t, gone)
    BY <1>13
  <2>1. Verdict(t, gone) \in Settled
    BY DEF Verdict, Settled
  <2>2. row'[t] # "recording"
    BY <2>1 DEF Settle, Settled
  <2>3. QED
    BY <1>2, <2>2 DEF Settle, machine
<1>14. QED
  BY <1>4, <1>5, <1>6, <1>7, <1>8, <1>9, <1>10, <1>11, <1>12, <1>13 DEF TakeStep

LEMMA RecoveryStepFacts ==
  ASSUME RInv, KindsKnown, NEW t \in Takes, RecoveryStep(t)
  PROVE  TaskFacts(t)
<1> USE DEF RInv, RTypeInv, RTypeOK, TypeInv, TypeOK, recovery, Step, TaskFacts, Idle, AfterPhases,
            Committed, SlotPhases, SetupPhases
<1>1. kind[t] \in {"record", "resume", "reattach"}
  OBVIOUS
<1>2. /\ task[t] # "none" => owner[t] \in Monitors
      /\ proc[t] = "live" => task[t] \in {"none", "done", "capturing", "adopting"}
  BY DEF OwnerKnown, Registered
<1>3. CASE AdoptQuits(t) \/ ResumeGivesUp(t)
  BY <1>1, <1>2, <1>3 DEF AdoptQuits, ResumeGivesUp, store, machine, KindsKnown
<1>4. CASE FinalizeReattached(t)
  BY <1>1, <1>2, <1>4 DEF FinalizeReattached, store, machine, KindsKnown
<1>5. CASE PromoteReattached(t)
  BY <1>2, <1>5 DEF PromoteReattached, supervisor, store
<1>6. CASE ClearRow(t)
  BY <1>1, <1>2, <1>6 DEF ClearRow, supervisor, machine, KindsKnown
<1>7. CASE PurgeCache(t)
  BY <1>2, <1>7 DEF PurgeCache, store, KindsKnown, Settled
<1>8. CASE ResumeStart(t)
  BY <1>2, <1>8 DEF ResumeStart, Advance, supervisor, store, machine, KindsKnown
<1>9. CASE \E gone \in BOOLEAN : SettleReattached(t, gone)
  <2> PICK gone \in BOOLEAN : SettleReattached(t, gone)
    BY <1>9
  <2>1. ReattachedVerdict(t, gone) \in Settled
    BY DEF ReattachedVerdict, Settled
  <2>2. QED
    BY <1>2, <2>1 DEF SettleReattached, machine
<1>10. CASE \E gone \in BOOLEAN : SettleResumed(t, gone)
  <2> PICK gone \in BOOLEAN : SettleResumed(t, gone)
    BY <1>10
  <2>1. Verdict(t, gone) \in Settled
    BY DEF Verdict, Settled
  <2>2. row'[t] # "recording"
    BY <2>1 DEF SettleResumed, Settled
  <2>3. QED
    BY <1>2, <2>2 DEF SettleResumed, machine
<1>11. QED
  BY <1>3, <1>4, <1>5, <1>6, <1>7, <1>8, <1>9, <1>10 DEF RecoveryStep

\* A start of the scheduler, and all the other steps outside the tasks.
BeginFacts(m, t) ==
  /\ Serving /\ active[m] = None
  /\ task[t] = "none" /\ row[t] = "none" /\ kind[t] = "record"
  /\ active' = [active EXCEPT ![m] = Reserved]
  /\ task' = [task EXCEPT ![t] = "deciding"]
  /\ owner' = [owner EXCEPT ![t] = m]
  /\ UNCHANGED <<kind, row, registry, proc, media, app, recovery>>
OutsideFacts ==
  /\ UNCHANGED <<task, owner, kind, row, active, recovery>>
  /\ registry' = registry
  /\ \A t \in Takes : media[t] = "capture" => media'[t] = "capture"
  /\ \A t \in Takes : proc'[t] = "live" => proc[t] = "live"
  /\ \/ app' = app
     \/ app = "draining" /\ app' = "timedOut"
     \/ app = "draining" /\ app' = "drained" /\ \A m \in Monitors : active[m] = None

LEMMA SessionFacts ==
  ASSUME RInv, UNCHANGED recovery,
         SessionStep \/ \E t \in Takes : ToolWrites(t) \/ ToolExits(t)
  PROVE  OutsideFacts \/ \E m \in Monitors, t \in Takes : BeginFacts(m, t)
<1> USE DEF RInv, RTypeInv, RTypeOK, TypeInv, TypeOK
<1>1. ASSUME NEW t \in Takes,
             ToolWrites(t) \/ ToolExits(t) \/ StallKill(t) \/ QualityRestart(t) \/ WatcherEnds(t)
      PROVE  OutsideFacts
  BY <1>1 DEF OutsideFacts, ToolWrites, ToolExits, StallKill, QualityRestart, WatcherEnds, KillPid,
     HasMedia, supervisor, tasks, store, machine
<1>2. ASSUME NEW m \in Monitors,
             Stop(m) \/ BackoffExpires(m) \/ StallCooldownExpires(m) \/ DrainKill(m)
      PROVE  OutsideFacts
  BY <1>2 DEF OutsideFacts, Stop, BackoffExpires, StallCooldownExpires, DrainKill, KillPid,
     supervisor, tasks, store, machine
<1>3. ASSUME NEW m \in Monitors, Begin(m), Serving
      PROVE  \E t \in Takes : BeginFacts(m, t)
  <2> PICK t \in Takes, bypass \in BOOLEAN, forced \in BOOLEAN : TryBegin(m, t, bypass, forced)
    BY <1>3 DEF Begin
  <2>1. task[t] = "none" /\ NextTake(t) /\ ~ t < t
    BY DEF TryBegin, Step
  <2>2. row[t] = "none"
    BY <2>1 DEF NextTake, Used
  <2>3. BeginFacts(m, t)
    BY <1>3, <2>1, <2>2 DEF BeginFacts, TryBegin, Step, Known, store, machine
  <2>4. QED
    BY <2>3
<1>4. CASE DrainDone \/ DrainTimesOut
  BY <1>4 DEF OutsideFacts, DrainDone, DrainTimesOut, supervisor, tasks, store, machine
<1>5. QED
  BY <1>1, <1>2, <1>3, <1>4 DEF SessionStep, MonitorStep

-----------------------------------------------------------------------------
(* StartInv is inductive, over RInv.                                       *)

LEMMA PassedOverStays ==
  ASSUME NEW t \in Takes, PassedOver(t), owner'[t] = owner[t], media'[t] = media[t],
         \A u \in Takes : kind[u] # "record" => kind'[u] = kind[u] /\ owner'[u] = owner[u]
  PROVE  PassedOver(t)'
BY DEF PassedOver, SabrCapture

LEMMA TaskStartInv ==
  ASSUME RInv, StartInv, Up, NEW t \in Takes, TaskFacts(t)
  PROVE  StartInv'
<1> USE DEF RInv, RTypeInv, RTypeOK, TypeInv, TypeOK, TaskFacts, StartInv
<1>1. KindsKnown'
  BY DEF KindsKnown, AfterPhases
<1>2. QuietStart'
  BY DEF QuietStart, Up
<1>3. Attended'
  <2> SUFFICES ASSUME NEW u \in Takes, row'[u] = "recording", task'[u] \in Idle,
                      app \in {"reconciling", "inflight", "running"}
               PROVE  /\ app # "reconciling"
                      /\ app = "inflight" => u \in pending' \/ PassedOver(u)'
                      /\ app = "running" => PassedOver(u)'
    BY DEF Attended
  <2>1. u # t /\ app # "reconciling"
    BY DEF ShuttingDown, Up
  <2>2. PassedOver(u) => PassedOver(u)'
    BY <2>1, PassedOverStays
  <2>3. QED
    BY <2>1, <2>2 DEF Attended
<1>4. QED
  BY <1>1, <1>2, <1>3

LEMMA OutsideStartInv ==
  ASSUME RInv, StartInv, OutsideFacts \/ \E m \in Monitors, t \in Takes : BeginFacts(m, t)
  PROVE  StartInv'
<1> USE DEF RInv, RTypeInv, RTypeOK, TypeInv, TypeOK, StartInv
<1>1. CASE OutsideFacts
  <2>1. KindsKnown' /\ QuietStart'
    BY <1>1 DEF OutsideFacts, KindsKnown, QuietStart, recovery
  <2>2. \A u \in Takes : PassedOver(u) => PassedOver(u)'
    BY <1>1 DEF OutsideFacts, PassedOver, SabrCapture
  <2>3. Attended'
    BY <1>1, <2>2 DEF OutsideFacts, Attended, recovery
  <2>4. QED
    BY <2>1, <2>3
<1>2. ASSUME NEW m \in Monitors, NEW t \in Takes, BeginFacts(m, t)
      PROVE  StartInv'
  <2>1. KindsKnown' /\ QuietStart'
    BY <1>2 DEF BeginFacts, KindsKnown, QuietStart, recovery, Serving, Up, AfterPhases
  <2>2. \A u \in Takes : u # t /\ PassedOver(u) => PassedOver(u)'
    BY <1>2 DEF BeginFacts, PassedOver, SabrCapture
  <2>3. Attended'
    BY <1>2, <2>2 DEF BeginFacts, Attended, recovery
  <2>4. QED
    BY <2>1, <2>3
<1>3. QED
  BY <1>1, <1>2

LEMMA LossStartInv ==
  ASSUME RInv, MemoryLost
  PROVE  StartInv'
BY DEF RInv, RTypeInv, RTypeOK, TypeInv, TypeOK, MemoryLost, StartInv, KindsKnown, QuietStart,
   Attended, AfterPhases, Idle, Settled

LEMMA ShutdownStartInv ==
  ASSUME RInv, StartInv, Detach \/ Stopping \/ Purge \/ Launch \/ ListInflight \/ OpenForBusiness
  PROVE  StartInv'
<1> USE DEF RInv, RTypeInv, RTypeOK, TypeInv, TypeOK, StartInv, supervisor, tasks, recovery
<1>1. UNCHANGED <<active, task, owner, kind, row, media>>
  BY DEF Detach, Stopping, StopAll, Purge, Launch, ListInflight, OpenForBusiness, store, machine
<1>2. \A u \in Takes : PassedOver(u) => PassedOver(u)'
  BY <1>1 DEF PassedOver, SabrCapture
<1>3. CASE Detach \/ Stopping \/ Purge
  <2>1. app' \in {"exiting", "draining", "purged"} /\ app \in {"running", "drained", "timedOut"}
        /\ pending' = pending
    BY <1>3 DEF Detach, Stopping, StopAll, Purge
  <2>2. QED
    BY <1>1, <2>1 DEF KindsKnown, QuietStart, Attended
<1>4. CASE Launch
  BY <1>1, <1>4 DEF Launch, KindsKnown, QuietStart, Attended, store
<1>5. CASE ListInflight
  <2>1. KindsKnown' /\ Attended'
    BY <1>1, <1>5 DEF ListInflight, KindsKnown, Attended
  <2>2. \A u \in pending' : kind[u] = "record"
    BY <1>5 DEF ListInflight, QuietStart
  <2>3. QED
    BY <1>1, <1>5, <2>1, <2>2 DEF ListInflight, QuietStart
<1>6. CASE OpenForBusiness
  BY <1>1, <1>2, <1>6 DEF OpenForBusiness, KindsKnown, QuietStart, Attended
<1>7. QED
  BY <1>3, <1>4, <1>5, <1>6

LEMMA DecideStartInv ==
  ASSUME RInv, StartInv, NEW t \in Takes, Reconcile(t) \/ Interrupted(t)
  PROVE  StartInv'
<1> USE DEF RInv, RTypeInv, RTypeOK, TypeInv, TypeOK, StartInv
<1>1. /\ t \in pending /\ kind[t] = "record" /\ task[t] \in Idle /\ row[t] # "none"
      /\ owner[t] \in Monitors /\ app \in {"reconciling", "inflight"}
      /\ app = "reconciling" => t \in registry
  BY DEF Reconcile, Interrupted, Known, QuietStart
<1>2. ASSUME NEW phase \in {"adopting", "resuming", "refinalize", "none", "done"},
             NEW k \in {"record", "resume", "reattach"}, Decided(t, phase, k),
             \/ k = "record" /\ phase \in Idle
             \/ k = "resume" /\ phase = "resuming" /\ owner[t] \in SabrMonitors
             \/ k = "reattach" /\ phase = "adopting"
             \/ k = "reattach" /\ phase = "refinalize" /\ app = "reconciling",
             \/ UNCHANGED active
             \/ k # "record" /\ \E e : active' = [active EXCEPT ![owner[t]] = e],
             \/ UNCHANGED row
             \/ phase = "done" /\ Orphan(t),
             phase \in Idle => row'[t] # "recording" \/ (app = "inflight" /\ PassedOver(t)),
             UNCHANGED registry
               \/ (registry' = registry \ {t} /\ phase = "done" /\ row'[t] # "recording"),
             k # "record" /\ app = "reconciling" => t \in registry
      PROVE  StartInv'
  <2>1. UNCHANGED <<owner, proc, media, app>> /\ pending' = pending \ {t}
        /\ task' = [task EXCEPT ![t] = phase] /\ kind' = [kind EXCEPT ![t] = k]
    BY <1>2 DEF Decided, machine
  <2>2. \A u \in Takes \ {t} : row'[u] = row[u]
    BY <1>2 DEF Orphan
  <2>3. KindsKnown'
    BY <1>1, <1>2, <2>1, <2>2 DEF KindsKnown, SlotPhases, SetupPhases, Idle, AfterPhases
  <2>4. \A u \in Takes : PassedOver(u) => PassedOver(u)'
    BY <1>1, <2>1, PassedOverStays
  <2>5. QuietStart'
    <3>1. ASSUME NEW m \in Monitors, active'[m] # None
          PROVE  \E u \in Takes : owner'[u] = m /\ kind'[u] # "record"
      <4>1. CASE active'[m] = active[m]
        BY <1>1, <2>1, <3>1, <4>1 DEF QuietStart
      <4>2. CASE active'[m] # active[m]
        BY <1>1, <1>2, <2>1, <4>2
      <4>3. QED
        BY <4>1, <4>2
    <3>2. \A u \in Takes : kind'[u] = "record" => task'[u] \in Idle
      BY <1>1, <1>2, <2>1 DEF QuietStart
    <3>3. QED
      BY <1>1, <1>2, <2>1, <3>1, <3>2 DEF QuietStart
  <2>6. Attended'
    <3> SUFFICES ASSUME NEW u \in Takes, row'[u] = "recording", task'[u] \in Idle
                 PROVE  /\ app = "reconciling" => u \in pending' \/ u \notin registry'
                        /\ app = "inflight" => u \in pending' \/ PassedOver(u)'
      BY <1>1, <2>1 DEF Attended
    <3>1. CASE u = t
      BY <1>1, <1>2, <2>1, <2>4, <3>1 DEF Idle
    <3>2. CASE u # t
      BY <1>2, <2>1, <2>2, <2>4, <3>2 DEF Attended
    <3>3. QED
      BY <3>1, <3>2
  <2>7. QED
    BY <2>3, <2>5, <2>6
<1>3. CASE Reconcile(t) /\ Adopt(t)
  BY <1>1, <1>2, <1>3 DEF Reconcile, Adopt, store, Idle
<1>4. CASE Resume(t)
  BY <1>1, <1>2, <1>4 DEF Resume, SabrCapture, store, Idle
<1>5. CASE Reconcile(t) /\ Refinalize(t)
  BY <1>1, <1>2, <1>5 DEF Reconcile, Refinalize, store, Idle
<1>6. CASE LeftNothing(t)
  BY <1>2, <1>6 DEF LeftNothing, Orphan, Idle
<1>7. CASE Orphan(t) /\ Decided(t, "done", "record") /\ UNCHANGED <<active, registry>>
  BY <1>2, <1>7 DEF Orphan, Idle
<1>8. CASE /\ app = "inflight" /\ SabrCapture(t) /\ ~ SlotFree(owner[t])
           /\ Decided(t, "none", "record") /\ UNCHANGED <<active, store>>
  <2>1. PassedOver(t)
    BY <1>1, <1>8 DEF PassedOver, QuietStart
  <2>2. QED
    BY <1>2, <1>8, <2>1 DEF store, Idle
<1>9. QED
  BY <1>3, <1>4, <1>5, <1>6, <1>7, <1>8 DEF Reconcile, Interrupted

LEMMA StepStartInv == RInv /\ StartInv /\ [RNext]_rvars => StartInv'
<1> SUFFICES ASSUME RInv, StartInv, [RNext]_rvars PROVE StartInv'
  OBVIOUS
<1>1. ASSUME NEW t \in Takes, TaskStep(t)
      PROVE  StartInv'
  BY <1>1, TakeStepFacts, RecoveryStepFacts, TaskStartInv DEF TaskStep, StartInv
<1>2. ASSUME NEW t \in Takes, RepairOrphan(t)
      PROVE  StartInv'
  <2>1. row' = [row EXCEPT ![t] = "completed"] /\ app = "running"
        /\ UNCHANGED <<supervisor, tasks, registry, machine, app, asked, recovery>>
    BY <1>2 DEF RepairOrphan
  <2>2. \A u \in Takes : PassedOver(u) => PassedOver(u)'
    BY <2>1 DEF PassedOver, SabrCapture, tasks, machine
  <2>3. QED
    BY <2>1, <2>2 DEF RInv, RTypeInv, RTypeOK, TypeInv, TypeOK, StartInv, KindsKnown, QuietStart,
       Attended, supervisor, tasks, machine, recovery, Settled
<1>3. CASE /\ SessionStep \/ \E t \in Takes : ToolWrites(t) \/ ToolExits(t)
           /\ UNCHANGED recovery
  BY <1>3, SessionFacts, OutsideStartInv
<1>4. CASE Exit \/ Crash
  BY <1>4, LossStartInv DEF Exit, Crash
<1>5. CASE Stopping \/ Purge \/ Detach \/ Launch \/ ListInflight \/ OpenForBusiness
  BY <1>5, ShutdownStartInv
<1>6. ASSUME NEW t \in Takes, Reconcile(t) \/ Interrupted(t)
      PROVE  StartInv'
  BY <1>6, DecideStartInv
<1>7. CASE UNCHANGED rvars
  BY <1>7 DEF rvars, vars, supervisor, tasks, store, machine, recovery, StartInv, KindsKnown,
     QuietStart, Attended, PassedOver, SabrCapture
<1>8. QED
  BY <1>1, <1>2, <1>3, <1>4, <1>5, <1>6, <1>7 DEF RNext, StartUp

LEMMA StartInvHolds == RSpec => []StartInv
<1>1. RInit => StartInv
  BY DEF RInit, Init, StartInv, KindsKnown, QuietStart, Attended, AfterPhases, Idle
<1>2. QED
  BY <1>1, StepStartInv, RInvHolds, PTL DEF RSpec

\* Start-up leaves no open row without a task, except that of a capture it could
\* resume whose monitor it had just given to another take.
THEOREM NoTakeIsForgotten == RSpec => []NoneForgotten
<1>1. StartInv => NoneForgotten
  BY DEF StartInv, Attended, NoneForgotten, Idle
<1>2. QED
  BY <1>1, StartInvHolds, PTL

-----------------------------------------------------------------------------
(* The slot over several runs.  The entry of a monitor may be removed under*)
(* the task that holds the slot, but only where Contended says so.         *)

\* A take this run records or resumes, from its reservation to the exit of its tool.
Holds(t) == kind[t] # "reattach" /\ task[t] \in SlotPhases

EntryOrContended ==
  \A t \in Takes :
    Holds(t) \/ task[t] = "adopting" => active[owner[t]] # None \/ Contended(owner[t])
\* From the spawn to the reap, and while it is adopted, the entry is the pid.
PidOrContended ==
  \A t \in Takes :
    task[t] \in {"capturing", "adopting"} => active[owner[t]] = t \/ Contended(owner[t])
OneOrContended ==
  \A t, u \in Takes : Holds(t) /\ Holds(u) /\ owner[t] = owner[u] => t = u \/ Contended(owner[t])
\* Beside a take that start-up adopted, none is set up or captured.
AdoptedOrContended ==
  \A t, u \in Takes :
    /\ kind[t] = "reattach" /\ Holds(u) /\ owner[t] = owner[u]
    /\ task[t] = "adopting" \/ (proc[t] = "live" /\ task[u] \in Committed \cup {"capturing"})
    => Contended(owner[t])
\* Once start-up has decided about it, a running capture is watched by a task
\* that recorded, resumed or adopted it, or by none on the way out.
LiveIsAttended ==
  app # "down" =>
    \A t \in Takes : proc[t] = "live" =>
      \/ app = "reconciling" /\ t \in pending
      \/ kind[t] # "reattach" /\ task[t] = "capturing"
      \/ kind[t] = "reattach" /\ (task[t] = "adopting" \/ (task[t] = "none" /\ ShuttingDown))
\* After a complete drain.
Drained ==
  /\ app \in {"drained", "purged"} =>
       \A t \in Takes : task[t] \in Committed => Contended(owner[t])
  /\ app = "purged" =>
       \A t \in Takes : proc[t] = "live" => kind[t] # "reattach" /\ Contended(owner[t])

SeatInv ==
  /\ EntryOrContended /\ PidOrContended
  /\ OneOrContended /\ AdoptedOrContended
  /\ LiveIsAttended /\ Drained

LEMMA ContendedByTwo ==
  ASSUME NEW t \in Takes, NEW u \in Takes, t # u, owner[t] = owner[u],
         kind[t] = "reattach", kind[u] = "reattach"
  PROVE  Contended(owner[t])
BY DEF Contended, Reattached

LEMMA ContendedBySabr ==
  ASSUME NEW t \in Takes, kind[t] = "reattach", owner[t] \in SabrMonitors
  PROVE  Contended(owner[t])
BY DEF Contended, Reattached

\* A monitor stays contended while the takes start-up re-attached are its own.
LEMMA ContendedStays ==
  ASSUME NEW m, Contended(m),
         \A u \in Takes : kind[u] = "reattach" => kind'[u] = "reattach" /\ owner'[u] = owner[u]
  PROVE  Contended(m)'
BY DEF Contended, Reattached

LEMMA TaskSeatInv ==
  ASSUME RInv, StartInv, SeatInv, Up, NEW t \in Takes, TaskFacts(t)
  PROVE  SeatInv'
<1> USE DEF RInv, RTypeInv, RTypeOK, TypeInv, TypeOK, TaskFacts, SeatInv, StartInv
<1>1. \A m : Contended(m) => Contended(m)'
  BY ContendedStays
<1>2. \A u \in Takes : Holds(u)' => Holds(u) /\ owner'[u] = owner[u]
  BY DEF Holds
<1>3. \A u \in Takes : task'[u] = "adopting" => u # t /\ task[u] = "adopting" /\ owner'[u] = owner[u]
  OBVIOUS
<1>4. \A u \in Takes : task[u] = "adopting" => kind[u] = "reattach"
  BY DEF KindsKnown
<1>5. EntryOrContended'
  <2> SUFFICES ASSUME NEW u \in Takes, Holds(u)' \/ task'[u] = "adopting",
                      active'[owner'[u]] = None
               PROVE  Contended(owner[u])
    BY <1>1, <1>2, <1>3 DEF EntryOrContended
  <2>1. Holds(u) \/ (u # t /\ task[u] = "adopting")
    BY <1>2, <1>3
  <2>2. owner'[u] = owner[u] /\ owner[u] \in Monitors
    BY <1>2, <1>3, <2>1 DEF Holds, OwnerKnown, SlotPhases, SetupPhases
  <2>3. CASE active[owner[u]] = None
    BY <2>1, <2>3 DEF EntryOrContended
  <2>4. CASE active[owner[u]] # None
    <3>1. /\ owner[t] = owner[u] /\ task[t] \in SlotPhases \cup {"refinalize"}
          /\ task'[t] \notin SlotPhases /\ t # u
      BY <2>1, <2>2, <2>4 DEF Holds
    <3>2. CASE kind[t] # "reattach"
      <4>1. Holds(t)
        BY <3>1, <3>2 DEF Holds, KindsKnown, AfterPhases
      <4>2. QED
        BY <1>4, <2>1, <3>1, <4>1 DEF OneOrContended, AdoptedOrContended
    <3>3. CASE kind[t] = "reattach" /\ kind[u] = "reattach"
      BY <3>1, <3>3, ContendedByTwo
    <3>4. CASE kind[t] = "reattach" /\ kind[u] # "reattach" /\ task[t] = "refinalize"
      <4>1. app = "inflight" /\ Holds(u)
        BY <1>4, <2>1, <3>4 DEF KindsKnown, Up
      <4>2. kind[u] = "resume"
        BY <4>1, <3>4 DEF QuietStart, Holds, Idle, SlotPhases, SetupPhases
      <4>3. QED
        BY <3>1, <3>4, <4>2, ContendedBySabr DEF KindsKnown
    <3>5. CASE kind[t] = "reattach" /\ kind[u] # "reattach" /\ task[t] # "refinalize"
      <4>1. task[t] = "adopting" /\ Holds(u)
        BY <1>4, <2>1, <3>1, <3>5 DEF KindsKnown
      <4>2. QED
        BY <3>1, <3>5, <4>1 DEF AdoptedOrContended
    <3>6. QED
      BY <3>2, <3>3, <3>4, <3>5
  <2>5. QED
    BY <2>3, <2>4
<1>6. OneOrContended'
  BY <1>1, <1>2 DEF OneOrContended
<1>7. AdoptedOrContended'
  <2> SUFFICES ASSUME NEW v \in Takes, NEW u \in Takes, kind[v] = "reattach", Holds(u)',
                      owner'[v] = owner'[u],
                      task'[v] = "adopting"
                        \/ (proc'[v] = "live" /\ task'[u] \in Committed \cup {"capturing"})
               PROVE  Contended(owner[v])
    BY <1>1 DEF AdoptedOrContended
  <2>1. Holds(u) /\ owner[v] = owner[u]
    BY <1>2
  <2>2. CASE task[v] = "adopting"
    BY <2>1, <2>2 DEF AdoptedOrContended
  <2>3. CASE task[v] # "adopting"
    <3>1. proc'[v] = "live" /\ task'[u] \in Committed \cup {"capturing"}
      BY <1>3, <2>3
    <3>2. proc[v] = "live"
      BY <3>1 DEF KindsKnown, SlotPhases, SetupPhases
    <3>3. ShuttingDown
      BY <2>3, <3>2 DEF LiveIsAttended, Up
    <3>4. task[u] \in Committed \cup {"capturing"}
      BY <3>1, <3>3
    <3>5. QED
      BY <2>1, <3>2, <3>4 DEF AdoptedOrContended
  <2>4. QED
    BY <2>2, <2>3
<1>8. LiveIsAttended'
  <2> SUFFICES ASSUME NEW u \in Takes, proc'[u] = "live", app # "down", app # "reconciling"
               PROVE  \/ kind[u] # "reattach" /\ task'[u] = "capturing"
                      \/ /\ kind[u] = "reattach"
                         /\ task'[u] = "adopting" \/ (task'[u] = "none" /\ ShuttingDown)
    BY DEF LiveIsAttended, ShuttingDown, Up
  <2>1. CASE u = t
    BY <2>1 DEF SlotPhases
  <2>2. CASE u # t
    BY <2>2 DEF LiveIsAttended
  <2>3. QED
    BY <2>1, <2>2
<1>9. Drained'
  <2>1. app \in {"drained", "purged"} => ShuttingDown
    BY DEF ShuttingDown
  <2>2. \A u \in Takes : task'[u] \in Committed => Holds(u)' \/ u # t
    BY DEF Committed, Holds, SlotPhases, SetupPhases
  <2>3. ASSUME app \in {"drained", "purged"}, NEW u \in Takes, task'[u] \in Committed
        PROVE  Contended(owner[u])'
    <3>1. task[u] \in Committed /\ owner'[u] = owner[u]
      BY <1>2, <2>1, <2>2, <2>3 DEF Committed, SlotPhases, SetupPhases
    <3>2. QED
      BY <1>1, <2>3, <3>1 DEF Drained
  <2>4. ASSUME app = "purged", NEW u \in Takes, proc'[u] = "live"
        PROVE  kind'[u] # "reattach" /\ Contended(owner[u])'
    <3>1. owner'[u] = owner[u]
      BY <2>4 DEF SlotPhases
    <3>2. kind[u] # "reattach" /\ Contended(owner[u])
      <4>1. CASE proc[u] = "live"
        BY <2>4, <4>1 DEF Drained
      <4>2. CASE u = t /\ task[t] = "spawning"
        BY <2>4, <4>2 DEF Drained, Committed, KindsKnown, SlotPhases, SetupPhases
      <4>3. QED
        BY <2>4, <4>1, <4>2
    <3>3. QED
      BY <1>1, <3>1, <3>2
  <2>5. QED
    BY <2>3, <2>4 DEF Drained
<1>10. PidOrContended'
  <2> SUFFICES ASSUME NEW u \in Takes, task'[u] \in {"capturing", "adopting"}
               PROVE  active'[owner'[u]] = u \/ Contended(owner[u])'
    BY DEF PidOrContended
  <2>1. owner'[u] = owner[u] /\ owner[u] \in Monitors
    BY <1>3 DEF OwnerKnown, SlotPhases, SetupPhases
  <2>2. CASE u = t
    BY <2>1, <2>2
  <2>3. CASE u # t /\ active'[owner[u]] = active[owner[u]]
    BY <1>1, <2>1, <2>3 DEF PidOrContended
  <2>4. CASE u # t /\ active'[owner[u]] # active[owner[u]]
    <3>1. owner[t] = owner[u] /\ (Holds(t) \/ task[t] \in {"refinalize", "adopting"})
      BY <2>1, <2>4 DEF Holds, KindsKnown, SlotPhases, SetupPhases
    <3>2. CASE active'[owner[u]] = None
      <4>1. Holds(u)' \/ task'[u] = "adopting"
        <5>1. task[u] = "capturing" => kind[u] # "reattach"
          BY DEF KindsKnown, SlotPhases
        <5>2. QED
          BY <2>4, <5>1 DEF Holds, SlotPhases
      <4>2. QED
        BY <1>5, <2>1, <3>2, <4>1 DEF EntryOrContended
    <3>3. CASE active'[owner[u]] # None
      <4>1. Holds(t)
        BY <2>1, <2>4, <3>3 DEF Holds, KindsKnown, SlotPhases, SetupPhases
      <4>2. CASE task[u] = "adopting"
        BY <1>1, <1>4, <2>1, <3>1, <4>1, <4>2 DEF AdoptedOrContended
      <4>3. CASE task[u] = "capturing"
        <5>1. Holds(u)
          BY <4>3 DEF Holds, KindsKnown, SlotPhases
        <5>2. QED
          BY <1>1, <2>1, <2>4, <3>1, <4>1, <5>1 DEF OneOrContended
      <4>4. QED
        BY <2>4, <4>2, <4>3
    <3>4. QED
      BY <3>2, <3>3
  <2>5. QED
    BY <2>2, <2>3, <2>4
<1>11. QED
  BY <1>5, <1>6, <1>7, <1>8, <1>9, <1>10

LEMMA OutsideSeatInv ==
  ASSUME RInv, StartInv, SeatInv, OutsideFacts \/ \E m \in Monitors, t \in Takes : BeginFacts(m, t)
  PROVE  SeatInv'
<1> USE DEF RInv, RTypeInv, RTypeOK, TypeInv, TypeOK, SeatInv, StartInv
<1>1. CASE OutsideFacts
  <2>1. /\ UNCHANGED <<task, owner, kind, active, pending>>
        /\ \A t \in Takes : proc'[t] = "live" => proc[t] = "live"
        /\ app = "down" <=> app' = "down"
        /\ ShuttingDown => ShuttingDown'
        /\ app' = "reconciling" <=> app = "reconciling"
        /\ app' = "purged" <=> app = "purged"
    BY <1>1 DEF OutsideFacts, recovery, ShuttingDown
  <2>2. \A m : Contended(m) => Contended(m)'
    BY <2>1, ContendedStays
  <2>3. /\ EntryOrContended' /\ PidOrContended'
        /\ OneOrContended' /\ AdoptedOrContended' /\ LiveIsAttended'
    BY <2>1, <2>2 DEF EntryOrContended, PidOrContended, OneOrContended, AdoptedOrContended,
       LiveIsAttended, Holds
  <2>4. Drained'
    <3>1. ASSUME app' = "drained", app # "drained", NEW t \in Takes, task[t] \in Committed
          PROVE  Contended(owner[t])
      <4>1. Holds(t) /\ owner[t] \in Monitors
        BY <3>1 DEF Holds, KindsKnown, OwnerKnown, Committed, SlotPhases, SetupPhases
      <4>2. active[owner[t]] = None
        BY <1>1, <3>1, <4>1 DEF OutsideFacts
      <4>3. QED
        BY <4>1, <4>2 DEF EntryOrContended
    <3>2. QED
      BY <2>1, <2>2, <3>1 DEF Drained
  <2>5. QED
    BY <2>3, <2>4
<1>2. ASSUME NEW m \in Monitors, NEW t \in Takes, BeginFacts(m, t)
      PROVE  SeatInv'
  <2>1. /\ app' = app /\ proc' = proc /\ kind' = kind /\ pending' = pending
        /\ task[t] = "none" /\ kind[t] = "record" /\ active[m] = None
        /\ app \notin {"down", "reconciling"} /\ proc[t] # "live"
    BY <1>2 DEF BeginFacts, recovery, Serving, Up, LiveIsAttended
  <2>2. /\ task'[t] = "deciding" /\ owner'[t] = m /\ active'[m] = Reserved
        /\ \A u \in Takes \ {t} : task'[u] = task[u] /\ owner'[u] = owner[u]
        /\ \A n \in Monitors \ {m} : active'[n] = active[n]
    BY <1>2 DEF BeginFacts
  <2>3. \A n : Contended(n) => Contended(n)'
    BY <2>1, <2>2, ContendedStays
  <2>4. \A u \in Takes \ {t} : (Holds(u)' <=> Holds(u)) /\ (Holds(u) => owner[u] \in Monitors)
    BY <2>1, <2>2 DEF Holds, OwnerKnown, SlotPhases, SetupPhases
  <2>5. \A u \in Takes : task[u] = "adopting" => owner[u] \in Monitors /\ kind[u] = "reattach"
    BY DEF OwnerKnown, KindsKnown
  <2>6. EntryOrContended'
    BY <2>1, <2>2, <2>3, <2>4, <2>5 DEF EntryOrContended
  <2>7. OneOrContended'
    BY <2>1, <2>2, <2>3, <2>4 DEF OneOrContended, EntryOrContended
  <2>8. AdoptedOrContended'
    BY <2>1, <2>2, <2>3, <2>4, <2>5 DEF AdoptedOrContended, EntryOrContended, Committed
  <2>9. LiveIsAttended'
    BY <2>1, <2>2 DEF LiveIsAttended, ShuttingDown
  <2>10. Drained'
    BY <2>1, <2>2, <2>3 DEF Drained, Committed
  <2>11. PidOrContended'
    BY <2>1, <2>2, <2>3 DEF PidOrContended, OwnerKnown
  <2>12. QED
    BY <2>6, <2>7, <2>8, <2>9, <2>10, <2>11
<1>3. QED
  BY <1>1, <1>2

LEMMA LossSeatInv ==
  ASSUME RInv, MemoryLost
  PROVE  SeatInv'
BY DEF RInv, RTypeInv, RTypeOK, TypeInv, TypeOK, MemoryLost, SeatInv, EntryOrContended,
   PidOrContended, OneOrContended, AdoptedOrContended, LiveIsAttended, Drained, Holds, SlotPhases,
   SetupPhases

LEMMA ShutdownSeatInv ==
  ASSUME RInv, StartInv, SeatInv,
         Detach \/ Stopping \/ Purge \/ Launch \/ ListInflight \/ OpenForBusiness
  PROVE  SeatInv'
<1> USE DEF RInv, RTypeInv, RTypeOK, TypeInv, TypeOK, SeatInv, StartInv, supervisor, tasks, recovery
<1>1. /\ UNCHANGED <<active, task, owner, kind>>
      /\ \A t \in Takes : proc'[t] = "live" => proc[t] = "live"
  BY DEF Detach, Stopping, StopAll, Purge, Launch, ListInflight, OpenForBusiness, store, machine
<1>2. \A m : Contended(m) => Contended(m)'
  BY <1>1, ContendedStays
<1>3. EntryOrContended' /\ PidOrContended' /\ OneOrContended' /\ AdoptedOrContended'
  BY <1>1, <1>2 DEF EntryOrContended, PidOrContended, OneOrContended, AdoptedOrContended, Holds
<1>4. LiveIsAttended'
  <2>1. CASE Detach \/ Stopping \/ Purge
    BY <1>1, <2>1 DEF Detach, Stopping, StopAll, Purge, LiveIsAttended, ShuttingDown
  <2>2. CASE Launch
    BY <1>1, <2>2 DEF Launch, LiveIsAttended, Registered
  <2>3. CASE ListInflight \/ OpenForBusiness
    BY <1>1, <2>3 DEF ListInflight, OpenForBusiness, LiveIsAttended, ShuttingDown
  <2>4. QED
    BY <2>1, <2>2, <2>3
<1>5. Drained'
  <2>1. CASE Purge
    <3>1. \A t \in Takes : proc'[t] # "live"
      BY <2>1 DEF Purge, Registered
    <3>2. QED
      BY <1>1, <1>2, <2>1, <3>1 DEF Purge, Drained
  <2>2. CASE Detach \/ Stopping \/ Launch \/ ListInflight \/ OpenForBusiness
    BY <2>2 DEF Detach, Stopping, StopAll, Launch, ListInflight, OpenForBusiness, Drained
  <2>3. QED
    BY <2>1, <2>2
<1>6. QED
  BY <1>3, <1>4, <1>5

LEMMA DecideSeatInv ==
  ASSUME RInv, StartInv, SeatInv, NEW t \in Takes, Reconcile(t) \/ Interrupted(t)
  PROVE  SeatInv'
<1> USE DEF RInv, RTypeInv, RTypeOK, TypeInv, TypeOK, SeatInv, StartInv
<1>1. /\ t \in pending /\ kind[t] = "record" /\ task[t] \in Idle
      /\ owner[t] \in Monitors /\ app \in {"reconciling", "inflight"}
  BY DEF Reconcile, Interrupted, Known, QuietStart
<1>2. ASSUME NEW phase \in {"adopting", "resuming", "refinalize", "none", "done"},
             NEW k \in {"record", "resume", "reattach"}, Decided(t, phase, k),
             \/ phase \in {"none", "done", "refinalize"} /\ UNCHANGED active
             \/ k = "reattach" /\ phase = "adopting" /\ active' = [active EXCEPT ![owner[t]] = t]
             \/ /\ k = "resume" /\ phase = "resuming" /\ active[owner[t]] = None
                /\ active' = [active EXCEPT ![owner[t]] = Reserved],
             proc[t] = "live" => phase = "adopting" \/ app = "inflight"
      PROVE  SeatInv'
  <2>1. UNCHANGED <<owner, proc, media, app>> /\ pending' = pending \ {t}
        /\ task' = [task EXCEPT ![t] = phase] /\ kind' = [kind EXCEPT ![t] = k]
    BY <1>2 DEF Decided, machine
  <2>2. \A m : Contended(m) => Contended(m)'
    BY <1>1, <2>1, ContendedStays
  <2>3. \A u \in Takes \ {t} : (Holds(u)' <=> Holds(u)) /\ (Holds(u) => owner[u] \in SabrMonitors)
    BY <1>1, <2>1 DEF Holds, KindsKnown, QuietStart, Idle, SlotPhases, SetupPhases
  <2>4. Holds(t)' => phase = "resuming"
    BY <1>2, <2>1 DEF Holds, SlotPhases, SetupPhases
  <2>5. \A u \in Takes : task[u] = "adopting" => kind[u] = "reattach" /\ owner[u] \in Monitors
    BY DEF KindsKnown, OwnerKnown
  <2>6. \A u \in Takes : Holds(u) => owner[u] \in Monitors
    BY <2>5 DEF Holds, OwnerKnown, SlotPhases, SetupPhases
  <2>7. EntryOrContended'
    <3> SUFFICES ASSUME NEW u \in Takes, Holds(u)' \/ task'[u] = "adopting",
                        active'[owner[u]] = None
                 PROVE  Contended(owner[u])
      BY <2>1, <2>2 DEF EntryOrContended
    <3>1. owner[u] \in Monitors
      BY <1>1, <2>1, <2>3, <2>5, <2>6
    <3>2. active'[owner[u]] = active[owner[u]]
      BY <1>1, <1>2, <3>1
    <3>3. u # t
      <4>1. phase \in {"adopting", "resuming"} => active'[owner[t]] # None
        BY <1>1, <1>2
      <4>2. QED
        BY <2>1, <2>4, <4>1
    <3>4. Holds(u) \/ task[u] = "adopting"
      BY <2>1, <2>3, <3>3
    <3>5. QED
      BY <3>2, <3>4 DEF EntryOrContended
  <2>8. OneOrContended'
    BY <1>1, <1>2, <2>1, <2>2, <2>3, <2>4 DEF OneOrContended, EntryOrContended
  <2>9. AdoptedOrContended'
    <3> SUFFICES ASSUME NEW v \in Takes, NEW u \in Takes, kind'[v] = "reattach", Holds(u)',
                        owner[v] = owner[u],
                        task'[v] = "adopting"
                          \/ (proc[v] = "live" /\ task'[u] \in Committed \cup {"capturing"})
                 PROVE  Contended(owner[v])'
      BY <2>1 DEF AdoptedOrContended
    <3>1. CASE u = t
      <4>1. phase = "resuming" /\ task'[v] = "adopting" /\ v # t
        BY <2>1, <2>4, <3>1 DEF Committed
      <4>2. task[v] = "adopting" /\ active[owner[v]] = None
        BY <1>2, <2>1, <3>1, <4>1
      <4>3. QED
        BY <2>1, <2>2, <4>2 DEF EntryOrContended
    <3>2. CASE u # t /\ v = t
      <4>1. owner'[t] \in SabrMonitors
        BY <2>1, <2>3, <3>2
      <4>2. QED
        BY <2>1, <3>2, <4>1 DEF Contended, Reattached
    <3>3. CASE u # t /\ v # t
      BY <2>1, <2>2, <2>3, <3>3 DEF AdoptedOrContended
    <3>4. QED
      BY <3>1, <3>2, <3>3
  <2>10. LiveIsAttended'
    <3>1. proc[t] = "live" => phase = "adopting" /\ k = "reattach"
      BY <1>1, <1>2 DEF LiveIsAttended, Idle
    <3>2. QED
      BY <1>1, <2>1, <3>1 DEF LiveIsAttended, ShuttingDown
  <2>11. Drained'
    BY <1>1, <2>1 DEF Drained
  <2>12. PidOrContended'
    <3> SUFFICES ASSUME NEW u \in Takes, task'[u] \in {"capturing", "adopting"}
                 PROVE  active'[owner[u]] = u \/ Contended(owner[u])'
      BY <2>1 DEF PidOrContended
    <3>1. owner[u] \in Monitors
      BY <1>1, <2>1 DEF OwnerKnown
    <3>2. CASE u = t
      BY <1>1, <1>2, <2>1, <3>2
    <3>3. CASE u # t /\ active'[owner[u]] = active[owner[u]]
      BY <2>1, <2>2, <3>3 DEF PidOrContended
    <3>4. CASE u # t /\ active'[owner[u]] # active[owner[u]]
      <4>1. owner[u] = owner[t] /\ task'[u] = task[u]
        BY <1>1, <1>2, <2>1, <3>1, <3>4
      <4>2. CASE k = "resume"
        <5>1. active[owner[u]] = None
          BY <1>2, <3>4, <4>1, <4>2
        <5>2. task[u] \in {"capturing", "adopting"}
          BY <4>1
        <5>3. Contended(owner[u])
          BY <5>1, <5>2 DEF PidOrContended
        <5>4. QED
          BY <2>1, <2>2, <5>3
      <4>3. CASE k = "reattach" /\ task[u] = "adopting"
        BY <1>1, <2>1, <2>5, <3>4, <4>1, <4>3 DEF Contended, Reattached
      <4>4. CASE k = "reattach" /\ task[u] = "capturing"
        <5>1. Holds(u)
          BY <4>4 DEF Holds, KindsKnown, SlotPhases
        <5>2. owner'[t] \in SabrMonitors
          BY <2>1, <2>3, <3>4, <4>1, <5>1
        <5>3. QED
          BY <1>1, <2>1, <4>1, <4>4, <5>2 DEF Contended, Reattached
      <4>5. QED
        BY <1>2, <2>1, <3>4, <4>1, <4>2, <4>3, <4>4
    <3>5. QED
      BY <3>2, <3>3, <3>4
  <2>13. QED
    BY <2>7, <2>8, <2>9, <2>10, <2>11, <2>12
<1>3. CASE Reconcile(t) /\ Adopt(t)
  BY <1>2, <1>3 DEF Adopt
<1>4. CASE Resume(t)
  BY <1>2, <1>4 DEF Resume
<1>5. CASE Refinalize(t)
  BY <1>2, <1>5 DEF Refinalize
<1>6. CASE LeftNothing(t)
  BY <1>2, <1>6 DEF LeftNothing
<1>7. CASE /\ app = "inflight" /\ UNCHANGED active
           /\ Decided(t, "done", "record") \/ Decided(t, "none", "record")
  BY <1>2, <1>7
<1>8. QED
  BY <1>3, <1>4, <1>5, <1>6, <1>7 DEF Reconcile, Interrupted

LEMMA StepSeatInv == RInv /\ StartInv /\ SeatInv /\ [RNext]_rvars => SeatInv'
<1> SUFFICES ASSUME RInv, StartInv, SeatInv, [RNext]_rvars PROVE SeatInv'
  OBVIOUS
<1>1. ASSUME NEW t \in Takes, TaskStep(t)
      PROVE  SeatInv'
  BY <1>1, TakeStepFacts, RecoveryStepFacts, TaskSeatInv DEF TaskStep, StartInv
<1>2. CASE /\ SessionStep \/ \E t \in Takes : ToolWrites(t) \/ ToolExits(t)
           /\ UNCHANGED recovery
  BY <1>2, SessionFacts, OutsideSeatInv
<1>3. CASE Exit \/ Crash
  BY <1>3, LossSeatInv DEF Exit, Crash
<1>4. CASE Stopping \/ Purge \/ Detach \/ Launch \/ ListInflight \/ OpenForBusiness
  BY <1>4, ShutdownSeatInv
<1>5. ASSUME NEW t \in Takes, Reconcile(t) \/ Interrupted(t)
      PROVE  SeatInv'
  BY <1>5, DecideSeatInv
<1>6. CASE UNCHANGED rvars \/ \E t \in Takes : RepairOrphan(t)
  <2>1. UNCHANGED <<active, task, owner, kind, proc, app, pending>>
    BY <1>6 DEF RepairOrphan, rvars, vars, supervisor, tasks, machine, recovery
  <2>2. QED
    BY <2>1 DEF SeatInv, EntryOrContended, PidOrContended, OneOrContended, AdoptedOrContended,
       LiveIsAttended, Drained, Holds, Contended, Reattached, ShuttingDown
<1>7. QED
  BY <1>1, <1>2, <1>3, <1>4, <1>5, <1>6 DEF RNext, StartUp

LEMMA SeatInvHolds == RSpec => []SeatInv
<1>1. RInit => SeatInv
  BY DEF RInit, Init, SeatInv, EntryOrContended, PidOrContended, OneOrContended,
     AdoptedOrContended, LiveIsAttended, Drained, Holds, Committed, SlotPhases, SetupPhases
<1>2. QED
  BY <1>1, StepSeatInv, StartInvHolds, RInvHolds, PTL DEF RSpec

\* After "Quit and stop", where the drain was not cut short, nothing runs but a
\* start of this run whose entry had been removed from the active map under it.
THEOREM CleanStop == RSpec => []StopLeavesNothing
<1>1. SeatInv => StopLeavesNothing
  BY DEF SeatInv, Drained, StopLeavesNothing
<1>2. QED
  BY <1>1, SeatInvHolds, PTL

\* The slot over restarts: once start-up has adopted what it found, two captures
\* run on one monitor only if the monitor is contended.
OneCaptureOrContended ==
  app \notin {"down", "reconciling"} =>
    \A t, u \in Takes :
      proc[t] = "live" /\ proc[u] = "live" /\ owner[t] = owner[u] => t = u \/ Contended(owner[t])

\* try_begin's one-capture-per-monitor, which OneTakePerSlot states for the
\* first run of the program, survives any number of restarts except where
\* finalize_reattached or adopt_detached can remove another take's entry.
THEOREM OneCaptureOverRestarts == RSpec => []OneCaptureOrContended
<1>1. RInv /\ SeatInv => OneCaptureOrContended
  <2> SUFFICES ASSUME RInv, SeatInv, app \notin {"down", "reconciling"},
                      NEW t \in Takes, NEW u \in Takes, t # u,
                      proc[t] = "live", proc[u] = "live", owner[t] = owner[u]
               PROVE  Contended(owner[t])
    BY DEF OneCaptureOrContended
  <2> USE DEF SeatInv
  <2>1. CASE kind[t] = "reattach" /\ kind[u] = "reattach"
    BY <2>1, ContendedByTwo
  <2>2. CASE kind[t] # "reattach" /\ kind[u] # "reattach"
    BY <2>2 DEF LiveIsAttended, OneOrContended, Holds, SlotPhases
  <2>3. CASE kind[t] = "reattach" /\ kind[u] # "reattach"
    BY <2>3 DEF LiveIsAttended, AdoptedOrContended, Holds, SlotPhases
  <2>4. CASE kind[t] # "reattach" /\ kind[u] = "reattach"
    BY <2>4 DEF LiveIsAttended, AdoptedOrContended, Holds, SlotPhases
  <2>5. QED
    BY <2>1, <2>2, <2>3, <2>4
<1>2. QED
  BY <1>1, SeatInvHolds, RInvHolds, PTL

\* While signals are taken, a running capture is the pid of its monitor's slot,
\* so that Stop, the drain and the scheduler's skip see it, or the monitor is
\* contended.
LiveIsSeen ==
  app \notin {"down", "reconciling"} /\ ~ ShuttingDown =>
    \A t \in Takes : proc[t] = "live" => active[owner[t]] = t \/ Contended(owner[t])

\* NoStrayCapture over restarts: the active map knows every capture by its pid,
\* one adopted from an earlier run too, unless its monitor is contended.
THEOREM CapturesAreSeenOverRestarts == RSpec => []LiveIsSeen
<1>1. SeatInv => LiveIsSeen
  BY DEF SeatInv, LiveIsAttended, PidOrContended, LiveIsSeen
<1>2. QED
  BY <1>1, SeatInvHolds, PTL
-----------------------------------------------------------------------------
(* An entry always has a holder.  This half of the slot needs no exception:*)
(* whoever leaves its slot clears the monitor's entry, be it another's.    *)

LEMMA DecideEntries ==
  ASSUME RInv, StartInv, NEW t \in Takes, Reconcile(t) \/ Interrupted(t), EntryHasHolder
  PROVE  EntryHasHolder'
<1> USE DEF RInv, RTypeInv, RTypeOK, TypeInv, TypeOK
<1>1. t \in pending /\ task[t] \in Idle /\ owner[t] \in Monitors
  BY DEF Reconcile, Interrupted, Known, StartInv, QuietStart
<1>2. \A u \in Takes \ {t} : task'[u] = task[u] /\ owner'[u] = owner[u]
  BY DEF Reconcile, Interrupted, Adopt, Resume, Refinalize, LeftNothing, Decided
<1>3. \/ active' = active
      \/ /\ \E e : active' = [active EXCEPT ![owner[t]] = e]
         /\ task'[t] \in {"adopting", "resuming"} /\ owner'[t] = owner[t]
  BY DEF Reconcile, Interrupted, Adopt, Resume, Refinalize, LeftNothing, Decided
<1>4. SUFFICES ASSUME NEW m \in Monitors, active'[m] # None
               PROVE  \E u \in Takes : owner'[u] = m /\ task'[u] \in SlotPhases
  BY DEF EntryHasHolder
<1>5. CASE active'[m] = active[m]
  <2>1. \E u \in Takes \ {t} : owner[u] = m /\ task[u] \in SlotPhases
    BY <1>1, <1>4, <1>5 DEF EntryHasHolder, Idle, SlotPhases, SetupPhases
  <2>2. QED
    BY <1>2, <2>1
<1>6. CASE active'[m] # active[m]
  BY <1>3, <1>6 DEF SlotPhases
<1>7. QED
  BY <1>5, <1>6

LEMMA StepEntries == RInv /\ StartInv /\ EntryHasHolder /\ [RNext]_rvars => EntryHasHolder'
<1> SUFFICES ASSUME RInv, StartInv, EntryHasHolder, [RNext]_rvars PROVE EntryHasHolder'
  OBVIOUS
<1> USE DEF RInv, RTypeInv, RTypeOK, TypeInv, TypeOK, EntryHasHolder
<1>1. ASSUME UNCHANGED <<active, task, owner>> PROVE EntryHasHolder'
  BY <1>1
<1>2. ASSUME NEW t \in Takes, TaskFacts(t)
      PROVE  EntryHasHolder'
  <2> SUFFICES ASSUME NEW m \in Monitors, active'[m] # None
               PROVE  \E u \in Takes : owner'[u] = m /\ task'[u] \in SlotPhases
    OBVIOUS
  <2>1. CASE active[m] = None
    BY <1>2, <2>1 DEF TaskFacts, SlotPhases
  <2>2. CASE active[m] # None
    <3> PICK u \in Takes : owner[u] = m /\ task[u] \in SlotPhases
      BY <2>2
    <3>1. CASE u # t
      BY <1>2, <3>1 DEF TaskFacts
    <3>2. CASE u = t
      <4>1. task'[t] \in SlotPhases
        BY <1>2, <3>2 DEF TaskFacts
      <4>2. QED
        BY <1>2, <3>2, <4>1 DEF TaskFacts
    <3>3. QED
      BY <3>1, <3>2
  <2>3. QED
    BY <2>1, <2>2
<1>3. ASSUME NEW t \in Takes, TaskStep(t)
      PROVE  EntryHasHolder'
  BY <1>2, <1>3, TakeStepFacts, RecoveryStepFacts DEF TaskStep, StartInv
<1>4. ASSUME NEW m \in Monitors, NEW t \in Takes, BeginFacts(m, t)
      PROVE  EntryHasHolder'
  BY <1>4 DEF BeginFacts, SlotPhases, SetupPhases
<1>5. CASE /\ SessionStep \/ \E t \in Takes : ToolWrites(t) \/ ToolExits(t)
           /\ UNCHANGED recovery
  BY <1>1, <1>4, <1>5, SessionFacts DEF OutsideFacts
<1>6. CASE Exit \/ Crash
  BY <1>6 DEF Exit, Crash, MemoryLost
<1>7. CASE Stopping \/ Purge \/ Detach \/ Launch \/ ListInflight \/ OpenForBusiness
  BY <1>1, <1>7 DEF Stopping, StopAll, Purge, Detach, Launch, ListInflight, OpenForBusiness,
     supervisor, tasks
<1>8. ASSUME NEW t \in Takes, RepairOrphan(t)
      PROVE  EntryHasHolder'
  BY <1>1, <1>8 DEF RepairOrphan, supervisor, tasks
<1>9. CASE UNCHANGED rvars
  BY <1>1, <1>9 DEF rvars, vars, supervisor, tasks
<1>10. QED
  BY <1>3, <1>5, <1>6, <1>7, <1>8, <1>9, DecideEntries DEF RNext, StartUp

\* No restart, adoption, resume or eviction leaves a monitor's slot taken with
\* nobody to give it back: the safety half of "the monitor can record again".
THEOREM NoSlotLeaksOverRestarts == RSpec => []EntryHasHolder
<1>1. RInit => EntryHasHolder
  BY DEF RInit, Init, EntryHasHolder
<1>2. QED
  BY <1>1, StepEntries, RInvHolds, StartInvHolds, PTL DEF RSpec
=============================================================================
