-------------------------- MODULE SupervisorProofs --------------------------
(***************************************************************************)
(* What holds of the capture slot for every set of monitors and takes.     *)
(*                                                                         *)
(* TypeInv is inductive by itself.  SlotInv strengthens the properties of  *)
(* Supervisor to what a step needs of the step before: a task that holds a *)
(* slot finds its monitor's entry in the active map, only one task does,   *)
(* and the entry is its own pid from the spawn to the reap.                *)
(***************************************************************************)
EXTENDS Supervisor, FiniteSetTheorems, TLAPS

USE IdAssumption DEF SlotFree, ReleaseActive, Finish, Track, CaptureOver, Spend

\* Where a take is before its row exists.
UnopenedPhases == {"none", "deciding", "starting", "permitted"}
OpenPhases == {"inserted", "spawning", "capturing", "exited", "skipped"} \cup FinalPhases

OwnerKnown ==
  /\ \A t \in Takes : task[t] # "none" => owner[t] \in Monitors
  /\ \A t \in watching : task[t] \notin UnopenedPhases
TypeInv == TypeOK /\ OwnerKnown

OneHolder ==
  \A t, u \in Takes :
    task[t] \in SlotPhases /\ task[u] \in SlotPhases /\ owner[t] = owner[u] => t = u
HolderHasEntry == \A t \in Takes : task[t] \in SlotPhases => active[owner[t]] # None
CapturingIsTracked ==
  \A t \in Takes : task[t] = "capturing" => active[owner[t]] = t /\ t \in registry
LiveIsCapturing == \A t \in Takes : proc[t] = "live" => task[t] = "capturing"
RowFollowsTask ==
  \A t \in Takes : /\ row[t] = "none" <=> task[t] \in UnopenedPhases
                   /\ row[t] = "recording" <=> task[t] \in OpenPhases
NoRecovery ==
  \A t \in Takes :
    task[t] \notin {"adopting", "resuming", "refinalize", "notFound", "settled", "purging"}

SlotInv ==
  /\ NoRecovery
  /\ OneHolder
  /\ HolderHasEntry
  /\ CapturingIsTracked
  /\ LiveIsCapturing
  /\ RowFollowsTask

-----------------------------------------------------------------------------
(* Types.                                                                  *)

LEMMA InitTypeInv == Init => TypeInv
  BY BoundAssumption DEF Init, TypeInv, TypeOK, OwnerKnown, Phases, Statuses, AppPhases

LEMMA TakeStepTypeInv ==
  ASSUME TypeInv, NEW t \in Takes, TakeStep(t)
  PROVE  TypeInv'
<1> USE DEF TypeInv, OwnerKnown, UnopenedPhases, Step
<1> DEFINE Moved(from, to) ==
      Advance(t, from, to) /\ to \in Phases /\ (t \in watching => to \notin UnopenedPhases)
        /\ owner[t] \in Monitors
<1>1. ASSUME NEW from, NEW to, Moved(from, to)
      PROVE  TypeInv'
  BY <1>1 DEF Advance, supervisor, store, machine, TypeOK
<1>2. ASSUME NEW from \in {"deciding", "starting"}, GiveBack(t, from)
      PROVE  TypeInv'
  BY <1>2 DEF GiveBack, store, machine, TypeOK, Phases
<1>3. CASE Decline(t) \/ RefuseDuplicate(t) \/ AbandonStart(t)
  BY <1>2, <1>3 DEF Decline, RefuseDuplicate, AbandonStart
<1>4. CASE Admit(t) \/ Acquire(t)
  BY <1>1, <1>4 DEF Admit, Acquire, Advance, Phases, SlotPhases, SetupPhases
<1>5. CASE SkipSpawn(t) \/ PassStopCheck(t) \/ SpawnFails(t)
  BY <1>1, <1>5 DEF SkipSpawn, PassStopCheck, SpawnFails, Advance, Phases, SlotPhases,
     SetupPhases
<1>6. CASE InsertRow(t)
  <2>1. watching' \subseteq watching \cup {t}
    BY <1>6 DEF InsertRow
  <2>2. task' = [task EXCEPT ![t] = "inserted"] /\ owner[t] \in Monitors
    BY <1>6 DEF InsertRow
  <2>3. OwnerKnown'
    BY <1>6, <2>1, <2>2 DEF InsertRow, TypeOK
  <2>4. TypeOK'
    BY <1>6, <2>1, <2>2 DEF InsertRow, machine, TypeOK, Phases, SlotPhases, SetupPhases,
       Statuses
  <2>5. QED
    BY <2>3, <2>4
<1>7. CASE Spawn(t)
  BY <1>7 DEF Spawn, TypeOK, Phases, SlotPhases, SetupPhases
<1>8. CASE Reap(t)
  BY <1>8 DEF Reap, supervisor, machine, TypeOK, Phases, SlotPhases, SetupPhases
<1>9. CASE Retry(t)
  <2>1. retries' \in [Takes -> 0..MaxRetries]
    BY <1>9, BoundAssumption DEF Retry, TypeOK
  <2>2. QED
    BY <1>9, <2>1 DEF Retry, supervisor, store, machine, TypeOK, Phases, SlotPhases
<1>10. CASE FinalizeBegin(t)
  BY <1>10 DEF FinalizeBegin, store, machine, TypeOK, Phases, FinalPhases
<1>11. CASE \E gone \in BOOLEAN : Settle(t, gone)
  <2> PICK gone \in BOOLEAN : Settle(t, gone)
    BY <1>11
  <2>1. Verdict(t, gone) \in Statuses
    BY DEF Verdict, Statuses, Settled
  <2>2. backoff' \in [Monitors -> {"none", "stopped", "restart", "failed"}]
    BY DEF Settle, NoteResult, TypeOK
  <2>3. QED
    BY <2>1, <2>2 DEF Settle, machine, TypeOK, Phases
<1>12. CASE Promote(t)
  BY <1>12 DEF Promote, supervisor, store, TypeOK, Phases, FinalPhases
<1>13. QED
  BY <1>3, <1>4, <1>5, <1>6, <1>7, <1>8, <1>9, <1>10, <1>11, <1>12 DEF TakeStep

LEMMA OutsideStepTypeInv ==
  ASSUME TypeInv, NEW t \in Takes, OutsideStep(t)
  PROVE  TypeInv'
<1> USE DEF TypeInv, OwnerKnown, UnopenedPhases
<1>1. CASE ToolWrites(t) \/ ToolExits(t)
  BY <1>1 DEF ToolWrites, ToolExits, supervisor, tasks, store, TypeOK
<1>2. CASE StallKill(t)
  BY <1>2 DEF StallKill, KillPid, tasks, store, TypeOK
<1>3. CASE QualityRestart(t)
  BY <1>3 DEF QualityRestart, KillPid, Holders, tasks, store, TypeOK
<1>4. CASE WatcherEnds(t)
  BY <1>4 DEF WatcherEnds, tasks, store, machine, TypeOK
<1>5. QED
  BY <1>1, <1>2, <1>3, <1>4 DEF OutsideStep

LEMMA MonitorStepTypeInv ==
  ASSUME TypeInv, NEW m \in Monitors, MonitorStep(m)
  PROVE  TypeInv'
<1> USE DEF TypeInv, OwnerKnown, UnopenedPhases
<1>1. CASE Begin(m)
  <2> PICK t \in Takes, bypass \in BOOLEAN, forced \in BOOLEAN : TryBegin(m, t, bypass, forced)
    BY <1>1 DEF Begin
  <2>1. QED
    BY DEF TryBegin, NextTake, Step, store, machine, TypeOK, Phases, SlotPhases, SetupPhases
<1>2. CASE Stop(m)
  BY <1>2 DEF Stop, KillPid, Holders, tasks, store, TypeOK
<1>3. CASE BackoffExpires(m) \/ StallCooldownExpires(m)
  BY <1>3 DEF BackoffExpires, StallCooldownExpires, tasks, store, machine, TypeOK
<1>4. CASE DrainKill(m)
  BY <1>4 DEF DrainKill, KillPid, supervisor, tasks, store, TypeOK
<1>5. QED
  BY <1>1, <1>2, <1>3, <1>4 DEF MonitorStep

LEMMA StepTypeInv == TypeInv /\ [Next]_vars => TypeInv'
<1> SUFFICES ASSUME TypeInv, [Next]_vars PROVE TypeInv'
  OBVIOUS
<1>1. CASE AppStep
  BY <1>1 DEF AppStep, StopAll, DrainDone, DrainTimesOut, supervisor, tasks, store, machine, TypeInv, OwnerKnown,
     UnopenedPhases, TypeOK, AppPhases
<1>2. CASE UNCHANGED vars
  BY <1>2 DEF vars, supervisor, tasks, store, machine, TypeInv, OwnerKnown, UnopenedPhases,
     TypeOK
<1>3. QED
  BY <1>1, <1>2, TakeStepTypeInv, OutsideStepTypeInv, MonitorStepTypeInv DEF Next

LEMMA TypeInvHolds == Spec => []TypeInv
  BY InitTypeInv, StepTypeInv, PTL DEF Spec

\* Every variable keeps its type: no map gains a key that is not a monitor, and
\* no task, row or process leaves the values the program knows.
THEOREM TypeCorrect == Spec => []TypeOK
<1>1. TypeInv => TypeOK
  BY DEF TypeInv
<1>2. QED
  BY <1>1, TypeInvHolds, PTL

-----------------------------------------------------------------------------
(* The slot.                                                               *)

LEMMA InitSlotInv == Init => SlotInv
  BY DEF Init, SlotInv, NoRecovery, OneHolder, HolderHasEntry, CapturingIsTracked,
     LiveIsCapturing, RowFollowsTask, SlotPhases, SetupPhases, FinalPhases, UnopenedPhases,
     OpenPhases

\* A step of one task: the others keep their phase, their slot and their pid.
LEMMA TakeStepSlotInv ==
  ASSUME TypeInv, SlotInv, NEW t \in Takes, TakeStep(t)
  PROVE  SlotInv'
<1> USE DEF TypeInv, OwnerKnown, SlotInv, NoRecovery, OneHolder, HolderHasEntry,
        CapturingIsTracked, LiveIsCapturing, RowFollowsTask, UnopenedPhases, OpenPhases,
        SlotPhases, SetupPhases, FinalPhases, Step
<1>1. CASE Admit(t) \/ Acquire(t) \/ SkipSpawn(t) \/ PassStopCheck(t) \/ SpawnFails(t)
  BY <1>1 DEF Admit, Acquire, SkipSpawn, PassStopCheck, SpawnFails, Advance, supervisor,
     store, machine, TypeOK
<1>2. ASSUME NEW from \in {"deciding", "starting"}, GiveBack(t, from)
      PROVE  SlotInv'
  BY <1>2 DEF GiveBack, store, machine, TypeOK
<1>3. CASE Decline(t) \/ RefuseDuplicate(t) \/ AbandonStart(t)
  BY <1>2, <1>3 DEF Decline, RefuseDuplicate, AbandonStart
<1>4. CASE InsertRow(t)
  BY <1>4 DEF InsertRow, machine, TypeOK
<1>5. CASE Spawn(t)
  BY <1>5 DEF Spawn, TypeOK
<1>6. CASE Reap(t)
  BY <1>6 DEF Reap, supervisor, machine, TypeOK
<1>7. CASE Retry(t)
  BY <1>7 DEF Retry, supervisor, store, machine, TypeOK
<1>8. CASE FinalizeBegin(t)
  BY <1>8 DEF FinalizeBegin, store, machine, TypeOK
<1>9. CASE \E gone \in BOOLEAN : Settle(t, gone)
  BY <1>9 DEF Settle, Verdict, machine, TypeOK
<1>10. CASE Promote(t)
  BY <1>10 DEF Promote, supervisor, store, TypeOK
<1>11. QED
  BY <1>1, <1>3, <1>4, <1>5, <1>6, <1>7, <1>8, <1>9, <1>10 DEF TakeStep

\* The world outside a task ends processes and sets flags; it starts nothing.
LEMMA QuietStepSlotInv ==
  ASSUME TypeInv, SlotInv, UNCHANGED <<active, task, owner, row, registry>>,
         \A t \in Takes : proc'[t] = "live" => proc[t] = "live"
  PROVE  SlotInv'
  BY DEF SlotInv, NoRecovery, OneHolder, HolderHasEntry, CapturingIsTracked,
     LiveIsCapturing, RowFollowsTask

LEMMA KillStartsNothing ==
  ASSUME NEW pid, KillPid(pid)
  PROVE  \A t \in Takes : proc'[t] = "live" => proc[t] = "live"
  BY DEF KillPid

LEMMA OutsideStepSlotInv ==
  ASSUME TypeInv, SlotInv, NEW t \in Takes, OutsideStep(t)
  PROVE  SlotInv'
<1>1. CASE ToolWrites(t) \/ WatcherEnds(t)
  BY <1>1, QuietStepSlotInv DEF ToolWrites, WatcherEnds, supervisor, tasks, store, machine
<1>2. CASE ToolExits(t)
  BY <1>2, QuietStepSlotInv DEF ToolExits, supervisor, tasks, store, TypeInv, TypeOK
<1>3. CASE StallKill(t) \/ QualityRestart(t)
  BY <1>3, QuietStepSlotInv, KillStartsNothing
     DEF StallKill, QualityRestart, tasks, store
<1>4. QED
  BY <1>1, <1>2, <1>3 DEF OutsideStep

LEMMA MonitorStepSlotInv ==
  ASSUME TypeInv, SlotInv, NEW m \in Monitors, MonitorStep(m)
  PROVE  SlotInv'
<1>1. CASE Begin(m)
  <2> PICK t \in Takes, bypass \in BOOLEAN, forced \in BOOLEAN : TryBegin(m, t, bypass, forced)
    BY <1>1 DEF Begin
  <2>1. \A u \in Takes : task[u] \in SlotPhases => owner[u] # m
    BY DEF TryBegin, TypeInv, TypeOK, SlotInv, HolderHasEntry
  <2>2. QED
    BY <2>1 DEF TryBegin, Step, store, machine, TypeInv, TypeOK, OwnerKnown, SlotInv,
       NoRecovery, OneHolder, HolderHasEntry, CapturingIsTracked, LiveIsCapturing,
       RowFollowsTask, UnopenedPhases, OpenPhases, SlotPhases, SetupPhases, FinalPhases
<1>2. CASE Stop(m) \/ DrainKill(m)
  BY <1>2, QuietStepSlotInv, KillStartsNothing DEF Stop, DrainKill, supervisor, tasks, store
<1>3. CASE BackoffExpires(m) \/ StallCooldownExpires(m)
  BY <1>3, QuietStepSlotInv DEF BackoffExpires, StallCooldownExpires, tasks, store, machine
<1>4. QED
  BY <1>1, <1>2, <1>3 DEF MonitorStep

LEMMA StepSlotInv == TypeInv /\ SlotInv /\ [Next]_vars => SlotInv'
<1> SUFFICES ASSUME TypeInv, SlotInv, [Next]_vars PROVE SlotInv'
  OBVIOUS
<1>1. CASE AppStep \/ UNCHANGED vars
  BY <1>1, QuietStepSlotInv DEF AppStep, StopAll, DrainDone, DrainTimesOut, vars, supervisor, tasks, store, machine
<1>2. QED
  BY <1>1, TakeStepSlotInv, OutsideStepSlotInv, MonitorStepSlotInv DEF Next

LEMMA SlotInvHolds == Spec => []SlotInv
  BY InitSlotInv, StepSlotInv, TypeInvHolds, PTL DEF Spec

\* However starts, stops, retries and finalizes interleave, no two takes of a
\* monitor are set up or captured at the same time (try_begin's reservation).
THEOREM OneTakePerSlot == Spec => []SlotExclusive
<1>1. TypeInv /\ SlotInv => SlotExclusive
  <2> SUFFICES ASSUME TypeInv, SlotInv PROVE SlotExclusive
    OBVIOUS
  <2>1. ASSUME NEW m \in Monitors
        PROVE  Cardinality(Holders(m)) <= 1
    <3>1. CASE Holders(m) = {}
      BY <3>1, FS_EmptySet
    <3>2. ASSUME NEW t \in Takes, Holders(m) = {t}
          PROVE  Cardinality(Holders(m)) <= 1
      <4>1. Cardinality({t}) = 1
        BY FS_Singleton, Zenon
      <4>2. QED
        BY <4>1, <3>2
    <3>3. Holders(m) = {} \/ \E t \in Takes : Holders(m) = {t}
      BY DEF Holders, SlotInv, OneHolder
    <3>4. QED
      BY <3>1, <3>2, <3>3
  <2>2. \A t, u \in Takes : proc[t] = "live" /\ proc[u] = "live" /\ owner[t] = owner[u] => t = u
    BY DEF SlotInv, OneHolder, LiveIsCapturing, SlotPhases
  <2>3. QED
    BY <2>1, <2>2 DEF SlotExclusive
<1>2. QED
  BY <1>1, TypeInvHolds, SlotInvHolds, PTL

\* A capture process is never out of sight: Stop and shutdown find its pid in
\* the active map, a restart finds it in the registry, its row is open.
THEOREM NoStrayCapture == Spec => []LiveIsTracked
<1>1. SlotInv => LiveIsTracked
  BY DEF SlotInv, LiveIsTracked, LiveIsCapturing, CapturingIsTracked, RowFollowsTask,
     OpenPhases
<1>2. QED
  BY <1>1, SlotInvHolds, PTL

\* A row is open exactly while a task is on its way to settle it.
THEOREM OpenRowHasTask == Spec => []OpenRowIsOwned
<1>1. SlotInv => OpenRowIsOwned
  BY DEF SlotInv, OpenRowIsOwned, RowFollowsTask, OpenPhases
<1>2. QED
  BY <1>1, SlotInvHolds, PTL

\* Once a take has its verdict no later step touches its row: an older take of
\* the monitor that settles late, or a stop that arrives late, writes elsewhere.
THEOREM VerdictIsFinal == Spec => SettledIsFinal
<1>1. ASSUME TypeInv, SlotInv, [Next]_vars, NEW t \in Takes, row[t] \in Settled
      PROVE  row'[t] = row[t]
  <2>1. task[t] = "done"
    BY <1>1 DEF Settled, SlotInv, NoRecovery, RowFollowsTask, UnopenedPhases, OpenPhases,
       FinalPhases, TypeInv, TypeOK, Phases, SlotPhases, SetupPhases
  <2>2. ASSUME NEW u \in Takes, TakeStep(u)
        PROVE  row'[t] = row[t]
    <3>1. CASE InsertRow(u)
      BY <2>1, <3>1 DEF InsertRow, Step, TypeInv, TypeOK
    <3>2. CASE \E gone \in BOOLEAN : Settle(u, gone)
      BY <2>1, <3>2 DEF Settle, Step, TypeInv, TypeOK
    <3>3. CASE ~ InsertRow(u) /\ ~ \E gone \in BOOLEAN : Settle(u, gone)
      BY <2>2, <3>3 DEF TakeStep, Decline, Admit, RefuseDuplicate, Acquire, AbandonStart,
         SkipSpawn, PassStopCheck, Spawn, SpawnFails, Reap, Retry, FinalizeBegin, Promote,
         Advance, GiveBack, store
    <3>4. QED
      BY <3>1, <3>2, <3>3
  <2>3. ASSUME NEW u \in Takes, OutsideStep(u)
        PROVE  row'[t] = row[t]
    BY <2>3 DEF OutsideStep, ToolWrites, ToolExits, StallKill, QualityRestart, WatcherEnds, store
  <2>4. ASSUME NEW m \in Monitors, MonitorStep(m)
        PROVE  row'[t] = row[t]
    BY <2>4 DEF MonitorStep, Begin, TryBegin, Stop, BackoffExpires, StallCooldownExpires,
       DrainKill, store
  <2>5. CASE AppStep \/ UNCHANGED vars
    BY <2>5 DEF AppStep, StopAll, DrainDone, DrainTimesOut, vars, store
  <2>6. QED
    BY <1>1, <2>2, <2>3, <2>4, <2>5 DEF Next
<1>2. TypeInv /\ SlotInv /\ [Next]_vars =>
        [\A t \in Takes : row[t] \in Settled => row'[t] = row[t]]_vars
  BY <1>1
<1>3. QED
  BY <1>2, TypeInvHolds, SlotInvHolds, PTL DEF Spec, SettledIsFinal
-----------------------------------------------------------------------------
(* No slot is left behind.  HolderHasEntry says that a task that sets up or *)
(* captures finds its entry; HeldInv is the other direction, which is what *)
(* SlotIsFreed and DrainEnds start from: an entry nobody stands behind is  *)
(* never removed, and its monitor never records again.                     *)

EntryHasHolder ==
  \A m \in Monitors : active[m] # None => \E t \in Takes : owner[t] = m /\ task[t] \in SlotPhases

\* What the user interface shows as finalizing is.
ShownIsFinalizing ==
  \A m \in Monitors : finalizing[m] # None =>
    finalizing[m] \in Takes /\ owner[finalizing[m]] = m /\ task[finalizing[m]] \in FinalPhases

\* Once the drain has found the map empty, what starts nevertheless (a WebSub
\* push or a user's Start passes try_begin) stops at the check behind the permit.
Emptied ==
  app = "drained" => \A t \in Takes : task[t] \notin SlotPhases \ {"deciding", "starting"}

HeldInv == EntryHasHolder /\ ShownIsFinalizing /\ Emptied

LEMMA InitHeldInv == Init => HeldInv
  BY DEF Init, HeldInv, EntryHasHolder, ShownIsFinalizing, Emptied

LEMMA TakeStepHeldInv ==
  ASSUME TypeInv, SlotInv, HeldInv, NEW t \in Takes, TakeStep(t)
  PROVE  HeldInv'
<1> USE DEF TypeInv, OwnerKnown, HeldInv, EntryHasHolder, ShownIsFinalizing, Emptied, SlotPhases,
        SetupPhases, FinalPhases, Step, ShuttingDown
<1>1. CASE Admit(t) \/ Acquire(t) \/ SkipSpawn(t) \/ PassStopCheck(t) \/ SpawnFails(t)
  <2>1. /\ task[t] \in SlotPhases /\ task'[t] \in SlotPhases
        /\ \A u \in Takes \ {t} : task'[u] = task[u]
        /\ UNCHANGED <<active, finalizing, owner, app>>
    BY <1>1 DEF Admit, Acquire, SkipSpawn, PassStopCheck, SpawnFails, Advance, supervisor,
       TypeOK
  <2>2. \A u \in Takes : task[u] \in SlotPhases => task'[u] \in SlotPhases
    BY <2>1
  <2>3. EntryHasHolder'
    BY <2>1, <2>2
  <2>4. ShownIsFinalizing'
    BY <2>1
  <2>5. Emptied'
    BY <1>1 DEF Admit, Acquire, SkipSpawn, PassStopCheck, SpawnFails, Advance, TypeOK
  <2>6. QED
    BY <2>3, <2>4, <2>5
<1>2. ASSUME NEW from \in {"deciding", "starting"}, GiveBack(t, from)
      PROVE  HeldInv'
  <2>1. task' = [task EXCEPT ![t] = "none"] /\ owner' = [owner EXCEPT ![t] = None]
          /\ task[t] = from /\ active' = [active EXCEPT ![owner[t]] = None]
          /\ UNCHANGED <<finalizing, app>>
    BY <1>2 DEF GiveBack
  <2>2. EntryHasHolder'
    BY <2>1 DEF TypeOK
  <2>3. ShownIsFinalizing'
    BY <2>1 DEF TypeOK
  <2>4. QED
    BY <2>1, <2>2, <2>3 DEF TypeOK
<1>3. CASE Decline(t) \/ RefuseDuplicate(t) \/ AbandonStart(t)
  BY <1>2, <1>3 DEF Decline, RefuseDuplicate, AbandonStart
<1>4. CASE InsertRow(t)
  BY <1>4 DEF InsertRow, machine, TypeOK
<1>5. CASE Spawn(t)
  BY <1>5 DEF Spawn, TypeOK
<1>6. CASE Reap(t)
  BY <1>6 DEF Reap, supervisor, machine, TypeOK
<1>7. CASE Retry(t)
  BY <1>7 DEF Retry, supervisor, store, machine, TypeOK
<1>8. CASE FinalizeBegin(t)
  BY <1>8 DEF FinalizeBegin, store, machine, TypeOK
<1>9. CASE \E gone \in BOOLEAN : Settle(t, gone)
  BY <1>9 DEF Settle, machine, TypeOK
<1>10. CASE Promote(t)
  BY <1>10 DEF Promote, supervisor, store, TypeOK
<1>11. QED
  BY <1>1, <1>3, <1>4, <1>5, <1>6, <1>7, <1>8, <1>9, <1>10 DEF TakeStep

LEMMA QuietStepHeldInv ==
  ASSUME HeldInv, UNCHANGED <<active, finalizing, task, owner, app>>
  PROVE  HeldInv'
  BY DEF HeldInv, EntryHasHolder, ShownIsFinalizing, Emptied

LEMMA StepHeldInv == TypeInv /\ SlotInv /\ HeldInv /\ [Next]_vars => HeldInv'
<1> SUFFICES ASSUME TypeInv, SlotInv, HeldInv, [Next]_vars PROVE HeldInv'
  OBVIOUS
<1>1. CASE UNCHANGED vars
  BY <1>1, QuietStepHeldInv DEF vars, supervisor, tasks
<1>2. ASSUME NEW t \in Takes, OutsideStep(t)
      PROVE  HeldInv'
  BY <1>2, QuietStepHeldInv DEF OutsideStep, ToolWrites, ToolExits, StallKill, QualityRestart,
     WatcherEnds, supervisor, tasks
<1>3. ASSUME NEW m \in Monitors, MonitorStep(m)
      PROVE  HeldInv'
  <2>1. CASE Begin(m)
    <3> PICK t \in Takes, bypass \in BOOLEAN, forced \in BOOLEAN :
               TryBegin(m, t, bypass, forced)
      BY <2>1 DEF Begin
    <3>1. task' = [task EXCEPT ![t] = "deciding"] /\ owner' = [owner EXCEPT ![t] = m]
            /\ task[t] = "none" /\ active' = [active EXCEPT ![m] = Reserved]
            /\ active[m] = None /\ UNCHANGED <<finalizing, app>>
      BY DEF TryBegin, Step
    <3>2. EntryHasHolder'
      BY <3>1 DEF HeldInv, EntryHasHolder, TypeInv, TypeOK, SlotPhases, SetupPhases
    <3>3. ShownIsFinalizing' /\ Emptied'
      BY <3>1 DEF HeldInv, ShownIsFinalizing, Emptied, TypeInv, TypeOK, FinalPhases
    <3>4. QED
      BY <3>2, <3>3 DEF HeldInv
  <2>2. CASE Stop(m) \/ DrainKill(m) \/ BackoffExpires(m) \/ StallCooldownExpires(m)
    BY <2>2, QuietStepHeldInv DEF Stop, DrainKill, BackoffExpires, StallCooldownExpires,
       supervisor, tasks
  <2>3. QED
    BY <1>3, <2>1, <2>2 DEF MonitorStep
<1>4. CASE AppStep
  <2>1. EntryHasHolder' /\ ShownIsFinalizing'
    BY <1>4 DEF AppStep, StopAll, DrainDone, DrainTimesOut, supervisor, tasks, HeldInv,
       EntryHasHolder, ShownIsFinalizing
  <2>2. Emptied'
    BY <1>4 DEF AppStep, StopAll, DrainDone, DrainTimesOut, supervisor, tasks, Emptied, SlotInv,
       HolderHasEntry, TypeInv, OwnerKnown, SlotPhases, SetupPhases
  <2>3. QED
    BY <2>1, <2>2 DEF HeldInv
<1>5. QED
  BY <1>1, <1>2, <1>3, <1>4, TakeStepHeldInv DEF Next

LEMMA HeldInvHolds == Spec => []HeldInv
  BY InitHeldInv, StepHeldInv, TypeInvHolds, SlotInvHolds, PTL DEF Spec

\* An entry of the active map and a task on its way to remove it come and go
\* together: no early return, refused start or failed spawn leaks a slot.
EntryIffHolder == \A m \in Monitors : active[m] # None <=> Holders(m) # {}

\* No path through record() leaves the monitor's slot taken for good, and none
\* gives it back while the take still captures (release_active at each return).
THEOREM NoLeakedSlot == Spec => []EntryIffHolder
<1>1. TypeInv /\ SlotInv /\ HeldInv => EntryIffHolder
  BY DEF TypeInv, OwnerKnown, SlotInv, HolderHasEntry, HeldInv, EntryHasHolder, EntryIffHolder,
     Holders, SlotPhases, SetupPhases
<1>2. QED
  BY <1>1, TypeInvHolds, SlotInvHolds, HeldInvHolds, PTL

\* After a drain that ended by itself no capture runs and no process can be
\* started any more, whatever still arrives (stop_all_recordings' "then wait").
DrainedForGood ==
  app = "drained" =>
    \A t \in Takes : proc[t] # "live" /\ task[t] \notin {"permitted", "inserted", "spawning"}

THEOREM DrainIsFinal == Spec => []DrainedForGood
<1>1. SlotInv /\ HeldInv => DrainedForGood
  BY DEF SlotInv, LiveIsCapturing, HeldInv, Emptied, DrainedForGood, SlotPhases, SetupPhases
<1>2. QED
  BY <1>1, SlotInvHolds, HeldInvHolds, PTL
=============================================================================
