------------------------ MODULE SupervisorRefinement ------------------------
(***************************************************************************)
(* Supervisor implements TakeLedger: whatever the tasks, the maps and the  *)
(* permits do, seen from outside a take is opened once, its process runs   *)
(* while it is open and alone on its monitor, and it is settled once.      *)
(***************************************************************************)
EXTENDS SupervisorProofs

USE DEF Finish, Track

\* The ledger's set of processes, as Supervisor!Ledger maps it.
Running == {t \in Takes : proc[t] = "live"}

LEMMA InitImplements == Init => Ledger!LInit
  BY DEF Init, Ledger!LInit

\* A step that leaves rows, processes and the owners of open takes alone.
LEMMA StutterStep ==
  ASSUME row' = row, proc' = proc, \A t \in Takes : row[t] # "none" => owner'[t] = owner[t]
  PROVE  UNCHANGED Ledger!lvars
  BY DEF Ledger!lvars

\* A kill ends the one process it names, or no process at all.
LEMMA KillImplements ==
  ASSUME NEW pid, KillPid(pid), row' = row, owner' = owner, proc \in [Takes -> {"none", "live", "dead"}]
  PROVE  [Ledger!LNext]_(Ledger!lvars)
<1>1. CASE \E t \in Takes : t = pid /\ proc[t] = "live"
  <2> PICK t \in Takes : t = pid /\ proc[t] = "live"
    BY <1>1
  <2>1. {u \in Takes : proc'[u] = "live"} = {u \in Takes : proc[u] = "live"} \ {t}
    BY DEF KillPid
  <2>2. Ledger!End(t)
    BY <2>1 DEF Ledger!End
  <2>3. QED
    BY <2>2 DEF Ledger!LNext
<1>2. CASE ~ \E t \in Takes : t = pid /\ proc[t] = "live"
  <2>1. proc' = proc
    BY <1>2 DEF KillPid
  <2>2. QED
    BY <2>1, StutterStep
<1>3. QED
  BY <1>1, <1>2

LEMMA TakeStepImplements ==
  ASSUME TypeInv, SlotInv, NEW t \in Takes, TakeStep(t)
  PROVE  [Ledger!LNext]_(Ledger!lvars)
<1> USE DEF Step
<1>1. CASE InsertRow(t)
  <2>1. row[t] = "none" /\ owner[t] \in Monitors
    BY <1>1 DEF InsertRow, SlotInv, RowFollowsTask, UnopenedPhases, TypeInv, OwnerKnown
  <2> PICK m \in Monitors : m = owner[t]
    BY <2>1
  <2>2. Ledger!Open(t, m)
    BY <1>1, <2>1 DEF InsertRow, machine, Ledger!Open, TypeInv, TypeOK
  <2>3. QED
    BY <2>2, Zenon DEF Ledger!LNext
<1>2. CASE Spawn(t)
  <2>1. row[t] = "recording"
    BY <1>2 DEF Spawn, SlotInv, RowFollowsTask, OpenPhases
  <2>2. ASSUME NEW u \in Takes, proc[u] = "live"
        PROVE  row[u] = "recording" /\ owner[u] # owner[t]
    BY <1>2, <2>2 DEF Spawn, SlotInv, LiveIsCapturing, RowFollowsTask, OpenPhases, OneHolder,
       SlotPhases
  <2>3. Running' = Running \cup {t}
    BY <1>2 DEF Spawn, Running, TypeInv, TypeOK
  <2>4. Ledger!Launch(t)
    BY <1>2, <2>1, <2>2, <2>3 DEF Spawn, Running, Ledger!Launch
  <2>5. QED
    BY <2>4 DEF Ledger!LNext
<1>3. CASE \E gone \in BOOLEAN : Settle(t, gone)
  <2> PICK gone \in BOOLEAN : Settle(t, gone)
    BY <1>3
  <2>1. row[t] = "recording" /\ proc[t] # "live"
    BY DEF Settle, SlotInv, RowFollowsTask, LiveIsCapturing, OpenPhases, FinalPhases
  <2> PICK v \in Settled : v = Verdict(t, gone)
    BY DEF Verdict, Settled
  <2>2. Ledger!Close(t, v)
    BY <2>1 DEF Settle, machine, Ledger!Close, Settled, TypeInv, TypeOK
  <2>3. QED
    BY <2>2, Zenon DEF Ledger!LNext
<1>4. CASE Decline(t) \/ RefuseDuplicate(t) \/ AbandonStart(t)
  <2>1. row[t] = "none"
    BY <1>4 DEF Decline, RefuseDuplicate, AbandonStart, GiveBack, SlotInv, RowFollowsTask,
       UnopenedPhases
  <2>2. QED
    BY <1>4, <2>1, StutterStep DEF Decline, RefuseDuplicate, AbandonStart, GiveBack, store,
       machine, TypeInv, TypeOK
<1>5. CASE Admit(t) \/ Acquire(t) \/ SkipSpawn(t) \/ PassStopCheck(t) \/ SpawnFails(t)
             \/ Promote(t) \/ Reap(t) \/ Retry(t) \/ FinalizeBegin(t)
  BY <1>5, StutterStep DEF Admit, Acquire, SkipSpawn, PassStopCheck, SpawnFails, Promote,
     Reap, Retry, FinalizeBegin, Advance, store, machine
<1>6. QED
  BY <1>1, <1>2, <1>3, <1>4, <1>5 DEF TakeStep

LEMMA OutsideStepImplements ==
  ASSUME TypeInv, NEW t \in Takes, OutsideStep(t)
  PROVE  [Ledger!LNext]_(Ledger!lvars)
<1>1. CASE ToolWrites(t) \/ WatcherEnds(t)
  BY <1>1, StutterStep DEF ToolWrites, WatcherEnds, tasks, store, machine
<1>2. CASE ToolExits(t)
  <2>1. KillPid(t)
    BY <1>2 DEF ToolExits, KillPid, TypeInv, TypeOK
  <2>2. QED
    BY <1>2, <2>1, KillImplements DEF ToolExits, tasks, store, TypeInv, TypeOK
<1>3. CASE StallKill(t) \/ QualityRestart(t)
  BY <1>3, KillImplements DEF StallKill, QualityRestart, tasks, store, TypeInv, TypeOK
<1>4. QED
  BY <1>1, <1>2, <1>3 DEF OutsideStep

LEMMA MonitorStepImplements ==
  ASSUME TypeInv, NEW m \in Monitors, MonitorStep(m)
  PROVE  [Ledger!LNext]_(Ledger!lvars)
<1>1. CASE Begin(m)
  <2> PICK t \in Takes, bypass \in BOOLEAN, forced \in BOOLEAN : TryBegin(m, t, bypass, forced)
    BY <1>1 DEF Begin
  <2>1. NextTake(t)
    BY DEF TryBegin
  <2>2. row[t] = "none"
    BY <2>1, IdAssumption DEF NextTake, Used
  <2>3. QED
    BY <2>2, StutterStep DEF TryBegin, store, machine, TypeInv, TypeOK
<1>2. CASE Stop(m) \/ DrainKill(m)
  BY <1>2, KillImplements DEF Stop, DrainKill, tasks, store, TypeInv, TypeOK
<1>3. CASE BackoffExpires(m) \/ StallCooldownExpires(m)
  BY <1>3, StutterStep DEF BackoffExpires, StallCooldownExpires, tasks, store, machine
<1>4. QED
  BY <1>1, <1>2, <1>3 DEF MonitorStep

\* The supervisor keeps the ledger's promise for every number of monitors,
\* takes, permits and retries: exclusive capture and one verdict for each take.
THEOREM ImplementsLedger == Spec => LedgerSpec
<1>1. TypeInv /\ SlotInv /\ [Next]_vars => [Ledger!LNext]_(Ledger!lvars)
  <2> SUFFICES ASSUME TypeInv, SlotInv, [Next]_vars PROVE [Ledger!LNext]_(Ledger!lvars)
    OBVIOUS
  <2>1. CASE AppStep \/ UNCHANGED vars
    BY <2>1, StutterStep DEF AppStep, StopAll, DrainDone, DrainTimesOut, vars, tasks, store, machine
  <2>2. QED
    BY <2>1, TakeStepImplements, OutsideStepImplements, MonitorStepImplements DEF Next
<1>2. QED
  BY <1>1, InitImplements, TypeInvHolds, SlotInvHolds, PTL DEF Spec, LedgerSpec, Ledger!LSpec
=============================================================================
