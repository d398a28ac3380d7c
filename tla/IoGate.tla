------------------------------- MODULE IoGate -------------------------------
(***************************************************************************)
(* The disk gate of one drive (src/src/io_gate.rs): a semaphore whose      *)
(* number of permits follows the settings or, on a dynamic drive, a        *)
(* background adjuster.  Full-file ffmpeg passes (remux, concat, embed)    *)
(* take a permit before they start.                                        *)
(*                                                                         *)
(* Three kinds of threads meet here: the passes (tokio tasks), the UI      *)
(* thread that saves settings and pins, and the adjuster's own thread.     *)
(* Each lock is held for one action; what was read under one lock is used  *)
(* under another.  The semaphore is tokio's: released and added permits go *)
(* to the waiting tasks first, in the order of their arrival.              *)
(***************************************************************************)
EXTENDS Naturals, Sequences, FiniteSets

CONSTANTS
  Passes,   \* the callers of local_pass on the drive
  Limits,   \* what the settings and the pins can say (local_permits)
  None

ASSUME GateAssumption == IsFiniteSet(Passes) /\ Limits \subseteq Nat /\ None \notin Limits

VARIABLES
  cfg,      \* DISK_CFG, the drive's DiskLimits: [limit, dynamic]
  pin,      \* DYNAMIC_PIN of the drive: a number of permits or None
  save,     \* modify_disk_limits: how far it is, and the limit before it
  permits,  \* GateEntry.permits; 0 while the map has no entry for the drive
  debt,     \* GateEntry.pending_shrink
  dyn,      \* GateEntry.dynamic
  avail,    \* permits in the semaphore
  queue,    \* tasks parked in Semaphore::acquire
  held,     \* tasks that a permit was handed to and not yet taken from
  pc,       \* where each local_pass is
  seen,     \* the DiskLimits a local_pass has read
  tick,     \* dynamic_tick_for: how far it is, its ceiling and its target
  streak    \* LOW_STREAK of the drive, up to DYNAMIC_GROW_STREAK

settings == <<cfg, pin, save>>
gate == <<permits, debt, avail, queue, held>>
passes == <<pc, seen>>
adjuster == <<tick, streak>>
gvars == <<cfg, pin, save, permits, debt, dyn, avail, queue, held, pc, seen, tick, streak>>

DiskLimits == [limit : Limits, dynamic : BOOLEAN]
PassPhases == {"idle", "read", "ready", "in", "returning"}

\* DYNAMIC_GROW_STREAK, DYNAMIC_LOW_QUEUE and DYNAMIC_HIGH_QUEUE.
GrowStreak == 2
LowQueue == 1
HighQueue == 3

AtLeastOne(n) == IF n = 0 THEN 1 ELSE n
Lesser(a, b) == IF a <= b THEN a ELSE b

GInit ==
  /\ cfg \in DiskLimits
  /\ pin = None
  /\ save = [at |-> "idle", old |-> None]
  /\ permits = 0 /\ debt = 0 /\ avail = 0
  /\ dyn = FALSE
  /\ queue = <<>>
  /\ held = {}
  /\ pc = [p \in Passes |-> "idle"]
  /\ seen = [p \in Passes |-> None]
  /\ tick = [at |-> "idle", ceiling |-> None, target |-> None]
  /\ streak = 0

-----------------------------------------------------------------------------
(* The semaphore and apply_target.                                         *)

\* n permits come in beside those others hold: waiting tasks get them first.
Supply(n, others) ==
  LET served == Lesser(n, Len(queue)) IN
    /\ held' = others \cup {queue[i] : i \in 1..served}
    /\ queue' = SubSeq(queue, served + 1, Len(queue))
    /\ avail' = avail + (n - served)

\* Debt that has not been collected is in circulation: it counts first.
\* (Mutant: it is written off and the permits are added all the same.)
GrowAnew(want) ==
  /\ want > permits
  /\ permits' = want
  /\ debt' = debt - Lesser(want - permits, debt)
  /\ Supply(want - permits, held)
Grow(want) ==
  LET cancel == Lesser(want - permits, debt) IN
    /\ want > permits
    /\ permits' = want
    /\ debt' = debt - cancel
    /\ Supply(want - permits - cancel, held)

\* Idle permits are forgotten at once, the rest is owed.  (Mutant: all are
\* taken to be idle.)
ShrinkBlind(want) ==
  /\ want < permits
  /\ permits' = want
  /\ avail' = avail - (permits - want)
  /\ UNCHANGED <<debt, queue, held>>
Shrink(want) ==
  LET idle == Lesser(permits - want, avail) IN
    /\ want < permits
    /\ permits' = want
    /\ avail' = avail - idle
    /\ debt' = debt + (permits - want - idle)
    /\ UNCHANGED <<queue, held>>

\* apply_target; an entry that does not exist yet grows from nothing.
ApplyTarget(want) ==
  \/ Grow(want)
  \/ Shrink(want)
  \/ want = permits /\ UNCHANGED gate

\* gate_sem: a static gate takes the limit it is given, a dynamic one starts
\* with one permit and is left alone.  (Mutant: a limit of 0 is taken as it is.)
WantedAsGiven(limits) == IF limits.dynamic THEN AtLeastOne(permits) ELSE limits.limit
Wanted(limits) ==
  IF limits.dynamic THEN AtLeastOne(permits) ELSE AtLeastOne(limits.limit)
GateSem(limits) == dyn' = limits.dynamic /\ ApplyTarget(Wanted(limits))

-----------------------------------------------------------------------------
(* A pass: local_pass, and the drop of its guard.                          *)
At(p, from, to) == pc[p] = from /\ pc' = [pc EXCEPT ![p] = to]

\* A pass may come at any time; one that finds the drive paused comes later.
ReadLimits(p) ==
  /\ At(p, "idle", "read")
  /\ seen' = [seen EXCEPT ![p] = cfg]
  /\ UNCHANGED <<settings, gate, dyn, adjuster>>

EnterGate(p) ==
  /\ At(p, "read", "ready")
  /\ GateSem(seen[p])
  /\ seen' = [seen EXCEPT ![p] = None]
  /\ UNCHANGED <<settings, adjuster>>

Acquire(p) ==
  /\ At(p, "ready", "in")
  /\ \/ avail > 0 /\ avail' = avail - 1 /\ held' = held \cup {p} /\ UNCHANGED queue
     \/ avail = 0 /\ queue' = Append(queue, p) /\ UNCHANGED <<avail, held>>
  /\ UNCHANGED <<settings, permits, debt, dyn, seen, adjuster>>

\* The end of a pass, under the map's lock: a permit that is owed is forgotten.
PayDebt(p) ==
  /\ p \in held
  /\ At(p, "in", "idle")
  /\ debt > 0
  /\ debt' = debt - 1
  /\ held' = held \ {p}
  /\ UNCHANGED <<settings, permits, avail, queue, dyn, seen, adjuster>>

\* Otherwise it goes back.  (Mutant: it goes back whatever is owed.)
ReturnAnyway(p) ==
  /\ p \in held
  /\ At(p, "in", "returning")
  /\ UNCHANGED <<settings, gate, dyn, seen, adjuster>>
NothingOwed(p) ==
  /\ p \in held
  /\ At(p, "in", "returning")
  /\ debt = 0
  /\ UNCHANGED <<settings, gate, dyn, seen, adjuster>>

\* The lock is given up before the permit is dropped.
Return(p) ==
  /\ At(p, "returning", "idle")
  /\ Supply(1, held \ {p})
  /\ UNCHANGED <<settings, permits, debt, dyn, seen, adjuster>>

-----------------------------------------------------------------------------
(* The UI thread: saves, the sweep a save makes, pins.                     *)
Commit(limits) ==
  /\ save.at = "idle"
  /\ cfg' = limits
  /\ save' = [at |-> "sweep", old |-> cfg.limit]
  /\ UNCHANGED <<pin, gate, dyn, passes, adjuster>>

Swept(next) == save' = [at |-> next, old |-> None]

\* resize_existing_gates, no gate on the drive yet.
SweepNothing ==
  /\ save.at = "sweep"
  /\ permits = 0
  /\ Swept("idle")
  /\ UNCHANGED <<cfg, pin, gate, dyn, passes, adjuster>>

SweepStatic ==
  /\ save.at = "sweep"
  /\ permits > 0
  /\ ~cfg.dynamic
  /\ GateSem(cfg)
  /\ Swept("clear")
  /\ UNCHANGED <<cfg, pin, passes, adjuster>>

ClearPin ==
  /\ save.at = "clear"
  /\ pin' = None
  /\ Swept("idle")
  /\ UNCHANGED <<cfg, gate, dyn, passes, adjuster>>

\* A raise of a dynamic drive's ceiling is applied at once unless it is pinned.
SweepDynamic ==
  /\ save.at = "sweep"
  /\ permits > 0
  /\ cfg.dynamic
  /\ \/ cfg.limit <= save.old /\ UNCHANGED <<gate, dyn>>
     \/ /\ cfg.limit > save.old
        /\ dyn' = TRUE
        /\ IF pin = None /\ cfg.limit > permits THEN Grow(cfg.limit) ELSE UNCHANGED gate
  /\ Swept("idle")
  /\ UNCHANGED <<cfg, pin, passes, adjuster>>

SetPin(n) ==
  /\ save.at = "idle"
  /\ pin' = n
  /\ UNCHANGED <<cfg, save, gate, dyn, passes, adjuster>>

-----------------------------------------------------------------------------
(* The adjuster's thread: dynamic_tick_for.                                *)
TickRead ==
  /\ tick.at = "idle"
  /\ permits > 0
  /\ cfg.dynamic
  /\ tick' = [at |-> "decide", ceiling |-> cfg.limit, target |-> None]
  /\ UNCHANGED <<settings, gate, dyn, passes, streak>>

TickPin ==
  /\ tick.at = "decide"
  /\ tick' = IF pin = None THEN [tick EXCEPT !.at = "measure"]
                          ELSE [tick EXCEPT !.at = "apply", !.target = pin]
  /\ UNCHANGED <<settings, gate, dyn, passes, streak>>

\* dynamic_step: slow growth on an idle disk, halving on a busy one.
DynamicStep(depth) ==
  CASE depth <= LowQueue /\ streak + 1 >= GrowStreak ->
         Lesser(permits + 1, AtLeastOne(tick.ceiling))
    [] depth >= HighQueue -> AtLeastOne(permits \div 2)
    [] OTHER -> permits
NextStreak(depth) == IF depth <= LowQueue THEN Lesser(streak + 1, GrowStreak) ELSE 0

TickMeasure(depth) ==
  /\ tick.at = "measure"
  /\ tick' = [tick EXCEPT !.at = "apply", !.target = DynamicStep(depth)]
  /\ streak' = NextStreak(depth)
  /\ UNCHANGED <<settings, gate, dyn, passes>>

\* set_dynamic_permits.
TickApply ==
  /\ tick.at = "apply"
  /\ IF dyn THEN ApplyTarget(AtLeastOne(tick.target)) ELSE UNCHANGED gate
  /\ tick' = [at |-> "idle", ceiling |-> None, target |-> None]
  /\ UNCHANGED <<settings, dyn, passes, streak>>

-----------------------------------------------------------------------------
PassStep(p) ==
  \/ ReadLimits(p) \/ EnterGate(p) \/ Acquire(p)
  \/ PayDebt(p) \/ NothingOwed(p) \/ Return(p)

SaveStep == SweepNothing \/ SweepStatic \/ SweepDynamic \/ ClearPin

TickStep ==
  TickRead \/ TickPin \/ (\E depth \in LowQueue..HighQueue : TickMeasure(depth)) \/ TickApply

GNext ==
  \/ \E p \in Passes : PassStep(p)
  \/ \E limits \in DiskLimits : Commit(limits)
  \/ \E n \in Limits \cup {None} : SetPin(n)
  \/ SaveStep
  \/ TickStep

GSpec == GInit /\ [][GNext]_gvars

-----------------------------------------------------------------------------
(* What holds.                                                             *)
GTypeOK ==
  /\ cfg \in DiskLimits
  /\ pin \in Limits \cup {None}
  /\ save \in [at : {"idle", "sweep", "clear"}, old : Limits \cup {None}]
  /\ permits \in Nat /\ debt \in Nat /\ avail \in Nat
  /\ dyn \in BOOLEAN
  /\ queue \in Seq(Passes)
  /\ held \subseteq Passes
  /\ pc \in [Passes -> PassPhases]
  /\ seen \in [Passes -> DiskLimits \cup {None}]
  /\ tick \in [at : {"idle", "decide", "measure", "apply"}, ceiling : Limits \cup {None},
               target : Nat \cup {None}]
  /\ streak \in 0..GrowStreak

\* No permit is lost or made up by any order of resizes and returns: those in
\* the semaphore and those handed out are the gate's number and what it is owed.
PermitsAddUp == avail + Cardinality(held) = permits + debt

\* A pass waits only while every permit is out and a pass that holds one runs:
\* no order of saves, ticks and ends leaves the queue waiting for nobody.
NobodyWaitsIdly == queue # <<>> => avail = 0 /\ held # {}

\* A limit that was lowered below the number of running passes is reached, and
\* not put off for ever by the passes that wait.
LimitIsReached == Cardinality(held) > permits ~> Cardinality(held) <= permits

\* A pass that has come to the gate gets its turn, whatever the limit does.
EveryPassIsServed == \A p \in Passes : pc[p] = "ready" ~> p \in held

\* Tasks are polled and passes end; the UI thread finishes a save.
GFairness ==
  /\ WF_gvars(SaveStep)
  /\ \A p \in Passes : WF_gvars(Acquire(p) \/ PayDebt(p) \/ NothingOwed(p) \/ Return(p))
GLiveSpec == GSpec /\ GFairness
=============================================================================
