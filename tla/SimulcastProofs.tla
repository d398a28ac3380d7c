--------------------------- MODULE SimulcastProofs ---------------------------
(***************************************************************************)
(* Proofs about Simulcast: its types for any instances and settings, and   *)
(* that a broadcast on two platforms is not captured twice.                *)
(***************************************************************************)
EXTENDS Simulcast, TLAPS

Slots == {"free", "deciding", "starting", "setup", "launching", "running", "killed"}

WorldType ==
  /\ given \in Givens
  /\ air \in [Instances -> {None} \cup Ages]
  /\ polled \subseteq Instances /\ mishaps \in 0..MaxMishaps

ShownType == shown \in [Instances -> BOOLEAN] /\ since \in [Instances -> Ages]

RowType ==
  /\ row \in [Instances -> {"none", "session", "take"}]
  /\ age \in [Instances -> Ages] /\ ended \in [Instances -> Ages]

SlotType ==
  /\ slot \in [Instances -> Slots]
  /\ finalizing \in [Instances -> BOOLEAN] /\ stopping \subseteq Instances
  /\ missed \subseteq Instances
  /\ signal \subseteq Instances /\ loop \in Instances \cup {None}

BackoffType == wait \in [Instances -> Nat] /\ fails \in [Instances -> Nat]

TakeHasRow == \A i \in Instances : slot[i] \in {"setup", "launching", "running", "killed"} => row[i] = "take"

Types == WorldType /\ ShownType /\ RowType /\ SlotType /\ BackoffType /\ TakeHasRow

LEMMA TypesAreTypeOK == Types <=> TypeOK
BY DEF Types, WorldType, ShownType, RowType, SlotType, BackoffType, TakeHasRow, TypeOK, Slots

LEMMA SettleIsAnAge == 0 \in Ages /\ Settle \in Ages
BY SimulcastAssumption DEF Ages

LEMMA AgesGoOn == ASSUME NEW a \in Ages PROVE Older(a) \in Ages
BY SimulcastAssumption DEF Ages, Older

LEMMA StartsTyped == Init => Types
<1> SUFFICES ASSUME Init PROVE Types
  OBVIOUS
<1>1. WorldType
  BY SimulcastAssumption DEF Init, Each, WorldType
<1>2. ShownType /\ RowType
  BY SettleIsAnAge DEF Init, Each, ShownType, RowType
<1>3. SlotType
  BY DEF Init, Each, SlotType, Slots
<1>4. BackoffType
  BY DEF Init, Each, BackoffType
<1>5. TakeHasRow
  BY DEF Init, Each, TakeHasRow
<1> QED
  BY <1>1, <1>2, <1>3, <1>4, <1>5 DEF Types

-----------------------------------------------------------------------------
(* Each group of actions keeps the types.                                  *)

LEMMA MishapIsCounted ==
  ASSUME Types, Mishap PROVE mishaps' \in 0..MaxMishaps
BY SimulcastAssumption DEF Types, WorldType, Mishap

LEMMA BroadcastKeepsTypes ==
  ASSUME Types, NEW i \in Instances, GoesLive(i) \/ GoesOff(i)
  PROVE  Types'
<1> USE DEF Types
<1>1. WorldType'
  BY MishapIsCounted, SettleIsAnAge, SimulcastAssumption DEF GoesLive, GoesOff, clock, WorldType
<1>2. ShownType' /\ RowType' /\ TakeHasRow'
  BY DEF GoesLive, GoesOff, rowVars, ShownType, RowType, TakeHasRow
<1>3. SlotType' /\ BackoffType'
  BY DEF GoesLive, GoesOff, backoff, feed, SlotType, BackoffType
<1> QED
  BY <1>1, <1>2, <1>3

LEMMA PollsKeepTypes ==
  ASSUME Types, NEW i \in Instances, Poll(i) \/ PollFails(i)
  PROVE  Types'
<1> USE DEF Types
<1>1. WorldType'
  BY MishapIsCounted DEF Poll, PollFails, WorldType
<1>2. ShownType'
  BY SettleIsAnAge DEF Poll, PollFails, Unshown, WorldType, ShownType
<1>3. RowType' /\ age' = age /\ slot' = slot /\ slot[i] = "free"
  BY SettleIsAnAge DEF Poll, PollFails, CloseSession, Due, RowType
<1>4. \A j \in Instances \ {i} : row'[j] = row[j]
  BY DEF Poll, PollFails, CloseSession, RowType
<1>5. TakeHasRow'
  BY <1>3, <1>4 DEF TakeHasRow
<1>6. SlotType' /\ BackoffType'
  BY DEF Poll, PollFails, backoff, feed, SlotType, BackoffType
<1> QED
  BY <1>1, <1>2, <1>3, <1>5, <1>6

LEMMA BeginKeepsTypes ==
  ASSUME Types, NEW i \in Instances, TryBegin(i) \/ Push(i)
  PROVE  Types'
<1> USE DEF Types
<1>1. WorldType'
  BY MishapIsCounted DEF TryBegin, Push, clock, WorldType
<1>2. ShownType' /\ RowType'
  BY DEF TryBegin, Push, rowVars, ShownType, RowType
<1>3. SlotType'
  BY DEF TryBegin, Push, feed, SlotType, Slots
<1>4. BackoffType'
  BY DEF TryBegin, Push, backoff, BackoffType
<1>5. TakeHasRow'
  BY DEF TryBegin, Push, rowVars, SlotType, TakeHasRow
<1> QED
  BY <1>1, <1>2, <1>3, <1>4, <1>5

LEMMA DecisionsKeepTypes ==
  ASSUME Types, NEW i \in Instances, Vetoed(i) \/ Declines(i) \/ Records(i)
  PROVE  Types'
<1> USE DEF Types
<1>1. slot[i] = "deciding" /\ WorldType' /\ ended' = ended
  BY DEF Vetoed, Declines, Records, Decided, clock, WorldType
<1>2. loop' \in Instances \cup {None} /\ signal' = signal /\ finalizing' = finalizing
  BY DEF Vetoed, Declines, Records, Decided, SlotType
<1>3. MarkLive(i) => ShownType'
  BY SettleIsAnAge DEF MarkLive, WorldType, ShownType
<1>4. ShownType'
  BY <1>3 DEF Vetoed, Declines, Records, ShownType
<1>5. RowType'
  BY <1>1, <1>4 DEF Vetoed, Declines, Records, OpenSession, ShownType, RowType
<1>6. TakesOver(i) \subseteq Instances
  BY DEF TakesOver, Young
<1> DEFINE SeatsTyped == /\ slot \in [Instances -> Slots] /\ stopping \subseteq Instances
                         /\ missed \subseteq Instances /\ BackoffType
<1>7. Records(i) => SeatsTyped'
  BY <1>6, SimulcastAssumption DEF Records, Stop, SlotType, Slots, BackoffType
<1>8. Vetoed(i) \/ Declines(i) => SeatsTyped'
  BY DEF Vetoed, Declines, backoff, SlotType, Slots, BackoffType
<1>9. TakeHasRow'
  BY <1>1 DEF Vetoed, Declines, Records, OpenSession, SlotType, RowType, TakeHasRow
<1> QED
  BY <1>1, <1>2, <1>4, <1>5, <1>7, <1>8, <1>9 DEF SlotType

LEMMA TakesKeepTypes ==
  ASSUME Types, NEW i \in Instances,
         \/ InsertRow(i) \/ PassStopCheck(i) \/ Spawn(i) \/ Retry(i)
         \/ SkipSpawn(i) \/ Killed(i) \/ ToolEnds(i) \/ ToolDrops(i)
  PROVE  Types'
<1> USE DEF Types
<1>1. CASE InsertRow(i)
  <2>1. WorldType' /\ ShownType' /\ RowType'
    BY <1>1, SettleIsAnAge DEF InsertRow, Unshown, clock, WorldType, ShownType, RowType
  <2>2. SlotType' /\ BackoffType'
    BY <1>1 DEF InsertRow, backoff, feed, SlotType, Slots, BackoffType
  <2>3. TakeHasRow'
    BY <1>1 DEF InsertRow, SlotType, RowType, TakeHasRow
  <2> QED
    BY <2>1, <2>2, <2>3
<1>2. CASE PassStopCheck(i) \/ Spawn(i) \/ Retry(i)
  <2>1. WorldType' /\ ShownType' /\ RowType'
    BY <1>2, MishapIsCounted
    DEF PassStopCheck, Spawn, Retry, rowVars, clock, WorldType, ShownType, RowType
  <2>2. SlotType' /\ BackoffType' /\ TakeHasRow'
    BY <1>2 DEF PassStopCheck, Spawn, Retry, rowVars, backoff, feed, SlotType, Slots,
                BackoffType, TakeHasRow
  <2> QED
    BY <2>1, <2>2
<1>3. ASSUME CaptureOver(i), mishaps' \in 0..MaxMishaps PROVE Types'
  <2>1. WorldType' /\ ShownType' /\ RowType'
    BY <1>3, SettleIsAnAge DEF CaptureOver, WorldType, ShownType, RowType
  <2>2. SlotType' /\ BackoffType'
    BY <1>3 DEF CaptureOver, backoff, feed, SlotType, Slots, BackoffType
  <2>3. TakeHasRow'
    BY <1>3 DEF CaptureOver, SlotType, TakeHasRow
  <2> QED
    BY <2>1, <2>2, <2>3
<1>4. CASE SkipSpawn(i) \/ Killed(i) \/ ToolEnds(i)
  BY <1>3, <1>4 DEF SkipSpawn, Killed, ToolEnds, WorldType
<1>5. CASE ToolDrops(i)
  BY <1>3, <1>5, MishapIsCounted DEF ToolDrops
<1> QED
  BY <1>1, <1>2, <1>4, <1>5

LEMMA SettleKeepsTypes ==
  ASSUME Types, NEW i \in Instances, Settles(i)
  PROVE  Types'
<1> USE DEF Types
<1>1. WorldType' /\ ShownType'
  BY SettleIsAnAge DEF Settles, Unshown, clock, WorldType, ShownType
<1>2. RowType' /\ SlotType' /\ TakeHasRow'
  BY DEF Settles, feed, RowType, SlotType, TakeHasRow
<1>3. BackoffType'
  <2>1. CASE i \in stopping
    BY <2>1 DEF Settles, NoteResult, backoff, BackoffType
  <2>2. CASE i \notin stopping
    <3> DEFINE n == IF i \notin given.broken THEN 0
                    ELSE IF FailStep * fails[i] < MaxWait THEN fails[i] + 1 ELSE fails[i]
    <3>1. n \in Nat
      BY DEF BackoffType
    <3> HIDE DEF n
    <3>2. FailStep * n \in Nat /\ MaxWait \in Nat
      BY <3>1, SimulcastAssumption
    <3>3. /\ fails' = [fails EXCEPT ![i] = n]
          /\ wait' = [wait EXCEPT ![i] = IF FailStep * n < MaxWait THEN FailStep * n ELSE MaxWait]
      BY <2>2 DEF Settles, NoteResult, n
    <3> QED
      BY <3>1, <3>2, <3>3 DEF BackoffType
  <2> QED
    BY <2>1, <2>2
<1> QED
  BY <1>1, <1>2, <1>3

LEMMA TickKeepsTypes == ASSUME Types, Tick PROVE Types'
<1> USE DEF Types
<1>1. WorldType'
  BY AgesGoOn DEF Tick, WorldType
<1>2. ShownType' /\ RowType' /\ TakeHasRow'
  BY AgesGoOn DEF Tick, AllOlder, ShownType, RowType, TakeHasRow
<1>3. SlotType' /\ BackoffType'
  BY DEF Tick, feed, SlotType, BackoffType
<1> QED
  BY <1>1, <1>2, <1>3

LEMMA StutterKeepsTypes == ASSUME Types, UNCHANGED vars PROVE Types'
BY DEF Types, vars, rowVars, backoff, feed, clock, WorldType, ShownType, RowType, SlotType,
       BackoffType, TakeHasRow

LEMMA StepKeepsTypes == ASSUME Types, [Next]_vars PROVE Types'
BY BroadcastKeepsTypes, PollsKeepTypes, BeginKeepsTypes, DecisionsKeepTypes, TakesKeepTypes,
   SettleKeepsTypes, TickKeepsTypes, StutterKeepsTypes
DEF Next, Work

\* Rows, slots, ages and backoffs keep their types, and a take that is set up
\* or running has the monitor's newest row.
THEOREM SimulcastTypesHold == Spec => []TypeOK
<1>1. Init => Types
  BY StartsTyped
<1>2. Types /\ [Next]_vars => Types'
  BY StepKeepsTypes
<1> QED
  BY <1>1, <1>2, TypesAreTypeOK, PTL DEF Spec

-----------------------------------------------------------------------------
(* One capture.                                                            *)

AtMostTwo == \A i, j, k \in Instances : i = j \/ j = k \/ i = k

\* A take in finalize has no successor yet, so the tombstone that its end
\* removes is its own.
OneTakeEach == \A i \in Instances : finalizing[i] => slot[i] = "free"

\* Who has decided to record and has not been told to stop.
Claimants == {i \in Instances :
  slot[i] \in {"starting", "setup", "launching", "running"} /\ i \notin stopping}
OneClaim == Dedups => \A i, j \in Claimants : i = j

\* A tool that runs or is about to, against a tombstone, is one whose stop came
\* between the test and the launch.
StopsAreMissed == \A i \in stopping : slot[i] \in {"launching", "running"} => i \in missed

DedupInv == Types /\ OneTakeEach /\ OneClaim /\ StopsAreMissed

LEMMA PolicyNamesAnInstance ==
  ASSUME Types, Dedups, NEW i \in Instances, NEW j \in Instances
  PROVE  /\ EffectivePlatform(i, j) \in Instances
         /\ EffectivePlatform(i, j) = EffectivePlatform(i, i)
<1>1. /\ given.adFree \subseteq Instances
      /\ \A k \in Instances : given.policy[k].pref \in Instances \cup {None}
  BY SimulcastAssumption DEF Types, WorldType
<1>2. given.policy[i] = given.policy[j] /\ given.policy[j].pref \in Instances
  BY <1>1 DEF Dedups, Agreeing
<1> QED
  BY <1>1, <1>2 DEF EffectivePlatform

\* Who records is alone, or the others have been told to stop.
LEMMA RecorderIsAlone ==
  ASSUME Types, Dedups, AtMostTwo, NEW i \in Instances, ~StandsBy(i),
         NEW j \in Instances \ {i}, slot[j] # "free"
  PROVE  j \in TakesOver(i)
<1>1. Capturing(i, j)
  BY DEF Capturing
<1>2. EffectivePlatform(i, i) \in {i, j}
  BY PolicyNamesAnInstance DEF AtMostTwo
<1>3. CASE EffectivePlatform(i, i) = j
  <2>1. EligibleLive(i, j) /\ Agree(i, j)
    BY <1>1, <1>3, PolicyNamesAnInstance DEF EligibleLive, Agree
  <2>2. WaitsFor(i, j)
    BY <1>1, <2>1 DEF WaitsFor
  <2> QED
    BY <1>3, <2>2 DEF StandsBy
<1>4. CASE EffectivePlatform(i, i) = i
  <2>1. j \in Young(i) \/ j \in Established(i)
    BY <1>1 DEF Established
  <2>2. j \in Established(i) => Young(i) # {}
    BY <1>4 DEF StandsBy
  <2>3. Young(i) \subseteq Instances \ {i}
    BY DEF Young, Capturing
  <2>4. j \in Young(i)
    BY <2>1, <2>2, <2>3 DEF AtMostTwo
  <2> QED
    BY <1>4, <2>4 DEF TakesOver
<1> QED
  BY <1>2, <1>3, <1>4

LEMMA RecordsKeepsOne ==
  ASSUME DedupInv, AtMostTwo, NEW i \in Instances, Records(i)
  PROVE  OneClaim' /\ OneTakeEach' /\ StopsAreMissed'
<1>1. slot \in [Instances -> Slots] /\ given' = given /\ finalizing' = finalizing
  BY DEF DedupInv, Types, SlotType, Records, Decided
<1>2. /\ stopping' = stopping \cup TakesOver(i)
      /\ \A j \in Instances \ {i} : slot'[j] = slot[j] \/ slot'[j] = "killed"
      /\ slot[i] = "deciding"
  BY DEF Records, Stop, Decided
<1>3. ASSUME Dedups, NEW j \in Instances \ {i}, j \in Claimants' PROVE FALSE
  <2>1. slot[j] # "free" /\ j \notin TakesOver(i)
    BY <1>2, <1>3 DEF Claimants
  <2> QED
    BY <1>3, <2>1, RecorderIsAlone DEF DedupInv, Records
<1>4. OneClaim'
  <2>1. Dedups' => Dedups
    BY <1>1 DEF Dedups, Agreeing
  <2> QED
    BY <1>3, <2>1 DEF OneClaim, Claimants
<1>5. OneTakeEach'
  <2>1. ASSUME NEW j \in Instances, finalizing'[j] PROVE slot'[j] = "free"
    <3>1. slot[j] = "free" /\ j # i
      BY <1>1, <1>2, <2>1 DEF DedupInv, OneTakeEach
    <3> QED
      BY <1>1, <1>2, <3>1 DEF Records, Slots
  <2> QED
    BY <2>1 DEF OneTakeEach
<1>6. StopsAreMissed'
  <2> SUFFICES ASSUME NEW j \in stopping', slot'[j] \in {"launching", "running"}
               PROVE  j \in missed'
    BY DEF StopsAreMissed
  <2>1. j \in Instances /\ j # i
    BY <1>1, <1>2 DEF Records, DedupInv, Types, SlotType, TakesOver, Young
  <2>2. slot'[j] = slot[j] /\ (j \in TakesOver(i) => slot[j] = "launching")
    BY <2>1 DEF Records
  <2>3. missed' = missed \cup {k \in TakesOver(i) : slot[k] = "launching"}
    BY DEF Records, Stop
  <2> QED
    BY <1>2, <2>2, <2>3 DEF DedupInv, StopsAreMissed
<1> QED
  BY <1>4, <1>5, <1>6

\* Apart from Records, no step adds a claimant: claims begin there, and a
\* tombstone is removed from an instance without one.
LEMMA NobodyJoins ==
  ASSUME DedupInv, Claimants' \subseteq Claimants, given' = given
  PROVE  OneClaim'
BY DEF DedupInv, OneClaim, Dedups, Agreeing

LEMMA OthersKeepOne ==
  ASSUME DedupInv, ~SlowFinalize, NEW i \in Instances,
         \/ Poll(i) \/ PollFails(i) \/ GoesLive(i) \/ GoesOff(i) \/ TryBegin(i) \/ Push(i)
         \/ Vetoed(i) \/ Declines(i) \/ InsertRow(i) \/ PassStopCheck(i) \/ Spawn(i) \/ Retry(i)
         \/ SkipSpawn(i) \/ Killed(i) \/ ToolEnds(i) \/ ToolDrops(i) \/ Settles(i)
  PROVE  OneClaim' /\ OneTakeEach' /\ StopsAreMissed'
<1>1. slot \in [Instances -> Slots] /\ finalizing \in [Instances -> BOOLEAN]
  BY DEF DedupInv, Types, SlotType
<1>2. CASE Poll(i) \/ PollFails(i) \/ GoesLive(i) \/ GoesOff(i)
  <2>1. UNCHANGED <<given, slot, stopping, finalizing, missed>>
    BY <1>2 DEF Poll, PollFails, GoesLive, GoesOff
  <2> QED
    BY <2>1, NobodyJoins DEF DedupInv, Claimants, OneTakeEach, StopsAreMissed
<1>3. CASE TryBegin(i) \/ Push(i)
  <2>1. /\ UNCHANGED <<given, stopping, finalizing, missed>>
        /\ slot' = slot \/ (~finalizing[i] /\ slot' = [slot EXCEPT ![i] = "deciding"])
    BY <1>3 DEF TryBegin, Push, MayOverlap
  <2>2. OneClaim' /\ OneTakeEach'
    BY <1>1, <2>1, NobodyJoins DEF DedupInv, Claimants, OneTakeEach
  <2>3. \A j \in Instances : slot'[j] = slot[j] \/ slot'[j] = "deciding"
    BY <1>1, <2>1
  <2>4. StopsAreMissed'
    BY <2>1, <2>3 DEF DedupInv, Types, SlotType, StopsAreMissed
  <2> QED
    BY <2>2, <2>4
<1>4. CASE Vetoed(i) \/ Declines(i)
  <2>1. /\ UNCHANGED <<given, stopping, finalizing, missed>>
        /\ slot' = [slot EXCEPT ![i] = "free"]
    BY <1>4 DEF Vetoed, Declines, Decided
  <2> QED
    BY <1>1, <2>1, NobodyJoins DEF DedupInv, Claimants, OneTakeEach, StopsAreMissed
<1>5. CASE InsertRow(i) \/ PassStopCheck(i) \/ Spawn(i) \/ Retry(i)
  <2>1. UNCHANGED <<given, stopping, finalizing, missed>>
    BY <1>5 DEF InsertRow, PassStopCheck, Spawn, Retry
  <2>2. /\ slot[i] \in {"starting", "setup", "launching", "running"}
        /\ \E s \in {"setup", "launching", "running"} : slot' = [slot EXCEPT ![i] = s]
    BY <1>5 DEF InsertRow, PassStopCheck, Spawn, Retry
  <2>3. OneClaim' /\ OneTakeEach'
    BY <1>1, <2>1, <2>2, NobodyJoins DEF DedupInv, Claimants, OneTakeEach
  <2>4. i \in stopping /\ slot'[i] \in {"launching", "running"} => slot[i] = "launching"
    BY <1>1, <1>5 DEF InsertRow, PassStopCheck, Spawn, Retry
  <2>5. StopsAreMissed'
    BY <1>1, <2>1, <2>2, <2>4 DEF DedupInv, StopsAreMissed
  <2> QED
    BY <2>3, <2>5
<1>6. CASE SkipSpawn(i) \/ Killed(i) \/ ToolEnds(i) \/ ToolDrops(i)
  <2>1. CaptureOver(i)
    BY <1>6 DEF SkipSpawn, Killed, ToolEnds, ToolDrops
  <2> QED
    BY <1>1, <2>1, NobodyJoins
    DEF CaptureOver, DedupInv, Claimants, OneTakeEach, StopsAreMissed
<1>7. CASE Settles(i)
  <2>1. slot[i] = "free"
    BY <1>7 DEF Settles, DedupInv, OneTakeEach
  <2> QED
    BY <1>1, <1>7, <2>1, NobodyJoins
    DEF Settles, DedupInv, Claimants, OneTakeEach, StopsAreMissed
<1> QED
  BY <1>2, <1>3, <1>4, <1>5, <1>6, <1>7

\* On two platforms with one setting, however the instances' polls, pushes,
\* takeovers, retries and failures interleave, two tools record a broadcast only
\* if the stop of one fell between its test of the tombstone and its launch; a
\* finalize is taken to be over before the next start of its monitor.
THEOREM NeverCapturedTwice ==
  ASSUME AtMostTwo, ~SlowFinalize
  PROVE  Spec => []OneCapture
<1>1. Init => DedupInv
  <2>1. Init => OneTakeEach /\ OneClaim /\ StopsAreMissed
    BY DEF Init, Each, OneTakeEach, OneClaim, Claimants, StopsAreMissed
  <2> QED
    BY <2>1, StartsTyped DEF DedupInv
<1>2. DedupInv /\ [Next]_vars => DedupInv'
  <2> SUFFICES ASSUME DedupInv, [Next]_vars
               PROVE  OneClaim' /\ OneTakeEach' /\ StopsAreMissed'
    BY StepKeepsTypes DEF DedupInv
  <2>1. ASSUME Tick \/ UNCHANGED vars PROVE OneClaim' /\ OneTakeEach' /\ StopsAreMissed'
    <3>1. UNCHANGED <<given, slot, stopping, finalizing, missed>>
      BY <2>1 DEF Tick, vars
    <3> QED
      BY <3>1, NobodyJoins DEF DedupInv, Claimants, OneTakeEach, StopsAreMissed
  <2> QED
    BY <2>1, RecordsKeepsOne, OthersKeepOne DEF Next, Work
<1>3. DedupInv => OneCapture
  <2>1. StopsAreMissed => Recording \ missed \subseteq Claimants
    BY DEF StopsAreMissed, Recording, Claimants
  <2> QED
    BY <2>1 DEF DedupInv, OneClaim, OneCapture
<1> QED
  BY <1>1, <1>2, <1>3, PTL DEF Spec
=============================================================================
