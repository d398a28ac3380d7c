---------------------------- MODULE IoGateProofs ----------------------------
(***************************************************************************)
(* What holds of a disk gate for any finite set of passes and any limits.  *)
(*                                                                         *)
(* GateSound is about the semaphore and the number it should have; it is   *)
(* kept by Supply and by apply_target, whoever calls them.  PassSound says *)
(* where the passes are that the semaphore knows of, Memory what the three *)
(* kinds of threads have read.  Below, at the end, bounds the passes by    *)
(* the numbers that were set.                                              *)
(***************************************************************************)
EXTENDS IoGate, FiniteSetTheorems, FunctionTheorems, SequenceTheorems, TLAPS

USE GateAssumption

InQueue(p) == \E i \in 1..Len(queue) : queue[i] = p

QueueOnce == \A i, j \in 1..Len(queue) : queue[i] = queue[j] => i = j
QueuedHoldNone == \A p \in held : ~InQueue(p)
NoIdlePermit == queue # <<>> => avail = 0
GateTypes ==
  /\ permits \in Nat /\ debt \in Nat /\ avail \in Nat
  /\ queue \in Seq(Passes)
  /\ held \subseteq Passes
GateSound == GateTypes /\ QueueOnce /\ QueuedHoldNone /\ NoIdlePermit /\ PermitsAddUp

PassSound ==
  \A p \in Passes :
    /\ InQueue(p) => pc[p] = "in"
    /\ p \in held => pc[p] \in {"in", "returning"}
    /\ pc[p] = "returning" => p \in held
    /\ permits = 0 => pc[p] \in {"idle", "read"}

Memory ==
  /\ \A p \in Passes : pc[p] = "read" => seen[p] \in DiskLimits
  /\ save.at = "sweep" => save.old \in Limits
  /\ tick.at \in {"decide", "measure"} => tick.ceiling \in Limits
  /\ tick.at = "apply" => tick.target \in Nat

GateInv == GTypeOK /\ GateSound /\ PassSound /\ Memory

-----------------------------------------------------------------------------
\* The first k entries of a sequence without repetition are k elements.
LEMMA ServedCount ==
  ASSUME NEW S, NEW q \in Seq(S), NEW k \in 0..Len(q),
         \A i, j \in 1..Len(q) : q[i] = q[j] => i = j
  PROVE  /\ IsFiniteSet({q[i] : i \in 1..k})
         /\ Cardinality({q[i] : i \in 1..k}) = k
<1> DEFINE T == {q[i] : i \in 1..k}
           f == [i \in 1..k |-> q[i]]
<1>1. f \in Bijection(1..k, T)
  <2>1. f \in [1..k -> T]
    OBVIOUS
  <2>2. \A a, b \in 1..k : f[a] = f[b] => a = b
    OBVIOUS
  <2>3. \A t \in T : \E a \in 1..k : f[a] = t
    OBVIOUS
  <2> QED
    BY <2>1, <2>2, <2>3, Fun_IsBij
<1>2. IsFiniteSet(1..k) /\ Cardinality(1..k) = k
  BY FS_Interval
<1>3. ExistsBijection(1..k, T)
  BY <1>1 DEF ExistsBijection
<1> QED
  BY <1>2, <1>3, FS_Bijection

\* Permits that come in are counted once, serve the head of the queue, and
\* leave none beside a pass that waits.
LEMMA SupplyKeeps ==
  ASSUME GateTypes, QueueOnce, QueuedHoldNone, NoIdlePermit,
         NEW n \in Nat, NEW others \in SUBSET held, Supply(n, others)
  PROVE  /\ queue' \in Seq(Passes) /\ held' \subseteq Passes /\ avail' \in Nat
         /\ Cardinality(held') \in Nat
         /\ avail' + Cardinality(held') = avail + Cardinality(others) + n
         /\ QueueOnce' /\ QueuedHoldNone' /\ NoIdlePermit'
         /\ others \subseteq held'
         /\ \A p \in held' : p \in others \/ InQueue(p)
         /\ \A p \in Passes : InQueue(p)' => InQueue(p)
<1> DEFINE served == Lesser(n, Len(queue))
           S == {queue[i] : i \in 1..served}
<1>1. Len(queue) \in Nat /\ served \in 0..Len(queue) /\ n - served \in Nat
  BY DEF Lesser, GateTypes
<1>2. held' = others \cup S /\ avail' = avail + (n - served)
      /\ queue' = SubSeq(queue, served + 1, Len(queue))
  BY DEF Supply
<1>3. /\ Len(queue') = Len(queue) - served
      /\ queue' \in Seq(Passes)
      /\ \A i \in 1..(Len(queue) - served) : queue'[i] = queue[served + i]
  <2>1. queue \in Seq(Passes)
    BY DEF GateTypes
  <2> QED
    BY <1>1, <1>2, <2>1
<1>4. S \subseteq Passes /\ \A p \in S : InQueue(p)
  BY <1>1 DEF GateTypes, InQueue
<1>5. IsFiniteSet(S) /\ Cardinality(S) = served
  <2>1. queue \in Seq(Passes) /\ \A i, j \in 1..Len(queue) : queue[i] = queue[j] => i = j
    BY DEF GateTypes, QueueOnce
  <2> HIDE DEF served
  <2> QED
    BY <1>1, <2>1, ServedCount
<1>6. IsFiniteSet(others) /\ Cardinality(others) \in Nat
  BY FS_Subset, FS_CardinalityType DEF GateTypes
<1>7. others \cap S = {}
  BY <1>4 DEF QueuedHoldNone
<1>8. Cardinality(held') = Cardinality(others) + served
  <2> HIDE DEF S, served
  <2>1. Cardinality(others \cup S) = Cardinality(others) + Cardinality(S) - Cardinality(others \cap S)
    BY <1>5, <1>6, FS_Union
  <2>2. Cardinality(others \cap S) = 0
    BY <1>7, FS_EmptySet
  <2> QED
    BY <1>1, <1>2, <1>5, <1>6, <2>1, <2>2
<1>9. \A p \in Passes : InQueue(p)' => InQueue(p) /\ p \notin S
  <2> SUFFICES ASSUME NEW i \in 1..Len(queue')
               PROVE  InQueue(queue'[i]) /\ queue'[i] \notin S
    BY DEF InQueue
  <2>1. served + i \in 1..Len(queue) /\ queue'[i] = queue[served + i]
    BY <1>1, <1>3
  <2>2. queue'[i] \notin S
    BY <1>1, <2>1 DEF QueueOnce
  <2> QED
    BY <2>1, <2>2 DEF InQueue
<1>10. QueueOnce'
  <2> SUFFICES ASSUME NEW i \in 1..Len(queue'), NEW j \in 1..Len(queue'),
                      queue'[i] = queue'[j]
               PROVE  i = j
    BY DEF QueueOnce
  <2>1. served + i \in 1..Len(queue) /\ served + j \in 1..Len(queue)
    BY <1>1, <1>3
  <2>2. queue[served + i] = queue[served + j]
    BY <1>3, <1>1
  <2>3. served + i = served + j
    BY <2>1, <2>2 DEF QueueOnce
  <2> QED
    BY <1>1, <2>3
<1>11. QueuedHoldNone'
  <2> SUFFICES ASSUME NEW p \in held' PROVE ~InQueue(p)'
    BY DEF QueuedHoldNone
  <2>1. p \in Passes /\ (p \in others \/ p \in S)
    BY <1>2, <1>4 DEF GateTypes
  <2>2. p \in others => ~InQueue(p)
    BY DEF QueuedHoldNone
  <2> QED
    BY <1>9, <2>1, <2>2
<1>12. NoIdlePermit'
  <2> SUFFICES ASSUME queue' # <<>> PROVE avail' = 0
    BY DEF NoIdlePermit
  <2>1. Len(queue') # 0
    BY <1>3, EmptySeq
  <2>2. served = n /\ Len(queue) # 0
    BY <1>1, <1>3, <2>1 DEF Lesser
  <2>3. avail = 0
    BY <2>2, EmptySeq DEF NoIdlePermit
  <2> QED
    BY <1>2, <2>2, <2>3
<1>13. avail \in Nat /\ held \subseteq Passes
  BY DEF GateTypes
<1> HIDE DEF S, served
<1>14. /\ avail' \in Nat /\ Cardinality(held') \in Nat
       /\ avail' + Cardinality(held') = avail + Cardinality(others) + n
  BY <1>1, <1>2, <1>6, <1>8, <1>13
<1>15. /\ held' \subseteq Passes /\ others \subseteq held'
       /\ \A p \in held' : p \in others \/ InQueue(p)
  BY <1>2, <1>4, <1>13
<1> QED
  BY <1>3, <1>9, <1>10, <1>11, <1>12, <1>14, <1>15

\* apply_target keeps the books of the gate and takes no permit from anybody.
LEMMA ApplyTargetKeeps ==
  ASSUME GateSound, NEW want \in Nat, ApplyTarget(want)
  PROVE  /\ GateSound'
         /\ permits' = want
         /\ held \subseteq held'
         /\ \A p \in held' : p \in held \/ InQueue(p)
         /\ \A p \in Passes : InQueue(p)' => InQueue(p)
<1> IsFiniteSet(held) /\ Cardinality(held) \in Nat
  BY FS_Subset, FS_CardinalityType DEF GateSound, GateTypes
<1> GateTypes /\ PermitsAddUp
  BY DEF GateSound
<1>1. CASE Grow(want)
  <2> DEFINE n == want - permits - Lesser(want - permits, debt)
  <2>1. /\ permits' = want /\ want > permits
        /\ debt' = debt - Lesser(want - permits, debt)
        /\ Supply(n, held)
    BY <1>1 DEF Grow
  <2>2. n \in Nat /\ debt' \in Nat /\ n - debt' = want - permits - debt
    BY <2>1 DEF GateTypes, Lesser
  <2>3. /\ queue' \in Seq(Passes) /\ held' \subseteq Passes /\ avail' \in Nat
        /\ Cardinality(held') \in Nat
        /\ avail' + Cardinality(held') = avail + Cardinality(held) + n
        /\ QueueOnce' /\ QueuedHoldNone' /\ NoIdlePermit'
        /\ held \subseteq held'
        /\ \A p \in held' : p \in held \/ InQueue(p)
        /\ \A p \in Passes : InQueue(p)' => InQueue(p)
    BY <2>1, <2>2, SupplyKeeps DEF GateSound
  <2>4. GateTypes'
    BY <2>1, <2>2, <2>3 DEF GateTypes
  <2>5. PermitsAddUp'
    <3>1. PICK c \in Nat, d \in Nat, a \in Nat :
            c = Cardinality(held') /\ d = debt' /\ a = avail'
      BY <2>2, <2>3
    <3>2. a + c = avail + Cardinality(held) + n /\ n - d = want - permits - debt
      BY <2>2, <2>3, <3>1
    <3>3. avail + Cardinality(held) = permits + debt
      BY DEF PermitsAddUp
    <3>4. permits \in Nat /\ avail \in Nat /\ debt \in Nat /\ n \in Nat
      BY <2>2 DEF GateTypes
    <3> HIDE DEF n
    <3>5. a + c = want + d
      BY <3>2, <3>3, <3>4
    <3> QED
      BY <2>1, <3>1, <3>5 DEF PermitsAddUp
  <2> QED
    BY <2>1, <2>3, <2>4, <2>5 DEF GateSound
<1>2. CASE Shrink(want)
  <2>1. /\ permits' = want /\ want < permits
        /\ avail' = avail - Lesser(permits - want, avail)
        /\ debt' = debt + (permits - want - Lesser(permits - want, avail))
        /\ queue' = queue /\ held' = held
    BY <1>2 DEF Shrink
  <2>2. avail' \in Nat /\ debt' \in Nat /\ avail' - debt' = avail - debt - permits + want
        /\ (avail = 0 => avail' = 0)
    BY <2>1 DEF GateTypes, Lesser
  <2>3. GateTypes'
    BY <2>1, <2>2 DEF GateTypes
  <2>4. PermitsAddUp'
    <3>1. PICK c \in Nat : c = Cardinality(held)
      OBVIOUS
    <3>2. c = Cardinality(held')
      BY <2>1, <3>1
    <3>3. avail + c = permits + debt
      BY <3>1 DEF PermitsAddUp
    <3>4. permits \in Nat /\ avail \in Nat /\ debt \in Nat
      BY DEF GateTypes
    <3>5. PICK a \in Nat, d \in Nat : a = avail' /\ d = debt'
      BY <2>2
    <3>6. a - d = avail - debt - permits + want
      BY <2>2, <3>5
    <3>7. a + c = want + d
      BY <3>3, <3>4, <3>6
    <3> QED
      BY <2>1, <3>2, <3>5, <3>7 DEF PermitsAddUp
  <2> QED
    BY <2>1, <2>2, <2>3, <2>4
       DEF GateSound, QueueOnce, QueuedHoldNone, NoIdlePermit, InQueue
<1>3. CASE want = permits /\ UNCHANGED gate
  BY <1>3 DEF gate, GateSound, GateTypes, QueueOnce, QueuedHoldNone, NoIdlePermit,
              PermitsAddUp, InQueue
<1> QED
  BY <1>1, <1>2, <1>3 DEF ApplyTarget

-----------------------------------------------------------------------------
LEMMA WantedIsPositive ==
  ASSUME NEW limits \in DiskLimits, permits \in Nat
  PROVE  Wanted(limits) \in Nat \ {0}
<1>1. limits.limit \in Nat /\ limits.dynamic \in BOOLEAN
  BY DEF DiskLimits
<1>2. \A n \in Nat : AtLeastOne(n) \in Nat \ {0}
  BY DEF AtLeastOne
<1> QED
  BY <1>1, <1>2 DEF Wanted

\* Where the gate is resized and no pass moves, the passes stay where they are.
LEMMA ResizeKeepsPasses ==
  ASSUME GateInv, NEW want \in Nat \ {0}, ApplyTarget(want), UNCHANGED pc
  PROVE  GateSound' /\ PassSound'
<1>1. /\ GateSound' /\ permits' = want /\ held \subseteq held'
      /\ \A p \in held' : p \in held \/ InQueue(p)
      /\ \A p \in Passes : InQueue(p)' => InQueue(p)
  BY ApplyTargetKeeps DEF GateInv
<1> QED
  BY <1>1 DEF GateInv, PassSound

\* Where no permit moves, the gate stays as it is.
LEMMA GateUntouched ==
  ASSUME GateInv, UNCHANGED gate
  PROVE  GateSound' /\ \A p \in Passes : InQueue(p)' <=> InQueue(p)
BY DEF GateInv, gate, GateSound, GateTypes, QueueOnce, QueuedHoldNone, NoIdlePermit,
       PermitsAddUp, InQueue

LEMMA InitSound == GInit => GateInv
<1> SUFFICES ASSUME GInit PROVE GateInv
  OBVIOUS
<1>1. GTypeOK
  <2>1. cfg \in DiskLimits /\ pin \in Limits \cup {None} /\ streak \in 0..GrowStreak
    BY DEF GInit, GrowStreak
  <2>2. save \in [at : {"idle", "sweep", "clear"}, old : Limits \cup {None}]
    BY DEF GInit
  <2>3. tick \in [at : {"idle", "decide", "measure", "apply"}, ceiling : Limits \cup {None},
                  target : Nat \cup {None}]
    BY DEF GInit
  <2>4. /\ permits \in Nat /\ debt \in Nat /\ avail \in Nat /\ dyn \in BOOLEAN
        /\ queue \in Seq(Passes) /\ held \subseteq Passes
    <3>1. permits = 0 /\ debt = 0 /\ avail = 0 /\ dyn = FALSE /\ queue = <<>> /\ held = {}
      BY DEF GInit
    <3>2. <<>> \in Seq(Passes)
      OBVIOUS
    <3> QED
      BY <3>1, <3>2
  <2>5. pc \in [Passes -> PassPhases] /\ seen \in [Passes -> DiskLimits \cup {None}]
    BY DEF GInit, PassPhases
  <2> QED
    BY <2>1, <2>2, <2>3, <2>4, <2>5 DEF GTypeOK
<1>2. GateSound
  BY FS_EmptySet DEF GInit, GateSound, GateTypes, QueueOnce, QueuedHoldNone,
                     NoIdlePermit, PermitsAddUp
<1>3. PassSound
  BY DEF GInit, PassSound, InQueue
<1>4. Memory
  BY DEF GInit, Memory
<1> QED
  BY <1>1, <1>2, <1>3, <1>4 DEF GateInv

LEMMA PassStepSound ==
  ASSUME GateInv, NEW p \in Passes, PassStep(p)
  PROVE  GateInv'
<1> USE DEF GateInv
<1> IsFiniteSet(held) /\ Cardinality(held) \in Nat
  BY FS_Subset, FS_CardinalityType DEF GateSound, GateTypes
<1>1. CASE ReadLimits(p)
  <2>1. GateSound' /\ \A q \in Passes : InQueue(q)' <=> InQueue(q)
    BY <1>1, GateUntouched DEF ReadLimits
  <2>2. GTypeOK'
    BY <1>1 DEF ReadLimits, At, GTypeOK, settings, gate, adjuster, PassPhases
  <2>3. PassSound'
    BY <1>1, <2>1 DEF ReadLimits, At, PassSound, gate, GTypeOK
  <2>4. Memory'
    BY <1>1 DEF ReadLimits, At, Memory, GTypeOK, settings, adjuster
  <2> QED
    BY <2>1, <2>2, <2>3, <2>4
<1>2. CASE EnterGate(p)
  <2> DEFINE want == Wanted(seen[p])
  <2>1. /\ pc[p] = "read" /\ pc' = [pc EXCEPT ![p] = "ready"] /\ dyn' = seen[p].dynamic
        /\ ApplyTarget(want) /\ seen' = [seen EXCEPT ![p] = None]
        /\ UNCHANGED <<settings, adjuster>>
    BY <1>2 DEF EnterGate, At, GateSem
  <2>2. seen[p] \in DiskLimits
    BY <2>1 DEF Memory
  <2>3. want \in Nat \ {0}
    BY <2>2, WantedIsPositive DEF GateSound, GateTypes
  <2> HIDE DEF want
  <2>4. /\ GateSound' /\ permits' = want /\ held \subseteq held'
        /\ \A q \in held' : q \in held \/ InQueue(q)
        /\ \A q \in Passes : InQueue(q)' => InQueue(q)
    BY <2>1, <2>3, ApplyTargetKeeps
  <2>5. GTypeOK'
    BY <2>1, <2>2, <2>4 DEF GTypeOK, GateSound, GateTypes, PassPhases, DiskLimits, settings, adjuster
  <2>6. PassSound'
    BY <2>1, <2>3, <2>4 DEF PassSound, GTypeOK
  <2>7. Memory'
    BY <2>1 DEF Memory, GTypeOK, settings, adjuster
  <2> QED
    BY <2>4, <2>5, <2>6, <2>7
<1>3. CASE Acquire(p)
  <2>1. /\ pc[p] = "ready" /\ pc' = [pc EXCEPT ![p] = "in"]
        /\ UNCHANGED <<settings, permits, debt, dyn, seen, adjuster>>
    BY <1>3 DEF Acquire, At
  <2>2. p \notin held /\ ~InQueue(p) /\ permits # 0
    BY <2>1 DEF PassSound
  <2>3. CASE avail > 0 /\ avail' = avail - 1 /\ held' = held \cup {p} /\ UNCHANGED queue
    <3>1. GateTypes' /\ QueueOnce' /\ QueuedHoldNone' /\ NoIdlePermit'
      BY <2>1, <2>2, <2>3
         DEF GateSound, GateTypes, QueueOnce, QueuedHoldNone, NoIdlePermit, InQueue
    <3>2. Cardinality(held') = Cardinality(held) + 1
      BY <2>2, <2>3, FS_AddElement
    <3>3. PermitsAddUp'
      BY <2>1, <2>3, <3>2 DEF PermitsAddUp, GateSound, GateTypes
    <3>4. PassSound'
      BY <2>1, <2>2, <2>3 DEF PassSound, InQueue, GTypeOK
    <3>5. GTypeOK'
      BY <2>1, <3>1, <2>3 DEF GTypeOK, GateTypes, PassPhases, settings, adjuster
    <3>6. Memory'
      BY <2>1 DEF Memory, GTypeOK, settings, adjuster
    <3> QED
      BY <3>1, <3>3, <3>4, <3>5, <3>6 DEF GateSound
  <2>4. CASE avail = 0 /\ queue' = Append(queue, p) /\ UNCHANGED <<avail, held>>
    <3>1. /\ queue \in Seq(Passes) /\ Len(queue) \in Nat
          /\ queue' \in Seq(Passes) /\ Len(queue') = Len(queue) + 1
          /\ \A i \in 1..Len(queue) : queue'[i] = queue[i]
          /\ queue'[Len(queue) + 1] = p
      BY <2>4 DEF GateSound, GateTypes
    <3>2. \A q \in Passes : InQueue(q)' <=> InQueue(q) \/ q = p
      BY <3>1 DEF InQueue
    <3>3. QueueOnce'
      BY <2>2, <3>1 DEF GateSound, QueueOnce, InQueue
    <3>4. QueuedHoldNone'
      BY <2>2, <2>4, <3>2 DEF GateSound, QueuedHoldNone, GateTypes
    <3>5. GateSound'
      BY <2>1, <2>4, <3>1, <3>3, <3>4
         DEF GateSound, GateTypes, NoIdlePermit, PermitsAddUp
    <3>6. PassSound'
      BY <2>1, <2>2, <2>4, <3>2 DEF PassSound, GTypeOK
    <3>7. GTypeOK'
      BY <2>1, <2>4, <3>1 DEF GTypeOK, PassPhases, settings, adjuster
    <3>8. Memory'
      BY <2>1 DEF Memory, GTypeOK, settings, adjuster
    <3> QED
      BY <3>5, <3>6, <3>7, <3>8
  <2> QED
    BY <1>3, <2>3, <2>4 DEF Acquire
<1>4. CASE PayDebt(p)
  <2>1. /\ p \in held /\ pc[p] = "in" /\ pc' = [pc EXCEPT ![p] = "idle"]
        /\ debt > 0 /\ debt' = debt - 1 /\ held' = held \ {p}
        /\ UNCHANGED <<settings, permits, avail, queue, dyn, seen, adjuster>>
    BY <1>4 DEF PayDebt, At
  <2>2. ~InQueue(p) /\ \A q \in Passes : InQueue(q)' <=> InQueue(q)
    BY <2>1 DEF GateSound, QueuedHoldNone, InQueue
  <2>3. Cardinality(held') = Cardinality(held) - 1
    BY <2>1, FS_RemoveElement
  <2>4. GateSound'
    BY <2>1, <2>2, <2>3 DEF GateSound, GateTypes, QueueOnce, QueuedHoldNone, NoIdlePermit,
                            PermitsAddUp
  <2>5. PassSound'
    BY <2>1, <2>2 DEF PassSound, GTypeOK
  <2>6. GTypeOK'
    BY <2>1 DEF GTypeOK, PassPhases, settings, adjuster
  <2>7. Memory'
    BY <2>1 DEF Memory, GTypeOK, settings, adjuster
  <2> QED
    BY <2>4, <2>5, <2>6, <2>7
<1>5. CASE NothingOwed(p)
  <2>1. GateSound' /\ \A q \in Passes : InQueue(q)' <=> InQueue(q)
    BY <1>5, GateUntouched DEF NothingOwed
  <2>2. GTypeOK'
    BY <1>5 DEF NothingOwed, At, GTypeOK, settings, gate, adjuster, PassPhases
  <2>3. PassSound'
    BY <1>5, <2>1 DEF NothingOwed, At, PassSound, gate, GTypeOK, GateSound, QueuedHoldNone
  <2>4. Memory'
    BY <1>5 DEF NothingOwed, At, Memory, GTypeOK, settings, adjuster
  <2> QED
    BY <2>1, <2>2, <2>3, <2>4
<1>6. CASE Return(p)
  <2>1. /\ pc[p] = "returning" /\ pc' = [pc EXCEPT ![p] = "idle"]
        /\ Supply(1, held \ {p})
        /\ UNCHANGED <<settings, permits, debt, dyn, seen, adjuster>>
    BY <1>6 DEF Return, At
  <2>2. p \in held /\ ~InQueue(p)
    BY <2>1 DEF PassSound
  <2>3. /\ queue' \in Seq(Passes) /\ held' \subseteq Passes /\ avail' \in Nat
        /\ Cardinality(held') \in Nat
        /\ avail' + Cardinality(held') = avail + Cardinality(held \ {p}) + 1
        /\ QueueOnce' /\ QueuedHoldNone' /\ NoIdlePermit'
        /\ held \ {p} \subseteq held'
        /\ \A q \in held' : q \in held \ {p} \/ InQueue(q)
        /\ \A q \in Passes : InQueue(q)' => InQueue(q)
    BY <2>1, SupplyKeeps DEF GateSound
  <2>4. Cardinality(held \ {p}) = Cardinality(held) - 1
    BY <2>2, FS_RemoveElement
  <2>5. PermitsAddUp'
    BY <2>1, <2>3, <2>4 DEF GateSound, GateTypes, PermitsAddUp
  <2>6. GateSound'
    BY <2>1, <2>3, <2>5 DEF GateSound, GateTypes
  <2>7. PassSound'
    BY <2>1, <2>2, <2>3 DEF PassSound, GTypeOK
  <2>8. GTypeOK'
    BY <2>1, <2>3 DEF GTypeOK, PassPhases, settings, adjuster
  <2>9. Memory'
    BY <2>1 DEF Memory, GTypeOK, settings, adjuster
  <2> QED
    BY <2>6, <2>7, <2>8, <2>9
<1> QED
  BY <1>1, <1>2, <1>3, <1>4, <1>5, <1>6 DEF PassStep

\* The sweep and the adjuster resize; the rest of the UI thread only writes
\* settings.
LEMMA OtherStepSound ==
  ASSUME GateInv,
         \/ \E limits \in DiskLimits : Commit(limits)
         \/ \E n \in Limits \cup {None} : SetPin(n)
         \/ SaveStep
         \/ TickStep
  PROVE  GateInv'
<1> USE DEF GateInv
<1>0. ASSUME UNCHANGED <<gate, pc>>
      PROVE  GateSound' /\ PassSound'
  <2>1. GateSound' /\ \A q \in Passes : InQueue(q)' <=> InQueue(q)
    BY <1>0, GateUntouched
  <2> QED
    BY <1>0, <2>1 DEF PassSound, gate
<1>1. ASSUME NEW limits \in DiskLimits, Commit(limits) PROVE GateInv'
  <2>1. GateSound' /\ PassSound'
    BY <1>0, <1>1 DEF Commit, passes
  <2>2. cfg.limit \in Limits
    BY DEF GTypeOK, DiskLimits
  <2>3. save' \in [at : {"idle", "sweep", "clear"}, old : Limits \cup {None}]
        /\ save'.old \in Limits
    BY <1>1, <2>2 DEF Commit
  <2>4. GTypeOK'
    BY <1>1, <2>3 DEF Commit, GTypeOK, gate, passes, adjuster
  <2>5. Memory'
    BY <1>1, <2>3 DEF Commit, Memory, passes, adjuster
  <2> QED
    BY <2>1, <2>4, <2>5
<1>2. ASSUME NEW n \in Limits \cup {None}, SetPin(n) PROVE GateInv'
  <2>1. GateSound' /\ PassSound'
    BY <1>0, <1>2 DEF SetPin, passes
  <2>2. GTypeOK' /\ Memory'
    BY <1>2 DEF SetPin, GTypeOK, Memory, gate, passes, adjuster
  <2> QED
    BY <2>1, <2>2
<1>3. ASSUME NEW next \in {"idle", "clear"}, Swept(next)
      PROVE  save' \in [at : {"idle", "sweep", "clear"}, old : Limits \cup {None}]
             /\ save'.at # "sweep"
  BY <1>3 DEF Swept
<1>4. CASE SweepNothing
  <2>1. GateSound' /\ PassSound'
    BY <1>0, <1>4 DEF SweepNothing, passes
  <2>2. GTypeOK' /\ Memory'
    BY <1>3, <1>4 DEF SweepNothing, GTypeOK, Memory, gate, passes, adjuster
  <2> QED
    BY <2>1, <2>2
<1>5. CASE ClearPin
  <2>1. GateSound' /\ PassSound'
    BY <1>0, <1>5 DEF ClearPin, passes
  <2>2. GTypeOK' /\ Memory'
    BY <1>3, <1>5 DEF ClearPin, GTypeOK, Memory, gate, passes, adjuster
  <2> QED
    BY <2>1, <2>2
<1>6. CASE SweepStatic
  <2> DEFINE want == Wanted(cfg)
  <2>1. want \in Nat \ {0}
    BY WantedIsPositive DEF GTypeOK
  <2>2. ApplyTarget(want) /\ dyn' = cfg.dynamic /\ Swept("clear")
        /\ UNCHANGED <<cfg, pin, passes, adjuster>>
    BY <1>6 DEF SweepStatic, GateSem
  <2> HIDE DEF want
  <2>3. GateSound' /\ PassSound'
    BY <2>1, <2>2, ResizeKeepsPasses DEF passes
  <2>4. GTypeOK'
    BY <1>3, <2>2, <2>3 DEF GTypeOK, GateSound, GateTypes, DiskLimits, passes, adjuster
  <2>5. Memory'
    BY <1>3, <2>2 DEF Memory, passes, adjuster
  <2> QED
    BY <2>3, <2>4, <2>5
<1>7. CASE SweepDynamic
  <2>1. /\ Swept("idle") /\ UNCHANGED <<cfg, pin, passes, adjuster>>
        /\ dyn' \in BOOLEAN
    BY <1>7 DEF SweepDynamic, GTypeOK
  <2>2. UNCHANGED gate \/ (Grow(cfg.limit) /\ permits < cfg.limit)
    BY <1>7 DEF SweepDynamic, Grow
  <2>3. cfg.limit \in Nat
    BY DEF GTypeOK, DiskLimits
  <2>9. UNCHANGED pc
    BY <2>1 DEF passes
  <2>4. ASSUME UNCHANGED gate PROVE GateSound' /\ PassSound'
    BY <1>0, <2>9, <2>4
  <2>5. ASSUME Grow(cfg.limit), permits < cfg.limit PROVE GateSound' /\ PassSound'
    <3> DEFINE want == cfg.limit
    <3>1. want \in Nat \ {0} /\ ApplyTarget(want)
      BY <2>3, <2>5 DEF ApplyTarget, GTypeOK
    <3> HIDE DEF want
    <3> QED
      BY <2>9, <3>1, ResizeKeepsPasses
  <2>6. GateSound' /\ PassSound'
    BY <2>2, <2>4, <2>5
  <2>7. GTypeOK'
    BY <1>3, <2>1, <2>6 DEF GTypeOK, GateSound, GateTypes, passes, adjuster
  <2>8. Memory'
    BY <1>3, <2>1 DEF Memory, passes, adjuster
  <2> QED
    BY <2>6, <2>7, <2>8
<1>8. CASE TickRead
  <2>1. GateSound' /\ PassSound'
    BY <1>0, <1>8 DEF TickRead, passes
  <2>2. cfg.limit \in Limits
    BY DEF GTypeOK, DiskLimits
  <2>3. tick' \in [at : {"idle", "decide", "measure", "apply"}, ceiling : Limits \cup {None},
                   target : Nat \cup {None}]
        /\ tick'.at = "decide" /\ tick'.ceiling \in Limits
    BY <1>8, <2>2 DEF TickRead
  <2>4. GTypeOK' /\ Memory'
    BY <1>8, <2>3 DEF TickRead, GTypeOK, Memory, settings, gate, passes
  <2> QED
    BY <2>1, <2>4
<1>9. ASSUME NEW t \in Nat,
             tick' = [tick EXCEPT !.at = "apply", !.target = t],
             streak' \in 0..GrowStreak,
             UNCHANGED <<settings, gate, dyn, passes>>
      PROVE  GateInv'
  <2>1. GateSound' /\ PassSound'
    BY <1>0, <1>9 DEF passes
  <2>2. tick' \in [at : {"idle", "decide", "measure", "apply"}, ceiling : Limits \cup {None},
                   target : Nat \cup {None}]
        /\ tick'.at = "apply" /\ tick'.target \in Nat
    BY <1>9 DEF GTypeOK
  <2>3. GTypeOK' /\ Memory'
    BY <1>9, <2>2 DEF GTypeOK, Memory, settings, gate, passes
  <2> QED
    BY <2>1, <2>3
<1>10. CASE TickPin
  <2>1. streak \in 0..GrowStreak /\ UNCHANGED <<settings, gate, dyn, passes, streak>>
    BY <1>10 DEF TickPin, GTypeOK
  <2>2. CASE pin # None
    <3>1. pin \in Nat /\ tick' = [tick EXCEPT !.at = "apply", !.target = pin]
      BY <1>10, <2>2 DEF TickPin, GTypeOK
    <3> QED
      BY <1>9, <2>1, <3>1
  <2>3. CASE pin = None
    <3>1. GateSound' /\ PassSound'
      BY <1>0, <2>1 DEF passes
    <3>2. tick' \in [at : {"idle", "decide", "measure", "apply"}, ceiling : Limits \cup {None},
                     target : Nat \cup {None}]
          /\ tick'.at = "measure" /\ tick'.ceiling \in Limits
      BY <1>10, <2>3 DEF TickPin, GTypeOK, Memory
    <3>3. GTypeOK' /\ Memory'
      BY <2>1, <3>2 DEF GTypeOK, Memory, settings, gate, passes
    <3> QED
      BY <3>1, <3>3
  <2> QED
    BY <2>2, <2>3
<1>11. ASSUME NEW depth \in LowQueue..HighQueue, TickMeasure(depth) PROVE GateInv'
  <2>1. tick.ceiling \in Nat /\ permits \in Nat /\ streak \in 0..2
    BY <1>11 DEF TickMeasure, Memory, GTypeOK, GrowStreak
  <2>2. DynamicStep(depth) \in Nat
    <3>1. /\ Lesser(permits + 1, AtLeastOne(tick.ceiling)) \in Nat
          /\ AtLeastOne(permits \div 2) \in Nat
      BY <2>1 DEF Lesser, AtLeastOne
    <3> QED
      BY <2>1, <3>1, Zenon DEF DynamicStep
  <2>3. NextStreak(depth) \in 0..GrowStreak
    BY <2>1 DEF NextStreak, Lesser, GrowStreak, LowQueue, HighQueue
  <2> QED
    BY <1>9, <1>11, <2>2, <2>3 DEF TickMeasure
<1>12. CASE TickApply
  <2> DEFINE want == AtLeastOne(tick.target)
  <2>1. want \in Nat \ {0}
    BY <1>12 DEF TickApply, Memory, AtLeastOne
  <2>2. ApplyTarget(want) \/ UNCHANGED gate
    BY <1>12 DEF TickApply
  <2>3. /\ tick' = [at |-> "idle", ceiling |-> None, target |-> None]
        /\ UNCHANGED <<settings, dyn, passes, streak>>
    BY <1>12 DEF TickApply
  <2> HIDE DEF want
  <2>4. GateSound' /\ PassSound'
    BY <1>0, <2>1, <2>2, <2>3, ResizeKeepsPasses DEF passes
  <2>5. GTypeOK' /\ Memory'
    BY <2>3, <2>4 DEF GTypeOK, GateSound, GateTypes, Memory, settings, passes
  <2> QED
    BY <2>4, <2>5
<1> QED
  BY <1>1, <1>2, <1>4, <1>5, <1>6, <1>7, <1>8, <1>10, <1>11, <1>12 DEF SaveStep, TickStep

LEMMA StutterSound == GateInv /\ UNCHANGED gvars => GateInv'
<1> SUFFICES ASSUME GateInv, UNCHANGED gvars PROVE GateInv'
  OBVIOUS
<1>1. GateSound' /\ \A q \in Passes : InQueue(q)' <=> InQueue(q)
  BY GateUntouched DEF gvars, gate
<1> QED
  BY <1>1 DEF gvars, GateInv, GTypeOK, PassSound, Memory

-----------------------------------------------------------------------------
LEMMA GateInvHolds == GSpec => []GateInv
<1>1. GateInv /\ [GNext]_gvars => GateInv'
  BY PassStepSound, OtherStepSound, StutterSound DEF GNext
<1> QED
  BY InitSound, <1>1, PTL DEF GSpec

\* The settings, the gate, the passes and the adjuster keep their types.
THEOREM GateTypesHold == GSpec => []GTypeOK
<1>1. GateInv => GTypeOK
  BY DEF GateInv
<1> QED
  BY GateInvHolds, <1>1, PTL

\* Every permit is in the semaphore or handed out, and all of them together
\* are the number the gate should have and what it is still owed.
THEOREM PermitsAreConserved == GSpec => []PermitsAddUp
<1>1. GateInv => PermitsAddUp
  BY DEF GateInv, GateSound
<1> QED
  BY GateInvHolds, <1>1, PTL

\* A queue stands only before a gate whose permits are all out, and then one
\* of them is held by a pass that will bring it back.
THEOREM QueueHasARunner == GSpec => []NobodyWaitsIdly
<1>1. GateInv => NobodyWaitsIdly
  <2> SUFFICES ASSUME GateInv, queue # <<>> PROVE avail = 0 /\ held # {}
    BY DEF NobodyWaitsIdly
  <2>1. avail = 0
    BY DEF GateInv, GateSound, NoIdlePermit
  <2>2. queue \in Seq(Passes) /\ Len(queue) \in Nat /\ Len(queue) # 0
    BY EmptySeq DEF GateInv, GateSound, GateTypes
  <2>3. InQueue(queue[1]) /\ queue[1] \in Passes
    BY <2>2 DEF InQueue
  <2>4. permits \in Nat /\ debt \in Nat /\ permits # 0
    BY <2>3 DEF GateInv, PassSound, GateSound, GateTypes
  <2>5. Cardinality(held) # 0
    BY <2>1, <2>4, FS_EmptySet DEF GateInv, GateSound, PermitsAddUp
  <2> QED
    BY <2>1, <2>5, FS_EmptySet
<1> QED
  BY GateInvHolds, <1>1, PTL
-----------------------------------------------------------------------------
(* How many passes there may ever be.  A pass can be over the limit for a  *)
(* while, after a limit was lowered and even newly admitted (a permit that *)
(* is on its way back when the limit is lowered goes to the next pass), but*)
(* no order of saves, ticks, pins and returns makes permits pile up.       *)

\* No limit and no pin that is in force is above n.
SetAtMost(n) == cfg.limit <= n /\ (pin # None => pin <= n)

\* Nor is the number in circulation, or one that a thread has still to apply.
Below(n) ==
  /\ permits + debt <= n
  /\ \A p \in Passes : pc[p] = "read" => seen[p].limit <= n
  /\ tick.at \in {"decide", "measure"} => tick.ceiling <= n
  /\ tick.at = "apply" => tick.target <= n

\* A resize to a number up to n: growth takes back what is owed first, and what
\* a shrink adds to the debt it takes off the number.
LEMMA ResizeStaysBelow ==
  ASSUME GateTypes, NEW n \in Nat, NEW want \in Nat, want <= n, permits + debt <= n,
         ApplyTarget(want)
  PROVE  permits' + debt' <= n
<1> USE DEF GateTypes
<1>1. CASE Grow(want)
  BY <1>1 DEF Grow, Lesser
<1>2. CASE Shrink(want)
  BY <1>2 DEF Shrink, Lesser
<1>3. CASE want = permits /\ UNCHANGED gate
  BY <1>3 DEF gate
<1> QED
  BY <1>1, <1>2, <1>3 DEF ApplyTarget

LEMMA WantedStaysBelow ==
  ASSUME NEW n \in Nat \ {0}, NEW limits \in DiskLimits, limits.limit <= n,
         permits \in Nat, permits <= n
  PROVE  Wanted(limits) <= n /\ Wanted(limits) \in Nat
<1>1. limits.limit \in Nat /\ limits.dynamic \in BOOLEAN
  BY DEF DiskLimits
<1>2. \A k \in Nat : k <= n => AtLeastOne(k) \in Nat /\ AtLeastOne(k) <= n
  BY DEF AtLeastOne
<1> QED
  BY <1>1, <1>2 DEF Wanted

LEMMA PassStepBelow ==
  ASSUME GateInv, NEW n \in Nat \ {0}, SetAtMost(n), Below(n), NEW p \in Passes, PassStep(p)
  PROVE  Below(n)'
<1> USE DEF Below, SetAtMost
<1> pc \in [Passes -> PassPhases] /\ seen \in [Passes -> DiskLimits \cup {None}] /\ GateTypes
  BY DEF GateInv, GTypeOK, GateSound
<1>1. CASE ReadLimits(p)
  BY <1>1 DEF ReadLimits, At, gate, adjuster
<1>2. CASE EnterGate(p)
  <2> DEFINE want == Wanted(seen[p])
  <2>1. ApplyTarget(want) /\ pc' = [pc EXCEPT ![p] = "ready"]
        /\ seen' = [seen EXCEPT ![p] = None] /\ UNCHANGED adjuster /\ pc[p] = "read"
    BY <1>2 DEF EnterGate, At, GateSem
  <2>2. want \in Nat /\ want <= n
    BY <2>1, WantedStaysBelow DEF GateInv, Memory, GateTypes
  <2> HIDE DEF want
  <2>3. permits' + debt' <= n
    BY <2>1, <2>2, ResizeStaysBelow
  <2> QED
    BY <2>1, <2>3 DEF adjuster
<1>3. CASE Acquire(p) \/ NothingOwed(p) \/ Return(p)
  BY <1>3 DEF Acquire, NothingOwed, Return, At, gate, adjuster
<1>4. CASE PayDebt(p)
  BY <1>4 DEF PayDebt, At, adjuster, GateTypes
<1> QED
  BY <1>1, <1>2, <1>3, <1>4 DEF PassStep

LEMMA SaveStepBelow ==
  ASSUME GateInv, NEW n \in Nat \ {0}, SetAtMost(n), Below(n), SaveStep
  PROVE  Below(n)'
<1> USE DEF Below, SetAtMost
<1> cfg \in DiskLimits /\ cfg.limit \in Nat /\ GateTypes
  BY DEF GateInv, GTypeOK, GateSound, DiskLimits
<1>1. UNCHANGED <<passes, adjuster>>
  BY DEF SaveStep, SweepNothing, SweepStatic, SweepDynamic, ClearPin
<1>2. CASE UNCHANGED gate
  BY <1>1, <1>2 DEF gate, passes, adjuster
<1>3. CASE SweepStatic
  <2> DEFINE want == Wanted(cfg)
  <2>1. want \in Nat /\ want <= n
    BY WantedStaysBelow DEF GateTypes
  <2>2. ApplyTarget(want)
    BY <1>3 DEF SweepStatic, GateSem
  <2> HIDE DEF want
  <2> QED
    BY <1>1, <2>1, <2>2, ResizeStaysBelow DEF passes, adjuster
<1>4. CASE Grow(cfg.limit)
  BY <1>1, <1>4, ResizeStaysBelow DEF ApplyTarget, passes, adjuster
<1> QED
  BY <1>2, <1>3, <1>4 DEF SaveStep, SweepNothing, SweepDynamic, ClearPin

LEMMA TickStepBelow ==
  ASSUME GateInv, NEW n \in Nat \ {0}, SetAtMost(n), Below(n), TickStep
  PROVE  Below(n)'
<1> USE DEF Below, SetAtMost
<1> /\ GateTypes /\ cfg.limit \in Nat
    /\ tick \in [at : {"idle", "decide", "measure", "apply"}, ceiling : Limits \cup {None},
                 target : Nat \cup {None}]
  BY DEF GateInv, GTypeOK, GateSound, DiskLimits
<1>1. CASE TickRead
  BY <1>1 DEF TickRead, gate, passes
<1>2. CASE TickPin
  BY <1>2 DEF TickPin, gate, passes
<1>3. ASSUME NEW depth \in LowQueue..HighQueue, TickMeasure(depth)
      PROVE  Below(n)'
  <2>1. tick.ceiling \in Nat /\ tick.ceiling <= n /\ permits \in Nat /\ permits <= n
    BY <1>3 DEF TickMeasure, GateInv, Memory, GateTypes
  <2>2. /\ Lesser(permits + 1, AtLeastOne(tick.ceiling)) <= n
        /\ AtLeastOne(permits \div 2) <= n
    BY <2>1 DEF Lesser, AtLeastOne
  <2>3. DynamicStep(depth) <= n
    BY <2>1, <2>2, Zenon DEF DynamicStep
  <2>4. tick'.at = "apply" /\ tick'.target = DynamicStep(depth) /\ UNCHANGED <<gate, passes>>
    BY <1>3 DEF TickMeasure
  <2> QED
    BY <2>3, <2>4 DEF gate, passes
<1>4. CASE TickApply
  <2> DEFINE want == AtLeastOne(tick.target)
  <2>1. want \in Nat /\ want <= n
    BY <1>4 DEF TickApply, GateInv, Memory, AtLeastOne
  <2>2. /\ ApplyTarget(want) \/ UNCHANGED gate
        /\ tick'.at = "idle" /\ UNCHANGED passes
    BY <1>4 DEF TickApply
  <2> HIDE DEF want
  <2>3. permits' + debt' <= n
    BY <2>1, <2>2, ResizeStaysBelow DEF gate
  <2> QED
    BY <2>2, <2>3 DEF passes
<1> QED
  BY <1>1, <1>2, <1>3, <1>4 DEF TickStep

LEMMA StepBelow ==
  ASSUME NEW n \in Nat \ {0}
  PROVE  GateInv /\ SetAtMost(n) /\ Below(n) /\ [GNext]_gvars => Below(n)'
<1> SUFFICES ASSUME GateInv, SetAtMost(n), Below(n), [GNext]_gvars PROVE Below(n)'
  OBVIOUS
<1>1. ASSUME UNCHANGED <<gate, passes, adjuster>>
      PROVE  Below(n)'
  BY <1>1 DEF Below, gate, passes, adjuster
<1>2. CASE \/ \E limits \in DiskLimits : Commit(limits)
           \/ \E k \in Limits \cup {None} : SetPin(k)
           \/ UNCHANGED gvars
  BY <1>1, <1>2 DEF Commit, SetPin, gvars, gate, passes, adjuster
<1> QED
  BY <1>2, PassStepBelow, SaveStepBelow, TickStepBelow DEF GNext

\* A drive never has more passes at work than the highest number the user, a pin
\* or 1 ever allowed it: apply_target takes back what is owed before it adds, so
\* no sequence of resizes pays one permit out twice.
THEOREM NeverMoreThanSet ==
  ASSUME NEW n \in Nat \ {0}
  PROVE  GSpec /\ []SetAtMost(n) => [](Cardinality(held) <= n)
<1>1. GInit => Below(n)
  BY DEF GInit, Below
<1>2. GateInv /\ Below(n) => Cardinality(held) <= n
  <2>1. GateInv => Cardinality(held) \in Nat /\ GateTypes /\ PermitsAddUp
    BY FS_Subset, FS_CardinalityType DEF GateInv, GateSound, GateTypes
  <2> QED
    BY <2>1 DEF Below, GateTypes, PermitsAddUp
<1> QED
  BY <1>1, <1>2, StepBelow, GateInvHolds, PTL DEF GSpec
=============================================================================
