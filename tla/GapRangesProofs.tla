--------------------------- MODULE GapRangesProofs ---------------------------
(***************************************************************************)
(* What holds of the queue of lost ranges for a stream of any length, any  *)
(* number of attempts and any number of restarts.                          *)
(***************************************************************************)
EXTENDS GapRanges, FiniteSetTheorems, FunctionTheorems, WellFoundedInduction, TLAPS

-----------------------------------------------------------------------------
(* Ranges of losses.                                                       *)

LEMMA RangeIsRecord ==
  ASSUME NEW losses \in SUBSET Positions, NEW g \in Ranges(losses)
  PROVE  /\ g \in [from : Positions, to : Positions] /\ g.from <= g.to
         /\ g.from \in Int /\ g.to \in Int
         /\ Span(g) \subseteq losses /\ g.from \in losses /\ g.to \in losses
         /\ g.from - 1 \notin losses /\ g.to + 1 \notin losses
<1>1. g \in [from : losses, to : losses]
  BY DEF Ranges
<1>2. g.from \in losses /\ g.to \in losses
  BY <1>1
<1>3. g.from \in Int /\ g.to \in Int
  <2>1. \A p \in losses : p \in Int
    BY RangesAssumption DEF Positions
  <2> QED
    BY <1>2, <2>1
<1> QED
  BY <1>1, <1>2, <1>3 DEF Ranges

\* Two ranges of the same losses do not meet.
LEMMA RangesAreApart ==
  ASSUME NEW losses \in SUBSET Positions, NEW g \in Ranges(losses), NEW h \in Ranges(losses),
         Overlap(g, h)
  PROVE  g = h
<1>1. PICK p \in Span(g) : p \in Span(h)
  BY DEF Overlap
<1>2. p \in Int /\ g.from <= p /\ p <= g.to /\ h.from <= p /\ p <= h.to
  BY <1>1, RangeIsRecord DEF Span
<1>3. ~(g.from < h.from) /\ ~(h.from < g.from)
  <2>1. g.from < h.from => h.from - 1 \in Span(g)
    BY <1>2, RangeIsRecord DEF Span
  <2>2. h.from < g.from => g.from - 1 \in Span(h)
    BY <1>2, RangeIsRecord DEF Span
  <2> QED
    BY <2>1, <2>2, RangeIsRecord
<1>4. ~(g.to < h.to) /\ ~(h.to < g.to)
  <2>1. g.to < h.to => g.to + 1 \in Span(h)
    BY <1>2, RangeIsRecord DEF Span
  <2>2. h.to < g.to => h.to + 1 \in Span(g)
    BY <1>2, RangeIsRecord DEF Span
  <2> QED
    BY <2>1, <2>2, RangeIsRecord
<1>5. g.from = h.from /\ g.to = h.to
  BY <1>3, <1>4, RangeIsRecord
<1> QED
  BY <1>5, RangeIsRecord

\* A set of numbers that is not empty has a smallest one.
LEMMA Smallest ==
  ASSUME NEW S \in SUBSET Nat, S # {} PROVE \E x \in S : \A y \in S : x <= y
<1> DEFINE Less == {ss \in Nat \X Nat : ss[1] < ss[2]}
<1>1. IsWellFoundedOn(Less, Nat)
  BY NatLessThanWellFounded DEF OpToRel
<1>2. \E x \in S : \A y \in S : ~(<<y, x>> \in Less)
  <2> HIDE DEF Less
  <2> QED
    BY <1>1, WFMin
<1>3. \A x, y \in Nat : x <= y \/ <<y, x>> \in Less
  OBVIOUS
<1> QED
  BY <1>2, <1>3

\* Every loss is in a range.
LEMMA LossIsInRange ==
  ASSUME NEW losses \in SUBSET Positions, NEW p \in losses
  PROVE  \E g \in Ranges(losses) : p \in Span(g)
<1> DEFINE Before == {q \in 1..p : q..p \subseteq losses}
           Missing == {n \in 1..(Last - p + 1) : p + n \notin losses}
<1>0. p \in Int /\ 1 <= p /\ p <= Last /\ Last \in Nat
  BY RangesAssumption DEF Positions
<1>1. PICK from \in Before : \A q \in Before : from <= q
  <2>1. p \in Before
    BY <1>0
  <2>2. Before \subseteq Nat
    BY <1>0
  <2> QED
    BY <2>1, <2>2, Smallest
<1>2. from - 1 \notin losses
  <2>1. SUFFICES ASSUME from - 1 \in losses PROVE FALSE
    OBVIOUS
  <2>2. from - 1 >= 1 /\ from \in Int
    BY <1>0, <2>1 DEF Positions
  <2>3. (from - 1)..p \subseteq losses
    BY <1>0, <2>1, <2>2
  <2> QED
    BY <1>0, <1>1, <2>2, <2>3
<1>3. PICK n \in Missing : \A m \in Missing : n <= m
  <2>1. Last + 1 \notin losses
    BY <1>0 DEF Positions
  <2>2. Last - p + 1 \in Missing
    BY <1>0, <2>1
  <2>3. Missing \subseteq Nat
    BY <1>0
  <2> QED
    BY <2>2, <2>3, Smallest
<1>4. p..(p + n - 1) \subseteq losses
  <2>1. SUFFICES ASSUME NEW q \in p..(p + n - 1), q \notin losses PROVE FALSE
    OBVIOUS
  <2>2. q - p \in Missing
    BY <1>0, <1>3, <2>1
  <2> QED
    BY <1>0, <1>3, <2>1, <2>2
<1> DEFINE g == [from |-> from, to |-> p + n - 1]
<1>5. from \in Int /\ n \in Int /\ from <= p /\ n >= 1
  BY <1>0
<1>6. Span(g) \subseteq losses
  BY <1>0, <1>1, <1>4, <1>5 DEF Span
<1>7. g.from \in losses /\ g.to \in losses
  BY <1>0, <1>5, <1>6 DEF Span
<1>8. g \in Ranges(losses)
  BY <1>0, <1>2, <1>3, <1>5, <1>6, <1>7 DEF Ranges
<1> QED
  BY <1>0, <1>5, <1>8 DEF Span

-----------------------------------------------------------------------------
(* The queue.                                                              *)

LEMMA RangesAreFinite ==
  ASSUME NEW losses \in SUBSET Positions, NEW new \in SUBSET Ranges(losses)
  PROVE  IsFiniteSet(new)
<1> DEFINE f == [g \in new |-> g.from]
<1>1. f \in [new -> losses]
  BY RangeIsRecord
<1>2. ASSUME NEW g \in new, NEW h \in new, f[g] = f[h] PROVE g = h
  <2>1. g.from \in Span(g) /\ g.from \in Span(h)
    BY <1>2, RangeIsRecord DEF Span
  <2> QED
    BY <2>1, RangesAreApart DEF Overlap
<1>3. f \in Injection(new, losses)
  BY <1>1, <1>2, Fun_IsInj
<1>4. IsFiniteSet(losses)
  <2>1. IsFiniteSet(Positions)
    BY FS_Interval, RangesAssumption DEF Positions
  <2> QED
    BY <2>1, FS_Subset
<1> QED
  BY <1>3, <1>4, FS_Injection

\* Ranks are numbers from 1 on, and no two ranges have the same.
LEMMA Ranks ==
  ASSUME NEW losses \in SUBSET Positions, NEW new \in SUBSET Ranges(losses),
         NEW g \in new, NEW h \in new
  PROVE  LET rank(k) == Cardinality({j \in new : j.from <= k.from})
         IN  rank(g) \in Nat \ {0} /\ (rank(g) = rank(h) => g = h)
<1> DEFINE Upto(k) == {j \in new : j.from <= k.from}
<1>1. \A k \in new : IsFiniteSet(Upto(k))
  BY RangesAreFinite, FS_Subset
<1>2. \A k \in new : k \in Upto(k)
  BY RangeIsRecord
<1>3. ASSUME NEW a \in new, NEW b \in new, a.from < b.from
      PROVE  Cardinality(Upto(a)) # Cardinality(Upto(b))
  <2>1. Upto(a) \in SUBSET Upto(b)
    BY <1>3, RangeIsRecord
  <2>2. b \notin Upto(a)
    BY <1>3, RangeIsRecord
  <2> HIDE DEF Upto
  <2> QED
    BY <1>1, <1>2, <2>1, <2>2, FS_Subset
<1>4. Cardinality(Upto(g)) \in Nat \ {0}
  <2> HIDE DEF Upto
  <2> QED
    BY <1>1, <1>2, FS_CardinalityType, FS_EmptySet
<1>5. Cardinality(Upto(g)) = Cardinality(Upto(h)) => g.from = h.from
  <2> HIDE DEF Upto
  <2> QED
    BY <1>3, RangeIsRecord
<1>6. g.from = h.from => g = h
  <2>1. g.from \in Span(g)
    BY RangeIsRecord DEF Span
  <2>2. g.from = h.from => g.from \in Span(h)
    BY RangeIsRecord DEF Span
  <2> QED
    BY <2>1, <2>2, RangesAreApart DEF Overlap
<1> QED
  BY <1>4, <1>5, <1>6

RowTypes == others \in Nat /\ \A r \in rows : RowFits(r)
TodoTypes == \A r \in job.todo : RowFits(r)

\* A row the scanner has put in.
Fresh(r) == r.st = "pending" /\ r.tries = 0

\* What replace_pending_gap_ranges makes of the queue: what is kept, and one
\* row for each range that does not meet what is kept.
LEMMA Replaced ==
  ASSUME NEW losses \in SUBSET Positions, RowTypes, TodoTypes, RowsAreApart, Replace(losses)
  PROVE  /\ RowTypes' /\ RowsAreApart'
         /\ rows \ Pending \subseteq rows'
         /\ \A s \in rows' \ (rows \ Pending) :
              Fresh(s) /\ [from |-> s.from, to |-> s.to] \in Ranges(losses)
         /\ \A g \in Ranges(losses) :
              (\A r \in rows \ Pending : ~Overlap(g, r)) =>
                \E s \in rows' : s.from = g.from /\ s.to = g.to
<1> DEFINE kept == rows \ Pending
           new == {g \in Ranges(losses) : \A r \in kept : ~Overlap(g, r)}
           rank(g) == Cardinality({h \in new : h.from <= g.from})
<1>1. \A r \in rows \cup job.todo : r.id \in Nat
  BY DEF RowTypes, TodoTypes, RowFits, Rows
<1>2. others' \in Nat
  <2>1. Highest({0} \cup Ids(rows \cup job.todo)) \subseteq Nat
    BY <1>1 DEF Highest, Ids
  <2> QED
    BY <2>1 DEF Replace, RowTypes
<1>3. PICK top \in Highest({others'} \cup Ids(kept)) :
        rows' = kept \cup {[id |-> top + rank(g), from |-> g.from, to |-> g.to,
                             st |-> "pending", tries |-> 0] : g \in new}
  BY DEF Replace
<1>4. top \in Nat /\ \A r \in kept : r.id <= top
  BY <1>1, <1>2 DEF Highest, Ids
<1> DEFINE row(g) == [id |-> top + rank(g), from |-> g.from, to |-> g.to,
                      st |-> "pending", tries |-> 0]
<1>5. \A g, h \in new : rank(g) \in Nat \ {0} /\ (rank(g) = rank(h) => g = h)
  <2>1. new \in SUBSET Ranges(losses)
    OBVIOUS
  <2> HIDE DEF new
  <2> QED
    BY <2>1, Ranks
<1>6. \A g \in new : RowFits(row(g))
  <2> SUFFICES ASSUME NEW g \in new PROVE RowFits(row(g))
    OBVIOUS
  <2>1. rank(g) \in Nat \ {0}
    BY <1>5
  <2>2. g.from \in Positions /\ g.to \in Positions /\ g.from <= g.to
    BY RangeIsRecord
  <2>3. 0 \in 0..(MaxTries - 1)
    BY RangesAssumption
  <2> HIDE DEF rank, new
  <2> QED
    BY <1>4, <2>1, <2>2, <2>3 DEF RowFits, Rows
<1>7. RowTypes'
  <2>1. \A r \in kept : RowFits(r)
    BY DEF RowTypes
  <2> HIDE DEF rank, new, kept
  <2> QED
    BY <1>2, <1>3, <1>6, <2>1 DEF RowTypes, RowFits
<1>8. \A r, s \in kept : r # s => r.id # s.id /\ Span(r) \cap Span(s) = {}
  BY DEF RowsAreApart
<1>9. \A r \in kept, g \in new : r.id # row(g).id /\ Span(r) \cap Span(row(g)) = {}
  <2> SUFFICES ASSUME NEW r \in kept, NEW g \in new
               PROVE  r.id # row(g).id /\ Span(r) \cap Span(row(g)) = {}
    OBVIOUS
  <2>1. rank(g) \in Nat \ {0} /\ r.id \in Nat /\ r.id <= top
    BY <1>1, <1>4, <1>5
  <2>2. Span(row(g)) = Span(g) /\ ~Overlap(g, r)
    BY DEF Span
  <2> HIDE DEF rank, new, kept
  <2> QED
    BY <1>4, <2>1, <2>2 DEF Overlap
<1>10. \A g, h \in new :
         g # h => row(g).id # row(h).id /\ Span(row(g)) \cap Span(row(h)) = {}
  <2> SUFFICES ASSUME NEW g \in new, NEW h \in new, g # h
               PROVE  row(g).id # row(h).id /\ Span(row(g)) \cap Span(row(h)) = {}
    OBVIOUS
  <2>1. rank(g) \in Nat /\ rank(h) \in Nat /\ rank(g) # rank(h)
    BY <1>5
  <2>2. Span(row(g)) = Span(g) /\ Span(row(h)) = Span(h)
    BY DEF Span
  <2>3. Span(g) \cap Span(h) = {}
    BY RangesAreApart DEF Overlap
  <2> HIDE DEF rank, new, kept
  <2> QED
    BY <1>4, <2>1, <2>2, <2>3
<1>11. \A s \in rows' : s \in kept \/ \E g \in new : s = row(g)
  BY <1>3
<1>12. RowsAreApart'
  <2> SUFFICES ASSUME NEW r \in rows', NEW s \in rows', r # s
               PROVE  r.id # s.id /\ Span(r) \cap Span(s) = {}
    BY DEF RowsAreApart, Span
  <2> HIDE DEF row, new, kept
  <2> QED
    BY <1>8, <1>9, <1>10, <1>11
<1>13. \A s \in rows' \ kept : Fresh(s) /\ [from |-> s.from, to |-> s.to] \in Ranges(losses)
  <2> SUFFICES ASSUME NEW g \in new
               PROVE  Fresh(row(g)) /\ [from |-> row(g).from, to |-> row(g).to] \in Ranges(losses)
    BY <1>11
  <2>1. g = [from |-> g.from, to |-> g.to]
    BY RangeIsRecord
  <2> QED
    BY <2>1 DEF Fresh
<1>14. \A g \in new : \E s \in rows' : s.from = g.from /\ s.to = g.to
  <2> SUFFICES ASSUME NEW g \in new PROVE row(g) \in rows'
    OBVIOUS
  <2> QED
    BY <1>3
<1> QED
  BY <1>3, <1>7, <1>12, <1>13, <1>14

-----------------------------------------------------------------------------
(* What a step of the job or of the start-up sweep does to single rows: it *)
(* leaves them where they are.                                             *)

\* r in the old queue is s in the new one.
SameRow(r, s) == s.id = r.id /\ s.from = r.from /\ s.to = r.to

Follows(old, new) ==
  /\ \A s \in new : \E r \in old : SameRow(r, s)
  /\ \A r \in old : \E s \in new : SameRow(r, s)

LEMMA FollowedRowsAreApart ==
  ASSUME RowsAreApart, \A s \in rows' : \E r \in rows : SameRow(r, s),
         \A r \in rows, s, u \in rows' : SameRow(r, s) /\ SameRow(r, u) => s = u
  PROVE  RowsAreApart'
<1> SUFFICES ASSUME NEW s \in rows', NEW u \in rows', s # u
             PROVE  s.id # u.id /\ Span(s) \cap Span(u) = {}
  BY DEF RowsAreApart, Span
<1>1. PICK r \in rows : SameRow(r, s)
  OBVIOUS
<1>2. PICK q \in rows : SameRow(q, u)
  OBVIOUS
<1>3. r # q
  BY <1>1, <1>2
<1> QED
  BY <1>1, <1>2, <1>3 DEF RowsAreApart, SameRow, Span

\* What becomes of a row when the job writes st to the row it has read.
Written(r, read, st) ==
  IF r.id # read.id THEN r
  ELSE [r EXCEPT !.st = st, !.tries = IF st = "pending" THEN @ + 1 ELSE @]

LEMMA WrittenRow ==
  ASSUME NEW r, RowFits(r), NEW read, NEW st \in {"pending", "fetching", "done", "failed"},
         r.id = read.id /\ st = "pending" => r.tries + 1 < MaxTries
  PROVE  /\ RowFits(Written(r, read, st)) /\ SameRow(r, Written(r, read, st))
         /\ r.id # read.id => Written(r, read, st) = r
         /\ r.id = read.id => /\ Written(r, read, st).st = st
                              /\ st # "pending" => Written(r, read, st).tries = r.tries
<1>1. r.tries \in Nat /\ r.tries <= MaxTries - 1 /\ MaxTries \in Nat
  BY RangesAssumption DEF RowFits, Rows
<1>2. CASE r.id # read.id
  BY <1>2 DEF Written, SameRow
<1>3. CASE r.id = read.id /\ st = "pending"
  <2>1. Written(r, read, st) = [r EXCEPT !.st = "pending", !.tries = r.tries + 1]
    BY <1>3 DEF Written, RowFits, Rows
  <2>2. r.tries + 1 \in 0..(MaxTries - 1)
    BY <1>1, <1>3
  <2> QED
    BY <1>3, <2>1, <2>2 DEF RowFits, Rows, SameRow
<1>4. CASE r.id = read.id /\ st # "pending"
  <2>1. Written(r, read, st) = [r EXCEPT !.st = st, !.tries = r.tries]
    BY <1>4 DEF Written, RowFits, Rows
  <2> QED
    BY <1>4, <2>1 DEF RowFits, Rows, SameRow
<1> QED
  BY <1>2, <1>3, <1>4

\* A write of the job keeps the queue what it is.
LEMMA WriteKeepsQueue ==
  ASSUME RowTypes, RowsAreApart, others' = others,
         NEW read, NEW st \in {"pending", "fetching", "done", "failed"}, Set(read, st),
         \A r \in rows : r.id = read.id /\ st = "pending" => r.tries + 1 < MaxTries
  PROVE  /\ RowTypes' /\ RowsAreApart' /\ Follows(rows, rows')
         /\ \A s \in rows' : s.id # read.id => s \in rows
         /\ \A s \in rows' : s.id = read.id =>
              /\ s.st = st
              /\ \E r \in rows : SameRow(r, s) /\ (st # "pending" => s.tries = r.tries)
<1>1. rows' = {Written(r, read, st) : r \in rows}
  BY DEF Set, Written
<1>2. \A r \in rows : /\ RowFits(Written(r, read, st)) /\ SameRow(r, Written(r, read, st))
                      /\ r.id # read.id => Written(r, read, st) = r
                      /\ r.id = read.id =>
                           /\ Written(r, read, st).st = st
                           /\ st # "pending" => Written(r, read, st).tries = r.tries
  BY WrittenRow DEF RowTypes
<1>3. RowTypes'
  BY <1>1, <1>2 DEF RowTypes, RowFits, Rows
<1>4. Follows(rows, rows')
  BY <1>1, <1>2 DEF Follows
<1>5. \A r \in rows, s \in rows' : SameRow(r, s) => s = Written(r, read, st)
  <2> SUFFICES ASSUME NEW r \in rows, NEW s \in rows', SameRow(r, s)
               PROVE  s = Written(r, read, st)
    OBVIOUS
  <2>1. PICK q \in rows : s = Written(q, read, st)
    BY <1>1
  <2>2. q.id = r.id
    BY <1>2, <2>1 DEF SameRow
  <2> QED
    BY <2>1, <2>2 DEF RowsAreApart
<1>6. RowsAreApart'
  BY <1>4, <1>5, FollowedRowsAreApart DEF Follows
<1> QED
  BY <1>1, <1>2, <1>3, <1>4, <1>6 DEF SameRow

-----------------------------------------------------------------------------
(* The invariant: the types, the rows are apart, and what the job has read *)
(* stays a list of rows that are apart, each of which is by now gone,      *)
(* another row that is pending, or the row it was.                         *)

StreamTypes ==
  /\ edge \in 0..Last /\ take \in {"live", "over", "completed"}
  /\ logged \subseteq 1..edge /\ passed \subseteq logged /\ gaps \subseteq passed

BookTypes ==
  /\ adopted \in BOOLEAN /\ alerted \in BOOLEAN /\ asked \in BOOLEAN
  /\ patches \subseteq Positions /\ strayed \in BOOLEAN
  /\ boot \in {"retro", "sweep", "up"}
  /\ misses \in 0..MaxMisses /\ restarts \in 0..MaxRestarts

JobTypes ==
  /\ job \in [at : {"idle", "begin", "resolve", "cooldown", "next", "fetch"},
              final : BOOLEAN, todo : SUBSET Rows]
  /\ TodoTypes
  /\ job.at \in {"resolve", "fetch"} => job.todo # {}
  /\ job.at \in {"idle", "begin", "cooldown"} => job.todo = {}

TodoIsApart == \A r, s \in job.todo : r # s => r.id # s.id /\ Span(r) \cap Span(s) = {}

\* No row a job has read has been settled behind its back.
TodoIsOpen ==
  \A r \in job.todo, s \in rows : s.id = r.id =>
    /\ s.tries <= r.tries
    /\ s.st = "pending" \/ (s.st = "fetching" /\ job.at = "fetch" /\ r \in Current)

QueueInv ==
  StreamTypes /\ BookTypes /\ RowTypes /\ JobTypes /\ RowsAreApart /\ TodoIsApart /\ TodoIsOpen

LEMMA LossesArePositions ==
  ASSUME StreamTypes PROVE logged \subseteq Positions /\ passed \subseteq Positions /\ gaps \subseteq Positions
<1>1. edge \in Nat /\ edge <= Last /\ Last \in Nat
  BY RangesAssumption DEF StreamTypes
<1>2. 1..edge \subseteq Positions
  BY <1>1 DEF Positions
<1> QED
  BY <1>2 DEF StreamTypes

LEMMA InvIsTyped == QueueInv => RangesTypeOK
BY LossesArePositions
DEF QueueInv, StreamTypes, BookTypes, RowTypes, JobTypes, TodoTypes, RangesTypeOK

LEMMA StartsSound == RInit => QueueInv
<1> SUFFICES ASSUME RInit PROVE QueueInv
  OBVIOUS
<1> USE RangesAssumption DEF RInit
<1>1. StreamTypes
  BY DEF StreamTypes
<1>4. BookTypes
  <2>1. 0 \in 0..MaxMisses /\ 0 \in 0..MaxRestarts
    OBVIOUS
  <2>2. adopted = FALSE /\ alerted = FALSE /\ asked = FALSE /\ strayed = FALSE
    OBVIOUS
  <2> QED
    BY <2>1, <2>2 DEF BookTypes
<1>2. RowTypes /\ JobTypes
  BY DEF RowTypes, JobTypes, TodoTypes, NoJob
<1>3. RowsAreApart /\ TodoIsApart /\ TodoIsOpen
  BY DEF RowsAreApart, TodoIsApart, TodoIsOpen, NoJob
<1> QED
  BY <1>1, <1>2, <1>3, <1>4 DEF QueueInv

\* A trigger starts a job that has read nothing, or leaves the one there is.
LEMMA TriggeredJob ==
  ASSUME JobTypes, NEW pending, NEW final \in BOOLEAN, job' = Triggered(pending, final),
         TodoIsApart
  PROVE  /\ JobTypes' /\ TodoIsApart'
         /\ job'.todo = job.todo
         /\ job' = job \/ (job.at = "idle" /\ job'.at = "begin" /\ pending # {} /\ job'.final = final)
<1>1. CASE job' = job
  BY <1>1 DEF JobTypes, TodoTypes, TodoIsApart
<1>2. CASE job.at = "idle" /\ pending # {} /\ job' = [at |-> "begin", final |-> final, todo |-> {}]
  BY <1>2 DEF JobTypes, TodoTypes, TodoIsApart
<1> QED
  BY <1>1, <1>2 DEF Triggered

\* As long as the queue is left alone, or rows are only taken out or put in
\* fresh, what the job has read stays open.
LEMMA StaysOpen ==
  ASSUME RowTypes, JobTypes, TodoIsOpen, job'.todo = job.todo, job.at = "fetch" => job'.at = "fetch",
         \A s \in rows' : s \in rows \/ Fresh(s)
  PROVE  TodoIsOpen'
<1> SUFFICES ASSUME NEW r \in job.todo, NEW s \in rows', s.id = r.id
             PROVE  /\ s.tries <= r.tries
                    /\ s.st = "pending" \/ (s.st = "fetching" /\ job'.at = "fetch" /\ r \in Current')
  BY DEF TodoIsOpen
<1>1. r \in Current => r \in Current'
  BY DEF Current
<1>2. CASE s \in rows
  BY <1>1, <1>2 DEF TodoIsOpen
<1>3. CASE Fresh(s)
  BY <1>3 DEF Fresh, JobTypes, TodoTypes, RowFits, Rows
<1> QED
  BY <1>2, <1>3

-----------------------------------------------------------------------------
(* Steps that leave the rows alone.                                        *)

LEMMA RowsStay ==
  ASSUME RowTypes, RowsAreApart, UNCHANGED <<rows, others>>
  PROVE  RowTypes' /\ RowsAreApart'
BY DEF RowTypes, RowsAreApart

LEMMA StreamStepsKeepInv ==
  ASSUME QueueInv, Tick \/ Kick \/ ToolExits \/ Finalize
  PROVE  QueueInv'
<1> USE DEF QueueInv
<1>1. RowTypes' /\ RowsAreApart'
  BY RowsStay DEF Tick, Kick, ToolExits, Finalize
<1>2. BookTypes'
  BY DEF Tick, Kick, ToolExits, Finalize, BookTypes, scan, yield, Ask
<1>3. StreamTypes'
  <2>1. CASE Tick
    <3>1. edge \in Nat /\ edge + 1 \in 0..Last /\ edge' = edge + 1
      BY <2>1, RangesAssumption DEF Tick, StreamTypes
    <3>2. logged' \subseteq 1..edge'
      <4>1. logged \subseteq 1..edge
        BY DEF StreamTypes
      <4>2. 1..edge \subseteq 1..(edge + 1) /\ edge + 1 \in 1..(edge + 1)
        BY <3>1
      <4> QED
        BY <2>1, <3>1, <4>1, <4>2 DEF Tick
    <3> QED
      BY <2>1, <3>1, <3>2 DEF Tick, StreamTypes, scan
  <2>2. CASE Kick
    BY <2>2 DEF Kick, StreamTypes, stream, scan
  <2>3. CASE ToolExits \/ Finalize
    BY <2>3 DEF ToolExits, Finalize, StreamTypes, scan
  <2> QED
    BY <2>1, <2>2, <2>3
<1>4. JobTypes' /\ TodoIsApart' /\ job'.todo = job.todo /\ (job.at = "fetch" => job'.at = "fetch")
  <2>1. CASE UNCHANGED job
    BY <2>1 DEF JobTypes, TodoTypes, TodoIsApart
  <2>2. CASE \E final \in BOOLEAN : job' = Triggered(Pending, final)
    BY <2>2, TriggeredJob
  <2> QED
    BY <2>1, <2>2 DEF Tick, Kick, ToolExits, Finalize
<1>5. TodoIsOpen'
  BY <1>4, StaysOpen DEF Tick, Kick, ToolExits, Finalize
<1> QED
  BY <1>1, <1>2, <1>3, <1>4, <1>5

LEMMA SameStream ==
  ASSUME StreamTypes, UNCHANGED <<stream, passed, gaps>> PROVE StreamTypes'
BY DEF StreamTypes, stream

LEMMA QuietJobStepsKeepInv ==
  ASSUME QueueInv, JobReads \/ Resolves \/ Misses \/ Cools \/ JobEnds
  PROVE  QueueInv'
<1> USE DEF QueueInv
<1>1. RowTypes' /\ RowsAreApart'
  BY RowsStay DEF JobReads, Resolves, Misses, Cools, JobEnds
<1>2. BookTypes'
  <2>1. CASE Misses
    BY <2>1, RangesAssumption DEF Misses, BookTypes, scan, yield
  <2>2. CASE JobReads \/ Resolves \/ Cools \/ JobEnds
    BY <2>2 DEF JobReads, Resolves, Cools, JobEnds, BookTypes, scan, yield, Ask
  <2> QED
    BY <2>1, <2>2
<1>3. StreamTypes'
  BY SameStream DEF JobReads, Resolves, Misses, Cools, JobEnds, scan
<1>4. CASE JobReads /\ Wanted # {}
  <2>1. job' = [job EXCEPT !.at = "resolve", !.todo = Wanted]
    BY <1>4 DEF JobReads
  <2>2. job' = [at |-> "resolve", final |-> job.final, todo |-> Wanted]
    BY <2>1 DEF JobTypes
  <2>3. Wanted \subseteq rows /\ \A r \in Wanted : r.st = "pending" /\ RowFits(r)
    BY DEF Wanted, Pending, RowTypes
  <2>4. JobTypes'
    BY <1>4, <2>2, <2>3 DEF JobTypes, TodoTypes, RowFits
  <2>5. TodoIsApart'
    BY <2>2, <2>3 DEF TodoIsApart, RowsAreApart
  <2>6. TodoIsOpen'
    <3> SUFFICES ASSUME NEW r \in Wanted, NEW s \in rows, s.id = r.id
                 PROVE  s.tries <= r.tries /\ s.st = "pending"
      BY <1>4, <2>2 DEF TodoIsOpen, JobReads
    <3>1. s = r
      BY <2>3 DEF RowsAreApart
    <3> QED
      BY <2>3, <3>1 DEF RowFits, Rows
  <2> QED
    BY <1>1, <1>2, <1>3, <2>4, <2>5, <2>6
<1>5. CASE Resolves
  <2>1. job' = [at |-> "next", final |-> job.final, todo |-> job.todo]
    BY <1>5 DEF Resolves, JobTypes
  <2>2. JobTypes' /\ TodoIsApart'
    BY <2>1 DEF JobTypes, TodoTypes, TodoIsApart
  <2>3. TodoIsOpen'
    BY <1>5, <2>1, StaysOpen DEF Resolves
  <2> QED
    BY <1>1, <1>2, <1>3, <2>2, <2>3
<1>6. CASE (JobReads /\ Wanted = {}) \/ Misses \/ Cools \/ JobEnds
  <2>1. \/ job' = [at |-> "idle", final |-> FALSE, todo |-> {}]
        \/ job' = [at |-> "cooldown", final |-> job.final, todo |-> {}]
    BY <1>6 DEF JobReads, Misses, Cools, JobEnds, NoJob, JobTypes
  <2>2. job.final \in BOOLEAN /\ job'.todo = {}
    BY <2>1 DEF JobTypes
  <2>3. JobTypes'
    <3>1. PICK at \in {"idle", "cooldown"}, final \in BOOLEAN :
            job' = [at |-> at, final |-> final, todo |-> {}]
      BY <2>1, <2>2
    <3>2. {} \in SUBSET Rows
      OBVIOUS
    <3>3. job' \in [at : {"idle", "begin", "resolve", "cooldown", "next", "fetch"},
                   final : BOOLEAN, todo : SUBSET Rows]
      BY <3>1, <3>2
    <3>4. job'.at \in {"idle", "cooldown"}
      BY <3>1
    <3> QED
      BY <2>2, <3>3, <3>4 DEF JobTypes, TodoTypes
  <2>4. TodoIsApart' /\ TodoIsOpen'
    BY <2>2 DEF TodoIsApart, TodoIsOpen
  <2> QED
    BY <1>1, <1>2, <1>3, <2>3, <2>4
<1> QED
  BY <1>4, <1>5, <1>6

-----------------------------------------------------------------------------
(* Steps that write to the rows.                                           *)

\* The row that comes next is the only one that does.
LEMMA OneIsNext ==
  ASSUME JobTypes, TodoIsApart, NEW r \in Current, NEW s \in Current PROVE r = s
<1>1. r \in job.todo /\ s \in job.todo /\ RowFits(r) /\ RowFits(s) /\ r.from <= s.from /\ s.from <= r.from
  BY DEF Current, JobTypes, TodoTypes
<1>2. r.from = s.from /\ r.from \in Span(r) /\ s.from \in Span(s)
  BY <1>1, RangesAssumption DEF RowFits, Rows, Span, Positions
<1> QED
  BY <1>1, <1>2 DEF TodoIsApart

\* The attempts of a row the job writes to are those it has read, or fewer.
LEMMA AttemptsAreLeft ==
  ASSUME QueueInv, NEW r \in job.todo, NEW st, st = "pending" => ~GivenUp(r)
  PROVE  \A s \in rows : s.id = r.id /\ st = "pending" => s.tries + 1 < MaxTries
<1> SUFFICES ASSUME NEW s \in rows, s.id = r.id, st = "pending" PROVE s.tries + 1 < MaxTries
  OBVIOUS
<1>1. s.tries <= r.tries /\ s.tries \in Int /\ r.tries \in Int /\ MaxTries \in Int
  BY RangesAssumption
  DEF QueueInv, TodoIsOpen, RowTypes, JobTypes, TodoTypes, RowFits, Rows
<1> QED
  BY <1>1 DEF GivenUp

LEMMA MarkKeepsInv ==
  ASSUME QueueInv, Marks PROVE QueueInv'
<1> USE DEF QueueInv
<1>1. PICK r \in Current : Set(r, "fetching")
  BY DEF Marks
<1>2. r \in job.todo
  BY DEF Current
<1>3. /\ RowTypes' /\ RowsAreApart'
      /\ \A s \in rows' : s.id # r.id => s \in rows
      /\ \A s \in rows' : s.id = r.id =>
           s.st = "fetching" /\ \E q \in rows : SameRow(q, s) /\ s.tries = q.tries
  BY <1>1, WriteKeepsQueue DEF Marks
<1>4. job' = [at |-> "fetch", final |-> job.final, todo |-> job.todo]
  BY DEF Marks, JobTypes
<1>5. JobTypes' /\ TodoIsApart'
  BY <1>2, <1>4 DEF JobTypes, TodoTypes, TodoIsApart
<1>6. BookTypes' /\ StreamTypes'
  BY <1>1, SameStream DEF Marks, BookTypes, scan, Set
<1>7. TodoIsOpen'
  <2> SUFFICES ASSUME NEW q \in job.todo, NEW s \in rows', s.id = q.id
               PROVE  /\ s.tries <= q.tries
                      /\ s.st = "pending" \/ (s.st = "fetching" /\ q \in Current)
    BY <1>4 DEF TodoIsOpen, Current
  <2>1. CASE s.id = r.id
    <3>1. q = r
      BY <1>2, <2>1 DEF TodoIsApart
    <3>2. PICK u \in rows : SameRow(u, s) /\ s.tries = u.tries
      BY <1>3, <2>1
    <3> QED
      BY <1>3, <2>1, <3>1, <3>2 DEF SameRow, TodoIsOpen
  <2>2. CASE s.id # r.id
    <3>1. s \in rows
      BY <1>3, <2>2
    <3> QED
      BY <3>1 DEF TodoIsOpen, Marks
  <2> QED
    BY <2>1, <2>2
<1> QED
  BY <1>3, <1>5, <1>6, <1>7

LEMMA FetchKeepsInv ==
  ASSUME QueueInv, Fetches \/ FetchFails PROVE QueueInv'
<1> USE DEF QueueInv
<1>1. PICK r \in Current, st \in {"done", "failed", "pending"} :
        Set(r, st) /\ Onwards(r) /\ (st = "pending" => ~GivenUp(r))
  BY DEF Fetches, FetchFails
<1>2. r \in job.todo
  BY DEF Current
<1>3. RowTypes' /\ RowsAreApart' /\ \A s \in rows' : s.id # r.id => s \in rows
  <2>1. others' = others /\ \A s \in rows : s.id = r.id /\ st = "pending" => s.tries + 1 < MaxTries
    BY <1>1, <1>2, AttemptsAreLeft DEF Fetches, FetchFails
  <2> QED
    BY <1>1, <2>1, WriteKeepsQueue
<1>4. job' = [at |-> "next", final |-> job.final, todo |-> job.todo \ {r}]
  BY <1>1 DEF Onwards, JobTypes
<1>5. JobTypes' /\ TodoIsApart'
  BY <1>4 DEF JobTypes, TodoTypes, TodoIsApart
<1>6. StreamTypes'
  BY SameStream DEF Fetches, FetchFails, scan
<1>7. BookTypes'
  <2>1. strayed' \in BOOLEAN
    BY <1>1 DEF Set
  <2>2. patches' \subseteq Positions
    <3>1. \A q \in Current : Span(q) \subseteq Positions
      BY RangesAssumption DEF Current, JobTypes, TodoTypes, RowFits, Rows, Span, Positions
    <3> QED
      BY <3>1 DEF Fetches, FetchFails, BookTypes
  <2> QED
    BY <2>1, <2>2 DEF Fetches, FetchFails, BookTypes, scan
<1>8. TodoIsOpen'
  <2> SUFFICES ASSUME NEW q \in job.todo \ {r}, NEW s \in rows', s.id = q.id
               PROVE  s.tries <= q.tries /\ s.st = "pending"
    BY <1>4 DEF TodoIsOpen
  <2>1. s \in rows
    BY <1>2, <1>3 DEF TodoIsApart
  <2>2. q \notin Current
    BY OneIsNext
  <2> QED
    BY <2>1, <2>2 DEF TodoIsOpen
<1> QED
  BY <1>3, <1>5, <1>6, <1>7, <1>8

LEMMA ScanKeepsInv ==
  ASSUME QueueInv, Scan PROVE QueueInv'
<1> USE DEF QueueInv
<1>1. StreamTypes'
  BY DEF Scan, StreamTypes, stream
<1>2. gaps' \in SUBSET Positions
  BY <1>1, LossesArePositions DEF StreamTypes, Scan, stream
<1>3. RowTypes' /\ RowsAreApart' /\ \A s \in rows' : s \in rows \/ Fresh(s)
  <2>1. TodoTypes /\ Replace(gaps')
    BY DEF JobTypes, Scan
  <2> QED
    BY <1>2, <2>1, Replaced
<1>4. BookTypes' /\ JobTypes' /\ TodoIsApart'
  BY DEF Scan, BookTypes, JobTypes, TodoTypes, TodoIsApart, yield
<1>5. TodoIsOpen'
  BY <1>3, StaysOpen DEF Scan
<1> QED
  BY <1>1, <1>3, <1>4, <1>5

LEMMA RestartKeepsInv ==
  ASSUME QueueInv, Restart PROVE QueueInv'
<1> USE DEF QueueInv
<1>1. RowTypes' /\ RowsAreApart'
  BY RowsStay DEF Restart
<1>2. StreamTypes'
  BY DEF Restart, StreamTypes, stream
<1>3. BookTypes'
  <2>1. restarts' \in 0..MaxRestarts
    BY RangesAssumption DEF Restart, BookTypes
  <2> QED
    BY <2>1 DEF Restart, BookTypes, yield
<1>4. job' = [at |-> "idle", final |-> FALSE, todo |-> {}]
  BY DEF Restart, NoJob
<1>5. JobTypes'
  BY <1>4 DEF JobTypes, TodoTypes
<1>6. TodoIsApart' /\ TodoIsOpen'
  BY <1>4 DEF TodoIsApart, TodoIsOpen
<1> QED
  BY <1>1, <1>2, <1>3, <1>5, <1>6

LEMMA RetroKeepsInv ==
  ASSUME QueueInv, Retro PROVE QueueInv'
<1> USE DEF QueueInv
<1>1. StreamTypes'
  BY SameStream DEF Retro
<1>2. BookTypes'
  BY DEF Retro, BookTypes, yield
<1>3. CASE UNCHANGED <<rows, others, job>>
  <2>1. RowTypes' /\ RowsAreApart'
    BY <1>3, RowsStay
  <2>2. JobTypes' /\ TodoIsApart'
    BY <1>3 DEF JobTypes, TodoTypes, TodoIsApart
  <2>3. TodoIsOpen'
    BY <1>3, StaysOpen
  <2> QED
    BY <1>1, <1>2, <2>1, <2>2, <2>3
<1>4. CASE Replace(logged) /\ job' = Triggered(Pending', TRUE)
  <2>1. RowTypes' /\ RowsAreApart' /\ \A s \in rows' : s \in rows \/ Fresh(s)
    <3>1. TodoTypes /\ logged \in SUBSET Positions
      BY LossesArePositions DEF JobTypes
    <3> QED
      BY <1>4, <3>1, Replaced
  <2>2. /\ JobTypes' /\ TodoIsApart' /\ job'.todo = job.todo
        /\ job.at = "fetch" => job'.at = "fetch"
    <3> DEFINE pending == Pending'
    <3>1. job' = Triggered(pending, TRUE)
      BY <1>4
    <3> HIDE DEF pending
    <3> QED
      BY <3>1, TriggeredJob
  <2>3. TodoIsOpen'
    BY <2>1, <2>2, StaysOpen
  <2> QED
    BY <1>1, <1>2, <2>1, <2>2, <2>3
<1> QED
  BY <1>3, <1>4 DEF Retro

\* The start-up sweep takes a row back.
Requeued(r) == IF r.st = "fetching" THEN [r EXCEPT !.st = "pending"] ELSE r

LEMMA RequeuedRow ==
  ASSUME NEW r, RowFits(r)
  PROVE  /\ RowFits(Requeued(r)) /\ SameRow(r, Requeued(r)) /\ Requeued(r).tries = r.tries
         /\ r.st = "fetching" => Requeued(r).st = "pending"
         /\ r.st # "fetching" => Requeued(r) = r
BY DEF Requeued, RowFits, Rows, SameRow

LEMMA SweepKeepsQueue ==
  ASSUME RowTypes, RowsAreApart, others' = others, rows' = {Requeued(r) : r \in rows}
  PROVE  RowTypes' /\ RowsAreApart' /\ Follows(rows, rows')
<1>1. \A r \in rows : RowFits(Requeued(r)) /\ SameRow(r, Requeued(r))
  BY RequeuedRow DEF RowTypes
<1>2. RowTypes'
  BY <1>1 DEF RowTypes, RowFits, Rows
<1>3. Follows(rows, rows')
  BY <1>1 DEF Follows
<1>4. \A r \in rows, s \in rows' : SameRow(r, s) => s = Requeued(r)
  BY <1>1 DEF SameRow, RowsAreApart
<1>5. RowsAreApart'
  BY <1>3, <1>4, FollowedRowsAreApart DEF Follows
<1> QED
  BY <1>2, <1>3, <1>5

LEMMA SweepKeepsInv ==
  ASSUME QueueInv, Sweep PROVE QueueInv'
<1> USE DEF QueueInv
<1>1. StreamTypes' /\ BookTypes'
  BY SameStream DEF Sweep, BookTypes, scan, yield, Ask
<1>2. rows' = {Requeued(r) : r \in rows}
  BY DEF Sweep, Requeued
<1>3. RowTypes' /\ RowsAreApart'
  BY <1>2, SweepKeepsQueue DEF Sweep
<1>4. /\ JobTypes' /\ TodoIsApart' /\ job'.todo = job.todo
      /\ job.at = "fetch" => job'.at = "fetch"
  <2> DEFINE pending == Pending'
  <2>1. job' = Triggered(pending, TRUE)
    BY DEF Sweep
  <2> HIDE DEF pending
  <2> QED
    BY <2>1, TriggeredJob
<1>5. TodoIsOpen'
  <2> SUFFICES ASSUME NEW r \in job.todo, NEW q \in rows, Requeued(q).id = r.id
               PROVE  Requeued(q).tries <= r.tries /\ Requeued(q).st = "pending"
    BY <1>2, <1>4 DEF TodoIsOpen
  <2>1. SameRow(q, Requeued(q)) /\ Requeued(q).tries = q.tries
    BY RequeuedRow DEF RowTypes
  <2>2. q.tries <= r.tries /\ q.st \in {"pending", "fetching"}
    BY <2>1 DEF TodoIsOpen, SameRow
  <2> QED
    BY <2>1, <2>2, RequeuedRow DEF RowTypes
<1> QED
  BY <1>1, <1>3, <1>4, <1>5

LEMMA EveryStepKeepsInv == QueueInv /\ [RNext]_rvars => QueueInv'
<1> SUFFICES ASSUME QueueInv, [RNext]_rvars PROVE QueueInv'
  OBVIOUS
<1>1. CASE Tick \/ Kick \/ ToolExits \/ Finalize
  BY <1>1, StreamStepsKeepInv
<1>2. CASE JobReads \/ Resolves \/ Misses \/ Cools \/ JobEnds
  BY <1>2, QuietJobStepsKeepInv
<1>3. CASE Marks
  BY <1>3, MarkKeepsInv
<1>4. CASE Fetches \/ FetchFails
  BY <1>4, FetchKeepsInv
<1>5. CASE Scan
  BY <1>5, ScanKeepsInv
<1>6. CASE Restart
  BY <1>6, RestartKeepsInv
<1>7. CASE Retro
  BY <1>7, RetroKeepsInv
<1>8. CASE Sweep
  BY <1>8, SweepKeepsInv
<1>9. CASE UNCHANGED rvars
  <2> USE <1>9 DEF rvars, stream, scan, yield
  <2>1. StreamTypes' /\ BookTypes' /\ RowTypes' /\ RowsAreApart'
    BY RowsStay DEF QueueInv, StreamTypes, BookTypes
  <2>2. JobTypes' /\ TodoIsApart'
    BY DEF QueueInv, JobTypes, TodoTypes, TodoIsApart
  <2>3. TodoIsOpen'
    BY StaysOpen DEF QueueInv
  <2> QED
    BY <2>1, <2>2, <2>3 DEF QueueInv
<1> QED
  BY <1>1, <1>2, <1>3, <1>4, <1>5, <1>6, <1>7, <1>8, <1>9 DEF RNext, JobStep

LEMMA InvHolds == GapSpec => []QueueInv
<1>1. RInit => QueueInv
  BY StartsSound
<1>2. QueueInv /\ [RNext]_rvars => QueueInv'
  BY EveryStepKeepsInv
<1> QED
  BY <1>1, <1>2, PTL DEF GapSpec

\* Every variable has its type, and no row is tried more often than it may be,
\* although the job counts on the attempts it has read (gap_recover_job).
THEOREM RangesTypesHold == GapSpec => []RangesTypeOK
<1>1. QueueInv => RangesTypeOK
  BY InvIsTyped
<1> QED
  BY <1>1, InvHolds, PTL

\* replace_pending_gap_ranges never puts in a range that overlaps another, nor
\* an id that is taken, however often the scanner, the job and the sweeps have
\* been at the table before.
THEOREM NoRangeTwice == GapSpec => []RowsAreApart
<1>1. QueueInv => RowsAreApart
  BY DEF QueueInv
<1> QED
  BY <1>1, InvHolds, PTL

-----------------------------------------------------------------------------
(* Ranges that are settled stay so.                                        *)

NewlyOpen == {r.id : r \in Unsettled'} \ {r.id : r \in Unsettled}

LEMMA WriteOpensNothing ==
  ASSUME QueueInv, Marks \/ Fetches \/ FetchFails PROVE NewlyOpen = {}
<1> USE DEF QueueInv
<1>1. PICK r \in Current, st \in {"fetching", "done", "failed", "pending"} :
        Set(r, st) /\ (st = "pending" => ~GivenUp(r))
  BY DEF Marks, Fetches, FetchFails
<1>2. r \in job.todo
  BY DEF Current
<1>3. /\ Follows(rows, rows')
      /\ \A s \in rows' : s.id # r.id => s \in rows
  <2>1. others' = others /\ \A s \in rows : s.id = r.id /\ st = "pending" => s.tries + 1 < MaxTries
    BY <1>1, <1>2, AttemptsAreLeft DEF Marks, Fetches, FetchFails
  <2> QED
    BY <1>1, <2>1, WriteKeepsQueue
<1>4. SUFFICES ASSUME NEW s \in rows', s.st \in {"pending", "fetching"}
               PROVE  \E q \in Unsettled : q.id = s.id
  BY DEF NewlyOpen, Unsettled
<1>5. CASE s.id = r.id
  <2>1. PICK q \in rows : SameRow(q, s)
    BY <1>3 DEF Follows
  <2>2. q.st \in {"pending", "fetching"}
    BY <1>2, <1>5, <2>1 DEF TodoIsOpen, SameRow
  <2> QED
    BY <2>1, <2>2 DEF Unsettled, SameRow
<1>6. CASE s.id # r.id
  BY <1>3, <1>4, <1>6 DEF Unsettled
<1> QED
  BY <1>5, <1>6

LEMMA SettledStaysSettled ==
  ASSUME QueueInv, [RNext]_rvars, take = "completed", boot = "up", boot' = "up"
  PROVE  NewlyOpen = {}
<1>1. CASE Marks \/ Fetches \/ FetchFails
  BY <1>1, WriteOpensNothing
<1>2. CASE UNCHANGED rows
  BY <1>2 DEF NewlyOpen, Unsettled
<1>3. ~Scan /\ ~Retro /\ ~Sweep
  BY DEF Scan, Retro, Sweep
<1>4. RNext => UNCHANGED rows \/ Marks \/ Fetches \/ FetchFails
  BY <1>3 DEF RNext, JobStep, Tick, Kick, ToolExits, Finalize, JobReads, Resolves, Misses, Cools,
              JobEnds, Restart
<1> QED
  BY <1>1, <1>2, <1>4 DEF rvars

\* Of a take that is completed no range is opened again: not by a job whose
\* rows have been replaced since it read them, nor by a trigger.
THEOREM SettledIsSettled == GapSpec => SettledForGood
<1>1. QueueInv /\ [RNext]_rvars =>
        [take = "completed" /\ boot = "up" /\ boot' = "up" =>
           {r.id : r \in Unsettled'} \subseteq {r.id : r \in Unsettled}]_rvars
  BY SettledStaysSettled DEF NewlyOpen
<1> QED
  BY <1>1, InvHolds, PTL DEF GapSpec, SettledForGood

-----------------------------------------------------------------------------
(* The splice is asked for: it is owed only while a job is at work that    *)
(* will ask for it at its end.                                             *)

SpliceIsOwed ==
  take = "completed" /\ boot = "up" /\ Settled /\ ~asked => job.at \in {"next", "fetch"}

LEMMA SpliceStaysOwed ==
  ASSUME QueueInv, SpliceIsOwed, [RNext]_rvars PROVE SpliceIsOwed'
<1>1. CASE Tick \/ Scan \/ Kick \/ ToolExits
  BY <1>1 DEF Tick, Scan, Kick, ToolExits, stream, SpliceIsOwed
<1>2. CASE Finalize \/ JobEnds \/ Sweep
  BY <1>2 DEF Finalize, JobEnds, Sweep, Ask, SpliceIsOwed
<1>3. CASE JobReads \/ Resolves \/ Misses \/ Cools
  BY <1>3 DEF JobReads, Resolves, Misses, Cools, stream, SpliceIsOwed, Settled, Unsettled
<1>4. CASE Marks \/ Fetches \/ FetchFails
  <2>1. job'.at \in {"next", "fetch"}
    BY <1>4 DEF Marks, Fetches, FetchFails, Onwards, QueueInv, JobTypes
  <2> QED
    BY <2>1 DEF SpliceIsOwed
<1>5. CASE Restart \/ Retro
  BY <1>5 DEF Restart, Retro, SpliceIsOwed
<1>6. CASE UNCHANGED rvars
  BY <1>6 DEF rvars, stream, SpliceIsOwed, Settled, Unsettled
<1> QED
  BY <1>1, <1>2, <1>3, <1>4, <1>5, <1>6 DEF RNext, JobStep

\* Whether the last range settles before or after the take is completed, one of
\* the two callers of maybe_spawn_gap_splice finds that there is work for it.
THEOREM SpliceIsNotForgotten == GapSpec => []SpliceIsAsked
<1>1. RInit => SpliceIsOwed
  BY DEF RInit, SpliceIsOwed
<1>2. QueueInv /\ SpliceIsOwed /\ [RNext]_rvars => SpliceIsOwed'
  BY SpliceStaysOwed
<1>3. QueueInv /\ SpliceIsOwed => SpliceIsAsked
  BY DEF SpliceIsOwed, SpliceIsAsked, QueueInv, BookTypes
<1> QED
  BY <1>1, <1>2, <1>3, InvHolds, PTL DEF GapSpec

-----------------------------------------------------------------------------
(* Losses are queued.  A range that a job has begun with is closed: it ends *)
(* behind the live edge, with no loss next to it, so a range of losses that *)
(* meets it later is that same range.                                      *)

Closed(r) ==
  /\ Span(r) \subseteq gaps
  /\ r.from - 1 \notin logged /\ r.to + 1 \notin logged /\ r.to + 1 <= edge

Bounds(r) == [from |-> r.from, to |-> r.to]

\* A job that misses the playlist, or finds nothing to do, has no rows.
LEMMA JobWithoutRows ==
  ASSUME JobTypes, Misses \/ Cools \/ JobEnds \/ (JobReads /\ Wanted = {})
  PROVE  job'.todo = {} /\ job'.at # "begin" /\ (job'.final = job.final \/ job'.final = FALSE)
<1>1. CASE job' = NoJob
  BY <1>1 DEF NoJob
<1>2. CASE job' = [job EXCEPT !.at = "cooldown", !.todo = {}]
  <2>1. job' = [at |-> "cooldown", final |-> job.final, todo |-> {}]
    BY <1>2 DEF JobTypes
  <2> QED
    BY <2>1
<1> QED
  BY <1>1, <1>2 DEF Misses, Cools, JobEnds, JobReads

\* Only a session that sees the take from its start has a scanner that knows it.
Session ==
  ~adopted =>
    /\ boot # "up" => take # "live" /\ gaps = {}
    /\ take = "live" => /\ passed = gaps /\ ~job.final
                        /\ job.at = "begin" => logged = passed

Watched == ~adopted /\ ~strayed /\ take = "live"

RowsAreRanges ==
  Watched => \A r \in rows : Bounds(r) \in Ranges(gaps) /\ (r.st # "pending" => Closed(r))

TodoIsClosed == Watched => \A r \in job.todo : Closed(r)

LossInv == Session /\ RowsAreRanges /\ TodoIsClosed /\ LossesAreQueued

LEMMA LossesStart == RInit => LossInv
BY DEF RInit, LossInv, Session, RowsAreRanges, TodoIsClosed, LossesAreQueued, NoJob

LEMMA SessionGoesOn ==
  ASSUME QueueInv, Session, [RNext]_rvars PROVE Session'
<1>1. CASE Tick
  BY <1>1 DEF Tick, Session, scan
<1>2. CASE Scan
  BY <1>2 DEF Scan, Session, stream, QueueInv, StreamTypes
<1>3. CASE Kick
  BY <1>3 DEF Kick, Session, stream, scan, Triggered
<1>4. CASE ToolExits \/ Finalize
  BY <1>4 DEF ToolExits, Finalize, Session, scan
<1>5. CASE JobStep
  <2>1. /\ job.final \in BOOLEAN
        /\ (job'.final = job.final \/ job'.final = FALSE) /\ job'.at # "begin"
    <3>1. CASE Misses \/ Cools \/ JobEnds \/ (JobReads /\ Wanted = {})
      BY <3>1, JobWithoutRows DEF QueueInv, JobTypes
    <3>3. CASE JobReads /\ Wanted # {}
      <4>1. job' = [at |-> "resolve", final |-> job.final, todo |-> Wanted]
        BY <3>3 DEF JobReads, QueueInv, JobTypes
      <4> QED
        BY <4>1 DEF QueueInv, JobTypes
    <3>2. CASE Resolves \/ Marks \/ Fetches \/ FetchFails
      BY <3>2 DEF Resolves, Marks, Fetches, FetchFails, Onwards, QueueInv, JobTypes
    <3> QED
      BY <1>5, <3>1, <3>2, <3>3 DEF JobStep
  <2>2. UNCHANGED <<adopted, boot, take, gaps, passed>>
    BY <1>5 DEF JobStep, JobReads, Resolves, Misses, Cools, Marks, Fetches, FetchFails, JobEnds,
                stream, scan
  <2> QED
    BY <2>1, <2>2 DEF Session
<1>7. CASE Restart
  BY <1>7 DEF Restart, Session, stream
<1>8. CASE Retro \/ Sweep
  BY <1>8 DEF Retro, Sweep, Session, stream, scan
<1>9. CASE UNCHANGED rvars
  BY <1>9 DEF rvars, Session, stream, scan
<1> QED
  BY <1>1, <1>2, <1>3, <1>4, <1>5, <1>7, <1>8, <1>9 DEF RNext

LEMMA SpanBounds ==
  ASSUME NEW r, RowFits(r), NEW s, RowFits(s), Span(r) = Span(s) PROVE r.from = s.from /\ r.to = s.to
<1>1. /\ r.from \in Int /\ r.to \in Int /\ r.from <= r.to
      /\ s.from \in Int /\ s.to \in Int /\ s.from <= s.to
  BY RangesAssumption DEF RowFits, Rows, Positions
<1>2. r.from \in Span(r) /\ r.to \in Span(r) /\ s.from \in Span(s) /\ s.to \in Span(s)
  BY <1>1 DEF Span
<1>3. r.from \in Span(s) /\ r.to \in Span(s) /\ s.from \in Span(r) /\ s.to \in Span(r)
  BY <1>2
<1> QED
  BY <1>1, <1>3 DEF Span

\* A closed row is a range of whatever has been read since.
LEMMA ClosedIsRange ==
  ASSUME NEW r, RowFits(r), Closed(r), NEW losses, gaps \subseteq losses, losses \subseteq logged
  PROVE  Bounds(r) \in Ranges(losses)
<1>1. r.from \in Int /\ r.to \in Int /\ r.from <= r.to
  BY RangesAssumption DEF RowFits, Rows, Positions
<1>2. Span(r) \subseteq losses /\ Span(Bounds(r)) = Span(r)
  BY DEF Closed, Bounds, Span
<1>3. r.from \in losses /\ r.to \in losses
  BY <1>1, <1>2 DEF Span
<1> QED
  BY <1>1, <1>2, <1>3 DEF Closed, Bounds, Ranges

\* Steps at which nothing is written to the rows.
LEMMA QuietStepKeepsRanges ==
  ASSUME QueueInv, LossInv, UNCHANGED <<rows, gaps, adopted, strayed>>,
         Tick \/ Kick \/ ToolExits \/ Finalize \/ Resolves \/ Misses \/ Cools \/ JobEnds \/ JobReads
  PROVE  RowsAreRanges' /\ TodoIsClosed' /\ LossesAreQueued'
<1> USE DEF LossInv
<1>1. LossesAreQueued'
  BY DEF LossesAreQueued, Span
<1>2. SUFFICES ASSUME Watched' PROVE RowsAreRanges' /\ TodoIsClosed'
  BY <1>1 DEF RowsAreRanges, TodoIsClosed
<1>3. Watched /\ take' = take
  BY <1>2 DEF Watched, Tick, Kick, ToolExits, Finalize, Resolves, Misses, Cools, JobEnds, JobReads,
              stream
<1>4. \A r : RowFits(r) /\ Closed(r) => Closed(r)'
  <2>1. CASE Tick
    <3> SUFFICES ASSUME NEW r, RowFits(r), Closed(r) PROVE Closed(r)'
      OBVIOUS
    <3>1. r.from \in Int /\ r.to \in Int /\ r.from <= r.to /\ edge \in Int
      BY RangesAssumption DEF RowFits, Rows, Positions, QueueInv, StreamTypes
    <3>2. edge' = edge + 1 /\ logged' \subseteq logged \cup {edge + 1}
      BY <2>1 DEF Tick
    <3>3. r.to + 1 <= edge /\ r.from - 1 # edge + 1 /\ r.to + 1 # edge + 1 /\ r.to + 1 <= edge + 1
      BY <3>1 DEF Closed
    <3> QED
      BY <3>2, <3>3 DEF Closed, Span
  <2>2. CASE UNCHANGED <<logged, edge>>
    BY <2>2 DEF Closed, Span
  <2> QED
    BY <2>1, <2>2 DEF Kick, ToolExits, Finalize, Resolves, Misses, Cools, JobEnds, JobReads, stream
<1>5. RowsAreRanges'
  <2>1. \A r \in rows : Bounds(r)' \in Ranges(gaps') /\ (r.st # "pending" => Closed(r)')
    BY <1>3, <1>4 DEF RowsAreRanges, Bounds, QueueInv, RowTypes
  <2> QED
    BY <2>1 DEF RowsAreRanges, Bounds
<1>6. TodoIsClosed'
  <2>1. CASE job'.todo \subseteq job.todo
    BY <1>3, <1>4, <2>1 DEF TodoIsClosed, QueueInv, JobTypes, TodoTypes
  <2>2. CASE JobReads /\ Wanted # {}
    <3>1. job'.todo = Wanted
      BY <2>2 DEF JobReads, QueueInv, JobTypes
    <3>2. ~job.final /\ logged = gaps
      BY <1>3, <2>2 DEF Watched, Session, JobReads
    <3> SUFFICES ASSUME NEW r \in Wanted PROVE Closed(r)
      BY <1>4, <3>1 DEF TodoIsClosed, Wanted, Pending, QueueInv, RowTypes
    <3>3. r \in rows /\ RowFits(r) /\ Covered(r.to)
      BY <3>2 DEF Wanted, Pending, QueueInv, RowTypes
    <3>4. r.to \in Int /\ edge \in Int /\ Lag \in Int /\ r.to + Lag <= edge
      BY <1>3, <3>3, RangesAssumption
      DEF RowFits, Rows, Positions, QueueInv, StreamTypes, Covered, Watched
    <3>5. Bounds(r) \in Ranges(gaps) /\ gaps \in SUBSET Positions
      BY <1>3, <3>3, LossesArePositions DEF RowsAreRanges, QueueInv
    <3>6. Span(Bounds(r)) \subseteq gaps /\ r.from - 1 \notin gaps /\ r.to + 1 \notin gaps
      BY <3>5, RangeIsRecord DEF Bounds
    <3> QED
      BY <3>2, <3>4, <3>6, RangesAssumption DEF Closed, Bounds, Span
  <2>3. CASE Tick \/ ToolExits \/ JobEnds
    BY <2>1, <2>3 DEF Tick, ToolExits, JobEnds, NoJob
  <2>4. CASE Kick \/ Finalize
    BY <2>1, <2>4 DEF Kick, Finalize, Triggered
  <2>5. CASE Misses \/ Cools \/ (JobReads /\ Wanted = {})
    BY <2>1, <2>5, JobWithoutRows DEF QueueInv
  <2>6. CASE Resolves
    BY <2>1, <2>6 DEF Resolves, QueueInv, JobTypes
  <2> QED
    BY <2>2, <2>3, <2>4, <2>5, <2>6
<1> QED
  BY <1>5, <1>6

\* A write of the job, unless it strays, is to the row that was read.
LEMMA WriteKeepsRanges ==
  ASSUME QueueInv, LossInv, Marks \/ Fetches \/ FetchFails
  PROVE  RowsAreRanges' /\ TodoIsClosed' /\ LossesAreQueued'
<1> USE DEF LossInv
<1>1. PICK r \in Current, st \in {"fetching", "done", "failed", "pending"} :
        Set(r, st) /\ (st = "pending" => ~GivenUp(r))
  BY DEF Marks, Fetches, FetchFails
<1>2. r \in job.todo /\ job'.todo \subseteq job.todo /\ UNCHANGED <<stream, scan, others>>
  BY DEF Current, Marks, Fetches, FetchFails, Onwards, QueueInv, JobTypes
<1>3. /\ Follows(rows, rows')
      /\ \A s \in rows' : s.id # r.id => s \in rows
  <2>1. \A s \in rows : s.id = r.id /\ st = "pending" => s.tries + 1 < MaxTries
    BY <1>1, <1>2, AttemptsAreLeft
  <2> QED
    BY <1>1, <1>2, <2>1, WriteKeepsQueue DEF QueueInv
<1>4. LossesAreQueued'
  <2> SUFFICES ASSUME ~adopted, ~strayed', NEW p \in gaps PROVE \E s \in rows' : p \in Span(s)
    BY <1>2 DEF LossesAreQueued, scan, Span
  <2>1. PICK q \in rows : p \in Span(q)
    BY <1>1 DEF LossesAreQueued, Set
  <2>2. PICK s \in rows' : SameRow(q, s)
    BY <1>3 DEF Follows
  <2> QED
    BY <2>1, <2>2 DEF SameRow, Span
<1>5. SUFFICES ASSUME Watched' PROVE RowsAreRanges' /\ TodoIsClosed'
  BY <1>4 DEF RowsAreRanges, TodoIsClosed
<1>6. Watched /\ \A s \in rows : s.id = r.id => Span(s) = Span(r)
  BY <1>1, <1>2, <1>5 DEF Watched, Set, stream, scan
<1>7. \A s : Closed(s)' <=> Closed(s)
  BY <1>2 DEF Closed, Span, stream, scan
<1>8. TodoIsClosed'
  BY <1>2, <1>6, <1>7 DEF TodoIsClosed
<1>9. ASSUME NEW s \in rows' PROVE Bounds(s) \in Ranges(gaps) /\ (s.st # "pending" => Closed(s))
  <2>1. PICK q \in rows : SameRow(q, s)
    BY <1>3 DEF Follows
  <2>2. Bounds(q) \in Ranges(gaps) /\ Bounds(q) = Bounds(s)
    BY <1>6, <2>1 DEF RowsAreRanges, SameRow, Bounds
  <2>3. CASE s.id # r.id
    BY <1>3, <1>6, <2>2, <2>3 DEF RowsAreRanges
  <2>4. CASE s.id = r.id
    <3>1. Span(q) = Span(r) /\ RowFits(q) /\ RowFits(r)
      BY <1>2, <1>6, <2>1, <2>4 DEF SameRow, QueueInv, RowTypes, JobTypes, TodoTypes
    <3>2. q.from = r.from /\ q.to = r.to
      BY <3>1, SpanBounds
    <3>3. Closed(r)
      BY <1>2, <1>6 DEF TodoIsClosed
    <3> QED
      BY <2>1, <2>2, <3>2, <3>3 DEF Closed, SameRow, Span
  <2> QED
    BY <2>3, <2>4
<1>10. RowsAreRanges'
  <2>1. \A s : Bounds(s)' = Bounds(s)
    BY DEF Bounds
  <2>2. gaps' = gaps
    BY <1>2 DEF scan
  <2> QED
    BY <1>7, <1>9, <2>1, <2>2 DEF RowsAreRanges, Ranges, Span
<1> QED
  BY <1>8, <1>10

\* The scanner: a range of losses that meets a row that is kept is that row.
LEMMA ScanKeepsRanges ==
  ASSUME QueueInv, LossInv, Scan
  PROVE  RowsAreRanges' /\ TodoIsClosed' /\ LossesAreQueued'
<1> USE DEF LossInv
<1> DEFINE kept == rows \ Pending
<1>1. SUFFICES ASSUME ~adopted, ~strayed PROVE RowsAreRanges' /\ TodoIsClosed' /\ LossesAreQueued'
  BY DEF Scan, RowsAreRanges, TodoIsClosed, LossesAreQueued, Watched, yield
<1>2. Watched
  BY <1>1 DEF Scan, Watched
<1>3. gaps' \in SUBSET Positions /\ gaps \subseteq gaps' /\ gaps' \subseteq logged
  BY LossesArePositions DEF QueueInv, StreamTypes, Scan
<1>4. /\ kept \subseteq rows'
      /\ \A s \in rows' \ kept : Fresh(s) /\ Bounds(s) \in Ranges(gaps')
      /\ \A g \in Ranges(gaps') :
           (\A r \in kept : ~Overlap(g, r)) => \E s \in rows' : s.from = g.from /\ s.to = g.to
  <2>1. RowTypes /\ TodoTypes /\ RowsAreApart /\ Replace(gaps')
    BY DEF QueueInv, JobTypes, Scan
  <2> QED
    BY <1>3, <2>1, Replaced DEF Bounds
<1>5. \A r \in kept : RowFits(r) /\ Closed(r) /\ Bounds(r) \in Ranges(gaps')
  <2> SUFFICES ASSUME NEW r \in kept PROVE RowFits(r) /\ Closed(r) /\ Bounds(r) \in Ranges(gaps')
    OBVIOUS
  <2>1. RowFits(r) /\ Closed(r)
    BY <1>2 DEF RowsAreRanges, Pending, QueueInv, RowTypes
  <2> QED
    BY <1>3, <2>1, ClosedIsRange
<1>6. \A s : Closed(s) => Closed(s)'
  BY <1>3 DEF Closed, Span, Scan, stream
<1>7. RowsAreRanges'
  <2>1. \A s \in rows' : Bounds(s) \in Ranges(gaps') /\ (s.st # "pending" => Closed(s)')
    BY <1>4, <1>5, <1>6 DEF Fresh
  <2>2. \A s : Bounds(s)' = Bounds(s)
    BY DEF Bounds
  <2> QED
    BY <2>1, <2>2 DEF RowsAreRanges
<1>8. TodoIsClosed'
  BY <1>2, <1>6 DEF TodoIsClosed, Scan
<1>9. LossesAreQueued'
  <2> SUFFICES ASSUME NEW p \in gaps' PROVE \E s \in rows' : p \in Span(s)
    BY DEF LossesAreQueued, Span
  <2>1. PICK g \in Ranges(gaps') : p \in Span(g)
    BY <1>3, LossIsInRange
  <2>2. CASE \A r \in kept : ~Overlap(g, r)
    BY <1>4, <2>1, <2>2 DEF Span
  <2>3. CASE \E r \in kept : Overlap(g, r)
    <3>1. PICK r \in kept : Overlap(g, r)
      BY <2>3
    <3>2. Overlap(g, Bounds(r)) /\ Span(Bounds(r)) = Span(r)
      BY <3>1 DEF Overlap, Bounds, Span
    <3>3. g = Bounds(r)
      BY <1>3, <1>5, <3>2, RangesAreApart
    <3> QED
      BY <1>4, <2>1, <3>2, <3>3
  <2> QED
    BY <2>2, <2>3
<1> QED
  BY <1>7, <1>8, <1>9

LEMMA LossInvGoesOn ==
  ASSUME QueueInv, LossInv, [RNext]_rvars PROVE LossInv'
<1> USE DEF LossInv
<1>1. Session'
  BY SessionGoesOn
<1>2. CASE Tick \/ Kick \/ ToolExits \/ Finalize \/ Resolves \/ Misses \/ Cools \/ JobEnds \/ JobReads
  <2>1. UNCHANGED <<rows, gaps, adopted, strayed>>
    BY <1>2 DEF Tick, Kick, ToolExits, Finalize, Resolves, Misses, Cools, JobEnds, JobReads, scan, yield
  <2> QED
    BY <1>1, <1>2, <2>1, QuietStepKeepsRanges
<1>3. CASE Marks \/ Fetches \/ FetchFails
  BY <1>1, <1>3, WriteKeepsRanges
<1>4. CASE Scan
  BY <1>1, <1>4, ScanKeepsRanges
<1>5. CASE Restart \/ Retro \/ Sweep
  <2>1. adopted' \/ (take' # "live" /\ gaps' = {})
    BY <1>5 DEF Restart, Retro, Sweep, Session, stream, scan, QueueInv, BookTypes
  <2> QED
    BY <1>1, <2>1 DEF RowsAreRanges, TodoIsClosed, LossesAreQueued, Watched
<1>6. CASE UNCHANGED rvars
  BY <1>1, <1>6 DEF rvars, stream, scan, yield, RowsAreRanges, TodoIsClosed, LossesAreQueued,
                    Watched, Closed, Bounds, Ranges, Span
<1> QED
  BY <1>2, <1>3, <1>4, <1>5, <1>6 DEF RNext, JobStep

\* In a session that sees the take through, whatever loss the scanner has read
\* is in some range, as long as the job has written to the ranges it had read:
\* what replace_pending_gap_ranges drops because it overlaps a row that is kept
\* is that row.
THEOREM NoLossIsDropped == GapSpec => []LossesAreQueued
<1>1. RInit => LossInv
  BY LossesStart
<1>2. QueueInv /\ LossInv /\ [RNext]_rvars => LossInv'
  BY LossInvGoesOn
<1>3. LossInv => LossesAreQueued
  BY DEF LossInv
<1> QED
  BY <1>1, <1>2, <1>3, InvHolds, PTL DEF GapSpec
=============================================================================
