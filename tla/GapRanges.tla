------------------------------ MODULE GapRanges ------------------------------
(***************************************************************************)
(* The lost ranges of a Twitch take (src/src/downloader/alerts.rs,         *)
(* gap_recover.rs, src/src/store/alerts.rs): the capture tool logs the     *)
(* segments it lost, the scanner of the stall watchdog derives ranges from *)
(* them and queues these in gap_range, and a job, at most one at a time,   *)
(* fetches them from the VOD.  The job works from rows it read long before *)
(* it writes to them by id, while the scanner deletes and inserts anew.    *)
(*                                                                         *)
(* Time is counted in positions of the live edge; at each one segments may *)
(* be lost.  Losses at neighbouring positions are close enough to be one   *)
(* range.  Padding is left out: positions are what is left of a range.     *)
(***************************************************************************)
EXTENDS Integers, FiniteSets

CONSTANTS
  Last,         \* bound on the length of the stream
  Lag,          \* how far the VOD trails the live edge, GAP_VOD_LAG_SECS
  MaxTries,     \* GAP_MAX_ATTEMPTS
  MaxMisses,    \* bound on how often the playlist is not to be found
  MaxRestarts   \* bound on restarts of the program

\* A range that the VOD covers is too far behind the live edge for a new loss
\* to be close to it: 240 s, against twice the padding and GAP_COALESCE_SECS.
ASSUME RangesAssumption ==
  /\ Last \in Nat /\ Lag \in Nat /\ Lag > 1
  /\ MaxTries \in Nat \ {0} /\ MaxMisses \in Nat /\ MaxRestarts \in Nat

VARIABLES
  edge,      \* the live edge
  take,      \* "live"; "over": the tool has ended; "completed"
  logged,    \* the losses in the tool's log
  passed,    \* those the scanner has read past
  gaps,      \* LogScan.all_gaps
  adopted,   \* the take was live when the program was started again
  alerted,   \* an alert is filed under this log
  rows,      \* gap_range, the rows of this take
  others,    \* the highest id among the rows of other takes, if it matters
  job,       \* gap_recover_job: [at, final, todo]; todo: the rows as it read them
  patches,   \* what is in the patch files
  strayed,   \* a history variable: the job has written to a row it has not read
  asked,     \* a splice has been asked for since the ranges settled
  boot,      \* the start-up sweeps: "retro", "sweep", "up"
  misses, restarts

stream == <<edge, take, logged>>
scan == <<passed, gaps, adopted, alerted>>
yield == <<patches, strayed>>
rvars == <<stream, scan, rows, others, job, yield, asked, boot, misses, restarts>>

Positions == 1..Last
Span(r) == r.from..r.to
Pending == {r \in rows : r.st = "pending"}
Unsettled == {r \in rows : r.st \in {"pending", "fetching"}}
Settled == Unsettled = {} /\ \E r \in rows : r.st = "done"
NoJob == [at |-> "idle", final |-> FALSE, todo |-> {}]

RInit ==
  /\ edge = 0 /\ take = "live" /\ logged = {}
  /\ passed = {} /\ gaps = {} /\ adopted = FALSE /\ alerted = FALSE
  /\ rows = {} /\ others = 0
  /\ job = NoJob
  /\ patches = {} /\ strayed = FALSE /\ asked = FALSE
  /\ boot = "up" /\ misses = 0 /\ restarts = 0

-----------------------------------------------------------------------------
(* The queue.                                                              *)

\* gap_ranges_secs: losses that are close to each other make one range.
Ranges(losses) ==
  {g \in [from : losses, to : losses] :
     /\ g.from <= g.to /\ Span(g) \subseteq losses
     /\ g.from - 1 \notin losses /\ g.to + 1 \notin losses}

\* (Mutant: only the very same range is taken to be there.)
SameRange(g, r) == g.from = r.from /\ g.to = r.to
Overlap(g, r) == Span(g) \cap Span(r) # {}

Ids(rs) == {r.id : r \in rs}
Highest(ids) == {i \in ids : \A j \in ids : j <= i}

\* replace_pending_gap_ranges.  The ids go on from the highest in the table: of
\* a row that is kept, or of another take, if its rows have come last.
Replace(losses) ==
  LET kept == rows \ Pending
      new == {g \in Ranges(losses) : \A r \in kept : ~Overlap(g, r)}
      rank(g) == Cardinality({h \in new : h.from <= g.from})
  IN  /\ others' \in {others} \cup Highest({0} \cup Ids(rows \cup job.todo))
      /\ \E top \in Highest({others'} \cup Ids(kept)) :
           rows' = kept \cup
             {[id |-> top + rank(g), from |-> g.from, to |-> g.to, st |-> "pending", tries |-> 0] :
                g \in new}

\* set_gap_range_state, by the id of the row as it was read, whatever row that
\* is by now.
Set(read, st) ==
  /\ rows' = {IF r.id # read.id THEN r
              ELSE [r EXCEPT !.st = st, !.tries = IF st = "pending" THEN @ + 1 ELSE @] : r \in rows}
  /\ strayed' = (strayed \/ \E r \in rows : r.id = read.id /\ Span(r) # Span(read))

\* maybe_spawn_gap_recover: nothing pending, or a job in flight, and it is off.
Triggered(pending, final) ==
  IF pending # {} /\ job.at = "idle"
  THEN [at |-> "begin", final |-> final, todo |-> {}] ELSE job

\* maybe_spawn_gap_splice.
Ask == asked' = (asked \/ (take' = "completed" /\ Settled'))

-----------------------------------------------------------------------------
(* The stream, the scanner and the end of the take.                        *)

\* The stream goes on, with segments lost or without.  That takes minutes: a
\* job that was spawned has read the queue by then.
Tick ==
  /\ take = "live"
  /\ job.at # "begin"
  /\ edge < Last
  /\ edge' = edge + 1
  /\ logged' \in {logged, logged \cup {edge + 1}}
  /\ UNCHANGED <<take, scan, rows, others, job, yield, asked, boot, misses, restarts>>

\* scan_log_cycle with new losses: the ranges are derived again.
Scan ==
  /\ take = "live"
  /\ logged # passed
  /\ passed' = logged
  /\ gaps' = gaps \cup (logged \ passed)
  /\ alerted' = TRUE
  /\ Replace(gaps')
  /\ UNCHANGED <<stream, adopted, job, yield, asked, boot, misses, restarts>>

\* The VOD has it: it is far enough behind, or the stream is over.
\* (Mutant: the lag is left out of the account.)
AtTheEdge(p) == p <= edge
Covered(p) == p + Lag <= edge \/ take # "live"

\* A quiet cycle: maybe_kick_gap_recovery.
Kick ==
  /\ take = "live"
  /\ logged = passed
  /\ gaps # {}
  /\ \E r \in Pending : Covered(r.to)
  /\ job' = Triggered(Pending, FALSE)
  /\ UNCHANGED <<stream, scan, rows, others, yield, asked, boot, misses, restarts>>

\* The watchdog, and the scanner with it, is aborted.
ToolExits ==
  /\ take = "live"
  /\ take' = "over"
  /\ UNCHANGED <<edge, logged, scan, rows, others, job, yield, asked, boot, misses, restarts>>

\* finalize_recording, finalize_reattached.  (Mutant: a splice is left to the
\* end of the job.)
FinalizeAsksNothing ==
  /\ take = "over"
  /\ take' = "completed"
  /\ job' = Triggered(Pending, TRUE)
  /\ UNCHANGED <<edge, logged, scan, rows, others, yield, asked, boot, misses, restarts>>
Finalize ==
  /\ take = "over"
  /\ take' = "completed"
  /\ job' = Triggered(Pending, TRUE)
  /\ UNCHANGED <<edge, logged, scan, rows, others, yield, boot, misses, restarts>>
  /\ Ask

-----------------------------------------------------------------------------
(* The job.                                                                *)

\* What it reads: pending, tried less than so often, and if the take is live
\* covered by now.  (Mutant: rows of every state.)
WantedOfAll == {r \in rows : r.tries < MaxTries /\ (job.final \/ Covered(r.to))}
Wanted == {r \in Pending : r.tries < MaxTries /\ (job.final \/ Covered(r.to))}

JobReads ==
  /\ job.at = "begin"
  /\ job' = IF Wanted = {} THEN NoJob
            ELSE [job EXCEPT !.at = "resolve", !.todo = Wanted]
  /\ UNCHANGED <<stream, scan, rows, others, yield, asked, boot, misses, restarts>>

Resolves ==
  /\ job.at = "resolve"
  /\ job' = [job EXCEPT !.at = "next"]
  /\ UNCHANGED <<stream, scan, rows, others, yield, asked, boot, misses, restarts>>

\* No playlist: while the take is live the slot is held for a while.
\* (Mutant: for good.)
Misses ==
  /\ job.at = "resolve"
  /\ misses < MaxMisses
  /\ misses' = misses + 1
  /\ job' = IF job.final THEN NoJob ELSE [job EXCEPT !.at = "cooldown", !.todo = {}]
  /\ UNCHANGED <<stream, scan, rows, others, yield, asked, boot, restarts>>

NeverCools == FALSE /\ UNCHANGED rvars
Cools ==
  /\ job.at = "cooldown"
  /\ job' = NoJob
  /\ UNCHANGED <<stream, scan, rows, others, yield, asked, boot, misses, restarts>>

\* The rows are gone through from the earliest on.
Current == {r \in job.todo : \A s \in job.todo : r.from <= s.from}
Onwards(r) == job' = [job EXCEPT !.at = "next", !.todo = @ \ {r}]

Marks ==
  /\ job.at = "next"
  /\ \E r \in Current : Set(r, "fetching")
  /\ job' = [job EXCEPT !.at = "fetch"]
  /\ UNCHANGED <<stream, scan, others, patches, asked, boot, misses, restarts>>

\* The window of the playlist is what there is of it.
Fetches ==
  /\ job.at = "fetch"
  /\ \E r \in Current :
       /\ \E p \in Span(r) : Covered(p)
       /\ patches' = patches \cup {p \in Span(r) : Covered(p)}
       /\ Set(r, "done")
       /\ Onwards(r)
  /\ UNCHANGED <<stream, scan, others, asked, boot, misses, restarts>>

\* (Mutant: given up one attempt too late.)
GivenUpLate(r) == r.tries >= MaxTries
GivenUp(r) == r.tries + 1 >= MaxTries
FetchFails ==
  /\ job.at = "fetch"
  /\ \E r \in Current :
       /\ Set(r, IF GivenUp(r) THEN "failed" ELSE "pending")
       /\ Onwards(r)
  /\ UNCHANGED <<stream, scan, others, patches, asked, boot, misses, restarts>>

JobEnds ==
  /\ job.at = "next" /\ job.todo = {}
  /\ job' = NoJob
  /\ UNCHANGED <<stream, scan, rows, others, yield, boot, misses, restarts>>
  /\ Ask

-----------------------------------------------------------------------------
(* Restarts of the program, which the capture tool outlives.               *)

\* The scanner of an adopted take reads a modest log from the start, a huge one
\* from its end; either way it has forgotten the ranges.
Restart ==
  /\ restarts < MaxRestarts
  /\ restarts' = restarts + 1
  /\ job' = NoJob
  /\ boot' = "retro"
  /\ asked' = FALSE
  /\ adopted' = (adopted \/ take = "live")
  /\ gaps' = {}
  /\ passed' \in {{}, logged}
  /\ UNCHANGED <<stream, alerted, rows, others, yield, misses>>

\* retro_scan_capture_logs: the log of a finished take, unless an alert tells
\* that it has been scanned.
Retro ==
  /\ boot = "retro"
  /\ boot' = "sweep"
  /\ IF take = "completed" /\ ~alerted /\ logged # {}
     THEN alerted' = TRUE /\ Replace(logged) /\ job' = Triggered(Pending', TRUE)
     ELSE UNCHANGED <<alerted, rows, others, job>>
  /\ UNCHANGED <<stream, passed, gaps, adopted, yield, asked, misses, restarts>>

\* sweep_pending_gap_recoveries, sweep_pending_gap_splices.
Sweep ==
  /\ boot = "sweep"
  /\ boot' = "up"
  /\ rows' = {IF r.st = "fetching" THEN [r EXCEPT !.st = "pending"] ELSE r : r \in rows}
  /\ job' = Triggered(Pending', TRUE)
  /\ UNCHANGED <<others, stream, scan, yield, misses, restarts>>
  /\ Ask

JobStep ==
  JobReads \/ Resolves \/ Misses \/ Cools \/ Marks \/ Fetches \/ FetchFails \/ JobEnds

RNext ==
  \/ Tick \/ Scan \/ Kick \/ ToolExits \/ Finalize
  \/ JobStep
  \/ Restart \/ Retro \/ Sweep

\* Every step of the job comes to an end: requests and cool-downs have a time
\* limit, the ffmpeg mux is taken to end.
RFairness == WF_rvars(JobStep)
GapSpec == RInit /\ [][RNext]_rvars
GapLiveSpec == GapSpec /\ RFairness

-----------------------------------------------------------------------------
(* What holds.                                                             *)
Rows ==
  [id : Nat \ {0}, from : Positions, to : Positions,
   st : {"pending", "fetching", "done", "failed"}, tries : 0..(MaxTries - 1)]
RowFits(r) == r \in Rows /\ r.from <= r.to

RangesTypeOK ==
  /\ edge \in 0..Last /\ take \in {"live", "over", "completed"}
  /\ logged \subseteq Positions /\ passed \subseteq logged /\ gaps \subseteq passed
  /\ adopted \in BOOLEAN /\ alerted \in BOOLEAN /\ asked \in BOOLEAN
  /\ \A r \in rows : RowFits(r)
  /\ job.at \in {"idle", "begin", "resolve", "cooldown", "next", "fetch"}
  /\ job.final \in BOOLEAN
  /\ \A r \in job.todo : RowFits(r)
  /\ job.at \in {"resolve", "fetch"} => job.todo # {}
  /\ patches \subseteq Positions /\ strayed \in BOOLEAN
  /\ boot \in {"retro", "sweep", "up"}
  /\ others \in Nat /\ misses \in 0..MaxMisses /\ restarts \in 0..MaxRestarts

\* Whatever the scanner, the job and the sweeps do to the queue, no part of the
\* stream is in two of its ranges, and no id stands for two.
RowsAreApart == \A r, s \in rows : r # s => r.id # s.id /\ Span(r) \cap Span(s) = {}

\* In a session that sees the take through, every loss the scanner has read is
\* in a range: none is dropped because it is too close to one that is kept.  A
\* job that writes to a range it has not read may start one at the live edge,
\* which is kept from then on as it was.
LossesAreQueued ==
  ~adopted /\ ~strayed => \A p \in gaps : \E r \in rows : p \in Span(r)

\* When nothing is left to fetch of a completed take, its splice has been asked
\* for: by the job or, if that was done before, by the end of the take.
SpliceIsAsked == take = "completed" /\ boot = "up" /\ Settled /\ job.at = "idle" => asked

\* Once the take is completed and the program up, ranges are settled for good.
SettledForGood ==
  [][take = "completed" /\ boot = "up" /\ boot' = "up" =>
       {r.id : r \in Unsettled'} \subseteq {r.id : r \in Unsettled}]_rvars

\* A job ends, and with it what keeps the next one out.
JobIsOver == job.at # "idle" ~> job.at = "idle"
=============================================================================
