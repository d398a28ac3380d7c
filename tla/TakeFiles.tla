------------------------------ MODULE TakeFiles ------------------------------
(***************************************************************************)
(* The files of one finished take (src/src/downloader/gap_splice.rs,       *)
(* backfill.rs, chapters.rs, ffmpeg_job.rs): three jobs that rewrite them, *)
(* each kept single by an in-flight set of its own and by nothing else.    *)
(*                                                                         *)
(*   splice    live capture + recovered patches -> .gapless.mkv            *)
(*   join      backfilled head + main file      -> .full.mkv               *)
(*   chapters  main file                        -> itself, with markers    *)
(*                                                                         *)
(* Each runs an ffmpeg pass that outlives the program, into a temporary    *)
(* file next to its source, renames the result, re-points the row and then *)
(* disposes of what the row no longer needs.  A job may stop the program's *)
(* way at every step; the sweeps of the next start pick it up.             *)
(*                                                                         *)
(* A file is the set of what can be seen in it, {} when it is not there.   *)
(***************************************************************************)
EXTENDS Naturals

CONSTANTS
  MaxAttempts,   \* MAX_CHAPTERS_ATTEMPTS
  MaxRestarts,   \* bound on restarts of the program
  None

Jobs == {"splice", "join", "chapters"}
Files == {"live", "gapless", "head", "patch", "full", "gapless.full"}
Media == {"live", "head", "patch"}

ASSUME FilesAssumption ==
  MaxAttempts \in Nat \ {0} /\ MaxRestarts \in Nat /\ None \notin Files

VARIABLES
  disk,       \* what is in each file; "twice" marks media that is there doubly
  completed,  \* recording.status = 'completed'
  out, full,  \* recording.output_path and full_path
  backfill,   \* recording.backfill_path is set
  mismatch,   \* head_backfill_state = 'mismatch'
  splState,   \* gap_splice_state: "", "done", or "blocked" (anchor_failed,
              \* mismatch, verify_failed)
  chState,    \* chapters_state
  attempts,   \* chapters_attempts
  headJob,    \* head_backfill_job; "settling" is head_backfill_state = 'queued'
  gaps,       \* the take's gap ranges: none worth a splice, some pending, all settled
  at, src,    \* per job: where it is, and the main file it has read from the row
  ff,         \* per job: its ffmpeg process runs
  reg,        \* per job: its row in ffmpeg_job
  tmp,        \* per job: its temporary file [of, has, st]; one that no row of
              \* ffmpeg_job leads to is overwritten by the next pass
  restarts

row == <<completed, out, full, backfill, mismatch, splState, chState, attempts>>
passes == <<ff, reg, tmp>>
around == <<headJob, gaps, restarts>>
fvars == <<disk, row, headJob, gaps, at, src, passes, restarts>>

Phases == {"idle", "begin", "adopt", "start", "run", "made", "named", "pointed",
           "headOnly", "headAndMain", "checkMain", "repoint", "patches",
           "patchesAndMain", "dropMain"}
NoTmp == [of |-> None, has |-> {}, st |-> "none"]
Seen == SUBSET (Media \cup {"chapters", "twice"})
TmpFiles == [of : Files \cup {None}, has : Seen, st : {"none", "partial", "short", "whole"}]

FInit ==
  /\ disk = [f \in Files |-> {}]
  /\ completed = FALSE
  /\ out = "live" /\ full = None
  /\ backfill = FALSE /\ mismatch = FALSE
  /\ splState = "" /\ chState = "" /\ attempts = 0
  /\ headJob \in {"settling", "over"}
  /\ gaps \in {"none", "pending"}
  /\ at = [k \in Jobs |-> "idle"]
  /\ src = [k \in Jobs |-> None]
  /\ ff = [k \in Jobs |-> FALSE]
  /\ reg = [k \in Jobs |-> FALSE]
  /\ tmp = [k \in Jobs |-> NoTmp]
  /\ restarts = 0

-----------------------------------------------------------------------------
(* Triggers and the in-flight sets.                                        *)

\* maybe_spawn_*: a job that is in flight swallows the trigger.
Triggered(now, ks) == [k \in Jobs |-> IF k \in ks /\ now[k] = "idle" THEN "begin" ELSE now[k]]
Trigger(ks) == at' = Triggered(at, ks)

Goes(k, from, to) == at[k] = from /\ at' = [at EXCEPT ![k] = to]

\* The end of a job; a splice, whatever came of it, is followed by chapters.
Over(k) ==
  /\ at' = Triggered([at EXCEPT ![k] = "idle"], IF k = "splice" THEN {"chapters"} ELSE {})
  /\ src' = [src EXCEPT ![k] = None]

\* The take ends: its capture is promoted and its row completed.
Finalize ==
  /\ ~completed
  /\ completed' = TRUE
  /\ disk' = [disk EXCEPT !["live"] = {"live"}]
  /\ Trigger({"splice", "join"})
  /\ UNCHANGED <<out, full, backfill, mismatch, splState, chState, attempts, src, passes, around>>

\* head_backfill_job: waits, fetches or finds nothing to fetch; a head that
\* lands is joined at once if the take is over.
HeadStarts ==
  /\ headJob = "settling"
  /\ headJob' \in {"fetching", "over"}
  /\ UNCHANGED <<disk, row, gaps, at, src, passes, restarts>>

HeadLands ==
  /\ headJob = "fetching"
  /\ headJob' = "over"
  /\ disk' = [disk EXCEPT !["head"] = {"head"}]
  /\ backfill' = TRUE
  /\ Trigger({"join"})
  /\ UNCHANGED <<completed, out, full, mismatch, splState, chState, attempts, gaps, src, passes,
                 restarts>>

HeadFails ==
  /\ headJob = "fetching"
  /\ headJob' = "over"
  /\ UNCHANGED <<disk, row, gaps, at, src, passes, restarts>>

\* gap_recover_job: the last range is settled, with patches or without.
GapsSettle ==
  /\ gaps = "pending"
  /\ \/ gaps' = "settled" /\ disk' = [disk EXCEPT !["patch"] = {"patch"}]
     \/ gaps' = "none" /\ UNCHANGED disk
  /\ Trigger({"splice"})
  /\ UNCHANGED <<row, headJob, src, passes, restarts>>

\* recordings_needing_gap_splice_check, recordings_needing_chapters_check: what
\* the hourly sweeps go over.  (Mutants: there is no sweep for splices; the one
\* for chapters goes over the takes that have failed once, or over those that
\* have failed for good as well.)
SpliceWanted == completed /\ gaps = "settled" /\ splState = ""
FailedChaptersWanted ==
  completed /\ headJob # "settling" /\ gaps # "pending" /\ chState \in {"", "queued", "failed"}
ChaptersWanted ==
  completed /\ headJob # "settling" /\ gaps # "pending" /\ chState \in {"", "queued"}
NoSpliceSweep(k) == k = "chapters" /\ ChaptersWanted
FailedChaptersSweep(k) ==
  \/ k = "splice" /\ SpliceWanted
  \/ k = "chapters" /\ ChaptersWanted /\ chState = "queued"
SweepWants(k) ==
  \/ k = "splice" /\ SpliceWanted
  \/ k = "chapters" /\ ChaptersWanted

Sweep(k) ==
  /\ SweepWants(k)
  /\ at[k] = "idle"
  /\ Trigger({k})
  /\ UNCHANGED <<disk, row, src, passes, around>>

-----------------------------------------------------------------------------
(* The three jobs up to their ffmpeg pass.                                 *)

\* gap_splice_precondition_met and the settled ranges; backfill_concat_info
\* and the guards after it; chapters_precondition_met and the settled ranges.
Ready(k) ==
  CASE k = "splice" -> completed /\ headJob # "settling" /\ splState = "" /\ gaps = "settled"
    [] k = "join" -> completed /\ full = None /\ backfill /\ ~mismatch /\ disk["head"] # {}
    [] k = "chapters" -> ChaptersWanted

\* Nothing to do; or a drive that is off line, a row that cannot be read.
TurnsBack(k) ==
  /\ at[k] = "begin"
  /\ Over(k)
  /\ UNCHANGED <<disk, row, passes, around>>

\* On to ffmpeg: by way of the pass of an earlier run, if one is registered.
Proceeds(k) ==
  /\ Goes(k, "begin", IF reg[k] THEN "adopt" ELSE "start")
  /\ Ready(k)
  /\ disk[out] # {}
  /\ src' = [src EXCEPT ![k] = out]
  /\ UNCHANGED <<disk, row, passes, around>>

\* The recorded start of the capture describes the capture and no file made
\* from it.  (Mutant: it is not read again.)
AnyAnchor == TRUE
AnchorHolds == out = "live"
SpliceProceeds == AnchorHolds /\ disk["patch"] # {} /\ Proceeds("splice")

\* No anchor, no VOD to check it against, other codec parameters: for good.
SpliceRefused ==
  /\ at["splice"] = "begin"
  /\ Ready("splice")
  /\ disk[out] # {}
  /\ splState' = "blocked"
  /\ Over("splice")
  /\ UNCHANGED <<disk, completed, out, full, backfill, mismatch, chState, attempts, passes, around>>

JoinRefused ==
  /\ at["join"] = "begin"
  /\ Ready("join")
  /\ disk[out] # {}
  /\ mismatch' = TRUE
  /\ Over("join")
  /\ UNCHANGED <<disk, completed, out, full, backfill, splState, chState, attempts, passes, around>>

\* Chapters are turned off, or the take has nothing to mark.
ChaptersSkipped ==
  /\ at["chapters"] = "begin"
  /\ Ready("chapters")
  /\ chState' = "skipped"
  /\ Over("chapters")
  /\ UNCHANGED <<disk, completed, out, full, backfill, mismatch, splState, attempts, passes, around>>

\* adopt_or_clear_prior_ffmpeg_job: a pass of an earlier run of the program is
\* waited for, and its file taken if it is the whole of this one.
\* (Mutant: the wait is left out.)
AdoptAtOnce(k) ==
  /\ reg' = [reg EXCEPT ![k] = FALSE]
  /\ Goes(k, "adopt", IF tmp[k].of = src[k] THEN "made" ELSE "start")
  /\ UNCHANGED <<disk, row, src, ff, tmp, around>>
Adopt(k) ==
  /\ ~ff[k]
  /\ reg' = [reg EXCEPT ![k] = FALSE]
  /\ \/ tmp[k].of = src[k] /\ tmp[k].st = "whole" /\ Goes(k, "adopt", "made") /\ UNCHANGED tmp
     \/ /\ ~(tmp[k].of = src[k] /\ tmp[k].st = "whole")
        /\ Goes(k, "adopt", "start")
        /\ tmp' = [tmp EXCEPT ![k] = NoTmp]
  /\ UNCHANGED <<disk, row, src, ff, around>>

\* What the pass makes of its sources; {} if one is missing.
Joined(a, b) ==
  IF a = {} \/ b = {} THEN {}
  ELSE ((a \cup b) \ {"chapters"}) \cup (IF a \cap b \cap Media # {} THEN {"twice"} ELSE {})
Result(k) ==
  CASE k = "splice" -> Joined(disk[src[k]], disk["patch"])
    [] k = "join" -> Joined(disk["head"], disk[src[k]])
    [] k = "chapters" -> IF disk[src[k]] = {} THEN {} ELSE disk[src[k]] \cup {"chapters"}

Spawn(k) ==
  /\ Goes(k, "start", "run")
  /\ ff' = [ff EXCEPT ![k] = TRUE]
  /\ reg' = [reg EXCEPT ![k] = TRUE]
  /\ tmp' = [tmp EXCEPT ![k] = [of |-> src[k], has |-> Result(k), st |-> "partial"]]
  /\ UNCHANGED <<disk, row, src, around>>

\* A pass fails, or succeeds with all of its sources or, a concat, with less.
Ends(k, st) ==
  /\ ff[k]
  /\ ff' = [ff EXCEPT ![k] = FALSE]
  /\ st = "partial" \/ tmp[k].has # {}
  /\ st = "short" => k # "chapters"
  /\ tmp' = [tmp EXCEPT ![k].st = st]

\* It goes on without the program that started it.
OrphanEnds(k) ==
  /\ at[k] # "run"
  /\ \E st \in {"partial", "short", "whole"} : Ends(k, st)
  /\ UNCHANGED <<disk, row, at, src, reg, around>>

PassSucceeds(k) ==
  /\ Goes(k, "run", "made")
  /\ \E st \in {"short", "whole"} : Ends(k, st)
  /\ reg' = [reg EXCEPT ![k] = FALSE]
  /\ UNCHANGED <<disk, row, src, around>>

\* record_chapters_failure: tried again by the next sweep, so many times.
ChaptersFail ==
  /\ attempts' = attempts + 1
  /\ chState' = IF attempts + 1 >= MaxAttempts THEN "failed" ELSE "queued"

\* The verdict on a pass that came to nothing.
Fails(k) ==
  /\ IF k = "splice" THEN splState' = "blocked" ELSE UNCHANGED splState
  /\ IF k = "chapters" THEN ChaptersFail ELSE UNCHANGED <<chState, attempts>>
  /\ Over(k)
  /\ UNCHANGED <<completed, out, full, backfill, mismatch>>

\* The registry row of a failed pass is left to the next attempt.
PassFails(k) ==
  /\ at[k] = "run"
  /\ ff' = [ff EXCEPT ![k] = FALSE]
  /\ tmp' = [tmp EXCEPT ![k] = NoTmp]
  /\ Fails(k)
  /\ UNCHANGED <<disk, reg, around>>

-----------------------------------------------------------------------------
(* The promotion of a pass, the row and the clean-up after it.             *)

\* A concat that stopped short lacks what came last in it.
Landed(k) == IF tmp[k].st = "whole" THEN tmp[k].has ELSE tmp[k].has \ {"live"}

Target(k) ==
  CASE k = "splice" -> "gapless"
    [] k = "join" -> IF src["join"] = "gapless" THEN "gapless.full" ELSE "full"
    [] k = "chapters" -> src["chapters"]

\* Durations and seams are compared, and the row is looked at again; an embed
\* that succeeded is trusted.
Verified(k) ==
  CASE k = "splice" -> tmp[k].st = "whole" /\ splState = ""
    [] k = "join" -> tmp[k].st = "whole" /\ full = None
    [] k = "chapters" -> TRUE

Promote(k) ==
  /\ Goes(k, "made", "named")
  /\ Verified(k)
  /\ disk' = [disk EXCEPT ![Target(k)] = Landed(k)]
  /\ tmp' = [tmp EXCEPT ![k] = NoTmp]
  /\ UNCHANGED <<row, src, ff, reg, around>>

Discard(k) ==
  /\ at[k] = "made"
  /\ ~Verified(k)
  /\ tmp' = [tmp EXCEPT ![k] = NoTmp]
  /\ Fails(k)
  /\ UNCHANGED <<disk, ff, reg, around>>

\* The rename fails.
PromoteFails(k) ==
  /\ at[k] = "made"
  /\ tmp' = [tmp EXCEPT ![k] = NoTmp]
  /\ Fails(k)
  /\ UNCHANGED <<disk, ff, reg, around>>

ChaptersDone ==
  /\ at["chapters"] = "named"
  /\ chState' = "done"
  /\ Over("chapters")
  /\ UNCHANGED <<disk, completed, out, full, backfill, mismatch, splState, attempts, passes, around>>

\* The row first, then its state, then the files it no longer names.
SplicePoint ==
  /\ Goes("splice", "named", "pointed")
  /\ out' = "gapless"
  /\ UNCHANGED <<disk, completed, full, backfill, mismatch, splState, chState, attempts, src,
                 passes, around>>

\* post_gap_splice_cleanup, as the settings have it by then.
SpliceDone ==
  /\ at["splice"] = "pointed"
  /\ splState' = "done"
  /\ \/ Over("splice")
     \/ \E next \in {"patches", "patchesAndMain"} :
          at' = [at EXCEPT !["splice"] = next] /\ UNCHANGED src
  /\ UNCHANGED <<disk, completed, out, full, backfill, mismatch, chState, attempts, passes, around>>

\* dispose_media: the file is gone, or is kept because that failed.
Disposed(f) == disk' \in {disk, [disk EXCEPT ![f] = {}]}

DropPatches ==
  /\ \/ at["splice"] = "patches" /\ Over("splice")
     \/ Goes("splice", "patchesAndMain", "dropMain") /\ UNCHANGED src
  /\ Disposed("patch")
  /\ UNCHANGED <<row, passes, around>>

DropMain(k) ==
  /\ at[k] = "dropMain"
  /\ Disposed(src[k])
  /\ Over(k)
  /\ UNCHANGED <<row, passes, around>>

\* set_recording_full_path, and post_join_cleanup as the settings have it.
JoinDone ==
  /\ at["join"] = "named"
  /\ full' = Target("join")
  /\ \/ Over("join")
     \/ \E next \in {"headOnly", "headAndMain"} :
          at' = [at EXCEPT !["join"] = next] /\ UNCHANGED src
  /\ UNCHANGED <<disk, completed, out, backfill, mismatch, splState, chState, attempts, passes, around>>

DropHead ==
  /\ \/ at["join"] = "headOnly" /\ Over("join")
     \/ Goes("join", "headAndMain", "checkMain") /\ UNCHANGED src
  /\ Disposed("head")
  /\ backfill' = (disk'["head"] # {})
  /\ UNCHANGED <<completed, out, full, mismatch, splState, chState, attempts, passes, around>>

MainIsThere ==
  /\ Goes("join", "checkMain", "repoint")
  /\ disk[src["join"]] # {}
  /\ UNCHANGED <<disk, row, src, passes, around>>

MainIsGone ==
  /\ at["join"] = "checkMain"
  /\ disk[src["join"]] = {}
  /\ Over("join")
  /\ UNCHANGED <<disk, row, passes, around>>

\* The row is re-pointed at the joined file before its main file is removed.
\* (Mutant: it is not.)
JoinPointNot ==
  /\ Goes("join", "repoint", "dropMain")
  /\ UNCHANGED <<disk, row, src, passes, around>>
JoinPoint ==
  /\ Goes("join", "repoint", "dropMain")
  /\ out' = full
  /\ UNCHANGED <<disk, completed, full, backfill, mismatch, splState, chState, attempts, src,
                 passes, around>>

-----------------------------------------------------------------------------
\* The program ends at any step and is started again: the jobs are gone, their
\* processes, files and rows are not.  requeue_stale_head_backfills re-drives
\* a head that was waiting or gives it up; one that was being fetched is lost.
\* reconcile_vod_archives goes over the joins that were pending.
JoinPending == completed /\ backfill /\ full = None
Restart ==
  /\ restarts < MaxRestarts
  /\ restarts' = restarts + 1
  /\ at' = Triggered([k \in Jobs |-> "idle"], IF JoinPending THEN {"join"} ELSE {})
  /\ src' = [k \in Jobs |-> None]
  /\ headJob' \in IF headJob = "settling" THEN {"settling", "over"} ELSE {"over"}
  /\ tmp' = [k \in Jobs |-> IF reg[k] THEN tmp[k] ELSE NoTmp]
  /\ UNCHANGED <<disk, row, gaps, ff, reg>>

JobStep(k) ==
  \/ TurnsBack(k) \/ Adopt(k) \/ Spawn(k) \/ PassSucceeds(k) \/ PassFails(k)
  \/ Promote(k) \/ Discard(k) \/ PromoteFails(k)

SpliceStep ==
  \/ JobStep("splice") \/ SpliceProceeds \/ SpliceRefused
  \/ SplicePoint \/ SpliceDone \/ DropPatches \/ DropMain("splice")
JoinStep ==
  \/ JobStep("join") \/ Proceeds("join") \/ JoinRefused \/ JoinDone
  \/ DropHead \/ MainIsThere \/ MainIsGone \/ JoinPoint \/ DropMain("join")
ChaptersStep ==
  JobStep("chapters") \/ Proceeds("chapters") \/ ChaptersSkipped \/ ChaptersDone

HeadStep == HeadStarts \/ HeadLands \/ HeadFails

FNext ==
  \/ Finalize \/ GapsSettle \/ HeadStep
  \/ (\E k \in Jobs : Sweep(k) \/ OrphanEnds(k))
  \/ SpliceStep \/ JoinStep \/ ChaptersStep
  \/ Restart

FSpec == FInit /\ [][FNext]_fvars

-----------------------------------------------------------------------------
(* What holds.                                                             *)
FTypeOK ==
  /\ disk \in [Files -> Seen]
  /\ completed \in BOOLEAN /\ backfill \in BOOLEAN /\ mismatch \in BOOLEAN
  /\ out \in Files /\ full \in Files \cup {None}
  /\ splState \in {"", "done", "blocked"}
  /\ chState \in {"", "queued", "done", "skipped", "failed"}
  /\ attempts \in 0..MaxAttempts
  /\ headJob \in {"settling", "fetching", "over"}
  /\ gaps \in {"none", "pending", "settled"}
  /\ at \in [Jobs -> Phases]
  /\ src \in [Jobs -> Files \cup {None}]
  /\ ff \in [Jobs -> BOOLEAN] /\ reg \in [Jobs -> BOOLEAN]
  /\ tmp \in [Jobs -> TmpFiles]
  /\ restarts \in 0..MaxRestarts

\* The files a row names are there: whatever the two clean-ups remove and in
\* whatever order they come, output_path and full_path lead to a file.
RowNamesFiles == completed => disk[out] # {} /\ (full # None => disk[full] # {})

\* Nothing that was recorded, fetched or recovered is gone from all the files
\* of the take: what one job disposes of is in a file that another job keeps.
Kept == UNION {disk[f] : f \in Files}
NothingIsLost == [][Kept \cap Media \subseteq Kept']_fvars

\* No file has a head or a patch in it twice, not even when a restart falls
\* between a job's rename and the state that says it is done.
NothingTwice == \A f \in Files : "twice" \notin disk[f]

\* A take whose ranges have settled is spliced or refused in the end, in spite
\* of drives that go off line and triggers that come too early.
SpliceComesToAnEnd == SpliceWanted /\ headJob # "settling" ~> splState # ""

\* A take that could have chapters gets them or a reason why not.
ChaptersComeToAnEnd == ChaptersWanted ~> chState \in {"done", "skipped", "failed"}

\* Sweeps come round every hour, processes end, tasks are polled, and a drive
\* that is off line comes back: a job is not turned back for ever.
FFairness ==
  /\ WF_fvars(Sweep("splice")) /\ WF_fvars(Sweep("chapters"))
  /\ WF_fvars(\E k \in Jobs : OrphanEnds(k))
  /\ WF_fvars(SpliceStep) /\ WF_fvars(ChaptersStep)
  /\ SF_fvars(SpliceProceeds \/ SpliceRefused)
  /\ SF_fvars(Proceeds("chapters") \/ ChaptersSkipped)
FLiveSpec == FSpec /\ FFairness
=============================================================================
