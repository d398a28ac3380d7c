--------------------------- MODULE TakeFilesProofs ---------------------------
(***************************************************************************)
(* What holds of the files of a take for any number of restarts and of     *)
(* attempts.                                                               *)
(*                                                                         *)
(* Shape says what is in a file that is there, by its name: it carries     *)
(* NothingTwice, and lets a file that is disposed of be compared with the  *)
(* one that takes its place.  The rest of the invariant says what each job *)
(* knows while it works, in spite of the two others: in particular that    *)
(* the file a clean-up removes is not the one the row names by then.       *)
(***************************************************************************)
EXTENDS TakeFiles, TLAPS

USE FilesAssumption

Mains == {"live", "gapless", "full", "gapless.full"}
Reads(k) ==
  IF k = "splice" THEN {"live"} ELSE IF k = "join" THEN {"live", "gapless"} ELSE Mains
Parts(f) ==
  CASE f = "live" -> {"live"}
    [] f = "gapless" -> {"live", "patch"}
    [] f = "head" -> {"head"}
    [] f = "patch" -> {"patch"}
    [] f = "full" -> {"head", "live"}
    [] f = "gapless.full" -> {"head", "live", "patch"}
Made(k, f) ==
  IF k = "splice" THEN "gapless"
  ELSE IF k = "join" THEN (IF f = "gapless" THEN "gapless.full" ELSE "full")
  ELSE f

BeforePoint == {"adopt", "start", "run", "made", "named"}
AfterPoint == {"pointed", "patches", "patchesAndMain", "dropMain"}
AfterJoin == {"headOnly", "headAndMain", "checkMain", "repoint", "dropMain"}

\* FTypeOK, in the groups the steps leave alone together.
DiskTypes == disk \in [Files -> Seen]
RowTypes ==
  /\ completed \in BOOLEAN /\ backfill \in BOOLEAN /\ mismatch \in BOOLEAN
  /\ out \in Files /\ full \in Files \cup {None}
  /\ splState \in {"", "done", "blocked"}
  /\ chState \in {"", "queued", "done", "skipped", "failed"}
TryTypes == attempts \in 0..MaxAttempts
AroundTypes ==
  /\ headJob \in {"settling", "fetching", "over"}
  /\ gaps \in {"none", "pending", "settled"}
  /\ restarts \in 0..MaxRestarts
JobTypes == at \in [Jobs -> Phases] /\ src \in [Jobs -> Files \cup {None}]
PassTypes ==
  /\ ff \in [Jobs -> BOOLEAN] /\ reg \in [Jobs -> BOOLEAN]
  /\ tmp \in [Jobs -> TmpFiles]
Types == DiskTypes /\ RowTypes /\ TryTypes /\ AroundTypes /\ JobTypes /\ PassTypes

Shape == \A f \in Files : disk[f] = {} \/ disk[f] \ {"chapters"} = Parts(f)

TmpShape ==
  \A k \in Jobs :
    /\ tmp[k].has # {} =>
         tmp[k].of \in Reads(k) /\ tmp[k].has \ {"chapters"} = Parts(Made(k, tmp[k].of))
    /\ tmp[k].st = "whole" => tmp[k].has # {}

Working ==
  \A k \in Jobs :
    /\ at[k] \notin {"idle", "begin"} => completed /\ src[k] \in Reads(k)
    /\ at[k] \in {"run", "made"} => tmp[k].of = src[k]
    /\ at[k] = "made" => ~ff[k] /\ tmp[k].has # {} /\ (k = "chapters" => tmp[k].st = "whole")

Names ==
  /\ RowNamesFiles
  /\ full \in {None, "full", "gapless.full"}
  /\ out \in {"live", "gapless", full}
  /\ ~completed => out = "live" /\ full = None

SpliceSound ==
  /\ at["splice"] = "named" => disk["gapless"] # {}
  /\ at["splice"] \in AfterPoint =>
       out # "live" /\ (disk["gapless"] # {} \/ disk["gapless.full"] # {})
  /\ out = "gapless" => at["splice"] \notin BeforePoint
  /\ src["join"] = "gapless" => at["splice"] \notin BeforePoint /\ out # "live"

JoinSound ==
  /\ at["join"] \in BeforePoint => full = None
  /\ at["join"] = "named" => disk[Made("join", src["join"])] # {}
  /\ at["join"] \in AfterJoin => full = Made("join", src["join"])
  /\ at["join"] = "dropMain" => out # src["join"]

ChaptersSound ==
  /\ chState \in {"", "queued"} => attempts < MaxAttempts
  /\ at["chapters"] \notin {"idle", "begin"} => chState \in {"", "queued"}

FilesInv ==
  /\ Types /\ Shape /\ TmpShape /\ Working
  /\ Names /\ SpliceSound /\ JoinSound /\ ChaptersSound

-----------------------------------------------------------------------------
(* The steps keep the invariant, one lemma per action.                     *)

LEMMA NoTmpType == NoTmp \in TmpFiles /\ NoTmp.has = {} /\ NoTmp.st = "none"
BY DEF NoTmp, TmpFiles, Seen

LEMMA SameDisk == FilesInv /\ UNCHANGED disk => DiskTypes' /\ Shape'
BY DEF FilesInv, Types, DiskTypes, Shape

LEMMA SameRow == FilesInv /\ UNCHANGED row => RowTypes' /\ TryTypes'
BY DEF row, FilesInv, Types, RowTypes, TryTypes

LEMMA SameAround == FilesInv /\ UNCHANGED around => AroundTypes'
BY DEF around, FilesInv, Types, AroundTypes

LEMMA SamePasses == FilesInv /\ UNCHANGED passes => PassTypes' /\ TmpShape'
BY DEF passes, FilesInv, Types, PassTypes, TmpShape

LEMMA SameNames == FilesInv /\ UNCHANGED <<disk, completed, out, full>> => Names'
BY DEF FilesInv, Names, RowNamesFiles

LEMMA FinalizeKeeps ==
  ASSUME FilesInv, Finalize
  PROVE  FilesInv'
<1>1. AroundTypes' /\ PassTypes' /\ TmpShape'
  BY SameAround, SamePasses DEF Finalize
<1>2. DiskTypes'
  BY DEF Finalize, FilesInv, Types, DiskTypes, Files, Media, Seen
<1>3. RowTypes'
  BY DEF Finalize, FilesInv, Types, RowTypes, Files
<1>4. TryTypes'
  BY DEF Finalize, FilesInv, Types, TryTypes
<1>5. JobTypes'
  BY DEF Finalize, FilesInv, Types, JobTypes, Phases, Jobs, Goes, Over, Trigger, Triggered
<1>6. Shape'
  BY DEF Finalize, FilesInv, Types, Shape, DiskTypes, Files, Parts
<1>7. Working'
  BY DEF Finalize, FilesInv, Types, Working, JobTypes, PassTypes, TmpShape, Reads, Mains, NoTmp, TmpFiles, Jobs, Goes, Over, Trigger, Triggered
<1>8. Names'
  BY DEF Finalize, FilesInv, Types, Names, RowNamesFiles, DiskTypes, RowTypes, Files
<1>9. SpliceSound'
  BY DEF Finalize, FilesInv, Types, SpliceSound, JobTypes, DiskTypes, Files, AfterPoint, BeforePoint, Jobs, Goes, Over, Trigger, Triggered
<1>10. JoinSound'
  BY DEF Finalize, FilesInv, Types, JoinSound, JobTypes, DiskTypes, Files, AfterJoin, BeforePoint, Made, Jobs, Goes, Over, Trigger, Triggered
<1>11. ChaptersSound'
  BY DEF Finalize, FilesInv, Types, ChaptersSound, JobTypes, TryTypes, Jobs, Goes, Over, Trigger, Triggered
<1> QED
  BY <1>1, <1>2, <1>3, <1>4, <1>5, <1>6, <1>7, <1>8, <1>9, <1>10, <1>11 DEF FilesInv, Types

LEMMA HeadStartsKeeps ==
  ASSUME FilesInv, HeadStarts
  PROVE  FilesInv'
<1>1. DiskTypes' /\ RowTypes' /\ TryTypes' /\ PassTypes' /\ Shape' /\ TmpShape' /\ Names'
  BY SameDisk, SameRow, SamePasses, SameNames DEF HeadStarts, row, around
<1>2. AroundTypes'
  BY DEF HeadStarts, FilesInv, Types, AroundTypes
<1>3. JobTypes'
  BY DEF HeadStarts, FilesInv, Types, JobTypes, Phases
<1>4. Working'
  BY DEF HeadStarts, FilesInv, Types, Working, JobTypes, PassTypes, TmpShape, Reads, Mains, NoTmp, TmpFiles, row, passes
<1>5. SpliceSound'
  BY DEF HeadStarts, FilesInv, Types, SpliceSound, JobTypes, DiskTypes, Files, AfterPoint, BeforePoint, row
<1>6. JoinSound'
  BY DEF HeadStarts, FilesInv, Types, JoinSound, JobTypes, DiskTypes, Files, AfterJoin, BeforePoint, Made, row
<1>7. ChaptersSound'
  BY DEF HeadStarts, FilesInv, Types, ChaptersSound, JobTypes, TryTypes, row
<1> QED
  BY <1>1, <1>2, <1>3, <1>4, <1>5, <1>6, <1>7 DEF FilesInv, Types

LEMMA HeadLandsKeeps ==
  ASSUME FilesInv, HeadLands
  PROVE  FilesInv'
<1>1. PassTypes' /\ TmpShape'
  BY SamePasses DEF HeadLands
<1>2. DiskTypes'
  BY DEF HeadLands, FilesInv, Types, DiskTypes, Files, Media, Seen
<1>3. RowTypes'
  BY DEF HeadLands, FilesInv, Types, RowTypes, Files
<1>4. TryTypes'
  BY DEF HeadLands, FilesInv, Types, TryTypes
<1>5. AroundTypes'
  BY DEF HeadLands, FilesInv, Types, AroundTypes
<1>6. JobTypes'
  BY DEF HeadLands, FilesInv, Types, JobTypes, Phases, Jobs, Goes, Over, Trigger, Triggered
<1>7. Shape'
  BY DEF HeadLands, FilesInv, Types, Shape, DiskTypes, Files, Parts
<1>8. Working'
  BY DEF HeadLands, FilesInv, Types, Working, JobTypes, PassTypes, TmpShape, Reads, Mains, NoTmp, TmpFiles, passes, Jobs, Goes, Over, Trigger, Triggered
<1>9. Names'
  BY DEF HeadLands, FilesInv, Types, Names, RowNamesFiles, DiskTypes, RowTypes, Files
<1>10. SpliceSound'
  BY DEF HeadLands, FilesInv, Types, SpliceSound, JobTypes, DiskTypes, Files, AfterPoint, BeforePoint, Jobs, Goes, Over, Trigger, Triggered
<1>11. JoinSound'
  BY DEF HeadLands, FilesInv, Types, JoinSound, JobTypes, DiskTypes, Files, AfterJoin, BeforePoint, Made, Jobs, Goes, Over, Trigger, Triggered
<1>12. ChaptersSound'
  BY DEF HeadLands, FilesInv, Types, ChaptersSound, JobTypes, TryTypes, Jobs, Goes, Over, Trigger, Triggered
<1> QED
  BY <1>1, <1>2, <1>3, <1>4, <1>5, <1>6, <1>7, <1>8, <1>9, <1>10, <1>11, <1>12 DEF FilesInv, Types

LEMMA HeadFailsKeeps ==
  ASSUME FilesInv, HeadFails
  PROVE  FilesInv'
<1>1. DiskTypes' /\ RowTypes' /\ TryTypes' /\ PassTypes' /\ Shape' /\ TmpShape' /\ Names'
  BY SameDisk, SameRow, SamePasses, SameNames DEF HeadFails, row
<1>2. AroundTypes'
  BY DEF HeadFails, FilesInv, Types, AroundTypes
<1>3. JobTypes'
  BY DEF HeadFails, FilesInv, Types, JobTypes, Phases
<1>4. Working'
  BY DEF HeadFails, FilesInv, Types, Working, JobTypes, PassTypes, TmpShape, Reads, Mains, NoTmp, TmpFiles, row, passes
<1>5. SpliceSound'
  BY DEF HeadFails, FilesInv, Types, SpliceSound, JobTypes, DiskTypes, Files, AfterPoint, BeforePoint, row
<1>6. JoinSound'
  BY DEF HeadFails, FilesInv, Types, JoinSound, JobTypes, DiskTypes, Files, AfterJoin, BeforePoint, Made, row
<1>7. ChaptersSound'
  BY DEF HeadFails, FilesInv, Types, ChaptersSound, JobTypes, TryTypes, row
<1> QED
  BY <1>1, <1>2, <1>3, <1>4, <1>5, <1>6, <1>7 DEF FilesInv, Types

LEMMA GapsSettleKeeps ==
  ASSUME FilesInv, GapsSettle
  PROVE  FilesInv'
<1>1. RowTypes' /\ TryTypes' /\ PassTypes' /\ TmpShape'
  BY SameRow, SamePasses DEF GapsSettle
<1>2. DiskTypes'
  BY DEF GapsSettle, FilesInv, Types, DiskTypes, Files, Media, Seen
<1>3. AroundTypes'
  BY DEF GapsSettle, FilesInv, Types, AroundTypes
<1>4. JobTypes'
  BY DEF GapsSettle, FilesInv, Types, JobTypes, Phases, Jobs, Goes, Over, Trigger, Triggered
<1>5. Shape'
  BY DEF GapsSettle, FilesInv, Types, Shape, DiskTypes, Files, Parts
<1>6. Working'
  BY DEF GapsSettle, FilesInv, Types, Working, JobTypes, PassTypes, TmpShape, Reads, Mains, NoTmp, TmpFiles, row, passes, Jobs, Goes, Over, Trigger, Triggered
<1>7. Names'
  BY DEF GapsSettle, FilesInv, Types, Names, RowNamesFiles, DiskTypes, RowTypes, Files, row
<1>8. SpliceSound'
  BY DEF GapsSettle, FilesInv, Types, SpliceSound, JobTypes, DiskTypes, Files, AfterPoint, BeforePoint, row, Jobs, Goes, Over, Trigger, Triggered
<1>9. JoinSound'
  BY DEF GapsSettle, FilesInv, Types, JoinSound, JobTypes, DiskTypes, Files, AfterJoin, BeforePoint, Made, row, Jobs, Goes, Over, Trigger, Triggered
<1>10. ChaptersSound'
  BY DEF GapsSettle, FilesInv, Types, ChaptersSound, JobTypes, TryTypes, row, Jobs, Goes, Over, Trigger, Triggered
<1> QED
  BY <1>1, <1>2, <1>3, <1>4, <1>5, <1>6, <1>7, <1>8, <1>9, <1>10 DEF FilesInv, Types

LEMMA RestartKeeps ==
  ASSUME FilesInv, Restart
  PROVE  FilesInv'
<1>1. DiskTypes' /\ RowTypes' /\ TryTypes' /\ Shape' /\ Names'
  BY SameDisk, SameRow, SameNames DEF Restart, row
<1>2. AroundTypes'
  BY DEF Restart, JoinPending, FilesInv, Types, AroundTypes
<1>3. JobTypes'
  BY DEF Restart, JoinPending, Triggered, FilesInv, Types, JobTypes, Phases, Jobs, Goes, Over, Trigger
<1>4. PassTypes'
  BY NoTmpType DEF Restart, FilesInv, Types, PassTypes, passes
<1>5. TmpShape'
  BY DEF Restart, JoinPending, FilesInv, Types, TmpShape, PassTypes, NoTmp, TmpFiles, Reads, Made, Mains
<1>6. Working'
  BY DEF Restart, JoinPending, Triggered, FilesInv, Types, Working, JobTypes, PassTypes, TmpShape, Reads, Mains, NoTmp, TmpFiles, Jobs, Goes, Over, Trigger
<1>7. SpliceSound'
  BY DEF Restart, JoinPending, Triggered, FilesInv, Types, SpliceSound, JobTypes, DiskTypes, Files, AfterPoint, BeforePoint, Jobs, Goes, Over, Trigger
<1>8. JoinSound'
  BY DEF Restart, JoinPending, Triggered, FilesInv, Types, JoinSound, JobTypes, DiskTypes, Files, AfterJoin, BeforePoint, Made, Jobs, Goes, Over, Trigger
<1>9. ChaptersSound'
  BY DEF Restart, JoinPending, Triggered, FilesInv, Types, ChaptersSound, JobTypes, TryTypes, row, Jobs, Goes, Over, Trigger
<1> QED
  BY <1>1, <1>2, <1>3, <1>4, <1>5, <1>6, <1>7, <1>8, <1>9 DEF FilesInv, Types

LEMMA SweepKeeps ==
  ASSUME FilesInv, NEW k \in Jobs, Sweep(k)
  PROVE  FilesInv'
<1>1. DiskTypes' /\ RowTypes' /\ TryTypes' /\ AroundTypes' /\ PassTypes' /\ Shape' /\ TmpShape' /\ Names'
  BY SameDisk, SameRow, SameAround, SamePasses, SameNames DEF Sweep, row
<1>2. JobTypes'
  BY DEF Sweep, FilesInv, Types, JobTypes, Phases, Jobs, Goes, Over, Trigger, Triggered
<1>3. Working'
  BY DEF Sweep, FilesInv, Types, Working, JobTypes, PassTypes, TmpShape, Reads, Mains, NoTmp, TmpFiles, row, passes, Jobs, Goes, Over, Trigger, Triggered
<1>4. SpliceSound'
  BY DEF Sweep, FilesInv, Types, SpliceSound, JobTypes, DiskTypes, Files, AfterPoint, BeforePoint, row, Jobs, Goes, Over, Trigger, Triggered
<1>5. JoinSound'
  BY DEF Sweep, FilesInv, Types, JoinSound, JobTypes, DiskTypes, Files, AfterJoin, BeforePoint, Made, row, Jobs, Goes, Over, Trigger, Triggered
<1>6. ChaptersSound'
  BY DEF Sweep, FilesInv, Types, ChaptersSound, JobTypes, TryTypes, row, Jobs, Goes, Over, Trigger, Triggered
<1> QED
  BY <1>1, <1>2, <1>3, <1>4, <1>5, <1>6 DEF FilesInv, Types

LEMMA TurnsBackKeeps ==
  ASSUME FilesInv, NEW k \in Jobs, TurnsBack(k)
  PROVE  FilesInv'
<1>1. DiskTypes' /\ RowTypes' /\ TryTypes' /\ AroundTypes' /\ PassTypes' /\ Shape' /\ TmpShape' /\ Names'
  BY SameDisk, SameRow, SameAround, SamePasses, SameNames DEF TurnsBack, row
<1>2. JobTypes'
  BY DEF TurnsBack, FilesInv, Types, JobTypes, Phases, Jobs, Goes, Over, Trigger, Triggered
<1>3. Working'
  BY DEF TurnsBack, FilesInv, Types, Working, JobTypes, PassTypes, TmpShape, Reads, Mains, NoTmp, TmpFiles, row, passes, Jobs, Goes, Over, Trigger, Triggered
<1>4. SpliceSound'
  BY DEF TurnsBack, FilesInv, Types, SpliceSound, JobTypes, DiskTypes, Files, AfterPoint, BeforePoint, row, Jobs, Goes, Over, Trigger, Triggered
<1>5. JoinSound'
  BY DEF TurnsBack, FilesInv, Types, JoinSound, JobTypes, DiskTypes, Files, AfterJoin, BeforePoint, Made, row, Jobs, Goes, Over, Trigger, Triggered
<1>6. ChaptersSound'
  BY DEF TurnsBack, FilesInv, Types, ChaptersSound, JobTypes, TryTypes, row, Jobs, Goes, Over, Trigger, Triggered
<1> QED
  BY <1>1, <1>2, <1>3, <1>4, <1>5, <1>6 DEF FilesInv, Types

LEMMA ProceedsKeeps ==
  ASSUME FilesInv, NEW k \in Jobs, Proceeds(k), k = "splice" => AnchorHolds
  PROVE  FilesInv'
<1>1. DiskTypes' /\ RowTypes' /\ TryTypes' /\ AroundTypes' /\ PassTypes' /\ Shape' /\ TmpShape' /\ Names'
  BY SameDisk, SameRow, SameAround, SamePasses, SameNames DEF Proceeds, row
<1>2. JobTypes'
  <2>1. /\ at' = [at EXCEPT ![k] = IF reg[k] THEN "adopt" ELSE "start"]
        /\ src' = [src EXCEPT ![k] = out] /\ at[k] = "begin"
        /\ out \in Files /\ at \in [Jobs -> Phases] /\ src \in [Jobs -> Files \cup {None}]
    BY DEF Proceeds, Goes, FilesInv, Types, RowTypes, JobTypes
  <2> QED
    BY <2>1 DEF JobTypes, Phases
<1>3. Working'
  <2>1. /\ at' = [at EXCEPT ![k] = IF reg[k] THEN "adopt" ELSE "start"]
        /\ src' = [src EXCEPT ![k] = out] /\ at[k] = "begin"
        /\ out \in Files /\ at \in [Jobs -> Phases] /\ src \in [Jobs -> Files \cup {None}]
    BY DEF Proceeds, Goes, FilesInv, Types, RowTypes, JobTypes
  <2>2. /\ completed /\ out \in Reads(k)
        /\ (k = "join" => full = None) /\ (k = "splice" => out = "live")
    <3>1. out \in {"live", "gapless", full} /\ full \in {None, "full", "gapless.full"}
      BY DEF FilesInv, Names
    <3>2. CASE k = "splice"
      BY <3>1, <3>2 DEF Proceeds, Ready, Reads, AnchorHolds
    <3>3. CASE k = "join"
      BY <3>1, <3>3, <2>1 DEF Proceeds, Ready, Reads
    <3>4. CASE k = "chapters"
      BY <3>1, <3>4, <2>1 DEF Proceeds, Ready, Reads, ChaptersWanted, Mains
    <3> QED
      BY <3>2, <3>3, <3>4 DEF Jobs
  <2>3. at'[k] \in {"adopt", "start"} /\ src'[k] = out
    BY <2>1
  <2>4. \A j \in Jobs : j # k => at'[j] = at[j] /\ src'[j] = src[j]
    BY <2>1
  <2>5. UNCHANGED <<disk, completed, out, full, tmp, ff>>
    BY DEF Proceeds, row, passes
  <2> QED
    BY <2>2, <2>3, <2>4, <2>5 DEF FilesInv, Working
<1>4. SpliceSound'
  <2>1. /\ at' = [at EXCEPT ![k] = IF reg[k] THEN "adopt" ELSE "start"]
        /\ src' = [src EXCEPT ![k] = out] /\ at[k] = "begin"
        /\ out \in Files /\ at \in [Jobs -> Phases] /\ src \in [Jobs -> Files \cup {None}]
    BY DEF Proceeds, Goes, FilesInv, Types, RowTypes, JobTypes
  <2>2. /\ completed /\ out \in Reads(k)
        /\ (k = "join" => full = None) /\ (k = "splice" => out = "live")
    <3>1. out \in {"live", "gapless", full} /\ full \in {None, "full", "gapless.full"}
      BY DEF FilesInv, Names
    <3>2. CASE k = "splice"
      BY <3>1, <3>2 DEF Proceeds, Ready, Reads, AnchorHolds
    <3>3. CASE k = "join"
      BY <3>1, <3>3, <2>1 DEF Proceeds, Ready, Reads
    <3>4. CASE k = "chapters"
      BY <3>1, <3>4, <2>1 DEF Proceeds, Ready, Reads, ChaptersWanted, Mains
    <3> QED
      BY <3>2, <3>3, <3>4 DEF Jobs
  <2>3. at'[k] \in {"adopt", "start"} /\ src'[k] = out
    BY <2>1
  <2>4. \A j \in Jobs : j # k => at'[j] = at[j] /\ src'[j] = src[j]
    BY <2>1
  <2>5. UNCHANGED <<disk, completed, out, full, tmp, ff>>
    BY DEF Proceeds, row, passes
  <2>6. CASE k = "splice"
    BY <2>1, <2>2, <2>3, <2>4, <2>5, <2>6 DEF FilesInv, SpliceSound, BeforePoint, AfterPoint, Jobs
  <2>7. CASE k = "join"
    BY <2>1, <2>2, <2>3, <2>4, <2>5, <2>7 DEF FilesInv, SpliceSound, BeforePoint, AfterPoint, Jobs
  <2>8. CASE k = "chapters"
    BY <2>1, <2>2, <2>3, <2>4, <2>5, <2>8 DEF FilesInv, SpliceSound, BeforePoint, AfterPoint, Jobs
  <2> QED
    BY <2>6, <2>7, <2>8 DEF Jobs
<1>5. JoinSound'
  BY DEF Proceeds, Ready, Reads, Mains, ChaptersWanted, FilesInv, Types, JoinSound, JobTypes, DiskTypes, Files, AfterJoin, BeforePoint, Made, row, Jobs, Goes, Over, Trigger, Triggered
<1>6. ChaptersSound'
  BY DEF Proceeds, Ready, Reads, Mains, ChaptersWanted, FilesInv, Types, ChaptersSound, JobTypes, TryTypes, row, Jobs, Goes, Over, Trigger, Triggered
<1> QED
  BY <1>1, <1>2, <1>3, <1>4, <1>5, <1>6 DEF FilesInv, Types

LEMMA SpliceRefusedKeeps ==
  ASSUME FilesInv, SpliceRefused
  PROVE  FilesInv'
<1>1. DiskTypes' /\ AroundTypes' /\ PassTypes' /\ Shape' /\ TmpShape' /\ Names'
  BY SameDisk, SameAround, SamePasses, SameNames DEF SpliceRefused
<1>2. RowTypes'
  BY DEF SpliceRefused, FilesInv, Types, RowTypes, Files
<1>3. TryTypes'
  BY DEF SpliceRefused, FilesInv, Types, TryTypes
<1>4. JobTypes'
  BY DEF SpliceRefused, FilesInv, Types, JobTypes, Phases, Jobs, Goes, Over, Trigger, Triggered
<1>5. Working'
  BY DEF SpliceRefused, FilesInv, Types, Working, JobTypes, PassTypes, TmpShape, Reads, Mains, NoTmp, TmpFiles, passes, Jobs, Goes, Over, Trigger, Triggered
<1>6. SpliceSound'
  BY DEF SpliceRefused, FilesInv, Types, SpliceSound, JobTypes, DiskTypes, Files, AfterPoint, BeforePoint, Jobs, Goes, Over, Trigger, Triggered
<1>7. JoinSound'
  BY DEF SpliceRefused, FilesInv, Types, JoinSound, JobTypes, DiskTypes, Files, AfterJoin, BeforePoint, Made, Jobs, Goes, Over, Trigger, Triggered
<1>8. ChaptersSound'
  BY DEF SpliceRefused, FilesInv, Types, ChaptersSound, JobTypes, TryTypes, Jobs, Goes, Over, Trigger, Triggered
<1> QED
  BY <1>1, <1>2, <1>3, <1>4, <1>5, <1>6, <1>7, <1>8 DEF FilesInv, Types

LEMMA JoinRefusedKeeps ==
  ASSUME FilesInv, JoinRefused
  PROVE  FilesInv'
<1>1. DiskTypes' /\ AroundTypes' /\ PassTypes' /\ Shape' /\ TmpShape' /\ Names'
  BY SameDisk, SameAround, SamePasses, SameNames DEF JoinRefused
<1>2. RowTypes'
  BY DEF JoinRefused, FilesInv, Types, RowTypes, Files
<1>3. TryTypes'
  BY DEF JoinRefused, FilesInv, Types, TryTypes
<1>4. JobTypes'
  BY DEF JoinRefused, FilesInv, Types, JobTypes, Phases, Jobs, Goes, Over, Trigger, Triggered
<1>5. Working'
  BY DEF JoinRefused, FilesInv, Types, Working, JobTypes, PassTypes, TmpShape, Reads, Mains, NoTmp, TmpFiles, passes, Jobs, Goes, Over, Trigger, Triggered
<1>6. SpliceSound'
  BY DEF JoinRefused, FilesInv, Types, SpliceSound, JobTypes, DiskTypes, Files, AfterPoint, BeforePoint, Jobs, Goes, Over, Trigger, Triggered
<1>7. JoinSound'
  BY DEF JoinRefused, FilesInv, Types, JoinSound, JobTypes, DiskTypes, Files, AfterJoin, BeforePoint, Made, Jobs, Goes, Over, Trigger, Triggered
<1>8. ChaptersSound'
  BY DEF JoinRefused, FilesInv, Types, ChaptersSound, JobTypes, TryTypes, Jobs, Goes, Over, Trigger, Triggered
<1> QED
  BY <1>1, <1>2, <1>3, <1>4, <1>5, <1>6, <1>7, <1>8 DEF FilesInv, Types

LEMMA ChaptersSkippedKeeps ==
  ASSUME FilesInv, ChaptersSkipped
  PROVE  FilesInv'
<1>1. DiskTypes' /\ AroundTypes' /\ PassTypes' /\ Shape' /\ TmpShape' /\ Names'
  BY SameDisk, SameAround, SamePasses, SameNames DEF ChaptersSkipped
<1>2. RowTypes'
  BY DEF ChaptersSkipped, FilesInv, Types, RowTypes, Files
<1>3. TryTypes'
  BY DEF ChaptersSkipped, FilesInv, Types, TryTypes
<1>4. JobTypes'
  BY DEF ChaptersSkipped, FilesInv, Types, JobTypes, Phases, Jobs, Goes, Over, Trigger, Triggered
<1>5. Working'
  BY DEF ChaptersSkipped, FilesInv, Types, Working, JobTypes, PassTypes, TmpShape, Reads, Mains, NoTmp, TmpFiles, passes, Jobs, Goes, Over, Trigger, Triggered
<1>6. SpliceSound'
  BY DEF ChaptersSkipped, FilesInv, Types, SpliceSound, JobTypes, DiskTypes, Files, AfterPoint, BeforePoint, Jobs, Goes, Over, Trigger, Triggered
<1>7. JoinSound'
  BY DEF ChaptersSkipped, FilesInv, Types, JoinSound, JobTypes, DiskTypes, Files, AfterJoin, BeforePoint, Made, Jobs, Goes, Over, Trigger, Triggered
<1>8. ChaptersSound'
  BY DEF ChaptersSkipped, FilesInv, Types, ChaptersSound, JobTypes, TryTypes, Jobs, Goes, Over, Trigger, Triggered
<1> QED
  BY <1>1, <1>2, <1>3, <1>4, <1>5, <1>6, <1>7, <1>8 DEF FilesInv, Types

LEMMA AdoptKeeps ==
  ASSUME FilesInv, NEW k \in Jobs, Adopt(k)
  PROVE  FilesInv'
<1>1. DiskTypes' /\ RowTypes' /\ TryTypes' /\ AroundTypes' /\ Shape' /\ Names'
  BY SameDisk, SameRow, SameAround, SameNames DEF Adopt, row
<1>2. JobTypes'
  BY DEF Adopt, FilesInv, Types, JobTypes, Phases, Jobs, Goes, Over, Trigger, Triggered
<1>3. PassTypes'
  BY NoTmpType DEF Adopt, FilesInv, Types, PassTypes, passes
<1>4. TmpShape'
  BY DEF Adopt, FilesInv, Types, TmpShape, PassTypes, NoTmp, TmpFiles, Reads, Made, Mains, Jobs, Goes, Over, Trigger, Triggered
<1>5. Working'
  BY DEF Adopt, FilesInv, Types, Working, JobTypes, PassTypes, TmpShape, Reads, Mains, NoTmp, TmpFiles, row, Jobs, Goes, Over, Trigger, Triggered
<1>6. SpliceSound'
  BY DEF Adopt, FilesInv, Types, SpliceSound, JobTypes, DiskTypes, Files, AfterPoint, BeforePoint, row, Jobs, Goes, Over, Trigger, Triggered
<1>7. JoinSound'
  BY DEF Adopt, FilesInv, Types, JoinSound, JobTypes, DiskTypes, Files, AfterJoin, BeforePoint, Made, row, Jobs, Goes, Over, Trigger, Triggered
<1>8. ChaptersSound'
  BY DEF Adopt, FilesInv, Types, ChaptersSound, JobTypes, TryTypes, row, Jobs, Goes, Over, Trigger, Triggered
<1> QED
  BY <1>1, <1>2, <1>3, <1>4, <1>5, <1>6, <1>7, <1>8 DEF FilesInv, Types

LEMMA SpawnKeeps ==
  ASSUME FilesInv, NEW k \in Jobs, Spawn(k)
  PROVE  FilesInv'
<1>1. DiskTypes' /\ RowTypes' /\ TryTypes' /\ AroundTypes' /\ Shape' /\ Names'
  BY SameDisk, SameRow, SameAround, SameNames DEF Spawn, row
<1>2. JobTypes'
  BY DEF Spawn, Result, Joined, Made, Reads, Mains, Media, Parts, Seen, FilesInv, Types, JobTypes, Phases, Jobs, Goes, Over, Trigger, Triggered
<1>3. PassTypes'
  <2>1. src[k] \in Files
    BY DEF Spawn, Goes, FilesInv, Working, Reads, Mains, Files
  <2>2. Result(k) \in Seen
    <3>1. disk[src[k]] \in Seen /\ disk["head"] \in Seen /\ disk["patch"] \in Seen
      BY <2>1 DEF FilesInv, Types, DiskTypes, Files
    <3> QED
      BY <3>1 DEF Result, Joined, Seen, Jobs
  <2>3. [of |-> src[k], has |-> Result(k), st |-> "partial"] \in TmpFiles
    BY <2>1, <2>2 DEF TmpFiles
  <2> QED
    BY <2>3 DEF Spawn, FilesInv, Types, PassTypes
<1>4. TmpShape'
  <2> DEFINE of == src[k]
  <2>1. of \in Reads(k) /\ of \in Files
    BY DEF Spawn, Goes, FilesInv, Working, Reads, Mains, Files
  <2>2. ASSUME Result(k) # {}
        PROVE  Result(k) \ {"chapters"} = Parts(Made(k, of))
    <3>1. \A f \in Files : disk[f] = {} \/ disk[f] \ {"chapters"} = Parts(f)
      BY DEF FilesInv, Shape
    <3>2. ASSUME k = "splice" PROVE <2>2!2
      BY <2>1, <2>2, <3>1, <3>2 DEF Result, Joined, Made, Parts, Reads, Media, Files
    <3>3. CASE k = "join"
      BY <2>1, <2>2, <3>1, <3>3 DEF Result, Joined, Made, Parts, Reads, Media, Files
    <3>4. CASE k = "chapters"
      BY <2>1, <2>2, <3>1, <3>4 DEF Result, Made, Reads, Mains, Files
    <3> QED
      BY <3>2, <3>3, <3>4 DEF Jobs
  <2>3. tmp'[k] = [of |-> of, has |-> Result(k), st |-> "partial"]
    BY DEF Spawn, FilesInv, Types, PassTypes
  <2>4. \A j \in Jobs : j # k => tmp'[j] = tmp[j]
    BY DEF Spawn, FilesInv, Types, PassTypes
  <2> QED
    BY <2>1, <2>2, <2>3, <2>4 DEF FilesInv, TmpShape
<1>5. Working'
  BY DEF Spawn, Result, Joined, Made, Reads, Mains, Media, Parts, Seen, FilesInv, Types, Working, JobTypes, PassTypes, TmpShape, NoTmp, TmpFiles, row, Jobs, Goes, Over, Trigger, Triggered
<1>6. SpliceSound'
  BY DEF Spawn, Result, Joined, Made, Reads, Mains, Media, Parts, Seen, FilesInv, Types, SpliceSound, JobTypes, DiskTypes, Files, AfterPoint, BeforePoint, row, Jobs, Goes, Over, Trigger, Triggered
<1>7. JoinSound'
  BY DEF Spawn, Result, Joined, Made, Reads, Mains, Media, Parts, Seen, FilesInv, Types, JoinSound, JobTypes, DiskTypes, Files, AfterJoin, BeforePoint, row, Jobs, Goes, Over, Trigger, Triggered
<1>8. ChaptersSound'
  BY DEF Spawn, Result, Joined, Made, Reads, Mains, Media, Parts, Seen, FilesInv, Types, ChaptersSound, JobTypes, TryTypes, row, Jobs, Goes, Over, Trigger, Triggered
<1> QED
  BY <1>1, <1>2, <1>3, <1>4, <1>5, <1>6, <1>7, <1>8 DEF FilesInv, Types

LEMMA OrphanEndsKeeps ==
  ASSUME FilesInv, NEW k \in Jobs, OrphanEnds(k)
  PROVE  FilesInv'
<1>1. DiskTypes' /\ RowTypes' /\ TryTypes' /\ AroundTypes' /\ Shape' /\ Names'
  BY SameDisk, SameRow, SameAround, SameNames DEF OrphanEnds, row
<1>2. JobTypes'
  BY DEF OrphanEnds, Ends, FilesInv, Types, JobTypes, Phases
<1>3. PassTypes'
  BY DEF OrphanEnds, Ends, FilesInv, Types, PassTypes, NoTmp, TmpFiles
<1>4. TmpShape'
  BY DEF OrphanEnds, Ends, FilesInv, Types, TmpShape, PassTypes, NoTmp, TmpFiles, Reads, Made, Mains
<1>5. Working'
  <2>1. PICK st \in {"partial", "short", "whole"} : Ends(k, st)
    BY DEF OrphanEnds
  <2>2. /\ tmp'[k].of = tmp[k].of /\ tmp'[k].has = tmp[k].has
        /\ \A j \in Jobs : j # k => tmp'[j] = tmp[j]
    BY <2>1 DEF Ends, FilesInv, Types, PassTypes, TmpFiles
  <2>3. at[k] # "run" /\ at' = at /\ src' = src /\ completed' = completed
    BY DEF OrphanEnds, row
  <2>4. at[k] # "made"
    BY <2>1 DEF Ends, FilesInv, Working
  <2>5. \A j \in Jobs : ff'[j] => ff[j]
    BY <2>1 DEF Ends, FilesInv, Types, PassTypes
  <2> QED
    BY <2>2, <2>3, <2>4, <2>5 DEF FilesInv, Working
<1>6. SpliceSound'
  BY DEF OrphanEnds, Ends, FilesInv, Types, SpliceSound, JobTypes, DiskTypes, Files, AfterPoint, BeforePoint, row
<1>7. JoinSound'
  BY DEF OrphanEnds, Ends, FilesInv, Types, JoinSound, JobTypes, DiskTypes, Files, AfterJoin, BeforePoint, Made, row
<1>8. ChaptersSound'
  BY DEF OrphanEnds, Ends, FilesInv, Types, ChaptersSound, JobTypes, TryTypes, row
<1> QED
  BY <1>1, <1>2, <1>3, <1>4, <1>5, <1>6, <1>7, <1>8 DEF FilesInv, Types

LEMMA PassSucceedsKeeps ==
  ASSUME FilesInv, NEW k \in Jobs, PassSucceeds(k)
  PROVE  FilesInv'
<1>1. DiskTypes' /\ RowTypes' /\ TryTypes' /\ AroundTypes' /\ Shape' /\ Names'
  BY SameDisk, SameRow, SameAround, SameNames DEF PassSucceeds, row
<1>2. JobTypes'
  BY DEF PassSucceeds, Ends, FilesInv, Types, JobTypes, Phases, Jobs, Goes, Over, Trigger, Triggered
<1>3. PassTypes'
  BY DEF PassSucceeds, Ends, FilesInv, Types, PassTypes, NoTmp, TmpFiles
<1>4. TmpShape'
  BY DEF PassSucceeds, Ends, FilesInv, Types, TmpShape, PassTypes, NoTmp, TmpFiles, Reads, Made, Mains
<1>5. Working'
  BY DEF PassSucceeds, Ends, FilesInv, Types, Working, JobTypes, PassTypes, TmpShape, Reads, Mains, NoTmp, TmpFiles, row, Jobs, Goes, Over, Trigger, Triggered
<1>6. SpliceSound'
  BY DEF PassSucceeds, Ends, FilesInv, Types, SpliceSound, JobTypes, DiskTypes, Files, AfterPoint, BeforePoint, row, Jobs, Goes, Over, Trigger, Triggered
<1>7. JoinSound'
  BY DEF PassSucceeds, Ends, FilesInv, Types, JoinSound, JobTypes, DiskTypes, Files, AfterJoin, BeforePoint, Made, row, Jobs, Goes, Over, Trigger, Triggered
<1>8. ChaptersSound'
  BY DEF PassSucceeds, Ends, FilesInv, Types, ChaptersSound, JobTypes, TryTypes, row, Jobs, Goes, Over, Trigger, Triggered
<1> QED
  BY <1>1, <1>2, <1>3, <1>4, <1>5, <1>6, <1>7, <1>8 DEF FilesInv, Types

LEMMA PassFailsKeeps ==
  ASSUME FilesInv, NEW k \in Jobs, PassFails(k)
  PROVE  FilesInv'
<1>1. DiskTypes' /\ AroundTypes' /\ Shape'
  BY SameDisk, SameAround DEF PassFails
<1>2. RowTypes'
  BY DEF PassFails, Fails, ChaptersFail, FilesInv, Types, RowTypes, Files
<1>3. TryTypes'
  <2>1. CASE k = "chapters"
    <3>1. attempts < MaxAttempts
      BY <2>1 DEF PassFails, FilesInv, Types, TryTypes, ChaptersSound
    <3> QED
      BY <2>1, <3>1 DEF PassFails, Fails, ChaptersFail, FilesInv, Types, TryTypes
  <2>2. CASE k # "chapters"
    BY <2>2 DEF PassFails, Fails, FilesInv, Types, TryTypes
  <2> QED
    BY <2>1, <2>2
<1>4. JobTypes'
  BY DEF PassFails, Fails, ChaptersFail, FilesInv, Types, JobTypes, Phases, Jobs, Goes, Over, Trigger, Triggered
<1>5. PassTypes'
  BY NoTmpType DEF PassFails, FilesInv, Types, PassTypes, passes
<1>6. TmpShape'
  BY DEF PassFails, Fails, ChaptersFail, FilesInv, Types, TmpShape, PassTypes, NoTmp, TmpFiles, Reads, Made, Mains
<1>7. Working'
  BY DEF PassFails, Fails, ChaptersFail, FilesInv, Types, Working, JobTypes, PassTypes, TmpShape, Reads, Mains, NoTmp, TmpFiles, Jobs, Goes, Over, Trigger, Triggered
<1>8. Names'
  BY DEF PassFails, Fails, ChaptersFail, FilesInv, Types, Names, RowNamesFiles, DiskTypes, RowTypes, Files
<1>9. SpliceSound'
  BY DEF PassFails, Fails, ChaptersFail, FilesInv, Types, SpliceSound, JobTypes, DiskTypes, Files, AfterPoint, BeforePoint, Jobs, Goes, Over, Trigger, Triggered
<1>10. JoinSound'
  BY DEF PassFails, Fails, ChaptersFail, FilesInv, Types, JoinSound, JobTypes, DiskTypes, Files, AfterJoin, BeforePoint, Made, Jobs, Goes, Over, Trigger, Triggered
<1>11. ChaptersSound'
  <2>1. CASE k = "chapters"
    <3>1. at'["chapters"] = "idle"
      BY <2>1 DEF PassFails, Fails, Over, Triggered, FilesInv, Types, JobTypes, Jobs
    <3>2. attempts \in Nat /\ attempts < MaxAttempts /\ MaxAttempts \in Nat
      <4>1. attempts \in Nat /\ MaxAttempts \in Nat
        BY DEF FilesInv, Types, TryTypes
      <4>2. attempts < MaxAttempts
        BY <2>1 DEF PassFails, FilesInv, Types, TryTypes, ChaptersSound
      <4> QED
        BY <4>1, <4>2
    <3>3. /\ attempts' = attempts + 1
          /\ chState' = IF attempts + 1 >= MaxAttempts THEN "failed" ELSE "queued"
      BY <2>1 DEF PassFails, Fails, ChaptersFail
    <3>4. chState' \in {"", "queued"} => attempts' < MaxAttempts
      BY <3>2, <3>3
    <3> QED
      BY <3>1, <3>4 DEF ChaptersSound
  <2>2. CASE k # "chapters"
    <3>1. at'["chapters"] \in {at["chapters"], "idle", "begin"}
      BY <2>2 DEF PassFails, Fails, Over, Triggered, FilesInv, Types, JobTypes, Jobs
    <3> QED
      BY <2>2, <3>1 DEF PassFails, Fails, FilesInv, ChaptersSound
  <2> QED
    BY <2>1, <2>2
<1> QED
  BY <1>1, <1>2, <1>3, <1>4, <1>5, <1>6, <1>7, <1>8, <1>9, <1>10, <1>11 DEF FilesInv, Types

LEMMA PromoteKeeps ==
  ASSUME FilesInv, NEW k \in Jobs, Promote(k)
  PROVE  FilesInv'
<1>1. RowTypes' /\ TryTypes' /\ AroundTypes'
  BY SameRow, SameAround DEF Promote
<1>2. DiskTypes'
  <2>1. /\ at[k] = "made" /\ completed /\ src[k] \in Reads(k) /\ tmp[k].of = src[k]
        /\ tmp[k].has # {} /\ tmp[k].has \ {"chapters"} = Parts(Made(k, src[k]))
        /\ tmp[k].has \in Seen /\ tmp[k].st = "whole"
    <3>1. /\ at[k] = "made" /\ completed /\ src[k] \in Reads(k) /\ tmp[k].of = src[k]
          /\ tmp[k].has # {} /\ (k = "chapters" => tmp[k].st = "whole")
      BY DEF Promote, Goes, FilesInv, Working
    <3>2. tmp[k].has \ {"chapters"} = Parts(Made(k, src[k]))
      BY <3>1 DEF FilesInv, TmpShape
    <3>3. tmp[k].has \in Seen
      BY DEF FilesInv, Types, PassTypes, TmpFiles
    <3>4. tmp[k].st = "whole"
      BY <3>1 DEF Promote, Verified, Jobs
    <3> QED
      BY <3>1, <3>2, <3>3, <3>4
  <2> DEFINE made == Made(k, src[k])
  <2>2. Target(k) = made /\ made \in Files
    BY <2>1 DEF Target, Made, Reads, Mains, Files, Jobs
  <2>3. disk' = [disk EXCEPT ![made] = tmp[k].has]
    BY <2>1, <2>2 DEF Promote, Landed
  <2>4. disk \in [Files -> Seen]
    BY DEF FilesInv, Types, DiskTypes
  <2>5. disk'[made] = tmp[k].has /\ \A f \in Files : f # made => disk'[f] = disk[f]
    BY <2>2, <2>3, <2>4
  <2>6. tmp[k].has \ {"chapters"} = Parts(made)
    BY <2>1
  <2>7. /\ k = "splice" => made = "gapless"
        /\ k = "join" => made = Made("join", src["join"])
    BY DEF Made
  <2> HIDE DEF made
  <2> QED
    BY <2>1, <2>2, <2>3, <2>4 DEF DiskTypes
<1>3. JobTypes'
  BY DEF Promote, Verified, Target, Landed, Made, Reads, Mains, FilesInv, Types, JobTypes, Phases, Jobs, Goes, Over, Trigger, Triggered
<1>4. PassTypes'
  BY NoTmpType DEF Promote, FilesInv, Types, PassTypes, passes
<1>5. Shape'
  <2>1. /\ at[k] = "made" /\ completed /\ src[k] \in Reads(k) /\ tmp[k].of = src[k]
        /\ tmp[k].has # {} /\ tmp[k].has \ {"chapters"} = Parts(Made(k, src[k]))
        /\ tmp[k].has \in Seen /\ tmp[k].st = "whole"
    <3>1. /\ at[k] = "made" /\ completed /\ src[k] \in Reads(k) /\ tmp[k].of = src[k]
          /\ tmp[k].has # {} /\ (k = "chapters" => tmp[k].st = "whole")
      BY DEF Promote, Goes, FilesInv, Working
    <3>2. tmp[k].has \ {"chapters"} = Parts(Made(k, src[k]))
      BY <3>1 DEF FilesInv, TmpShape
    <3>3. tmp[k].has \in Seen
      BY DEF FilesInv, Types, PassTypes, TmpFiles
    <3>4. tmp[k].st = "whole"
      BY <3>1 DEF Promote, Verified, Jobs
    <3> QED
      BY <3>1, <3>2, <3>3, <3>4
  <2> DEFINE made == Made(k, src[k])
  <2>2. Target(k) = made /\ made \in Files
    BY <2>1 DEF Target, Made, Reads, Mains, Files, Jobs
  <2>3. disk' = [disk EXCEPT ![made] = tmp[k].has]
    BY <2>1, <2>2 DEF Promote, Landed
  <2>4. disk \in [Files -> Seen]
    BY DEF FilesInv, Types, DiskTypes
  <2>5. disk'[made] = tmp[k].has /\ \A f \in Files : f # made => disk'[f] = disk[f]
    BY <2>2, <2>3, <2>4
  <2>6. tmp[k].has \ {"chapters"} = Parts(made)
    BY <2>1
  <2>7. /\ k = "splice" => made = "gapless"
        /\ k = "join" => made = Made("join", src["join"])
    BY DEF Made
  <2> HIDE DEF made
  <2> QED
    BY <2>5, <2>6 DEF FilesInv, Shape
<1>6. TmpShape'
  BY DEF Promote, Verified, Target, Landed, Made, Reads, Mains, FilesInv, Types, TmpShape, PassTypes, NoTmp, TmpFiles
<1>7. Working'
  BY DEF Promote, Verified, Target, Landed, Made, Reads, Mains, FilesInv, Types, Working, JobTypes, PassTypes, TmpShape, NoTmp, TmpFiles, row, Jobs, Goes, Over, Trigger, Triggered
<1>8. Names'
  <2>1. /\ at[k] = "made" /\ completed /\ src[k] \in Reads(k) /\ tmp[k].of = src[k]
        /\ tmp[k].has # {} /\ tmp[k].has \ {"chapters"} = Parts(Made(k, src[k]))
        /\ tmp[k].has \in Seen /\ tmp[k].st = "whole"
    <3>1. /\ at[k] = "made" /\ completed /\ src[k] \in Reads(k) /\ tmp[k].of = src[k]
          /\ tmp[k].has # {} /\ (k = "chapters" => tmp[k].st = "whole")
      BY DEF Promote, Goes, FilesInv, Working
    <3>2. tmp[k].has \ {"chapters"} = Parts(Made(k, src[k]))
      BY <3>1 DEF FilesInv, TmpShape
    <3>3. tmp[k].has \in Seen
      BY DEF FilesInv, Types, PassTypes, TmpFiles
    <3>4. tmp[k].st = "whole"
      BY <3>1 DEF Promote, Verified, Jobs
    <3> QED
      BY <3>1, <3>2, <3>3, <3>4
  <2> DEFINE made == Made(k, src[k])
  <2>2. Target(k) = made /\ made \in Files
    BY <2>1 DEF Target, Made, Reads, Mains, Files, Jobs
  <2>3. disk' = [disk EXCEPT ![made] = tmp[k].has]
    BY <2>1, <2>2 DEF Promote, Landed
  <2>4. disk \in [Files -> Seen]
    BY DEF FilesInv, Types, DiskTypes
  <2>5. disk'[made] = tmp[k].has /\ \A f \in Files : f # made => disk'[f] = disk[f]
    BY <2>2, <2>3, <2>4
  <2>6. tmp[k].has \ {"chapters"} = Parts(made)
    BY <2>1
  <2>7. /\ k = "splice" => made = "gapless"
        /\ k = "join" => made = Made("join", src["join"])
    BY DEF Made
  <2> HIDE DEF made
  <2>8. \A f \in Files : disk[f] # {} => disk'[f] # {}
    BY <2>1, <2>5
  <2>9. /\ UNCHANGED <<completed, out, full, src>> /\ at'[k] = "named"
        /\ \A j \in Jobs : j # k => at'[j] = at[j]
    BY DEF Promote, Goes, row, FilesInv, Types, JobTypes
  <2> QED
    BY <2>8, <2>9 DEF FilesInv, Types, RowTypes, Names, RowNamesFiles
<1>9. SpliceSound'
  <2>1. /\ at[k] = "made" /\ completed /\ src[k] \in Reads(k) /\ tmp[k].of = src[k]
        /\ tmp[k].has # {} /\ tmp[k].has \ {"chapters"} = Parts(Made(k, src[k]))
        /\ tmp[k].has \in Seen /\ tmp[k].st = "whole"
    <3>1. /\ at[k] = "made" /\ completed /\ src[k] \in Reads(k) /\ tmp[k].of = src[k]
          /\ tmp[k].has # {} /\ (k = "chapters" => tmp[k].st = "whole")
      BY DEF Promote, Goes, FilesInv, Working
    <3>2. tmp[k].has \ {"chapters"} = Parts(Made(k, src[k]))
      BY <3>1 DEF FilesInv, TmpShape
    <3>3. tmp[k].has \in Seen
      BY DEF FilesInv, Types, PassTypes, TmpFiles
    <3>4. tmp[k].st = "whole"
      BY <3>1 DEF Promote, Verified, Jobs
    <3> QED
      BY <3>1, <3>2, <3>3, <3>4
  <2> DEFINE made == Made(k, src[k])
  <2>2. Target(k) = made /\ made \in Files
    BY <2>1 DEF Target, Made, Reads, Mains, Files, Jobs
  <2>3. disk' = [disk EXCEPT ![made] = tmp[k].has]
    BY <2>1, <2>2 DEF Promote, Landed
  <2>4. disk \in [Files -> Seen]
    BY DEF FilesInv, Types, DiskTypes
  <2>5. disk'[made] = tmp[k].has /\ \A f \in Files : f # made => disk'[f] = disk[f]
    BY <2>2, <2>3, <2>4
  <2>6. tmp[k].has \ {"chapters"} = Parts(made)
    BY <2>1
  <2>7. /\ k = "splice" => made = "gapless"
        /\ k = "join" => made = Made("join", src["join"])
    BY DEF Made
  <2> HIDE DEF made
  <2>8. \A f \in Files : disk[f] # {} => disk'[f] # {}
    BY <2>1, <2>5
  <2>9. /\ UNCHANGED <<completed, out, full, src>> /\ at'[k] = "named"
        /\ \A j \in Jobs : j # k => at'[j] = at[j]
    BY DEF Promote, Goes, row, FilesInv, Types, JobTypes
  <2>10. CASE k = "splice"
    BY <2>1, <2>5, <2>7, <2>8, <2>9, <2>10 DEF FilesInv, SpliceSound, BeforePoint, AfterPoint, Jobs, Files
  <2>11. CASE k # "splice"
    BY <2>8, <2>9, <2>11 DEF FilesInv, SpliceSound, Jobs, Files
  <2> QED
    BY <2>10, <2>11
<1>10. JoinSound'
  <2>1. /\ at[k] = "made" /\ completed /\ src[k] \in Reads(k) /\ tmp[k].of = src[k]
        /\ tmp[k].has # {} /\ tmp[k].has \ {"chapters"} = Parts(Made(k, src[k]))
        /\ tmp[k].has \in Seen /\ tmp[k].st = "whole"
    <3>1. /\ at[k] = "made" /\ completed /\ src[k] \in Reads(k) /\ tmp[k].of = src[k]
          /\ tmp[k].has # {} /\ (k = "chapters" => tmp[k].st = "whole")
      BY DEF Promote, Goes, FilesInv, Working
    <3>2. tmp[k].has \ {"chapters"} = Parts(Made(k, src[k]))
      BY <3>1 DEF FilesInv, TmpShape
    <3>3. tmp[k].has \in Seen
      BY DEF FilesInv, Types, PassTypes, TmpFiles
    <3>4. tmp[k].st = "whole"
      BY <3>1 DEF Promote, Verified, Jobs
    <3> QED
      BY <3>1, <3>2, <3>3, <3>4
  <2> DEFINE made == Made(k, src[k])
  <2>2. Target(k) = made /\ made \in Files
    BY <2>1 DEF Target, Made, Reads, Mains, Files, Jobs
  <2>3. disk' = [disk EXCEPT ![made] = tmp[k].has]
    BY <2>1, <2>2 DEF Promote, Landed
  <2>4. disk \in [Files -> Seen]
    BY DEF FilesInv, Types, DiskTypes
  <2>5. disk'[made] = tmp[k].has /\ \A f \in Files : f # made => disk'[f] = disk[f]
    BY <2>2, <2>3, <2>4
  <2>6. tmp[k].has \ {"chapters"} = Parts(made)
    BY <2>1
  <2>7. /\ k = "splice" => made = "gapless"
        /\ k = "join" => made = Made("join", src["join"])
    BY DEF Made
  <2> HIDE DEF made
  <2>8. \A f \in Files : disk[f] # {} => disk'[f] # {}
    BY <2>1, <2>5
  <2>9. /\ UNCHANGED <<completed, out, full, src>> /\ at'[k] = "named"
        /\ \A j \in Jobs : j # k => at'[j] = at[j]
    BY DEF Promote, Goes, row, FilesInv, Types, JobTypes
  <2>10. CASE k = "join"
    <3>1. disk'[Made("join", src["join"])] # {}
      BY <2>1, <2>5, <2>7, <2>10
    <3> QED
      BY <3>1, <2>1, <2>9, <2>10 DEF FilesInv, JoinSound, BeforePoint, AfterJoin, Jobs
  <2>11. CASE k # "join"
    <3>1. Made("join", src["join"]) \in Files
      BY DEF Made, Files
    <3> QED
      BY <3>1, <2>8, <2>9, <2>11 DEF FilesInv, JoinSound, Jobs
  <2> QED
    BY <2>10, <2>11
<1>11. ChaptersSound'
  BY DEF Promote, Verified, Target, Landed, Made, Reads, Mains, FilesInv, Types, ChaptersSound, JobTypes, TryTypes, row, Jobs, Goes, Over, Trigger, Triggered
<1> QED
  BY <1>1, <1>2, <1>3, <1>4, <1>5, <1>6, <1>7, <1>8, <1>9, <1>10, <1>11 DEF FilesInv, Types

LEMMA DiscardKeeps ==
  ASSUME FilesInv, NEW k \in Jobs, Discard(k)
  PROVE  FilesInv'
<1>1. DiskTypes' /\ AroundTypes' /\ Shape'
  BY SameDisk, SameAround DEF Discard
<1>2. RowTypes'
  BY DEF Discard, Fails, ChaptersFail, FilesInv, Types, RowTypes, Files
<1>3. TryTypes'
  <2>1. CASE k = "chapters"
    <3>1. attempts < MaxAttempts
      BY <2>1 DEF Discard, FilesInv, Types, TryTypes, ChaptersSound
    <3> QED
      BY <2>1, <3>1 DEF Discard, Fails, ChaptersFail, FilesInv, Types, TryTypes
  <2>2. CASE k # "chapters"
    BY <2>2 DEF Discard, Fails, FilesInv, Types, TryTypes
  <2> QED
    BY <2>1, <2>2
<1>4. JobTypes'
  BY DEF Discard, Fails, ChaptersFail, FilesInv, Types, JobTypes, Phases, Jobs, Goes, Over, Trigger, Triggered
<1>5. PassTypes'
  BY NoTmpType DEF Discard, FilesInv, Types, PassTypes, passes
<1>6. TmpShape'
  BY DEF Discard, Fails, ChaptersFail, FilesInv, Types, TmpShape, PassTypes, NoTmp, TmpFiles, Reads, Made, Mains
<1>7. Working'
  BY DEF Discard, Fails, ChaptersFail, FilesInv, Types, Working, JobTypes, PassTypes, TmpShape, Reads, Mains, NoTmp, TmpFiles, Jobs, Goes, Over, Trigger, Triggered
<1>8. Names'
  BY DEF Discard, Fails, ChaptersFail, FilesInv, Types, Names, RowNamesFiles, DiskTypes, RowTypes, Files
<1>9. SpliceSound'
  BY DEF Discard, Fails, ChaptersFail, FilesInv, Types, SpliceSound, JobTypes, DiskTypes, Files, AfterPoint, BeforePoint, Jobs, Goes, Over, Trigger, Triggered
<1>10. JoinSound'
  BY DEF Discard, Fails, ChaptersFail, FilesInv, Types, JoinSound, JobTypes, DiskTypes, Files, AfterJoin, BeforePoint, Made, Jobs, Goes, Over, Trigger, Triggered
<1>11. ChaptersSound'
  <2>1. CASE k = "chapters"
    <3>1. at'["chapters"] = "idle"
      BY <2>1 DEF Discard, Fails, Over, Triggered, FilesInv, Types, JobTypes, Jobs
    <3>2. attempts \in Nat /\ attempts < MaxAttempts /\ MaxAttempts \in Nat
      <4>1. attempts \in Nat /\ MaxAttempts \in Nat
        BY DEF FilesInv, Types, TryTypes
      <4>2. attempts < MaxAttempts
        BY <2>1 DEF Discard, FilesInv, Types, TryTypes, ChaptersSound
      <4> QED
        BY <4>1, <4>2
    <3>3. /\ attempts' = attempts + 1
          /\ chState' = IF attempts + 1 >= MaxAttempts THEN "failed" ELSE "queued"
      BY <2>1 DEF Discard, Fails, ChaptersFail
    <3>4. chState' \in {"", "queued"} => attempts' < MaxAttempts
      BY <3>2, <3>3
    <3> QED
      BY <3>1, <3>4 DEF ChaptersSound
  <2>2. CASE k # "chapters"
    <3>1. at'["chapters"] \in {at["chapters"], "idle", "begin"}
      BY <2>2 DEF Discard, Fails, Over, Triggered, FilesInv, Types, JobTypes, Jobs
    <3> QED
      BY <2>2, <3>1 DEF Discard, Fails, FilesInv, ChaptersSound
  <2> QED
    BY <2>1, <2>2
<1> QED
  BY <1>1, <1>2, <1>3, <1>4, <1>5, <1>6, <1>7, <1>8, <1>9, <1>10, <1>11 DEF FilesInv, Types

LEMMA PromoteFailsKeeps ==
  ASSUME FilesInv, NEW k \in Jobs, PromoteFails(k)
  PROVE  FilesInv'
<1>1. DiskTypes' /\ AroundTypes' /\ Shape'
  BY SameDisk, SameAround DEF PromoteFails
<1>2. RowTypes'
  BY DEF PromoteFails, Fails, ChaptersFail, FilesInv, Types, RowTypes, Files
<1>3. TryTypes'
  <2>1. CASE k = "chapters"
    <3>1. attempts < MaxAttempts
      BY <2>1 DEF PromoteFails, FilesInv, Types, TryTypes, ChaptersSound
    <3> QED
      BY <2>1, <3>1 DEF PromoteFails, Fails, ChaptersFail, FilesInv, Types, TryTypes
  <2>2. CASE k # "chapters"
    BY <2>2 DEF PromoteFails, Fails, FilesInv, Types, TryTypes
  <2> QED
    BY <2>1, <2>2
<1>4. JobTypes'
  BY DEF PromoteFails, Fails, ChaptersFail, FilesInv, Types, JobTypes, Phases, Jobs, Goes, Over, Trigger, Triggered
<1>5. PassTypes'
  BY NoTmpType DEF PromoteFails, FilesInv, Types, PassTypes, passes
<1>6. TmpShape'
  BY DEF PromoteFails, Fails, ChaptersFail, FilesInv, Types, TmpShape, PassTypes, NoTmp, TmpFiles, Reads, Made, Mains
<1>7. Working'
  BY DEF PromoteFails, Fails, ChaptersFail, FilesInv, Types, Working, JobTypes, PassTypes, TmpShape, Reads, Mains, NoTmp, TmpFiles, Jobs, Goes, Over, Trigger, Triggered
<1>8. Names'
  BY DEF PromoteFails, Fails, ChaptersFail, FilesInv, Types, Names, RowNamesFiles, DiskTypes, RowTypes, Files
<1>9. SpliceSound'
  BY DEF PromoteFails, Fails, ChaptersFail, FilesInv, Types, SpliceSound, JobTypes, DiskTypes, Files, AfterPoint, BeforePoint, Jobs, Goes, Over, Trigger, Triggered
<1>10. JoinSound'
  BY DEF PromoteFails, Fails, ChaptersFail, FilesInv, Types, JoinSound, JobTypes, DiskTypes, Files, AfterJoin, BeforePoint, Made, Jobs, Goes, Over, Trigger, Triggered
<1>11. ChaptersSound'
  <2>1. CASE k = "chapters"
    <3>1. at'["chapters"] = "idle"
      BY <2>1 DEF PromoteFails, Fails, Over, Triggered, FilesInv, Types, JobTypes, Jobs
    <3>2. attempts \in Nat /\ attempts < MaxAttempts /\ MaxAttempts \in Nat
      <4>1. attempts \in Nat /\ MaxAttempts \in Nat
        BY DEF FilesInv, Types, TryTypes
      <4>2. attempts < MaxAttempts
        BY <2>1 DEF PromoteFails, FilesInv, Types, TryTypes, ChaptersSound
      <4> QED
        BY <4>1, <4>2
    <3>3. /\ attempts' = attempts + 1
          /\ chState' = IF attempts + 1 >= MaxAttempts THEN "failed" ELSE "queued"
      BY <2>1 DEF PromoteFails, Fails, ChaptersFail
    <3>4. chState' \in {"", "queued"} => attempts' < MaxAttempts
      BY <3>2, <3>3
    <3> QED
      BY <3>1, <3>4 DEF ChaptersSound
  <2>2. CASE k # "chapters"
    <3>1. at'["chapters"] \in {at["chapters"], "idle", "begin"}
      BY <2>2 DEF PromoteFails, Fails, Over, Triggered, FilesInv, Types, JobTypes, Jobs
    <3> QED
      BY <2>2, <3>1 DEF PromoteFails, Fails, FilesInv, ChaptersSound
  <2> QED
    BY <2>1, <2>2
<1> QED
  BY <1>1, <1>2, <1>3, <1>4, <1>5, <1>6, <1>7, <1>8, <1>9, <1>10, <1>11 DEF FilesInv, Types

LEMMA ChaptersDoneKeeps ==
  ASSUME FilesInv, ChaptersDone
  PROVE  FilesInv'
<1>1. DiskTypes' /\ AroundTypes' /\ PassTypes' /\ Shape' /\ TmpShape' /\ Names'
  BY SameDisk, SameAround, SamePasses, SameNames DEF ChaptersDone
<1>2. RowTypes'
  BY DEF ChaptersDone, FilesInv, Types, RowTypes, Files
<1>3. TryTypes'
  BY DEF ChaptersDone, FilesInv, Types, TryTypes
<1>4. JobTypes'
  BY DEF ChaptersDone, FilesInv, Types, JobTypes, Phases, Jobs, Goes, Over, Trigger, Triggered
<1>5. Working'
  BY DEF ChaptersDone, FilesInv, Types, Working, JobTypes, PassTypes, TmpShape, Reads, Mains, NoTmp, TmpFiles, passes, Jobs, Goes, Over, Trigger, Triggered
<1>6. SpliceSound'
  BY DEF ChaptersDone, FilesInv, Types, SpliceSound, JobTypes, DiskTypes, Files, AfterPoint, BeforePoint, Jobs, Goes, Over, Trigger, Triggered
<1>7. JoinSound'
  BY DEF ChaptersDone, FilesInv, Types, JoinSound, JobTypes, DiskTypes, Files, AfterJoin, BeforePoint, Made, Jobs, Goes, Over, Trigger, Triggered
<1>8. ChaptersSound'
  BY DEF ChaptersDone, FilesInv, Types, ChaptersSound, JobTypes, TryTypes, Jobs, Goes, Over, Trigger, Triggered
<1> QED
  BY <1>1, <1>2, <1>3, <1>4, <1>5, <1>6, <1>7, <1>8 DEF FilesInv, Types

LEMMA SplicePointKeeps ==
  ASSUME FilesInv, SplicePoint
  PROVE  FilesInv'
<1>1. DiskTypes' /\ AroundTypes' /\ PassTypes' /\ Shape' /\ TmpShape'
  BY SameDisk, SameAround, SamePasses DEF SplicePoint
<1>2. RowTypes'
  BY DEF SplicePoint, FilesInv, Types, RowTypes, Files
<1>3. TryTypes'
  BY DEF SplicePoint, FilesInv, Types, TryTypes
<1>4. JobTypes'
  BY DEF SplicePoint, FilesInv, Types, JobTypes, Phases, Jobs, Goes, Over, Trigger, Triggered
<1>5. Working'
  BY DEF SplicePoint, FilesInv, Types, Working, JobTypes, PassTypes, TmpShape, Reads, Mains, NoTmp, TmpFiles, passes, Jobs, Goes, Over, Trigger, Triggered
<1>6. Names'
  <2>1. completed /\ disk["gapless"] # {} /\ src["join"] # "gapless" /\ out # "gapless"
    BY DEF SplicePoint, Goes, FilesInv, Working, SpliceSound, BeforePoint, Jobs
  <2>2. /\ out' = "gapless" /\ full' = full /\ completed' = completed /\ disk' = disk /\ src' = src
        /\ at'["splice"] = "pointed" /\ at'["join"] = at["join"]
    BY DEF SplicePoint, Goes, FilesInv, Types, JobTypes, Jobs
  <2> QED
    BY <2>1, <2>2 DEF FilesInv, Names, RowNamesFiles
<1>7. SpliceSound'
  BY DEF SplicePoint, FilesInv, Types, SpliceSound, JobTypes, DiskTypes, Files, AfterPoint, BeforePoint, Jobs, Goes, Over, Trigger, Triggered
<1>8. JoinSound'
  <2>1. completed /\ disk["gapless"] # {} /\ src["join"] # "gapless" /\ out # "gapless"
    BY DEF SplicePoint, Goes, FilesInv, Working, SpliceSound, BeforePoint, Jobs
  <2>2. /\ out' = "gapless" /\ full' = full /\ completed' = completed /\ disk' = disk /\ src' = src
        /\ at'["splice"] = "pointed" /\ at'["join"] = at["join"]
    BY DEF SplicePoint, Goes, FilesInv, Types, JobTypes, Jobs
  <2> QED
    BY <2>1, <2>2 DEF FilesInv, JoinSound
<1>9. ChaptersSound'
  BY DEF SplicePoint, FilesInv, Types, ChaptersSound, JobTypes, TryTypes, Jobs, Goes, Over, Trigger, Triggered
<1> QED
  BY <1>1, <1>2, <1>3, <1>4, <1>5, <1>6, <1>7, <1>8, <1>9 DEF FilesInv, Types

LEMMA SpliceDoneKeeps ==
  ASSUME FilesInv, SpliceDone
  PROVE  FilesInv'
<1>1. DiskTypes' /\ AroundTypes' /\ PassTypes' /\ Shape' /\ TmpShape' /\ Names'
  BY SameDisk, SameAround, SamePasses, SameNames DEF SpliceDone
<1>2. RowTypes'
  BY DEF SpliceDone, FilesInv, Types, RowTypes, Files
<1>3. TryTypes'
  BY DEF SpliceDone, FilesInv, Types, TryTypes
<1>4. JobTypes'
  BY DEF SpliceDone, FilesInv, Types, JobTypes, Phases, Jobs, Goes, Over, Trigger, Triggered
<1>5. Working'
  BY DEF SpliceDone, FilesInv, Types, Working, JobTypes, PassTypes, TmpShape, Reads, Mains, NoTmp, TmpFiles, passes, Jobs, Goes, Over, Trigger, Triggered
<1>6. SpliceSound'
  BY DEF SpliceDone, FilesInv, Types, SpliceSound, JobTypes, DiskTypes, Files, AfterPoint, BeforePoint, Jobs, Goes, Over, Trigger, Triggered
<1>7. JoinSound'
  BY DEF SpliceDone, FilesInv, Types, JoinSound, JobTypes, DiskTypes, Files, AfterJoin, BeforePoint, Made, Jobs, Goes, Over, Trigger, Triggered
<1>8. ChaptersSound'
  BY DEF SpliceDone, FilesInv, Types, ChaptersSound, JobTypes, TryTypes, Jobs, Goes, Over, Trigger, Triggered
<1> QED
  BY <1>1, <1>2, <1>3, <1>4, <1>5, <1>6, <1>7, <1>8 DEF FilesInv, Types

LEMMA DropPatchesKeeps ==
  ASSUME FilesInv, DropPatches
  PROVE  FilesInv'
<1>1. RowTypes' /\ TryTypes' /\ AroundTypes' /\ PassTypes' /\ TmpShape'
  BY SameRow, SameAround, SamePasses DEF DropPatches
<1>2. DiskTypes'
  BY DEF DropPatches, Disposed, Parts, FilesInv, Types, DiskTypes, Files, Media, Seen
<1>3. JobTypes'
  BY DEF DropPatches, Disposed, Parts, FilesInv, Types, JobTypes, Phases, Jobs, Goes, Over, Trigger, Triggered
<1>4. Shape'
  BY DEF DropPatches, Disposed, Parts, FilesInv, Types, Shape, DiskTypes, Files
<1>5. Working'
  BY DEF DropPatches, Disposed, Parts, FilesInv, Types, Working, JobTypes, PassTypes, TmpShape, Reads, Mains, NoTmp, TmpFiles, row, passes, Jobs, Goes, Over, Trigger, Triggered
<1>6. Names'
  BY DEF DropPatches, Disposed, Parts, FilesInv, Types, Names, RowNamesFiles, DiskTypes, RowTypes, Files, row
<1>7. SpliceSound'
  BY DEF DropPatches, Disposed, Parts, FilesInv, Types, SpliceSound, JobTypes, DiskTypes, Files, AfterPoint, BeforePoint, row, Jobs, Goes, Over, Trigger, Triggered
<1>8. JoinSound'
  BY DEF DropPatches, Disposed, Parts, FilesInv, Types, JoinSound, JobTypes, DiskTypes, Files, AfterJoin, BeforePoint, Made, row, Jobs, Goes, Over, Trigger, Triggered
<1>9. ChaptersSound'
  BY DEF DropPatches, Disposed, Parts, FilesInv, Types, ChaptersSound, JobTypes, TryTypes, row, Jobs, Goes, Over, Trigger, Triggered
<1> QED
  BY <1>1, <1>2, <1>3, <1>4, <1>5, <1>6, <1>7, <1>8, <1>9 DEF FilesInv, Types

LEMMA JoinDoneKeeps ==
  ASSUME FilesInv, JoinDone
  PROVE  FilesInv'
<1>1. DiskTypes' /\ AroundTypes' /\ PassTypes' /\ Shape' /\ TmpShape'
  BY SameDisk, SameAround, SamePasses DEF JoinDone
<1>2. RowTypes'
  BY DEF JoinDone, Target, FilesInv, Types, RowTypes, Files
<1>3. TryTypes'
  BY DEF JoinDone, Target, FilesInv, Types, TryTypes
<1>4. JobTypes'
  BY DEF JoinDone, Target, FilesInv, Types, JobTypes, Phases, Jobs, Goes, Over, Trigger, Triggered
<1>5. Working'
  BY DEF JoinDone, Target, FilesInv, Types, Working, JobTypes, PassTypes, TmpShape, Reads, Mains, NoTmp, TmpFiles, passes, Jobs, Goes, Over, Trigger, Triggered
<1>6. Names'
  <2>1. /\ completed /\ full = None /\ out \in {"live", "gapless"}
        /\ disk[Made("join", src["join"])] # {}
    BY DEF JoinDone, Goes, Over, FilesInv, Types, RowTypes, Working, Names, JoinSound, BeforePoint, Jobs
  <2>2. full' = Made("join", src["join"])
    BY DEF JoinDone, Target, Made
  <2>3. full' \in {"full", "gapless.full"}
    BY <2>2 DEF Made
  <2>4. completed' = completed /\ out' = out /\ disk' = disk
    BY DEF JoinDone
  <2> QED
    BY <2>1, <2>2, <2>3, <2>4 DEF FilesInv, Names, RowNamesFiles
<1>7. SpliceSound'
  BY DEF JoinDone, Target, FilesInv, Types, SpliceSound, JobTypes, DiskTypes, Files, AfterPoint, BeforePoint, Jobs, Goes, Over, Trigger, Triggered
<1>8. JoinSound'
  BY DEF JoinDone, Target, FilesInv, Types, JoinSound, JobTypes, DiskTypes, Files, AfterJoin, BeforePoint, Made, Jobs, Goes, Over, Trigger, Triggered
<1>9. ChaptersSound'
  BY DEF JoinDone, Target, FilesInv, Types, ChaptersSound, JobTypes, TryTypes, Jobs, Goes, Over, Trigger, Triggered
<1> QED
  BY <1>1, <1>2, <1>3, <1>4, <1>5, <1>6, <1>7, <1>8, <1>9 DEF FilesInv, Types

LEMMA DropHeadKeeps ==
  ASSUME FilesInv, DropHead
  PROVE  FilesInv'
<1>1. AroundTypes' /\ PassTypes' /\ TmpShape'
  BY SameAround, SamePasses DEF DropHead
<1>2. DiskTypes'
  BY DEF DropHead, Disposed, Parts, FilesInv, Types, DiskTypes, Files, Media, Seen
<1>3. RowTypes'
  BY DEF DropHead, Disposed, Parts, FilesInv, Types, RowTypes, Files
<1>4. TryTypes'
  BY DEF DropHead, Disposed, Parts, FilesInv, Types, TryTypes
<1>5. JobTypes'
  BY DEF DropHead, Disposed, Parts, FilesInv, Types, JobTypes, Phases, Jobs, Goes, Over, Trigger, Triggered
<1>6. Shape'
  BY DEF DropHead, Disposed, Parts, FilesInv, Types, Shape, DiskTypes, Files
<1>7. Working'
  BY DEF DropHead, Disposed, Parts, FilesInv, Types, Working, JobTypes, PassTypes, TmpShape, Reads, Mains, NoTmp, TmpFiles, passes, Jobs, Goes, Over, Trigger, Triggered
<1>8. Names'
  BY DEF DropHead, Disposed, Parts, FilesInv, Types, Names, RowNamesFiles, DiskTypes, RowTypes, Files
<1>9. SpliceSound'
  BY DEF DropHead, Disposed, Parts, FilesInv, Types, SpliceSound, JobTypes, DiskTypes, Files, AfterPoint, BeforePoint, Jobs, Goes, Over, Trigger, Triggered
<1>10. JoinSound'
  BY DEF DropHead, Disposed, Parts, FilesInv, Types, JoinSound, JobTypes, DiskTypes, Files, AfterJoin, BeforePoint, Made, Jobs, Goes, Over, Trigger, Triggered
<1>11. ChaptersSound'
  BY DEF DropHead, Disposed, Parts, FilesInv, Types, ChaptersSound, JobTypes, TryTypes, Jobs, Goes, Over, Trigger, Triggered
<1> QED
  BY <1>1, <1>2, <1>3, <1>4, <1>5, <1>6, <1>7, <1>8, <1>9, <1>10, <1>11 DEF FilesInv, Types

LEMMA MainIsThereKeeps ==
  ASSUME FilesInv, MainIsThere
  PROVE  FilesInv'
<1>1. DiskTypes' /\ RowTypes' /\ TryTypes' /\ AroundTypes' /\ PassTypes' /\ Shape' /\ TmpShape' /\ Names'
  BY SameDisk, SameRow, SameAround, SamePasses, SameNames DEF MainIsThere, row
<1>2. JobTypes'
  BY DEF MainIsThere, FilesInv, Types, JobTypes, Phases, Jobs, Goes, Over, Trigger, Triggered
<1>3. Working'
  BY DEF MainIsThere, FilesInv, Types, Working, JobTypes, PassTypes, TmpShape, Reads, Mains, NoTmp, TmpFiles, row, passes, Jobs, Goes, Over, Trigger, Triggered
<1>4. SpliceSound'
  BY DEF MainIsThere, FilesInv, Types, SpliceSound, JobTypes, DiskTypes, Files, AfterPoint, BeforePoint, row, Jobs, Goes, Over, Trigger, Triggered
<1>5. JoinSound'
  BY DEF MainIsThere, FilesInv, Types, JoinSound, JobTypes, DiskTypes, Files, AfterJoin, BeforePoint, Made, row, Jobs, Goes, Over, Trigger, Triggered
<1>6. ChaptersSound'
  BY DEF MainIsThere, FilesInv, Types, ChaptersSound, JobTypes, TryTypes, row, Jobs, Goes, Over, Trigger, Triggered
<1> QED
  BY <1>1, <1>2, <1>3, <1>4, <1>5, <1>6 DEF FilesInv, Types

LEMMA MainIsGoneKeeps ==
  ASSUME FilesInv, MainIsGone
  PROVE  FilesInv'
<1>1. DiskTypes' /\ RowTypes' /\ TryTypes' /\ AroundTypes' /\ PassTypes' /\ Shape' /\ TmpShape' /\ Names'
  BY SameDisk, SameRow, SameAround, SamePasses, SameNames DEF MainIsGone, row
<1>2. JobTypes'
  BY DEF MainIsGone, FilesInv, Types, JobTypes, Phases, Jobs, Goes, Over, Trigger, Triggered
<1>3. Working'
  BY DEF MainIsGone, FilesInv, Types, Working, JobTypes, PassTypes, TmpShape, Reads, Mains, NoTmp, TmpFiles, row, passes, Jobs, Goes, Over, Trigger, Triggered
<1>4. SpliceSound'
  BY DEF MainIsGone, FilesInv, Types, SpliceSound, JobTypes, DiskTypes, Files, AfterPoint, BeforePoint, row, Jobs, Goes, Over, Trigger, Triggered
<1>5. JoinSound'
  BY DEF MainIsGone, FilesInv, Types, JoinSound, JobTypes, DiskTypes, Files, AfterJoin, BeforePoint, Made, Jobs, Goes, Over, Trigger, Triggered
<1>6. ChaptersSound'
  BY DEF MainIsGone, FilesInv, Types, ChaptersSound, JobTypes, TryTypes, row, Jobs, Goes, Over, Trigger, Triggered
<1> QED
  BY <1>1, <1>2, <1>3, <1>4, <1>5, <1>6 DEF FilesInv, Types

LEMMA JoinPointKeeps ==
  ASSUME FilesInv, JoinPoint
  PROVE  FilesInv'
<1>1. DiskTypes' /\ AroundTypes' /\ PassTypes' /\ Shape' /\ TmpShape'
  BY SameDisk, SameAround, SamePasses DEF JoinPoint
<1>2. RowTypes'
  BY DEF JoinPoint, Goes, FilesInv, Types, RowTypes, JoinSound, AfterJoin, Made, Files
<1>3. TryTypes'
  BY DEF JoinPoint, FilesInv, Types, TryTypes
<1>4. JobTypes'
  BY DEF JoinPoint, FilesInv, Types, JobTypes, Phases, Jobs, Goes, Over, Trigger, Triggered
<1>5. Working'
  BY DEF JoinPoint, FilesInv, Types, Working, JobTypes, PassTypes, TmpShape, Reads, Mains, NoTmp, TmpFiles, passes, Jobs, Goes, Over, Trigger, Triggered
<1>6. Names'
  <2>1. /\ completed /\ src["join"] \in {"live", "gapless"}
        /\ full = Made("join", src["join"]) /\ full \in {"full", "gapless.full"}
    BY DEF JoinPoint, Goes, FilesInv, Types, RowTypes, Working, JoinSound, AfterJoin, Made, Reads, Jobs
  <2>2. /\ out' = full /\ full' = full /\ completed' = completed /\ disk' = disk /\ src' = src
        /\ at'["splice"] = at["splice"] /\ at'["join"] = "dropMain"
    BY DEF JoinPoint, Goes, FilesInv, Types, JobTypes, Jobs
  <2> QED
    BY <2>1, <2>2 DEF FilesInv, Names, RowNamesFiles, Files
<1>7. SpliceSound'
  <2>1. /\ completed /\ src["join"] \in {"live", "gapless"}
        /\ full = Made("join", src["join"]) /\ full \in {"full", "gapless.full"}
    BY DEF JoinPoint, Goes, FilesInv, Types, RowTypes, Working, JoinSound, AfterJoin, Made, Reads, Jobs
  <2>2. /\ out' = full /\ full' = full /\ completed' = completed /\ disk' = disk /\ src' = src
        /\ at'["splice"] = at["splice"] /\ at'["join"] = "dropMain"
    BY DEF JoinPoint, Goes, FilesInv, Types, JobTypes, Jobs
  <2> QED
    BY <2>1, <2>2 DEF FilesInv, SpliceSound
<1>8. JoinSound'
  <2>1. /\ completed /\ src["join"] \in {"live", "gapless"}
        /\ full = Made("join", src["join"]) /\ full \in {"full", "gapless.full"}
    BY DEF JoinPoint, Goes, FilesInv, Types, RowTypes, Working, JoinSound, AfterJoin, Made, Reads, Jobs
  <2>2. /\ out' = full /\ full' = full /\ completed' = completed /\ disk' = disk /\ src' = src
        /\ at'["splice"] = at["splice"] /\ at'["join"] = "dropMain"
    BY DEF JoinPoint, Goes, FilesInv, Types, JobTypes, Jobs
  <2>3. full # src["join"]
    BY <2>1 DEF Made
  <2> QED
    BY <2>1, <2>2, <2>3 DEF FilesInv, JoinSound, BeforePoint, AfterJoin, Made
<1>9. ChaptersSound'
  BY DEF JoinPoint, FilesInv, Types, ChaptersSound, JobTypes, TryTypes, Jobs, Goes, Over, Trigger, Triggered
<1> QED
  BY <1>1, <1>2, <1>3, <1>4, <1>5, <1>6, <1>7, <1>8, <1>9 DEF FilesInv, Types

LEMMA DropMainSKeeps ==
  ASSUME FilesInv, DropMain("splice")
  PROVE  FilesInv'
<1>1. RowTypes' /\ TryTypes' /\ AroundTypes' /\ PassTypes' /\ TmpShape'
  BY SameRow, SameAround, SamePasses DEF DropMain
<1>2. DiskTypes'
  BY DEF DropMain, Disposed, Parts, Reads, FilesInv, Types, DiskTypes, Files, Media, Seen
<1>3. JobTypes'
  BY DEF DropMain, Disposed, Parts, Reads, FilesInv, Types, JobTypes, Phases, Jobs, Goes, Over, Trigger, Triggered
<1>4. Shape'
  BY DEF DropMain, Disposed, Parts, Reads, FilesInv, Types, Shape, DiskTypes, Files
<1>5. Working'
  BY DEF DropMain, Disposed, Parts, Reads, FilesInv, Types, Working, JobTypes, PassTypes, TmpShape, Mains, NoTmp, TmpFiles, row, passes, Jobs, Goes, Over, Trigger, Triggered
<1>6. Names'
  <2>1. /\ completed /\ src["splice"] = "live" /\ out # "live" /\ out \in Files
        /\ full \in {None, "full", "gapless.full"}
    BY DEF DropMain, FilesInv, Types, RowTypes, Working, Names, SpliceSound, AfterPoint, Reads, Jobs
  <2>2. \A f \in Files : f # src["splice"] => disk'[f] = disk[f]
    BY DEF DropMain, Disposed, FilesInv, Types, DiskTypes
  <2>3. disk'[out] = disk[out] /\ (full # None => disk'[full] = disk[full])
    BY <2>1, <2>2 DEF Files
  <2> QED
    BY <2>1, <2>3 DEF DropMain, row, FilesInv, Names, RowNamesFiles
<1>7. SpliceSound'
  BY DEF DropMain, Disposed, Parts, Reads, FilesInv, Types, SpliceSound, JobTypes, DiskTypes, Files, AfterPoint, BeforePoint, row, Jobs, Goes, Over, Trigger, Triggered
<1>8. JoinSound'
  <2>1. /\ completed /\ src["splice"] = "live" /\ out # "live" /\ out \in Files
        /\ full \in {None, "full", "gapless.full"}
    BY DEF DropMain, FilesInv, Types, RowTypes, Working, Names, SpliceSound, AfterPoint, Reads, Jobs
  <2>2. \A f \in Files : f # src["splice"] => disk'[f] = disk[f]
    BY DEF DropMain, Disposed, FilesInv, Types, DiskTypes
  <2>3. at'["join"] = at["join"] /\ src'["join"] = src["join"] /\ out' = out /\ full' = full
    BY DEF DropMain, Over, Triggered, row, FilesInv, Types, JobTypes, Jobs
  <2>4. Made("join", src["join"]) \in Files \ {"live"}
    BY DEF Made, Files
  <2>5. disk'[Made("join", src["join"])] = disk[Made("join", src["join"])]
    BY <2>1, <2>2, <2>4
  <2>6. Made("join", src'["join"]) = Made("join", src["join"])
    BY <2>3
  <2> QED
    BY <2>3, <2>5, <2>6 DEF FilesInv, JoinSound
<1>9. ChaptersSound'
  BY DEF DropMain, Disposed, Parts, Reads, FilesInv, Types, ChaptersSound, JobTypes, TryTypes, row, Jobs, Goes, Over, Trigger, Triggered
<1> QED
  BY <1>1, <1>2, <1>3, <1>4, <1>5, <1>6, <1>7, <1>8, <1>9 DEF FilesInv, Types

LEMMA DropMainJKeeps ==
  ASSUME FilesInv, DropMain("join")
  PROVE  FilesInv'
<1>1. RowTypes' /\ TryTypes' /\ AroundTypes' /\ PassTypes' /\ TmpShape'
  BY SameRow, SameAround, SamePasses DEF DropMain
<1>2. DiskTypes'
  BY DEF DropMain, Disposed, Parts, Reads, FilesInv, Types, DiskTypes, Files, Media, Seen
<1>3. JobTypes'
  BY DEF DropMain, Disposed, Parts, Reads, FilesInv, Types, JobTypes, Phases, Jobs, Goes, Over, Trigger, Triggered
<1>4. Shape'
  BY DEF DropMain, Disposed, Parts, Reads, FilesInv, Types, Shape, DiskTypes, Files
<1>5. Working'
  BY DEF DropMain, Disposed, Parts, Reads, FilesInv, Types, Working, JobTypes, PassTypes, TmpShape, Mains, NoTmp, TmpFiles, row, passes, Jobs, Goes, Over, Trigger, Triggered
<1>6. Names'
  <2>1. /\ completed /\ src["join"] \in {"live", "gapless"} /\ src["join"] # out
        /\ full = Made("join", src["join"]) /\ full \in {"full", "gapless.full"}
        /\ full \in Files /\ out \in Files /\ disk[full] # {} /\ disk[out] # {}
    BY DEF DropMain, FilesInv, Types, RowTypes, Working, Names, RowNamesFiles, JoinSound, AfterJoin, Made, Reads, Jobs, Files
  <2>2. \A f \in Files : f # src["join"] => disk'[f] = disk[f]
    BY DEF DropMain, Disposed, FilesInv, Types, DiskTypes
  <2>3. disk'[out] # {} /\ disk'[full] # {}
    BY <2>1, <2>2 DEF Made
  <2> QED
    BY <2>1, <2>3 DEF DropMain, row, FilesInv, Names, RowNamesFiles
<1>7. SpliceSound'
  <2>1. /\ completed /\ src["join"] \in {"live", "gapless"} /\ src["join"] # out
        /\ full = Made("join", src["join"]) /\ full \in {"full", "gapless.full"}
        /\ full \in Files /\ out \in Files /\ disk[full] # {} /\ disk[out] # {}
    BY DEF DropMain, FilesInv, Types, RowTypes, Working, Names, RowNamesFiles, JoinSound, AfterJoin, Made, Reads, Jobs, Files
  <2>2. \A f \in Files : f # src["join"] => disk'[f] = disk[f]
    BY DEF DropMain, Disposed, FilesInv, Types, DiskTypes
  <2>3. disk["gapless"] # {} => disk'["gapless"] # {} \/ src["join"] = "gapless"
    BY <2>2 DEF Files
  <2>4. src["join"] = "gapless" => disk'["gapless.full"] # {}
    BY <2>1, <2>2 DEF Made, Files
  <2>5. disk["gapless.full"] # {} => disk'["gapless.full"] # {}
    BY <2>1, <2>2 DEF Files
  <2>6. at'["splice"] = at["splice"] /\ src'["join"] = None /\ out' = out
    BY DEF DropMain, Over, Triggered, row, FilesInv, Types, JobTypes, Jobs
  <2>7. disk["gapless"] # {} => disk'["gapless"] # {} \/ disk'["gapless.full"] # {}
    BY <2>3, <2>4
  <2>8. at["splice"] = "named" => src["join"] # "gapless"
    BY DEF FilesInv, SpliceSound, BeforePoint
  <2> QED
    BY <2>3, <2>5, <2>6, <2>7, <2>8 DEF FilesInv, SpliceSound, Files
<1>8. JoinSound'
  BY DEF DropMain, Disposed, Parts, Reads, FilesInv, Types, JoinSound, JobTypes, DiskTypes, Files, AfterJoin, BeforePoint, Made, Jobs, Goes, Over, Trigger, Triggered
<1>9. ChaptersSound'
  BY DEF DropMain, Disposed, Parts, Reads, FilesInv, Types, ChaptersSound, JobTypes, TryTypes, row, Jobs, Goes, Over, Trigger, Triggered
<1> QED
  BY <1>1, <1>2, <1>3, <1>4, <1>5, <1>6, <1>7, <1>8, <1>9 DEF FilesInv, Types

LEMMA FilesInit == FInit => FilesInv
<1> SUFFICES ASSUME FInit PROVE FilesInv
  OBVIOUS
<1>1. Types
  <2>1. DiskTypes /\ RowTypes
    BY DEF FInit, DiskTypes, RowTypes, Files, Seen
  <2>2. TryTypes /\ AroundTypes
    <3>1. attempts = 0 /\ restarts = 0
      BY DEF FInit
    <3>2. 0 \in 0..MaxAttempts /\ 0 \in 0..MaxRestarts
      OBVIOUS
    <3> QED
      BY <3>1, <3>2 DEF FInit, TryTypes, AroundTypes
  <2>3. JobTypes
    BY DEF FInit, JobTypes, Phases
  <2>4. PassTypes
    BY NoTmpType DEF FInit, PassTypes
  <2> QED
    BY <2>1, <2>2, <2>3, <2>4 DEF Types
<1>2. Shape /\ TmpShape /\ Working
  BY NoTmpType DEF FInit, Shape, TmpShape, Working
<1>3. Names
  BY DEF FInit, Names, RowNamesFiles
<1>4. \A k \in Jobs : at[k] = "idle" /\ src[k] = None
  BY DEF FInit
<1>5. SpliceSound /\ JoinSound
  BY <1>4 DEF FInit, SpliceSound, JoinSound, BeforePoint, AfterPoint, AfterJoin, Jobs, Files
<1>6. ChaptersSound
  <2>1. attempts = 0
    BY DEF FInit
  <2>2. 0 < MaxAttempts
    OBVIOUS
  <2> QED
    BY <1>4, <2>1, <2>2 DEF ChaptersSound, Jobs
<1> QED
  BY <1>1, <1>2, <1>3, <1>5, <1>6 DEF FilesInv

LEMMA FilesStutter == FilesInv /\ UNCHANGED fvars => FilesInv'
<1> SUFFICES ASSUME FilesInv, UNCHANGED fvars PROVE FilesInv'
  OBVIOUS
<1>1. Types'
  BY DEF fvars, row, passes, around, FilesInv, Types, DiskTypes, RowTypes, TryTypes, AroundTypes,
    JobTypes, PassTypes
<1>2. Shape' /\ TmpShape' /\ Working'
  BY DEF fvars, row, passes, around, FilesInv, Shape, TmpShape, Working
<1>3. Names' /\ SpliceSound' /\ JoinSound' /\ ChaptersSound'
  BY DEF fvars, row, passes, around, FilesInv, Names, RowNamesFiles, SpliceSound, JoinSound,
    ChaptersSound
<1> QED
  BY <1>1, <1>2, <1>3 DEF FilesInv

LEMMA JobStepKeeps ==
  ASSUME FilesInv, NEW k \in Jobs, JobStep(k)
  PROVE  FilesInv'
BY TurnsBackKeeps, AdoptKeeps, SpawnKeeps, PassSucceedsKeeps, PassFailsKeeps, PromoteKeeps,
  DiscardKeeps, PromoteFailsKeeps DEF JobStep

LEMMA FilesStep == FilesInv /\ [FNext]_fvars => FilesInv'
<1> SUFFICES ASSUME FilesInv, [FNext]_fvars PROVE FilesInv'
  OBVIOUS
<1> "splice" \in Jobs /\ "join" \in Jobs /\ "chapters" \in Jobs
  BY DEF Jobs
<1>1. CASE SpliceStep
  BY <1>1, JobStepKeeps, ProceedsKeeps, SpliceRefusedKeeps, SplicePointKeeps, SpliceDoneKeeps,
    DropPatchesKeeps, DropMainSKeeps DEF SpliceStep, SpliceProceeds
<1>2. CASE JoinStep
  BY <1>2, JobStepKeeps, ProceedsKeeps, JoinRefusedKeeps, JoinDoneKeeps, DropHeadKeeps,
    MainIsThereKeeps, MainIsGoneKeeps, JoinPointKeeps, DropMainJKeeps DEF JoinStep
<1>3. CASE ChaptersStep
  BY <1>3, JobStepKeeps, ProceedsKeeps, ChaptersSkippedKeeps, ChaptersDoneKeeps DEF ChaptersStep
<1>4. CASE Finalize \/ GapsSettle \/ HeadStep \/ Restart
  BY <1>4, FinalizeKeeps, GapsSettleKeeps, HeadStartsKeeps, HeadLandsKeeps, HeadFailsKeeps,
    RestartKeeps DEF HeadStep
<1>5. CASE \E k \in Jobs : Sweep(k) \/ OrphanEnds(k)
  BY <1>5, SweepKeeps, OrphanEndsKeeps
<1>6. CASE UNCHANGED fvars
  BY <1>6, FilesStutter
<1> QED
  BY <1>1, <1>2, <1>3, <1>4, <1>5, <1>6 DEF FNext

\* The invariant, for any number of restarts and of attempts.
THEOREM FilesInvHolds == FSpec => []FilesInv
BY FilesInit, FilesStep, PTL DEF FSpec

-----------------------------------------------------------------------------
(* What follows from it.                                                   *)

\* The variables of TakeFiles have their types (the rows, the jobs and the
\* temporary files of gap_splice.rs, backfill.rs and chapters.rs), whatever is
\* cut short and started again; attempts never pass MAX_CHAPTERS_ATTEMPTS.
THEOREM FilesTypesHold == FSpec => []FTypeOK
<1>1. FilesInv => FTypeOK
  <2> SUFFICES ASSUME FilesInv PROVE FTypeOK
    OBVIOUS
  <2>1. DiskTypes /\ RowTypes /\ TryTypes /\ AroundTypes /\ JobTypes /\ PassTypes
    BY DEF FilesInv, Types
  <2> QED
    BY <2>1 DEF FTypeOK, DiskTypes, RowTypes, TryTypes, AroundTypes, JobTypes, PassTypes
<1> QED
  BY <1>1, FilesInvHolds, PTL

\* output_path and full_path lead to a file once the take is completed,
\* whatever the clean-ups of the splice and of the join remove meanwhile.
THEOREM NamedFilesExist == FSpec => []RowNamesFiles
<1>1. FilesInv => RowNamesFiles
  BY DEF FilesInv, Names
<1> QED
  BY <1>1, FilesInvHolds, PTL

\* No file of the take has a head or patches in it twice.
THEOREM NothingIsThereTwice == FSpec => []NothingTwice
<1>1. FilesInv => NothingTwice
  <2> SUFFICES ASSUME FilesInv, NEW f \in Files PROVE "twice" \notin disk[f]
    BY DEF NothingTwice
  <2>1. disk[f] = {} \/ disk[f] \ {"chapters"} = Parts(f)
    BY DEF FilesInv, Shape
  <2>2. "twice" \notin Parts(f)
    BY DEF Parts, Files
  <2> QED
    BY <2>1, <2>2
<1> QED
  BY <1>1, FilesInvHolds, PTL

-----------------------------------------------------------------------------
(* Nothing is lost: what a step removes is in a file it leaves.            *)

LEMMA KeptElsewhere ==
  ASSUME \A f \in Files : \A m \in disk[f] \cap Media : \E g \in Files : m \in disk'[g]
  PROVE  Kept \cap Media \subseteq Kept'
BY DEF Kept

LEMMA Contents ==
  ASSUME FilesInv, NEW f \in Files
  PROVE  /\ disk[f] \cap Media \subseteq Parts(f)
         /\ disk[f] # {} => Parts(f) \subseteq disk[f]
<1>1. disk[f] = {} \/ disk[f] \ {"chapters"} = Parts(f)
  BY DEF FilesInv, Shape
<1> QED
  BY <1>1 DEF Media, Parts, Files

\* A file that is replaced or made carries all that is known by its name.
LEMMA MadeKeeps ==
  ASSUME FilesInv, FilesInv', NEW f \in Files, disk'[f] # {},
         \A g \in Files : g # f => disk'[g] = disk[g]
  PROVE  Kept \cap Media \subseteq Kept'
<1>1. disk'[f] = {} \/ disk'[f] \ {"chapters"} = Parts(f)
  BY DEF FilesInv, Shape, Parts
<1>2. disk[f] \cap Media \subseteq disk'[f]
  BY <1>1, Contents
<1> QED
  BY <1>2, KeptElsewhere

\* A file that is disposed of leaves another with all that is in it.
LEMMA DisposedKeeps ==
  ASSUME FilesInv, NEW f \in Files, Disposed(f), NEW g \in Files, g # f, disk[g] # {},
         Parts(f) \subseteq Parts(g)
  PROVE  Kept \cap Media \subseteq Kept'
<1>1. disk \in [Files -> Seen]
  BY DEF FilesInv, Types, DiskTypes
<1>2. \A h \in Files : h # f => disk'[h] = disk[h]
  BY <1>1 DEF Disposed
<1>3. disk[f] \cap Media \subseteq disk[g]
  BY Contents
<1> QED
  BY <1>2, <1>3, KeptElsewhere

LEMMA NothingLostStep ==
  ASSUME FilesInv, FilesInv', [FNext]_fvars
  PROVE  Kept \cap Media \subseteq Kept'
<1> DEFINE Same == disk' = disk
<1> USE DEF Same
<1>0. disk \in [Files -> Seen]
  BY DEF FilesInv, Types, DiskTypes
<1>1. ASSUME Same PROVE Kept \cap Media \subseteq Kept'
  BY <1>1, KeptElsewhere
<1>2. CASE Finalize
  <2>1. disk'["live"] # {} /\ \A g \in Files : g # "live" => disk'[g] = disk[g]
    BY <1>0, <1>2 DEF Finalize, Files
  <2> QED
    BY <2>1, MadeKeeps DEF Files
<1>3. CASE HeadLands
  <2>1. disk'["head"] # {} /\ \A g \in Files : g # "head" => disk'[g] = disk[g]
    BY <1>0, <1>3 DEF HeadLands, Files
  <2> QED
    BY <2>1, MadeKeeps DEF Files
<1>4. CASE GapsSettle
  <2>1. Same \/ (disk'["patch"] # {} /\ \A g \in Files : g # "patch" => disk'[g] = disk[g])
    BY <1>0, <1>4 DEF GapsSettle, Files
  <2> QED
    BY <2>1, <1>1, MadeKeeps DEF Files
<1>5. ASSUME NEW k \in Jobs, Promote(k) PROVE Kept \cap Media \subseteq Kept'
  <2>1. /\ src[k] \in Reads(k) /\ tmp[k].has # {} /\ tmp[k].of = src[k]
        /\ (k = "chapters" => tmp[k].st = "whole")
    BY <1>5 DEF Promote, Goes, FilesInv, Working
  <2>2. Landed(k) # {} /\ Target(k) \in Files
    BY <1>5, <2>1 DEF Landed, Promote, Verified, Target, Reads, Mains, Files, Jobs
  <2>3. disk'[Target(k)] # {} /\ \A g \in Files : g # Target(k) => disk'[g] = disk[g]
    BY <1>0, <1>5, <2>2 DEF Promote
  <2> QED
    BY <2>2, <2>3, MadeKeeps
<1>6. CASE DropPatches
  <2>1. disk["gapless"] # {} \/ disk["gapless.full"] # {}
    BY <1>6 DEF DropPatches, Goes, FilesInv, SpliceSound, AfterPoint
  <2>2. Disposed("patch")
    BY <1>6 DEF DropPatches
  <2> QED
    BY <2>1, <2>2, DisposedKeeps DEF Parts, Files
<1>7. CASE DropMain("splice")
  <2>1. src["splice"] = "live" /\ (disk["gapless"] # {} \/ disk["gapless.full"] # {})
    BY <1>7 DEF DropMain, FilesInv, Working, SpliceSound, AfterPoint, Reads, Jobs
  <2>2. Disposed("live")
    BY <1>7, <2>1 DEF DropMain
  <2> QED
    BY <2>1, <2>2, DisposedKeeps DEF Parts, Files
<1>8. CASE DropMain("join")
  <2>1. /\ src["join"] \in {"live", "gapless"} /\ full = Made("join", src["join"])
        /\ completed /\ RowNamesFiles
    BY <1>8 DEF DropMain, FilesInv, Working, Names, JoinSound, AfterJoin, Reads, Jobs
  <2>2. full \in {"full", "gapless.full"} /\ disk[full] # {}
    BY <2>1 DEF Made, RowNamesFiles, Files
  <2>3. Parts(src["join"]) \subseteq Parts(full) /\ full # src["join"]
    BY <2>1 DEF Made, Parts
  <2>4. src["join"] \in Files /\ full \in Files
    BY <2>1, <2>2 DEF Files
  <2>5. Disposed(src["join"])
    BY <1>8 DEF DropMain
  <2> QED
    BY <2>2, <2>3, <2>4, <2>5, DisposedKeeps
<1>9. CASE DropHead
  <2>1. /\ src["join"] \in {"live", "gapless"} /\ full = Made("join", src["join"])
        /\ completed /\ RowNamesFiles
    BY <1>9 DEF DropHead, Goes, FilesInv, Working, Names, JoinSound, AfterJoin, Reads, Jobs
  <2>2. full \in {"full", "gapless.full"} /\ disk[full] # {}
    BY <2>1 DEF Made, RowNamesFiles, Files
  <2>3. Disposed("head")
    BY <1>9 DEF DropHead
  <2> QED
    BY <2>2, <2>3, DisposedKeeps DEF Parts, Files
<1>10. ASSUME NEW k \in Jobs,
              \/ TurnsBack(k) \/ Adopt(k) \/ Spawn(k) \/ PassSucceeds(k) \/ PassFails(k)
              \/ Discard(k) \/ PromoteFails(k) \/ Sweep(k) \/ OrphanEnds(k) \/ Proceeds(k)
       PROVE  Same
  BY <1>10 DEF TurnsBack, Adopt, Spawn, PassSucceeds, PassFails, Discard, PromoteFails, Sweep,
    OrphanEnds, Proceeds
<1>11. CASE \/ SpliceRefused \/ JoinRefused \/ ChaptersSkipped \/ ChaptersDone \/ SplicePoint
            \/ SpliceDone \/ JoinDone \/ MainIsThere \/ MainIsGone \/ JoinPoint
            \/ HeadStarts \/ HeadFails \/ Restart
  <2>1. Same
    BY <1>11 DEF SpliceRefused, JoinRefused, ChaptersSkipped, ChaptersDone, SplicePoint, SpliceDone,
      JoinDone, MainIsThere, MainIsGone, JoinPoint, HeadStarts, HeadFails, Restart
  <2> QED
    BY <2>1, <1>1
<1>12. CASE UNCHANGED fvars
  BY <1>12, <1>1 DEF fvars
<1> HIDE DEF Same
<1>13. ASSUME NEW k \in Jobs, JobStep(k) PROVE Kept \cap Media \subseteq Kept'
  BY <1>13, <1>1, <1>5, <1>10 DEF JobStep
<1> "splice" \in Jobs /\ "join" \in Jobs /\ "chapters" \in Jobs
  BY DEF Jobs
<1>14. CASE SpliceStep
  BY <1>14, <1>1, <1>6, <1>7, <1>10, <1>11, <1>13 DEF SpliceStep, SpliceProceeds
<1>15. CASE JoinStep
  BY <1>15, <1>1, <1>8, <1>9, <1>10, <1>11, <1>13 DEF JoinStep
<1>16. CASE ChaptersStep
  BY <1>16, <1>1, <1>10, <1>11, <1>13 DEF ChaptersStep
<1>17. CASE \E k \in Jobs : Sweep(k) \/ OrphanEnds(k)
  BY <1>17, <1>1, <1>10
<1> QED
  BY <1>2, <1>3, <1>4, <1>11, <1>12, <1>14, <1>15, <1>16, <1>17 DEF FNext, HeadStep

\* What was recorded, fetched or recovered stays in some file of the take: the
\* clean-ups after the splice (gap_splice.rs) and after the join (backfill.rs),
\* with the settings read while they run, never remove the last copy.
THEOREM NothingGetsLost == FSpec => NothingIsLost
<1>1. FilesInv /\ FilesInv' /\ [FNext]_fvars => [Kept \cap Media \subseteq Kept']_fvars
  BY NothingLostStep
<1> QED
  BY <1>1, FilesInvHolds, PTL DEF FSpec, NothingIsLost
=============================================================================
