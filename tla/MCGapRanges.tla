----------------------------- MODULE MCGapRanges -----------------------------
(* Small instances of GapRanges for TLC. *)
EXTENDS GapRanges
=============================================================================
