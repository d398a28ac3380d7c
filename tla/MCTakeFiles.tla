----------------------------- MODULE MCTakeFiles -----------------------------
(* Small instances of TakeFiles for TLC. *)
EXTENDS TakeFiles
=============================================================================
