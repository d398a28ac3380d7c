------------------------------ MODULE MCIoGate ------------------------------
(* Small instances of IoGate for TLC. *)
EXTENDS IoGate, TLC

CONSTANTS p1, p2, p3

ThreePasses == {p1, p2, p3}
\* 0 counts as 1.
OneOrTwo == {0, 2}
OneOrThree == {0, 3}

Symmetry == Permutations(Passes)

\* A drive where a save and a tick of the adjuster do not overlap: each
\* starts only when the other is over.
TakeTurns == save'.at = "idle" \/ tick'.at = "idle"
TurnsNext == GNext /\ TakeTurns
TurnsLiveSpec == GInit /\ [][TurnsNext]_gvars /\ GFairness
=============================================================================
