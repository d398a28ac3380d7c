-------------------------- MODULE MCRecoveryClaims --------------------------
(* Small instances of RecoveryClaims for TLC. *)
EXTENDS RecoveryClaims

CONSTANT m1

OneMonitor == {m1}
NoMonitor == {}
OneTake == 1..1
=============================================================================
