---------------------------- MODULE MCPotServer -----------------------------
(* Small instances of PotServer for TLC. *)
EXTENDS PotServer, TLC

CONSTANTS s1, s2, s3, s4

FourServers == {s1, s2, s3, s4}
=============================================================================
