--------------------------- MODULE MCRetentionSweep ---------------------------
(* RetentionSweep with small numbers for TLC. *)
EXTENDS RetentionSweep

MCIdentity == 1..2
MCToken == 1..1
=============================================================================
