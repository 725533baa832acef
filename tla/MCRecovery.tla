----------------------------- MODULE MCRecovery -----------------------------
(* Instances of Recovery for TLC. *)
EXTENDS Recovery

CONSTANTS k1, k2

TwoShards == <<k1, k2>>
=============================================================================
