----------------------------- MODULE MCRecovery -----------------------------
(* Recovery for TLC: the constants are given values in the cfg files. *)
EXTENDS Recovery

=============================================================================
