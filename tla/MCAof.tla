------------------------------- MODULE MCAof -------------------------------
(* Aof for TLC: the constants are given values in the cfg files. *)
EXTENDS AofInvariant

=============================================================================
