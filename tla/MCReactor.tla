----------------------------- MODULE MCReactor -----------------------------
(* Reactor for TLC: the constants are given values in the cfg files. *)
EXTENDS ReactorInvariant

=============================================================================
