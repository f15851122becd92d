----------------------------- MODULE MCService -----------------------------
(* Service for TLC: the constants are given values in the cfg files. *)
EXTENDS Service

\* Keys are only compared with each other.
Symmetry == Permutations(Keys)

=============================================================================
