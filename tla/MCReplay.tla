------------------------------ MODULE MCReplay ------------------------------
(* Replay for TLC: the constants are given values in the cfg files. *)
EXTENDS Replay

\* Keys are only compared with each other.
Symmetry == Permutations(Keys)

=============================================================================
