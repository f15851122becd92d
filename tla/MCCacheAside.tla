---------------------------- MODULE MCCacheAside ----------------------------
(* CacheAside for TLC: the constants are given values in the cfg file. *)
EXTENDS CacheAsideInvariant

\* Clients are only compared with each other.
Symmetry == Permutations(Clients)

=============================================================================
