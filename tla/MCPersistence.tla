---------------------------- MODULE MCPersistence ----------------------------
(* Persistence for TLC: the constants are given values in the cfg files. *)
EXTENDS PersistenceInvariant

=============================================================================
