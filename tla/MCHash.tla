------------------------------- MODULE MCHash -------------------------------
(***************************************************************************)
(* The hash table with four slots at first: the fourth of five keys makes  *)
(* it grow.  Three keys share a bucket of the small table; growth parts    *)
(* one of them from the other two.                                         *)
(***************************************************************************)
EXTENDS HashInvariant

MCKeys == 1..5

MCHashCode == <<0, 4, 8, 1, 6>>

=============================================================================
