------------------------------ MODULE HashMap ------------------------------
(***************************************************************************)
(* What kvstore_hash.c promises its callers (engine/hash.h): a map from    *)
(* keys to payloads.  Growth, incremental rehashing and the two bucket     *)
(* arrays are invisible, and an operation that fails changes nothing.      *)
(***************************************************************************)
CONSTANTS Keys,         \* keys a caller may use
          Values,       \* payloads a caller may store
          NoCall        \* no call has been answered

VARIABLES map,          \* the keys held, each with its payload
          call          \* the call just made and its answer, until taken

mapVars == <<map, call>>

Holding(k) == k \in DOMAIN map

(* Operation op is called on key k and answered. *)
Called(op, k) ==
    /\ call = NoCall
    /\ call' # NoCall
    /\ call' = [op |-> op, key |-> k, answer |-> call'.answer]

Get(k) ==
    /\ Called("get", k)
    /\ call'.answer = IF Holding(k) THEN map[k] ELSE "missing"
    /\ UNCHANGED map

Stored(k) ==
    /\ call'.answer = "ok"
    /\ \E v \in Values :
          map' = [j \in DOMAIN map \cup {k} |-> IF j = k THEN v ELSE map[j]]

(* Memory may run out whenever something has to be stored. *)
Failed == call'.answer = "error" /\ UNCHANGED map

(* Only upsert and modify replace a payload, and modify does nothing else. *)
Set(k) ==
    /\ Called("set", k)
    /\ IF Holding(k) THEN call'.answer = "exists" /\ UNCHANGED map
                     ELSE Stored(k) \/ Failed

Upsert(k) == Called("upsert", k) /\ (Stored(k) \/ Failed)

Modify(k) == Called("modify", k) /\ ((Holding(k) /\ Stored(k)) \/ Failed)

Delete(k) ==
    /\ Called("delete", k)
    /\ call'.answer = IF Holding(k) THEN "ok" ELSE "missing"
    /\ map' = [j \in DOMAIN map \ {k} |-> map[j]]

Clear == map' = <<>> /\ UNCHANGED call

Return == call' = NoCall /\ UNCHANGED map

MapInit == map = <<>> /\ call = NoCall

MapNext ==
    \/ Return
    \/ call = NoCall /\ Clear
    \/ \E k \in Keys : Get(k) \/ Set(k) \/ Upsert(k) \/ Modify(k) \/ Delete(k)

MapSpec == MapInit /\ [][MapNext]_mapVars

=============================================================================
