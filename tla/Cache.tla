------------------------------- MODULE Cache -------------------------------
(***************************************************************************)
(* The cache of src/cache/cache.c as operators: each takes the state of a  *)
(* cache_t and returns the state that the C function leaves behind.  The   *)
(* index, the LRU list, the expiration heap, the memory account and the    *)
(* key counts are kept separately, as in the code, so that they can        *)
(* disagree.                                                               *)
(*                                                                         *)
(* A value is its length; a string is one item, a Hash or a sorted set is  *)
(* one item for each field or member.  Memory is counted in units: the     *)
(* capacity of the items and Overhead for the entry.  Allocations succeed. *)
(***************************************************************************)
EXTENDS Integers, Sequences, FiniteSets, FiniteSetsExt, TLC

CONSTANTS
    MaxKeys,    \* config.max_keys, 0 for no limit
    MaxMemory,  \* config.max_memory, 0 for no limit
    Overhead    \* charge of an entry and its index node

ASSUME CacheAssumption ==
    MaxKeys \in Nat /\ MaxMemory \in Nat /\ Overhead \in Nat \ {0}

None == "none"    \* a NULL pointer to an entry
Whole == "whole"  \* the name of a string's only item

Types == {"string", "hash", "zset"}

lru_enabled == MaxKeys # 0 \/ MaxMemory # 0

-----------------------------------------------------------------------------
(* Objects *)

ItemCapacity(type, v) == IF type = "zset" THEN 1 ELSE v

NewItem(type, v) == [value |-> v, capacity |-> ItemCapacity(type, v)]

NewObject(type, values) ==
    [type |-> type,
     items |-> [f \in DOMAIN values |-> NewItem(type, values[f])]]

NewString(v) == NewObject("string", Whole :> v)

Values(object) == [f \in DOMAIN object.items |-> object.items[f].value]

\* A copy holds the same values without spare capacity.
Clone(object) == NewObject(object.type, Values(object))

\* A value that fits is written over the old one, which keeps its capacity.
PutItem(object, f, v) ==
    IF f \in DOMAIN object.items /\ (\/ object.type = "zset"
                                     \/ v <= object.items[f].capacity)
    THEN [object.items[f] EXCEPT !.value = v]
    ELSE NewItem(object.type, v)

PutItems(object, values) ==
    [object EXCEPT !.items =
        [f \in DOMAIN object.items \cup DOMAIN values |->
            IF f \in DOMAIN values THEN PutItem(object, f, values[f])
                                   ELSE object.items[f]]]

Changes(object, values) ==
    \E f \in DOMAIN values :
        f \notin DOMAIN object.items \/ object.items[f].value # values[f]

DropItems(object, fields) ==
    [object EXCEPT !.items =
        [f \in DOMAIN object.items \ fields |-> object.items[f]]]

entry_memory_charge(object) ==
    Overhead + MapThenSumSet(LAMBDA f : object.items[f].capacity,
                             DOMAIN object.items)

object_item_count(object) ==
    IF object.type = "string" THEN 0 ELSE Cardinality(DOMAIN object.items)

-----------------------------------------------------------------------------
(* The expiration heap: positions count from 1, 0 is CACHE_HEAP_NONE. *)

heap_less(c, i, j) ==
    c.index[c.heap[i]].expire_at < c.index[c.heap[j]].expire_at

heap_swap(c, i, j) ==
    [c EXCEPT !.heap = [@ EXCEPT ![i] = c.heap[j], ![j] = c.heap[i]],
              !.index = [@ EXCEPT ![c.heap[j]].heap_index = i,
                                  ![c.heap[i]].heap_index = j]]

RECURSIVE heap_sift_up(_, _)
heap_sift_up(c, i) ==
    IF i > 1 /\ heap_less(c, i, i \div 2)
    THEN heap_sift_up(heap_swap(c, i, i \div 2), i \div 2)
    ELSE c

\* Mutant of heap_sift_down: the right child is not looked at.
RECURSIVE heap_sift_down_left(_, _)
heap_sift_down_left(c, i) ==
    IF 2 * i <= Len(c.heap) /\ heap_less(c, 2 * i, i)
    THEN heap_sift_down_left(heap_swap(c, i, 2 * i), 2 * i)
    ELSE c

RECURSIVE heap_sift_down(_, _)
heap_sift_down(c, i) ==
    LET Smaller(child, best) ==
            IF child <= Len(c.heap) /\ heap_less(c, child, best)
            THEN child ELSE best
        smallest == Smaller(2 * i + 1, Smaller(2 * i, i))
    IN  IF smallest = i THEN c
        ELSE heap_sift_down(heap_swap(c, i, smallest), smallest)

\* Mutant of heap_expiration_changed: the entry only moves down.
heap_expiration_down(c, i) == heap_sift_down(c, i)

heap_expiration_changed(c, i) ==
    IF i > 1 /\ heap_less(c, i, i \div 2)
    THEN heap_sift_up(c, i)
    ELSE heap_sift_down(c, i)

heap_insert_reserved(c, k) ==
    LET n == Len(c.heap) + 1
    IN  heap_sift_up([c EXCEPT !.heap = Append(@, k),
                               !.index[k].heap_index = n], n)

\* The last entry takes the place of the removed one and moves up or down.
heap_remove_at(c, i) ==
    LET n == Len(c.heap)
        last == c.heap[n]
        d == [c EXCEPT !.heap = SubSeq(@, 1, n - 1),
                       !.index[c.heap[i]].heap_index = 0]
    IN  IF i = n THEN d
        ELSE heap_expiration_changed(
                 [d EXCEPT !.heap[i] = last, !.index[last].heap_index = i], i)

-----------------------------------------------------------------------------
(* The LRU list, most recent first *)

lru_unlink(c, k) ==
    IF lru_enabled
    THEN [c EXCEPT !.lru = SelectSeq(@, LAMBDA x : x # k)]
    ELSE c

lru_link_head(c, k) ==
    IF lru_enabled THEN [c EXCEPT !.lru = <<k>> \o @] ELSE c

lru_touch(c, k) == lru_link_head(lru_unlink(c, k), k)

-----------------------------------------------------------------------------
(* Entries *)

Present(c, k) == k \in DOMAIN c.index

Expired(entry, now) == entry.expire_at # 0 /\ now >= entry.expire_at

stats_add_object(c, type, items) ==
    [c EXCEPT !.keys_of[type] = @ + 1, !.items_of[type] = @ + items]

stats_remove_object(c, type, items) ==
    [c EXCEPT !.keys_of[type] = @ - 1, !.items_of[type] = @ - items]

\* aof_append, when the service has an AOF.
LogRecord(c, record) ==
    IF c.attached THEN [c EXCEPT !.journal = Append(@, record)] ELSE c

\* Mutant of record_eviction: the eviction is not logged.
record_eviction_silent(c, k) == [c EXCEPT !.evicted = Append(@, k)]

\* The on_evict callback is record_eviction of the service.
record_eviction(c, k) ==
    LogRecord([c EXCEPT !.evicted = Append(@, k)], [op |-> "DEL", key |-> k])

\* Mutant of ForgetHot: the hot entry is not forgotten.
ForgetHotNever(c, k) == c

ForgetHot(c, k) == IF c.hot = k THEN [c EXCEPT !.hot = None] ELSE c

LeaveHeap(c, k) ==
    IF c.index[k].heap_index # 0
    THEN heap_remove_at(c, c.index[k].heap_index)
    ELSE c

LeaveIndex(c, k) ==
    LET e == c.index[k]
    IN  [stats_remove_object(c, e.object.type, e.object_items) EXCEPT
            !.index = [x \in DOMAIN @ \ {k} |-> @[x]],
            !.used_memory = @ - e.memory_charge]

\* An eviction is told to the service before the entry is taken apart.
entry_remove(c, k, reason) ==
    LET Told(d) == IF reason = "evicted" THEN record_eviction(d, k) ELSE d
    IN  LeaveIndex(lru_unlink(LeaveHeap(Told(ForgetHot(c, k)), k), k), k)

find_live(c, k, now) ==
    IF Present(c, k) /\ Expired(c.index[k], now)
    THEN entry_remove(c, k, "expired")
    ELSE c

\* A lookup that misses the hot entry remembers what it finds.
find_live_hash(c, k, now) ==
    LET Remember(d) == [d EXCEPT !.hot = IF Present(d, k) THEN k ELSE None]
    IN  IF c.hot = k THEN find_live(c, k, now)
                     ELSE Remember(find_live(c, k, now))

limits_exceeded(keys, memory) ==
    \/ MaxKeys # 0 /\ keys > MaxKeys
    \/ MaxMemory # 0 /\ memory > MaxMemory

\* Mutant of eviction_candidate: the list is read from the wrong end.
eviction_candidate_hot(c, protected) ==
    LET others == SelectSeq(c.lru, LAMBDA x : x # protected)
    IN  IF others = <<>> THEN None ELSE others[1]

eviction_candidate(c, protected) ==
    LET others == SelectSeq(c.lru, LAMBDA x : x # protected)
    IN  IF others = <<>> THEN None ELSE others[Len(others)]

\* The loop that removes entries other than k until the limits hold for the
\* memory in use and the growth still to come.  ok is FALSE when there is
\* nothing left to remove.
RECURSIVE MakeRoom(_, _, _, _)
MakeRoom(c, k, growth, now) ==
    LET victim == eviction_candidate(c, k)
    IN  IF ~limits_exceeded(Cardinality(DOMAIN c.index),
                            c.used_memory + growth)
        THEN [cache |-> c, ok |-> TRUE]
        ELSE IF victim = None THEN [cache |-> c, ok |-> FALSE]
        ELSE MakeRoom(entry_remove(c, victim,
                                   IF Expired(c.index[victim], now)
                                   THEN "expired" ELSE "evicted"),
                      k, growth, now)

\* Moves the entry into, out of or within the heap.
SetExpiration(c, k, expire_at) ==
    LET e == c.index[k]
        set == [c EXCEPT !.index[k].expire_at = expire_at]
    IN  IF e.expire_at # 0 /\ expire_at = 0
        THEN [heap_remove_at(c, e.heap_index) EXCEPT
                 !.index[k].expire_at = 0]
        ELSE IF e.expire_at = 0 /\ expire_at # 0
        THEN heap_insert_reserved(set, k)
        ELSE IF expire_at # 0
        THEN heap_expiration_changed(set, e.heap_index)
        ELSE c

-----------------------------------------------------------------------------
(* The functions of cache.h; result is a CACHE_SET_ code or a count. *)

NewCache(attached) ==
    [index |-> <<>>, lru |-> <<>>, heap |-> <<>>, used_memory |-> 0,
     keys_of |-> [t \in Types |-> 0], items_of |-> [t \in Types |-> 0],
     hot |-> None, evicted |-> <<>>, attached |-> attached,
     journal |-> <<>>]

\* Mutant of TooLarge: an object may fill memory twice.
TooLargeTwice(object) ==
    MaxMemory # 0 /\ entry_memory_charge(object) > 2 * MaxMemory

TooLarge(object) ==
    MaxMemory # 0 /\ entry_memory_charge(object) > MaxMemory

UpdateInPlace(c, k, object, expire_at) ==
    lru_touch(SetExpiration([c EXCEPT !.index[k].object =
                                PutItems(@, Values(object))],
                            k, expire_at), k)

\* The object of entry k is exchanged and the account settled.
Exchange(c, k, object) ==
    LET e == c.index[k]
        charge == entry_memory_charge(object)
        items == object_item_count(object)
    IN  [stats_add_object(stats_remove_object(c, e.object.type,
                                              e.object_items),
                          object.type, items) EXCEPT
            !.used_memory = @ - e.memory_charge + charge,
            !.index[k] = [@ EXCEPT !.object = object,
                                   !.object_items = items,
                                   !.memory_charge = charge]]

RoomToReplace(c, k, object, now) ==
    MakeRoom(c, k,
             entry_memory_charge(object) - c.index[k].memory_charge, now)

ReplaceObject(c, k, object, expire_at, now) ==
    LET Replace(room) ==
            IF room.ok
            THEN [cache |-> lru_touch(
                                SetExpiration(Exchange(room.cache, k, object),
                                              k, expire_at), k),
                  result |-> "OK"]
            ELSE [cache |-> room.cache, result |-> "CAPACITY"]
    IN  Replace(RoomToReplace(c, k, object, now))

NewEntry(object, expire_at) ==
    [object |-> object, object_items |-> object_item_count(object),
     memory_charge |-> entry_memory_charge(object),
     expire_at |-> expire_at, heap_index |-> 0]

LinkEntry(c, k, entry) ==
    LET Schedule(d) == IF entry.expire_at # 0 THEN heap_insert_reserved(d, k)
                                              ELSE d
        indexed == [c EXCEPT !.index = k :> entry @@ @,
                             !.used_memory = @ + entry.memory_charge]
    IN  Schedule(lru_link_head(stats_add_object(indexed, entry.object.type,
                                                entry.object_items), k))

\* The entry is linked first; when no room can be made it is taken out again.
InsertObject(c, k, object, expire_at, now) ==
    LET Keep(room) ==
            IF room.ok
            THEN [cache |-> room.cache, result |-> "OK"]
            ELSE [cache |-> entry_remove(room.cache, k, "normal"),
                  result |-> "CAPACITY"]
    IN  Keep(MakeRoom(LinkEntry(c, k, NewEntry(object, expire_at)),
                      k, 0, now))

\* The part of cache_store_object after find_live.
StoreLive(c, k, object, expire_at_ms, preserve_existing_ttl, now) ==
    LET e == c.index[k]
        expire_at == IF preserve_existing_ttl THEN e.expire_at
                                              ELSE expire_at_ms
        fits == /\ e.object.type = "string" /\ object.type = "string"
                /\ object.items[Whole].value <= e.object.items[Whole].capacity
    IN  IF ~Present(c, k)
        THEN InsertObject(c, k, object, expire_at_ms, now)
        ELSE IF fits
        THEN [cache |-> UpdateInPlace(c, k, object, expire_at),
              result |-> "OK"]
        ELSE ReplaceObject(c, k, object, expire_at, now)

cache_store_object(c, k, object, expire_at_ms, preserve_existing_ttl, now) ==
    IF TooLarge(object)
    THEN [cache |-> c, result |-> "CAPACITY"]
    ELSE StoreLive(find_live(c, k, now), k, object, expire_at_ms,
                   preserve_existing_ttl, now)

\* Mutant of cache_get_object_ref: a read does not count as a use.
cache_get_object_untouched(c, k, now) == find_live(c, k, now)

\* The lookups that count as a use of the key.
Use(c, k) == IF Present(c, k) THEN lru_touch(c, k) ELSE c

cache_get_object_ref(c, k, now) == Use(find_live(c, k, now), k)

cache_get_hash_object_ref(c, k, now) == Use(find_live_hash(c, k, now), k)

\* Mutant of cache_recharge_ref: the account is not settled.
cache_recharge_unsettled(c, k, time) ==
    [cache |-> lru_touch(c, k), result |-> "OK"]

\* After the object of k was changed in place.  An entry without a deadline
\* compares the deadlines of its victims with time 0.
cache_recharge_ref(c, k, time) ==
    LET e == c.index[k]
        now == IF e.expire_at # 0 THEN time ELSE 0
        Recharge(room) ==
            IF room.ok
            THEN [cache |-> lru_touch(Exchange(room.cache, k, e.object), k),
                  result |-> "OK"]
            ELSE [cache |-> room.cache, result |-> "CAPACITY"]
    IN  IF Expired(e, now) THEN [cache |-> c, result |-> "ERROR"]
        ELSE IF TooLarge(e.object) THEN [cache |-> c, result |-> "CAPACITY"]
        ELSE Recharge(RoomToReplace(c, k, e.object, now))

cache_delete(c, k, now) ==
    LET Delete(d) ==
            IF Present(d, k)
            THEN [cache |-> entry_remove(d, k, "normal"), result |-> 1]
            ELSE [cache |-> d, result |-> 0]
    IN  Delete(find_live(c, k, now))

cache_expire_at(c, k, expire_at, now) ==
    LET Schedule(d) ==
            IF Present(d, k)
            THEN [cache |-> SetExpiration(d, k, expire_at), result |-> 1]
            ELSE [cache |-> d, result |-> 0]
    IN  Schedule(find_live(c, k, now))

cache_persist(c, k, now) ==
    LET Unschedule(d) ==
            IF Present(d, k) /\ d.index[k].expire_at # 0
            THEN [cache |-> SetExpiration(d, k, 0), result |-> 1]
            ELSE [cache |-> d, result |-> 0]
    IN  Unschedule(find_live(c, k, now))

RECURSIVE cache_maintain(_, _, _)
cache_maintain(c, budget, now) ==
    IF budget > 0 /\ c.heap # <<>> /\ c.index[c.heap[1]].expire_at <= now
    THEN cache_maintain(entry_remove(c, c.heap[1], "expired"),
                        budget - 1, now)
    ELSE c

=============================================================================
