------------------------------ MODULE Service ------------------------------
(***************************************************************************)
(* The commands of src/service/kvstore_resp_service.c on the cache, with   *)
(* the records they append to the AOF, while the AOF accepts them (Aof and *)
(* Reactor have the writer, its failures and the barriers).                *)
(*                                                                         *)
(* The Reactor thread runs one command at a time, but the wall clock moves *)
(* while a command runs: its first reading of the clock is now, the        *)
(* readings it takes after that are later.                                 *)
(***************************************************************************)
EXTENDS Cache

CONSTANTS
    Keys,
    Collections,   \* the collection types in use, of "hash" and "zset"
    Fields,        \* fields of a Hash, members of a sorted set
    Lengths,       \* the values that clients write
    Ttls,          \* the TTLs that clients ask for
    AofAttached,   \* does the service have an AOF
    ExpireBudget,  \* keys that one maintenance round may expire
    MaxClock,      \* bound: the last instant
    MaxJournal     \* bound: commands run while the AOF is shorter

ASSUME ServiceAssumption ==
    /\ Collections \subseteq {"hash", "zset"}
    /\ Lengths \subseteq Nat \ {0} /\ Ttls \subseteq Nat \ {0}
    /\ AofAttached \in BOOLEAN /\ ExpireBudget \in Nat \ {0}
    /\ MaxClock \in Nat \ {0} /\ MaxJournal \in Nat

VARIABLES
    cache,    \* the cache_t and the AOF that the service writes to
    clock,    \* CLOCK_REALTIME, which starts at 1
    reply,    \* the reply to the last command
    recency   \* the keys that are present, the last used one first, when the
              \* cache has a limit

vars == <<cache, clock, reply, recency>>

-----------------------------------------------------------------------------
(* The commands: the cache they leave and their reply. *)

Reply(c, answer) == [cache |-> c, reply |-> answer]

\* A write that was carried out is logged, a refused one is answered so.
Logged(r, record) ==
    IF r.result = "OK" THEN Reply(LogRecord(r.cache, record), "ok")
                       ELSE Reply(r.cache, "error")

\* A command that changes one key or none is logged if it has changed one.
LoggedOnce(r, record) ==
    Reply(IF r.result = 1 THEN LogRecord(r.cache, record) ELSE r.cache, "ok")

execute_set(c, k, v, ttl, now, later) ==
    LET deadline == IF ttl = 0 THEN 0 ELSE now + ttl
    IN  Logged(cache_store_object(c, k, NewString(v), deadline, FALSE, later),
               [op |-> "SET", key |-> k, value |-> v, deadline |-> deadline])

execute_del(c, k, now) ==
    LoggedOnce(cache_delete(c, k, now), [op |-> "DEL", key |-> k])

execute_persist(c, k, now) ==
    LoggedOnce(cache_persist(c, k, now), [op |-> "PERSIST", key |-> k])

execute_expire(c, k, ttl, now, later) ==
    IF ttl = 0
    THEN execute_del(c, k, later)
    ELSE LoggedOnce(cache_expire_at(c, k, now + ttl, later),
                    [op |-> "PEXPIREAT", key |-> k, deadline |-> now + ttl])

\* Hash commands look the key up through the hot entry.
Lookup(c, type, k, now) ==
    IF type = "hash" THEN cache_get_hash_object_ref(c, k, now)
                     ELSE cache_get_object_ref(c, k, now)

\* What HSET and ZADD do after the lookup.  The change is made to a copy when
\* it could fail half way or be refused for its size, and else to the object
\* in the cache.
AddToLive(c, type, k, values, later) ==
    LET present == Present(c, k)
        original == c.index[k].object
        copied == \/ ~present
                  \/ Cardinality(DOMAIN values) > 1
                  \/ MaxMemory # 0
        before == IF ~present THEN NewObject(type, <<>>)
                  ELSE IF copied THEN Clone(original) ELSE original
        Store(working) ==
            IF copied
            THEN cache_store_object(c, k, working, 0, TRUE, later)
            ELSE cache_recharge_ref([c EXCEPT !.index[k].object = working],
                                    k, later)
    IN  IF present /\ original.type # type THEN Reply(c, "error")
        ELSE IF ~Changes(before, values) THEN Reply(c, "ok")
        ELSE Logged(Store(PutItems(before, values)),
                    [op |-> "ADD", key |-> k, type |-> type,
                     values |-> values])

CollectionAdd(c, type, k, values, now, later) ==
    AddToLive(Lookup(c, type, k, now), type, k, values, later)

\* What HDEL and ZREM do after the lookup, always on the object in the cache;
\* a collection without items is deleted.
RemoveFromLive(c, type, k, fields, later) ==
    LET original == c.index[k].object
        working == DropItems(original, fields)
        Settle(changed) ==
            IF DOMAIN working.items = {}
            THEN [cache_delete(changed, k, later) EXCEPT !.result = "OK"]
            ELSE cache_recharge_ref(changed, k, later)
    IN  IF ~Present(c, k) THEN Reply(c, "ok")
        ELSE IF original.type # type THEN Reply(c, "error")
        ELSE IF working = original THEN Reply(c, "ok")
        ELSE Logged(Settle([c EXCEPT !.index[k].object = working]),
                    [op |-> "REM", key |-> k, type |-> type,
                     fields |-> fields])

CollectionRemove(c, type, k, fields, now, later) ==
    RemoveFromLive(Lookup(c, type, k, now), type, k, fields, later)

-----------------------------------------------------------------------------
(* The system *)

Init ==
    /\ cache = NewCache(AofAttached)
    /\ clock = 1
    /\ reply = "ok"
    /\ recency = <<>>

\* The cache before a step that has not evicted anything yet.
Quiet == [cache EXCEPT !.evicted = <<>>]

Later == {t \in {clock, clock + 1} : t <= MaxClock}

Ready == Len(cache.journal) <= MaxJournal

\* The order of use after a command that used the keys of the sequence used.
Ordered(c, used) ==
    SelectSeq(used \o SelectSeq(recency, LAMBDA x : used # <<x>>),
              LAMBDA x : Present(c, x))

Execute(r, later, used) ==
    /\ cache' = r.cache
    /\ clock' = later
    /\ reply' = r.reply
    /\ recency' = IF lru_enabled THEN Ordered(r.cache, used) ELSE <<>>

Set(k) ==
    /\ Ready
    /\ \E v \in Lengths, ttl \in {0} \cup Ttls, later \in Later :
          LET r == execute_set(Quiet, k, v, ttl, clock, later)
          IN  Execute(r, later, IF r.reply = "ok" THEN <<k>> ELSE <<>>)

\* GET, ZSCORE, ZCARD and ZRANGE.
Get(k) ==
    /\ Ready
    /\ Execute(Reply(cache_get_object_ref(Quiet, k, clock), "ok"),
               clock, <<k>>)

\* HGET, HLEN and HGETALL.
HashGet(k) ==
    /\ Ready /\ "hash" \in Collections
    /\ Execute(Reply(cache_get_hash_object_ref(Quiet, k, clock), "ok"),
               clock, <<k>>)

Del(k) ==
    /\ Ready
    /\ Execute(execute_del(Quiet, k, clock), clock, <<>>)

\* EXPIRE and PEXPIRE; a TTL that is not positive deletes the key.
Expire(k) ==
    /\ Ready
    /\ \E ttl \in {0} \cup Ttls, later \in Later :
          Execute(execute_expire(Quiet, k, ttl, clock, later), later, <<>>)

Persist(k) ==
    /\ Ready
    /\ Execute(execute_persist(Quiet, k, clock), clock, <<>>)

\* TTL and PTTL.
Ttl(k) ==
    /\ Ready
    /\ Execute(Reply(find_live(Quiet, k, clock), "ok"), clock, <<>>)

Add(k, fields) ==
    /\ Ready
    /\ \E type \in Collections, values \in [fields -> Lengths],
          later \in Later :
          Execute(CollectionAdd(Quiet, type, k, values, clock, later),
                  later, <<k>>)

Remove(k, fields) ==
    /\ Ready
    /\ \E type \in Collections, later \in Later :
          Execute(CollectionRemove(Quiet, type, k, fields, clock, later),
                  later, <<k>>)

\* The maintenance timer of the Reactor.
Maintain ==
    Execute(Reply(cache_maintain(Quiet, ExpireBudget, clock), "ok"),
            clock, <<>>)

Tick ==
    /\ clock < MaxClock
    /\ clock' = clock + 1
    /\ cache' = Quiet
    /\ UNCHANGED <<reply, recency>>

Next ==
    \/ \E k \in Keys : \/ Set(k) \/ Get(k) \/ HashGet(k) \/ Del(k)
                       \/ Expire(k) \/ Persist(k) \/ Ttl(k)
    \/ \E k \in Keys, fields \in SUBSET Fields \ {{}} :
          Add(k, fields) \/ Remove(k, fields)
    \/ Maintain
    \/ Tick

Spec == Init /\ [][Next]_vars

-----------------------------------------------------------------------------
(* Properties *)

Index == cache.index

Lapsed(k) == Expired(Index[k], clock)

\* The state has the shape of struct cache; a list or a heap may repeat no
\* key, and hash_hot_entry, which outlives the command that set it, never
\* points to an entry that was freed.
TypeOK ==
    /\ DOMAIN Index \subseteq Keys
    /\ \A k \in DOMAIN Index :
          /\ Index[k].object.type \in {"string"} \cup Collections
          /\ \A f \in DOMAIN Index[k].object.items :
                /\ Index[k].object.items[f].value \in Lengths
                /\ Index[k].object.items[f].capacity \in Nat
          /\ Index[k].expire_at \in Nat /\ Index[k].memory_charge \in Nat
          /\ Index[k].heap_index \in 0 .. Len(cache.heap)
    /\ \A s \in {cache.lru, cache.heap, recency} :
          /\ s \in Seq(Keys)
          /\ Cardinality({s[i] : i \in DOMAIN s}) = Len(s)
    /\ cache.used_memory \in Nat
    /\ cache.hot # None => Present(cache, cache.hot)
    /\ \A t \in Types : cache.keys_of[t] \in Nat /\ cache.items_of[t] \in Nat
    /\ clock \in 1 .. MaxClock /\ reply \in {"ok", "error"}

\* used_memory and the counts of INFO CACHE are what the entries add up to,
\* and the charge of an entry is that of the object it holds, although
\* strings are overwritten and collections changed in place before the
\* account is settled.  Only an entry whose deadline passed during the
\* command that changed it may still have its old charge.
AccountExact ==
    /\ cache.used_memory =
          MapThenSumSet(LAMBDA k : Index[k].memory_charge, DOMAIN Index)
    /\ \A t \in Types :
          LET of == {k \in DOMAIN Index : Index[k].object.type = t}
          IN  /\ cache.keys_of[t] = Cardinality(of)
              /\ cache.items_of[t] =
                    MapThenSumSet(LAMBDA k : Index[k].object_items, of)
    /\ \A k \in DOMAIN Index :
          \/ /\ Index[k].memory_charge = entry_memory_charge(Index[k].object)
             /\ Index[k].object_items = object_item_count(Index[k].object)
          \/ Lapsed(k)

\* The heap holds exactly the entries with a deadline, each knows its place,
\* and none lies above an earlier deadline: entries leave from the middle on
\* every SET, PERSIST, DEL and eviction.
HeapExact ==
    /\ {cache.heap[i] : i \in DOMAIN cache.heap} =
          {k \in DOMAIN Index : Index[k].expire_at # 0}
    /\ \A i \in DOMAIN cache.heap :
          /\ Index[cache.heap[i]].heap_index = i
          /\ i > 1 => ~heap_less(cache, i, i \div 2)
    /\ \A k \in DOMAIN Index :
          Index[k].expire_at = 0 => Index[k].heap_index = 0

\* The LRU list is the order in which clients last used the keys that are
\* present: reads and writes of a value are uses, DEL, TTL, EXPIRE and
\* PERSIST are not.
LruIsRecency == lru_enabled => cache.lru = recency

\* No command leaves the cache above maxkeys or maxmemory.  The entries that
\* it evicts for that are the ones used least recently, none of them has
\* expired, and none could have stayed: with the last of them, and with the
\* expired entries that were swept from the list after it, what is left would
\* not fit.
EvictsColdest ==
    [][LET gone == cache'.evicted
           left == DOMAIN cache'.index
           Place(k) == CHOOSE i \in DOMAIN recency : recency[i] = k
           last == gone[Len(gone)]
           swept == {k \in DOMAIN Index \ left :
                        Expired(Index[k], clock') /\ Place(k) < Place(last)}
       IN  /\ ~limits_exceeded(Cardinality(left), cache'.used_memory)
           /\ gone # <<>> =>
                /\ \A i \in DOMAIN gone :
                      /\ ~Expired(Index[gone[i]], clock')
                      /\ \A k \in left \ {recency'[1]} : Place(gone[i]) > Place(k)
                /\ limits_exceeded(
                      Cardinality(left) + 1 + Cardinality(swept),
                      cache'.used_memory + Index[last].memory_charge
                         + MapThenSumSet(LAMBDA k : Index[k].memory_charge,
                                         swept))]_vars

\* A command that answers with an error has evicted nothing and changed no
\* value that can still be read.
ErrorChangesNothing ==
    [][reply' = "error" =>
         /\ cache'.evicted = <<>>
         /\ \A k \in DOMAIN Index :
               \/ Expired(Index[k], clock')
               \/ /\ Present(cache', k)
                  /\ cache'.index[k].object = Index[k].object
                  /\ cache'.index[k].expire_at = Index[k].expire_at]_vars

\* A maintenance round leaves no expired key behind unless it has used up
\* its budget, and removes no other key.
MaintainClears ==
    [][Maintain =>
         LET removed == DOMAIN Index \ DOMAIN cache'.index
         IN  /\ \A k \in removed : Lapsed(k)
             /\ \/ \A k \in DOMAIN cache'.index : ~Lapsed(k)
                \/ Cardinality(removed) = ExpireBudget]_vars

\* HSET and ZADD keep the TTL of the collection they change: an item that
\* was there before and is there after the command has the deadline it had.
AddKeepsDeadline ==
    [][\A k \in Keys, fields \in SUBSET Fields :
         /\ Add(k, fields)
         /\ Present(cache, k) /\ Present(cache', k)
         /\ \E f \in DOMAIN Index[k].object.items \ fields :
               f \in DOMAIN cache'.index[k].object.items
         => cache'.index[k].expire_at = Index[k].expire_at]_vars

=============================================================================
