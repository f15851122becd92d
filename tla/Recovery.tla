------------------------------ MODULE Recovery ------------------------------
(***************************************************************************)
(* The cache, the AOF and MySQL across crashes: the startup of             *)
(* src/app/main.c (replay, scan of the AOF, bootstrap, recovery of         *)
(* mutations, invalidation) and the functions of src/storage/mysql_store.c *)
(* it calls.                                                               *)
(*                                                                         *)
(* While the server runs, a command, a load and the transaction of the     *)
(* writer are one step each: CacheAside has their interleaving.  Values    *)
(* are as there; the write 0 is older than the use of MySQL.               *)
(***************************************************************************)
EXTENDS Integers, Sequences, FiniteSets, FiniteSetsExt, SequencesExt

CONSTANTS
    Strings, Hashes,  \* the keys
    Absent,           \* the value of a key that does not exist
    MaxKeys,          \* config.max_keys of the cache, not 0
    MaxWrites,        \* bound: mutations that are numbered
    MaxLog,           \* bound: commands and loads start while the AOF is shorter
    MaxCrashes,       \* bound: crashes
    Losses,           \* which of the crashes may lose AOF records that are not
                      \* synced: those in the buffers of the process go with
                      \* it, those in the page cache with the power
    PartMarkers       \* may they part a record from its marker

ASSUME RecoveryAssumption ==
    /\ Strings \cap Hashes = {}
    /\ \A n \in {MaxKeys, MaxWrites, MaxLog, MaxCrashes} : n \in Nat \ {0}
    /\ Losses \subseteq 1 .. MaxCrashes /\ PartMarkers \in BOOLEAN

Keys == Strings \cup Hashes

VARIABLES
    phase,     \* of the process: "serving", "down" or a step of the startup
    cache,     \* the values and the LRU order of the cache
    log,       \* the records of the AOF
    synced,    \* how many of them are on the disk
    evicted,   \* keys whose DEL waits in the pending buffer of the AOF
    writes,    \* mutations that the writer has still to apply
    sequence,  \* mysql_next_sequence
    database,  \* the tables of MySQL
    accepted,  \* the numbered mutations that the AOF or MySQL has
    crashes

vars == <<phase, cache, log, synced, evicted, writes, sequence, database,
          accepted, crashes>>

-----------------------------------------------------------------------------
(* The cache *)

EmptyCache == [value |-> [k \in Keys |-> Absent], lru |-> <<>>]

Cached(c, k) == c.value[k] # Absent

cache_delete(c, k) ==
    [value |-> [c.value EXCEPT ![k] = Absent],
     lru |-> SelectSeq(c.lru, LAMBDA x : x # k)]

\* The key comes first; what is over the limit is evicted.
cache_store_object(c, k, value) ==
    LET order == <<k>> \o cache_delete(c, k).lru
        kept == SubSeq(order, 1, IF Len(order) < MaxKeys THEN Len(order)
                                                         ELSE MaxKeys)
    IN  [value |-> [x \in Keys |-> IF x = k THEN value
                                   ELSE IF x \in ToSet(kept) THEN c.value[x]
                                   ELSE Absent],
         lru |-> kept]

\* The keys of which the LRU limit took c to d.
Victims(c, d, k) == {x \in Keys \ {k} : Cached(c, x) /\ ~Cached(d, x)}

Effect(op, n, value) ==
    CASE op = "SET" -> {n}
      [] op = "HSET" -> {n} \cup (IF value = Absent THEN {} ELSE value)
      [] op = "DEL" -> Absent

-----------------------------------------------------------------------------
(* The AOF *)

Record(op, k, n) == [op |-> op, key |-> k, n |-> n]

\* "PING KVMYSQL1:..." behind the record of a mutation.
Marker(n) == [op |-> "MARK", n |-> n]

Deletes(keys) == SetToSeq({Record("DEL", k, 0) : k \in keys})

\* kvstore_service_replay_aof: a record on the cache.
ReplayRecord(c, r) ==
    CASE r.op = "MARK" -> c
      [] r.op = "DEL" -> cache_delete(c, r.key)
      [] OTHER -> cache_store_object(c, r.key,
                                     Effect(r.op, r.n, c.value[r.key]))

ReplayAof(records) == FoldLeft(ReplayRecord, EmptyCache, records)

Markers(records) == {i \in DOMAIN records : records[i].op = "MARK"}

\* scan_mysql_aof: a marker must follow a mutation and have a higher number
\* than all before.
ScanRefuses(records) ==
    \E i \in Markers(records) :
        \/ i = 1 \/ i - 1 \in Markers(records)
        \/ \E j \in Markers(records) : j < i /\ records[j].n >= records[i].n

MaximumSequence(records) ==
    Max({0} \cup {records[i].n : i \in Markers(records)})

\* The numbered mutations of the AOF.
Mutations(records) ==
    [i \in 1 .. Cardinality(Markers(records)) |->
        LET at == SetToSortSeq(Markers(records), <)[i]
        IN  [records[at - 1] EXCEPT !.n = records[at].n]]

-----------------------------------------------------------------------------
(* MySQL *)

\* One transaction: the rows, the change log, the watermark.
apply_mutation(d, m) ==
    [d EXCEPT !.rows[m.key] = Effect(m.op, m.n, @),
              !.changes = Append(@, [key |-> m.key, n |-> m.n]),
              !.applied = IF m.n > @ THEN m.n ELSE @]

mutation_is_applied(d, m) == d.applied >= m.n

\* What the writer and a recovery do with a mutation.
ApplyOnce(d, m) == IF mutation_is_applied(d, m) THEN d ELSE apply_mutation(d, m)

-----------------------------------------------------------------------------
(* The server runs *)

Ready == phase = "serving" /\ Len(log) + Len(evicted) < MaxLog

Dirty(k) == \E i \in DOMAIN writes : writes[i].key = k

\* The keys that a command may be run for: in the cache, or loaded and found
\* not to be there.
Known(k) == \/ Cached(cache, k)
            \/ ~Dirty(k) /\ database.rows[k] = Absent

WriteOp(k) == IF k \in Strings THEN "SET" ELSE "HSET"

\* A write that takes effect: one AOF transaction with the evictions, the
\* record and its marker, and then the mutation for the writer.
Command(op, k) ==
    /\ Ready /\ sequence < MaxWrites
    /\ op = "SET" \/ Known(k)
    /\ op = "DEL" => Cached(cache, k)
    /\ LET n == sequence + 1
           value == Effect(op, n, cache.value[k])
           after == IF op = "DEL" THEN cache_delete(cache, k)
                                  ELSE cache_store_object(cache, k, value)
           m == Record(op, k, n)
       IN  /\ cache' = after
           /\ log' = log \o Deletes(Victims(cache, after, k))
                         \o <<m, Marker(n)>>
           /\ writes' = Append(writes, m)
           /\ accepted' = Append(accepted, m)
           /\ sequence' = n
    /\ UNCHANGED <<phase, synced, evicted, database, crashes>>

\* A miss is answered by MySQL: the object enters the cache, not the AOF.
Load(k) ==
    /\ Ready
    /\ ~Cached(cache, k) /\ ~Dirty(k) /\ database.rows[k] # Absent
    /\ cache' = cache_store_object(cache, k, database.rows[k])
    /\ evicted' = evicted \o Deletes(Victims(cache, cache', k))
    /\ UNCHANGED <<phase, log, synced, writes, sequence, database, accepted,
                   crashes>>

\* aof_flush at the end of a batch of events.
Flush ==
    /\ phase = "serving" /\ evicted # <<>>
    /\ log' = log \o evicted
    /\ evicted' = <<>>
    /\ UNCHANGED <<phase, cache, synced, writes, sequence, database, accepted,
                   crashes>>

\* fdatasync of the AOF writer.
Sync ==
    /\ phase = "serving" /\ synced < Len(log)
    /\ synced' = Len(log)
    /\ UNCHANGED <<phase, cache, log, evicted, writes, sequence, database,
                   accepted, crashes>>

\* The writer thread applies the next mutation.
WriterApplies ==
    /\ phase = "serving" /\ writes # <<>>
    /\ database' = ApplyOnce(database, Head(writes))
    /\ writes' = Tail(writes)
    /\ UNCHANGED <<phase, cache, log, synced, evicted, sequence, accepted,
                   crashes>>

-----------------------------------------------------------------------------
(* Crash and startup *)

\* How many records a crash may leave in the AOF: all, or those that were
\* synced and some of those behind.
Survivors ==
    {Len(log)} \cup
        {n \in synced .. Len(log) - 1 :
            /\ crashes + 1 \in Losses
            /\ PartMarkers \/ log[n + 1].op # "MARK"}

Crash ==
    /\ crashes < MaxCrashes /\ phase \notin {"down", "refused"}
    /\ \E n \in Survivors :
          /\ log' = SubSeq(log, 1, n)
          /\ synced' = IF synced < n THEN synced ELSE n
          /\ accepted' = SelectSeq(accepted, LAMBDA m :
                \/ m.n <= database.applied
                \/ m.n <= MaximumSequence(SubSeq(log, 1, n)))
    /\ phase' = "down"
    /\ cache' = EmptyCache /\ evicted' = <<>> /\ writes' = <<>>
    /\ sequence' = 0
    /\ crashes' = crashes + 1
    /\ UNCHANGED database

\* main() replays the AOF, scans it and compares it with the tables.
Start ==
    /\ phase = "down"
    /\ cache' = ReplayAof(log)
    /\ phase' = IF ScanRefuses(log) THEN "refused"
                ELSE IF database.state # "READY" THEN "bootstrap"
                ELSE IF database.applied < MaximumSequence(log) THEN "recover"
                ELSE IF database.applied > MaximumSequence(log)
                THEN "invalidate" ELSE "attach"
    /\ UNCHANGED <<log, synced, evicted, writes, sequence, database, accepted,
                   crashes>>

StartupStep(from, to) ==
    /\ phase = from /\ phase' = to
    /\ UNCHANGED <<log, synced, evicted, writes, accepted, crashes>>

\* Tables that an interrupted bootstrap left are emptied.
BootstrapBegins ==
    /\ StartupStep("bootstrap", "objects")
    /\ database' = [state |-> "IN_PROGRESS", rows |-> EmptyCache.value,
                    changes |-> <<>>, applied |-> 0]
    /\ UNCHANGED <<cache, sequence>>

\* cache_visit: each object in a transaction of its own.
BootstrapObject(k) ==
    /\ StartupStep("objects", "objects")
    /\ Cached(cache, k) /\ database.rows[k] = Absent
    /\ database' = [database EXCEPT !.rows[k] = cache.value[k]]
    /\ UNCHANGED <<cache, sequence>>

BootstrapFinishes ==
    /\ StartupStep("objects", "attach")
    /\ \A k \in Keys : Cached(cache, k) => database.rows[k] # Absent
    /\ database' = [database EXCEPT !.state = "READY",
                                    !.applied = MaximumSequence(log)]
    /\ UNCHANGED <<cache, sequence>>

\* The next mutation of the AOF that the tables lack.
Missing == SelectSeq(Mutations(log), LAMBDA m : m.n > database.applied)

RecoverMutation ==
    /\ StartupStep("recover", IF Len(Missing) = 1 THEN "attach" ELSE "recover")
    /\ database' = ApplyOnce(database, Head(Missing))
    /\ UNCHANGED <<cache, sequence>>

\* Mutant of LeadingKeys: the changes are counted from the watermark.
LeadingKeysNone(d, n) ==
    {d.changes[i].key : i \in {j \in DOMAIN d.changes :
                                  d.changes[j].n > d.applied}}

\* The keys of the change log behind the last marker of the AOF.
LeadingKeys(d, n) ==
    {d.changes[i].key : i \in {j \in DOMAIN d.changes : d.changes[j].n > n}}

Invalidate ==
    /\ StartupStep("invalidate", "attach")
    /\ LET keys == LeadingKeys(database, MaximumSequence(log))
       IN  cache' = [value |-> [k \in Keys |-> IF k \in keys THEN Absent
                                               ELSE cache.value[k]],
                     lru |-> SelectSeq(cache.lru, LAMBDA k : k \notin keys)]
    /\ UNCHANGED <<database, sequence>>

\* Mutant of StartSequence: numbering goes on behind the AOF.
StartSequenceAof == MaximumSequence(log)

\* Mutant of StartSequence: numbering goes on behind the tables.
StartSequenceNone == 0

StartSequence == Max({database.applied, MaximumSequence(log)})

Attach ==
    /\ StartupStep("attach", "serving")
    /\ sequence' = StartSequence
    /\ UNCHANGED <<cache, database>>

Startup == \/ Start \/ BootstrapBegins \/ BootstrapFinishes
           \/ \E k \in Keys : BootstrapObject(k)
           \/ RecoverMutation \/ Invalidate \/ Attach

-----------------------------------------------------------------------------

\* MySQL is enabled for a server that has used its AOF before.
Init ==
    /\ phase = "down" /\ cache = EmptyCache
    /\ \E keys \in SUBSET Keys :
          log = SetToSeq({Record(WriteOp(k), k, 0) : k \in keys})
    /\ synced = Len(log)
    /\ evicted = <<>> /\ writes = <<>> /\ accepted = <<>>
    /\ sequence = 0 /\ crashes = 0
    /\ database = [state |-> "EMPTY", rows |-> EmptyCache.value,
                   changes |-> <<>>, applied |-> 0]

Next ==
    \/ \E k \in Keys : Command(WriteOp(k), k) \/ Command("DEL", k) \/ Load(k)
    \/ Flush \/ Sync \/ WriterApplies
    \/ Crash \/ Startup

Spec == Init /\ [][Next]_vars

-----------------------------------------------------------------------------
(* Properties *)

\* The value of each key when the writer has caught up.
Settled == FoldLeft(ApplyOnce, database, writes).rows

\* docs/v0.7.0-mysql-cache-aside.md:7: MySQL is the last word on every key.
\* Whatever the cache holds, restored from the AOF or not, is what MySQL has
\* or is about to have.
SnapshotAlwaysCurrent ==
    phase = "serving" =>
        \A k \in Keys : Cached(cache, k) => cache.value[k] = Settled[k]

\* Behind place i the AOF never says what key k is without what it was before.
Rests(k, i) ==
    \A j \in i + 1 .. Len(log) :
        ~(log[j].op \in {"SET", "DEL"} /\ log[j].key = k)

\* MySQL has a change of k that a crash took from the AOF, and the numbers of
\* the AOF have passed it since: a start no longer sees that MySQL leads.
Passed(k) ==
    \E c \in ToSet(database.changes) :
        /\ c.key = k /\ c.n < MaximumSequence(log)
        /\ \A i \in Markers(log) : log[i].n # c.n
        /\ Rests(k, Max({0} \cup {i \in DOMAIN log :
                                    log[i].op # "DEL" /\ log[i].n < c.n}))

\* A crash parted the record of a mutation of k from its marker: the mutation
\* is replayed, and no start applies it to the tables.
Unmarked(k) ==
    \E i \in DOMAIN log \ (Markers(log) \cup {j - 1 : j \in Markers(log)}) :
        /\ log[i].key = k /\ log[i].n # 0
        /\ Rests(k, i)

\* What a key was when MySQL was enabled.
Base == ReplayAof(SelectSeq(log, LAMBDA r : r.n = 0 /\ r.op # "DEL")).value

\* The Hash k existed when mutation n changed it.
Existed(k, n) ==
    LET earlier == SelectSeq(accepted, LAMBDA m : m.key = k /\ m.n < n)
    IN  IF earlier = <<>> THEN Base[k] # Absent ELSE Last(earlier).op # "DEL"

\* The Hash k left the cache for its limit, then or in the replay, was loaded
\* from MySQL and changed: the AOF has the change and not what was loaded.
Parted(k) ==
    \E i \in DOMAIN log :
        /\ log[i].op = "HSET" /\ log[i].key = k /\ Existed(k, log[i].n)
        /\ ~Cached(ReplayAof(SubSeq(log, 1, i - 1)), k)
        /\ Rests(k, i)

\* Whatever the cache holds, restored from the AOF or not, is what MySQL has
\* or is about to have, however records were lost, MySQL ahead of the AOF or
\* behind it, and keys evicted and loaded; except for a key that the AOF tells
\* wrongly in one of three ways: a change that it lacks and has passed, a
\* mutation without its marker, a Hash of which it has a part.
SnapshotIsCurrent ==
    phase = "serving" =>
        \A k \in Keys :
            \/ ~Cached(cache, k) \/ cache.value[k] = Settled[k]
            \/ Passed(k) \/ Unmarked(k) \/ Parted(k)

\* Every numbered mutation that the AOF or MySQL has kept reaches the tables
\* once and in order, however often the writer or a startup is interrupted.
MutationsReachTables ==
    phase = "serving" =>
        Settled = FoldLeft(apply_mutation,
                           [rows |-> Base, changes |-> <<>>, applied |-> 0],
                           accepted).rows

\* The server never leaves an AOF behind that it refuses at the next start.
StartupAccepts == phase # "refused"

=============================================================================
