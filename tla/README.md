# TLA+ specifications of storeSystem

storeSystem is a key-value server with a RESP front end, an in-memory cache
with TTLs and limits, an append-only file (AOF), RDB snapshots and an optional
MySQL store behind the cache. One *Reactor thread* runs every command; the AOF
has a writer thread, MySQL has reader threads and a writer thread. The
specifications here are about what goes wrong between those threads, across a
crash, and over long sequences of commands.

Source paths below are relative to the repository.

## 1. Inventory

| Part | State | Operations | Talks to |
|---|---|---|---|
| Reactor, `src/net/reactor.c` | connections with input, output, barrier, `async_pending`, `peer_eof`; epoll interest | accept, read, write, deferred completion, flush, timer, wake-up | the request handler of `main.c`; `aof_sequence_ready`; an eventfd that the AOF writer and MySQL threads write |
| Buffer, `src/net/buffer.c` | byte array with read and write position | append, consume, flush to a socket | Reactor |
| RESP parser, `src/protocol/resp.c` | none | parse a frame, encode a reply | service, AOF replay |
| Service, `src/service/kvstore_resp_service.c` | transaction of the running command, MySQL sequence, `dirty_changes` | the commands, AOF records, replay | cache, AOF, MySQL writer, persistence |
| Cache, `src/cache/cache.c` | index, LRU list, expiry heap, memory account, counts, hot Hash entry | store, get, delete, expire, persist, recharge, maintain, evict | service (`on_evict` appends a DEL) |
| Objects, `src/engine/object.c` | string, Hash, sorted set (map and skip list) | put, remove, clone, charge | cache, service, RDB |
| Hash table, `src/kvstore_hash.c` | two tables, rehash index | find, insert, remove, rehash step, iterate | cache, objects, `main.c` |
| AOF, `src/persistence/aof.c` | transaction and pending buffers, producer chunk, chunk queue, sequence numbers, pause and stop flags, error | begin, append, commit, rollback, flush, checkpoint, pause, close; writer thread | service, Reactor, persistence |
| RDB, `src/persistence/rdb.c` | a file with a checkpoint into the AOF | save to a temporary file and rename, load | persistence |
| Persistence manager, `src/app/main.c` | child process, last save, epoch of automatic saves | SAVE, BGSAVE, reap, automatic save, recovery | AOF, RDB, service |
| Cache-aside dispatcher, `src/app/main.c` | pending requests, dirty keys, load generations, negative cache | dispatch, defer, complete, purge | service, MySQL store, Reactor |
| MySQL store, `src/storage/mysql_store.c` | load jobs with waiters, write queue, applied sequence | submit a load or mutation, reader and writer threads, recovery | dispatcher, service |
| Legacy engines (`src/kvstore*.c`, `src/ntyco_entry.c`) | array, red-black tree | set, get, delete | none of the above |

What is hard here, and what has to hold:

* **AOF.** Two threads share a queue; `writev` may stop anywhere; transactions
  and chunks do not line up; two threads sync; the process may die between any
  two steps. The file must be the committed bytes in order; a published number
  must mean "in the file" (under `always`, "on the disk"); a reply that was
  allowed must survive; the fork must find the writer parked; nothing may wait
  for ever.
* **Reactor.** Level-triggered events are gathered before they are handled, so
  each may be stale; replies wait for numbers that another thread publishes;
  one request of a pipeline may wait for MySQL. Replies must keep their order,
  wait for their write, stay within the buffer, and arrive.
* **Cache and service.** Four structures describe the same entries and are
  updated in place; the clock moves while a command runs. They must agree after
  every command, evictions must take the right keys, refusals must change
  nothing.
* **Replay.** Expirations are not logged; the AOF must still restore what
  clients could read.
* **Cache-aside and MySQL.** A load, the writer and the commands overtake each
  other; requests wait in four lists; the answer to a COMMIT may be lost; AOF and
  MySQL are two logs that a crash leaves at different places. No command may
  work on an old value, no request may be forgotten or answered twice, and after
  any crash every mutation that was kept must reach the tables once and in
  order, and the cache must not contradict them.
* **Persistence manager and RDB.** A save takes many steps, in the Reactor
  thread or in a child, while commands go on; any step may fail, and the server
  or the power may go between any two. Whatever snapshot is found afterwards
  must fit the AOF; changes that no snapshot holds must stay counted; a child
  must be reaped.
* **Hash table.** A rehash spreads the nodes over two arrays and goes on a few
  buckets at a time, between and inside operations, also under an iterator whose
  caller removes nodes. Callers must see a plain map, and the table must have
  finished growing before it has to grow again.

`PROJECT.json` lists the hazards line by line with the properties that cover
them.

## 2. Modules

| Module | Models |
|---|---|
| `Aof` | `aof.c`: both threads, crash and restart |
| `AofInvariant` | the inductive invariant of `Aof`, and the refinement mapping to `AofContract` |
| `AofContract` | what `aof.c` promises the Reactor |
| `AofProofs`, `AofContractProofs`, `AofDurabilityProofs` | the theorems about `Aof` |
| `Reactor` | `reactor.c` with the handlers of `main.c`, built on `AofContract` |
| `ReactorInvariant`, `ReactorProofs` | the inductive invariant of `Reactor`, and the theorems about it |
| `Cache` | `cache.c` and the part of `object.c` it depends on, as operators on a cache record |
| `Service` | the commands of `kvstore_resp_service.c` on `Cache` |
| `Replay` | `kvstore_service_replay_aof` on the journal of `Service` |
| `CacheAside` | the dispatcher of `main.c` with the reader and writer threads of `mysql_store.c`, while the server runs |
| `CacheAsideInvariant` | the inductive invariants of `CacheAside` |
| `CacheAsideProofs`, `CacheAsideCurrentProofs` | the theorems about `CacheAside`: where requests are, and what values are worth |
| `Recovery` | cache, AOF and MySQL across crashes: the startup of `main()` with bootstrap, recovery and invalidation |
| `Persistence` | the persistence manager of `main.c`, `rdb.c` as far as files go, and the start from snapshot and AOF |
| `PersistenceInvariant`, `PersistenceProofs` | the inductive invariant of `Persistence`, and the theorems about it |
| `Hash` | `kvstore_hash.c` |
| `HashInvariant`, `HashProofs` | the inductive invariant of `Hash` (room, places, count, iteration), and the theorems about it, the refinement of `HashMap` among them |
| `HashMap` | what `engine/hash.h` promises: a map |
| `MC*` | instances for TLC |

`AofContract` is the joint: `Aof` implements it (checked, and proved as
`ContractKept`), and `Reactor` takes its AOF steps from it by `INSTANCE`.
`Hash` implements `HashMap` (checked as `ImplementsMap`, and proved as
`MapIsImplemented`), which is what `Cache` and `CacheAside` assume of their tables.

### Aof

Bytes are numbered in the order in which the producer copies them into chunks.
A chunk is an interval of byte numbers and the file is the sequence of numbers
that `writev` appended, so "every byte once and in order" is
`file[i] = i`. Every critical section of `aof->mutex` is one step; `writev` is
one step per chunk and may stop after any byte; an `fdatasync` has a start,
which remembers the length of the file, and an end, which makes that length
durable or fails.

`rpc` and `wpc` are the places of the Reactor and the writer thread. The
Reactor thread is in one call at a time: a transaction (`TransactionBegin`,
`AofAppend`, `TransactionCommit`, `CommitCopy`, or the rollback), `Flush`, a
checkpoint with the pause for `fork`, or `aof_close`. The writer gathers,
writes, consumes, syncs and publishes. `Crash` stops both and keeps any prefix
of the file that is at least the durable one; `Restart` reads the file from its
beginning or from a checkpoint and repairs the tail. `promised` remembers the
highest byte of which a reply may have been sent, and `marks` the checkpoints that
were returned to a saver.

`ends[n]` is the last byte of transaction `n`. When `acquire_chunk` fails inside
a commit, the number is used up and promises nothing: `CommitAllocFails` gives
it the end of its predecessor and remembers the cut in `torn`. A start that comes
to such a record with bytes behind it (`TornAhead`) does what the RESP parser
makes of them: the frame is incomplete, and the file is cut off there with all
that follows; or the parser finds a line end where it looks for one, and the
record swallows bytes up to there (`ReplayTorn`, both); or the bytes are an error,
and the start fails (`RestartRefused`). In the first two cases the replies and
checkpoints behind the torn record are taken out of `promised` and `marks`, which
is the exception that `AckedSurvives` and `CheckpointIsDurable` make.

### Reactor

A connection is named by its `connection_id`. Requests are numbered and have a
kind: `read`, `write`, `missRead` and `missWrite` (first deferred to MySQL),
and `bad` (protocol error). A reply is the number of its request with the AOF
sequence it needs. `Poll` takes the batch of events as `epoll_wait` does, and
the events are handled later, in any order, which is what makes them stale.
`process_input` is the operator `Processed`, used by the read, the write and
the completion handler. MySQL is the pair of sets `loading` and `loaded`: `LoadDone`
is a reader thread that puts its result into the completion list and rings the
eventfd, in one step, because the Reactor looks at the list only after the ring;
`CacheAside` has the two apart.

`Serial` clients wait for each reply before they send; the others pipeline.

### Cache, Service, Replay

The cache is one record: `index` from keys to entries, `lru` and `heap` as
sequences of keys, `used_memory`, counts per type, the hot Hash entry. The
operators keep the names of the C functions. A value is represented by its
length, and the capacity that `kv_object_string_update` and the Hash update in
place keep is part of the object, because the charge depends on it. The heap is
sifted as in the code, by recursion, with the index of each entry.

Each command reads the clock first at `clock` and then at the same or the next
instant. `journal` is the sequence of AOF records, evictions included; `evicted`
are the keys that the last step evicted, and `recency` is a history of use that
does not come from the code.

`Replay` adds no actions. `Restarted(now)` is the cache after a restart at
`now`, and its properties quantify over all instants from `clock` on.

### CacheAside

`server` is one record: the cache with its LRU order, the tables of
`app_context_t` (negative cache, dirty keys, load states, dirty waiters) and the
queues of `mysql_store_t`, because the Reactor thread changes several of them in
one call. The operators on it keep the names of the C functions. A value is the
set of numbers of the writes it consists of, so a lost or repeated HSET is
visible. A client names the request of its that is being worked on: those it has
sent behind it stay in the input of its connection until that one is answered.

The Reactor thread dispatches in one step. `drain_mysql_completions` is a step
per waiter, since the other threads go on meanwhile and `applied_sequence` is
read again for each. When a waiter is answered, `reactor_complete_response` goes
on with the input of its connection: `reactor.input` is that client, and its next
request (one of `Following`) is dispatched before the drain goes on. A reader
takes a job, runs the two statements of `load_object`, reads `job->waiters`
outside the mutex, finishes under the mutex and then rings the eventfd: a step
each. The writer takes, commits (with or without getting the answer), publishes,
rings.

`truth` is what each key would be if the accepted writes were applied at once;
`stale` and `overlooked` of the server remember that a command met another value,
and requests that fell out of all lists. `parted` has the keys that a pipelined
request evicted while their load was being handed out to its waiters (`Handed`,
`Parts`): the next waiter is executed as if the key did not exist. A key is parted
until a SET or DEL of it takes effect or a load brings it back. None of these
influences anything else.
`tail_gone` is the moment in `drain_dirty_waiters` when `dirty_wait_tail` still
points to a waiter that has left the list.

### Recovery

Here a command, a load and a transaction of the writer are one step each, and
the AOF is a sequence of records: writes, the DELs of evictions, and markers
with a sequence number. A write appends its transaction at once; the DEL of an
eviction by a load stays in `evicted` until `Flush`, behind transactions that
were committed later, as in `aof.c`. `Crash` may happen anywhere; if the crash is
one of `Losses`, it keeps any number of records that is at least `synced`.
`Start` replays and scans; `BootstrapBegins`, `BootstrapObject`,
`BootstrapFinishes`, `RecoverMutation` and `Invalidate` are the transactions of
the startup, with a crash possible between any two; `Attach` ends it. `accepted`
is the list of numbered mutations that the AOF or MySQL still has.

### Persistence

A change is a number and the cache the sequence of changes applied to it. Of the
AOF there is the sequence of records with how many are written and synced,
whether it has failed, and whether it is above its high-water mark; the writer
itself is in `Aof`. `ChangesAfter` picks the changes out of the records by their
rank (`Places`, `Nth`), so that it can be reasoned about without recursion.
`SaveBegins` is `persistence_save` up to the checkpoint, for
SAVE, BGSAVE and the automatic save alike; `SaveRefused` has its failures. From
then on the save is a job: `JobWrites`, `JobSyncs`, `JobRenames` and
`JobSyncsDirectory` are the calls of `rdb_save`, each of which may fail
(`JobFails`). A SAVE keeps the Reactor thread until `SaveReturns`; a child runs
beside everything else and outlives a server that dies. `disk.possible` are the
files that may have the snapshot's name after a loss of power: a rename adds one,
the directory sync leaves one. `Stop` and `Close` are an ordinary end, `Die` the
end of the process, `LosePower` that of the machine; `Start` loads the snapshot
and replays what is behind its mark. Half of the initial states have no AOF.

### Hash and HashMap

A node is a key and a payload in the chain of a bucket, and the key stands for
the pointer to the node. `RehashStep(h, budget)` is `kv_hash_rehash_step` with
its second budget for empty buckets; `Insertions` has the outcomes of an
insertion, among them the allocation of the node failing after the table has
begun to grow. Hash codes are a constant, `hash & (slots - 1)` is `hash % slots`.
A bucket that moves is divided between two: the loop takes its nodes from the
front and puts each at the head of its new chain, so the nodes of one bucket
arrive in reverse order. `Arrivals` says that by ranks (`Nth`) instead of by a
loop, which makes it a formula that can be proved about.
An iterator is `kv_hash_iterator_next` split into the two ways it can advance;
`RemoveGiven` is a caller that removes the node it was given, as
`purge_applied_dirty_keys` does. `call` is the operation just answered, so that
`HashMap` can say what each answer has to be.

## 3. Runs

| Run | Result | Shows |
|---|---|---|
| `aof_everysec` | pass | Under `everysec`, with I/O failures, evictions outside transactions and one crash: `FileInOrder`, `NumbersCovered`, `AckedSurvives`, `ForkFindsWriterParked`, `BackpressureHysteresis`, `CheckpointIsDurable`, `CloseLosesNothing`; under fairness `CaughtUp` (again and again all that was committed is written, or there is an error) and `CallsReturn` (no call of the Reactor thread blocks for ever) |
| `aof_always` | pass | Under `always`, with allocation failures and two crashes: acknowledged transactions survive power loss too, unless a start reads over a record that a failed allocation cut short, and `Aof` implements `AofContract` (`KeepsContract`) |
| `reactor` | pass | Two connections, one serial, one pipelining: `RepliesInOrder`, `SerialAckAfterWrite`, `NoLostWakeup`; `TypeOK` with bounded output and barriers that cover the unsent replies |
| `reactor_liveness` | pass | Every kind of request, AOF failure and evictions: `RepliesArrive`, `RepliesNotDropped` |
| `cache` | pass | Three keys under a memory limit: `LruIsRecency`, `EvictsColdest` (the limits, and which entries go for them), `ErrorChangesNothing`; `TypeOK` with the hot entry alive |
| `expiry` | pass | Every heap of up to seven entries, one step: `HeapExact`, `MaintainClears` |
| `replay` | pass | Hashes changed in place and in a copy: `AccountExact` (the memory account and the counts are the sums over the entries); `ReplayRestores`: a restart at any later instant restores what clients could read, unless a record follows an expired deadline that it was meant to change |
| `cache_aside` | pass | Two clients that pipeline any command, two keys, one of them in the cache: `LatestIsFound`, `NoStaleAnswer` (both but for `parted` keys), `HeldOnce`, `NobodyForgotten` |
| `recovery` | pass | A string and a Hash, three crashes, two of them with a loss of AOF records that may separate a record from its marker: `SnapshotIsCurrent` with its three exceptions, `MutationsReachTables`, `StartupAccepts` |
| `hash` | pass | Five keys, growth from four to eight slots, iterations with removals, allocation failures: `NodesPlaced`, `LoadBounded` (in a growth no more nodes arrive than buckets move), `IterationExact`, and `Hash` implements `HashMap` (`ImplementsMap`) |
| `persistence` | pass | With and without an AOF, two saves, a failure and two ends of the server anywhere: `SnapshotAndLogAgree`, `ChangesAccounted`, `BgsaveEnds` |
| `persistence_reads` | violation | `ReadsStayAvailable`: the server ends when an automatic save is due and the AOF refuses the mark, see section 5 |

### Bounds

* **Aof.** Chunks of 2 bytes, records of 1 and 2, water marks 3 and 1, two
  chunks per `writev`, four bytes in all (five under `always`). This gives transactions that share a
  chunk, that span two, and that end inside one; `writev` that stops inside
  the first and inside the second chunk; a queue that reaches the high mark and
  drains; a checkpoint record behind other records. One crash is enough for
  "what was promised is in the file after the crash", and `Restart` continues
  with what the crash left. Under `always`, the fifth byte lets an acknowledged
  transaction follow a torn record, and the second crash gives what a start made
  of it to another start. The theorems have no bounds.
* **Reactor.** Three requests over two connections and an output of two
  replies: a pipeline that fills the output and is held back, a deferred
  request with one behind it, a stale `EPOLLOUT`. `reactor_liveness` has one
  connection and an output of one reply, so that each reply holds back the next
  request; connections only meet in the AOF and the batch, which `reactor`
  has.
* **cache.** A limit of six units with an overhead of one: keys of value 1 charge
  two, so three of them fill the cache, and a write of value 3 then has to evict
  two; value 6 can never fit. Three
  instants with TTLs of 1 and 2 let a deadline pass during, between and before
  commands. Keys are interchangeable (symmetry).
* **expiry.** The heap has three levels with seven entries, and removing from
  one subtree with a replacement from the other, which needs `heap_sift_up`,
  takes five or more. Starting from every heap replaces the long way of
  reaching it by commands; each is reachable by SETs in heap order.
* **replay.** Commands start while the AOF has at most three records, and an
  eviction adds one, so up to five; `maxkeys` 1 makes every second key evict. Two Hash
  fields let HSET and HDEL act on a part, and without `maxmemory` they act in
  place, so that `cache_recharge_ref` has to correct the account.

* **cache_aside.** A cache of one key makes every use of the other key an
  eviction, so that dirty keys miss. Two clients can share a load, and one can
  write while the load of the other is under way; three writes allow a write
  before, during and after a load. One reader suffices, because a key is loaded
  by one reader at a time and a load sees only the tables; `read_queue_limit` 1
  makes the second key find the queue full, and `write_queue_max_bytes` 2 the
  third write. Clients are interchangeable (symmetry). Every command may be sent
  behind another one (`Following`).
* **hash.** Four slots instead of 16, and one empty bucket per bucket of budget
  instead of ten, so that a rehash takes several steps and a step may stop at
  empty buckets. Three of five keys share a bucket, which growth divides; the
  fourth insertion starts the growth and the fifth meets it under way; removals,
  and a table that is cleared and made again, let this happen in every order. Five
  nodes cannot fill the eight new slots, so `LoadBounded` does not wait for that:
  it bounds the nodes by the old size plus the buckets already moved, which the
  first insertion that moves no bucket breaks. The theorem has any sizes.
* **persistence.** Three changes and automatic saves from two on: changes before,
  during and after a save. Two saves are needed for an old and a new snapshot,
  two ends of the server for a child that outlives one server and meets the
  next. A queue of two records makes the AOF full.
* **recovery.** A string and a Hash and a cache of one; three mutations, so that one
  can be applied, one only in the AOF and one lost; three crashes, so that a
  startup that was interrupted is itself interrupted, and a crash follows a
  recovery. The first two may lose AOF records (`Losses`), also between a record
  and its marker (`PartMarkers`), so that writes and
  another start follow a loss. The system stops when the bounds on the AOF and on
  crashes are used up, so deadlock is not checked here.

Elsewhere bounds on time, requests and bytes end every behaviour; the last step of the
bounded system stutters (`Maintain` in `Service`, `RestartRefused` or the
timer in the others), so deadlock checking stays on.

### Fairness

* `Aof!FairSpec` (used by `aof_everysec`): weak fairness of the writer thread, and of the calls the
  Reactor thread has entered (both threads are scheduled, `writev` and
  `fdatasync` return); weak fairness of ending a transaction (a handler runs to
  its end); strong fairness of `Flush`, because `reactor_run` flushes after
  every batch of events and a batch is finite. Nothing is assumed about
  beginning a transaction, failures or crashes.
* `Reactor!FairSpec`: weak fairness of the loop, of the writer as far as chunks
  are flushed, of the notification after a publication, and of each load (a
  reader thread answers or its connection times out). For a load the timeouts of
  the MySQL client justify that; for a request that waits for the writer to catch
  up with its key it takes a writer that gets through, and one whose mutation
  fails each time (`mysql_store.c:567`) is outside of `RepliesArrive`. Clients owe nothing,
  except that the kernel takes what `send` offers when `EPOLLOUT` is reported.
* `Persistence!Spec`: weak fairness of the steps of a save (the child is
  scheduled, and its calls return or fail), of the maintenance timer, of the
  return of SAVE and of the cleanup after `reactor_run`. Nothing is assumed about
  commands, failures, ends and starts.

## 4. Proofs

The theorems hold for all values of the constants that satisfy the assumptions
of the modules, so for any of the bounds of section 3. All of them are safety:
an inductive invariant, its preservation with a lemma per action and under it a
step per conjunct that the action can disturb, and the property as a
consequence.

### Aof

For any chunk capacity, water marks with `LowWater < HighWater`, `writev` width,
record sizes, policy, with or without I/O failures, and any number of crashes:

| Theorem | States |
|---|---|
| `StreamTiledInvariant` | `Spec => []StreamTiled`, the first layer of the invariant |
| `TypeCorrect` | `Spec => []TypeOK`; in particular `queue_bytes` does not underflow |
| `FileOrder` | `Spec => []FileInOrder` |
| `Hysteresis` | `Spec => []BackpressureHysteresis` |
| `ForkSafe` | `Spec => []ForkFindsWriterParked` |
| `ContractKept` | `Spec => KeepsContract`: `aof.c` implements `AofContract` |
| `ErrorEndsFile` | `Spec => NoWriteAfterError` |
| `NumbersKeptInvariant` | `Spec => [](StreamTiled /\ NumbersKept)`, with the second layer |
| `NothingTakenBackAtStart` | `Spec => RepliesNotTakenBack` if no allocation fails (`~AllocMayFail`) |
| `NumbersAreCovered` | `Spec => []NumbersCovered` |
| `AcknowledgedSurvive` | `Spec => []AckedSurvives` |
| `CheckpointDurable` | `Spec => []CheckpointIsDurable` |
| `CloseIsComplete` | `Spec => []CloseLosesNothing` if no allocation fails (`~AllocMayFail`) |

`FileInOrder` is not inductive: that the next byte written is `Len(file) + 1`
depends on the chunk it comes from. `StreamTiled` says where all bytes are:

* `QueueTiles`, `ProducerTiles`: the chunks of the queue are adjacent intervals,
  only the first one is partly consumed, and the producer chunk follows the last
  one and ends at `copied`;
* `QueueCounted`: `queue_bytes` is the length of that stretch, which is why it
  cannot underflow and why the hysteresis holds;
* `WritevInside`, `FileFollowsQueue`: the `writev` in progress stays in the
  chunks it gathered, and the file ends where it is;
* `SequencesAssigned`: chunks and counters name only numbers that were
  assigned, which the refinement needs;
* `ReactorAgrees`, `ThreadsAgree`: what the program counters say about buffers,
  flags and each other; `error => wpc \in {"syncLast", "exit"}` is what
  `NoWriteAfterError` and the contract rest on.

The properties about durability speak of sequence numbers, which the first layer
only bounds. `NumbersKept` says for which bytes a number stands wherever it is:
at the end of a chunk (`ChunksCover`), as the target of the writer or published
(`CountersCover`), under the `fdatasync` in progress (`SyncCovers`), promised to
a client (`PromisesKept`), or that of the checkpoint being taken
(`CheckpointAgrees`); and that transactions end with whole records, which the
repair of the tail keeps (`EndsAreRecords`, `BuffersEndRecords`). A start
(`RestartFacts`) leaves a file that ends with a record, holds what was written up
to the first torn record it met, and takes back only what lies behind that; when
no allocation fails there is no torn record (`TornNeedsFailure`), and
`NothingTakenBackAtStart` says that `promised` then never shrinks, so that the
exception in `AckedSurvives` and `CheckpointIsDurable` is not used.
`NothingStaysBehind`, the third layer, follows the last number from the producer
to the disk; it is false when `acquire_chunk` may fail, see section 5 under
`aof.c:857`, and so is `CloseLosesNothing`.

`ContractKept` maps every step of `Aof` to a step of `AofContract` or a stutter.
`StreamTiled` and `NoWriteAfterError` are proved for every instance and are not
listed in a run any more; `FileInOrder` and `KeepsContract`, which runs do check,
rest on them.

### Reactor

For any finite set of connections, serial or pipelining, output mark, kinds of
requests, with or without failures and evictions:

| Theorem | States |
|---|---|
| `AccountedInvariant` | `Spec => []Accounted` |
| `ReactorTyped` | `Spec => []TypeOK` |
| `RepliesOrdered` | `Spec => []RepliesInOrder` |
| `SerialAcknowledged` | `Spec => []SerialAckAfterWrite` |
| `WakeupsNotLost` | `Spec => []NoLostWakeup` |
| `RepliesKept` | `Spec => RepliesNotDropped`, an action property |

None of these is inductive, because each handler trusts what another one left.
`Accounted` has: the replies and counters of a connection, and that it looks at
its input to the end unless it waits or has output (`ConnectionsAgree`); a load
in one place, and one for each deferred connection (`LoadsAgree`); `EPOLLOUT`
asked for exactly when replies may be sent, or a wake-up to come
(`InterestAgrees`); events of the batch that belong to open connections, one
each (`BatchAgrees`), which is why a stale event cannot meet a destroyed
connection; and for serial clients at most one request on its way, so that
nothing joins a reply between its `EPOLLOUT` and the `send` (`SerialAgrees`).
`ReactorAssumption` says that connections are not named like the other sources
of events.

### Persistence

For any number of changes, saves, failures, ends and starts, with and without an
AOF:

| Theorem | States |
|---|---|
| `ConsistentInvariant` | `Spec => []Consistent` |
| `PersistenceTyped` | `Spec => []TypeOK` |
| `SnapshotMatchesLog` | `Spec => []SnapshotAndLogAgree` |
| `CountCovers` | `Spec => []ChangesAccounted` |

`SnapshotAndLogAgree` is about the files that may be found after the end of the
server. A file gets there by a rename, so `Consistent` says the same of every
save under way: its mark is synced, and it holds the changes before the mark
(`LogAgrees`). Synced records are never lost, which makes this independent of
where the server ends. `ChangesAccounted` needs for a save under way that the
count that will be left, `dirty - covered`, covers what its file lacks
(`CountAgrees`), and which jobs the server knows (`JobsKnown`). The lemmas about
`ChangesAfter` (of a longer log, of a log cut at a mark) rest on ranks in finite
sets of places. `NoSnapshotAssumption` says that no file is the value for
"no file".

### CacheAside

For any finite sets of clients and keys, any number of readers, cache size, queue
limits and writes, and any commands sent behind others:

| Theorem | States |
|---|---|
| `HeldInvariant` | `Spec => []HeldInv` |
| `RequestsHeldOnce` | `Spec => []HeldOnce` |
| `NobodyIsForgotten` | `Spec => []NobodyForgotten` |
| `CurrentInvariant` | `Spec => []CurrentInv` |
| `WritesAreFound` | `Spec => []LatestIsFound` |
| `AnswersAreCurrent` | `Spec => []NoStaleAnswer` |

`HeldOnce` counts the lists a request is in; the invariant says why no step can
put it in a second one. A request in the list of dirty waiters is not registered
for a load, and one that is registered is among the waiters of one job or one
result for its key (`WaitersAgree`, `JobsAgree`, `ResultsAgree`,
`EverybodyListed`); `load_state` counts exactly the registered ones
(`LoadsAgree`), which is why it is not freed too early. These parts are operators
on a server and on the set of clients that are being worked on, since a handler
takes a request out of one list before it puts it into the next, and each
function of the code gets a lemma about what it does in between. `NobodyForgotten`
is about rest; `Awake` says for every state who is going to look again: whatever
is completed has a wake-up rung, about to be rung, or a drain that has not come
to the results; a dirty waiter has a key that the writer has not caught up with,
or a wake-up, or its place in the list is still ahead of the drain.
`NumbersAgree` ties the write queue, the writer, MySQL and `applied_sequence`
together, a COMMIT without an answer included.

`LatestIsFound` says nothing about a key that is dirty or being loaded, so it is
not inductive. `CurrentInv` has a history: the pending writes `m` lead from the
rows of MySQL through the values `h` to `truth` (`History`). A key with a pending
write is dirty (`DirtyAgrees`), so that no load starts for it; and a load whose
oldest waiter still has the generation of its key met no write at all (`Fresh`),
so the row it read, or is going to read, is the last value (`JobsCurrent`,
`ResultsCurrent`). That is all that `pending_load_is_stale` compares, and it is
why one comparison per waiter suffices. Between the verdict on a result and its
last waiter the cache keeps its key, or the key is parted (`DeliveryCurrent`): only
the first result in hand has been judged, so an eviction in between is one that
`Parts` notes. A parted key exists (`CacheCurrent`), which keeps it out of the
negative cache, and only its cached value may be wrong: the rows of MySQL and the
loads are as good as for other keys, so the next load ends it. Section 5 has what
the code does to a parted key. `CacheAsideAssumption` says that sets
are finite and that `Absent` is not a value.

### Hash

For any keys, hash codes, budgets and sizes, allocation failures included:

| Theorem | States |
|---|---|
| `RoomyInvariant` | `Spec => []Roomy(hash)`, with the shape of the struct |
| `LoadIsBounded` | `Spec => []LoadBounded` |
| `AgreesInvariant` | `Spec => []TableAgrees`, the inductive invariant of the three below |
| `NodesArePlaced` | `Spec => []NodesPlaced` |
| `IterationIsExact` | `Spec => []IterationExact` |
| `MapIsImplemented` | `Spec => ImplementsMap`: `Hash` implements `HashMap` |

Nothing checks that a growth is over when the table it fills is full: it must
follow from each insertion moving a bucket. `Roomy` is that argument: outside a
rehash one more node fits; in a rehash of `n` buckets there are at most
`n + rehash_index` nodes, so at the end at most `2n`, one of them just inserted.
`LoadBounded` is what callers see of it.
With fewer than four slots the threshold of three quarters would be all the
slots, hence `InitialSlots >= 4` (16 in the code).

`TableAgrees` has a part about the table, `Sound`, one about the iterator,
`IterationAgrees`, and one about the last answer. `NodesPlaced` alone is not
inductive: a bucket below `rehash_index` must be empty, or the end of a rehash
would drop its nodes with the old array, and each table must have its nodes in
the right buckets *of its own size* (`Arranged`); that the sum of both sizes is
`count` needs the keys of the two tables to be disjoint. `Sound` is an operator
on a table, because one call takes several steps: an insertion moves a bucket,
perhaps grows, and links. For each of these the lemmas say which nodes the table
has afterwards (the same, one more, one with another payload, one fewer), and
that it is sound again. A moved bucket `b` of `n` goes to `b` and `b + n` of
`2n`, where only nodes with `hash % n = b` can be, since
`(hash % 2n) % n = hash % n`; so the node arrives at a chain that has none with
its key.

For an iteration, `Coming` is the set of keys in a place the iterator has not
reached: `held` is the disjoint union of what it has given and `Coming`. A call
to next takes exactly the key it gives out of `Coming`. Removing the node that
was given shifts the places behind it by one and leaves `Coming` as it was,
because the pointer to the next node was read before; were it read after, the
node would be gone. That the iterator never passes over a place comes from no
step of a rehash being taken while it is on, which is how its callers use it.

The refinement follows from the same lemmas: `HashMap`'s contents are those of
the set of nodes, so a step that keeps the nodes is a stutter or a call that
changes nothing, and the others are one store or one removal with the answer the
map has to give. TLC agrees on `TableAgrees` for the instance of the `hash` run
(add `INVARIANT TableAgrees` to `MCHash.cfg`).

### Only model-checked

* Liveness is out of the prover's reach: `CaughtUp`, `CallsReturn`,
  `RepliesArrive`, `BgsaveEnds`.
* `Recovery` folds over the AOF, and `Cache`, `Service` and `Replay` have
  recursive operators for heap, eviction and replay.

## 5. Where code and documents disagree

Shown by a run:

* `persistence_reads` (`src/app/main.c:1229`). An automatic save that fails ends
  the Reactor loop: `persistence_maintain` returns the error, `maintain_cache`
  passes it on, and the server exits. It is enough that the save is due while the
  AOF is above its high-water mark. `README.md:120` and
  `docs/v0.6.1-memory-aof.md:23` say that reads stay available after a failed
  write of the AOF and above the mark.

Found with the same modules, and excluded from the passing runs by a bound or by
an exception in the property:

* `src/service/kvstore_resp_service.c:2052`, `ReplayAlwaysRestores` of `Replay`
  added to `MCReplay.cfg`. Replay deletes a key at the first deadline that is
  over, although a later PERSIST or EXPIRE is in the file. `docs/aof-v0.5.1.md:35`
  says that absolute deadlines are rebuilt or skipped.
* `src/app/main.c:1005`, `SnapshotAlwaysCurrent` of `Recovery` added to
  `MCRecovery.cfg` with `Losses = {}`; `Parted` in `SnapshotIsCurrent`. An evicted
  Hash is loaded from MySQL, which the AOF does not record, and changed by HSET,
  which it does. A restart rebuilds the Hash from the new field alone. AOF and MySQL have the same sequence number, so the partial
  Hash stays in the cache and hides the one in MySQL, the authoritative layer of
  `docs/v0.7.0-mysql-cache-aside.md:7` for Hashes too.
* `src/app/main.c:926`, `HeldOnce` and `NobodyForgotten` without `overlooked`.
  Answering the last dirty waiter takes up the pipelined request behind it; if
  that one has to wait too, it is appended to the waiter that has just left the
  list, and is never answered.
* `src/app/main.c:1036`, `NoneParted` of `CacheAside` added to
  `MCCacheAside.cfg`. Two requests wait for one load of a Hash. The first is
  answered, and the SET behind it evicts the Hash; the HSET of the second then
  makes a new Hash of one field, which hides the others, or its DEL is answered as
  for a missing key and MySQL keeps the Hash. `LatestIsFound` and `NoStaleAnswer`
  except the keys in `parted`, and are violated without that.
* `src/persistence/rdb.c:336`, `ChangesAccounted` without `used.orphans`. The child
  of a server that was killed may rename its snapshot over the newer one of the
  next server; `docs/v0.6.2-rdb-performance.md:5` says that there is at most one
  child. With an AOF no data is lost (`SnapshotAndLogAgree`).
* `src/persistence/rdb.c:336`, `ChangesAccounted` without `used.unsynced`. A server
  that died between the rename and the directory sync starts from a snapshot
  whose name is not durable, counts no changes, and `rdb_load` does not sync the
  directory. In the same way a save whose directory sync fails is reported as
  failed although the new file has taken the name.
* `src/app/main.c:813`, `SnapshotAlwaysCurrent` with
  `Strings = {"s", "t"}`, `Hashes = {}` and `PartMarkers = FALSE`; `Passed` in `SnapshotIsCurrent`. Keys that
  MySQL knows better than the AOF are dropped from the cache at the start, but
  the AOF is left as it is. Later writes of other keys bring the AOF level with
  MySQL, and the next start restores the old values for good.
* `src/service/kvstore_resp_service.c:1845`, `SnapshotAlwaysCurrent` with
  `Hashes = {}`; `Unmarked` in `SnapshotIsCurrent`. A record whose marker was lost is replayed into the
  cache and never reaches MySQL.
* `src/storage/mysql_store.c:1091`, `HeldOnce` and `NobodyForgotten` without
  `overlooked`. A request that joins a load between the reader's look at
  `job->waiters` and `remove_inflight` is in no list and is never answered.
* `src/persistence/aof.c:857`, `RecordsStayWhole` of `Aof` with
  `AllocMayFail = TRUE`. An allocation failure inside the copy loop of a commit
  drops the rest of a transaction whose head is queued.
  `docs/v0.6.1-memory-aof.md:21` says that all records of a command enter the
  queue in one commit. A later start may take the torn record for an incomplete
  tail and cut off the file there (`aof.c:607`), with acknowledged and synced
  transactions behind it: `RepliesNotTakenBack`, added as a `PROPERTY` to
  `MCAofAlways.cfg`, is violated. With the same constant `CloseLosesNothing` fails in
  `MCAofEverysec.cfg`: the failing commit has put its own number on the producer
  chunk, over the one of an earlier transaction that ends there, and the
  `sequence_end` of that chunk is gone, so that `aof_close` writes the bytes of the
  earlier transaction and neither publishes nor syncs its number.
* `src/net/reactor.c:602`, `AckAfterWrite` of `Reactor`. `EPOLLOUT` was reported
  for replies that were ready; `handle_read`, in the same event, adds the reply
  to a write, and `handle_write` sends both. `docs/v0.6.1-memory-aof.md:27` says
  that a success reply never leaves before the AOF write. A client that waits
  for each reply is not exposed (`SerialAckAfterWrite`).
* `src/service/kvstore_resp_service.c:918`, `AddKeepsDeadline` of `Service`. HSET
  and ZADD store a copy of the collection; if its deadline passes in between, it
  is stored without one. `README.md:208` says that they keep the TTL.

## 6. Abstractions, and what is left out

* Requests and replies are whole; bytes on a connection, RESP syntax and buffer
  growth are not modelled. AOF records have a size and, in `Service`, their
  meaning; their encoding is left out.
* In `Service` the AOF accepts every record; the writer, its failure and the
  refusal of writes under backpressure are in `Aof` and `Reactor`.
* Allocation succeeds in `Cache` and in `Persistence`. In the code a marker or a
  commit that fails for lack of memory (`kvstore_resp_service.c:1844`) has changed
  the cache and the count of changes and has put nothing into the AOF; a snapshot
  then holds a change that the AOF before its mark lacks, which is outside of
  `SnapshotAndLogAgree`. The charge of a sorted set has no part
  for the random levels of its skip list.
* Scores and the order of a sorted set are not modelled: `zset` behaves as a map
  whose lookups do not use the hot entry.
* In `CacheAside` and `Recovery` keys have one type and no TTL, `DEL` stands for
  every command that needs an old value and removes, and HSET adds a new field
  each time. Loads that are too large and objects that do not fit the cache are
  answered like a failed load. Allocations succeed. RDB files are in
  `Persistence`, not in `Recovery`, and the writer UUID is the same throughout.
* `Persistence` has one kind of change and no expiry or eviction; replay of the
  records is in `Replay`. A snapshot is whole or refused: its format and checksum
  are not modelled, and neither are the fields of INFO.
* In `Hash` one iterator is in use at a time, and its caller makes no other
  change to the table, as the callers in `src/` do.
* The clock does not go backwards, and replay takes no time.
* What the page cache does after a failed `fdatasync` is not modelled.

Not modelled:

* The RESP parser, a stateless function on bytes.
* The skip list of a sorted set and with it the order of members and ranges: a
  sequential structure with random levels, next in the plan.
* SQL, columns and types of `mysql_store.c` beside strings and Hashes, and its
  drain with a deadline on close.
* The legacy engines (`kvstore_array.c`, `kvstore_rbtree.c` and the coroutine
  front end), which are not in the server's data path; benchmarks and tests, which
  are drivers.

## 7. Plan

1. **Proofs**: `SnapshotIsCurrent`, `MutationsReachTables` and `StartupAccepts` of
   `Recovery`, with its folds over the AOF written by the last record of a key,
   as the values of `CacheAside` are.
2. **CacheAside**: TTLs, typed mutations that meet a row of another type or an
   expired one (`mysql_store.c:567`), and the drain of `mysql_store_close`. An
   abstract specification *one value per key, a command works on the last one*
   would state `LatestIsFound` and `NoStaleAnswer` at once.
3. **Zset**: the skip list of `object.c` with its spans, shown to implement a
   sequence ordered by score and member.
