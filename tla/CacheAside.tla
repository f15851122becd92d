----------------------------- MODULE CacheAside -----------------------------
(***************************************************************************)
(* The cache in front of MySQL: the dispatcher of src/app/main.c with the  *)
(* reader and writer threads of src/storage/mysql_store.c, while the       *)
(* server runs (Recovery has crashes and the startup).                     *)
(*                                                                         *)
(* A client names the request of its that is being worked on: the requests *)
(* it has sent behind it stay in the input of its connection until that    *)
(* one is answered, and process_input takes the next from inside           *)
(* drain_mysql_completions.  Of the server, tail_gone says that            *)
(* dirty_wait_tail is a waiter that has left the list, and overlooked has  *)
(* the clients whose request no list holds any more; parted has the keys   *)
(* that such a next request evicted while their load was handed out.       *)
(*                                                                         *)
(* A key is a string or a Hash; its value is the set of the writes it      *)
(* consists of: a SET leaves one, an HSET adds one.  Keys have no TTL and  *)
(* allocations succeed.                                                    *)
(***************************************************************************)
EXTENDS Integers, Sequences, FiniteSets, SequencesExt

CONSTANTS
    Clients,
    NoClient,
    Strings, Hashes,  \* the keys
    Absent,           \* the value of a key that does not exist
    MaxKeys,          \* config.max_keys of the cache, not 0
    Readers,          \* config.read_workers
    ReadLimit,        \* config.read_queue_limit
    WriteLimit,       \* config.write_queue_max_bytes, a mutation being one
    Following,        \* the commands that are sent behind another one
    MaxWrites         \* bound: mutations

ASSUME CacheAsideAssumption ==
    /\ IsFiniteSet(Clients) /\ NoClient \notin Clients
    /\ IsFiniteSet(Strings \cup Hashes) /\ Strings \cap Hashes = {}
    /\ \A S \in SUBSET (0 .. MaxWrites) : Absent # S
    /\ Following \subseteq {"GET", "DEL", "SET", "HSET"}
    /\ \A n \in {MaxKeys, Readers, ReadLimit, WriteLimit, MaxWrites} :
          n \in Nat \ {0}

Keys == Strings \cup Hashes

NoRequest == [op |-> "none"]
Requests ==
    [op : {"SET"}, key : Strings] \cup [op : {"HSET"}, key : Hashes]
        \cup [op : {"GET", "DEL"}, key : Keys]

NoTicket == -1

VARIABLES
    server,    \* the cache, the app_context and the mysql_store
    reactor,   \* where the Reactor thread is in drain_mysql_completions, and
               \* the client, if any, whose next request it takes there
    wake,      \* the eventfd of the Reactor is readable
    ringing,   \* readers between their mutex and the eventfd
    writer,    \* the writer thread: its stage and its job
    database,  \* the tables of MySQL
    truth,     \* the value of each key after the writes that were accepted
    parted     \* keys evicted while the result of their load was handed out,
               \* so that the cache may hold a part of their value

vars == <<server, reactor, wake, ringing, writer, database, truth, parted>>

NoJob == [stage |-> "none", waiters |-> <<>>, snapshot |-> <<>>,
          status |-> "none", row |-> Absent]

\* The cache is empty and the tables hold the keys, as left by the write 0.
Init ==
    /\ server =
          [request |-> [c \in Clients |-> NoRequest],
           ticket |-> [c \in Clients |-> NoTicket],
           cache |-> [k \in Keys |-> Absent],
           lru |-> <<>>,
           negative |-> {},
           dirty |-> [k \in Keys |-> 0],
           load |-> [k \in Keys |-> [generation |-> 0, waiters |-> 0]],
           waiting |-> <<>>,
           tail_gone |-> FALSE,
           overlooked |-> {},
           job |-> [k \in Keys |-> NoJob],
           queue |-> <<>>,
           completed |-> <<>>,
           writes |-> <<>>,
           pending_writes |-> 0,
           next_sequence |-> 0,
           applied |-> 0,
           stale |-> FALSE]
    /\ reactor = [stage |-> "idle", kept |-> 0, hand |-> <<>>,
                  input |-> NoClient]
    /\ wake = FALSE /\ ringing = 0
    /\ writer = [stage |-> "idle", job |-> <<>>]
    /\ truth = [k \in Keys |-> {0}] /\ parted = {}
    /\ database = [rows |-> truth, applied |-> 0]

-----------------------------------------------------------------------------
(* The tables of the dispatcher: operators on the server. *)

KeyOf(s, c) == s.request[c].key

Cached(s, k) == s.cache[k] # Absent

IsWrite(request) == request.op # "GET"

Answered(s, c) == [s EXCEPT !.request[c] = NoRequest]

\* Mutant of negative_cache_invalidate: the entry stays.
negative_cache_kept(s, k) == s

negative_cache_invalidate(s, k) == [s EXCEPT !.negative = @ \ {k}]

\* An entry of dirty_keys that MySQL has caught up with is dropped.
purge_applied_dirty_keys(s, keys) ==
    [s EXCEPT !.dirty =
        [k \in Keys |-> IF k \in keys /\ @[k] <= s.applied THEN 0 ELSE @[k]]]

dirty_key_sequence(s, k) == IF s.dirty[k] <= s.applied THEN 0 ELSE s.dirty[k]

bump_inflight_load_generation(s, k) ==
    IF s.load[k].waiters = 0 THEN s
                             ELSE [s EXCEPT !.load[k].generation = @ + 1]

mark_dirty_key(s, k, sequence) ==
    [bump_inflight_load_generation(s, k) EXCEPT !.dirty[k] = sequence]

register_pending_load(s, c) ==
    [s EXCEPT !.ticket[c] = s.load[KeyOf(s, c)].generation,
              !.load[KeyOf(s, c)].waiters = @ + 1]

\* The state of a key goes with its last waiter.
unregister_pending_load(s, c) ==
    LET load == s.load[KeyOf(s, c)]
    IN  [s EXCEPT !.ticket[c] = NoTicket,
                  !.load[KeyOf(s, c)] =
                      IF load.waiters = 1
                      THEN [generation |-> 0, waiters |-> 0]
                      ELSE [load EXCEPT !.waiters = load.waiters - 1]]

pending_load_is_stale(s, c) ==
    \/ s.load[KeyOf(s, c)].waiters = 0
    \/ s.load[KeyOf(s, c)].generation # s.ticket[c]

\* Mutant of queue_dirty_waiter: the head is replaced.
replace_dirty_waiters(s, c) == [s EXCEPT !.waiting = <<c>>]

\* Behind a tail that has left the list a waiter is in no list.
queue_dirty_waiter(s, c) ==
    IF s.tail_gone THEN [s EXCEPT !.overlooked = @ \cup {c}]
                   ELSE [s EXCEPT !.waiting = Append(@, c)]

-----------------------------------------------------------------------------
(* The store: calls of the Reactor thread under its mutex. *)

pending_reads(s) == Cardinality({k \in Keys : s.job[k].stage # "none"})

\* A request joins the load of its key, or starts one if the queue has room.
submit_load(s, c, k) ==
    IF s.job[k].stage # "none"
    THEN [s EXCEPT !.job[k].waiters = <<c>> \o @]
    ELSE [s EXCEPT !.job[k] = [NoJob EXCEPT !.stage = "queued",
                                            !.waiters = <<c>>],
                   !.queue = Append(@, k)]

\* Registers and submits, or answers TRYAGAIN.
Load(s, c, k) ==
    IF s.job[k].stage # "none" \/ pending_reads(s) < ReadLimit
    THEN submit_load(register_pending_load(s, c), c, k)
    ELSE Answered(s, c)

can_accept_write(s) == s.pending_writes < WriteLimit

submit_mutation(s, mutation) ==
    [s EXCEPT !.writes = Append(@, mutation),
              !.pending_writes = @ + 1,
              !.next_sequence = mutation.sequence]

-----------------------------------------------------------------------------
(* The cache and the commands. *)

\* The key was used: it comes first, and the last one is evicted if the
\* cache has too many.
StoreObject(s, k, value) ==
    LET order == <<k>> \o RemoveFirst(s.lru, k)
        victims == {order[i] : i \in MaxKeys + 1 .. Len(order)}
    IN  [s EXCEPT !.lru = SubSeq(order, 1, IF Len(order) < MaxKeys
                                           THEN Len(order) ELSE MaxKeys),
                  !.cache = [x \in Keys |-> IF x \in victims THEN Absent
                                            ELSE IF x = k THEN value
                                            ELSE @[x]]]

DropObject(s, k) ==
    [s EXCEPT !.lru = RemoveFirst(@, k), !.cache[k] = Absent]

\* What a write makes of a value: in the cache, in the tables, and in truth.
Effect(op, n, value) ==
    CASE op = "SET" -> {n}
      [] op = "HSET" -> {n} \cup (IF value = Absent THEN {} ELSE value)
      [] op = "DEL" -> Absent

\* A write that takes effect: the object, the mutation for MySQL, the mark.
Write(s, k, mutation) ==
    LET value == Effect(mutation.op, mutation.sequence, s.cache[k])
        stored == IF value = Absent THEN DropObject(s, k)
                                    ELSE StoreObject(s, k, value)
    IN  mark_dirty_key(submit_mutation(stored, mutation), k,
                       mutation.sequence)

Mutates(s, request) ==
    /\ IsWrite(request) /\ can_accept_write(s)
    /\ request.op = "DEL" => Cached(s, request.key)

\* kvstore_service_execute_with_barrier for the request of c, and what
\* dispatch_request and complete_pending_request do around it: the lookup for
\* all but SET uses the key.  Whether the command found an old value in the
\* cache, of a key that is not parted, is remembered.
Execute(s, c, request) ==
    LET k == request.key
        refused == IsWrite(request) /\ ~can_accept_write(s)
        before == IF IsWrite(request) THEN negative_cache_invalidate(s, k)
                                      ELSE s
        after == IF Mutates(s, request)
                 THEN Write(before, k, [op |-> request.op, key |-> k,
                                        sequence |-> s.next_sequence + 1])
                 ELSE IF request.op # "SET" /\ Cached(s, k)
                 THEN StoreObject(before, k, s.cache[k])
                 ELSE before
    IN  [Answered(after, c) EXCEPT !.stale =
            /\ ~refused /\ request.op # "SET" /\ k \notin parted
            /\ s.cache[k] # truth[k]]

\* The truth after Execute(s, ...): the writes it accepted.
Told(s, request) ==
    IF Mutates(s, request)
    THEN [truth EXCEPT ![request.key] =
             Effect(request.op, s.next_sequence + 1, @)]
    ELSE truth

\* The key whose current result is being handed out to its waiters.
Handed ==
    {k \in Keys : /\ reactor.stage = "results" /\ reactor.hand # <<>>
                  /\ reactor.hand[1].verdict = "deliver"
                  /\ reactor.hand[1].status \in {"found", "absent"}
                  /\ reactor.hand[1].key = k}

\* The parted keys after the execution of the request: SET and DEL make a key
\* whole again, and the request may evict the key that is handed out.
Parts(s, c, request) ==
    {k \in parted : ~(/\ Mutates(s, request) /\ request.op # "HSET"
                      /\ request.key = k)}
    \cup {k \in Handed : /\ k # request.key /\ Cached(s, k)
                         /\ ~Cached(Execute(s, c, request), k)}

\* The request of c, in state s, is executed on the cache as it is.
Executes(s, c) ==
    /\ server' = Execute(s, c, s.request[c])
    /\ truth' = Told(s, s.request[c])
    /\ parted' = Parts(s, c, s.request[c])

\* It is moved or answered without being executed.
Moves(s) == server' = s /\ UNCHANGED <<truth, parted>>

-----------------------------------------------------------------------------
(* The Reactor thread *)

\* A key that MySQL lags behind for must not be loaded.
MayLoad(s, k) == dirty_key_sequence(s, k) = 0

\* A miss waits for the writer if the key is dirty, and else for a load.
Miss(s, c, k) ==
    IF MayLoad(s, k) THEN Load(purge_applied_dirty_keys(s, {k}), c, k)
                     ELSE queue_dirty_waiter(s, c)

Outstanding == {c \in Clients : server.request[c] # NoRequest}

\* reactor_complete_response has answered c: process_input goes on with the
\* input of its connection, if there is any.
Continues(c) ==
    IF server'.request[c] = NoRequest THEN {NoClient, c} ELSE {NoClient}

\* dispatch_request, for input that has arrived or that was left when a
\* request was deferred.  SET needs no old value, and a key known to be
\* absent no load.
Dispatch(c, request) ==
    /\ \/ reactor.stage = "idle"
       \/ reactor.input = c /\ request.op \in Following
    /\ server.request[c] = NoRequest
    /\ IsWrite(request) =>
          server.next_sequence
             + Cardinality({d \in Outstanding : IsWrite(server.request[d])})
             < MaxWrites
    /\ LET k == request.key
           negative_hit == k \in server.negative
           invalidated == IF IsWrite(request)
                          THEN negative_cache_invalidate(server, k)
                          ELSE server
           s == [invalidated EXCEPT !.request[c] = request]
       IN  IF request.op # "SET" /\ ~negative_hit /\ ~Cached(s, k)
           THEN Moves(Miss(s, c, k))
           ELSE Executes(s, c)
    /\ IF reactor.stage = "idle" THEN UNCHANGED reactor
       ELSE \E d \in Continues(c) : reactor' = [reactor EXCEPT !.input = d]
    /\ UNCHANGED <<wake, ringing, writer, database>>

\* The eventfd is read, and drain_mysql_completions begins.
Wake ==
    /\ reactor.stage = "idle" /\ wake
    /\ wake' = FALSE
    /\ reactor' = [reactor EXCEPT !.stage = "waiters", !.kept = 0]
    /\ UNCHANGED <<server, ringing, writer, database, truth, parted>>

\* drain_dirty_waiters, one waiter: it stays if its key is still dirty.
DrainWaiter ==
    /\ reactor.stage = "waiters" /\ reactor.input = NoClient
    /\ reactor.kept < Len(server.waiting)
    /\ LET c == server.waiting[reactor.kept + 1]
           k == KeyOf(server, c)
           s == [purge_applied_dirty_keys(server, {k}) EXCEPT
                    !.waiting = RemoveAt(@, reactor.kept + 1),
                    !.tail_gone = reactor.kept + 1 = Len(server.waiting)]
       IN  IF ~MayLoad(server, k)
           THEN /\ reactor' = [reactor EXCEPT !.kept = @ + 1]
                /\ UNCHANGED <<server, truth, parted>>
           ELSE /\ IF Cached(s, k) THEN Executes(s, c) ELSE Moves(Load(s, c, k))
                /\ \E d \in Continues(c) : reactor' = [reactor EXCEPT !.input = d]
    /\ UNCHANGED <<wake, ringing, writer, database>>

\* drain_mysql_completions takes the results of the readers.
TakeResults ==
    /\ reactor.stage = "waiters" /\ reactor.input = NoClient
    /\ reactor.kept = Len(server.waiting)
    /\ server' = [purge_applied_dirty_keys(server, Keys) EXCEPT
                     !.completed = <<>>, !.tail_gone = FALSE]
    /\ reactor' = [reactor EXCEPT !.stage = "results", !.kept = 0,
                                  !.hand = server.completed]
    /\ UNCHANGED <<wake, ringing, writer, database, truth, parted>>

Result == Head(reactor.hand)

HandsOut ==
    /\ reactor.stage = "results" /\ reactor.hand # <<>>
    /\ reactor.input = NoClient

\* Mutant of Outdated: only the waiter that came last is asked.
OutdatedForLast(s, result) == pending_load_is_stale(s, Head(result.waiters))

\* A write overtook the load, for one of its waiters at least.
Outdated(s, result) ==
    \E i \in DOMAIN result.waiters : pending_load_is_stale(s, result.waiters[i])

\* A result that is not stale enters the cache or the negative cache.
Judge ==
    /\ HandsOut
    /\ Result.verdict = "none"
    /\ LET k == Result.key
           stale == Outdated(server, Result)
       IN  /\ reactor' = [reactor EXCEPT !.hand[1].verdict =
                             IF stale THEN "stale" ELSE "deliver"]
           /\ server' =
                 IF ~stale /\ Result.status = "found"
                 THEN StoreObject(server, k, Result.row)
                 ELSE IF ~stale /\ Result.status = "absent"
                 THEN [server EXCEPT !.negative = @ \cup {k}]
                 ELSE server
           /\ parted' = IF ~stale /\ Result.status = "found" THEN parted \ {k}
                                                             ELSE parted
    /\ UNCHANGED <<wake, ringing, writer, database, truth>>

\* Waiter c of the result has been dealt with; the result goes with the last
\* one.
NextWaiter(c) ==
    LET left == IF Len(Result.waiters) = 1 THEN Tail(reactor.hand)
                ELSE [reactor.hand EXCEPT ![1].waiters = Tail(@)]
    IN  \E d \in Continues(c) :
            reactor' = [reactor EXCEPT !.hand = left, !.input = d]

\* A waiter of a stale result finds the key in the cache, or starts again.
Retry ==
    /\ HandsOut
    /\ Result.verdict = "stale"
    /\ LET c == Head(Result.waiters)
           s == unregister_pending_load(server, c)
       IN  IF Cached(s, Result.key) THEN Executes(s, c)
                                    ELSE Moves(Miss(s, c, Result.key))
    /\ NextWaiter(Head(Result.waiters))
    /\ UNCHANGED <<wake, ringing, writer, database>>

\* A waiter of a current result is executed, or told of the error.
Deliver ==
    /\ HandsOut
    /\ Result.verdict = "deliver"
    /\ LET c == Head(Result.waiters)
           s == unregister_pending_load(server, c)
       IN  IF Result.status \in {"found", "absent"}
           THEN Executes(s, c)
           ELSE Moves(Answered(s, c))
    /\ NextWaiter(Head(Result.waiters))
    /\ UNCHANGED <<wake, ringing, writer, database>>

DrainEnds ==
    /\ reactor.stage = "results" /\ reactor.hand = <<>>
    /\ reactor.input = NoClient
    /\ reactor' = [reactor EXCEPT !.stage = "idle"]
    /\ UNCHANGED <<server, wake, ringing, writer, database, truth, parted>>

\* The timer: maintain_cache.
Maintain ==
    /\ reactor.stage = "idle"
    /\ server' = purge_applied_dirty_keys(server, Keys)
    /\ UNCHANGED <<reactor, wake, ringing, writer, database, truth, parted>>

\* An entry of the negative cache is over its TTL, or gave way to another.
NegativeExpires(k) ==
    /\ k \in server.negative
    /\ server' = negative_cache_invalidate(server, k)
    /\ UNCHANGED <<reactor, wake, ringing, writer, database, truth, parted>>

-----------------------------------------------------------------------------
(* The reader threads *)

BusyReaders ==
    ringing + Cardinality({k \in Keys : server.job[k].stage
                              \in {"taken", "keyed", "loaded", "snapped"}})

ReaderStep(k, from, job) ==
    /\ server.job[k].stage = from
    /\ server' = [server EXCEPT !.job[k] = job]
    /\ UNCHANGED <<reactor, wake, ringing, writer, database, truth, parted>>

ReaderTakes ==
    /\ server.queue # <<>> /\ BusyReaders < Readers
    /\ server' = [server EXCEPT !.queue = Tail(@),
                                !.job[Head(server.queue)].stage = "taken"]
    /\ UNCHANGED <<reactor, wake, ringing, writer, database, truth, parted>>

Loaded(k, status, row) ==
    [server.job[k] EXCEPT !.stage = "loaded", !.status = status, !.row = row]

\* load_object, first statement: is there a row for the key?
LoadKey(k) ==
    ReaderStep(k, "taken", IF database.rows[k] = Absent
                           THEN Loaded(k, "absent", Absent)
                           ELSE [server.job[k] EXCEPT !.stage = "keyed"])

\* Second statement, a snapshot of its own: the row may be gone.  A string
\* without value is an error, a Hash without fields is an empty Hash.
LoadValue(k) ==
    ReaderStep(k, "keyed", IF database.rows[k] # Absent
                           THEN Loaded(k, "found", database.rows[k])
                           ELSE IF k \in Hashes THEN Loaded(k, "found", {})
                           ELSE Loaded(k, "internal", Absent))

\* MySQL cannot be reached, or the connection breaks.
LoadFails(k) ==
    \E from \in {"taken", "keyed"} :
        ReaderStep(k, from, Loaded(k, "unavailable", Absent))

\* result->waiters = job->waiters, outside the mutex.
SnapWaiters(k) ==
    ReaderStep(k, "loaded", [server.job[k] EXCEPT !.stage = "snapped",
                                !.snapshot = server.job[k].waiters])

\* Under the mutex: the job leaves the list of loads in flight and the
\* result is queued.  The job and waiters that joined it late are freed.
ReaderFinishes(k) ==
    LET job == server.job[k]
    IN  /\ job.stage = "snapped"
        /\ server' = [server EXCEPT
               !.job[k] = NoJob,
               !.completed = Append(@, [key |-> k, status |-> job.status,
                                        row |-> job.row, verdict |-> "none",
                                        waiters |-> job.snapshot]),
               !.overlooked = @ \cup (ToSet(job.waiters) \ ToSet(job.snapshot))]
        /\ ringing' = ringing + 1
        /\ UNCHANGED <<reactor, wake, writer, database, truth, parted>>

ReaderNotifies ==
    /\ ringing > 0
    /\ ringing' = ringing - 1
    /\ wake' = TRUE
    /\ UNCHANGED <<server, reactor, writer, database, truth, parted>>

-----------------------------------------------------------------------------
(* The writer thread *)

WriterTakes ==
    /\ writer.stage = "idle" /\ server.writes # <<>>
    /\ writer' = [stage |-> "trying", job |-> Head(server.writes)]
    /\ server' = [server EXCEPT !.writes = Tail(@)]
    /\ UNCHANGED <<reactor, wake, ringing, database, truth, parted>>

\* apply_mutation commits: the rows, the change log (which has a mutation
\* once) and the watermark of the writer.  The answer may be lost.
WriterCommits(answered) ==
    LET m == writer.job
    IN  /\ writer.stage = "trying" /\ database.applied < m.sequence
        /\ database' = [database EXCEPT
               !.rows[m.key] = Effect(m.op, m.sequence, @),
               !.applied = m.sequence]
        /\ writer' = [writer EXCEPT !.stage = IF answered THEN "applied"
                                                          ELSE "trying"]
        /\ UNCHANGED <<server, reactor, wake, ringing, truth, parted>>

\* mutation_is_applied: the attempt before had committed.
WriterFindsApplied ==
    /\ writer.stage = "trying" /\ database.applied >= writer.job.sequence
    /\ writer' = [writer EXCEPT !.stage = "applied"]
    /\ UNCHANGED <<server, reactor, wake, ringing, database, truth, parted>>

WriterPublishes ==
    /\ writer.stage = "applied"
    /\ server' = [server EXCEPT !.applied = writer.job.sequence,
                                !.pending_writes = @ - 1]
    /\ writer' = [writer EXCEPT !.stage = "published"]
    /\ UNCHANGED <<reactor, wake, ringing, database, truth, parted>>

\* Mutant of WriterNotifies: only readers wake the Reactor.
WriterGoesOn ==
    /\ writer.stage = "published"
    /\ writer' = [stage |-> "idle", job |-> <<>>]
    /\ UNCHANGED <<server, reactor, wake, ringing, database, truth, parted>>

WriterNotifies ==
    /\ writer.stage = "published"
    /\ writer' = [stage |-> "idle", job |-> <<>>]
    /\ wake' = TRUE
    /\ UNCHANGED <<server, reactor, ringing, database, truth, parted>>

-----------------------------------------------------------------------------

ReactorStep == \/ Wake \/ DrainWaiter \/ TakeResults
               \/ Judge \/ Retry \/ Deliver \/ DrainEnds

ReaderSteps == \/ ReaderTakes \/ ReaderNotifies
               \/ \E k \in Keys : \/ LoadKey(k) \/ LoadValue(k)
                                  \/ SnapWaiters(k) \/ ReaderFinishes(k)

WriterStep == \/ WriterTakes \/ WriterCommits(TRUE)
              \/ WriterFindsApplied \/ WriterPublishes \/ WriterNotifies

Next ==
    \/ \E c \in Clients, request \in Requests : Dispatch(c, request)
    \/ ReactorStep \/ ReaderSteps \/ WriterStep
    \/ WriterCommits(FALSE)
    \/ Maintain
    \/ \E k \in Keys : NegativeExpires(k) \/ LoadFails(k)

Spec == Init /\ [][Next]_vars

-----------------------------------------------------------------------------
(* Properties *)

Values == {Absent} \cup SUBSET (0 .. MaxWrites)

TypeOK ==
    /\ \A c \in Clients : /\ server.request[c] \in Requests \cup {NoRequest}
                          /\ server.ticket[c] \in {NoTicket} \cup Nat
    /\ \A k \in Keys :
          /\ server.cache[k] \in Values /\ truth[k] \in Values
          /\ database.rows[k] \in Values
          /\ server.dirty[k] \in 0 .. server.next_sequence
          /\ server.load[k].waiters =
                Cardinality({c \in Clients : /\ server.ticket[c] # NoTicket
                                             /\ KeyOf(server, c) = k})
    /\ Len(server.lru) <= MaxKeys
    /\ ToSet(server.lru) = {k \in Keys : Cached(server, k)}
    /\ server.pending_writes \in 0 .. WriteLimit
    /\ server.next_sequence \in 0 .. MaxWrites
    /\ pending_reads(server) <= ReadLimit
    /\ BusyReaders <= Readers

\* Every accepted write is found where the next reader looks for it: in the
\* cache, or else in MySQL, unless the key is marked as dirty and the reader
\* waits.  No load brings back a row that was replaced in the meantime.  The
\* one exception: drain_mysql_completions stores a value and executes its
\* waiters one by one, and does not look whether the pipelined command of one
\* has evicted the key before the next is executed.
LatestIsFound ==
    \A k \in Keys :
        IF Cached(server, k) THEN k \in parted \/ server.cache[k] = truth[k]
        ELSE \/ dirty_key_sequence(server, k) # 0
             \/ database.rows[k] = truth[k]

\* No command but SET is executed on a value that is not the last one: GET,
\* DEL and HSET of a key that is not in the cache wait until it is loaded (but
\* for the keys that were evicted while they were handed out).
NoStaleAnswer == ~server.stale

\* No pipelined command evicts a key between its entry in the cache and the
\* execution of the last request that waited for it.
NoneParted == parted = {}

Holders(c) ==
    {<<"waiting", i>> : i \in {j \in DOMAIN server.waiting :
                                  server.waiting[j] = c}}
    \cup {<<"job", k>> : k \in {x \in Keys :
                                   c \in ToSet(server.job[x].waiters)}}
    \cup {<<"completed", i>> : i \in {j \in DOMAIN server.completed :
                              c \in ToSet(server.completed[j].waiters)}}
    \cup {<<"hand", i>> : i \in {j \in DOMAIN reactor.hand :
                              c \in ToSet(reactor.hand[j].waiters)}}

\* A request that waits is in exactly one list, and a request in a list
\* waits: none is answered twice or used after it was freed.  The waiter
\* counts of the loads, the LRU list and the queues agree with this.  (The
\* exception are the requests the code does lose: one that joins a load behind
\* the back of its reader, and one that queues behind a removed tail.)
HeldOnce ==
    /\ TypeOK
    /\ \A c \in Clients \ server.overlooked :
          Cardinality(Holders(c)) = (IF c \in Outstanding THEN 1 ELSE 0)

\* When all threads are at rest and no wake-up is on its way, no request is
\* left waiting: each load, and each mutation that a waiter needs, is
\* followed by a run of drain_mysql_completions that sees it.
NobodyForgotten ==
    (/\ reactor.stage = "idle" /\ ~wake /\ ringing = 0
     /\ writer.stage = "idle" /\ server.writes = <<>>
     /\ \A k \in Keys : server.job[k].stage = "none")
    => Outstanding \subseteq server.overlooked

=============================================================================
