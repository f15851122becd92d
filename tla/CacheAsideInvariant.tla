------------------------ MODULE CacheAsideInvariant ------------------------
(***************************************************************************)
(* The inductive invariants behind the theorems of CacheAsideProofs and    *)
(* CacheAsideCurrentProofs: Held says where every request is while it      *)
(* waits, Awake that whoever waits will be looked at again, and Current    *)
(* that no value is old without being known to be.                         *)
(*                                                                         *)
(* The parts are operators on a server s, so that they can be stated of    *)
(* the states in the middle of a handler too: F are the clients whose      *)
(* request is being worked on and in no list.  results are those the       *)
(* Reactor thread has in hand, followed by the completed ones.             *)
(***************************************************************************)
EXTENDS CacheAside

Busy == {"taken", "keyed", "loaded", "snapped"}

Statuses == {"none", "found", "absent", "internal", "unavailable"}

Jobs == [stage : {"none", "queued"} \cup Busy, waiters : Seq(Clients),
         snapshot : Seq(Clients), status : Statuses, row : Values]

Results == [key : Keys, status : Statuses, row : Values,
            verdict : {"none", "stale", "deliver"}, waiters : Seq(Clients)]

Mutations == [op : {"SET", "HSET", "DEL"}, key : Keys, sequence : 1 .. MaxWrites]

Servers ==
    [request : [Clients -> Requests \cup {NoRequest}],
     ticket : [Clients -> {NoTicket} \cup Nat],
     cache : [Keys -> Values],
     lru : Seq(Keys),
     negative : SUBSET Keys,
     dirty : [Keys -> Nat],
     load : [Keys -> [generation : Nat, waiters : Nat]],
     waiting : Seq(Clients),
     tail_gone : BOOLEAN,
     overlooked : SUBSET Clients,
     job : [Keys -> Jobs],
     queue : Seq(Keys),
     completed : Seq(Results),
     writes : Seq(Mutations),
     pending_writes : Nat,
     next_sequence : Nat,
     applied : Nat,
     stale : BOOLEAN]

-----------------------------------------------------------------------------
(* Where requests wait *)

In(q, c) == \E i \in 1..Len(q) : q[i] = c

Unique(q) == \A i, j \in 1..Len(q) : q[i] = q[j] => i = j

Disjoint(q, r) == \A i \in 1..Len(q), j \in 1..Len(r) : q[i] # r[j]

\* q is the end of r: who joins a load comes first.
EndOf(q, r) ==
    /\ q # <<>> /\ Len(q) <= Len(r)
    /\ \A i \in 1..Len(q) : q[i] = r[i + (Len(r) - Len(q))]

\* The clients q have registered for the load of k, each once.
Attached(s, k, q) ==
    /\ Unique(q)
    /\ \A i \in 1..Len(q) : /\ q[i] \in Clients
                            /\ s.request[q[i]] \in Requests
                            /\ s.request[q[i]].key = k
                            /\ s.ticket[q[i]] # NoTicket

\* A waiter for the writer has a request and is registered for no load; so is
\* a client that is being worked on, which no list has.
WaitersAgree(s, F) ==
    /\ Unique(s.waiting)
    /\ \A i \in 1..Len(s.waiting) : s.waiting[i] \notin F
    /\ \A c \in Clients : In(s.waiting, c) \/ c \in F =>
            s.request[c] \in Requests /\ s.ticket[c] = NoTicket

\* A job has waiters, and its reader copies the first of them at least.
JobsAgree(s) ==
    \A k \in Keys :
        LET job == s.job[k] IN
        /\ job.stage = "none" <=> job.waiters = <<>>
        /\ Attached(s, k, job.waiters)
        /\ job.stage = "snapped" => EndOf(job.snapshot, job.waiters)

\* A result has waiters, and no other load has them.
ResultsAgree(s, results) ==
    /\ \A i \in 1..Len(results) :
            /\ results[i].waiters # <<>>
            /\ Attached(s, results[i].key, results[i].waiters)
            /\ \A k \in Keys : Disjoint(s.job[k].waiters, results[i].waiters)
    /\ \A i, j \in 1..Len(results) :
            i # j => Disjoint(results[i].waiters, results[j].waiters)

\* A request is in a list, unless it is being worked on or overlooked.
EverybodyListed(s, results, F) ==
    \A c \in Clients \ (s.overlooked \cup F) :
        s.request[c] # NoRequest =>
            \/ In(s.waiting, c)
            \/ \E k \in Keys : In(s.job[k].waiters, c)
            \/ \E i \in 1..Len(results) : In(results[i].waiters, c)

Registered(s, k) ==
    {c \in Clients : s.ticket[c] # NoTicket /\ KeyOf(s, c) = k}

\* The state of a load counts its waiters, whose generations are past ones.
LoadsAgree(s) ==
    /\ \A k \in Keys : s.load[k].waiters = Cardinality(Registered(s, k))
    /\ \A c \in Clients : s.ticket[c] # NoTicket =>
            /\ s.request[c] \in Requests
            /\ s.ticket[c] <= s.load[KeyOf(s, c)].generation

\* Jobs in the queue are still to be taken.
QueueAgrees(s) ==
    /\ Unique(s.queue)
    /\ \A i \in 1..Len(s.queue) : s.job[s.queue[i]].stage = "queued"
    /\ pending_reads(s) <= ReadLimit

ListsAgree(s, results, F) ==
    /\ WaitersAgree(s, F)
    /\ JobsAgree(s)
    /\ ResultsAgree(s, results)
    /\ EverybodyListed(s, results, F)
    /\ LoadsAgree(s)
    /\ QueueAgrees(s)

\* The LRU list has the keys of the cache, and no more than it may.
LruAgrees(s) ==
    /\ Unique(s.lru) /\ Len(s.lru) <= MaxKeys
    /\ \A k \in Keys : In(s.lru, k) <=> Cached(s, k)

\* The writes that are going to be made are within the bound.
Writing(s) ==
    {c \in Clients : s.request[c] # NoRequest /\ IsWrite(s.request[c])}

WritesBounded(s) == s.next_sequence + Cardinality(Writing(s)) <= MaxWrites

Held(s, results, F) ==
    /\ s \in Servers
    /\ ListsAgree(s, results, F)
    /\ LruAgrees(s)
    /\ WritesBounded(s)

-----------------------------------------------------------------------------
(* Where the writes are *)

\* The number of the last write that the writer thread has taken.
Taken(s) == s.next_sequence - Len(s.writes)

\* The numbers of the queue follow each other, and tell how far MySQL is.
NumbersAgree(s, db, w) ==
    /\ w \in [stage : {"idle", "trying", "applied", "published"},
              job : {<<>>} \cup Mutations]
    /\ db \in [rows : [Keys -> Values], applied : Nat]
    /\ Taken(s) \in Nat
    /\ \A i \in 1..Len(s.writes) : s.writes[i].sequence = Taken(s) + i
    /\ w.stage # "idle" => w.job \in Mutations /\ w.job.sequence = Taken(s)
    /\ s.applied =
          (IF w.stage \in {"trying", "applied"} THEN Taken(s) - 1 ELSE Taken(s))
    /\ db.applied = Taken(s) \/ (w.stage = "trying" /\ db.applied = s.applied)
    /\ s.pending_writes = s.next_sequence - s.applied
    /\ s.pending_writes <= WriteLimit
    /\ \A k \in Keys : s.dirty[k] <= s.next_sequence

-----------------------------------------------------------------------------
(* What the values are worth *)

\* From the rows of MySQL the pending writes make the truth: m has the
\* writes, and h the values after each.
History(s, now, db, w, h, m) ==
    /\ \A k \in Keys : h[db.applied][k] = db.rows[k]
    /\ \A i \in 1..Len(s.writes) : m[Taken(s) + i] = s.writes[i]
    /\ w.stage = "trying" => m[Taken(s)] = w.job
    /\ \A n \in db.applied + 1 .. s.next_sequence, k \in Keys :
          h[n][k] = IF m[n].key = k THEN Effect(m[n].op, n, h[n - 1][k])
                                    ELSE h[n - 1][k]
    /\ \A n \in db.applied .. s.next_sequence, k \in Keys :
          (\A p \in n + 1 .. s.next_sequence : m[p].key # k)
             => h[n][k] = now[k]

\* No write of k is pending.
Quiet(s, db, m, k) ==
    \A n \in db.applied + 1 .. s.next_sequence : m[n].key # k

\* A key with a write that MySQL has not is marked.
DirtyAgrees(s, db, m) ==
    \A n \in db.applied + 1 .. s.next_sequence : n <= s.dirty[m[n].key]

\* No write of k has come since the oldest of its waiters q has registered.
Fresh(s, k, q) == q # <<>> /\ s.ticket[q[Len(q)]] = s.load[k].generation

\* A load that no write has overtaken read the last value.
JobsCurrent(s, now, db, m) ==
    \A k \in Keys :
        LET job == s.job[k] IN
        Fresh(s, k, job.waiters) =>
            /\ Quiet(s, db, m, k)
            /\ job.stage = "keyed" => now[k] # Absent
            /\ job.status = "found" => job.row = now[k]
            /\ job.status = "absent" => now[k] = Absent

ResultsCurrent(s, now, results) ==
    \A i \in 1..Len(results) :
        LET result == results[i] IN
        result.verdict = "none" /\ Fresh(s, result.key, result.waiters) =>
            /\ result.status = "found" => result.row = now[result.key]
            /\ result.status = "absent" => now[result.key] = Absent

\* The caches have last values, the negative one too, except that a parted key
\* (those in p), which exists, may have another value in the cache.
CacheCurrent(s, now, p) ==
    /\ \A k \in Keys : Cached(s, k) => k \in p \/ s.cache[k] = now[k]
    /\ \A k \in s.negative : now[k] = Absent
    /\ \A k \in Keys : k \in p => now[k] # Absent

\* While a current result is handed out the cache has its key, if it exists and
\* is not parted.
DeliveryCurrent(s, now, p, results) ==
    \A i \in 1..Len(results) :
        results[i].verdict = "deliver" /\ results[i].status \in {"found", "absent"}
            => \/ results[i].key \in p
               \/ s.cache[results[i].key] = now[results[i].key]

Current(s, now, p, db, w, results) ==
    /\ \E h, m : /\ History(s, now, db, w, h, m)
                 /\ DirtyAgrees(s, db, m)
                 /\ JobsCurrent(s, now, db, m)
    /\ ResultsCurrent(s, now, results)
    /\ CacheCurrent(s, now, p)
    /\ DeliveryCurrent(s, now, p, results)
    /\ ~s.stale

-----------------------------------------------------------------------------
(* Who looks again *)

\* A result that is completed, or a waiter whose key MySQL has caught up with,
\* is still to be met by drain_mysql_completions, now or after a wake-up.
Awake(s, r, bell, rings, w) ==
    /\ s.completed # <<>> => bell \/ rings > 0 \/ r.stage = "waiters"
    /\ \A i \in 1..Len(s.waiting) :
          \/ s.dirty[KeyOf(s, s.waiting[i])] > s.applied
          \/ bell
          \/ w.stage = "published"
          \/ r.stage = "waiters" /\ r.kept < i

\* Results are taken when those before are dealt with, and only the first one
\* of those in hand has been judged.
HandAgrees(s, r) ==
    /\ r \in [stage : {"idle", "waiters", "results"}, kept : Nat,
              hand : Seq(Results), input : Clients \cup {NoClient}]
    /\ r.kept <= Len(s.waiting)
    /\ r.stage # "results" => r.hand = <<>>
    /\ \A i \in 1..Len(s.completed) : s.completed[i].verdict = "none"
    /\ \A i \in 2..Len(r.hand) : r.hand[i].verdict = "none"

-----------------------------------------------------------------------------

\* What is found is a value.
JobsFound(s) ==
    \A k \in Keys : s.job[k].status = "found" => s.job[k].row # Absent

ResultsFound(results) ==
    \A i \in 1..Len(results) :
        results[i].status = "found" => results[i].row # Absent

ResultsOf(s, r) == r.hand \o s.completed

\* Where the requests and the writes are, and who looks at them again.
HeldInv ==
    /\ Held(server, ResultsOf(server, reactor), {})
    /\ HandAgrees(server, reactor)
    /\ JobsFound(server) /\ ResultsFound(ResultsOf(server, reactor))
    /\ NumbersAgree(server, database, writer)
    /\ Awake(server, reactor, wake, ringing, writer)
    /\ wake \in BOOLEAN /\ ringing \in Nat /\ BusyReaders <= Readers
    /\ truth \in [Keys -> Values]

\* What the values in the caches, the loads and the tables are worth.
CurrentInv ==
    Current(server, truth, parted, database, writer, ResultsOf(server, reactor))

=============================================================================
