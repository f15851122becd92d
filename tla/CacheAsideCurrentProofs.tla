----------------------- MODULE CacheAsideCurrentProofs -----------------------
(***************************************************************************)
(* No command is executed on an old value, but on that of a parted key:    *)
(* the proof that CurrentInv, with HeldInv, is kept by every step,         *)
(* whatever is sent behind a request.                                      *)
(***************************************************************************)
EXTENDS CacheAsideProofs

\* The pending writes, their marks, and the loads they may overtake.
Pending(s, now, db, w, h, m) ==
    /\ History(s, now, db, w, h, m)
    /\ DirtyAgrees(s, db, m)
    /\ JobsCurrent(s, now, db, m)

-----------------------------------------------------------------------------
(* Numbers *)

LEMMA NumberFacts ==
    ASSUME NEW s \in Servers, NEW db, NEW w, NumbersAgree(s, db, w)
    PROVE  /\ s.next_sequence \in Nat /\ s.applied \in Nat /\ db.applied \in Nat
           /\ s.applied <= db.applied /\ db.applied <= s.next_sequence
           /\ Taken(s) \in Nat /\ Taken(s) + Len(s.writes) = s.next_sequence
           /\ Len(s.writes) \in Nat
           /\ db.applied = Taken(s) \/ (w.stage = "trying" /\ db.applied = Taken(s) - 1)
           /\ w.stage = "trying" => w.job \in Mutations /\ w.job.sequence = Taken(s)
  <1>1. /\ s.next_sequence \in Nat /\ s.applied \in Nat /\ Len(s.writes) \in Nat
    BY DEF Servers
  <1>2. db.applied \in Nat /\ Taken(s) \in Nat
    BY DEF NumbersAgree
  <1>3. Taken(s) + Len(s.writes) = s.next_sequence
    BY <1>1 DEF Taken
  <1>4. /\ db.applied = Taken(s) \/ (w.stage = "trying" /\ db.applied = Taken(s) - 1)
        /\ s.applied \in {Taken(s), Taken(s) - 1}
        /\ db.applied = Taken(s) \/ db.applied = s.applied
    BY DEF NumbersAgree
  <1>5. w.stage = "trying" => w.job \in Mutations /\ w.job.sequence = Taken(s)
    BY DEF NumbersAgree
  <1>6. QED
    BY <1>1, <1>2, <1>3, <1>4, <1>5

\* Every pending write is in the queue or in the hands of the writer.
LEMMA PendingWrites ==
    ASSUME NEW s \in Servers, NEW now, NEW db, NEW w, NumbersAgree(s, db, w),
           NEW h, NEW m, History(s, now, db, w, h, m),
           NEW n \in db.applied + 1 .. s.next_sequence
    PROVE  m[n] \in Mutations /\ m[n].key \in Keys
  <1>1. CASE n > Taken(s)
    <2> DEFINE i == n - Taken(s)
    <2>1. i \in 1..Len(s.writes) /\ n = Taken(s) + i
      BY <1>1, NumberFacts
    <2>2. m[n] = s.writes[i] /\ s.writes[i] \in Mutations
      BY <2>1 DEF History, Servers
    <2>3. QED
      BY <2>2 DEF Mutations
  <1>2. CASE n <= Taken(s)
    <2>1. n = Taken(s) /\ w.stage = "trying" /\ w.job \in Mutations
      BY <1>2, NumberFacts
    <2>2. m[n] = w.job
      BY <2>1 DEF History
    <2>3. QED
      BY <2>1, <2>2 DEF Mutations
  <1>3. QED
    BY <1>1, <1>2, NumberFacts

\* A key that may be loaded has no pending write, and its row is the truth.
LEMMA MayLoadQuiet ==
    ASSUME NEW s \in Servers, NEW now, NEW db, NEW w, NumbersAgree(s, db, w),
           NEW h, NEW m, Pending(s, now, db, w, h, m), NEW k \in Keys, MayLoad(s, k)
    PROVE  Quiet(s, db, m, k)
  <1>1. s.dirty[k] \in Nat /\ s.dirty[k] <= s.applied
    <2>1. s.dirty[k] \in Nat /\ s.applied \in Nat
      BY DEF Servers
    <2>2. QED
      BY <2>1 DEF MayLoad, dirty_key_sequence
  <1>2. SUFFICES ASSUME NEW n \in db.applied + 1 .. s.next_sequence, m[n].key = k
                 PROVE  FALSE
    BY DEF Quiet
  <1>3. n <= s.dirty[k]
    BY <1>2 DEF Pending, DirtyAgrees
  <1>4. QED
    BY <1>1, <1>2, <1>3, NumberFacts

LEMMA QuietRow ==
    ASSUME NEW s \in Servers, NEW now, NEW db, NEW w, NumbersAgree(s, db, w),
           NEW h, NEW m, History(s, now, db, w, h, m), NEW k \in Keys,
           Quiet(s, db, m, k)
    PROVE  db.rows[k] = now[k]
  <1>1. /\ db.applied \in db.applied .. s.next_sequence
    BY NumberFacts
  <1>2. h[db.applied][k] = now[k]
    BY <1>1 DEF History, Quiet
  <1>3. QED
    BY <1>2 DEF History

-----------------------------------------------------------------------------
(* Loads that a write has overtaken *)

\* Whoever is attached to a load is registered for its key.
LEMMA AttachedRegistered ==
    ASSUME NEW s \in Servers, LoadsAgree(s), NEW k \in Keys, NEW q \in Seq(Clients),
           Attached(s, k, q), q # <<>>, NEW d, d = q[Len(q)]
    PROVE  /\ Len(q) \in 1..Len(q) /\ In(q, d)
           /\ d \in Registered(s, k) /\ s.load[k].waiters # 0
           /\ s.load[k].waiters \in Nat /\ s.load[k].generation \in Nat
           /\ s.ticket[d] \in Nat /\ s.ticket[d] <= s.load[k].generation
           /\ s.load[k].waiters = Cardinality(Registered(s, k))
           /\ IsFiniteSet(Registered(s, k))
  <1>1. Len(q) \in 1..Len(q)
    BY NotEmpty
  <1>2. /\ d \in Clients /\ s.request[d] \in Requests /\ s.request[d].key = k
        /\ s.ticket[d] # NoTicket
    BY <1>1 DEF Attached
  <1>3. d \in Registered(s, k)
    BY <1>2 DEF Registered, KeyOf
  <1>4. IsFiniteSet(Registered(s, k))
    <2>1. Registered(s, k) \subseteq Clients
      BY DEF Registered
    <2>2. QED
      BY <2>1, Constants, FS_Subset
  <1>5. s.load[k].waiters = Cardinality(Registered(s, k))
    BY DEF LoadsAgree
  <1>6. s.load[k].waiters # 0
    BY <1>3, <1>4, <1>5, FS_EmptySet
  <1>7. /\ s.load[k].waiters \in Nat /\ s.load[k].generation \in Nat
        /\ s.ticket[d] \in Nat
    BY <1>2 DEF Servers
  <1>8. s.ticket[d] <= s.load[k].generation
    BY <1>2 DEF LoadsAgree, KeyOf
  <1>9. QED
    BY <1>1, <1>3, <1>4, <1>5, <1>6, <1>7, <1>8 DEF In

\* bump_inflight_load_generation: no load of the key is fresh after a write.
LEMMA WriteOvertakes ==
    ASSUME NEW s \in Servers, LoadsAgree(s), NEW k \in Keys, NEW q \in Seq(Clients),
           Attached(s, k, q), NEW t, NEW mutation, WriteTaken(s, t, k, mutation),
           t.ticket = s.ticket
    PROVE  ~Fresh(t, k, q)
  <1> SUFFICES ASSUME q # <<>>, t.ticket[q[Len(q)]] = t.load[k].generation
               PROVE  FALSE
    BY DEF Fresh
  <1> DEFINE d == q[Len(q)]
  <1>1. /\ s.load[k].waiters # 0 /\ s.load[k].generation \in Nat
        /\ s.ticket[d] \in Nat /\ s.ticket[d] <= s.load[k].generation
    BY AttachedRegistered
  <1>2. t.load = [s.load EXCEPT ![k].generation = @ + 1]
    BY <1>1 DEF WriteTaken
  <1>3. t.load[k].generation = s.load[k].generation + 1
    BY <1>2 DEF Servers
  <1>4. QED
    BY <1>1, <1>3

LEMMA WriteElsewhere ==
    ASSUME NEW s \in Servers, NEW k \in Keys, NEW x \in Keys \ {k}, NEW t,
           NEW mutation, WriteTaken(s, t, k, mutation)
    PROVE  t.load[x].generation = s.load[x].generation /\ t.dirty[x] = s.dirty[x]
  BY DEF WriteTaken, Servers

-----------------------------------------------------------------------------
(* A write *)

\* f goes on with v at n.
GoesOnWith(f, g, n, v) ==
    /\ g[n] = v
    /\ \A i \in 0 .. n - 1 : g[i] = f[i]

LEMMA GoesOnFacts ==
    ASSUME NEW f, NEW n \in Nat, NEW v, NEW g,
           g = [i \in Nat |-> IF i = n THEN v ELSE f[i]]
    PROVE  GoesOnWith(f, g, n, v)
  BY DEF GoesOnWith

LEMMA TakenStays ==
    ASSUME NEW s \in Servers, NEW t, NEW k, NEW mutation \in Mutations,
           mutation.sequence = s.next_sequence + 1, WriteTaken(s, t, k, mutation)
    PROVE  /\ Taken(t) = Taken(s) /\ t.next_sequence = s.next_sequence + 1
           /\ Len(t.writes) = Len(s.writes) + 1
           /\ \A i \in 1..Len(s.writes) : t.writes[i] = s.writes[i]
           /\ t.writes[Len(s.writes) + 1] = mutation
  <1>1. s.writes \in Seq(Mutations) /\ Len(s.writes) \in Nat /\ s.next_sequence \in Nat
    BY DEF Servers
  <1>2. t.writes = Append(s.writes, mutation) /\ t.next_sequence = s.next_sequence + 1
    BY DEF WriteTaken
  <1>3. /\ Len(t.writes) = Len(s.writes) + 1
        /\ \A i \in 1..Len(s.writes) : t.writes[i] = s.writes[i]
        /\ t.writes[Len(s.writes) + 1] = mutation
    BY <1>1, <1>2
  <1>4. QED
    BY <1>1, <1>2, <1>3 DEF Taken

\* The truth goes on with the effect of the write, the others keep theirs.
LEMMA HistoryWritten ==
    ASSUME NEW s \in Servers, NEW now, NEW db, NEW w, NumbersAgree(s, db, w),
           NEW h, NEW m, History(s, now, db, w, h, m),
           NEW t, NEW k \in Keys, NEW mutation \in Mutations, mutation.key = k,
           mutation.sequence = s.next_sequence + 1, WriteTaken(s, t, k, mutation),
           NEW after, after[k] = Effect(mutation.op, mutation.sequence, now[k]),
           \A x \in Keys \ {k} : after[x] = now[x],
           NEW h2, GoesOnWith(h, h2, s.next_sequence + 1, after),
           NEW m2, GoesOnWith(m, m2, s.next_sequence + 1, mutation)
    PROVE  History(t, after, db, w, h2, m2)
  <1> DEFINE n0 == s.next_sequence
             a == db.applied
             len == Len(s.writes)
  <1>1. /\ n0 \in Nat /\ a \in Nat /\ a <= n0 /\ Taken(s) \in Nat
        /\ Taken(s) + len = n0 /\ len \in Nat
        /\ a = Taken(s) \/ (w.stage = "trying" /\ a = Taken(s) - 1)
    BY NumberFacts
  <1>2. /\ Taken(t) = Taken(s) /\ t.next_sequence = n0 + 1
        /\ Len(t.writes) = len + 1
        /\ \A i \in 1..len : t.writes[i] = s.writes[i]
        /\ t.writes[len + 1] = mutation
    BY TakenStays
  <1>3. /\ h2[n0 + 1] = after /\ m2[n0 + 1] = mutation
        /\ \A i \in 0 .. n0 : h2[i] = h[i] /\ m2[i] = m[i]
    BY <1>1 DEF GoesOnWith
  <1>4. \A x \in Keys : h[n0][x] = now[x]
    <2>1. n0 \in a .. n0 /\ \A p \in n0 + 1 .. n0 : FALSE
      BY <1>1
    <2>2. QED
      BY <2>1 DEF History
  <1>5. \A x \in Keys : h2[a][x] = db.rows[x]
    BY <1>1, <1>3 DEF History
  <1>6. \A i \in 1..Len(t.writes) : m2[Taken(t) + i] = t.writes[i]
    <2> TAKE i \in 1..Len(t.writes)
    <2>1. CASE i \in 1..len
      <3>1. m[Taken(s) + i] = s.writes[i]
        BY <2>1 DEF History
      <3>2. Taken(s) + i \in 0..n0
        BY <1>1, <2>1
      <3>3. QED
        BY <1>2, <1>3, <2>1, <3>1, <3>2
    <2>2. CASE i = len + 1
      <3>1. Taken(s) + i = n0 + 1
        BY <1>1, <2>2
      <3>2. QED
        BY <1>2, <1>3, <2>2, <3>1
    <2>3. QED
      BY <1>1, <1>2, <2>1, <2>2
  <1>7. w.stage = "trying" => m2[Taken(t)] = w.job
    <2>1. Taken(s) \in 0..n0
      BY <1>1
    <2>2. QED
      BY <1>2, <1>3, <2>1 DEF History
  <1>8. ASSUME NEW n \in a + 1 .. n0 + 1, NEW x \in Keys
        PROVE  h2[n][x] = IF m2[n].key = x THEN Effect(m2[n].op, n, h2[n - 1][x])
                                           ELSE h2[n - 1][x]
    <2>1. CASE n \in a + 1 .. n0
      <3>1. n \in 0..n0 /\ n - 1 \in 0..n0
        BY <1>1, <2>1
      <3>2. h[n][x] = IF m[n].key = x THEN Effect(m[n].op, n, h[n - 1][x])
                                      ELSE h[n - 1][x]
        BY <2>1 DEF History
      <3>3. h2[n] = h[n] /\ m2[n] = m[n] /\ h2[n - 1] = h[n - 1]
        BY <1>3, <3>1
      <3>4. QED
        BY <3>2, <3>3
    <2>2. CASE n = n0 + 1
      <3>1. n - 1 = n0 /\ n0 \in 0..n0
        BY <1>1, <2>2
      <3>2. h2[n] = after /\ m2[n] = mutation /\ h2[n - 1][x] = now[x]
        BY <1>3, <1>4, <2>2, <3>1
      <3>3. CASE x = k
        BY <2>2, <3>2, <3>3
      <3>4. CASE x # k
        BY <3>2, <3>4
      <3>5. QED
        BY <3>3, <3>4
    <2>3. QED
      BY <1>1, <2>1, <2>2
  <1>9. ASSUME NEW n \in a .. n0 + 1, NEW x \in Keys,
               \A p \in n + 1 .. n0 + 1 : m2[p].key # x
        PROVE  h2[n][x] = after[x]
    <2>1. CASE n = n0 + 1
      BY <1>3, <2>1
    <2>2. CASE n \in a .. n0
      <3>1. n0 + 1 \in n + 1 .. n0 + 1
        BY <1>1, <2>2
      <3>2. x # k
        BY <1>3, <1>9, <3>1
      <3>3. \A p \in n + 1 .. n0 : m[p].key # x
        <4> TAKE p \in n + 1 .. n0
        <4>1. p \in n + 1 .. n0 + 1 /\ p \in 0 .. n0
          BY <1>1, <2>2
        <4>2. QED
          BY <1>3, <1>9, <4>1
      <3>4. h[n][x] = now[x]
        BY <2>2, <3>3 DEF History
      <3>5. n \in 0..n0
        BY <1>1, <2>2
      <3>6. QED
        BY <1>3, <3>2, <3>4, <3>5
    <2>3. n = n0 + 1 \/ n \in a .. n0
      BY ONLY <1>1, n \in a .. n0 + 1
    <2>4. QED
      BY <2>1, <2>2, <2>3
  <1>10. QED
    BY <1>2, <1>5, <1>6, <1>7, <1>8, <1>9 DEF History

LEMMA PendingWritten ==
    ASSUME NEW s \in Servers, NEW now, NEW db, NEW w, NumbersAgree(s, db, w),
           NEW h, NEW m, Pending(s, now, db, w, h, m),
           JobsAgree(s), LoadsAgree(s),
           NEW t, NEW k \in Keys, NEW mutation \in Mutations, mutation.key = k,
           mutation.sequence = s.next_sequence + 1, WriteTaken(s, t, k, mutation),
           t.ticket = s.ticket, t.job = s.job,
           NEW after, after[k] = Effect(mutation.op, mutation.sequence, now[k]),
           \A x \in Keys \ {k} : after[x] = now[x]
    PROVE  \E h2, m2 : Pending(t, after, db, w, h2, m2)
  <1> DEFINE n0 == s.next_sequence
             a == db.applied
             h2 == [i \in Nat |-> IF i = n0 + 1 THEN after ELSE h[i]]
             m2 == [i \in Nat |-> IF i = n0 + 1 THEN mutation ELSE m[i]]
  <1>1. /\ n0 \in Nat /\ a \in Nat /\ a <= n0 /\ n0 + 1 \in Nat
    BY NumberFacts
  <1>2. GoesOnWith(h, h2, n0 + 1, after) /\ GoesOnWith(m, m2, n0 + 1, mutation)
    BY <1>1, GoesOnFacts
  <1> HIDE DEF h2, m2
  <1>3. History(t, after, db, w, h2, m2)
    BY <1>2, HistoryWritten DEF Pending
  <1>4. /\ t.next_sequence = n0 + 1 /\ m2[n0 + 1] = mutation
        /\ \A i \in 0 .. n0 : m2[i] = m[i]
    BY <1>1, <1>2, TakenStays DEF GoesOnWith
  <1>5. DirtyAgrees(t, db, m2)
    <2> SUFFICES ASSUME NEW n \in a + 1 .. n0 + 1
                 PROVE  n <= t.dirty[m2[n].key]
      BY <1>4 DEF DirtyAgrees
    <2>1. t.dirty[k] = n0 + 1
      BY DEF WriteTaken, Servers
    <2>2. CASE n = n0 + 1
      BY <1>1, <1>4, <2>1, <2>2
    <2>3. CASE n \in a + 1 .. n0
      <3>1. n <= s.dirty[m[n].key] /\ m[n].key \in Keys /\ m2[n] = m[n]
        BY <1>1, <1>4, <2>3, PendingWrites DEF Pending, DirtyAgrees
      <3>2. CASE m[n].key = k
        BY <1>1, <2>1, <2>3, <3>1, <3>2
      <3>3. CASE m[n].key # k
        BY <3>1, <3>3, WriteElsewhere
      <3>4. QED
        BY <3>2, <3>3
    <2>4. QED
      BY <1>1, <2>2, <2>3
  <1>6. JobsCurrent(t, after, db, m2)
    <2> SUFFICES ASSUME NEW x \in Keys, Fresh(t, x, s.job[x].waiters)
                 PROVE  LET job == s.job[x] IN
                        /\ Quiet(t, db, m2, x)
                        /\ job.stage = "keyed" => after[x] # Absent
                        /\ job.status = "found" => job.row = after[x]
                        /\ job.status = "absent" => after[x] = Absent
      BY DEF JobsCurrent
    <2> DEFINE q == s.job[x].waiters
    <2>1. q \in Seq(Clients) /\ Attached(s, x, q)
      BY DEF Servers, Jobs, JobsAgree
    <2>2. x # k
      BY <2>1, WriteOvertakes
    <2>3. Fresh(s, x, q) /\ after[x] = now[x]
      BY <2>2, WriteElsewhere DEF Fresh
    <2>4. Quiet(s, db, m, x)
      BY <2>3 DEF Pending, JobsCurrent
    <2>5. Quiet(t, db, m2, x)
      <3> SUFFICES ASSUME NEW n \in a + 1 .. n0 + 1
                   PROVE  m2[n].key # x
        BY <1>4 DEF Quiet
      <3>1. CASE n = n0 + 1
        BY <1>4, <2>2, <3>1
      <3>2. CASE n \in a + 1 .. n0
        BY <1>1, <1>4, <2>4, <3>2 DEF Quiet
      <3>3. QED
        BY <1>1, <3>1, <3>2
    <2>6. QED
      BY <2>3, <2>5 DEF Pending, JobsCurrent
  <1>7. Pending(t, after, db, w, h2, m2)
    BY <1>3, <1>5, <1>6 DEF Pending
  <1>8. QED
    BY <1>7

-----------------------------------------------------------------------------
(* The results and the caches *)

\* The command may be executed on the cache as it is.
MayExecute(s, request, now, p) ==
    request.op # "SET" => \/ request.key \in p
                          \/ s.cache[request.key] = now[request.key]

\* What a command is to know of the values before it, and leaves of them.
Truthful(s, request, now, after) ==
    /\ after \in [Keys -> Values]
    /\ Mutates(s, request) => after[request.key] =
           Effect(request.op, s.next_sequence + 1, now[request.key])
    /\ ~Mutates(s, request) => after[request.key] = now[request.key]
    /\ \A x \in Keys \ {request.key} : after[x] = now[x]

\* The parted keys were p and are left: the command may make its own key whole
\* again, and may evict one that is being handed out.
Parting(s, t, request, p, left, handed) ==
    \A x \in Keys :
        x \in left <=>
            \/ /\ x \in p
               /\ ~(Mutates(s, request) /\ request.op # "HSET" /\ request.key = x)
            \/ x \in handed /\ x # request.key /\ Cached(s, x) /\ ~Cached(t, x)

\* The key of the command is parted, or what the command leaves is the truth.
LEMMA OwnKeyExecuted ==
    ASSUME NEW s \in Servers, NEW t, NEW request \in Requests, NEW p,
           NEW now \in [Keys -> Values],
           MayExecute(s, request, now, p), CacheCurrent(s, now, p), NEW c,
           Performed(s, t, c, request), NEW after, Truthful(s, request, now, after),
           NEW left, NEW handed, Parting(s, t, request, p, left, handed)
    PROVE  /\ request.key \in left => after[request.key] # Absent
           /\ \/ request.key \in left
              \/ request.op = "SET" /\ ~Mutates(s, request)
                    /\ t.cache[request.key] = s.cache[request.key]
              \/ t.cache[request.key] = after[request.key]
  <1> DEFINE k == request.key
  <1>1. k \in Keys
    BY Constants
  <1>2. k \in left <=> k \in p /\ ~(Mutates(s, request) /\ request.op # "HSET")
    BY <1>1 DEF Parting
  <1>3. k \in p => now[k] # Absent
    BY <1>1 DEF CacheCurrent
  <1>4. CASE Mutates(s, request)
    <2>1. t.cache[k] = Effect(request.op, s.next_sequence + 1, s.cache[k])
      BY <1>4 DEF Performed, CacheChanges
    <2>2. after[k] = Effect(request.op, s.next_sequence + 1, now[k])
      BY <1>4 DEF Truthful
    <2>3. CASE request.op = "SET"
      BY <1>2, <1>4, <2>1, <2>2, <2>3 DEF Effect
    <2>4. CASE request.op = "DEL"
      <3>1. t.cache[k] = Absent /\ after[k] = Absent
        BY <2>1, <2>2, <2>4 DEF Effect
      <3>2. QED
        BY <1>2, <1>4, <2>4, <3>1
    <2>5. CASE request.op = "HSET"
      <3>1. s.next_sequence + 1 \in 1 .. MaxWrites
        BY <1>4 DEF Performed, MutationOf, Mutations
      <3>2. after[k] # Absent
        BY <1>1, <2>2, <2>5, <3>1, EffectFacts
      <3>3. CASE k \in p
        BY <1>2, <2>5, <3>2, <3>3
      <3>4. CASE k \notin p
        BY <2>1, <2>2, <2>5, <3>2, <3>4 DEF MayExecute
      <3>5. QED
        BY <3>3, <3>4
    <2>6. request.op \in {"SET", "DEL", "HSET"}
      BY <1>4, Constants DEF Mutates, IsWrite
    <2>7. QED
      BY <2>3, <2>4, <2>5, <2>6
  <1>5. CASE ~Mutates(s, request)
    <2>1. t.cache[k] = s.cache[k] /\ after[k] = now[k]
      BY <1>5 DEF Performed, CacheChanges, Truthful
    <2>2. QED
      BY <1>2, <1>3, <1>5, <2>1 DEF MayExecute
  <1>6. QED
    BY <1>4, <1>5

\* Another key stays as it is or is evicted.
LEMMA OtherKeyExecuted ==
    ASSUME NEW s \in Servers, NEW t, NEW request \in Requests, NEW c,
           Performed(s, t, c, request), NEW x \in Keys, x # request.key
    PROVE  t.cache[x] \in {s.cache[x], Absent}
  <1>1. CASE Mutates(s, request)
    BY <1>1 DEF Performed, CacheChanges
  <1>2. CASE ~Mutates(s, request)
    BY <1>2 DEF Performed, CacheChanges
  <1>3. QED
    BY <1>1, <1>2

\* What the command leaves is the truth, and only its own key may be new.
LEMMA CacheExecuted ==
    ASSUME NEW s \in Servers, NEW t, NEW request \in Requests, NEW p,
           NEW now \in [Keys -> Values],
           MayExecute(s, request, now, p), CacheCurrent(s, now, p), NEW c,
           Performed(s, t, c, request), NEW after, Truthful(s, request, now, after),
           NEW left, NEW handed, Parting(s, t, request, p, left, handed)
    PROVE  CacheCurrent(t, after, left)
  <1> DEFINE k == request.key
  <1>1. k \in Keys
    BY Constants
  <1>2. ASSUME NEW x \in Keys, x # k
        PROVE  /\ Cached(t, x) => x \in left \/ t.cache[x] = after[x]
               /\ x \in left => after[x] # Absent
    <2>1. t.cache[x] \in {s.cache[x], Absent} /\ after[x] = now[x]
      BY <1>2, OtherKeyExecuted DEF Truthful
    <2>2. x \in left <=> x \in p \/ (x \in handed /\ Cached(s, x) /\ ~Cached(t, x))
      BY <1>2 DEF Parting
    <2>3. /\ Cached(s, x) => x \in p \/ s.cache[x] = now[x]
          /\ x \in p => now[x] # Absent
      BY DEF CacheCurrent
    <2>4. QED
      BY <2>1, <2>2, <2>3 DEF Cached
  <1>3. /\ Cached(t, k) => k \in left \/ t.cache[k] = after[k]
        /\ k \in left => after[k] # Absent
    <2>1. /\ k \in left => after[k] # Absent
          /\ \/ k \in left
             \/ request.op = "SET" /\ ~Mutates(s, request) /\ t.cache[k] = s.cache[k]
             \/ t.cache[k] = after[k]
      <3>1. /\ request \in Requests /\ s \in Servers /\ now \in [Keys -> Values]
            /\ Parting(s, t, request, p, left, handed)
            /\ Truthful(s, request, now, after) /\ Performed(s, t, c, request)
            /\ MayExecute(s, request, now, p) /\ CacheCurrent(s, now, p)
        OBVIOUS
      <3>2. QED
        BY <3>1, OwnKeyExecuted, SMTT(60)
    <2>2. ASSUME Cached(t, k), request.op = "SET", ~Mutates(s, request),
                 t.cache[k] = s.cache[k]
          PROVE  k \in left \/ t.cache[k] = after[k]
      <3>1. Cached(s, k) /\ after[k] = now[k]
        BY <2>2 DEF Cached, Truthful
      <3>2. k \in p => k \in left
        BY <1>1, <2>2 DEF Parting
      <3>3. QED
        BY <1>1, <2>2, <3>1, <3>2 DEF CacheCurrent
    <2>3. QED
      BY <2>1, <2>2
  <1>4. ASSUME NEW x \in t.negative
        PROVE  after[x] = Absent
    <2>1. s.negative \subseteq Keys
      BY DEF Servers
    <2>2. CASE IsWrite(request)
      <3>1. x \in s.negative \ {k}
        BY <1>4, <2>2 DEF Performed
      <3>2. QED
        BY <2>1, <3>1 DEF CacheCurrent, Truthful
    <2>3. CASE ~IsWrite(request)
      <3>1. x \in s.negative /\ ~Mutates(s, request)
        BY <1>4, <2>3 DEF Performed, Mutates
      <3>2. after[x] = now[x]
        BY <2>1, <3>1 DEF Truthful
      <3>3. QED
        BY <3>1, <3>2 DEF CacheCurrent
    <2>4. QED
      BY <2>2, <2>3
  <1>5. QED
    BY <1>2, <1>3, <1>4 DEF CacheCurrent

\* A result that is being handed out is for the key of the command, or for one
\* that is noted when it is evicted.
Noted(request, results, handed) ==
    \A i \in 1..Len(results) :
        results[i].verdict = "deliver" /\ results[i].status \in {"found", "absent"}
            => results[i].key = request.key \/ results[i].key \in handed

\* The keys of the results that are being handed out stay, or become parted.
LEMMA DeliveryExecuted ==
    ASSUME NEW s \in Servers, NEW t, NEW request \in Requests, NEW p,
           NEW now \in [Keys -> Values],
           MayExecute(s, request, now, p), CacheCurrent(s, now, p), NEW c,
           Performed(s, t, c, request), NEW after, Truthful(s, request, now, after),
           NEW left, NEW handed, Parting(s, t, request, p, left, handed),
           NEW results, DeliveryCurrent(s, now, p, results),
           Noted(request, results, handed),
           \A i \in 1..Len(results) : results[i].key \in Keys
    PROVE  DeliveryCurrent(t, after, left, results)
  <1> SUFFICES ASSUME NEW i \in 1..Len(results), results[i].verdict = "deliver",
                      results[i].status \in {"found", "absent"}
               PROVE  \/ results[i].key \in left
                      \/ t.cache[results[i].key] = after[results[i].key]
    BY DEF DeliveryCurrent
  <1> DEFINE k == request.key
             x == results[i].key
  <1>1. x \in Keys /\ (x \in p \/ s.cache[x] = now[x])
    BY DEF DeliveryCurrent
  <1>2. CASE x = k
    <2>1. ASSUME ~Mutates(s, request), t.cache[k] = s.cache[k]
          PROVE  k \in left \/ t.cache[k] = after[k]
      <3>1. after[k] = now[k]
        BY <2>1 DEF Truthful
      <3>2. k \in p => k \in left
        BY <1>1, <1>2, <2>1 DEF Parting
      <3>3. QED
        BY <1>1, <1>2, <2>1, <3>1, <3>2
    <2>2. QED
      BY <1>2, <2>1, OwnKeyExecuted
  <1>3. CASE x # k
    <2>1. t.cache[x] \in {s.cache[x], Absent} /\ after[x] = now[x]
      BY <1>1, <1>3, OtherKeyExecuted DEF Truthful
    <2>2. x \in left <=> x \in p \/ (Cached(s, x) /\ ~Cached(t, x))
      <3>1. x \in handed
        BY <1>3 DEF Noted
      <3>2. QED
        BY <1>1, <1>3, <3>1 DEF Parting
    <2>3. QED
      BY <1>1, <2>1, <2>2 DEF Cached
  <1>4. QED
    BY <1>2, <1>3

\* A result is overtaken by a write of its key, and kept by other commands.
LEMMA ResultsExecuted ==
    ASSUME NEW s \in Servers, NEW t, NEW request \in Requests, NEW now,
           NEW results, ResultsCurrent(s, now, results),
           LoadsAgree(s), ResultsAgree(s, results), NEW c,
           Performed(s, t, c, request), NEW after, Truthful(s, request, now, after),
           \A i \in 1..Len(results) : /\ results[i].key \in Keys
                                      /\ results[i].waiters \in Seq(Clients)
    PROVE  ResultsCurrent(t, after, results)
  <1> DEFINE k == request.key
  <1>1. k \in Keys
    BY Constants
  <1> SUFFICES ASSUME NEW i \in 1..Len(results), results[i].verdict = "none",
                      Fresh(t, results[i].key, results[i].waiters)
               PROVE  LET result == results[i] IN
                      /\ result.status = "found" => result.row = after[result.key]
                      /\ result.status = "absent" => after[result.key] = Absent
    BY DEF ResultsCurrent
  <1> DEFINE x == results[i].key
             q == results[i].waiters
  <1>2. x \in Keys /\ q \in Seq(Clients) /\ Attached(s, x, q)
    BY DEF ResultsAgree
  <1>3. t.ticket = s.ticket
    BY DEF Performed, SameLists
  <1>4. Fresh(s, x, q) /\ after[x] = now[x]
    <2>1. CASE Mutates(s, request)
      <3>1. WriteTaken(s, t, k, MutationOf(s, request))
        BY <2>1 DEF Performed
      <3>2. x # k
        BY <1>1, <1>2, <1>3, <3>1, WriteOvertakes
      <3>3. t.load[x].generation = s.load[x].generation
        BY <1>1, <1>2, <3>1, <3>2, WriteElsewhere
      <3>4. QED
        BY <1>2, <1>3, <3>2, <3>3 DEF Fresh, Truthful
    <2>2. CASE ~Mutates(s, request)
      <3>1. t.load = s.load
        BY <2>2 DEF Performed, WriteNotTaken
      <3>2. QED
        BY <1>2, <1>3, <2>2, <3>1 DEF Fresh, Truthful
    <2>3. QED
      BY <2>1, <2>2
  <1>5. QED
    BY <1>4 DEF ResultsCurrent

\* Without a write nothing changes for the loads.
SamePending(s, t) ==
    /\ t.writes = s.writes /\ t.next_sequence = s.next_sequence
    /\ t.job = s.job /\ t.ticket = s.ticket /\ t.load = s.load
    /\ \A k \in Keys : s.dirty[k] > s.applied => t.dirty[k] = s.dirty[k]

LEMMA PendingFrame ==
    ASSUME NEW s \in Servers, NEW now, NEW db, NEW w, NumbersAgree(s, db, w),
           NEW h, NEW m, Pending(s, now, db, w, h, m), NEW t, SamePending(s, t)
    PROVE  Pending(t, now, db, w, h, m)
  <1>1. Taken(t) = Taken(s) /\ t.next_sequence = s.next_sequence /\ t.writes = s.writes
    BY DEF SamePending, Taken
  <1>2. History(t, now, db, w, h, m)
    BY <1>1 DEF Pending, History
  <1>3. DirtyAgrees(t, db, m)
    <2> SUFFICES ASSUME NEW n \in db.applied + 1 .. s.next_sequence
                 PROVE  n <= t.dirty[m[n].key]
      BY <1>1 DEF DirtyAgrees
    <2>1. m[n].key \in Keys
      BY PendingWrites DEF Pending
    <2>2. n <= s.dirty[m[n].key]
      BY DEF Pending, DirtyAgrees
    <2>3. s.dirty[m[n].key] > s.applied
      <3>1. s.dirty[m[n].key] \in Nat
        BY <2>1 DEF Servers
      <3>2. QED
        BY <2>2, <3>1, NumberFacts
    <2>4. QED
      BY <2>1, <2>2, <2>3 DEF SamePending
  <1>4. \A k, q : Fresh(t, k, q) = Fresh(s, k, q)
    BY DEF Fresh, SamePending
  <1>5. \A k : Quiet(t, db, m, k) = Quiet(s, db, m, k)
    BY <1>1 DEF Quiet
  <1>6. JobsCurrent(t, now, db, m)
    BY <1>4, <1>5 DEF Pending, JobsCurrent, SamePending
  <1>7. QED
    BY <1>2, <1>3, <1>6 DEF Pending

LEMMA ResultTypes ==
    ASSUME NEW results \in Seq(Results), NEW i \in 1..Len(results)
    PROVE  /\ results[i] \in Results /\ results[i].key \in Keys
           /\ results[i].waiters \in Seq(Clients) /\ results[i].row \in Values
  <1>1. results[i] \in Results
    OBVIOUS
  <1>2. QED
    BY <1>1 DEF Results

\* kvstore_service_execute_with_barrier, on the last value of the key.
LEMMA ExecutionCurrent ==
    ASSUME NEW s, NEW results \in Seq(Results), NEW c \in Clients, NEW db, NEW w,
           NEW now \in [Keys -> Values], NEW p, Held(s, results, {c}),
           NumbersAgree(s, db, w), Current(s, now, p, db, w, results),
           NEW request \in Requests, MayExecute(s, request, now, p),
           NEW t, Performed(s, t, c, request), ~t.stale,
           NEW after, Truthful(s, request, now, after),
           NEW left, NEW handed, Parting(s, t, request, p, left, handed),
           Noted(request, results, handed)
    PROVE  Current(t, after, left, db, w, results)
  <1>1. /\ s \in Servers /\ JobsAgree(s) /\ LoadsAgree(s) /\ ResultsAgree(s, results)
    BY DEF Held, ListsAgree
  <1>2. \A i \in 1..Len(results) : /\ results[i].key \in Keys
                                   /\ results[i].waiters \in Seq(Clients)
    BY ResultTypes
  <1>3. CacheCurrent(t, after, left)
    BY <1>1, CacheExecuted DEF Current
  <1>4. DeliveryCurrent(t, after, left, results)
    BY <1>1, <1>2, DeliveryExecuted DEF Current
  <1>5. ResultsCurrent(t, after, results)
    BY <1>1, <1>2, ResultsExecuted DEF Current
  <1>6. PICK h, m : Pending(s, now, db, w, h, m)
    BY DEF Current, Pending
  <1>7. t.ticket = s.ticket /\ t.job = s.job
    BY DEF Performed, SameLists
  <1>8. \E h2, m2 : Pending(t, after, db, w, h2, m2)
    <2>1. CASE Mutates(s, request)
      <3> DEFINE mutation == MutationOf(s, request)
      <3>1. /\ mutation \in Mutations /\ WriteTaken(s, t, request.key, mutation)
            /\ mutation.key = request.key /\ mutation.op = request.op
            /\ mutation.sequence = s.next_sequence + 1
        BY <2>1 DEF Performed, MutationOf
      <3>2. request.key \in Keys
        BY Constants
      <3>3. /\ after[request.key] = Effect(mutation.op, mutation.sequence, now[request.key])
            /\ \A x \in Keys \ {request.key} : after[x] = now[x]
        BY <2>1, <3>1 DEF Truthful
      <3> HIDE DEF mutation
      <3>4. QED
        BY <1>1, <1>6, <1>7, <3>1, <3>2, <3>3, PendingWritten
    <2>2. CASE ~Mutates(s, request)
      <3>1. SamePending(s, t)
        BY <1>7, <2>2 DEF SamePending, Performed, WriteNotTaken
      <3>2. after = now
        BY <2>2 DEF Truthful
      <3>3. QED
        BY <1>1, <1>6, <3>1, <3>2, PendingFrame
    <2>3. QED
      BY <2>1, <2>2
  <1>9. QED
    BY <1>3, <1>4, <1>5, <1>8 DEF Current, Pending

\* Executes, on the last value.
LEMMA ExecutesCurrent ==
    ASSUME NEW s, NEW results \in Seq(Results), NEW c \in Clients, NEW db, NEW w,
           truth \in [Keys -> Values], Held(s, results, {c}),
           NumbersAgree(s, db, w), Current(s, truth, parted, db, w, results),
           MayExecute(s, s.request[c], truth, parted),
           Noted(s.request[c], results, Handed), Executes(s, c)
    PROVE  Current(server', truth', parted', db, w, results)
  <1> DEFINE request == s.request[c]
             t == Execute(s, c, request)
  <1>1. /\ s \in Servers /\ LruAgrees(s) /\ WritesBounded(s) /\ request \in Requests
    BY DEF Held, ListsAgree, WaitersAgree
  <1>2. IsWrite(request) => s.next_sequence < MaxWrites
    BY <1>1, RoomToWrite
  <1>3. server' = t /\ truth' = Told(s, request) /\ parted' = Parts(s, c, request)
    BY DEF Executes
  <1> HIDE DEF t
  <1>4. /\ Performed(s, t, c, request)
        /\ t.stale => /\ request.op # "SET" /\ request.key \notin parted
                      /\ s.cache[request.key] # truth[request.key]
    BY <1>1, <1>2, ExecuteFacts DEF t
  <1>5. ~t.stale
    BY <1>4 DEF MayExecute
  <1>6. truth' \in [Keys -> Values]
    BY <1>1, <1>3, ToldType
  <1>7. request.key \in Keys
    BY <1>1, Constants
  <1>8. Truthful(s, request, truth, truth')
    <2> HIDE DEF request
    <2>1. CASE Mutates(s, request)
      BY <1>3, <1>6, <1>7, <2>1 DEF Truthful, Told
    <2>2. CASE ~Mutates(s, request)
      BY <1>3, <1>6, <1>7, <2>2 DEF Truthful, Told
    <2>3. QED
      BY <2>1, <2>2
  <1>9. Parting(s, t, request, parted, parted', Handed)
    <2>1. parted' = {k \in parted : ~(/\ Mutates(s, request) /\ request.op # "HSET"
                                      /\ request.key = k)}
                    \cup {k \in Handed : /\ k # request.key /\ Cached(s, k)
                                         /\ ~Cached(t, k)}
      BY <1>3 DEF Parts, t
    <2> HIDE DEF request
    <2>2. QED
      BY <2>1 DEF Parting
  <1> HIDE DEF request
  <1>10. MayExecute(s, request, truth, parted) /\ Noted(request, results, Handed)
    BY DEF request
  <1>11. QED
    BY <1>1, <1>3, <1>4, <1>5, <1>8, <1>9, <1>10, ExecutionCurrent

-----------------------------------------------------------------------------
(* Waiting and loading *)

\* What the values are worth does not change.
SameWorth(s, t) ==
    /\ SamePending(s, t)
    /\ t.cache = s.cache /\ t.negative \subseteq s.negative /\ t.stale = s.stale

LEMMA CurrentFrame ==
    ASSUME NEW s \in Servers, NEW results, NEW db, NEW w, NEW now, NEW p,
           NumbersAgree(s, db, w), Current(s, now, p, db, w, results),
           NEW t, SameWorth(s, t)
    PROVE  Current(t, now, p, db, w, results)
  <1>1. PICK h, m : Pending(s, now, db, w, h, m)
    BY DEF Current, Pending
  <1>2. Pending(t, now, db, w, h, m)
    BY <1>1, PendingFrame DEF SameWorth
  <1>3. \A k, q : Fresh(t, k, q) = Fresh(s, k, q)
    BY DEF Fresh, SameWorth, SamePending
  <1>4. ResultsCurrent(t, now, results)
    BY <1>3 DEF Current, ResultsCurrent
  <1>5. CacheCurrent(t, now, p)
    BY DEF Current, CacheCurrent, SameWorth, Cached
  <1>6. DeliveryCurrent(t, now, p, results) /\ ~t.stale
    BY DEF Current, DeliveryCurrent, SameWorth
  <1>7. QED
    BY <1>2, <1>4, <1>5, <1>6 DEF Current, Pending

\* A client that no load has registers: the lists are as fresh as they were.
LEMMA FreshJoined ==
    ASSUME NEW s \in Servers, NEW t, NEW c \in Clients, s.ticket[c] = NoTicket,
           NEW k \in Keys, JobJoined(s, t, c, k), NEW x \in Keys,
           NEW q \in Seq(Clients), Attached(s, x, q), Fresh(t, x, q)
    PROVE  Fresh(s, x, q)
  <1>1. q # <<>> /\ t.ticket[q[Len(q)]] = t.load[x].generation
    BY DEF Fresh
  <1> DEFINE d == q[Len(q)]
  <1>2. d \in Clients /\ s.ticket[d] # NoTicket
    BY <1>1, NotEmpty DEF Attached
  <1>3. t.ticket[d] = s.ticket[d]
    BY <1>2 DEF JobJoined, Servers
  <1>4. t.load[x].generation = s.load[x].generation
    BY DEF JobJoined, Servers
  <1>5. QED
    BY <1>1, <1>3, <1>4 DEF Fresh

\* A request joins the load of its key: one that is under way, or a new one
\* of a key without pending writes.
LEMMA JoinedCurrent ==
    ASSUME NEW s, NEW results \in Seq(Results), NEW c \in Clients, NEW db, NEW w,
           NEW now, NEW p, Held(s, results, {c}), NumbersAgree(s, db, w),
           Current(s, now, p, db, w, results), NEW k \in Keys, MayLoad(s, k),
           NEW t, JobJoined(s, t, c, k), SameValues(s, t)
    PROVE  Current(t, now, p, db, w, results)
  <1>1. /\ s \in Servers /\ JobsAgree(s) /\ ResultsAgree(s, results)
        /\ s.ticket[c] = NoTicket
    BY DEF Held, ListsAgree, WaitersAgree
  <1>2. PICK h, m : Pending(s, now, db, w, h, m)
    BY DEF Current, Pending
  <1>3. /\ t.writes = s.writes /\ t.next_sequence = s.next_sequence
        /\ t.dirty = s.dirty /\ Taken(t) = Taken(s)
    BY DEF SameValues, Taken
  <1>4. History(t, now, db, w, h, m) /\ DirtyAgrees(t, db, m)
    BY <1>2, <1>3 DEF Pending, History, DirtyAgrees
  <1>5. \A x : Quiet(t, db, m, x) = Quiet(s, db, m, x)
    BY <1>3 DEF Quiet
  <1>6. JobsCurrent(t, now, db, m)
    <2> SUFFICES ASSUME NEW x \in Keys, Fresh(t, x, t.job[x].waiters)
                 PROVE  LET job == t.job[x] IN
                        /\ Quiet(s, db, m, x)
                        /\ job.stage = "keyed" => now[x] # Absent
                        /\ job.status = "found" => job.row = now[x]
                        /\ job.status = "absent" => now[x] = Absent
      BY <1>5 DEF JobsCurrent
    <2> DEFINE q == s.job[x].waiters
    <2>1. q \in Seq(Clients) /\ Attached(s, x, q) /\ s.job[x] \in Jobs
      BY <1>1 DEF Servers, Jobs, JobsAgree
    <2>2. CASE x # k
      <3>1. t.job[x] = s.job[x]
        BY <2>2 DEF JobJoined
      <3>2. Fresh(s, x, q)
        BY <1>1, <2>1, <3>1, FreshJoined
      <3>3. QED
        BY <1>2, <3>1, <3>2 DEF Pending, JobsCurrent
    <2>3. CASE x = k /\ s.job[k].stage # "none"
      <3>1. t.job[x] = [s.job[x] EXCEPT !.waiters = <<c>> \o q]
        BY <2>3 DEF JobJoined
      <3>2. /\ t.job[x].waiters = <<c>> \o q /\ t.job[x].stage = s.job[x].stage
            /\ t.job[x].status = s.job[x].status /\ t.job[x].row = s.job[x].row
        BY <2>1, <3>1 DEF Jobs
      <3>3. q # <<>>
        BY <1>1, <2>3 DEF JobsAgree
      <3> DEFINE joined == <<c>> \o q
      <3>4. Joins(joined, c, q)
        BY <2>1, PrependSeq
      <3> HIDE DEF joined, q
      <3>5. Len(q) \in Nat /\ Len(q) >= 1
        BY <2>1, <3>3, NotEmpty
      <3>6. joined[Len(joined)] = q[Len(q)]
        <4>1. Len(joined) = Len(q) + 1 /\ Len(joined) \in 2..Len(joined)
          BY <3>4, <3>5 DEF Joins
        <4>2. joined[Len(joined)] = q[Len(joined) - 1]
          BY <3>4, <4>1 DEF Joins
        <4>3. QED
          BY <3>5, <4>1, <4>2
      <3>7. Fresh(t, x, q)
        BY <3>2, <3>3, <3>6 DEF Fresh, joined, q
      <3>8. Fresh(s, x, q)
        BY <1>1, <2>1, <3>7, FreshJoined
      <3>9. QED
        BY <1>2, <3>2, <3>8 DEF Pending, JobsCurrent, q
    <2>4. CASE x = k /\ s.job[k].stage = "none"
      <3>1. t.job[x] = [NoJob EXCEPT !.stage = "queued", !.waiters = <<c>>]
        BY <2>4 DEF JobJoined
      <3>2. t.job[x].stage = "queued" /\ t.job[x].status = "none"
        BY <3>1 DEF NoJob
      <3>3. Quiet(s, db, m, x)
        BY <1>1, <1>2, <2>4, MayLoadQuiet
      <3>4. QED
        BY <3>2, <3>3
    <2>5. QED
      BY <2>2, <2>3, <2>4
  <1>7. ResultsCurrent(t, now, results)
    <2> SUFFICES ASSUME NEW i \in 1..Len(results), results[i].verdict = "none",
                        Fresh(t, results[i].key, results[i].waiters)
                 PROVE  Fresh(s, results[i].key, results[i].waiters)
      BY DEF Current, ResultsCurrent
    <2>1. /\ results[i].key \in Keys /\ results[i].waiters \in Seq(Clients)
          /\ Attached(s, results[i].key, results[i].waiters)
      BY <1>1, ResultTypes DEF ResultsAgree
    <2>2. QED
      BY <1>1, <2>1, FreshJoined
  <1>8. CacheCurrent(t, now, p) /\ DeliveryCurrent(t, now, p, results) /\ ~t.stale
    BY DEF Current, CacheCurrent, DeliveryCurrent, SameValues, Cached
  <1>9. Pending(t, now, db, w, h, m)
    BY <1>4, <1>6 DEF Pending
  <1>10. QED
    BY <1>7, <1>8, <1>9 DEF Current, Pending

\* Load, of a key without pending writes.
LEMMA LoadCurrent ==
    ASSUME NEW s, NEW results \in Seq(Results), NEW c \in Clients, NEW db, NEW w,
           NEW now, NEW p, Held(s, results, {c}), NumbersAgree(s, db, w),
           Current(s, now, p, db, w, results), NEW k \in Keys, KeyOf(s, c) = k,
           MayLoad(s, k), NEW t, t = Load(s, c, k)
    PROVE  Current(t, now, p, db, w, results)
  <1>1. CASE s.job[k].stage # "none" \/ pending_reads(s) < ReadLimit
    <2>1. t = submit_load(register_pending_load(s, c), c, k)
      BY <1>1 DEF Load
    <2>2. JobJoined(s, t, c, k) /\ SameValues(s, t)
      BY <1>1, <2>1, SettledByLoad
    <2>3. QED
      BY <2>2, JoinedCurrent
  <1>2. CASE ~(s.job[k].stage # "none" \/ pending_reads(s) < ReadLimit)
    <2>1. t = Answered(s, c)
      BY <1>2 DEF Load
    <2>2. SameValues(s, t) /\ t.load = s.load /\ SameWaiters(s, t)
      BY <2>1, SettledByError
    <2>3. SameWorth(s, t)
      BY <2>2 DEF SameWorth, SamePending, SameValues, SameWaiters
    <2>4. s \in Servers
      BY DEF Held
    <2>5. QED
      BY <2>3, <2>4, CurrentFrame
  <1>3. QED
    BY <1>1, <1>2

LEMMA PurgeMayLoad ==
    ASSUME NEW s \in Servers, NEW keys, NEW k \in Keys, MayLoad(s, k), NEW t,
           t = purge_applied_dirty_keys(s, keys)
    PROVE  MayLoad(t, k) /\ SameWorth(s, t)
  <1>1. OnlyDirty(s, t)
    BY PurgeFacts
  <1>2. /\ t.dirty[k] \in {0, s.dirty[k]} /\ t.applied = s.applied
        /\ s.dirty[k] \in Nat /\ s.applied \in Nat
    BY <1>1 DEF OnlyDirty, SameNumbers, Servers
  <1>3. MayLoad(t, k)
    BY <1>2 DEF MayLoad, dirty_key_sequence
  <1>4. SameWorth(s, t)
    BY <1>1 DEF OnlyDirty, SameWorth, SamePending, SameNumbers, SameWaiters
  <1>5. QED
    BY <1>3, <1>4

\* Miss: a load, or the list of those who wait for the writer.
LEMMA MissCurrent ==
    ASSUME NEW s, NEW results \in Seq(Results), NEW c \in Clients, NEW db, NEW w,
           NEW now, NEW p, Held(s, results, {c}), NumbersAgree(s, db, w),
           Current(s, now, p, db, w, results), NEW k \in Keys, KeyOf(s, c) = k,
           NEW t, t = Miss(s, c, k)
    PROVE  Current(t, now, p, db, w, results)
  <1>1. s \in Servers
    BY DEF Held
  <1>2. CASE MayLoad(s, k)
    <2> DEFINE u == purge_applied_dirty_keys(s, {k})
    <2>1. t = Load(u, c, k)
      BY <1>2 DEF Miss
    <2> HIDE DEF u
    <2>2. OnlyDirty(s, u)
      BY <1>1, PurgeFacts DEF u
    <2>3. Held(u, results, {c}) /\ NumbersAgree(u, db, w)
      BY <2>2, PurgeHeld
    <2>4. MayLoad(u, k) /\ SameWorth(s, u)
      BY <1>1, <1>2, PurgeMayLoad DEF u
    <2>5. Current(u, now, p, db, w, results)
      BY <1>1, <2>4, CurrentFrame
    <2>6. KeyOf(u, c) = k
      BY <2>2 DEF KeyOf, OnlyDirty
    <2>7. QED
      BY <2>1, <2>3, <2>4, <2>5, <2>6, LoadCurrent
  <1>3. CASE ~MayLoad(s, k)
    <2>1. t = queue_dirty_waiter(s, c)
      BY <1>3 DEF Miss
    <2>2. /\ SameValues(s, t) /\ t.load = s.load /\ t.ticket = s.ticket
          /\ t.job = s.job
      BY <1>3, <2>1, SettledByWaiting, ZenonT(60)
    <2>3. SameWorth(s, t)
      BY <2>2 DEF SameWorth, SamePending, SameValues
    <2>4. QED
      BY <1>1, <2>3, CurrentFrame
  <1>4. QED
    BY <1>2, <1>3

\* The Reactor thread works on a request: on the last value, or on none.
LEMMA WorkCurrent ==
    ASSUME NEW s, NEW results \in Seq(Results), NEW c \in Clients,
           truth \in [Keys -> Values],
           Sound(s, reactor, results, {c}, database, writer, wake, ringing),
           Current(s, truth, parted, database, writer, results),
           \/ /\ Executes(s, c)
              /\ MayExecute(s, s.request[c], truth, parted)
              /\ Noted(s.request[c], results, Handed)
           \/ Moves(Miss(s, c, KeyOf(s, c)))
           \/ Moves(Load(s, c, KeyOf(s, c))) /\ MayLoad(s, KeyOf(s, c))
           \/ Moves(Answered(s, c))
    PROVE  Current(server', truth', parted', database, writer, results)
  <1>1. /\ Held(s, results, {c}) /\ NumbersAgree(s, database, writer)
        /\ s \in Servers /\ s.request[c] \in Requests
    BY DEF Sound, Held, ListsAgree, WaitersAgree
  <1> DEFINE k == KeyOf(s, c)
  <1>2. k \in Keys
    BY <1>1, Constants DEF KeyOf
  <1>3. CASE /\ Executes(s, c) /\ MayExecute(s, s.request[c], truth, parted)
             /\ Noted(s.request[c], results, Handed)
    BY <1>1, <1>3, ExecutesCurrent
  <1>4. CASE Moves(Miss(s, c, k))
    BY <1>1, <1>2, <1>4, MissCurrent DEF Moves
  <1>5. CASE Moves(Load(s, c, k)) /\ MayLoad(s, k)
    BY <1>1, <1>2, <1>5, LoadCurrent DEF Moves
  <1>6. CASE Moves(Answered(s, c))
    <2>1. server' = Answered(s, c) /\ truth' = truth /\ parted' = parted
      BY <1>6 DEF Moves
    <2>2. SameValues(s, server') /\ server'.load = s.load /\ SameWaiters(s, server')
      BY <1>1, <2>1, SettledByError
    <2>3. SameWorth(s, server')
      BY <2>2 DEF SameWorth, SamePending, SameValues, SameWaiters
    <2>4. QED
      BY <1>1, <2>1, <2>3, CurrentFrame
  <1>7. QED
    BY <1>3, <1>4, <1>5, <1>6

-----------------------------------------------------------------------------
(* The steps of the Reactor thread *)

\* Of the results only the first one in hand may have been judged.
LEMMA OnlyFirstJudged ==
    ASSUME NEW hand \in Seq(Results), NEW completed \in Seq(Results),
           \A i \in 1..Len(completed) : completed[i].verdict = "none",
           \A i \in 2..Len(hand) : hand[i].verdict = "none",
           NEW results, IsConcat(results, hand, completed),
           NEW i \in 1..Len(results), results[i].verdict # "none"
    PROVE  i = 1 /\ hand # <<>> /\ results[i] = hand[1]
  <1>1. /\ Len(results) = Len(hand) + Len(completed)
        /\ \A j \in 1..Len(hand) + Len(completed) :
              results[j] = IF j <= Len(hand) THEN hand[j] ELSE completed[j - Len(hand)]
    BY ConcatFacts DEF IsConcat
  <1>2. Len(hand) \in Nat /\ Len(completed) \in Nat
    OBVIOUS
  <1>3. i <= Len(hand)
    <2>1. SUFFICES ASSUME i > Len(hand) PROVE FALSE
      BY <1>2
    <2>2. i - Len(hand) \in 1..Len(completed) /\ results[i] = completed[i - Len(hand)]
      BY <1>1, <1>2, <2>1
    <2>3. QED
      BY <2>2
  <1>4. results[i] = hand[i] /\ i \in 1..Len(hand)
    BY <1>1, <1>2, <1>3
  <1>5. i = 1
    BY <1>2, <1>4
  <1>6. QED
    BY <1>2, <1>4, <1>5

\* The results of a state.
LEMMA ResultsNow ==
    ASSUME HeldInv, NEW results, results = ResultsOf(server, reactor)
    PROVE  /\ results \in Seq(Results) /\ results = reactor.hand \o server.completed
           /\ reactor.hand \in Seq(Results) /\ server.completed \in Seq(Results)
           /\ \A i \in 1..Len(results) : results[i].verdict # "none" =>
                 i = 1 /\ reactor.hand # <<>> /\ results[i] = reactor.hand[1]
           /\ reactor.stage # "results" => reactor.hand = <<>>
  <1>1. /\ reactor.hand \in Seq(Results) /\ server.completed \in Seq(Results)
    BY InvIsSound
  <1>2. /\ \A i \in 1..Len(server.completed) : server.completed[i].verdict = "none"
        /\ \A i \in 2..Len(reactor.hand) : reactor.hand[i].verdict = "none"
        /\ reactor.stage # "results" => reactor.hand = <<>>
    BY DEF HeldInv, HandAgrees
  <1>3. results = reactor.hand \o server.completed /\ results \in Seq(Results)
    BY <1>1, ConcatFacts DEF ResultsOf
  <1>4. \A i \in 1..Len(results) : results[i].verdict # "none" =>
           i = 1 /\ reactor.hand # <<>> /\ results[i] = reactor.hand[1]
    <2>1. IsConcat(results, reactor.hand, server.completed)
      BY <1>3 DEF IsConcat
    <2>2. QED
      BY <1>1, <1>2, <2>1, OnlyFirstJudged, SMTT(30)
  <1>5. QED
    BY <1>1, <1>2, <1>3, <1>4

\* What a negative entry or a cached value says is the truth, unless the key is
\* parted.
LEMMA KnownIsCurrent ==
    ASSUME NEW s, NEW now, NEW p, CacheCurrent(s, now, p), NEW k \in Keys,
           k \in s.negative \/ Cached(s, k)
    PROVE  k \in p \/ s.cache[k] = now[k]
  BY DEF CacheCurrent, Cached

\* The key of the result that is handed out is in Handed.
LEMMA HandedIsNoted ==
    ASSUME NEW results \in Seq(Results), NEW request,
           \A i \in 1..Len(results) : results[i].verdict # "none" =>
              i = 1 /\ reactor.hand # <<>> /\ results[i] = reactor.hand[1],
           reactor.stage # "results" => reactor.hand = <<>>
    PROVE  Noted(request, results, Handed)
  <1> SUFFICES ASSUME NEW i \in 1..Len(results), results[i].verdict = "deliver",
                      results[i].status \in {"found", "absent"}
               PROVE  results[i].key \in Handed
    BY DEF Noted
  <1>1. results[i].key \in Keys
    BY ResultTypes
  <1>2. results[i] = reactor.hand[1] /\ reactor.hand # <<>> /\ reactor.stage = "results"
    OBVIOUS
  <1>3. QED
    BY <1>1, <1>2 DEF Handed

LEMMA DispatchCurrent ==
    ASSUME HeldInv, CurrentInv,
           NEW c \in Clients, NEW request \in Requests, Dispatch(c, request)
    PROVE  CurrentInv'
  <1> DEFINE k == request.key
             negative == IF IsWrite(request) THEN server.negative \ {k}
                                             ELSE server.negative
             requests == [server.request EXCEPT ![c] = request]
             s == [server EXCEPT !.negative = negative, !.request = requests]
             results == ResultsOf(server, reactor)
  <1>1. /\ SoundNow(results, {}) /\ server \in Servers
        /\ truth \in [Keys -> Values]
    BY InvIsSound DEF HeldInv
  <1>2. /\ results \in Seq(Results) /\ results = reactor.hand \o server.completed
        /\ \A i \in 1..Len(results) : results[i].verdict # "none" =>
              i = 1 /\ reactor.hand # <<>> /\ results[i] = reactor.hand[1]
        /\ reactor.stage # "results" => reactor.hand = <<>>
    BY ResultsNow
  <1>3. MayOpen(server, c, request)
    <2>1. {d \in Outstanding : IsWrite(server.request[d])} = Writing(server)
      BY DEF Outstanding, Writing
    <2>2. QED
      BY <2>1 DEF Dispatch, MayOpen
  <1>4. negative \in SUBSET Keys /\ negative \subseteq server.negative
    BY <1>1 DEF Servers
  <1>5. Opens(server, s, c, request, negative)
    BY DEF Opens
  <1>6. s.request[c] = request /\ s.cache = server.cache /\ SameWorth(server, s)
    BY <1>1, <1>4 DEF Servers, SameWorth, SamePending
  <1>7. k \in Keys
    BY Constants
  <1>8. \/ /\ Executes(s, c)
           /\ request.op = "SET" \/ k \in server.negative \/ Cached(s, k)
        \/ Moves(Miss(s, c, k))
    <2>1. s = [(IF IsWrite(request) THEN negative_cache_invalidate(server, k)
                                    ELSE server) EXCEPT !.request[c] = request]
      BY <1>1 DEF negative_cache_invalidate, Servers
    <2>2. QED
      BY <2>1 DEF Dispatch
  <1> HIDE DEF s, negative
  <1>9. Sound(s, reactor, results, {c}, database, writer, wake, ringing)
    BY <1>1, <1>3, <1>4, <1>5, DispatchBegins DEF SoundNow
  <1>10. Current(s, truth, parted, database, writer, results)
    <2>1. NumbersAgree(server, database, writer)
      BY DEF HeldInv
    <2>2. QED
      BY <1>1, <1>6, <2>1, CurrentFrame DEF CurrentInv
  <1>11. ASSUME Executes(s, c),
                request.op = "SET" \/ k \in server.negative \/ Cached(s, k)
         PROVE  /\ MayExecute(s, request, truth, parted)
                /\ Noted(request, results, Handed)
    <2>1. CacheCurrent(server, truth, parted)
      BY DEF CurrentInv, Current
    <2>2. request.op = "SET" \/ k \in parted \/ server.cache[k] = truth[k]
      BY <1>6, <1>7, <1>11, <2>1, KnownIsCurrent DEF Cached
    <2>3. MayExecute(s, request, truth, parted)
      BY <1>6, <2>2 DEF MayExecute
    <2>4. Noted(request, results, Handed)
      BY <1>2, HandedIsNoted
    <2>5. QED
      BY <2>3, <2>4
  <1>12. KeyOf(s, c) = k
    BY <1>6 DEF KeyOf
  <1> HIDE DEF k
  <1>13. Current(server', truth', parted', database, writer, results)
    BY <1>1, <1>2, <1>6, <1>8, <1>9, <1>10, <1>11, <1>12, WorkCurrent
  <1>14. ResultsOf(server', reactor') = results
    <2>1. server'.completed = s.completed
      <3>1. WorksOn(s, c)
        BY <1>8, <1>12 DEF WorksOn
      <3>2. QED
        BY <1>1, <1>9, <3>1, WorkSettles
    <2>2. s.completed = server.completed
      BY <1>1 DEF s, Servers
    <2>3. reactor \in [stage : {"idle", "waiters", "results"}, kept : Nat,
                        hand : Seq(Results), input : Clients \cup {NoClient}]
      BY DEF HeldInv, HandAgrees
    <2>4. reactor'.hand = reactor.hand
      <3>1. reactor' = reactor \/ \E d : reactor' = [reactor EXCEPT !.input = d]
        BY DEF Dispatch
      <3>2. QED
        BY <2>3, <3>1
    <2>5. QED
      BY <2>1, <2>2, <2>4 DEF ResultsOf
  <1>15. UNCHANGED <<writer, database>>
    BY DEF Dispatch
  <1>16. QED
    BY <1>13, <1>14, <1>15 DEF CurrentInv

LEMMA DrainWaiterCurrent ==
    ASSUME HeldInv, CurrentInv, DrainWaiter
    PROVE  CurrentInv'
  <1> DEFINE i == reactor.kept + 1
             c == server.waiting[i]
             k == KeyOf(server, c)
             u == purge_applied_dirty_keys(server, {k})
             gone == (i = Len(server.waiting))
             s == [u EXCEPT !.waiting = RemoveAt(u.waiting, i), !.tail_gone = gone]
             results == ResultsOf(server, reactor)
  <1>1. /\ SoundNow(results, {}) /\ server \in Servers
        /\ truth \in [Keys -> Values] /\ NumbersAgree(server, database, writer)
    BY InvIsSound DEF HeldInv
  <1>2. /\ results \in Seq(Results) /\ results = reactor.hand \o server.completed
        /\ \A j \in 1..Len(results) : results[j].verdict # "none" =>
              j = 1 /\ reactor.hand # <<>> /\ results[j] = reactor.hand[1]
        /\ reactor.stage # "results" => reactor.hand = <<>>
    BY ResultsNow
  <1>3. /\ reactor \in [stage : {"idle", "waiters", "results"}, kept : Nat,
                        hand : Seq(Results), input : Clients \cup {NoClient}]
        /\ server.waiting \in Seq(Clients)
    BY <1>1 DEF HeldInv, HandAgrees, Servers
  <1>4. i \in 1..Len(server.waiting) /\ reactor.stage = "waiters"
    BY <1>3 DEF DrainWaiter
  <1>5. c \in Clients /\ server.request[c] \in Requests /\ k \in Keys
    <2>1. c \in Clients /\ In(server.waiting, c)
      BY <1>3, <1>4 DEF In
    <2>2. server.request[c] \in Requests
      BY <1>1, <2>1 DEF SoundNow, Sound, Held, ListsAgree, WaitersAgree
    <2>3. QED
      BY <2>1, <2>2, Constants DEF KeyOf
  <1>6. UNCHANGED <<writer, database>>
    BY DEF DrainWaiter
  <1>7. CASE ~MayLoad(server, k)
    <2>1. /\ reactor' = [reactor EXCEPT !.kept = reactor.kept + 1]
          /\ server' = server /\ truth' = truth /\ parted' = parted
      BY <1>7 DEF DrainWaiter
    <2>2. reactor'.hand = reactor.hand
      BY <1>3, <2>1
    <2>3. ResultsOf(server', reactor') = results
      BY <2>1, <2>2 DEF ResultsOf
    <2> HIDE DEF i, c, k, u, s, gone
    <2>4. QED
      BY <1>6, <2>1, <2>3 DEF CurrentInv
  <1>8. CASE MayLoad(server, k)
    <2>1. OnlyDirty(server, u) /\ MayLoad(u, k) /\ SameWorth(server, u)
      BY <1>1, <1>5, <1>8, PurgeFacts, PurgeMayLoad
    <2>2. u \in Servers /\ u.waiting = server.waiting /\ u.request = server.request
          /\ u.completed = server.completed
      BY <2>1 DEF OnlyDirty, SameWaiters
    <2>3. IF Cached(s, k) THEN Executes(s, c) ELSE Moves(Load(s, c, k))
      BY <1>8 DEF DrainWaiter
    <2>4. gone \in BOOLEAN /\ Drained(u, s, i, gone) /\ i = reactor.kept + 1
      BY DEF Drained
    <2>5. \E d \in Continues(c) : reactor' = [reactor EXCEPT !.input = d]
      BY <1>8 DEF DrainWaiter
    <2> HIDE DEF u, gone, results, k, s, i
    <2>6. Sound(s, reactor, results, {c}, database, writer, wake, ringing)
      BY <1>1, <1>4, <2>1, <2>4, DrainBegins DEF SoundNow
    <2>7. /\ s.request = server.request /\ s.completed = server.completed
          /\ SameWorth(u, s) /\ s.dirty = u.dirty /\ s.applied = u.applied
      BY <2>2, <2>4 DEF Drained, Servers, SameWorth, SamePending
    <2>8. MayLoad(s, k) /\ KeyOf(s, c) = k
      BY <2>1, <2>7 DEF MayLoad, dirty_key_sequence, KeyOf, k
    <2>9. Current(s, truth, parted, database, writer, results)
      <3>1. Current(u, truth, parted, database, writer, results)
        BY <1>1, <2>1, CurrentFrame DEF CurrentInv, results
      <3>2. NumbersAgree(u, database, writer)
        BY <1>1, <2>1, PurgeHeld DEF SoundNow, Sound
      <3>3. QED
        BY <2>2, <2>7, <3>1, <3>2, CurrentFrame
    <2> DEFINE request == s.request[c]
    <2>10. request.key = k
      BY <2>8 DEF KeyOf
    <2> HIDE DEF c
    <2>11. ASSUME Cached(s, k)
           PROVE  /\ MayExecute(s, request, truth, parted)
                  /\ Noted(request, results, Handed)
      <3>1. k \in parted \/ s.cache[k] = truth[k]
        BY <1>5, <2>9, <2>11, KnownIsCurrent DEF Current
      <3>2. Noted(request, results, Handed)
        BY <1>2, HandedIsNoted
      <3>3. QED
        BY <2>10, <3>1, <3>2 DEF MayExecute
    <2>12. Current(server', truth', parted', database, writer, results)
      BY <1>1, <1>2, <1>5, <2>3, <2>6, <2>8, <2>9, <2>11, WorkCurrent
    <2>13. server'.completed = s.completed
      <3>1. WorksOn(s, c)
        BY <2>3, <2>8 DEF WorksOn
      <3>2. QED
        BY <1>1, <1>5, <2>6, <3>1, WorkSettles
    <2>14. reactor'.hand = reactor.hand
      BY <1>3, <2>5
    <2>15. ResultsOf(server', reactor') = results
      BY <2>7, <2>13, <2>14 DEF ResultsOf, results
    <2>16. QED
      BY <1>6, <2>12, <2>15 DEF CurrentInv
  <1>9. QED
    BY <1>7, <1>8

\* A waiter leaves its load: those that stay are as fresh as they were, and
\* the generation is only forgotten when nobody stays.
LEMMA FreshLeft ==
    ASSUME NEW s \in Servers, LoadsAgree(s), NEW t, NEW c \in Clients,
           NEW k \in Keys, s.ticket[c] # NoTicket, KeyOf(s, c) = k,
           Departs(s, t, c, k), NEW x \in Keys, NEW q \in Seq(Clients),
           Attached(s, x, q), ~In(q, c), Fresh(t, x, q)
    PROVE  Fresh(s, x, q)
  <1>1. q # <<>> /\ t.ticket[q[Len(q)]] = t.load[x].generation
    BY DEF Fresh
  <1> DEFINE d == q[Len(q)]
  <1>2. /\ In(q, d) /\ d \in Registered(s, x) /\ IsFiniteSet(Registered(s, x))
        /\ s.load[x].waiters = Cardinality(Registered(s, x))
        /\ s.load[x].waiters \in Nat
    BY <1>1, AttachedRegistered
  <1>3. d # c /\ d \in Clients
    BY <1>2 DEF Registered
  <1>4. t.ticket[d] = s.ticket[d]
    BY <1>3 DEF Departs, Servers
  <1>5. t.load[x].generation = s.load[x].generation
    <2>1. CASE x # k
      BY <2>1 DEF Departs, Servers
    <2>2. CASE x = k
      <3>1. c \in Registered(s, x)
        BY <2>2 DEF Registered
      <3>2. s.load[x].waiters # 1
        <4>1. SUFFICES ASSUME Cardinality(Registered(s, x)) = 1 PROVE FALSE
          BY <1>2
        <4>2. PICK y : Registered(s, x) = {y}
          BY <1>2, <4>1, FS_Singleton
        <4>3. QED
          BY <1>2, <1>3, <3>1, <4>2
      <3>3. t.load[x] = [s.load[x] EXCEPT !.waiters = s.load[x].waiters - 1]
        BY <2>2, <3>2 DEF Departs, LeftBy, Servers
      <3>4. s.load[x] \in [generation : Nat, waiters : Nat]
        BY DEF Servers
      <3>5. QED
        BY <3>3, <3>4
    <2>3. QED
      BY <2>1, <2>2
  <1>6. QED
    BY <1>1, <1>4, <1>5 DEF Fresh

\* The waiter that is served has left its result and its load.
LEMMA ServedCurrent ==
    ASSUME HeldInv, CurrentInv, HandsOut, Result.verdict # "none",
           NEW c, c = Head(Result.waiters),
           NEW s, s = unregister_pending_load(server, c),
           NEW rest, rest = LeftOf(reactor.hand) \o server.completed
    PROVE  /\ Current(s, truth, parted, database, writer, rest)
           /\ rest \in Seq(Results)
           /\ \A i \in 1..Len(rest) : rest[i].verdict # "none" =>
                 rest[i].key = Result.key /\ rest[i].verdict = Result.verdict
  <1> DEFINE hand == reactor.hand
             results == ResultsOf(server, reactor)
             left == LeftOf(hand)
             completed == server.completed
  <1>1. /\ SoundNow(results, {}) /\ server \in Servers
        /\ NumbersAgree(server, database, writer)
    BY InvIsSound DEF HeldInv
  <1>2. /\ results \in Seq(Results) /\ results = hand \o completed
        /\ hand \in Seq(Results) /\ completed \in Seq(Results)
    BY ResultsNow
  <1>3. /\ Result = hand[1] /\ hand # <<>>
        /\ c \in Clients /\ OnlyTicket(server, s) /\ server.ticket[c] # NoTicket
        /\ Departs(server, s, c, Result.key)
        /\ Result.key \in Keys /\ KeyOf(server, c) = Result.key
    BY Serving DEF HandsOut
  <1>4. /\ LoadsAgree(server) /\ JobsAgree(server) /\ ResultsAgree(server, results)
    BY <1>1 DEF SoundNow, Sound, Held, ListsAgree
  <1>5. /\ \A i \in 1..Len(completed) : completed[i].verdict = "none"
        /\ \A i \in 2..Len(hand) : hand[i].verdict = "none"
    BY DEF HeldInv, HandAgrees
  <1> HIDE DEF hand, completed, results, left
  <1>6. /\ 1 \in 1..Len(results) /\ results[1] = hand[1]
        /\ Len(results) = Len(hand) + Len(completed)
        /\ \A j \in 1..Len(hand) + Len(completed) :
              results[j] = IF j <= Len(hand) THEN hand[j] ELSE completed[j - Len(hand)]
        /\ Len(hand) \in Nat /\ Len(completed) \in Nat /\ Len(hand) >= 1
    BY <1>2, <1>3, FirstOfConcat, ConcatFacts, NotEmpty
  <1>7. /\ hand[1].waiters # <<>> /\ In(hand[1].waiters, c)
        /\ hand[1].waiters \in Seq(Clients)
    <2>1. /\ hand[1].waiters # <<>> /\ hand[1].waiters \in Seq(Clients)
      BY <1>2, <1>4, <1>6, ResultTypes DEF ResultsAgree
    <2>2. QED
      BY <1>3, <2>1, NotEmpty DEF In
  <1>8. left \in Seq(Results) /\ Cut(hand, left)
    BY <1>2, <1>3, <1>7, LeftOfFacts DEF left
  <1>9. /\ rest \in Seq(Results) /\ Len(rest) = Len(left) + Len(completed)
        /\ \A j \in 1..Len(left) + Len(completed) :
              rest[j] = IF j <= Len(left) THEN left[j] ELSE completed[j - Len(left)]
        /\ Len(left) \in Nat
    <2>1. rest = left \o completed
      BY DEF left, hand, completed
    <2>2. QED
      BY <1>2, <1>8, <2>1, ConcatFacts
  <1>10. ASSUME NEW i \in 1..Len(rest)
         PROVE  \/ /\ rest[i].key = Result.key /\ rest[i].verdict = Result.verdict
                   /\ rest[i].status = Result.status
                \/ /\ rest[i].verdict = "none"
                   /\ \E j \in 2..Len(results) : rest[i] = results[j]
    <2>a. i \in 1 .. Len(left) + Len(completed)
      BY ONLY <1>9, i \in 1..Len(rest)
    <2>1. CASE i <= Len(left)
      <3>1. rest[i] = left[i] /\ i \in 1..Len(left)
        BY ONLY <1>6, <1>9, <2>a, <2>1
      <3>2. CASE Len(hand[1].waiters) = 1
        <4>1. left[i] = hand[i + 1] /\ i + 1 \in 2..Len(hand)
          BY <1>6, <1>7, <1>8, <3>1, <3>2 DEF Cut
        <4>2. results[i + 1] = hand[i + 1] /\ i + 1 \in 2..Len(results)
          BY <1>6, <4>1
        <4>3. QED
          BY <1>5, <3>1, <4>1, <4>2
      <3>3. CASE Len(hand[1].waiters) # 1 /\ i = 1
        BY <1>3, <1>8, <3>1, <3>3 DEF Cut
      <3>4. CASE Len(hand[1].waiters) # 1 /\ i # 1
        <4>1. left[i] = hand[i] /\ i \in 2..Len(hand)
          BY <1>6, <1>8, <1>9, <3>1, <3>4 DEF Cut
        <4>2. results[i] = hand[i] /\ i \in 2..Len(results)
          BY <1>6, <4>1
        <4>3. QED
          BY <1>5, <3>1, <4>1, <4>2
      <3>5. QED
        BY <3>2, <3>3, <3>4
    <2>2. CASE i > Len(left)
      <3> DEFINE n == i - Len(left)
      <3>1. rest[i] = completed[n] /\ n \in 1..Len(completed)
        BY ONLY <1>6, <1>9, <2>a, <2>2
      <3>2. results[n + Len(hand)] = completed[n] /\ n + Len(hand) \in 2..Len(results)
        <4>1. n \in Int
          BY <3>1
        <4> HIDE DEF n
        <4> DEFINE m == n + Len(hand)
        <4>2. /\ m \in 1 .. Len(hand) + Len(completed) /\ ~(m <= Len(hand))
              /\ m - Len(hand) = n /\ m \in 2..Len(results)
          BY ONLY <1>6, <3>1, <4>1
        <4> HIDE DEF m
        <4>3. results[m] = completed[m - Len(hand)]
          BY ONLY <1>6, <4>2
        <4>4. results[m] = completed[n] /\ m \in 2..Len(results)
          BY ONLY <4>2, <4>3
        <4>5. QED
          BY ONLY <4>4 DEF m
      <3>3. QED
        BY <1>5, <3>1, <3>2
    <2>3. QED
      BY ONLY <1>6, <1>9, <2>a, <2>1, <2>2
  <1>11. /\ s.job = server.job /\ s.writes = server.writes
         /\ s.next_sequence = server.next_sequence /\ s.dirty = server.dirty
         /\ s.cache = server.cache /\ s.negative = server.negative
         /\ s.stale = server.stale
    BY <1>1, <1>3 DEF OnlyTicket, Servers
  <1>12. PICK h, m : Pending(server, truth, database, writer, h, m)
    BY DEF CurrentInv, Current, Pending
  <1>13. Pending(s, truth, database, writer, h, m)
    <2>1. Taken(s) = Taken(server)
      BY <1>11 DEF Taken
    <2>2. History(s, truth, database, writer, h, m) /\ DirtyAgrees(s, database, m)
      BY <1>11, <1>12, <2>1 DEF Pending, History, DirtyAgrees
    <2>3. \A x : Quiet(s, database, m, x) = Quiet(server, database, m, x)
      BY <1>11 DEF Quiet
    <2>4. ASSUME NEW x \in Keys, Fresh(s, x, server.job[x].waiters)
          PROVE  Fresh(server, x, server.job[x].waiters)
      <3> DEFINE q == server.job[x].waiters
      <3>1. q \in Seq(Clients) /\ Attached(server, x, q)
        BY <1>1, <1>4 DEF Servers, Jobs, JobsAgree
      <3>2. ~In(q, c)
        <4>1. Disjoint(q, results[1].waiters)
          BY <1>4, <1>6 DEF ResultsAgree
        <4>2. QED
          BY <1>6, <1>7, <4>1, DisjointIn
      <3> HIDE DEF q
      <3>3. QED
        BY <1>1, <1>3, <1>4, <2>4, <3>1, <3>2, FreshLeft DEF q
    <2>5. JobsCurrent(s, truth, database, m)
      BY <1>11, <1>12, <2>3, <2>4 DEF Pending, JobsCurrent
    <2>6. QED
      BY <2>2, <2>5 DEF Pending
  <1>14. ResultsCurrent(s, truth, rest)
    <2> SUFFICES ASSUME NEW i \in 1..Len(rest), rest[i].verdict = "none",
                        Fresh(s, rest[i].key, rest[i].waiters)
                 PROVE  LET result == rest[i] IN
                        /\ result.status = "found" => result.row = truth[result.key]
                        /\ result.status = "absent" => truth[result.key] = Absent
      BY DEF ResultsCurrent
    <2>1. PICK j \in 2..Len(results) : rest[i] = results[j]
      BY <1>10
    <2>2. j \in 1..Len(results) /\ j # 1
      BY <1>6
    <2>3. /\ results[j].key \in Keys /\ results[j].waiters \in Seq(Clients)
          /\ Attached(server, results[j].key, results[j].waiters)
          /\ Disjoint(results[j].waiters, results[1].waiters)
      BY <1>2, <1>4, <1>6, <2>2, ResultTypes DEF ResultsAgree
    <2>4. ~In(results[j].waiters, c)
      BY <1>6, <1>7, <2>3, DisjointIn
    <2>5. Fresh(server, results[j].key, results[j].waiters)
      BY <1>1, <1>3, <1>4, <2>1, <2>3, <2>4, FreshLeft
    <2>6. QED
      BY <2>1, <2>2, <2>5 DEF CurrentInv, Current, ResultsCurrent, results
  <1>15. CacheCurrent(s, truth, parted) /\ ~s.stale
    BY <1>11 DEF CurrentInv, Current, CacheCurrent, Cached
  <1>16. DeliveryCurrent(s, truth, parted, rest)
    <2> SUFFICES ASSUME NEW i \in 1..Len(rest), rest[i].verdict = "deliver",
                        rest[i].status \in {"found", "absent"}
                 PROVE  \/ rest[i].key \in parted
                        \/ server.cache[rest[i].key] = truth[rest[i].key]
      BY <1>11 DEF DeliveryCurrent
    <2>1. /\ rest[i].key = results[1].key /\ results[1].verdict = "deliver"
          /\ results[1].status \in {"found", "absent"}
      BY <1>3, <1>6, <1>10
    <2>2. QED
      BY <1>6, <2>1 DEF CurrentInv, Current, DeliveryCurrent, results
  <1>17. Current(s, truth, parted, database, writer, rest)
    BY <1>13, <1>14, <1>15, <1>16 DEF Current, Pending
  <1>18. QED
    BY <1>9, <1>10, <1>17

\* The waiter that is served goes on as the others do.
LEMMA ServingCurrent ==
    ASSUME HeldInv, CurrentInv, HandsOut, Result.verdict # "none",
           NEW c, c = Head(Result.waiters),
           NEW s, s = unregister_pending_load(server, c),
           \/ /\ Executes(s, c)
              /\ Result.key \in parted \/ s.cache[Result.key] = truth[Result.key]
           \/ Moves(Miss(s, c, Result.key))
           \/ Moves(Answered(s, c)),
           NextWaiter(c), UNCHANGED <<writer, database>>
    PROVE  CurrentInv'
  <1> DEFINE left == LeftOf(reactor.hand)
             rest == left \o server.completed
             request == s.request[c]
  <1>1. /\ Current(s, truth, parted, database, writer, rest)
        /\ rest \in Seq(Results)
        /\ \A i \in 1..Len(rest) : rest[i].verdict # "none" => rest[i].key = Result.key
    BY ServedCurrent
  <1>2. /\ Sound(s, reactor, rest, {c}, database, writer, wake, ringing)
        /\ c \in Clients /\ OnlyTicket(server, s) /\ Result = reactor.hand[1]
        /\ KeyOf(s, c) = Result.key /\ Result.key \in Keys
    BY Serving
  <1>3. server \in Servers /\ truth \in [Keys -> Values]
    BY InvIsSound DEF HeldInv
  <1>4. s.completed = server.completed
    BY <1>2, <1>3 DEF OnlyTicket, Servers
  <1> HIDE DEF rest, left
  <1>5. ASSUME Result.key \in parted \/ s.cache[Result.key] = truth[Result.key]
        PROVE  /\ MayExecute(s, request, truth, parted)
               /\ Noted(request, rest, Handed)
    <2>1. request.key = Result.key
      BY <1>2 DEF KeyOf
    <2>2. MayExecute(s, request, truth, parted)
      BY <1>5, <2>1 DEF MayExecute
    <2>3. Noted(request, rest, Handed)
      BY <1>1, <2>1 DEF Noted
    <2>4. QED
      BY <2>2, <2>3
  <1>6. Current(server', truth', parted', database, writer, rest)
    BY <1>1, <1>2, <1>3, <1>5, WorkCurrent
  <1>7. server'.completed = s.completed
    <2>1. WorksOn(s, c)
      BY <1>2 DEF WorksOn
    <2>2. QED
      BY <1>2, <1>3, <2>1, WorkSettles
  <1>8. reactor'.hand = left
    <2>1. reactor \in [stage : {"idle", "waiters", "results"}, kept : Nat,
                        hand : Seq(Results), input : Clients \cup {NoClient}]
      BY DEF HeldInv, HandAgrees
    <2>2. left = IF Len(Result.waiters) = 1 THEN Tail(reactor.hand)
                 ELSE [reactor.hand EXCEPT ![1].waiters = Tail(@)]
      BY <1>2 DEF LeftOf, left
    <2>3. \E d : reactor' = [reactor EXCEPT !.hand = left, !.input = d]
      BY <2>2 DEF NextWaiter
    <2>4. QED
      BY <2>1, <2>3
  <1>9. ResultsOf(server', reactor') = rest
    BY <1>4, <1>7, <1>8 DEF ResultsOf, rest
  <1>10. QED
    BY <1>6, <1>9 DEF CurrentInv

LEMMA RetryCurrent ==
    ASSUME HeldInv, CurrentInv, Retry
    PROVE  CurrentInv'
  <1> DEFINE c == Head(Result.waiters)
             s == unregister_pending_load(server, c)
  <1>1. /\ HandsOut /\ NextWaiter(c) /\ UNCHANGED <<writer, database>>
        /\ IF Cached(s, Result.key) THEN Executes(s, c)
                                    ELSE Moves(Miss(s, c, Result.key))
        /\ Result.verdict # "none"
    BY DEF Retry
  <1>2. s = unregister_pending_load(server, c) /\ c = Head(Result.waiters)
    OBVIOUS
  <1> HIDE DEF s, c
  <1>3. Result.key \in Keys /\ OnlyTicket(server, s) /\ server \in Servers
    BY <1>1, <1>2, Serving, InvIsSound
  <1>4. s.cache = server.cache
    BY <1>3 DEF OnlyTicket, Servers
  <1>5. Cached(s, Result.key) =>
           Result.key \in parted \/ s.cache[Result.key] = truth[Result.key]
    BY <1>3, <1>4 DEF CurrentInv, Current, CacheCurrent, Cached
  <1>6. QED
    BY <1>1, <1>2, <1>5, ServingCurrent

LEMMA DeliverCurrent ==
    ASSUME HeldInv, CurrentInv, Deliver
    PROVE  CurrentInv'
  <1> DEFINE c == Head(Result.waiters)
             s == unregister_pending_load(server, c)
             results == ResultsOf(server, reactor)
  <1>1. /\ HandsOut /\ NextWaiter(c) /\ UNCHANGED <<writer, database>>
        /\ IF Result.status \in {"found", "absent"} THEN Executes(s, c)
                                                    ELSE Moves(Answered(s, c))
        /\ Result.verdict = "deliver"
    BY DEF Deliver
  <1>2. s = unregister_pending_load(server, c) /\ c = Head(Result.waiters)
    OBVIOUS
  <1> HIDE DEF s, c
  <1>3. /\ Result.key \in Keys /\ OnlyTicket(server, s) /\ server \in Servers
        /\ Result = reactor.hand[1]
    BY <1>1, <1>2, Serving, InvIsSound
  <1>4. s.cache = server.cache
    BY <1>3 DEF OnlyTicket, Servers
  <1>5. 1 \in 1..Len(results) /\ results[1] = Result
    <2>1. /\ results = reactor.hand \o server.completed
          /\ reactor.hand \in Seq(Results) /\ server.completed \in Seq(Results)
          /\ reactor.hand # <<>>
      BY <1>1, ResultsNow DEF HandsOut
    <2> HIDE DEF results
    <2>2. QED
      BY <1>3, <2>1, FirstOfConcat, ZenonT(60)
  <1>6. Result.status \in {"found", "absent"} =>
           Result.key \in parted \/ s.cache[Result.key] = truth[Result.key]
    BY <1>1, <1>4, <1>5 DEF CurrentInv, Current, DeliveryCurrent
  <1>7. QED
    BY <1>1, <1>2, <1>6, ServingCurrent

\* The verdict concerns the first result only.
LEMMA JudgedPlaces ==
    ASSUME NEW hand \in Seq(Results), hand # <<>>, NEW completed \in Seq(Results),
           NEW after, NEW verdict, Judged(hand, after, verdict),
           NEW results, IsConcat(results, hand, completed),
           NEW rest, IsConcat(rest, after, completed)
    PROVE  /\ Len(rest) = Len(results) /\ Len(results) \in Nat /\ Len(results) >= 1
           /\ results[1] = hand[1] /\ rest[1] = after[1]
           /\ \A i \in 2..Len(results) : rest[i] = results[i]
  <1>1. /\ Len(results) = Len(hand) + Len(completed)
        /\ \A j \in 1..Len(hand) + Len(completed) :
              results[j] = IF j <= Len(hand) THEN hand[j] ELSE completed[j - Len(hand)]
    BY ConcatFacts DEF IsConcat
  <1>2. after \in Seq(Results) /\ Len(after) = Len(hand)
    BY DEF Judged
  <1>3. /\ Len(rest) = Len(after) + Len(completed)
        /\ \A j \in 1..Len(after) + Len(completed) :
              rest[j] = IF j <= Len(after) THEN after[j] ELSE completed[j - Len(after)]
    BY <1>2, ConcatFacts DEF IsConcat
  <1>4. Len(hand) \in Nat /\ Len(hand) >= 1 /\ Len(completed) \in Nat
    BY NotEmpty
  <1>5. \A i \in 2..Len(hand) : after[i] = hand[i]
    BY DEF Judged
  <1>6. QED
    BY <1>1, <1>2, <1>3, <1>4, <1>5, SMTT(30)

\* A load that no write has overtaken for any of its waiters is fresh.
LEMMA NotOutdatedFresh ==
    ASSUME server \in Servers, NEW result \in Results, result.waiters # <<>>,
           Attached(server, result.key, result.waiters), ~Outdated(server, result)
    PROVE  Fresh(server, result.key, result.waiters)
  <1> DEFINE q == result.waiters
  <1>1. q \in Seq(Clients)
    BY DEF Results
  <1>2. Len(q) \in 1..Len(q) /\ Len(q) \in DOMAIN q
    BY <1>1, NotEmpty
  <1>3. KeyOf(server, q[Len(q)]) = result.key
    BY <1>2 DEF Attached, KeyOf
  <1>4. server.load[result.key].generation = server.ticket[q[Len(q)]]
    BY <1>2, <1>3 DEF Outdated, pending_load_is_stale
  <1>5. QED
    BY <1>4 DEF Fresh

LEMMA JudgeCurrent ==
    ASSUME HeldInv, CurrentInv, Judge
    PROVE  CurrentInv'
  <1> DEFINE hand == reactor.hand
             results == ResultsOf(server, reactor)
             verdict == IF Outdated(server, Result) THEN "stale" ELSE "deliver"
             after == [hand EXCEPT ![1].verdict = verdict]
             rest == after \o server.completed
             k == Result.key
  <1>1. /\ SoundNow(results, {}) /\ server \in Servers
        /\ hand \in Seq(Results) /\ server.completed \in Seq(Results)
        /\ ResultsFound(results) /\ NumbersAgree(server, database, writer)
        /\ LruAgrees(server)
    BY InvIsSound DEF HeldInv, Held
  <1>2. /\ reactor \in [stage : {"idle", "waiters", "results"}, kept : Nat,
                        hand : Seq(Results), input : Clients \cup {NoClient}]
        /\ \A i \in 1..Len(results) : results[i].verdict # "none" => i = 1
    BY ResultsNow DEF HeldInv, HandAgrees
  <1>3. hand # <<>> /\ Result.verdict = "none"
    BY DEF Judge, HandsOut
  <1>4. Result = hand[1] /\ Result \in Results
    BY <1>1, <1>3, NotEmpty DEF Result
  <1>5. k \in Keys /\ Result.row \in Values
    BY <1>4 DEF Results
  <1>6. verdict \in {"stale", "deliver"} /\ (verdict = "deliver" <=> ~Outdated(server, Result))
    OBVIOUS
  <1>7. /\ reactor'.hand = after
        /\ writer' = writer /\ database' = database /\ truth' = truth
    <2>1. reactor' = [reactor EXCEPT !.hand[1].verdict = verdict]
      BY DEF Judge
    <2> HIDE DEF verdict
    <2>2. QED
      BY <1>2, <2>1 DEF Judge
  <1>8. \/ /\ server' = server /\ parted' = parted
           /\ verdict = "deliver" => Result.status \notin {"found", "absent"}
        \/ /\ verdict = "deliver" /\ Result.status = "found"
           /\ server' = StoreObject(server, k, Result.row) /\ parted' = parted \ {k}
        \/ /\ verdict = "deliver" /\ Result.status = "absent" /\ parted' = parted
           /\ server' = [server EXCEPT !.negative = server.negative \cup {k}]
    BY DEF Judge
  <1> HIDE DEF verdict
  <1>9. Judged(hand, after, verdict)
    BY <1>1, <1>3, <1>6, JudgedFacts
  <1>10. /\ IsConcat(results, hand, server.completed)
         /\ IsConcat(rest, after, server.completed)
    BY DEF ResultsOf, IsConcat
  <1> HIDE DEF after, rest, hand, results
  <1>11. /\ Len(rest) = Len(results) /\ Len(results) \in Nat /\ Len(results) >= 1
         /\ results[1] = hand[1] /\ rest[1] = after[1]
         /\ \A i \in 2..Len(results) : rest[i] = results[i]
    BY <1>1, <1>3, <1>9, <1>10, JudgedPlaces
  <1>12. /\ rest[1].key = k /\ rest[1].status = Result.status /\ rest[1].row = Result.row
         /\ rest[1].verdict = verdict
    BY <1>4, <1>9, <1>11 DEF Judged
  <1>13. /\ Result.waiters # <<>> /\ Attached(server, k, Result.waiters)
    <2>1. ResultsAgree(server, results)
      BY <1>1 DEF SoundNow, Sound, Held, ListsAgree
    <2>2. 1 \in 1..Len(results)
      BY <1>11
    <2>3. QED
      BY <1>4, <1>11, <2>1, <2>2 DEF ResultsAgree
  <1>14. /\ CacheCurrent(server, truth, parted)
         /\ ResultsCurrent(server, truth, results) /\ ~server.stale
    BY DEF CurrentInv, Current, results
  <1>15. ASSUME verdict = "deliver"
         PROVE  /\ Result.status = "found" => Result.row = truth[k] /\ Result.row # Absent
                /\ Result.status = "absent" => truth[k] = Absent /\ server.cache[k] = Absent
    <2>1. Fresh(server, k, Result.waiters)
      BY <1>1, <1>4, <1>6, <1>13, <1>15, NotOutdatedFresh
    <2>2. 1 \in 1..Len(results) /\ results[1] = Result
      BY <1>4, <1>11
    <2>3. /\ Result.status = "found" => Result.row = truth[k]
          /\ Result.status = "absent" => truth[k] = Absent
      BY <1>3, <1>14, <2>1, <2>2 DEF ResultsCurrent
    <2>4. Result.status = "found" => Result.row # Absent
      BY <1>1, <2>2 DEF ResultsFound
    <2>5. truth[k] = Absent => server.cache[k] = Absent
      BY <1>5, <1>14 DEF CacheCurrent, Cached
    <2>6. QED
      BY <2>3, <2>4, <2>5
  <1>16. /\ Calm(server, server') /\ server'.stale = server.stale
         /\ CacheCurrent(server', truth, parted')
         /\ verdict = "deliver" /\ Result.status \in {"found", "absent"} =>
               server'.cache[k] = truth[k]
    <2>1. CASE /\ server' = server /\ parted' = parted
               /\ verdict = "deliver" => Result.status \notin {"found", "absent"}
      BY <1>1, <1>14, <2>1 DEF Calm, SameWaiters, SameNumbers
    <2>2. CASE /\ verdict = "deliver" /\ Result.status = "found"
               /\ server' = StoreObject(server, k, Result.row) /\ parted' = parted \ {k}
      <3>1. /\ Calm(server, server') /\ CacheChanges(server, server', k, Result.row)
            /\ OnlyCache(server, server')
        BY <1>1, <1>5, <1>15, <2>2, StoreCalm
      <3>2. server'.stale = server.stale /\ server'.negative = server.negative
        BY <1>1, <3>1 DEF OnlyCache, Servers
      <3>3. server'.cache[k] = truth[k]
        BY <1>15, <2>2, <3>1 DEF CacheChanges
      <3>4. \A x \in Keys \ {k} : server'.cache[x] \in {server.cache[x], Absent}
        BY <3>1 DEF CacheChanges
      <3>5. CacheCurrent(server', truth, parted')
        BY <1>14, <2>2, <3>2, <3>3, <3>4 DEF CacheCurrent, Cached
      <3>6. QED
        BY <3>1, <3>2, <3>3, <3>5
    <2>3. CASE /\ verdict = "deliver" /\ Result.status = "absent" /\ parted' = parted
               /\ server' = [server EXCEPT !.negative = server.negative \cup {k}]
      <3>1. server.negative \cup {k} \in SUBSET Keys
        BY <1>1, <1>5 DEF Servers
      <3>2. Calm(server, server')
        BY <1>1, <2>3, <3>1, NegativeCalm
      <3>3. /\ server'.stale = server.stale /\ server'.cache = server.cache
            /\ server'.negative = server.negative \cup {k}
        BY <1>1, <2>3 DEF Servers
      <3>4. CacheCurrent(server', truth, parted')
        BY <1>14, <1>15, <2>3, <3>3 DEF CacheCurrent, Cached
      <3>5. QED
        BY <1>15, <2>3, <3>2, <3>3, <3>4
    <2>4. QED
      BY <1>8, <2>1, <2>2, <2>3
  <1>17. SamePending(server, server')
    BY <1>16 DEF Calm, SamePending, SameNumbers, SameWaiters
  <1>18. PICK h, m : Pending(server, truth, database, writer, h, m)
    BY DEF CurrentInv, Current, Pending
  <1>19. Pending(server', truth, database, writer, h, m)
    BY <1>1, <1>17, <1>18, PendingFrame
  <1>20. ResultsCurrent(server', truth, rest)
    <2> SUFFICES ASSUME NEW i \in 1..Len(rest), rest[i].verdict = "none",
                        Fresh(server', rest[i].key, rest[i].waiters)
                 PROVE  LET result == rest[i] IN
                        /\ result.status = "found" => result.row = truth[result.key]
                        /\ result.status = "absent" => truth[result.key] = Absent
      BY DEF ResultsCurrent
    <2>1. i # 1
      BY <1>6, <1>12
    <2>2. rest[i] = results[i] /\ i \in 1..Len(results)
      BY <1>11, <2>1
    <2>3. Fresh(server, results[i].key, results[i].waiters)
      BY <1>17, <2>2 DEF Fresh, SamePending
    <2>4. QED
      BY <1>14, <2>2, <2>3 DEF ResultsCurrent
  <1>21. DeliveryCurrent(server', truth, parted', rest)
    <2> SUFFICES ASSUME NEW i \in 1..Len(rest), rest[i].verdict = "deliver",
                        rest[i].status \in {"found", "absent"}
                 PROVE  server'.cache[rest[i].key] = truth[rest[i].key]
      BY DEF DeliveryCurrent
    <2>1. i = 1
      <3>1. SUFFICES ASSUME i # 1 PROVE FALSE
        OBVIOUS
      <3>2. i \in 1..Len(results) /\ rest[i] = results[i]
        BY <1>11, <3>1
      <3>3. results[i].verdict = "none"
        BY <1>2, <3>1, <3>2
      <3>4. QED
        BY <3>2, <3>3
    <2>2. QED
      BY <1>12, <1>16, <2>1
  <1>22. Current(server', truth, parted', database, writer, rest)
    BY <1>14, <1>16, <1>19, <1>20, <1>21 DEF Current, Pending
  <1>23. ResultsOf(server', reactor') = rest
    <2>1. server'.completed = server.completed
      BY <1>16 DEF Calm
    <2>2. QED
      BY <1>7, <2>1 DEF ResultsOf, rest
  <1>24. QED
    BY <1>7, <1>22, <1>23 DEF CurrentInv

\* A step that leaves the values and the results alone.
LEMMA QuietStep ==
    ASSUME HeldInv, CurrentInv, SameWorth(server, server'),
           ResultsOf(server', reactor') = ResultsOf(server, reactor),
           UNCHANGED <<writer, database, truth, parted>>
    PROVE  CurrentInv'
  <1>1. server \in Servers /\ NumbersAgree(server, database, writer)
    BY DEF HeldInv, Held
  <1>2. Current(server', truth, parted, database, writer, ResultsOf(server, reactor))
    BY <1>1, CurrentFrame DEF CurrentInv
  <1>3. QED
    BY <1>2 DEF CurrentInv

LEMMA PurgeWorth ==
    ASSUME NEW s, NEW t, OnlyDirty(s, t)
    PROVE  SameWorth(s, t)
  BY DEF OnlyDirty, SameWorth, SamePending, SameNumbers, SameWaiters

LEMMA SameServer ==
    ASSUME NEW s, NEW t, t = s
    PROVE  SameWorth(s, t)
  BY DEF SameWorth, SamePending

LEMMA TakeResultsCurrent ==
    ASSUME HeldInv, CurrentInv, TakeResults
    PROVE  CurrentInv'
  <1> DEFINE u == purge_applied_dirty_keys(server, Keys)
             results == ResultsOf(server, reactor)
  <1>1. /\ server \in Servers /\ server.completed \in Seq(Results)
        /\ reactor \in [stage : {"idle", "waiters", "results"}, kept : Nat,
                        hand : Seq(Results), input : Clients \cup {NoClient}]
    BY InvIsSound DEF HeldInv, HandAgrees
  <1>2. /\ reactor.stage = "waiters"
        /\ server' = [u EXCEPT !.completed = <<>>, !.tail_gone = FALSE]
        /\ reactor' = [reactor EXCEPT !.stage = "results", !.kept = 0,
                                      !.hand = server.completed]
        /\ UNCHANGED <<writer, database, truth, parted>>
    BY DEF TakeResults
  <1>3. OnlyDirty(server, u) /\ u \in Servers
    BY <1>1, PurgeFacts DEF OnlyDirty
  <1> HIDE DEF u
  <1>4. server'.completed = <<>> /\ SameWorth(u, server') /\ server'.dirty = u.dirty
        /\ server'.applied = u.applied
    BY <1>2, <1>3 DEF Servers, SameWorth, SamePending
  <1>5. SameWorth(server, u) /\ u.applied = server.applied
    BY <1>3, PurgeWorth DEF OnlyDirty, SameNumbers
  <1>6. SameWorth(server, server')
    BY <1>4, <1>5 DEF SameWorth, SamePending
  <1>7. reactor'.hand = server.completed
    BY <1>1, <1>2
  <1>8. results = server.completed /\ ResultsOf(server', reactor') = server.completed
    <2>1. reactor.hand = <<>>
      BY <1>2, ResultsNow
    <2>2. <<>> \o server.completed = server.completed
          /\ server.completed \o <<>> = server.completed
      BY <1>1, ConcatEmptySeq
    <2>3. QED
      BY <1>4, <1>7, <2>1, <2>2 DEF ResultsOf
  <1>9. QED
    BY <1>2, <1>6, <1>8, QuietStep

\* Wake and DrainEnds move the Reactor thread, ReaderNotifies the eventfd.
LEMMA MovesCurrent ==
    ASSUME HeldInv, CurrentInv, Wake \/ DrainEnds \/ ReaderNotifies
    PROVE  CurrentInv'
  <1>1. /\ reactor \in [stage : {"idle", "waiters", "results"}, kept : Nat,
                        hand : Seq(Results), input : Clients \cup {NoClient}]
    BY DEF HeldInv, HandAgrees
  <1>2. server' = server /\ UNCHANGED <<writer, database, truth, parted>>
    BY DEF Wake, DrainEnds, ReaderNotifies
  <1>3. reactor'.hand = reactor.hand
    BY <1>1 DEF Wake, DrainEnds, ReaderNotifies
  <1>4. ResultsOf(server', reactor') = ResultsOf(server, reactor)
    BY <1>2, <1>3 DEF ResultsOf
  <1>5. QED
    BY <1>2, <1>4, SameServer, QuietStep

LEMMA MaintainCurrent ==
    ASSUME HeldInv, CurrentInv, Maintain
    PROVE  CurrentInv'
  <1>1. server \in Servers
    BY DEF HeldInv, Held
  <1>2. /\ OnlyDirty(server, server')
        /\ UNCHANGED <<reactor, writer, database, truth, parted>>
    BY <1>1, PurgeFacts DEF Maintain
  <1>3. ResultsOf(server', reactor') = ResultsOf(server, reactor)
    BY <1>2 DEF ResultsOf, OnlyDirty
  <1>4. QED
    BY <1>2, <1>3, PurgeWorth, QuietStep

LEMMA NegativeExpiresCurrent ==
    ASSUME HeldInv, CurrentInv, NEW k \in Keys, NegativeExpires(k)
    PROVE  CurrentInv'
  <1>1. server \in Servers
    BY DEF HeldInv, Held
  <1>2. /\ server' = [server EXCEPT !.negative = server.negative \ {k}]
        /\ UNCHANGED <<reactor, writer, database, truth, parted>>
    BY DEF NegativeExpires, negative_cache_invalidate
  <1>3. SameWorth(server, server') /\ server'.completed = server.completed
    BY <1>1, <1>2 DEF SameWorth, SamePending, Servers
  <1>4. ResultsOf(server', reactor') = ResultsOf(server, reactor)
    BY <1>2, <1>3 DEF ResultsOf
  <1>5. QED
    BY <1>2, <1>3, <1>4, QuietStep

-----------------------------------------------------------------------------
(* The reader threads *)

\* What a job says of a key is so if the value is this one.
Worth(job, value) ==
    /\ job.stage = "keyed" => value # Absent
    /\ job.status = "found" => job.row = value
    /\ job.status = "absent" => value = Absent

\* A reader goes on with its job, and finds the truth if it was not overtaken.
LEMMA ReaderCurrent ==
    ASSUME HeldInv, CurrentInv, NEW k \in Keys, NEW job,
           ReaderOnly(server, server'), server'.job[k] = job,
           \A x \in Keys \ {k} : server'.job[x] = server.job[x],
           job.waiters = server.job[k].waiters,
           database.rows[k] = truth[k] /\ Worth(server.job[k], truth[k])
              => Worth(job, truth[k]),
           UNCHANGED <<reactor, writer, database, truth, parted>>
    PROVE  CurrentInv'
  <1>1. server \in Servers /\ NumbersAgree(server, database, writer)
    BY DEF HeldInv, Held
  <1>2. /\ server'.ticket = server.ticket /\ server'.load = server.load
        /\ server'.writes = server.writes
        /\ server'.next_sequence = server.next_sequence
        /\ server'.dirty = server.dirty /\ server'.cache = server.cache
        /\ server'.negative = server.negative /\ server'.stale = server.stale
        /\ server'.completed = server.completed
    BY DEF ReaderOnly, SameValues
  <1>3. PICK h, m : Pending(server, truth, database, writer, h, m)
    BY DEF CurrentInv, Current, Pending
  <1>4. \A x, q : Fresh(server', x, q) = Fresh(server, x, q)
    BY <1>2 DEF Fresh
  <1>5. \A x : Quiet(server', database, m, x) = Quiet(server, database, m, x)
    BY <1>2 DEF Quiet
  <1>6. ASSUME NEW x \in Keys, Fresh(server', x, server'.job[x].waiters)
        PROVE  Quiet(server', database, m, x) /\ Worth(server'.job[x], truth[x])
    <2>1. server'.job[x].waiters = server.job[x].waiters
      OBVIOUS
    <2>2. Quiet(server, database, m, x) /\ Worth(server.job[x], truth[x])
      BY <1>3, <1>4, <1>6, <2>1 DEF Pending, JobsCurrent, Worth
    <2>3. database.rows[x] = truth[x]
      BY <1>1, <1>3, <2>2, QuietRow DEF Pending
    <2>4. QED
      BY <1>5, <2>2, <2>3
  <1>7. JobsCurrent(server', truth, database, m)
    BY <1>6 DEF JobsCurrent, Worth
  <1>8. Taken(server') = Taken(server)
    BY <1>2 DEF Taken
  <1>9. /\ History(server', truth, database, writer, h, m)
        /\ DirtyAgrees(server', database, m)
    BY <1>2, <1>3, <1>8 DEF Pending, History, DirtyAgrees
  <1>10. ResultsOf(server', reactor') = ResultsOf(server, reactor)
    BY <1>2 DEF ResultsOf
  <1>11. /\ ResultsCurrent(server', truth, ResultsOf(server, reactor))
    BY <1>4 DEF CurrentInv, Current, ResultsCurrent
  <1>12. /\ CacheCurrent(server', truth, parted) /\ ~server'.stale
         /\ DeliveryCurrent(server', truth, parted, ResultsOf(server, reactor))
    BY <1>2 DEF CurrentInv, Current, CacheCurrent, DeliveryCurrent, Cached
  <1>13. Current(server', truth, parted, database, writer, ResultsOf(server, reactor))
    BY <1>7, <1>9, <1>11, <1>12 DEF Current
  <1>14. QED
    BY <1>10, <1>13 DEF CurrentInv

LEMMA ReaderTakesCurrent ==
    ASSUME HeldInv, CurrentInv, ReaderTakes
    PROVE  CurrentInv'
  <1> DEFINE k == Head(server.queue)
             job == [server.job[k] EXCEPT !.stage = "taken"]
             jobs == [server.job EXCEPT ![k] = job]
             queue == Tail(server.queue)
  <1>1. server \in Servers /\ server.queue # <<>>
    BY DEF HeldInv, Held, ReaderTakes
  <1>2. server.queue \in Seq(Keys) /\ server.job \in [Keys -> Jobs]
    BY <1>1 DEF Servers
  <1>3. k \in Keys
    BY <1>1, <1>2, NotEmpty
  <1>4. server.job[k] \in Jobs
    BY <1>2, <1>3
  <1>5. /\ job.stage = "taken" /\ job.waiters = server.job[k].waiters
        /\ job.status = server.job[k].status /\ job.row = server.job[k].row
    BY <1>4 DEF Jobs
  <1>6. server' = [server EXCEPT !.queue = queue, !.job = jobs]
        /\ UNCHANGED <<reactor, writer, database, truth, parted>>
    BY <1>1, <1>2, <1>3 DEF ReaderTakes, Servers
  <1> HIDE DEF job
  <1>7. jobs[k] = job /\ \A x \in Keys \ {k} : jobs[x] = server.job[x]
    BY <1>2, <1>3
  <1> HIDE DEF jobs, queue
  <1>8. ReaderOnly(server, server') /\ server'.job = jobs
    BY <1>1, <1>6 DEF Servers, ReaderOnly, SameValues
  <1>9. Worth(server.job[k], truth[k]) => Worth(job, truth[k])
    BY <1>5 DEF Worth
  <1> HIDE DEF k
  <1>10. QED
    BY <1>3, <1>5, <1>6, <1>7, <1>8, <1>9, ReaderCurrent

\* The reader of k is at this stage, and no write has overtaken it.
NotOvertaken(k, from) ==
    /\ database.rows[k] = truth[k] /\ Worth(server.job[k], truth[k])
    /\ server.job[k].stage = from

LEMMA ReaderStepCurrent ==
    ASSUME HeldInv, CurrentInv, NEW k \in Keys, NEW from, NEW job,
           ReaderStep(k, from, job), job.waiters = server.job[k].waiters,
           NotOvertaken(k, from) => Worth(job, truth[k])
    PROVE  CurrentInv'
  <1> DEFINE jobs == [server.job EXCEPT ![k] = job]
  <1>1. server \in Servers
    BY DEF HeldInv, Held
  <1>2. server.job \in [Keys -> Jobs]
    BY <1>1 DEF Servers
  <1>3. /\ server' = [server EXCEPT !.job = jobs] /\ server.job[k].stage = from
        /\ UNCHANGED <<reactor, writer, database, truth, parted>>
    BY <1>1, <1>2 DEF ReaderStep, Servers
  <1>4. jobs[k] = job /\ \A x \in Keys \ {k} : jobs[x] = server.job[x]
    BY <1>2
  <1> HIDE DEF jobs
  <1>5. ReaderOnly(server, server') /\ server'.job = jobs
    BY <1>1, <1>3 DEF Servers, ReaderOnly, SameValues
  <1>6. QED
    BY <1>3, <1>4, <1>5, ReaderCurrent DEF NotOvertaken

LEMMA LoadedCurrent ==
    ASSUME HeldInv, CurrentInv, NEW k \in Keys, NEW from, NEW status \in Statuses,
           NEW row \in Values, ReaderStep(k, from, Loaded(k, status, row)),
           NotOvertaken(k, from) =>
              /\ status = "found" => row = truth[k]
              /\ status = "absent" => truth[k] = Absent
    PROVE  CurrentInv'
  <1> DEFINE job == Loaded(k, status, row)
  <1>1. server \in Servers
    BY DEF HeldInv, Held
  <1>2. /\ job.stage = "loaded" /\ job.status = status
        /\ job.row = row /\ job.waiters = server.job[k].waiters
    BY <1>1, LoadedType
  <1>3. ReaderStep(k, from, job)
    OBVIOUS
  <1> HIDE DEF job
  <1>4. NotOvertaken(k, from) => Worth(job, truth[k])
    BY <1>2 DEF Worth
  <1>5. QED
    BY <1>2, <1>3, <1>4, ReaderStepCurrent

LEMMA ReadsCurrent ==
    ASSUME HeldInv, CurrentInv, NEW k \in Keys,
           LoadKey(k) \/ LoadValue(k) \/ LoadFails(k)
    PROVE  CurrentInv'
  <1>1. server \in Servers /\ database.rows[k] \in Values
    BY DEF HeldInv, Held, NumbersAgree
  <1>2. Absent \in Values /\ {} \in Values
    BY CacheAsideAssumption DEF Values
  <1>3. {"absent", "found", "internal", "unavailable"} \subseteq Statuses
    BY DEF Statuses
  <1>4. CASE ReaderStep(k, "taken", Loaded(k, "absent", Absent))
             /\ database.rows[k] = Absent
    BY <1>2, <1>3, <1>4, LoadedCurrent DEF NotOvertaken
  <1>5. CASE ReaderStep(k, "taken", [server.job[k] EXCEPT !.stage = "keyed"])
             /\ database.rows[k] # Absent
    <2> DEFINE job == [server.job[k] EXCEPT !.stage = "keyed"]
    <2>1. server.job[k] \in Jobs
      BY <1>1 DEF Servers
    <2>2. /\ job.stage = "keyed" /\ job.waiters = server.job[k].waiters
          /\ job.status = server.job[k].status /\ job.row = server.job[k].row
      BY <2>1 DEF Jobs
    <2>3. ReaderStep(k, "taken", job)
      BY <1>5
    <2> HIDE DEF job
    <2>4. NotOvertaken(k, "taken") => Worth(job, truth[k])
      BY <1>5, <2>2 DEF NotOvertaken, Worth
    <2>5. QED
      BY <2>2, <2>3, <2>4, ReaderStepCurrent
  <1>6. CASE ReaderStep(k, "keyed", Loaded(k, "found", database.rows[k]))
    BY <1>1, <1>3, <1>6, LoadedCurrent DEF NotOvertaken
  <1>7. CASE ReaderStep(k, "keyed", Loaded(k, "found", {})) /\ database.rows[k] = Absent
    <2>1. ~NotOvertaken(k, "keyed")
      BY <1>7 DEF NotOvertaken, Worth
    <2>2. QED
      BY <1>2, <1>3, <1>7, <2>1, LoadedCurrent
  <1>8. CASE ReaderStep(k, "keyed", Loaded(k, "internal", Absent))
    BY <1>2, <1>3, <1>8, LoadedCurrent
  <1>9. CASE LoadFails(k)
    <2>1. PICK from : ReaderStep(k, from, Loaded(k, "unavailable", Absent))
      BY <1>9 DEF LoadFails
    <2>2. QED
      BY <1>2, <1>3, <2>1, LoadedCurrent
  <1>10. QED
    BY <1>4, <1>5, <1>6, <1>7, <1>8, <1>9 DEF LoadKey, LoadValue

LEMMA SnapWaitersCurrent ==
    ASSUME HeldInv, CurrentInv, NEW k \in Keys, SnapWaiters(k)
    PROVE  CurrentInv'
  <1> DEFINE waiters == server.job[k].waiters
             job == [server.job[k] EXCEPT !.stage = "snapped", !.snapshot = waiters]
  <1>1. server \in Servers
    BY DEF HeldInv, Held
  <1>2. server.job[k] \in Jobs
    BY <1>1 DEF Servers
  <1>3. /\ job.stage = "snapped" /\ job.status = server.job[k].status
        /\ job.row = server.job[k].row /\ job.waiters = waiters
    BY <1>2 DEF Jobs
  <1>4. ReaderStep(k, "loaded", job)
    BY DEF SnapWaiters
  <1> HIDE DEF job
  <1>5. NotOvertaken(k, "loaded") => Worth(job, truth[k])
    BY <1>3 DEF NotOvertaken, Worth
  <1>6. QED
    BY <1>3, <1>4, <1>5, ReaderStepCurrent

\* The result is as fresh as the load it comes from: the reader has copied the
\* waiter that came first.
LEMMA ReaderFinishesCurrent ==
    ASSUME HeldInv, CurrentInv, NEW k \in Keys, ReaderFinishes(k)
    PROVE  CurrentInv'
  <1> DEFINE job == server.job[k]
             new == [key |-> k, status |-> job.status, row |-> job.row,
                     verdict |-> "none", waiters |-> job.snapshot]
             jobs == [server.job EXCEPT ![k] = NoJob]
             completed == Append(server.completed, new)
             overlooked == server.overlooked
                              \cup (ToSet(job.waiters) \ ToSet(job.snapshot))
             results == ResultsOf(server, reactor)
             rest == reactor.hand \o completed
  <1>1. /\ server \in Servers
        /\ reactor.hand \in Seq(Results) /\ server.completed \in Seq(Results)
        /\ JobsAgree(server)
    BY InvIsSound DEF HeldInv, Held, ListsAgree
  <1>2. server.job \in [Keys -> Jobs]
    BY <1>1 DEF Servers
  <1>3. job \in Jobs /\ job.waiters \in Seq(Clients) /\ job.snapshot \in Seq(Clients)
    <2>1. job \in Jobs
      BY <1>2
    <2>2. QED
      BY <2>1 DEF Jobs
  <1>4. /\ new \in Results /\ new.key = k /\ new.status = job.status
        /\ new.row = job.row /\ new.verdict = "none" /\ new.waiters = job.snapshot
    BY <1>3 DEF Results, Jobs
  <1>5. /\ job.stage = "snapped"
        /\ server' = [server EXCEPT !.job = jobs, !.completed = completed,
                                    !.overlooked = overlooked]
        /\ UNCHANGED <<reactor, writer, database, truth, parted>>
    BY <1>1 DEF ReaderFinishes, Servers
  <1>6. EndOf(job.snapshot, job.waiters)
    BY <1>1, <1>5 DEF JobsAgree
  <1>7. results = reactor.hand \o server.completed
        /\ completed = Append(server.completed, new) /\ rest = reactor.hand \o completed
    BY DEF ResultsOf
  <1>8. jobs[k] = NoJob /\ \A x \in Keys \ {k} : jobs[x] = server.job[x]
    BY <1>2
  <1> HIDE DEF new, job, jobs, completed, overlooked, results, rest
  <1>9. Behind(rest, results, new) /\ Len(results) \in Nat
    BY <1>1, <1>4, <1>7, ConcatAppend
  <1>10. /\ server'.job = jobs /\ server'.completed = completed
         /\ server'.ticket = server.ticket /\ server'.load = server.load
         /\ server'.writes = server.writes
         /\ server'.next_sequence = server.next_sequence
         /\ server'.dirty = server.dirty /\ server'.cache = server.cache
         /\ server'.negative = server.negative /\ server'.stale = server.stale
    BY <1>1, <1>5 DEF Servers
  <1>11. PICK h, m : Pending(server, truth, database, writer, h, m)
    BY DEF CurrentInv, Current, Pending
  <1>12. \A x, q : Fresh(server', x, q) = Fresh(server, x, q)
    BY <1>10 DEF Fresh
  <1>13. \A x : Quiet(server', database, m, x) = Quiet(server, database, m, x)
    BY <1>10 DEF Quiet
  <1>14. JobsCurrent(server', truth, database, m)
    <2>1. ~Fresh(server', k, jobs[k].waiters)
      BY <1>8 DEF Fresh, NoJob
    <2>2. QED
      BY <1>8, <1>10, <1>11, <1>12, <1>13, <2>1 DEF Pending, JobsCurrent
  <1>15. Taken(server') = Taken(server)
    BY <1>10 DEF Taken
  <1>16. /\ History(server', truth, database, writer, h, m)
         /\ DirtyAgrees(server', database, m)
    BY <1>10, <1>11, <1>15 DEF Pending, History, DirtyAgrees
  <1>17. Fresh(server, k, new.waiters) => Fresh(server, k, job.waiters)
    <2> DEFINE p == job.snapshot
               q == job.waiters
    <2>1. /\ p # <<>> /\ Len(p) <= Len(q)
          /\ \A i \in 1..Len(p) : p[i] = q[i + (Len(q) - Len(p))]
      BY <1>6 DEF EndOf
    <2>2. Len(p) \in Nat /\ Len(p) >= 1 /\ Len(q) \in Nat
      BY <1>3, <2>1, NotEmpty
    <2> HIDE DEF p, q
    <2>3. p[Len(p)] = q[Len(q)]
      <3>1. p[Len(p)] = q[Len(p) + (Len(q) - Len(p))]
        BY <2>1, <2>2
      <3>2. Len(p) + (Len(q) - Len(p)) = Len(q)
        BY <2>2
      <3>3. QED
        BY <3>1, <3>2
    <2>4. q # <<>>
      <3>1. Len(q) # 0
        BY <2>1, <2>2
      <3>2. QED
        BY <3>1
    <2>5. QED
      BY <1>4, <2>3, <2>4 DEF Fresh, p, q
  <1>18. new.verdict = "none" /\ Fresh(server, k, new.waiters) =>
            /\ new.status = "found" => new.row = truth[k]
            /\ new.status = "absent" => truth[k] = Absent
    BY <1>4, <1>11, <1>17 DEF Pending, JobsCurrent, job
  <1>19. ASSUME NEW i \in 1..Len(rest)
         PROVE  (i \in 1..Len(results) /\ rest[i] = results[i]) \/ rest[i] = new
    BY <1>9 DEF Behind
  <1>20. ResultsCurrent(server', truth, rest)
    <2> SUFFICES ASSUME NEW i \in 1..Len(rest), rest[i].verdict = "none",
                        Fresh(server, rest[i].key, rest[i].waiters)
                 PROVE  LET result == rest[i] IN
                        /\ result.status = "found" => result.row = truth[result.key]
                        /\ result.status = "absent" => truth[result.key] = Absent
      BY <1>12 DEF ResultsCurrent
    <2>1. CASE rest[i] = new
      BY <1>4, <1>18, <2>1
    <2>2. CASE i \in 1..Len(results) /\ rest[i] = results[i]
      BY <2>2 DEF CurrentInv, Current, ResultsCurrent, results
    <2>3. QED
      BY <1>19, <2>1, <2>2
  <1>21. DeliveryCurrent(server', truth, parted, rest)
    <2> SUFFICES ASSUME NEW i \in 1..Len(rest), rest[i].verdict = "deliver",
                        rest[i].status \in {"found", "absent"}
                 PROVE  \/ rest[i].key \in parted
                        \/ server.cache[rest[i].key] = truth[rest[i].key]
      BY <1>10 DEF DeliveryCurrent
    <2>1. i \in 1..Len(results) /\ rest[i] = results[i]
      BY <1>4, <1>19
    <2>2. QED
      BY <2>1 DEF CurrentInv, Current, DeliveryCurrent, results
  <1>22. CacheCurrent(server', truth, parted) /\ ~server'.stale
    BY <1>10 DEF CurrentInv, Current, CacheCurrent, Cached
  <1>23. Current(server', truth, parted, database, writer, rest)
    BY <1>14, <1>16, <1>20, <1>21, <1>22 DEF Current
  <1>24. ResultsOf(server', reactor') = rest
    BY <1>5, <1>7, <1>10 DEF ResultsOf
  <1>25. QED
    BY <1>5, <1>23, <1>24 DEF CurrentInv

-----------------------------------------------------------------------------
(* The writer thread *)

\* What the writer does not touch: it moves writes out of the queue and tells
\* of its progress.
LEMMA WriterCurrent ==
    ASSUME HeldInv, CurrentInv, WriterOnly(server, server'),
           server'.negative = server.negative, server'.stale = server.stale,
           NEW h, NEW m, Pending(server, truth, database, writer, h, m),
           History(server', truth, database', writer', h, m),
           database'.applied >= database.applied, database'.applied \in Nat,
           UNCHANGED <<reactor, truth, parted>>
    PROVE  CurrentInv'
  <1>1. /\ server \in Servers /\ database.applied \in Nat
        /\ server.next_sequence \in Nat
    BY NumberFacts DEF HeldInv, Held
  <1>2. /\ server'.ticket = server.ticket /\ server'.load = server.load
        /\ server'.job = server.job /\ server'.completed = server.completed
        /\ server'.next_sequence = server.next_sequence
        /\ server'.dirty = server.dirty /\ server'.cache = server.cache
    BY DEF WriterOnly, SameWaiters
  <1>3. \A n \in database'.applied + 1 .. server'.next_sequence :
           n \in database.applied + 1 .. server.next_sequence
    BY <1>1, <1>2
  <1>4. DirtyAgrees(server', database', m)
    BY <1>2, <1>3 DEF Pending, DirtyAgrees
  <1>5. \A x : Quiet(server, database, m, x) => Quiet(server', database', m, x)
    BY <1>3 DEF Quiet
  <1>6. \A x, q : Fresh(server', x, q) = Fresh(server, x, q)
    BY <1>2 DEF Fresh
  <1>7. JobsCurrent(server', truth, database', m)
    BY <1>2, <1>5, <1>6 DEF Pending, JobsCurrent
  <1>8. ResultsOf(server', reactor') = ResultsOf(server, reactor)
    BY <1>2 DEF ResultsOf
  <1>9. ResultsCurrent(server', truth, ResultsOf(server, reactor))
    BY <1>6 DEF CurrentInv, Current, ResultsCurrent
  <1>10. /\ CacheCurrent(server', truth, parted) /\ ~server'.stale
         /\ DeliveryCurrent(server', truth, parted, ResultsOf(server, reactor))
    BY <1>2 DEF CurrentInv, Current, CacheCurrent, DeliveryCurrent, Cached
  <1>11. Current(server', truth, parted, database', writer', ResultsOf(server, reactor))
    BY <1>4, <1>7, <1>9, <1>10 DEF Current
  <1>12. QED
    BY <1>8, <1>11 DEF CurrentInv

\* The writer takes the first write of the queue, or leaves its job.
LEMMA WriterTakesCurrent ==
    ASSUME HeldInv, CurrentInv, WriterTakes
    PROVE  CurrentInv'
  <1> DEFINE q == server.writes
             p == Tail(q)
             job == Head(q)
  <1>1. server \in Servers /\ NumbersAgree(server, database, writer)
    BY DEF HeldInv, Held
  <1>2. q \in Seq(Mutations) /\ server.next_sequence \in Nat
    BY <1>1 DEF Servers
  <1>3. /\ q # <<>> /\ writer' = [stage |-> "trying", job |-> job]
        /\ server' = [server EXCEPT !.writes = p]
        /\ UNCHANGED <<reactor, database, truth, parted>>
    BY DEF WriterTakes
  <1>4. PICK h, m : Pending(server, truth, database, writer, h, m)
    BY DEF CurrentInv, Current, Pending
  <1>5. \A i \in 1..Len(q) : m[Taken(server) + i] = q[i]
    BY <1>4 DEF Pending, History
  <1> HIDE DEF q
  <1>6. /\ Len(q) \in Nat /\ Len(q) >= 1 /\ 1 \in 1..Len(q) /\ job = q[1]
    BY <1>2, <1>3, NotEmpty
  <1>7. /\ p \in Seq(Mutations) /\ Len(p) = Len(q) - 1
        /\ \A i \in 1..Len(p) : i + 1 \in 1..Len(q) /\ p[i] = q[i + 1]
    BY <1>2, <1>3, <1>6, HeadTailProperties
  <1> HIDE DEF p, job
  <1>8. /\ WriterOnly(server, server') /\ server'.writes = p
        /\ server'.negative = server.negative /\ server'.stale = server.stale
    BY <1>1, <1>3, <1>7 DEF WriterOnly, Servers, SameWaiters
  <1>9. server'.next_sequence = server.next_sequence
    BY <1>8 DEF WriterOnly
  <1>10. Taken(server') = Taken(server) + 1 /\ Taken(server) \in Nat
    <2>1. Taken(server) \in Nat /\ Taken(server) = server.next_sequence - Len(q)
      BY <1>1 DEF NumbersAgree, Taken, q
    <2>2. Taken(server') = server.next_sequence - Len(p)
      BY <1>8, <1>9 DEF Taken
    <2>3. QED
      BY <1>2, <1>6, <1>7, <2>1, <2>2
  <1>11. ASSUME NEW i \in 1..Len(p) PROVE m[Taken(server') + i] = p[i]
    <2>1. m[Taken(server) + (i + 1)] = p[i]
      BY <1>5, <1>7
    <2>2. Taken(server') + i = Taken(server) + (i + 1)
      BY <1>10
    <2>3. QED
      BY <2>1, <2>2
  <1>12. writer'.stage = "trying" /\ writer'.job = job
    BY <1>3
  <1>13. m[Taken(server')] = job
    BY <1>5, <1>6, <1>10
  <1>14. History(server', truth, database, writer', h, m)
    BY <1>4, <1>8, <1>9, <1>11, <1>12, <1>13 DEF Pending, History
  <1>15. database.applied \in Nat /\ database.applied >= database.applied
    BY <1>1, NumberFacts
  <1>16. QED
    BY <1>3, <1>4, <1>8, <1>14, <1>15, WriterCurrent

\* The rows go on with the write that comes next in the history.
LEMMA WriterCommitsCurrent ==
    ASSUME HeldInv, CurrentInv, NEW answered \in BOOLEAN, WriterCommits(answered)
    PROVE  CurrentInv'
  <1> DEFINE job == writer.job
             n == job.sequence
             value == Effect(job.op, n, database.rows[job.key])
             rows == [database.rows EXCEPT ![job.key] = value]
  <1>1. server \in Servers /\ NumbersAgree(server, database, writer)
    BY DEF HeldInv, Held
  <1>2. /\ writer.stage = "trying" /\ database.applied < n
        /\ database' = [database EXCEPT !.rows[job.key] = Effect(job.op, n, @),
                                        !.applied = n]
        /\ writer' = [writer EXCEPT !.stage = IF answered THEN "applied" ELSE "trying"]
        /\ UNCHANGED <<server, reactor, truth, parted>>
    BY DEF WriterCommits
  <1>3. /\ database \in [rows : [Keys -> Values], applied : Nat]
        /\ writer \in [stage : {"idle", "trying", "applied", "published"},
                       job : {<<>>} \cup Mutations]
        /\ job \in Mutations
    BY <1>1, <1>2 DEF NumbersAgree
  <1>4. job.key \in Keys
    BY <1>3 DEF Mutations
  <1>5. /\ n \in Nat /\ n = Taken(server) /\ database.applied = n - 1
        /\ n <= server.next_sequence /\ n \in database.applied + 1 .. server.next_sequence
    BY <1>1, <1>2, NumberFacts
  <1>6. database'.rows = rows /\ database'.applied = n
    BY <1>2, <1>3
  <1>7. writer'.job = job
    BY <1>2, <1>3
  <1>8. \A k \in Keys : rows[k] = IF k = job.key THEN value ELSE database.rows[k]
    BY <1>3, <1>4
  <1> HIDE DEF rows
  <1>9. PICK h, m : Pending(server, truth, database, writer, h, m)
    BY DEF CurrentInv, Current, Pending
  <1>10. History(server, truth, database, writer, h, m) /\ m[n] = job
    BY <1>2, <1>5, <1>9 DEF Pending, History
  <1>11. ASSUME NEW k \in Keys PROVE h[n][k] = rows[k]
    <2>1. h[n - 1][k] = database.rows[k]
      BY <1>5, <1>10 DEF History
    <2>2. h[n][k] = IF m[n].key = k THEN Effect(m[n].op, n, h[n - 1][k])
                                    ELSE h[n - 1][k]
      BY <1>5, <1>10 DEF History
    <2>3. CASE k = job.key
      BY <1>8, <1>10, <2>1, <2>2, <2>3
    <2>4. CASE k # job.key
      BY <1>8, <1>10, <2>1, <2>2, <2>4
    <2>5. QED
      BY <2>3, <2>4
  <1> HIDE DEF n, job, value
  <1>12. /\ \A i \in n + 1 .. server.next_sequence :
               i \in database.applied + 1 .. server.next_sequence
         /\ \A i \in n .. server.next_sequence :
               i \in database.applied .. server.next_sequence
    <2>1. server.next_sequence \in Nat /\ database.applied \in Nat
      BY <1>1, NumberFacts
    <2>2. QED
      BY <1>5, <2>1
  <1>13. History(server', truth, database', writer', h, m)
    <2>1. \A i \in 1..Len(server.writes) : m[Taken(server) + i] = server.writes[i]
      BY <1>10 DEF History
    <2>2. m[Taken(server)] = writer'.job
      BY <1>5, <1>7, <1>10
    <2>3. \A i \in n + 1 .. server.next_sequence, k \in Keys :
             h[i][k] = IF m[i].key = k THEN Effect(m[i].op, i, h[i - 1][k])
                                       ELSE h[i - 1][k]
      BY <1>10, <1>12 DEF History
    <2>4. \A i \in n .. server.next_sequence, k \in Keys :
             (\A j \in i + 1 .. server.next_sequence : m[j].key # k)
                => h[i][k] = truth[k]
      BY <1>10, <1>12 DEF History
    <2>5. server' = server
      BY <1>2
    <2>6. QED
      BY <1>6, <1>11, <2>1, <2>2, <2>3, <2>4, <2>5 DEF History
  <1>14. WriterOnly(server, server')
    BY <1>1, <1>2, SameWriterOnly
  <1>15. database'.applied >= database.applied /\ database'.applied \in Nat
    BY <1>5, <1>6
  <1>16. QED
    BY <1>2, <1>9, <1>13, <1>14, <1>15, WriterCurrent

\* WriterFindsApplied, WriterPublishes and WriterNotifies: the write is made.
LEMMA WriterEndsCurrent ==
    ASSUME HeldInv, CurrentInv,
           WriterFindsApplied \/ WriterPublishes \/ WriterNotifies
    PROVE  CurrentInv'
  <1>1. server \in Servers /\ NumbersAgree(server, database, writer)
    BY DEF HeldInv, Held
  <1>2. database.applied \in Nat /\ database.applied >= database.applied
    BY <1>1, NumberFacts
  <1>3. writer \in [stage : {"idle", "trying", "applied", "published"},
                    job : {<<>>} \cup Mutations]
    BY <1>1 DEF NumbersAgree
  <1>4. UNCHANGED <<reactor, database, truth, parted>> /\ writer'.stage # "trying"
    BY <1>3 DEF WriterFindsApplied, WriterPublishes, WriterNotifies
  <1>5. /\ server'.writes = server.writes
        /\ server'.negative = server.negative /\ server'.stale = server.stale
        /\ WriterOnly(server, server')
    <2>1. CASE server' = server
      BY <1>1, <2>1, SameWriterOnly
    <2>2. CASE WriterPublishes
      <3> DEFINE n == writer.job.sequence
                 left == server.pending_writes - 1
      <3>1. n \in Nat /\ left \in Nat
        <4>1. /\ writer.job \in Mutations /\ n = Taken(server)
              /\ server.applied = Taken(server) - 1
              /\ server.pending_writes = server.next_sequence - server.applied
          BY <1>1, <2>2 DEF NumbersAgree, WriterPublishes
        <4>2. /\ Taken(server) \in Nat /\ Taken(server) + Len(server.writes) = server.next_sequence
              /\ Len(server.writes) \in Nat /\ server.pending_writes \in Nat
          BY <1>1, NumberFacts DEF Servers
        <4>3. QED
          BY <4>1, <4>2
      <3>2. server' = [server EXCEPT !.applied = n, !.pending_writes = left]
        BY <2>2 DEF WriterPublishes
      <3> HIDE DEF n, left
      <3>3. QED
        BY <1>1, <3>1, <3>2 DEF WriterOnly, Servers, SameWaiters
    <2>3. QED
      BY <2>1, <2>2 DEF WriterFindsApplied, WriterNotifies
  <1>6. PICK h, m : Pending(server, truth, database, writer, h, m)
    BY DEF CurrentInv, Current, Pending
  <1>7. Taken(server') = Taken(server) /\ server'.next_sequence = server.next_sequence
    BY <1>5 DEF Taken, WriterOnly
  <1>8. History(server', truth, database, writer', h, m)
    BY <1>4, <1>5, <1>6, <1>7 DEF Pending, History
  <1>9. QED
    BY <1>2, <1>4, <1>5, <1>6, <1>8, WriterCurrent

-----------------------------------------------------------------------------
(* The theorems *)

LEMMA CurrentInit ==
    ASSUME Init
    PROVE  CurrentInv
  <1> DEFINE h == [i \in Nat |-> truth]
             m == [i \in Nat |-> NoJob]
             results == ResultsOf(server, reactor)
  <1>1. /\ server.cache = [k \in Keys |-> Absent] /\ server.negative = {}
        /\ server.job = [k \in Keys |-> NoJob] /\ server.completed = <<>>
        /\ server.writes = <<>> /\ server.next_sequence = 0 /\ server.stale = FALSE
        /\ reactor.hand = <<>> /\ writer.stage = "idle"
        /\ database.rows = truth /\ database.applied = 0 /\ parted = {}
    BY DEF Init
  <1>2. results = <<>>
    BY <1>1 DEF ResultsOf
  <1>3. \A k \in Keys : ~Fresh(server, k, server.job[k].waiters)
    BY <1>1 DEF Fresh, NoJob
  <1>4. History(server, truth, database, writer, h, m)
    <2>1. \A n \in 0 .. 0 : n = 0
      OBVIOUS
    <2>2. \A n \in 0 + 1 .. 0 : FALSE
      OBVIOUS
    <2>3. \A i \in 1..Len(server.writes) : FALSE
      BY <1>1
    <2>4. h[0] = truth
      OBVIOUS
    <2> HIDE DEF h, m
    <2>5. QED
      BY <1>1, <2>1, <2>2, <2>3, <2>4 DEF History
  <1>5. DirtyAgrees(server, database, m)
    <2>1. \A n \in database.applied + 1 .. server.next_sequence : FALSE
      BY <1>1
    <2>2. QED
      BY <2>1 DEF DirtyAgrees
  <1>6. JobsCurrent(server, truth, database, m)
    BY <1>3 DEF JobsCurrent
  <1>7. /\ ResultsCurrent(server, truth, results)
        /\ DeliveryCurrent(server, truth, parted, results)
    BY <1>2 DEF ResultsCurrent, DeliveryCurrent
  <1>8. CacheCurrent(server, truth, parted) /\ ~server.stale
    BY <1>1 DEF CacheCurrent, Cached
  <1> HIDE DEF h, m
  <1>9. QED
    BY <1>4, <1>5, <1>6, <1>7, <1>8 DEF CurrentInv, Current

LEMMA CurrentNext ==
    ASSUME HeldInv, CurrentInv, [Next]_vars
    PROVE  CurrentInv'
  <1>1. CASE UNCHANGED vars
    BY <1>1 DEF vars, CurrentInv, ResultsOf
  <1>2. CASE \E c \in Clients, request \in Requests : Dispatch(c, request)
    BY <1>2, DispatchCurrent
  <1>3. CASE ReactorStep
    BY <1>3, MovesCurrent, DrainWaiterCurrent, TakeResultsCurrent, JudgeCurrent,
       RetryCurrent, DeliverCurrent DEF ReactorStep
  <1>4. CASE ReaderSteps
    BY <1>4, MovesCurrent, ReaderTakesCurrent, ReadsCurrent, SnapWaitersCurrent,
       ReaderFinishesCurrent DEF ReaderSteps
  <1>5. CASE WriterStep
    BY <1>5, WriterTakesCurrent, WriterCommitsCurrent, WriterEndsCurrent
       DEF WriterStep
  <1>6. CASE WriterCommits(FALSE)
    BY <1>6, WriterCommitsCurrent
  <1>7. CASE Maintain
    BY <1>7, MaintainCurrent
  <1>8. CASE \E k \in Keys : NegativeExpires(k) \/ LoadFails(k)
    BY <1>8, NegativeExpiresCurrent, ReadsCurrent
  <1>9. QED
    BY <1>1, <1>2, <1>3, <1>4, <1>5, <1>6, <1>7, <1>8 DEF Next

LEMMA CurrentIsFound ==
    ASSUME HeldInv, CurrentInv
    PROVE  LatestIsFound
  <1>1. server \in Servers /\ NumbersAgree(server, database, writer)
    BY DEF HeldInv, Held
  <1>2. PICK h, m : Pending(server, truth, database, writer, h, m)
    BY DEF CurrentInv, Current, Pending
  <1>3. ASSUME NEW k \in Keys, dirty_key_sequence(server, k) = 0
        PROVE  database.rows[k] = truth[k]
    <2>1. Quiet(server, database, m, k)
      BY <1>1, <1>2, <1>3, MayLoadQuiet DEF MayLoad
    <2>2. QED
      BY <1>1, <1>2, <2>1, QuietRow DEF Pending
  <1>4. \A k \in Keys : Cached(server, k) =>
           k \in parted \/ server.cache[k] = truth[k]
    BY DEF CurrentInv, Current, CacheCurrent
  <1>5. QED
    BY <1>3, <1>4 DEF LatestIsFound

\* The values are current in every reachable state, but in the cache for a key
\* that was evicted while drain_mysql_completions handed out its load.
THEOREM CurrentInvariant == Spec => []CurrentInv
  <1>1. Init => CurrentInv
    BY CurrentInit
  <1>2. HeldInv /\ CurrentInv /\ [Next]_vars => CurrentInv'
    BY CurrentNext
  <1>3. QED
    BY <1>1, <1>2, HeldInvariant, PTL DEF Spec

\* Every accepted write is found by the next reader: in the cache, or else in
\* MySQL unless the key is marked as dirty, for any number of clients, keys,
\* readers and pending writes, and whatever is sent behind a request.  The
\* generations of pending_load_is_stale keep a load that a write has overtaken
\* out of the cache, and dirty_key_sequence keeps a load from starting before
\* the writer is done.  Only the cached value of a parted key may be another.
THEOREM WritesAreFound == Spec => []LatestIsFound
  <1>1. HeldInv /\ CurrentInv => LatestIsFound
    BY CurrentIsFound
  <1>2. QED
    BY <1>1, HeldInvariant, CurrentInvariant, PTL

\* No GET, DEL or HSET is executed by dispatch_request, drain_dirty_waiters or
\* drain_mysql_completions on anything but the last value of its key, unless the
\* key is parted.
THEOREM AnswersAreCurrent == Spec => []NoStaleAnswer
  <1>1. CurrentInv => NoStaleAnswer
    BY DEF CurrentInv, Current, NoStaleAnswer
  <1>2. QED
    BY <1>1, CurrentInvariant, PTL

=============================================================================
