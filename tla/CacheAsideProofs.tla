-------------------------- MODULE CacheAsideProofs --------------------------
(***************************************************************************)
(* Every request that waits is in one place, and whoever waits will be     *)
(* looked at again: HeldInv of CacheAsideInvariant is inductive.  First    *)
(* what the helpers do to sequences and to the server record, then a       *)
(* lemma per operation on the server, then one per action.                 *)
(***************************************************************************)
EXTENDS CacheAsideInvariant, TLAPS, SequenceTheorems, FiniteSetTheorems

-----------------------------------------------------------------------------
(* Lists *)

LEMMA RemoveAtSeq ==
    ASSUME NEW S, NEW q \in Seq(S), NEW i \in 1..Len(q)
    PROVE  /\ RemoveAt(q, i) \in Seq(S)
           /\ Len(RemoveAt(q, i)) = Len(q) - 1
           /\ \A j \in 1..Len(q) - 1 :
                 RemoveAt(q, i)[j] = IF j < i THEN q[j] ELSE q[j + 1]
  <1> DEFINE a == SubSeq(q, 1, i - 1)
             b == SubSeq(q, i + 1, Len(q))
  <1>1. a \in Seq(S) /\ Len(a) = i - 1 /\ \A j \in 1..i - 1 : a[j] = q[j]
    OBVIOUS
  <1>2. /\ b \in Seq(S) /\ Len(b) = Len(q) - i
        /\ \A j \in 1..Len(q) - i : b[j] = q[i + j]
    OBVIOUS
  <1>3. RemoveAt(q, i) = a \o b
    BY DEF RemoveAt
  <1> HIDE DEF a, b
  <1> DEFINE c == a \o b
  <1>3a. /\ c \in Seq(S) /\ Len(c) = Len(a) + Len(b)
         /\ \A j \in 1..Len(a) + Len(b) :
               c[j] = IF j <= Len(a) THEN a[j] ELSE b[j - Len(a)]
    BY <1>1, <1>2, ConcatProperties
  <1> HIDE DEF c
  <1>4. /\ c \in Seq(S) /\ Len(c) = Len(q) - 1
        /\ \A j \in 1..Len(q) - 1 : c[j] = IF j < i THEN a[j] ELSE b[j - i + 1]
    BY <1>1, <1>2, <1>3a, SMTT(30)
  <1>5. ASSUME NEW j \in 1..Len(q) - 1, j >= i PROVE b[j - i + 1] = q[j + 1]
    <2> DEFINE n == j - i + 1
    <2>1. n \in 1..Len(q) - i /\ i + n = j + 1
      BY <1>5
    <2> HIDE DEF n
    <2>2. b[n] = q[j + 1]
      BY <1>2, <2>1
    <2>3. QED
      BY <2>2 DEF n
  <1>6. \A j \in 1..Len(q) - 1 : c[j] = IF j < i THEN q[j] ELSE q[j + 1]
    BY <1>1, <1>4, <1>5
  <1>7. QED
    BY <1>3, <1>4, <1>6 DEF c

\* One is taken out of a list that has everyone once.
LEMMA RemoveAtUnique ==
    ASSUME NEW S, NEW q \in Seq(S), Unique(q), NEW i \in 1..Len(q)
    PROVE  /\ Unique(RemoveAt(q, i))
           /\ \A x : In(RemoveAt(q, i), x) <=> In(q, x) /\ x # q[i]
  <1> DEFINE r == RemoveAt(q, i)
  <1>1. /\ r \in Seq(S) /\ Len(r) = Len(q) - 1
        /\ \A j \in 1..Len(q) - 1 : r[j] = IF j < i THEN q[j] ELSE q[j + 1]
    BY RemoveAtSeq
  <1> HIDE DEF r
  <1>2. Unique(r)
    BY <1>1 DEF Unique
  <1>3. ASSUME NEW x PROVE In(r, x) <=> In(q, x) /\ x # q[i]
    <2>1. ASSUME In(r, x) PROVE In(q, x) /\ x # q[i]
      <3>1. PICK j \in 1..Len(q) - 1 : r[j] = x
        BY <1>1, <2>1 DEF In
      <3>2. QED
        BY <1>1, <3>1 DEF In, Unique
    <2>2. ASSUME In(q, x), x # q[i] PROVE In(r, x)
      <3>1. PICK j \in 1..Len(q) : q[j] = x
        BY <2>2 DEF In
      <3>2. CASE j < i
        BY <1>1, <3>1, <3>2 DEF In
      <3>3. CASE j > i
        <4>1. j - 1 \in 1..Len(q) - 1 /\ r[j - 1] = x
          BY <1>1, <3>1, <3>3
        <4>2. QED
          BY <1>1, <4>1 DEF In
      <3>4. QED
        BY <2>2, <3>1, <3>2, <3>3
    <2>3. QED
      BY <2>1, <2>2
  <1>4. QED
    BY <1>2, <1>3 DEF r

\* An entry is unlinked from a list that has it once.
LEMMA RemoveFirstSeq ==
    ASSUME NEW S, NEW q \in Seq(S), NEW e, Unique(q)
    PROVE  /\ RemoveFirst(q, e) \in Seq(S)
           /\ Unique(RemoveFirst(q, e))
           /\ Len(RemoveFirst(q, e)) <= Len(q)
           /\ In(q, e) => Len(RemoveFirst(q, e)) = Len(q) - 1
           /\ \A x : In(RemoveFirst(q, e), x) <=> In(q, x) /\ x # e
  <1>1. CASE ~In(q, e)
    <2>1. RemoveFirst(q, e) = q
      BY <1>1 DEF RemoveFirst, In
    <2>2. QED
      BY <1>1, <2>1 DEF In
  <1>2. CASE In(q, e)
    <2> DEFINE I == {i \in 1..Len(q) : q[i] = e}
    <2>1. PICK i \in 1..Len(q) : q[i] = e
      BY <1>2 DEF In
    <2>2. I = {i}
      BY <2>1 DEF Unique
    <2>3. Min(I) = i
      BY <2>1, <2>2 DEF Min
    <2>4. RemoveFirst(q, e) = RemoveAt(q, i)
      BY <2>1, <2>2, <2>3 DEF RemoveFirst, SelectInSeq
    <2>5. /\ RemoveAt(q, i) \in Seq(S) /\ Len(RemoveAt(q, i)) = Len(q) - 1
      BY RemoveAtSeq
    <2>6. /\ Unique(RemoveAt(q, i))
          /\ \A x : In(RemoveAt(q, i), x) <=> In(q, x) /\ x # q[i]
      BY RemoveAtUnique
    <2>7. QED
      BY <1>2, <2>1, <2>4, <2>5, <2>6
  <1>3. QED
    BY <1>1, <1>2

LEMMA DisjointIn ==
    ASSUME NEW q, NEW r
    PROVE  Disjoint(q, r) <=> \A x : ~(In(q, x) /\ In(r, x))
  BY DEF Disjoint, In

-----------------------------------------------------------------------------
(* The cache *)

LEMMA Constants ==
    /\ IsFiniteSet(Clients) /\ IsFiniteSet(Keys) /\ NoClient \notin Clients
    /\ MaxKeys \in Nat \ {0} /\ Readers \in Nat \ {0}
    /\ ReadLimit \in Nat \ {0} /\ WriteLimit \in Nat \ {0}
    /\ MaxWrites \in Nat \ {0}
    /\ NoRequest \notin Requests
    /\ \A r \in Requests : /\ r.key \in Keys
                           /\ r.op \in {"GET", "SET", "DEL", "HSET"}
    /\ Absent \in Values
  <1>1. \A n \in {MaxKeys, Readers, ReadLimit, WriteLimit, MaxWrites} :
    n \in Nat \ {0}
    BY CacheAsideAssumption
  <1>2. \A r \in Requests : /\ r.key \in Keys
                     /\ r.op \in {"GET", "SET", "DEL", "HSET"}
    BY DEF Requests, Keys
  <1>3. NoRequest.op = "none"
    BY DEF NoRequest
  <1>4. NoRequest \notin Requests
    BY <1>2, <1>3
  <1>5. QED
    BY <1>1, <1>2, <1>4, CacheAsideAssumption DEF Keys, Values

OnlyCache(s, t) == t = [s EXCEPT !.lru = t.lru, !.cache = t.cache]

\* What a command does to the cache: the value of its key is the one given,
\* other keys keep theirs or are evicted, and nobody is evicted by a command
\* that drops its key or finds it in the cache.
CacheChanges(s, t, k, value) ==
    /\ t.lru \in Seq(Keys) /\ t.cache \in [Keys -> Values]
    /\ LruAgrees(t)
    /\ t.cache[k] = value
    /\ \A x \in Keys \ {k} : t.cache[x] \in {s.cache[x], Absent}
    /\ Cached(s, k) \/ value = Absent
          => \A x \in Keys \ {k} : t.cache[x] = s.cache[x]

\* The key that was used comes first, and what is evicted is another key.
LEMMA StoreObjectFacts ==
    ASSUME NEW s \in Servers, LruAgrees(s),
           NEW k \in Keys, NEW value \in Values, value # Absent,
           NEW t, t = StoreObject(s, k, value)
    PROVE  OnlyCache(s, t) /\ CacheChanges(s, t, k, value)
  <1> DEFINE rest == RemoveFirst(s.lru, k)
             order == <<k>> \o rest
             victims == {order[i] : i \in MaxKeys + 1 .. Len(order)}
             n == IF Len(order) < MaxKeys THEN Len(order) ELSE MaxKeys
             lru == SubSeq(order, 1, n)
             cache == [x \in Keys |-> IF x \in victims THEN Absent
                                      ELSE IF x = k THEN value ELSE s.cache[x]]
  <1>1. MaxKeys \in Nat \ {0}
    BY Constants
  <1>2. s.lru \in Seq(Keys) /\ s.cache \in [Keys -> Values] /\ Absent \in Values
    BY Constants DEF Servers
  <1>3. t = [s EXCEPT !.lru = lru, !.cache = cache]
    BY DEF StoreObject
  <1>4. t.lru = lru /\ t.cache = cache
    BY <1>3 DEF Servers
  <1>5. /\ Unique(s.lru) /\ Len(s.lru) <= MaxKeys
        /\ \A x \in Keys : In(s.lru, x) <=> s.cache[x] # Absent
    BY DEF LruAgrees, Cached
  <1>6. /\ rest \in Seq(Keys) /\ Unique(rest) /\ Len(rest) <= Len(s.lru)
        /\ In(s.lru, k) => Len(rest) = Len(s.lru) - 1
        /\ \A x : In(rest, x) <=> In(s.lru, x) /\ x # k
    BY <1>2, <1>5, RemoveFirstSeq
  <1> HIDE DEF rest
  <1>7. /\ order \in Seq(Keys) /\ Len(order) = Len(rest) + 1
        /\ order[1] = k /\ \A i \in 1..Len(rest) : order[i + 1] = rest[i]
    BY <1>6
  <1> HIDE DEF order
  <1>8. \A i \in 2..Len(order) : i - 1 \in 1..Len(rest) /\ order[i] = rest[i - 1]
    BY <1>6, <1>7
  <1>9. Unique(order)
    <2>1. ASSUME NEW i \in 2..Len(order) PROVE order[i] # k
      BY <1>6, <1>8 DEF In
    <2>2. ASSUME NEW i \in 2..Len(order), NEW j \in 2..Len(order),
                 order[i] = order[j]
          PROVE  i = j
      <3>1. i - 1 = j - 1
        BY <1>6, <1>8, <2>2 DEF Unique
      <3>2. QED
        BY <3>1, <1>6, <1>7
    <2>3. \A i \in 1..Len(order) : i = 1 \/ i \in 2..Len(order)
      BY <1>6, <1>7
    <2>4. QED
      BY <1>7, <2>1, <2>2, <2>3 DEF Unique
  <1>10. \A x : In(order, x) <=> x = k \/ In(s.lru, x)
    <2>1. ASSUME NEW x, In(order, x) PROVE x = k \/ In(s.lru, x)
      <3>1. PICK i \in 1..Len(order) : order[i] = x
        BY <2>1 DEF In
      <3>2. CASE i = 1
        BY <1>7, <3>1, <3>2
      <3>3. CASE i \in 2..Len(order)
        BY <1>6, <1>8, <3>1, <3>3 DEF In
      <3>4. QED
        BY <1>7, <1>6, <3>1, <3>2, <3>3
    <2>2. In(order, k)
      BY <1>6, <1>7 DEF In
    <2>3. ASSUME NEW x, In(s.lru, x), x # k PROVE In(order, x)
      <3>1. PICK i \in 1..Len(rest) : rest[i] = x
        BY <1>6, <2>3 DEF In
      <3>2. i + 1 \in 1..Len(order) /\ order[i + 1] = x
        BY <1>6, <1>7, <3>1
      <3>3. QED
        BY <3>2 DEF In
    <2>4. QED
      BY <2>1, <2>2, <2>3
  <1>11. /\ n \in Nat /\ n <= Len(order) /\ n <= MaxKeys /\ n >= 1
         /\ n < Len(order) => n = MaxKeys
    BY <1>1, <1>6, <1>7
  <1>12. /\ lru \in Seq(Keys) /\ Len(lru) = n
         /\ \A i \in 1..n : lru[i] = order[i]
    BY <1>7, <1>11
  <1> HIDE DEF lru
  <1>13. Unique(lru)
    BY <1>7, <1>9, <1>11, <1>12 DEF Unique
  <1>14. k \notin victims
    BY <1>1, <1>7, <1>9 DEF Unique
  <1>15. \A x : In(lru, x) <=> In(order, x) /\ x \notin victims
    <2>1. ASSUME NEW x, In(lru, x) PROVE In(order, x) /\ x \notin victims
      <3>1. PICK i \in 1..n : order[i] = x
        BY <1>12, <2>1 DEF In
      <3>2. In(order, x)
        BY <1>7, <1>11, <3>1 DEF In
      <3>3. ASSUME NEW j \in MaxKeys + 1 .. Len(order), order[j] = x PROVE FALSE
        <4>1. j \in 1..Len(order) /\ i \in 1..Len(order) /\ i # j
          BY <1>1, <1>7, <1>11, <3>1, <3>3
        <4>2. QED
          BY <1>9, <3>1, <3>3, <4>1 DEF Unique
      <3>4. QED
        BY <3>2, <3>3
    <2>2. ASSUME NEW x, In(order, x), x \notin victims PROVE In(lru, x)
      <3>1. PICK i \in 1..Len(order) : order[i] = x
        BY <2>2 DEF In
      <3>2. i <= MaxKeys
        BY <1>1, <1>7, <2>2, <3>1
      <3>3. i \in 1..n
        BY <1>1, <1>7, <1>11, <3>1, <3>2
      <3>4. QED
        BY <1>12, <3>1, <3>3 DEF In
    <2>3. QED
      BY <2>1, <2>2
  <1>16. Cached(s, k) => victims = {}
    BY <1>1, <1>5, <1>6, <1>7 DEF Cached
  <1> HIDE DEF victims, n
  <1>17. cache \in [Keys -> Values] /\ cache[k] = value
    BY <1>2, <1>14
  <1>18. LruAgrees(t)
    <2>1. \A x \in Keys : In(lru, x) <=> cache[x] # Absent
      BY <1>5, <1>10, <1>14, <1>15
    <2>2. QED
      BY <1>4, <1>11, <1>12, <1>13, <2>1 DEF LruAgrees, Cached
  <1>19. \A x \in Keys \ {k} : cache[x] \in {s.cache[x], Absent}
    OBVIOUS
  <1>20. Cached(s, k) => \A x \in Keys \ {k} : cache[x] = s.cache[x]
    BY <1>16
  <1> HIDE DEF cache
  <1>21. QED
    BY <1>3, <1>4, <1>12, <1>17, <1>18, <1>19, <1>20
    DEF OnlyCache, CacheChanges

LEMMA DropObjectFacts ==
    ASSUME NEW s \in Servers, LruAgrees(s),
           NEW k \in Keys, NEW t, t = DropObject(s, k)
    PROVE  OnlyCache(s, t) /\ CacheChanges(s, t, k, Absent)
  <1> DEFINE lru == RemoveFirst(s.lru, k)
             cache == [s.cache EXCEPT ![k] = Absent]
  <1>1. MaxKeys \in Nat \ {0}
    BY Constants
  <1>2. s.lru \in Seq(Keys) /\ s.cache \in [Keys -> Values] /\ Absent \in Values
    BY Constants DEF Servers
  <1>3. t = [s EXCEPT !.lru = lru, !.cache = cache]
    BY DEF DropObject, Servers
  <1>4. t.lru = lru /\ t.cache = cache
    BY <1>3 DEF Servers
  <1>5. /\ Unique(s.lru) /\ Len(s.lru) <= MaxKeys
        /\ \A x \in Keys : In(s.lru, x) <=> s.cache[x] # Absent
    BY DEF LruAgrees, Cached
  <1>6. /\ lru \in Seq(Keys) /\ Unique(lru) /\ Len(lru) <= Len(s.lru)
        /\ \A x : In(lru, x) <=> In(s.lru, x) /\ x # k
    BY <1>2, <1>5, RemoveFirstSeq
  <1> HIDE DEF lru
  <1>7. /\ cache \in [Keys -> Values] /\ cache[k] = Absent
        /\ \A x \in Keys \ {k} : cache[x] = s.cache[x]
    BY <1>2
  <1>8. LruAgrees(t)
    <2>1. \A x \in Keys : In(lru, x) <=> cache[x] # Absent
      BY <1>5, <1>6, <1>7
    <2>2. Len(lru) <= MaxKeys
      BY <1>1, <1>2, <1>5, <1>6
    <2>3. QED
      BY <1>4, <1>6, <2>1, <2>2 DEF LruAgrees, Cached
  <1> HIDE DEF cache
  <1>9. QED
    BY <1>3, <1>4, <1>6, <1>7, <1>8 DEF OnlyCache, CacheChanges

LEMMA EffectFacts ==
    ASSUME NEW op \in {"SET", "HSET", "DEL"},
           NEW n \in 0 .. MaxWrites, NEW value \in Values
    PROVE  /\ Effect(op, n, value) \in Values
           /\ Effect(op, n, value) = Absent <=> op = "DEL"
  <1>1. CASE op = "SET"
    <2>1. Effect(op, n, value) = {n}
      BY <1>1 DEF Effect
    <2>2. QED
      BY <1>1, <2>1, CacheAsideAssumption DEF Values
  <1>2. CASE op = "HSET"
    <2>1. Effect(op, n, value) = {n} \cup (IF value = Absent THEN {} ELSE value)
      BY <1>2 DEF Effect
    <2>2. {n} \cup (IF value = Absent THEN {} ELSE value) \in SUBSET (0 .. MaxWrites)
      BY DEF Values
    <2>3. QED
      BY <1>2, <2>1, <2>2, CacheAsideAssumption DEF Values
  <1>3. CASE op = "DEL"
    <2>1. Effect(op, n, value) = Absent
      BY <1>3 DEF Effect
    <2>2. QED
      BY <1>3, <2>1 DEF Values
  <1>4. QED
    BY <1>1, <1>2, <1>3

\* A write is counted, queued for MySQL and marked.
WriteTaken(s, t, k, mutation) ==
    /\ t.writes = Append(s.writes, mutation)
    /\ t.pending_writes = s.pending_writes + 1
    /\ t.next_sequence = mutation.sequence
    /\ t.dirty = [s.dirty EXCEPT ![k] = mutation.sequence]
    /\ t.load = IF s.load[k].waiters = 0 THEN s.load
                ELSE [s.load EXCEPT ![k].generation = @ + 1]

WriteNotTaken(s, t) ==
    /\ t.writes = s.writes
    /\ t.pending_writes = s.pending_writes
    /\ t.next_sequence = s.next_sequence
    /\ t.dirty = s.dirty
    /\ t.load = s.load

\* What no command changes.
SameLists(s, t) ==
    /\ t.ticket = s.ticket
    /\ t.waiting = s.waiting
    /\ t.tail_gone = s.tail_gone
    /\ t.overlooked = s.overlooked
    /\ t.job = s.job
    /\ t.queue = s.queue
    /\ t.completed = s.completed
    /\ t.applied = s.applied

LEMMA GenerationBumped ==
    ASSUME NEW load \in [Keys -> [generation : Nat, waiters : Nat]], NEW k \in Keys
    PROVE  [load EXCEPT ![k].generation = @ + 1]
              \in [Keys -> [generation : Nat, waiters : Nat]]
  OBVIOUS

LEMMA WriteFacts ==
    ASSUME NEW s \in Servers, LruAgrees(s),
           NEW k \in Keys, NEW mutation \in Mutations, mutation.key = k,
           NEW t, t = Write(s, k, mutation)
    PROVE  /\ t \in Servers
           /\ CacheChanges(s, t, k, Effect(mutation.op, mutation.sequence, s.cache[k]))
           /\ WriteTaken(s, t, k, mutation)
           /\ SameLists(s, t)
           /\ t.request = s.request /\ t.negative = s.negative
  <1> DEFINE value == Effect(mutation.op, mutation.sequence, s.cache[k])
             u == IF value = Absent THEN DropObject(s, k)
                                    ELSE StoreObject(s, k, value)
             load == IF s.load[k].waiters = 0 THEN s.load
                     ELSE [s.load EXCEPT ![k].generation = @ + 1]
             dirty == [s.dirty EXCEPT ![k] = mutation.sequence]
             writes == Append(s.writes, mutation)
             pending == s.pending_writes + 1
  <1>1. t = mark_dirty_key(submit_mutation(u, mutation), k, mutation.sequence)
    BY DEF Write
  <1>2. value \in Values
    <2>1. /\ mutation.op \in {"SET", "HSET", "DEL"}
          /\ mutation.sequence \in 0 .. MaxWrites /\ s.cache[k] \in Values
      BY Constants DEF Mutations, Servers
    <2>2. QED
      BY <2>1, EffectFacts
  <1> HIDE DEF value
  <1>3. OnlyCache(s, u) /\ CacheChanges(s, u, k, value)
    <2>1. CASE value = Absent
      BY <2>1, DropObjectFacts
    <2>2. CASE value # Absent
      BY <1>2, <2>2, StoreObjectFacts
    <2>3. QED
      BY <2>1, <2>2
  <1> HIDE DEF u
  <1>4. PICK lru \in Seq(Keys), cache \in [Keys -> Values] :
            u = [s EXCEPT !.lru = lru, !.cache = cache]
    BY <1>3 DEF OnlyCache, CacheChanges
  <1>a. /\ s.load \in [Keys -> [generation : Nat, waiters : Nat]]
        /\ s.dirty \in [Keys -> Nat] /\ s.writes \in Seq(Mutations)
        /\ s.pending_writes \in Nat
    BY DEF Servers
  <1>b. mutation.sequence \in Nat
    BY Constants DEF Mutations
  <1>5. load \in [Keys -> [generation : Nat, waiters : Nat]]
    BY <1>a, GenerationBumped
  <1>6. /\ dirty \in [Keys -> Nat] /\ writes \in Seq(Mutations)
        /\ pending \in Nat
    BY <1>a, <1>b
  <1> DEFINE v == submit_mutation(u, mutation)
             w == bump_inflight_load_generation(v, k)
  <1>c. v = [s EXCEPT !.lru = lru, !.cache = cache, !.writes = writes,
                      !.pending_writes = pending,
                      !.next_sequence = mutation.sequence]
    BY <1>4 DEF submit_mutation, Servers
  <1>d. v.load = s.load /\ v.dirty = s.dirty
    BY <1>c DEF Servers
  <1> HIDE DEF v
  <1>e. w = [v EXCEPT !.load = load]
    <2>1. v = [v EXCEPT !.load = s.load]
      BY <1>c DEF Servers
    <2>2. QED
      BY <2>1, <1>d DEF bump_inflight_load_generation
  <1>f. w.dirty = s.dirty
    BY <1>c, <1>d, <1>e DEF Servers
  <1> HIDE DEF w
  <1>g. t = [w EXCEPT !.dirty = dirty]
    BY <1>1, <1>f DEF mark_dirty_key, v, w
  <1>7. t = [s EXCEPT !.lru = lru, !.cache = cache, !.writes = writes,
                      !.pending_writes = pending,
                      !.next_sequence = mutation.sequence,
                      !.load = load, !.dirty = dirty]
    BY <1>c, <1>e, <1>g DEF Servers
  <1> HIDE DEF load, dirty, writes, pending
  <1>8. t \in Servers
    BY <1>4, <1>5, <1>6, <1>7, <1>b, ZenonT(60) DEF Servers
  <1>9. t.lru = u.lru /\ t.cache = u.cache
    BY <1>4, <1>7 DEF Servers
  <1>10. CacheChanges(s, t, k, value)
    BY <1>3, <1>9 DEF CacheChanges, LruAgrees, Cached
  <1>11. WriteTaken(s, t, k, mutation)
    BY <1>7 DEF Servers, WriteTaken, load, dirty, writes, pending
  <1>12. SameLists(s, t) /\ t.request = s.request /\ t.negative = s.negative
    BY <1>7 DEF Servers, SameLists
  <1>13. QED
    BY <1>8, <1>10, <1>11, <1>12 DEF value

\* The mutation that a request is turned into.
MutationOf(s, request) ==
    [op |-> request.op, key |-> request.key, sequence |-> s.next_sequence + 1]

\* What kvstore_service_execute_with_barrier leaves behind.
Performed(s, t, c, request) ==
    /\ t \in Servers
    /\ t.request = [s.request EXCEPT ![c] = NoRequest]
    /\ t.negative = IF IsWrite(request) THEN s.negative \ {request.key}
                                        ELSE s.negative
    /\ SameLists(s, t)
    /\ Mutates(s, request) =>
          /\ MutationOf(s, request) \in Mutations
          /\ CacheChanges(s, t, request.key,
                Effect(request.op, s.next_sequence + 1, s.cache[request.key]))
          /\ WriteTaken(s, t, request.key, MutationOf(s, request))
    /\ ~Mutates(s, request) =>
          /\ CacheChanges(s, t, request.key, s.cache[request.key])
          /\ WriteNotTaken(s, t)

LEMMA ExecuteFacts ==
    ASSUME NEW s \in Servers, LruAgrees(s), NEW c \in Clients,
           NEW request \in Requests,
           IsWrite(request) => s.next_sequence < MaxWrites,
           NEW t, t = Execute(s, c, request)
    PROVE  /\ Performed(s, t, c, request)
           /\ t.stale => /\ request.op # "SET" /\ request.key \notin parted
                         /\ s.cache[request.key] # truth[request.key]
  <1> DEFINE k == request.key
             negative == IF IsWrite(request) THEN s.negative \ {k} ELSE s.negative
             before == IF IsWrite(request) THEN negative_cache_invalidate(s, k)
                                           ELSE s
             after == IF Mutates(s, request)
                      THEN Write(before, k, MutationOf(s, request))
                      ELSE IF request.op # "SET" /\ Cached(s, k)
                      THEN StoreObject(before, k, s.cache[k])
                      ELSE before
             stale == /\ ~(IsWrite(request) /\ ~can_accept_write(s))
                      /\ request.op # "SET" /\ k \notin parted
                      /\ s.cache[k] # truth[k]
  <1>1. t = [Answered(after, c) EXCEPT !.stale = stale]
    BY DEF Execute, MutationOf
  <1>2. k \in Keys /\ request.op \in {"GET", "SET", "DEL", "HSET"}
    BY Constants
  <1>3. s.negative \in SUBSET Keys /\ s.cache \in [Keys -> Values] /\ s.lru \in Seq(Keys)
    BY DEF Servers
  <1>4. negative \in SUBSET Keys
    BY <1>3
  <1>5. before = [s EXCEPT !.negative = negative]
    BY DEF negative_cache_invalidate, Servers
  <1> HIDE DEF before, negative, stale
  <1>6. /\ before \in Servers
        /\ before.negative = negative /\ before.cache = s.cache
        /\ before.lru = s.lru /\ before.request = s.request
    BY <1>4, <1>5 DEF Servers
  <1>7. SameLists(s, before) /\ WriteNotTaken(s, before)
    BY <1>5 DEF Servers, SameLists, WriteNotTaken
  <1>8. LruAgrees(before)
    BY <1>6 DEF LruAgrees, Cached
  <1>9. \A a, value : CacheChanges(before, a, k, value) =>
                         CacheChanges(s, a, k, value)
    BY <1>6 DEF CacheChanges, Cached
  <1> DEFINE Performs(u) ==
        /\ u \in Servers
        /\ u.request = s.request
        /\ u.negative = negative
        /\ SameLists(s, u)
        /\ Mutates(s, request) =>
              /\ MutationOf(s, request) \in Mutations
              /\ CacheChanges(s, u, k, Effect(request.op, s.next_sequence + 1, s.cache[k]))
              /\ WriteTaken(s, u, k, MutationOf(s, request))
        /\ ~Mutates(s, request) =>
              /\ CacheChanges(s, u, k, s.cache[k])
              /\ WriteNotTaken(s, u)
  <1>10. Performs(after)
    <2>1. CASE Mutates(s, request)
      <3> DEFINE mutation == MutationOf(s, request)
      <3>1. IsWrite(request)
        BY <2>1 DEF Mutates
      <3>2. s.next_sequence + 1 \in 1 .. MaxWrites
        BY <3>1, Constants DEF Servers
      <3>3. /\ mutation \in Mutations /\ mutation.key = k /\ mutation.op = request.op
            /\ mutation.sequence = s.next_sequence + 1
        BY <1>2, <3>1, <3>2 DEF MutationOf, Mutations, IsWrite
      <3>4. after = Write(before, k, mutation)
        BY <2>1
      <3> HIDE DEF mutation, after
      <3>5. /\ after \in Servers
            /\ CacheChanges(before, after, k,
                            Effect(mutation.op, mutation.sequence, before.cache[k]))
            /\ WriteTaken(before, after, k, mutation)
            /\ SameLists(before, after)
            /\ after.request = before.request /\ after.negative = before.negative
        BY <1>2, <1>6, <1>8, <3>3, <3>4, WriteFacts
      <3>6. CacheChanges(s, after, k,
                         Effect(request.op, s.next_sequence + 1, s.cache[k]))
        BY <1>6, <1>9, <3>3, <3>5
      <3>7. SameLists(s, after)
        BY <1>7, <3>5 DEF SameLists
      <3>8. WriteTaken(s, after, k, mutation)
        BY <1>7, <3>5 DEF WriteTaken, WriteNotTaken
      <3>9. QED
        BY <2>1, <1>6, <3>3, <3>5, <3>6, <3>7, <3>8 DEF mutation
    <2>2. CASE ~Mutates(s, request) /\ request.op # "SET" /\ Cached(s, k)
      <3>1. after = StoreObject(before, k, s.cache[k])
        BY <2>2
      <3> HIDE DEF after
      <3>2. s.cache[k] \in Values /\ s.cache[k] # Absent
        BY <1>2, <1>3, <2>2 DEF Cached
      <3>3. OnlyCache(before, after) /\ CacheChanges(before, after, k, s.cache[k])
        BY <1>2, <1>6, <1>8, <3>1, <3>2, StoreObjectFacts
      <3>4. PICK lru \in Seq(Keys), cache \in [Keys -> Values] :
                after = [before EXCEPT !.lru = lru, !.cache = cache]
        BY <3>3 DEF OnlyCache, CacheChanges
      <3>5. /\ after \in Servers /\ after.request = before.request
            /\ after.negative = before.negative
        BY <1>6, <3>4 DEF Servers
      <3>6. SameLists(before, after) /\ WriteNotTaken(before, after)
        BY <1>6, <3>4 DEF Servers, SameLists, WriteNotTaken
      <3>7. SameLists(s, after) /\ WriteNotTaken(s, after)
        BY <1>7, <3>6 DEF SameLists, WriteNotTaken
      <3>8. CacheChanges(s, after, k, s.cache[k])
        BY <1>9, <3>3
      <3>9. QED
        BY <2>2, <1>6, <3>5, <3>7, <3>8
    <2>3. CASE ~Mutates(s, request) /\ ~(request.op # "SET" /\ Cached(s, k))
      <3>1. after = before
        BY <2>3
      <3> HIDE DEF after
      <3>2. CacheChanges(s, after, k, s.cache[k])
        BY <1>2, <1>3, <1>6, <1>8, <3>1 DEF CacheChanges
      <3>3. QED
        BY <2>3, <1>6, <1>7, <3>1, <3>2
    <2>4. QED
      BY <2>1, <2>2, <2>3
  <1> HIDE DEF after
  <1>11. t = [after EXCEPT !.request = [s.request EXCEPT ![c] = NoRequest],
                           !.stale = stale]
    BY <1>1, <1>10 DEF Answered, Servers
  <1>12. stale \in BOOLEAN
    BY DEF stale
  <1>13. [s.request EXCEPT ![c] = NoRequest]
            \in [Clients -> Requests \cup {NoRequest}]
    BY DEF Servers
  <1>14. /\ t \in Servers /\ t.stale = stale
         /\ t.request = [s.request EXCEPT ![c] = NoRequest]
         /\ t.negative = after.negative /\ t.cache = after.cache /\ t.lru = after.lru
    BY <1>10, <1>11, <1>12, <1>13, ZenonT(60) DEF Servers
  <1>15. SameLists(after, t) /\ WriteNotTaken(after, t)
    BY <1>10, <1>11 DEF Servers, SameLists, WriteNotTaken
  <1>16. \A value : CacheChanges(s, after, k, value) => CacheChanges(s, t, k, value)
    BY <1>14 DEF CacheChanges, LruAgrees, Cached
  <1>17. SameLists(s, t)
    BY <1>10, <1>15 DEF SameLists
  <1>18. Mutates(s, request) => WriteTaken(s, t, k, MutationOf(s, request))
    BY <1>10, <1>15 DEF WriteTaken, WriteNotTaken
  <1>19. ~Mutates(s, request) => WriteNotTaken(s, t)
    BY <1>10, <1>15 DEF WriteNotTaken
  <1>20. Performed(s, t, c, request)
    BY <1>10, <1>14, <1>16, <1>17, <1>18, <1>19 DEF Performed, negative
  <1>21. QED
    BY <1>14, <1>20 DEF stale

-----------------------------------------------------------------------------
(* The lists of waiters: what each operation of the dispatcher and of the
   store does to them. *)

\* Fields that the lists do not depend on may change.
SameWaiters(s, t) ==
    /\ t.ticket = s.ticket
    /\ t.waiting = s.waiting
    /\ t.overlooked = s.overlooked
    /\ t.job = s.job
    /\ t.queue = s.queue

LEMMA ListsFrame ==
    ASSUME NEW s, NEW t, NEW results, NEW F, ListsAgree(s, results, F),
           SameWaiters(s, t), t.request = s.request, t.load = s.load
    PROVE  ListsAgree(t, results, F)
  <1> USE DEF SameWaiters
  <1>1. WaitersAgree(t, F)
    BY DEF ListsAgree, WaitersAgree
  <1>2. JobsAgree(t)
    BY DEF ListsAgree, JobsAgree, Attached
  <1>3. ResultsAgree(t, results)
    BY DEF ListsAgree, ResultsAgree, Attached
  <1>4. EverybodyListed(t, results, F)
    BY DEF ListsAgree, EverybodyListed
  <1>5. LoadsAgree(t)
    <2>1. \A k : Registered(t, k) = Registered(s, k)
      BY DEF Registered, KeyOf
    <2>2. QED
      BY <2>1 DEF ListsAgree, LoadsAgree, KeyOf
  <1>6. QueueAgrees(t)
    BY DEF ListsAgree, QueueAgrees, pending_reads
  <1>7. QED
    BY <1>1, <1>2, <1>3, <1>4, <1>5, <1>6 DEF ListsAgree

\* process_input hands a request to the dispatcher.
LEMMA RequestBegins ==
    ASSUME NEW s \in Servers, NEW t \in Servers, NEW results,
           ListsAgree(s, results, {}), NEW c \in Clients, s.request[c] = NoRequest,
           NEW request \in Requests, SameWaiters(s, t), t.load = s.load,
           t.request = [s.request EXCEPT ![c] = request]
    PROVE  ListsAgree(t, results, {c})
  <1> USE DEF SameWaiters
  <1>1. /\ t.request[c] = request
        /\ \A d \in Clients \ {c} : t.request[d] = s.request[d]
    BY DEF Servers
  <1>2. s.ticket[c] = NoTicket /\ ~In(s.waiting, c)
    BY Constants DEF ListsAgree, LoadsAgree, WaitersAgree
  <1>3. WaitersAgree(t, {c})
    <2>1. \A i \in 1..Len(s.waiting) : s.waiting[i] # c
      BY <1>2 DEF In
    <2>2. QED
      BY <1>1, <1>2, <2>1 DEF ListsAgree, WaitersAgree
  <1>4. \A k, q : Attached(s, k, q) => Attached(t, k, q)
    <2>1. ASSUME NEW k, NEW q, Attached(s, k, q) PROVE Attached(t, k, q)
      <3>1. \A i \in 1..Len(q) : t.request[q[i]] = s.request[q[i]]
        BY <1>1, <1>2, <2>1 DEF Attached
      <3>2. QED
        BY <2>1, <3>1 DEF Attached
    <2>2. QED
      BY <2>1
  <1>5. JobsAgree(t)
    BY <1>4 DEF ListsAgree, JobsAgree
  <1>6. ResultsAgree(t, results)
    BY <1>4 DEF ListsAgree, ResultsAgree
  <1>7. EverybodyListed(t, results, {c})
    BY <1>1 DEF ListsAgree, EverybodyListed
  <1>8. LoadsAgree(t)
    <2>1. \A k : Registered(t, k) = Registered(s, k)
      BY <1>1, <1>2 DEF Registered, KeyOf
    <2>2. QED
      BY <1>1, <1>2, <2>1 DEF ListsAgree, LoadsAgree, KeyOf
  <1>9. QueueAgrees(t)
    BY DEF ListsAgree, QueueAgrees, pending_reads
  <1>10. QED
    BY <1>3, <1>5, <1>6, <1>7, <1>8, <1>9 DEF ListsAgree

\* A request that no list has is answered; generations may only grow.
LEMMA RequestEnds ==
    ASSUME NEW s \in Servers, NEW t \in Servers, NEW results, NEW c \in Clients,
           ListsAgree(s, results, {c}), SameWaiters(s, t),
           t.request = [s.request EXCEPT ![c] = NoRequest],
           \A k \in Keys : /\ t.load[k].waiters = s.load[k].waiters
                           /\ t.load[k].generation >= s.load[k].generation
    PROVE  ListsAgree(t, results, {})
  <1> USE DEF SameWaiters
  <1>1. /\ t.request[c] = NoRequest
        /\ \A d \in Clients \ {c} : t.request[d] = s.request[d]
    BY DEF Servers
  <1>2. s.ticket[c] = NoTicket /\ ~In(s.waiting, c)
    BY DEF ListsAgree, WaitersAgree, In
  <1>3. WaitersAgree(t, {})
    BY <1>1, <1>2 DEF ListsAgree, WaitersAgree
  <1>4. \A k, q : Attached(s, k, q) => Attached(t, k, q)
    <2>1. ASSUME NEW k, NEW q, Attached(s, k, q) PROVE Attached(t, k, q)
      <3>1. \A i \in 1..Len(q) : t.request[q[i]] = s.request[q[i]]
        BY <1>1, <1>2, <2>1 DEF Attached
      <3>2. QED
        BY <2>1, <3>1 DEF Attached
    <2>2. QED
      BY <2>1
  <1>5. JobsAgree(t)
    BY <1>4 DEF ListsAgree, JobsAgree
  <1>6. ResultsAgree(t, results)
    BY <1>4 DEF ListsAgree, ResultsAgree
  <1>7. EverybodyListed(t, results, {})
    BY <1>1 DEF ListsAgree, EverybodyListed
  <1>8. LoadsAgree(t)
    <2>1. \A k : Registered(t, k) = Registered(s, k)
      BY <1>1, <1>2 DEF Registered, KeyOf
    <2>2. ASSUME NEW d \in Clients, t.ticket[d] # NoTicket
          PROVE  /\ t.request[d] \in Requests
                 /\ t.ticket[d] <= t.load[KeyOf(t, d)].generation
      <3>1. d # c /\ s.request[d] \in Requests
        BY <1>2, <2>2 DEF ListsAgree, LoadsAgree
      <3>2. s.request[d].key \in Keys /\ s.ticket[d] \in Nat
        BY <3>1, <2>2, Constants DEF Servers
      <3>3. s.ticket[d] <= s.load[s.request[d].key].generation
        BY <2>2 DEF ListsAgree, LoadsAgree, KeyOf
      <3>4. /\ s.load[s.request[d].key].generation \in Nat
            /\ t.load[s.request[d].key].generation \in Nat
        BY <3>2 DEF Servers
      <3>5. QED
        BY <1>1, <3>1, <3>2, <3>3, <3>4 DEF KeyOf
    <2>3. QED
      BY <2>1, <2>2 DEF ListsAgree, LoadsAgree
  <1>9. QueueAgrees(t)
    BY DEF ListsAgree, QueueAgrees, pending_reads
  <1>10. QED
    BY <1>3, <1>5, <1>6, <1>7, <1>8, <1>9 DEF ListsAgree

\* A request waits for the writer: it is the last one, or in no list.
LEMMA WaiterQueued ==
    ASSUME NEW s \in Servers, NEW results, NEW c \in Clients,
           ListsAgree(s, results, {c}), NEW t, t = queue_dirty_waiter(s, c)
    PROVE  t \in Servers /\ ListsAgree(t, results, {})
  <1>0. /\ s.request[c] \in Requests /\ s.ticket[c] = NoTicket
        /\ \A i \in 1..Len(s.waiting) : s.waiting[i] # c
    BY DEF ListsAgree, WaitersAgree
  <1>1. CASE s.tail_gone
    <2>1. t = [s EXCEPT !.overlooked = s.overlooked \cup {c}]
      BY <1>1 DEF queue_dirty_waiter
    <2>2. s.overlooked \cup {c} \in SUBSET Clients
      BY DEF Servers
    <2>3. /\ t \in Servers /\ t.request = s.request /\ t.ticket = s.ticket
          /\ t.load = s.load /\ t.waiting = s.waiting /\ t.job = s.job
          /\ t.queue = s.queue /\ t.overlooked = s.overlooked \cup {c}
      BY <2>1, <2>2 DEF Servers
    <2>4. WaitersAgree(t, {})
      BY <2>3 DEF ListsAgree, WaitersAgree
    <2>5. JobsAgree(t) /\ ResultsAgree(t, results)
      BY <2>3 DEF ListsAgree, JobsAgree, ResultsAgree, Attached
    <2>6. EverybodyListed(t, results, {})
      BY <2>3 DEF ListsAgree, EverybodyListed
    <2>7. LoadsAgree(t) /\ QueueAgrees(t)
      <3>1. \A k : Registered(t, k) = Registered(s, k)
        BY <2>3 DEF Registered, KeyOf
      <3>2. QED
        BY <2>3, <3>1 DEF ListsAgree, LoadsAgree, QueueAgrees, KeyOf, pending_reads
    <2>8. QED
      BY <2>3, <2>4, <2>5, <2>6, <2>7 DEF ListsAgree
  <1>2. CASE ~s.tail_gone
    <2> DEFINE q == Append(s.waiting, c)
    <2>1. t = [s EXCEPT !.waiting = q]
      BY <1>2 DEF queue_dirty_waiter
    <2>2. /\ s.waiting \in Seq(Clients) /\ q \in Seq(Clients)
          /\ Len(q) = Len(s.waiting) + 1 /\ q[Len(q)] = c
          /\ \A i \in 1..Len(s.waiting) : q[i] = s.waiting[i]
      BY DEF Servers
    <2> HIDE DEF q
    <2>3. /\ t \in Servers /\ t.request = s.request /\ t.ticket = s.ticket
          /\ t.load = s.load /\ t.waiting = q /\ t.job = s.job
          /\ t.queue = s.queue /\ t.overlooked = s.overlooked
      BY <2>1, <2>2 DEF Servers
    <2>4. WaitersAgree(t, {})
      <3>1. Unique(q)
        BY <1>0, <2>2, SMTT(30) DEF ListsAgree, WaitersAgree, Unique
      <3>2. \A d : In(q, d) <=> In(s.waiting, d) \/ d = c
        BY <2>2 DEF In
      <3>3. QED
        BY <1>0, <2>3, <3>1, <3>2 DEF ListsAgree, WaitersAgree
    <2>5. JobsAgree(t) /\ ResultsAgree(t, results)
      BY <2>3 DEF ListsAgree, JobsAgree, ResultsAgree, Attached
    <2>6. EverybodyListed(t, results, {})
      <3>1. In(q, c) /\ \A d : In(s.waiting, d) => In(q, d)
        BY <2>2 DEF In
      <3>2. QED
        BY <2>3, <3>1 DEF ListsAgree, EverybodyListed
    <2>7. LoadsAgree(t) /\ QueueAgrees(t)
      <3>1. \A k : Registered(t, k) = Registered(s, k)
        BY <2>3 DEF Registered, KeyOf
      <3>2. QED
        BY <2>3, <3>1 DEF ListsAgree, LoadsAgree, QueueAgrees, KeyOf, pending_reads
    <2>8. QED
      BY <2>3, <2>4, <2>5, <2>6, <2>7 DEF ListsAgree
  <1>3. QED
    BY <1>1, <1>2

\* What register_pending_load and mysql_store_submit_load do for c: its job is
\* the one that is under way, or a new one.
JobJoined(s, t, c, k) ==
    /\ t.request = s.request
    /\ t.ticket = [s.ticket EXCEPT ![c] = s.load[k].generation]
    /\ t.load = [s.load EXCEPT ![k].waiters = @ + 1]
    /\ t.waiting = s.waiting /\ t.overlooked = s.overlooked
    /\ \A x \in Keys \ {k} : t.job[x] = s.job[x]
    /\ \/ /\ s.job[k].stage # "none" /\ t.queue = s.queue
          /\ t.job[k] = [s.job[k] EXCEPT !.waiters = <<c>> \o s.job[k].waiters]
       \/ /\ s.job[k].stage = "none" /\ t.queue = Append(s.queue, k)
          /\ t.job[k] = [NoJob EXCEPT !.stage = "queued", !.waiters = <<c>>]

\* The cache, the writes and the results are not concerned.
SameValues(s, t) ==
    /\ t.cache = s.cache
    /\ t.lru = s.lru
    /\ t.negative = s.negative
    /\ t.dirty = s.dirty
    /\ t.completed = s.completed
    /\ t.writes = s.writes
    /\ t.pending_writes = s.pending_writes
    /\ t.next_sequence = s.next_sequence
    /\ t.applied = s.applied
    /\ t.stale = s.stale

LEMMA NoJobType == NoJob \in Jobs
  <1>1. Absent \in Values
    BY DEF Values
  <1>2. QED
    BY <1>1 DEF NoJob, Jobs, Statuses

LEMMA JobTypes ==
    ASSUME NEW job \in Jobs, NEW waiters \in Seq(Clients)
    PROVE  /\ [job EXCEPT !.waiters = waiters] \in Jobs
           /\ [job EXCEPT !.stage = "queued", !.waiters = waiters] \in Jobs
  BY DEF Jobs

LEMMA JobJoinedFacts ==
    ASSUME NEW s \in Servers, NEW c \in Clients, NEW k \in Keys, KeyOf(s, c) = k,
           NEW t, t = submit_load(register_pending_load(s, c), c, k)
    PROVE  t \in Servers /\ JobJoined(s, t, c, k) /\ SameValues(s, t)
           /\ t.tail_gone = s.tail_gone
  <1> DEFINE ticket == [s.ticket EXCEPT ![c] = s.load[k].generation]
             load == [s.load EXCEPT ![k].waiters = @ + 1]
             u == register_pending_load(s, c)
  <1>1. u = [s EXCEPT !.ticket = ticket, !.load = load]
    BY DEF register_pending_load, Servers
  <1>2. ticket \in [Clients -> {NoTicket} \cup Nat]
    BY DEF Servers
  <1>3. load \in [Keys -> [generation : Nat, waiters : Nat]]
    <2>1. s.load \in [Keys -> [generation : Nat, waiters : Nat]]
      BY DEF Servers
    <2>2. QED
      BY <2>1
  <1> HIDE DEF ticket, load
  <1>4. /\ u \in Servers /\ u.ticket = ticket /\ u.load = load
        /\ u.request = s.request /\ u.waiting = s.waiting
        /\ u.overlooked = s.overlooked /\ u.job = s.job /\ u.queue = s.queue
        /\ u.tail_gone = s.tail_gone
    BY <1>1, <1>2, <1>3 DEF Servers
  <1>5. SameValues(s, u)
    BY <1>1 DEF Servers, SameValues
  <1>a. t = submit_load(u, c, k)
    OBVIOUS
  <1> HIDE DEF u
  <1>6. s.job[k] \in Jobs /\ s.job \in [Keys -> Jobs] /\ s.queue \in Seq(Keys)
    BY DEF Servers
  <1>7. CASE s.job[k].stage # "none"
    <2> DEFINE e == [s.job[k] EXCEPT !.waiters = <<c>> \o s.job[k].waiters]
               job == [s.job EXCEPT ![k] = e]
    <2>1. t = [u EXCEPT !.job = job]
      BY <1>4, <1>7, <1>a DEF submit_load
    <2>c. <<c>> \o s.job[k].waiters \in Seq(Clients)
      <3>1. s.job[k].waiters \in Seq(Clients)
        BY <1>6 DEF Jobs
      <3>2. QED
        BY <3>1
    <2>2. e \in Jobs
      BY <1>6, <2>c, JobTypes
    <2>3. e = [s.job[k] EXCEPT !.waiters = <<c>> \o s.job[k].waiters]
      OBVIOUS
    <2> HIDE DEF e
    <2>b. job \in [Keys -> Jobs]
      BY <1>6, <2>2
    <2>7. job[k] = e /\ \A x \in Keys \ {k} : job[x] = s.job[x]
      BY <1>6
    <2> HIDE DEF job
    <2>4. /\ t \in Servers /\ t.ticket = u.ticket /\ t.load = u.load
          /\ t.request = u.request /\ t.waiting = u.waiting
          /\ t.overlooked = u.overlooked /\ t.queue = u.queue
          /\ t.job = job /\ t.tail_gone = u.tail_gone
      BY <1>4, <2>1, <2>2, <2>b DEF Servers
    <2>5. SameValues(u, t)
      BY <1>4, <2>1 DEF Servers, SameValues
    <2>6. SameValues(s, t)
      BY <1>5, <2>5 DEF SameValues
    <2>8. JobJoined(s, t, c, k)
      BY <1>4, <1>7, <2>3, <2>4, <2>7 DEF JobJoined, ticket, load
    <2>9. QED
      BY <1>4, <2>4, <2>6, <2>8
  <1>8. CASE s.job[k].stage = "none"
    <2> DEFINE e == [NoJob EXCEPT !.stage = "queued", !.waiters = <<c>>]
               queue == Append(s.queue, k)
               job == [s.job EXCEPT ![k] = e]
    <2>1. t = [u EXCEPT !.job = job, !.queue = queue]
      BY <1>4, <1>8, <1>a DEF submit_load
    <2>c. <<c>> \in Seq(Clients)
      OBVIOUS
    <2>d. queue \in Seq(Keys)
      BY <1>6
    <2>2. e \in Jobs /\ queue \in Seq(Keys)
      BY <2>c, <2>d, NoJobType, JobTypes
    <2>3. /\ e = [NoJob EXCEPT !.stage = "queued", !.waiters = <<c>>]
          /\ queue = Append(s.queue, k)
      OBVIOUS
    <2> HIDE DEF e, queue
    <2>b. job \in [Keys -> Jobs]
      BY <1>6, <2>2
    <2>7. job[k] = e /\ \A x \in Keys \ {k} : job[x] = s.job[x]
      BY <1>6
    <2> HIDE DEF job
    <2>4. /\ t \in Servers /\ t.ticket = u.ticket /\ t.load = u.load
          /\ t.request = u.request /\ t.waiting = u.waiting
          /\ t.overlooked = u.overlooked /\ t.queue = queue
          /\ t.job = job /\ t.tail_gone = u.tail_gone
      BY <1>4, <2>1, <2>2, <2>b, ZenonT(60) DEF Servers
    <2>5. SameValues(u, t)
      BY <1>4, <2>1 DEF Servers, SameValues
    <2>6. SameValues(s, t)
      BY <1>5, <2>5 DEF SameValues
    <2>8. JobJoined(s, t, c, k)
      BY <1>4, <1>8, <2>3, <2>4, <2>7 DEF JobJoined, ticket, load
    <2>9. QED
      BY <1>4, <2>4, <2>6, <2>8
  <1>9. QED
    BY <1>7, <1>8

\* Who joins comes first.
Joins(w, c, q) ==
    /\ Len(w) = Len(q) + 1 /\ w[1] = c
    /\ \A i \in 2..Len(w) : i - 1 \in 1..Len(q) /\ w[i] = q[i - 1]
    /\ \A x : In(w, x) <=> x = c \/ In(q, x)

LEMMA PrependSeq ==
    ASSUME NEW q \in Seq(Clients), NEW c \in Clients
    PROVE  Joins(<<c>> \o q, c, q)
  <1> DEFINE w == <<c>> \o q
  <1>1. /\ w \in Seq(Clients) /\ Len(w) = Len(q) + 1 /\ w[1] = c
        /\ \A i \in 1..Len(q) : w[i + 1] = q[i]
    OBVIOUS
  <1> HIDE DEF w
  <1>2. \A i \in 2..Len(w) : i - 1 \in 1..Len(q) /\ w[i] = q[i - 1]
    BY <1>1
  <1>3. ASSUME NEW x, In(w, x) PROVE x = c \/ In(q, x)
    <2>1. PICK i \in 1..Len(w) : w[i] = x
      BY <1>3 DEF In
    <2>2. CASE i = 1
      BY <1>1, <2>1, <2>2
    <2>3. CASE i \in 2..Len(w)
      BY <1>2, <2>1, <2>3 DEF In
    <2>4. QED
      BY <1>1, <2>1, <2>2, <2>3
  <1>4. ASSUME NEW x, In(q, x) PROVE In(w, x)
    <2>1. PICK i \in 1..Len(q) : q[i] = x
      BY <1>4 DEF In
    <2>2. i + 1 \in 1..Len(w) /\ w[i + 1] = x
      BY <1>1, <2>1
    <2>3. QED
      BY <2>2 DEF In
  <1>5. In(w, c)
    BY <1>1 DEF In
  <1>6. Joins(w, c, q)
    BY <1>1, <1>2, <1>3, <1>4, <1>5 DEF Joins
  <1>7. QED
    BY <1>6 DEF w

\* A request that no list has joins the load of its key.
LEMMA LoadJoined ==
    ASSUME NEW s \in Servers, NEW t \in Servers, NEW results, NEW c \in Clients,
           NEW k \in Keys, KeyOf(s, c) = k, ListsAgree(s, results, {c}),
           s.job[k].stage # "none" \/ pending_reads(s) < ReadLimit,
           JobJoined(s, t, c, k)
    PROVE  ListsAgree(t, results, {})
  <1> DEFINE q == s.job[k].waiters
             w == t.job[k].waiters
  <1>1. /\ s.ticket[c] = NoTicket /\ s.request[c] \in Requests
        /\ \A i \in 1..Len(s.waiting) : s.waiting[i] # c
    BY DEF ListsAgree, WaitersAgree
  <1>2. /\ s.job[k] \in Jobs /\ q \in Seq(Clients)
    BY DEF Servers, Jobs
  <1>3. w = <<c>> \o q /\ t.job[k].stage # "none"
    <2>1. CASE s.job[k].stage # "none"
      BY <1>2, <2>1 DEF JobJoined, Jobs
    <2>2. CASE s.job[k].stage = "none"
      <3>1. q = <<>>
        BY <2>2 DEF ListsAgree, JobsAgree
      <3>2. <<c>> = <<c>> \o <<>>
        OBVIOUS
      <3>3. QED
        BY <2>2, <3>1, <3>2 DEF JobJoined, NoJob
    <2>3. QED
      BY <2>1, <2>2
  <1>4. /\ t.job[k].stage = "snapped" =>
              s.job[k].stage = "snapped" /\ t.job[k].snapshot = s.job[k].snapshot
        /\ s.job[k].stage # "none" => t.job[k].stage = s.job[k].stage
        /\ s.job[k].stage = "none" => t.job[k].stage = "queued"
    BY <1>2 DEF JobJoined, Jobs, NoJob
  <1>5. /\ t.request = s.request /\ t.waiting = s.waiting
        /\ t.overlooked = s.overlooked
        /\ \A x \in Keys \ {k} : t.job[x] = s.job[x]
    BY DEF JobJoined
  <1>6. /\ t.ticket[c] = s.load[k].generation /\ s.load[k].generation \in Nat
        /\ \A d \in Clients \ {c} : t.ticket[d] = s.ticket[d]
    BY DEF JobJoined, Servers
  <1>7. /\ t.load[k].waiters = s.load[k].waiters + 1
        /\ t.load[k].generation = s.load[k].generation
        /\ \A x \in Keys \ {k} : t.load[x] = s.load[x]
    BY DEF JobJoined, Servers
  <1>8. /\ Len(w) = Len(q) + 1 /\ w[1] = c
        /\ \A i \in 2..Len(w) : i - 1 \in 1..Len(q) /\ w[i] = q[i - 1]
        /\ \A x : In(w, x) <=> x = c \/ In(q, x)
    <2> HIDE DEF q, w
    <2>1. q \in Seq(Clients) /\ w = <<c>> \o q
      BY <1>2, <1>3
    <2>2. Joins(w, c, q)
      BY <2>1, PrependSeq
    <2>3. QED
      BY <2>2 DEF Joins
  <1>9. \A x, p : Attached(s, x, p) =>
            Attached(t, x, p) /\ \A i \in 1..Len(p) : p[i] # c
    <2>1. ASSUME NEW x, NEW p, Attached(s, x, p)
          PROVE  Attached(t, x, p) /\ \A i \in 1..Len(p) : p[i] # c
      <3>1. \A i \in 1..Len(p) : p[i] \in Clients /\ p[i] # c
        BY <1>1, <2>1 DEF Attached
      <3>2. QED
        BY <1>5, <1>6, <2>1, <3>1 DEF Attached
    <2>2. QED
      BY <2>1
  <1>10. Attached(s, k, q)
    BY DEF ListsAgree, JobsAgree
  <1>11. s.job[k].stage = "snapped" => EndOf(s.job[k].snapshot, q)
    BY DEF ListsAgree, JobsAgree
  <1>12. NoTicket \notin Nat
    BY DEF NoTicket
  <1>13. Attached(t, k, w)
    <2>1. Attached(t, k, q) /\ \A i \in 1..Len(q) : q[i] # c
      BY <1>9, <1>10
    <2>2. Unique(w)
      <3>1. ASSUME NEW i \in 1..Len(w), NEW j \in 1..Len(w), w[i] = w[j]
            PROVE  i = j
        <4>1. CASE i = 1 /\ j = 1
          BY <4>1
        <4>2. CASE i = 1 /\ j \in 2..Len(w)
          BY <1>8, <2>1, <3>1, <4>2
        <4>3. CASE j = 1 /\ i \in 2..Len(w)
          BY <1>8, <2>1, <3>1, <4>3
        <4>4. CASE i \in 2..Len(w) /\ j \in 2..Len(w)
          <5>1. i - 1 = j - 1
            BY <1>8, <1>10, <3>1, <4>4, SMTT(30) DEF Attached, Unique
          <5>2. QED
            BY <5>1
        <4>5. QED
          BY <1>2, <1>8, <4>1, <4>2, <4>3, <4>4
      <3>2. QED
        BY <3>1 DEF Unique
    <2>3. ASSUME NEW i \in 1..Len(w)
          PROVE  /\ w[i] \in Clients /\ t.request[w[i]] \in Requests
                 /\ t.request[w[i]].key = k /\ t.ticket[w[i]] # NoTicket
      <3>1. CASE i = 1
        BY <1>1, <1>5, <1>6, <1>8, <1>12, <3>1 DEF KeyOf
      <3>2. CASE i \in 2..Len(w)
        BY <1>8, <2>1, <3>2 DEF Attached
      <3>3. QED
        BY <1>2, <1>8, <3>1, <3>2
    <2>4. QED
      BY <2>2, <2>3 DEF Attached
  <1>14. t.job[k].stage = "snapped" => EndOf(t.job[k].snapshot, w)
    <2> SUFFICES ASSUME t.job[k].stage = "snapped"
                 PROVE  EndOf(t.job[k].snapshot, w)
      OBVIOUS
    <2> DEFINE p == t.job[k].snapshot
    <2>1. EndOf(p, q) /\ p \in Seq(Clients)
      BY <1>4, <1>11 DEF Servers, Jobs
    <2> HIDE DEF p, q, w
    <2>2. ASSUME NEW i \in 1..Len(p) PROVE p[i] = w[i + (Len(w) - Len(p))]
      <3>1. /\ i + (Len(w) - Len(p)) \in 2..Len(w)
            /\ i + (Len(w) - Len(p)) - 1 = i + (Len(q) - Len(p))
        BY <1>2, <1>8, <2>1 DEF EndOf
      <3>2. QED
        BY <1>8, <2>1, <3>1 DEF EndOf
    <2>3. EndOf(p, w)
      BY <1>2, <1>8, <2>1, <2>2 DEF EndOf
    <2>4. QED
      BY <2>3 DEF p
  <1>15. WaitersAgree(t, {})
    <2>1. \A d \in Clients : In(s.waiting, d) => d # c
      BY <1>1 DEF In
    <2>2. QED
      BY <1>5, <1>6, <2>1 DEF ListsAgree, WaitersAgree
  <1>16. JobsAgree(t)
    <2>1. ASSUME NEW x \in Keys \ {k}
          PROVE  /\ t.job[x].stage = "none" <=> t.job[x].waiters = <<>>
                 /\ Attached(t, x, t.job[x].waiters)
                 /\ t.job[x].stage = "snapped" =>
                       EndOf(t.job[x].snapshot, t.job[x].waiters)
      BY <1>5, <1>9 DEF ListsAgree, JobsAgree
    <2>2. w # <<>>
      BY <1>2, <1>8
    <2>3. QED
      BY <1>3, <1>13, <1>14, <2>1, <2>2 DEF JobsAgree
  <1>17. ResultsAgree(t, results)
    <2>1. ASSUME NEW i \in 1..Len(results)
          PROVE  /\ Attached(t, results[i].key, results[i].waiters)
                 /\ \A x \in Keys : Disjoint(t.job[x].waiters, results[i].waiters)
      <3>1. /\ Attached(t, results[i].key, results[i].waiters)
            /\ \A j \in 1..Len(results[i].waiters) : results[i].waiters[j] # c
        BY <1>9 DEF ListsAgree, ResultsAgree
      <3>2. \A x \in Keys : Disjoint(s.job[x].waiters, results[i].waiters)
        BY DEF ListsAgree, ResultsAgree
      <3>3. Disjoint(w, results[i].waiters)
        <4>1. ASSUME NEW n \in 1..Len(w), NEW j \in 1..Len(results[i].waiters)
              PROVE  w[n] # results[i].waiters[j]
          <5>1. CASE n = 1
            BY <1>8, <3>1, <5>1
          <5>2. CASE n \in 2..Len(w)
            BY <1>8, <3>2, <5>2 DEF Disjoint
          <5>3. QED
            BY <1>2, <1>8, <5>1, <5>2
        <4>2. QED
          BY <4>1 DEF Disjoint
      <3>4. QED
        BY <1>5, <3>1, <3>2, <3>3
    <2>2. QED
      BY <2>1 DEF ListsAgree, ResultsAgree
  <1>18. EverybodyListed(t, results, {})
    <2>1. In(t.job[k].waiters, c)
      BY <1>8
    <2>2. \A d : \A x \in Keys : In(s.job[x].waiters, d) => In(t.job[x].waiters, d)
      BY <1>5, <1>8
    <2>3. QED
      BY <1>5, <2>1, <2>2 DEF ListsAgree, EverybodyListed
  <1>19. LoadsAgree(t)
    <2>1. Registered(t, k) = Registered(s, k) \cup {c} /\ c \notin Registered(s, k)
      BY <1>1, <1>5, <1>6, <1>12 DEF Registered, KeyOf
    <2>2. \A x \in Keys \ {k} : Registered(t, x) = Registered(s, x)
      BY <1>1, <1>5, <1>6 DEF Registered, KeyOf
    <2>3. IsFiniteSet(Registered(s, k))
      BY Constants, FS_Subset DEF Registered
    <2>4. Cardinality(Registered(t, k)) = Cardinality(Registered(s, k)) + 1
      BY <2>1, <2>3, FS_AddElement
    <2>5. \A x \in Keys : t.load[x].waiters = Cardinality(Registered(t, x))
      BY <1>7, <2>2, <2>4 DEF ListsAgree, LoadsAgree
    <2>6. ASSUME NEW d \in Clients, t.ticket[d] # NoTicket
          PROVE  /\ t.request[d] \in Requests
                 /\ t.ticket[d] <= t.load[KeyOf(t, d)].generation
      <3>1. CASE d = c
        BY <1>1, <1>5, <1>6, <1>7, <3>1 DEF KeyOf
      <3>2. CASE d # c
        <4>1. /\ s.ticket[d] # NoTicket /\ t.ticket[d] = s.ticket[d]
              /\ s.request[d] \in Requests
              /\ s.ticket[d] <= s.load[KeyOf(s, d)].generation
          BY <1>6, <2>6, <3>2 DEF ListsAgree, LoadsAgree
        <4>2. KeyOf(s, d) \in Keys /\ KeyOf(t, d) = KeyOf(s, d)
          BY <1>5, <4>1, Constants DEF KeyOf
        <4>3. t.load[KeyOf(s, d)].generation = s.load[KeyOf(s, d)].generation
          BY <1>7, <4>2
        <4>4. QED
          BY <1>5, <4>1, <4>2, <4>3
      <3>3. QED
        BY <3>1, <3>2
    <2>7. QED
      BY <2>5, <2>6 DEF LoadsAgree
  <1>20. QueueAgrees(t)
    <2> DEFINE P(u) == {x \in Keys : u.job[x].stage # "none"}
    <2>1. IsFiniteSet(P(s))
      BY Constants, FS_Subset
    <2>2. /\ Unique(s.queue) /\ s.queue \in Seq(Keys)
          /\ \A i \in 1..Len(s.queue) : s.job[s.queue[i]].stage = "queued"
          /\ Cardinality(P(s)) <= ReadLimit
      BY DEF ListsAgree, QueueAgrees, pending_reads, Servers
    <2>3. \A x \in Keys : s.job[x].stage = "queued" => t.job[x].stage = "queued"
      BY <1>4, <1>5
    <2>4. CASE s.job[k].stage # "none"
      <3>1. P(t) = P(s)
        BY <1>4, <1>5, <2>4
      <3>2. t.queue = s.queue
        BY <2>4 DEF JobJoined
      <3>3. \A i \in 1..Len(t.queue) : t.job[t.queue[i]].stage = "queued"
        BY <2>2, <2>3, <3>2
      <3>4. QED
        BY <2>2, <3>1, <3>2, <3>3 DEF QueueAgrees, pending_reads
    <2>5. CASE s.job[k].stage = "none"
      <3>1. P(t) = P(s) \cup {k} /\ k \notin P(s)
        BY <1>4, <1>5, <2>5
      <3>2. Cardinality(P(t)) = Cardinality(P(s)) + 1
        BY <2>1, <3>1, FS_AddElement
      <3>3. Cardinality(P(s)) < ReadLimit /\ Cardinality(P(s)) \in Nat
        BY <2>1, <2>5, FS_CardinalityType DEF pending_reads
      <3>4. Cardinality(P(t)) <= ReadLimit
        BY <3>2, <3>3, Constants
      <3>5. /\ t.queue = Append(s.queue, k)
            /\ Len(t.queue) = Len(s.queue) + 1 /\ t.queue[Len(s.queue) + 1] = k
            /\ \A i \in 1..Len(s.queue) : t.queue[i] = s.queue[i]
        BY <2>2, <2>5 DEF JobJoined
      <3>6. \A i \in 1..Len(s.queue) : s.queue[i] # k
        BY <2>2, <2>5
      <3>7. \A i \in 1..Len(t.queue) : i = Len(s.queue) + 1 \/ i \in 1..Len(s.queue)
        BY <2>2, <3>5
      <3>8. Unique(t.queue)
        BY <2>2, <3>5, <3>6, <3>7 DEF Unique
      <3>9. \A i \in 1..Len(t.queue) : t.job[t.queue[i]].stage = "queued"
        BY <1>4, <2>2, <2>3, <2>5, <3>5, <3>7
      <3>10. QED
        BY <3>4, <3>8, <3>9 DEF QueueAgrees, pending_reads
    <2>6. QED
      BY <2>4, <2>5
  <1>21. QED
    BY <1>15, <1>16, <1>17, <1>18, <1>19, <1>20 DEF ListsAgree

\* drain_dirty_waiters takes a waiter out of its list.
LEMMA WaiterTaken ==
    ASSUME NEW s \in Servers, NEW t \in Servers, NEW results,
           ListsAgree(s, results, {}), NEW i \in 1..Len(s.waiting),
           t.waiting = RemoveAt(s.waiting, i),
           t.request = s.request, t.ticket = s.ticket, t.load = s.load,
           t.overlooked = s.overlooked, t.job = s.job, t.queue = s.queue
    PROVE  ListsAgree(t, results, {s.waiting[i]})
  <1> DEFINE c == s.waiting[i]
  <1>1. s.waiting \in Seq(Clients) /\ Unique(s.waiting)
    BY DEF Servers, ListsAgree, WaitersAgree
  <1>2. c \in Clients /\ In(s.waiting, c)
    BY <1>1 DEF In
  <1>3. /\ Unique(t.waiting)
        /\ \A x : In(t.waiting, x) <=> In(s.waiting, x) /\ x # c
    BY <1>1, RemoveAtUnique
  <1>4. WaitersAgree(t, {c})
    <2>1. \A j \in 1..Len(t.waiting) : In(t.waiting, t.waiting[j])
      BY DEF In
    <2>2. \A j \in 1..Len(t.waiting) : t.waiting[j] # c
      BY <1>3, <2>1
    <2>3. QED
      BY <1>2, <1>3, <2>2 DEF ListsAgree, WaitersAgree
  <1>5. JobsAgree(t) /\ ResultsAgree(t, results)
    BY DEF ListsAgree, JobsAgree, ResultsAgree, Attached
  <1>6. EverybodyListed(t, results, {c})
    BY <1>3 DEF ListsAgree, EverybodyListed
  <1>7. LoadsAgree(t) /\ QueueAgrees(t)
    <2>1. \A k : Registered(t, k) = Registered(s, k)
      BY DEF Registered, KeyOf
    <2>2. QED
      BY <2>1 DEF ListsAgree, LoadsAgree, QueueAgrees, KeyOf, pending_reads
  <1>8. QED
    BY <1>4, <1>5, <1>6, <1>7 DEF ListsAgree

\* The results r are those of results without the waiter c, place f[i] of the
\* old ones being place i of the new ones.
Shrunk(results, r, c, f) ==
    /\ f \in [1..Len(r) -> 1..Len(results)]
    /\ \A i, j \in 1..Len(r) : f[i] = f[j] => i = j
    /\ \A i \in 1..Len(r) :
          /\ r[i].key = results[f[i]].key
          /\ r[i].waiters # <<>> /\ Unique(r[i].waiters)
          /\ \A x : In(r[i].waiters, x) => In(results[f[i]].waiters, x) /\ x # c
    /\ \A x : x # c /\ (\E j \in 1..Len(results) : In(results[j].waiters, x))
          => \E i \in 1..Len(r) : In(r[i].waiters, x)

\* The state of a load when one of its waiters is unregistered.
LeftBy(load) ==
    IF load.waiters = 1 THEN [generation |-> 0, waiters |-> 0]
                        ELSE [load EXCEPT !.waiters = load.waiters - 1]

Departs(s, t, c, k) ==
    /\ t.ticket = [s.ticket EXCEPT ![c] = NoTicket]
    /\ t.load = [s.load EXCEPT ![k] = LeftBy(s.load[k])]

OnlyTicket(s, t) ==
    /\ t \in Servers
    /\ t = [s EXCEPT !.ticket = t.ticket, !.load = t.load]

LEMMA Unregisters ==
    ASSUME NEW s \in Servers, NEW c \in Clients, NEW k \in Keys, KeyOf(s, c) = k,
           s.load[k].waiters # 0, NEW t, t = unregister_pending_load(s, c)
    PROVE  Departs(s, t, c, k) /\ OnlyTicket(s, t)
  <1> DEFINE ticket == [s.ticket EXCEPT ![c] = NoTicket]
             load == [s.load EXCEPT ![k] = LeftBy(s.load[k])]
  <1>1. t = [s EXCEPT !.ticket = ticket, !.load = load]
    BY DEF unregister_pending_load, LeftBy
  <1>2. ticket \in [Clients -> {NoTicket} \cup Nat]
    BY DEF Servers
  <1>3. load \in [Keys -> [generation : Nat, waiters : Nat]]
    <2>1. s.load \in [Keys -> [generation : Nat, waiters : Nat]]
      BY DEF Servers
    <2>2. LeftBy(s.load[k]) \in [generation : Nat, waiters : Nat]
      BY <2>1 DEF LeftBy
    <2>3. QED
      BY <2>1, <2>2
  <1> HIDE DEF ticket, load
  <1>4. QED
    BY <1>1, <1>2, <1>3, ZenonT(60) DEF Servers, ticket, load, Departs, OnlyTicket

\* A waiter of a result is unregistered and taken out of it.
LEMMA WaiterServed ==
    ASSUME NEW s \in Servers, NEW t \in Servers, NEW results, NEW r, NEW f,
           ListsAgree(s, results, {}), NEW n \in 1..Len(results),
           NEW c, In(results[n].waiters, c), Shrunk(results, r, c, f),
           NEW k \in Keys, k = results[n].key, Departs(s, t, c, k),
           t.request = s.request, t.waiting = s.waiting,
           t.overlooked = s.overlooked, t.job = s.job, t.queue = s.queue
    PROVE  ListsAgree(t, r, {c})
  <1> USE DEF Departs
  <1>1. /\ c \in Clients /\ s.request[c] \in Requests /\ s.request[c].key = k
        /\ s.ticket[c] # NoTicket
    BY DEF ListsAgree, ResultsAgree, Attached, In
  <1>2. /\ t.ticket[c] = NoTicket
        /\ \A d \in Clients \ {c} : t.ticket[d] = s.ticket[d]
    BY <1>1 DEF Servers
  <1>3. ~In(s.waiting, c) /\ \A i \in 1..Len(s.waiting) : s.waiting[i] # c
    BY <1>1 DEF ListsAgree, WaitersAgree, In
  <1>4. WaitersAgree(t, {c})
    BY <1>1, <1>2, <1>3 DEF ListsAgree, WaitersAgree
  <1>5. ASSUME NEW x, NEW q, Unique(q),
               \A y : In(q, y) => /\ y # c /\ y \in Clients
                                  /\ s.request[y] \in Requests
                                  /\ s.request[y].key = x
                                  /\ s.ticket[y] # NoTicket
        PROVE  Attached(t, x, q)
    <2>1. \A i \in 1..Len(q) : In(q, q[i])
      BY DEF In
    <2>2. QED
      BY <1>2, <1>5, <2>1 DEF Attached
  <1>6. \A x, q, y : Attached(s, x, q) /\ In(q, y) =>
            /\ y \in Clients /\ s.request[y] \in Requests
            /\ s.request[y].key = x /\ s.ticket[y] # NoTicket
    BY DEF Attached, In
  <1>7. JobsAgree(t)
    <2>1. ASSUME NEW x \in Keys PROVE Attached(t, x, s.job[x].waiters)
      <3>1. Attached(s, x, s.job[x].waiters)
        BY DEF ListsAgree, JobsAgree
      <3>2. ~In(s.job[x].waiters, c)
        BY DEF ListsAgree, ResultsAgree, Disjoint, In
      <3>3. Unique(s.job[x].waiters)
        BY <3>1 DEF Attached
      <3>4. QED
        BY <1>5, <1>6, <3>1, <3>2, <3>3
    <2>2. QED
      BY <2>1 DEF ListsAgree, JobsAgree
  <1>8. ResultsAgree(t, r)
    <2>1. ASSUME NEW i \in 1..Len(r)
          PROVE  /\ r[i].waiters # <<>>
                 /\ Attached(t, r[i].key, r[i].waiters)
                 /\ \A x \in Keys : Disjoint(s.job[x].waiters, r[i].waiters)
      <3>1. f[i] \in 1..Len(results)
        BY DEF Shrunk
      <3>2. /\ Attached(s, results[f[i]].key, results[f[i]].waiters)
            /\ \A x \in Keys : Disjoint(s.job[x].waiters, results[f[i]].waiters)
        BY <3>1 DEF ListsAgree, ResultsAgree
      <3>3. /\ r[i].key = results[f[i]].key
            /\ r[i].waiters # <<>> /\ Unique(r[i].waiters)
            /\ \A x : In(r[i].waiters, x) =>
                         In(results[f[i]].waiters, x) /\ x # c
        BY DEF Shrunk
      <3>4. Attached(t, r[i].key, r[i].waiters)
        BY <1>5, <1>6, <3>2, <3>3
      <3>5. \A x \in Keys : Disjoint(s.job[x].waiters, r[i].waiters)
        BY <3>2, <3>3, DisjointIn
      <3>6. QED
        BY <3>3, <3>4, <3>5
    <2>2. ASSUME NEW i \in 1..Len(r), NEW j \in 1..Len(r), i # j
          PROVE  Disjoint(r[i].waiters, r[j].waiters)
      <3>1. f[i] \in 1..Len(results) /\ f[j] \in 1..Len(results) /\ f[i] # f[j]
        BY <2>2 DEF Shrunk
      <3>2. Disjoint(results[f[i]].waiters, results[f[j]].waiters)
        BY <3>1 DEF ListsAgree, ResultsAgree
      <3>3. /\ \A x : In(r[i].waiters, x) => In(results[f[i]].waiters, x)
            /\ \A x : In(r[j].waiters, x) => In(results[f[j]].waiters, x)
        BY DEF Shrunk
      <3>4. QED
        BY <3>2, <3>3, DisjointIn
    <2>3. QED
      BY <2>1, <2>2 DEF ResultsAgree
  <1>9. EverybodyListed(t, r, {c})
    <2>1. \A x : x # c /\ (\E j \in 1..Len(results) : In(results[j].waiters, x))
             => \E i \in 1..Len(r) : In(r[i].waiters, x)
      BY DEF Shrunk
    <2>2. QED
      BY <2>1 DEF ListsAgree, EverybodyListed
  <1>10. s.load \in [Keys -> [generation : Nat, waiters : Nat]]
    BY DEF Servers
  <1>11. /\ \A x \in Keys \ {k} : t.load[x] = s.load[x]
         /\ s.load[k].waiters = 1 => t.load[k].waiters = 0
         /\ s.load[k].waiters # 1 =>
               /\ t.load[k].waiters = s.load[k].waiters - 1
               /\ t.load[k].generation = s.load[k].generation
    <2> DEFINE g == s.load[k]
               e == LeftBy(g)
    <2>2. g \in [generation : Nat, waiters : Nat]
      BY <1>10
    <2>3. /\ g.waiters = 1 => e.waiters = 0
          /\ g.waiters # 1 => /\ e.waiters = g.waiters - 1
                              /\ e.generation = g.generation
      <3> HIDE DEF g
      <3>1. QED
        BY <2>2 DEF LeftBy
    <2> HIDE DEF e
    <2>4. t.load[k] = e /\ \A x \in Keys \ {k} : t.load[x] = s.load[x]
      BY <1>10 DEF e
    <2>5. QED
      BY <2>3, <2>4
  <1>12. LoadsAgree(t)
    <2>1. Registered(t, k) = Registered(s, k) \ {c} /\ c \in Registered(s, k)
      BY <1>1, <1>2 DEF Registered, KeyOf
    <2>2. \A x \in Keys \ {k} : Registered(t, x) = Registered(s, x)
      BY <1>1, <1>2 DEF Registered, KeyOf
    <2>3. IsFiniteSet(Registered(s, k)) /\ IsFiniteSet(Registered(t, k))
      BY Constants, FS_Subset DEF Registered
    <2>4. Cardinality(Registered(t, k)) = Cardinality(Registered(s, k)) - 1
      BY <2>1, <2>3, FS_RemoveElement
    <2>5. s.load[k].waiters = Cardinality(Registered(s, k))
      BY DEF ListsAgree, LoadsAgree
    <2>6. t.load[k].waiters = Cardinality(Registered(t, k))
      BY <1>11, <2>4, <2>5
    <2>7. \A x \in Keys : t.load[x].waiters = Cardinality(Registered(t, x))
      BY <1>11, <2>2, <2>6 DEF ListsAgree, LoadsAgree
    <2>8. ASSUME NEW d \in Clients, t.ticket[d] # NoTicket
          PROVE  /\ t.request[d] \in Requests
                 /\ t.ticket[d] <= t.load[KeyOf(t, d)].generation
      <3>1. d # c /\ s.ticket[d] # NoTicket /\ t.ticket[d] = s.ticket[d]
        BY <1>2, <2>8
      <3>2. /\ s.request[d] \in Requests
            /\ s.ticket[d] <= s.load[KeyOf(s, d)].generation
        BY <3>1 DEF ListsAgree, LoadsAgree
      <3>3. KeyOf(s, d) \in Keys /\ KeyOf(t, d) = KeyOf(s, d)
        BY <3>2, Constants DEF KeyOf
      <3>4. CASE KeyOf(s, d) = k
        <4>1. d \in Registered(t, k)
          BY <2>8, <3>3, <3>4 DEF Registered
        <4>2. Cardinality(Registered(t, k)) # 0
          BY <2>3, <4>1, FS_EmptySet
        <4>3. t.load[k].generation = s.load[k].generation
          BY <1>11, <2>6, <4>2
        <4>4. QED
          BY <3>1, <3>2, <3>3, <3>4, <4>3
      <3>5. CASE KeyOf(s, d) # k
        BY <1>11, <3>1, <3>2, <3>3, <3>5
      <3>6. QED
        BY <3>4, <3>5
    <2>9. QED
      BY <2>7, <2>8 DEF LoadsAgree
  <1>13. QueueAgrees(t)
    BY DEF ListsAgree, QueueAgrees, pending_reads
  <1>14. QED
    BY <1>4, <1>7, <1>8, <1>9, <1>12, <1>13 DEF ListsAgree

\* Only keys and waiters of results are concerned.
LEMMA ResultsFrame ==
    ASSUME NEW s, NEW results, NEW r, NEW F, ListsAgree(s, results, F),
           Len(r) = Len(results),
           \A i \in 1..Len(results) : /\ r[i].key = results[i].key
                                      /\ r[i].waiters = results[i].waiters
    PROVE  ListsAgree(s, r, F)
  <1>1. ResultsAgree(s, r)
    BY DEF ListsAgree, ResultsAgree
  <1>2. EverybodyListed(s, r, F)
    BY DEF ListsAgree, EverybodyListed
  <1>3. QED
    BY <1>1, <1>2 DEF ListsAgree

\* A reader takes the first job of the queue, or goes on with the one it has.
LEMMA JobGoesOn ==
    ASSUME NEW s \in Servers, NEW t \in Servers, NEW results, NEW F,
           ListsAgree(s, results, F), NEW k \in Keys, NEW job,
           t.job = [s.job EXCEPT ![k] = job],
           job.waiters = s.job[k].waiters,
           job.stage \in Busy, s.job[k].stage # "none",
           job.stage = "snapped" => EndOf(job.snapshot, job.waiters),
           \/ t.queue = s.queue /\ s.job[k].stage # "queued"
           \/ s.queue # <<>> /\ t.queue = Tail(s.queue) /\ k = Head(s.queue),
           t.request = s.request, t.ticket = s.ticket, t.load = s.load,
           t.waiting = s.waiting, t.overlooked = s.overlooked
    PROVE  ListsAgree(t, results, F)
  <1>1. t.job[k] = job /\ \A x \in Keys \ {k} : t.job[x] = s.job[x]
    BY DEF Servers
  <1>2. \A x \in Keys : t.job[x].waiters = s.job[x].waiters
    BY <1>1
  <1>3. \A x, q : Attached(s, x, q) => Attached(t, x, q)
    BY DEF Attached
  <1>4. WaitersAgree(t, F)
    BY DEF ListsAgree, WaitersAgree
  <1>5. JobsAgree(t)
    <2>1. ASSUME NEW x \in Keys \ {k}
          PROVE  /\ t.job[x].stage = "none" <=> t.job[x].waiters = <<>>
                 /\ t.job[x].stage = "snapped" =>
                       EndOf(t.job[x].snapshot, t.job[x].waiters)
      BY <1>1 DEF ListsAgree, JobsAgree
    <2>2. job.stage # "none" /\ job.waiters # <<>>
      BY DEF ListsAgree, JobsAgree, Busy
    <2>3. \A x \in Keys : Attached(t, x, t.job[x].waiters)
      BY <1>2, <1>3 DEF ListsAgree, JobsAgree
    <2>4. QED
      BY <1>1, <2>1, <2>2, <2>3 DEF JobsAgree
  <1>6. ResultsAgree(t, results)
    BY <1>2, <1>3 DEF ListsAgree, ResultsAgree
  <1>7. EverybodyListed(t, results, F)
    BY <1>2 DEF ListsAgree, EverybodyListed
  <1>8. LoadsAgree(t)
    <2>1. \A x : Registered(t, x) = Registered(s, x)
      BY DEF Registered, KeyOf
    <2>2. QED
      BY <2>1 DEF ListsAgree, LoadsAgree, KeyOf
  <1>9. QueueAgrees(t)
    <2>1. /\ Unique(s.queue) /\ s.queue \in Seq(Keys)
          /\ \A i \in 1..Len(s.queue) : s.job[s.queue[i]].stage = "queued"
      BY DEF ListsAgree, QueueAgrees, Servers
    <2>2. {x \in Keys : t.job[x].stage # "none"}
             = {x \in Keys : s.job[x].stage # "none"}
      BY <1>1 DEF Busy
    <2>3. pending_reads(t) <= ReadLimit
      BY <2>2 DEF ListsAgree, QueueAgrees, pending_reads
    <2>4. CASE t.queue = s.queue /\ s.job[k].stage # "queued"
      <3>1. \A i \in 1..Len(s.queue) : s.queue[i] \in Keys \ {k}
        BY <2>1, <2>4
      <3>2. QED
        BY <1>1, <2>1, <2>3, <2>4, <3>1 DEF QueueAgrees
    <2>5. CASE s.queue # <<>> /\ t.queue = Tail(s.queue) /\ k = Head(s.queue)
      <3> DEFINE q == s.queue
                 p == t.queue
      <3>1. /\ Len(p) = Len(q) - 1 /\ Len(q) \in Nat /\ Len(q) > 0 /\ q[1] = k
            /\ \A i \in 1..Len(p) : i + 1 \in 1..Len(q) /\ p[i] = q[i + 1]
        BY <2>1, <2>5
      <3>2. ASSUME NEW i \in 1..Len(p) PROVE p[i] \in Keys \ {k}
        <4>1. q[i + 1] \in Keys /\ i + 1 \in 1..Len(q) /\ i + 1 # 1 /\ 1 \in 1..Len(q)
          BY <2>1, <3>1
        <4>2. q[i + 1] # q[1]
          BY <2>1, <4>1 DEF Unique
        <4>3. QED
          BY <3>1, <4>1, <4>2
      <3>3. ASSUME NEW i \in 1..Len(p), NEW j \in 1..Len(p), p[i] = p[j]
            PROVE  i = j
        <4>1. i + 1 = j + 1
          BY <2>1, <3>1, <3>3 DEF Unique
        <4>2. QED
          BY <3>1, <4>1
      <3>4. \A i \in 1..Len(p) : t.job[p[i]].stage = "queued"
        BY <1>1, <2>1, <3>1, <3>2
      <3>5. QED
        BY <2>3, <3>3, <3>4 DEF QueueAgrees, Unique
    <2>6. QED
      BY <2>4, <2>5
  <1>10. QED
    BY <1>4, <1>5, <1>6, <1>7, <1>8, <1>9 DEF ListsAgree

LEMMA LoadsDisjoint ==
    ASSUME NEW s, NEW x, NEW y, NEW p, NEW q,
           Attached(s, x, p), Attached(s, y, q), x # y
    PROVE  Disjoint(p, q)
  BY DEF Attached, Disjoint

\* A reader is done: those it has seen wait for its result, the others are
\* overlooked.
LEMMA JobFinished ==
    ASSUME NEW s \in Servers, NEW t \in Servers, NEW results, NEW r, NEW F,
           ListsAgree(s, results, F), NEW k \in Keys, s.job[k].stage = "snapped",
           t.job = [s.job EXCEPT ![k] = NoJob],
           Len(results) \in Nat, Len(r) = Len(results) + 1,
           \A i \in 1..Len(results) : r[i] = results[i],
           r[Len(r)].key = k, r[Len(r)].waiters = s.job[k].snapshot,
           t.request = s.request, t.ticket = s.ticket, t.load = s.load,
           t.waiting = s.waiting, t.queue = s.queue,
           t.overlooked = s.overlooked \cup
              (ToSet(s.job[k].waiters) \ ToSet(s.job[k].snapshot))
    PROVE  ListsAgree(t, r, F)
  <1> DEFINE q == s.job[k].waiters
             p == s.job[k].snapshot
  <1>1. t.job[k] = NoJob /\ \A x \in Keys \ {k} : t.job[x] = s.job[x]
    BY DEF Servers
  <1>2. NoJob.waiters = <<>> /\ NoJob.stage = "none"
    BY DEF NoJob
  <1>3. \A x, w : Attached(s, x, w) => Attached(t, x, w)
    BY DEF Attached
  <1>4. WaitersAgree(t, F)
    BY DEF ListsAgree, WaitersAgree
  <1>5. JobsAgree(t)
    <2>1. Attached(t, k, <<>>)
      BY DEF Attached, Unique
    <2>2. QED
      BY <1>1, <1>2, <1>3, <2>1 DEF ListsAgree, JobsAgree
  <1>6. EndOf(p, q) /\ Attached(s, k, q) /\ q \in Seq(Clients) /\ p \in Seq(Clients)
    <2>1. s.job[k] \in Jobs
      BY DEF Servers
    <2>2. QED
      BY <2>1 DEF ListsAgree, JobsAgree, Jobs
  <1>7. \A x : In(p, x) => In(q, x)
    <2> HIDE DEF p, q
    <2>1. ASSUME NEW i \in 1..Len(p) PROVE In(q, p[i])
      <3>1. i + (Len(q) - Len(p)) \in 1..Len(q)
        BY <1>6 DEF EndOf
      <3>2. QED
        BY <1>6, <3>1 DEF EndOf, In
    <2>2. QED
      BY <2>1 DEF In
  <1>8. Attached(s, k, p) /\ p # <<>>
    <2> HIDE DEF p, q
    <2>1. ASSUME NEW i \in 1..Len(p), NEW j \in 1..Len(p), p[i] = p[j]
          PROVE  i = j
      <3>1. /\ i + (Len(q) - Len(p)) \in 1..Len(q)
            /\ j + (Len(q) - Len(p)) \in 1..Len(q)
        BY <1>6 DEF EndOf
      <3>2. q[i + (Len(q) - Len(p))] = q[j + (Len(q) - Len(p))]
        BY <1>6, <2>1 DEF EndOf
      <3>3. i + (Len(q) - Len(p)) = j + (Len(q) - Len(p))
        BY <1>6, <3>1, <3>2 DEF Attached, Unique
      <3>4. QED
        BY <1>6, <3>3
    <2>2. \A i \in 1..Len(p) : In(q, p[i])
      BY <1>7 DEF In
    <2>3. QED
      BY <1>6, <2>1, <2>2 DEF Attached, Unique, In, EndOf
  <1>9. \A i \in 1..Len(r) : i \in 1..Len(results) \/ i = Len(r)
    OBVIOUS
  <1>10. /\ r[Len(r)].key = k /\ r[Len(r)].waiters = p
         /\ \A i \in 1..Len(results) : r[i] = results[i]
    OBVIOUS
  <1>11. ResultsAgree(t, r)
    <2>1. \A i \in 1..Len(results) :
             /\ results[i].waiters # <<>>
             /\ Attached(t, results[i].key, results[i].waiters)
             /\ \A x \in Keys : Disjoint(s.job[x].waiters, results[i].waiters)
      BY <1>3 DEF ListsAgree, ResultsAgree
    <2>2. \A w : Disjoint(<<>>, w)
      BY DEF Disjoint
    <2>3. \A i \in 1..Len(results), x \in Keys :
             Disjoint(t.job[x].waiters, results[i].waiters)
      BY <1>1, <1>2, <2>1, <2>2
    <2>4. ASSUME NEW x \in Keys PROVE Disjoint(t.job[x].waiters, p)
      <3>1. CASE x = k
        BY <1>1, <1>2, <2>2, <3>1
      <3>2. CASE x # k
        <4>1. Attached(s, x, s.job[x].waiters)
          BY DEF ListsAgree, JobsAgree
        <4>2. Disjoint(s.job[x].waiters, p)
          BY <1>8, <3>2, <4>1, LoadsDisjoint
        <4>3. QED
          BY <1>1, <3>2, <4>2
      <3>3. QED
        BY <3>1, <3>2
    <2>5. \A i \in 1..Len(results) :
             Disjoint(p, results[i].waiters) /\ Disjoint(results[i].waiters, p)
      BY <1>7, <2>1, DisjointIn
    <2>6. \A i, j \in 1..Len(results) :
             i # j => Disjoint(results[i].waiters, results[j].waiters)
      BY DEF ListsAgree, ResultsAgree
    <2>7. Attached(t, k, p)
      BY <1>3, <1>8
    <2> HIDE DEF p, q
    <2>8. \A i \in 1..Len(r) :
            /\ r[i].waiters # <<>>
            /\ Attached(t, r[i].key, r[i].waiters)
            /\ \A x \in Keys : Disjoint(t.job[x].waiters, r[i].waiters)
      BY <1>8, <1>9, <1>10, <2>1, <2>3, <2>4, <2>7
    <2>9. \A i, j \in 1..Len(r) :
            i # j => Disjoint(r[i].waiters, r[j].waiters)
      BY <1>9, <1>10, <2>5, <2>6
    <2>10. QED
      BY <2>8, <2>9 DEF ResultsAgree
  <1>12. EverybodyListed(t, r, F)
    <2> SUFFICES ASSUME NEW c \in Clients \ (t.overlooked \cup F),
                        s.request[c] # NoRequest
                 PROVE  \/ In(s.waiting, c)
                        \/ \E x \in Keys : In(t.job[x].waiters, c)
                        \/ \E i \in 1..Len(r) : In(r[i].waiters, c)
      BY DEF EverybodyListed
    <2>1. \/ In(s.waiting, c)
          \/ \E x \in Keys : In(s.job[x].waiters, c)
          \/ \E i \in 1..Len(results) : In(results[i].waiters, c)
      BY DEF ListsAgree, EverybodyListed
    <2>2. CASE In(q, c)
      <3>1. \A x : x \in ToSet(q) <=> In(q, x)
        BY <1>6 DEF ToSet, In
      <3>2. \A x : x \in ToSet(p) <=> In(p, x)
        BY <1>6 DEF ToSet, In
      <3>3. In(p, c)
        BY <2>2, <3>1, <3>2
      <3>4. Len(r) \in 1..Len(r)
        OBVIOUS
      <3>5. QED
        BY <1>10, <3>3, <3>4
    <2>3. CASE \E x \in Keys \ {k} : In(s.job[x].waiters, c)
      BY <1>1, <2>3
    <2>4. CASE \E i \in 1..Len(results) : In(results[i].waiters, c)
      BY <1>10, <2>4
    <2>5. QED
      BY <2>1, <2>2, <2>3, <2>4
  <1>13. LoadsAgree(t)
    <2>1. \A x : Registered(t, x) = Registered(s, x)
      BY DEF Registered, KeyOf
    <2>2. QED
      BY <2>1 DEF ListsAgree, LoadsAgree, KeyOf
  <1>14. QueueAgrees(t)
    <2> DEFINE P(u) == {x \in Keys : u.job[x].stage # "none"}
    <2>1. P(t) \subseteq P(s) /\ IsFiniteSet(P(s)) /\ P(s) \subseteq Keys
      BY <1>1, <1>2, Constants, FS_Subset
    <2>2. Cardinality(P(t)) <= Cardinality(P(s)) /\ Cardinality(P(s)) \in Nat
          /\ Cardinality(P(t)) \in Nat
      BY <2>1, FS_Subset, FS_CardinalityType
    <2>3. pending_reads(t) <= ReadLimit
      BY <2>2, Constants DEF ListsAgree, QueueAgrees, pending_reads
    <2>4. \A i \in 1..Len(s.queue) :
             s.job[s.queue[i]].stage = "queued" /\ s.queue[i] \in Keys
      <3>1. s.queue \in Seq(Keys)
        BY DEF Servers
      <3>2. QED
        BY <3>1 DEF ListsAgree, QueueAgrees
    <2>5. \A i \in 1..Len(s.queue) : t.job[s.queue[i]].stage = "queued"
      BY <1>1, <2>4
    <2>6. QED
      BY <2>3, <2>5 DEF ListsAgree, QueueAgrees
  <1>15. QED
    BY <1>4, <1>5, <1>11, <1>12, <1>13, <1>14 DEF ListsAgree

-----------------------------------------------------------------------------
(* How a request that is being worked on is settled: executed, answered with
   an error, or put into a list. *)

\* Readers are where they were, and have found what they had.
SameBusy(s, t) ==
    \A k \in Keys :
        /\ t.job[k].stage \in Busy <=> s.job[k].stage \in Busy
        /\ t.job[k].status = "found" =>
              s.job[k].status = "found" /\ t.job[k].row = s.job[k].row

\* What the other parts of the invariant have to know of it.
Settles(s, t, c) ==
    /\ t.completed = s.completed /\ t.applied = s.applied
    /\ \A k \in Keys : s.dirty[k] > s.applied => t.dirty[k] > s.applied
    /\ \A d \in Clients \ {c} : t.request[d] = s.request[d]
    /\ \/ t.waiting = s.waiting
       \/ /\ t.waiting = Append(s.waiting, c)
          /\ t.dirty[KeyOf(t, c)] > t.applied
    /\ SameBusy(s, t)

LEMMA WritingFinite ==
    ASSUME NEW s
    PROVE  IsFiniteSet(Writing(s)) /\ Cardinality(Writing(s)) \in Nat
  <1>1. IsFiniteSet(Writing(s))
    BY Constants, FS_Subset DEF Writing
  <1>2. QED
    BY <1>1, FS_CardinalityType

\* A write that is still to be made is within the bound.
LEMMA RoomToWrite ==
    ASSUME NEW s \in Servers, WritesBounded(s), NEW c \in Clients,
           s.request[c] \in Requests, IsWrite(s.request[c])
    PROVE  s.next_sequence < MaxWrites
  <1>1. c \in Writing(s)
    BY Constants DEF Writing
  <1>2. Cardinality(Writing(s)) # 0
    BY <1>1, WritingFinite, FS_EmptySet
  <1>3. QED
    BY <1>2, WritingFinite, Constants DEF WritesBounded, Servers

\* The request of c is over: it is no write to come any more.
LEMMA WritingEnds ==
    ASSUME NEW s \in Servers, NEW t \in Servers, NEW c \in Clients,
           s.request[c] \in Requests,
           t.request = [s.request EXCEPT ![c] = NoRequest]
    PROVE  Cardinality(Writing(t)) =
              Cardinality(Writing(s)) - (IF IsWrite(s.request[c]) THEN 1 ELSE 0)
  <1>1. /\ t.request[c] = NoRequest
        /\ \A d \in Clients \ {c} : t.request[d] = s.request[d]
    BY DEF Servers
  <1>2. CASE IsWrite(s.request[c])
    <2>1. Writing(t) = Writing(s) \ {c} /\ c \in Writing(s)
      BY <1>1, <1>2, Constants DEF Writing
    <2>2. QED
      BY <1>2, <2>1, WritingFinite, FS_RemoveElement
  <1>3. CASE ~IsWrite(s.request[c])
    <2>1. Writing(t) = Writing(s)
      BY <1>1, <1>3 DEF Writing
    <2>2. QED
      BY <1>3, <2>1, WritingFinite
  <1>4. QED
    BY <1>2, <1>3

\* kvstore_service_execute_with_barrier.
LEMMA SettledByExecution ==
    ASSUME NEW s, NEW t, NEW results, NEW c \in Clients, NEW request,
           Held(s, results, {c}), request = s.request[c],
           Performed(s, t, c, request)
    PROVE  Held(t, results, {})
  <1> DEFINE k == request.key
  <1>1. /\ s \in Servers /\ t \in Servers /\ ListsAgree(s, results, {c})
        /\ WritesBounded(s)
        /\ t.request = [s.request EXCEPT ![c] = NoRequest]
        /\ SameLists(s, t) /\ SameWaiters(s, t)
    BY DEF Held, Performed, SameLists, SameWaiters
  <1>2. request \in Requests /\ k \in Keys
    <2>1. request \in Requests
      BY <1>1 DEF ListsAgree, WaitersAgree
    <2>2. QED
      BY <2>1, Constants
  <1>3. LruAgrees(t)
    BY DEF Performed, CacheChanges
  <1>4. \A x \in Keys : /\ t.load[x].waiters = s.load[x].waiters
                        /\ t.load[x].generation >= s.load[x].generation
    <2>1. s.load \in [Keys -> [generation : Nat, waiters : Nat]]
      BY <1>1 DEF Servers
    <2>2. CASE t.load = s.load
      BY <2>1, <2>2
    <2>3. CASE t.load = [s.load EXCEPT ![k].generation = @ + 1]
      BY <1>2, <2>1, <2>3
    <2>4. QED
      BY <2>2, <2>3 DEF Performed, WriteTaken, WriteNotTaken
  <1>5. ListsAgree(t, results, {})
    BY <1>1, <1>4, RequestEnds
  <1>6. WritesBounded(t)
    <2>1. /\ Cardinality(Writing(t)) =
                Cardinality(Writing(s)) - (IF IsWrite(request) THEN 1 ELSE 0)
          /\ Cardinality(Writing(s)) \in Nat /\ Cardinality(Writing(t)) \in Nat
      BY <1>1, <1>2, WritingEnds, WritingFinite
    <2>2. s.next_sequence \in Nat /\ MaxWrites \in Nat
      BY <1>1, Constants DEF Servers
    <2>3. CASE Mutates(s, request)
      <3>1. t.next_sequence = s.next_sequence + 1
        BY <2>3 DEF Performed, WriteTaken, MutationOf
      <3>2. IsWrite(request)
        BY <2>3 DEF Mutates
      <3>3. QED
        BY <1>1, <2>1, <2>2, <3>1, <3>2 DEF WritesBounded
    <2>4. CASE ~Mutates(s, request)
      <3>1. t.next_sequence = s.next_sequence
        BY <2>4 DEF Performed, WriteNotTaken
      <3>2. QED
        BY <1>1, <2>1, <2>2, <3>1 DEF WritesBounded
    <2>5. QED
      BY <2>3, <2>4
  <1>7. QED
    BY <1>1, <1>3, <1>5, <1>6 DEF Held

LEMMA ExecutionSettles ==
    ASSUME NEW s, NEW t, NEW results, NEW c \in Clients, NEW request,
           NEW db, NEW w, Held(s, results, {c}), request = s.request[c],
           Performed(s, t, c, request), NumbersAgree(s, db, w)
    PROVE  Settles(s, t, c) /\ NumbersAgree(t, db, w)
  <1> DEFINE k == request.key
  <1>1. /\ s \in Servers /\ t \in Servers
        /\ t.request = [s.request EXCEPT ![c] = NoRequest]
        /\ SameLists(s, t)
    BY DEF Held, Performed
  <1>2. request \in Requests /\ k \in Keys
    <2>1. request \in Requests
      BY DEF Held, ListsAgree, WaitersAgree
    <2>2. QED
      BY <2>1, Constants
  <1>3. /\ s.dirty \in [Keys -> Nat] /\ s.next_sequence \in Nat /\ s.applied \in Nat
        /\ s.writes \in Seq(Mutations) /\ s.pending_writes \in Nat
    BY <1>1 DEF Servers
  <1>4. /\ \A x \in Keys : s.dirty[x] <= s.next_sequence
        /\ s.applied <= s.next_sequence
        /\ s.pending_writes = s.next_sequence - s.applied
    BY <1>3 DEF NumbersAgree
  <1>5. CASE Mutates(s, request)
    <2> DEFINE n == s.next_sequence + 1
               m == MutationOf(s, request)
    <2>1. /\ t.writes = Append(s.writes, m) /\ t.pending_writes = s.pending_writes + 1
          /\ t.next_sequence = n /\ t.dirty = [s.dirty EXCEPT ![k] = n]
          /\ m.sequence = n
      BY <1>5 DEF Performed, WriteTaken, MutationOf
    <2>2. t.dirty[k] = n /\ \A x \in Keys \ {k} : t.dirty[x] = s.dirty[x]
      BY <1>2, <1>3, <2>1
    <2>3. \A x \in Keys : s.dirty[x] > s.applied => t.dirty[x] > s.applied
      BY <1>3, <1>4, <2>2
    <2>4. /\ Len(t.writes) = Len(s.writes) + 1 /\ t.writes[Len(s.writes) + 1] = m
          /\ \A i \in 1..Len(s.writes) : t.writes[i] = s.writes[i]
      BY <1>3, <2>1
    <2>5. Taken(t) = Taken(s) /\ Taken(s) \in Nat
          /\ n = Taken(s) + (Len(s.writes) + 1)
      <3>1. Taken(s) \in Nat
        BY DEF NumbersAgree
      <3>2. Len(s.writes) \in Nat
        BY <1>3
      <3>3. /\ t.next_sequence = s.next_sequence + 1 /\ s.next_sequence \in Nat
            /\ Len(t.writes) = Len(s.writes) + 1
        BY <1>3, <2>1, <2>4
      <3>4. /\ Taken(s) = s.next_sequence - Len(s.writes)
            /\ Taken(t) = t.next_sequence - Len(t.writes)
        BY DEF Taken
      <3>5. QED
        BY <3>1, <3>2, <3>3, <3>4
    <2>6. \A i \in 1..Len(t.writes) : t.writes[i].sequence = Taken(t) + i
      <3>1. \A i \in 1..Len(t.writes) :
               i \in 1..Len(s.writes) \/ i = Len(s.writes) + 1
        BY <1>3, <2>4
      <3>2. QED
        BY <2>1, <2>4, <2>5, <3>1 DEF NumbersAgree
    <2>7. t.pending_writes <= WriteLimit /\ t.pending_writes = n - t.applied
      BY <1>1, <1>3, <1>4, <1>5, <2>1, Constants
      DEF Mutates, can_accept_write, SameLists
    <2>8. \A x \in Keys : t.dirty[x] <= n
      BY <1>3, <1>4, <2>2
    <2>9. t.applied = s.applied
      BY <1>1 DEF SameLists
    <2>10. NumbersAgree(t, db, w)
      BY <2>1, <2>5, <2>6, <2>7, <2>8, <2>9 DEF NumbersAgree
    <2>11. QED
      BY <1>1, <2>3, <2>10 DEF Settles, SameBusy, SameLists, Servers
  <1>6. CASE ~Mutates(s, request)
    <2>1. WriteNotTaken(s, t)
      BY <1>6 DEF Performed
    <2>2. NumbersAgree(t, db, w)
      BY <1>1, <2>1 DEF NumbersAgree, WriteNotTaken, SameLists, Taken
    <2>3. QED
      BY <1>1, <2>1, <2>2 DEF Settles, SameBusy, SameLists, WriteNotTaken, Servers
  <1>7. QED
    BY <1>5, <1>6

\* What the store and the dispatcher do without a write: the numbers stay.
SameNumbers(s, t) ==
    /\ t.writes = s.writes
    /\ t.pending_writes = s.pending_writes
    /\ t.next_sequence = s.next_sequence
    /\ t.applied = s.applied

LEMMA NumbersFrame ==
    ASSUME NEW s, NEW t, NEW db, NEW w, NumbersAgree(s, db, w), SameNumbers(s, t),
           \A k \in Keys : t.dirty[k] \in {0, s.dirty[k]},
           s.next_sequence \in Nat
    PROVE  NumbersAgree(t, db, w)
  <1>1. \A k \in Keys : t.dirty[k] <= t.next_sequence
    BY DEF NumbersAgree, SameNumbers
  <1>2. Taken(t) = Taken(s)
    BY DEF Taken, SameNumbers
  <1>3. QED
    BY <1>1, <1>2 DEF NumbersAgree, SameNumbers

\* The answer is an error: TRYAGAIN, or what the load ended with.
LEMMA SettledByError ==
    ASSUME NEW s, NEW t, NEW results, NEW c \in Clients, NEW db, NEW w,
           Held(s, results, {c}), t = Answered(s, c), NumbersAgree(s, db, w)
    PROVE  /\ Held(t, results, {}) /\ Settles(s, t, c) /\ NumbersAgree(t, db, w)
           /\ SameValues(s, t) /\ t.load = s.load /\ SameWaiters(s, t)
           /\ t.request = [s.request EXCEPT ![c] = NoRequest]
           /\ t.tail_gone = s.tail_gone
  <1>1. /\ s \in Servers /\ ListsAgree(s, results, {c}) /\ LruAgrees(s)
        /\ WritesBounded(s) /\ s.request[c] \in Requests
    BY DEF Held, ListsAgree, WaitersAgree
  <1> DEFINE request == [s.request EXCEPT ![c] = NoRequest]
  <1>2. t = [s EXCEPT !.request = request]
    BY <1>1 DEF Answered
  <1>3. request \in [Clients -> Requests \cup {NoRequest}]
    BY <1>1 DEF Servers
  <1> HIDE DEF request
  <1>4. t \in Servers /\ t.request = request /\ t.load = s.load
        /\ t.tail_gone = s.tail_gone
    BY <1>1, <1>2, <1>3 DEF Servers
  <1>5. SameWaiters(s, t) /\ SameValues(s, t)
    BY <1>1, <1>2 DEF Servers, SameWaiters, SameValues
  <1>6. \A k \in Keys : /\ t.load[k].waiters = s.load[k].waiters
                        /\ t.load[k].generation >= s.load[k].generation
    <2>1. s.load \in [Keys -> [generation : Nat, waiters : Nat]]
      BY <1>1 DEF Servers
    <2>2. QED
      BY <1>4, <2>1
  <1>7. ListsAgree(t, results, {})
    BY <1>1, <1>4, <1>5, <1>6, RequestEnds DEF request
  <1>8. LruAgrees(t)
    BY <1>1, <1>5 DEF LruAgrees, Cached, SameValues
  <1>9. WritesBounded(t)
    <2>1. /\ Cardinality(Writing(t)) =
                Cardinality(Writing(s)) - (IF IsWrite(s.request[c]) THEN 1 ELSE 0)
          /\ Cardinality(Writing(s)) \in Nat /\ Cardinality(Writing(t)) \in Nat
      BY <1>1, <1>4, WritingEnds, WritingFinite DEF request
    <2>2. s.next_sequence \in Nat /\ MaxWrites \in Nat
      BY <1>1, Constants DEF Servers
    <2>3. QED
      BY <1>1, <1>5, <2>1, <2>2 DEF WritesBounded, SameValues
  <1>10. NumbersAgree(t, db, w)
    BY <1>1, <1>5, NumbersFrame DEF SameValues, SameNumbers, Servers
  <1>11. \A d \in Clients \ {c} : t.request[d] = s.request[d]
    BY <1>1, <1>4 DEF request, Servers
  <1>12. Settles(s, t, c)
    BY <1>5, <1>11 DEF Settles, SameBusy, SameValues, SameWaiters
  <1>13. QED
    BY <1>4, <1>5, <1>7, <1>8, <1>9, <1>10, <1>12 DEF Held, request

\* mysql_store_submit_load takes the request.
LEMMA SettledByLoad ==
    ASSUME NEW s, NEW t, NEW results, NEW c \in Clients, NEW k \in Keys,
           NEW db, NEW w, Held(s, results, {c}), NumbersAgree(s, db, w),
           KeyOf(s, c) = k, s.job[k].stage # "none" \/ pending_reads(s) < ReadLimit,
           t = submit_load(register_pending_load(s, c), c, k)
    PROVE  /\ Held(t, results, {}) /\ Settles(s, t, c) /\ NumbersAgree(t, db, w)
           /\ JobJoined(s, t, c, k) /\ SameValues(s, t)
           /\ t.tail_gone = s.tail_gone
  <1>1. /\ s \in Servers /\ ListsAgree(s, results, {c}) /\ LruAgrees(s)
        /\ WritesBounded(s)
    BY DEF Held
  <1>2. t \in Servers /\ JobJoined(s, t, c, k) /\ SameValues(s, t)
        /\ t.tail_gone = s.tail_gone
    BY <1>1, JobJoinedFacts
  <1>3. ListsAgree(t, results, {})
    BY <1>1, <1>2, LoadJoined
  <1>4. LruAgrees(t)
    BY <1>1, <1>2 DEF LruAgrees, Cached, SameValues
  <1>5. t.request = s.request /\ t.waiting = s.waiting
    BY <1>2 DEF JobJoined
  <1>6. Writing(t) = Writing(s)
    BY <1>5 DEF Writing
  <1>7. WritesBounded(t)
    BY <1>1, <1>2, <1>6 DEF WritesBounded, SameValues
  <1>8. NumbersAgree(t, db, w)
    BY <1>1, <1>2, NumbersFrame DEF SameValues, SameNumbers, Servers
  <1>9. ASSUME NEW x \in Keys
        PROVE  /\ t.job[x].stage \in Busy <=> s.job[x].stage \in Busy
               /\ t.job[x].status = "found" =>
                     s.job[x].status = "found" /\ t.job[x].row = s.job[x].row
    <2>1. CASE x # k
      BY <1>2, <2>1 DEF JobJoined
    <2>2. CASE x = k /\ s.job[k].stage # "none"
      <3>1. s.job[k] \in Jobs
        BY <1>1 DEF Servers
      <3>2. t.job[k] = [s.job[k] EXCEPT !.waiters = <<c>> \o s.job[k].waiters]
        BY <1>2, <2>2 DEF JobJoined
      <3>3. /\ t.job[k].stage = s.job[k].stage /\ t.job[k].row = s.job[k].row
            /\ t.job[k].status = s.job[k].status
        BY <3>1, <3>2 DEF Jobs
      <3>4. QED
        BY <2>2, <3>3
    <2>3. CASE x = k /\ s.job[k].stage = "none"
      <3>1. t.job[k] = [NoJob EXCEPT !.stage = "queued", !.waiters = <<c>>]
        BY <1>2, <2>3 DEF JobJoined
      <3>2. t.job[k].stage = "queued" /\ t.job[k].status = "none"
        BY <3>1 DEF NoJob
      <3>3. QED
        BY <2>3, <3>2 DEF Busy
    <2>4. QED
      BY <2>1, <2>2, <2>3
  <1>10. Settles(s, t, c)
    BY <1>2, <1>5, <1>9 DEF Settles, SameValues, SameBusy
  <1>11. QED
    BY <1>2, <1>3, <1>4, <1>7, <1>8, <1>10 DEF Held

\* queue_dirty_waiter takes it.
LEMMA SettledByWaiting ==
    ASSUME NEW s, NEW t, NEW results, NEW c \in Clients, NEW k \in Keys,
           NEW db, NEW w, Held(s, results, {c}), NumbersAgree(s, db, w),
           KeyOf(s, c) = k, ~MayLoad(s, k), t = queue_dirty_waiter(s, c)
    PROVE  /\ Held(t, results, {}) /\ Settles(s, t, c) /\ NumbersAgree(t, db, w)
           /\ SameValues(s, t) /\ t.request = s.request /\ t.load = s.load
           /\ t.ticket = s.ticket /\ t.job = s.job
           /\ t.tail_gone = s.tail_gone
  <1>1. /\ s \in Servers /\ ListsAgree(s, results, {c}) /\ LruAgrees(s)
        /\ WritesBounded(s)
    BY DEF Held
  <1>2. t \in Servers /\ ListsAgree(t, results, {})
    BY <1>1, WaiterQueued
  <1>3. PICK overlooked, waiting :
            /\ t = [s EXCEPT !.overlooked = overlooked, !.waiting = waiting]
            /\ waiting \in {s.waiting, Append(s.waiting, c)}
    <2>1. s = [s EXCEPT !.overlooked = s.overlooked, !.waiting = s.waiting]
      BY <1>1 DEF Servers
    <2>2. CASE s.tail_gone
      <3>1. t = [s EXCEPT !.overlooked = s.overlooked \cup {c}, !.waiting = s.waiting]
        BY <1>1, <2>2 DEF queue_dirty_waiter, Servers
      <3>2. QED
        BY <3>1
    <2>3. CASE ~s.tail_gone
      <3>1. t = [s EXCEPT !.overlooked = s.overlooked,
                          !.waiting = Append(s.waiting, c)]
        BY <1>1, <2>3 DEF queue_dirty_waiter, Servers
      <3>2. QED
        BY <3>1
    <2>4. QED
      BY <2>2, <2>3
  <1>4. /\ t.request = s.request /\ t.load = s.load /\ t.ticket = s.ticket
        /\ t.job = s.job /\ t.tail_gone = s.tail_gone
        /\ t.waiting \in {s.waiting, Append(s.waiting, c)}
    BY <1>1, <1>3 DEF Servers
  <1>5. SameValues(s, t)
    BY <1>1, <1>3 DEF Servers, SameValues
  <1>6. LruAgrees(t)
    BY <1>1, <1>5 DEF LruAgrees, Cached, SameValues
  <1>7. Writing(t) = Writing(s)
    BY <1>4 DEF Writing
  <1>8. WritesBounded(t)
    BY <1>1, <1>5, <1>7 DEF WritesBounded, SameValues
  <1>9. NumbersAgree(t, db, w)
    BY <1>1, <1>5, NumbersFrame DEF SameValues, SameNumbers, Servers
  <1>10. s.dirty[k] > s.applied
    BY <1>1 DEF MayLoad, dirty_key_sequence, Servers
  <1>11. Settles(s, t, c)
    BY <1>4, <1>5, <1>10 DEF Settles, SameBusy, SameValues, KeyOf
  <1>12. QED
    BY <1>2, <1>4, <1>5, <1>6, <1>8, <1>9, <1>11 DEF Held

LEMMA HeldFrame ==
    ASSUME NEW s, NEW t \in Servers, NEW results, NEW F, Held(s, results, F),
           SameWaiters(s, t), t.request = s.request, t.load = s.load,
           t.cache = s.cache, t.lru = s.lru, t.next_sequence = s.next_sequence
    PROVE  Held(t, results, F)
  <1>1. ListsAgree(t, results, F)
    BY ListsFrame DEF Held
  <1>2. LruAgrees(t)
    BY DEF Held, LruAgrees, Cached
  <1>3. Writing(t) = Writing(s)
    BY DEF Writing
  <1>4. WritesBounded(t)
    BY <1>3 DEF Held, WritesBounded
  <1>5. QED
    BY <1>1, <1>2, <1>4 DEF Held

\* Marks of writes that MySQL has are dropped, and nothing else.
OnlyDirty(s, t) ==
    /\ t \in Servers
    /\ SameWaiters(s, t) /\ SameNumbers(s, t)
    /\ t.request = s.request /\ t.load = s.load /\ t.tail_gone = s.tail_gone
    /\ t.cache = s.cache /\ t.lru = s.lru /\ t.negative = s.negative
    /\ t.completed = s.completed /\ t.stale = s.stale
    /\ \A k \in Keys : /\ t.dirty[k] \in {0, s.dirty[k]}
                       /\ s.dirty[k] > s.applied => t.dirty[k] = s.dirty[k]

LEMMA PurgeFacts ==
    ASSUME NEW s \in Servers, NEW keys, NEW t,
           t = purge_applied_dirty_keys(s, keys)
    PROVE  OnlyDirty(s, t)
  <1> DEFINE dirty == [k \in Keys |-> IF k \in keys /\ s.dirty[k] <= s.applied
                                      THEN 0 ELSE s.dirty[k]]
  <1>1. t = [s EXCEPT !.dirty = dirty]
    BY DEF purge_applied_dirty_keys
  <1>2. s.dirty \in [Keys -> Nat] /\ s.applied \in Nat
    BY DEF Servers
  <1>3. dirty \in [Keys -> Nat]
    BY <1>2
  <1>4. \A k \in Keys : /\ dirty[k] \in {0, s.dirty[k]}
                        /\ s.dirty[k] > s.applied => dirty[k] = s.dirty[k]
    BY <1>2
  <1> HIDE DEF dirty
  <1>5. t \in Servers /\ t.dirty = dirty
    BY <1>1, <1>3 DEF Servers
  <1>6. SameWaiters(s, t) /\ SameNumbers(s, t)
    BY <1>1 DEF Servers, SameWaiters, SameNumbers
  <1>7. /\ t.request = s.request /\ t.load = s.load /\ t.tail_gone = s.tail_gone
        /\ t.cache = s.cache /\ t.lru = s.lru /\ t.negative = s.negative
        /\ t.completed = s.completed /\ t.stale = s.stale
    BY <1>1 DEF Servers
  <1>8. QED
    BY <1>4, <1>5, <1>6, <1>7 DEF OnlyDirty

LEMMA PurgeHeld ==
    ASSUME NEW s, NEW t, NEW results, NEW F, NEW db, NEW w,
           Held(s, results, F), NumbersAgree(s, db, w), OnlyDirty(s, t)
    PROVE  Held(t, results, F) /\ NumbersAgree(t, db, w)
  <1>1. Held(t, results, F)
    BY HeldFrame DEF OnlyDirty, SameNumbers
  <1>2. s.next_sequence \in Nat
    BY DEF Held, Servers
  <1>3. NumbersAgree(t, db, w)
    BY <1>2, NumbersFrame DEF OnlyDirty
  <1>4. QED
    BY <1>1, <1>3

\* A miss is settled one way or another.
Settled(s, t, c, results, db, w) ==
    /\ Held(t, results, {})
    /\ Settles(s, t, c)
    /\ NumbersAgree(t, db, w)

LEMMA LoadSettles ==
    ASSUME NEW s, NEW t, NEW results, NEW c \in Clients, NEW k \in Keys,
           NEW db, NEW w, Held(s, results, {c}), NumbersAgree(s, db, w),
           KeyOf(s, c) = k, t = Load(s, c, k)
    PROVE  Settled(s, t, c, results, db, w)
  <1>1. CASE s.job[k].stage # "none" \/ pending_reads(s) < ReadLimit
    BY <1>1, SettledByLoad DEF Load, Settled
  <1>2. CASE ~(s.job[k].stage # "none" \/ pending_reads(s) < ReadLimit)
    BY <1>2, SettledByError DEF Load, Settled
  <1>3. QED
    BY <1>1, <1>2

LEMMA MissSettles ==
    ASSUME NEW s, NEW t, NEW results, NEW c \in Clients, NEW k \in Keys,
           NEW db, NEW w, Held(s, results, {c}), NumbersAgree(s, db, w),
           KeyOf(s, c) = k, t = Miss(s, c, k)
    PROVE  Settled(s, t, c, results, db, w)
  <1>1. CASE MayLoad(s, k)
    <2> DEFINE u == purge_applied_dirty_keys(s, {k})
    <2>1. OnlyDirty(s, u)
      BY PurgeFacts DEF Held
    <2>2. t = Load(u, c, k)
      BY <1>1 DEF Miss
    <2> HIDE DEF u
    <2>3. Held(u, results, {c}) /\ NumbersAgree(u, db, w)
      BY <2>1, PurgeHeld
    <2>4. KeyOf(u, c) = k
      BY <2>1 DEF KeyOf, OnlyDirty
    <2>5. Settled(u, t, c, results, db, w)
      BY <2>2, <2>3, <2>4, LoadSettles
    <2>6. Settles(s, t, c)
      BY <2>1, <2>5
      DEF Settled, Settles, SameBusy, OnlyDirty, SameNumbers, SameWaiters
    <2>7. QED
      BY <2>5, <2>6 DEF Settled
  <1>2. CASE ~MayLoad(s, k)
    BY <1>2, SettledByWaiting DEF Miss, Settled
  <1>3. QED
    BY <1>1, <1>2

LEMMA ExecuteSettles ==
    ASSUME NEW s, NEW t, NEW results, NEW c \in Clients,
           NEW db, NEW w, Held(s, results, {c}), NumbersAgree(s, db, w),
           t = Execute(s, c, s.request[c])
    PROVE  /\ Settled(s, t, c, results, db, w)
           /\ Performed(s, t, c, s.request[c])
  <1>1. s \in Servers /\ LruAgrees(s) /\ s.request[c] \in Requests /\ WritesBounded(s)
    BY DEF Held, ListsAgree, WaitersAgree
  <1>2. IsWrite(s.request[c]) => s.next_sequence < MaxWrites
    BY <1>1, RoomToWrite
  <1>3. Performed(s, t, c, s.request[c])
    BY <1>1, <1>2, ExecuteFacts
  <1>4. Held(t, results, {})
    BY <1>3, SettledByExecution
  <1>5. Settles(s, t, c) /\ NumbersAgree(t, db, w)
    BY <1>3, ExecutionSettles
  <1>6. QED
    BY <1>3, <1>4, <1>5 DEF Settled

-----------------------------------------------------------------------------
(* The invariant of a state in the middle of a handler, and at its end. *)

Sound(s, r, results, F, db, w, bell, rings) ==
    /\ Held(s, results, F)
    /\ NumbersAgree(s, db, w)
    /\ Awake(s, r, bell, rings, w)
    /\ r.kept \in Nat /\ r.kept <= Len(s.waiting)
    /\ \A i \in 1..Len(s.completed) : s.completed[i].verdict = "none"

LEMMA SettledSound ==
    ASSUME NEW s, NEW t, NEW r, NEW results, NEW c \in Clients, NEW db, NEW w,
           NEW bell, NEW rings, Sound(s, r, results, {c}, db, w, bell, rings),
           Settled(s, t, c, results, db, w)
    PROVE  Sound(t, r, results, {}, db, w, bell, rings)
  <1>1. /\ s \in Servers /\ t \in Servers /\ s.waiting \in Seq(Clients)
        /\ \A i \in 1..Len(s.waiting) : s.waiting[i] # c
        /\ \A i \in 1..Len(s.waiting) : s.request[s.waiting[i]] \in Requests
    <2>1. s \in Servers /\ t \in Servers /\ WaitersAgree(s, {c})
      BY DEF Sound, Settled, Held, ListsAgree
    <2>2. s.waiting \in Seq(Clients)
      BY <2>1 DEF Servers
    <2>3. QED
      BY <2>1, <2>2 DEF WaitersAgree, In
  <1>2. Settles(s, t, c)
    BY DEF Settled
  <1>3. /\ Len(t.waiting) >= Len(s.waiting) /\ Len(t.waiting) \in Nat
        /\ \A i \in 1..Len(s.waiting) : t.waiting[i] = s.waiting[i]
        /\ \A i \in 1..Len(t.waiting) : i \notin 1..Len(s.waiting) =>
              t.waiting[i] = c /\ t.dirty[KeyOf(t, c)] > t.applied
    BY <1>1, <1>2 DEF Settles
  <1>4. ASSUME NEW i \in 1..Len(t.waiting)
        PROVE  \/ t.dirty[KeyOf(t, t.waiting[i])] > t.applied
               \/ bell
               \/ w.stage = "published"
               \/ r.stage = "waiters" /\ r.kept < i
    <2>1. CASE i \in 1..Len(s.waiting)
      <3> DEFINE d == s.waiting[i]
      <3>1. d \in Clients \ {c} /\ s.request[d] \in Requests
        BY <1>1, <2>1
      <3>2. KeyOf(t, d) = KeyOf(s, d) /\ KeyOf(s, d) \in Keys
        BY <1>2, <3>1, Constants DEF Settles, KeyOf
      <3>3. \/ s.dirty[KeyOf(s, d)] > s.applied
            \/ bell
            \/ w.stage = "published"
            \/ r.stage = "waiters" /\ r.kept < i
        BY <2>1 DEF Sound, Awake
      <3>4. QED
        BY <1>2, <1>3, <2>1, <3>2, <3>3 DEF Settles
    <2>2. CASE i \notin 1..Len(s.waiting)
      BY <1>3, <2>2
    <2>3. QED
      BY <2>1, <2>2
  <1>5. Awake(t, r, bell, rings, w)
    BY <1>2, <1>4 DEF Awake, Sound, Settles
  <1>6. r.kept \in Nat /\ r.kept <= Len(t.waiting)
    BY <1>1, <1>3 DEF Sound
  <1>7. QED
    BY <1>2, <1>5, <1>6 DEF Sound, Settled, Settles

SameJobs(s, t) == t.job = s.job /\ t.completed = s.completed /\ t.cache = s.cache

MayOpen(s0, c, request) ==
    /\ s0.request[c] = NoRequest
    /\ IsWrite(request) =>
          s0.next_sequence + Cardinality(Writing(s0)) < MaxWrites

Opens(s0, s, c, request, negative) ==
    s = [s0 EXCEPT !.negative = negative,
                   !.request = [s0.request EXCEPT ![c] = request]]

\* dispatch_request begins with a request: the negative entry of what is to be
\* written goes, and the request is being worked on.
LEMMA DispatchBegins ==
    ASSUME NEW s0, NEW r, NEW results, NEW db, NEW w, NEW bell, NEW rings,
           Sound(s0, r, results, {}, db, w, bell, rings), NEW c \in Clients,
           NEW request \in Requests, MayOpen(s0, c, request),
           NEW negative \in SUBSET Keys, NEW s, Opens(s0, s, c, request, negative)
    PROVE  /\ Sound(s, r, results, {c}, db, w, bell, rings)
           /\ SameJobs(s0, s)
  <1> USE DEF MayOpen
  <1>1. /\ s0 \in Servers /\ ListsAgree(s0, results, {}) /\ LruAgrees(s0)
        /\ WritesBounded(s0) /\ NumbersAgree(s0, db, w)
    BY DEF Sound, Held
  <1> DEFINE requests == [s0.request EXCEPT ![c] = request]
  <1>2. requests \in [Clients -> Requests \cup {NoRequest}]
    BY <1>1 DEF Servers
  <1>3. /\ requests[c] = request
        /\ \A d \in Clients \ {c} : requests[d] = s0.request[d]
    BY <1>1 DEF Servers
  <1>4. s = [s0 EXCEPT !.negative = negative, !.request = requests]
    BY DEF Opens
  <1> HIDE DEF requests
  <1>5. /\ s \in Servers /\ s.request = requests /\ s.load = s0.load
        /\ s.cache = s0.cache /\ s.lru = s0.lru /\ s.completed = s0.completed
        /\ s.dirty = s0.dirty
    BY <1>1, <1>2, <1>4 DEF Servers
  <1>6. SameWaiters(s0, s) /\ SameNumbers(s0, s)
    BY <1>1, <1>4 DEF Servers, SameWaiters, SameNumbers
  <1>7. ListsAgree(s, results, {c})
    BY <1>1, <1>5, <1>6, RequestBegins DEF requests
  <1>8. LruAgrees(s)
    BY <1>1, <1>5 DEF LruAgrees, Cached
  <1>9. WritesBounded(s)
    <2>1. s0.next_sequence \in Nat /\ s.next_sequence = s0.next_sequence
      BY <1>1, <1>6 DEF Servers, SameNumbers
    <2>2. CASE IsWrite(request)
      <3>1. Writing(s) = Writing(s0) \cup {c} /\ c \notin Writing(s0)
        BY <1>3, <1>5, <2>2, Constants DEF Writing
      <3>2. Cardinality(Writing(s)) = Cardinality(Writing(s0)) + 1
        BY <3>1, WritingFinite, FS_AddElement
      <3>3. QED
        BY <2>1, <2>2, <3>2, WritingFinite, Constants DEF WritesBounded
    <2>3. CASE ~IsWrite(request)
      <3>1. Writing(s) = Writing(s0)
        BY <1>3, <1>5, <2>3 DEF Writing
      <3>2. QED
        BY <1>1, <2>1, <3>1 DEF WritesBounded
    <2>4. QED
      BY <2>2, <2>3
  <1>10. NumbersAgree(s, db, w)
    BY <1>1, <1>5, <1>6, NumbersFrame DEF Servers
  <1>11. \A i \in 1..Len(s0.waiting) :
            s0.waiting[i] \in Clients \ {c} /\ s.waiting = s0.waiting
    <2>1. s0.waiting \in Seq(Clients)
      BY <1>1 DEF Servers
    <2>2. \A d \in Clients : In(s0.waiting, d) => s0.request[d] \in Requests
      BY <1>1 DEF ListsAgree, WaitersAgree
    <2>3. ~In(s0.waiting, c)
      BY <2>2, Constants
    <2>4. QED
      BY <1>6, <2>1, <2>3 DEF In, SameWaiters
  <1>12. Awake(s, r, bell, rings, w)
    BY <1>3, <1>5, <1>6, <1>11 DEF Sound, Awake, KeyOf, SameWaiters, SameNumbers
  <1>13. Sound(s, r, results, {c}, db, w, bell, rings)
    BY <1>5, <1>6, <1>7, <1>8, <1>9, <1>10, <1>12 DEF Sound, Held, SameWaiters
  <1>14. QED
    BY <1>3, <1>5, <1>6, <1>13 DEF SameWaiters, SameJobs

Drained(u, s, i, gone) ==
    s = [u EXCEPT !.waiting = RemoveAt(u.waiting, i), !.tail_gone = gone]

\* drain_dirty_waiters begins with the waiter behind those it has kept.
LEMMA DrainBegins ==
    ASSUME NEW s0, NEW r, NEW results, NEW db, NEW w, NEW bell, NEW rings,
           Sound(s0, r, results, {}, db, w, bell, rings),
           NEW i \in 1..Len(s0.waiting), i = r.kept + 1, NEW u, OnlyDirty(s0, u),
           NEW gone \in BOOLEAN, NEW s, Drained(u, s, i, gone)
    PROVE  /\ Sound(s, r, results, {s0.waiting[i]}, db, w, bell, rings)
           /\ SameJobs(s0, s)
  <1>1. /\ s0 \in Servers /\ u \in Servers /\ Held(u, results, {})
        /\ NumbersAgree(u, db, w)
    BY PurgeHeld DEF Sound, Held, OnlyDirty
  <1> DEFINE waiting == RemoveAt(u.waiting, i)
  <1>2. u.waiting = s0.waiting /\ u.waiting \in Seq(Clients)
    BY <1>1 DEF OnlyDirty, SameWaiters, Servers
  <1>3. /\ waiting \in Seq(Clients) /\ Len(waiting) = Len(s0.waiting) - 1
        /\ \A j \in 1..Len(waiting) :
              waiting[j] = IF j < i THEN s0.waiting[j] ELSE s0.waiting[j + 1]
    BY <1>2, RemoveAtSeq
  <1>4. s = [u EXCEPT !.waiting = waiting, !.tail_gone = gone]
    BY DEF Drained
  <1>5. waiting = RemoveAt(u.waiting, i)
    OBVIOUS
  <1> HIDE DEF waiting
  <1>6. /\ s \in Servers /\ s.waiting = waiting /\ s.request = u.request
        /\ s.ticket = u.ticket /\ s.load = u.load /\ s.overlooked = u.overlooked
        /\ s.job = u.job /\ s.queue = u.queue /\ s.cache = u.cache
        /\ s.lru = u.lru /\ s.completed = u.completed /\ s.dirty = u.dirty
    BY <1>1, <1>3, <1>4 DEF Servers
  <1>7. SameNumbers(u, s)
    BY <1>1, <1>4 DEF Servers, SameNumbers
  <1>8. ListsAgree(s, results, {u.waiting[i]})
    BY <1>1, <1>2, <1>5, <1>6, WaiterTaken DEF Held
  <1>9. LruAgrees(s)
    BY <1>1, <1>6 DEF Held, LruAgrees, Cached
  <1>10. WritesBounded(s)
    <2>1. Writing(s) = Writing(u)
      BY <1>6 DEF Writing
    <2>2. QED
      BY <1>1, <1>7, <2>1 DEF Held, WritesBounded, SameNumbers
  <1>11. NumbersAgree(s, db, w)
    BY <1>1, <1>6, <1>7, NumbersFrame DEF Servers
  <1>12. r.kept \in Nat /\ r.kept <= Len(waiting)
    BY <1>2, <1>3 DEF Sound
  <1>13. ASSUME NEW j \in 1..Len(waiting)
         PROVE  \/ s.dirty[KeyOf(s, waiting[j])] > s.applied
                \/ bell
                \/ w.stage = "published"
                \/ r.stage = "waiters" /\ r.kept < j
    <2> DEFINE l == IF j < i THEN j ELSE j + 1
    <2>1. l \in 1..Len(s0.waiting) /\ waiting[j] = s0.waiting[l]
      BY <1>2, <1>3
    <2>2. \/ s0.dirty[KeyOf(s0, s0.waiting[l])] > s0.applied
          \/ bell
          \/ w.stage = "published"
          \/ r.stage = "waiters" /\ r.kept < l
      BY <2>1 DEF Sound, Awake
    <2>3. KeyOf(s, waiting[j]) = KeyOf(s0, s0.waiting[l])
      BY <1>6, <2>1 DEF KeyOf, OnlyDirty
    <2>4. KeyOf(s0, s0.waiting[l]) \in Keys
      <3>1. In(s0.waiting, s0.waiting[l]) /\ s0.waiting[l] \in Clients
        BY <1>2, <2>1 DEF In
      <3>2. s0.request[s0.waiting[l]] \in Requests
        BY <3>1 DEF Sound, Held, ListsAgree, WaitersAgree
      <3>3. QED
        BY <3>2, Constants DEF KeyOf
    <2>5. r.kept < l => r.kept < j
      BY <1>2, <1>3, <1>12
    <2>6. s.applied = s0.applied
      BY <1>7 DEF OnlyDirty, SameNumbers
    <2>7. s0.dirty[KeyOf(s0, s0.waiting[l])] > s0.applied =>
             s.dirty[KeyOf(s0, s0.waiting[l])] > s0.applied
      BY <1>6, <2>4 DEF OnlyDirty
    <2> HIDE DEF l
    <2>8. QED
      BY <2>2, <2>3, <2>5, <2>6, <2>7
  <1>14. Awake(s, r, bell, rings, w)
    <2>1. s.completed # <<>> => bell \/ rings > 0 \/ r.stage = "waiters"
      BY <1>6 DEF Sound, Awake, OnlyDirty
    <2>2. QED
      BY <1>6, <1>13, <2>1 DEF Awake
  <1>15. Sound(s, r, results, {s0.waiting[i]}, db, w, bell, rings)
    <2>1. Held(s, results, {s0.waiting[i]})
      BY <1>2, <1>6, <1>8, <1>9, <1>10 DEF Held
    <2>2. \A j \in 1..Len(s.completed) : s.completed[j].verdict = "none"
      BY <1>6 DEF Sound, OnlyDirty
    <2>3. QED
      BY <1>6, <1>11, <1>12, <1>14, <2>1, <2>2 DEF Sound
  <1>16. QED
    BY <1>6, <1>15 DEF OnlyDirty, SameWaiters, SameJobs

\* A sequence that is not empty has a first element.
LEMMA NotEmpty ==
    ASSUME NEW S, NEW q \in Seq(S), q # <<>>
    PROVE  /\ Len(q) \in Nat /\ Len(q) >= 1 /\ (Len(q) = 1 \/ Len(q) > 1)
           /\ q[1] \in S /\ Head(q) = q[1]
  <1> DEFINE n == Len(q) m == Len(Tail(q))
  <1>1. Tail(q) \in Seq(S) /\ m = n - 1
    BY HeadTailProperties
  <1>2. m \in Nat /\ n \in Nat
    BY <1>1
  <1>3. q[1] \in S /\ Head(q) = q[1]
    BY HeadTailProperties
  <1> HIDE DEF n, m
  <1>4. n >= 1 /\ (n = 1 \/ n > 1)
    BY <1>1, <1>2
  <1>5. QED
    BY <1>2, <1>3, <1>4 DEF n

LEMMA TailNotEmpty ==
    ASSUME NEW S, NEW q \in Seq(S), Len(q) > 1, NEW p, p = Tail(q)
    PROVE  p # <<>>
  <1>1. Len(p) = Len(q) - 1 /\ Len(q) \in Nat
    OBVIOUS
  <1>2. Len(p) # 0
    BY <1>1
  <1>3. Len(<<>>) = 0
    OBVIOUS
  <1>4. QED
    BY <1>2, <1>3, Zenon

\* The results that are left when the first waiter of the first one has been
\* dealt with.
LeftOf(hand) ==
    IF Len(hand[1].waiters) = 1 THEN Tail(hand)
    ELSE [hand EXCEPT ![1].waiters = Tail(@)]

Cut(hand, left) ==
    \/ /\ Len(hand[1].waiters) = 1 /\ Len(left) = Len(hand) - 1
       /\ \A i \in 1..Len(left) : left[i] = hand[i + 1]
    \/ /\ Len(hand[1].waiters) > 1 /\ Len(left) = Len(hand)
       /\ left[1].key = hand[1].key /\ left[1].status = hand[1].status
       /\ left[1].row = hand[1].row /\ left[1].verdict = hand[1].verdict
       /\ left[1].waiters = Tail(hand[1].waiters)
       /\ \A i \in 2..Len(left) : left[i] = hand[i]

LEMMA LeftOfFacts ==
    ASSUME NEW hand \in Seq(Results), hand # <<>>, hand[1].waiters # <<>>,
           NEW left, left = LeftOf(hand)
    PROVE  left \in Seq(Results) /\ Cut(hand, left)
  <1>1. Len(hand) \in Nat /\ Len(hand) >= 1 /\ hand[1] \in Results
    OBVIOUS
  <1>2. hand[1].waiters \in Seq(Clients)
    BY <1>1 DEF Results
  <1>3. Len(hand[1].waiters) # 1 => Len(hand[1].waiters) > 1
    BY <1>2, NotEmpty
  <1>4. CASE Len(hand[1].waiters) = 1
    <2>1. left = Tail(hand)
      BY <1>4 DEF LeftOf
    <2>2. QED
      BY <1>1, <1>4, <2>1 DEF Cut
  <1>5. CASE Len(hand[1].waiters) # 1
    <2> DEFINE e == [hand[1] EXCEPT !.waiters = Tail(hand[1].waiters)]
    <2>1. left = [hand EXCEPT ![1] = e]
      BY <1>5 DEF LeftOf
    <2>2. Tail(hand[1].waiters) \in Seq(Clients)
      BY <1>2
    <2>3. e \in Results
      BY <1>1, <2>2 DEF Results
    <2>4. e = [hand[1] EXCEPT !.waiters = Tail(hand[1].waiters)]
      OBVIOUS
    <2> HIDE DEF e
    <2>5. /\ left \in Seq(Results) /\ Len(left) = Len(hand) /\ left[1] = e
          /\ \A i \in 2..Len(left) : left[i] = hand[i]
      BY <1>1, <2>1, <2>3
    <2>6. /\ e.key = hand[1].key /\ e.status = hand[1].status
          /\ e.row = hand[1].row /\ e.verdict = hand[1].verdict
          /\ e.waiters = Tail(hand[1].waiters)
      BY <1>1, <2>4 DEF Results
    <2>7. QED
      BY <1>3, <1>5, <2>5, <2>6 DEF Cut
  <1>6. QED
    BY <1>4, <1>5

LEMMA ConcatFacts ==
    ASSUME NEW S, NEW a \in Seq(S), NEW b \in Seq(S)
    PROVE  /\ a \o b \in Seq(S) /\ Len(a \o b) = Len(a) + Len(b)
           /\ \A i \in 1..Len(a) + Len(b) :
                 (a \o b)[i] = IF i <= Len(a) THEN a[i] ELSE b[i - Len(a)]
  BY ConcatProperties

LEMMA TailUnique ==
    ASSUME NEW S, NEW q \in Seq(S), q # <<>>, Unique(q), NEW p, p = Tail(q)
    PROVE  /\ Unique(p) /\ \A x : In(p, x) <=> In(q, x) /\ x # q[1]
  <1>1. /\ Len(q) \in Nat /\ Len(q) >= 1 /\ Len(p) = Len(q) - 1
        /\ \A i \in 1..Len(p) : i + 1 \in 1..Len(q) /\ p[i] = q[i + 1]
    OBVIOUS
  <1>2. ASSUME NEW i \in 1..Len(p), NEW j \in 1..Len(p), p[i] = p[j] PROVE i = j
    <2>1. i + 1 = j + 1
      BY <1>1, <1>2 DEF Unique
    <2>2. QED
      BY <2>1
  <1>3. ASSUME NEW x, In(p, x) PROVE In(q, x) /\ x # q[1]
    <2>1. PICK i \in 1..Len(p) : p[i] = x
      BY <1>3 DEF In
    <2>2. i + 1 # 1 /\ 1 \in 1..Len(q) /\ i + 1 \in 1..Len(q) /\ q[i + 1] = x
      BY <1>1, <2>1
    <2>3. QED
      BY <2>2 DEF Unique, In
  <1>4. ASSUME NEW x, In(q, x), x # q[1] PROVE In(p, x)
    <2>1. PICK i \in 1..Len(q) : q[i] = x
      BY <1>4 DEF In
    <2>2. i - 1 \in 1..Len(p) /\ (i - 1) + 1 = i
      BY <1>1, <1>4, <2>1
    <2>3. p[i - 1] = x
      BY <1>1, <2>1, <2>2
    <2>4. QED
      BY <2>2, <2>3 DEF In
  <1>5. QED
    BY <1>2, <1>3, <1>4 DEF Unique

LEMMA ServedShrinks ==
    ASSUME NEW hand \in Seq(Results), hand # <<>>, NEW completed \in Seq(Results),
           NEW results, results = hand \o completed, NEW s,
           ResultsAgree(s, results), NEW r, r = LeftOf(hand) \o completed,
           NEW c, c = Head(hand[1].waiters)
    PROVE  /\ \E f : Shrunk(results, r, c, f)
           /\ 1 \in 1..Len(results) /\ In(results[1].waiters, c)
           /\ results[1] = hand[1]
  <1> DEFINE left == LeftOf(hand)
  <1>1. /\ Len(hand) \in Nat /\ Len(hand) >= 1 /\ Len(completed) \in Nat
        /\ results \in Seq(Results) /\ Len(results) = Len(hand) + Len(completed)
        /\ \A i \in 1..Len(results) :
              results[i] = IF i <= Len(hand) THEN hand[i] ELSE completed[i - Len(hand)]
    BY ConcatFacts
  <1>2. 1 \in 1..Len(results) /\ results[1] = hand[1]
    BY <1>1
  <1>3. \A i \in 1..Len(results) :
           /\ results[i] \in Results /\ results[i].waiters \in Seq(Clients)
           /\ results[i].waiters # <<>> /\ Unique(results[i].waiters)
    <2>1. \A i \in 1..Len(results) : results[i] \in Results
      BY <1>1
    <2>2. \A x \in Results : x.waiters \in Seq(Clients)
      BY DEF Results
    <2>3. \A i \in 1..Len(results) :
             results[i].waiters # <<>> /\ Unique(results[i].waiters)
      BY DEF ResultsAgree, Attached
    <2>4. QED
      BY <2>1, <2>2, <2>3
  <1> DEFINE q == hand[1].waiters
  <1>4. q \in Seq(Clients) /\ q # <<>> /\ Unique(q) /\ c = Head(q)
    BY <1>2, <1>3
  <1>a. q = hand[1].waiters
    OBVIOUS
  <1> HIDE DEF q
  <1>5. q[1] = c /\ In(q, c) /\ Len(q) \in Nat /\ (Len(q) = 1 \/ Len(q) > 1)
    <2>1. /\ Len(q) \in Nat /\ Len(q) >= 1 /\ (Len(q) = 1 \/ Len(q) > 1)
          /\ q[1] = c
      BY <1>4, NotEmpty
    <2>2. QED
      BY <2>1 DEF In
  <1>6. /\ left \in Seq(Results)
        /\ \/ /\ Len(q) = 1 /\ Len(left) = Len(hand) - 1
              /\ \A i \in 1..Len(left) : left[i] = hand[i + 1]
           \/ /\ Len(q) > 1 /\ Len(left) = Len(hand)
              /\ left[1].key = hand[1].key /\ left[1].waiters = Tail(q)
              /\ \A i \in 2..Len(left) : left[i] = hand[i]
    <2>1. left \in Seq(Results) /\ Cut(hand, left)
      BY <1>4, <1>a, LeftOfFacts
    <2> HIDE DEF left
    <2>2. QED
      BY <2>1, <1>a DEF Cut
  <1> HIDE DEF left
  <1>7. /\ r \in Seq(Results) /\ Len(r) = Len(left) + Len(completed)
        /\ \A i \in 1..Len(r) :
              r[i] = IF i <= Len(left) THEN left[i] ELSE completed[i - Len(left)]
    <2>1. r = left \o completed
      BY DEF left
    <2>2. QED
      BY <1>6, <2>1, ConcatFacts
  <1>8. \A i, j \in 1..Len(results) :
           i # j => Disjoint(results[i].waiters, results[j].waiters)
    BY DEF ResultsAgree
  <1>9. ASSUME NEW j \in 1..Len(results), j # 1
        PROVE  ~In(results[j].waiters, c)
    BY <1>2, <1>5, <1>8, <1>9, <1>a, DisjointIn
  <1>10. CASE Len(q) = 1
    <2>1. /\ Len(left) = Len(hand) - 1
          /\ \A i \in 1..Len(left) : left[i] = hand[i + 1]
      BY <1>6, <1>10
    <2>2. Len(r) = Len(results) - 1 /\ Len(left) \in Nat
      BY <1>1, <1>7, <2>1
    <2>3. ASSUME NEW i \in 1..Len(r)
          PROVE  i + 1 \in 1..Len(results) /\ r[i] = results[i + 1]
      <3>1. i + 1 \in 1..Len(results)
        BY <1>1, <2>2
      <3>2. CASE i <= Len(left)
        BY <1>1, <1>7, <2>1, <2>2, <3>1, <3>2
      <3>3. CASE i > Len(left)
        <4>1. r[i] = completed[i - Len(left)]
          BY <1>7, <2>2, <3>3
        <4>2. results[i + 1] = completed[(i + 1) - Len(hand)]
          BY <1>1, <2>1, <3>1, <3>3
        <4>3. i - Len(left) = (i + 1) - Len(hand)
          BY <1>1, <2>1
        <4>4. QED
          BY <3>1, <4>1, <4>2, <4>3
      <3>4. QED
        BY <2>2, <3>2, <3>3
    <2> DEFINE f == [i \in 1..Len(r) |-> i + 1]
    <2>4. /\ f \in [1..Len(r) -> 1..Len(results)]
          /\ \A i \in 1..Len(r) : f[i] = i + 1
      BY <2>3
    <2> HIDE DEF f
    <2>5. \A i, j \in 1..Len(r) : f[i] = f[j] => i = j
      BY <2>2, <2>4, <1>1
    <2>6. ASSUME NEW i \in 1..Len(r)
          PROVE  /\ r[i].key = results[f[i]].key
                 /\ r[i].waiters # <<>> /\ Unique(r[i].waiters)
                 /\ \A x : In(r[i].waiters, x) =>
                              In(results[f[i]].waiters, x) /\ x # c
      <3>1. f[i] \in 1..Len(results) /\ f[i] # 1 /\ r[i] = results[f[i]]
        <4>1. f[i] = i + 1 /\ i + 1 # 1
          BY <2>4
        <4>2. QED
          BY <2>3, <4>1
      <3>2. QED
        BY <1>3, <1>9, <3>1
    <2>7. ASSUME NEW x, x # c, NEW j \in 1..Len(results), In(results[j].waiters, x)
          PROVE  \E i \in 1..Len(r) : In(r[i].waiters, x)
      <3>1. j # 1
        <4>1. ASSUME In(q, x) PROVE x = c
          BY <1>4, <1>5, <1>10, <4>1 DEF In
        <4>2. QED
          BY <1>2, <1>a, <2>7, <4>1
      <3>2. j - 1 \in 1..Len(r) /\ (j - 1) + 1 = j
        BY <1>1, <2>2, <3>1
      <3>3. r[j - 1] = results[j]
        BY <2>3, <3>2
      <3>4. QED
        BY <2>7, <3>2, <3>3
    <2>8. Shrunk(results, r, c, f)
      BY <2>4, <2>5, <2>6, <2>7 DEF Shrunk
    <2>9. QED
      BY <1>2, <1>5, <1>a, <2>8
  <1>11. CASE Len(q) # 1
    <2> DEFINE p == Tail(q)
    <2>a. Len(q) > 1
      BY <1>5, <1>11
    <2>1. /\ Len(left) = Len(hand)
          /\ left[1].key = hand[1].key /\ left[1].waiters = p
          /\ \A i \in 2..Len(left) : left[i] = hand[i]
      BY <1>6, <1>11
    <2>2. p # <<>> /\ Unique(p) /\ \A x : In(p, x) <=> In(q, x) /\ x # c
      <3>1. p # <<>>
        BY <1>4, <2>a, TailNotEmpty
      <3> HIDE DEF p
      <3>2. p = Tail(q)
        BY DEF p
      <3>3. QED
        BY <1>4, <1>5, <3>1, <3>2, TailUnique
    <2> HIDE DEF p
    <2>3. hand[1] \in Results
      BY <1>2, <1>3
    <2>4. Len(r) = Len(results) /\ r[1].key = hand[1].key /\ r[1].waiters = p
      <3>1. Len(r) = Len(results) /\ r[1] = left[1]
        <4>1. 1 <= Len(left) /\ 1 \in 1..Len(r) /\ Len(r) = Len(results)
          BY <1>1, <1>7, <2>1
        <4>2. QED
          BY <1>7, <4>1
      <3>2. QED
        BY <2>1, <3>1
    <2>5. \A i \in 2..Len(r) : r[i] = results[i]
      BY <1>1, <1>7, <2>1, <2>4
    <2> DEFINE f == [i \in 1..Len(r) |-> i]
    <2>6. f \in [1..Len(r) -> 1..Len(results)] /\ \A i \in 1..Len(r) : f[i] = i
      BY <2>4
    <2> HIDE DEF f
    <2>7. \A i \in 1..Len(r) : i = 1 \/ i \in 2..Len(r)
      BY <1>1, <2>4
    <2>8. ASSUME NEW i \in 1..Len(r)
          PROVE  /\ r[i].key = results[i].key
                 /\ r[i].waiters # <<>> /\ Unique(r[i].waiters)
                 /\ \A x : In(r[i].waiters, x) => In(results[i].waiters, x) /\ x # c
      <3>1. CASE i = 1
        BY <1>2, <1>a, <2>2, <2>4, <3>1
      <3>2. CASE i \in 2..Len(r)
        BY <1>1, <1>3, <1>9, <2>4, <2>5, <3>2, SMTT(30)
      <3>3. QED
        BY <2>7, <3>1, <3>2
    <2>9. ASSUME NEW x, x # c, NEW j \in 1..Len(results), In(results[j].waiters, x)
          PROVE  \E i \in 1..Len(r) : In(r[i].waiters, x)
      <3>1. CASE j = 1
        BY <1>2, <1>a, <2>2, <2>4, <2>9, <3>1
      <3>2. CASE j \in 2..Len(r)
        BY <2>4, <2>5, <2>9, <3>2
      <3>3. QED
        BY <2>4, <2>7, <3>1, <3>2
    <2>10. Shrunk(results, r, c, f)
      BY <2>6, <2>8, <2>9, ZenonT(60) DEF Shrunk
    <2>11. QED
      BY <1>2, <1>5, <1>a, <2>10
  <1>12. QED
    BY <1>5, <1>10, <1>11

LEMMA FirstOfConcat ==
    ASSUME NEW S, NEW a \in Seq(S), a # <<>>, NEW b \in Seq(S), NEW q, q = a \o b
    PROVE  1 \in 1..Len(q) /\ q[1] = a[1]
  <1>1. Len(a) \in Nat /\ Len(a) >= 1 /\ Len(b) \in Nat /\ Len(q) = Len(a) + Len(b)
    BY NotEmpty, ConcatFacts
  <1>2. 1 \in 1..Len(q) /\ 1 \in 1..Len(a) + Len(b) /\ 1 <= Len(a)
    BY <1>1
  <1>3. QED
    BY <1>2, ConcatFacts

Serves(s0, s, c, result) ==
    /\ c \in Clients /\ s0.ticket[c] # NoTicket
    /\ result.key \in Keys
    /\ KeyOf(s, c) = result.key /\ KeyOf(s0, c) = result.key
    /\ OnlyTicket(s0, s) /\ Departs(s0, s, c, result.key)

\* drain_mysql_completions begins with the first waiter of its first result.
LEMMA ServeBegins ==
    ASSUME NEW s0, NEW r, NEW results, NEW db, NEW w, NEW bell, NEW rings,
           Sound(s0, r, results, {}, db, w, bell, rings),
           r.hand \in Seq(Results), r.hand # <<>>,
           results = r.hand \o s0.completed,
           NEW c, c = Head(r.hand[1].waiters), NEW s,
           s = unregister_pending_load(s0, c),
           NEW rest, rest = LeftOf(r.hand) \o s0.completed
    PROVE  /\ Sound(s, r, rest, {c}, db, w, bell, rings)
           /\ Serves(s0, s, c, r.hand[1])
  <1>1. /\ s0 \in Servers /\ ListsAgree(s0, results, {}) /\ LruAgrees(s0)
        /\ WritesBounded(s0) /\ NumbersAgree(s0, db, w)
    BY DEF Sound, Held
  <1>2. s0.completed \in Seq(Results) /\ s0.ticket \in [Clients -> {NoTicket} \cup Nat]
        /\ s0.load \in [Keys -> [generation : Nat, waiters : Nat]]
    BY <1>1 DEF Servers
  <1>3. ResultsAgree(s0, results) /\ LoadsAgree(s0)
    BY <1>1 DEF ListsAgree
  <1>4. /\ \E f : Shrunk(results, rest, c, f)
        /\ 1 \in 1..Len(results) /\ In(results[1].waiters, c)
        /\ results[1] = r.hand[1]
    BY <1>2, <1>3, ServedShrinks
  <1> DEFINE k == r.hand[1].key
  <1>5. k \in Keys /\ r.hand[1].waiters \in Seq(Clients)
    <2>1. r.hand[1] \in Results
      BY NotEmpty
    <2>2. QED
      BY <2>1 DEF Results
  <1>6. Attached(s0, k, r.hand[1].waiters)
    BY <1>3, <1>4 DEF ResultsAgree
  <1> HIDE DEF k
  <1>7. c \in Clients /\ s0.request[c] \in Requests /\ s0.ticket[c] # NoTicket
        /\ s0.request[c].key = k
    <2>1. PICK i \in 1..Len(r.hand[1].waiters) : r.hand[1].waiters[i] = c
      BY <1>4 DEF In
    <2>2. QED
      BY <1>6, <2>1 DEF Attached
  <1>8. KeyOf(s0, c) = k
    BY <1>7 DEF KeyOf
  <1>9. s0.load[k].waiters # 0
    <2>1. c \in Registered(s0, k) /\ Registered(s0, k) \subseteq Clients
      BY <1>7, <1>8 DEF Registered
    <2>2. IsFiniteSet(Registered(s0, k))
      BY <2>1, Constants, FS_Subset
    <2>3. Cardinality(Registered(s0, k)) # 0
      BY <2>1, <2>2, FS_EmptySet
    <2>4. QED
      BY <1>3, <1>5, <2>3 DEF LoadsAgree
  <1>10. OnlyTicket(s0, s) /\ Departs(s0, s, c, k)
    BY <1>1, <1>5, <1>7, <1>8, <1>9, Unregisters
  <1>11. /\ s.request = s0.request /\ s.waiting = s0.waiting
         /\ s.overlooked = s0.overlooked /\ s.job = s0.job /\ s.queue = s0.queue
         /\ s.cache = s0.cache /\ s.lru = s0.lru /\ s.completed = s0.completed
         /\ s.dirty = s0.dirty /\ s.writes = s0.writes
         /\ s.pending_writes = s0.pending_writes
         /\ s.next_sequence = s0.next_sequence /\ s.applied = s0.applied
         /\ s \in Servers
    BY <1>1, <1>10 DEF Servers, OnlyTicket
  <1>12. ListsAgree(s, rest, {c})
    <2>1. PICK f : Shrunk(results, rest, c, f)
      BY <1>4
    <2>2. k = results[1].key
      BY <1>4 DEF k
    <2>3. QED
      BY <1>1, <1>4, <1>5, <1>10, <1>11, <2>1, <2>2, WaiterServed
  <1>13. LruAgrees(s)
    BY <1>1, <1>11 DEF LruAgrees, Cached
  <1>14. WritesBounded(s)
    <2>1. Writing(s) = Writing(s0)
      BY <1>11 DEF Writing
    <2>2. QED
      BY <1>1, <1>11, <2>1 DEF WritesBounded
  <1>15. NumbersAgree(s, db, w)
    <2>1. SameNumbers(s0, s) /\ s0.next_sequence \in Nat
      BY <1>1, <1>11 DEF SameNumbers, Servers
    <2>2. QED
      BY <1>1, <1>11, <2>1, NumbersFrame
  <1>16. Awake(s, r, bell, rings, w)
    <2>1. Awake(s0, r, bell, rings, w)
      BY DEF Sound
    <2>2. QED
      BY <1>11, <2>1 DEF Awake, KeyOf
  <1>17. Sound(s, r, rest, {c}, db, w, bell, rings)
    BY <1>11, <1>12, <1>13, <1>14, <1>15, <1>16 DEF Sound, Held
  <1>18. KeyOf(s, c) = k
    BY <1>8, <1>11 DEF KeyOf
  <1>19. QED
    BY <1>5, <1>7, <1>8, <1>10, <1>17, <1>18 DEF k, Serves

\* What the Reactor thread has to keep of HeldInv while it works on a request.
SoundNow(results, F) ==
    Sound(server, reactor, results, F, database, writer, wake, ringing)

LEMMA InvIsSound ==
    ASSUME HeldInv
    PROVE  /\ SoundNow(ResultsOf(server, reactor), {})
           /\ server \in Servers /\ reactor.hand \in Seq(Results)
           /\ server.completed \in Seq(Results)
           /\ ResultsFound(ResultsOf(server, reactor))
  BY DEF HeldInv, HandAgrees, SoundNow, Sound, Held, Servers

LEMMA ToldType ==
    ASSUME NEW s \in Servers, WritesBounded(s), NEW c \in Clients,
           s.request[c] \in Requests, truth \in [Keys -> Values]
    PROVE  Told(s, s.request[c]) \in [Keys -> Values]
  <1> DEFINE request == s.request[c]
             value == Effect(request.op, s.next_sequence + 1, truth[request.key])
  <1>1. CASE Mutates(s, request)
    <2>1. /\ IsWrite(request) /\ s.next_sequence < MaxWrites
          /\ s.next_sequence \in Nat
      BY <1>1, RoomToWrite DEF Mutates, Servers
    <2>2. /\ request.op \in {"SET", "HSET", "DEL"} /\ request.key \in Keys
          /\ s.next_sequence + 1 \in 0 .. MaxWrites
      BY <2>1, Constants DEF IsWrite
    <2>3. value \in Values
      BY <2>2, EffectFacts
    <2>4. Told(s, request) = [truth EXCEPT ![request.key] = value]
      BY <1>1, <2>2 DEF Told
    <2> HIDE DEF value, request
    <2>5. QED
      BY <2>2, <2>3, <2>4 DEF request
  <1>2. CASE ~Mutates(s, request)
    BY <1>2 DEF Told
  <1>3. QED
    BY <1>1, <1>2

\* What the Reactor thread does to a request it works on.
WorksOn(s, c) ==
    \/ Executes(s, c)
    \/ Moves(Miss(s, c, KeyOf(s, c)))
    \/ Moves(Load(s, c, KeyOf(s, c)))
    \/ Moves(Answered(s, c))

LEMMA WorkSettles ==
    ASSUME NEW s, NEW results, NEW c \in Clients,
           truth \in [Keys -> Values],
           Sound(s, reactor, results, {c}, database, writer, wake, ringing),
           WorksOn(s, c)
    PROVE  /\ Settled(s, server', c, results, database, writer)
           /\ Sound(server', reactor, results, {}, database, writer, wake, ringing)
           /\ truth' \in [Keys -> Values]
           /\ SameBusy(s, server')
           /\ server'.completed = s.completed
  <1>1. /\ Held(s, results, {c}) /\ NumbersAgree(s, database, writer)
        /\ s \in Servers /\ WritesBounded(s) /\ s.request[c] \in Requests
    BY DEF Sound, Held, ListsAgree, WaitersAgree
  <1> DEFINE k == KeyOf(s, c)
  <1>2. k \in Keys
    BY <1>1, Constants DEF KeyOf
  <1>3. Settled(s, server', c, results, database, writer)
    <2>1. CASE Executes(s, c)
      BY <1>1, <2>1, ExecuteSettles DEF Executes
    <2>2. CASE Moves(Miss(s, c, k))
      BY <1>1, <1>2, <2>2, MissSettles DEF Moves
    <2>3. CASE Moves(Load(s, c, k))
      BY <1>1, <1>2, <2>3, LoadSettles DEF Moves
    <2>4. CASE Moves(Answered(s, c))
      BY <1>1, <2>4, SettledByError DEF Moves, Settled
    <2>5. QED
      BY <2>1, <2>2, <2>3, <2>4 DEF WorksOn
  <1>4. Sound(server', reactor, results, {}, database, writer, wake, ringing)
    BY <1>3, SettledSound
  <1>5. truth' \in [Keys -> Values]
    <2>1. CASE Executes(s, c)
      BY <1>1, <2>1, ToldType DEF Executes
    <2>2. CASE ~Executes(s, c)
      BY <2>2 DEF WorksOn, Moves
    <2>3. QED
      BY <2>1, <2>2
  <1>6. SameBusy(s, server') /\ server'.completed = s.completed
    BY <1>3 DEF Settled, Settles
  <1>7. QED
    BY <1>3, <1>4, <1>5, <1>6

LEMMA BusySame ==
    ASSUME SameBusy(server, server'), ringing' = ringing, BusyReaders <= Readers
    PROVE  BusyReaders' <= Readers
  <1>1. {k \in Keys : server'.job[k].stage \in {"taken", "keyed", "loaded", "snapped"}}
          = {k \in Keys : server.job[k].stage \in {"taken", "keyed", "loaded", "snapped"}}
    BY DEF SameBusy, Busy
  <1>2. QED
    BY <1>1 DEF BusyReaders

\* The Reactor thread is done with its request, and may go on with another one.
LEMMA WorkEnds ==
    ASSUME HeldInv, NEW results, NEW hand \in Seq(Results),
           NEW input \in Clients \cup {NoClient},
           Sound(server', reactor, results, {}, database, writer, wake, ringing),
           results = hand \o server'.completed,
           reactor' = [reactor EXCEPT !.hand = hand, !.input = input],
           reactor.stage # "results" => hand = <<>>,
           \A i \in 2..Len(hand) : hand[i].verdict = "none",
           truth' \in [Keys -> Values], SameBusy(server, server'),
           ResultsFound(results), UNCHANGED <<wake, ringing, writer, database>>
    PROVE  HeldInv'
  <1>1. /\ reactor \in [stage : {"idle", "waiters", "results"}, kept : Nat,
                        hand : Seq(Results), input : Clients \cup {NoClient}]
        /\ wake \in BOOLEAN /\ ringing \in Nat /\ BusyReaders <= Readers
    BY DEF HeldInv, HandAgrees
  <1>2. /\ reactor'.stage = reactor.stage /\ reactor'.kept = reactor.kept
        /\ reactor'.hand = hand
        /\ reactor' \in [stage : {"idle", "waiters", "results"}, kept : Nat,
                        hand : Seq(Results), input : Clients \cup {NoClient}]
    BY <1>1
  <1>3. ResultsOf(server', reactor') = results
    BY <1>2 DEF ResultsOf
  <1>4. Held(server', ResultsOf(server', reactor'), {})
    BY <1>3 DEF Sound
  <1>5. HandAgrees(server', reactor')
    BY <1>2 DEF HandAgrees, Sound
  <1>6. Awake(server', reactor', wake', ringing', writer')
    <2>1. Awake(server', reactor, wake, ringing, writer)
      BY DEF Sound
    <2>2. wake' = wake /\ ringing' = ringing /\ writer' = writer
      OBVIOUS
    <2>3. QED
      BY <1>2, <2>1, <2>2 DEF Awake
  <1>7. NumbersAgree(server', database', writer')
    BY DEF Sound
  <1>8. BusyReaders' <= Readers
    BY <1>1, BusySame
  <1>9. JobsFound(server') /\ ResultsFound(ResultsOf(server', reactor'))
    BY <1>3 DEF HeldInv, JobsFound, SameBusy
  <1>10. QED
    BY <1>1, <1>4, <1>5, <1>6, <1>7, <1>8, <1>9 DEF HeldInv

LEMMA ContinuesInput ==
    ASSUME NEW c \in Clients, NEW d \in Continues(c)
    PROVE  d \in Clients \cup {NoClient}
  BY DEF Continues

LEMMA DispatchHeld ==
    ASSUME HeldInv, NEW c \in Clients, NEW request \in Requests, Dispatch(c, request)
    PROVE  HeldInv'
  <1> DEFINE k == request.key
             negative == IF IsWrite(request) THEN server.negative \ {k}
                                             ELSE server.negative
             requests == [server.request EXCEPT ![c] = request]
             s == [server EXCEPT !.negative = negative, !.request = requests]
             results == ResultsOf(server, reactor)
  <1>1. /\ SoundNow(results, {}) /\ server \in Servers
        /\ reactor.hand \in Seq(Results) /\ server.completed \in Seq(Results)
        /\ ResultsFound(results)
    BY InvIsSound
  <1>2. MayOpen(server, c, request)
    <2>1. {d \in Outstanding : IsWrite(server.request[d])} = Writing(server)
      BY DEF Outstanding, Writing
    <2>2. QED
      BY <2>1 DEF Dispatch, MayOpen
  <1>3. negative \in SUBSET Keys
    BY <1>1 DEF Servers
  <1>4. /\ Sound(s, reactor, results, {c}, database, writer, wake, ringing)
        /\ s.request[c] = request /\ s.job = server.job
        /\ s.completed = server.completed
    <2>1. Opens(server, s, c, request, negative)
      BY DEF Opens
    <2> HIDE DEF s, negative, results
    <2>2. /\ Sound(s, reactor, results, {c}, database, writer, wake, ringing)
          /\ SameJobs(server, s)
      BY <1>1, <1>2, <1>3, <2>1, DispatchBegins DEF SoundNow
    <2>3. s.request[c] = request
      BY <1>1 DEF s, Servers
    <2>4. QED
      BY <2>2, <2>3 DEF SameJobs
  <1>5. KeyOf(s, c) = k
    BY <1>4 DEF KeyOf
  <1>6. WorksOn(s, c)
    <2>1. s = [(IF IsWrite(request) THEN negative_cache_invalidate(server, k)
                                    ELSE server) EXCEPT !.request[c] = request]
      BY <1>1 DEF negative_cache_invalidate, Servers
    <2>2. Executes(s, c) \/ Moves(Miss(s, c, k))
      BY <2>1 DEF Dispatch
    <2> HIDE DEF s, k
    <2>3. QED
      BY <1>5, <2>2 DEF WorksOn
  <1> HIDE DEF s, results, k
  <1>7. /\ Sound(server', reactor, results, {}, database, writer, wake, ringing)
        /\ truth' \in [Keys -> Values] /\ SameBusy(s, server')
        /\ server'.completed = s.completed
    BY <1>4, <1>6, WorkSettles DEF HeldInv
  <1>8. SameBusy(server, server')
    BY <1>4, <1>7 DEF SameBusy
  <1>9. PICK input \in Clients \cup {NoClient} :
           reactor' = [reactor EXCEPT !.hand = reactor.hand, !.input = input]
    <2>1. reactor \in [stage : {"idle", "waiters", "results"}, kept : Nat,
                        hand : Seq(Results), input : Clients \cup {NoClient}]
      BY DEF HeldInv, HandAgrees
    <2>2. reactor = [reactor EXCEPT !.hand = reactor.hand, !.input = reactor.input]
          /\ reactor.input \in Clients \cup {NoClient}
      BY <2>1
    <2>3. ASSUME NEW d
          PROVE  [reactor EXCEPT !.input = d] =
                    [reactor EXCEPT !.hand = reactor.hand, !.input = d]
      BY <2>1
    <2>4. CASE reactor' = reactor
      BY <2>2, <2>4
    <2>5. CASE \E d \in Continues(c) : reactor' = [reactor EXCEPT !.input = d]
      BY <2>3, <2>5, ContinuesInput
    <2>6. QED
      BY <2>4, <2>5 DEF Dispatch
  <1>10. /\ results = reactor.hand \o server'.completed
         /\ reactor.stage # "results" => reactor.hand = <<>>
         /\ \A i \in 2..Len(reactor.hand) : reactor.hand[i].verdict = "none"
    BY <1>4, <1>7 DEF results, ResultsOf, HeldInv, HandAgrees
  <1>11. UNCHANGED <<wake, ringing, writer, database>>
    BY DEF Dispatch
  <1>12. QED
    BY <1>1, <1>7, <1>8, <1>9, <1>10, <1>11, WorkEnds

LEMMA WakeHeld ==
    ASSUME HeldInv, Wake
    PROVE  HeldInv'
  <1>1. /\ reactor \in [stage : {"idle", "waiters", "results"}, kept : Nat,
                        hand : Seq(Results), input : Clients \cup {NoClient}]
        /\ server \in Servers
    BY DEF HeldInv, HandAgrees, Held
  <1>2. /\ reactor' = [reactor EXCEPT !.stage = "waiters", !.kept = 0]
        /\ server' = server /\ ringing' = ringing /\ writer' = writer
        /\ database' = database /\ truth' = truth /\ wake' = FALSE
        /\ reactor.stage = "idle"
    BY DEF Wake
  <1>3. /\ reactor'.stage = "waiters" /\ reactor'.kept = 0
        /\ reactor'.hand = reactor.hand
        /\ reactor' \in [stage : {"idle", "waiters", "results"}, kept : Nat,
                        hand : Seq(Results), input : Clients \cup {NoClient}]
    BY <1>1, <1>2
  <1>4. HandAgrees(server', reactor')
    <2>1. Len(server.waiting) \in Nat
      BY <1>1 DEF Servers
    <2>2. QED
      BY <1>2, <1>3, <2>1 DEF HeldInv, HandAgrees
  <1>5. Awake(server', reactor', wake', ringing', writer')
    BY <1>2, <1>3 DEF Awake
  <1>6. ResultsOf(server', reactor') = ResultsOf(server, reactor)
    BY <1>2, <1>3 DEF ResultsOf
  <1>7. BusyReaders' = BusyReaders
    BY <1>2 DEF BusyReaders
  <1>8. QED
    BY <1>2, <1>4, <1>5, <1>6, <1>7 DEF HeldInv

LEMMA DrainWaiterHeld ==
    ASSUME HeldInv, DrainWaiter
    PROVE  HeldInv'
  <1> DEFINE i == reactor.kept + 1
             c == server.waiting[i]
             k == KeyOf(server, c)
             u == purge_applied_dirty_keys(server, {k})
             gone == (i = Len(server.waiting))
             s == [u EXCEPT !.waiting = RemoveAt(u.waiting, i), !.tail_gone = gone]
             results == ResultsOf(server, reactor)
  <1>1. /\ SoundNow(results, {}) /\ server \in Servers
        /\ reactor.hand \in Seq(Results) /\ server.completed \in Seq(Results)
        /\ ResultsFound(results)
    BY InvIsSound
  <1>2. /\ reactor \in [stage : {"idle", "waiters", "results"}, kept : Nat,
                        hand : Seq(Results), input : Clients \cup {NoClient}]
        /\ HandAgrees(server, reactor)
    BY DEF HeldInv, HandAgrees
  <1>3. server.waiting \in Seq(Clients)
    BY <1>1 DEF Servers
  <1>4. i \in 1..Len(server.waiting) /\ reactor.stage = "waiters"
    BY <1>2, <1>3 DEF DrainWaiter
  <1>5. c \in Clients /\ server.request[c] \in Requests /\ k \in Keys
    <2>1. c \in Clients /\ In(server.waiting, c)
      BY <1>3, <1>4 DEF In
    <2>2. server.request[c] \in Requests
      BY <1>1, <2>1 DEF SoundNow, Sound, Held, ListsAgree, WaitersAgree
    <2>3. QED
      BY <2>1, <2>2, Constants DEF KeyOf
  <1>6. CASE ~MayLoad(server, k)
    <2>1. /\ reactor' = [reactor EXCEPT !.kept = reactor.kept + 1]
          /\ server' = server /\ truth' = truth
          /\ UNCHANGED <<wake, ringing, writer, database>>
      BY <1>6 DEF DrainWaiter
    <2>2. /\ reactor'.stage = reactor.stage /\ reactor'.kept = i
          /\ reactor'.hand = reactor.hand
          /\ reactor' \in [stage : {"idle", "waiters", "results"}, kept : Nat,
                        hand : Seq(Results), input : Clients \cup {NoClient}]
      BY <1>2, <2>1
    <2>3. server.dirty[k] > server.applied
      <3>1. server.dirty \in [Keys -> Nat] /\ server.applied \in Nat
        BY <1>1 DEF Servers
      <3>2. QED
        BY <1>5, <1>6, <3>1 DEF MayLoad, dirty_key_sequence
    <2>4. Awake(server', reactor', wake', ringing', writer')
      <3>1. Awake(server, reactor, wake, ringing, writer)
        BY DEF HeldInv
      <3>2. \A j \in 1..Len(server.waiting) : reactor.kept < j => j = i \/ i < j
        BY <1>2, <1>3
      <3>3. \A j \in 1..Len(server.waiting) : j = i =>
               server.dirty[KeyOf(server, server.waiting[j])] > server.applied
        BY <2>3
      <3> HIDE DEF i, c, k
      <3>4. QED
        BY <2>1, <2>2, <3>1, <3>2, <3>3 DEF Awake
    <2>5. HandAgrees(server', reactor')
      BY <1>2, <1>3, <1>4, <2>1, <2>2 DEF HandAgrees
    <2>6. ResultsOf(server', reactor') = results
      BY <2>1, <2>2 DEF ResultsOf
    <2>7. BusyReaders' = BusyReaders
      BY <2>1 DEF BusyReaders
    <2> HIDE DEF i, c, k, u, s, gone
    <2>8. QED
      BY <2>1, <2>4, <2>5, <2>6, <2>7 DEF HeldInv
  <1>7. CASE MayLoad(server, k)
    <2>1. OnlyDirty(server, u)
      BY <1>1, PurgeFacts
    <2>2. u.waiting = server.waiting
      BY <2>1 DEF OnlyDirty, SameWaiters
    <2>3. IF Cached(s, k) THEN Executes(s, c) ELSE Moves(Load(s, c, k))
      BY <1>7 DEF DrainWaiter
    <2>4. gone \in BOOLEAN
      OBVIOUS
    <2>5. /\ \E d \in Continues(c) : reactor' = [reactor EXCEPT !.input = d]
          /\ UNCHANGED <<wake, ringing, writer, database>>
      BY <1>7 DEF DrainWaiter
    <2>a. Drained(u, s, i, gone)
      BY DEF Drained
    <2>b. i = reactor.kept + 1
      OBVIOUS
    <2> HIDE DEF u, gone, results, k, s, i
    <2>6. /\ Sound(s, reactor, results, {c}, database, writer, wake, ringing)
          /\ s.request = server.request /\ s.job = server.job
          /\ s.completed = server.completed
      <3>1. /\ Sound(s, reactor, results, {c}, database, writer, wake, ringing)
            /\ SameJobs(server, s)
        BY <1>1, <1>4, <2>1, <2>4, <2>a, <2>b, DrainBegins DEF SoundNow
      <3>2. s.request = server.request
        <4>1. u \in Servers /\ u.request = server.request
          BY <2>1 DEF OnlyDirty
        <4>2. QED
          BY <2>a, <4>1 DEF Drained, Servers
      <3>3. QED
        BY <3>1, <3>2 DEF SameJobs
    <2>7. WorksOn(s, c)
      <3>1. KeyOf(s, c) = k
        BY <2>6 DEF KeyOf, k
      <3>2. QED
        BY <2>3, <3>1 DEF WorksOn
    <2> HIDE DEF c
    <2>8. /\ Sound(server', reactor, results, {}, database, writer, wake, ringing)
          /\ truth' \in [Keys -> Values] /\ SameBusy(s, server')
          /\ server'.completed = s.completed
      BY <1>5, <2>6, <2>7, WorkSettles DEF HeldInv
    <2>9. SameBusy(server, server')
      BY <2>6, <2>8 DEF SameBusy
    <2>10. PICK input \in Clients \cup {NoClient} :
             reactor' = [reactor EXCEPT !.hand = reactor.hand, !.input = input]
      <3>1. ASSUME NEW d
            PROVE  [reactor EXCEPT !.input = d] =
                      [reactor EXCEPT !.hand = reactor.hand, !.input = d]
        BY <1>2
      <3>2. QED
        BY <1>5, <2>5, <3>1, ContinuesInput
    <2>11. /\ results = reactor.hand \o server'.completed
           /\ reactor.stage # "results" => reactor.hand = <<>>
           /\ \A j \in 2..Len(reactor.hand) : reactor.hand[j].verdict = "none"
      BY <1>2, <2>6, <2>8 DEF results, ResultsOf, HandAgrees
    <2>12. QED
      BY <1>1, <2>5, <2>8, <2>9, <2>10, <2>11, WorkEnds
  <1>8. QED
    BY <1>6, <1>7

\* The waiter that is served, and its key.
LEMMA Serving ==
    ASSUME HeldInv, HandsOut, NEW c, c = Head(Result.waiters),
           NEW s, s = unregister_pending_load(server, c),
           NEW rest, rest = LeftOf(reactor.hand) \o server.completed
    PROVE  /\ Sound(s, reactor, rest, {c}, database, writer, wake, ringing)
           /\ c \in Clients /\ OnlyTicket(server, s)
           /\ server.ticket[c] # NoTicket
           /\ Departs(server, s, c, Result.key)
           /\ KeyOf(s, c) = Result.key /\ Result.key \in Keys
           /\ KeyOf(server, c) = Result.key
           /\ Result = reactor.hand[1]
  <1> DEFINE hand == reactor.hand
             results == ResultsOf(server, reactor)
  <1>1. /\ SoundNow(results, {}) /\ server \in Servers
        /\ hand \in Seq(Results) /\ server.completed \in Seq(Results)
        /\ ResultsFound(results)
    BY InvIsSound
  <1>2. hand # <<>> /\ reactor.stage = "results"
    BY DEF HandsOut
  <1>3. Result = hand[1]
    BY <1>1, <1>2, NotEmpty DEF Result
  <1>4. results = hand \o server.completed /\ c = Head(hand[1].waiters)
    BY <1>3 DEF ResultsOf
  <1> HIDE DEF results
  <1>5. /\ Sound(s, reactor, rest, {c}, database, writer, wake, ringing)
        /\ Serves(server, s, c, hand[1])
    BY <1>1, <1>2, <1>4, ServeBegins DEF SoundNow
  <1>6. QED
    BY <1>3, <1>5 DEF Serves

LEMMA FoundConcat ==
    ASSUME NEW a \in Seq(Results), NEW b \in Seq(Results), NEW q, q = a \o b
    PROVE  ResultsFound(q) <=> ResultsFound(a) /\ ResultsFound(b)
  <1>1. /\ q \in Seq(Results) /\ Len(q) = Len(a) + Len(b)
        /\ \A i \in 1..Len(q) : q[i] = IF i <= Len(a) THEN a[i] ELSE b[i - Len(a)]
        /\ Len(a) \in Nat /\ Len(b) \in Nat
    BY ConcatFacts
  <1>2. ASSUME ResultsFound(q) PROVE ResultsFound(a) /\ ResultsFound(b)
    <2>1. ASSUME NEW i \in 1..Len(a) PROVE i \in 1..Len(q) /\ q[i] = a[i]
      BY <1>1
    <2>2. ASSUME NEW i \in 1..Len(b)
          PROVE  i + Len(a) \in 1..Len(q) /\ q[i + Len(a)] = b[i]
      <3>1. i + Len(a) \in 1..Len(q) /\ ~(i + Len(a) <= Len(a))
            /\ (i + Len(a)) - Len(a) = i
        BY <1>1
      <3>2. QED
        BY <1>1, <3>1
    <2>3. QED
      BY <1>2, <2>1, <2>2 DEF ResultsFound
  <1>3. ASSUME ResultsFound(a), ResultsFound(b) PROVE ResultsFound(q)
    <2>1. ASSUME NEW i \in 1..Len(q)
          PROVE  q[i].status = "found" => q[i].row # Absent
      <3>1. CASE i <= Len(a)
        <4>1. i \in 1..Len(a) /\ q[i] = a[i]
          BY <1>1, <3>1
        <4>2. QED
          BY <1>3, <4>1 DEF ResultsFound
      <3>2. CASE ~(i <= Len(a))
        <4>1. i - Len(a) \in 1..Len(b) /\ q[i] = b[i - Len(a)]
          BY <1>1, <3>2
        <4>2. QED
          BY <1>3, <4>1 DEF ResultsFound
      <3>3. QED
        BY <3>1, <3>2
    <2>2. QED
      BY <2>1 DEF ResultsFound
  <1>4. QED
    BY <1>2, <1>3

LEMMA CutFound ==
    ASSUME NEW hand \in Seq(Results), hand # <<>>, NEW completed \in Seq(Results),
           NEW left \in Seq(Results), Cut(hand, left),
           NEW results, results = hand \o completed, ResultsFound(results),
           NEW rest, rest = left \o completed
    PROVE  ResultsFound(rest)
  <1>1. ResultsFound(hand) /\ ResultsFound(completed)
    BY FoundConcat
  <1>2. Len(hand) \in Nat /\ Len(hand) >= 1 /\ 1 \in 1..Len(hand)
    BY NotEmpty
  <1>3. ResultsFound(left)
    <2>1. CASE Len(left) = Len(hand) - 1 /\ \A i \in 1..Len(left) : left[i] = hand[i + 1]
      <3>1. ASSUME NEW i \in 1..Len(left)
            PROVE  i + 1 \in 1..Len(hand) /\ left[i] = hand[i + 1]
        BY <1>2, <2>1
      <3>2. QED
        BY <1>1, <3>1 DEF ResultsFound
    <2>2. CASE /\ Len(left) = Len(hand) /\ left[1].status = hand[1].status
               /\ left[1].row = hand[1].row
               /\ \A i \in 2..Len(left) : left[i] = hand[i]
      <3>1. \A i \in 1..Len(left) : i \in 1..Len(hand) /\ (i = 1 \/ i \in 2..Len(left))
        BY <1>2, <2>2
      <3>2. QED
        BY <1>1, <1>2, <2>2, <3>1 DEF ResultsFound
    <2>3. QED
      BY <2>1, <2>2 DEF Cut
  <1>4. QED
    BY <1>1, <1>3, FoundConcat

LEMMA ServedHeld ==
    ASSUME HeldInv, HandsOut, NEW c, c = Head(Result.waiters),
           NEW s, s = unregister_pending_load(server, c),
           WorksOn(s, c), NextWaiter(c), UNCHANGED <<wake, ringing, writer, database>>
    PROVE  HeldInv'
  <1> DEFINE hand == reactor.hand
             results == ResultsOf(server, reactor)
             left == LeftOf(hand)
             rest == left \o server.completed
  <1>1. /\ SoundNow(results, {}) /\ server \in Servers
        /\ hand \in Seq(Results) /\ server.completed \in Seq(Results)
        /\ ResultsFound(results)
    BY InvIsSound
  <1>2. /\ reactor \in [stage : {"idle", "waiters", "results"}, kept : Nat,
                        hand : Seq(Results), input : Clients \cup {NoClient}]
        /\ HandAgrees(server, reactor)
    BY DEF HeldInv, HandAgrees
  <1>3. hand # <<>> /\ reactor.stage = "results"
    BY DEF HandsOut
  <1>4. Result = hand[1]
    BY <1>1, <1>3, NotEmpty DEF Result
  <1>5. /\ Sound(s, reactor, rest, {c}, database, writer, wake, ringing)
        /\ c \in Clients /\ OnlyTicket(server, s)
    BY Serving
  <1>6. s.job = server.job /\ s.completed = server.completed
    BY <1>1, <1>5 DEF OnlyTicket, Servers
  <1> HIDE DEF rest, results
  <1>7. /\ Sound(server', reactor, rest, {}, database, writer, wake, ringing)
        /\ truth' \in [Keys -> Values] /\ SameBusy(s, server')
        /\ server'.completed = s.completed
    BY <1>5, WorkSettles DEF HeldInv
  <1>8. SameBusy(server, server')
    BY <1>6, <1>7 DEF SameBusy
  <1>9. PICK input \in Clients \cup {NoClient} :
           reactor' = [reactor EXCEPT !.hand = left, !.input = input]
    <2>1. left = IF Len(Result.waiters) = 1 THEN Tail(reactor.hand)
                 ELSE [reactor.hand EXCEPT ![1].waiters = Tail(@)]
      BY <1>4 DEF LeftOf
    <2>2. QED
      BY <1>5, <2>1, ContinuesInput DEF NextWaiter
  <1>10. hand[1].waiters # <<>>
    <2>1. 1 \in 1..Len(results) /\ results[1] = hand[1] /\ ResultsAgree(server, results)
      <3>1. ResultsAgree(server, results)
        BY <1>1 DEF SoundNow, Sound, Held, ListsAgree
      <3>2. results = hand \o server.completed
        BY DEF results, ResultsOf
      <3>3. hand \in Seq(Results) /\ server.completed \in Seq(Results) /\ hand # <<>>
        BY <1>1, <1>3
      <3> HIDE DEF hand, left
      <3>4. 1 \in 1..Len(results) /\ results[1] = hand[1]
        BY <3>2, <3>3, FirstOfConcat
      <3>5. QED
        BY <3>1, <3>4
    <2>2. QED
      BY <2>1 DEF ResultsAgree
  <1>11. left \in Seq(Results) /\ Cut(hand, left)
    BY <1>1, <1>3, <1>10, LeftOfFacts
  <1>12. ASSUME NEW i \in 2..Len(left) PROVE left[i].verdict = "none"
    <2>1. \A j \in 2..Len(hand) : hand[j].verdict = "none"
      BY <1>2 DEF HandAgrees
    <2>2. Len(hand) \in Nat
      BY <1>1
    <2> HIDE DEF hand, left
    <2>3. QED
      BY <1>11, <2>1, <2>2 DEF Cut
  <1>13. rest = left \o server'.completed
    BY <1>6, <1>7 DEF rest
  <1>14. results = hand \o server.completed
    BY DEF results, ResultsOf
  <1> HIDE DEF left, hand
  <1>15. ResultsFound(rest)
    BY <1>1, <1>3, <1>10, <1>11, <1>14, CutFound DEF rest
  <1>16. QED
    BY <1>3, <1>7, <1>8, <1>9, <1>11, <1>12, <1>13, <1>15, WorkEnds

LEMMA RetryHeld ==
    ASSUME HeldInv, Retry
    PROVE  HeldInv'
  <1> DEFINE c == Head(Result.waiters)
             s == unregister_pending_load(server, c)
  <1>1. /\ HandsOut /\ NextWaiter(c) /\ UNCHANGED <<wake, ringing, writer, database>>
        /\ Executes(s, c) \/ Moves(Miss(s, c, Result.key))
    BY DEF Retry
  <1>2. KeyOf(s, c) = Result.key
    BY <1>1, Serving
  <1> HIDE DEF s
  <1>3. WorksOn(s, c)
    BY <1>1, <1>2 DEF WorksOn
  <1>4. s = unregister_pending_load(server, c)
    BY DEF s
  <1> HIDE DEF c
  <1>5. c = Head(Result.waiters)
    BY DEF c
  <1>6. QED
    BY <1>1, <1>3, <1>4, <1>5, ServedHeld

LEMMA DeliverHeld ==
    ASSUME HeldInv, Deliver
    PROVE  HeldInv'
  <1> DEFINE c == Head(Result.waiters)
             s == unregister_pending_load(server, c)
  <1>1. /\ HandsOut /\ NextWaiter(c) /\ UNCHANGED <<wake, ringing, writer, database>>
        /\ Executes(s, c) \/ Moves(Answered(s, c))
    BY DEF Deliver
  <1>2. s = unregister_pending_load(server, c)
    OBVIOUS
  <1> HIDE DEF s
  <1>3. WorksOn(s, c)
    BY <1>1 DEF WorksOn
  <1> HIDE DEF c
  <1>4. c = Head(Result.waiters)
    BY DEF c
  <1>5. QED
    BY <1>1, <1>2, <1>3, <1>4, ServedHeld

\* Steps that concern the cache, the negative cache or marks that are over.
Calm(s, t) ==
    /\ t \in Servers
    /\ SameWaiters(s, t) /\ SameNumbers(s, t)
    /\ t.request = s.request /\ t.load = s.load /\ t.completed = s.completed
    /\ \A k \in Keys : /\ t.dirty[k] \in {0, s.dirty[k]}
                       /\ s.dirty[k] > s.applied => t.dirty[k] = s.dirty[k]
    /\ LruAgrees(t)

LEMMA CalmSound ==
    ASSUME NEW s, NEW t, NEW r, NEW results, NEW db, NEW w, NEW bell, NEW rings,
           Sound(s, r, results, {}, db, w, bell, rings), Calm(s, t)
    PROVE  Sound(t, r, results, {}, db, w, bell, rings)
  <1>1. /\ s \in Servers /\ ListsAgree(s, results, {}) /\ WritesBounded(s)
        /\ NumbersAgree(s, db, w) /\ Awake(s, r, bell, rings, w)
    BY DEF Sound, Held
  <1>2. ListsAgree(t, results, {})
    BY <1>1, ListsFrame DEF Calm
  <1>3. WritesBounded(t)
    <2>1. Writing(t) = Writing(s)
      BY DEF Calm, Writing
    <2>2. QED
      BY <1>1, <2>1 DEF WritesBounded, Calm, SameNumbers
  <1>4. NumbersAgree(t, db, w)
    <2>1. s.next_sequence \in Nat /\ SameNumbers(s, t)
      BY <1>1 DEF Servers, Calm
    <2>2. \A k \in Keys : t.dirty[k] \in {0, s.dirty[k]}
      BY DEF Calm
    <2>3. QED
      BY <1>1, <2>1, <2>2, NumbersFrame
  <1>5. /\ t.waiting = s.waiting /\ t.applied = s.applied /\ t.request = s.request
        /\ t.completed = s.completed
    BY DEF Calm, SameWaiters, SameNumbers
  <1>6. Awake(t, r, bell, rings, w)
    <2>1. ASSUME NEW i \in 1..Len(s.waiting) PROVE KeyOf(s, s.waiting[i]) \in Keys
      <3>1. s.waiting \in Seq(Clients) /\ WaitersAgree(s, {})
        BY <1>1 DEF Servers, ListsAgree
      <3>2. s.waiting[i] \in Clients /\ In(s.waiting, s.waiting[i])
        BY <3>1 DEF In
      <3>3. s.request[s.waiting[i]] \in Requests
        BY <3>1, <3>2 DEF WaitersAgree
      <3>4. QED
        BY <3>3, Constants DEF KeyOf
    <2>2. \A k \in Keys : s.dirty[k] > s.applied => t.dirty[k] > t.applied
      BY <1>5 DEF Calm
    <2>3. \A c : KeyOf(t, c) = KeyOf(s, c)
      BY <1>5 DEF KeyOf
    <2>4. QED
      BY <1>1, <1>5, <2>1, <2>2, <2>3 DEF Awake
  <1>7. t \in Servers /\ LruAgrees(t)
    BY DEF Calm
  <1>8. QED
    BY <1>2, <1>3, <1>4, <1>5, <1>6, <1>7 DEF Sound, Held

LEMMA CalmHeld ==
    ASSUME HeldInv, Calm(server, server'), UNCHANGED <<reactor, truth>>,
           UNCHANGED <<wake, ringing, writer, database>>
    PROVE  HeldInv'
  <1>1. /\ SoundNow(ResultsOf(server, reactor), {})
        /\ reactor.hand \in Seq(Results)
        /\ ResultsFound(ResultsOf(server, reactor))
    BY InvIsSound
  <1>2. Sound(server', reactor, ResultsOf(server, reactor), {}, database, writer,
              wake, ringing)
    BY <1>1, CalmSound DEF SoundNow
  <1>3. /\ ResultsOf(server, reactor) = reactor.hand \o server'.completed
        /\ SameBusy(server, server')
    BY DEF Calm, SameWaiters, SameBusy, ResultsOf
  <1>4. /\ reactor \in [stage : {"idle", "waiters", "results"}, kept : Nat,
                        hand : Seq(Results), input : Clients \cup {NoClient}]
        /\ reactor.stage # "results" => reactor.hand = <<>>
        /\ \A i \in 2..Len(reactor.hand) : reactor.hand[i].verdict = "none"
        /\ truth' \in [Keys -> Values]
    BY DEF HeldInv, HandAgrees
  <1>5. reactor' = [reactor EXCEPT !.hand = reactor.hand, !.input = reactor.input]
    BY <1>4
  <1>6. reactor.input \in Clients \cup {NoClient}
    BY <1>4
  <1>7. QED
    BY <1>1, <1>2, <1>3, <1>4, <1>5, <1>6, WorkEnds

LEMMA PurgeCalm ==
    ASSUME NEW s, LruAgrees(s), NEW t, OnlyDirty(s, t)
    PROVE  Calm(s, t)
  <1>1. LruAgrees(t)
    BY DEF OnlyDirty, LruAgrees, Cached
  <1>2. QED
    BY <1>1 DEF OnlyDirty, Calm

LEMMA MaintainHeld ==
    ASSUME HeldInv, Maintain
    PROVE  HeldInv'
  <1>1. server \in Servers /\ LruAgrees(server)
    BY DEF HeldInv, Held
  <1>2. OnlyDirty(server, server')
    BY <1>1, PurgeFacts DEF Maintain
  <1>3. Calm(server, server')
    BY <1>1, <1>2, PurgeCalm
  <1>4. UNCHANGED <<reactor, truth>> /\ UNCHANGED <<wake, ringing, writer, database>>
    BY DEF Maintain
  <1>5. QED
    BY <1>3, <1>4, CalmHeld

LEMMA NegativeCalm ==
    ASSUME NEW s \in Servers, LruAgrees(s), NEW negative \in SUBSET Keys,
           NEW t, t = [s EXCEPT !.negative = negative]
    PROVE  Calm(s, t)
  <1>1. /\ t \in Servers /\ t.lru = s.lru /\ t.cache = s.cache /\ t.dirty = s.dirty
        /\ SameWaiters(s, t) /\ SameNumbers(s, t)
        /\ t.request = s.request /\ t.load = s.load /\ t.completed = s.completed
    BY DEF Servers, SameWaiters, SameNumbers
  <1>2. LruAgrees(t)
    BY <1>1 DEF LruAgrees, Cached
  <1>3. QED
    BY <1>1, <1>2 DEF Calm

LEMMA NegativeExpiresHeld ==
    ASSUME HeldInv, NEW k \in Keys, NegativeExpires(k)
    PROVE  HeldInv'
  <1>1. server \in Servers /\ LruAgrees(server)
    BY DEF HeldInv, Held
  <1>2. server.negative \ {k} \in SUBSET Keys
    BY <1>1 DEF Servers
  <1>3. server' = [server EXCEPT !.negative = server.negative \ {k}]
    BY DEF NegativeExpires, negative_cache_invalidate
  <1>4. Calm(server, server')
    BY <1>1, <1>2, <1>3, NegativeCalm
  <1>5. UNCHANGED <<reactor, truth>> /\ UNCHANGED <<wake, ringing, writer, database>>
    BY DEF NegativeExpires
  <1>6. QED
    BY <1>4, <1>5, CalmHeld

LEMMA StoreCalm ==
    ASSUME NEW s \in Servers, LruAgrees(s), NEW k \in Keys, NEW value \in Values,
           value # Absent, NEW t, t = StoreObject(s, k, value)
    PROVE  Calm(s, t) /\ CacheChanges(s, t, k, value) /\ OnlyCache(s, t)
  <1>1. OnlyCache(s, t) /\ CacheChanges(s, t, k, value)
    BY StoreObjectFacts
  <1>2. t.lru \in Seq(Keys) /\ t.cache \in [Keys -> Values] /\ LruAgrees(t)
    BY <1>1 DEF CacheChanges
  <1>3. /\ t \in Servers /\ t.dirty = s.dirty
        /\ SameWaiters(s, t) /\ SameNumbers(s, t)
        /\ t.request = s.request /\ t.load = s.load /\ t.completed = s.completed
    BY <1>1, <1>2 DEF OnlyCache, Servers, SameWaiters, SameNumbers
  <1>4. QED
    BY <1>1, <1>2, <1>3 DEF Calm

LEMMA TakeResultsHeld ==
    ASSUME HeldInv, TakeResults
    PROVE  HeldInv'
  <1> DEFINE u == purge_applied_dirty_keys(server, Keys)
             results == ResultsOf(server, reactor)
  <1>1. /\ SoundNow(results, {}) /\ server \in Servers
        /\ reactor.hand \in Seq(Results) /\ server.completed \in Seq(Results)
        /\ ResultsFound(results)
    BY InvIsSound
  <1>2. /\ reactor \in [stage : {"idle", "waiters", "results"}, kept : Nat,
                        hand : Seq(Results), input : Clients \cup {NoClient}]
        /\ HandAgrees(server, reactor)
    BY DEF HeldInv, HandAgrees
  <1>3. /\ reactor.stage = "waiters" /\ reactor.kept = Len(server.waiting)
        /\ server' = [u EXCEPT !.completed = <<>>, !.tail_gone = FALSE]
        /\ reactor' = [reactor EXCEPT !.stage = "results", !.kept = 0,
                                      !.hand = server.completed]
        /\ UNCHANGED <<wake, ringing, writer, database, truth>>
    BY DEF TakeResults
  <1>4. OnlyDirty(server, u)
    BY <1>1, PurgeFacts
  <1>5. LruAgrees(server)
    BY DEF HeldInv, Held
  <1>6. Calm(server, u)
    BY <1>4, <1>5, PurgeCalm
  <1> HIDE DEF u
  <1>7. Sound(u, reactor, results, {}, database, writer, wake, ringing)
    BY <1>1, <1>6, CalmSound DEF SoundNow
  <1>8. u \in Servers /\ Held(u, results, {}) /\ NumbersAgree(u, database, writer)
        /\ Awake(u, reactor, wake, ringing, writer)
    BY <1>7 DEF Sound, Held
  <1>9. /\ server' \in Servers /\ SameWaiters(u, server')
        /\ server'.request = u.request /\ server'.load = u.load
        /\ server'.cache = u.cache /\ server'.lru = u.lru
        /\ server'.dirty = u.dirty /\ SameNumbers(u, server')
        /\ server'.completed = <<>> /\ server'.job = u.job
    <2> DEFINE none == <<>>
    <2>1. none \in Seq(Results)
      OBVIOUS
    <2>2. server' = [u EXCEPT !.completed = none, !.tail_gone = FALSE]
      BY <1>3
    <2>3. none = <<>>
      OBVIOUS
    <2> HIDE DEF none
    <2>4. /\ server' \in Servers
          /\ server'.request = u.request /\ server'.load = u.load
          /\ server'.cache = u.cache /\ server'.lru = u.lru
          /\ server'.dirty = u.dirty /\ server'.completed = none
          /\ server'.job = u.job
      BY <1>8, <2>1, <2>2 DEF Servers
    <2>5. SameWaiters(u, server') /\ SameNumbers(u, server')
      BY <1>8, <2>2 DEF Servers, SameWaiters, SameNumbers
    <2>6. QED
      BY <2>3, <2>4, <2>5
  <1>10. server'.next_sequence = u.next_sequence /\ u.next_sequence \in Nat
         /\ server'.waiting = u.waiting /\ server'.applied = u.applied
    BY <1>8, <1>9 DEF SameNumbers, Servers, SameWaiters
  <1>11. Held(server', results, {})
    BY <1>8, <1>9, <1>10, HeldFrame
  <1>12. NumbersAgree(server', database, writer)
    BY <1>8, <1>9, <1>10, NumbersFrame
  <1>13. /\ reactor'.stage = "results" /\ reactor'.kept = 0
         /\ reactor'.hand = server.completed
         /\ reactor' \in [stage : {"idle", "waiters", "results"}, kept : Nat,
                        hand : Seq(Results), input : Clients \cup {NoClient}]
    BY <1>1, <1>2, <1>3
  <1>14. results = server.completed /\ ResultsOf(server', reactor') = server.completed
    <2>1. reactor.hand = <<>>
      BY <1>2, <1>3 DEF HandAgrees
    <2>2. <<>> \o server.completed = server.completed
          /\ server.completed \o <<>> = server.completed
      BY <1>1, ConcatEmptySeq
    <2>3. QED
      BY <1>9, <1>13, <2>1, <2>2 DEF ResultsOf
  <1>15. /\ server.waiting = u.waiting /\ server.waiting \in Seq(Clients)
    BY <1>1, <1>4 DEF OnlyDirty, SameWaiters, Servers
  <1>16. HandAgrees(server', reactor')
    <2>1. /\ \A i \in 1..Len(server.completed) : server.completed[i].verdict = "none"
          /\ Len(server.completed) \in Nat
      BY <1>1, <1>2 DEF HandAgrees
    <2>2. /\ \A i \in 2..Len(reactor'.hand) : reactor'.hand[i].verdict = "none"
      BY <1>13, <2>1
    <2>3. reactor'.kept <= Len(server'.waiting)
      BY <1>10, <1>13, <1>15
    <2>4. \A i \in 1..Len(server'.completed) : server'.completed[i].verdict = "none"
      BY <1>9
    <2>5. QED
      BY <1>13, <2>2, <2>3, <2>4 DEF HandAgrees
  <1>17. Awake(server', reactor', wake', ringing', writer')
    <2>1. \A i \in 1..Len(u.waiting) : ~(reactor.kept < i)
      BY <1>2, <1>3, <1>15
    <2>2. \A c : KeyOf(server', c) = KeyOf(u, c)
      BY <1>9 DEF KeyOf
    <2>3. QED
      BY <1>3, <1>8, <1>9, <1>10, <2>1, <2>2 DEF Awake
  <1>18. JobsFound(server') /\ ResultsFound(ResultsOf(server', reactor'))
    <2>1. server'.job = server.job
      BY <1>4, <1>9 DEF OnlyDirty, SameWaiters
    <2>2. QED
      BY <1>1, <1>14, <2>1 DEF HeldInv, JobsFound
  <1>19. BusyReaders' <= Readers
    <2>1. server'.job = server.job
      BY <1>4, <1>9 DEF OnlyDirty, SameWaiters
    <2>2. QED
      BY <1>3, <2>1 DEF HeldInv, BusyReaders
  <1>20. QED
    BY <1>3, <1>11, <1>12, <1>14, <1>16, <1>17, <1>18, <1>19 DEF HeldInv

LEMMA DrainEndsHeld ==
    ASSUME HeldInv, DrainEnds
    PROVE  HeldInv'
  <1>1. /\ reactor \in [stage : {"idle", "waiters", "results"}, kept : Nat,
                        hand : Seq(Results), input : Clients \cup {NoClient}]
        /\ HandAgrees(server, reactor)
    BY DEF HeldInv, HandAgrees
  <1>2. /\ reactor.stage = "results" /\ reactor.hand = <<>>
        /\ reactor' = [reactor EXCEPT !.stage = "idle"]
        /\ UNCHANGED <<server, wake, ringing, writer, database, truth>>
    BY DEF DrainEnds
  <1>3. /\ reactor'.stage = "idle" /\ reactor'.kept = reactor.kept
        /\ reactor'.hand = reactor.hand
        /\ reactor' \in [stage : {"idle", "waiters", "results"}, kept : Nat,
                        hand : Seq(Results), input : Clients \cup {NoClient}]
    BY <1>1, <1>2
  <1>4. HandAgrees(server', reactor')
    BY <1>1, <1>2, <1>3 DEF HandAgrees
  <1>5. Awake(server', reactor', wake', ringing', writer')
    BY <1>2, <1>3 DEF HeldInv, Awake
  <1>6. ResultsOf(server', reactor') = ResultsOf(server, reactor)
    BY <1>2, <1>3 DEF ResultsOf
  <1>7. BusyReaders' = BusyReaders
    BY <1>2 DEF BusyReaders
  <1>8. QED
    BY <1>2, <1>4, <1>5, <1>6, <1>7 DEF HeldInv

\* The results after the first one was judged.
Judged(hand, after, verdict) ==
    /\ after \in Seq(Results) /\ Len(after) = Len(hand)
    /\ after[1].key = hand[1].key /\ after[1].status = hand[1].status
    /\ after[1].row = hand[1].row /\ after[1].verdict = verdict
    /\ after[1].waiters = hand[1].waiters
    /\ \A i \in 2..Len(hand) : after[i] = hand[i]

LEMMA JudgedFacts ==
    ASSUME NEW hand \in Seq(Results), hand # <<>>, NEW verdict \in {"stale", "deliver"},
           NEW after, after = [hand EXCEPT ![1].verdict = verdict]
    PROVE  Judged(hand, after, verdict)
  <1>1. Len(hand) \in Nat /\ Len(hand) >= 1 /\ hand[1] \in Results
    BY NotEmpty
  <1> DEFINE e == [hand[1] EXCEPT !.verdict = verdict]
  <1>2. after = [hand EXCEPT ![1] = e]
    BY <1>1
  <1>3. /\ e \in Results
        /\ e.key = hand[1].key /\ e.status = hand[1].status
        /\ e.row = hand[1].row /\ e.verdict = verdict /\ e.waiters = hand[1].waiters
    BY <1>1 DEF Results
  <1> HIDE DEF e
  <1>4. /\ after \in Seq(Results) /\ Len(after) = Len(hand) /\ after[1] = e
        /\ \A i \in 2..Len(hand) : after[i] = hand[i]
    BY <1>1, <1>2, <1>3
  <1>5. QED
    BY <1>3, <1>4 DEF Judged

IsConcat(q, a, b) == q = a \o b

LEMMA JudgedLists ==
    ASSUME NEW hand \in Seq(Results), hand # <<>>, NEW completed \in Seq(Results),
           NEW after, NEW verdict, Judged(hand, after, verdict),
           NEW results, IsConcat(results, hand, completed),
           NEW rest, IsConcat(rest, after, completed),
           NEW s, ListsAgree(s, results, {}), ResultsFound(results)
    PROVE  ListsAgree(s, rest, {}) /\ ResultsFound(rest)
  <1> USE DEF IsConcat
  <1>1. Len(hand) \in Nat /\ Len(hand) >= 1
    BY NotEmpty
  <1>2. /\ after \in Seq(Results) /\ Len(after) = Len(hand)
        /\ \A i \in 1..Len(hand) :
              /\ after[i].key = hand[i].key /\ after[i].status = hand[i].status
              /\ after[i].row = hand[i].row /\ after[i].waiters = hand[i].waiters
    <2>1. \A i \in 1..Len(hand) : i = 1 \/ i \in 2..Len(hand)
      BY <1>1
    <2>2. QED
      BY <2>1 DEF Judged
  <1>3. /\ Len(results) = Len(hand) + Len(completed) /\ Len(completed) \in Nat
        /\ \A i \in 1..Len(results) : results[i] =
              IF i <= Len(hand) THEN hand[i] ELSE completed[i - Len(hand)]
    BY ConcatFacts
  <1>4. /\ Len(rest) = Len(after) + Len(completed)
        /\ \A i \in 1..Len(rest) : rest[i] =
              IF i <= Len(after) THEN after[i] ELSE completed[i - Len(after)]
    <2>1. after \in Seq(Results)
      BY <1>2
    <2>2. QED
      BY <2>1, ConcatFacts
  <1>5. Len(rest) = Len(results)
    BY <1>2, <1>3, <1>4
  <1>6. ASSUME NEW i \in 1..Len(results)
        PROVE  /\ rest[i].key = results[i].key /\ rest[i].status = results[i].status
               /\ rest[i].row = results[i].row
               /\ rest[i].waiters = results[i].waiters
    <2>1. CASE i <= Len(hand)
      <3>1. i \in 1..Len(hand) /\ rest[i] = after[i] /\ results[i] = hand[i]
        BY <1>1, <1>2, <1>3, <1>4, <1>5, <2>1
      <3>2. QED
        BY <1>2, <3>1
    <2>2. CASE ~(i <= Len(hand))
      BY <1>1, <1>2, <1>3, <1>4, <1>5, <2>2
    <2>3. QED
      BY <2>1, <2>2
  <1>7. ListsAgree(s, rest, {})
    BY <1>5, <1>6, ResultsFrame
  <1>8. ResultsFound(rest)
    <2> SUFFICES ASSUME NEW i \in 1..Len(rest), rest[i].status = "found"
                 PROVE  rest[i].row # Absent
      BY DEF ResultsFound
    <2>1. i \in 1..Len(results)
      BY <1>5
    <2>2. rest[i].row = results[i].row /\ results[i].status = "found"
      BY <1>6, <2>1
    <2>3. results[i].row # Absent
      BY <2>1, <2>2 DEF ResultsFound
    <2>4. QED
      BY <2>2, <2>3
  <1>9. QED
    BY <1>7, <1>8

LEMMA JudgeHeld ==
    ASSUME HeldInv, Judge
    PROVE  HeldInv'
  <1> DEFINE hand == reactor.hand
             results == ResultsOf(server, reactor)
             verdict == IF Outdated(server, Result) THEN "stale" ELSE "deliver"
             after == [hand EXCEPT ![1].verdict = verdict]
             rest == after \o server.completed
  <1>1. /\ SoundNow(results, {}) /\ server \in Servers
        /\ hand \in Seq(Results) /\ server.completed \in Seq(Results)
        /\ ResultsFound(results)
    BY InvIsSound
  <1>2. /\ reactor \in [stage : {"idle", "waiters", "results"}, kept : Nat,
                        hand : Seq(Results), input : Clients \cup {NoClient}]
        /\ HandAgrees(server, reactor) /\ LruAgrees(server)
    BY DEF HeldInv, HandAgrees, Held
  <1>3. hand # <<>> /\ reactor.stage = "results"
    BY DEF Judge, HandsOut
  <1>4. Result = hand[1] /\ Result \in Results /\ Len(hand) \in Nat /\ Len(hand) >= 1
    BY <1>1, <1>3, NotEmpty DEF Result
  <1>5. Result.status = "found" => Result.row # Absent
    <2>1. results = hand \o server.completed
      BY DEF ResultsOf
    <2> HIDE DEF hand, results
    <2>2. 1 \in 1..Len(results) /\ results[1] = hand[1]
      BY <1>1, <1>3, <2>1, FirstOfConcat
    <2>3. QED
      BY <1>1, <1>4, <2>2 DEF ResultsFound
  <1>6. Calm(server, server')
    <2>1. CASE server' = server
      BY <1>1, <1>2, <2>1 DEF Calm, SameWaiters, SameNumbers
    <2>2. CASE /\ Result.status = "found"
               /\ server' = StoreObject(server, Result.key, Result.row)
      <3>1. Result.key \in Keys /\ Result.row \in Values
        BY <1>4 DEF Results
      <3>2. QED
        BY <1>1, <1>2, <1>5, <2>2, <3>1, StoreCalm
    <2>3. CASE server' = [server EXCEPT !.negative = server.negative \cup {Result.key}]
      <3>1. server.negative \cup {Result.key} \in SUBSET Keys
        BY <1>1, <1>4 DEF Servers, Results
      <3>2. QED
        BY <1>1, <1>2, <2>3, <3>1, NegativeCalm
    <2>4. QED
      BY <2>1, <2>2, <2>3 DEF Judge
  <1>7. Sound(server', reactor, results, {}, database, writer, wake, ringing)
    BY <1>1, <1>6, CalmSound DEF SoundNow
  <1>8. verdict \in {"stale", "deliver"}
    OBVIOUS
  <1>9. /\ reactor' = [reactor EXCEPT !.hand = after]
        /\ UNCHANGED <<wake, ringing, writer, database>> /\ UNCHANGED truth
    <2>1. reactor' = [reactor EXCEPT !.hand[1].verdict = verdict]
      BY DEF Judge
    <2> HIDE DEF verdict
    <2>2. QED
      BY <1>2, <2>1 DEF Judge
  <1> HIDE DEF verdict
  <1>10. Judged(hand, after, verdict)
    BY <1>1, <1>3, <1>8, JudgedFacts
  <1> HIDE DEF after
  <1>11. /\ server'.completed = server.completed /\ server'.job = server.job
    BY <1>6 DEF Calm, SameWaiters
  <1>12. results = hand \o server.completed /\ rest = after \o server.completed
    BY DEF ResultsOf
  <1> HIDE DEF results, rest
  <1>13. /\ ListsAgree(server', rest, {}) /\ ResultsFound(rest)
    <2>1. ListsAgree(server', results, {})
      BY <1>7 DEF Sound, Held
    <2> HIDE DEF hand
    <2>2. hand \in Seq(Results) /\ hand # <<>> /\ server.completed \in Seq(Results)
      BY <1>1, <1>3
    <2>3. ResultsFound(results)
      BY <1>1
    <2>4. /\ IsConcat(results, hand, server.completed)
          /\ IsConcat(rest, after, server.completed)
      BY <1>12 DEF IsConcat
    <2>5. QED
      BY <1>10, <2>1, <2>2, <2>3, <2>4, JudgedLists
  <1>14. Sound(server', reactor, rest, {}, database, writer, wake, ringing)
    BY <1>7, <1>13 DEF Sound, Held
  <1>15. reactor' = [reactor EXCEPT !.hand = after, !.input = reactor.input]
         /\ reactor.input \in Clients \cup {NoClient}
    BY <1>2, <1>9
  <1>16. SameBusy(server, server')
    BY <1>11 DEF SameBusy
  <1>17. after \in Seq(Results) /\ \A i \in 2..Len(after) : after[i].verdict = "none"
    BY <1>2, <1>10 DEF Judged, HandAgrees
  <1>18. rest = after \o server'.completed /\ truth' \in [Keys -> Values]
    BY <1>9, <1>11, <1>12 DEF HeldInv
  <1> HIDE DEF hand
  <1>19. QED
    BY <1>3, <1>9, <1>13, <1>14, <1>15, <1>16, <1>17, <1>18, WorkEnds

\* What a reader does not touch.
ReaderOnly(s, t) ==
    /\ SameValues(s, t)
    /\ t.request = s.request /\ t.ticket = s.ticket /\ t.load = s.load
    /\ t.waiting = s.waiting /\ t.overlooked = s.overlooked

LEMMA ReaderSound ==
    ASSUME NEW s, NEW t \in Servers, NEW r, NEW results, NEW db, NEW w, NEW bell,
           NEW rings, Sound(s, r, results, {}, db, w, bell, rings),
           ReaderOnly(s, t), ListsAgree(t, results, {})
    PROVE  Sound(t, r, results, {}, db, w, bell, rings)
  <1>1. /\ s \in Servers /\ LruAgrees(s) /\ WritesBounded(s)
        /\ NumbersAgree(s, db, w) /\ Awake(s, r, bell, rings, w)
    BY DEF Sound, Held
  <1>2. /\ t.waiting = s.waiting /\ t.applied = s.applied /\ t.request = s.request
        /\ t.completed = s.completed /\ t.dirty = s.dirty /\ t.cache = s.cache
        /\ t.lru = s.lru /\ t.next_sequence = s.next_sequence
    BY DEF ReaderOnly, SameValues
  <1>3. LruAgrees(t)
    BY <1>1, <1>2 DEF LruAgrees, Cached
  <1>4. WritesBounded(t)
    <2>1. Writing(t) = Writing(s)
      BY <1>2 DEF Writing
    <2>2. QED
      BY <1>1, <1>2, <2>1 DEF WritesBounded
  <1>5. NumbersAgree(t, db, w)
    <2>1. s.next_sequence \in Nat /\ SameNumbers(s, t)
      BY <1>1 DEF Servers, ReaderOnly, SameValues, SameNumbers
    <2>2. QED
      BY <1>1, <1>2, <2>1, NumbersFrame
  <1>6. Awake(t, r, bell, rings, w)
    BY <1>1, <1>2 DEF Awake, KeyOf
  <1>7. QED
    BY <1>2, <1>3, <1>4, <1>5, <1>6 DEF Sound, Held

\* A reader goes on with its job.
GoesOn(s, t, k, job) ==
    /\ t.job = [s.job EXCEPT ![k] = job]
    /\ job.waiters = s.job[k].waiters
    /\ job.stage \in Busy /\ s.job[k].stage # "none"
    /\ job.stage = "snapped" => EndOf(job.snapshot, job.waiters)
    /\ job.status = "found" => job.row # Absent
    /\ \/ t.queue = s.queue /\ s.job[k].stage # "queued"
       \/ s.queue # <<>> /\ t.queue = Tail(s.queue) /\ k = Head(s.queue)

LEMMA ReaderHeld ==
    ASSUME HeldInv, server' \in Servers, ReaderOnly(server, server'),
           NEW k \in Keys, NEW job, GoesOn(server, server', k, job),
           BusyReaders' <= Readers,
           UNCHANGED <<reactor, wake, ringing, writer, database, truth>>
    PROVE  HeldInv'
  <1> DEFINE results == ResultsOf(server, reactor)
  <1>1. SoundNow(results, {}) /\ server \in Servers /\ ResultsFound(results)
    BY InvIsSound
  <1>2. ListsAgree(server, results, {})
    BY <1>1 DEF SoundNow, Sound, Held
  <1>3. /\ server'.request = server.request /\ server'.ticket = server.ticket
        /\ server'.load = server.load /\ server'.waiting = server.waiting
        /\ server'.overlooked = server.overlooked
        /\ server'.completed = server.completed
    BY DEF ReaderOnly, SameValues
  <1> HIDE DEF results
  <1>4. ListsAgree(server', results, {})
    BY <1>1, <1>2, <1>3, JobGoesOn DEF GoesOn
  <1>5. Sound(server', reactor, results, {}, database, writer, wake, ringing)
    BY <1>1, <1>4, ReaderSound DEF SoundNow
  <1>6. results = ResultsOf(server', reactor')
    BY <1>3 DEF results, ResultsOf
  <1>7. JobsFound(server')
    <2>1. server.job \in [Keys -> Jobs] /\ server'.job = [server.job EXCEPT ![k] = job]
          /\ JobsFound(server) /\ (job.status = "found" => job.row # Absent)
      BY <1>1 DEF Servers, HeldInv, GoesOn
    <2>2. QED
      BY <2>1 DEF JobsFound
  <1>8. HandAgrees(server', reactor')
    BY <1>3 DEF HeldInv, HandAgrees
  <1>9. /\ Held(server', ResultsOf(server', reactor'), {})
        /\ NumbersAgree(server', database', writer')
        /\ Awake(server', reactor', wake', ringing', writer')
        /\ ResultsFound(ResultsOf(server', reactor'))
    BY <1>1, <1>5, <1>6 DEF Sound
  <1>10. wake' \in BOOLEAN /\ ringing' \in Nat /\ truth' \in [Keys -> Values]
    BY DEF HeldInv
  <1>11. QED
    BY <1>7, <1>8, <1>9, <1>10 DEF HeldInv

\* The readers at work.
AtWork == {k \in Keys : server.job[k].stage \in Busy}

LEMMA AtWorkFinite == IsFiniteSet(AtWork) /\ Cardinality(AtWork) \in Nat
                      /\ BusyReaders = ringing + Cardinality(AtWork)
  <1>1. AtWork \subseteq Keys
    BY DEF AtWork
  <1>2. IsFiniteSet(AtWork)
    BY <1>1, Constants, FS_Subset
  <1>3. Cardinality(AtWork) \in Nat
    BY <1>2, FS_CardinalityType
  <1>4. QED
    BY <1>2, <1>3 DEF BusyReaders, AtWork, Busy

LEMMA ReaderTakesHeld ==
    ASSUME HeldInv, ReaderTakes
    PROVE  HeldInv'
  <1> DEFINE k == Head(server.queue)
             job == [server.job[k] EXCEPT !.stage = "taken"]
             jobs == [server.job EXCEPT ![k] = job]
             queue == Tail(server.queue)
  <1>1. /\ server \in Servers /\ QueueAgrees(server) /\ JobsFound(server)
        /\ server.queue # <<>> /\ BusyReaders < Readers
        /\ ringing \in Nat
    BY DEF HeldInv, Held, ListsAgree, ReaderTakes
  <1>2. server.queue \in Seq(Keys) /\ server.job \in [Keys -> Jobs]
    BY <1>1 DEF Servers
  <1>3. k \in Keys /\ queue \in Seq(Keys) /\ server.queue[1] = k /\ 1 \in 1..Len(server.queue)
    BY <1>1, <1>2, NotEmpty, HeadTailProperties
  <1>4. server.job[k] \in Jobs /\ server.job[k].stage = "queued"
    BY <1>1, <1>2, <1>3 DEF QueueAgrees
  <1>5. /\ job \in Jobs /\ job.stage = "taken" /\ job.waiters = server.job[k].waiters
        /\ job.status = server.job[k].status /\ job.row = server.job[k].row
    BY <1>4 DEF Jobs, Busy
  <1>6. server' = [server EXCEPT !.queue = queue, !.job = jobs]
    BY <1>1, <1>2, <1>3 DEF ReaderTakes, Servers
  <1> HIDE DEF job
  <1>7. jobs \in [Keys -> Jobs] /\ jobs[k] = job
        /\ \A x \in Keys \ {k} : jobs[x] = server.job[x]
    BY <1>2, <1>3, <1>5
  <1>8. jobs = [server.job EXCEPT ![k] = job] /\ queue = Tail(server.queue)
    OBVIOUS
  <1> HIDE DEF jobs, queue
  <1>9. /\ server' \in Servers /\ ReaderOnly(server, server')
        /\ server'.job = jobs /\ server'.queue = queue
    BY <1>1, <1>3, <1>6, <1>7 DEF Servers, ReaderOnly, SameValues
  <1>10. GoesOn(server, server', k, job)
    <2>1. job.status = "found" => job.row # Absent
      BY <1>1, <1>3, <1>5 DEF JobsFound
    <2>2. QED
      BY <1>1, <1>4, <1>5, <1>8, <1>9, <2>1 DEF GoesOn, Busy
  <1>11. UNCHANGED <<reactor, wake, ringing, writer, database, truth>>
    BY DEF ReaderTakes
  <1>12. BusyReaders' <= Readers
    <2>1. AtWork' = AtWork \cup {k} /\ k \notin AtWork
      <3>1. \A x \in Keys : server'.job[x].stage \in Busy
               <=> server.job[x].stage \in Busy \/ x = k
        BY <1>5, <1>7, <1>9 DEF Busy
      <3>2. server.job[k].stage \notin Busy
        BY <1>4 DEF Busy
      <3> HIDE DEF k
      <3>3. QED
        BY <1>3, <3>1, <3>2 DEF AtWork
    <2>2. Cardinality(AtWork') = Cardinality(AtWork) + 1
      BY <2>1, AtWorkFinite, FS_AddElement
    <2>3. BusyReaders' = ringing + Cardinality(AtWork')
      <3>1. {x \in Keys : server'.job[x].stage
                             \in {"taken", "keyed", "loaded", "snapped"}} = AtWork'
        BY DEF AtWork, Busy
      <3>2. QED
        BY <1>11, <3>1 DEF BusyReaders
    <2>4. QED
      BY <1>1, <2>2, <2>3, AtWorkFinite, Constants
  <1>13. QED
    BY <1>3, <1>9, <1>10, <1>11, <1>12, ReaderHeld

LEMMA ReaderStepHeld ==
    ASSUME HeldInv, NEW k \in Keys, NEW from \in Busy, NEW job \in Jobs,
           ReaderStep(k, from, job), job.waiters = server.job[k].waiters,
           job.stage \in Busy,
           job.stage = "snapped" => EndOf(job.snapshot, job.waiters),
           job.status = "found" => job.row # Absent
    PROVE  HeldInv'
  <1> DEFINE jobs == [server.job EXCEPT ![k] = job]
  <1>1. server \in Servers /\ BusyReaders <= Readers
    BY DEF HeldInv, Held
  <1>2. server.job \in [Keys -> Jobs]
    BY <1>1 DEF Servers
  <1>3. /\ server' = [server EXCEPT !.job = jobs] /\ server.job[k].stage \in Busy
        /\ UNCHANGED <<reactor, wake, ringing, writer, database, truth>>
    BY <1>1, <1>2 DEF ReaderStep, Servers
  <1>4. jobs \in [Keys -> Jobs] /\ jobs[k] = job
        /\ \A x \in Keys \ {k} : jobs[x] = server.job[x]
    BY <1>2
  <1>5. jobs = [server.job EXCEPT ![k] = job]
    OBVIOUS
  <1> HIDE DEF jobs
  <1>6. /\ server' \in Servers /\ ReaderOnly(server, server')
        /\ server'.job = jobs /\ server'.queue = server.queue
    BY <1>1, <1>3, <1>4 DEF Servers, ReaderOnly, SameValues
  <1>7. GoesOn(server, server', k, job)
    BY <1>3, <1>5, <1>6 DEF GoesOn, Busy
  <1>8. BusyReaders' = BusyReaders
    <2>1. {x \in Keys : server'.job[x].stage \in {"taken", "keyed", "loaded", "snapped"}}
          = {x \in Keys : server.job[x].stage \in {"taken", "keyed", "loaded", "snapped"}}
      BY <1>3, <1>4, <1>6 DEF Busy
    <2>2. QED
      BY <1>3, <2>1 DEF BusyReaders
  <1>9. QED
    BY <1>1, <1>3, <1>6, <1>7, <1>8, ReaderHeld

LEMMA LoadedType ==
    ASSUME server \in Servers, NEW k \in Keys, NEW status \in Statuses,
           NEW row \in Values, NEW job, job = Loaded(k, status, row)
    PROVE  /\ job \in Jobs /\ job.stage = "loaded" /\ job.status = status
           /\ job.row = row /\ job.waiters = server.job[k].waiters
  <1>1. server.job[k] \in Jobs
    BY DEF Servers
  <1>2. QED
    BY <1>1 DEF Loaded, Jobs, Busy

LEMMA LoadsHeld ==
    ASSUME HeldInv, NEW k \in Keys, NEW from \in Busy, NEW status \in Statuses,
           NEW row \in Values, status = "found" => row # Absent,
           ReaderStep(k, from, Loaded(k, status, row))
    PROVE  HeldInv'
  <1> DEFINE job == Loaded(k, status, row)
  <1>1. server \in Servers
    BY DEF HeldInv, Held
  <1>2. /\ job \in Jobs /\ job.stage = "loaded" /\ job.status = status
        /\ job.row = row /\ job.waiters = server.job[k].waiters
    BY <1>1, LoadedType
  <1>3. ReaderStep(k, from, job)
    OBVIOUS
  <1> HIDE DEF job
  <1>4. job.stage \in Busy /\ job.stage # "snapped"
    BY <1>2 DEF Busy
  <1>5. QED
    BY <1>2, <1>3, <1>4, ReaderStepHeld

LEMMA ReadsHeld ==
    ASSUME HeldInv, NEW k \in Keys, LoadKey(k) \/ LoadValue(k) \/ LoadFails(k)
    PROVE  HeldInv'
  <1>1. server \in Servers /\ JobsFound(server) /\ database.rows \in [Keys -> Values]
    BY DEF HeldInv, Held, NumbersAgree
  <1>2. Absent \in Values /\ {} \in Values /\ {} # Absent
    BY CacheAsideAssumption DEF Values
  <1>3. {"taken", "keyed"} \subseteq Busy
        /\ {"found", "absent", "internal", "unavailable"} \subseteq Statuses
    BY DEF Busy, Statuses
  <1>4. CASE LoadKey(k)
    <2>1. CASE database.rows[k] = Absent
      <3>1. ReaderStep(k, "taken", Loaded(k, "absent", Absent))
        BY <1>4, <2>1 DEF LoadKey
      <3>2. QED
        BY <1>2, <1>3, <3>1, LoadsHeld
    <2>2. CASE database.rows[k] # Absent
      <3> DEFINE job == [server.job[k] EXCEPT !.stage = "keyed"]
      <3>1. server.job[k] \in Jobs
        BY <1>1 DEF Servers
      <3>2. /\ job \in Jobs /\ job.stage = "keyed" /\ job.status = server.job[k].status
            /\ job.row = server.job[k].row /\ job.waiters = server.job[k].waiters
        BY <3>1 DEF Jobs, Busy
      <3>3. ReaderStep(k, "taken", job)
        BY <1>4, <2>2 DEF LoadKey
      <3> HIDE DEF job
      <3>4. job.status = "found" => job.row # Absent
        BY <1>1, <3>2 DEF JobsFound
      <3>5. job.stage \in Busy /\ job.stage # "snapped" /\ "taken" \in Busy
        BY <3>2 DEF Busy
      <3>6. QED
        BY <3>2, <3>3, <3>4, <3>5, ReaderStepHeld
    <2>3. QED
      BY <2>1, <2>2
  <1>5. CASE LoadValue(k)
    <2>1. CASE database.rows[k] # Absent
      <3>1. ReaderStep(k, "keyed", Loaded(k, "found", database.rows[k]))
        BY <1>5, <2>1 DEF LoadValue
      <3>2. database.rows[k] \in Values
        BY <1>1
      <3>3. QED
        BY <1>3, <2>1, <3>1, <3>2, LoadsHeld
    <2>2. CASE database.rows[k] = Absent /\ k \in Hashes
      <3>1. ReaderStep(k, "keyed", Loaded(k, "found", {}))
        BY <1>5, <2>2 DEF LoadValue
      <3>2. QED
        BY <1>2, <1>3, <3>1, LoadsHeld
    <2>3. CASE database.rows[k] = Absent /\ k \notin Hashes
      <3>1. ReaderStep(k, "keyed", Loaded(k, "internal", Absent))
        BY <1>5, <2>3 DEF LoadValue
      <3>2. QED
        BY <1>2, <1>3, <3>1, LoadsHeld
    <2>4. QED
      BY <2>1, <2>2, <2>3
  <1>6. CASE LoadFails(k)
    <2>1. PICK from \in {"taken", "keyed"} :
             ReaderStep(k, from, Loaded(k, "unavailable", Absent))
      BY <1>6 DEF LoadFails
    <2>2. QED
      BY <1>2, <1>3, <2>1, LoadsHeld
  <1>7. QED
    BY <1>4, <1>5, <1>6

LEMMA SnapWaitersHeld ==
    ASSUME HeldInv, NEW k \in Keys, SnapWaiters(k)
    PROVE  HeldInv'
  <1> DEFINE waiters == server.job[k].waiters
             job == [server.job[k] EXCEPT !.stage = "snapped", !.snapshot = waiters]
  <1>1. server \in Servers /\ JobsFound(server) /\ JobsAgree(server)
    BY DEF HeldInv, Held, ListsAgree
  <1>2. server.job[k] \in Jobs
    BY <1>1 DEF Servers
  <1>3. waiters \in Seq(Clients)
    BY <1>2 DEF Jobs
  <1>4. /\ job \in Jobs /\ job.stage = "snapped" /\ job.status = server.job[k].status
        /\ job.row = server.job[k].row /\ job.waiters = waiters
        /\ job.snapshot = waiters
    BY <1>2, <1>3 DEF Jobs, Busy
  <1>5. ReaderStep(k, "loaded", job) /\ server.job[k].stage = "loaded"
    BY DEF SnapWaiters, ReaderStep
  <1> HIDE DEF job
  <1>6. waiters # <<>>
    BY <1>1, <1>5 DEF JobsAgree
  <1>7. job.status = "found" => job.row # Absent
    BY <1>1, <1>4 DEF JobsFound
  <1>8. EndOf(job.snapshot, job.waiters)
    <2> HIDE DEF waiters
    <2>1. Len(waiters) \in Nat /\ \A i \in 1..Len(waiters) : i + (Len(waiters) - Len(waiters)) = i
      BY <1>3
    <2>2. QED
      BY <1>4, <1>6, <2>1 DEF EndOf
  <1>9. job.stage \in Busy /\ "loaded" \in Busy
    BY <1>4 DEF Busy
  <1>10. QED
    BY <1>4, <1>5, <1>7, <1>8, <1>9, ReaderStepHeld

\* A result comes behind the others.
Behind(rest, results, new) ==
    /\ Len(rest) = Len(results) + 1
    /\ \A i \in 1..Len(results) : rest[i] = results[i]
    /\ rest[Len(rest)] = new

LEMMA ConcatAppend ==
    ASSUME NEW hand \in Seq(Results), NEW completed \in Seq(Results),
           NEW new \in Results, NEW results, results = hand \o completed,
           NEW after, after = Append(completed, new),
           NEW rest, rest = hand \o after
    PROVE  Behind(rest, results, new) /\ Len(results) \in Nat
  <1>1. /\ Len(hand) \in Nat /\ Len(completed) \in Nat
        /\ Len(results) = Len(hand) + Len(completed)
        /\ \A i \in 1..Len(results) : results[i] =
              IF i <= Len(hand) THEN hand[i] ELSE completed[i - Len(hand)]
    BY ConcatFacts
  <1>2. /\ after \in Seq(Results) /\ Len(after) = Len(completed) + 1
        /\ \A i \in 1..Len(completed) : after[i] = completed[i]
        /\ after[Len(completed) + 1] = new
    OBVIOUS
  <1>3. /\ Len(rest) = Len(hand) + Len(after)
        /\ \A i \in 1..Len(rest) : rest[i] =
              IF i <= Len(hand) THEN hand[i] ELSE after[i - Len(hand)]
    <2>1. hand \in Seq(Results) /\ after \in Seq(Results) /\ rest = hand \o after
      BY <1>2
    <2>2. QED
      BY ONLY <2>1, ConcatFacts
  <1>4. Len(rest) = Len(results) + 1 /\ Len(results) \in Nat
    BY <1>1, <1>2, <1>3
  <1>5. ASSUME NEW i \in 1..Len(results) PROVE rest[i] = results[i]
    <2>1. i \in 1..Len(rest)
      BY <1>4
    <2>2. CASE i <= Len(hand)
      BY <1>1, <1>3, <2>1, <2>2
    <2>3. CASE ~(i <= Len(hand))
      <3>1. i - Len(hand) \in 1..Len(completed)
        BY <1>1, <2>3
      <3>2. QED
        BY <1>1, <1>2, <1>3, <2>1, <2>3, <3>1
    <2>4. QED
      BY <2>2, <2>3
  <1>6. rest[Len(rest)] = new
    <2>1. /\ Len(rest) \in 1..Len(rest) /\ ~(Len(rest) <= Len(hand))
          /\ Len(rest) - Len(hand) = Len(completed) + 1
      BY <1>1, <1>2, <1>3
    <2>2. QED
      BY <1>2, <1>3, <2>1
  <1>7. QED
    BY <1>4, <1>5, <1>6 DEF Behind

LEMMA ReaderFinishesHeld ==
    ASSUME HeldInv, NEW k \in Keys, ReaderFinishes(k)
    PROVE  HeldInv'
  <1> DEFINE job == server.job[k]
             new == [key |-> k, status |-> job.status, row |-> job.row,
                     verdict |-> "none", waiters |-> job.snapshot]
             jobs == [server.job EXCEPT ![k] = NoJob]
             completed == Append(server.completed, new)
             overlooked == server.overlooked
                              \cup (ToSet(job.waiters) \ ToSet(job.snapshot))
             results == ResultsOf(server, reactor)
             rest == reactor.hand \o completed
  <1>1. /\ SoundNow(results, {}) /\ server \in Servers
        /\ reactor.hand \in Seq(Results) /\ server.completed \in Seq(Results)
        /\ ResultsFound(results)
    BY InvIsSound
  <1>2. server.job \in [Keys -> Jobs] /\ server.overlooked \in SUBSET Clients
    BY <1>1 DEF Servers
  <1>3. job \in Jobs /\ job.waiters \in Seq(Clients) /\ job.snapshot \in Seq(Clients)
    <2>1. job \in Jobs
      BY <1>2
    <2>2. QED
      BY <2>1 DEF Jobs
  <1>4. /\ new \in Results /\ new.key = k /\ new.status = job.status
        /\ new.row = job.row /\ new.verdict = "none" /\ new.waiters = job.snapshot
    BY <1>3 DEF Results, Jobs
  <1>5. /\ job.stage = "snapped"
        /\ server' = [server EXCEPT !.job = jobs, !.completed = completed,
                                    !.overlooked = overlooked]
        /\ ringing' = ringing + 1
        /\ UNCHANGED <<reactor, wake, writer, database, truth>>
    BY <1>1 DEF ReaderFinishes, Servers
  <1>6. overlooked \in SUBSET Clients
    <2>1. ToSet(job.waiters) \subseteq Clients
      BY <1>3 DEF ToSet
    <2>2. QED
      BY <1>2, <2>1
  <1> HIDE DEF new, job
  <1>7. completed \in Seq(Results)
    BY <1>1, <1>4
  <1>8. jobs \in [Keys -> Jobs] /\ jobs[k] = NoJob
        /\ \A x \in Keys \ {k} : jobs[x] = server.job[x]
    BY <1>2, NoJobType
  <1>9. Behind(rest, results, new) /\ Len(results) \in Nat
    <2>1. results = reactor.hand \o server.completed
      BY DEF ResultsOf
    <2>2. completed = Append(server.completed, new) /\ rest = reactor.hand \o completed
      OBVIOUS
    <2> HIDE DEF results, rest, completed
    <2>3. QED
      BY <1>1, <1>4, <2>1, <2>2, ConcatAppend
  <1>10. /\ jobs = [server.job EXCEPT ![k] = NoJob]
         /\ overlooked = server.overlooked
                              \cup (ToSet(job.waiters) \ ToSet(job.snapshot))
    OBVIOUS
  <1> HIDE DEF jobs, overlooked
  <1>11. completed = Append(server.completed, new) /\ rest = reactor.hand \o completed
    OBVIOUS
  <1> HIDE DEF completed, rest, results
  <1>12. /\ server' \in Servers /\ server'.job = jobs /\ server'.completed = completed
         /\ server'.overlooked = overlooked /\ server'.request = server.request
         /\ server'.ticket = server.ticket /\ server'.load = server.load
         /\ server'.waiting = server.waiting /\ server'.queue = server.queue
         /\ server'.lru = server.lru /\ server'.cache = server.cache
         /\ server'.dirty = server.dirty /\ SameNumbers(server, server')
    BY <1>1, <1>5, <1>6, <1>7, <1>8 DEF Servers, SameNumbers
  <1>13. ListsAgree(server', rest, {})
    <2>1. ListsAgree(server, results, {})
      BY <1>1 DEF SoundNow, Sound, Held
    <2>2. server.job[k].stage = "snapped" /\ job = server.job[k]
      BY <1>5 DEF job
    <2>3. /\ Len(rest) = Len(results) + 1
          /\ \A i \in 1..Len(results) : rest[i] = results[i]
          /\ rest[Len(rest)].key = k /\ rest[Len(rest)].waiters = server.job[k].snapshot
      BY <1>4, <1>9, <2>2 DEF Behind
    <2>4. QED
      BY <1>1, <1>9, <1>10, <1>12, <2>1, <2>2, <2>3, JobFinished
  <1>14. LruAgrees(server')
    BY <1>12 DEF HeldInv, Held, LruAgrees, Cached
  <1>15. server'.next_sequence = server.next_sequence /\ server.next_sequence \in Nat
         /\ server'.applied = server.applied
    BY <1>1, <1>12 DEF SameNumbers, Servers
  <1>16. WritesBounded(server')
    <2>1. Writing(server') = Writing(server)
      BY <1>12 DEF Writing
    <2>2. QED
      BY <1>15, <2>1 DEF HeldInv, Held, WritesBounded
  <1>17. NumbersAgree(server', database', writer')
    <2>1. NumbersAgree(server', database, writer)
      BY <1>12, <1>15, NumbersFrame DEF HeldInv
    <2>2. QED
      BY <1>5, <2>1
  <1>18. ringing \in Nat /\ ringing' \in Nat /\ ringing' > 0
    BY <1>5 DEF HeldInv
  <1>19. Awake(server', reactor', wake', ringing', writer')
    <2>1. \A c : KeyOf(server', c) = KeyOf(server, c)
      BY <1>12 DEF KeyOf
    <2>2. Awake(server, reactor, wake, ringing, writer)
      BY DEF HeldInv
    <2>3. QED
      BY <1>5, <1>12, <1>15, <1>18, <2>1, <2>2 DEF Awake
  <1>20. ResultsOf(server', reactor') = rest
    BY <1>5, <1>11, <1>12 DEF ResultsOf
  <1>21. HandAgrees(server', reactor')
    <2>1. \A i \in 1..Len(server'.completed) : server'.completed[i].verdict = "none"
      <3>1. \A i \in 1..Len(server.completed) : server.completed[i].verdict = "none"
        BY DEF HeldInv, HandAgrees
      <3>2. \A i \in 1..Len(completed) :
               \/ i \in 1..Len(server.completed) /\ completed[i] = server.completed[i]
               \/ completed[i] = new
        BY <1>1, <1>4, <1>11
      <3>3. QED
        BY <1>4, <1>12, <3>1, <3>2
    <2>2. QED
      BY <1>5, <1>12, <2>1 DEF HeldInv, HandAgrees
  <1>22. JobsFound(server') /\ ResultsFound(rest)
    <2>1. JobsFound(server)
      BY DEF HeldInv
    <2>2. new.status = "found" => new.row # Absent
      BY <1>4, <2>1 DEF JobsFound, job
    <2>3. JobsFound(server')
      BY <1>8, <1>12, <2>1 DEF JobsFound, NoJob
    <2>4. \A i \in 1..Len(rest) :
             \/ i \in 1..Len(results) /\ rest[i] = results[i]
             \/ rest[i] = new
      BY <1>9 DEF Behind
    <2>5. QED
      BY <1>1, <2>2, <2>3, <2>4 DEF ResultsFound
  <1>23. BusyReaders' <= Readers
    <2>1. AtWork' = AtWork \ {k} /\ k \in AtWork
      <3>1. \A x \in Keys : server'.job[x].stage \in Busy
               <=> server.job[x].stage \in Busy /\ x # k
        BY <1>8, <1>12 DEF Busy, NoJob
      <3>2. server.job[k].stage \in Busy
        BY <1>5 DEF Busy, job
      <3>3. QED
        BY <3>1, <3>2 DEF AtWork
    <2>2. Cardinality(AtWork') = Cardinality(AtWork) - 1
      BY <2>1, AtWorkFinite, FS_RemoveElement
    <2>3. BusyReaders' = ringing' + Cardinality(AtWork')
      <3>1. {x \in Keys : server'.job[x].stage
                             \in {"taken", "keyed", "loaded", "snapped"}} = AtWork'
        BY DEF AtWork, Busy
      <3>2. QED
        BY <3>1 DEF BusyReaders
    <2>4. BusyReaders <= Readers
      BY DEF HeldInv
    <2>5. QED
      BY <1>5, <1>18, <2>2, <2>3, <2>4, AtWorkFinite, Constants
  <1>24. Held(server', ResultsOf(server', reactor'), {})
    BY <1>12, <1>13, <1>14, <1>16, <1>20 DEF Held
  <1>25. wake' \in BOOLEAN /\ truth' \in [Keys -> Values]
    BY <1>5 DEF HeldInv
  <1>26. QED
    BY <1>17, <1>18, <1>19, <1>20, <1>21, <1>22, <1>23, <1>24, <1>25 DEF HeldInv

LEMMA ReaderNotifiesHeld ==
    ASSUME HeldInv, ReaderNotifies
    PROVE  HeldInv'
  <1>1. /\ ringing > 0 /\ ringing' = ringing - 1 /\ wake' = TRUE
        /\ UNCHANGED <<server, reactor, writer, database, truth>>
    BY DEF ReaderNotifies
  <1>2. ringing \in Nat /\ BusyReaders <= Readers
    BY DEF HeldInv
  <1>3. BusyReaders' <= Readers
    <2>1. BusyReaders' = ringing' + Cardinality(AtWork)
      BY <1>1 DEF BusyReaders, AtWork, Busy
    <2>2. QED
      BY <1>1, <1>2, <2>1, AtWorkFinite, Constants
  <1>4. Awake(server', reactor', wake', ringing', writer')
    BY <1>1 DEF Awake
  <1>5. ringing' \in Nat /\ wake' \in BOOLEAN
    BY <1>1, <1>2
  <1>6. ResultsOf(server', reactor') = ResultsOf(server, reactor)
    BY <1>1
  <1>7. QED
    BY <1>1, <1>3, <1>4, <1>5, <1>6 DEF HeldInv

\* What the writer thread does not touch.
WriterOnly(s, t) ==
    /\ t \in Servers
    /\ SameWaiters(s, t)
    /\ t.request = s.request /\ t.load = s.load /\ t.cache = s.cache
    /\ t.lru = s.lru /\ t.completed = s.completed
    /\ t.next_sequence = s.next_sequence /\ t.dirty = s.dirty

LEMMA WriterHeld ==
    ASSUME HeldInv, WriterOnly(server, server'),
           NumbersAgree(server', database', writer'),
           Awake(server', reactor, wake', ringing, writer'),
           wake' \in BOOLEAN, UNCHANGED <<reactor, ringing, truth>>
    PROVE  HeldInv'
  <1>1. /\ server' \in Servers /\ SameWaiters(server, server')
        /\ server'.request = server.request /\ server'.load = server.load
        /\ server'.cache = server.cache /\ server'.lru = server.lru
        /\ server'.completed = server.completed
        /\ server'.next_sequence = server.next_sequence
    BY DEF WriterOnly
  <1>2. /\ server'.job = server.job /\ server'.waiting = server.waiting
    BY <1>1 DEF SameWaiters
  <1>3. ResultsOf(server', reactor') = ResultsOf(server, reactor)
    BY <1>1 DEF ResultsOf
  <1>4. Held(server', ResultsOf(server', reactor'), {})
    BY <1>1, <1>3, HeldFrame DEF HeldInv
  <1>5. HandAgrees(server', reactor')
    BY <1>1, <1>2 DEF HeldInv, HandAgrees
  <1>6. JobsFound(server') /\ ResultsFound(ResultsOf(server', reactor'))
    BY <1>2, <1>3 DEF HeldInv, JobsFound
  <1>7. BusyReaders' <= Readers /\ ringing' \in Nat /\ truth' \in [Keys -> Values]
    BY <1>2 DEF HeldInv, BusyReaders
  <1>8. Awake(server', reactor', wake', ringing', writer')
    OBVIOUS
  <1>9. QED
    BY <1>4, <1>5, <1>6, <1>7, <1>8 DEF HeldInv

LEMMA WriterTakesHeld ==
    ASSUME HeldInv, WriterTakes
    PROVE  HeldInv'
  <1> DEFINE q == server.writes
             p == Tail(q)
             m == Head(q)
  <1>1. /\ server \in Servers /\ NumbersAgree(server, database, writer)
        /\ Awake(server, reactor, wake, ringing, writer) /\ wake \in BOOLEAN
    BY DEF HeldInv, Held
  <1>2. q \in Seq(Mutations) /\ server.next_sequence \in Nat
    BY <1>1 DEF Servers
  <1>3. /\ writer.stage = "idle" /\ q # <<>>
        /\ writer' = [stage |-> "trying", job |-> m]
        /\ server' = [server EXCEPT !.writes = p]
        /\ UNCHANGED <<reactor, wake, ringing, database, truth>>
    BY DEF WriterTakes
  <1> HIDE DEF q
  <1>4. /\ Len(q) \in Nat /\ Len(q) >= 1 /\ 1 \in 1..Len(q) /\ m \in Mutations
        /\ m = q[1]
    BY <1>2, <1>3, NotEmpty
  <1>5. /\ p \in Seq(Mutations) /\ Len(p) = Len(q) - 1
        /\ \A i \in 1..Len(p) : i + 1 \in 1..Len(q) /\ p[i] = q[i + 1]
    BY <1>2, <1>3, <1>4, HeadTailProperties
  <1> HIDE DEF p, m
  <1>6. /\ WriterOnly(server, server') /\ server'.writes = p
        /\ server'.pending_writes = server.pending_writes
        /\ server'.applied = server.applied
    BY <1>1, <1>3, <1>5 DEF WriterOnly, Servers, SameWaiters
  <1>7. Taken(server') = Taken(server) + 1 /\ Taken(server) \in Nat
    <2>1. Taken(server) \in Nat /\ Taken(server) = server.next_sequence - Len(q)
      BY <1>1 DEF NumbersAgree, Taken, q
    <2>2. Taken(server') = server.next_sequence - Len(p)
      BY <1>6 DEF Taken, WriterOnly
    <2>3. QED
      BY <1>2, <1>4, <1>5, <2>1, <2>2
  <1>8. \A i \in 1..Len(q) : q[i].sequence = Taken(server) + i
    BY <1>1 DEF NumbersAgree, q
  <1>9. ASSUME NEW i \in 1..Len(p) PROVE p[i].sequence = Taken(server') + i
    <2>1. p[i].sequence = Taken(server) + (i + 1)
      BY <1>5, <1>8
    <2>2. QED
      BY <1>4, <1>5, <1>7, <2>1
  <1>10. m.sequence = Taken(server')
    BY <1>4, <1>7, <1>8
  <1>11. /\ writer'.stage = "trying" /\ writer'.job = m /\ database' = database
         /\ writer' \in [stage : {"idle", "trying", "applied", "published"},
                         job : {<<>>} \cup Mutations]
    BY <1>3, <1>4
  <1>12. server.applied = Taken(server) /\ database.applied = server.applied
    BY <1>1, <1>3 DEF NumbersAgree
  <1>13. NumbersAgree(server', database', writer')
    <2>1. server'.next_sequence = server.next_sequence /\ server'.dirty = server.dirty
      BY <1>6 DEF WriterOnly
    <2>2. server'.applied = Taken(server') - 1 /\ Taken(server') \in Nat
      BY <1>6, <1>7, <1>12
    <2>3. QED
      BY <1>1, <1>4, <1>6, <1>9, <1>10, <1>11, <1>12, <2>1, <2>2 DEF NumbersAgree
  <1>14. Awake(server', reactor, wake', ringing, writer')
    <2>1. /\ server'.waiting = server.waiting /\ server'.request = server.request
          /\ server'.dirty = server.dirty /\ server'.completed = server.completed
      BY <1>6 DEF WriterOnly, SameWaiters
    <2>2. QED
      BY <1>1, <1>3, <1>6, <2>1 DEF Awake, KeyOf
  <1>15. QED
    BY <1>1, <1>3, <1>6, <1>13, <1>14, WriterHeld

LEMMA SameWriterOnly ==
    ASSUME NEW s \in Servers, NEW t, t = s
    PROVE  WriterOnly(s, t)
  BY DEF WriterOnly, SameWaiters

LEMMA WriterCommitsHeld ==
    ASSUME HeldInv, NEW answered \in BOOLEAN, WriterCommits(answered)
    PROVE  HeldInv'
  <1> DEFINE m == writer.job
             value == Effect(m.op, m.sequence, database.rows[m.key])
             rows == [database.rows EXCEPT ![m.key] = value]
  <1>1. /\ server \in Servers /\ NumbersAgree(server, database, writer)
        /\ Awake(server, reactor, wake, ringing, writer) /\ wake \in BOOLEAN
    BY DEF HeldInv, Held
  <1>2. /\ writer.stage = "trying" /\ database.applied < m.sequence
        /\ database' = [database EXCEPT !.rows[m.key] = Effect(m.op, m.sequence, @),
                                        !.applied = m.sequence]
        /\ writer' = [writer EXCEPT !.stage = IF answered THEN "applied" ELSE "trying"]
        /\ UNCHANGED <<server, reactor, wake, ringing, truth>>
    BY DEF WriterCommits
  <1>3. /\ database \in [rows : [Keys -> Values], applied : Nat]
        /\ writer \in [stage : {"idle", "trying", "applied", "published"},
                       job : {<<>>} \cup Mutations]
        /\ m \in Mutations /\ m.sequence = Taken(server)
    BY <1>1, <1>2 DEF NumbersAgree
  <1>4. m.op \in {"SET", "HSET", "DEL"} /\ m.key \in Keys /\ m.sequence \in 0 .. MaxWrites
        /\ m.sequence \in Nat
    BY <1>3, Constants DEF Mutations
  <1>5. database.rows[m.key] \in Values
    BY <1>3, <1>4
  <1>6. value \in Values
    BY <1>4, <1>5, EffectFacts
  <1>7. database' = [database EXCEPT !.rows = rows, !.applied = m.sequence]
    BY <1>2, <1>3
  <1> HIDE DEF value
  <1>8. rows \in [Keys -> Values]
    BY <1>3, <1>4, <1>6
  <1> HIDE DEF rows
  <1>9. /\ database' \in [rows : [Keys -> Values], applied : Nat]
        /\ database'.applied = m.sequence
    BY <1>3, <1>4, <1>7, <1>8
  <1>10. /\ writer' \in [stage : {"idle", "trying", "applied", "published"},
                         job : {<<>>} \cup Mutations]
         /\ writer'.job = m /\ writer'.stage \in {"trying", "applied"}
    BY <1>2, <1>3
  <1> HIDE DEF m
  <1>11. NumbersAgree(server', database', writer')
    BY <1>1, <1>2, <1>3, <1>9, <1>10 DEF NumbersAgree, m
  <1>12. Awake(server', reactor, wake', ringing, writer')
    BY <1>1, <1>2 DEF Awake
  <1>13. WriterOnly(server, server')
    BY <1>1, <1>2, SameWriterOnly
  <1>14. QED
    BY <1>1, <1>2, <1>11, <1>12, <1>13, WriterHeld

LEMMA WriterFindsAppliedHeld ==
    ASSUME HeldInv, WriterFindsApplied
    PROVE  HeldInv'
  <1>1. /\ server \in Servers /\ NumbersAgree(server, database, writer)
        /\ Awake(server, reactor, wake, ringing, writer) /\ wake \in BOOLEAN
    BY DEF HeldInv, Held
  <1>2. /\ writer.stage = "trying" /\ database.applied >= writer.job.sequence
        /\ writer' = [writer EXCEPT !.stage = "applied"]
        /\ UNCHANGED <<server, reactor, wake, ringing, database, truth>>
    BY DEF WriterFindsApplied
  <1>3. /\ writer \in [stage : {"idle", "trying", "applied", "published"},
                       job : {<<>>} \cup Mutations]
        /\ writer.job \in Mutations /\ writer.job.sequence = Taken(server)
        /\ Taken(server) \in Nat
    BY <1>1, <1>2 DEF NumbersAgree
  <1>4. /\ writer' \in [stage : {"idle", "trying", "applied", "published"},
                       job : {<<>>} \cup Mutations]
        /\ writer'.stage = "applied" /\ writer'.job = writer.job
    BY <1>2, <1>3
  <1>5. database.applied = Taken(server)
    BY <1>1, <1>2, <1>3 DEF NumbersAgree
  <1>6. NumbersAgree(server', database', writer')
    BY <1>1, <1>2, <1>3, <1>4, <1>5 DEF NumbersAgree
  <1>7. Awake(server', reactor, wake', ringing, writer')
    BY <1>1, <1>2 DEF Awake
  <1>8. WriterOnly(server, server')
    BY <1>1, <1>2, SameWriterOnly
  <1>9. QED
    BY <1>1, <1>2, <1>6, <1>7, <1>8, WriterHeld

LEMMA WriterPublishesHeld ==
    ASSUME HeldInv, WriterPublishes
    PROVE  HeldInv'
  <1> DEFINE n == writer.job.sequence
  <1>1. /\ server \in Servers /\ NumbersAgree(server, database, writer)
        /\ Awake(server, reactor, wake, ringing, writer) /\ wake \in BOOLEAN
    BY DEF HeldInv, Held
  <1>2. /\ writer.stage = "applied"
        /\ server' = [server EXCEPT !.applied = n,
                                    !.pending_writes = server.pending_writes - 1]
        /\ writer' = [writer EXCEPT !.stage = "published"]
        /\ UNCHANGED <<reactor, wake, ringing, database, truth>>
    BY DEF WriterPublishes
  <1>3. /\ writer \in [stage : {"idle", "trying", "applied", "published"},
                       job : {<<>>} \cup Mutations]
        /\ writer.job \in Mutations /\ n = Taken(server)
        /\ Taken(server) \in Nat
        /\ server.applied = Taken(server) - 1
        /\ server.pending_writes = server.next_sequence - server.applied
        /\ server.pending_writes <= WriteLimit
        /\ database.applied = Taken(server)
    BY <1>1, <1>2 DEF NumbersAgree
  <1>4. /\ server.next_sequence \in Nat /\ server.pending_writes \in Nat
        /\ Len(server.writes) \in Nat
    BY <1>1 DEF Servers
  <1>5. Taken(server) <= server.next_sequence
    BY <1>4 DEF Taken
  <1>6. n \in Nat /\ server.pending_writes - 1 \in Nat
    BY <1>3, <1>4, <1>5
  <1> HIDE DEF n
  <1>7. /\ WriterOnly(server, server') /\ server'.writes = server.writes
        /\ server'.pending_writes = server.pending_writes - 1
        /\ server'.applied = n
    BY <1>1, <1>2, <1>6 DEF WriterOnly, Servers, SameWaiters
  <1>8. Taken(server') = Taken(server)
    BY <1>7 DEF Taken, WriterOnly
  <1>9. /\ writer' \in [stage : {"idle", "trying", "applied", "published"},
                       job : {<<>>} \cup Mutations]
        /\ writer'.stage = "published" /\ writer'.job = writer.job
    BY <1>2, <1>3
  <1>10. NumbersAgree(server', database', writer')
    <2>1. server'.next_sequence = server.next_sequence /\ server'.dirty = server.dirty
      BY <1>7 DEF WriterOnly
    <2>2. /\ server'.pending_writes = server'.next_sequence - server'.applied
          /\ server'.pending_writes <= WriteLimit
      BY <1>3, <1>4, <1>6, <1>7, <2>1, Constants
    <2>3. n = writer.job.sequence
      BY DEF n
    <2>4. QED
      BY <1>1, <1>2, <1>3, <1>7, <1>8, <1>9, <2>1, <2>2, <2>3 DEF NumbersAgree
  <1>11. Awake(server', reactor, wake', ringing, writer')
    <2>1. server'.completed = server.completed /\ server'.waiting = server.waiting
      BY <1>7 DEF WriterOnly, SameWaiters
    <2>2. QED
      BY <1>1, <1>2, <1>9, <2>1 DEF Awake
  <1>12. QED
    BY <1>1, <1>2, <1>7, <1>10, <1>11, WriterHeld

LEMMA WriterNotifiesHeld ==
    ASSUME HeldInv, WriterNotifies
    PROVE  HeldInv'
  <1>1. /\ server \in Servers /\ NumbersAgree(server, database, writer)
    BY DEF HeldInv, Held
  <1>2. /\ writer.stage = "published" /\ writer' = [stage |-> "idle", job |-> <<>>]
        /\ wake' = TRUE /\ UNCHANGED <<server, reactor, ringing, database, truth>>
    BY DEF WriterNotifies
  <1>3. /\ writer' \in [stage : {"idle", "trying", "applied", "published"},
                       job : {<<>>} \cup Mutations]
        /\ writer'.stage = "idle"
    BY <1>2
  <1>4. NumbersAgree(server', database', writer')
    BY <1>1, <1>2, <1>3 DEF NumbersAgree
  <1>5. Awake(server', reactor, wake', ringing, writer') /\ wake' \in BOOLEAN
    BY <1>2 DEF Awake
  <1>6. WriterOnly(server, server')
    BY <1>1, <1>2, SameWriterOnly
  <1>7. QED
    BY <1>2, <1>4, <1>5, <1>6, WriterHeld

LEMMA HeldInit ==
    ASSUME Init
    PROVE  HeldInv
  <1>1. /\ server.request = [c \in Clients |-> NoRequest]
        /\ server.ticket = [c \in Clients |-> NoTicket]
        /\ server.cache = [k \in Keys |-> Absent]
        /\ server.lru = <<>> /\ server.negative = {}
        /\ server.dirty = [k \in Keys |-> 0]
        /\ server.load = [k \in Keys |-> [generation |-> 0, waiters |-> 0]]
        /\ server.waiting = <<>> /\ server.tail_gone = FALSE /\ server.overlooked = {}
        /\ server.job = [k \in Keys |-> NoJob] /\ server.queue = <<>>
        /\ server.completed = <<>> /\ server.writes = <<>>
        /\ server.pending_writes = 0 /\ server.next_sequence = 0
        /\ server.applied = 0 /\ server.stale = FALSE
    BY DEF Init
  <1>2. server \in Servers
    <2>1. /\ server.request \in [Clients -> Requests \cup {NoRequest}]
          /\ server.ticket \in [Clients -> {NoTicket} \cup Nat]
          /\ server.cache \in [Keys -> Values] /\ server.dirty \in [Keys -> Nat]
          /\ server.load \in [Keys -> [generation : Nat, waiters : Nat]]
          /\ server.job \in [Keys -> Jobs]
      BY <1>1, Constants, NoJobType
    <2>2. /\ server.lru \in Seq(Keys) /\ server.negative \in SUBSET Keys
          /\ server.waiting \in Seq(Clients) /\ server.tail_gone \in BOOLEAN
          /\ server.overlooked \in SUBSET Clients /\ server.queue \in Seq(Keys)
          /\ server.completed \in Seq(Results) /\ server.writes \in Seq(Mutations)
          /\ server.pending_writes \in Nat /\ server.next_sequence \in Nat
          /\ server.applied \in Nat /\ server.stale \in BOOLEAN
      <3>1. /\ server.lru \in Seq(Keys) /\ server.waiting \in Seq(Clients)
            /\ server.queue \in Seq(Keys) /\ server.completed \in Seq(Results)
            /\ server.writes \in Seq(Mutations)
        BY <1>1
      <3>2. server.negative \in SUBSET Keys /\ server.overlooked \in SUBSET Clients
        BY <1>1
      <3>3. server.tail_gone \in BOOLEAN /\ server.stale \in BOOLEAN
        BY <1>1
      <3>4. /\ server.pending_writes \in Nat /\ server.next_sequence \in Nat
            /\ server.applied \in Nat
        BY <1>1
      <3>5. QED
        BY <3>1, <3>2, <3>3, <3>4
    <2>3. server = [request |-> server.request, ticket |-> server.ticket,
                    cache |-> server.cache, lru |-> server.lru,
                    negative |-> server.negative, dirty |-> server.dirty,
                    load |-> server.load, waiting |-> server.waiting,
                    tail_gone |-> server.tail_gone, overlooked |-> server.overlooked,
                    job |-> server.job, queue |-> server.queue,
                    completed |-> server.completed, writes |-> server.writes,
                    pending_writes |-> server.pending_writes,
                    next_sequence |-> server.next_sequence,
                    applied |-> server.applied, stale |-> server.stale]
      BY DEF Init
    <2>4. QED
      BY <2>1, <2>2, <2>3 DEF Servers
  <1>3. /\ reactor.stage = "idle" /\ reactor.kept = 0 /\ reactor.hand = <<>>
        /\ reactor \in [stage : {"idle", "waiters", "results"}, kept : Nat,
                        hand : Seq(Results), input : Clients \cup {NoClient}]
    BY DEF Init
  <1>4. ResultsOf(server, reactor) = <<>> /\ Len(ResultsOf(server, reactor)) = 0
    BY <1>1, <1>3 DEF ResultsOf
  <1>5. \A k \in Keys : /\ server.job[k].stage = "none" /\ server.job[k].waiters = <<>>
                        /\ server.job[k].status = "none"
                        /\ server.load[k].waiters = 0 /\ server.dirty[k] = 0
                        /\ server.cache[k] = Absent
    BY <1>1 DEF NoJob
  <1>6. \A c \in Clients : server.request[c] = NoRequest /\ server.ticket[c] = NoTicket
    BY <1>1
  <1>7. Cardinality({}) = 0
    BY FS_EmptySet
  <1>8. /\ Len(server.waiting) = 0 /\ Len(server.lru) = 0 /\ Len(server.queue) = 0
        /\ Len(server.completed) = 0 /\ Len(server.writes) = 0
        /\ \A k \in Keys : Len(server.job[k].waiters) = 0
    BY <1>1, <1>5
  <1> DEFINE results == ResultsOf(server, reactor)
  <1> HIDE DEF results
  <1>9. WaitersAgree(server, {})
    BY <1>8 DEF WaitersAgree, Unique, In
  <1>10. JobsAgree(server)
    BY <1>5, <1>8 DEF JobsAgree, Attached, Unique
  <1>11. ResultsAgree(server, results) /\ ResultsFound(results)
    BY <1>4 DEF ResultsAgree, ResultsFound, results
  <1>12. EverybodyListed(server, results, {})
    BY <1>6 DEF EverybodyListed
  <1>13. LoadsAgree(server)
    <2>1. \A k \in Keys : Registered(server, k) = {}
      BY <1>6 DEF Registered
    <2>2. QED
      BY <1>5, <1>6, <1>7, <2>1 DEF LoadsAgree
  <1>14. QueueAgrees(server)
    <2>1. {k \in Keys : server.job[k].stage # "none"} = {}
      BY <1>5
    <2>2. pending_reads(server) = 0
      BY <1>7, <2>1, Zenon DEF pending_reads
    <2>3. QED
      BY <1>8, <2>2, Constants DEF QueueAgrees, Unique
  <1>15. LruAgrees(server)
    BY <1>5, <1>8, Constants DEF LruAgrees, Unique, In, Cached
  <1>16. WritesBounded(server)
    <2>1. Writing(server) = {}
      BY <1>6 DEF Writing
    <2>2. QED
      BY <1>1, <1>7, <2>1, Constants DEF WritesBounded
  <1>17. Held(server, results, {})
    BY <1>2, <1>9, <1>10, <1>11, <1>12, <1>13, <1>14, <1>15, <1>16 DEF Held, ListsAgree
  <1>18. HandAgrees(server, reactor)
    BY <1>3, <1>8 DEF HandAgrees
  <1>19. /\ truth \in [Keys -> Values] /\ database = [rows |-> truth, applied |-> 0]
         /\ writer = [stage |-> "idle", job |-> <<>>] /\ wake = FALSE /\ ringing = 0
    <2>1. {0} \in Values
      BY Constants DEF Values
    <2>2. QED
      BY <2>1 DEF Init
  <1>20. NumbersAgree(server, database, writer)
    <2>1. Taken(server) = 0
      <3>1. server.next_sequence = 0 /\ Len(server.writes) = 0
        BY <1>1, <1>8
      <3>2. QED
        BY ONLY <3>1 DEF Taken
    <2>2. database \in [rows : [Keys -> Values], applied : Nat] /\ database.applied = 0
      BY <1>19
    <2>3. writer \in [stage : {"idle", "trying", "applied", "published"},
                      job : {<<>>} \cup Mutations] /\ writer.stage = "idle"
      BY <1>19
    <2>4. QED
      BY <1>1, <1>5, <1>8, <2>1, <2>2, <2>3, Constants DEF NumbersAgree
  <1>21. Awake(server, reactor, wake, ringing, writer)
    BY <1>1, <1>8 DEF Awake
  <1>22. JobsFound(server)
    BY <1>5 DEF JobsFound
  <1>23. BusyReaders <= Readers
    <2>1. {k \in Keys : server.job[k].stage
                           \in {"taken", "keyed", "loaded", "snapped"}} = {}
      BY <1>5
    <2>2. BusyReaders = ringing + 0
      BY <1>7, <2>1, Zenon DEF BusyReaders
    <2>3. QED
      BY <1>19, <2>2, Constants
  <1>24. QED
    BY <1>11, <1>17, <1>18, <1>19, <1>20, <1>21, <1>22, <1>23 DEF HeldInv, results

LEMMA HeldNext ==
    ASSUME HeldInv, [Next]_vars
    PROVE  HeldInv'
  <1>1. CASE UNCHANGED vars
    BY <1>1 DEF vars, HeldInv, BusyReaders
  <1>2. CASE Next
    <2>1. ASSUME NEW c \in Clients, NEW request \in Requests, Dispatch(c, request)
          PROVE  HeldInv'
      BY <2>1, DispatchHeld
    <2>2. CASE ReactorStep
      BY <2>2, WakeHeld, DrainWaiterHeld, TakeResultsHeld, JudgeHeld, RetryHeld,
         DeliverHeld, DrainEndsHeld DEF ReactorStep
    <2>3. CASE ReaderSteps
      BY <2>3, ReaderTakesHeld, ReaderNotifiesHeld, ReadsHeld, SnapWaitersHeld,
         ReaderFinishesHeld DEF ReaderSteps
    <2>4. CASE WriterStep \/ WriterCommits(FALSE)
      BY <2>4, WriterTakesHeld, WriterCommitsHeld, WriterFindsAppliedHeld,
         WriterPublishesHeld, WriterNotifiesHeld DEF WriterStep
    <2>5. CASE Maintain
      BY <2>5, MaintainHeld
    <2>6. ASSUME NEW k \in Keys, NegativeExpires(k) \/ LoadFails(k)
          PROVE  HeldInv'
      BY <2>6, NegativeExpiresHeld, ReadsHeld
    <2>7. QED
      BY <1>2, <2>1, <2>2, <2>3, <2>4, <2>5, <2>6 DEF Next
  <1>3. QED
    BY <1>1, <1>2

\* The invariant holds of every reachable state, whatever is sent behind a
\* request.
THEOREM HeldInvariant == Spec => []HeldInv
  <1>1. Init => HeldInv
    BY HeldInit
  <1>2. HeldInv /\ [Next]_vars => HeldInv'
    BY HeldNext
  <1>3. QED
    BY <1>1, <1>2, PTL DEF Spec

LEMMA InToSet ==
    ASSUME NEW S, NEW q \in Seq(S), NEW x
    PROVE  x \in ToSet(q) <=> In(q, x)
  BY DEF ToSet, In

\* A client that is listed has a request, and one place.
LEMMA OnePlace ==
    ASSUME NEW s, NEW results, Held(s, results, {}), NEW c \in Clients
    PROVE  /\ \A i, j \in 1..Len(s.waiting) :
                 s.waiting[i] = c /\ s.waiting[j] = c => i = j
           /\ In(s.waiting, c) => s.request[c] \in Requests /\ s.ticket[c] = NoTicket
           /\ \A k \in Keys : In(s.job[k].waiters, c) =>
                 /\ s.request[c] \in Requests /\ s.ticket[c] # NoTicket
                 /\ s.request[c].key = k
           /\ \A i \in 1..Len(results) : In(results[i].waiters, c) =>
                 /\ s.request[c] \in Requests /\ s.ticket[c] # NoTicket
                 /\ \A k \in Keys : ~In(s.job[k].waiters, c)
                 /\ \A j \in 1..Len(results) : In(results[j].waiters, c) => j = i
  <1>1. ListsAgree(s, results, {})
    BY DEF Held
  <1>2. WaitersAgree(s, {}) /\ JobsAgree(s) /\ ResultsAgree(s, results)
    BY <1>1 DEF ListsAgree
  <1>3. \A i, j \in 1..Len(s.waiting) : s.waiting[i] = c /\ s.waiting[j] = c => i = j
    BY <1>2 DEF WaitersAgree, Unique
  <1>4. In(s.waiting, c) => s.request[c] \in Requests /\ s.ticket[c] = NoTicket
    BY <1>2 DEF WaitersAgree
  <1>5. ASSUME NEW k, NEW q, Attached(s, k, q), In(q, c)
        PROVE  s.request[c] \in Requests /\ s.ticket[c] # NoTicket /\ s.request[c].key = k
    BY <1>5 DEF Attached, In
  <1>6. ASSUME NEW k \in Keys, In(s.job[k].waiters, c)
        PROVE  s.request[c] \in Requests /\ s.ticket[c] # NoTicket /\ s.request[c].key = k
    BY <1>2, <1>5, <1>6 DEF JobsAgree
  <1>7. ASSUME NEW i \in 1..Len(results), In(results[i].waiters, c)
        PROVE  /\ s.request[c] \in Requests /\ s.ticket[c] # NoTicket
               /\ \A k \in Keys : ~In(s.job[k].waiters, c)
               /\ \A j \in 1..Len(results) : In(results[j].waiters, c) => j = i
    <2>1. /\ Attached(s, results[i].key, results[i].waiters)
          /\ \A k \in Keys : Disjoint(s.job[k].waiters, results[i].waiters)
          /\ \A j \in 1..Len(results) : i # j =>
                Disjoint(results[i].waiters, results[j].waiters)
      BY <1>2 DEF ResultsAgree
    <2>2. QED
      BY <1>5, <1>7, <2>1, DisjointIn
  <1>8. QED
    BY <1>3, <1>4, <1>6, <1>7

LEMMA HolderPlaces ==
    ASSUME HeldInv, NEW c \in Clients, NEW results,
           results = ResultsOf(server, reactor)
    PROVE  /\ Held(server, results, {})
           /\ DOMAIN server.waiting = 1..Len(server.waiting)
           /\ \A k \in Keys : c \in ToSet(server.job[k].waiters)
                                 <=> In(server.job[k].waiters, c)
           /\ \A i \in DOMAIN reactor.hand :
                 /\ i \in 1..Len(results) /\ results[i] = reactor.hand[i]
                 /\ c \in ToSet(reactor.hand[i].waiters) <=> In(results[i].waiters, c)
           /\ \A i \in DOMAIN server.completed :
                 /\ i + Len(reactor.hand) \in 1..Len(results)
                 /\ results[i + Len(reactor.hand)] = server.completed[i]
                 /\ c \in ToSet(server.completed[i].waiters)
                       <=> In(results[i + Len(reactor.hand)].waiters, c)
                 /\ \A j \in DOMAIN reactor.hand : j # i + Len(reactor.hand)
           /\ \A i \in 1..Len(results) :
                 \/ i \in DOMAIN reactor.hand
                 \/ \E j \in DOMAIN server.completed : i = j + Len(reactor.hand)
           /\ \A i \in DOMAIN server.completed : i \in Nat
           /\ Len(reactor.hand) \in Nat
  <1> DEFINE a == reactor.hand
             b == server.completed
  <1>1. server \in Servers /\ a \in Seq(Results) /\ b \in Seq(Results)
    BY InvIsSound
  <1>2. Held(server, results, {}) /\ results = a \o b
    BY DEF HeldInv, ResultsOf
  <1>3. server.waiting \in Seq(Clients) /\ server.job \in [Keys -> Jobs]
    BY <1>1 DEF Servers
  <1>4. \A k \in Keys : server.job[k].waiters \in Seq(Clients)
    BY <1>3 DEF Jobs
  <1>5. /\ results \in Seq(Results) /\ Len(results) = Len(a) + Len(b)
        /\ \A i \in 1..Len(results) : results[i] =
              IF i <= Len(a) THEN a[i] ELSE b[i - Len(a)]
        /\ Len(a) \in Nat /\ Len(b) \in Nat
        /\ DOMAIN a = 1..Len(a) /\ DOMAIN b = 1..Len(b)
    <2> HIDE DEF a, b
    <2>1. a \in Seq(Results) /\ b \in Seq(Results) /\ results = a \o b
      BY <1>1, <1>2
    <2>2. QED
      BY ONLY <2>1, ConcatFacts
  <1>6. \A x \in Results : x.waiters \in Seq(Clients)
    BY DEF Results
  <1> HIDE DEF a, b
  <1>7. ASSUME NEW i \in 1..Len(a)
        PROVE  /\ i \in 1..Len(results) /\ results[i] = a[i]
               /\ c \in ToSet(a[i].waiters) <=> In(results[i].waiters, c)
    <2>1. i \in 1..Len(results) /\ results[i] = a[i]
      BY <1>5
    <2>2. a[i].waiters \in Seq(Clients)
      BY <1>1, <1>6
    <2>3. QED
      BY <2>1, <2>2, InToSet
  <1>8. ASSUME NEW i \in 1..Len(b)
        PROVE  /\ i + Len(a) \in 1..Len(results) /\ results[i + Len(a)] = b[i]
               /\ c \in ToSet(b[i].waiters) <=> In(results[i + Len(a)].waiters, c)
               /\ \A j \in 1..Len(a) : j # i + Len(a)
               /\ i \in Nat
    <2>1. /\ i + Len(a) \in 1..Len(results) /\ ~(i + Len(a) <= Len(a))
          /\ (i + Len(a)) - Len(a) = i /\ \A j \in 1..Len(a) : j # i + Len(a)
      BY <1>5
    <2>2. results[i + Len(a)] = b[i]
      BY <1>5, <2>1
    <2>3. b[i].waiters \in Seq(Clients)
      BY <1>1, <1>6
    <2>4. QED
      BY <2>1, <2>2, <2>3, InToSet
  <1>9. ASSUME NEW i \in 1..Len(results)
        PROVE  i \in 1..Len(a) \/ \E j \in 1..Len(b) : i = j + Len(a)
    <2>1. CASE i <= Len(a)
      BY <1>5, <2>1
    <2>2. CASE ~(i <= Len(a))
      <3>1. i - Len(a) \in 1..Len(b) /\ i = (i - Len(a)) + Len(a)
        BY <1>5, <2>2
      <3>2. QED
        BY <3>1
    <2>3. QED
      BY <2>1, <2>2
  <1>10. /\ DOMAIN server.waiting = 1..Len(server.waiting)
         /\ \A k \in Keys : c \in ToSet(server.job[k].waiters)
                                 <=> In(server.job[k].waiters, c)
    BY <1>3, <1>4, InToSet
  <1>11. QED
    BY <1>2, <1>5, <1>7, <1>8, <1>9, <1>10 DEF a, b

\* The lists that have a client.
LEMMA HoldersOnce ==
    ASSUME HeldInv, NEW c \in Clients
    PROVE  /\ \A x, y \in Holders(c) : x = y
           /\ Holders(c) # {} => c \in Outstanding
           /\ c \in Outstanding \ server.overlooked => Holders(c) # {}
  <1> DEFINE results == ResultsOf(server, reactor)
             n == Len(reactor.hand)
             W == {j \in DOMAIN server.waiting : server.waiting[j] = c}
             J == {x \in Keys : c \in ToSet(server.job[x].waiters)}
             C == {j \in DOMAIN server.completed :
                      c \in ToSet(server.completed[j].waiters)}
             H == {j \in DOMAIN reactor.hand : c \in ToSet(reactor.hand[j].waiters)}
  <1>1. Holders(c) = {<<"waiting", i>> : i \in W} \cup {<<"job", k>> : k \in J}
                        \cup {<<"completed", i>> : i \in C} \cup {<<"hand", i>> : i \in H}
    BY DEF Holders
  <1>2. Held(server, results, {})
    BY HolderPlaces
  <1>3. ASSUME NEW i \in W PROVE In(server.waiting, c) /\ i \in 1..Len(server.waiting)
    BY HolderPlaces DEF In
  <1>4. ASSUME NEW k \in J PROVE k \in Keys /\ In(server.job[k].waiters, c)
    BY HolderPlaces
  <1>5. ASSUME NEW i \in H
        PROVE  i \in 1..Len(results) /\ In(results[i].waiters, c) /\ i \in DOMAIN reactor.hand
    BY HolderPlaces
  <1>6. ASSUME NEW i \in C
        PROVE  /\ i + n \in 1..Len(results) /\ In(results[i + n].waiters, c)
               /\ i \in Nat /\ n \in Nat /\ \A j \in DOMAIN reactor.hand : j # i + n
    BY HolderPlaces
  <1>7. /\ \A i, j \in W : i = j
        /\ W # {} => J = {} /\ C = {} /\ H = {}
        /\ \A i, j \in J : i = j
        /\ J # {} => C = {} /\ H = {}
        /\ \A i, j \in H : i = j
        /\ H # {} => C = {}
        /\ \A i, j \in C : i = j
    <2> HIDE DEF W, J, C, H, results, n
    <2>1. \A i, j \in W : i = j
      BY <1>2, <1>3, OnePlace DEF W
    <2>2. W # {} => server.ticket[c] = NoTicket
      BY <1>2, <1>3, OnePlace
    <2>3. J # {} => server.ticket[c] # NoTicket
      BY <1>2, <1>4, OnePlace
    <2>4. H # {} => server.ticket[c] # NoTicket /\ J = {}
      BY <1>2, <1>4, <1>5, OnePlace
    <2>5. C # {} => server.ticket[c] # NoTicket /\ J = {}
      <3>1. ASSUME NEW i \in C
            PROVE  /\ server.ticket[c] # NoTicket
                   /\ \A k \in Keys : ~In(server.job[k].waiters, c)
        <4> DEFINE l == i + n
        <4>1. l \in 1..Len(results) /\ In(results[l].waiters, c)
          BY <1>6
        <4> HIDE DEF l
        <4>2. QED
          BY <1>2, <4>1, OnePlace
      <3>2. QED
        BY <1>4, <3>1
    <2>6. \A i, j \in J : i = j
      BY <1>2, <1>4, OnePlace
    <2>7. \A i, j \in H : i = j
      BY <1>2, <1>5, OnePlace
    <2>8. ASSUME NEW i \in C, NEW j \in C PROVE i = j
      <3>1. i + n = j + n
        BY <1>2, <1>6, OnePlace
      <3>2. QED
        BY <1>6, <3>1
    <2>9. ASSUME NEW i \in H, NEW j \in C PROVE FALSE
      <3>1. i = j + n
        BY <1>2, <1>5, <1>6, OnePlace
      <3>2. QED
        BY <1>5, <1>6, <3>1
    <2>10. QED
      BY <2>1, <2>2, <2>3, <2>4, <2>5, <2>6, <2>7, <2>8, <2>9
  <1>8. W # {} \/ J # {} \/ C # {} \/ H # {} => c \in Outstanding
    <2> HIDE DEF W, J, C, H, results, n
    <2>1. W # {} \/ J # {} \/ C # {} \/ H # {} => server.request[c] \in Requests
      BY <1>2, <1>3, <1>4, <1>5, <1>6, OnePlace
    <2>2. QED
      BY <2>1, Constants DEF Outstanding
  <1>9. c \in Outstanding \ server.overlooked => W # {} \/ J # {} \/ C # {} \/ H # {}
    <2>1. SUFFICES ASSUME c \in Outstanding \ server.overlooked
                   PROVE  W # {} \/ J # {} \/ C # {} \/ H # {}
      OBVIOUS
    <2>2. \/ In(server.waiting, c)
          \/ \E k \in Keys : In(server.job[k].waiters, c)
          \/ \E i \in 1..Len(results) : In(results[i].waiters, c)
      BY <1>2, <2>1 DEF Held, ListsAgree, EverybodyListed, Outstanding
    <2>3. CASE In(server.waiting, c)
      <3>1. PICK i \in 1..Len(server.waiting) : server.waiting[i] = c
        BY <2>3 DEF In
      <3>2. i \in W
        BY <3>1, HolderPlaces
      <3>3. QED
        BY <3>2
    <2>4. CASE \E k \in Keys : In(server.job[k].waiters, c)
      <3>1. PICK k \in Keys : In(server.job[k].waiters, c)
        BY <2>4
      <3>2. k \in J
        BY <3>1, HolderPlaces
      <3>3. QED
        BY <3>2
    <2>5. CASE \E i \in 1..Len(results) : In(results[i].waiters, c)
      <3>1. PICK i \in 1..Len(results) : In(results[i].waiters, c)
        BY <2>5
      <3>2. CASE i \in DOMAIN reactor.hand
        <4>1. i \in H
          BY <3>1, <3>2, HolderPlaces
        <4>2. QED
          BY <4>1
      <3>3. CASE \E j \in DOMAIN server.completed : i = j + n
        <4>1. PICK j \in DOMAIN server.completed : i = j + n
          BY <3>3
        <4>2. j \in C
          BY <3>1, <4>1, HolderPlaces
        <4>3. QED
          BY <4>2
      <3>4. QED
        BY <3>1, <3>2, <3>3, HolderPlaces
    <2>6. QED
      BY <2>2, <2>3, <2>4, <2>5
  <1> HIDE DEF W, J, C, H
  <1>10. \A x, y \in Holders(c) : x = y
    BY <1>1, <1>7
  <1>11. Holders(c) # {} <=> W # {} \/ J # {} \/ C # {} \/ H # {}
    BY <1>1
  <1>12. QED
    BY <1>8, <1>9, <1>10, <1>11

LEMMA HeldType ==
    ASSUME HeldInv
    PROVE  TypeOK
  <1>1. /\ server \in Servers /\ LruAgrees(server) /\ WritesBounded(server)
        /\ NumbersAgree(server, database, writer) /\ truth \in [Keys -> Values]
        /\ LoadsAgree(server) /\ QueueAgrees(server) /\ BusyReaders <= Readers
    BY DEF HeldInv, Held, ListsAgree
  <1>2. /\ server.request \in [Clients -> Requests \cup {NoRequest}]
        /\ server.ticket \in [Clients -> {NoTicket} \cup Nat]
        /\ server.cache \in [Keys -> Values] /\ server.dirty \in [Keys -> Nat]
        /\ server.lru \in Seq(Keys) /\ server.next_sequence \in Nat
        /\ server.pending_writes \in Nat
    BY <1>1 DEF Servers
  <1>3. /\ database.rows \in [Keys -> Values]
        /\ \A k \in Keys : server.dirty[k] <= server.next_sequence
        /\ server.pending_writes <= WriteLimit
    BY <1>1 DEF NumbersAgree
  <1>4. \A k \in Keys : server.load[k].waiters =
           Cardinality({c \in Clients : server.ticket[c] # NoTicket
                                           /\ KeyOf(server, c) = k})
    BY <1>1 DEF LoadsAgree, Registered
  <1>5. /\ \A k \in Keys : server.dirty[k] \in 0 .. server.next_sequence
        /\ server.pending_writes \in 0 .. WriteLimit
    BY <1>2, <1>3, Constants
  <1>6. server.next_sequence \in 0 .. MaxWrites
    BY <1>1, <1>2, WritingFinite, Constants DEF WritesBounded
  <1>7. ToSet(server.lru) = {k \in Keys : Cached(server, k)}
    <2>1. \A k : k \in ToSet(server.lru) <=> In(server.lru, k)
      BY <1>2, InToSet
    <2>2. \A k : In(server.lru, k) => k \in Keys
      BY <1>2 DEF In
    <2>3. \A k \in Keys : In(server.lru, k) <=> Cached(server, k)
      BY <1>1 DEF LruAgrees
    <2>4. QED
      BY <2>1, <2>2, <2>3
  <1>8. Len(server.lru) <= MaxKeys /\ pending_reads(server) <= ReadLimit
    BY <1>1 DEF LruAgrees, QueueAgrees
  <1>9. \A k \in Keys : server.cache[k] \in Values /\ truth[k] \in Values
                        /\ database.rows[k] \in Values
    BY <1>1, <1>2, <1>3
  <1>10. \A c \in Clients : /\ server.request[c] \in Requests \cup {NoRequest}
                            /\ server.ticket[c] \in {NoTicket} \cup Nat
    BY <1>2
  <1>11. QED
    BY <1>1, <1>4, <1>5, <1>6, <1>7, <1>8, <1>9, <1>10 DEF TypeOK

LEMMA HeldIsOnce ==
    ASSUME HeldInv
    PROVE  HeldOnce
  <1>1. TypeOK
    BY HeldType
  <1>2. ASSUME NEW c \in Clients \ server.overlooked
        PROVE  Cardinality(Holders(c)) = (IF c \in Outstanding THEN 1 ELSE 0)
    <2>1. /\ \A x, y \in Holders(c) : x = y
          /\ Holders(c) # {} <=> c \in Outstanding
      BY HoldersOnce
    <2>2. CASE c \in Outstanding
      <3>1. PICK x : x \in Holders(c)
        BY <2>1, <2>2
      <3>2. Holders(c) = {x}
        BY <2>1, <3>1
      <3>3. QED
        BY <2>2, <3>2, FS_Singleton
    <2>3. CASE c \notin Outstanding
      <3>1. Holders(c) = {}
        BY <2>1, <2>3
      <3>2. QED
        BY <2>3, <3>1, FS_EmptySet
    <2>4. QED
      BY <2>2, <2>3
  <1>3. QED
    BY <1>1, <1>2 DEF HeldOnce

LEMMA HeldForgetsNobody ==
    ASSUME HeldInv
    PROVE  NobodyForgotten
  <1>1. SUFFICES ASSUME reactor.stage = "idle", ~wake, ringing = 0,
                        writer.stage = "idle", server.writes = <<>>,
                        \A k \in Keys : server.job[k].stage = "none",
                        NEW c \in Outstanding, c \notin server.overlooked
                 PROVE  FALSE
    BY DEF NobodyForgotten
  <1>2. /\ server \in Servers /\ NumbersAgree(server, database, writer)
        /\ JobsAgree(server) /\ WaitersAgree(server, {})
        /\ EverybodyListed(server, ResultsOf(server, reactor), {})
        /\ Awake(server, reactor, wake, ringing, writer)
        /\ HandAgrees(server, reactor)
    BY DEF HeldInv, Held, ListsAgree
  <1>3. server.completed = <<>> /\ reactor.hand = <<>>
    BY <1>1, <1>2 DEF Awake, HandAgrees
  <1>4. Len(ResultsOf(server, reactor)) = 0
    BY <1>3 DEF ResultsOf
  <1>5. \A k \in Keys : ~In(server.job[k].waiters, c)
    BY <1>1, <1>2 DEF JobsAgree, In
  <1>6. In(server.waiting, c) /\ c \in Clients
    BY <1>1, <1>2, <1>4, <1>5 DEF EverybodyListed, Outstanding
  <1>7. PICK i \in 1..Len(server.waiting) : server.waiting[i] = c
    BY <1>6 DEF In
  <1>8. server.dirty[KeyOf(server, c)] > server.applied
    BY <1>1, <1>2, <1>7 DEF Awake
  <1>9. KeyOf(server, c) \in Keys
    BY <1>2, <1>6, Constants DEF WaitersAgree, KeyOf
  <1>10. /\ server.dirty[KeyOf(server, c)] \in Nat /\ server.next_sequence \in Nat
         /\ server.applied \in Nat
    BY <1>2, <1>9 DEF Servers
  <1>11. server.dirty[KeyOf(server, c)] <= server.next_sequence
    BY <1>2, <1>9 DEF NumbersAgree
  <1>12. server.applied = server.next_sequence
    <2>1. Len(server.writes) = 0
      BY <1>1
    <2>2. Taken(server) = server.next_sequence
      BY <1>10, <2>1 DEF Taken
    <2>3. QED
      BY <1>1, <1>2, <2>2 DEF NumbersAgree
  <1>13. QED
    BY <1>8, <1>10, <1>11, <1>12

\* A request that waits is in exactly one list and a request in a list waits,
\* but for those the code overlooks, and the counters, the LRU list and the
\* queues agree with that: dispatch_request, drain_mysql_completions and the
\* readers keep it for any number of clients, keys and readers.
THEOREM RequestsHeldOnce == Spec => []HeldOnce
  <1>1. HeldInv => HeldOnce
    BY HeldIsOnce
  <1>2. QED
    BY <1>1, HeldInvariant, PTL

\* When the threads are at rest and no wake-up is on its way, nobody waits but
\* those the code overlooks: no completion and no mutation is missed by
\* drain_mysql_completions.
THEOREM NobodyIsForgotten == Spec => []NobodyForgotten
  <1>1. HeldInv => NobodyForgotten
    BY HeldForgetsNobody
  <1>2. QED
    BY <1>1, HeldInvariant, PTL

=============================================================================
