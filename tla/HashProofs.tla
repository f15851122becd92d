------------------------------ MODULE HashProofs ------------------------------
(***************************************************************************)
(* Proofs about the incremental hash table, for any keys, hash codes,      *)
(* budgets and sizes: a growth is over before the table it fills is full,  *)
(* every node is where it is looked for, an iteration meets every key      *)
(* once, and the table implements a map.                                   *)
(***************************************************************************)
EXTENDS HashInvariant, TLAPS, FiniteSetTheorems, WellFoundedInduction,
        SequenceTheorems

\* The same arrays, and no more nodes.
Within(g, h) ==
    /\ Shaped(g) /\ g.count <= h.count /\ g.rehash_index = h.rehash_index
    /\ h.tables[0].slots = 0 => g.count = h.count
    /\ \A t \in 0..1 : g.tables[t].slots = h.tables[t].slots

\* Only the counters and the sizes matter for the room.
LEMMA WithinRoomy ==
    ASSUME NEW h, Shaped(h), Roomy(h), NEW g, Within(g, h)
    PROVE  Shaped(g) /\ Roomy(g)
<1>1. /\ g.count \in Int /\ h.count \in Int /\ g.count <= h.count
      /\ g.rehash_index = h.rehash_index
      /\ g.tables[0].slots = h.tables[0].slots
      /\ g.tables[1].slots = h.tables[1].slots
      /\ h.tables[0].slots \in Nat
      /\ h.tables[0].slots = 0 => g.count = h.count
      /\ h.rehash_index \in Nat \cup {RehashNone}
  BY DEF Shaped, Within
<1>2. CASE IsRehashing(h)
  <2>1. IsRehashing(g) /\ h.rehash_index \in Nat
    BY <1>1, <1>2 DEF IsRehashing
  <2>2. QED BY <1>1, <1>2, <2>1 DEF Roomy, Within
<1>3. CASE ~IsRehashing(h)
  <2>1. ~IsRehashing(g)
    BY <1>1, <1>3 DEF IsRehashing
  <2>2. QED BY <1>1, <1>3, <2>1 DEF Roomy, Within
<1>4. QED BY <1>2, <1>3

\* A chain is replaced.
LEMMA WithChainWithin ==
    ASSUME NEW h, Shaped(h), NEW t \in 0..1, NEW k, NEW chain
    PROVE  /\ Within(WithChain(h, t, k, chain), h)
           /\ WithChain(h, t, k, chain).count = h.count
<1> DEFINE g == WithChain(h, t, k, chain)
<1>1. PICK c : g = [h EXCEPT !.tables[t].buckets = c]
  BY DEF WithChain
<1>2. /\ DOMAIN g = {"tables", "count", "rehash_index"}
      /\ g.count = h.count /\ g.rehash_index = h.rehash_index
      /\ g.tables = [h.tables EXCEPT ![t] = [h.tables[t] EXCEPT !.buckets = c]]
  BY <1>1 DEF Shaped
<1> HIDE DEF g
<1>3. /\ DOMAIN g.tables = 0..1
      /\ \A u \in 0..1 : u # t => g.tables[u] = h.tables[u]
      /\ g.tables[t] = [h.tables[t] EXCEPT !.buckets = c]
  BY <1>2 DEF Shaped
<1>4. /\ DOMAIN g.tables[t] = {"slots", "buckets"}
      /\ g.tables[t].slots = h.tables[t].slots
  BY <1>3 DEF Shaped
<1>5. QED BY <1>2, <1>3, <1>4 DEF Within, Shaped, g

\* kv_hash_node_set_payload changes no count.
LEMMA RepaidWithin ==
    ASSUME NEW h, Shaped(h), NEW k, Present(h, k), NEW v
    PROVE  Within(Repaid(h, k, v), h)
<1>1. PlaceOf(h, k) \in FoundIn(h, k)
  BY DEF Present, PlaceOf
<1>2. PlaceOf(h, k) \in 0..1
  BY <1>1 DEF FoundIn
<1>3. QED BY <1>2, WithChainWithin DEF Repaid

\* remove_target takes one node, or none.
LEMMA RemovedWithin ==
    ASSUME NEW h, Shaped(h), Roomy(h), NEW k
    PROVE  Within(remove_target(h, k), h)
<1> DEFINE t == IF Holds(h.tables[0], k) THEN 0 ELSE 1
           c == RemoveAt(Chain(h.tables[t], k), IndexIn(Chain(h.tables[t], k), k))
           w == WithChain(h, t, k, c)
           g == [w EXCEPT !.count = @ - 1]
<1>1. t \in 0..1
  OBVIOUS
<1>2. remove_target(h, k) = IF Holds(h.tables[t], k) THEN g ELSE h
  BY DEF remove_target
<1> HIDE DEF t, c
<1>3. Within(w, h) /\ w.count = h.count
  BY <1>1, WithChainWithin
<1> HIDE DEF w
<1>4. h.count \in Int /\ w.count - 1 \in Int /\ w.count - 1 <= h.count
      /\ h.count <= h.count
  BY <1>3 DEF Shaped
<1>5. /\ DOMAIN g = {"tables", "count", "rehash_index"} /\ g.tables = w.tables
      /\ g.count = w.count - 1 /\ g.rehash_index = w.rehash_index
  BY <1>3 DEF Within, Shaped
<1> HIDE DEF g
<1>6. Holds(h.tables[t], k) => h.tables[0].slots # 0
  <2>1. h.tables[0].slots = 0 => h.tables[1].slots = 0
    BY DEF Roomy
  <2>2. \A u \in 0..1 : h.tables[u].slots = 0 => ~Holds(h.tables[u], k)
    BY DEF Holds, Chain
  <2>3. t = 0 \/ t = 1
    BY <1>1
  <2>4. QED BY <1>1, <2>1, <2>2, <2>3
<1>7. h.tables[0].slots # 0 => Within(g, h)
  BY <1>3, <1>4, <1>5 DEF Within, Shaped
<1>8. Within(h, h)
  BY <1>4 DEF Within
<1>9. QED BY <1>2, <1>6, <1>7, <1>8

\* The least of a set of numbers.
LEMMA LeastOf ==
    ASSUME NEW S, S \subseteq Nat, S # {}
    PROVE  Min(S) \in S /\ \A x \in S : Min(S) <= x
<1>1. PICK x \in S : \A y \in S : ~(<<y, x>> \in OpToRel(<, Nat))
  BY NatLessThanWellFounded, WFMin
<1>2. \A y \in S : x <= y
  <2> TAKE y \in S
  <2>1. x \in Nat /\ y \in Nat
    OBVIOUS
  <2>2. ~(y < x)
    BY <1>1, <2>1 DEF OpToRel
  <2>3. QED BY <2>1, <2>2
<1>3. QED BY <1>2 DEF Min

\* A rehash step stops at a bucket of tables[0] or behind the last; with a
\* budget it moves at least one.
LEMMA StopsAhead ==
    ASSUME NEW h, Shaped(h), IsRehashing(h), NEW budget \in Nat,
           h.rehash_index < h.tables[0].slots
    PROVE  /\ StopsAt(h, budget) \in h.rehash_index..h.tables[0].slots
           /\ budget > 0 => StopsAt(h, budget) # h.rehash_index
<1> DEFINE r == h.rehash_index
           n == h.tables[0].slots
           e == EmptyPerBucket * budget
           S == {b \in r..n : b = n \/ Cost(h, r, b, e) = budget}
<1>1. r \in Nat /\ n \in Nat /\ r < n
  BY DEF Shaped, IsRehashing
<1>2. e \in Nat
  BY BudgetAssumption
<1>3. StopsAt(h, budget) = Min(S)
  BY DEF StopsAt
<1> HIDE DEF r, n, e
<1>4. S \subseteq Nat /\ n \in S
  BY <1>1
<1>5. Min(S) \in S
  <2>1. S # {}
    BY <1>4
  <2> HIDE DEF S
  <2>2. QED BY <1>4, <2>1, LeastOf
<1>6. Cost(h, r, r, e) = 0
  <2> DEFINE empty == {b \in r..r - 1 : h.tables[0].buckets[b] = <<>>}
  <2>1. empty = {}
    BY <1>1
  <2>2. Cardinality(empty) = 0
    BY <2>1, FS_EmptySet
  <2>3. Cost(h, r, r, e) = ((r - r) - Cardinality(empty))
                           + IF Cardinality(empty) > e
                             THEN Cardinality(empty) - e ELSE 0
    BY DEF Cost
  <2> HIDE DEF empty
  <2>4. QED BY <1>1, <1>2, <2>2, <2>3
<1>7. Min(S) \in r..n /\ (Min(S) = n \/ Cost(h, r, Min(S), e) = budget)
  BY <1>5
<1>8. budget > 0 => Min(S) # r
  BY <1>1, <1>6, <1>7
<1>9. QED BY <1>3, <1>7, <1>8 DEF r, n

\* A rehash step keeps the room; with a budget it makes room for one more.
LEMMA StepRoomy ==
    ASSUME NEW h, Shaped(h), Roomy(h), NEW budget \in Nat
    PROVE  LET g == RehashStep(h, budget)
           IN  /\ Shaped(g) /\ Roomy(g) /\ g.count = h.count
               /\ budget > 0 /\ IsRehashing(g) =>
                    g.count < g.tables[0].slots + g.rehash_index
<1>1. CASE ~IsRehashing(h)
  BY <1>1 DEF RehashStep
<1>2. CASE IsRehashing(h)
  <2> DEFINE stop == StopsAt(h, budget)
             m == Moved(h, stop)
             n == h.tables[0].slots
             r == h.rehash_index
  <2>1. /\ r \in Nat /\ n \in Nat /\ h.count \in Int /\ r < n
        /\ h.tables[1].slots = 2 * n /\ h.count <= n + r /\ n >= 4
    BY <1>2 DEF Shaped, Roomy, IsRehashing
  <2>2. stop \in r..n /\ (budget > 0 => stop # r)
    BY <1>2, <2>1, StopsAhead
  <2>3. PICK c, d : m = [h EXCEPT !.tables[0].buckets = c,
                                  !.tables[1].buckets = d,
                                  !.rehash_index = stop]
    BY DEF Moved
  <2> HIDE DEF stop
  <2>4. stop \in Nat /\ r <= stop /\ stop <= n /\ (budget > 0 => r < stop)
    BY <2>1, <2>2
  <2> DEFINE ts == [h.tables EXCEPT ![0] = [h.tables[0] EXCEPT !.buckets = c]]
             us == [ts EXCEPT ![1] = [ts[1] EXCEPT !.buckets = d]]
  <2>5. /\ DOMAIN m = {"tables", "count", "rehash_index"} /\ m.tables = us
        /\ m.count = h.count /\ m.rehash_index = stop
    BY <2>3 DEF Shaped
  <2>6. /\ DOMAIN us = 0..1
        /\ us[0] = [h.tables[0] EXCEPT !.buckets = c]
        /\ us[1] = [h.tables[1] EXCEPT !.buckets = d]
    BY DEF Shaped
  <2>7. /\ DOMAIN us[0] = {"slots", "buckets"} /\ us[0].slots = n
        /\ DOMAIN us[1] = {"slots", "buckets"} /\ us[1].slots = 2 * n
    BY <2>1, <2>6 DEF Shaped
  <2> HIDE DEF m, us, ts
  <2>8. Shaped(m)
    <3>1. \A t \in 0..1 : t = 0 \/ t = 1
      OBVIOUS
    <3>2. \A t \in 0..1 : /\ DOMAIN m.tables[t] = {"slots", "buckets"}
                          /\ m.tables[t].slots \in Nat
      BY <2>1, <2>5, <2>7, <3>1
    <3>3. QED BY <2>1, <2>4, <2>5, <2>6, <3>2 DEF Shaped
  <2>9. RehashStep(h, budget) = Swapped(m)
    BY <1>2 DEF RehashStep, m, stop
  <2>10. CASE stop = n
    <3> DEFINE ws == [t \in 0..1 |-> IF t = 0 THEN m.tables[1] ELSE NoTable]
               g == [m EXCEPT !.tables = ws, !.rehash_index = RehashNone]
    <3>1. Swapped(m) = g
      BY <2>5, <2>7, <2>10 DEF Swapped
    <3>2. /\ DOMAIN ws = 0..1 /\ ws[0] = us[1] /\ ws[1] = NoTable
      BY <2>5
    <3>3. /\ DOMAIN NoTable = {"slots", "buckets"} /\ NoTable.slots = 0
      BY DEF NoTable
    <3> HIDE DEF ws
    <3>4. /\ DOMAIN g = {"tables", "count", "rehash_index"} /\ g.tables = ws
          /\ g.count = h.count /\ g.rehash_index = RehashNone
      BY <2>5
    <3> HIDE DEF g
    <3>5. Shaped(g)
      <4>1. \A t \in 0..1 : t = 0 \/ t = 1
        OBVIOUS
      <4>2. \A t \in 0..1 : /\ DOMAIN g.tables[t] = {"slots", "buckets"}
                            /\ g.tables[t].slots \in Nat
        BY <2>1, <2>7, <3>2, <3>3, <3>4, <4>1
      <4>3. QED BY <2>1, <3>2, <3>4, <4>2 DEF Shaped
    <3>6. /\ g.tables[0].slots = 2 * n /\ g.tables[1].slots = 0
          /\ ~IsRehashing(g)
      BY <2>7, <3>2, <3>3, <3>4 DEF IsRehashing
    <3>7. g.count < 2 * n /\ 2 * n >= 4
      BY <2>1, <3>4
    <3>8. Roomy(g)
      BY <3>6, <3>7 DEF Roomy
    <3>9. QED BY <2>9, <3>1, <3>4, <3>5, <3>6, <3>8
  <2>11. CASE stop # n
    <3>1. Swapped(m) = m
      BY <2>5, <2>7, <2>11 DEF Swapped
    <3>2. stop < n /\ h.count <= n + stop
          /\ (budget > 0 => h.count < n + stop)
      BY <2>1, <2>4, <2>11
    <3>3. /\ m.tables[0].slots = n /\ m.tables[1].slots = 2 * n
      BY <2>5, <2>7
    <3>4. IsRehashing(m)
      BY <2>4, <2>5, SentinelAssumption DEF IsRehashing
    <3>5. Roomy(m)
      BY <2>1, <2>5, <3>2, <3>3, <3>4 DEF Roomy
    <3>6. QED BY <2>5, <2>8, <2>9, <3>1, <3>2, <3>3, <3>5
  <2>12. QED BY <2>10, <2>11
<1>3. QED BY <1>1, <1>2

\* start_expand, when the table must grow.
LEMMA ExpandRoomy ==
    ASSUME NEW h, Shaped(h), Roomy(h), MustExpand(h), CanExpand(h)
    PROVE  LET g == start_expand(h)
           IN  /\ Shaped(g) /\ Roomy(g) /\ g.count = h.count /\ IsRehashing(g)
               /\ g.count < g.tables[0].slots + g.rehash_index
<1> DEFINE n == h.tables[0].slots
           new == table_allocate(2 * n)
           g == start_expand(h)
<1>1. /\ n \in Nat /\ h.count \in Int /\ ~IsRehashing(h) /\ n > 0
  BY DEF Shaped, MustExpand, CanExpand
<1>2. h.count < n /\ n >= 4
  BY <1>1 DEF Roomy
<1>3. DOMAIN new = {"slots", "buckets"} /\ new.slots = 2 * n
  BY DEF table_allocate
<1>4. g = [h EXCEPT !.tables[1] = new, !.rehash_index = 0]
  BY DEF start_expand
<1> HIDE DEF g, new
<1>5. /\ DOMAIN g = {"tables", "count", "rehash_index"} /\ g.count = h.count
      /\ g.rehash_index = 0 /\ g.tables = [h.tables EXCEPT ![1] = new]
  BY <1>4 DEF Shaped
<1>6. DOMAIN g.tables = 0..1 /\ g.tables[0] = h.tables[0] /\ g.tables[1] = new
  BY <1>5 DEF Shaped
<1>7. Shaped(g)
  <2>1. \A t \in 0..1 : t = 0 \/ t = 1
    OBVIOUS
  <2>2. 2 * n \in Nat
    BY <1>1
  <2>3. \A t \in 0..1 : /\ DOMAIN g.tables[t] = {"slots", "buckets"}
                        /\ g.tables[t].slots \in Nat
    BY <1>3, <1>6, <2>1, <2>2 DEF Shaped
  <2>4. QED BY <1>1, <1>5, <1>6, <2>3 DEF Shaped
<1>8. IsRehashing(g)
  BY <1>5, SentinelAssumption DEF IsRehashing
<1>9. g.tables[0].slots = n /\ g.tables[1].slots = 2 * n
  BY <1>3, <1>6
<1>10. g.count < n + 0 /\ g.count <= n + 0
  BY <1>1, <1>2, <1>5
<1>11. Roomy(g)
  BY <1>1, <1>2, <1>5, <1>8, <1>9, <1>10 DEF Roomy
<1>12. QED BY <1>5, <1>7, <1>8, <1>9, <1>10, <1>11 DEF g

\* A node more, where there is room for it.
LEMMA LinkedRoomy ==
    ASSUME NEW h, Shaped(h), Roomy(h), NEW k, NEW v,
           IF IsRehashing(h) THEN h.count < h.tables[0].slots + h.rehash_index
                             ELSE h.count + 1 < h.tables[0].slots
    PROVE  Shaped(Linked(h, k, v)) /\ Roomy(Linked(h, k, v))
<1> DEFINE t == IF IsRehashing(h) THEN 1 ELSE 0
           c == <<[key |-> k, payload |-> v]>> \o Chain(h.tables[t], k)
           w == WithChain(h, t, k, c)
           g == [w EXCEPT !.count = @ + 1]
<1>1. t \in 0..1
  OBVIOUS
<1>2. Linked(h, k, v) = g
  BY DEF Linked
<1> HIDE DEF t, c
<1>3. Within(w, h) /\ w.count = h.count
  BY <1>1, WithChainWithin
<1> HIDE DEF w
<1>4. /\ DOMAIN g = {"tables", "count", "rehash_index"} /\ g.tables = w.tables
      /\ g.count = h.count + 1 /\ g.rehash_index = h.rehash_index
  BY <1>3 DEF Within, Shaped
<1> HIDE DEF g
<1>5. /\ g.tables[0].slots = h.tables[0].slots
      /\ g.tables[1].slots = h.tables[1].slots
      /\ IsRehashing(g) <=> IsRehashing(h)
  BY <1>3, <1>4 DEF Within, IsRehashing
<1>6. h.count \in Int /\ h.tables[0].slots \in Nat
  BY DEF Shaped
<1>7. Shaped(g)
  BY <1>3, <1>4, <1>6 DEF Within, Shaped
<1>8. CASE IsRehashing(h)
  <2>1. h.rehash_index \in Nat
    BY <1>8 DEF Shaped, IsRehashing
  <2>2. g.count <= g.tables[0].slots + g.rehash_index
    BY <1>4, <1>5, <1>6, <1>8, <2>1
  <2>3. Roomy(g)
    BY <1>4, <1>5, <1>8, <2>2 DEF Roomy
  <2>4. QED BY <1>2, <1>7, <2>3
<1>9. CASE ~IsRehashing(h)
  <2>1. g.count < g.tables[0].slots /\ g.tables[0].slots >= 4
    <3>1. h.tables[0].slots >= 4
      BY <1>6, <1>9 DEF Roomy
    <3>2. QED BY <1>4, <1>5, <1>6, <1>9, <3>1
  <2>2. Roomy(g)
    BY <1>5, <1>9, <2>1 DEF Roomy
  <2>3. QED BY <1>2, <1>7, <2>2
<1>10. QED BY <1>8, <1>9

\* kv_hash_insert after a bucket was moved.
LEMMA InsertionsRoomy ==
    ASSUME NEW h, Shaped(h), Roomy(h), NEW k, NEW v,
           IsRehashing(h) => h.count < h.tables[0].slots + h.rehash_index,
           NEW done \in Insertions(h, k, v)
    PROVE  Shaped(done.after) /\ Roomy(done.after)
<1>1. CASE MustExpand(h)
  <2> DEFINE g == start_expand(h)
  <2>1. CASE CanExpand(h)
    <3>1. /\ Shaped(g) /\ Roomy(g) /\ IsRehashing(g)
          /\ g.count < g.tables[0].slots + g.rehash_index
      BY <1>1, <2>1, ExpandRoomy
    <3>2. done.after \in {h, g, Linked(g, k, v)}
      BY <1>1, <2>1 DEF Insertions
    <3> HIDE DEF g
    <3>3. Shaped(Linked(g, k, v)) /\ Roomy(Linked(g, k, v))
      BY <3>1, LinkedRoomy
    <3>4. QED BY <3>1, <3>2, <3>3
  <2>2. CASE ~CanExpand(h)
    <3>1. done.after = h
      BY <1>1, <2>2 DEF Insertions
    <3>2. QED BY <3>1
  <2>3. QED BY <2>1, <2>2
<1>2. CASE ~MustExpand(h)
  <2>1. done.after \in {h, Linked(h, k, v)}
    BY <1>2 DEF Insertions
  <2>2. IF IsRehashing(h) THEN h.count < h.tables[0].slots + h.rehash_index
                          ELSE h.count + 1 < h.tables[0].slots
    <3> DEFINE n == h.tables[0].slots
    <3>1. n \in Nat /\ h.count \in Int
      BY DEF Shaped
    <3>2. ~IsRehashing(h) => h.count + 1 <= n - n \div 4
      BY <1>2, <3>1 DEF MustExpand
    <3>3. ~IsRehashing(h) => n >= 4
      BY <3>1, <3>2 DEF Roomy
    <3>4. n >= 4 => n - n \div 4 < n
      BY <3>1
    <3>5. QED BY <3>1, <3>2, <3>3, <3>4
  <2>3. QED BY <2>1, <2>2, LinkedRoomy
<1>3. QED BY <1>1, <1>2

\* hash_init makes an empty table.
LEMMA InitRoomy == Shaped(hash_init) /\ Roomy(hash_init)
<1> DEFINE ts == [t \in 0..1 |-> IF t = 0 THEN table_allocate(InitialSlots)
                                 ELSE NoTable]
<1>1. InitialSlots \in Nat /\ InitialSlots >= 4
  BY SlotsAssumption
<1>2. /\ DOMAIN NoTable = {"slots", "buckets"} /\ NoTable.slots = 0
      /\ DOMAIN table_allocate(InitialSlots) = {"slots", "buckets"}
      /\ table_allocate(InitialSlots).slots = InitialSlots
  BY DEF NoTable, table_allocate
<1>3. /\ DOMAIN ts = 0..1 /\ ts[0] = table_allocate(InitialSlots)
      /\ ts[1] = NoTable
  OBVIOUS
<1>4. hash_init = [tables |-> ts, count |-> 0, rehash_index |-> RehashNone]
  BY DEF hash_init
<1> HIDE DEF ts
<1>5. \A t \in 0..1 : /\ DOMAIN ts[t] = {"slots", "buckets"}
                      /\ ts[t].slots \in Nat
  <2>1. \A t \in 0..1 : t = 0 \/ t = 1
    OBVIOUS
  <2>2. QED BY <1>1, <1>2, <1>3, <2>1
<1>6. Shaped(hash_init)
  BY <1>3, <1>4, <1>5 DEF Shaped
<1>7. ~IsRehashing(hash_init)
  BY <1>4 DEF IsRehashing
<1>8. /\ hash_init.tables[0].slots = InitialSlots /\ hash_init.count = 0
      /\ hash_init.tables[1].slots = 0
  BY <1>2, <1>3, <1>4
<1>9. QED BY <1>1, <1>6, <1>7, <1>8 DEF Roomy

\* Every operation: those that insert move a bucket first.
LEMMA RoomyNext ==
    ASSUME Shaped(hash), Roomy(hash), [Next]_vars
    PROVE  Shaped(hash') /\ Roomy(hash')
<1>1. CASE UNCHANGED hash
  BY <1>1
<1>2. ASSUME NEW k \in Keys, NEW op, set_bytes(op, k)
      PROVE  Shaped(hash') /\ Roomy(hash')
  <2> DEFINE h == RehashStep(hash, 1)
  <2>1. /\ Shaped(h) /\ Roomy(h)
        /\ IsRehashing(h) => h.count < h.tables[0].slots + h.rehash_index
    BY StepRoomy
  <2>2. \/ hash' = h
        \/ \E v \in Values : \/ Present(h, k) /\ hash' = Repaid(h, k, v)
                             \/ \E done \in Insertions(h, k, v) :
                                    hash' = done.after
    BY <1>2 DEF set_bytes
  <2> HIDE DEF h
  <2>3. ASSUME NEW v \in Values, Present(h, k), hash' = Repaid(h, k, v)
        PROVE  Shaped(hash') /\ Roomy(hash')
    BY <2>1, <2>3, RepaidWithin, WithinRoomy
  <2>4. ASSUME NEW v \in Values, NEW done \in Insertions(h, k, v),
               hash' = done.after
        PROVE  Shaped(hash') /\ Roomy(hash')
    BY <2>1, <2>4, InsertionsRoomy
  <2>5. QED BY <2>1, <2>2, <2>3, <2>4
<1>3. ASSUME NEW k \in Keys, kvs_hash_delete(k)
      PROVE  Shaped(hash') /\ Roomy(hash')
  <2>1. hash' = remove_target(hash, k) \/ hash' = hash
    BY <1>3 DEF kvs_hash_delete
  <2>2. QED BY <2>1, RemovedWithin, WithinRoomy
<1>4. ASSUME NEW k \in Keys, kvs_hash_modify(k)
      PROVE  Shaped(hash') /\ Roomy(hash')
  <2>1. hash' = hash \/ (Present(hash, k)
                         /\ \E v \in Values : hash' = Repaid(hash, k, v))
    BY <1>4 DEF kvs_hash_modify
  <2>2. QED BY <2>1, RepaidWithin, WithinRoomy
<1>5. ASSUME NEW budget \in Budgets, Maintain(budget)
      PROVE  Shaped(hash') /\ Roomy(hash')
  <2>1. hash' = RehashStep(hash, budget) /\ budget \in Nat
    BY <1>5, BudgetAssumption DEF Maintain
  <2>2. QED BY <2>1, StepRoomy
<1>6. CASE RemoveGiven
  <2>1. hash' = remove_target(hash, it.given)
    BY <1>6 DEF RemoveGiven
  <2>2. QED BY <2>1, RemovedWithin, WithinRoomy
<1>7. CASE hash_clear
  <2>1. hash' = [tables |-> [t \in 0..1 |-> NoTable], count |-> 0,
                 rehash_index |-> RehashNone]
    BY <1>7 DEF hash_clear
  <2>2. DOMAIN NoTable = {"slots", "buckets"} /\ NoTable.slots = 0
    BY DEF NoTable
  <2>3. Shaped(hash') /\ ~IsRehashing(hash') /\ hash'.count = 0
        /\ hash'.tables[0].slots = 0 /\ hash'.tables[1].slots = 0
    BY <2>1, <2>2 DEF Shaped, IsRehashing
  <2>4. QED BY <2>3 DEF Roomy
<1>8. CASE kvstore_hash_create
  BY <1>8, InitRoomy DEF kvstore_hash_create
<1>9. QED
  BY <1>1, <1>2, <1>3, <1>4, <1>5, <1>6, <1>7, <1>8
     DEF Next, vars, kvs_hash_get, kv_hash_iterator_begin, NextInChain,
         NextBucket, IterationEnds, IterationStops, Return

-----------------------------------------------------------------------------
(* Remainders *)

\* Quotient and remainder.
LEMMA DivisionFacts ==
    ASSUME NEW x \in Nat, NEW n \in Nat, n > 0
    PROVE  /\ x \div n \in Int /\ x % n \in 0..n - 1
           /\ x = n * (x \div n) + (x % n)
  OBVIOUS

\* Remainders do not differ by a multiple.
LEMMA Multiples ==
    ASSUME NEW n \in Nat, n > 0, NEW d \in Int, NEW r \in 0..n - 1, NEW s \in 0..n - 1,
           n * d = s - r
    PROVE  r = s
<1>1. CASE d >= 1
  <2>1. n * d >= n
    BY <1>1
  <2>2. QED BY <2>1
<1>2. CASE d <= -1
  <2>1. n * d <= -n
    BY <1>2
  <2>2. QED BY <2>1
<1>3. CASE d = 0
  BY <1>3
<1>4. QED BY <1>1, <1>2, <1>3

\* Any such quotient gives the remainder.
LEMMA RemainderUnique ==
    ASSUME NEW x \in Nat, NEW n \in Nat, n > 0, NEW a \in Int, NEW r \in 0..n - 1,
           x = n * a + r
    PROVE  x % n = r
<1> DEFINE b == x \div n
           s == x % n
<1>1. b \in Int /\ s \in 0..n - 1 /\ x = n * b + s
  BY DivisionFacts
<1> HIDE DEF b, s
<1>2. n * (a - b) = s - r
  BY <1>1
<1>3. r = s
  BY <1>1, <1>2, a - b \in Int, Multiples
<1>4. QED BY <1>3 DEF s

\* The bucket in the old table follows from the one in a table twice as large.
LEMMA HalfRemainder ==
    ASSUME NEW x \in Nat, NEW n \in Nat, n > 0
    PROVE  (x % (2 * n)) % n = x % n
<1> DEFINE q == x \div (2 * n)
           y == x % (2 * n)
           a == y \div n
           r == y % n
<1>1. q \in Int /\ y \in Nat /\ x = 2 * n * q + y
  BY DivisionFacts, 2 * n \in Nat, 2 * n > 0
<1> HIDE DEF q, y
<1>2. a \in Int /\ r \in 0..n - 1 /\ y = n * a + r
  BY <1>1, DivisionFacts
<1> HIDE DEF a, r
<1>3. x = n * (2 * q + a) + r
  BY <1>1, <1>2
<1>4. x % n = r
  BY <1>1, <1>2, <1>3, 2 * q + a \in Int, RemainderUnique
<1>5. QED BY <1>4 DEF r, y
-----------------------------------------------------------------------------
(* Where the nodes are *)

\* The chain in which a key is looked for.
LEMMA ChainOf ==
    ASSUME NEW T, T.slots \in Nat, TablePlaced(T), NEW k \in Keys, T.slots > 0
    PROVE  LET b == HashCode[k] % T.slots
           IN  /\ b \in 0..T.slots - 1 /\ Chain(T, k) = T.buckets[b]
               /\ Chain(T, k) \in Seq(Node) /\ ChainPlaced(Chain(T, k), b, T.slots)
<1> DEFINE b == HashCode[k] % T.slots
<1>1. HashCode[k] \in Nat
  BY HashCodeAssumption
<1>2. b \in 0..T.slots - 1
  BY <1>1
<1>3. Chain(T, k) = T.buckets[b]
  BY DEF Chain
<1> HIDE DEF b
<1>4. T.buckets[b] \in Seq(Node) /\ ChainPlaced(T.buckets[b], b, T.slots)
  BY <1>2 DEF TablePlaced, Buckets
<1>5. QED BY <1>2, <1>3, <1>4 DEF b

\* A node of the table is in the chain of its key.
LEMMA HasFacts ==
    ASSUME NEW T, T.slots \in Nat, TablePlaced(T), NEW n, Has(T, n)
    PROVE  /\ n \in Node /\ n.key \in Keys /\ T.slots > 0
           /\ \E i \in 1..Len(Chain(T, n.key)) : Chain(T, n.key)[i] = n
<1>a. PICK b \in 0..T.slots - 1 : \E i \in 1..Len(T.buckets[b]) : T.buckets[b][i] = n
  BY DEF Has
<1>1. PICK i \in 1..Len(T.buckets[b]) : T.buckets[b][i] = n
  BY <1>a
<1>2. T.buckets[b] \in Seq(Node) /\ ChainPlaced(T.buckets[b], b, T.slots)
  BY <1>1 DEF TablePlaced, Buckets
<1>3. n \in Node
  BY <1>1, <1>2
<1>4. HashCode[n.key] % T.slots = b
  BY <1>1, <1>2 DEF ChainPlaced
<1>5. T.slots > 0 /\ n.key \in Keys
  BY <1>1, <1>3 DEF Node
<1>6. Chain(T, n.key) = T.buckets[b]
  BY <1>4, <1>5 DEF Chain
<1>7. QED BY <1>1, <1>3, <1>5, <1>6

\* What a chain holds the table holds.
LEMMA InChainHas ==
    ASSUME NEW T, T.slots \in Nat, TablePlaced(T), NEW k \in Keys,
           NEW i \in 1..Len(Chain(T, k))
    PROVE  Has(T, Chain(T, k)[i]) /\ T.slots > 0
<1>1. T.slots > 0
  BY DEF Chain
<1>2. QED BY <1>1, ChainOf DEF Has

\* A key is found in a table exactly when it has a node there.
LEMMA HoldsFacts ==
    ASSUME NEW T, T.slots \in Nat, TablePlaced(T), NEW k \in Keys
    PROVE  Holds(T, k) <=> \E n \in Node : Has(T, n) /\ n.key = k
<1>1. DOMAIN Chain(T, k) = 1..Len(Chain(T, k))
  <2>1. CASE T.slots = 0
    BY <2>1 DEF Chain
  <2>2. CASE T.slots > 0
    BY <2>2, ChainOf
  <2>3. QED BY <2>1, <2>2
<1>2. ASSUME Holds(T, k) PROVE \E n \in Node : Has(T, n) /\ n.key = k
  <2>1. PICK i \in 1..Len(Chain(T, k)) : Chain(T, k)[i].key = k
    BY <1>1, <1>2 DEF Holds
  <2>2. QED BY <2>1, InChainHas, HasFacts
<1>3. ASSUME NEW n \in Node, Has(T, n), n.key = k PROVE Holds(T, k)
  BY <1>1, <1>3, HasFacts DEF Holds
<1>4. QED BY <1>2, <1>3

\* A table has one node of a key.
LEMMA HasOnce ==
    ASSUME NEW T, T.slots \in Nat, TablePlaced(T), NEW m, NEW n,
           Has(T, m), Has(T, n), m.key = n.key
    PROVE  m = n
<1> DEFINE q == Chain(T, m.key)
<1>1. /\ m.key \in Keys /\ T.slots > 0
      /\ \E i \in 1..Len(q) : q[i] = m
      /\ \E i \in 1..Len(q) : q[i] = n
  BY HasFacts
<1>2. ChainPlaced(q, HashCode[m.key] % T.slots, T.slots)
  BY <1>1, ChainOf
<1> HIDE DEF q
<1>3. QED BY <1>1, <1>2 DEF ChainPlaced

\* The nodes and the keys of the struct are those of its two tables.
LEMMA NodesFacts ==
    ASSUME NEW h, Shaped(h), TablePlaced(h.tables[0]), TablePlaced(h.tables[1])
    PROVE  /\ \A n : n \in Nodes(h) <=> Has(h.tables[0], n) \/ Has(h.tables[1], n)
           /\ Nodes(h) \subseteq Node /\ KeysHeld(h) \subseteq Keys
           /\ \A k \in Keys : k \in KeysHeld(h) <=>
                 Holds(h.tables[0], k) \/ Holds(h.tables[1], k)
<1>1. \A t \in 0..1 : /\ h.tables[t].slots \in Nat
                      /\ TablePlaced(h.tables[t])
  BY DEF Shaped
<1>2. ASSUME NEW t \in 0..1
      PROVE  \A n : Has(h.tables[t], n) <=> n \in NodesIn(h.tables[t])
  <2>1. DOMAIN h.tables[t].buckets = 0..h.tables[t].slots - 1
    BY <1>1 DEF TablePlaced, Buckets
  <2>2. \A b \in 0..h.tables[t].slots - 1 :
           DOMAIN h.tables[t].buckets[b] = 1..Len(h.tables[t].buckets[b])
    BY <1>1 DEF TablePlaced, Buckets
  <2>3. QED BY <2>1, <2>2 DEF Has, NodesIn, Range
<1>3. \A n : n \in Nodes(h) <=> Has(h.tables[0], n) \/ Has(h.tables[1], n)
  BY <1>2 DEF Nodes
<1>4. Nodes(h) \subseteq Node
  BY <1>1, <1>3, HasFacts
<1>5. KeysHeld(h) \subseteq Keys
  BY <1>4 DEF KeysHeld, Node
<1>6. \A k \in Keys : k \in KeysHeld(h) <=>
         Holds(h.tables[0], k) \/ Holds(h.tables[1], k)
  BY <1>1, <1>3, <1>4, HoldsFacts DEF KeysHeld
<1>7. QED BY <1>3, <1>4, <1>5, <1>6

InChain(q, n) == \E i \in 1..Len(q) : q[i] = n

\* What a table U is when one chain of T was replaced.
Rechained(U, T, k, chain) ==
    LET b == HashCode[k] % T.slots
    IN  /\ U.slots = T.slots /\ U.buckets = [T.buckets EXCEPT ![b] = chain]

\* One chain is replaced and nothing else.
LEMMA WithChainTables ==
    ASSUME NEW h, Shaped(h), NEW t \in 0..1, NEW k, NEW chain
    PROVE  LET g == WithChain(h, t, k, chain)
           IN  /\ Rechained(g.tables[t], h.tables[t], k, chain)
               /\ \A u \in 0..1 : u # t => g.tables[u] = h.tables[u]
               /\ g.rehash_index = h.rehash_index /\ g.count = h.count
               /\ DOMAIN g = DOMAIN h /\ Shaped(g)
<1> DEFINE g == WithChain(h, t, k, chain)
           c == [h.tables[t].buckets EXCEPT ![HashCode[k] % h.tables[t].slots] = chain]
<1>1. g = [h EXCEPT !.tables = [h.tables EXCEPT ![t] =
                                   [h.tables[t] EXCEPT !.buckets = c]]]
  BY DEF WithChain
<1>2. c = [h.tables[t].buckets EXCEPT ![HashCode[k] % h.tables[t].slots] = chain]
  OBVIOUS
<1> HIDE DEF c
<1>3. /\ g.count = h.count /\ g.rehash_index = h.rehash_index
      /\ g.tables = [h.tables EXCEPT ![t] = [h.tables[t] EXCEPT !.buckets = c]]
      /\ DOMAIN g = DOMAIN h
  BY <1>1 DEF Shaped
<1> HIDE DEF g
<1>4. /\ \A u \in 0..1 : u # t => g.tables[u] = h.tables[u]
      /\ g.tables[t] = [h.tables[t] EXCEPT !.buckets = c]
  BY <1>3 DEF Shaped
<1>5. g.tables[t].slots = h.tables[t].slots /\ g.tables[t].buckets = c
  BY <1>4 DEF Shaped
<1>6. Rechained(g.tables[t], h.tables[t], k, chain)
  BY <1>2, <1>5 DEF Rechained
<1>7. Shaped(g)
  BY WithChainWithin DEF Within, g
<1>8. QED BY <1>3, <1>4, <1>6, <1>7 DEF g

\* A table whose chain of k is replaced is still well placed.
LEMMA ChainReplaced ==
    ASSUME NEW T, T.slots \in Nat, T.slots > 0, TablePlaced(T), NEW k \in Keys,
           NEW chain \in Seq(Node), ChainPlaced(chain, HashCode[k] % T.slots, T.slots),
           NEW New, \A n \in New : n.key = k,
           \A n : InChain(chain, n) <=> \/ InChain(Chain(T, k), n) /\ n.key # k
                                        \/ n \in New,
           NEW U, Rechained(U, T, k, chain)
    PROVE  /\ TablePlaced(U)
           /\ \A n : Has(U, n) <=> (Has(T, n) /\ n.key # k) \/ n \in New
<1> DEFINE b == HashCode[k] % T.slots
<1>1. /\ b \in 0..T.slots - 1 /\ Chain(T, k) = T.buckets[b]
      /\ ChainPlaced(T.buckets[b], b, T.slots)
  BY ChainOf
<1>2. /\ U.slots = T.slots /\ U.buckets = [T.buckets EXCEPT ![b] = chain]
      /\ ChainPlaced(chain, b, T.slots)
  BY DEF Rechained
<1> HIDE DEF b
<1>3. T.buckets \in [0..T.slots - 1 -> Seq(Node)]
  BY DEF TablePlaced, Buckets
<1>4. /\ U.buckets[b] = chain
      /\ \A c \in 0..T.slots - 1 : c # b => U.buckets[c] = T.buckets[c]
      /\ U.buckets \in [0..T.slots - 1 -> Seq(Node)]
  BY <1>1, <1>2, <1>3
<1>5. TablePlaced(U)
  <2>1. \A c \in 0..T.slots - 1 : ChainPlaced(U.buckets[c], c, T.slots)
    BY <1>2, <1>4 DEF TablePlaced
  <2>2. QED BY <1>2, <1>4, <2>1 DEF TablePlaced, Buckets
<1>6. \A n : Has(T, n) <=> \E c \in 0..T.slots - 1 : InChain(T.buckets[c], n)
  BY DEF Has, InChain
<1>7. \A n : Has(U, n) <=> \E c \in 0..T.slots - 1 : InChain(U.buckets[c], n)
  BY <1>2 DEF Has, InChain
<1>8. ASSUME NEW c \in 0..T.slots - 1, c # b, NEW n, InChain(T.buckets[c], n)
      PROVE  n.key # k
  <2>1. HashCode[n.key] % T.slots = c
    BY <1>8 DEF InChain, TablePlaced, ChainPlaced
  <2>2. QED BY <1>8, <2>1 DEF b
<1>9. \A n : InChain(U.buckets[b], n) <=>
         (InChain(T.buckets[b], n) /\ n.key # k) \/ n \in New
  BY <1>1, <1>4
<1>10. QED BY <1>1, <1>4, <1>5, <1>6, <1>7, <1>8, <1>9

\* A sequence without its element i.
LEMMA RemoveAtSeq ==
    ASSUME NEW S, NEW q \in Seq(S), NEW i \in 1..Len(q)
    PROVE  /\ RemoveAt(q, i) \in Seq(S)
           /\ Len(RemoveAt(q, i)) = Len(q) - 1
           /\ \A j \in 1..Len(q) - 1 :
                 RemoveAt(q, i)[j] = IF j < i THEN q[j] ELSE q[j + 1]
<1> DEFINE a == SubSeq(q, 1, i - 1)
           b == SubSeq(q, i + 1, Len(q))
<1>1. a \in Seq(S) /\ Len(a) = i - 1 /\ \A j \in 1..i - 1 : a[j] = q[j]
  OBVIOUS
<1>2. /\ b \in Seq(S) /\ Len(b) = Len(q) - i
      /\ \A j \in 1..Len(q) - i : b[j] = q[i + j]
  OBVIOUS
<1>3. RemoveAt(q, i) = a \o b
  BY DEF RemoveAt
<1> HIDE DEF a, b
<1> DEFINE c == a \o b
<1>3a. /\ c \in Seq(S) /\ Len(c) = Len(a) + Len(b)
       /\ \A j \in 1..Len(a) + Len(b) :
             c[j] = IF j <= Len(a) THEN a[j] ELSE b[j - Len(a)]
  BY <1>1, <1>2, ConcatProperties
<1> HIDE DEF c
<1>4. /\ c \in Seq(S) /\ Len(c) = Len(q) - 1
      /\ \A j \in 1..Len(q) - 1 : c[j] = IF j < i THEN a[j] ELSE b[j - i + 1]
  BY <1>1, <1>2, <1>3a, SMTT(30)
<1>5. ASSUME NEW j \in 1..Len(q) - 1, j >= i PROVE b[j - i + 1] = q[j + 1]
  <2> DEFINE n == j - i + 1
  <2>1. n \in 1..Len(q) - i /\ i + n = j + 1
    BY <1>5
  <2> HIDE DEF n
  <2>2. b[n] = q[j + 1]
    BY <1>2, <2>1
  <2>3. QED
    BY <2>2 DEF n
<1>6. \A j \in 1..Len(q) - 1 : c[j] = IF j < i THEN q[j] ELSE q[j + 1]
  BY <1>1, <1>4, <1>5
<1>7. QED
  BY <1>3, <1>4, <1>6 DEF c

\* The first node of a key in a chain.
LEMMA IndexFound ==
    ASSUME NEW q \in Seq(Node), NEW k, \E i \in 1..Len(q) : q[i].key = k
    PROVE  IndexIn(q, k) \in 1..Len(q) /\ q[IndexIn(q, k)].key = k
<1> DEFINE S == {i \in 1..Len(q) : q[i].key = k}
<1>1. S # {} /\ S \subseteq Nat
  OBVIOUS
<1>2. IndexIn(q, k) = Min(S)
  <2>1. DOMAIN q = 1..Len(q)
    OBVIOUS
  <2>2. QED BY <2>1 DEF IndexIn
<1> HIDE DEF S
<1>3. Min(S) \in S
  BY <1>1, LeastOf
<1>4. QED BY <1>2, <1>3 DEF S

\* kv_hash_insert puts the node at the head.
LEMMA ChainLinked ==
    ASSUME NEW q \in Seq(Node), NEW b, NEW n, ChainPlaced(q, b, n), NEW k \in Keys,
           HashCode[k] % n = b, NEW v \in Values,
           ~\E i \in 1..Len(q) : q[i].key = k
    PROVE  LET node == [key |-> k, payload |-> v]
               p == <<node>> \o q
           IN  /\ p \in Seq(Node) /\ ChainPlaced(p, b, n) /\ node \in Node
               /\ \A m : InChain(p, m) <=> (InChain(q, m) /\ m.key # k) \/ m \in {node}
<1> DEFINE node == [key |-> k, payload |-> v]
           p == <<node>> \o q
<1>1. node \in Node /\ node.key = k
  BY DEF Node
<1> HIDE DEF node
<1>2. /\ p \in Seq(Node) /\ Len(p) = Len(q) + 1
      /\ p[1] = node /\ \A i \in 2..Len(q) + 1 : p[i] = q[i - 1]
  BY <1>1
<1>3. Len(q) \in Nat
  OBVIOUS
<1> HIDE DEF p
<1>4. \A i \in 1..Len(p) : i = 1 \/ (i \in 2..Len(q) + 1 /\ i - 1 \in 1..Len(q))
  BY <1>2, <1>3
<1>5. \A i \in 1..Len(q) : i + 1 \in 2..Len(q) + 1 /\ i + 1 \in 1..Len(p)
                           /\ p[i + 1] = q[i]
  BY <1>2, <1>3
<1>6. ChainPlaced(p, b, n)
  <2>1. \A i \in 1..Len(p) : HashCode[p[i].key] % n = b
    <3>1. SUFFICES ASSUME NEW i \in 1..Len(p) PROVE HashCode[p[i].key] % n = b
      OBVIOUS
    <3>2. CASE i = 1
      BY <1>1, <1>2, <3>2
    <3>3. CASE i \in 2..Len(q) + 1 /\ i - 1 \in 1..Len(q)
      BY <1>2, <3>3 DEF ChainPlaced
    <3>4. QED BY <1>4, <3>2, <3>3
  <2>2. ASSUME NEW i \in 1..Len(p), NEW j \in 1..Len(p), p[i].key = p[j].key
        PROVE  i = j
    <3>1. CASE i = 1 /\ j = 1
      BY <3>1
    <3>2. CASE i = 1 /\ j # 1
      BY <1>1, <1>2, <1>4, <2>2, <3>2
    <3>3. CASE i # 1 /\ j = 1
      BY <1>1, <1>2, <1>4, <2>2, <3>3
    <3>4. CASE i # 1 /\ j # 1
      <4>1. i - 1 \in 1..Len(q) /\ j - 1 \in 1..Len(q) /\ q[i - 1].key = q[j - 1].key
        BY <1>2, <1>4, <2>2, <3>4
      <4>2. i - 1 = j - 1
        BY <4>1 DEF ChainPlaced
      <4>3. QED BY <4>2
    <3>5. QED BY <3>1, <3>2, <3>3, <3>4
  <2>3. QED BY <2>1, <2>2 DEF ChainPlaced
<1>7. ASSUME NEW m
      PROVE  InChain(p, m) <=> (InChain(q, m) /\ m.key # k) \/ m \in {node}
  <2>1. InChain(p, m) => InChain(q, m) \/ m = node
    BY <1>2, <1>4 DEF InChain
  <2>2. InChain(q, m) => InChain(p, m) /\ m.key # k
    BY <1>5 DEF InChain
  <2>3. InChain(p, node)
    BY <1>2, <1>3 DEF InChain
  <2>4. QED BY <2>1, <2>2, <2>3
<1>8. QED BY <1>1, <1>2, <1>6, <1>7 DEF p, node

\* kv_hash_node_set_payload
LEMMA ChainRepaid ==
    ASSUME NEW q \in Seq(Node), NEW b, NEW n, ChainPlaced(q, b, n), NEW k \in Keys,
           NEW v \in Values, \E i \in 1..Len(q) : q[i].key = k
    PROVE  LET node == [key |-> k, payload |-> v]
               p == [q EXCEPT ![IndexIn(q, k)].payload = v]
           IN  /\ p \in Seq(Node) /\ ChainPlaced(p, b, n) /\ node \in Node
               /\ \A m : InChain(p, m) <=> (InChain(q, m) /\ m.key # k) \/ m \in {node}
<1> DEFINE node == [key |-> k, payload |-> v]
           e == IndexIn(q, k)
           p == [q EXCEPT ![e].payload = v]
<1>1. node \in Node /\ node.key = k
  BY DEF Node
<1>2. e \in 1..Len(q) /\ q[e].key = k
  BY IndexFound
<1> HIDE DEF e
<1>3. [q[e] EXCEPT !.payload = v] = node
  <2>1. q[e] \in Node
    BY <1>2
  <2>2. PICK w : q[e] = [key |-> k, payload |-> w]
    BY <1>2, <2>1 DEF Node
  <2>3. QED BY <2>2
<1>4. p = [q EXCEPT ![e] = node]
  BY <1>3
<1> HIDE DEF p, node
<1>5. /\ p \in Seq(Node) /\ Len(p) = Len(q) /\ p[e] = node
      /\ \A i \in 1..Len(q) : i # e => p[i] = q[i]
  BY <1>1, <1>2, <1>4
<1>6. \A i \in 1..Len(q) : p[i].key = q[i].key
  BY <1>1, <1>2, <1>5
<1>7. ChainPlaced(p, b, n)
  BY <1>5, <1>6 DEF ChainPlaced
<1>8. \A i \in 1..Len(q) : q[i].key = k => i = e
  BY <1>2 DEF ChainPlaced
<1>9. \A m : InChain(p, m) <=> (InChain(q, m) /\ m.key # k) \/ m \in {node}
  BY <1>1, <1>2, <1>5, <1>8 DEF InChain
<1>10. QED BY <1>1, <1>5, <1>7, <1>9 DEF p, node, e

\* remove_target
LEMMA ChainRemoved ==
    ASSUME NEW q \in Seq(Node), NEW b, NEW n, ChainPlaced(q, b, n), NEW k,
           \E i \in 1..Len(q) : q[i].key = k
    PROVE  LET p == RemoveAt(q, IndexIn(q, k))
           IN  /\ p \in Seq(Node) /\ ChainPlaced(p, b, n)
               /\ \A m : InChain(p, m) <=> InChain(q, m) /\ m.key # k
<1> DEFINE e == IndexIn(q, k)
           p == RemoveAt(q, e)
<1>1. e \in 1..Len(q) /\ q[e].key = k
  BY IndexFound
<1> HIDE DEF e
<1>2. /\ p \in Seq(Node) /\ Len(p) = Len(q) - 1
      /\ \A j \in 1..Len(q) - 1 : p[j] = IF j < e THEN q[j] ELSE q[j + 1]
  BY <1>1, RemoveAtSeq
<1> HIDE DEF p
<1> DEFINE f(j) == IF j < e THEN j ELSE j + 1
<1>3. Len(q) \in Nat
  OBVIOUS
<1>4. \A j \in 1..Len(p) : f(j) \in 1..Len(q) /\ f(j) # e /\ p[j] = q[f(j)]
  BY <1>1, <1>2, <1>3
<1>5. \A i \in 1..Len(q) : i # e => \E j \in 1..Len(p) : f(j) = i
  <2> TAKE i \in 1..Len(q)
  <2> HAVE i # e
  <2>1. CASE i < e
    <3>1. i \in 1..Len(p) /\ f(i) = i
      BY <1>1, <1>2, <1>3, <2>1
    <3>2. QED BY <3>1
  <2>2. CASE i > e
    <3>1. i - 1 \in 1..Len(p) /\ f(i - 1) = i
      BY <1>1, <1>2, <1>3, <2>2
    <3>2. QED BY <3>1
  <2>3. QED BY <1>1, <2>1, <2>2
<1>6. \A i, j \in 1..Len(p) : f(i) = f(j) => i = j
  BY <1>1, <1>2, <1>3
<1> HIDE DEF f
<1>7. \A i \in 1..Len(q) : q[i].key = k => i = e
  BY <1>1 DEF ChainPlaced
<1>8. ChainPlaced(p, b, n)
  <2>1. \A i \in 1..Len(p) : HashCode[p[i].key] % n = b
    BY <1>4 DEF ChainPlaced
  <2>2. ASSUME NEW i \in 1..Len(p), NEW j \in 1..Len(p), p[i].key = p[j].key
        PROVE  i = j
    <3>1. f(i) = f(j)
      BY <1>4, <2>2 DEF ChainPlaced
    <3>2. QED BY <1>6, <3>1
  <2>3. QED BY <2>1, <2>2 DEF ChainPlaced
<1>9. \A m : InChain(p, m) <=> InChain(q, m) /\ m.key # k
  <2> TAKE m
  <2>1. InChain(p, m) => InChain(q, m) /\ m.key # k
    BY <1>4, <1>7 DEF InChain
  <2>2. ASSUME InChain(q, m), m.key # k PROVE InChain(p, m)
    <3>1. PICK i \in 1..Len(q) : q[i] = m
      BY <2>2 DEF InChain
    <3>2. PICK j \in 1..Len(p) : f(j) = i
      BY <1>1, <1>5, <2>2, <3>1
    <3>3. QED BY <1>4, <3>1, <3>2 DEF InChain
  <2>3. QED BY <2>1, <2>2
<1>10. QED BY <1>2, <1>8, <1>9 DEF p, e

-----------------------------------------------------------------------------
(* What the operations do to the nodes *)

\* The nodes of k are replaced by those of New.
Changed(g, h, k, New) ==
    /\ Arranged(g) /\ g.rehash_index = h.rehash_index
    /\ \A n : n \in Nodes(g) <=> (n \in Nodes(h) /\ n.key # k) \/ n \in New

\* The same for the struct.
LEMMA Replaced ==
    ASSUME NEW h, Shaped(h), Roomy(h), Arranged(h), NEW t \in 0..1,
           h.tables[t].slots > 0, NEW k \in Keys, ~Holds(h.tables[1 - t], k),
           IsRehashing(h) => t = 1 \/ Holds(h.tables[0], k),
           NEW chain \in Seq(Node),
           ChainPlaced(chain, HashCode[k] % h.tables[t].slots, h.tables[t].slots),
           NEW New, New \subseteq Node, \A n \in New : n.key = k,
           \A n : InChain(chain, n) <=> \/ InChain(Chain(h.tables[t], k), n) /\ n.key # k
                                        \/ n \in New,
           NEW g, Shaped(g), g.tables = WithChain(h, t, k, chain).tables,
           g.rehash_index = h.rehash_index
    PROVE  Changed(g, h, k, New)
<1> DEFINE T == h.tables[t]
           U == g.tables[t]
           b == HashCode[k] % T.slots
<1>1. /\ Rechained(U, T, k, chain)
      /\ \A u \in 0..1 : u # t => g.tables[u] = h.tables[u]
  BY WithChainTables
<1>2. \A u \in 0..1 : TablePlaced(h.tables[u]) /\ h.tables[u].slots \in Nat
  BY DEF Arranged, Shaped
<1>3. /\ TablePlaced(U)
      /\ \A n : Has(U, n) <=> (Has(T, n) /\ n.key # k) \/ n \in New
  <2>1. T.slots \in Nat /\ T.slots > 0 /\ TablePlaced(T)
    BY <1>2
  <2>2. ChainPlaced(chain, HashCode[k] % T.slots, T.slots)
    OBVIOUS
  <2>3. \A n : InChain(chain, n) <=> \/ InChain(Chain(T, k), n) /\ n.key # k
                                     \/ n \in New
    OBVIOUS
  <2> HIDE DEF T, U
  <2>4. QED BY <1>1, <2>1, <2>2, <2>3, ChainReplaced
<1>4. 1 - t \in 0..1 /\ 1 - t # t /\ \A u \in 0..1 : u = t \/ u = 1 - t
  OBVIOUS
<1>5. g.tables[1 - t] = h.tables[1 - t]
  BY <1>1, <1>4
<1>6. TablePlaced(g.tables[0]) /\ TablePlaced(g.tables[1])
  BY <1>2, <1>3, <1>4, <1>5
<1>7. \A n \in Node : Has(h.tables[1 - t], n) => n.key # k
  BY <1>2, <1>4, HoldsFacts
<1>8. \A n : n \in Nodes(h) <=> Has(T, n) \/ Has(h.tables[1 - t], n)
  BY <1>4, NodesFacts DEF Arranged
<1>9. \A n : n \in Nodes(g) <=> Has(U, n) \/ Has(h.tables[1 - t], n)
  BY <1>4, <1>5, <1>6, NodesFacts
<1>10. \A n : Has(h.tables[1 - t], n) => n \in Node
  BY <1>2, <1>4, HasFacts
<1>11. \A n : n \in Nodes(g) <=> (n \in Nodes(h) /\ n.key # k) \/ n \in New
  BY <1>3, <1>7, <1>8, <1>9, <1>10
<1>12. \A m, n \in Node : Has(T, m) /\ Has(h.tables[1 - t], n) => m.key # n.key
  BY <1>4 DEF Arranged
<1>13. \A m, n \in Node : Has(U, m) /\ Has(g.tables[1 - t], n) => m.key # n.key
  BY <1>3, <1>5, <1>7, <1>12
<1>14. \A m, n \in Node : Has(g.tables[0], m) /\ Has(g.tables[1], n)
                            => m.key # n.key
  BY <1>4, <1>13
<1>15. CASE IsRehashing(h)
  <2>1. IsRehashing(g)
    BY <1>15 DEF IsRehashing
  <2>2. CASE t = 1
    <3>1. g.tables[0] = h.tables[0]
      BY <1>5, <2>2
    <3>2. QED BY <1>6, <1>11, <1>14, <1>15, <2>1, <3>1 DEF Changed, Arranged
  <2>3. CASE t = 0
    <3>1. Holds(T, k) /\ T.buckets[b] = Chain(T, k) /\ b \in 0..T.slots - 1
      BY <1>2, <1>15, <2>3, ChainOf
    <3>2. T.buckets[b] # <<>>
      BY <3>1 DEF Holds
    <3>3. \A c \in 0..h.rehash_index - 1 : c # b
      BY <1>15, <2>3, <3>2 DEF Arranged
    <3>4. U.buckets = [T.buckets EXCEPT ![b] = chain]
      BY <1>1 DEF Rechained
    <3>5. DOMAIN T.buckets = 0..T.slots - 1
      BY <1>2 DEF TablePlaced, Buckets
    <3> HIDE DEF b
    <3>6. ASSUME NEW c \in 0..h.rehash_index - 1
          PROVE  U.buckets[c] = <<>>
      <4>1. T.buckets[c] = <<>>
        BY <1>15, <2>3 DEF Arranged
      <4>2. c \in 0..T.slots - 1
        BY <1>2, <1>15, <2>3 DEF Roomy, Shaped, IsRehashing
      <4>3. QED BY <3>3, <3>4, <3>5, <4>1, <4>2
    <3>7. QED BY <1>6, <1>11, <1>14, <1>15, <2>1, <2>3, <3>6 DEF Changed, Arranged
  <2>4. QED BY <2>2, <2>3
<1>16. CASE ~IsRehashing(h)
  <2>1. h.tables[1] = NoTable /\ ~IsRehashing(g)
    BY <1>16 DEF Arranged, IsRehashing
  <2>2. t = 0
    BY <2>1 DEF NoTable
  <2>3. g.tables[1] = NoTable
    BY <1>5, <2>1, <2>2
  <2>4. QED BY <1>6, <1>11, <1>14, <2>1, <2>3 DEF Changed, Arranged
<1>17. QED BY <1>15, <1>16

\* Only the count is set.
LEMMA CountSet ==
    ASSUME NEW w, Shaped(w), NEW c \in Int
    PROVE  LET g == [w EXCEPT !.count = c]
           IN  /\ Shaped(g) /\ g.tables = w.tables /\ g.count = c
               /\ g.rehash_index = w.rehash_index
<1> DEFINE g == [w EXCEPT !.count = c]
<1>1. /\ DOMAIN g = {"tables", "count", "rehash_index"} /\ g.tables = w.tables
      /\ g.count = c /\ g.rehash_index = w.rehash_index
  BY DEF Shaped
<1> HIDE DEF g
<1>2. Shaped(g)
  BY <1>1 DEF Shaped
<1>3. QED BY <1>1, <1>2 DEF g

\* kv_hash_find finds what is there.
LEMMA PresentFacts ==
    ASSUME NEW h, Shaped(h), Arranged(h), NEW k \in Keys
    PROVE  /\ Present(h, k) <=> k \in KeysHeld(h)
           /\ Present(h, k) => /\ PlaceOf(h, k) \in 0..1
                               /\ Holds(h.tables[PlaceOf(h, k)], k)
                               /\ ~Holds(h.tables[1 - PlaceOf(h, k)], k)
<1>1. \A u \in 0..1 : TablePlaced(h.tables[u]) /\ h.tables[u].slots \in Nat
  BY DEF Arranged, Shaped
<1>2. ~(Holds(h.tables[0], k) /\ Holds(h.tables[1], k))
  <2>1. SUFFICES ASSUME Holds(h.tables[0], k), Holds(h.tables[1], k) PROVE FALSE
    OBVIOUS
  <2>2. 0 \in 0..1 /\ 1 \in 0..1
    OBVIOUS
  <2>3. PICK m \in Node : Has(h.tables[0], m) /\ m.key = k
    BY <1>1, <2>1, <2>2, HoldsFacts
  <2>4. PICK n \in Node : Has(h.tables[1], n) /\ n.key = k
    BY <1>1, <2>1, <2>2, HoldsFacts
  <2>5. QED BY <2>3, <2>4 DEF Arranged
<1>3. ~IsRehashing(h) => ~Holds(h.tables[1], k)
  <2>1. NoTable.slots = 0
    BY DEF NoTable
  <2>2. ~Holds(NoTable, k)
    BY <2>1 DEF Holds, Chain
  <2>3. QED BY <2>2 DEF Arranged
<1>4. k \in KeysHeld(h) <=> Holds(h.tables[0], k) \/ Holds(h.tables[1], k)
  BY NodesFacts DEF Arranged
<1>5. \A u \in 0..1 : u \in FoundIn(h, k) <=> Holds(h.tables[u], k)
  BY <1>2, <1>3 DEF FoundIn
<1>6. FoundIn(h, k) \subseteq 0..1
  BY DEF FoundIn
<1>7. Present(h, k) <=> k \in KeysHeld(h)
  BY <1>4, <1>5, <1>6 DEF Present
<1>8. ASSUME Present(h, k)
      PROVE  /\ PlaceOf(h, k) \in 0..1 /\ Holds(h.tables[PlaceOf(h, k)], k)
             /\ ~Holds(h.tables[1 - PlaceOf(h, k)], k)
  <2>1. PlaceOf(h, k) \in FoundIn(h, k)
    BY <1>8 DEF Present, PlaceOf
  <2>2. PlaceOf(h, k) = 0 \/ PlaceOf(h, k) = 1
    BY <1>6, <2>1
  <2>3. QED BY <1>2, <1>5, <2>1, <2>2
<1>9. QED BY <1>7, <1>8

\* The chain of a key that is held.
LEMMA HeldChain ==
    ASSUME NEW T, T.slots \in Nat, TablePlaced(T), NEW k \in Keys, Holds(T, k)
    PROVE  /\ T.slots > 0 /\ Chain(T, k) \in Seq(Node)
           /\ ChainPlaced(Chain(T, k), HashCode[k] % T.slots, T.slots)
           /\ \E i \in 1..Len(Chain(T, k)) : Chain(T, k)[i].key = k
<1>1. T.slots > 0
  BY DEF Holds, Chain
<1>2. QED BY <1>1, ChainOf DEF Holds

\* A new node at the head of its chain.
LEMMA LinkedChanged ==
    ASSUME NEW h, Shaped(h), Roomy(h), Arranged(h), NEW k \in Keys, NEW v \in Values,
           k \notin KeysHeld(h), h.tables[0].slots > 0
    PROVE  /\ Changed(Linked(h, k, v), h, k, {[key |-> k, payload |-> v]})
           /\ Shaped(Linked(h, k, v)) /\ Linked(h, k, v).count = h.count + 1
           /\ [key |-> k, payload |-> v] \in Node
<1> DEFINE t == IF IsRehashing(h) THEN 1 ELSE 0
           T == h.tables[t]
           node == [key |-> k, payload |-> v]
           c == <<node>> \o Chain(T, k)
           w == WithChain(h, t, k, c)
           g == [w EXCEPT !.count = w.count + 1]
<1>1. t \in 0..1 /\ T.slots > 0 /\ TablePlaced(T) /\ T.slots \in Nat
  <2>1. IsRehashing(h) => h.tables[1].slots > 0
    BY DEF Roomy, Shaped
  <2>2. QED BY <2>1 DEF Arranged, Shaped
<1>2. Linked(h, k, v) = g
  BY DEF Linked
<1>3. IsRehashing(h) => t = 1
  OBVIOUS
<1>4. ~Holds(h.tables[0], k) /\ ~Holds(h.tables[1], k)
  BY NodesFacts DEF Arranged
<1> HIDE DEF t
<1>5. 1 - t \in 0..1 /\ ~Holds(h.tables[1 - t], k) /\ ~Holds(T, k)
  <2>1. t = 0 \/ t = 1
    BY <1>1
  <2>2. QED BY <1>4, <2>1
<1>6. /\ Chain(T, k) \in Seq(Node)
      /\ ChainPlaced(Chain(T, k), HashCode[k] % T.slots, T.slots)
      /\ ~\E i \in 1..Len(Chain(T, k)) : Chain(T, k)[i].key = k
  BY <1>1, <1>5, ChainOf DEF Holds
<1> HIDE DEF T
<1>7. /\ c \in Seq(Node) /\ ChainPlaced(c, HashCode[k] % T.slots, T.slots)
      /\ node \in Node
      /\ \A m : InChain(c, m) <=> (InChain(Chain(T, k), m) /\ m.key # k)
                                   \/ m \in {node}
  BY <1>6, ChainLinked
<1> HIDE DEF c
<1>8. Shaped(w) /\ w.rehash_index = h.rehash_index /\ w.count = h.count
  BY <1>1, WithChainTables
<1>9. w.count + 1 \in Int
  BY <1>8 DEF Shaped
<1>10. w.tables = WithChain(h, t, k, c).tables
  OBVIOUS
<1> HIDE DEF w
<1>11. Shaped(g) /\ g.tables = w.tables /\ g.count = h.count + 1
       /\ g.rehash_index = w.rehash_index
  BY <1>8, <1>9, CountSet
<1>12. node.key = k
  OBVIOUS
<1> HIDE DEF g, node
<1>13. Changed(g, h, k, {node})
  <2>1. {node} \subseteq Node /\ \A n \in {node} : n.key = k
    BY <1>7, <1>12
  <2>2. g.tables = WithChain(h, t, k, c).tables /\ g.rehash_index = h.rehash_index
    BY <1>8, <1>10, <1>11
  <2>3. QED BY <1>1, <1>3, <1>5, <1>7, <1>11, <2>1, <2>2, Replaced DEF T
<1>14. QED BY <1>2, <1>7, <1>11, <1>13 DEF node

\* A payload is replaced.
LEMMA RepaidChanged ==
    ASSUME NEW h, Shaped(h), Roomy(h), Arranged(h), NEW k \in Keys, NEW v \in Values,
           Present(h, k)
    PROVE  /\ Changed(Repaid(h, k, v), h, k, {[key |-> k, payload |-> v]})
           /\ Shaped(Repaid(h, k, v)) /\ Repaid(h, k, v).count = h.count
           /\ [key |-> k, payload |-> v] \in Node
<1> DEFINE t == PlaceOf(h, k)
           T == h.tables[t]
           node == [key |-> k, payload |-> v]
           c == [Chain(T, k) EXCEPT ![IndexIn(Chain(T, k), k)].payload = v]
           w == WithChain(h, t, k, c)
<1>1. t \in 0..1 /\ Holds(T, k) /\ ~Holds(h.tables[1 - t], k)
  BY PresentFacts
<1>2. Repaid(h, k, v) = w
  BY DEF Repaid
<1> HIDE DEF t
<1>3. TablePlaced(T) /\ T.slots \in Nat
  BY <1>1 DEF Arranged, Shaped
<1>4. IsRehashing(h) => t = 1 \/ Holds(h.tables[0], k)
  <2>1. t = 0 \/ t = 1
    BY <1>1
  <2>2. QED BY <1>1, <2>1
<1>5. /\ T.slots > 0 /\ Chain(T, k) \in Seq(Node)
      /\ ChainPlaced(Chain(T, k), HashCode[k] % T.slots, T.slots)
      /\ \E i \in 1..Len(Chain(T, k)) : Chain(T, k)[i].key = k
  BY <1>1, <1>3, HeldChain
<1> HIDE DEF T
<1>6. /\ c \in Seq(Node) /\ ChainPlaced(c, HashCode[k] % T.slots, T.slots)
      /\ node \in Node
      /\ \A m : InChain(c, m) <=> (InChain(Chain(T, k), m) /\ m.key # k)
                                   \/ m \in {node}
  <2> DEFINE q == Chain(T, k)
             b == HashCode[k] % T.slots
  <2>1. /\ q \in Seq(Node) /\ ChainPlaced(q, b, T.slots)
        /\ \E i \in 1..Len(q) : q[i].key = k
    BY <1>5
  <2>2. c = [q EXCEPT ![IndexIn(q, k)].payload = v]
    OBVIOUS
  <2> HIDE DEF q, b, c
  <2>3. /\ c \in Seq(Node) /\ ChainPlaced(c, b, T.slots) /\ node \in Node
        /\ \A m : InChain(c, m) <=> (InChain(q, m) /\ m.key # k) \/ m \in {node}
    BY <2>1, <2>2, ChainRepaid
  <2>4. QED BY <2>3 DEF q, b
<1>7. node.key = k
  OBVIOUS
<1> HIDE DEF c, node
<1>8. Shaped(w) /\ w.rehash_index = h.rehash_index /\ w.count = h.count
  BY <1>1, WithChainTables
<1>9. w.tables = WithChain(h, t, k, c).tables
  OBVIOUS
<1> HIDE DEF w
<1>10. Changed(w, h, k, {node})
  <2>1. {node} \subseteq Node /\ \A n \in {node} : n.key = k
    BY <1>6, <1>7
  <2>2. QED BY <1>1, <1>4, <1>5, <1>6, <1>8, <1>9, <2>1, Replaced DEF T
<1>11. QED BY <1>2, <1>6, <1>8, <1>10 DEF node

\* A node is taken out.
LEMMA RemovedChanged ==
    ASSUME NEW h, Shaped(h), Roomy(h), Arranged(h), NEW k \in Keys, k \in KeysHeld(h)
    PROVE  /\ Changed(remove_target(h, k), h, k, {})
           /\ Shaped(remove_target(h, k)) /\ remove_target(h, k).count = h.count - 1
<1> DEFINE t == IF Holds(h.tables[0], k) THEN 0 ELSE 1
           T == h.tables[t]
           c == RemoveAt(Chain(T, k), IndexIn(Chain(T, k), k))
           w == WithChain(h, t, k, c)
           g == [w EXCEPT !.count = w.count - 1]
<1>1. /\ \A u \in 0..1 : TablePlaced(h.tables[u]) /\ h.tables[u].slots \in Nat
      /\ Holds(h.tables[0], k) \/ Holds(h.tables[1], k)
  BY NodesFacts DEF Arranged, Shaped
<1>2. ~(Holds(h.tables[0], k) /\ Holds(h.tables[1], k))
  BY <1>1, HoldsFacts DEF Arranged
<1>3. t \in 0..1 /\ Holds(T, k) /\ ~Holds(h.tables[1 - t], k)
  BY <1>1, <1>2
<1>4. remove_target(h, k) = g
  BY <1>3 DEF remove_target
<1>5. t = 1 \/ Holds(h.tables[0], k)
  OBVIOUS
<1> HIDE DEF t
<1>6. /\ T.slots > 0 /\ Chain(T, k) \in Seq(Node)
      /\ ChainPlaced(Chain(T, k), HashCode[k] % T.slots, T.slots)
      /\ \E i \in 1..Len(Chain(T, k)) : Chain(T, k)[i].key = k
  BY <1>1, <1>3, HeldChain
<1> HIDE DEF T
<1>7. /\ c \in Seq(Node) /\ ChainPlaced(c, HashCode[k] % T.slots, T.slots)
      /\ \A m : InChain(c, m) <=> InChain(Chain(T, k), m) /\ m.key # k
  BY <1>6, ChainRemoved
<1> HIDE DEF c
<1>8. Shaped(w) /\ w.rehash_index = h.rehash_index /\ w.count = h.count
  BY <1>3, WithChainTables
<1>9. w.tables = WithChain(h, t, k, c).tables /\ w.count - 1 \in Int
  BY <1>8 DEF Shaped
<1> HIDE DEF w
<1>10. Shaped(g) /\ g.tables = w.tables /\ g.count = h.count - 1
       /\ g.rehash_index = w.rehash_index
  BY <1>8, <1>9, CountSet
<1> HIDE DEF g
<1>11. Changed(g, h, k, {})
  BY <1>3, <1>5, <1>6, <1>7, <1>8, <1>9, <1>10, Replaced DEF T
<1>12. QED BY <1>4, <1>10, <1>11

\* The count after a key was stored.
LEMMA StoredCounted ==
    ASSUME NEW h, Shaped(h), Counted(h), NEW k, NEW node, node.key = k,
           NEW g, Changed(g, h, k, {node}),
           g.count = IF k \in KeysHeld(h) THEN h.count ELSE h.count + 1
    PROVE  Counted(g) /\ KeysHeld(g) = KeysHeld(h) \cup {k}
<1>1. KeysHeld(g) = KeysHeld(h) \cup {k}
  BY DEF Changed, KeysHeld
<1>2. QED BY <1>1, FS_AddElement, FS_CardinalityType DEF Counted

\* The count after a key was removed.
LEMMA RemovedCounted ==
    ASSUME NEW h, Shaped(h), Counted(h), NEW k \in KeysHeld(h),
           NEW g, Changed(g, h, k, {}), g.count = h.count - 1
    PROVE  Counted(g) /\ KeysHeld(g) = KeysHeld(h) \ {k}
<1>1. KeysHeld(g) = KeysHeld(h) \ {k}
  BY DEF Changed, KeysHeld
<1>2. QED BY <1>1, FS_RemoveElement, FS_CardinalityType DEF Counted

-----------------------------------------------------------------------------
(* Moving a bucket *)

Rank(S, p) == Cardinality({q \in S : q <= p})

\* The ranks of a finite set of numbers are 1 to its size.
LEMMA RankBijective ==
    ASSUME NEW S, IsFiniteSet(S), S \subseteq Nat
    PROVE  /\ Cardinality(S) \in Nat
           /\ \A p \in S : Rank(S, p) \in 1..Cardinality(S)
           /\ \A p, q \in S : Rank(S, p) = Rank(S, q) => p = q
           /\ \A c \in 1..Cardinality(S) : \E p \in S : Rank(S, p) = c
<1> DEFINE Upto(p) == {q \in S : q <= p}
           N == Cardinality(S)
<1>1. N \in Nat
  BY FS_CardinalityType
<1>2. \A p : Upto(p) \in SUBSET S
  OBVIOUS
<1>3. \A p : /\ IsFiniteSet(Upto(p)) /\ Cardinality(Upto(p)) \in Nat
             /\ Cardinality(Upto(p)) <= N
  <2> SUFFICES ASSUME NEW p
               PROVE  /\ IsFiniteSet(Upto(p)) /\ Cardinality(Upto(p)) \in Nat
                      /\ Cardinality(Upto(p)) <= N
    OBVIOUS
  <2> HIDE DEF Upto
  <2>1. Upto(p) \in SUBSET S
    BY <1>2
  <2>2. IsFiniteSet(Upto(p)) /\ Cardinality(Upto(p)) <= N
    BY <2>1, FS_Subset
  <2>3. QED BY <2>2, FS_CardinalityType
<1>4. ASSUME NEW p \in S PROVE Rank(S, p) \in 1..N
  <2>1. p \in Upto(p)
    OBVIOUS
  <2>2. Upto(p) # {}
    BY <2>1
  <2> HIDE DEF Upto
  <2>3. Cardinality(Upto(p)) # 0
    BY <1>3, <2>2, FS_EmptySet
  <2>4. QED BY <1>1, <1>3, <2>3 DEF Rank, Upto
<1>5. ASSUME NEW p \in S, NEW q \in S, p < q PROVE Rank(S, p) # Rank(S, q)
  <2>1. Upto(p) \in SUBSET Upto(q) /\ q \in Upto(q) /\ q \notin Upto(p)
    <3>1. p \in Nat /\ q \in Nat /\ \A z \in S : z \in Nat
      OBVIOUS
    <3>2. \A z \in S : z <= p => z <= q
      BY <1>5, <3>1
    <3>3. q <= q /\ ~(q <= p)
      BY <1>5, <3>1
    <3>4. QED BY <3>2, <3>3
  <2>2. Upto(p) # Upto(q)
    BY <2>1
  <2> HIDE DEF Upto
  <2>3. Cardinality(Upto(q)) # Cardinality(Upto(p))
    BY <1>3, <2>1, <2>2, FS_Subset
  <2>4. QED BY <2>3 DEF Rank, Upto
<1>6. \A p, q \in S : Rank(S, p) = Rank(S, q) => p = q
  <2> SUFFICES ASSUME NEW p \in S, NEW q \in S, p # q
               PROVE  Rank(S, p) # Rank(S, q)
    OBVIOUS
  <2>1. p < q \/ q < p
    OBVIOUS
  <2>2. QED BY <1>5, <2>1
<1> DEFINE f == [p \in S |-> Rank(S, p)]
<1>7. f \in Injection(S, 1..N)
  BY <1>4, <1>6 DEF Injection, IsInjective
<1>8. IsFiniteSet(1..N) /\ Cardinality(1..N) = N
  BY <1>1, FS_Interval
<1>9. f \in Surjection(S, 1..N)
  BY <1>7, <1>8, FS_Injection
<1>10. \A c \in 1..N : \E p \in S : Rank(S, p) = c
  BY <1>9 DEF Surjection
<1>11. QED BY <1>1, <1>4, <1>6, <1>10

\* Nth gives the place of a rank.
LEMMA NthRank ==
    ASSUME NEW S, IsFiniteSet(S), S \subseteq Nat
    PROVE  /\ \A c \in 1..Cardinality(S) : Nth(S, c) \in S
           /\ \A c \in 1..Cardinality(S) : Rank(S, Nth(S, c)) = c
           /\ \A p \in S : Nth(S, Rank(S, p)) = p
<1>1. \A c \in 1..Cardinality(S) : Nth(S, c) \in S /\ Rank(S, Nth(S, c)) = c
  <2> TAKE c \in 1..Cardinality(S)
  <2>1. \A d \in 1..Cardinality(S) : \E p \in S : Rank(S, p) = d
    BY RankBijective
  <2>2. \E p \in S : Rank(S, p) = c
    BY <2>1
  <2>3. QED BY <2>2 DEF Nth, Rank
<1>2. ASSUME NEW p \in S PROVE Nth(S, Rank(S, p)) = p
  <2> DEFINE c == Rank(S, p)
  <2>1. c \in 1..Cardinality(S)
    BY RankBijective
  <2> HIDE DEF c
  <2>2. Nth(S, c) \in S /\ Rank(S, Nth(S, c)) = Rank(S, p)
    BY <1>1, <2>1 DEF c
  <2>3. QED BY <2>2, RankBijective DEF c
<1>3. QED BY <1>1, <1>2

\* The nodes a bucket of the new table gets from a chain.
LEMMA ArrivalsFacts ==
    ASSUME NEW chain \in Seq(Node), NEW c, NEW m, ChainPlaced(chain, c, m),
           NEW slots, NEW b
    PROVE  LET a == Arrivals(chain, slots, b)
           IN  /\ a \in Seq(Node) /\ ChainPlaced(a, b, slots)
               /\ \A n : InChain(a, n) <=>
                            InChain(chain, n) /\ HashCode[n.key] % slots = b
<1> DEFINE S == {i \in DOMAIN chain : HashCode[chain[i].key] % slots = b}
           N == Cardinality(S)
           a == [d \in 1..N |-> chain[Nth(S, N + 1 - d)]]
<1>1. Arrivals(chain, slots, b) = a
  BY DEF Arrivals
<1>2. \A i : i \in S <=> i \in 1..Len(chain) /\ HashCode[chain[i].key] % slots = b
  OBVIOUS
<1> HIDE DEF S
<1>3. IsFiniteSet(S) /\ S \subseteq Nat
  <2>1. IsFiniteSet(1..Len(chain))
    BY FS_Interval
  <2>2. S \in SUBSET (1..Len(chain)) /\ S \subseteq Nat
    BY <1>2
  <2>3. QED BY <2>1, <2>2, FS_Subset
<1>4. N \in Nat
  BY <1>3, FS_CardinalityType
<1>5. \A d \in 1..N : N + 1 - d \in 1..N
  BY <1>4
<1>6. /\ \A d \in 1..N : Nth(S, d) \in S
      /\ \A d \in 1..N : Rank(S, Nth(S, d)) = d
      /\ \A p \in S : Nth(S, Rank(S, p)) = p /\ Rank(S, p) \in 1..N
  BY <1>3, NthRank, RankBijective
<1> HIDE DEF N
<1> DEFINE e(d) == Nth(S, N + 1 - d)
<1>7. \A d \in 1..N : e(d) \in S
  BY <1>5, <1>6
<1>8. ASSUME NEW i \in 1..N, NEW j \in 1..N, e(i) = e(j) PROVE i = j
  <2>1. N + 1 - i = N + 1 - j
    BY <1>5, <1>6, <1>8
  <2>2. QED BY <1>4, <2>1
<1>9. \A p \in S : \E d \in 1..N : e(d) = p
  <2> TAKE p \in S
  <2> DEFINE d == N + 1 - Rank(S, p)
  <2>1. Rank(S, p) \in 1..N /\ Nth(S, Rank(S, p)) = p
    BY <1>6
  <2>2. d \in 1..N /\ N + 1 - d = Rank(S, p)
    BY <1>4, <2>1
  <2> HIDE DEF d
  <2>3. e(d) = p
    BY <2>1, <2>2
  <2>4. QED BY <2>2, <2>3
<1>10. a = [d \in 1..N |-> chain[e(d)]]
  OBVIOUS
<1> HIDE DEF a, e
<1>11. \A d \in 1..N : chain[e(d)] \in Node
  BY <1>2, <1>7
<1>12. a \in Seq(Node) /\ Len(a) = N /\ \A d \in 1..N : a[d] = chain[e(d)]
  BY <1>4, <1>10, <1>11
<1>13. ChainPlaced(a, b, slots)
  <2>1. \A d \in 1..Len(a) : HashCode[a[d].key] % slots = b
    BY <1>2, <1>7, <1>12
  <2>2. ASSUME NEW i \in 1..Len(a), NEW j \in 1..Len(a), a[i].key = a[j].key
        PROVE  i = j
    <3>1. e(i) \in 1..Len(chain) /\ e(j) \in 1..Len(chain)
      BY <1>2, <1>7, <1>12
    <3>2. e(i) = e(j)
      BY <1>12, <2>2, <3>1 DEF ChainPlaced
    <3>3. QED BY <1>8, <1>12, <3>2
  <2>3. QED BY <2>1, <2>2 DEF ChainPlaced
<1>14. \A n : InChain(a, n) <=> InChain(chain, n) /\ HashCode[n.key] % slots = b
  <2> TAKE n
  <2>1. InChain(a, n) => InChain(chain, n) /\ HashCode[n.key] % slots = b
    BY <1>2, <1>7, <1>12 DEF InChain
  <2>2. InChain(chain, n) /\ HashCode[n.key] % slots = b => InChain(a, n)
    BY <1>2, <1>9, <1>12 DEF InChain
  <2>3. QED BY <2>1, <2>2
<1>15. QED BY <1>1, <1>12, <1>13, <1>14

\* Two chains of one bucket without a common key.
LEMMA ChainsJoined ==
    ASSUME NEW p \in Seq(Node), NEW q \in Seq(Node), NEW b, NEW n,
           ChainPlaced(p, b, n), ChainPlaced(q, b, n),
           \A x, y : InChain(p, x) /\ InChain(q, y) => x.key # y.key
    PROVE  /\ p \o q \in Seq(Node) /\ ChainPlaced(p \o q, b, n)
           /\ \A x : InChain(p \o q, x) <=> InChain(p, x) \/ InChain(q, x)
<1> DEFINE r == p \o q
<1>1. /\ r \in Seq(Node) /\ Len(r) = Len(p) + Len(q)
      /\ \A i \in 1..Len(p) + Len(q) :
            r[i] = IF i <= Len(p) THEN p[i] ELSE q[i - Len(p)]
  BY ConcatProperties
<1>2. Len(p) \in Nat /\ Len(q) \in Nat
  OBVIOUS
<1> HIDE DEF r
<1>3. \A i \in 1..Len(r) : i <= Len(p) => i \in 1..Len(p) /\ r[i] = p[i]
  BY <1>1, <1>2
<1>4. \A i \in 1..Len(r) : ~(i <= Len(p)) =>
         i - Len(p) \in 1..Len(q) /\ r[i] = q[i - Len(p)]
  BY <1>1, <1>2
<1>5. \A i \in 1..Len(p) : i \in 1..Len(r) /\ r[i] = p[i]
  BY <1>1, <1>2
<1>6. ASSUME NEW i \in 1..Len(q)
      PROVE  i + Len(p) \in 1..Len(r) /\ r[i + Len(p)] = q[i]
  <2>1. i + Len(p) \in 1..Len(r) /\ ~(i + Len(p) <= Len(p))
        /\ (i + Len(p)) - Len(p) = i
    BY <1>1, <1>2
  <2>2. QED BY <1>4, <2>1
<1>7. \A x : InChain(r, x) <=> InChain(p, x) \/ InChain(q, x)
  <2> TAKE x
  <2>1. InChain(r, x) => InChain(p, x) \/ InChain(q, x)
    BY <1>3, <1>4 DEF InChain
  <2>2. InChain(p, x) => InChain(r, x)
    BY <1>5 DEF InChain
  <2>3. InChain(q, x) => InChain(r, x)
    BY <1>6 DEF InChain
  <2>4. QED BY <2>1, <2>2, <2>3
<1>8. ChainPlaced(r, b, n)
  <2>1. ASSUME NEW i \in 1..Len(r) PROVE HashCode[r[i].key] % n = b
    <3>1. CASE i <= Len(p)
      BY <1>3, <3>1 DEF ChainPlaced
    <3>2. CASE ~(i <= Len(p))
      <4> DEFINE j == i - Len(p)
      <4>1. j \in 1..Len(q) /\ r[i] = q[j]
        BY <1>4, <3>2
      <4> HIDE DEF j
      <4>2. QED BY <4>1 DEF ChainPlaced
    <3>3. QED BY <3>1, <3>2
  <2>2. ASSUME NEW i \in 1..Len(r), NEW j \in 1..Len(r), r[i].key = r[j].key
        PROVE  i = j
    <3>1. CASE i <= Len(p) /\ j <= Len(p)
      BY <1>3, <2>2, <3>1 DEF ChainPlaced
    <3>2. CASE i <= Len(p) /\ ~(j <= Len(p))
      BY <1>3, <1>4, <2>2, <3>2 DEF InChain
    <3>3. CASE ~(i <= Len(p)) /\ j <= Len(p)
      BY <1>3, <1>4, <2>2, <3>3 DEF InChain
    <3>4. CASE ~(i <= Len(p)) /\ ~(j <= Len(p))
      <4>1. i - Len(p) = j - Len(p)
        BY <1>4, <2>2, <3>4 DEF ChainPlaced
      <4>2. QED BY <1>2, <4>1
    <3>5. QED BY <3>1, <3>2, <3>3, <3>4
  <2>3. QED BY <2>1, <2>2 DEF ChainPlaced
<1>9. QED BY <1>1, <1>7, <1>8 DEF r

Gone(h, stop, b) == h.rehash_index <= b /\ b < stop

LeavingOf(h, stop, b) == IF Gone(h, stop, b) THEN h.tables[0].buckets[b] ELSE <<>>

\* The fields after buckets were moved.
LEMMA MovedTables ==
    ASSUME NEW h, Shaped(h), NEW stop \in Nat
    PROVE  LET m == Moved(h, stop)
               old == h.tables[0]
               new == h.tables[1]
           IN  /\ Shaped(m) /\ m.count = h.count /\ m.rehash_index = stop
               /\ m.tables[0].slots = old.slots /\ m.tables[1].slots = new.slots
               /\ m.tables[0].buckets =
                     [b \in 0..old.slots - 1 |->
                         IF Gone(h, stop, b) THEN <<>> ELSE old.buckets[b]]
               /\ m.tables[1].buckets =
                     [c \in 0..new.slots - 1 |->
                         Arrivals(LeavingOf(h, stop, c % old.slots), new.slots, c)
                            \o new.buckets[c]]
<1> DEFINE m == Moved(h, stop)
           old == h.tables[0]
           new == h.tables[1]
           A == [b \in 0..old.slots - 1 |->
                       IF Gone(h, stop, b) THEN <<>> ELSE old.buckets[b]]
           B == [c \in 0..new.slots - 1 |->
                       Arrivals(LeavingOf(h, stop, c % old.slots), new.slots, c)
                          \o new.buckets[c]]
           ts == [h.tables EXCEPT ![0] = [h.tables[0] EXCEPT !.buckets = A]]
           us == [ts EXCEPT ![1] = [ts[1] EXCEPT !.buckets = B]]
<1>1. m = [h EXCEPT !.tables[0].buckets = A, !.tables[1].buckets = B,
                    !.rehash_index = stop]
  BY DEF Moved, Gone, LeavingOf
<1> HIDE DEF A, B
<1>2. /\ DOMAIN m = {"tables", "count", "rehash_index"} /\ m.tables = us
      /\ m.count = h.count /\ m.rehash_index = stop
  BY <1>1 DEF Shaped
<1>3. /\ DOMAIN us = 0..1
      /\ us[0] = [h.tables[0] EXCEPT !.buckets = A]
      /\ us[1] = [h.tables[1] EXCEPT !.buckets = B]
  BY DEF Shaped
<1>4. /\ DOMAIN us[0] = {"slots", "buckets"} /\ us[0].slots = old.slots
      /\ DOMAIN us[1] = {"slots", "buckets"} /\ us[1].slots = new.slots
      /\ us[0].buckets = A /\ us[1].buckets = B
  BY <1>3 DEF Shaped
<1>5. old.slots \in Nat /\ new.slots \in Nat /\ h.count \in Int
  BY DEF Shaped
<1> HIDE DEF m, us, ts, old, new
<1>6. Shaped(m)
  <2>1. \A t \in 0..1 : t = 0 \/ t = 1
    OBVIOUS
  <2>2. \A t \in 0..1 : /\ DOMAIN m.tables[t] = {"slots", "buckets"}
                        /\ m.tables[t].slots \in Nat
    BY <1>2, <1>4, <1>5, <2>1
  <2>3. QED BY <1>2, <1>3, <1>5, <2>2 DEF Shaped
<1>7. QED BY <1>2, <1>4, <1>6 DEF m, A, B, old, new

\* The buckets up to the stop are empty then, and nothing is lost.
LEMMA MovedArranged ==
    ASSUME NEW h, Shaped(h), Roomy(h), Arranged(h), IsRehashing(h),
           NEW stop \in h.rehash_index..h.tables[0].slots
    PROVE  LET m == Moved(h, stop)
           IN  /\ Arranged(m) /\ Shaped(m) /\ m.count = h.count
               /\ m.rehash_index = stop /\ IsRehashing(m)
               /\ m.tables[0].slots = h.tables[0].slots
               /\ \A n : n \in Nodes(m) <=> n \in Nodes(h)
<1> DEFINE m == Moved(h, stop)
           T == h.tables[0]
           U == h.tables[1]
           V == m.tables[0]
           W == m.tables[1]
           s == T.slots
           N == U.slots
           A(c) == Arrivals(LeavingOf(h, stop, c % s), N, c)
<1>1. /\ s \in Nat /\ s >= 4 /\ N = 2 * s /\ N \in Nat /\ h.rehash_index \in Nat
      /\ h.rehash_index < s /\ stop \in Nat /\ stop <= s
      /\ h.rehash_index <= stop
  BY DEF Shaped, Roomy, IsRehashing
<1>2. /\ Shaped(m) /\ m.count = h.count /\ m.rehash_index = stop
      /\ V.slots = s /\ W.slots = N
      /\ V.buckets = [b \in 0..s - 1 |-> IF Gone(h, stop, b) THEN <<>> ELSE T.buckets[b]]
      /\ W.buckets = [c \in 0..N - 1 |-> A(c) \o U.buckets[c]]
  <2>1. stop \in Nat
    BY <1>1
  <2>2. QED BY <2>1, MovedTables
<1> HIDE DEF m
<1>3. /\ T.buckets \in [0..s - 1 -> Seq(Node)]
      /\ U.buckets \in [0..N - 1 -> Seq(Node)]
      /\ \A b \in 0..s - 1 : ChainPlaced(T.buckets[b], b, s)
      /\ \A c \in 0..N - 1 : ChainPlaced(U.buckets[c], c, N)
      /\ \A x, y \in Node : Has(T, x) /\ Has(U, y) => x.key # y.key
  BY <1>1 DEF Arranged, TablePlaced, Buckets
<1> HIDE DEF T, U, V, W, s, N
<1>4. \A x : Has(T, x) <=> \E b \in 0..s - 1 : InChain(T.buckets[b], x)
  BY DEF Has, InChain, s
<1>5. \A x : Has(U, x) <=> \E c \in 0..N - 1 : InChain(U.buckets[c], x)
  BY DEF Has, InChain, N
<1>6. \A x : Has(V, x) <=> \E b \in 0..s - 1 : InChain(V.buckets[b], x)
  BY <1>2 DEF Has, InChain
<1>7. \A x : Has(W, x) <=> \E c \in 0..N - 1 : InChain(W.buckets[c], x)
  BY <1>2 DEF Has, InChain
<1>8. /\ <<>> \in Seq(Node) /\ \A b, n : ChainPlaced(<<>>, b, n)
      /\ \A x : ~InChain(<<>>, x)
  BY DEF ChainPlaced, InChain
<1>9. ASSUME NEW c \in 0..N - 1
      PROVE  /\ A(c) \in Seq(Node) /\ ChainPlaced(A(c), c, N)
             /\ \A x : InChain(A(c), x) <=>
                   /\ Gone(h, stop, c % s) /\ InChain(T.buckets[c % s], x)
                   /\ HashCode[x.key] % (N) = c
             /\ c % s \in 0..s - 1
  <2> DEFINE b == c % s
             q == LeavingOf(h, stop, b)
  <2>1. b \in 0..s - 1
    BY <1>1
  <2> HIDE DEF b
  <2>2. q \in Seq(Node) /\ ChainPlaced(q, b, s)
    BY <1>3, <1>8, <2>1 DEF LeavingOf, T
  <2>3. \A x : InChain(q, x) <=> Gone(h, stop, b) /\ InChain(T.buckets[b], x)
    BY <1>8 DEF LeavingOf, T
  <2> HIDE DEF q
  <2> DEFINE a == Arrivals(q, N, c)
  <2>4. /\ a \in Seq(Node) /\ ChainPlaced(a, c, N)
        /\ \A x : InChain(a, x) <=> InChain(q, x) /\ HashCode[x.key] % (N) = c
    BY <2>2, ArrivalsFacts
  <2>5. A(c) = a
    BY DEF q, b
  <2> HIDE DEF a, A
  <2>6. QED BY <2>1, <2>3, <2>4, <2>5 DEF b
<1> HIDE DEF A
<1>10. \A b \in 0..s - 1 : \A x : InChain(T.buckets[b], x) => Has(T, x) /\ x \in Node
  <2> TAKE b \in 0..s - 1
  <2> TAKE x
  <2> HAVE InChain(T.buckets[b], x)
  <2>1. T.buckets[b] \in Seq(Node)
    BY <1>3
  <2>2. QED BY <1>4, <2>1 DEF InChain
<1>11. \A c \in 0..N - 1 : \A x : InChain(U.buckets[c], x) => Has(U, x) /\ x \in Node
  <2> TAKE c \in 0..N - 1
  <2> TAKE x
  <2> HAVE InChain(U.buckets[c], x)
  <2>1. U.buckets[c] \in Seq(Node)
    BY <1>3
  <2>2. QED BY <1>5, <2>1 DEF InChain
<1>12. ASSUME NEW c \in 0..N - 1
       PROVE  /\ W.buckets[c] \in Seq(Node) /\ ChainPlaced(W.buckets[c], c, N)
              /\ \A x : InChain(W.buckets[c], x) <=>
                          InChain(A(c), x) \/ InChain(U.buckets[c], x)
  <2>1. \A x, y : InChain(A(c), x) /\ InChain(U.buckets[c], y) => x.key # y.key
    BY <1>3, <1>9, <1>10, <1>11
  <2>2. W.buckets[c] = A(c) \o U.buckets[c]
    BY <1>2
  <2>3. U.buckets[c] \in Seq(Node) /\ ChainPlaced(U.buckets[c], c, N)
    BY <1>3
  <2>4. QED BY <1>9, <2>1, <2>2, <2>3, ChainsJoined
<1>13. /\ \A b \in 0..s - 1 : V.buckets[b] =
             IF Gone(h, stop, b) THEN <<>> ELSE T.buckets[b]
       /\ DOMAIN V.buckets = 0..s - 1 /\ DOMAIN W.buckets = 0..N - 1
       /\ V.buckets = [b \in 0..s - 1 |-> V.buckets[b]]
       /\ W.buckets = [b \in 0..N - 1 |-> W.buckets[b]]
  BY <1>2
<1>14. TablePlaced(V)
  <2>1. \A b \in 0..s - 1 : V.buckets[b] \in Seq(Node) /\ ChainPlaced(V.buckets[b], b, s)
    BY <1>3, <1>8, <1>13
  <2>2. QED BY <1>2, <1>13, <2>1 DEF TablePlaced, Buckets
<1>15. TablePlaced(W)
  BY <1>2, <1>12, <1>13 DEF TablePlaced, Buckets
<1>16. ASSUME NEW x \in Node
       PROVE  LET b == HashCode[x.key] % s
              IN  /\ Has(V, x) <=> Has(T, x) /\ ~Gone(h, stop, b)
                  /\ Has(W, x) <=> Has(U, x) \/ (Has(T, x) /\ Gone(h, stop, b))
  <2> DEFINE b == HashCode[x.key] % s
             c == HashCode[x.key] % N
  <2>1. HashCode[x.key] \in Nat
    BY HashCodeAssumption DEF Node
  <2>2. b \in 0..s - 1 /\ c \in 0..N - 1 /\ c % s = b
    <3> DEFINE code == HashCode[x.key]
    <3>1. code \in Nat /\ s > 0 /\ N > 0
      BY <1>1, <2>1
    <3> HIDE DEF code
    <3>2. code % s \in 0..s - 1 /\ code % N \in 0..N - 1
      BY <1>1, <3>1
    <3>3. (code % (2 * s)) % s = code % s
      BY <1>1, <3>1, HalfRemainder
    <3>4. QED BY <1>1, <3>2, <3>3 DEF code
  <2>3. Has(T, x) <=> InChain(T.buckets[b], x)
    <3>1. \A d \in 0..s - 1 : InChain(T.buckets[d], x) => d = b
      BY <1>3 DEF InChain, ChainPlaced
    <3> HIDE DEF b
    <3>2. QED BY <1>4, <2>2, <3>1
  <2>4. Has(V, x) <=> Has(T, x) /\ ~Gone(h, stop, b)
    <3>1. \A d \in 0..s - 1 : InChain(V.buckets[d], x) <=>
                              InChain(T.buckets[d], x) /\ ~Gone(h, stop, d)
      BY <1>8, <1>13
    <3>2. \A d \in 0..s - 1 : InChain(T.buckets[d], x) => d = b
      BY <1>3 DEF InChain, ChainPlaced
    <3>3. QED BY <1>6, <2>2, <2>3, <3>1, <3>2
  <2>5. \A d \in 0..N - 1 : InChain(A(d), x) <=>
              d = c /\ Gone(h, stop, b) /\ InChain(T.buckets[b], x)
    BY <1>9, <2>2
  <2>6. Has(W, x) <=> Has(U, x) \/ (Has(T, x) /\ Gone(h, stop, b))
    <3> HIDE DEF b, c
    <3>1. QED BY <1>5, <1>7, <1>12, <2>2, <2>3, <2>5
  <2>7. QED BY <2>4, <2>6
<1>17. \A x : (Has(T, x) \/ Has(U, x) => x \in Node)
             /\ (Has(V, x) \/ Has(W, x) => x \in Node)
  <2>1. TablePlaced(T) /\ TablePlaced(U) /\ T.slots \in Nat /\ U.slots \in Nat
        /\ V.slots \in Nat /\ W.slots \in Nat
    BY <1>1, <1>2 DEF Arranged, T, U, s, N
  <2>2. QED BY <1>14, <1>15, <2>1, HasFacts
<1>18. \A n : n \in Nodes(m) <=> n \in Nodes(h)
  <2>1. \A n : n \in Nodes(h) <=> Has(T, n) \/ Has(U, n)
    BY NodesFacts DEF Arranged, T, U
  <2>2. \A n : n \in Nodes(m) <=> Has(V, n) \/ Has(W, n)
    BY <1>2, <1>14, <1>15, NodesFacts DEF V, W
  <2>3. QED BY <1>16, <1>17, <2>1, <2>2
<1>19. \A x, y \in Node : Has(V, x) /\ Has(W, y) => x.key # y.key
  <2> SUFFICES ASSUME NEW x \in Node, NEW y \in Node, Has(V, x), Has(W, y),
                      x.key = y.key
               PROVE  FALSE
    OBVIOUS
  <2>1. Has(T, x) /\ ~Gone(h, stop, HashCode[x.key] % s)
    BY <1>16
  <2>2. ~Has(U, y)
    BY <1>3, <2>1
  <2>3. QED BY <1>16, <2>1, <2>2
<1>20. ASSUME NEW b \in 0..stop - 1 PROVE V.buckets[b] = <<>>
  <2>1. b \in 0..s - 1 /\ (b \in 0..h.rehash_index - 1 \/ Gone(h, stop, b))
    BY <1>1 DEF Gone
  <2>2. b \in 0..h.rehash_index - 1 => T.buckets[b] = <<>>
    BY DEF Arranged, T
  <2>3. QED BY <1>13, <2>1, <2>2
<1>21. IsRehashing(m)
  BY <1>1, <1>2, SentinelAssumption DEF IsRehashing
<1>22. Arranged(m)
  BY <1>2, <1>14, <1>15, <1>19, <1>20, <1>21 DEF Arranged, V, W
<1>23. QED BY <1>2, <1>18, <1>21, <1>22 DEF m, V, T, s

\* All buckets are moved: the tables change places, or nothing happens.
LEMMA SwappedArranged ==
    ASSUME NEW h, Shaped(h), Arranged(h), IsRehashing(h)
    PROVE  /\ Arranged(Swapped(h))
           /\ \A n : n \in Nodes(Swapped(h)) <=> n \in Nodes(h)
<1> DEFINE ws == [t \in 0..1 |-> IF t = 0 THEN h.tables[1] ELSE NoTable]
           g == [h EXCEPT !.tables = ws, !.rehash_index = RehashNone]
<1>1. CASE h.rehash_index # h.tables[0].slots
  BY <1>1 DEF Swapped
<1>2. CASE h.rehash_index = h.tables[0].slots
  <2>1. Swapped(h) = g
    BY <1>2 DEF Swapped
  <2>2. ws[0] = h.tables[1] /\ ws[1] = NoTable /\ DOMAIN ws = 0..1
    OBVIOUS
  <2> HIDE DEF ws
  <2>3. /\ g.tables = ws /\ g.rehash_index = RehashNone /\ g.count = h.count
        /\ DOMAIN g = {"tables", "count", "rehash_index"}
    BY DEF Shaped
  <2> HIDE DEF g
  <2>4. /\ g.tables[0] = h.tables[1] /\ g.tables[1] = NoTable /\ ~IsRehashing(g)
        /\ NoTable.slots = 0 /\ NoTable.buckets = <<>>
        /\ DOMAIN NoTable = {"slots", "buckets"}
    BY <2>2, <2>3 DEF IsRehashing, NoTable
  <2>5. TablePlaced(NoTable) /\ \A n : ~Has(NoTable, n)
    <3>1. <<>> \in [0..0 - 1 -> Seq(Node)]
      OBVIOUS
    <3>2. QED BY <2>4, <3>1 DEF TablePlaced, Buckets, Has
  <2>6. TablePlaced(g.tables[0]) /\ TablePlaced(g.tables[1])
    BY <2>4, <2>5 DEF Arranged
  <2>7. Arranged(g)
    BY <2>4, <2>5, <2>6 DEF Arranged
  <2>8. \A n : ~Has(h.tables[0], n)
    BY <1>2 DEF Arranged, Has
  <2>9. Shaped(g)
    <3>1. \A t \in 0..1 : t = 0 \/ t = 1
      OBVIOUS
    <3>2. \A t \in 0..1 : /\ DOMAIN g.tables[t] = {"slots", "buckets"}
                          /\ g.tables[t].slots \in Nat
      BY <2>4, <3>1 DEF Shaped
    <3>3. QED BY <2>2, <2>3, <3>2 DEF Shaped
  <2>10. \A n : n \in Nodes(g) <=> n \in Nodes(h)
    <3>1. \A n : n \in Nodes(h) <=> Has(h.tables[0], n) \/ Has(h.tables[1], n)
      BY NodesFacts DEF Arranged
    <3>2. \A n : n \in Nodes(g) <=> Has(g.tables[0], n) \/ Has(g.tables[1], n)
      BY <2>6, <2>9, NodesFacts
    <3>3. QED BY <2>4, <2>5, <2>8, <3>1, <3>2
  <2>11. QED BY <2>1, <2>7, <2>10
<1>3. QED BY <1>1, <1>2

\* The nodes are the same.
SameNodes(g, h) == \A n : n \in Nodes(g) <=> n \in Nodes(h)

\* What depends on the nodes alone.
LEMMA SameCounted ==
    ASSUME NEW g, NEW h, SameNodes(g, h)
    PROVE  /\ Nodes(g) = Nodes(h) /\ KeysHeld(g) = KeysHeld(h)
           /\ g.count = h.count /\ Counted(h) => Counted(g)
<1>1. Nodes(g) = Nodes(h)
  BY DEF SameNodes
<1>2. KeysHeld(g) = KeysHeld(h)
  BY <1>1 DEF KeysHeld
<1>3. QED BY <1>1, <1>2 DEF Counted

\* kv_hash_rehash_step changes no node.
LEMMA StepSound ==
    ASSUME NEW h, Sound(h), NEW budget \in Nat
    PROVE  LET g == RehashStep(h, budget)
           IN  /\ Sound(g) /\ SameNodes(g, h)
               /\ budget > 0 /\ IsRehashing(g) =>
                    g.count < g.tables[0].slots + g.rehash_index
<1> DEFINE g == RehashStep(h, budget)
<1>1. /\ Shaped(g) /\ Roomy(g) /\ g.count = h.count
      /\ budget > 0 /\ IsRehashing(g) =>
           g.count < g.tables[0].slots + g.rehash_index
  BY StepRoomy DEF Sound
<1>2. Arranged(g) /\ SameNodes(g, h)
  <2>1. CASE ~IsRehashing(h)
    BY <2>1 DEF RehashStep, Sound, SameNodes
  <2>2. CASE IsRehashing(h)
    <3> DEFINE stop == StopsAt(h, budget)
               m == Moved(h, stop)
    <3>1. g = Swapped(m)
      BY <2>2 DEF RehashStep
    <3>2. h.rehash_index < h.tables[0].slots
      BY <2>2 DEF Sound, Roomy
    <3>3. stop \in h.rehash_index..h.tables[0].slots
      BY <2>2, <3>2, StopsAhead DEF Sound
    <3> HIDE DEF stop
    <3>4. /\ Arranged(m) /\ Shaped(m) /\ IsRehashing(m)
          /\ \A n : n \in Nodes(m) <=> n \in Nodes(h)
      BY <2>2, <3>3, MovedArranged DEF Sound
    <3> HIDE DEF m
    <3>5. Arranged(Swapped(m)) /\ \A n : n \in Nodes(Swapped(m)) <=> n \in Nodes(m)
      BY <3>4, SwappedArranged
    <3>6. QED BY <3>1, <3>4, <3>5 DEF SameNodes
  <2>3. QED BY <2>1, <2>2
<1> HIDE DEF g
<1>3. Counted(g)
  BY <1>1, <1>2, SameCounted DEF Sound
<1>4. QED BY <1>1, <1>2, <1>3 DEF Sound, g

\* Empty tables.
LEMMA EmptyTable ==
    ASSUME NEW T, T.slots \in Nat, T.buckets \in Buckets(T),
           \A b \in 0..T.slots - 1 : T.buckets[b] = <<>>
    PROVE  TablePlaced(T) /\ \A n : ~Has(T, n)
  BY DEF TablePlaced, Has, ChainPlaced

\* A table that is not there.
LEMMA NoTableEmpty ==
    TablePlaced(NoTable) /\ \A n : ~Has(NoTable, n)
<1>1. NoTable.slots = 0 /\ NoTable.buckets = <<>>
  BY DEF NoTable
<1>2. <<>> \in [0..0 - 1 -> Seq(Node)]
  OBVIOUS
<1>3. QED BY <1>1, <1>2 DEF TablePlaced, Buckets, Has

\* A table just allocated.
LEMMA AllocatedEmpty ==
    ASSUME NEW slots \in Nat
    PROVE  LET T == table_allocate(slots)
           IN  T.slots = slots /\ TablePlaced(T) /\ \A n : ~Has(T, n)
<1> DEFINE T == table_allocate(slots)
<1>1. /\ T.slots = slots /\ T.buckets \in [0..slots - 1 -> Seq(Node)]
      /\ \A b \in 0..slots - 1 : T.buckets[b] = <<>>
  BY DEF table_allocate
<1> HIDE DEF T
<1>2. TablePlaced(T) /\ \A n : ~Has(T, n)
  BY <1>1, EmptyTable DEF Buckets
<1>3. QED BY <1>1, <1>2 DEF T

\* start_expand moves nothing.
LEMMA ExpandSound ==
    ASSUME NEW h, Sound(h), MustExpand(h), CanExpand(h)
    PROVE  LET g == start_expand(h)
           IN  /\ Sound(g) /\ SameNodes(g, h) /\ IsRehashing(g)
               /\ g.count < g.tables[0].slots + g.rehash_index
<1> DEFINE g == start_expand(h)
           T == table_allocate(2 * h.tables[0].slots)
<1>1. /\ Shaped(g) /\ Roomy(g) /\ g.count = h.count /\ IsRehashing(g)
      /\ g.count < g.tables[0].slots + g.rehash_index
  BY ExpandRoomy DEF Sound
<1>2. /\ g.tables = [h.tables EXCEPT ![1] = T] /\ g.rehash_index = 0
  BY DEF start_expand, Sound, Shaped
<1>3. TablePlaced(T) /\ \A n : ~Has(T, n)
  <2>1. 2 * h.tables[0].slots \in Nat
    BY DEF Sound, Shaped
  <2>2. QED BY <2>1, AllocatedEmpty
<1> HIDE DEF g, T
<1>4. g.tables[0] = h.tables[0] /\ g.tables[1] = T
  BY <1>2 DEF Sound, Shaped
<1>5. h.tables[1] = NoTable
  BY DEF MustExpand, Sound, Arranged
<1>6. TablePlaced(g.tables[0]) /\ TablePlaced(g.tables[1])
  BY <1>3, <1>4 DEF Sound, Arranged
<1>7. Arranged(g)
  BY <1>1, <1>2, <1>3, <1>4, <1>6 DEF Arranged
<1>8. SameNodes(g, h)
  <2>1. \A n : n \in Nodes(h) <=> Has(h.tables[0], n) \/ Has(h.tables[1], n)
    BY NodesFacts DEF Sound, Arranged
  <2>2. \A n : n \in Nodes(g) <=> Has(g.tables[0], n) \/ Has(g.tables[1], n)
    BY <1>1, <1>6, NodesFacts
  <2>3. QED BY <1>3, <1>4, <1>5, <2>1, <2>2, NoTableEmpty DEF SameNodes
<1>9. Counted(g)
  BY <1>1, <1>8, SameCounted DEF Sound
<1>10. QED BY <1>1, <1>7, <1>8, <1>9 DEF Sound, g

\* Key k gets payload v; key k is gone.
Stores(g, h, k, v) ==
    \A n : n \in Nodes(g) <=>
        (n \in Nodes(h) /\ n.key # k) \/ n = [key |-> k, payload |-> v]

Removes(g, h, k) == \A n : n \in Nodes(g) <=> n \in Nodes(h) /\ n.key # k

\* A key is inserted.
LEMMA LinkedSound ==
    ASSUME NEW h, Sound(h), NEW k \in Keys, NEW v \in Values, k \notin KeysHeld(h),
           IF IsRehashing(h) THEN h.count < h.tables[0].slots + h.rehash_index
                             ELSE h.count + 1 < h.tables[0].slots
    PROVE  Sound(Linked(h, k, v)) /\ Stores(Linked(h, k, v), h, k, v)
<1> DEFINE g == Linked(h, k, v)
           node == [key |-> k, payload |-> v]
<1>1. Shaped(g) /\ Roomy(g)
  BY LinkedRoomy DEF Sound
<1>2. h.tables[0].slots > 0
  <2>1. h.tables[0].slots \in Nat /\ h.count \in Int
    BY DEF Sound, Shaped
  <2>2. h.count \in Nat
    BY FS_CardinalityType DEF Sound, Counted
  <2>3. CASE IsRehashing(h)
    BY <2>1, <2>3 DEF Sound, Roomy
  <2>4. CASE ~IsRehashing(h)
    BY <2>1, <2>2, <2>4
  <2>5. QED BY <2>3, <2>4
<1>3. Changed(g, h, k, {node}) /\ g.count = h.count + 1
  BY <1>2, LinkedChanged DEF Sound
<1>4. node.key = k
  OBVIOUS
<1> HIDE DEF g, node
<1>5. Counted(g)
  BY <1>3, <1>4, StoredCounted DEF Sound
<1>6. Stores(g, h, k, v)
  BY <1>3 DEF Changed, Stores, node
<1>7. QED BY <1>1, <1>3, <1>5, <1>6 DEF Sound, Changed, g

\* A key gets another payload.
LEMMA RepaidSound ==
    ASSUME NEW h, Sound(h), NEW k \in Keys, NEW v \in Values, Present(h, k)
    PROVE  Sound(Repaid(h, k, v)) /\ Stores(Repaid(h, k, v), h, k, v)
<1> DEFINE g == Repaid(h, k, v)
           node == [key |-> k, payload |-> v]
<1>1. Shaped(g) /\ Roomy(g)
  BY RepaidWithin, WithinRoomy DEF Sound
<1>2. Changed(g, h, k, {node}) /\ g.count = h.count
  BY RepaidChanged DEF Sound
<1>3. node.key = k /\ k \in KeysHeld(h)
  BY PresentFacts DEF Sound
<1> HIDE DEF g, node
<1>4. Counted(g)
  BY <1>2, <1>3, StoredCounted DEF Sound
<1>5. Stores(g, h, k, v)
  BY <1>2 DEF Changed, Stores, node
<1>6. QED BY <1>1, <1>2, <1>4, <1>5 DEF Sound, Changed, g

\* A key is removed.
LEMMA RemovedSound ==
    ASSUME NEW h, Sound(h), NEW k \in Keys, k \in KeysHeld(h)
    PROVE  Sound(remove_target(h, k)) /\ Removes(remove_target(h, k), h, k)
<1> DEFINE g == remove_target(h, k)
<1>1. Shaped(g) /\ Roomy(g)
  BY RemovedWithin, WithinRoomy DEF Sound
<1>2. Changed(g, h, k, {}) /\ g.count = h.count - 1
  BY RemovedChanged DEF Sound
<1> HIDE DEF g
<1>3. Counted(g)
  BY <1>2, RemovedCounted DEF Sound
<1>4. Removes(g, h, k)
  BY <1>2 DEF Changed, Removes
<1>5. QED BY <1>1, <1>2, <1>3, <1>4 DEF Sound, Changed, g

\* kv_hash_insert: it stores the node or changes no node.
LEMMA InsertionsSound ==
    ASSUME NEW h, Sound(h), NEW k \in Keys, NEW v \in Values, k \notin KeysHeld(h),
           IsRehashing(h) => h.count < h.tables[0].slots + h.rehash_index,
           NEW done \in Insertions(h, k, v)
    PROVE  /\ Sound(done.after)
           /\ \/ done.answer = "error" /\ SameNodes(done.after, h)
              \/ done.answer = "ok" /\ Stores(done.after, h, k, v)
<1>1. CASE MustExpand(h)
  <2> DEFINE g == start_expand(h)
  <2>1. CASE CanExpand(h)
    <3>1. /\ Sound(g) /\ SameNodes(g, h) /\ IsRehashing(g)
          /\ g.count < g.tables[0].slots + g.rehash_index
      BY <1>1, <2>1, ExpandSound
    <3>2. \/ done.after \in {h, g} /\ done.answer = "error"
          \/ done.after = Linked(g, k, v) /\ done.answer = "ok"
      BY <1>1, <2>1 DEF Insertions
    <3> HIDE DEF g
    <3>3. k \notin KeysHeld(g)
      BY <3>1, SameCounted
    <3>4. Sound(Linked(g, k, v)) /\ Stores(Linked(g, k, v), g, k, v)
      BY <3>1, <3>3, LinkedSound
    <3>5. Stores(Linked(g, k, v), h, k, v)
      BY <3>1, <3>4 DEF Stores, SameNodes
    <3>6. SameNodes(h, h)
      BY DEF SameNodes
    <3>7. QED BY <3>1, <3>2, <3>4, <3>5, <3>6
  <2>2. CASE ~CanExpand(h)
    <3>1. done.after = h /\ done.answer = "error"
      BY <1>1, <2>2 DEF Insertions
    <3>2. QED BY <3>1 DEF SameNodes
  <2>3. QED BY <2>1, <2>2
<1>2. CASE ~MustExpand(h)
  <2>1. \/ done.after = h /\ done.answer = "error"
        \/ done.after = Linked(h, k, v) /\ done.answer = "ok"
    BY <1>2 DEF Insertions
  <2>2. IF IsRehashing(h) THEN h.count < h.tables[0].slots + h.rehash_index
                          ELSE h.count + 1 < h.tables[0].slots
    <3> DEFINE n == h.tables[0].slots
    <3>1. n \in Nat /\ h.count \in Int
      BY DEF Sound, Shaped
    <3>2. ~IsRehashing(h) => h.count + 1 <= n - n \div 4
      BY <1>2, <3>1 DEF MustExpand
    <3>3. ~IsRehashing(h) => n >= 4
      <4>1. Roomy(h)
        BY DEF Sound
      <4>2. QED BY <3>1, <3>2, <4>1 DEF Roomy
    <3>4. n >= 4 => n - n \div 4 < n
      BY <3>1
    <3>5. QED BY <3>1, <3>2, <3>3, <3>4
  <2>3. Sound(Linked(h, k, v)) /\ Stores(Linked(h, k, v), h, k, v)
    BY <2>2, LinkedSound
  <2>4. SameNodes(h, h)
    BY DEF SameNodes
  <2>5. QED BY <2>1, <2>3, <2>4
<1>3. QED BY <1>1, <1>2

\* A table without nodes.
LEMMA NoNodesSound ==
    ASSUME NEW h, Shaped(h), Roomy(h), h.count = 0, ~IsRehashing(h),
           h.tables[1] = NoTable, TablePlaced(h.tables[0]), \A n : ~Has(h.tables[0], n)
    PROVE  Sound(h) /\ \A n : n \notin Nodes(h)
<1>1. Arranged(h)
  BY NoTableEmpty DEF Arranged
<1>2. \A n : n \notin Nodes(h)
  BY NodesFacts, NoTableEmpty
<1>3. KeysHeld(h) = {}
  BY <1>2 DEF KeysHeld
<1>4. Counted(h)
  BY <1>3, FS_EmptySet DEF Counted
<1>5. QED BY <1>1, <1>2, <1>4 DEF Sound

\* hash_init.
LEMMA InitSound == Sound(hash_init) /\ \A n : n \notin Nodes(hash_init)
<1>1. /\ hash_init.count = 0 /\ hash_init.rehash_index = RehashNone
      /\ hash_init.tables[0] = table_allocate(InitialSlots)
      /\ hash_init.tables[1] = NoTable
  BY DEF hash_init
<1>2. TablePlaced(hash_init.tables[0]) /\ \A n : ~Has(hash_init.tables[0], n)
  BY <1>1, AllocatedEmpty, SlotsAssumption
<1>3. ~IsRehashing(hash_init)
  BY <1>1 DEF IsRehashing
<1>4. QED BY <1>1, <1>2, <1>3, InitRoomy, NoNodesSound

\* hash_clear.
LEMMA ClearSound ==
    LET h == [tables |-> [t \in 0..1 |-> NoTable], count |-> 0,
              rehash_index |-> RehashNone]
    IN  Sound(h) /\ \A n : n \notin Nodes(h)
<1> DEFINE h == [tables |-> [t \in 0..1 |-> NoTable], count |-> 0,
                 rehash_index |-> RehashNone]
<1>1. DOMAIN NoTable = {"slots", "buckets"} /\ NoTable.slots = 0
  BY DEF NoTable
<1>2. /\ DOMAIN h = {"tables", "count", "rehash_index"}
      /\ h.tables = [t \in 0..1 |-> NoTable] /\ h.count = 0
      /\ h.rehash_index = RehashNone
  OBVIOUS
<1> HIDE DEF h
<1>3. h.tables[0] = NoTable /\ h.tables[1] = NoTable
  BY <1>2
<1>4. Shaped(h) /\ ~IsRehashing(h)
  BY <1>1, <1>2 DEF Shaped, IsRehashing
<1>5. Roomy(h)
  BY <1>1, <1>2, <1>3, <1>4 DEF Roomy
<1>6. Sound(h) /\ \A n : n \notin Nodes(h)
  BY <1>2, <1>3, <1>4, <1>5, NoTableEmpty, NoNodesSound
<1>7. QED BY <1>6 DEF h

\* set_bytes: what is stored, and what is answered.
LEMMA SetSound ==
    ASSUME Sound(hash), NEW k \in Keys, NEW op \in {"set", "upsert"}, set_bytes(op, k)
    PROVE  /\ Sound(hash')
           /\ \/ /\ Answers(op, k, "exists") /\ k \in KeysHeld(hash) /\ op = "set"
                 /\ SameNodes(hash', hash)
              \/ /\ Answers(op, k, "error") /\ (op = "set" => k \notin KeysHeld(hash))
                 /\ SameNodes(hash', hash)
              \/ /\ Answers(op, k, "ok") /\ (op = "set" => k \notin KeysHeld(hash))
                 /\ \E v \in Values : Stores(hash', hash, k, v)
<1> DEFINE h == RehashStep(hash, 1)
<1>1. /\ Sound(h) /\ SameNodes(h, hash)
      /\ IsRehashing(h) => h.count < h.tables[0].slots + h.rehash_index
  BY StepSound
<1>2. \/ Present(h, k) /\ op = "set" /\ Answers(op, k, "exists") /\ hash' = h
      \/ ~(Present(h, k) /\ op = "set") /\ Answers(op, k, "error") /\ hash' = h
      \/ \E v \in Values : /\ Present(h, k) /\ op # "set"
                           /\ Answers(op, k, "ok") /\ hash' = Repaid(h, k, v)
      \/ \E v \in Values : /\ ~Present(h, k)
                           /\ \E done \in Insertions(h, k, v) :
                                 Answers(op, k, done.answer) /\ hash' = done.after
  BY DEF set_bytes
<1> HIDE DEF h
<1>3. /\ Present(h, k) <=> k \in KeysHeld(hash)
      /\ KeysHeld(h) = KeysHeld(hash)
  BY <1>1, PresentFacts, SameCounted DEF Sound
<1>4. \A g, v : Stores(g, h, k, v) => Stores(g, hash, k, v)
  BY <1>1 DEF Stores, SameNodes
<1>5. \A g : SameNodes(g, h) => SameNodes(g, hash)
  BY <1>1 DEF SameNodes
<1>6. ASSUME NEW v \in Values, Present(h, k), op # "set", Answers(op, k, "ok"),
             hash' = Repaid(h, k, v)
      PROVE  Sound(hash') /\ Stores(hash', hash, k, v)
  BY <1>1, <1>4, <1>6, RepaidSound
<1>7. ASSUME NEW v \in Values, ~Present(h, k), NEW done \in Insertions(h, k, v),
             Answers(op, k, done.answer), hash' = done.after
      PROVE  /\ Sound(hash') /\ k \notin KeysHeld(hash)
             /\ \/ Answers(op, k, "error") /\ SameNodes(hash', hash)
                \/ Answers(op, k, "ok") /\ Stores(hash', hash, k, v)
  <2>1. k \notin KeysHeld(h) /\ k \notin KeysHeld(hash)
    BY <1>3, <1>7
  <2>2. /\ Sound(done.after)
        /\ \/ done.answer = "error" /\ SameNodes(done.after, h)
           \/ done.answer = "ok" /\ Stores(done.after, h, k, v)
    BY <1>1, <1>7, <2>1, InsertionsSound
  <2>3. CASE done.answer = "error" /\ SameNodes(done.after, h)
    BY <1>5, <1>7, <2>1, <2>2, <2>3
  <2>4. CASE done.answer = "ok" /\ Stores(done.after, h, k, v)
    BY <1>4, <1>7, <2>1, <2>2, <2>4
  <2>5. QED BY <2>2, <2>3, <2>4
<1>8. QED BY <1>1, <1>2, <1>3, <1>6, <1>7

\* The other operations of the callers.
LEMMA DeleteSound ==
    ASSUME Sound(hash), NEW k \in Keys, kvs_hash_delete(k)
    PROVE  /\ Sound(hash')
           /\ Answers("delete", k, IF k \in KeysHeld(hash) THEN "ok" ELSE "missing")
           /\ Removes(hash', hash, k)
<1>1. Present(hash, k) <=> k \in KeysHeld(hash)
  BY PresentFacts DEF Sound
<1>2. /\ Answers("delete", k, IF k \in KeysHeld(hash) THEN "ok" ELSE "missing")
      /\ hash' = IF k \in KeysHeld(hash) THEN remove_target(hash, k) ELSE hash
  BY <1>1 DEF kvs_hash_delete
<1>3. CASE k \in KeysHeld(hash)
  BY <1>2, <1>3, RemovedSound
<1>4. CASE k \notin KeysHeld(hash)
  <2>1. \A n \in Nodes(hash) : n.key # k
    BY <1>4 DEF KeysHeld
  <2>2. QED BY <1>2, <1>4, <2>1 DEF Removes
<1>5. QED BY <1>3, <1>4

\* kvs_hash_modify replaces a payload or changes no node.
LEMMA ModifySound ==
    ASSUME Sound(hash), NEW k \in Keys, kvs_hash_modify(k)
    PROVE  /\ Sound(hash')
           /\ \/ Answers("modify", k, "error") /\ SameNodes(hash', hash)
              \/ /\ Answers("modify", k, "ok") /\ k \in KeysHeld(hash)
                 /\ \E v \in Values : Stores(hash', hash, k, v)
<1>1. Present(hash, k) <=> k \in KeysHeld(hash)
  BY PresentFacts DEF Sound
<1>2. \/ Answers("modify", k, "error") /\ hash' = hash
      \/ /\ Present(hash, k) /\ Answers("modify", k, "ok")
         /\ \E v \in Values : hash' = Repaid(hash, k, v)
  BY DEF kvs_hash_modify
<1>3. CASE Answers("modify", k, "error") /\ hash' = hash
  BY <1>3 DEF SameNodes
<1>4. CASE /\ Present(hash, k) /\ Answers("modify", k, "ok")
           /\ \E v \in Values : hash' = Repaid(hash, k, v)
  BY <1>1, <1>4, RepaidSound
<1>5. QED BY <1>2, <1>3, <1>4

-----------------------------------------------------------------------------
(* Places *)

IsPlace(h, t, b, j) ==
    /\ t \in 0..1 /\ b \in 0..h.tables[t].slots - 1
    /\ j \in 1..Len(h.tables[t].buckets[b])

KeyIn(h, t, b, j) == h.tables[t].buckets[b][j].key

\* A place holds a node of the chain of its key.
LEMMA PlaceFacts ==
    ASSUME NEW h, Shaped(h), Arranged(h), NEW t, NEW b, NEW j, IsPlace(h, t, b, j)
    PROVE  /\ h.tables[t].slots \in Nat /\ TablePlaced(h.tables[t])
           /\ h.tables[t].buckets[b] \in Seq(Node)
           /\ Has(h.tables[t], h.tables[t].buckets[b][j])
           /\ KeyIn(h, t, b, j) \in Keys /\ KeyIn(h, t, b, j) \in KeysHeld(h)
           /\ HashCode[KeyIn(h, t, b, j)] % h.tables[t].slots = b
           /\ Chain(h.tables[t], KeyIn(h, t, b, j)) = h.tables[t].buckets[b]
           /\ Holds(h.tables[t], KeyIn(h, t, b, j))
<1> DEFINE T == h.tables[t]
           n == T.buckets[b][j]
           k == KeyIn(h, t, b, j)
<1>1. t = 0 \/ t = 1
  BY DEF IsPlace
<1>2. T.slots \in Nat /\ TablePlaced(T)
  BY <1>1 DEF Shaped, Arranged
<1>3. Has(T, n)
  BY DEF IsPlace, Has
<1>4. k = n.key
  BY DEF KeyIn
<1>5. /\ T.buckets[b] \in Seq(Node) /\ ChainPlaced(T.buckets[b], b, T.slots)
  BY <1>2 DEF IsPlace, TablePlaced, Buckets
<1>6. HashCode[k] % T.slots = b
  BY <1>5 DEF IsPlace, ChainPlaced, KeyIn
<1>7. n \in Nodes(h)
  BY <1>1, <1>3, NodesFacts DEF Arranged
<1>8. k \in KeysHeld(h)
  BY <1>4, <1>7 DEF KeysHeld
<1>9. n \in Node /\ k \in Keys /\ T.slots > 0
  BY <1>2, <1>3, <1>4, HasFacts
<1>10. Chain(T, k) = T.buckets[b]
  BY <1>6, <1>9 DEF Chain
<1>11. Holds(T, k)
  BY <1>2, <1>3, <1>4, <1>9, HoldsFacts
<1>12. QED BY <1>2, <1>3, <1>5, <1>6, <1>8, <1>9, <1>10, <1>11

\* A key is in one place.
LEMMA PlaceOnce ==
    ASSUME NEW h, Shaped(h), Arranged(h), NEW t, NEW b, NEW j, IsPlace(h, t, b, j),
           NEW u, NEW c, NEW l, IsPlace(h, u, c, l), KeyIn(h, t, b, j) = KeyIn(h, u, c, l)
    PROVE  t = u /\ b = c /\ j = l
<1> DEFINE m == h.tables[t].buckets[b][j]
           n == h.tables[u].buckets[c][l]
<1>a. /\ Has(h.tables[t], m) /\ HashCode[KeyIn(h, t, b, j)] % h.tables[t].slots = b
      /\ h.tables[t].slots \in Nat /\ TablePlaced(h.tables[t])
  BY PlaceFacts
<1>b. /\ Has(h.tables[u], n) /\ HashCode[KeyIn(h, u, c, l)] % h.tables[u].slots = c
      /\ h.tables[u].slots \in Nat /\ TablePlaced(h.tables[u])
  BY PlaceFacts
<1>1. /\ Has(h.tables[t], m) /\ Has(h.tables[u], n) /\ m.key = n.key
      /\ HashCode[m.key] % h.tables[t].slots = b
      /\ HashCode[n.key] % h.tables[u].slots = c
      /\ h.tables[t].slots \in Nat /\ h.tables[u].slots \in Nat
      /\ TablePlaced(h.tables[t]) /\ TablePlaced(h.tables[u])
  BY <1>a, <1>b DEF KeyIn
<1>2. m \in Node /\ n \in Node
  BY <1>1, HasFacts
<1>3. t = u
  <2>1. t \in {0, 1} /\ u \in {0, 1}
    BY DEF IsPlace
  <2> HIDE DEF m, n
  <2>2. ~(t = 0 /\ u = 1)
    BY <1>1, <1>2 DEF Arranged
  <2>3. ~(t = 1 /\ u = 0)
    BY <1>1, <1>2 DEF Arranged
  <2>4. QED BY <2>1, <2>2, <2>3
<1>4. b = c
  BY <1>1, <1>3
<1>5. ChainPlaced(h.tables[t].buckets[b], b, h.tables[t].slots)
  BY <1>1 DEF IsPlace, TablePlaced
<1>6. j = l
  BY <1>3, <1>4, <1>5 DEF ChainPlaced, IsPlace, KeyIn
<1>7. QED BY <1>3, <1>4, <1>6

\* Every key held is in a place.
LEMMA HeldAt ==
    ASSUME NEW h, Shaped(h), Arranged(h), NEW k \in KeysHeld(h)
    PROVE  \E t, b, j : IsPlace(h, t, b, j) /\ KeyIn(h, t, b, j) = k
<1>1. PICK n \in Nodes(h) : n.key = k
  BY DEF KeysHeld
<1>2. Has(h.tables[0], n) \/ Has(h.tables[1], n)
  BY NodesFacts DEF Arranged
<1>3. PICK t \in 0..1 : Has(h.tables[t], n)
  BY <1>2
<1>4. PICK b \in 0..h.tables[t].slots - 1 :
          \E j \in 1..Len(h.tables[t].buckets[b]) : h.tables[t].buckets[b][j] = n
  BY <1>3 DEF Has
<1>5. PICK j \in 1..Len(h.tables[t].buckets[b]) : h.tables[t].buckets[b][j] = n
  BY <1>4
<1>6. IsPlace(h, t, b, j) /\ KeyIn(h, t, b, j) = k
  BY <1>1, <1>5 DEF IsPlace, KeyIn
<1>7. QED BY <1>6

\* Whether a key is still to come shows at its place.
LEMMA ComingAt ==
    ASSUME NEW h, Shaped(h), Arranged(h), NEW t, NEW b, NEW j, IsPlace(h, t, b, j),
           NEW i
    PROVE  KeyIn(h, t, b, j) \in Coming(h, i) <=> Later(h, i, t, b, j)
<1>1. ASSUME Later(h, i, t, b, j) PROVE KeyIn(h, t, b, j) \in Coming(h, i)
  <2>1. KeyIn(h, t, b, j) \in KeysHeld(h)
    BY PlaceFacts
  <2>2. QED BY <1>1, <2>1 DEF Coming, IsPlace, KeyIn
<1>2. ASSUME KeyIn(h, t, b, j) \in Coming(h, i) PROVE Later(h, i, t, b, j)
  <2>1. PICK u \in 0..1 : \E c \in 0..h.tables[u].slots - 1 :
          \E l \in 1..Len(h.tables[u].buckets[c]) :
              h.tables[u].buckets[c][l].key = KeyIn(h, t, b, j) /\ Later(h, i, u, c, l)
    BY <1>2 DEF Coming
  <2>2. PICK c \in 0..h.tables[u].slots - 1 :
          \E l \in 1..Len(h.tables[u].buckets[c]) :
              h.tables[u].buckets[c][l].key = KeyIn(h, t, b, j) /\ Later(h, i, u, c, l)
    BY <2>1
  <2>3. PICK l \in 1..Len(h.tables[u].buckets[c]) :
           h.tables[u].buckets[c][l].key = KeyIn(h, t, b, j) /\ Later(h, i, u, c, l)
    BY <2>2
  <2>4. IsPlace(h, u, c, l) /\ KeyIn(h, t, b, j) = KeyIn(h, u, c, l)
    BY <2>3 DEF IsPlace, KeyIn
  <2>5. t = u /\ b = c /\ j = l
    BY <2>4, PlaceOnce
  <2>6. QED BY <2>3, <2>5
<1>3. QED BY <1>1, <1>2

\* The node in a place is the one that is found for its key.
LEMMA PlaceFound ==
    ASSUME NEW h, Shaped(h), Arranged(h), NEW t, NEW b, NEW j, IsPlace(h, t, b, j)
    PROVE  LET k == KeyIn(h, t, b, j)
           IN  /\ (IF Holds(h.tables[0], k) THEN 0 ELSE 1) = t
               /\ IndexIn(h.tables[t].buckets[b], k) = j
<1> DEFINE k == KeyIn(h, t, b, j)
           q == h.tables[t].buckets[b]
           u == IF Holds(h.tables[0], k) THEN 0 ELSE 1
<1>1. /\ h.tables[t].slots \in Nat /\ TablePlaced(h.tables[t])
      /\ q \in Seq(Node) /\ k \in Keys /\ Has(h.tables[t], q[j])
      /\ Chain(h.tables[t], k) = q /\ Holds(h.tables[t], k)
  BY PlaceFacts
<1>2. t \in {0, 1} /\ j \in 1..Len(q) /\ q[j].key = k /\ b \in 0..h.tables[t].slots - 1
  BY DEF IsPlace, KeyIn
<1>3. u = t
  <2>1. CASE t = 0
    BY <1>1, <2>1
  <2>2. CASE t = 1
    <3>1. ASSUME Holds(h.tables[0], k) PROVE FALSE
      <4>1. h.tables[0].slots \in Nat /\ TablePlaced(h.tables[0])
        BY DEF Shaped, Arranged
      <4>2. PICK n \in Node : Has(h.tables[0], n) /\ n.key = k
        BY <1>1, <3>1, <4>1, HoldsFacts
      <4>3. q[j] \in Node
        BY <1>1, HasFacts
      <4>4. QED BY <1>1, <1>2, <2>2, <4>2, <4>3 DEF Arranged
    <3>2. QED BY <2>2, <3>1
  <2>3. QED BY <1>2, <2>1, <2>2
<1>4. IndexIn(q, k) = j
  <2>1. IndexIn(q, k) \in 1..Len(q) /\ q[IndexIn(q, k)].key = k
    BY <1>1, <1>2, IndexFound
  <2>2. ChainPlaced(q, b, h.tables[t].slots)
    BY <1>1, <1>2 DEF TablePlaced
  <2>3. QED BY <1>2, <2>1, <2>2 DEF ChainPlaced
<1>5. QED BY <1>3, <1>4

\* node->next of the node in a place.
LEMMA SuccessorAt ==
    ASSUME NEW h, Shaped(h), Arranged(h), NEW t, NEW b, NEW j, IsPlace(h, t, b, j)
    PROVE  Successor(h, KeyIn(h, t, b, j)) =
              IF j < Len(h.tables[t].buckets[b]) THEN KeyIn(h, t, b, j + 1) ELSE NoNode
<1> DEFINE k == KeyIn(h, t, b, j)
           q == h.tables[t].buckets[b]
           u == IF Holds(h.tables[0], k) THEN 0 ELSE 1
<1>1. /\ h.tables[t].slots \in Nat /\ TablePlaced(h.tables[t])
      /\ q \in Seq(Node) /\ k \in Keys /\ Has(h.tables[t], q[j])
      /\ Chain(h.tables[t], k) = q /\ Holds(h.tables[t], k)
  BY PlaceFacts
<1>2. u = t /\ IndexIn(q, k) = j
  BY PlaceFound
<1>3. Successor(h, k) = LET chain == Chain(h.tables[u], k)
                            i == IndexIn(chain, k)
                        IN  IF i < Len(chain) THEN chain[i + 1].key ELSE NoNode
  BY DEF Successor
<1> HIDE DEF k, u
<1>4. Successor(h, k) = IF j < Len(q) THEN q[j + 1].key ELSE NoNode
  BY <1>1, <1>2, <1>3
<1>5. QED BY <1>4 DEF KeyIn, k

\* The numbers of a place.
LEMMA PlaceTypes ==
    ASSUME NEW h, Shaped(h), Arranged(h), NEW t, NEW b, NEW j, IsPlace(h, t, b, j)
    PROVE  /\ t \in Nat /\ b \in Nat /\ j \in Nat /\ t \in {0, 1}
           /\ j >= 1 /\ j <= Len(h.tables[t].buckets[b])
           /\ Len(h.tables[t].buckets[b]) \in Nat
<1>1. h.tables[t].slots \in Nat /\ h.tables[t].buckets[b] \in Seq(Node)
  BY PlaceFacts
<1>2. Len(h.tables[t].buckets[b]) \in Nat
  BY <1>1
<1>3. QED BY <1>1, <1>2 DEF IsPlace

\* The pointer to the next node cuts the chain it is in.
LEMMA LaterInChain ==
    ASSUME NEW h, Shaped(h), Arranged(h), NEW t, NEW b, NEW m, IsPlace(h, t, b, m),
           NEW i, i.table = t, i.bucket = b + 1, i.next = KeyIn(h, t, b, m),
           NEW u, NEW c, NEW j, IsPlace(h, u, c, j)
    PROVE  Later(h, i, u, c, j) <=> u > t \/ (u = t /\ (c > b \/ (c = b /\ j >= m)))
<1>1. i.next # NoNode
  BY PlaceFacts, SentinelAssumption
<1>2. t \in Nat /\ b \in Nat /\ u \in Nat /\ c \in Nat /\ m \in Nat /\ j \in Nat
      /\ m >= 1 /\ j <= Len(h.tables[u].buckets[c])
  BY PlaceTypes
<1>3. CASE u = t /\ c = b
  <2>1. (\E x \in 1..j : h.tables[u].buckets[c][x].key = i.next) <=> j >= m
    <3>1. ASSUME NEW x \in 1..j, h.tables[u].buckets[c][x].key = i.next PROVE j >= m
      <4>1. IsPlace(h, t, b, x) /\ KeyIn(h, t, b, x) = KeyIn(h, t, b, m)
        BY <1>2, <1>3, <3>1 DEF IsPlace, KeyIn
      <4>2. x = m
        BY <4>1, PlaceOnce
      <4>3. QED BY <1>2, <4>2
    <3>2. ASSUME j >= m PROVE \E x \in 1..j : h.tables[u].buckets[c][x].key = i.next
      BY <1>2, <1>3, <3>2 DEF KeyIn
    <3>3. QED BY <3>1, <3>2
  <2>2. QED BY <1>1, <1>2, <1>3, <2>1 DEF Later
<1>4. CASE ~(u = t /\ c = b)
  BY <1>2, <1>4 DEF Later
<1>5. QED BY <1>3, <1>4

\* Without a pointer to a next node only whole buckets are to come.
LEMMA LaterNone ==
    ASSUME NEW h, NEW i, i.next = NoNode, NEW u, NEW c, NEW j
    PROVE  Later(h, i, u, c, j) <=> u > i.table \/ (u = i.table /\ c >= i.bucket)
  BY DEF Later

\* One more key is seen.
LEMMA AppendSeen ==
    ASSUME NEW s \in Seq(Keys), NEW k \in Keys, k \notin Range(s),
           IsInjective(s)
    PROVE  LET p == Append(s, k)
           IN  /\ p \in Seq(Keys) /\ Range(p) = Range(s) \cup {k}
               /\ IsInjective(p)
<1> DEFINE p == Append(s, k)
<1>1. /\ p \in Seq(Keys) /\ Len(p) = Len(s) + 1 /\ Len(s) \in Nat
      /\ \A x \in 1..Len(s) : p[x] = s[x]
      /\ p[Len(s) + 1] = k
  OBVIOUS
<1> HIDE DEF p
<1>2. DOMAIN p = 1..Len(s) + 1 /\ DOMAIN s = 1..Len(s)
  BY <1>1
<1>3. \A x \in 1..Len(s) : s[x] # k
  BY <1>2 DEF Range
<1>4. Range(p) = Range(s) \cup {k}
  <2>1. \A z : z \in Range(p) <=> z \in Range(s) \/ z = k
    <3> TAKE z
    <3>1. ASSUME z \in Range(p) PROVE z \in Range(s) \/ z = k
      <4>1. PICK x \in 1..Len(s) + 1 : p[x] = z
        BY <1>2, <3>1 DEF Range
      <4>2. x \in 1..Len(s) \/ x = Len(s) + 1
        BY <1>1
      <4>3. QED BY <1>1, <1>2, <4>1, <4>2 DEF Range
    <3>2. ASSUME z \in Range(s) PROVE z \in Range(p)
      <4>1. PICK x \in 1..Len(s) : s[x] = z
        BY <1>2, <3>2 DEF Range
      <4>2. x \in 1..Len(s) + 1 /\ p[x] = z
        BY <1>1, <4>1
      <4>3. QED BY <1>2, <4>2 DEF Range
    <3>3. k \in Range(p)
      <4>1. Len(s) + 1 \in 1..Len(s) + 1
        BY <1>1
      <4>2. QED BY <1>1, <1>2, <4>1 DEF Range
    <3>4. QED BY <3>1, <3>2, <3>3
  <2>2. QED BY <2>1
<1>5. ASSUME NEW x \in 1..Len(p), NEW y \in 1..Len(p), p[x] = p[y] PROVE x = y
  <2>1. (x \in 1..Len(s) \/ x = Len(s) + 1) /\ (y \in 1..Len(s) \/ y = Len(s) + 1)
    BY <1>1
  <2>2. \A z \in 1..Len(s), w \in 1..Len(s) : s[z] = s[w] => z = w
    BY <1>2 DEF IsInjective
  <2>3. QED BY <1>1, <1>3, <1>5, <2>1, <2>2
<1>6. IsInjective(p)
  BY <1>1, <1>2, <1>5 DEF IsInjective
<1>7. QED BY <1>1, <1>4, <1>6 DEF p

\* The keys still to come from place m of bucket b in table t on.
From(h, C, t, b, m) ==
    /\ C \subseteq KeysHeld(h)
    /\ \A u, c, j : IsPlace(h, u, c, j) =>
          (KeyIn(h, u, c, j) \in C <=>
             u > t \/ (u = t /\ (c > b \/ (c = b /\ j >= m))))

\* The keys held are those seen and those of C, each once.
Before(i, C) ==
    /\ i.held = Range(i.seen) \cup C /\ Range(i.seen) \cap C = {}
    /\ IsInjective(i.seen)

\* The iterator is in bucket b of table t.
Beyond(i, t, b) == i.table = t /\ i.bucket = b + 1

\* The node in a place is given to the caller.
LEMMA GivenUnderway ==
    ASSUME NEW h, Shaped(h), Arranged(h), NEW i \in Iterators,
           NEW t, NEW b, NEW m, IsPlace(h, t, b, m), Beyond(i, t, b),
           NEW C, From(h, C, t, b, m),
           Before(i, C)
    PROVE  LET g == Given(h, i, KeyIn(h, t, b, m))
           IN  /\ g \in Iterators /\ g.on = i.on /\ Underway(h, g)
               /\ IsInjective(g.seen)
<1> DEFINE k == KeyIn(h, t, b, m)
           g == Given(h, i, k)
           q == h.tables[t].buckets[b]
<1>1. /\ k \in Keys /\ k \in KeysHeld(h) /\ t \in Nat /\ b \in Nat /\ m \in Nat
      /\ t \in {0, 1} /\ b \in 0..h.tables[t].slots - 1
      /\ m >= 1 /\ m <= Len(q) /\ Len(q) \in Nat
  <2>1. k \in Keys /\ k \in KeysHeld(h)
    BY PlaceFacts
  <2>2. QED BY <2>1, PlaceTypes DEF IsPlace
<1>2. Successor(h, k) = IF m < Len(q) THEN KeyIn(h, t, b, m + 1) ELSE NoNode
  BY SuccessorAt
<1>3. m < Len(q) => IsPlace(h, t, b, m + 1) /\ KeyIn(h, t, b, m + 1) \in Keys
  <2>1. m < Len(q) => IsPlace(h, t, b, m + 1)
    BY <1>1 DEF IsPlace
  <2>2. QED BY <2>1, PlaceFacts
<1>4. k \in C
  BY <1>1 DEF From
<1>5. /\ g.table = t /\ g.bucket = b + 1 /\ g.next = Successor(h, k) /\ g.given = k
      /\ g.seen = Append(i.seen, k) /\ g.held = i.held /\ g.on = i.on
      /\ DOMAIN g = DOMAIN i
  BY DEF Given, Iterators, Beyond
<1>6. /\ g.seen \in Seq(Keys) /\ Range(g.seen) = Range(i.seen) \cup {k}
      /\ IsInjective(g.seen)
  <2>1. i.seen \in Seq(Keys) /\ k \notin Range(i.seen)
    BY <1>4 DEF Iterators, Before
  <2> HIDE DEF k, g
  <2>2. IsInjective(i.seen)
    BY DEF Before
  <2>3. QED BY <1>1, <1>5, <2>1, <2>2, AppendSeen
<1>7. g \in Iterators
  <2>1. Successor(h, k) \in Keys \cup {NoNode}
    BY <1>2, <1>3
  <2>2. g = [i EXCEPT !.next = Successor(h, k), !.given = k, !.seen = Append(i.seen, k)]
    BY DEF Given
  <2>3. Append(i.seen, k) \in Seq(Keys)
    BY <1>5, <1>6
  <2> HIDE DEF k, g
  <2>4. QED BY <1>1, <2>1, <2>2, <2>3 DEF Iterators
<1> HIDE DEF k, g, q
<1>8. ASSUME NEW u, NEW c, NEW j, IsPlace(h, u, c, j)
      PROVE  Later(h, g, u, c, j) <=>
               u > t \/ (u = t /\ (c > b \/ (c = b /\ j > m)))
  <2>1. /\ u \in Nat /\ c \in Nat /\ j \in Nat /\ j >= 1
        /\ j <= Len(h.tables[u].buckets[c])
    BY <1>8, PlaceTypes
  <2>2. CASE m < Len(q)
    <3>1. Later(h, g, u, c, j) <=>
            u > t \/ (u = t /\ (c > b \/ (c = b /\ j >= m + 1)))
      BY <1>2, <1>3, <1>5, <1>8, <2>2, LaterInChain
    <3>2. QED BY <1>1, <2>1, <3>1
  <2>3. CASE ~(m < Len(q))
    <3>1. Later(h, g, u, c, j) <=> u > t \/ (u = t /\ c >= b + 1)
      BY <1>2, <1>5, <2>3, LaterNone
    <3>2. (u = t /\ c = b) => ~(j > m)
      BY <1>1, <2>1, <2>3 DEF q
    <3>3. QED BY <1>1, <2>1, <3>1, <3>2
  <2>4. QED BY <2>2, <2>3
<1>9. Coming(h, g) = C \ {k}
  <2>1. ASSUME NEW x \in KeysHeld(h) PROVE x \in Coming(h, g) <=> x \in C /\ x # k
    <3>1. PICK u, c, j : IsPlace(h, u, c, j) /\ KeyIn(h, u, c, j) = x
      BY HeldAt
    <3>2. x \in Coming(h, g) <=> Later(h, g, u, c, j)
      BY <3>1, ComingAt
    <3>3. x \in C <=> u > t \/ (u = t /\ (c > b \/ (c = b /\ j >= m)))
      BY <3>1 DEF From
    <3>4. x = k <=> u = t /\ c = b /\ j = m
      BY <3>1, PlaceOnce DEF k
    <3>5. j \in Nat /\ u \in Nat /\ c \in Nat
      BY <3>1, PlaceTypes
    <3>6. Later(h, g, u, c, j) <=>
               u > t \/ (u = t /\ (c > b \/ (c = b /\ j > m)))
      BY <1>8, <3>1
    <3>7. QED BY <1>1, <3>2, <3>3, <3>4, <3>5, <3>6
  <2>2. Coming(h, g) \subseteq KeysHeld(h) /\ C \subseteq KeysHeld(h)
    BY DEF Coming, From
  <2>3. QED BY <2>1, <2>2
<1>10. g.held = Range(g.seen) \cup Coming(h, g) /\ Range(g.seen) \cap Coming(h, g) = {}
  BY <1>4, <1>5, <1>6, <1>9 DEF Before
<1>11. g.next # NoNode => NextPlaced(h, g)
  <2> SUFFICES ASSUME g.next # NoNode PROVE NextPlaced(h, g)
    OBVIOUS
  <2>1. m < Len(q) /\ g.next = KeyIn(h, t, b, m + 1)
    BY <1>2, <1>5
  <2>2. (b + 1) - 1 = b /\ m + 1 \in 1..Len(q)
    BY <1>1, <2>1
  <2>3. QED BY <1>1, <1>5, <2>1, <2>2 DEF NextPlaced, KeyIn, q
<1>12. Underway(h, g)
  <2>1. g.table \in 0..1 /\ g.bucket \in Nat
    BY <1>1, <1>5
  <2>2. g.given \in Range(g.seen) /\ g.given \in KeysHeld(h)
    BY <1>1, <1>5, <1>6
  <2>3. QED BY <1>10, <1>11, <2>1, <2>2 DEF Underway
<1>13. QED BY <1>5, <1>6, <1>7, <1>12 DEF g, k

\* The first of a set of buckets.
LEMMA NearestFirst ==
    ASSUME NEW ps, ps \subseteq Nat \X Nat, ps # {}
    PROVE  LET p == Nearest(ps)
           IN  /\ p \in ps
               /\ \A q \in ps : p[1] < q[1] \/ (p[1] = q[1] /\ p[2] <= q[2])
<1> DEFINE ts == {p[1] : p \in ps}
           t == Min(ts)
           bs == {p[2] : p \in {q \in ps : q[1] = t}}
           b == Min(bs)
<1>1. \A p \in ps : p[1] \in Nat /\ p[2] \in Nat /\ p = <<p[1], p[2]>>
  OBVIOUS
<1>2. ts \subseteq Nat /\ ts # {}
  BY <1>1
<1>3. t \in ts /\ \A x \in ts : t <= x
  <2> HIDE DEF ts
  <2>1. QED BY <1>2, LeastOf
<1>4. bs \subseteq Nat /\ bs # {}
  <2>1. PICK p \in ps : p[1] = t
    BY <1>3
  <2>2. QED BY <1>1, <2>1
<1>5. b \in bs /\ \A x \in bs : b <= x
  <2> HIDE DEF bs
  <2>1. QED BY <1>4, LeastOf
<1>6. PICK p \in ps : p[1] = t /\ p[2] = b
  BY <1>5
<1>7. \A q \in ps : t < q[1] \/ (t = q[1] /\ b <= q[2])
  <2> TAKE q \in ps
  <2>1. q[1] \in ts /\ q[1] \in Nat /\ t \in Nat
    BY <1>1, <1>2, <1>3
  <2>2. q[1] = t => q[2] \in bs
    OBVIOUS
  <2> HIDE DEF ts, bs, t, b
  <2>3. t <= q[1]
    BY <1>3, <2>1
  <2>4. QED BY <1>5, <2>1, <2>2, <2>3
<1> HIDE DEF t, b
<1>8. \A q \in ps : p[1] < q[1] \/ (p[1] = q[1] /\ p[2] <= q[2])
  BY <1>6, <1>7
<1>9. QED BY <1>6, <1>8 DEF Nearest

\* The buckets before the iterator.
LEMMA AheadPlaces ==
    ASSUME NEW h, Shaped(h), Arranged(h), NEW i, i.table \in 0..1, i.bucket \in Nat,
           i.next = NoNode
    PROVE  /\ \A p \in Ahead(h, i) :
                 /\ p \in Nat \X Nat /\ IsPlace(h, p[1], p[2], 1)
                 /\ p[1] > i.table \/ (p[1] = i.table /\ p[2] >= i.bucket)
           /\ \A u, c, j : IsPlace(h, u, c, j) /\ Later(h, i, u, c, j) =>
                 <<u, c>> \in Ahead(h, i)
<1>1. ASSUME NEW t \in 0..1
      PROVE  /\ h.tables[t].slots \in Nat
             /\ DOMAIN h.tables[t].buckets = 0..h.tables[t].slots - 1
             /\ \A b \in 0..h.tables[t].slots - 1 : h.tables[t].buckets[b] \in Seq(Node)
  <2>1. t = 0 \/ t = 1
    OBVIOUS
  <2>2. h.tables[t].slots \in Nat /\ TablePlaced(h.tables[t])
    BY <2>1 DEF Shaped, Arranged
  <2>3. QED BY <2>2 DEF TablePlaced, Buckets
<1>2. ASSUME NEW p \in Ahead(h, i)
      PROVE  /\ p \in Nat \X Nat /\ IsPlace(h, p[1], p[2], 1)
             /\ p[1] > i.table \/ (p[1] = i.table /\ p[2] >= i.bucket)
  <2>1. PICK t \in i.table..1 : p \in {t} \X DOMAIN h.tables[t].buckets
    BY DEF Ahead
  <2>2. t \in 0..1 /\ t >= i.table /\ p[1] = t /\ p = <<p[1], p[2]>>
        /\ p[2] \in DOMAIN h.tables[t].buckets
    BY <2>1
  <2>3. h.tables[p[1]].buckets[p[2]] # <<>> /\ (p[1] = i.table => p[2] >= i.bucket)
    BY DEF Ahead
  <2>4. p[2] \in 0..h.tables[t].slots - 1 /\ h.tables[t].slots \in Nat
        /\ h.tables[t].buckets[p[2]] \in Seq(Node)
    BY <1>1, <2>2
  <2>5. 1 \in 1..Len(h.tables[t].buckets[p[2]])
    <3> DEFINE q == h.tables[t].buckets[p[2]]
    <3>1. q \in Seq(Node) /\ q # <<>>
      BY <2>2, <2>3, <2>4
    <3> HIDE DEF q
    <3>2. 1 \in 1..Len(q)
      BY <3>1
    <3>3. QED BY <3>2 DEF q
  <2>6. QED BY <2>2, <2>3, <2>4, <2>5 DEF IsPlace
<1>3. ASSUME NEW u, NEW c, NEW j, IsPlace(h, u, c, j), Later(h, i, u, c, j)
      PROVE  <<u, c>> \in Ahead(h, i)
  <2>1. u \in 0..1 /\ c \in 0..h.tables[u].slots - 1
        /\ j \in 1..Len(h.tables[u].buckets[c])
    BY <1>3 DEF IsPlace
  <2>2. u > i.table \/ (u = i.table /\ c >= i.bucket)
    BY <1>3, LaterNone
  <2>3. u \in i.table..1 /\ (u = i.table => c >= i.bucket)
    BY <2>1, <2>2
  <2>4. c \in DOMAIN h.tables[u].buckets
    BY <1>1, <2>1
  <2>5. h.tables[u].buckets[c] # <<>>
    BY <2>1
  <2>6. QED BY <2>3, <2>4, <2>5 DEF Ahead
<1>4. QED BY <1>2, <1>3

\* What is still to come is held.
LEMMA ComingHeld == \A h, i : Coming(h, i) \subseteq KeysHeld(h)
  BY DEF Coming

\* it->next is followed.
LEMMA NextInChainAgrees ==
    ASSUME Sound(hash), IterationAgrees, NextInChain
    PROVE  IterationAgrees'
<1>1. /\ hash' = hash /\ it' = Given(hash, it, it.next) /\ it.on /\ it.next # NoNode
  BY DEF NextInChain
<1>2. /\ it \in Iterators /\ Underway(hash, it) /\ NextPlaced(hash, it)
      /\ IsInjective(it.seen)
  BY <1>1 DEF IterationAgrees, Underway
<1> DEFINE t == it.table
           b == it.bucket - 1
<1>3. PICK m \in 1..Len(hash.tables[t].buckets[b]) :
              hash.tables[t].buckets[b][m].key = it.next
  BY <1>2 DEF NextPlaced
<1>4. /\ IsPlace(hash, t, b, m) /\ KeyIn(hash, t, b, m) = it.next
      /\ it.bucket = b + 1
  <2>1. it.table \in 0..1 /\ it.bucket \in Nat
    BY <1>2 DEF Underway
  <2>2. b \in 0..hash.tables[t].slots - 1
    BY <1>2 DEF NextPlaced
  <2>3. it.bucket = b + 1
    BY <2>1
  <2> HIDE DEF b
  <2>4. QED BY <1>3, <2>1, <2>2, <2>3 DEF IsPlace, KeyIn
<1>5. Shaped(hash) /\ Arranged(hash)
  BY DEF Sound
<1> HIDE DEF t, b
<1>6. From(hash, Coming(hash, it), t, b, m)
  <2>1. ASSUME NEW u, NEW c, NEW j, IsPlace(hash, u, c, j)
        PROVE  KeyIn(hash, u, c, j) \in Coming(hash, it) <=>
                 u > t \/ (u = t /\ (c > b \/ (c = b /\ j >= m)))
    <3>1. KeyIn(hash, u, c, j) \in Coming(hash, it) <=> Later(hash, it, u, c, j)
      BY <1>5, <2>1, ComingAt
    <3>2. it.table = t
      BY DEF t
    <3>3. Later(hash, it, u, c, j) <=>
                 u > t \/ (u = t /\ (c > b \/ (c = b /\ j >= m)))
      BY <1>4, <1>5, <2>1, <3>2, LaterInChain
    <3>4. QED BY <3>1, <3>3
  <2>2. QED BY <2>1, ComingHeld DEF From
<1>7. Before(it, Coming(hash, it)) /\ it.table = t
  BY <1>2 DEF Underway, t, Before
<1>8. LET g == Given(hash, it, KeyIn(hash, t, b, m))
      IN  /\ g \in Iterators /\ g.on = it.on /\ Underway(hash, g)
          /\ IsInjective(g.seen)
  <2>1. it \in Iterators /\ IsPlace(hash, t, b, m) /\ Beyond(it, t, b)
    BY <1>2, <1>4, <1>7 DEF Beyond
  <2>2. QED BY <1>5, <1>6, <1>7, <2>1, GivenUnderway
<1>9. /\ it' \in Iterators /\ it'.on /\ Underway(hash, it')
      /\ IsInjective(it'.seen)
  BY <1>1, <1>4, <1>8
<1>10. QED BY <1>1, <1>9 DEF IterationAgrees

\* The next bucket that has nodes.
LEMMA NextBucketAgrees ==
    ASSUME Sound(hash), IterationAgrees, NextBucket
    PROVE  IterationAgrees'
<1> DEFINE p == Nearest(Ahead(hash, it))
           t == p[1]
           b == p[2]
           i == [it EXCEPT !.table = t, !.bucket = b + 1]
<1>1. /\ hash' = hash /\ it.on /\ it.next = NoNode /\ Ahead(hash, it) # {}
      /\ it' = Given(hash, i, hash.tables[t].buckets[b][1].key)
  BY DEF NextBucket
<1>2. /\ it \in Iterators /\ Underway(hash, it)
      /\ IsInjective(it.seen)
  BY <1>1 DEF IterationAgrees
<1>3. Shaped(hash) /\ Arranged(hash)
  BY DEF Sound
<1>4. it.table \in 0..1 /\ it.bucket \in Nat
  BY <1>2 DEF Underway
<1>5. /\ \A q \in Ahead(hash, it) :
            /\ q \in Nat \X Nat /\ IsPlace(hash, q[1], q[2], 1)
            /\ q[1] > it.table \/ (q[1] = it.table /\ q[2] >= it.bucket)
      /\ \A u, c, j : IsPlace(hash, u, c, j) /\ Later(hash, it, u, c, j) =>
            <<u, c>> \in Ahead(hash, it)
  BY <1>1, <1>3, <1>4, AheadPlaces
<1>6. /\ p \in Ahead(hash, it)
      /\ \A q \in Ahead(hash, it) : p[1] < q[1] \/ (p[1] = q[1] /\ p[2] <= q[2])
  <2>1. Ahead(hash, it) \subseteq Nat \X Nat
    BY <1>5
  <2>2. QED BY <1>1, <2>1, NearestFirst
<1> HIDE DEF p
<1>7. /\ IsPlace(hash, t, b, 1) /\ t \in Nat /\ b \in Nat
      /\ t > it.table \/ (t = it.table /\ b >= it.bucket)
  BY <1>5, <1>6
<1>8. i.table = t /\ i.bucket = b + 1 /\ i \in Iterators /\ i.on = it.on
      /\ i.seen = it.seen /\ i.held = it.held
  <2>1. i.table = t /\ i.bucket = b + 1 /\ i.on = it.on
        /\ i.seen = it.seen /\ i.held = it.held
    BY <1>2 DEF Iterators
  <2>2. b + 1 \in Nat
    BY <1>7
  <2> HIDE DEF t, b
  <2>3. i \in Iterators
    BY <1>2, <1>7, <2>2 DEF Iterators
  <2>4. QED BY <2>1, <2>3
<1> HIDE DEF i
<1>9. From(hash, Coming(hash, it), t, b, 1)
  <2>1. ASSUME NEW u, NEW c, NEW j, IsPlace(hash, u, c, j)
        PROVE  KeyIn(hash, u, c, j) \in Coming(hash, it) <=>
                 u > t \/ (u = t /\ (c > b \/ (c = b /\ j >= 1)))
    <3>1. KeyIn(hash, u, c, j) \in Coming(hash, it) <=> Later(hash, it, u, c, j)
      BY <1>3, <2>1, ComingAt
    <3>2. u \in Nat /\ c \in Nat /\ j \in Nat /\ j >= 1
      BY <1>3, <2>1, PlaceTypes
    <3>3. ASSUME Later(hash, it, u, c, j)
          PROVE  u > t \/ (u = t /\ c >= b)
      <4>1. <<u, c>> \in Ahead(hash, it)
        BY <1>5, <2>1, <3>3
      <4>2. t < u \/ (t = u /\ b <= c)
        BY <1>6, <4>1
      <4>3. QED BY <1>7, <3>2, <4>2
    <3>4. ASSUME u > t \/ (u = t /\ c >= b)
          PROVE  Later(hash, it, u, c, j)
      <4>1. u > it.table \/ (u = it.table /\ c >= it.bucket)
        BY <1>4, <1>7, <3>2, <3>4
      <4>2. QED BY <1>1, <4>1, LaterNone
    <3>5. QED BY <1>7, <3>1, <3>2, <3>3, <3>4
  <2>2. QED BY <2>1, ComingHeld DEF From
<1>10. Before(i, Coming(hash, it))
  BY <1>2, <1>8 DEF Underway, Before
<1>11. hash.tables[t].buckets[b][1].key = KeyIn(hash, t, b, 1)
  BY DEF KeyIn
<1>12. LET g == Given(hash, i, KeyIn(hash, t, b, 1))
       IN  /\ g \in Iterators /\ g.on = i.on /\ Underway(hash, g)
           /\ IsInjective(g.seen)
  <2>1. i \in Iterators /\ IsPlace(hash, t, b, 1) /\ Beyond(i, t, b)
    BY <1>7, <1>8 DEF Beyond
  <2>2. QED BY <1>3, <1>9, <1>10, <2>1, GivenUnderway
<1>13. /\ it' \in Iterators /\ it'.on /\ Underway(hash, it')
       /\ IsInjective(it'.seen)
  BY <1>1, <1>8, <1>11, <1>12
<1>14. QED BY <1>1, <1>13 DEF IterationAgrees

\* No iteration.
LEMMA NoIterationFacts ==
    /\ <<>> \in Seq(Keys) /\ Range(<<>>) = {} /\ IsInjective(<<>>)
    /\ NoIteration.on = FALSE /\ NoIteration.next = NoNode
    /\ NoIteration.seen = <<>> /\ NoIteration.held = {}
    /\ NoIteration \in Iterators
<1>1. <<>> \in Seq(Keys) /\ Range(<<>>) = {} /\ IsInjective(<<>>)
  BY DEF Range, IsInjective
<1>2. /\ NoIteration.on = FALSE /\ NoIteration.next = NoNode
      /\ NoIteration.seen = <<>> /\ NoIteration.held = {}
  BY DEF NoIteration
<1>3. NoIteration \in Iterators
  BY <1>1 DEF NoIteration, Iterators
<1>4. QED BY <1>1, <1>2, <1>3

\* After an operation outside an iteration.
LEMMA NoIterationAgrees ==
    ASSUME it' = NoIteration PROVE IterationAgrees'
  BY NoIterationFacts DEF IterationAgrees

\* kv_hash_iterator_begin: everything held is to come.
LEMMA BeginAgrees ==
    ASSUME Sound(hash), kv_hash_iterator_begin PROVE IterationAgrees'
<1> DEFINE i == [NoIteration EXCEPT !.on = TRUE, !.held = KeysHeld(hash)]
<1>1. it' = i /\ hash' = hash
  BY DEF kv_hash_iterator_begin
<1>2. Shaped(hash) /\ Arranged(hash) /\ KeysHeld(hash) \subseteq Keys
  BY NodesFacts DEF Sound, Arranged
<1>3. <<>> \in Seq(Keys) /\ Range(<<>>) = {} /\ IsInjective(<<>>)
  BY NoIterationFacts
<1>4. /\ i.on = TRUE /\ i.next = NoNode /\ i.seen = <<>> /\ i.held = KeysHeld(hash)
      /\ i.table = 0 /\ i.bucket = 0 /\ i.given = NoNode
  BY DEF NoIteration
<1>5. i \in Iterators
  BY <1>2, <1>3 DEF NoIteration, Iterators
<1> HIDE DEF i
<1>6. Coming(hash, i) = KeysHeld(hash)
  <2>1. ASSUME NEW k \in KeysHeld(hash) PROVE k \in Coming(hash, i)
    <3>1. PICK t, b, j : IsPlace(hash, t, b, j) /\ KeyIn(hash, t, b, j) = k
      BY <1>2, HeldAt
    <3>2. t \in Nat /\ b \in Nat
      BY <1>2, <3>1, PlaceTypes
    <3>3. Later(hash, i, t, b, j)
      <4>1. t > 0 \/ (t = 0 /\ b >= 0)
        BY <3>2
      <4>2. QED BY <1>4, <4>1, LaterNone
    <3>4. QED BY <1>2, <3>1, <3>3, ComingAt
  <2>2. QED BY <2>1, ComingHeld
<1>7. Underway(hash, i)
  BY <1>3, <1>4, <1>6 DEF Underway
<1>8. QED BY <1>1, <1>3, <1>4, <1>5, <1>7 DEF IterationAgrees

\* kv_hash_iterator_next returns NULL: nothing is to come.
LEMMA EndsAgrees ==
    ASSUME Sound(hash), IterationAgrees, IterationEnds PROVE IterationAgrees'
<1> DEFINE i == [it EXCEPT !.on = FALSE, !.table = 2, !.bucket = 0, !.given = NoNode]
<1>1. /\ it.on /\ it.next = NoNode /\ Ahead(hash, it) = {} /\ it' = i
  BY DEF IterationEnds
<1>2. it \in Iterators /\ IsInjective(it.seen) /\ Underway(hash, it)
  BY <1>1 DEF IterationAgrees
<1>3. Shaped(hash) /\ Arranged(hash)
  BY DEF Sound
<1>4. Coming(hash, it) = {}
  <2>1. ASSUME NEW k \in Coming(hash, it) PROVE FALSE
    <3>1. k \in KeysHeld(hash)
      BY ComingHeld
    <3>2. PICK t, b, j : IsPlace(hash, t, b, j) /\ KeyIn(hash, t, b, j) = k
      BY <1>3, <3>1, HeldAt
    <3>3. Later(hash, it, t, b, j)
      BY <1>3, <3>2, ComingAt
    <3>4. <<t, b>> \in Ahead(hash, it)
      BY <1>1, <1>2, <1>3, <3>2, <3>3, AheadPlaces DEF Underway
    <3>5. QED BY <1>1, <3>4
  <2>2. QED BY <2>1
<1>5. Range(it.seen) = it.held
  BY <1>2, <1>4 DEF Underway
<1>6. i \in Iterators
  BY <1>2 DEF Iterators
<1>7. i.on = FALSE /\ i.next = NoNode /\ i.seen = it.seen /\ i.held = it.held
  BY <1>1, <1>2 DEF Iterators
<1> HIDE DEF i
<1>8. QED BY <1>1, <1>2, <1>5, <1>6, <1>7 DEF IterationAgrees

\* A chain without the node in place m, and where its other nodes come from.
LEMMA RemovedTables ==
    ASSUME NEW h, Sound(h), NEW t, NEW b, NEW m, IsPlace(h, t, b, m),
           NEW g, g = remove_target(h, KeyIn(h, t, b, m))
    PROVE  /\ \A u \in 0..1 : g.tables[u].slots = h.tables[u].slots
           /\ \A u \in 0..1 : \A c \in 0..h.tables[u].slots - 1 :
                 g.tables[u].buckets[c] =
                    IF u = t /\ c = b THEN RemoveAt(h.tables[u].buckets[c], m)
                                      ELSE h.tables[u].buckets[c]
<1> DEFINE k == KeyIn(h, t, b, m)
           q == h.tables[t].buckets[b]
           w == WithChain(h, t, k, RemoveAt(q, m))
<1>1. /\ h.tables[t].slots \in Nat /\ TablePlaced(h.tables[t])
      /\ q \in Seq(Node) /\ k \in Keys /\ Has(h.tables[t], q[m])
      /\ Chain(h.tables[t], k) = q /\ Holds(h.tables[t], k)
      /\ HashCode[k] % h.tables[t].slots = b
  BY PlaceFacts DEF Sound
<1>2. t \in {0, 1} /\ m \in 1..Len(q) /\ q[m].key = k /\ b \in 0..h.tables[t].slots - 1
  BY DEF IsPlace, KeyIn
<1>3. (IF Holds(h.tables[0], k) THEN 0 ELSE 1) = t /\ IndexIn(q, k) = m
  BY PlaceFound DEF Sound
<1> HIDE DEF k, q
<1>5. g = [w EXCEPT !.count = @ - 1]
  BY <1>1, <1>3 DEF remove_target, k
<1>6. /\ Rechained(w.tables[t], h.tables[t], k, RemoveAt(q, m))
      /\ \A u \in 0..1 : u # t => w.tables[u] = h.tables[u]
      /\ Shaped(w)
  BY <1>2, WithChainTables DEF Sound
<1> HIDE DEF w
<1>7. g.tables = w.tables
  BY <1>5, <1>6 DEF Shaped
<1>8. /\ w.tables[t].slots = h.tables[t].slots
      /\ w.tables[t].buckets = [h.tables[t].buckets EXCEPT ![b] = RemoveAt(q, m)]
      /\ DOMAIN h.tables[t].buckets = 0..h.tables[t].slots - 1
  BY <1>1, <1>6 DEF Rechained, TablePlaced, Buckets
<1>9. ASSUME NEW u \in 0..1 PROVE g.tables[u].slots = h.tables[u].slots
  BY <1>6, <1>7, <1>8
<1>10. ASSUME NEW u \in 0..1, NEW c \in 0..h.tables[u].slots - 1
       PROVE  g.tables[u].buckets[c] =
                  IF u = t /\ c = b THEN RemoveAt(h.tables[u].buckets[c], m)
                                    ELSE h.tables[u].buckets[c]
  <2>1. CASE u # t
    BY <1>6, <1>7, <2>1
  <2>2. CASE u = t /\ c # b
    BY <1>7, <1>8, <2>2
  <2>3. CASE u = t /\ c = b
    BY <1>2, <1>7, <1>8, <2>3 DEF q
  <2>4. QED BY <2>1, <2>2, <2>3
<1>11. QED BY <1>9, <1>10

\* kv_hash_remove_node of the node just given: what is still to come stays.
LEMMA RemoveGivenAgrees ==
    ASSUME Sound(hash), IterationAgrees, RemoveGiven
    PROVE  /\ IterationAgrees' /\ Sound(hash') /\ it.given \in Keys
           /\ it.given \in KeysHeld(hash) /\ Removes(hash', hash, it.given)
<1> DEFINE h == hash
           g == hash'
           k == it.given
           i == [it EXCEPT !.given = NoNode]
<1>1. /\ it.on /\ k # NoNode /\ g = remove_target(h, k) /\ it' = i
  BY DEF RemoveGiven
<1>2. it \in Iterators /\ IsInjective(it.seen) /\ Underway(h, it)
  BY <1>1 DEF IterationAgrees
<1>3. k \in Range(it.seen) /\ k \in KeysHeld(h) /\ k \notin Coming(h, it)
  BY <1>1, <1>2 DEF Underway
<1>4. k \in Keys
  BY <1>1, <1>2 DEF Iterators
<1>5. Sound(g) /\ Removes(g, h, k)
  BY <1>1, <1>3, <1>4, RemovedSound
<1>6. Shaped(h) /\ Arranged(h) /\ Shaped(g) /\ Arranged(g)
  BY <1>5 DEF Sound
<1>7. PICK t, b, m : IsPlace(h, t, b, m) /\ KeyIn(h, t, b, m) = k
  BY <1>3, <1>6, HeldAt
<1>8. ~Later(h, it, t, b, m)
  BY <1>3, <1>6, <1>7, ComingAt
<1>9. /\ i.table = it.table /\ i.bucket = it.bucket /\ i.next = it.next
      /\ i.seen = it.seen /\ i.held = it.held /\ i.given = NoNode /\ i.on
      /\ i \in Iterators
  BY <1>1, <1>2 DEF Iterators
<1>10. /\ \A u \in 0..1 : g.tables[u].slots = h.tables[u].slots
       /\ \A u \in 0..1 : \A c \in 0..h.tables[u].slots - 1 :
               g.tables[u].buckets[c] =
                  IF u = t /\ c = b THEN RemoveAt(h.tables[u].buckets[c], m)
                                    ELSE h.tables[u].buckets[c]
  BY <1>1, <1>7, RemovedTables
<1>11. it.table \in 0..1 /\ it.bucket \in Nat
  BY <1>2 DEF Underway
<1>12. t \in Nat /\ b \in Nat /\ m \in Nat /\ m >= 1
  BY <1>6, <1>7, PlaceTypes
<1> HIDE DEF h, g, k, i
<1> DEFINE Back(u, c, j) == IF u = t /\ c = b /\ j >= m THEN j + 1 ELSE j
<1>13. ASSUME NEW u, NEW c, NEW j, IsPlace(g, u, c, j)
       PROVE  /\ IsPlace(h, u, c, Back(u, c, j)) /\ j \in Nat /\ j >= 1
              /\ KeyIn(g, u, c, j) = KeyIn(h, u, c, Back(u, c, j))
  <2>1. u \in 0..1 /\ c \in 0..h.tables[u].slots - 1 /\ j \in Nat /\ j >= 1
        /\ j \in 1..Len(g.tables[u].buckets[c])
    <3>1. u \in 0..1
      BY <1>13 DEF IsPlace
    <3>2. QED BY <1>6, <1>10, <1>13, <3>1, PlaceTypes DEF IsPlace
  <2>2. CASE u = t /\ c = b
    <3> DEFINE q == h.tables[u].buckets[c]
    <3>1. q \in Seq(Node) /\ m \in 1..Len(q)
      BY <1>6, <1>7, <2>2, PlaceFacts DEF IsPlace
    <3>2. g.tables[u].buckets[c] = RemoveAt(q, m)
      BY <1>10, <2>1, <2>2
    <3> HIDE DEF q
    <3>3. /\ Len(RemoveAt(q, m)) = Len(q) - 1 /\ Len(q) \in Nat
          /\ \A x \in 1..Len(q) - 1 :
                RemoveAt(q, m)[x] = IF x < m THEN q[x] ELSE q[x + 1]
      BY <3>1, RemoveAtSeq
    <3>4. j \in 1..Len(q) - 1
      BY <2>1, <3>2, <3>3
    <3>5. Back(u, c, j) \in 1..Len(q) /\ RemoveAt(q, m)[j] = q[Back(u, c, j)]
      BY <1>12, <2>1, <2>2, <3>3, <3>4
    <3> HIDE DEF Back
    <3>6. QED BY <2>1, <3>2, <3>5 DEF IsPlace, KeyIn, q
  <2>3. CASE ~(u = t /\ c = b)
    <3>1. Back(u, c, j) = j /\ g.tables[u].buckets[c] = h.tables[u].buckets[c]
      BY <1>10, <2>1, <2>3
    <3> HIDE DEF Back
    <3>2. QED BY <2>1, <3>1 DEF IsPlace, KeyIn
  <2>4. QED BY <2>2, <2>3
<1>14. ASSUME NEW u, NEW c, NEW l, IsPlace(h, u, c, l), ~(u = t /\ c = b /\ l = m)
       PROVE  \E j \in Nat : IsPlace(g, u, c, j) /\ Back(u, c, j) = l
  <2>1. u \in 0..1 /\ c \in 0..h.tables[u].slots - 1 /\ l \in Nat /\ l >= 1
        /\ l \in 1..Len(h.tables[u].buckets[c])
    BY <1>6, <1>14, PlaceTypes DEF IsPlace
  <2>2. CASE u = t /\ c = b
    <3> DEFINE q == h.tables[u].buckets[c]
               j == IF l > m THEN l - 1 ELSE l
    <3>1. q \in Seq(Node) /\ m \in 1..Len(q)
      BY <1>6, <1>7, <2>2, PlaceFacts DEF IsPlace
    <3>2. g.tables[u].buckets[c] = RemoveAt(q, m)
      BY <1>10, <2>1, <2>2
    <3>3. l \in 1..Len(q) /\ l # m
      BY <1>14, <2>1, <2>2
    <3> HIDE DEF q
    <3>4. Len(RemoveAt(q, m)) = Len(q) - 1 /\ Len(q) \in Nat
      BY <3>1, RemoveAtSeq
    <3>5. j \in Nat /\ j \in 1..Len(q) - 1
      BY <1>12, <3>1, <3>3, <3>4
    <3>6. Back(u, c, j) = l
      BY <1>12, <2>1, <2>2, <3>3
    <3> HIDE DEF Back, j
    <3>7. IsPlace(g, u, c, j)
      BY <1>10, <2>1, <3>2, <3>4, <3>5 DEF IsPlace
    <3>8. QED BY <3>5, <3>6, <3>7
  <2>3. CASE ~(u = t /\ c = b)
    <3>1. Back(u, c, l) = l /\ g.tables[u].buckets[c] = h.tables[u].buckets[c]
      BY <1>10, <2>1, <2>3
    <3> HIDE DEF Back
    <3>2. IsPlace(g, u, c, l)
      BY <1>10, <2>1, <3>1 DEF IsPlace
    <3>3. QED BY <2>1, <3>1, <3>2
  <2>4. QED BY <2>2, <2>3
<1>15. \A u, c : \A x, y \in Nat :
          Back(u, c, x) \in Nat /\ (x <= y <=> Back(u, c, x) <= Back(u, c, y))
  BY <1>12
<1> HIDE DEF Back
<1>16. ASSUME NEW u, NEW c, NEW j, IsPlace(g, u, c, j)
       PROVE  Later(g, i, u, c, j) <=> Later(h, it, u, c, Back(u, c, j))
  <2> DEFINE l == Back(u, c, j)
  <2>1. IsPlace(h, u, c, l) /\ j \in Nat /\ l \in Nat /\ u \in Nat /\ c \in Nat
    BY <1>6, <1>13, <1>15, <1>16, PlaceTypes
  <2>2. CASE u = it.table /\ c = it.bucket - 1 /\ it.next # NoNode
    <3>1. ASSUME NEW x \in 1..j, g.tables[u].buckets[c][x].key = it.next
          PROVE  \E y \in 1..l : h.tables[u].buckets[c][y].key = it.next
      <4>1. x \in Nat /\ x <= j /\ IsPlace(g, u, c, x)
        BY <1>6, <1>16, <2>1, PlaceTypes DEF IsPlace
      <4>2. /\ IsPlace(h, u, c, Back(u, c, x)) /\ Back(u, c, x) \in Nat
            /\ KeyIn(g, u, c, x) = KeyIn(h, u, c, Back(u, c, x))
            /\ Back(u, c, x) <= l
        BY <1>13, <1>15, <2>1, <4>1
      <4>3. Back(u, c, x) >= 1
        BY <1>6, <4>2, PlaceTypes
      <4>4. QED BY <2>1, <3>1, <4>2, <4>3 DEF KeyIn
    <3>2. ASSUME NEW y \in 1..l, h.tables[u].buckets[c][y].key = it.next
          PROVE  \E x \in 1..j : g.tables[u].buckets[c][x].key = it.next
      <4>1. y \in Nat /\ y <= l /\ IsPlace(h, u, c, y)
        BY <1>6, <2>1, PlaceTypes DEF IsPlace
      <4>2. ~(u = t /\ c = b /\ y = m)
        <5>1. SUFFICES ASSUME u = t, c = b, y = m PROVE FALSE
          OBVIOUS
        <5>2. m \in 1..m
          BY <1>12
        <5>3. Later(h, it, t, b, m)
          BY <2>2, <3>2, <5>1, <5>2 DEF Later
        <5>4. QED BY <1>8, <5>3
      <4>3. PICK x \in Nat : IsPlace(g, u, c, x) /\ Back(u, c, x) = y
        BY <1>14, <4>1, <4>2
      <4>4. x <= j
        BY <1>15, <2>1, <4>1, <4>3
      <4>5. x >= 1 /\ KeyIn(g, u, c, x) = KeyIn(h, u, c, y)
        BY <1>13, <4>3
      <4>6. QED BY <2>1, <3>2, <4>4, <4>5 DEF KeyIn
    <3>3. QED BY <1>9, <2>2, <3>1, <3>2 DEF Later
  <2>3. CASE ~(u = it.table /\ c = it.bucket - 1 /\ it.next # NoNode)
    BY <1>9, <2>3 DEF Later
  <2>4. QED BY <2>2, <2>3
<1>17. Coming(g, i) = Coming(h, it)
  <2>1. ASSUME NEW x \in Coming(g, i) PROVE x \in Coming(h, it)
    <3>1. x \in KeysHeld(g)
      BY ComingHeld
    <3>2. PICK u, c, j : IsPlace(g, u, c, j) /\ KeyIn(g, u, c, j) = x
      BY <1>6, <3>1, HeldAt
    <3>3. Later(g, i, u, c, j)
      BY <1>6, <3>2, ComingAt
    <3>4. /\ Later(h, it, u, c, Back(u, c, j)) /\ IsPlace(h, u, c, Back(u, c, j))
          /\ KeyIn(h, u, c, Back(u, c, j)) = x
      BY <1>13, <1>16, <3>2, <3>3
    <3>5. QED BY <1>6, <3>4, ComingAt
  <2>2. ASSUME NEW x \in Coming(h, it) PROVE x \in Coming(g, i)
    <3>1. x \in KeysHeld(h)
      BY ComingHeld
    <3>2. PICK u, c, l : IsPlace(h, u, c, l) /\ KeyIn(h, u, c, l) = x
      BY <1>6, <3>1, HeldAt
    <3>3. Later(h, it, u, c, l)
      BY <1>6, <3>2, ComingAt
    <3>4. ~(u = t /\ c = b /\ l = m)
      BY <1>8, <3>3
    <3>5. PICK j \in Nat : IsPlace(g, u, c, j) /\ Back(u, c, j) = l
      BY <1>14, <3>2, <3>4
    <3>6. Later(g, i, u, c, j) /\ KeyIn(g, u, c, j) = x
      BY <1>13, <1>16, <3>2, <3>3, <3>5
    <3>7. QED BY <1>6, <3>5, <3>6, ComingAt
  <2>3. QED BY <2>1, <2>2
<1>18. i.next # NoNode => NextPlaced(g, i)
  <2> SUFFICES ASSUME i.next # NoNode PROVE NextPlaced(g, i)
    OBVIOUS
  <2> DEFINE u == it.table
             c == it.bucket - 1
  <2>1. NextPlaced(h, it)
    BY <1>2, <1>9 DEF Underway
  <2>2. PICK l \in 1..Len(h.tables[u].buckets[c]) :
                h.tables[u].buckets[c][l].key = it.next
    BY <2>1 DEF NextPlaced
  <2>3. IsPlace(h, u, c, l) /\ KeyIn(h, u, c, l) = it.next
    BY <1>11, <2>1, <2>2 DEF IsPlace, KeyIn, NextPlaced
  <2>4. l \in Nat /\ l >= 1
    BY <1>6, <2>3, PlaceTypes
  <2>5. Later(h, it, u, c, l)
    <3>1. l \in 1..l /\ it.next # NoNode
      BY <1>9, <2>4
    <3>2. \E x \in 1..l : h.tables[u].buckets[c][x].key = it.next
      BY <2>2, <3>1
    <3>3. QED BY <3>1, <3>2 DEF Later
  <2> HIDE DEF u, c
  <2>6. ~(u = t /\ c = b /\ l = m)
    <3>1. SUFFICES ASSUME u = t, c = b, l = m PROVE FALSE
      OBVIOUS
    <3>2. Later(h, it, t, b, m)
      BY <2>5, <3>1
    <3>3. QED BY <1>8, <3>2
  <2>7. PICK j \in Nat : IsPlace(g, u, c, j) /\ Back(u, c, j) = l
    BY <1>14, <2>3, <2>6
  <2>8. KeyIn(g, u, c, j) = it.next
    BY <1>13, <2>3, <2>7
  <2>9. QED BY <1>9, <2>7, <2>8 DEF NextPlaced, IsPlace, KeyIn, u, c
<1>19. Underway(g, i)
  BY <1>2, <1>9, <1>11, <1>17, <1>18 DEF Underway
<1>20. IterationAgrees'
  BY <1>1, <1>2, <1>9, <1>19 DEF IterationAgrees, g
<1>21. QED BY <1>3, <1>4, <1>5, <1>20 DEF g, h, k

-----------------------------------------------------------------------------
(* The steps *)

\* A node looked for is found.
LEMMA NodeFound ==
    ASSUME NEW h, Sound(h), NEW k \in Keys, Present(h, k)
    PROVE  NodeAt(h, k) \in Nodes(h) /\ NodeAt(h, k).key = k /\ NodeAt(h, k) \in Node
<1> DEFINE t == PlaceOf(h, k)
           q == Chain(h.tables[t], k)
<1>1. t \in 0..1 /\ Holds(h.tables[t], k)
  BY PresentFacts DEF Sound
<1>2. t = 0 \/ t = 1
  BY <1>1
<1>3. h.tables[t].slots \in Nat /\ TablePlaced(h.tables[t])
  BY <1>1, <1>2 DEF Sound, Shaped, Arranged
<1> HIDE DEF t
<1>4. q \in Seq(Node) /\ \E i \in 1..Len(q) : q[i].key = k
  BY <1>1, <1>3, HeldChain
<1>5. IndexIn(q, k) \in 1..Len(q) /\ q[IndexIn(q, k)].key = k
  <2> HIDE DEF q
  <2>1. QED BY <1>4, IndexFound
<1>6. Has(h.tables[t], q[IndexIn(q, k)])
  BY <1>3, <1>5, InChainHas
<1>7. NodeAt(h, k) = q[IndexIn(q, k)]
  BY DEF NodeAt, t
<1> HIDE DEF q
<1>8. q[IndexIn(q, k)] \in Nodes(h) /\ Nodes(h) \subseteq Node
  BY <1>2, <1>6, NodesFacts DEF Sound, Arranged
<1>9. QED BY <1>5, <1>7, <1>8

\* Operations that make no call.
LEMMA MaintainSound ==
    ASSUME Sound(hash), NEW budget \in Budgets, Maintain(budget)
    PROVE  Sound(hash') /\ SameNodes(hash', hash)
<1>1. hash' = RehashStep(hash, budget) /\ budget \in Nat
  BY BudgetAssumption DEF Maintain
<1>2. QED BY <1>1, StepSound

\* The table is cleared, or made anew.
LEMMA EmptiedSound ==
    ASSUME hash_clear \/ kvstore_hash_create
    PROVE  Sound(hash') /\ \A n : n \notin Nodes(hash')
  BY ClearSound, InitSound DEF hash_clear, kvstore_hash_create

\* What the steps are, without what only the proofs of a part need.
LEMMA SoundNext ==
    ASSUME Sound(hash), IterationAgrees, [Next]_vars
    PROVE  Sound(hash') /\ IterationAgrees'
<1>1. CASE UNCHANGED vars \/ Return
  <2>1. UNCHANGED <<hash, it>>
    BY <1>1 DEF vars, Return
  <2>2. QED BY <2>1 DEF IterationAgrees
<1>2. ASSUME Outside, Sound(hash') PROVE Sound(hash') /\ IterationAgrees'
  BY <1>2, NoIterationAgrees DEF Outside
<1>3. ASSUME NEW k \in Keys, kvs_hash_get(k) PROVE Sound(hash') /\ IterationAgrees'
  BY <1>2, <1>3 DEF kvs_hash_get
<1>4. ASSUME NEW k \in Keys, kvs_hash_delete(k) PROVE Sound(hash') /\ IterationAgrees'
  <2>1. Outside
    BY <1>4 DEF kvs_hash_delete
  <2>2. QED BY <1>2, <1>4, <2>1, DeleteSound
<1>5. ASSUME NEW k \in Keys, kvs_hash_modify(k) PROVE Sound(hash') /\ IterationAgrees'
  <2>1. Outside
    BY <1>5 DEF kvs_hash_modify
  <2>2. QED BY <1>2, <1>5, <2>1, ModifySound
<1>6. ASSUME NEW k \in Keys, NEW op \in {"set", "upsert"}, set_bytes(op, k)
      PROVE  Sound(hash') /\ IterationAgrees'
  <2>1. Outside
    BY <1>6 DEF set_bytes
  <2>2. Sound(hash')
    BY <1>6, SetSound
  <2>3. QED BY <1>2, <2>1, <2>2
<1>7. ASSUME NEW budget \in Budgets, Maintain(budget)
      PROVE  Sound(hash') /\ IterationAgrees'
  <2>1. Outside
    BY <1>7 DEF Maintain
  <2>2. QED BY <1>2, <1>7, <2>1, MaintainSound
<1>8. CASE hash_clear \/ kvstore_hash_create
  <2>1. Outside
    BY <1>8 DEF hash_clear, kvstore_hash_create
  <2>2. QED BY <1>2, <1>8, <2>1, EmptiedSound
<1>9. CASE kv_hash_iterator_begin
  BY <1>9, BeginAgrees DEF kv_hash_iterator_begin
<1>10. CASE NextInChain
  BY <1>10, NextInChainAgrees DEF NextInChain
<1>11. CASE NextBucket
  BY <1>11, NextBucketAgrees DEF NextBucket
<1>12. CASE RemoveGiven
  BY <1>12, RemoveGivenAgrees
<1>13. CASE IterationEnds
  BY <1>13, EndsAgrees DEF IterationEnds
<1>14. CASE IterationStops
  BY <1>14, NoIterationAgrees DEF IterationStops
<1>15. QED
  BY <1>1, <1>3, <1>4, <1>5, <1>6, <1>7, <1>8, <1>9, <1>10, <1>11, <1>12, <1>13, <1>14
     DEF Next

\* Every answer is a payload or one of the codes.
LEMMA AnsweredNext ==
    ASSUME Sound(hash), Answered, [Next]_vars
    PROVE  Answered'
<1> DEFINE A == Values \cup {"ok", "exists", "missing", "error"}
<1>1. ASSUME NEW op, NEW k, NEW answer \in A, Answers(op, k, answer) PROVE Answered'
  BY <1>1 DEF Answers, Answered
<1>2. ASSUME UNCHANGED call PROVE Answered'
  BY <1>2 DEF Answered
<1>3. ASSUME NEW k \in Keys, kvs_hash_get(k) PROVE Answered'
  <2>1. Answers("get", k, IF Present(hash, k) THEN NodeAt(hash, k).payload
                                              ELSE "missing")
    BY <1>3 DEF kvs_hash_get
  <2>2. Present(hash, k) => NodeAt(hash, k).payload \in Values
    BY NodeFound DEF Node
  <2>3. (IF Present(hash, k) THEN NodeAt(hash, k).payload ELSE "missing") \in A
    BY <2>2
  <2>4. QED BY <1>1, <2>1, <2>3
<1>4. ASSUME NEW k \in Keys, kvs_hash_delete(k) PROVE Answered'
  <2>1. Answers("delete", k, IF k \in KeysHeld(hash) THEN "ok" ELSE "missing")
    BY <1>4, DeleteSound
  <2>2. QED BY <1>1, <2>1
<1>5. ASSUME NEW k \in Keys, kvs_hash_modify(k) PROVE Answered'
  <2>1. Answers("modify", k, "error") \/ Answers("modify", k, "ok")
    BY <1>5 DEF kvs_hash_modify
  <2>2. QED BY <1>1, <2>1
<1>6. ASSUME NEW k \in Keys, NEW op \in {"set", "upsert"}, set_bytes(op, k)
      PROVE  Answered'
  <2>1. \/ Answers(op, k, "exists") \/ Answers(op, k, "error") \/ Answers(op, k, "ok")
    BY <1>6, SetSound
  <2>2. QED BY <1>1, <2>1
<1>7. CASE RemoveGiven
  <2>1. Answers("delete", it.given, "ok")
    BY <1>7 DEF RemoveGiven
  <2>2. QED BY <1>1, <2>1
<1>8. CASE Return
  BY <1>8 DEF Return, Answered
<1>9. CASE \/ \E budget \in Budgets : Maintain(budget)
           \/ hash_clear \/ kvstore_hash_create
           \/ kv_hash_iterator_begin \/ NextInChain \/ NextBucket
           \/ IterationEnds \/ IterationStops \/ UNCHANGED vars
  BY <1>2, <1>9 DEF Maintain, hash_clear, kvstore_hash_create, kv_hash_iterator_begin,
       NextInChain, NextBucket, IterationEnds, IterationStops, vars
<1>10. QED BY <1>3, <1>4, <1>5, <1>6, <1>7, <1>8, <1>9 DEF Next

-----------------------------------------------------------------------------
(* The map *)

\* The map a table stands for.
Content(h) == [k \in KeysHeld(h) |-> (CHOOSE n \in Nodes(h) : n.key = k).payload]

\* The contents now and after a step.
LEMMA ContentsIs == Contents = Content(hash) /\ Contents' = Content(hash')
  BY DEF Contents, Content, KeysHeld

\* A key has one node.
LEMMA NodeOnce ==
    ASSUME NEW h, Sound(h), NEW m \in Nodes(h), NEW n \in Nodes(h), m.key = n.key
    PROVE  m = n
<1>1. /\ Has(h.tables[0], m) \/ Has(h.tables[1], m)
      /\ Has(h.tables[0], n) \/ Has(h.tables[1], n)
      /\ m \in Node /\ n \in Node
  BY NodesFacts DEF Sound, Arranged
<1>2. /\ h.tables[0].slots \in Nat /\ TablePlaced(h.tables[0])
      /\ h.tables[1].slots \in Nat /\ TablePlaced(h.tables[1])
  BY DEF Sound, Shaped, Arranged
<1>3. ~(Has(h.tables[0], m) /\ Has(h.tables[1], n))
      /\ ~(Has(h.tables[1], m) /\ Has(h.tables[0], n))
  BY <1>1 DEF Sound, Arranged
<1>4. QED BY <1>1, <1>2, <1>3, HasOnce

\* The payload of a node.
LEMMA ContentAt ==
    ASSUME NEW h, Sound(h), NEW n \in Nodes(h)
    PROVE  n.key \in KeysHeld(h) /\ Content(h)[n.key] = n.payload
<1>1. n.key \in KeysHeld(h)
  BY DEF KeysHeld
<1> DEFINE m == CHOOSE x \in Nodes(h) : x.key = n.key
<1>2. m \in Nodes(h) /\ m.key = n.key
  OBVIOUS
<1>3. Content(h)[n.key] = m.payload
  BY <1>1 DEF Content
<1> HIDE DEF m
<1>4. m = n
  BY <1>2, NodeOnce
<1>5. QED BY <1>1, <1>3, <1>4

\* The same nodes, the same map.
LEMMA SameContent ==
    ASSUME NEW g, NEW h, SameNodes(g, h) PROVE Content(g) = Content(h)
<1>1. Nodes(g) = Nodes(h) /\ KeysHeld(g) = KeysHeld(h)
  BY SameCounted
<1>2. QED BY <1>1 DEF Content

\* No nodes, the empty map.
LEMMA EmptyContent ==
    ASSUME NEW h, \A n : n \notin Nodes(h) PROVE Content(h) = <<>>
<1>1. KeysHeld(h) = {}
  BY DEF KeysHeld
<1>2. QED BY <1>1 DEF Content

\* A key stored.
LEMMA StoredContent ==
    ASSUME NEW g, NEW h, Sound(g), Sound(h), NEW k \in Keys, NEW v \in Values,
           Stores(g, h, k, v)
    PROVE  Content(g) = [j \in DOMAIN Content(h) \cup {k} |->
                            IF j = k THEN v ELSE Content(h)[j]]
<1> DEFINE node == [key |-> k, payload |-> v]
<1>1. node \in Nodes(g) /\ node.key = k /\ node.payload = v
  BY DEF Stores
<1>2. KeysHeld(g) = KeysHeld(h) \cup {k}
  <2>1. ASSUME NEW j \in KeysHeld(g) PROVE j \in KeysHeld(h) \cup {k}
    <3>1. PICK n \in Nodes(g) : n.key = j
      BY DEF KeysHeld
    <3>2. QED BY <3>1 DEF Stores, KeysHeld
  <2>2. ASSUME NEW j \in KeysHeld(h), j # k PROVE j \in KeysHeld(g)
    <3>1. PICK n \in Nodes(h) : n.key = j
      BY DEF KeysHeld
    <3>2. QED BY <2>2, <3>1 DEF Stores, KeysHeld
  <2>3. k \in KeysHeld(g)
    BY <1>1 DEF KeysHeld
  <2>4. QED BY <2>1, <2>2, <2>3
<1>3. Content(g)[k] = v
  BY <1>1, ContentAt
<1>4. ASSUME NEW j \in KeysHeld(g), j # k PROVE Content(g)[j] = Content(h)[j]
  <2>1. PICK n \in Nodes(h) : n.key = j
    BY <1>2, <1>4 DEF KeysHeld
  <2>2. n \in Nodes(g)
    BY <1>4, <2>1 DEF Stores
  <2>3. Content(h)[n.key] = n.payload
    BY ContentAt
  <2>4. Content(g)[n.key] = n.payload
    BY <2>2, ContentAt
  <2>5. QED BY <2>1, <2>3, <2>4
<1>5. DOMAIN Content(h) = KeysHeld(h) /\ DOMAIN Content(g) = KeysHeld(g)
      /\ Content(g) = [j \in KeysHeld(g) |-> Content(g)[j]]
  BY DEF Content
<1>6. QED BY <1>2, <1>3, <1>4, <1>5

Without(f, k) == [j \in DOMAIN f \ {k} |-> f[j]]

\* A key removed.
LEMMA RemovedContent ==
    ASSUME NEW g, NEW h, Sound(g), Sound(h), NEW k \in Keys, Removes(g, h, k)
    PROVE  Content(g) = Without(Content(h), k)
<1>1. KeysHeld(g) = KeysHeld(h) \ {k}
  <2>1. ASSUME NEW j \in KeysHeld(g) PROVE j \in KeysHeld(h) /\ j # k
    <3>1. PICK n \in Nodes(g) : n.key = j
      BY DEF KeysHeld
    <3>2. QED BY <3>1 DEF Removes, KeysHeld
  <2>2. ASSUME NEW j \in KeysHeld(h), j # k PROVE j \in KeysHeld(g)
    <3>1. PICK n \in Nodes(h) : n.key = j
      BY DEF KeysHeld
    <3>2. QED BY <2>2, <3>1 DEF Removes, KeysHeld
  <2>3. QED BY <2>1, <2>2
<1>2. ASSUME NEW j \in KeysHeld(g) PROVE Content(g)[j] = Content(h)[j]
  <2>1. PICK n \in Nodes(g) : n.key = j
    BY DEF KeysHeld
  <2>2. n \in Nodes(h)
    BY <2>1 DEF Removes
  <2>3. Content(h)[n.key] = n.payload
    BY <2>2, ContentAt
  <2>4. Content(g)[n.key] = n.payload
    BY ContentAt
  <2>5. QED BY <2>1, <2>3, <2>4
<1>3. DOMAIN Content(h) = KeysHeld(h) /\ DOMAIN Content(g) = KeysHeld(g)
      /\ Content(g) = [j \in KeysHeld(g) |-> Content(g)[j]]
  BY DEF Content
<1>4. QED BY <1>1, <1>2, <1>3 DEF Without

\* A call made is one of the map.
LEMMA AnsweredCall ==
    ASSUME NEW op \in {"get", "set", "upsert", "modify", "delete"}, NEW k \in Keys,
           NEW answer \in Values \cup {"ok", "exists", "missing", "error"},
           Answers(op, k, answer)
    PROVE  Map!Called(op, k) /\ call'.answer = answer
<1>1. call = NoCall /\ call' = [op |-> op, key |-> k, answer |-> answer]
  BY DEF Answers
<1>2. call' # NoCall
  BY <1>1, SentinelAssumption
<1>3. QED BY <1>1, <1>2 DEF Map!Called

\* Every step is a step of the map, or leaves it and the call alone.
LEMMA MapStep ==
    ASSUME Sound(hash), IterationAgrees, [Next]_vars
    PROVE  [Map!MapNext]_Map!mapVars
<1>1. Contents = Content(hash) /\ Contents' = Content(hash')
      /\ DOMAIN Content(hash) = KeysHeld(hash)
  BY ContentsIs DEF Content
<1>2. ASSUME SameNodes(hash', hash) PROVE UNCHANGED Contents
  BY <1>1, <1>2, SameContent
<1>3. ASSUME UNCHANGED hash PROVE UNCHANGED Contents
  BY <1>1, <1>3
<1>4. ASSUME NEW k \in Keys, NEW v \in Values, Sound(hash'), Stores(hash', hash, k, v),
             call'.answer = "ok"
      PROVE  Map!Stored(k)
  BY <1>1, <1>4, StoredContent DEF Map!Stored
<1>a. ASSUME NEW k \in Keys, Sound(hash'), Removes(hash', hash, k)
      PROVE  Contents' = [j \in DOMAIN Contents \ {k} |-> Contents[j]]
  <2>1. Content(hash') = Without(Content(hash), k)
    BY <1>a, RemovedContent
  <2>2. QED BY <1>1, <2>1 DEF Without
<1>5. ASSUME NEW k \in Keys, kvs_hash_get(k) PROVE Map!Get(k)
  <2>1. /\ Answers("get", k, IF Present(hash, k) THEN NodeAt(hash, k).payload
                                                 ELSE "missing")
        /\ UNCHANGED hash
    BY <1>5 DEF kvs_hash_get
  <2>2. Present(hash, k) <=> k \in KeysHeld(hash)
    BY PresentFacts DEF Sound
  <2>3. Present(hash, k) => /\ NodeAt(hash, k).payload \in Values
                            /\ Content(hash)[k] = NodeAt(hash, k).payload
    <3>1. SUFFICES ASSUME Present(hash, k)
                   PROVE  /\ NodeAt(hash, k).payload \in Values
                          /\ Content(hash)[k] = NodeAt(hash, k).payload
      OBVIOUS
    <3>2. NodeAt(hash, k) \in Nodes(hash) /\ NodeAt(hash, k).key = k
          /\ NodeAt(hash, k) \in Node
      BY <3>1, NodeFound
    <3>3. QED BY <3>2, ContentAt DEF Node
  <2> DEFINE a == IF Present(hash, k) THEN NodeAt(hash, k).payload ELSE "missing"
  <2>4. a \in Values \cup {"ok", "exists", "missing", "error"}
        /\ a = IF k \in KeysHeld(hash) THEN Content(hash)[k] ELSE "missing"
    BY <2>2, <2>3
  <2> HIDE DEF a
  <2>5. Answers("get", k, a)
    BY <2>1 DEF a
  <2>6. Map!Called("get", k) /\ call'.answer = a
    BY <2>4, <2>5, AnsweredCall
  <2>7. UNCHANGED Contents
    BY <1>3, <2>1
  <2>8. QED BY <1>1, <2>4, <2>6, <2>7 DEF Map!Get, Map!Holding
<1>6. ASSUME NEW k \in Keys, kvs_hash_delete(k) PROVE Map!Delete(k)
  <2> DEFINE a == IF k \in KeysHeld(hash) THEN "ok" ELSE "missing"
  <2>1. Sound(hash') /\ Answers("delete", k, a) /\ Removes(hash', hash, k)
    BY <1>6, DeleteSound
  <2>2. a \in Values \cup {"ok", "exists", "missing", "error"}
    OBVIOUS
  <2> HIDE DEF a
  <2>3. Map!Called("delete", k) /\ call'.answer = a
    BY <2>1, <2>2, AnsweredCall
  <2>4. Contents' = [j \in DOMAIN Contents \ {k} |-> Contents[j]]
    BY <1>a, <2>1
  <2>5. QED BY <1>1, <2>3, <2>4 DEF Map!Delete, Map!Holding, a
<1>7. CASE RemoveGiven
  <2> DEFINE k == it.given
  <2>1. Sound(hash') /\ k \in Keys /\ k \in KeysHeld(hash) /\ Removes(hash', hash, k)
    BY <1>7, RemoveGivenAgrees
  <2>2. Answers("delete", k, "ok")
    BY <1>7 DEF RemoveGiven
  <2> HIDE DEF k
  <2>3. Map!Called("delete", k) /\ call'.answer = "ok"
    BY <2>1, <2>2, AnsweredCall
  <2>4. Contents' = [j \in DOMAIN Contents \ {k} |-> Contents[j]]
    BY <1>a, <2>1
  <2>5. Map!Delete(k)
    BY <1>1, <2>1, <2>3, <2>4 DEF Map!Delete, Map!Holding
  <2>6. QED BY <2>1, <2>5 DEF Map!MapNext
<1>8. ASSUME NEW k \in Keys, kvs_hash_modify(k) PROVE Map!Modify(k)
  <2>1. Sound(hash')
    BY <1>8, ModifySound
  <2>2. CASE Answers("modify", k, "error") /\ SameNodes(hash', hash)
    <3>1. Map!Called("modify", k) /\ call'.answer = "error"
      BY <2>2, AnsweredCall
    <3>2. QED BY <1>2, <2>2, <3>1 DEF Map!Modify, Map!Failed
  <2>3. CASE /\ Answers("modify", k, "ok") /\ k \in KeysHeld(hash)
             /\ \E v \in Values : Stores(hash', hash, k, v)
    <3>1. Map!Called("modify", k) /\ call'.answer = "ok"
      BY <2>3, AnsweredCall
    <3>2. Map!Stored(k)
      BY <1>4, <2>1, <2>3, <3>1
    <3>3. QED BY <1>1, <2>3, <3>1, <3>2 DEF Map!Modify, Map!Holding
  <2>4. QED BY <1>8, <2>2, <2>3, ModifySound
<1>9. ASSUME NEW k \in Keys, NEW op \in {"set", "upsert"}, set_bytes(op, k)
      PROVE  Map!Set(k) \/ Map!Upsert(k)
  <2>1. Sound(hash')
    BY <1>9, SetSound
  <2>2. CASE /\ Answers(op, k, "exists") /\ k \in KeysHeld(hash) /\ op = "set"
             /\ SameNodes(hash', hash)
    <3>1. Map!Called("set", k) /\ call'.answer = "exists"
      BY <2>2, AnsweredCall
    <3>2. QED BY <1>1, <1>2, <2>2, <3>1 DEF Map!Set, Map!Holding
  <2>3. CASE /\ Answers(op, k, "error") /\ (op = "set" => k \notin KeysHeld(hash))
             /\ SameNodes(hash', hash)
    <3>1. Map!Called(op, k) /\ call'.answer = "error"
      BY <2>3, AnsweredCall
    <3>2. Map!Failed
      BY <1>2, <2>3, <3>1 DEF Map!Failed
    <3>3. QED BY <1>1, <2>3, <3>1, <3>2 DEF Map!Set, Map!Upsert, Map!Holding
  <2>4. CASE /\ Answers(op, k, "ok") /\ (op = "set" => k \notin KeysHeld(hash))
             /\ \E v \in Values : Stores(hash', hash, k, v)
    <3>1. Map!Called(op, k) /\ call'.answer = "ok"
      BY <2>4, AnsweredCall
    <3>2. Map!Stored(k)
      BY <1>4, <2>1, <2>4, <3>1
    <3>3. QED BY <1>1, <2>4, <3>1, <3>2 DEF Map!Set, Map!Upsert, Map!Holding
  <2>5. QED BY <1>9, <2>2, <2>3, <2>4, SetSound
<1>10. ASSUME NEW budget \in Budgets, Maintain(budget) PROVE UNCHANGED Map!mapVars
  <2>1. UNCHANGED Contents
    BY <1>2, <1>10, MaintainSound
  <2>2. QED BY <1>10, <2>1 DEF Maintain, Map!mapVars
<1>11. CASE hash_clear \/ kvstore_hash_create
  <2>1. Contents' = <<>>
    BY <1>1, <1>11, EmptiedSound, EmptyContent
  <2>2. call = NoCall /\ UNCHANGED call
    BY <1>11 DEF hash_clear, kvstore_hash_create
  <2>3. QED BY <2>1, <2>2 DEF Map!MapNext, Map!Clear
<1>12. CASE Return
  <2>1. call' = NoCall /\ UNCHANGED hash
    BY <1>12 DEF Return
  <2>2. UNCHANGED Contents
    BY <1>3, <2>1
  <2>3. QED BY <2>1, <2>2 DEF Map!MapNext, Map!Return
<1>13. CASE \/ kv_hash_iterator_begin \/ NextInChain \/ NextBucket
            \/ IterationEnds \/ IterationStops \/ UNCHANGED vars
  <2>1. UNCHANGED <<hash, call>>
    BY <1>13 DEF kv_hash_iterator_begin, NextInChain, NextBucket, IterationEnds,
         IterationStops, vars
  <2>2. UNCHANGED Contents
    BY <1>3, <2>1
  <2>3. QED BY <2>1, <2>2 DEF Map!mapVars
<1>14. ASSUME NEW k \in Keys,
              Map!Get(k) \/ Map!Delete(k) \/ Map!Modify(k) \/ Map!Set(k) \/ Map!Upsert(k)
       PROVE  Map!MapNext
  BY <1>14 DEF Map!MapNext
<1>15. QED
  BY <1>5, <1>6, <1>7, <1>8, <1>9, <1>10, <1>11, <1>12, <1>13, <1>14 DEF Next

\* What NodesPlaced says, from the invariant.
LEMMA PlacedFacts == ASSUME Sound(hash), Answered PROVE NodesPlaced
<1> DEFINE n == hash.tables[0].slots
           PlacesIn(t) ==
               UNION {{<<t, b, i>> : i \in DOMAIN hash.tables[t].buckets[b]} :
                         b \in DOMAIN hash.tables[t].buckets}
           places == PlacesIn(0) \cup PlacesIn(1)
           KeyAt(p) == hash.tables[p[1]].buckets[p[2]][p[3]].key
<1>1. Shaped(hash) /\ Roomy(hash) /\ Arranged(hash) /\ Counted(hash)
  BY DEF Sound
<1>2. /\ TablePlaced(hash.tables[0]) /\ TablePlaced(hash.tables[1])
      /\ DOMAIN hash.tables = 0..1
  BY <1>1 DEF Arranged, Shaped
<1>3. \A t \in 0..1 : /\ hash.tables[t].buckets \in Buckets(hash.tables[t])
                      /\ hash.tables[t].slots \in Nat
  <2>1. \A t \in 0..1 : t = 0 \/ t = 1
    OBVIOUS
  <2>2. QED BY <1>1, <1>2, <2>1 DEF TablePlaced, Shaped
<1>4. TypeOK
  <2>1. hash.count \in Nat /\ hash.rehash_index \in Nat \cup {RehashNone}
    BY <1>1, FS_CardinalityType DEF Counted, Shaped
  <2>2. QED BY <1>2, <1>3, <2>1 DEF TypeOK, Answered
<1>5. ASSUME NEW t \in 0..1, NEW p
      PROVE  p \in PlacesIn(t) <=> /\ p = <<t, p[2], p[3]>>
                                   /\ IsPlace(hash, t, p[2], p[3])
  <2>1. DOMAIN hash.tables[t].buckets = 0..hash.tables[t].slots - 1
    BY <1>3 DEF Buckets
  <2>2. \A b \in 0..hash.tables[t].slots - 1 :
           DOMAIN hash.tables[t].buckets[b] = 1..Len(hash.tables[t].buckets[b])
    BY <1>3 DEF Buckets
  <2>3. p \in PlacesIn(t) <=>
          \E b \in 0..hash.tables[t].slots - 1 :
             \E i \in 1..Len(hash.tables[t].buckets[b]) : p = <<t, b, i>>
    BY <2>1, <2>2
  <2>4. ASSUME p \in PlacesIn(t)
        PROVE  p = <<t, p[2], p[3]>> /\ IsPlace(hash, t, p[2], p[3])
    <3>1. PICK b \in 0..hash.tables[t].slots - 1 :
             \E i \in 1..Len(hash.tables[t].buckets[b]) : p = <<t, b, i>>
      BY <2>3, <2>4
    <3>2. PICK i \in 1..Len(hash.tables[t].buckets[b]) : p = <<t, b, i>>
      BY <3>1
    <3>3. p[2] = b /\ p[3] = i
      BY <3>2
    <3>4. QED BY <3>2, <3>3 DEF IsPlace
  <2>5. ASSUME p = <<t, p[2], p[3]>>, IsPlace(hash, t, p[2], p[3])
        PROVE  p \in PlacesIn(t)
    BY <2>3, <2>5 DEF IsPlace
  <2>6. QED BY <2>4, <2>5
<1> HIDE DEF PlacesIn
<1>6. ASSUME NEW p \in places
      PROVE  /\ p = <<p[1], p[2], p[3]>> /\ IsPlace(hash, p[1], p[2], p[3])
             /\ KeyAt(p) = KeyIn(hash, p[1], p[2], p[3])
  <2>1. PICK t \in 0..1 : p \in PlacesIn(t)
    OBVIOUS
  <2>2. p = <<t, p[2], p[3]>> /\ IsPlace(hash, t, p[2], p[3])
    BY <1>5, <2>1
  <2>3. p[1] = t
    BY <2>2
  <2>4. QED BY <2>2, <2>3 DEF KeyIn
<1>7. ASSUME NEW t, NEW b, NEW j, IsPlace(hash, t, b, j) PROVE <<t, b, j>> \in places
  <2>1. t = 0 \/ t = 1
    BY <1>7 DEF IsPlace
  <2>2. <<t, b, j>>[2] = b /\ <<t, b, j>>[3] = j
    OBVIOUS
  <2>3. <<t, b, j>> \in PlacesIn(t)
    BY <1>5, <1>7, <2>1, <2>2
  <2>4. QED BY <2>1, <2>3
<1> HIDE DEF places, KeyAt
<1>8. ASSUME NEW p \in places
      PROVE  /\ KeyAt(p) \in KeysHeld(hash)
             /\ HashCode[KeyAt(p)] % hash.tables[p[1]].slots = p[2]
             /\ p[1] = 0 /\ IsRehashing(hash) => p[2] >= hash.rehash_index
  <2>1. /\ KeyAt(p) \in KeysHeld(hash)
        /\ HashCode[KeyAt(p)] % hash.tables[p[1]].slots = p[2]
    BY <1>1, <1>6, PlaceFacts
  <2>2. ASSUME p[1] = 0, IsRehashing(hash) PROVE p[2] >= hash.rehash_index
    <3>1. p[2] \in Nat /\ p[3] \in 1..Len(hash.tables[0].buckets[p[2]])
      BY <1>1, <1>6, <2>2, PlaceTypes DEF IsPlace
    <3>2. hash.rehash_index \in Nat
      BY <1>1, <2>2 DEF Shaped, IsRehashing
    <3>3. hash.tables[0].buckets[p[2]] # <<>>
      BY <3>1
    <3>4. ~(p[2] \in 0..hash.rehash_index - 1)
      BY <1>1, <2>2, <3>3 DEF Arranged
    <3>5. QED BY <3>1, <3>2, <3>4
  <2>3. QED BY <2>1, <2>2
<1>9. ASSUME NEW p \in places, NEW q \in places, KeyAt(p) = KeyAt(q) PROVE p = q
  <2>1. /\ p = <<p[1], p[2], p[3]>> /\ IsPlace(hash, p[1], p[2], p[3])
        /\ KeyAt(p) = KeyIn(hash, p[1], p[2], p[3])
    BY <1>6
  <2>2. /\ q = <<q[1], q[2], q[3]>> /\ IsPlace(hash, q[1], q[2], q[3])
        /\ KeyAt(q) = KeyIn(hash, q[1], q[2], q[3])
    BY <1>6
  <2>3. p[1] = q[1] /\ p[2] = q[2] /\ p[3] = q[3]
    <3>1. \A t, b, j, u, c, l :
             IsPlace(hash, t, b, j) /\ IsPlace(hash, u, c, l)
             /\ KeyIn(hash, t, b, j) = KeyIn(hash, u, c, l) => t = u /\ b = c /\ j = l
      BY <1>1, PlaceOnce
    <3>2. KeyIn(hash, p[1], p[2], p[3]) = KeyIn(hash, q[1], q[2], q[3])
      BY <1>9, <2>1, <2>2
    <3>3. QED BY <2>1, <2>2, <3>1, <3>2
  <2>4. QED BY <2>1, <2>2, <2>3
<1>10. ASSUME NEW k \in KeysHeld(hash) PROVE \E p \in places : KeyAt(p) = k
  <2>1. PICK t, b, j : IsPlace(hash, t, b, j) /\ KeyIn(hash, t, b, j) = k
    BY <1>1, HeldAt
  <2> DEFINE p == <<t, b, j>>
  <2>2. p \in places
    BY <1>7, <2>1
  <2>3. p[1] = t /\ p[2] = b /\ p[3] = j
    OBVIOUS
  <2> HIDE DEF p
  <2>4. KeyAt(p) = k
    BY <1>6, <2>1, <2>2, <2>3
  <2>5. QED BY <2>2, <2>4
<1>11. hash.count = Cardinality(places)
  <2> DEFINE f == [p \in places |-> KeyAt(p)]
  <2>1. f \in Injection(places, KeysHeld(hash))
    BY <1>8, <1>9 DEF Injection, IsInjective
  <2>2. f \in Surjection(places, KeysHeld(hash))
    BY <1>8, <1>10 DEF Surjection
  <2> HIDE DEF f
  <2>3. Cardinality(places) = Cardinality(KeysHeld(hash))
    BY <1>1, <2>1, <2>2, FS_Injection DEF Counted
  <2>4. QED BY <1>1, <2>3 DEF Counted
<1>12. IF IsRehashing(hash)
       THEN hash.tables[1].slots = 2 * n /\ hash.rehash_index < n
       ELSE hash.tables[1] = NoTable
  BY <1>1 DEF Roomy, Arranged
<1>13. QED BY <1>4, <1>8, <1>9, <1>11, <1>12 DEF NodesPlaced, places, KeyAt, PlacesIn

\* What IterationExact says, from the invariant.
LEMMA ExactFacts == ASSUME Sound(hash), IterationAgrees PROVE IterationExact
<1>1. Shaped(hash) /\ Arranged(hash)
  BY DEF Sound
<1>2. CASE it.on
  <2>1. Underway(hash, it) /\ IsInjective(it.seen)
    BY <1>2 DEF IterationAgrees
  <2>2. Range(it.seen) \subseteq it.held /\ it.table # 2
    BY <2>1 DEF Underway
  <2>3. ASSUME it.next # NoNode PROVE it.next \in KeysHeld(hash)
    <3> DEFINE t == it.table
               b == it.bucket - 1
    <3>1. NextPlaced(hash, it) /\ t \in 0..1
      BY <2>1, <2>3 DEF Underway
    <3>2. PICK j \in 1..Len(hash.tables[t].buckets[b]) :
                  hash.tables[t].buckets[b][j].key = it.next
      BY <3>1 DEF NextPlaced
    <3>3. IsPlace(hash, t, b, j) /\ KeyIn(hash, t, b, j) = it.next
      BY <3>1, <3>2 DEF IsPlace, KeyIn, NextPlaced
    <3> HIDE DEF t, b
    <3>4. QED BY <1>1, <3>3, PlaceFacts
  <2>4. QED BY <2>1, <2>2, <2>3 DEF IterationExact
<1>3. CASE ~it.on
  BY <1>3 DEF IterationAgrees, IterationExact
<1>4. QED BY <1>2, <1>3

\* The invariant holds of a new table.
LEMMA AgreesInit == ASSUME Init PROVE TableAgrees
<1>1. hash = hash_init /\ it = NoIteration /\ call = NoCall
  BY DEF Init
<1>2. QED
  BY <1>1, NoIterationFacts, InitSound DEF TableAgrees, IterationAgrees, Answered

-----------------------------------------------------------------------------
(* The theorems *)

\* The inductive invariant: outside a rehash one more node fits, and in one
\* there are at most as many nodes as tables[0] has buckets and as have moved.
THEOREM RoomyInvariant == Spec => [](Shaped(hash) /\ Roomy(hash))
<1>1. Init => Shaped(hash) /\ Roomy(hash)
  BY InitRoomy DEF Init
<1>2. Shaped(hash) /\ Roomy(hash) /\ [Next]_vars
        => (Shaped(hash) /\ Roomy(hash))'
  BY RoomyNext
<1>3. QED BY <1>1, <1>2, PTL DEF Spec

\* A growth is over before its table is full again: for every number of slots,
\* no more nodes than slots and one for each bucket that was moved, although
\* only one bucket is moved per insertion and allocations may fail.
THEOREM LoadIsBounded == Spec => []LoadBounded
<1>1. Shaped(hash) /\ Roomy(hash) => LoadBounded
  <2> SUFFICES ASSUME Shaped(hash), Roomy(hash) PROVE LoadBounded
    OBVIOUS
  <2>1. hash.count \in Int /\ hash.tables[0].slots \in Nat
    BY DEF Shaped
  <2>2. CASE IsRehashing(hash)
    BY <2>1, <2>2 DEF LoadBounded, Roomy
  <2>3. CASE ~IsRehashing(hash)
    BY <2>1, <2>3 DEF LoadBounded, Roomy
  <2>4. QED BY <2>2, <2>3
<1>2. QED BY <1>1, RoomyInvariant, PTL

\* The inductive invariant: every node is where it is looked for and counted
\* once, and an iteration has still to come to exactly the keys it has not seen.
THEOREM AgreesInvariant == Spec => []TableAgrees
<1>1. Init => TableAgrees
  BY AgreesInit
<1>2. TableAgrees /\ [Next]_vars => TableAgrees'
  BY SoundNext, AnsweredNext DEF TableAgrees
<1>3. QED BY <1>1, <1>2, PTL DEF Spec

\* Every node is in the bucket its hash code selects and in no bucket that was
\* moved, no key is there twice, and the count is the number of nodes.
THEOREM NodesArePlaced == Spec => []NodesPlaced
<1>1. TableAgrees => NodesPlaced
  BY PlacedFacts DEF TableAgrees
<1>2. QED BY <1>1, AgreesInvariant, PTL

\* An iteration meets every key held when it began exactly once, although its
\* caller removes nodes, and its pointer is never to a node that was freed.
THEOREM IterationIsExact == Spec => []IterationExact
<1>1. TableAgrees => IterationExact
  BY ExactFacts DEF TableAgrees
<1>2. QED BY <1>1, AgreesInvariant, PTL

\* The table with its two arrays, its growth and its failed allocations
\* answers every call as a plain map does.
THEOREM MapIsImplemented == Spec => ImplementsMap
<1>1. Init => Map!MapInit
  <2> SUFFICES ASSUME Init PROVE Map!MapInit
    OBVIOUS
  <2>1. hash = hash_init /\ call = NoCall
    BY DEF Init
  <2>2. Contents = <<>>
    BY <2>1, ContentsIs, InitSound, EmptyContent
  <2>3. QED BY <2>1, <2>2 DEF Map!MapInit
<1>2. TableAgrees /\ [Next]_vars => [Map!MapNext]_Map!mapVars
  BY MapStep DEF TableAgrees
<1>3. QED BY <1>1, <1>2, AgreesInvariant, PTL DEF Spec, ImplementsMap, Map!MapSpec

=============================================================================
