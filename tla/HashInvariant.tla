---------------------------- MODULE HashInvariant ----------------------------
(***************************************************************************)
(* The inductive invariant behind the theorems of HashProofs: the room a   *)
(* rehash leaves (Roomy), where every node is (Arranged), that the count   *)
(* is right (Counted), and what an iteration still has before it           *)
(* (IterationAgrees).  All but the last are operators on a table, so that  *)
(* they can be stated between the steps of one call.                       *)
(***************************************************************************)
EXTENDS Hash

\* The fields of the struct.
Shaped(h) ==
    /\ DOMAIN h = {"tables", "count", "rehash_index"}
    /\ DOMAIN h.tables = 0..1
    /\ \A t \in 0..1 : /\ DOMAIN h.tables[t] = {"slots", "buckets"}
                       /\ h.tables[t].slots \in Nat
    /\ h.count \in Int
    /\ h.rehash_index \in Nat \cup {RehashNone}

\* The room that is left: outside a rehash one more node fits, unless the
\* table was cleared; in a rehash of n buckets no more than n nodes and one
\* for each bucket moved are there.
Roomy(h) ==
    LET n == h.tables[0].slots
    IN  IF IsRehashing(h)
        THEN /\ n >= 4 /\ h.tables[1].slots = 2 * n
             /\ h.rehash_index < n /\ h.count <= n + h.rehash_index
        ELSE /\ h.tables[1].slots = 0
             /\ (n >= 4 /\ h.count < n) \/ (n = 0 /\ h.count = 0)

-----------------------------------------------------------------------------
(* Where the nodes are *)

\* The nodes of a chain belong to bucket b of n, with different keys.
ChainPlaced(chain, b, n) ==
    /\ \A i \in 1..Len(chain) : HashCode[chain[i].key] % n = b
    /\ \A i, j \in 1..Len(chain) : chain[i].key = chain[j].key => i = j

TablePlaced(table) ==
    /\ table.buckets \in Buckets(table)
    /\ \A b \in 0..table.slots - 1 : ChainPlaced(table.buckets[b], b, table.slots)

\* Node n is in the table.
Has(table, n) ==
    \E b \in 0..table.slots - 1 :
        \E i \in 1..Len(table.buckets[b]) : table.buckets[b][i] = n

\* Every node is where it is looked for, in one of the tables, and the buckets
\* that have been moved are empty.
Arranged(h) ==
    /\ TablePlaced(h.tables[0]) /\ TablePlaced(h.tables[1])
    /\ \A m, n \in Node : Has(h.tables[0], m) /\ Has(h.tables[1], n) => m.key # n.key
    /\ IF IsRehashing(h)
       THEN \A b \in 0..h.rehash_index - 1 : h.tables[0].buckets[b] = <<>>
       ELSE h.tables[1] = NoTable

Counted(h) == IsFiniteSet(KeysHeld(h)) /\ h.count = Cardinality(KeysHeld(h))

Sound(h) == Shaped(h) /\ Roomy(h) /\ Arranged(h) /\ Counted(h)

-----------------------------------------------------------------------------
(* What the iterator has before it *)

\* The iterator i is still to come to place j of bucket b in table t.
Later(h, i, t, b, j) ==
    \/ t > i.table
    \/ t = i.table /\ b >= i.bucket
    \/ /\ t = i.table /\ b = i.bucket - 1 /\ i.next # NoNode
       /\ \E m \in 1..j : h.tables[t].buckets[b][m].key = i.next

Coming(h, i) ==
    {k \in KeysHeld(h) :
        \E t \in 0..1 : \E b \in 0..h.tables[t].slots - 1 :
            \E j \in 1..Len(h.tables[t].buckets[b]) :
                h.tables[t].buckets[b][j].key = k /\ Later(h, i, t, b, j)}

\* The place of the pointer to the next node.
NextPlaced(h, i) ==
    /\ i.bucket - 1 \in 0..h.tables[i.table].slots - 1
    /\ \E j \in 1..Len(h.tables[i.table].buckets[i.bucket - 1]) :
          h.tables[i.table].buckets[i.bucket - 1][j].key = i.next

Underway(h, i) ==
    /\ i.table \in 0..1 /\ i.bucket \in Nat
    /\ i.held = Range(i.seen) \cup Coming(h, i)
    /\ Range(i.seen) \cap Coming(h, i) = {}
    /\ i.next # NoNode => NextPlaced(h, i)
    /\ i.given # NoNode => i.given \in Range(i.seen) /\ i.given \in KeysHeld(h)

Iterators ==
    [on : BOOLEAN, table : Nat, bucket : Nat, next : Keys \cup {NoNode},
     given : Keys \cup {NoNode}, seen : Seq(Keys), held : SUBSET Keys]

IterationAgrees ==
    /\ it \in Iterators
    /\ IsInjective(it.seen)
    /\ it.on => Underway(hash, it)
    /\ ~it.on => it.next = NoNode /\ Range(it.seen) = it.held

-----------------------------------------------------------------------------
Answered ==
    call # NoCall =>
        call.answer \in Values \cup {"ok", "exists", "missing", "error"}

\* The inductive invariant.
TableAgrees == Sound(hash) /\ IterationAgrees /\ Answered

=============================================================================
