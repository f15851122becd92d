-------------------------------- MODULE Hash --------------------------------
(***************************************************************************)
(* The incremental hash table of kvstore_hash.c, the index of the cache,   *)
(* of Hash and Sorted Set objects, of the negative cache, of the loads in  *)
(* flight and of the dirty keys.                                           *)
(*                                                                         *)
(* Keys are chained in buckets.  Past three quarters of its slots a table  *)
(* starts to grow: tables[1] gets twice the slots, new nodes go there, and *)
(* the buckets of tables[0] are moved a few at a time (rehash_index is the *)
(* next one) by the operations that follow and by the maintenance timer.   *)
(* A node is written as its key and its payload; the key also stands for   *)
(* the pointer to the node.  hash & (slots - 1) is hash % slots, slots     *)
(* being a power of two.                                                   *)
(***************************************************************************)
EXTENDS Naturals, Sequences, SequencesExt, FiniteSets, FiniteSetsExt

CONSTANTS Keys,
          Values,
          HashCode,         \* hash_bytes of every key
          InitialSlots,     \* HASH_INITIAL_SLOTS, 16 in the code
          MaxSlots,         \* bound: slots past this cannot be allocated
          EmptyPerBucket,   \* empty buckets skipped per bucket of budget, 10
          Budgets,          \* budgets the maintenance timer may pass
          NoNode,           \* a null node pointer
          NoCall,           \* no call has been answered
          RehashNone        \* HASH_REHASH_NONE

ASSUME HashCodeAssumption == HashCode \in [Keys -> Nat]
ASSUME SlotsAssumption ==
    InitialSlots \in Nat /\ InitialSlots >= 4 /\ \E e \in 2..16 : InitialSlots = 2 ^ e
ASSUME BudgetAssumption == Budgets \subseteq Nat /\ EmptyPerBucket \in Nat
ASSUME SentinelAssumption ==
    /\ NoNode \notin Keys /\ RehashNone \notin Nat
    /\ \A op \in {"get", "set", "upsert", "modify", "delete"}, k \in Keys,
          answer \in Values \cup {"ok", "exists", "missing", "error"} :
             NoCall # [op |-> op, key |-> k, answer |-> answer]

VARIABLES hash,     \* the struct: tables, count and rehash_index
          it,       \* the one iterator in use, or where it stopped
          call      \* the call just made and its answer, until taken

vars == <<hash, it, call>>

Node == [key : Keys, payload : Values]

NoTable == [slots |-> 0, buckets |-> <<>>]

table_allocate(slots) ==
    [slots |-> slots, buckets |-> [b \in 0..slots - 1 |-> <<>>]]

hash_init ==
    [tables |-> [t \in 0..1 |-> IF t = 0 THEN table_allocate(InitialSlots)
                                         ELSE NoTable],
     count |-> 0, rehash_index |-> RehashNone]

IsRehashing(h) == h.rehash_index # RehashNone

-----------------------------------------------------------------------------
(* Looking for a key. *)

Chain(table, k) ==
    IF table.slots = 0 THEN <<>> ELSE table.buckets[HashCode[k] % table.slots]

Holds(table, k) == \E i \in DOMAIN Chain(table, k) : Chain(table, k)[i].key = k

(* Mutant: only tables[0] is searched. *)
FoundInOld(h, k) == {t \in {0} : Holds(h.tables[t], k)}

(* kv_hash_find: tables[0] first, tables[1] only while it is in use. *)
FoundIn(h, k) ==
    {t \in 0..1 : /\ Holds(h.tables[t], k)
                  /\ t = 1 => ~Holds(h.tables[0], k) /\ IsRehashing(h)}

Present(h, k) == FoundIn(h, k) # {}

PlaceOf(h, k) == CHOOSE t \in FoundIn(h, k) : TRUE

IndexIn(chain, k) == Min({i \in DOMAIN chain : chain[i].key = k})

NodeAt(h, k) ==
    LET chain == Chain(h.tables[PlaceOf(h, k)], k) IN chain[IndexIn(chain, k)]

(* The nodes of the bucket of k in table t become chain. *)
WithChain(h, t, k, chain) ==
    [h EXCEPT !.tables[t].buckets[HashCode[k] % h.tables[t].slots] = chain]

-----------------------------------------------------------------------------
(* Growing. *)

(* What a bucket range of tables[0] costs a rehash step: one for each      *)
(* bucket with nodes, nothing for an empty one until empty_budget of them  *)
(* have been skipped.                                                      *)
Cost(h, from, to, empty_budget) ==
    LET empty == {b \in from..to - 1 : h.tables[0].buckets[b] = <<>>}
        full  == (to - from) - Cardinality(empty)
    IN  full + IF Cardinality(empty) > empty_budget
               THEN Cardinality(empty) - empty_budget ELSE 0

(* Mutant: the budget is counted down before the first bucket is moved. *)
StopsAtEarly(h, budget) ==
    Min({b \in h.rehash_index..h.tables[0].slots :
            \/ b = h.tables[0].slots
            \/ Cost(h, h.rehash_index, b, EmptyPerBucket * budget) = budget - 1})

(* The bucket a step stops at: the budget is used up, or there are no more. *)
StopsAt(h, budget) ==
    Min({b \in h.rehash_index..h.tables[0].slots :
            \/ b = h.tables[0].slots
            \/ Cost(h, h.rehash_index, b, EmptyPerBucket * budget) = budget})

(* The c-th of a set of places. *)
Nth(places, c) == CHOOSE p \in places : Cardinality({q \in places : q <= p}) = c

(* What bucket b of the new table gets from a chain that is emptied node   *)
(* by node, each put at the head: the nodes that belong there, last first. *)
Arrivals(chain, slots, b) ==
    LET leaving == {i \in DOMAIN chain : HashCode[chain[i].key] % slots = b}
        n == Cardinality(leaving)
    IN  [c \in 1..n |-> chain[Nth(leaving, n + 1 - c)]]

(* The buckets below the stop are moved; the bucket of a node in tables[1] *)
(* is its own one or that plus the slots of tables[0].                     *)
Moved(h, stop) ==
    LET old == h.tables[0]
        new == h.tables[1]
        Gone(b) == h.rehash_index <= b /\ b < stop
        Leaving(b) == IF Gone(b) THEN old.buckets[b] ELSE <<>>
    IN  [h EXCEPT
           !.tables[0].buckets =
               [b \in 0..old.slots - 1 |-> IF Gone(b) THEN <<>> ELSE old.buckets[b]],
           !.tables[1].buckets =
               [c \in 0..new.slots - 1 |->
                   Arrivals(Leaving(c % old.slots), new.slots, c) \o new.buckets[c]],
           !.rehash_index = stop]

(* All of tables[0] is moved: its array is freed, the tables change places. *)
Swapped(h) ==
    IF h.rehash_index = h.tables[0].slots
    THEN [h EXCEPT !.tables = [t \in 0..1 |-> IF t = 0 THEN h.tables[1]
                                                       ELSE NoTable],
                   !.rehash_index = RehashNone]
    ELSE h

RehashStep(h, budget) ==
    IF IsRehashing(h) THEN Swapped(Moved(h, StopsAt(h, budget))) ELSE h

(* maybe_expand: count + 1 nodes no longer fit three quarters of the slots. *)
MustExpand(h) ==
    LET slots == h.tables[0].slots
    IN  ~IsRehashing(h) /\ h.count + 1 > slots - slots \div 4

(* start_expand succeeds: twice the slots exist and can be allocated.  A   *)
(* table that was destroyed has none, and none is what it would double to. *)
CanExpand(h) == h.tables[0].slots > 0 /\ 2 * h.tables[0].slots <= MaxSlots

start_expand(h) ==
    [h EXCEPT !.tables[1] = table_allocate(2 * h.tables[0].slots),
              !.rehash_index = 0]

-----------------------------------------------------------------------------
(* Changing. *)

(* Mutant: a new node goes to the table that is being emptied. *)
LinkedOld(h, k, v) ==
    [WithChain(h, 0, k, <<[key |-> k, payload |-> v]>> \o Chain(h.tables[0], k))
        EXCEPT !.count = @ + 1]

Linked(h, k, v) ==
    LET t == IF IsRehashing(h) THEN 1 ELSE 0
        node == [key |-> k, payload |-> v]
    IN  [WithChain(h, t, k, <<node>> \o Chain(h.tables[t], k))
            EXCEPT !.count = @ + 1]

(* kv_hash_insert of a key that is not held: what it may leave behind.     *)
(* Memory may be missing for the larger table, or for the node when the    *)
(* growth has already begun.                                               *)
Insertions(h, k, v) ==
    LET grown == IF MustExpand(h) THEN start_expand(h) ELSE h
        Done(after, answer) == [after |-> after, answer |-> answer]
    IN  (IF MustExpand(h) THEN {Done(h, "error")} ELSE {})
        \cup
        (IF MustExpand(h) => CanExpand(h)
         THEN {Done(grown, "error"), Done(Linked(grown, k, v), "ok")} ELSE {})

(* kv_hash_node_set_payload *)
Repaid(h, k, v) ==
    LET t == PlaceOf(h, k)
        chain == Chain(h.tables[t], k)
    IN  WithChain(h, t, k, [chain EXCEPT ![IndexIn(chain, k)].payload = v])

(* remove_target looks in the bucket of the node in both tables. *)
remove_target(h, k) ==
    LET t == IF Holds(h.tables[0], k) THEN 0 ELSE 1
        chain == Chain(h.tables[t], k)
    IN  IF Holds(h.tables[t], k)
        THEN [WithChain(h, t, k, RemoveAt(chain, IndexIn(chain, k)))
                 EXCEPT !.count = @ - 1]
        ELSE h

-----------------------------------------------------------------------------
(* The iterator.  It knows the next bucket and the rest of the chain it is *)
(* in by a pointer to the next node; the caller may remove the node it was *)
(* just given and nothing else, and no caller moves buckets in its loop.   *)

NoIteration == [on |-> FALSE, table |-> 0, bucket |-> 0, next |-> NoNode,
                given |-> NoNode, seen |-> <<>>, held |-> {}]

NodesIn(table) == UNION {Range(table.buckets[b]) : b \in DOMAIN table.buckets}

Nodes(h) == NodesIn(h.tables[0]) \cup NodesIn(h.tables[1])

KeysHeld(h) == {n.key : n \in Nodes(h)}

(* node->next of a node that is in a chain. *)
Successor(h, k) ==
    LET t == IF Holds(h.tables[0], k) THEN 0 ELSE 1
        chain == Chain(h.tables[t], k)
        i == IndexIn(chain, k)
    IN  IF i < Len(chain) THEN chain[i + 1].key ELSE NoNode

(* Mutant: the iterator ends with tables[0]. *)
AheadOld(h, i) ==
    {p \in {0} \X DOMAIN h.tables[0].buckets :
        /\ h.tables[0].buckets[p[2]] # <<>>
        /\ i.table = 0
        /\ p[2] >= i.bucket}

(* The buckets that have nodes from the iterator's place on, in the order  *)
(* in which it comes to them: <<table, bucket>>.                           *)
Ahead(h, i) ==
    {p \in UNION {{t} \X DOMAIN h.tables[t].buckets : t \in i.table..1} :
        /\ h.tables[p[1]].buckets[p[2]] # <<>>
        /\ p[1] = i.table => p[2] >= i.bucket}

Nearest(ps) ==
    CHOOSE p \in ps : \A q \in ps : p[1] < q[1] \/ (p[1] = q[1] /\ p[2] <= q[2])

(* Node k is given to the caller. *)
Given(h, i, k) ==
    [i EXCEPT !.next = Successor(h, k), !.given = k, !.seen = Append(@, k)]

NextInChain ==
    /\ it.on
    /\ it.next # NoNode
    /\ it' = Given(hash, it, it.next)
    /\ UNCHANGED <<hash, call>>

NextBucket ==
    /\ it.on
    /\ it.next = NoNode
    /\ Ahead(hash, it) # {}
    /\ LET p == Nearest(Ahead(hash, it))
           moved == [it EXCEPT !.table = p[1], !.bucket = p[2] + 1]
       IN  it' = Given(hash, moved, hash.tables[p[1]].buckets[p[2]][1].key)
    /\ UNCHANGED <<hash, call>>

(* kv_hash_iterator_next returns NULL: the loop is over. *)
IterationEnds ==
    /\ it.on
    /\ it.next = NoNode
    /\ Ahead(hash, it) = {}
    /\ it' = [it EXCEPT !.on = FALSE, !.table = 2, !.bucket = 0,
                        !.given = NoNode]
    /\ UNCHANGED <<hash, call>>

(* A caller with a budget, or one that only wants a victim, stops early. *)
IterationStops ==
    /\ it.on
    /\ call = NoCall
    /\ it' = NoIteration
    /\ UNCHANGED <<hash, call>>

kv_hash_iterator_begin ==
    /\ ~it.on
    /\ call = NoCall
    /\ it' = [NoIteration EXCEPT !.on = TRUE, !.held = KeysHeld(hash)]
    /\ UNCHANGED <<hash, call>>

-----------------------------------------------------------------------------
(* Operations of the callers.  Inside an iteration there is only the       *)
(* removal of the node just given.                                         *)

Answers(op, k, answer) ==
    /\ call = NoCall
    /\ call' = [op |-> op, key |-> k, answer |-> answer]

Outside == ~it.on /\ it' = NoIteration

(* kv_hash_remove_node, as the purge of applied dirty keys calls it. *)
RemoveGiven ==
    /\ it.on
    /\ it.given # NoNode
    /\ Answers("delete", it.given, "ok")
    /\ hash' = remove_target(hash, it.given)
    /\ it' = [it EXCEPT !.given = NoNode]

(* set_bytes, and the same steps of the other callers: one bucket is moved *)
(* before the key is looked for, and the payload is allocated before the   *)
(* table is changed.                                                       *)
set_bytes(op, k) ==
    /\ Outside
    /\ LET h == RehashStep(hash, 1)
       IN  IF Present(h, k) /\ op = "set"
           THEN Answers(op, k, "exists") /\ hash' = h
           ELSE \/ Answers(op, k, "error") /\ hash' = h
                \/ \E v \in Values :
                      IF Present(h, k)
                      THEN Answers(op, k, "ok") /\ hash' = Repaid(h, k, v)
                      ELSE \E done \in Insertions(h, k, v) :
                              /\ Answers(op, k, done.answer)
                              /\ hash' = done.after

kvs_hash_get(k) ==
    /\ Outside
    /\ Answers("get", k, IF Present(hash, k) THEN NodeAt(hash, k).payload
                                             ELSE "missing")
    /\ UNCHANGED hash

kvs_hash_delete(k) ==
    /\ Outside
    /\ Answers("delete", k, IF Present(hash, k) THEN "ok" ELSE "missing")
    /\ hash' = IF Present(hash, k) THEN remove_target(hash, k) ELSE hash

kvs_hash_modify(k) ==
    /\ Outside
    /\ \/ Answers("modify", k, "error") /\ UNCHANGED hash
       \/ /\ Present(hash, k)
          /\ Answers("modify", k, "ok")
          /\ \E v \in Values : hash' = Repaid(hash, k, v)

(* kv_hash_rehash_step from the maintenance timer. *)
Maintain(budget) ==
    /\ Outside
    /\ call = NoCall
    /\ IsRehashing(hash)
    /\ hash' = RehashStep(hash, budget)
    /\ UNCHANGED call

(* hash_clear: the struct is left without any bucket; hash_init makes it   *)
(* usable again.                                                           *)
hash_clear ==
    /\ Outside
    /\ call = NoCall
    /\ hash' = [tables |-> [t \in 0..1 |-> NoTable], count |-> 0,
                rehash_index |-> RehashNone]
    /\ UNCHANGED call

kvstore_hash_create ==
    /\ Outside
    /\ call = NoCall
    /\ hash.tables[0].slots = 0
    /\ hash' = hash_init
    /\ UNCHANGED call

(* The caller goes on with the answer. *)
Return ==
    /\ call # NoCall
    /\ call' = NoCall
    /\ UNCHANGED <<hash, it>>

Init ==
    /\ hash = hash_init
    /\ it = NoIteration
    /\ call = NoCall

Next ==
    \/ \E k \in Keys : \/ kvs_hash_get(k) \/ kvs_hash_delete(k)
                       \/ kvs_hash_modify(k)
                       \/ \E op \in {"set", "upsert"} : set_bytes(op, k)
    \/ \E budget \in Budgets : Maintain(budget)
    \/ hash_clear \/ kvstore_hash_create
    \/ kv_hash_iterator_begin \/ NextInChain \/ NextBucket
    \/ RemoveGiven \/ IterationEnds \/ IterationStops
    \/ Return

Spec == Init /\ [][Next]_vars

-----------------------------------------------------------------------------
(* Properties. *)

Buckets(table) == [0..table.slots - 1 -> Seq(Node)]

(* Type invariant of the struct and the iterator. *)
TypeOK ==
    /\ DOMAIN hash.tables = 0..1
    /\ \A t \in 0..1 : hash.tables[t].buckets \in Buckets(hash.tables[t])
    /\ hash.count \in Nat
    /\ hash.rehash_index \in Nat \cup {RehashNone}
    /\ call # NoCall => call.answer \in Values \cup {"ok", "exists", "missing", "error"}

(* Every node is in the bucket its hash code selects, in a bucket that is  *)
(* still to be moved or in the new table; no key is there twice; count is  *)
(* the number of nodes; and there is a second table exactly while a rehash *)
(* is under way, with a bucket left to move.                               *)
NodesPlaced ==
    LET n == hash.tables[0].slots
        PlacesIn(t) ==
            UNION {{<<t, b, i>> : i \in DOMAIN hash.tables[t].buckets[b]} :
                      b \in DOMAIN hash.tables[t].buckets}
        places == PlacesIn(0) \cup PlacesIn(1)
        KeyAt(p) == hash.tables[p[1]].buckets[p[2]][p[3]].key
    IN  /\ TypeOK
        /\ \A p \in places :
              /\ HashCode[KeyAt(p)] % hash.tables[p[1]].slots = p[2]
              /\ p[1] = 0 /\ IsRehashing(hash) => p[2] >= hash.rehash_index
        /\ \A p, q \in places : KeyAt(p) = KeyAt(q) => p = q
        /\ hash.count = Cardinality(places)
        /\ IF IsRehashing(hash)
           THEN hash.tables[1].slots = 2 * n /\ hash.rehash_index < n
           ELSE hash.tables[1] = NoTable

(* A growth is over before its table is full again.  Only one bucket is    *)
(* moved per insertion, and rehash_index is how many have been: of the 2n  *)
(* slots of a growth from n, no more are taken than n and one for each     *)
(* bucket moved, so that when the last bucket goes (rehash_index < n until *)
(* then) there are fewer than 2n nodes; outside a growth chains are not    *)
(* longer than one node on average.                                        *)
LoadBounded ==
    LET n == hash.tables[0].slots
    IN  hash.count <= n + IF IsRehashing(hash) THEN hash.rehash_index ELSE 0

(* An iteration whose caller may remove what it is given meets every key   *)
(* held when it began exactly once, and its pointer to the next node never *)
(* points to a node that was freed.                                        *)
IterationExact ==
    /\ IsInjective(it.seen)
    /\ Range(it.seen) \subseteq it.held
    /\ it.next # NoNode => it.next \in KeysHeld(hash)
    /\ it.table = 2 => Range(it.seen) = it.held

(* The map the table stands for, whichever of the two arrays a node is in. *)
Contents ==
    LET nodes == Nodes(hash)
    IN  [k \in {n.key : n \in nodes} |->
            (CHOOSE n \in nodes : n.key = k).payload]

Map == INSTANCE HashMap WITH map <- Contents

(* Rehashing, growth and memory shortage are invisible: every operation    *)
(* answers, and changes the contents, as the operation of a plain map.     *)
ImplementsMap == Map!MapSpec

=============================================================================
