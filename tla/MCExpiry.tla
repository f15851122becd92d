------------------------------ MODULE MCExpiry ------------------------------
(* Service for TLC, one step from every heap of up to seven strings: a key  *)
(* SET with a TTL goes to the end of the heap when no deadline above it is  *)
(* later, so each heap is one that the server can have.                     *)
EXTENDS Service

VARIABLE fresh  \* no step has been taken

Names == <<"a", "b", "c", "d", "e", "f", "g">>

MCKeys == {Names[i] : i \in DOMAIN Names}

\* The deadlines by heap position.
Heaps(n) ==
    {d \in [1 .. n -> 2 .. MaxClock + 1] :
        \A i \in 2 .. n : d[i \div 2] <= d[i]}

CacheOf(n, d) ==
    LET At(k) == CHOOSE i \in 1 .. n : Names[i] = k
        string == NewString(1)
    IN  [NewCache(FALSE) EXCEPT
            !.index = [k \in {Names[i] : i \in 1 .. n} |->
                          [object |-> string, object_items |-> 0,
                           memory_charge |-> entry_memory_charge(string),
                           expire_at |-> d[At(k)], heap_index |-> At(k)]],
            !.heap = SubSeq(Names, 1, n),
            !.used_memory = n * entry_memory_charge(string),
            !.keys_of["string"] = n]

HeapInit ==
    /\ \E n \in 0 .. Len(Names) :
       \E d \in Heaps(n) : cache = CacheOf(n, d)
    /\ clock \in 1 .. MaxClock
    /\ reply = "ok" /\ recency = <<>>
    /\ fresh = TRUE

HeapNext ==
    \/ fresh /\ fresh' = FALSE /\ Next
    \/ ~fresh /\ UNCHANGED <<vars, fresh>>

HeapSpec == HeapInit /\ [][HeapNext]_<<vars, fresh>>

=============================================================================
