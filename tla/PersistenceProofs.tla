-------------------------- MODULE PersistenceProofs --------------------------
(***************************************************************************)
(* Proofs about snapshots beside the AOF, for any number of changes, saves *)
(* and ends of the server and any limits: the invariant of                 *)
(* PersistenceInvariant, and from it the invariants that the runs of       *)
(* MCPersistence check.                                                    *)
(***************************************************************************)
EXTENDS PersistenceInvariant, TLAPS, SequenceTheorems, FiniteSetTheorems

-----------------------------------------------------------------------------
(* The changes of a part of the AOF *)

\* How many places of S are up to p.
Rank(S, p) == Cardinality({q \in S : q <= p})

\* The ranks of the places of a finite set are 1 to its size, once each.
LEMMA RankBijective ==
    ASSUME NEW S, IsFiniteSet(S), S \subseteq Nat
    PROVE  /\ Cardinality(S) \in Nat
           /\ \A p \in S : Rank(S, p) \in 1..Cardinality(S)
           /\ \A p, q \in S : Rank(S, p) = Rank(S, q) => p = q
           /\ \A c \in 1..Cardinality(S) : \E p \in S : Rank(S, p) = c
<1> DEFINE Upto(p) == {q \in S : q <= p}
           N == Cardinality(S)
<1>1. N \in Nat
  BY FS_CardinalityType
<1>2. \A p : Upto(p) \in SUBSET S
  OBVIOUS
<1>3. \A p : /\ IsFiniteSet(Upto(p)) /\ Cardinality(Upto(p)) \in Nat
             /\ Cardinality(Upto(p)) <= N
  <2> SUFFICES ASSUME NEW p
               PROVE  /\ IsFiniteSet(Upto(p)) /\ Cardinality(Upto(p)) \in Nat
                      /\ Cardinality(Upto(p)) <= N
    OBVIOUS
  <2> HIDE DEF Upto
  <2>1. Upto(p) \in SUBSET S
    BY <1>2
  <2>2. IsFiniteSet(Upto(p)) /\ Cardinality(Upto(p)) <= N
    BY <2>1, FS_Subset
  <2>3. QED BY <2>2, FS_CardinalityType
<1>4. ASSUME NEW p \in S PROVE Rank(S, p) \in 1..N
  <2>1. p \in Upto(p)
    OBVIOUS
  <2>2. Upto(p) # {}
    BY <2>1
  <2> HIDE DEF Upto
  <2>3. Cardinality(Upto(p)) # 0
    BY <1>3, <2>2, FS_EmptySet
  <2>4. QED BY <1>1, <1>3, <2>3 DEF Rank, Upto
<1>5. ASSUME NEW p \in S, NEW q \in S, p < q PROVE Rank(S, p) # Rank(S, q)
  <2>1. Upto(p) \in SUBSET Upto(q) /\ q \in Upto(q) /\ q \notin Upto(p)
    <3>1. p \in Nat /\ q \in Nat /\ \A z \in S : z \in Nat
      OBVIOUS
    <3>2. \A z \in S : z <= p => z <= q
      BY <1>5, <3>1
    <3>3. q <= q /\ ~(q <= p)
      BY <1>5, <3>1
    <3>4. QED BY <3>2, <3>3
  <2>2. Upto(p) # Upto(q)
    BY <2>1
  <2> HIDE DEF Upto
  <2>3. Cardinality(Upto(q)) # Cardinality(Upto(p))
    BY <1>3, <2>1, <2>2, FS_Subset
  <2>4. QED BY <2>3 DEF Rank, Upto
<1>6. \A p, q \in S : Rank(S, p) = Rank(S, q) => p = q
  <2> SUFFICES ASSUME NEW p \in S, NEW q \in S, p # q
               PROVE  Rank(S, p) # Rank(S, q)
    OBVIOUS
  <2>1. p < q \/ q < p
    OBVIOUS
  <2>2. QED BY <1>5, <2>1
<1> DEFINE f == [p \in S |-> Rank(S, p)]
<1>7. f \in Injection(S, 1..N)
  BY <1>4, <1>6 DEF Injection, IsInjective
<1>8. IsFiniteSet(1..N) /\ Cardinality(1..N) = N
  BY <1>1, FS_Interval
<1>9. f \in Surjection(S, 1..N)
  BY <1>7, <1>8, FS_Injection
<1>10. \A c \in 1..N : \E p \in S : Rank(S, p) = c
  BY <1>9 DEF Surjection
<1>11. QED BY <1>1, <1>4, <1>6, <1>10

\* Nth gives the place of a rank.
LEMMA NthRank ==
    ASSUME NEW S, IsFiniteSet(S), S \subseteq Nat
    PROVE  /\ \A c \in 1..Cardinality(S) : Nth(S, c) \in S
           /\ \A c \in 1..Cardinality(S) : Rank(S, Nth(S, c)) = c
           /\ \A p \in S : Nth(S, Rank(S, p)) = p
<1>1. \A c \in 1..Cardinality(S) : Nth(S, c) \in S /\ Rank(S, Nth(S, c)) = c
  <2> TAKE c \in 1..Cardinality(S)
  <2>1. \A d \in 1..Cardinality(S) : \E p \in S : Rank(S, p) = d
    BY RankBijective
  <2>2. \E p \in S : Rank(S, p) = c
    BY <2>1
  <2>3. QED BY <2>2 DEF Nth, Rank
<1>2. ASSUME NEW p \in S PROVE Nth(S, Rank(S, p)) = p
  <2> DEFINE c == Rank(S, p)
  <2>1. c \in 1..Cardinality(S)
    BY RankBijective
  <2> HIDE DEF c
  <2>2. Nth(S, c) \in S /\ Rank(S, Nth(S, c)) = Rank(S, p)
    BY <1>1, <2>1 DEF c
  <2>3. QED BY <2>2, RankBijective DEF c
<1>3. QED BY <1>1, <1>2

\* The places of changes are places of the AOF.
LEMMA PlacesFinite ==
    ASSUME NEW r \in Seq(Records), NEW i \in Nat
    PROVE  /\ Places(r, i) \subseteq (i + 1)..Len(r)
           /\ Places(r, i) \subseteq Nat /\ IsFiniteSet(Places(r, i))
           /\ Cardinality(Places(r, i)) \in Nat
<1>1. Places(r, i) \in SUBSET ((i + 1)..Len(r)) /\ Len(r) \in Nat
  BY DEF Places
<1>2. IsFiniteSet((i + 1)..Len(r))
  BY <1>1, FS_Interval
<1>3. IsFiniteSet(Places(r, i))
  BY <1>1, <1>2, FS_Subset
<1>4. QED BY <1>1, <1>3, FS_CardinalityType

\* What the AOF does to a cache is a sequence of changes.
LEMMA ChangesTyped ==
    ASSUME NEW r \in Seq(Records), NEW i \in Nat
    PROVE  /\ ChangesAfter(r, i) \in Seq(Nat)
           /\ Len(ChangesAfter(r, i)) = Cardinality(Places(r, i))
           /\ \A c \in 1..Cardinality(Places(r, i)) :
                ChangesAfter(r, i)[c] = r[Nth(Places(r, i), c)].id
<1> DEFINE S == Places(r, i)
           N == Cardinality(S)
           s == [c \in 1..N |-> r[Nth(S, c)].id]
<1>1. N \in Nat /\ S \subseteq (i + 1)..Len(r)
  BY PlacesFinite
<1>2. \A c \in 1..N : Nth(S, c) \in S
  BY PlacesFinite, NthRank
<1>3. \A p \in S : r[p] \in Records
  BY <1>1
<1>4. \A c \in 1..N : r[Nth(S, c)].id \in Nat
  BY <1>2, <1>3 DEF Records
<1>5. s \in Seq(Nat) /\ Len(s) = N /\ \A c \in 1..N : s[c] = r[Nth(S, c)].id
  <2> HIDE DEF S, N
  <2>1. QED BY <1>1, <1>4
<1>6. s = ChangesAfter(r, i)
  BY DEF ChangesAfter
<1>7. QED BY <1>5, <1>6

Before(A, B) == \A a \in A, b \in B : a < b

Joined(S, A, B) ==
    /\ Cardinality(S) = Cardinality(A) + Cardinality(B)
    /\ \A c \in 1..Cardinality(A) : Nth(S, c) = Nth(A, c)
    /\ \A d \in 1..Cardinality(B) : Nth(S, Cardinality(A) + d) = Nth(B, d)

\* The places of two parts, one behind the other.
LEMMA NthJoined ==
    ASSUME NEW A, NEW B, IsFiniteSet(A), IsFiniteSet(B),
           A \subseteq Nat, B \subseteq Nat, Before(A, B)
    PROVE  Joined(A \cup B, A, B)
<1> DEFINE S == A \cup B
<1>1. /\ IsFiniteSet(S) /\ S \subseteq Nat
      /\ Cardinality(A) \in Nat /\ Cardinality(B) \in Nat
  BY FS_Union, FS_CardinalityType
<1>2. A \cap B = {}
  BY DEF Before
<1>3. ASSUME NEW T, IsFiniteSet(T), A \cap T = {}
      PROVE  Cardinality(A \cup T) = Cardinality(A) + Cardinality(T)
  <2>1. Cardinality(A \cup T) =
            Cardinality(A) + Cardinality(T) - Cardinality(A \cap T)
    BY <1>3, FS_Union
  <2>2. Cardinality(A \cap T) = 0 /\ Cardinality(T) \in Nat
    BY <1>3, FS_EmptySet, FS_CardinalityType
  <2>3. \A x, y \in Nat : x + y - 0 = x + y
    OBVIOUS
  <2>4. QED BY <1>1, <2>1, <2>2, <2>3
<1>4. Cardinality(S) = Cardinality(A) + Cardinality(B)
  BY <1>2, <1>3
<1>5. ASSUME NEW c \in 1..Cardinality(A) PROVE Nth(S, c) = Nth(A, c)
  <2>1. PICK p \in A : p = Nth(A, c) /\ Rank(A, p) = c
    BY NthRank
  <2>2. {q \in S : q <= p} = {q \in A : q <= p}
    <3>1. \A b \in B : ~(b <= p)
      BY DEF Before
    <3>2. QED BY <3>1
  <2>3. Rank(S, p) = c
    BY <2>1, <2>2 DEF Rank
  <2>4. Nth(S, Rank(S, p)) = p
    BY <1>1, NthRank
  <2>5. QED BY <2>1, <2>3, <2>4
<1>6. ASSUME NEW d \in 1..Cardinality(B)
      PROVE  Nth(S, Cardinality(A) + d) = Nth(B, d)
  <2>1. PICK p \in B : p = Nth(B, d) /\ Rank(B, p) = d
    BY NthRank
  <2> DEFINE T == {q \in B : q <= p}
  <2>2. {q \in S : q <= p} = A \cup T
    <3>1. \A a \in A : a <= p
      BY DEF Before
    <3>2. QED BY <3>1
  <2>3. T \in SUBSET B /\ A \cap T = {}
    BY <1>2
  <2>4. Cardinality(T) = d
    BY <2>1 DEF Rank
  <2> HIDE DEF T
  <2>5. IsFiniteSet(T)
    BY <2>3, FS_Subset
  <2>6. Rank(S, p) = Cardinality(A) + d
    BY <1>3, <2>2, <2>3, <2>4, <2>5 DEF Rank
  <2>7. Nth(S, Rank(S, p)) = p
    BY <1>1, NthRank
  <2>8. QED BY <2>1, <2>6, <2>7
<1>7. QED BY <1>4, <1>5, <1>6 DEF Joined

\* The changes of the AOF are those of its head followed by those of its tail.
LEMMA ChangesSplit ==
    ASSUME NEW r \in Seq(Records), NEW o \in 0..Len(r)
    PROVE  ChangesAfter(r, 0) =
               ChangesAfter(SubSeq(r, 1, o), 0) \o ChangesAfter(r, o)
<1> DEFINE h == SubSeq(r, 1, o)
           A == Places(h, 0)
           B == Places(r, o)
           S == Places(r, 0)
<1>1. /\ o \in Nat /\ Len(r) \in Nat /\ o <= Len(r)
      /\ h \in Seq(Records) /\ Len(h) = o /\ \A p \in 1..o : h[p] = r[p]
  OBVIOUS
<1> HIDE DEF h
<1>2. /\ A = {p \in 1..o : h[p].kind = "change"}
      /\ B = {p \in (o + 1)..Len(r) : r[p].kind = "change"}
      /\ S = {p \in 1..Len(r) : r[p].kind = "change"}
  BY <1>1 DEF Places
<1>3. S = A \cup B
  BY <1>1, <1>2
<1>4. /\ IsFiniteSet(A) /\ A \subseteq Nat /\ Cardinality(A) \in Nat
      /\ IsFiniteSet(B) /\ B \subseteq Nat /\ Cardinality(B) \in Nat
  BY <1>1, PlacesFinite
<1>5. Before(A, B)
  BY <1>1, <1>2 DEF Before
<1> DEFINE f == ChangesAfter(h, 0)
           g == ChangesAfter(r, o)
           e == ChangesAfter(r, 0)
<1>6. /\ f \in Seq(Nat) /\ Len(f) = Cardinality(A)
      /\ \A c \in 1..Cardinality(A) : f[c] = h[Nth(A, c)].id
  BY <1>1, ChangesTyped, ZenonT(40)
<1>7. /\ g \in Seq(Nat) /\ Len(g) = Cardinality(B)
      /\ \A c \in 1..Cardinality(B) : g[c] = r[Nth(B, c)].id
  BY <1>1, ChangesTyped
<1>8. /\ e \in Seq(Nat) /\ Len(e) = Cardinality(S)
      /\ \A c \in 1..Cardinality(S) : e[c] = r[Nth(S, c)].id
  BY <1>1, ChangesTyped
<1> HIDE DEF f, g, e, A, B, S
<1>9. /\ Cardinality(S) = Cardinality(A) + Cardinality(B)
      /\ \A c \in 1..Cardinality(A) : Nth(S, c) = Nth(A, c)
      /\ \A d \in 1..Cardinality(B) : Nth(S, Cardinality(A) + d) = Nth(B, d)
  <2>1. /\ IsFiniteSet(A) /\ IsFiniteSet(B) /\ Before(A, B)
        /\ A \subseteq Nat /\ B \subseteq Nat
    BY <1>4, <1>5
  <2>2. Joined(A \cup B, A, B)
    BY <2>1, NthJoined
  <2>3. QED BY <1>3, <2>2 DEF Joined
<1>10. /\ f \o g \in Seq(Nat) /\ Len(f \o g) = Cardinality(S)
       /\ \A c \in 1..Cardinality(A) : (f \o g)[c] = f[c]
       /\ \A d \in 1..Cardinality(B) : (f \o g)[Cardinality(A) + d] = g[d]
  <2>1. /\ f \o g \in Seq(Nat) /\ Len(f \o g) = Len(f) + Len(g)
        /\ \A c \in 1..Len(f) : (f \o g)[c] = f[c]
        /\ \A d \in 1..Len(g) : (f \o g)[Len(f) + d] = g[d]
    <3>1. f \in Seq(Nat) /\ g \in Seq(Nat)
      BY <1>6, <1>7
    <3>2. QED BY <3>1
  <2>2. Len(f) = Cardinality(A) /\ Len(g) = Cardinality(B)
    BY <1>6, <1>7
  <2>3. QED BY <1>9, <2>1, <2>2, Zenon
<1>11. ASSUME NEW c \in 1..Cardinality(S) PROVE (f \o g)[c] = e[c]
  <2>1. CASE c \in 1..Cardinality(A)
    <3>1. Nth(A, c) \in A /\ h[Nth(A, c)] = r[Nth(A, c)]
      BY <1>1, <1>2, <1>4, <2>1, NthRank
    <3>2. (f \o g)[c] = f[c] /\ f[c] = h[Nth(A, c)].id
      BY <1>6, <1>10, <2>1, Zenon
    <3>3. e[c] = r[Nth(S, c)].id /\ Nth(S, c) = Nth(A, c)
      BY <1>8, <1>9, <2>1, Zenon
    <3>4. QED BY <3>1, <3>2, <3>3
  <2>2. CASE c \notin 1..Cardinality(A)
    <3>1. PICK d \in 1..Cardinality(B) : c = Cardinality(A) + d
      <4>1. c - Cardinality(A) \in 1..Cardinality(B)
            /\ c = Cardinality(A) + (c - Cardinality(A))
        BY <1>4, <1>9, <2>2
      <4>2. QED BY <4>1
    <3>2. QED BY <1>7, <1>8, <1>9, <1>10, <3>1
  <2>3. QED BY <2>1, <2>2
<1>12. f \o g = e
  BY <1>8, <1>10, <1>11, SeqEqual
<1>13. QED BY <1>12 DEF f, g, e, h

\* A record that is appended adds its change, or nothing.
LEMMA ChangesAppend ==
    ASSUME NEW r \in Seq(Records), NEW x \in Records
    PROVE  ChangesAfter(Append(r, x), 0) =
               IF x.kind = "change" THEN Append(ChangesAfter(r, 0), x.id)
               ELSE ChangesAfter(r, 0)
<1> DEFINE t == Append(r, x)
           n == Len(r)
           g == ChangesAfter(t, n)
           S == Places(t, n)
<1>1. /\ n \in Nat /\ t \in Seq(Records) /\ Len(t) = n + 1 /\ t[n + 1] = x
      /\ SubSeq(t, 1, n) = r /\ n \in 0..Len(t)
  <2>1. /\ n \in Nat /\ t \in Seq(Records) /\ Len(t) = n + 1
        /\ t[n + 1] = x /\ \A i \in 1..n : t[i] = r[i]
    OBVIOUS
  <2> HIDE DEF t
  <2>2. SubSeq(t, 1, n) \in Seq(Records) /\ Len(SubSeq(t, 1, n)) = n
        /\ \A i \in 1..n : SubSeq(t, 1, n)[i] = r[i]
    BY <2>1
  <2>3. SubSeq(t, 1, n) = r
    BY <2>2, SeqEqual
  <2>4. QED BY <2>1, <2>3
<1> HIDE DEF t
<1>2. S = {p \in (n + 1)..(n + 1) : t[p].kind = "change"}
  BY <1>1 DEF Places
<1>3. ChangesAfter(t, 0) = ChangesAfter(r, 0) \o g
  BY <1>1, ChangesSplit
<1>4. /\ g \in Seq(Nat) /\ Len(g) = Cardinality(S)
      /\ \A c \in 1..Cardinality(S) : g[c] = t[Nth(S, c)].id
      /\ ChangesAfter(r, 0) \in Seq(Nat)
  BY <1>1, ChangesTyped
<1> HIDE DEF g, S
<1>5. CASE x.kind = "change"
  <2>1. S = {n + 1}
    <3>1. (n + 1)..(n + 1) = {n + 1}
      BY <1>1
    <3>2. QED BY <1>1, <1>2, <1>5, <3>1
  <2>2. Cardinality(S) = 1 /\ IsFiniteSet(S) /\ S \subseteq Nat
    <3>1. Cardinality({n + 1}) = 1 /\ IsFiniteSet({n + 1})
      BY FS_Singleton, Zenon
    <3>2. QED BY <1>1, <2>1, <3>1
  <2>3. Nth(S, 1) \in S
    <3>1. \A c \in 1..Cardinality(S) : Nth(S, c) \in S
      BY <2>2, NthRank
    <3>2. QED BY <2>2, <3>1
  <2>4. Len(g) = 1 /\ g[1] = x.id /\ x.id \in Nat
    <3>1. 1 \in 1..Cardinality(S) /\ Nth(S, 1) = n + 1
      BY <2>1, <2>2, <2>3
    <3>2. g[1] = t[Nth(S, 1)].id
      BY <1>4, <3>1
    <3>3. x.id \in Nat
      BY DEF Records
    <3>4. QED BY <1>1, <1>4, <2>2, <3>1, <3>2, <3>3
  <2>5. g = <<x.id>>
    BY <1>4, <2>4
  <2>6. QED BY <1>3, <1>4, <1>5, <2>4, <2>5, AppendIsConcat DEF t
<1>6. CASE x.kind # "change"
  <2>1. S = {}
    BY <1>1, <1>2, <1>6
  <2>2. Len(g) = 0
    BY <1>4, <2>1, FS_EmptySet
  <2>3. g = <<>>
    BY <1>4, <2>2
  <2>4. QED BY <1>3, <1>4, <1>6, <2>3 DEF t
<1>7. QED BY <1>5, <1>6

-----------------------------------------------------------------------------
(* The AOF *)

\* What is synced of the AOF l stays in m.
Keeps(l, m) ==
    /\ m.on = l.on /\ l.synced <= m.synced
    /\ \A p \in 1..l.synced : m.records[p] = l.records[p]

\* The fields of an AOF, one by one.
LEMMA LogFields ==
    ASSUME NEW l, LogTyped(l)
    PROVE  /\ l.on \in BOOLEAN /\ l.records \in Seq(Records)
           /\ l.written \in Nat /\ l.synced \in Nat /\ Len(l.records) \in Nat
           /\ l.failed \in BOOLEAN /\ l.full \in BOOLEAN
           /\ l.synced <= l.written /\ l.written <= Len(l.records)
           /\ l.synced <= Len(l.records)
           /\ ~l.on => l.records = <<>>
<1>1. /\ l.on \in BOOLEAN /\ l.records \in Seq(Records)
      /\ l.written \in Nat /\ l.synced \in Nat
      /\ l.failed \in BOOLEAN /\ l.full \in BOOLEAN
      /\ l.synced <= l.written /\ l.written <= Len(l.records)
      /\ ~l.on => l.records = <<>>
  BY DEF LogTyped
<1>2. Len(l.records) \in Nat
  BY <1>1
<1>3. QED BY <1>1, <1>2

\* Two parts of the AOF that agree place by place are the same.
LEMMA SamePrefix ==
    ASSUME NEW r \in Seq(Records), NEW t \in Seq(Records), NEW o \in Nat,
           o <= Len(r), o <= Len(t), \A p \in 1..o : t[p] = r[p]
    PROVE  SubSeq(t, 1, o) = SubSeq(r, 1, o)
<1>1. /\ SubSeq(t, 1, o) \in Seq(Records) /\ Len(SubSeq(t, 1, o)) = o
      /\ \A p \in 1..o : SubSeq(t, 1, o)[p] = t[p]
  OBVIOUS
<1>2. /\ SubSeq(r, 1, o) \in Seq(Records) /\ Len(SubSeq(r, 1, o)) = o
      /\ \A p \in 1..o : SubSeq(r, 1, o)[p] = r[p]
  OBVIOUS
<1>3. QED BY <1>1, <1>2, SeqEqual

\* A snapshot whose mark is synced keeps it, and the changes before it.
LEMMA MarkedStays ==
    ASSUME NEW l, LogTyped(l), NEW m, LogTyped(m), Keeps(l, m),
           NEW file \in Files, Marked(file, l)
    PROVE  Marked(file, m)
<1> DEFINE o == file.offset
<1>1. /\ o \in 1..l.synced /\ l.records[o] = Mark(file.token)
      /\ file.content = ChangesAfter(SubSeq(l.records, 1, o), 0)
  BY DEF Marked
<1>2. /\ l.synced <= m.synced /\ \A p \in 1..l.synced : m.records[p] = l.records[p]
      /\ l.synced \in Nat /\ m.synced \in Nat
      /\ l.records \in Seq(Records) /\ m.records \in Seq(Records)
      /\ Len(l.records) \in Nat /\ Len(m.records) \in Nat
      /\ l.synced <= Len(l.records) /\ m.synced <= Len(m.records)
  BY LogFields DEF Keeps
<1> HIDE DEF o
<1>3. o \in 1..m.synced /\ o \in Nat /\ o <= Len(l.records) /\ o <= Len(m.records)
  BY <1>1, <1>2
<1>4. \A p \in 1..o : m.records[p] = l.records[p]
  BY <1>1, <1>2
<1>5. SubSeq(m.records, 1, o) = SubSeq(l.records, 1, o)
  BY <1>2, <1>3, <1>4, SamePrefix
<1>6. m.records[o] = l.records[o]
  BY <1>1, <1>2
<1>7. QED BY <1>1, <1>3, <1>5, <1>6 DEF Marked, o

\* aof_append of a record.
LEMMA AppendedFacts ==
    ASSUME NEW l, LogTyped(l), NEW x \in Records
    PROVE  /\ LogTyped(Appended(l, x)) /\ Keeps(l, Appended(l, x))
           /\ l.on => Appended(l, x).records = Append(l.records, x)
           /\ ~l.on => Appended(l, x) = l
<1>1. CASE ~l.on
  BY <1>1, LogFields DEF Appended, Keeps
<1>2. CASE l.on
  <2> DEFINE t == Append(l.records, x)
             m == Appended(l, x)
  <2>1. /\ l.records \in Seq(Records) /\ l.written \in Nat /\ l.synced \in Nat
        /\ Len(l.records) \in Nat /\ l.synced <= l.written
        /\ l.written <= Len(l.records) /\ l.synced <= Len(l.records)
    BY LogFields
  <2>2. /\ t \in Seq(Records) /\ Len(t) = Len(l.records) + 1
        /\ \A p \in 1..Len(l.records) : t[p] = l.records[p]
    BY <2>1
  <2> HIDE DEF t
  <2>3. PICK b \in BOOLEAN :
            m = [[l EXCEPT !.records = t] EXCEPT !.full = b]
    BY <1>2, LogFields DEF Appended, t
  <2> HIDE DEF m
  <2>4. /\ m \in [on : BOOLEAN, records : Seq(Records), written : Nat,
                  synced : Nat, failed : BOOLEAN, full : BOOLEAN]
        /\ m.on = l.on /\ m.records = t /\ m.written = l.written
        /\ m.synced = l.synced
    BY <2>2, <2>3 DEF LogTyped
  <2>5. m.written <= Len(m.records)
    BY <2>1, <2>2, <2>4
  <2>6. \A p \in 1..l.synced : p \in 1..Len(l.records)
    BY <2>1
  <2>7. Keeps(l, m)
    BY <2>1, <2>2, <2>4, <2>6 DEF Keeps
  <2>8. LogTyped(m)
    BY <1>2, <2>1, <2>4, <2>5 DEF LogTyped
  <2>9. QED BY <1>2, <2>4, <2>7, <2>8 DEF m, t
<1>3. QED BY <1>1, <1>2

\* aof_create_checkpoint: the mark is the last record, and synced.
LEMMA CheckpointedFacts ==
    ASSUME NEW l, LogTyped(l), NEW token \in Nat
    PROVE  /\ LogTyped(Checkpointed(l, token)) /\ Keeps(l, Checkpointed(l, token))
           /\ l.on => LET m == Checkpointed(l, token) IN
                      /\ m.records = Append(l.records, Mark(token))
                      /\ m.synced = Len(m.records)
           /\ ~l.on => Checkpointed(l, token) = l
<1>1. CASE ~l.on
  BY <1>1, LogFields DEF Checkpointed, Keeps
<1>2. CASE l.on
  <2> DEFINE t == Append(l.records, Mark(token))
             m == Checkpointed(l, token)
  <2>1. /\ l.records \in Seq(Records) /\ l.written \in Nat /\ l.synced \in Nat
        /\ Len(l.records) \in Nat /\ l.synced <= Len(l.records)
    BY LogFields
  <2>2. Mark(token) \in Records
    BY DEF Mark, Records
  <2>3. /\ t \in Seq(Records) /\ Len(t) = Len(l.records) + 1
        /\ \A p \in 1..Len(l.records) : t[p] = l.records[p]
    BY <2>1, <2>2
  <2> HIDE DEF t
  <2>4. m = [l EXCEPT !.records = t, !.written = Len(t), !.synced = Len(t),
                      !.full = FALSE]
    BY <1>2 DEF Checkpointed, t
  <2>5. Len(t) \in Nat
    BY <2>1, <2>3
  <2> HIDE DEF m
  <2>6. /\ m \in [on : BOOLEAN, records : Seq(Records), written : Nat,
                  synced : Nat, failed : BOOLEAN, full : BOOLEAN]
        /\ m.on = l.on /\ m.records = t /\ m.written = Len(t)
        /\ m.synced = Len(t)
    BY <2>3, <2>4, <2>5 DEF LogTyped
  <2>7. \A p \in 1..l.synced : p \in 1..Len(l.records)
    BY <2>1
  <2>8. Keeps(l, m)
    BY <2>1, <2>3, <2>6, <2>7 DEF Keeps
  <2>9. LogTyped(m)
    BY <1>2, <2>5, <2>6 DEF LogTyped
  <2>10. QED BY <1>2, <2>6, <2>8, <2>9 DEF m, t
<1>3. QED BY <1>1, <1>2

\* The writer moves on or stops: the records stay.
LEMMA SameRecords ==
    ASSUME NEW l, LogTyped(l), NEW m, LogTyped(m), m.on = l.on,
           m.records = l.records, l.synced <= m.synced
    PROVE  Keeps(l, m)
BY DEF Keeps

\* The end of the server cuts the AOF, behind what is synced of it.
LEMMA CutFacts ==
    ASSUME NEW l, LogTyped(l), NEW n \in l.synced..l.written,
           NEW w \in Nat, NEW s \in Nat, l.synced <= s, s <= w, w <= n,
           NEW m, m = [l EXCEPT !.records = SubSeq(l.records, 1, n),
                                !.written = w, !.synced = s]
    PROVE  LogTyped(m) /\ Keeps(l, m) /\ m.records = SubSeq(l.records, 1, n)
<1>1. /\ l.records \in Seq(Records) /\ l.written \in Nat /\ l.synced \in Nat
      /\ Len(l.records) \in Nat /\ l.written <= Len(l.records)
      /\ l.synced <= Len(l.records) /\ ~l.on => l.records = <<>>
  BY LogFields
<1> DEFINE t == SubSeq(l.records, 1, n)
<1>2. n \in Nat /\ n <= Len(l.records) /\ l.synced <= n
  BY <1>1
<1>3. /\ t \in Seq(Records) /\ Len(t) = n
      /\ \A p \in 1..n : t[p] = l.records[p]
  BY <1>1, <1>2
<1>4. ~l.on => t = <<>>
  <2>1. ASSUME ~l.on PROVE n = 0
    <3>1. Len(l.records) = 0
      BY <1>1, <2>1
    <3>2. QED BY <1>1, <1>2, <3>1
  <2>2. QED BY <1>3, <2>1
<1> HIDE DEF t
<1>5. /\ m \in [on : BOOLEAN, records : Seq(Records), written : Nat,
                synced : Nat, failed : BOOLEAN, full : BOOLEAN]
      /\ m.on = l.on /\ m.records = t /\ m.written = w /\ m.synced = s
  BY <1>3 DEF LogTyped, t
<1>6. LogTyped(m)
  BY <1>3, <1>4, <1>5 DEF LogTyped
<1>7. \A p \in 1..l.synced : p \in 1..n
  BY <1>1, <1>2
<1>8. Keeps(l, m)
  BY <1>3, <1>5, <1>7 DEF Keeps
<1>9. QED BY <1>5, <1>6, <1>8 DEF t

-----------------------------------------------------------------------------
(* The persistence manager *)

\* The parts of Consistent that are about a server s with the jobs js.
Held(s, js) ==
    /\ ServerTyped(s) /\ JobsTyped(js) /\ JobsKnown(s, js)
    /\ LogAgrees(s, js, log) /\ CountAgrees(s, js)

\* The fields of a server, one by one.
LEMMA ServerFields ==
    ASSUME NEW s, ServerTyped(s)
    PROVE  /\ s.mode \in {"up", "stopped", "died", "down"}
           /\ s.cache \in Seq(Nat) /\ Len(s.cache) \in Nat
           /\ s.dirty \in Nat /\ s.child \in Nat /\ s.covered \in Nat
           /\ s.saving \in Nat /\ s.status \in {"none", "ok", "failed"}
BY DEF ServerTyped

\* persistence_finish_child, and the end of SAVE: the job j is over, and the
\* server goes on without it.
LEMMA FinishedHeld ==
    ASSUME Consistent, NEW j \in Jobs(server), Over(j)
    PROVE  Held([Finished(server, jobs[j].phase) EXCEPT !.saving = NoChild],
                Without(j))
<1> DEFINE s == [Finished(server, jobs[j].phase) EXCEPT !.saving = NoChild]
           js == Without(j)
<1>1. /\ ServerTyped(server) /\ LogTyped(log) /\ DiskTyped /\ UsedTyped
      /\ JobsTyped(jobs) /\ JobsKnown(server, jobs)
      /\ LogAgrees(server, jobs, log) /\ CountAgrees(server, jobs)
  BY DEF Consistent
<1>2. /\ server.mode \in {"up", "stopped", "died", "down"}
      /\ server.cache \in Seq(Nat) /\ Len(server.cache) \in Nat
      /\ server.dirty \in Nat /\ server.covered \in Nat
  BY <1>1, ServerFields
<1>3. j \in DOMAIN jobs /\ jobs[j].phase \in {"ok", "error"}
  BY <1>1 DEF JobsKnown, Over
<1> DEFINE d == IF jobs[j].phase = "ok"
                THEN snapshot_committed(server.dirty, server.covered)
                ELSE server.dirty
<1>4. PICK st \in {"ok", "failed"} :
        s = [server EXCEPT !.child = NoChild, !.covered = 0, !.status = st,
                           !.dirty = d, !.saving = NoChild]
  BY <1>1, <1>3 DEF Finished, ServerTyped
<1>5. d \in Nat /\ NoChild \in Nat
  BY <1>2 DEF snapshot_committed, NoChild
<1> HIDE DEF s, d
<1>6. /\ ServerTyped(s) /\ s.mode = server.mode /\ s.cache = server.cache
      /\ s.child = NoChild /\ s.saving = NoChild /\ s.dirty = d
  BY <1>1, <1>4, <1>5 DEF ServerTyped
<1>7. Jobs(s) = {}
  BY <1>6 DEF Jobs
<1>8. Jobs(server) = {j}
  BY <1>1 DEF Jobs, JobsKnown
<1>9. DOMAIN js = DOMAIN jobs \ {j} /\ \A i \in DOMAIN js : js[i] = jobs[i]
  BY DEF Without
<1> HIDE DEF js
<1>10. JobsTyped(js)
  BY <1>1, <1>9 DEF JobsTyped
<1>11. JobsKnown(s, js)
  BY <1>1, <1>6, <1>7, <1>8, <1>9 DEF JobsKnown
<1>12. LogAgrees(s, js, log)
  BY <1>1, <1>6, <1>9 DEF LogAgrees
<1>13. CountAgrees(s, js)
  <2> SUFFICES ASSUME s.mode = "up", ~log.on, ~used.orphans,
                      NEW file \in Counted
               PROVE  Covers(s.cache, Content(file), s.dirty)
    BY <1>7 DEF CountAgrees
  <2>1. /\ Covers(server.cache, Content(file), server.dirty)
        /\ server.covered <= server.dirty
        /\ Covers(server.cache, jobs[j].file.content,
                  server.dirty - server.covered)
        /\ jobs[j].phase = "ok" => disk.file = jobs[j].file
                                   /\ disk.possible = {disk.file}
    BY <1>1, <1>6 DEF CountAgrees
  <2>2. CASE jobs[j].phase = "ok"
    <3>1. file = jobs[j].file
      BY <2>1, <2>2 DEF Counted
    <3>2. Content(file) = jobs[j].file.content
      BY <1>1, <1>3, <3>1, NoSnapshotAssumption DEF Content, JobsTyped
    <3>3. s.dirty = server.dirty - server.covered
      BY <1>2, <1>6, <2>1, <2>2 DEF snapshot_committed, d
    <3>4. QED BY <1>6, <2>1, <3>2, <3>3
  <2>3. CASE jobs[j].phase # "ok"
    BY <1>6, <2>1, <2>3 DEF d
  <2>4. QED BY <2>2, <2>3
<1>14. QED BY <1>6, <1>10, <1>11, <1>12, <1>13 DEF Held, s, js

\* persistence_reap leaves a server that knows its jobs.
LEMMA ReapedHeld ==
    ASSUME Consistent
    PROVE  /\ Held(Reaped, JobsLeft)
           /\ Reaped.mode = server.mode /\ Reaped.cache = server.cache
           /\ Reaped.saving = server.saving
           /\ DOMAIN JobsLeft \subseteq DOMAIN jobs
           /\ \A j \in DOMAIN JobsLeft : JobsLeft[j] = jobs[j]
<1>1. /\ ServerTyped(server) /\ JobsKnown(server, jobs)
  BY DEF Consistent
<1>2. CASE ~ChildOver
  BY <1>2 DEF Consistent, Held, Reaped, JobsLeft
<1>3. CASE ChildOver
  <2>1. server.child \in Jobs(server) /\ Over(server.child)
        /\ server.saving = NoChild
    BY <1>1, <1>3 DEF ChildOver, Jobs, JobsKnown
  <2> DEFINE f == Finished(server, jobs[server.child].phase)
  <2>2. /\ f.mode = server.mode /\ f.cache = server.cache
        /\ f.saving = server.saving
        /\ [f EXCEPT !.saving = f.saving] = f
    BY <1>1 DEF Finished, ServerTyped
  <2>3. Held([f EXCEPT !.saving = NoChild], Without(server.child))
    BY <2>1, FinishedHeld
  <2>4. Reaped = f /\ JobsLeft = Without(server.child)
    BY <1>3 DEF Reaped, JobsLeft
  <2>5. [f EXCEPT !.saving = NoChild] = f
    BY <2>1, <2>2
  <2>6. /\ DOMAIN Without(server.child) \subseteq DOMAIN jobs
        /\ \A j \in DOMAIN Without(server.child) :
                Without(server.child)[j] = jobs[j]
    BY DEF Without
  <2>7. QED BY <2>2, <2>3, <2>4, <2>5, <2>6
<1>4. QED BY <1>2, <1>3

-----------------------------------------------------------------------------
(* Every step *)

\* The snapshots that may be found, and what they hold.
LEMMA DiskFields ==
    ASSUME DiskTyped
    PROVE  /\ disk.file \in disk.possible
           /\ disk.possible \subseteq Files \cup {NoSnapshot}
           /\ \A file \in disk.possible : Content(file) \in Seq(Nat)
           /\ Counted \subseteq disk.possible
<1>1. /\ disk.file \in disk.possible
      /\ disk.possible \subseteq Files \cup {NoSnapshot}
  BY DEF DiskTyped
<1>2. \A file \in Files : file.content \in Seq(Nat)
  BY DEF Files
<1>3. <<>> \in Seq(Nat)
  OBVIOUS
<1>4. QED BY <1>1, <1>2, <1>3 DEF Content, Counted

\* A change more in the cache, one more in the count.
LEMMA CoversAppend ==
    ASSUME NEW cache \in Seq(Nat), NEW saved \in Seq(Nat), NEW n \in Nat,
           NEW x \in Nat, Covers(cache, saved, n)
    PROVE  Covers(Append(cache, x), saved, n + 1)
<1> DEFINE t == Append(cache, x)
           k == Len(saved)
<1>1. /\ k \in Nat /\ Len(cache) \in Nat
      /\ t \in Seq(Nat) /\ Len(t) = Len(cache) + 1
      /\ \A i \in 1..Len(cache) : t[i] = cache[i]
      /\ saved = SubSeq(cache, 1, k) /\ k <= Len(cache)
      /\ Len(cache) <= k + n
  BY DEF Covers
<1> HIDE DEF t, k
<1>2. k <= Len(t) /\ Len(t) <= k + (n + 1)
  BY <1>1
<1>3. /\ SubSeq(t, 1, k) \in Seq(Nat) /\ Len(SubSeq(t, 1, k)) = k
      /\ \A i \in 1..k : SubSeq(t, 1, k)[i] = t[i]
  BY <1>1, <1>2
<1>4. \A i \in 1..k : saved[i] = cache[i]
  BY <1>1
<1>5. \A i \in 1..k : saved[i] = SubSeq(t, 1, k)[i]
  BY <1>1, <1>3, <1>4
<1>6. saved = SubSeq(t, 1, k)
  BY <1>3, <1>5, SeqEqual DEF k
<1>7. QED BY <1>2, <1>6 DEF Covers, t, k

\* A count that is larger covers as much.
LEMMA CoversMore ==
    ASSUME NEW cache \in Seq(Nat), NEW saved \in Seq(Nat), NEW n \in Nat,
           NEW m \in Nat, n <= m, Covers(cache, saved, n)
    PROVE  Covers(cache, saved, m)
<1>1. Len(cache) \in Nat /\ Len(saved) \in Nat
  OBVIOUS
<1>2. QED BY <1>1 DEF Covers

\* A cache covers itself.
LEMMA CoversItself ==
    ASSUME NEW cache \in Seq(Nat), NEW n \in Nat
    PROVE  Covers(cache, cache, n)
<1>1. Len(cache) \in Nat /\ SubSeq(cache, 1, Len(cache)) = cache
  BY SubSeqFull
<1>2. QED BY <1>1 DEF Covers

\* The marks of all snapshots stay when the AOF grows, or is cut behind them.
LEMMA LogAgreesStays ==
    ASSUME LogTyped(log), NEW m, LogTyped(m), Keeps(log, m), DiskTyped,
           NEW s, NEW js, JobsTyped(js), LogAgrees(s, js, log),
           NEW t, m.on /\ t.mode = "up" => t.cache = ChangesAfter(m.records, 0)
    PROVE  LogAgrees(t, js, m)
<1> SUFFICES ASSUME m.on PROVE LogAgrees(t, js, m)
  BY DEF LogAgrees
<1>1. log.on
  BY DEF Keeps
<1>2. \A file \in disk.possible \ {NoSnapshot} : Marked(file, m)
  <2> TAKE file \in disk.possible \ {NoSnapshot}
  <2>1. file \in Files
    BY DiskFields
  <2>2. Marked(file, log)
    BY <1>1 DEF LogAgrees
  <2>3. QED BY <2>1, <2>2, MarkedStays
<1>3. \A j \in DOMAIN js : Marked(js[j].file, m)
  <2> TAKE j \in DOMAIN js
  <2>1. js[j].file \in Files
    BY DEF JobsTyped
  <2>2. Marked(js[j].file, log)
    BY <1>1 DEF LogAgrees
  <2>3. QED BY <2>1, <2>2, MarkedStays
<1>4. QED BY <1>2, <1>3 DEF LogAgrees

\* A write joins the cache and the AOF, or the cache and the count.
LEMMA WriteStep ==
    ASSUME Consistent, Write
    PROVE  Consistent'
<1> DEFINE n == used.changes + 1
<1>1. /\ ServerTyped(server) /\ LogTyped(log) /\ DiskTyped /\ UsedTyped
      /\ JobsTyped(jobs) /\ JobsKnown(server, jobs)
      /\ LogAgrees(server, jobs, log) /\ CountAgrees(server, jobs)
  BY DEF Consistent
<1>2. /\ server.mode = "up"
      /\ used' = [used EXCEPT !.changes = @ + 1]
      /\ server' = [server EXCEPT !.cache = Append(@, n), !.dirty = @ + 1]
      /\ log' = Appended(log, Change(n))
      /\ UNCHANGED <<disk, jobs>>
  BY DEF Write, Serving
<1>3. n \in Nat /\ Change(n) \in Records /\ Change(n).kind = "change"
      /\ Change(n).id = n
  BY <1>1 DEF UsedTyped, Change, Records
<1> HIDE DEF n
<1>4. /\ UsedTyped' /\ used'.saves = used.saves
      /\ used'.orphans = used.orphans /\ used'.unsynced = used.unsynced
  BY <1>1, <1>2 DEF UsedTyped
<1>5. /\ server.cache \in Seq(Nat) /\ server.dirty \in Nat
      /\ server.covered \in Nat
  BY <1>1, ServerFields
<1>6. Append(server.cache, n) \in Seq(Nat) /\ server.dirty + 1 \in Nat
  BY <1>3, <1>5
<1>7. /\ ServerTyped(server') /\ server'.mode = "up"
      /\ server'.cache = Append(server.cache, n)
      /\ server'.dirty = server.dirty + 1 /\ server'.covered = server.covered
      /\ server'.child = server.child /\ server'.saving = server.saving
  BY <1>1, <1>2, <1>6 DEF ServerTyped
<1>8. LogTyped(log') /\ Keeps(log, log')
      /\ (log.on => log'.records = Append(log.records, Change(n)))
      /\ log'.on = log.on
  BY <1>1, <1>2, <1>3, AppendedFacts DEF Keeps
<1>9. log'.on => server'.cache = ChangesAfter(log'.records, 0)
  <2> SUFFICES ASSUME log'.on PROVE server'.cache = ChangesAfter(log'.records, 0)
    OBVIOUS
  <2>1. log.on /\ server.cache = ChangesAfter(log.records, 0)
    BY <1>1, <1>2, <1>8 DEF LogAgrees
  <2>2. log.records \in Seq(Records)
    BY <1>1, LogFields
  <2>3. ChangesAfter(Append(log.records, Change(n)), 0) =
            Append(ChangesAfter(log.records, 0), n)
    BY <1>3, <2>2, ChangesAppend
  <2>4. QED BY <1>7, <1>8, <2>1, <2>3
<1>10. LogAgrees(server', jobs, log')
  BY <1>1, <1>8, <1>9, LogAgreesStays
<1>11. Jobs(server') = Jobs(server)
  BY <1>7 DEF Jobs
<1>12. CountAgrees(server, jobs)'
  <2> SUFFICES ASSUME ~log.on, ~used.orphans
               PROVE  /\ \A file \in Counted :
                            Covers(server'.cache, Content(file), server'.dirty)
                      /\ \A j \in Jobs(server) :
                            /\ server'.covered <= server'.dirty
                            /\ Covers(server'.cache, jobs[j].file.content,
                                      server'.dirty - server'.covered)
                            /\ jobs[j].phase \in {"renamed", "ok"} =>
                                    disk.file = jobs[j].file
                            /\ jobs[j].phase = "ok" =>
                                    disk.possible = {disk.file}
    BY <1>2, <1>4, <1>8, <1>11 DEF CountAgrees, Counted, Content
  <2>1. /\ \A file \in Counted :
                Covers(server.cache, Content(file), server.dirty)
        /\ \A j \in Jobs(server) :
                /\ server.covered <= server.dirty
                /\ Covers(server.cache, jobs[j].file.content,
                          server.dirty - server.covered)
                /\ jobs[j].phase \in {"renamed", "ok"} =>
                        disk.file = jobs[j].file
                /\ jobs[j].phase = "ok" => disk.possible = {disk.file}
    BY <1>1, <1>2 DEF CountAgrees
  <2>2. ASSUME NEW file \in Counted
        PROVE  Covers(server'.cache, Content(file), server'.dirty)
    <3>1. Content(file) \in Seq(Nat)
      BY <1>1, DiskFields
    <3>2. QED BY <1>3, <1>5, <1>7, <2>1, <3>1, CoversAppend
  <2>3. ASSUME NEW j \in Jobs(server)
        PROVE  /\ server'.covered <= server'.dirty
               /\ Covers(server'.cache, jobs[j].file.content,
                         server'.dirty - server'.covered)
    <3>1. jobs[j].file \in Files
      BY <1>1 DEF JobsKnown, JobsTyped
    <3>2. jobs[j].file.content \in Seq(Nat)
      BY <3>1 DEF Files
    <3>3. server.covered <= server.dirty
          /\ Covers(server.cache, jobs[j].file.content,
                    server.dirty - server.covered)
      BY <2>1
    <3>4. /\ server.dirty - server.covered \in Nat
          /\ (server.dirty + 1) - server.covered =
                (server.dirty - server.covered) + 1
          /\ server.covered <= server.dirty + 1
      BY <1>5, <3>3
    <3>5. Covers(Append(server.cache, n), jobs[j].file.content,
                 (server.dirty - server.covered) + 1)
      BY <1>3, <1>5, <3>2, <3>3, <3>4, CoversAppend
    <3>6. QED BY <1>7, <3>4, <3>5
  <2>4. QED BY <2>1, <2>2, <2>3
<1>13. DiskTyped' /\ JobsTyped(jobs)' /\ JobsKnown(server, jobs)'
  BY <1>1, <1>2, <1>4, <1>7, <1>11 DEF DiskTyped, JobsTyped, JobsKnown
<1>14. LogAgrees(server, jobs, log)'
  BY <1>2, <1>10 DEF LogAgrees
<1>15. QED BY <1>4, <1>7, <1>8, <1>12, <1>13, <1>14 DEF Consistent

\* Only what has no part in the invariant is used up.
SameUse ==
    /\ UsedTyped' /\ used'.saves = used.saves
    /\ used'.orphans = used.orphans /\ used'.unsynced = used.unsynced

\* The server is s, or has left the mode up, with the jobs js; the AOF keeps
\* what is synced.
LEMMA OnwardStep ==
    ASSUME Consistent, NEW s, NEW js, Held(s, js), SameUse,
           ServerTyped(server'), server'.cache = s.cache,
           server'.dirty = s.dirty, server'.covered = s.covered,
           server'.child = s.child, server'.saving = s.saving,
           server'.mode = "up" => s.mode = "up",
           server'.mode = "down" => s.mode = "down",
           s.saving # NoChild => server'.mode = s.mode,
           jobs' = js, disk' = disk, LogTyped(log'), Keeps(log, log'),
           log'.on /\ server'.mode = "up" =>
                server'.cache = ChangesAfter(log'.records, 0)
    PROVE  Consistent'
<1>1. LogTyped(log) /\ DiskTyped
  BY DEF Consistent
<1>2. /\ JobsTyped(js) /\ JobsKnown(s, js) /\ LogAgrees(s, js, log)
      /\ CountAgrees(s, js)
  BY DEF Held
<1>3. LogAgrees(server', js, log')
  BY <1>1, <1>2, LogAgreesStays
<1>4. LogAgrees(server, jobs, log)'
  BY <1>3 DEF LogAgrees
<1>5. Jobs(server') = Jobs(s)
  BY DEF Jobs
<1>6. DiskTyped' /\ JobsTyped(jobs)'
  BY <1>1, <1>2 DEF DiskTyped, JobsTyped, SameUse
<1>7. JobsKnown(server, jobs)'
  BY <1>2, <1>5 DEF JobsKnown, SameUse
<1>8. CountAgrees(server, jobs)'
  <2>1. log'.on = log.on
    BY DEF Keeps
  <2>2. QED BY <1>2, <1>5, <2>1 DEF CountAgrees, Counted, Content, SameUse
<1>9. QED BY <1>4, <1>6, <1>7, <1>8 DEF Consistent, SameUse

\* A server is held with its own jobs.
LEMMA HeldNow ==
    ASSUME Consistent
    PROVE  /\ Held(server, jobs)
           /\ log.on /\ server.mode = "up" =>
                server.cache = ChangesAfter(log.records, 0)
BY DEF Consistent, Held, LogAgrees

\* The writer of the AOF, and its failure.
LEMMA WriterStep ==
    ASSUME Consistent, WriterWrites \/ WriterSyncs \/ LogFails
    PROVE  Consistent'
<1>1. LogTyped(log) /\ UsedTyped /\ ServerTyped(server) /\ Held(server, jobs)
  BY HeldNow DEF Consistent
<1>2. /\ log.on \in BOOLEAN /\ log.records \in Seq(Records)
      /\ log.written \in Nat /\ log.synced \in Nat /\ Len(log.records) \in Nat
      /\ log.failed \in BOOLEAN /\ log.full \in BOOLEAN
      /\ log.synced <= log.written /\ log.written <= Len(log.records)
      /\ ~log.on => log.records = <<>>
  BY <1>1, LogFields
<1>3. SameUse /\ UNCHANGED <<server, disk, jobs>>
  BY <1>1 DEF WriterWrites, WriterSyncs, LogFails, Fault, SameUse, UsedTyped
<1>4. \E w, s \in Nat, failed, full \in BOOLEAN :
        /\ log.synced <= s /\ s <= w /\ w <= Len(log.records)
        /\ log' = [log EXCEPT !.written = w, !.synced = s, !.failed = failed,
                              !.full = full]
  <2>1. CASE WriterWrites
    <3> DEFINE w == log.written + 1
    <3>1. /\ w \in Nat /\ log.synced <= w /\ w <= Len(log.records)
          /\ log.synced <= log.synced
      BY <1>2, <2>1 DEF WriterWrites, Unwritten
    <3> HIDE DEF w
    <3>2. PICK full \in BOOLEAN :
            log' = [[log EXCEPT !.written = w] EXCEPT !.full = full]
      BY <1>2, <2>1 DEF WriterWrites, w
    <3>3. log' = [log EXCEPT !.written = w, !.synced = log.synced,
                             !.failed = log.failed, !.full = full]
      BY <1>1, <3>2 DEF LogTyped
    <3>4. QED BY <1>2, <3>1, <3>3
  <2>2. CASE WriterSyncs
    <3>1. log' = [log EXCEPT !.written = log.written, !.synced = log.written,
                             !.failed = log.failed, !.full = log.full]
      BY <1>1, <2>2 DEF WriterSyncs, LogTyped
    <3>2. log.written <= log.written
      BY <1>2
    <3>3. QED BY <1>2, <3>1, <3>2
  <2>3. CASE LogFails
    <3>1. log' = [log EXCEPT !.written = log.written, !.synced = log.synced,
                             !.failed = TRUE, !.full = log.full]
      BY <1>1, <2>3 DEF LogFails, LogTyped
    <3>2. log.synced <= log.synced
      BY <1>2
    <3>3. QED BY <1>2, <3>1, <3>2
  <2>4. QED BY <2>1, <2>2, <2>3
<1>5. /\ LogTyped(log') /\ log'.on = log.on /\ log'.records = log.records
      /\ log.synced <= log'.synced
  BY <1>1, <1>2, <1>4 DEF LogTyped
<1>6. Keeps(log, log')
  BY <1>1, <1>5, SameRecords
<1>7. log'.on /\ server'.mode = "up" =>
        server'.cache = ChangesAfter(log'.records, 0)
  BY <1>3, <1>5, HeldNow
<1>8. QED BY <1>1, <1>3, <1>5, <1>6, <1>7, OnwardStep

\* A signal; the timer; the return of SAVE.
LEMMA ReturnStep ==
    ASSUME Consistent, SaveReturns \/ Stop
    PROVE  Consistent'
<1>1. /\ LogTyped(log) /\ UsedTyped /\ ServerTyped(server) /\ Held(server, jobs)
      /\ JobsKnown(server, jobs)
  BY HeldNow DEF Consistent
<1>2. Keeps(log, log)
  BY <1>1, LogFields DEF Keeps
<1>3. CASE SaveReturns
  <2> DEFINE j == server.saving
             s == [Finished(server, jobs[j].phase) EXCEPT !.saving = NoChild]
  <2>1. /\ j \in Jobs(server) /\ Over(j) /\ server' = s /\ jobs' = Without(j)
        /\ UNCHANGED <<log, disk, used>>
    BY <1>3 DEF SaveReturns, Jobs
  <2>2. Held(s, Without(j))
    BY <2>1, FinishedHeld
  <2>3. s.cache = server.cache /\ s.mode = server.mode
    BY <1>1 DEF Finished, ServerTyped
  <2>4. SameUse
    BY <1>1, <2>1 DEF SameUse, UsedTyped
  <2>5. ServerTyped(s)
    BY <2>2 DEF Held
  <2> HIDE DEF s, j
  <2>6. QED BY <1>1, <1>2, <2>1, <2>2, <2>3, <2>4, <2>5, HeldNow, OnwardStep
<1>4. CASE Stop
  <2>1. /\ server' = [server EXCEPT !.mode = "stopped"]
        /\ UNCHANGED <<log, disk, jobs>> /\ server.saving = NoChild
    BY <1>4 DEF Stop, Serving
  <2>2. SameUse
    BY <1>1, <1>4 DEF Stop, Ends, SameUse, UsedTyped
  <2>3. /\ ServerTyped(server') /\ server'.mode = "stopped"
        /\ server'.cache = server.cache /\ server'.dirty = server.dirty
        /\ server'.covered = server.covered /\ server'.child = server.child
        /\ server'.saving = server.saving
    BY <1>1, <2>1 DEF ServerTyped
  <2>4. QED BY <1>1, <1>2, <2>1, <2>2, <2>3, OnwardStep
<1>5. QED BY <1>3, <1>4

\* The server is gone: the jobs left go on by themselves, the AOF keeps what
\* is synced, and of the snapshots some are left.
LEMMA DownStep ==
    ASSUME Consistent, server' = Down, DOMAIN jobs' \subseteq DOMAIN jobs,
           \A j \in DOMAIN jobs' : jobs'[j] = jobs[j],
           ~used'.orphans => \A j \in DOMAIN jobs' : Over(j),
           LogTyped(log'), Keeps(log, log'), UsedTyped',
           used'.saves = used.saves,
           disk' \in [file : Files \cup {NoSnapshot},
                      possible : SUBSET (Files \cup {NoSnapshot})],
           disk'.possible \subseteq disk.possible, disk'.file \in disk'.possible
    PROVE  Consistent'
<1>1. /\ LogTyped(log) /\ DiskTyped /\ JobsTyped(jobs)
      /\ LogAgrees(server, jobs, log)
  BY DEF Consistent
<1>2. <<>> \in Seq(Nat)
  OBVIOUS
<1>3. /\ ServerTyped(server') /\ server'.mode = "down"
      /\ server'.child = NoChild /\ server'.saving = NoChild
  BY <1>2 DEF Down, Started, ServerTyped, NoChild
<1>4. Jobs(server') = {}
  BY <1>3 DEF Jobs
<1>5. DiskTyped'
  BY <1>1 DEF DiskTyped
<1>6. JobsTyped(jobs)'
  BY <1>1 DEF JobsTyped
<1>7. JobsKnown(server, jobs)'
  BY <1>3, <1>4 DEF JobsKnown, Over
<1>8. LogAgrees(server', jobs, log')
  BY <1>1, <1>3, LogAgreesStays
<1>9. LogAgrees(server, jobs, log)'
  BY <1>3, <1>8 DEF LogAgrees
<1>10. CountAgrees(server, jobs)'
  BY <1>3 DEF CountAgrees
<1>11. QED BY <1>3, <1>5, <1>6, <1>7, <1>9, <1>10 DEF Consistent

\* The cleanup of main, the death of the process, the loss of power.
LEMMA EndStep ==
    ASSUME Consistent, Close \/ Die \/ LosePower
    PROVE  Consistent'
<1>1. /\ ServerTyped(server) /\ LogTyped(log) /\ DiskTyped /\ UsedTyped
      /\ JobsKnown(server, jobs)
  BY DEF Consistent
<1>2. /\ log.records \in Seq(Records) /\ Len(log.records) \in Nat
      /\ log.written \in Nat /\ log.synced \in Nat
      /\ log.synced <= log.written /\ log.written <= Len(log.records)
      /\ ~log.on => log.records = <<>>
  BY <1>1, LogFields
<1>3. /\ disk \in [file : Files \cup {NoSnapshot},
                   possible : SUBSET (Files \cup {NoSnapshot})]
      /\ disk.file \in disk.possible
  BY <1>1 DEF DiskTyped
<1>4. ASSUME log' = [log EXCEPT !.records = SubSeq(@, 1, log.written)]
      PROVE  LogTyped(log') /\ Keeps(log, log')
  <2>1. log' = [log EXCEPT !.records = SubSeq(log.records, 1, log.written),
                           !.written = log.written, !.synced = log.synced]
    BY <1>1, <1>4 DEF LogTyped
  <2>2. /\ log.written \in log.synced..log.written
        /\ log.synced <= log.synced /\ log.written <= log.written
    BY <1>2
  <2>3. QED BY <1>1, <1>2, <2>1, <2>2, CutFacts
<1>5. CASE Close
  <2>1. /\ server' = Down /\ jobs' = JobsLeft
        /\ log' = IF log.failed
                  THEN [log EXCEPT !.records = SubSeq(@, 1, log.written)]
                  ELSE [log EXCEPT !.written = Len(log.records),
                                   !.synced = Len(log.records)]
        /\ UNCHANGED <<disk, used>>
        /\ server.mode # "up" /\ (server.child # NoChild => ChildOver)
    BY <1>5 DEF Close
  <2>2. LogTyped(log') /\ Keeps(log, log')
    <3>1. CASE log.failed
      BY <1>4, <2>1, <3>1
    <3>2. CASE ~log.failed
      <4>1. PICK n \in Nat : n = Len(log.records) /\ n <= n /\ log.synced <= n
        BY <1>2
      <4>2. log' = [log EXCEPT !.written = n, !.synced = n]
        BY <2>1, <3>2, <4>1
      <4>3. /\ log' \in [on : BOOLEAN, records : Seq(Records), written : Nat,
                        synced : Nat, failed : BOOLEAN, full : BOOLEAN]
            /\ log'.on = log.on /\ log'.records = log.records
            /\ log'.written = n /\ log'.synced = n
        BY <1>1, <4>2 DEF LogTyped
      <4>4. LogTyped(log')
        BY <1>2, <4>1, <4>3 DEF LogTyped
      <4>5. QED BY <1>1, <4>1, <4>3, <4>4, SameRecords
    <3>3. QED BY <3>1, <3>2
  <2>3. UsedTyped' /\ used' = used
    BY <1>1, <2>1 DEF UsedTyped
  <2>4. /\ DOMAIN JobsLeft \subseteq DOMAIN jobs
        /\ \A j \in DOMAIN JobsLeft : JobsLeft[j] = jobs[j]
    BY ReapedHeld
  <2>5. ASSUME ~used.orphans, NEW j \in DOMAIN JobsLeft PROVE Over(j)
    <3>1. server.saving = NoChild
      BY <1>1, <2>1 DEF JobsKnown
    <3>2. j # server.child
      BY <1>1, <2>1, <2>5 DEF JobsLeft, Without, NoChild, JobsKnown, Consistent, JobsTyped
    <3>3. j \notin Jobs(server)
      BY <3>1, <3>2 DEF Jobs
    <3>4. QED BY <1>1, <2>4, <2>5, <3>3 DEF JobsKnown, Over
  <2>6. QED BY <1>3, <2>1, <2>2, <2>3, <2>4, <2>5, DownStep
<1>6. CASE Die
  <2>1. /\ server' = Down /\ jobs' = Without(server.saving) /\ disk' = disk
        /\ log' = [log EXCEPT !.records = SubSeq(@, 1, log.written)]
        /\ used' = [used EXCEPT !.crashes = @ + 1,
                        !.orphans = @ \/ (server.child # NoChild /\ ~ChildOver)]
    BY <1>6 DEF Die
  <2>2. LogTyped(log') /\ Keeps(log, log')
    BY <1>4, <2>1
  <2>3. /\ UsedTyped' /\ used'.saves = used.saves
        /\ ~used'.orphans => ~used.orphans /\ (server.child # NoChild => ChildOver)
    <3> DEFINE b == used.orphans \/ (server.child # NoChild /\ ~ChildOver)
    <3>1. b \in BOOLEAN
      OBVIOUS
    <3>2. used' = [used EXCEPT !.crashes = @ + 1, !.orphans = b]
      BY <1>6 DEF Die
    <3> HIDE DEF b
    <3>3. PICK c \in Nat : c = used.crashes + 1
      BY <1>1 DEF UsedTyped
    <3>4. used' = [used EXCEPT !.crashes = c, !.orphans = b]
      BY <3>2, <3>3
    <3>5. used'.saves = used.saves /\ used'.orphans = b
      BY <1>1, <3>4 DEF UsedTyped
    <3>6. used' \in [changes : Nat, saves : Nat, faults : Nat, crashes : Nat,
                    orphans : BOOLEAN, unsynced : BOOLEAN]
      BY <1>1, <3>1, <3>3, <3>4 DEF UsedTyped
    <3>7. QED BY <3>5, <3>6, Zenon DEF b, UsedTyped
  <2>4. /\ DOMAIN jobs' \subseteq DOMAIN jobs
        /\ \A j \in DOMAIN jobs' : jobs'[j] = jobs[j] /\ j # server.saving
    BY <2>1 DEF Without
  <2>5. ASSUME ~used'.orphans, NEW j \in DOMAIN jobs' PROVE Over(j)
    <3>1. CASE j = server.child
      BY <1>1, <2>3, <2>5, <3>1, <2>4 DEF ChildOver, NoChild, Consistent, JobsTyped
    <3>2. CASE j # server.child
      BY <1>1, <2>3, <2>4, <2>5, <3>2 DEF JobsKnown, Jobs, Over
    <3>3. QED BY <3>1, <3>2
  <2>6. QED BY <1>3, <2>1, <2>2, <2>3, <2>4, <2>5, DownStep
<1>7. CASE LosePower
  <2>1. /\ server' = Down /\ jobs' = <<>>
        /\ used' = [used EXCEPT !.crashes = @ + 1]
    BY <1>7 DEF LosePower, Ends
  <2>2. PICK n \in log.synced..log.written :
          log' = [log EXCEPT !.records = SubSeq(@, 1, n), !.written = n,
                             !.synced = n]
    BY <1>7 DEF LosePower
  <2>3. PICK file \in disk.possible : disk' = [file |-> file, possible |-> {file}]
    BY <1>7 DEF LosePower
  <2>4. LogTyped(log') /\ Keeps(log, log')
    <3>1. n \in Nat /\ log.synced <= n /\ n <= n
      BY <1>2
    <3>2. log' = [log EXCEPT !.records = SubSeq(log.records, 1, n),
                             !.written = n, !.synced = n]
      BY <2>2
    <3>3. QED BY <1>1, <3>1, <3>2, CutFacts
  <2>5. UsedTyped' /\ used'.saves = used.saves
    BY <1>1, <2>1 DEF UsedTyped
  <2>6. /\ disk' \in [file : Files \cup {NoSnapshot},
                      possible : SUBSET (Files \cup {NoSnapshot})]
        /\ disk'.possible \subseteq disk.possible
        /\ disk'.file \in disk'.possible
    BY <1>3, <2>3
  <2>7. DOMAIN jobs' = {}
    BY <2>1
  <2>8. QED BY <2>1, <2>4, <2>5, <2>6, <2>7, DownStep
<1>8. QED BY <1>5, <1>6, <1>7

\* What every step of rdb_save leaves alone; the count is left to show.
LEMMA JobKept ==
    ASSUME Consistent, NEW j \in DOMAIN jobs, ~Over(j), SameUse,
           server' = server, log' = log, DOMAIN jobs' = DOMAIN jobs,
           \A i \in DOMAIN jobs \ {j} : jobs'[i] = jobs[i],
           jobs'[j] \in [phase : Phases, file : Files],
           jobs'[j].phase = "synced" => jobs'[j].file.whole,
           jobs'[j].file.content = jobs[j].file.content,
           jobs'[j].file.offset = jobs[j].file.offset,
           jobs'[j].file.token = jobs[j].file.token,
           DiskTyped', disk'.possible \subseteq disk.possible \cup {jobs[j].file},
           CountAgrees(server, jobs)'
    PROVE  Consistent'
<1>1. /\ ServerTyped(server) /\ LogTyped(log) /\ JobsTyped(jobs)
      /\ JobsKnown(server, jobs) /\ LogAgrees(server, jobs, log)
  BY DEF Consistent
<1>2. ServerTyped(server)' /\ LogTyped(log)' /\ UsedTyped'
  BY <1>1 DEF SameUse
<1>3. JobsTyped(jobs)'
  BY <1>1 DEF JobsTyped, SameUse
<1>4. JobsKnown(server, jobs)'
  <2>1. \A i \in DOMAIN jobs : i \in Jobs(server) \/ i = j
                               \/ used.orphans \/ Over(i)
    BY <1>1 DEF JobsKnown, Over
  <2>2. ~used.orphans => j \in Jobs(server)
    BY <1>1 DEF JobsKnown, Over
  <2>3. Jobs(server)' = Jobs(server)
    BY DEF Jobs
  <2>4. QED BY <1>1, <2>1, <2>2, <2>3 DEF JobsKnown, Over, SameUse
<1>5. LogAgrees(server, jobs, log)'
  <2> SUFFICES ASSUME log.on
               PROVE  /\ \A file \in disk'.possible \ {NoSnapshot} :
                            Marked(file, log)
                      /\ \A i \in DOMAIN jobs : Marked(jobs'[i].file, log)
                      /\ server.mode = "up" =>
                            server.cache = ChangesAfter(log.records, 0)
    BY DEF LogAgrees, Marked
  <2>1. /\ \A file \in disk.possible \ {NoSnapshot} : Marked(file, log)
        /\ \A i \in DOMAIN jobs : Marked(jobs[i].file, log)
        /\ server.mode = "up" => server.cache = ChangesAfter(log.records, 0)
    BY <1>1 DEF LogAgrees
  <2>2. Marked(jobs'[j].file, log)
    <3>1. Marked(jobs[j].file, log)
      BY <2>1
    <3>2. QED BY <3>1 DEF Marked
  <2>3. QED BY <2>1, <2>2
<1>6. QED BY <1>2, <1>3, <1>4, <1>5 DEF Consistent

\* What the count says of a job that is not over.
LEMMA JobCounted ==
    ASSUME Consistent, NEW j \in DOMAIN jobs, ~Over(j), server.mode = "up",
           ~log.on, ~used.orphans
    PROVE  /\ Jobs(server) = {j}
           /\ \A file \in Counted :
                Covers(server.cache, Content(file), server.dirty)
           /\ server.covered <= server.dirty
           /\ Covers(server.cache, jobs[j].file.content,
                     server.dirty - server.covered)
           /\ Covers(server.cache, jobs[j].file.content, server.dirty)
           /\ jobs[j].phase \in {"renamed", "ok"} => disk.file = jobs[j].file
<1>1. /\ ServerTyped(server) /\ JobsTyped(jobs) /\ JobsKnown(server, jobs)
      /\ CountAgrees(server, jobs)
  BY DEF Consistent
<1>2. j \in Jobs(server)
  BY <1>1 DEF JobsKnown, Over
<1>3. Jobs(server) = {j}
  BY <1>1, <1>2 DEF Jobs, JobsKnown
<1>4. /\ \A file \in Counted : Covers(server.cache, Content(file), server.dirty)
      /\ server.covered <= server.dirty
      /\ Covers(server.cache, jobs[j].file.content,
                server.dirty - server.covered)
      /\ jobs[j].phase \in {"renamed", "ok"} => disk.file = jobs[j].file
  BY <1>1, <1>2 DEF CountAgrees
<1>5. server.cache \in Seq(Nat) /\ server.dirty \in Nat /\ server.covered \in Nat
  BY <1>1, ServerFields
<1>6. jobs[j].file.content \in Seq(Nat)
  BY <1>1 DEF JobsTyped, Files
<1>7. /\ server.dirty - server.covered \in Nat
      /\ server.dirty - server.covered <= server.dirty
  BY <1>4, <1>5
<1>8. Covers(server.cache, jobs[j].file.content, server.dirty)
  BY <1>4, <1>5, <1>6, <1>7, CoversMore
<1>9. QED BY <1>3, <1>4, <1>8

\* rdb_save, up to the rename, and its failure.
LEMMA JobWorks ==
    ASSUME Consistent, NEW j \in DOMAIN jobs,
           JobWrites(j) \/ JobSyncs(j) \/ JobFails(j)
    PROVE  Consistent'
<1>1. /\ UsedTyped /\ DiskTyped /\ JobsTyped(jobs)
  BY DEF Consistent
<1>2. jobs[j] \in [phase : Phases, file : Files]
  BY <1>1 DEF JobsTyped
<1>3. /\ SameUse /\ UNCHANGED <<server, log, disk>> /\ ~Over(j)
  BY <1>1 DEF JobWrites, JobSyncs, JobFails, Fault, SameUse, UsedTyped, Over
<1>4. \E phase \in {"written", "synced", "error"}, file \in Files :
        /\ jobs' = [jobs EXCEPT ![j] = [phase |-> phase, file |-> file]]
        /\ phase = "synced" => file.whole
        /\ file.content = jobs[j].file.content
        /\ file.offset = jobs[j].file.offset /\ file.token = jobs[j].file.token
  <2>1. CASE JobWrites(j)
    <3>1. [jobs[j] EXCEPT !.phase = "written"]
            = [phase |-> "written", file |-> jobs[j].file]
      BY <1>2
    <3>2. jobs' = [jobs EXCEPT ![j] = [jobs[j] EXCEPT !.phase = "written"]]
      BY <2>1 DEF JobWrites
    <3>3. QED BY <1>2, <3>1, <3>2
  <2>2. CASE JobSyncs(j)
    <3> DEFINE file == [jobs[j].file EXCEPT !.whole = TRUE]
    <3>1. /\ file \in Files /\ file.whole
          /\ file.content = jobs[j].file.content
          /\ file.offset = jobs[j].file.offset /\ file.token = jobs[j].file.token
      BY <1>2 DEF Files
    <3> DEFINE job == [[jobs[j] EXCEPT !.phase = "synced"]
                        EXCEPT !.file = file]
    <3>2. job = [phase |-> "synced", file |-> file]
      <4>1. [jobs[j] EXCEPT !.phase = "synced"]
              = [phase |-> "synced", file |-> jobs[j].file]
        BY <1>2
      <4> HIDE DEF file
      <4>2. \A x, y : [[phase |-> "synced", file |-> x] EXCEPT !.file = y]
                        = [phase |-> "synced", file |-> y]
        OBVIOUS
      <4>3. QED BY <4>1, <4>2, ZenonT(40)
    <3>3. jobs' = [jobs EXCEPT ![j] = job]
      BY <1>2, <2>2 DEF JobSyncs
    <3> HIDE DEF file, job
    <3>4. QED BY <3>1, <3>2, <3>3
  <2>3. CASE JobFails(j)
    <3>1. [jobs[j] EXCEPT !.phase = "error"]
            = [phase |-> "error", file |-> jobs[j].file]
      BY <1>2
    <3>2. jobs' = [jobs EXCEPT ![j] = [jobs[j] EXCEPT !.phase = "error"]]
      BY <2>3 DEF JobFails
    <3>3. QED BY <1>2, <3>1, <3>2
  <2>4. QED BY <2>1, <2>2, <2>3
<1>5. /\ DOMAIN jobs' = DOMAIN jobs
      /\ \A i \in DOMAIN jobs \ {j} : jobs'[i] = jobs[i]
      /\ jobs'[j] \in [phase : Phases, file : Files]
      /\ jobs'[j].phase \in {"written", "synced", "error"}
      /\ jobs'[j].phase = "synced" => jobs'[j].file.whole
      /\ jobs'[j].file.content = jobs[j].file.content
      /\ jobs'[j].file.offset = jobs[j].file.offset
      /\ jobs'[j].file.token = jobs[j].file.token
  BY <1>4 DEF Phases
<1>6. DiskTyped'
  BY <1>1, <1>3 DEF DiskTyped
<1>7. CountAgrees(server, jobs)'
  <2> SUFFICES ASSUME server.mode = "up", ~log.on, ~used.orphans
               PROVE  CountAgrees(server, jobs)'
    BY <1>3 DEF CountAgrees, SameUse
  <2>1. /\ Jobs(server) = {j} /\ server.covered <= server.dirty
        /\ \A file \in Counted :
                Covers(server.cache, Content(file), server.dirty)
        /\ Covers(server.cache, jobs[j].file.content,
                  server.dirty - server.covered)
    BY <1>3, JobCounted
  <2>2. /\ Jobs(server)' = {j} /\ Counted' = Counted
        /\ \A file : Content(file)' = Content(file)
    BY <1>3, <2>1 DEF Jobs, Counted, Content, SameUse
  <2>3. QED BY <1>3, <1>5, <2>1, <2>2 DEF CountAgrees, SameUse
<1>8. QED BY <1>3, <1>5, <1>6, <1>7, JobKept

\* The rename: the file is one of the save's, and the count covers it.
LEMMA RenameStep ==
    ASSUME Consistent, NEW j \in DOMAIN jobs, JobRenames(j)
    PROVE  Consistent'
<1>1. UsedTyped /\ DiskTyped /\ JobsTyped(jobs)
  BY DEF Consistent
<1>2. /\ jobs[j] \in [phase : Phases, file : Files] /\ jobs[j].phase = "synced"
      /\ jobs[j].file \in Files /\ jobs[j].file.whole
  BY <1>1 DEF JobsTyped, JobRenames
<1>3. /\ UNCHANGED <<server, log, used>> /\ ~Over(j)
      /\ jobs' = [jobs EXCEPT ![j] = [jobs[j] EXCEPT !.phase = "renamed"]]
      /\ disk' = [disk EXCEPT !.file = jobs[j].file,
                              !.possible = @ \cup {jobs[j].file}]
  BY <1>2 DEF JobRenames, Over
<1>4. SameUse
  BY <1>1, <1>3 DEF SameUse, UsedTyped
<1>5. [jobs[j] EXCEPT !.phase = "renamed"]
        = [phase |-> "renamed", file |-> jobs[j].file]
  BY <1>2
<1>6. /\ DOMAIN jobs' = DOMAIN jobs
      /\ \A i \in DOMAIN jobs \ {j} : jobs'[i] = jobs[i]
      /\ jobs'[j] = [phase |-> "renamed", file |-> jobs[j].file]
  BY <1>3, <1>5
<1>7. /\ jobs'[j] \in [phase : Phases, file : Files]
      /\ jobs'[j].phase = "renamed" /\ jobs'[j].file = jobs[j].file
  BY <1>2, <1>6 DEF Phases
<1>8. /\ DiskTyped' /\ disk'.file = jobs[j].file
      /\ disk'.possible = disk.possible \cup {jobs[j].file}
  <2>1. /\ disk' \in [file : Files \cup {NoSnapshot},
                      possible : SUBSET (Files \cup {NoSnapshot})]
        /\ disk'.file = jobs[j].file
        /\ disk'.possible = disk.possible \cup {jobs[j].file}
    BY <1>1, <1>2, <1>3 DEF DiskTyped
  <2>2. QED BY <1>1, <1>2, <2>1 DEF DiskTyped
<1>9. CountAgrees(server, jobs)'
  <2> SUFFICES ASSUME server.mode = "up", ~log.on, ~used.orphans
               PROVE  CountAgrees(server, jobs)'
    BY <1>3 DEF CountAgrees
  <2>1. /\ Jobs(server) = {j} /\ server.covered <= server.dirty
        /\ \A file \in Counted :
                Covers(server.cache, Content(file), server.dirty)
        /\ Covers(server.cache, jobs[j].file.content,
                  server.dirty - server.covered)
        /\ Covers(server.cache, jobs[j].file.content, server.dirty)
    BY <1>3, JobCounted
  <2>2. Content(jobs[j].file) = jobs[j].file.content
    BY <1>2, NoSnapshotAssumption DEF Content
  <2>3. /\ Jobs(server)' = {j} /\ Counted' \subseteq Counted \cup {jobs[j].file}
        /\ \A file : Content(file)' = Content(file)
    BY <1>3, <1>8, <2>1 DEF Jobs, Counted, Content
  <2>4. QED BY <1>3, <1>7, <1>8, <2>1, <2>2, <2>3 DEF CountAgrees
<1>10. QED BY <1>3, <1>4, <1>6, <1>7, <1>8, <1>9, JobKept

\* The sync of the directory: one snapshot is left.
LEMMA DirectoryStep ==
    ASSUME Consistent, NEW j \in DOMAIN jobs, JobSyncsDirectory(j)
    PROVE  Consistent'
<1>1. UsedTyped /\ DiskTyped /\ JobsTyped(jobs)
  BY DEF Consistent
<1>2. /\ jobs[j] \in [phase : Phases, file : Files] /\ jobs[j].phase = "renamed"
      /\ jobs[j].file \in Files
  BY <1>1 DEF JobsTyped, JobSyncsDirectory
<1>3. /\ UNCHANGED <<server, log, used>> /\ ~Over(j)
      /\ jobs' = [jobs EXCEPT ![j] = [jobs[j] EXCEPT !.phase = "ok"]]
      /\ disk' = [disk EXCEPT !.possible = {disk.file}]
  BY <1>2 DEF JobSyncsDirectory, Over
<1>4. SameUse
  BY <1>1, <1>3 DEF SameUse, UsedTyped
<1>5. [jobs[j] EXCEPT !.phase = "ok"] = [phase |-> "ok", file |-> jobs[j].file]
  BY <1>2
<1>6. /\ DOMAIN jobs' = DOMAIN jobs
      /\ \A i \in DOMAIN jobs \ {j} : jobs'[i] = jobs[i]
      /\ jobs'[j] = [phase |-> "ok", file |-> jobs[j].file]
  BY <1>3, <1>5
<1>7. /\ jobs'[j] \in [phase : Phases, file : Files]
      /\ jobs'[j].phase = "ok" /\ jobs'[j].file = jobs[j].file
  BY <1>2, <1>6 DEF Phases
<1>8. /\ DiskTyped' /\ disk'.file = disk.file
      /\ disk'.possible = {disk.file} /\ disk.file \in disk.possible
  <2>1. /\ disk' \in [file : Files \cup {NoSnapshot},
                      possible : SUBSET (Files \cup {NoSnapshot})]
        /\ disk'.file = disk.file /\ disk'.possible = {disk.file}
        /\ disk.file \in disk.possible
    BY <1>1, <1>3 DEF DiskTyped
  <2>2. QED BY <1>1, <2>1 DEF DiskTyped
<1>9. CountAgrees(server, jobs)'
  <2> SUFFICES ASSUME server.mode = "up", ~log.on, ~used.orphans
               PROVE  CountAgrees(server, jobs)'
    BY <1>3 DEF CountAgrees
  <2>1. /\ Jobs(server) = {j} /\ server.covered <= server.dirty
        /\ \A file \in Counted :
                Covers(server.cache, Content(file), server.dirty)
        /\ Covers(server.cache, jobs[j].file.content,
                  server.dirty - server.covered)
        /\ disk.file = jobs[j].file
    BY <1>2, <1>3, JobCounted
  <2>2. /\ Jobs(server)' = {j} /\ Counted' \subseteq Counted
        /\ \A file : Content(file)' = Content(file)
    BY <1>3, <1>8, <2>1 DEF Jobs, Counted, Content
  <2>3. QED BY <1>3, <1>7, <1>8, <2>1, <2>2 DEF CountAgrees
<1>10. QED BY <1>3, <1>4, <1>6, <1>7, <1>8, <1>9, JobKept

\* A save that fails before rdb_save: the AOF may have a mark more, that no
\* snapshot has.
LEMMA RefusedStep ==
    ASSUME Consistent, NEW mode \in {"up", "died"}, Serving, SaveRefused(mode)
    PROVE  Consistent'
<1>1. /\ LogTyped(log) /\ UsedTyped /\ server.mode = "up"
      /\ server.saving = NoChild
  BY DEF Consistent, Serving
<1>2. /\ Held(Reaped, JobsLeft) /\ Reaped.mode = "up"
      /\ Reaped.cache = server.cache /\ Reaped.saving = NoChild
  BY <1>1, ReapedHeld
<1>3. ServerTyped(Reaped)
  BY <1>2 DEF Held
<1>4. SameUse
  BY <1>1 DEF SaveRefused, Fault, SameUse, UsedTyped
<1>5. \E l, status : /\ SaveLeaves(l, status, mode)
                     /\ status \in {"none", "ok", "failed"}
                     /\ LogTyped(l) /\ Keeps(log, l)
                     /\ l.on => ChangesAfter(l.records, 0)
                                    = ChangesAfter(log.records, 0)
  <2>1. /\ log.records \in Seq(Records) /\ Keeps(log, log)
        /\ Reaped.status \in {"none", "ok", "failed"}
    BY <1>1, <1>3, LogFields, ServerFields DEF Keeps
  <2>2. Mark(0) \in Records /\ Mark(0).kind # "change"
    BY DEF Mark, Records
  <2>3. ChangesAfter(Append(log.records, Mark(0)), 0)
            = ChangesAfter(log.records, 0)
    BY <2>1, <2>2, ChangesAppend
  <2>4. /\ LogTyped(Appended(log, Mark(0))) /\ Keeps(log, Appended(log, Mark(0)))
        /\ log.on => Appended(log, Mark(0)).records = Append(log.records, Mark(0))
        /\ ~log.on => Appended(log, Mark(0)) = log
    BY <1>1, <2>2, AppendedFacts
  <2>5. /\ LogTyped(Checkpointed(log, 0)) /\ Keeps(log, Checkpointed(log, 0))
        /\ log.on => Checkpointed(log, 0).records = Append(log.records, Mark(0))
        /\ ~log.on => Checkpointed(log, 0) = log
    BY <1>1, CheckpointedFacts
  <2>6. ASSUME NEW l, LogTyped(l), Keeps(log, l),
               log.on => l.records = Append(log.records, Mark(0))
        PROVE  LET m == [l EXCEPT !.failed = TRUE]
               IN  /\ LogTyped(m) /\ Keeps(log, m)
                   /\ log.on => m.records = Append(log.records, Mark(0))
    <3> DEFINE m == [l EXCEPT !.failed = TRUE]
    <3>1. /\ m \in [on : BOOLEAN, records : Seq(Records), written : Nat,
                    synced : Nat, failed : BOOLEAN, full : BOOLEAN]
          /\ m.on = l.on /\ m.records = l.records /\ m.written = l.written
          /\ m.synced = l.synced
      BY <2>6 DEF LogTyped
    <3> HIDE DEF m
    <3>2. LogTyped(m) /\ Keeps(log, m)
      BY <2>6, <3>1 DEF LogTyped, Keeps
    <3>3. QED BY <2>6, <3>1, <3>2 DEF m
  <2>7. CASE Busy(log) /\ SaveLeaves(log, "failed", mode)
    BY <1>1, <2>1, <2>7
  <2>8. CASE log.on /\ SaveLeaves([Appended(log, Mark(0)) EXCEPT !.failed = TRUE],
                                  "failed", mode)
    BY <2>3, <2>4, <2>6, <2>8
  <2>9. CASE log.on /\ SaveLeaves([Checkpointed(log, 0) EXCEPT !.failed = TRUE],
                                  Reaped.status, mode)
    BY <2>1, <2>3, <2>5, <2>6, <2>9
  <2>10. CASE SaveLeaves(Checkpointed(log, 0), "failed", mode)
    BY <2>3, <2>5, <2>10
  <2>11. QED BY <2>7, <2>8, <2>9, <2>10 DEF SaveRefused
<1>6. PICK l, status : /\ SaveLeaves(l, status, mode)
                       /\ status \in {"none", "ok", "failed"}
                       /\ LogTyped(l) /\ Keeps(log, l)
                       /\ l.on => ChangesAfter(l.records, 0)
                                      = ChangesAfter(log.records, 0)
  BY <1>5
<1>7. /\ log' = l /\ jobs' = JobsLeft /\ disk' = disk
      /\ server' = [Reaped EXCEPT !.status = status, !.mode = mode]
  BY <1>6 DEF SaveLeaves
<1>8. /\ ServerTyped(server') /\ server'.mode = mode
      /\ server'.cache = Reaped.cache /\ server'.dirty = Reaped.dirty
      /\ server'.covered = Reaped.covered /\ server'.child = Reaped.child
      /\ server'.saving = Reaped.saving
  BY <1>3, <1>6, <1>7 DEF ServerTyped
<1>9. log'.on => server'.cache = ChangesAfter(log'.records, 0)
  <2>1. l.on => log.on
    BY <1>6 DEF Keeps
  <2>2. QED BY <1>1, <1>2, <1>6, <1>7, <1>8, <2>1, HeldNow
<1>10. QED BY <1>2, <1>4, <1>6, <1>7, <1>8, <1>9, OnwardStep

\* A save that begins: the mark is synced before the cache is copied, and all
\* changes counted so far are covered.
LEMMA BeginsStep ==
    ASSUME Consistent, NEW background \in BOOLEAN, Serving,
           SaveBegins(background)
    PROVE  Consistent'
<1> DEFINE token == used.saves + 1
           l == Checkpointed(log, token)
           job == NewJob(l, Reaped, token)
<1>1. /\ LogTyped(log) /\ UsedTyped /\ DiskTyped /\ server.mode = "up"
      /\ server.saving = NoChild
  BY DEF Consistent, Serving
<1>2. /\ Held(Reaped, JobsLeft) /\ Reaped.mode = "up"
      /\ Reaped.cache = server.cache /\ Reaped.saving = NoChild
  BY <1>1, ReapedHeld
<1>3. /\ ServerTyped(Reaped) /\ JobsTyped(JobsLeft)
      /\ JobsKnown(Reaped, JobsLeft) /\ LogAgrees(Reaped, JobsLeft, log)
      /\ CountAgrees(Reaped, JobsLeft)
  BY <1>2 DEF Held
<1>4. /\ Reaped.cache \in Seq(Nat) /\ Reaped.dirty \in Nat
  BY <1>3, ServerFields
<1>5. /\ used.saves \in Nat /\ token \in Nat /\ token # NoChild
      /\ token \notin 1..used.saves /\ \A i \in 1..used.saves : i \in 1..token
      /\ token \in 1..token
  BY <1>1 DEF UsedTyped, NoChild
<1>6. /\ Reaped.child = NoChild
      /\ used' = [used EXCEPT !.saves = token] /\ log' = l /\ disk' = disk
      /\ server' = IF background
                   THEN [Reaped EXCEPT !.child = token, !.covered = Reaped.dirty]
                   ELSE [Reaped EXCEPT !.saving = token, !.covered = Reaped.dirty]
      /\ jobs' = [i \in DOMAIN JobsLeft \cup {token} |->
                    IF i = token THEN job ELSE JobsLeft[i]]
  BY DEF SaveBegins
<1>7. /\ LogTyped(l) /\ Keeps(log, l)
      /\ log.on => /\ l.records = Append(log.records, Mark(token))
                   /\ l.synced = Len(l.records)
      /\ ~log.on => l = log
  BY <1>1, <1>5, CheckpointedFacts
<1> HIDE DEF token, l
<1>8. l.on = log.on /\ l.records \in Seq(Records) /\ Len(l.records) \in Nat
  BY <1>7, LogFields DEF Keeps
<1>9. /\ job.phase = "begun" /\ job.file.content = Reaped.cache
      /\ job.file.offset = IF l.on THEN Len(l.records) ELSE 0
      /\ job.file.token = IF l.on THEN token ELSE 0
      /\ job \in [phase : Phases, file : Files]
  <2>1. /\ job.phase = "begun" /\ job.file.content = Reaped.cache
        /\ job.file.offset = IF l.on THEN Len(l.records) ELSE 0
        /\ job.file.token = IF l.on THEN token ELSE 0
    BY DEF NewJob
  <2>2. \A n, t \in Nat : [content |-> Reaped.cache, offset |-> n, token |-> t,
                           whole |-> FALSE] \in Files
    BY <1>4 DEF Files
  <2>3. PICK n, t \in Nat : /\ n = (IF l.on THEN Len(l.records) ELSE 0)
                            /\ t = (IF l.on THEN token ELSE 0)
    BY <1>5, <1>8
  <2>4. job = [phase |-> "begun",
               file |-> [content |-> Reaped.cache, offset |-> n, token |-> t,
                         whole |-> FALSE]]
    BY <2>3 DEF NewJob
  <2>5. job \in [phase : Phases, file : Files]
    BY <2>2, <2>4 DEF Phases
  <2>6. QED BY <2>1, <2>5
<1> HIDE DEF job
<1>10. /\ DOMAIN jobs' = DOMAIN JobsLeft \cup {token} /\ jobs'[token] = job
       /\ token \notin DOMAIN JobsLeft
       /\ \A i \in DOMAIN JobsLeft : jobs'[i] = JobsLeft[i]
  BY <1>3, <1>5, <1>6 DEF JobsTyped
<1>11. /\ UsedTyped' /\ used'.saves = token /\ used'.orphans = used.orphans
       /\ used'.unsynced = used.unsynced
  BY <1>1, <1>5, <1>6 DEF UsedTyped
<1>12. /\ ServerTyped(server') /\ server'.mode = "up"
       /\ server'.cache = Reaped.cache /\ server'.dirty = Reaped.dirty
       /\ server'.covered = Reaped.dirty
       /\ server'.child = (IF background THEN token ELSE NoChild)
       /\ server'.saving = (IF background THEN NoChild ELSE token)
  BY <1>2, <1>3, <1>4, <1>5, <1>6 DEF ServerTyped
<1>13. Jobs(server') = {token} /\ Jobs(Reaped) = {}
  BY <1>2, <1>5, <1>6, <1>12 DEF Jobs
<1>14. DiskTyped' /\ JobsTyped(jobs)'
  BY <1>1, <1>3, <1>5, <1>6, <1>9, <1>10, <1>11 DEF DiskTyped, JobsTyped
<1>15. JobsKnown(server, jobs)'
  BY <1>3, <1>10, <1>11, <1>12, <1>13 DEF JobsKnown
<1>16. log.on => /\ Reaped.cache = ChangesAfter(l.records, 0)
                 /\ Marked(job.file, l)
  <2> SUFFICES ASSUME log.on
               PROVE  Reaped.cache = ChangesAfter(l.records, 0)
                      /\ Marked(job.file, l)
    OBVIOUS
  <2>1. log.records \in Seq(Records) /\ Mark(token) \in Records
        /\ Mark(token).kind # "change"
    BY <1>1, <1>5, LogFields DEF Mark, Records
  <2>2. Reaped.cache = ChangesAfter(log.records, 0)
    BY <1>2, <1>3 DEF LogAgrees
  <2>3. ChangesAfter(l.records, 0) = ChangesAfter(log.records, 0)
    BY <1>7, <2>1, ChangesAppend
  <2>4. /\ Len(l.records) \in 1..l.synced
        /\ l.records[Len(l.records)] = Mark(token)
    BY <1>7, <2>1
  <2>5. SubSeq(l.records, 1, Len(l.records)) = l.records
    BY <1>8, SubSeqFull
  <2>6. QED BY <1>8, <1>9, <2>2, <2>3, <2>4, <2>5 DEF Marked
<1>17. LogAgrees(server', JobsLeft, l)
  BY <1>1, <1>3, <1>7, <1>8, <1>12, <1>16, LogAgreesStays
<1>18. LogAgrees(server, jobs, log)'
  BY <1>6, <1>8, <1>10, <1>16, <1>17 DEF LogAgrees
<1>19. CountAgrees(server, jobs)'
  <2> SUFFICES ASSUME ~log.on, ~used.orphans PROVE CountAgrees(server, jobs)'
    BY <1>6, <1>8, <1>11 DEF CountAgrees
  <2>1. \A file \in Counted : Covers(Reaped.cache, Content(file), Reaped.dirty)
    BY <1>2, <1>3 DEF CountAgrees
  <2>2. Reaped.dirty <= Reaped.dirty /\ Reaped.dirty - Reaped.dirty \in Nat
    BY <1>4
  <2>3. Covers(Reaped.cache, job.file.content, Reaped.dirty - Reaped.dirty)
    BY <1>4, <1>9, <2>2, CoversItself
  <2>4. Counted' = Counted /\ \A file : Content(file)' = Content(file)
    BY <1>6, <1>11 DEF Counted, Content
  <2>5. Jobs(server)' = {token}
    BY <1>13 DEF Jobs
  <2>6. QED BY <1>9, <1>10, <1>12, <2>1, <2>2, <2>3, <2>4, <2>5 DEF CountAgrees
<1>20. QED BY <1>6, <1>7, <1>11, <1>12, <1>14, <1>15, <1>18, <1>19 DEF Consistent

\* A step that changes nothing.
LEMMA Unchanged ==
    ASSUME Consistent, UNCHANGED vars
    PROVE  Consistent'
<1>1. /\ server' = server /\ log' = log /\ disk' = disk /\ jobs' = jobs
      /\ used' = used
  BY DEF vars
<1>2. /\ ServerTyped(server)' /\ LogTyped(log)' /\ UsedTyped'
      /\ DiskTyped' /\ JobsTyped(jobs)' /\ JobsKnown(server, jobs)'
  BY <1>1 DEF Consistent, UsedTyped, DiskTyped, JobsTyped, JobsKnown
<1>3. LogAgrees(server, jobs, log)' /\ CountAgrees(server, jobs)'
  BY <1>1 DEF Consistent, LogAgrees, CountAgrees, Counted, Content, Jobs
<1>4. QED BY <1>2, <1>3 DEF Consistent

\* The timer.
LEMMA MaintainStep ==
    ASSUME Consistent, Maintain
    PROVE  Consistent'
<1>1. Serving /\ LogTyped(log) /\ UsedTyped
  BY DEF Maintain, Consistent
<1>2. CASE /\ server' = Reaped /\ jobs' = JobsLeft
           /\ UNCHANGED <<log, disk, used>>
  <2>1. /\ Held(Reaped, JobsLeft) /\ Reaped.mode = server.mode
        /\ Reaped.cache = server.cache
    BY ReapedHeld
  <2>2. ServerTyped(Reaped) /\ Keeps(log, log) /\ SameUse
    BY <1>1, <1>2, <2>1, LogFields DEF Held, Keeps, SameUse, UsedTyped
  <2>3. QED BY <1>1, <1>2, <2>1, <2>2, HeldNow, OnwardStep
<1>3. CASE SaveBegins(TRUE)
  BY <1>1, <1>3, BeginsStep
<1>4. CASE SaveRefused("died")
  BY <1>1, <1>4, RefusedStep
<1>5. CASE UNCHANGED vars
  BY <1>5, Unchanged
<1>6. QED BY <1>2, <1>3, <1>4, <1>5 DEF Maintain

\* A snapshot with its mark and the AOF after it give all changes.
LEMMA RecoveredAll ==
    ASSUME NEW l, LogTyped(l), l.on, NEW file \in Files, Marked(file, l)
    PROVE  Recovered(file, l) = ChangesAfter(l.records, 0)
<1>1. /\ l.records \in Seq(Records) /\ l.synced \in Nat
      /\ Len(l.records) \in Nat /\ l.synced <= Len(l.records)
  BY LogFields
<1>2. file.offset \in 1..l.synced
      /\ file.content = ChangesAfter(SubSeq(l.records, 1, file.offset), 0)
  BY DEF Marked
<1>3. file.offset \in 0..Len(l.records)
  BY <1>1, <1>2
<1>4. QED BY <1>1, <1>2, <1>3, ChangesSplit, NoSnapshotAssumption, ZenonT(40)
             DEF Recovered

\* An empty AOF has no changes.
LEMMA NoChanges == ChangesAfter(<<>>, 0) = <<>>
<1>0. <<>> \in Seq(Records)
  OBVIOUS
<1>1. PICK r \in Seq(Records) : r = <<>>
  BY <1>0, Zenon
<1>2. Places(r, 0) = {}
  <2>1. Len(r) = 0
    BY <1>1
  <2>2. QED BY <2>1 DEF Places
<1>3. Cardinality(Places(r, 0)) = 0
  BY <1>2, FS_EmptySet
<1>4. ChangesAfter(r, 0) \in Seq(Nat) /\ Len(ChangesAfter(r, 0)) = 0
  BY <1>3, ChangesTyped
<1>5. ChangesAfter(r, 0) = <<>>
  BY <1>4
<1>6. QED BY <1>1, <1>5

\* Without an AOF the snapshot gives what it holds.
LEMMA RecoveredAlone ==
    ASSUME NEW l, LogTyped(l), ~l.on, NEW file \in Files \cup {NoSnapshot}
    PROVE  Recovered(file, l) = Content(file)
<1>1. l.records = <<>>
  BY LogFields
<1>2. CASE file = NoSnapshot
  BY <1>1, <1>2, NoChanges DEF Recovered, Content
<1>3. CASE file # NoSnapshot
  <2>1. file.content \in Seq(Nat)
    BY <1>3 DEF Files
  <2>2. file.content \o <<>> = file.content
    BY <2>1
  <2>3. QED BY <1>3, <2>2 DEF Recovered, Content
<1>4. QED BY <1>2, <1>3

\* A start: the cache is what the AOF says, or what the snapshot holds.
LEMMA StartStep ==
    ASSUME Consistent, Start
    PROVE  Consistent'
<1> DEFINE cache == Recovered(disk.file, log)
<1>1. /\ LogTyped(log) /\ DiskTyped /\ UsedTyped /\ JobsTyped(jobs)
      /\ JobsKnown(server, jobs) /\ LogAgrees(server, jobs, log)
  BY DEF Consistent
<1>2. /\ server.mode = "down" /\ UNCHANGED <<disk, jobs>>
      /\ server' = [Started(cache) EXCEPT
                        !.status = IF disk.file = NoSnapshot THEN "none" ELSE "ok"]
      /\ log' = [log EXCEPT !.failed = FALSE, !.full = FALSE]
  BY DEF Start
<1>3. disk.file \in disk.possible /\ disk.file \in Files \cup {NoSnapshot}
      /\ Content(disk.file) \in Seq(Nat)
  BY <1>1, DiskFields DEF DiskTyped
<1>4. log.on => cache = ChangesAfter(log.records, 0)
  <2>1. CASE disk.file = NoSnapshot
    BY <2>1 DEF Recovered
  <2>2. CASE disk.file # NoSnapshot
    <3>1. log.on => Marked(disk.file, log)
      BY <1>1, <1>3, <2>2 DEF LogAgrees
    <3>2. QED BY <1>1, <1>3, <2>2, <3>1, RecoveredAll
  <2>3. QED BY <2>1, <2>2
<1>5. ~log.on => cache = Content(disk.file)
  BY <1>1, <1>3, RecoveredAlone
<1>6. cache \in Seq(Nat)
  <2>1. log.records \in Seq(Records) /\ log.on \in BOOLEAN
    BY <1>1, LogFields
  <2>2. ChangesAfter(log.records, 0) \in Seq(Nat)
    BY <2>1, ChangesTyped
  <2>3. QED BY <1>3, <1>4, <1>5, <2>2
<1> HIDE DEF cache
<1>7. /\ ServerTyped(server') /\ server'.mode = "up" /\ server'.cache = cache
      /\ server'.dirty = 0 /\ server'.child = NoChild
      /\ server'.saving = NoChild
  BY <1>2, <1>6 DEF Started, ServerTyped, NoChild
<1>8. LogTyped(log') /\ log'.on = log.on /\ log'.records = log.records
      /\ log'.synced = log.synced
  BY <1>1, <1>2 DEF LogTyped
<1>9. Keeps(log, log')
  BY <1>1, <1>8, LogFields DEF Keeps
<1>10. /\ UsedTyped' /\ used'.saves = used.saves /\ used'.orphans = used.orphans
       /\ used'.unsynced = (disk.possible # {disk.file})
  <2> DEFINE b == disk.possible # {disk.file}
  <2>1. b \in BOOLEAN
    OBVIOUS
  <2>2. used' = [used EXCEPT !.unsynced = b]
    BY DEF Start
  <2> HIDE DEF b
  <2>3. /\ used'.saves = used.saves /\ used'.orphans = used.orphans
        /\ used'.unsynced = b
    BY <1>1, <2>2 DEF UsedTyped
  <2>4. used' \in [changes : Nat, saves : Nat, faults : Nat, crashes : Nat,
                   orphans : BOOLEAN, unsynced : BOOLEAN]
    BY <1>1, <2>1, <2>2 DEF UsedTyped
  <2>5. QED BY <2>3, <2>4, Zenon DEF b, UsedTyped
<1>11. LogAgrees(server', jobs, log')
  BY <1>1, <1>4, <1>7, <1>8, <1>9, LogAgreesStays
<1>12. LogAgrees(server, jobs, log)'
  BY <1>2, <1>11 DEF LogAgrees
<1>13. Jobs(server') = {} /\ Jobs(server) = {}
  BY <1>1, <1>2, <1>7 DEF Jobs, JobsKnown
<1>14. DiskTyped' /\ JobsTyped(jobs)'
  BY <1>1, <1>2, <1>10 DEF DiskTyped, JobsTyped
<1>15. JobsKnown(server, jobs)'
  BY <1>1, <1>2, <1>7, <1>10, <1>13 DEF JobsKnown
<1>16. CountAgrees(server, jobs)'
  <2>1. Counted' = {disk.file}
    BY <1>2, <1>10 DEF Counted
  <2>2. Jobs(server)' = {} /\ Content(disk.file)' = Content(disk.file)
    BY <1>2, <1>13 DEF Jobs, Content
  <2>3. ~log.on => Covers(cache, Content(disk.file), 0)
    BY <1>5, <1>6, CoversItself
  <2>4. QED BY <1>2, <1>7, <1>8, <2>1, <2>2, <2>3 DEF CountAgrees, Content
<1>17. QED BY <1>7, <1>8, <1>10, <1>12, <1>14, <1>15, <1>16 DEF Consistent

\* The first start.
LEMMA ConsistentInit == Init => Consistent
<1> SUFFICES ASSUME Init PROVE Consistent
  OBVIOUS
<1>1. <<>> \in Seq(Nat)
  OBVIOUS
<1>2. /\ ServerTyped(server) /\ server.cache = <<>> /\ server.dirty = 0
      /\ server.child = NoChild /\ server.saving = NoChild
      /\ server.mode = "up"
  <2>1. server = Started(<<>>)
    BY DEF Init
  <2>2. QED BY <1>1, <2>1 DEF Started, ServerTyped, NoChild
<1>3. LogTyped(log) /\ log.records = <<>>
  <2>1. PICK r \in Seq(Records) : r = <<>>
    <3>1. <<>> \in Seq(Records)
      OBVIOUS
    <3>2. QED BY <3>1, Zenon
  <2>2. Len(r) = 0
    BY <2>1
  <2>3. /\ log \in [on : BOOLEAN, records : Seq(Records), written : Nat,
                    synced : Nat, failed : BOOLEAN, full : BOOLEAN]
        /\ log.records = r /\ log.written = 0 /\ log.synced = 0
    <3> DEFINE F == {FALSE}
    <3>1. log \in [on : BOOLEAN, records : {r}, written : {0}, synced : {0},
                   failed : F, full : F]
      BY <2>1, Zenon DEF Init
    <3>2. F \subseteq BOOLEAN
      OBVIOUS
    <3> HIDE DEF F
    <3>3. QED BY <3>1, <3>2
  <2>4. QED BY <2>1, <2>2, <2>3 DEF LogTyped
<1>4. DiskTyped /\ disk.possible = {NoSnapshot} /\ disk.file = NoSnapshot
  BY DEF Init, DiskTyped
<1>5. UsedTyped
  BY DEF Init, UsedTyped
<1>6. DOMAIN jobs = {} /\ Jobs(server) = {}
  BY <1>2 DEF Init, Jobs
<1>7. JobsTyped(jobs) /\ JobsKnown(server, jobs)
  BY <1>2, <1>6 DEF JobsTyped, JobsKnown
<1>8. LogAgrees(server, jobs, log)
  BY <1>2, <1>3, <1>4, <1>6, NoChanges DEF LogAgrees
<1>9. CountAgrees(server, jobs)
  <2>1. \A file \in Counted : Content(file) = <<>>
    BY <1>4 DEF Counted, Content
  <2>2. Covers(<<>>, <<>>, 0)
    BY <1>1, CoversItself
  <2>3. QED BY <1>2, <1>6, <2>1, <2>2 DEF CountAgrees
<1>10. QED BY <1>2, <1>3, <1>4, <1>5, <1>7, <1>8, <1>9 DEF Consistent

\* Every step of the server, of its saves and of the writer.
LEMMA ConsistentNext == Consistent /\ [Next]_vars => Consistent'
<1> SUFFICES ASSUME Consistent, [Next]_vars PROVE Consistent'
  OBVIOUS
<1>1. CASE Write
  BY <1>1, WriteStep
<1>2. CASE WriterWrites \/ WriterSyncs \/ LogFails
  BY <1>2, WriterStep
<1>3. ASSUME NEW j \in DOMAIN jobs, JobStep(j) \/ JobFails(j)
      PROVE  Consistent'
  BY <1>3, JobWorks, RenameStep, DirectoryStep DEF JobStep
<1>4. CASE SaveCommand
  BY <1>4, BeginsStep, RefusedStep DEF SaveCommand
<1>5. CASE SaveReturns \/ Stop
  BY <1>5, ReturnStep
<1>6. CASE Maintain
  BY <1>6, MaintainStep
<1>7. CASE Close \/ Die \/ LosePower
  BY <1>7, EndStep
<1>8. CASE Start
  BY <1>8, StartStep
<1>9. CASE UNCHANGED vars
  BY <1>9, Unchanged
<1>10. QED
  BY <1>1, <1>2, <1>3, <1>4, <1>5, <1>6, <1>7, <1>8, <1>9 DEF Next

-----------------------------------------------------------------------------
(* The theorems *)

\* Whatever fails, ends and starts again: every snapshot, finished or being
\* written, agrees with the AOF up to its mark, or without an AOF with the
\* cache and the count of rdb_dirty_changes.
THEOREM ConsistentInvariant == Spec => []Consistent
BY ConsistentInit, ConsistentNext, PTL DEF Spec

\* The server, the AOF, the snapshot and the saves keep their types; a child
\* or a SAVE that the manager waits for is a job there is.
THEOREM PersistenceTyped == Spec => []TypeOK
<1>1. Consistent => TypeOK
  <2> SUFFICES ASSUME Consistent PROVE TypeOK
    OBVIOUS
  <2>1. disk.possible \ {NoSnapshot} \subseteq Files /\ disk.file \in disk.possible
    BY DiskFields DEF Consistent
  <2>2. \A j \in DOMAIN jobs : jobs[j].file \in Files
    BY DEF Consistent, JobsTyped
  <2>3. {server.child, server.saving} \ {NoChild} \subseteq DOMAIN jobs
    BY DEF Consistent, JobsKnown, Jobs
  <2>4. QED BY <2>1, <2>2, <2>3 DEF Consistent, ServerTyped, LogTyped, TypeOK
<1>2. QED BY <1>1, ConsistentInvariant, PTL

\* With the AOF on, whichever part of the AOF and whichever snapshot the end
\* of the server leaves, the start accepts the snapshot and recovers every
\* change of the AOF once and in order.
THEOREM SnapshotMatchesLog == Spec => []SnapshotAndLogAgree
<1>1. Consistent => SnapshotAndLogAgree
  <2> SUFFICES ASSUME Consistent, log.on, NEW file \in disk.possible,
                      NEW n \in log.synced..log.written
               PROVE  LET left == [log EXCEPT !.records = SubSeq(log.records, 1, n)]
                      IN  /\ file # NoSnapshot => Loads(file, left)
                          /\ Recovered(file, left) = ChangesAfter(left.records, 0)
    BY DEF SnapshotAndLogAgree
  <2> DEFINE left == [log EXCEPT !.records = SubSeq(log.records, 1, n)]
             m == [log EXCEPT !.records = SubSeq(log.records, 1, n),
                              !.written = n, !.synced = n]
  <2>1. LogTyped(log) /\ DiskTyped /\ LogAgrees(server, jobs, log)
    BY DEF Consistent
  <2>2. log.synced \in Nat /\ log.written \in Nat /\ n \in Nat
        /\ log.synced <= n /\ n <= n /\ log.synced <= log.synced
    BY <2>1, LogFields
  <2>3. LogTyped(m) /\ Keeps(log, m)
    <3>1. PICK x : x = m
      OBVIOUS
    <3>2. x = [log EXCEPT !.records = SubSeq(log.records, 1, n),
                          !.written = n, !.synced = n]
      BY <3>1
    <3> HIDE DEF m
    <3>3. LogTyped(x) /\ Keeps(log, x)
      BY <2>1, <2>2, <3>2, CutFacts
    <3>4. QED BY <3>1, <3>3
  <2>4. /\ left.on = m.on /\ left.records = m.records /\ m.on
        /\ \A f \in Files \cup {NoSnapshot} : Recovered(f, left) = Recovered(f, m)
    BY <2>1 DEF LogTyped, Recovered
  <2> HIDE DEF left, m
  <2>5. CASE file = NoSnapshot
    BY <2>5 DEF Recovered, left
  <2>6. CASE file # NoSnapshot
    <3>1. file \in Files /\ file.whole
      BY <2>1, <2>6, DiskFields DEF DiskTyped
    <3>2. Marked(file, log)
      BY <2>1, <2>6 DEF LogAgrees
    <3>3. Marked(file, m)
      BY <2>1, <2>3, <3>1, <3>2, MarkedStays
    <3>4. Recovered(file, m) = ChangesAfter(m.records, 0)
      BY <2>3, <2>4, <3>1, <3>3, RecoveredAll
    <3>5. /\ m.records \in Seq(Records) /\ m.synced \in Nat
          /\ Len(m.records) \in Nat /\ m.synced <= Len(m.records)
      BY <2>3, LogFields
    <3>6. /\ file.offset \in DOMAIN m.records
          /\ m.records[file.offset] = Mark(file.token)
      BY <3>3, <3>5 DEF Marked
    <3>7. Loads(file, left)
      BY <2>4, <3>1, <3>6 DEF Loads
    <3>8. QED BY <2>4, <3>1, <3>4, <3>7 DEF left
  <2>7. QED BY <2>5, <2>6
<1>2. QED BY <1>1, ConsistentInvariant, PTL

\* Without an AOF, what any snapshot that may be found lacks of the cache is
\* no more than the count of rdb_dirty_changes.
THEOREM CountCovers == Spec => []ChangesAccounted
<1>1. Consistent => ChangesAccounted
  <2> SUFFICES ASSUME Consistent, server.mode = "up", ~log.on, ~used.orphans,
                      NEW file \in Counted
               PROVE  LET saved == IF file = NoSnapshot THEN <<>> ELSE file.content
                      IN  /\ file # NoSnapshot => file.whole
                          /\ saved = SubSeq(server.cache, 1, Len(saved))
                          /\ Len(server.cache) - Len(saved) <= server.dirty
    BY DEF ChangesAccounted, Counted
  <2>1. /\ DiskTyped /\ Covers(server.cache, Content(file), server.dirty)
        /\ ServerTyped(server)
    BY DEF Consistent, CountAgrees
  <2>2. file \in disk.possible /\ Content(file) \in Seq(Nat)
    BY <2>1, DiskFields
  <2>3. file # NoSnapshot => file.whole
    BY <2>1, <2>2 DEF DiskTyped
  <2>4. Len(server.cache) \in Nat /\ Len(Content(file)) \in Nat
        /\ server.dirty \in Nat
    BY <2>1, <2>2, ServerFields
  <2>5. /\ Content(file) = SubSeq(server.cache, 1, Len(Content(file)))
        /\ Len(server.cache) - Len(Content(file)) <= server.dirty
    BY <2>1, <2>4 DEF Covers
  <2>6. QED BY <2>3, <2>5 DEF Content
<1>2. QED BY <1>1, ConsistentInvariant, PTL

=============================================================================
