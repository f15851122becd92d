---------------------------- MODULE ReactorProofs ----------------------------
(***************************************************************************)
(* Proofs about the Reactor for any number of connections, requests, kinds *)
(* of requests and any high water mark: the invariant of ReactorInvariant, *)
(* and from it the invariants and the action property that the runs of     *)
(* MCReactor check.                                                        *)
(***************************************************************************)
EXTENDS ReactorInvariant, TLAPS, SequenceTheorems, FiniteSetTheorems

-----------------------------------------------------------------------------
(* One connection *)

\* The fields of a connection, one by one.
LEMMA FieldTypes ==
    ASSUME NEW k \in Connection
    PROVE  /\ k.state \in {"new", "backlog", "open", "closed"}
           /\ k.taken \in Nat /\ k.consumed \in Nat /\ k.barrier \in Nat
           /\ k.output \in Seq(Reply) /\ Len(k.output) \in Nat
           /\ k.deferred \in BOOLEAN /\ k.peerEof \in BOOLEAN
           /\ k.closing \in BOOLEAN /\ k.interest \subseteq {"in", "out"}
BY DEF Connection

\* An interval is finite, and n elements long when it ends n further on.
LEMMA IntervalSize ==
    ASSUME NEW a \in Nat, NEW b \in Nat, NEW n \in Nat
    PROVE  /\ IsFiniteSet((a + 1)..b)
           /\ Cardinality((a + 1)..(a + n)) = n
<1>1. \A x, y \in Int : /\ IsFiniteSet(x..y)
                        /\ Cardinality(x..y) = IF x > y THEN 0 ELSE y - x + 1
  BY FS_Interval
<1>2. a + 1 \in Int /\ b \in Int /\ a + n \in Int
  OBVIOUS
<1>3. Cardinality((a + 1)..(a + n)) =
        IF a + 1 > a + n THEN 0 ELSE (a + n) - (a + 1) + 1
  BY <1>1, <1>2
<1>4. QED BY <1>1, <1>2, <1>3

\* The requests that process_input consumes are the next ones of the input.
LEMMA AheadInterval ==
    ASSUME NEW c \in Conns, NEW k \in Connection
    PROVE  /\ IsFiniteSet(Ahead(c, k)) /\ Cardinality(Ahead(c, k)) \in Nat
           /\ Ahead(c, k) =
                (k.consumed + 1)..(k.consumed + Cardinality(Ahead(c, k)))
           /\ Ahead(c, k) = {} <=> Cardinality(Ahead(c, k)) = 0
<1> DEFINE S == Ahead(c, k)
           L == Cardinality(S)
           a == k.consumed
<1>1. a \in Nat /\ k.taken \in Nat /\ Len(k.output) \in Nat
  BY FieldTypes
<1>2. S \subseteq (a + 1)..k.taken
  BY DEF Ahead
<1>3. \A n \in S : \A m \in (a + 1)..n : m \in S
  <2> SUFFICES ASSUME NEW n \in S, NEW m \in (a + 1)..n PROVE m \in S
    OBVIOUS
  <2>1. n \in Nat /\ m \in Nat /\ m <= n /\ n <= k.taken /\ a + 1 <= m
    BY <1>1, <1>2
  <2>2. m \in (a + 1)..k.taken /\ (a + 1)..(m - 1) \subseteq (a + 1)..(n - 1)
    BY <1>1, <2>1
  <2>3. Len(k.output) + (m - a) <= OutputHighWater
    <3>1. Len(k.output) + (n - a) <= OutputHighWater
      BY DEF Ahead
    <3>2. OutputHighWater \in Nat
      BY ReactorAssumption
    <3>3. QED BY <1>1, <2>1, <3>1, <3>2
  <2>4. QED BY <2>2, <2>3 DEF Ahead
<1>4. IsFiniteSet(S) /\ L \in Nat /\ (S = {} <=> L = 0)
  <2>1. IsFiniteSet((a + 1)..k.taken)
    BY <1>1, IntervalSize
  <2>2. IsFiniteSet(S)
    BY <1>2, <2>1, FS_Subset
  <2>3. QED BY <2>2, FS_CardinalityType, FS_EmptySet
<1>5. S \subseteq (a + 1)..(a + L)
  <2> SUFFICES ASSUME NEW n \in S, n > a + L PROVE FALSE
    BY <1>1, <1>2, <1>4
  <2>1. n \in Nat /\ a + L + 1 <= n
    BY <1>1, <1>2, <1>4
  <2>2. (a + 1)..(a + L + 1) \subseteq S
    BY <1>1, <1>3, <1>4, <2>1
  <2>3. Cardinality((a + 1)..(a + L + 1)) = L + 1
    <3>1. L + 1 \in Nat /\ a + L + 1 = a + (L + 1)
      BY <1>1, <1>4
    <3>2. QED BY <1>1, <3>1, IntervalSize
  <2>4. Cardinality((a + 1)..(a + L + 1)) <= L
    BY <1>4, <2>2, FS_Subset
  <2>5. QED BY <1>4, <2>3, <2>4
<1>6. S = (a + 1)..(a + L)
  <2>1. IsFiniteSet((a + 1)..(a + L)) /\ Cardinality((a + 1)..(a + L)) = L
    <3>1. a + L \in Nat
      BY <1>1, <1>4
    <3>2. QED BY <1>1, <1>4, <3>1, IntervalSize
  <2>2. QED BY <1>5, <2>1, FS_Subset
<1>7. QED BY <1>4, <1>6

\* The transactions that process_input commits are finitely many.
LEMMA LoggedFinite ==
    ASSUME NEW c \in Conns, NEW k \in Connection
    PROVE  /\ IsFiniteSet(Logged(c, k))
           /\ Cardinality(Logged(c, k)) \in Nat
           /\ \A T \in SUBSET Logged(c, k) :
                /\ Cardinality(T) \in Nat
                /\ Cardinality(T) <= Cardinality(Logged(c, k))
<1>1. Logged(c, k) \subseteq Ahead(c, k)
  BY DEF Logged
<1>2. IsFiniteSet(Logged(c, k))
  BY <1>1, AheadInterval, FS_Subset
<1>3. \A T \in SUBSET Logged(c, k) :
        IsFiniteSet(T) /\ Cardinality(T) <= Cardinality(Logged(c, k))
  BY <1>2, FS_Subset
<1>4. QED BY <1>2, <1>3, FS_CardinalityType
\* How many requests process_input consumes, what the last of them is, and how
\* many of them it answers at once.
Consumes(c, k) == Cardinality(Ahead(c, k))

EndsIn(c, k, S) ==
    Consumes(c, k) # 0 /\ requests[c][k.consumed + Consumes(c, k)] \in S

Answers(c, k) ==
    IF EndsIn(c, k, Misses) THEN Consumes(c, k) - 1 ELSE Consumes(c, k)

\* What process_input does to the fields.
LEMMA ProcessedFields ==
    ASSUME NEW c \in Conns, NEW k \in Connection, NEW seq \in Nat,
           NEW p, p = Processed(c, k, seq)
    PROVE  /\ Consumes(c, k) \in Nat /\ Answers(c, k) \in Nat
           /\ p \in Connection
           /\ p.state = k.state /\ p.taken = k.taken
           /\ p.peerEof = k.peerEof /\ p.interest = k.interest
           /\ p.consumed = IF EndsIn(c, k, {"bad"}) THEN k.taken
                           ELSE k.consumed + Consumes(c, k)
           /\ Len(p.output) = Len(k.output) + Answers(c, k)
           /\ \A i \in 1..Len(k.output) : p.output[i] = k.output[i]
           /\ \A i \in (Len(k.output) + 1)..Len(p.output) :
                /\ p.output[i].request = k.consumed + (i - Len(k.output))
                /\ p.output[i].barrier <= p.barrier
           /\ p.barrier >= k.barrier
           /\ Consumes(c, k) = 0 =>
                p.barrier = k.barrier /\ p.output = k.output
           /\ p.deferred <=> (k.deferred \/ EndsIn(c, k, Misses))
           /\ p.closing <=> (k.closing \/ EndsIn(c, k, {"bad"}))
<1> DEFINE L == Consumes(c, k)
           misses == EndsIn(c, k, Misses)
           bad == EndsIn(c, k, {"bad"})
           n == Answers(c, k)
           logged == Logged(c, k)
           ahead == Ahead(c, k)
           last == k.consumed + Cardinality(ahead)
           Ends(S) == ahead # {} /\ requests[c][last] \in S
           Number(i) == IF i \notin logged THEN 0
                        ELSE seq + Cardinality({m \in logged : m <= i})
           answered == IF Ends(Misses) THEN Cardinality(ahead) - 1
                                       ELSE Cardinality(ahead)
           reply(i) == [request |-> k.consumed + i,
                        barrier |-> Number(k.consumed + i)]
           replies == [i \in 1..answered |-> reply(i)]
           barrier == IF logged = {} THEN k.barrier
                      ELSE Greatest(k.barrier, seq + Cardinality(logged))
<1>1. p = [k EXCEPT
            !.consumed = IF Ends({"bad"}) THEN k.taken ELSE last,
            !.output = @ \o replies,
            !.barrier = barrier,
            !.deferred = @ \/ Ends(Misses),
            !.closing = @ \/ Ends({"bad"})]
  BY DEF Processed
<1>2. /\ L \in Nat /\ (ahead = {} <=> L = 0)
  BY AheadInterval DEF Consumes
<1>3. /\ Ends(Misses) <=> misses
      /\ Ends({"bad"}) <=> bad
  BY <1>2 DEF EndsIn, Consumes
<1>4. answered = n /\ n \in Nat
  BY <1>2, <1>3 DEF Answers, Consumes, EndsIn
<1>5. /\ k.taken \in Nat /\ k.consumed \in Nat /\ k.barrier \in Nat
      /\ k.output \in Seq(Reply) /\ Len(k.output) \in Nat
  BY FieldTypes
<1>6. \A i \in Nat : Number(i) \in Nat /\ Number(i) <= barrier
  <2> TAKE i \in Nat
  <2>1. {m \in logged : m <= i} \in SUBSET logged
    OBVIOUS
  <2>2. /\ Cardinality(logged) \in Nat
        /\ Cardinality({m \in logged : m <= i}) \in Nat
        /\ Cardinality({m \in logged : m <= i}) <= Cardinality(logged)
    BY <2>1, LoggedFinite
  <2> HIDE DEF logged
  <2>3. QED BY <1>5, <2>2 DEF Greatest
<1>7. barrier \in Nat /\ barrier >= k.barrier
  BY <1>5, LoggedFinite DEF Greatest
<1>8. L = 0 => barrier = k.barrier
  BY <1>2 DEF Logged
<1> HIDE DEF Number, barrier, answered, logged, ahead, last, Ends, L, n,
             misses, bad
<1>9. \A i \in Nat : /\ reply(i) \in Reply /\ reply(i).request = k.consumed + i
                     /\ reply(i).barrier <= barrier
  <2> SUFFICES ASSUME NEW i \in Nat
               PROVE  /\ reply(i) \in Reply
                      /\ reply(i).request = k.consumed + i
                      /\ reply(i).barrier <= barrier
    OBVIOUS
  <2>1. k.consumed + i \in Nat
    BY <1>5
  <2>2. Number(k.consumed + i) \in Nat /\ Number(k.consumed + i) <= barrier
    BY <1>6, <2>1
  <2>3. QED BY <2>1, <2>2 DEF Reply
<1> HIDE DEF reply
<1>10. /\ replies \in Seq(Reply) /\ Len(replies) = n
       /\ \A i \in 1..n : replies[i] = reply(i)
  <2>1. replies = [i \in 1..n |-> reply(i)]
    BY <1>4
  <2>2. replies \in [1..n -> Reply]
    BY <1>9, <2>1
  <2> HIDE DEF replies
  <2>3. replies \in Seq(Reply) /\ Len(replies) = n
    BY <1>4, <2>2
  <2>4. QED BY <2>1, <2>3
<1> HIDE DEF replies
<1> DEFINE output == k.output \o replies
<1>11. /\ output \in Seq(Reply) /\ Len(output) = Len(k.output) + n
       /\ \A i \in 1..Len(k.output) : output[i] = k.output[i]
       /\ \A i \in (Len(k.output) + 1)..Len(output) :
            output[i] = replies[i - Len(k.output)]
       /\ n = 0 => output = k.output
  <2>1. /\ output \in Seq(Reply) /\ Len(output) = Len(k.output) + n
        /\ \A i \in 1..(Len(k.output) + n) : output[i] =
                IF i <= Len(k.output) THEN k.output[i]
                ELSE replies[i - Len(k.output)]
    <3>1. replies \in Seq(Reply) /\ Len(replies) = n
      BY <1>10
    <3>2. /\ output \in Seq(Reply)
          /\ Len(output) = Len(k.output) + Len(replies)
          /\ \A i \in 1..(Len(k.output) + Len(replies)) : output[i] =
                IF i <= Len(k.output) THEN k.output[i]
                ELSE replies[i - Len(k.output)]
      BY <1>5, <3>1, ConcatProperties
    <3> HIDE DEF output
    <3>3. QED BY <3>1, <3>2
  <2> HIDE DEF output
  <2>2. n = 0 => \A i \in 1..Len(k.output) : output[i] = k.output[i]
    BY <1>5, <2>1
  <2>3. n = 0 => output = k.output
    BY <1>5, <2>1, <2>2, SeqEqual
  <2>4. \A i \in 1..Len(k.output) : output[i] = k.output[i]
    BY <1>4, <1>5, <2>1
  <2>5. \A i \in (Len(k.output) + 1)..Len(output) :
            output[i] = replies[i - Len(k.output)]
    BY <1>4, <1>5, <2>1
  <2>6. QED BY <2>1, <2>3, <2>4, <2>5
<1> HIDE DEF output
<1>12. /\ p.state = k.state /\ p.taken = k.taken
       /\ p.peerEof = k.peerEof /\ p.interest = k.interest
       /\ p.consumed = IF Ends({"bad"}) THEN k.taken ELSE last
       /\ p.output = output /\ p.barrier = barrier
       /\ p.deferred = (k.deferred \/ Ends(Misses))
       /\ p.closing = (k.closing \/ Ends({"bad"}))
  BY <1>1 DEF Connection, output
<1>13. last \in Nat /\ last = k.consumed + L
  BY <1>2, <1>5 DEF last, ahead, L, Consumes
<1>14. p \in Connection
  BY <1>1, <1>5, <1>7, <1>11, <1>13, ZenonT(40) DEF Connection, output
<1>15. \A i \in (Len(k.output) + 1)..Len(p.output) :
            /\ p.output[i].request = k.consumed + (i - Len(k.output))
            /\ p.output[i].barrier <= p.barrier
  <2> SUFFICES ASSUME NEW i \in (Len(k.output) + 1)..Len(output)
               PROVE  /\ output[i].request = k.consumed + (i - Len(k.output))
                      /\ output[i].barrier <= barrier
    BY <1>12
  <2>1. i - Len(k.output) \in 1..n /\ i - Len(k.output) \in Nat
    BY <1>4, <1>5, <1>11
  <2>2. output[i] = reply(i - Len(k.output))
    BY <1>10, <1>11, <2>1
  <2>3. QED BY <1>9, <2>1, <2>2
<1>16. L = 0 => n = 0
  BY <1>2, <1>4 DEF L, n, Answers, EndsIn
<1>17. p.deferred <=> (k.deferred \/ misses)
  BY <1>3, <1>12, FieldTypes
<1>18. p.closing <=> (k.closing \/ bad)
  BY <1>3, <1>12, FieldTypes
<1>19. QED
  BY <1>2, <1>3, <1>4, <1>7, <1>8, <1>11, <1>12, <1>13, <1>14, <1>15, <1>16,
     <1>17, <1>18 DEF L, n, misses, bad

\* The typed facts that the arithmetic below needs.
LEMMA ReplyTypes ==
    ASSUME TypeOK, NEW c \in Conns
    PROVE  /\ conn[c] \in Connection
           /\ requests[c] \in Seq(Requests) /\ Len(requests[c]) \in Nat
           /\ received[c] \in Seq(Reply) /\ Len(received[c]) \in Nat
           /\ OutputHighWater \in Nat \ {0}
BY ReactorAssumption DEF TypeOK

\* process_input keeps the replies in order and stops only for a reason.
LEMMA ProcessedAgrees ==
    ASSUME TypeOK, NEW c \in Conns, NEW k \in Connection, NEW seq \in Nat,
           NEW r \in Seq(Reply), RepliesAgree(c, k, r),
           k.closing => k.output # <<>>,
           NEW p, p = Processed(c, k, seq)
    PROVE  /\ p \in Connection /\ RepliesAgree(c, p, r) /\ Settled(p)
           /\ p.state = k.state /\ p.taken = k.taken
           /\ p.peerEof = k.peerEof /\ p.interest = k.interest
           /\ p.output = <<>> => k.output = <<>>
           /\ k.deferred => p.deferred
           /\ CanRecv(p) => p.consumed = p.taken
           /\ Ahead(c, k) = {} =>
                p.output = k.output /\ p.barrier = k.barrier
<1> DEFINE L == Consumes(c, k)
           misses == EndsIn(c, k, Misses)
           bad == EndsIn(c, k, {"bad"})
           n == Answers(c, k)
<1>1. /\ L \in Nat /\ n \in Nat /\ p \in Connection
      /\ p.state = k.state /\ p.taken = k.taken
      /\ p.peerEof = k.peerEof /\ p.interest = k.interest
      /\ p.consumed = IF bad THEN k.taken ELSE k.consumed + L
      /\ Len(p.output) = Len(k.output) + n
      /\ \A i \in 1..Len(k.output) : p.output[i] = k.output[i]
      /\ \A i \in (Len(k.output) + 1)..Len(p.output) :
            /\ p.output[i].request = k.consumed + (i - Len(k.output))
            /\ p.output[i].barrier <= p.barrier
      /\ p.barrier >= k.barrier
      /\ L = 0 => p.barrier = k.barrier /\ p.output = k.output
      /\ p.deferred <=> (k.deferred \/ misses)
      /\ p.closing <=> (k.closing \/ bad)
  <2>1. /\ L \in Nat /\ n \in Nat /\ p \in Connection
        /\ p.state = k.state /\ p.taken = k.taken
        /\ p.peerEof = k.peerEof /\ p.interest = k.interest
    BY ProcessedFields
  <2>2. /\ p.consumed = IF bad THEN k.taken ELSE k.consumed + L
        /\ Len(p.output) = Len(k.output) + n
    BY ProcessedFields
  <2>3. \A i \in 1..Len(k.output) : p.output[i] = k.output[i]
    BY ProcessedFields
  <2>4. \A i \in (Len(k.output) + 1)..Len(p.output) :
            /\ p.output[i].request = k.consumed + (i - Len(k.output))
            /\ p.output[i].barrier <= p.barrier
    BY ProcessedFields
  <2>5. /\ p.barrier >= k.barrier
        /\ L = 0 => p.barrier = k.barrier /\ p.output = k.output
    BY ProcessedFields
  <2>6. /\ p.deferred <=> (k.deferred \/ misses)
        /\ p.closing <=> (k.closing \/ bad)
    BY ProcessedFields
  <2>7. QED BY <2>1, <2>2, <2>3, <2>4, <2>5, <2>6
<1>2. /\ k.taken \in Nat /\ k.consumed \in Nat /\ k.barrier \in Nat
      /\ Len(k.output) \in Nat /\ Len(p.output) \in Nat /\ Len(r) \in Nat
      /\ p.barrier \in Nat
      /\ OutputHighWater \in Nat \ {0} /\ Len(requests[c]) \in Nat
  BY <1>1, FieldTypes, ReplyTypes
<1>3. /\ Ahead(c, k) = (k.consumed + 1)..(k.consumed + L)
      /\ Ahead(c, k) = {} <=> L = 0
  BY AheadInterval DEF Consumes
<1>4. ASSUME L # 0
      PROVE  /\ ~k.closing /\ ~k.deferred
             /\ Len(k.output) + L <= OutputHighWater
             /\ k.consumed + L <= k.taken
             /\ \A m \in (k.consumed + 1)..(k.consumed + L - 1) :
                    requests[c][m] \notin Misses \cup {"bad"}
  <2>1. L \in Nat /\ k.consumed \in Nat
    BY <1>1, <1>2
  <2> DEFINE last == k.consumed + L
  <2>2. last \in Ahead(c, k) /\ last - k.consumed = L
    BY <1>3, <1>4, <2>1
  <2>3. /\ last \in (k.consumed + 1)..k.taken /\ ~k.closing /\ ~k.deferred
        /\ Len(k.output) + (last - k.consumed) <= OutputHighWater
        /\ \A m \in (k.consumed + 1)..(last - 1) :
                requests[c][m] \notin Misses \cup {"bad"}
    BY <2>2 DEF Ahead
  <2>4. last <= k.taken
    BY <1>2, <2>3
  <2>5. Len(k.output) + L <= OutputHighWater
    BY <2>2, <2>3
  <2>6. k.consumed + L <= k.taken
    BY <2>4
  <2>7. \A m \in (k.consumed + 1)..(k.consumed + L - 1) :
            requests[c][m] \notin Misses \cup {"bad"}
    BY <2>1, <2>3
  <2>8. ~k.closing /\ ~k.deferred
    BY <2>3
  <2> HIDE DEF last, L
  <2>9. QED BY <2>5, <2>6, <2>7, <2>8
<1>5. misses => n = L - 1 /\ ~bad /\ L # 0
  BY DEF Misses, EndsIn, Answers
<1>6. ~misses => n = L
  BY DEF Answers
<1>7. bad => L # 0
  BY DEF EndsIn
<1> HIDE DEF misses, bad, n, L
<1>8. /\ k.consumed <= k.taken /\ k.taken <= Len(requests[c])
      /\ Len(k.output) <= OutputHighWater /\ Numbered(r, 0)
      /\ \A i \in 1..Len(k.output) :
            k.output[i].request = Len(r) + i /\ k.output[i].barrier <= k.barrier
      /\ k.deferred => ~k.closing /\ Len(k.output) < OutputHighWater
      /\ ~k.closing /\ ~k.deferred => k.consumed = Len(r) + Len(k.output)
      /\ ~k.closing /\ k.deferred => k.consumed = Len(r) + Len(k.output) + 1
  <2>1. /\ k.consumed <= k.taken /\ k.taken <= Len(requests[c])
        /\ Len(k.output) <= OutputHighWater /\ Numbered(r, 0)
        /\ \A i \in 1..Len(k.output) :
              k.output[i].request = Len(r) + i /\ k.output[i].barrier <= k.barrier
        /\ k.deferred => ~k.closing /\ Len(k.output) < OutputHighWater
        /\ ~k.closing => k.consumed = Len(r) + Len(k.output) + Unanswered(k)
    BY DEF RepliesAgree, Numbered, CoveredBy
  <2>2. /\ ~k.deferred => Unanswered(k) = 0
        /\ k.deferred => Unanswered(k) = 1
    BY DEF Unanswered
  <2>3. /\ ~k.closing /\ ~k.deferred => k.consumed = Len(r) + Len(k.output)
        /\ ~k.closing /\ k.deferred => k.consumed = Len(r) + Len(k.output) + 1
    BY <1>2, <2>1, <2>2
  <2>4. QED BY <2>1, <2>3
<1>9. RepliesAgree(c, p, r)
  <2>1. Len(p.output) <= OutputHighWater
    BY <1>1, <1>2, <1>4, <1>5, <1>6, <1>8
  <2>2. p.consumed <= p.taken /\ p.taken <= Len(requests[c])
    BY <1>1, <1>2, <1>4, <1>8
  <2>3. ASSUME NEW i \in 1..Len(p.output)
        PROVE  p.output[i].request = Len(r) + i /\ p.output[i].barrier <= p.barrier
    <3>1. CASE i \in 1..Len(k.output)
      <4>1. p.output[i] = k.output[i]
        BY <1>1, <3>1
      <4>2. k.output[i].request = Len(r) + i /\ k.output[i].barrier <= k.barrier
        BY <1>8, <3>1
      <4>3. k.output[i].barrier \in Nat
        <5>1. k.output \in Seq(Reply)
          BY FieldTypes
        <5>2. k.output[i] \in Reply
          BY <1>2, <3>1, <5>1
        <5>3. QED BY <5>2 DEF Reply
      <4>4. p.barrier >= k.barrier
        BY <1>1
      <4>5. QED BY <1>2, <4>1, <4>2, <4>3, <4>4
    <3>2. CASE i \notin 1..Len(k.output)
      <4>1. i \in (Len(k.output) + 1)..Len(p.output)
        BY <1>2, <3>2
      <4>2. L # 0
        BY <1>1, <1>2, <1>5, <1>6, <4>1
      <4>3. k.consumed = Len(r) + Len(k.output)
        BY <1>4, <1>8, <4>2
      <4>4. p.output[i].request = k.consumed + (i - Len(k.output))
            /\ p.output[i].barrier <= p.barrier
        BY <1>1, <4>1
      <4>5. \A x, y, z \in Nat : (x + y) + (z - y) = x + z
        OBVIOUS
      <4>6. i \in Nat /\ Len(r) \in Nat /\ Len(k.output) \in Nat
        BY <1>2, <4>1
      <4>7. (Len(r) + Len(k.output)) + (i - Len(k.output)) = Len(r) + i
        BY <4>5, <4>6, Zenon
      <4>8. QED BY <4>3, <4>4, <4>7, Zenon
    <3>3. QED BY <3>1, <3>2
  <2>4. p.deferred => ~p.closing /\ Len(p.output) < OutputHighWater
    <3>1. CASE misses
      BY <1>1, <1>2, <1>4, <1>5, <3>1, SMTT(20)
    <3>2. CASE ~misses
      BY <1>1, <1>2, <1>4, <1>6, <1>7, <1>8, <3>2
    <3>3. QED BY <3>1, <3>2
  <2>5. ~p.closing => p.consumed = Len(r) + Len(p.output) + Unanswered(p)
    <3> SUFFICES ASSUME ~p.closing
                 PROVE  p.consumed = Len(r) + Len(p.output) + Unanswered(p)
      OBVIOUS
    <3>1. /\ ~k.closing /\ ~bad /\ p.consumed = k.consumed + L
          /\ L \in Nat /\ Len(p.output) = Len(k.output) + n
      BY <1>1
    <3>2. CASE misses
      <4>1. p.deferred /\ n = L - 1 /\ k.consumed = Len(r) + Len(k.output)
        BY <1>1, <1>4, <1>5, <1>8, <3>2
      <4>2. Unanswered(p) = 1
        BY <4>1 DEF Unanswered
      <4>3. QED BY <1>2, <3>1, <4>1, <4>2
    <3>3. CASE ~misses /\ k.deferred
      <4>1. /\ p.deferred /\ n = L /\ L = 0
            /\ k.consumed = Len(r) + Len(k.output) + 1
        BY <1>1, <1>4, <1>6, <1>8, <3>1, <3>3
      <4>2. QED BY <1>2, <3>1, <4>1 DEF Unanswered
    <3>4. CASE ~misses /\ ~k.deferred
      <4>1. ~p.deferred /\ n = L /\ k.consumed = Len(r) + Len(k.output)
        BY <1>1, <1>6, <1>8, <3>1, <3>4
      <4>2. QED BY <1>2, <3>1, <4>1 DEF Unanswered
    <3>5. QED BY <3>2, <3>3, <3>4
  <2>6. Numbered(p.output, Len(r)) /\ CoveredBy(p.output, p.barrier)
    BY <2>3 DEF Numbered, CoveredBy
  <2>7. QED BY <1>8, <2>1, <2>2, <2>4, <2>5, <2>6 DEF RepliesAgree
<1>10. CanRecv(p) => p.consumed = p.taken
  <2> SUFFICES ASSUME CanRecv(p), k.consumed + L # k.taken PROVE FALSE
    BY <1>1
  <2>1. ~p.closing /\ ~p.deferred /\ Len(p.output) < OutputHighWater
    BY DEF CanRecv
  <2>2. ~k.closing /\ ~k.deferred /\ ~misses /\ ~bad /\ n = L
    BY <1>1, <1>6, <2>1
  <2>3. k.consumed + L + 1 \in (k.consumed + 1)..k.taken
    <3>1. L \in Nat /\ k.consumed \in Nat /\ k.taken \in Nat
      BY <1>1, <1>2
    <3>2. k.consumed + L <= k.taken
      BY <1>2, <1>4, <1>8, <3>1
    <3>3. QED BY <3>1, <3>2
  <2>4. Len(k.output) + ((k.consumed + L + 1) - k.consumed) <= OutputHighWater
    BY <1>1, <1>2, <2>1, <2>2, SMTT(20)
  <2>5. \A m \in (k.consumed + 1)..((k.consumed + L + 1) - 1) :
            requests[c][m] \notin Misses \cup {"bad"}
    <3> SUFFICES ASSUME NEW m \in (k.consumed + 1)..(k.consumed + L)
                 PROVE  requests[c][m] \notin Misses \cup {"bad"}
      BY <1>1, <1>2
    <3>1. L # 0
      BY <1>1, <1>2
    <3>2. CASE m = k.consumed + L
      BY <2>2, <3>1, <3>2 DEF misses, bad, EndsIn, L
    <3>3. CASE m # k.consumed + L
      <4>1. m \in (k.consumed + 1)..(k.consumed + L - 1)
        <5>1. L \in Nat
          BY <1>1
        <5>2. QED BY <1>2, <3>3, <5>1, SMTT(20)
      <4>2. QED BY <1>4, <3>1, <4>1
    <3>4. QED BY <3>2, <3>3
  <2>6. k.consumed + L + 1 \in Ahead(c, k)
    BY <2>2, <2>3, <2>4, <2>5 DEF Ahead
  <2>7. QED BY <1>1, <1>2, <1>3, <2>6
<1>11. p.output = <<>> => k.output = <<>> /\ n = 0
  BY <1>1, <1>2, FieldTypes
<1>12. p.closing => p.output # <<>>
  <2>1. CASE bad
    BY <1>1, <1>5, <1>6, <1>7, <1>11, <2>1
  <2>2. CASE ~bad
    BY <1>1, <1>11, <2>2
  <2>3. QED BY <2>1, <2>2
<1>13. ~p.deferred /\ p.output = <<>> => p.taken = p.consumed
  <2>1. p.output = <<>> => Len(p.output) < OutputHighWater
    BY <1>2
  <2>2. QED BY <1>10, <1>12, <2>1 DEF CanRecv
<1>14. QED BY <1>1, <1>3, <1>9, <1>10, <1>11, <1>12, <1>13 DEF Settled
\* What RepliesAgree and Settled say depends on six fields.
LEMMA SameAgrees ==
    ASSUME NEW c \in Conns, NEW r \in Seq(Reply), NEW k, NEW q,
           q.output = k.output, q.consumed = k.consumed, q.taken = k.taken,
           q.barrier = k.barrier, q.deferred = k.deferred,
           q.closing = k.closing
    PROVE  /\ RepliesAgree(c, k, r) => RepliesAgree(c, q, r)
           /\ Settled(k) => Settled(q)
BY DEF RepliesAgree, Settled, Unanswered

\* refresh_client_events changes nothing but the interest.
LEMMA RefreshedFacts ==
    ASSUME NEW k \in Connection, NEW q, q = Refreshed(k)
    PROVE  /\ q \in Connection
           /\ q.state = k.state /\ q.output = k.output
           /\ q.consumed = k.consumed /\ q.taken = k.taken
           /\ q.barrier = k.barrier /\ q.deferred = k.deferred
           /\ q.closing = k.closing /\ q.peerEof = k.peerEof
           /\ "out" \in q.interest <=>
                k.output # <<>> /\ BarrierReady(k.barrier)
           /\ "in" \in q.interest <=> ~k.peerEof /\ CanRecv(k)
<1>1. /\ q.state = k.state /\ q.output = k.output
      /\ q.consumed = k.consumed /\ q.taken = k.taken
      /\ q.barrier = k.barrier /\ q.deferred = k.deferred
      /\ q.closing = k.closing /\ q.peerEof = k.peerEof
  BY DEF Refreshed, Connection
<1>2. q \in Connection
  BY DEF Refreshed, Connection
<1>3. q.interest =
        {e \in {"in", "out"} :
            \/ e = "out" /\ k.output # <<>> /\ BarrierReady(k.barrier)
            \/ /\ e = "in"
               /\ ~k.peerEof /\ ~k.closing /\ ~k.deferred
               /\ Len(k.output) < OutputHighWater}
  BY DEF Refreshed, Connection
<1>4. QED BY <1>1, <1>2, <1>3 DEF CanRecv

\* connection_destroy leaves nothing to send.
LEMMA DestroyedFacts ==
    ASSUME NEW k \in Connection, NEW q, q = Destroyed(k)
    PROVE  /\ q \in Connection
           /\ q.state = "closed" /\ q.output = <<>>
<1>1. <<>> \in Seq(Reply) /\ {} \in SUBSET {"in", "out"}
  OBVIOUS
<1>2. q = [k EXCEPT !.state = "closed", !.output = <<>>, !.interest = {}]
  BY DEF Destroyed
<1>3. q.state = "closed" /\ q.output = <<>>
  BY <1>2 DEF Connection
<1>4. QED BY <1>1, <1>2, <1>3 DEF Connection

\* What epoll must be asked for on behalf of a connection.
Asked(k) ==
    /\ "out" \in k.interest => k.output # <<>> /\ BarrierReady(k.barrier)
    /\ k.output # <<>> /\ BarrierReady(k.barrier) =>
            "out" \in k.interest \/ wake \/ owed
    /\ ~k.deferred /\ k.output = <<>> /\ ~k.peerEof => "in" \in k.interest

\* A settled connection whose interest was recomputed asks for what it needs.
LEMMA RefreshedAsks ==
    ASSUME NEW k \in Connection, Settled(k)
    PROVE  Asked(Refreshed(k))
<1> DEFINE q == Refreshed(k)
<1>1. /\ q.output = k.output /\ q.barrier = k.barrier
      /\ q.deferred = k.deferred /\ q.peerEof = k.peerEof
      /\ "out" \in q.interest <=> k.output # <<>> /\ BarrierReady(k.barrier)
      /\ "in" \in q.interest <=> ~k.peerEof /\ CanRecv(k)
  BY RefreshedFacts
<1>2. ~k.deferred /\ k.output = <<>> => CanRecv(k)
  <2>1. OutputHighWater \in Nat \ {0}
    BY ReactorAssumption
  <2>2. k.output = <<>> => Len(k.output) < OutputHighWater
    BY <2>1
  <2>3. QED BY <2>2 DEF CanRecv, Settled
<1> HIDE DEF q
<1>3. Asked(q)
  BY <1>1, <1>2 DEF Asked
<1>4. QED BY <1>3 DEF q

\* handle_read keeps the replies in order.  A client that waits for each reply
\* has sent nothing more while one is in the output.
LEMMA AfterReadAgrees ==
    ASSUME TypeOK, NEW c \in Conns, NEW k \in Connection, NEW seq \in Nat,
           NEW r \in Seq(Reply), RepliesAgree(c, k, r), Settled(k),
           NEW kk \in AfterRead(c, k, seq)
    PROVE  /\ kk \in Connection /\ kk.state = k.state
           /\ RepliesAgree(c, kk, r) /\ Settled(kk) /\ Asked(kk)
           /\ kk.output = <<>> => k.output = <<>>
           /\ k.deferred => kk.deferred
           /\ Len(requests[c]) <= Len(r) + 1 /\ k.output # <<>> =>
                kk.output = k.output /\ kk.barrier = k.barrier
<1> DEFINE sent == Len(requests[c])
           all == [k EXCEPT !.taken = sent]
           p == Processed(c, all, seq)
<1>1. sent \in Nat /\ k.taken \in Nat /\ k.consumed \in Nat /\ Len(r) \in Nat
  BY ReplyTypes, FieldTypes
<1>2. k.closing => k.output # <<>>
  BY DEF Settled
<1>3. k.consumed <= k.taken /\ k.taken <= sent
  BY DEF RepliesAgree
<1>4. CASE ~CanRecv(k)
  <2> DEFINE s == Processed(c, k, seq)
  <2>1. kk = Refreshed(s)
    BY <1>4 DEF AfterRead
  <2>2. Ahead(c, k) = {}
    <3>1. OutputHighWater \in Nat /\ Len(k.output) \in Nat
      BY ReactorAssumption, FieldTypes
    <3>2. \/ k.closing \/ k.deferred \/ Len(k.output) >= OutputHighWater
      BY <1>4, <3>1 DEF CanRecv
    <3>3. \A n \in (k.consumed + 1)..k.taken :
            Len(k.output) + (n - k.consumed) <= OutputHighWater =>
                Len(k.output) < OutputHighWater
      BY <1>1, <3>1
    <3>4. Len(k.output) >= OutputHighWater => ~(Len(k.output) < OutputHighWater)
      BY <3>1
    <3>5. QED BY <3>2, <3>3, <3>4 DEF Ahead
  <2>3. /\ s \in Connection /\ RepliesAgree(c, s, r) /\ Settled(s)
        /\ s.state = k.state /\ (k.deferred => s.deferred)
        /\ s.output = k.output /\ s.barrier = k.barrier
    BY <1>2, <2>2, ProcessedAgrees
  <2> HIDE DEF s
  <2>4. /\ kk \in Connection /\ kk.state = s.state /\ kk.output = s.output
        /\ kk.consumed = s.consumed /\ kk.taken = s.taken
        /\ kk.barrier = s.barrier /\ kk.deferred = s.deferred
        /\ kk.closing = s.closing
    BY <2>1, <2>3, RefreshedFacts
  <2>5. RepliesAgree(c, kk, r) /\ Settled(kk)
    BY <2>3, <2>4, SameAgrees
  <2>6. Asked(kk)
    BY <2>1, <2>3, RefreshedAsks
  <2>7. QED BY <2>3, <2>4, <2>5, <2>6
<1>5. CASE CanRecv(k)
  <2>1. /\ all \in Connection /\ all.taken = sent
        /\ all.state = k.state /\ all.output = k.output
        /\ all.consumed = k.consumed /\ all.barrier = k.barrier
        /\ all.deferred = k.deferred /\ all.closing = k.closing
        /\ all.peerEof = k.peerEof
    BY <1>1 DEF Connection
  <2>2. RepliesAgree(c, all, r)
    <3>1. k.consumed <= sent /\ sent <= sent
      BY <1>1, <1>3
    <3> HIDE DEF all
    <3>2. QED BY <2>1, <3>1 DEF RepliesAgree, Unanswered
  <2> HIDE DEF all
  <2>3. all.closing => all.output # <<>>
    BY <1>2, <2>1
  <2>4. /\ p \in Connection /\ RepliesAgree(c, p, r) /\ Settled(p)
        /\ p.state = k.state /\ p.taken = sent
        /\ p.output = <<>> => k.output = <<>>
        /\ k.deferred => p.deferred
        /\ CanRecv(p) => p.consumed = p.taken
        /\ Ahead(c, all) = {} => p.output = k.output /\ p.barrier = k.barrier
    BY <2>1, <2>2, <2>3, ProcessedAgrees
  <2>5. ASSUME sent <= Len(r) + 1, k.output # <<>>
        PROVE  Ahead(c, all) = {}
    <3>1. ~k.closing /\ ~k.deferred /\ Len(k.output) \in Nat
      BY <1>5, FieldTypes DEF CanRecv
    <3>2. Len(k.output) # 0
      BY <2>5, FieldTypes
    <3>3. Unanswered(k) = 0
      BY <3>1 DEF Unanswered
    <3>4. k.consumed = Len(r) + Len(k.output) + Unanswered(k)
      BY <3>1 DEF RepliesAgree
    <3>5. k.consumed >= sent
      BY <1>1, <2>5, <3>1, <3>2, <3>3, <3>4
    <3>6. (k.consumed + 1)..sent = {}
      BY <1>1, <3>5
    <3>7. QED BY <2>1, <3>6 DEF Ahead
  <2> HIDE DEF p
  <2>6. PICK q \in Connection :
            /\ kk = Refreshed(q) /\ q.state = p.state
            /\ q.output = p.output /\ q.consumed = p.consumed
            /\ q.taken \in p.consumed..sent
            /\ CanRecv(p) => q.taken = p.taken
            /\ q.barrier = p.barrier /\ q.deferred = p.deferred
            /\ q.closing = p.closing
    <3>1. CASE CanRecv(p)
      <4> DEFINE q == [p EXCEPT !.peerEof = @ \/ c \in shut]
      <4>1. kk = Refreshed(q)
        BY <1>5, <3>1 DEF AfterRead, p, all
      <4>2. q \in Connection /\ q.taken = p.taken
        BY <2>4 DEF Connection
      <4>3. p.consumed \in Nat /\ p.taken \in p.consumed..sent
        BY <1>1, <2>4, <3>1, FieldTypes
      <4>4. /\ q.state = p.state /\ q.output = p.output
            /\ q.consumed = p.consumed /\ q.barrier = p.barrier
            /\ q.deferred = p.deferred /\ q.closing = p.closing
        BY <2>4 DEF Connection
      <4> HIDE DEF q
      <4>5. QED BY <4>1, <4>2, <4>3, <4>4
    <3>2. CASE ~CanRecv(p)
      <4>1. PICK t \in Greatest(k.taken, p.consumed)..sent :
                kk = Refreshed([p EXCEPT !.taken = t])
        BY <1>5, <3>2 DEF AfterRead, p, all
      <4> DEFINE q == [p EXCEPT !.taken = t]
      <4>2. p.consumed \in Nat
        BY <2>4, FieldTypes
      <4>3. t \in Nat /\ t \in p.consumed..sent
        BY <1>1, <4>2 DEF Greatest
      <4>4. q \in Connection /\ q.taken = t
        BY <2>4, <4>3 DEF Connection
      <4>5. /\ q.state = p.state /\ q.output = p.output
            /\ q.consumed = p.consumed /\ q.barrier = p.barrier
            /\ q.deferred = p.deferred /\ q.closing = p.closing
        BY <2>4 DEF Connection
      <4>6. kk = Refreshed(q)
        BY <4>1
      <4> HIDE DEF q
      <4>7. QED BY <3>2, <4>3, <4>4, <4>5, <4>6
    <3>3. QED BY <3>1, <3>2
  <2>7. RepliesAgree(c, q, r)
    <3>1. q.consumed <= q.taken /\ q.taken <= Len(requests[c])
      <4>1. p.consumed \in Nat
        BY <2>4, FieldTypes
      <4>2. QED BY <1>1, <2>6, <4>1
    <3>2. QED BY <2>4, <2>6, <3>1 DEF RepliesAgree, Unanswered
  <2>8. Settled(q)
    <3>1. p.output = <<>> /\ ~p.deferred => CanRecv(p)
      <4>1. OutputHighWater \in Nat \ {0}
        BY ReactorAssumption
      <4>2. p.output = <<>> => Len(p.output) < OutputHighWater
        BY <4>1
      <4>3. QED BY <2>4, <4>2 DEF CanRecv, Settled
    <3>2. QED BY <2>4, <2>6, <3>1 DEF Settled
  <2>9. /\ kk \in Connection /\ kk.state = q.state /\ kk.output = q.output
        /\ kk.consumed = q.consumed /\ kk.taken = q.taken
        /\ kk.barrier = q.barrier /\ kk.deferred = q.deferred
        /\ kk.closing = q.closing
    BY <2>6, RefreshedFacts
  <2>10. RepliesAgree(c, kk, r) /\ Settled(kk)
    BY <2>7, <2>8, <2>9, SameAgrees
  <2>11. Asked(kk)
    BY <2>6, <2>8, RefreshedAsks
  <2>12. QED BY <2>4, <2>5, <2>6, <2>9, <2>10, <2>11
<1>6. QED BY <1>4, <1>5
\* send takes the first n replies from the output: they join those that were
\* received, and the others keep their numbers.
LEMMA SendKeepsOrder ==
    ASSUME NEW q \in Seq(Reply), NEW b, NEW r \in Seq(Reply),
           Numbered(r, 0), Numbered(q, Len(r)), CoveredBy(q, b),
           NEW n \in 0..Len(q)
    PROVE  LET s    == r \o SubSeq(q, 1, n)
               rest == SubSeq(q, n + 1, Len(q))
           IN  /\ s \in Seq(Reply) /\ Len(s) = Len(r) + n /\ Numbered(s, 0)
               /\ \A i \in 1..Len(s) :
                    \/ i \in 1..Len(r) /\ s[i] = r[i]
                    \/ s[i].barrier <= b
               /\ rest \in Seq(Reply) /\ Len(rest) = Len(q) - n
               /\ Numbered(rest, Len(s)) /\ CoveredBy(rest, b)
               /\ rest = <<>> => n = Len(q)
               /\ n = Len(q) => s = r \o q
<1> DEFINE s == r \o SubSeq(q, 1, n)
           rest == SubSeq(q, n + 1, Len(q))
<1>1. Len(q) \in Nat /\ Len(r) \in Nat /\ n \in Nat
  OBVIOUS
<1> DEFINE head == SubSeq(q, 1, n)
<1>2. /\ head \in Seq(Reply) /\ Len(head) = n
      /\ \A i \in 1..n : head[i] = q[i]
  BY <1>1
<1>3. /\ rest \in Seq(Reply) /\ Len(rest) = Len(q) - n
      /\ \A i \in 1..Len(rest) : rest[i] = q[n + i]
  BY <1>1
<1> HIDE DEF rest
<1>4. n = Len(q) => head = q
  BY <1>1, <1>2, SeqEqual
<1> HIDE DEF head
<1>5. /\ s \in Seq(Reply) /\ Len(s) = Len(r) + n
      /\ \A i \in 1..(Len(r) + n) :
            s[i] = IF i <= Len(r) THEN r[i] ELSE head[i - Len(r)]
  <2>1. s = r \o head
    BY DEF head
  <2>2. /\ r \o head \in Seq(Reply) /\ Len(r \o head) = Len(r) + Len(head)
        /\ \A i \in 1..(Len(r) + Len(head)) :
            (r \o head)[i] = IF i <= Len(r) THEN r[i] ELSE head[i - Len(r)]
    BY <1>2, ConcatProperties
  <2>3. QED BY <1>2, <2>1, <2>2
<1> HIDE DEF s
<1>6. ASSUME NEW i \in 1..Len(s)
      PROVE  /\ s[i].request = i
             /\ \/ i \in 1..Len(r) /\ s[i] = r[i]
                \/ s[i].barrier <= b
  <2>1. CASE i <= Len(r)
    <3>1. i \in 1..Len(r) /\ s[i] = r[i]
      BY <1>1, <1>5, <2>1
    <3>2. QED BY <3>1 DEF Numbered
  <2>2. CASE ~(i <= Len(r))
    <3>1. i - Len(r) \in 1..n /\ s[i] = head[i - Len(r)]
      BY <1>1, <1>5, <2>2
    <3>2. s[i] = q[i - Len(r)] /\ i - Len(r) \in 1..Len(q)
      BY <1>1, <1>2, <3>1
    <3>3. s[i].request = Len(r) + (i - Len(r)) /\ s[i].barrier <= b
      BY <3>2 DEF Numbered, CoveredBy
    <3>4. QED BY <1>1, <3>3
  <2>3. QED BY <2>1, <2>2
<1>7. ASSUME NEW i \in 1..Len(rest)
      PROVE  rest[i].request = Len(s) + i /\ rest[i].barrier <= b
  <2>1. rest[i] = q[n + i] /\ n + i \in 1..Len(q)
    BY <1>1, <1>3
  <2>2. rest[i].request = Len(r) + (n + i) /\ rest[i].barrier <= b
    BY <2>1 DEF Numbered, CoveredBy
  <2>3. QED BY <1>1, <1>5, <2>2
<1>8. rest = <<>> => n = Len(q)
  <2>1. rest = <<>> => Len(rest) = 0
    OBVIOUS
  <2>2. Len(q) - n = 0 => n = Len(q)
    BY <1>1
  <2>3. QED BY <1>3, <2>1, <2>2
<1>9. Numbered(s, 0) /\ Numbered(rest, Len(s)) /\ CoveredBy(rest, b)
  BY <1>6, <1>7 DEF Numbered, CoveredBy
<1>10. n = Len(q) => s = r \o q
  BY <1>4 DEF s, head
<1>11. QED BY <1>3, <1>5, <1>6, <1>8, <1>9, <1>10 DEF s, rest

\* handle_write keeps the replies in order, and a connection that it leaves
\* without output has sent all of it.
LEMMA AfterWriteAgrees ==
    ASSUME TypeOK, NEW c \in Conns, NEW k \in Connection, NEW seq \in Nat,
           NEW r \in Seq(Reply), RepliesAgree(c, k, r), Settled(k),
           k.state = "open",
           NEW n \in 0..Len(k.output)
    PROVE  LET kk == AfterWrite(c, k, n, seq)
           IN  /\ kk \in Connection /\ kk.state \in {"open", "closed"}
               /\ kk.state = "open" =>
                    /\ RepliesAgree(c, kk, r \o SubSeq(k.output, 1, n))
                    /\ Settled(kk) /\ Asked(kk) /\ kk.peerEof = k.peerEof
               /\ kk.state = "closed" => kk.output = <<>>
               /\ kk.output = <<>> => n = Len(k.output)
               /\ k.deferred => kk.deferred
<1> DEFINE kk == AfterWrite(c, k, n, seq)
           s == r \o SubSeq(k.output, 1, n)
           rest == SubSeq(k.output, n + 1, Len(k.output))
           sent == [k EXCEPT !.output = rest,
                             !.barrier = IF rest = <<>> THEN 0 ELSE @]
<1> SUFFICES /\ kk \in Connection /\ kk.state \in {"open", "closed"}
             /\ kk.state = "open" => /\ RepliesAgree(c, kk, s) /\ Settled(kk)
                                     /\ Asked(kk) /\ kk.peerEof = k.peerEof
             /\ kk.state = "closed" => kk.output = <<>>
             /\ kk.output = <<>> => n = Len(k.output)
             /\ k.deferred => kk.deferred
  OBVIOUS
<1>1. /\ Len(k.output) \in Nat /\ n \in Nat /\ k.barrier \in Nat
      /\ Len(r) \in Nat
  BY FieldTypes
<1>2. /\ Len(k.output) <= OutputHighWater
      /\ k.consumed <= k.taken /\ k.taken <= Len(requests[c])
      /\ Numbered(r, 0) /\ Numbered(k.output, Len(r))
      /\ CoveredBy(k.output, k.barrier)
      /\ k.deferred => ~k.closing /\ Len(k.output) < OutputHighWater
      /\ ~k.closing => k.consumed = Len(r) + Len(k.output) + Unanswered(k)
  BY DEF RepliesAgree
<1>3. /\ s \in Seq(Reply) /\ Len(s) = Len(r) + n /\ Numbered(s, 0)
      /\ rest \in Seq(Reply) /\ Len(rest) = Len(k.output) - n
      /\ rest = <<>> => n = Len(k.output)
      /\ Numbered(rest, Len(s)) /\ CoveredBy(rest, k.barrier)
  <2>1. k.output \in Seq(Reply)
    BY FieldTypes
  <2>2. Numbered(r, 0) /\ Numbered(k.output, Len(r))
        /\ CoveredBy(k.output, k.barrier)
    BY <1>2
  <2>3. QED BY <2>1, <2>2, SendKeepsOrder
<1> HIDE DEF rest, s
<1>5. /\ sent \in Connection /\ sent.output = rest /\ sent.state = "open"
      /\ sent.barrier = IF rest = <<>> THEN 0 ELSE k.barrier
      /\ sent.taken = k.taken /\ sent.consumed = k.consumed
      /\ sent.deferred = k.deferred /\ sent.closing = k.closing
      /\ sent.peerEof = k.peerEof
  BY <1>1, <1>3 DEF Connection
<1>6. kk = IF rest # <<>> THEN Refreshed(sent)
           ELSE IF sent.closing THEN Destroyed(sent)
           ELSE Refreshed(Processed(c, sent, seq))
  BY DEF AfterWrite, rest
<1> HIDE DEF sent, kk
<1>7. RepliesAgree(c, sent, s)
  <2>1. OutputHighWater \in Nat
    BY ReactorAssumption
  <2>2. /\ Len(rest) <= OutputHighWater
        /\ k.deferred => ~k.closing /\ Len(rest) < OutputHighWater
    BY <1>1, <1>2, <1>3, <2>1
  <2>3. Unanswered(sent) = Unanswered(k) /\ Unanswered(k) \in Nat
    BY <1>5 DEF Unanswered
  <2>4. ~k.closing => k.consumed = Len(s) + Len(rest) + Unanswered(sent)
    <3>1. Len(s) + Len(rest) = Len(r) + Len(k.output)
      <4>1. Len(s) = Len(r) + n /\ Len(rest) = Len(k.output) - n
        BY <1>3
      <4>2. \A x, y, m \in Nat : (x + m) + (y - m) = x + y
        OBVIOUS
      <4>3. (Len(r) + n) + (Len(k.output) - n) = Len(r) + Len(k.output)
        BY <1>1, <4>2
      <4>4. QED BY <4>1, <4>3
    <3>2. QED BY <1>2, <2>3, <3>1
  <2>5. CoveredBy(rest, sent.barrier)
    <3>1. CASE rest = <<>>
      BY <3>1 DEF CoveredBy
    <3>2. CASE rest # <<>>
      BY <1>3, <1>5, <3>2
    <3>3. QED BY <3>1, <3>2
  <2>6. QED BY <1>2, <1>3, <1>5, <2>2, <2>4, <2>5 DEF RepliesAgree
<1>8. CASE rest # <<>>
  <2>1. kk = Refreshed(sent)
    BY <1>6, <1>8
  <2>2. Settled(sent)
    BY <1>5, <1>8 DEF Settled
  <2>3. /\ kk \in Connection /\ kk.state = "open" /\ kk.output = sent.output
        /\ kk.consumed = sent.consumed /\ kk.taken = sent.taken
        /\ kk.barrier = sent.barrier /\ kk.deferred = sent.deferred
        /\ kk.closing = sent.closing /\ kk.peerEof = sent.peerEof
    BY <1>5, <2>1, RefreshedFacts
  <2>4. RepliesAgree(c, kk, s) /\ Settled(kk)
    BY <1>3, <1>7, <2>2, <2>3, SameAgrees
  <2>5. Asked(kk)
    BY <1>5, <2>1, <2>2, RefreshedAsks
  <2>6. QED BY <1>5, <1>8, <2>3, <2>4, <2>5
<1>9. CASE rest = <<>> /\ sent.closing
  <2>1. kk = Destroyed(sent)
    BY <1>6, <1>9
  <2>2. kk \in Connection /\ kk.state = "closed" /\ kk.output = <<>>
    BY <1>5, <2>1, DestroyedFacts
  <2>3. ~k.deferred
    BY <1>2, <1>5, <1>9
  <2>4. QED BY <1>3, <1>9, <2>2, <2>3
<1>10. CASE rest = <<>> /\ ~sent.closing
  <2> DEFINE p == Processed(c, sent, seq)
  <2>1. kk = Refreshed(p)
    BY <1>6, <1>10
  <2>2. /\ p \in Connection /\ RepliesAgree(c, p, s) /\ Settled(p)
        /\ p.state = "open" /\ (k.deferred => p.deferred)
        /\ p.peerEof = k.peerEof
    <3>1. s \in Seq(Reply) /\ (sent.closing => sent.output # <<>>)
      BY <1>3, <1>10
    <3>2. /\ p \in Connection /\ RepliesAgree(c, p, s) /\ Settled(p)
          /\ p.state = sent.state /\ (sent.deferred => p.deferred)
          /\ p.peerEof = sent.peerEof
      <4>1. sent \in Connection
        BY <1>5
      <4>2. QED BY <1>7, <3>1, <4>1, ProcessedAgrees
    <3>3. QED BY <1>5, <3>2
  <2> HIDE DEF p
  <2>3. /\ kk \in Connection /\ kk.state = "open" /\ kk.output = p.output
        /\ kk.consumed = p.consumed /\ kk.taken = p.taken
        /\ kk.barrier = p.barrier /\ kk.deferred = p.deferred
        /\ kk.closing = p.closing /\ kk.peerEof = p.peerEof
    BY <2>1, <2>2, RefreshedFacts
  <2>4. RepliesAgree(c, kk, s) /\ Settled(kk)
    BY <1>3, <2>2, <2>3, SameAgrees
  <2>5. Asked(kk)
    BY <2>1, <2>2, RefreshedAsks
  <2>6. QED BY <1>3, <1>10, <2>2, <2>3, <2>4, <2>5
<1>11. QED BY <1>8, <1>9, <1>10

\* The counters of the AOF and the loads after a handler.
LEMMA EffectsTypes ==
    ASSUME NEW c \in Conns, NEW k \in Connection, NEW kk, NEW seq \in Nat,
           Effects(c, k, kk, seq)
    PROVE  /\ enqueued' \in Nat
           /\ loading' = IF kk.deferred /\ ~k.deferred THEN loading \cup {c}
                                                       ELSE loading
<1> DEFINE new == {n \in Logged(c, k) : n <= kk.consumed}
<1>1. new \in SUBSET Logged(c, k)
  OBVIOUS
<1>2. Cardinality(new) \in Nat
  BY <1>1, LoggedFinite
<1>3. QED BY <1>2 DEF Effects
-----------------------------------------------------------------------------
(* The handlers *)

\* What the invariant says about an open connection.
LEMMA OpenFacts ==
    ASSUME Accounted, NEW c \in Open
    PROVE  /\ c \in Conns /\ conn[c] \in Connection
           /\ conn[c].state = "open" /\ received[c] \in Seq(Reply)
           /\ RepliesAgree(c, conn[c], received[c]) /\ Settled(conn[c])
           /\ pc # "drain" => Asked(conn[c])
           /\ conn[c].deferred <=> c \in Waiting
           /\ conn[c].peerEof /\ conn[c].output = <<>> => current = c
<1>1. c \in Conns /\ conn[c].state = "open"
  BY DEF Open
<1>2. conn[c] \in Connection /\ received[c] \in Seq(Reply)
  BY <1>1 DEF Accounted, TypeOK
<1>3. /\ RepliesAgree(c, conn[c], received[c]) /\ Settled(conn[c])
      /\ conn[c].peerEof /\ conn[c].output = <<>> => current = c
  BY <1>1 DEF Accounted, ConnectionsAgree, ConnectionAgrees
<1>4. conn[c].deferred <=> c \in Waiting
  BY DEF Accounted, LoadsAgree
<1>5. pc # "drain" => Asked(conn[c])
  BY DEF Accounted, InterestAgrees, Asked
<1>6. QED BY <1>1, <1>2, <1>3, <1>4, <1>5

\* One event of an open connection up to the flush before handle_write: kk is
\* the connection before reactor_run looks whether it is to be destroyed.
LEMMA ReadFacts ==
    ASSUME Accounted, NEW c \in Conns, EventRead(c)
    PROVE  \E e \in batch, kk \in Connection :
            /\ e.source = c /\ "hup" \notin e.active
            /\ batch' = batch \ {e} /\ c \in Open
            /\ conn' = [conn EXCEPT ![c] =
                            IF "out" \in e.active THEN kk ELSE Reaped(kk)]
            /\ kk.state = "open"
            /\ RepliesAgree(c, kk, received[c]) /\ Settled(kk) /\ Asked(kk)
            /\ kk.output = <<>> => conn[c].output = <<>>
            /\ conn[c].deferred => kk.deferred
            /\ c \in Serial /\ conn[c].output # <<>> =>
                kk.output = conn[c].output /\ kk.barrier = conn[c].barrier
            /\ loading' = IF kk.deferred /\ ~conn[c].deferred
                          THEN loading \cup {c} ELSE loading
            /\ enqueued' \in Nat
            /\ IF "out" \in e.active THEN pc' = "flushOut" /\ current' = c
                                     ELSE pc' = pc /\ current' = current
<1>1. PICK e \in batch :
        LET k == [conn[c] EXCEPT !.peerEof = @ \/ "rdhup" \in e.active]
            seen == [k EXCEPT !.taken =
                        IF CanRecv(k) THEN Len(requests[c]) ELSE @]
        IN
        /\ e.source = c /\ "hup" \notin e.active
        /\ batch' = batch \ {e}
        /\ \E kk \in IF "in" \in e.active THEN AfterRead(c, k, enqueued)
                                          ELSE {k} :
            /\ conn' = [conn EXCEPT ![c] =
                            IF "out" \in e.active THEN kk ELSE Reaped(kk)]
            /\ Effects(c, seen, kk, enqueued)
        /\ IF "out" \in e.active
           THEN pc' = "flushOut" /\ current' = c
           ELSE UNCHANGED <<pc, current>>
  BY DEF EventRead
<1> DEFINE k == [conn[c] EXCEPT !.peerEof = @ \/ "rdhup" \in e.active]
           seen == [k EXCEPT !.taken =
                        IF CanRecv(k) THEN Len(requests[c]) ELSE @]
<1>2. PICK kk \in IF "in" \in e.active THEN AfterRead(c, k, enqueued)
                                       ELSE {k} :
        /\ conn' = [conn EXCEPT ![c] =
                        IF "out" \in e.active THEN kk ELSE Reaped(kk)]
        /\ Effects(c, seen, kk, enqueued)
  BY <1>1
<1>3. c \in Open /\ pc = "batch"
  BY <1>1 DEF Accounted, BatchAgrees, EventRead
<1>4. TypeOK /\ enqueued \in Nat /\ Len(requests[c]) \in Nat
  BY ReplyTypes DEF Accounted, TypeOK
<1>5. /\ conn[c] \in Connection
      /\ conn[c].state = "open" /\ received[c] \in Seq(Reply)
      /\ RepliesAgree(c, conn[c], received[c]) /\ Settled(conn[c])
      /\ Asked(conn[c])
  BY <1>3, OpenFacts
<1>6. /\ k \in Connection /\ k.state = "open" /\ k.output = conn[c].output
      /\ k.consumed = conn[c].consumed /\ k.taken = conn[c].taken
      /\ k.barrier = conn[c].barrier /\ k.deferred = conn[c].deferred
      /\ k.closing = conn[c].closing /\ k.interest = conn[c].interest
      /\ conn[c].peerEof => k.peerEof
  BY <1>5 DEF Connection
<1>7. seen \in Connection /\ seen.deferred = conn[c].deferred
  BY <1>4, <1>6, ZenonT(40) DEF Connection
<1> HIDE DEF k, seen
<1>8. RepliesAgree(c, k, received[c]) /\ Settled(k)
  BY <1>5, <1>6, SameAgrees
<1>9. Asked(k)
  BY <1>5, <1>6 DEF Asked
<1>10. /\ enqueued' \in Nat
       /\ loading' = IF kk.deferred /\ ~conn[c].deferred
                     THEN loading \cup {c} ELSE loading
  BY <1>2, <1>4, <1>7, EffectsTypes
<1>11. c \in Serial => Len(requests[c]) <= Len(received[c]) + 1
  BY DEF Accounted, SerialAgrees
<1>12. /\ kk \in Connection /\ kk.state = "open"
       /\ RepliesAgree(c, kk, received[c]) /\ Settled(kk) /\ Asked(kk)
       /\ kk.output = <<>> => conn[c].output = <<>>
       /\ conn[c].deferred => kk.deferred
       /\ c \in Serial /\ conn[c].output # <<>> =>
            kk.output = conn[c].output /\ kk.barrier = conn[c].barrier
  <2>1. CASE "in" \in e.active
    <3>1. kk \in AfterRead(c, k, enqueued)
      BY <1>2, <2>1
    <3>2. /\ kk \in Connection /\ kk.state = k.state
          /\ RepliesAgree(c, kk, received[c]) /\ Settled(kk) /\ Asked(kk)
          /\ kk.output = <<>> => k.output = <<>>
          /\ k.deferred => kk.deferred
          /\ Len(requests[c]) <= Len(received[c]) + 1 /\ k.output # <<>> =>
                kk.output = k.output /\ kk.barrier = k.barrier
      BY <1>4, <1>5, <1>6, <1>8, <3>1, AfterReadAgrees
    <3>3. QED BY <1>6, <1>11, <3>2
  <2>2. CASE "in" \notin e.active
    <3>1. kk = k
      BY <1>2, <2>2
    <3>2. QED BY <1>6, <1>8, <1>9, <3>1
  <2>3. QED BY <2>1, <2>2
<1>13. QED BY <1>1, <1>2, <1>3, <1>10, <1>12

\* handle_write, and the look at the half-closed connection that follows it.
LEMMA WriteFacts ==
    ASSUME Accounted, EventWrite
    PROVE  /\ current \in Open
           /\ \E kk \in Connection, n \in 0..Len(conn[current].output) :
                /\ received' = [received EXCEPT ![current] =
                                    @ \o SubSeq(conn[current].output, 1, n)]
                /\ conn' = [conn EXCEPT ![current] = Reaped(kk)]
                /\ kk.state \in {"open", "closed"}
                /\ kk.state = "open" =>
                    /\ RepliesAgree(current, kk, received[current]
                                    \o SubSeq(conn[current].output, 1, n))
                    /\ Settled(kk) /\ Asked(kk)
                /\ kk.state = "closed" => kk.output = <<>>
                /\ kk.output = <<>> => n = Len(conn[current].output)
                /\ conn[current].deferred => kk.deferred
                /\ loading' = IF kk.deferred /\ ~conn[current].deferred
                              THEN loading \cup {current} ELSE loading
                /\ enqueued' \in Nat
<1> DEFINE c == current
           k == conn[c]
           sent == [k EXCEPT !.output = <<>>]
<1>1. c \in Open
  BY DEF Accounted, BatchAgrees, EventWrite
<1>2. PICK n \in IF k.output = <<>> THEN {0} ELSE 1..Len(k.output) :
        /\ received' = [received EXCEPT ![c] = @ \o SubSeq(k.output, 1, n)]
        /\ conn' = [conn EXCEPT ![c] = Reaped(AfterWrite(c, k, n, enqueued))]
        /\ Effects(c, sent, AfterWrite(c, k, n, enqueued), enqueued)
  BY DEF EventWrite
<1>3. TypeOK /\ enqueued \in Nat
  BY DEF Accounted, TypeOK
<1>4. /\ c \in Conns /\ k \in Connection
      /\ k.state = "open" /\ received[c] \in Seq(Reply)
      /\ RepliesAgree(c, k, received[c]) /\ Settled(k)
  BY <1>1, OpenFacts
<1>5. n \in 0..Len(k.output)
  BY <1>4, FieldTypes
<1>6. sent \in Connection /\ sent.deferred = k.deferred
  <2> HIDE DEF k
  <2>1. <<>> \in Seq(Reply)
    OBVIOUS
  <2>2. QED BY <1>4, <2>1 DEF Connection
<1> DEFINE kk == AfterWrite(c, k, n, enqueued)
<1> HIDE DEF c, k, sent
<1>7. /\ kk \in Connection /\ kk.state \in {"open", "closed"}
      /\ kk.state = "open" =>
            /\ RepliesAgree(c, kk, received[c] \o SubSeq(k.output, 1, n))
            /\ Settled(kk) /\ Asked(kk)
      /\ kk.state = "closed" => kk.output = <<>>
      /\ kk.output = <<>> => n = Len(k.output)
      /\ k.deferred => kk.deferred
  BY <1>3, <1>4, <1>5, AfterWriteAgrees
<1>8. /\ enqueued' \in Nat
      /\ loading' = IF kk.deferred /\ ~k.deferred THEN loading \cup {c}
                                                  ELSE loading
  BY <1>2, <1>3, <1>4, <1>6, EffectsTypes
<1> HIDE DEF kk
<1>9. /\ received' = [received EXCEPT ![c] = @ \o SubSeq(k.output, 1, n)]
      /\ conn' = [conn EXCEPT ![c] = Reaped(kk)]
  BY <1>2 DEF kk
<1>10. QED BY <1>1, <1>5, <1>7, <1>8, <1>9 DEF c, k
\* The async handler on one load result: the deferred reply joins the output,
\* and the input behind it is processed.
LEMMA CompleteFacts ==
    ASSUME Accounted, NEW c \in Conns, CompleteResponse(c)
    PROVE  /\ enqueued' \in Nat /\ evicted' \in BOOLEAN
           /\ c \in Open =>
                /\ conn[c].deferred
                /\ \E kk \in Connection :
                    /\ conn' = [conn EXCEPT ![c] = kk]
                    /\ kk.state = "open"
                    /\ RepliesAgree(c, kk, received[c]) /\ Settled(kk)
                    /\ kk.output # <<>>
                    /\ loading' = IF kk.deferred THEN loading \cup {c}
                                                 ELSE loading
           /\ c \notin Open => conn' = conn /\ loading' = loading
<1> DEFINE k == conn[c]
           write(ok) == ok /\ ~failed /\ requests[c][k.consumed] = "missWrite"
           seq(ok) == IF write(ok) THEN enqueued + 1 ELSE enqueued
           reply(ok) == [request |-> k.consumed,
                         barrier |-> IF write(ok) THEN seq(ok) ELSE 0]
           barrier(ok) == IF write(ok) THEN Greatest(k.barrier, seq(ok))
                          ELSE k.barrier
           done(ok) == [k EXCEPT !.output = Append(@, reply(ok)),
                                 !.barrier = barrier(ok),
                                 !.deferred = FALSE]
<1>1. PICK ok \in BOOLEAN, dels \in BOOLEAN :
        /\ evicted' = (evicted \/ dels)
        /\ IF c \in Open
           THEN /\ conn' = [conn EXCEPT ![c] =
                                Processed(c, done(ok), seq(ok))]
                /\ Effects(c, done(ok), Processed(c, done(ok), seq(ok)),
                           seq(ok))
           ELSE /\ enqueued' = seq(ok)
                /\ UNCHANGED <<conn, loading>>
  BY DEF CompleteResponse
<1>2. TypeOK /\ enqueued \in Nat
  BY DEF Accounted, TypeOK
<1>3. evicted' \in BOOLEAN
  BY <1>1, Zenon
<1>4. seq(ok) \in Nat
  BY <1>2
<1> HIDE DEF write
<1>5. CASE c \notin Open
  BY <1>1, <1>3, <1>4, <1>5
<1>6. CASE c \in Open
  <2>1. /\ k \in Connection /\ k.state = "open" /\ received[c] \in Seq(Reply)
        /\ RepliesAgree(c, k, received[c])
        /\ k.deferred <=> c \in Waiting
    BY <1>6, OpenFacts
  <2>2. k.deferred
    BY <2>1 DEF Waiting, CompleteResponse
  <2> DEFINE r == received[c]
             q == Append(k.output, reply(ok))
             b == barrier(ok)
             d == done(ok)
             p == Processed(c, d, seq(ok))
  <2>3. /\ k.consumed \in Nat /\ k.taken \in Nat /\ k.barrier \in Nat
        /\ k.output \in Seq(Reply) /\ Len(k.output) \in Nat /\ Len(r) \in Nat
    BY <2>1, FieldTypes
  <2>4. b \in Nat /\ b >= k.barrier /\ reply(ok).barrier <= b
    BY <1>2, <1>4, <2>3 DEF Greatest
  <2>5. reply(ok) \in Reply /\ reply(ok).request = k.consumed
    BY <1>4, <2>3 DEF Reply
  <2>6. /\ q \in Seq(Reply) /\ Len(q) = Len(k.output) + 1
        /\ \A i \in 1..Len(k.output) : q[i] = k.output[i]
        /\ q[Len(k.output) + 1] = reply(ok)
    BY <2>3, <2>5
  <2>7. d = [k EXCEPT !.output = q, !.barrier = b, !.deferred = FALSE]
    OBVIOUS
  <2> HIDE DEF k, seq, reply, barrier, done, q, b, d
  <2>8. /\ d \in Connection /\ d.state = "open" /\ d.output = q
        /\ d.consumed = k.consumed /\ d.taken = k.taken /\ d.barrier = b
        /\ d.closing = k.closing /\ ~d.deferred
    BY <2>1, <2>4, <2>6, <2>7 DEF Connection
  <2>9. RepliesAgree(c, d, r) /\ ~d.closing
    <3>1. /\ k.consumed <= k.taken /\ k.taken <= Len(requests[c])
          /\ Numbered(r, 0) /\ Numbered(k.output, Len(r))
          /\ CoveredBy(k.output, k.barrier)
          /\ ~k.closing /\ Len(k.output) < OutputHighWater
          /\ k.consumed = Len(r) + Len(k.output) + Unanswered(k)
      BY <2>1, <2>2 DEF RepliesAgree
    <3>2. Unanswered(k) = 1 /\ Unanswered(d) = 0
      BY <2>2, <2>8 DEF Unanswered
    <3>3. k.consumed = Len(r) + Len(q)
      <4>1. Len(q) = Len(k.output) + 1
        BY <2>6
      <4>2. \A x, y \in Nat : x + y + 1 = x + (y + 1)
        OBVIOUS
      <4>3. Len(r) \in Nat /\ Len(k.output) \in Nat
        BY <2>3
      <4>4. Len(r) + Len(k.output) + 1 = Len(r) + (Len(k.output) + 1)
        BY <4>2, <4>3, Zenon
      <4>5. QED BY <3>1, <3>2, <4>1, <4>4
    <3>4. Len(q) <= OutputHighWater
      <4>1. OutputHighWater \in Nat
        BY ReactorAssumption
      <4>2. QED BY <2>3, <2>6, <3>1, <4>1
    <3>5. ASSUME NEW i \in 1..Len(q)
          PROVE  q[i].request = Len(r) + i /\ q[i].barrier <= b
      <4>1. CASE i \in 1..Len(k.output)
        <5>1. k.output[i] \in Reply /\ q[i] = k.output[i]
          BY <2>3, <2>6, <4>1
        <5>2. /\ k.output[i].request = Len(r) + i
              /\ k.output[i].barrier <= k.barrier
          BY <3>1, <4>1 DEF Numbered, CoveredBy
        <5>3. k.output[i].barrier \in Nat
          BY <5>1 DEF Reply
        <5>4. k.output[i].barrier <= b
          BY <2>3, <2>4, <5>2, <5>3
        <5>5. QED BY <5>1, <5>2, <5>4
      <4>2. CASE i \notin 1..Len(k.output)
        <5>1. i = Len(q) /\ i = Len(k.output) + 1
          BY <2>3, <2>6, <4>2
        <5>2. QED BY <2>4, <2>5, <2>6, <3>3, <5>1
      <4>3. QED BY <4>1, <4>2
    <3>6. Numbered(q, Len(r)) /\ CoveredBy(q, b)
      BY <3>5 DEF Numbered, CoveredBy
    <3>7. k.consumed = Len(r) + Len(q) + Unanswered(d)
      BY <2>3, <2>6, <3>2, <3>3
    <3>8. QED BY <2>8, <3>1, <3>4, <3>6, <3>7 DEF RepliesAgree
  <2>10. d.output # <<>>
    <3>1. Len(q) # 0
      BY <2>3, <2>6
    <3>2. QED BY <2>8, <3>1
  <2>11. /\ p \in Connection /\ RepliesAgree(c, p, r) /\ Settled(p)
         /\ p.state = "open" /\ (p.output = <<>> => d.output = <<>>)
    <3>1. r \in Seq(Reply) /\ d \in Connection
          /\ (d.closing => d.output # <<>>) /\ d.state = "open"
      BY <2>1, <2>8, <2>10
    <3>2. /\ p \in Connection /\ RepliesAgree(c, p, r) /\ Settled(p)
          /\ p.state = d.state /\ (p.output = <<>> => d.output = <<>>)
      BY <1>2, <1>4, <2>9, <3>1, ProcessedAgrees DEF seq
    <3>3. QED BY <3>1, <3>2
  <2>12. conn' = [conn EXCEPT ![c] = p] /\ Effects(c, d, p, seq(ok))
    BY <1>1, <1>6 DEF d, seq
  <2>13. /\ enqueued' \in Nat
         /\ loading' = IF p.deferred /\ ~d.deferred THEN loading \cup {c}
                                                    ELSE loading
    BY <1>4, <2>8, <2>12, EffectsTypes DEF seq
  <2> HIDE DEF p
  <2>14. QED BY <1>3, <1>6, <2>2, <2>8, <2>10, <2>11, <2>12, <2>13 DEF k
<1>7. QED BY <1>5, <1>6

\* A connection that reactor_run keeps after its event is as the handler left
\* it; the one that it destroys was half-closed and had nothing to send.
LEMMA ReapedFacts ==
    ASSUME NEW kk \in Connection, NEW q, q = Reaped(kk)
    PROVE  /\ q \in Connection
           /\ kk.peerEof /\ kk.output = <<>> =>
                q.state = "closed" /\ q.output = <<>>
           /\ ~(kk.peerEof /\ kk.output = <<>>) => q = kk
           /\ q.output = kk.output
<1>1. CASE kk.peerEof /\ kk.output = <<>>
  BY <1>1, DestroyedFacts DEF Reaped
<1>2. CASE ~(kk.peerEof /\ kk.output = <<>>)
  BY <1>2 DEF Reaped
<1>3. QED BY <1>1, <1>2
-----------------------------------------------------------------------------
(* Every step *)

Typed ==
    /\ conn \in [Conns -> Connection]
    /\ requests \in [Conns -> Seq(Requests)]
    /\ received \in [Conns -> Seq(Reply)]
    /\ shut \subseteq Conns /\ reset \subseteq Conns
    /\ pc \in {"poll", "batch", "drain", "flushOut", "write", "flushWait"}
    /\ current \in Conns \cup {"none"}
    /\ draining \subseteq Conns
    /\ enqueued \in Nat /\ written \in Nat /\ flushed \in Nat
    /\ {failed, evicted, reported, owed, wake} \subseteq BOOLEAN
    /\ loading \subseteq Conns /\ loaded \subseteq Conns

\* A step that replaces one connection.
LEMMA ReplaceConnection ==
    ASSUME conn \in [Conns -> Connection], NEW c \in Conns,
           NEW kk \in Connection, conn' = [conn EXCEPT ![c] = kk]
    PROVE  /\ conn' \in [Conns -> Connection]
           /\ conn'[c] = kk
           /\ \A d \in Conns \ {c} : conn'[d] = conn[d]
OBVIOUS

\* The connections and the replies keep their types.
LEMMA ConnectionTypesStep ==
    ASSUME Accounted, Next
    PROVE  /\ conn' \in [Conns -> Connection]
           /\ received' \in [Conns -> Seq(Reply)]
<1>1. conn \in [Conns -> Connection] /\ received \in [Conns -> Seq(Reply)]
  BY DEF Accounted, TypeOK
<1>2. CASE UNCHANGED <<conn, received>>
  BY <1>1, <1>2
<1>3. ASSUME NEW c \in Conns, Connect(c)
      PROVE  conn' \in [Conns -> Connection] /\ UNCHANGED received
  <2>1. [conn[c] EXCEPT !.state = "backlog"] \in Connection
    BY <1>1 DEF Connection
  <2>2. conn' = [conn EXCEPT ![c] = [conn[c] EXCEPT !.state = "backlog"]]
    BY <1>1, <1>3 DEF Connect
  <2>3. QED BY <1>1, <1>3, <2>1, <2>2, ReplaceConnection DEF Connect
<1>4. CASE EventAccept
  <2>1. \A c \in Conns :
            [conn[c] EXCEPT !.state = "open", !.interest = {"in"}]
                \in Connection
    BY <1>1 DEF Connection
  <2>2. QED BY <1>1, <1>4, <2>1 DEF EventAccept
<1>5. CASE DrainEnd
  <2>1. \A c \in Conns : Refreshed(conn[c]) \in Connection
    BY <1>1, RefreshedFacts
  <2>2. QED BY <1>1, <1>5, <2>1 DEF DrainEnd
<1>6. \A c \in Conns : Destroyed(conn[c]) \in Connection
  BY <1>1, DestroyedFacts
<1>7. CASE FlushReturn
  BY <1>1, <1>6, <1>7 DEF FlushReturn
<1>8. ASSUME NEW c \in Conns, EventHangup(c)
      PROVE  conn' \in [Conns -> Connection] /\ UNCHANGED received
  BY <1>1, <1>6, <1>8 DEF EventHangup
<1>9. ASSUME NEW c \in Conns, EventRead(c)
      PROVE  conn' \in [Conns -> Connection] /\ UNCHANGED received
  <2>1. \E kk \in Connection : conn' = [conn EXCEPT ![c] = kk]
    BY <1>9, ReadFacts, ReapedFacts
  <2>2. QED BY <1>1, <1>9, <2>1, ReplaceConnection DEF EventRead
<1>10. ASSUME NEW c \in Conns, CompleteResponse(c)
       PROVE  conn' \in [Conns -> Connection] /\ UNCHANGED received
  BY <1>1, <1>10, CompleteFacts, ZenonT(40) DEF CompleteResponse
<1>11. CASE EventWrite
  <2>1. PICK kk \in Connection, n \in 0..Len(conn[current].output) :
            /\ received' = [received EXCEPT ![current] =
                                @ \o SubSeq(conn[current].output, 1, n)]
            /\ conn' = [conn EXCEPT ![current] = Reaped(kk)]
    BY <1>11, WriteFacts
  <2>2. current \in Open
    BY <1>11, WriteFacts
  <2>3. /\ current \in Conns /\ received[current] \in Seq(Reply)
        /\ conn[current].output \in Seq(Reply)
    BY <2>2, OpenFacts, FieldTypes
  <2>4. received[current] \o SubSeq(conn[current].output, 1, n) \in Seq(Reply)
    BY <2>3
  <2>5. Reaped(kk) \in Connection
    BY ReapedFacts
  <2>6. QED BY <1>1, <2>1, <2>3, <2>4, <2>5
<1>12. QED
  <2>1. CASE Clients
    BY <1>1, <1>2, <1>3, <2>1 DEF Clients, Send, ShutWrite, Hangup
  <2>2. CASE Loop
    BY <1>1, <1>2, <1>4, <1>5, <1>7, <1>8, <1>9, <1>10, <1>11, <2>2
       DEF Loop, Poll, EventTimer, EventWake, Flush
  <2>3. CASE \/ \E c \in Conns : LoadDone(c)
             \/ LogPublish \/ Notify \/ LogFail
    BY <1>2, <2>3 DEF LoadDone, LogPublish, Notify, LogFail
  <2>4. QED BY <2>1, <2>2, <2>3 DEF Next

\* The other variables keep their types.
LEMMA TypedStep ==
    ASSUME Accounted, Next
    PROVE  Typed'
<1>1. /\ conn' \in [Conns -> Connection]
      /\ received' \in [Conns -> Seq(Reply)]
  BY ConnectionTypesStep
<1>2. Typed
  BY DEF Accounted, TypeOK, Typed
<1>3. /\ requests' \in [Conns -> Seq(Requests)]
      /\ shut' \subseteq Conns /\ reset' \subseteq Conns
  <2>1. CASE UNCHANGED clientVars
    BY <1>2, <2>1 DEF Typed, clientVars
  <2>2. ASSUME NEW c \in Conns, NEW kind \in Kinds, Send(c, kind)
        PROVE  /\ requests' \in [Conns -> Seq(Requests)]
               /\ UNCHANGED <<shut, reset>>
    <3>1. kind \in Requests
      BY ReactorAssumption
    <3>2. Append(requests[c], kind) \in Seq(Requests)
      BY <1>2, <3>1 DEF Typed
    <3>3. QED BY <1>2, <2>2, <3>2 DEF Typed, Send
  <2>3. CASE Clients
    BY <1>2, <2>1, <2>2, <2>3
       DEF Typed, Clients, Connect, ShutWrite, Hangup, clientVars
  <2>4. CASE Loop
    BY <2>1, <2>4
       DEF Loop, Poll, EventTimer, EventAccept, EventWake, DrainEnd,
           EventWrite, Flush, FlushReturn, CompleteResponse, EventHangup,
           EventRead
  <2>5. CASE \/ \E c \in Conns : LoadDone(c)
             \/ LogPublish \/ Notify \/ LogFail
    BY <2>1, <2>5 DEF LoadDone, LogPublish, Notify, LogFail
  <2>6. QED BY <2>3, <2>4, <2>5 DEF Next
<1>4. /\ pc' \in {"poll", "batch", "drain", "flushOut", "write", "flushWait"}
      /\ current' \in Conns \cup {"none"}
      /\ draining' \subseteq Conns
      /\ loading' \subseteq Conns /\ loaded' \subseteq Conns
  <2> DEFINE Good == /\ pc' \in {"poll", "batch", "drain", "flushOut", "write",
                                 "flushWait"}
                     /\ current' \in Conns \cup {"none"}
                     /\ draining' \subseteq Conns
                     /\ loading' \subseteq Conns /\ loaded' \subseteq Conns
  <2>1. CASE UNCHANGED <<loopVars, loadVars>>
    BY <1>2, <2>1 DEF Typed, loopVars, loadVars
  <2>2. ASSUME NEW c \in Conns, LoadDone(c) PROVE Good
    BY <1>2, <2>2 DEF Typed, LoadDone, loopVars
  <2>3. CASE Poll \/ EventTimer \/ EventAccept \/ EventWake \/ DrainEnd
             \/ Flush \/ FlushReturn
    BY <1>2, <2>3
       DEF Typed, Poll, EventTimer, EventAccept, EventWake, DrainEnd, Flush,
           FlushReturn, AfterFlush, loopVars, loadVars
  <2>4. CASE EventWrite
    <3>1. current \in Conns
      BY <2>4, WriteFacts, OpenFacts
    <3>2. loading' = loading \cup {current} \/ loading' = loading
      BY <2>4, WriteFacts
    <3>3. loading' \subseteq Conns
      BY <1>2, <3>1, <3>2 DEF Typed
    <3>4. QED BY <1>2, <2>4, <3>3 DEF Typed, EventWrite
  <2>5. ASSUME NEW c \in Conns, CompleteResponse(c) PROVE Good
    <3>1. loading' \subseteq Conns
      <4>1. loading' = loading \cup {c} \/ loading' = loading
        BY <2>5, CompleteFacts
      <4>2. QED BY <1>2, <4>1 DEF Typed
    <3>2. QED BY <1>2, <2>5, <3>1 DEF Typed, CompleteResponse
  <2>6. ASSUME NEW c \in Conns, EventHangup(c) PROVE Good
    BY <1>2, <2>6 DEF Typed, EventHangup, loadVars
  <2>7. ASSUME NEW c \in Conns, EventRead(c) PROVE Good
    <3>1. /\ loading' = loading \cup {c} \/ loading' = loading
          /\ pc' \in {"flushOut", pc} /\ current' \in {c, current}
      BY <2>7, ReadFacts
    <3>2. UNCHANGED <<draining, loaded>>
      BY <2>7 DEF EventRead
    <3>3. QED BY <1>2, <3>1, <3>2 DEF Typed
  <2>8. CASE Clients
    BY <2>1, <2>8 DEF Clients, Connect, Send, ShutWrite, Hangup
  <2>9. CASE Loop
    BY <2>3, <2>4, <2>5, <2>6, <2>7, <2>9 DEF Loop
  <2>10. CASE LogPublish \/ Notify \/ LogFail
    BY <2>1, <2>10 DEF LogPublish, Notify, LogFail
  <2>11. QED BY <2>2, <2>8, <2>9, <2>10 DEF Next
<1>5. enqueued' \in Nat /\ written' \in Nat /\ flushed' \in Nat
  <2> DEFINE Good == enqueued' \in Nat /\ written' \in Nat /\ flushed' \in Nat
  <2>1. CASE UNCHANGED <<sequenceVars, flushed>>
    BY <1>2, <2>1 DEF Typed, sequenceVars
  <2>2. CASE Flush
    <3>1. enqueued' \in {enqueued, enqueued + 1} /\ written' = written
          /\ flushed' = enqueued'
      BY <2>2 DEF Flush, Log!Enqueue, sequenceVars
    <3>2. QED BY <1>2, <3>1 DEF Typed
  <2>3. CASE EventWrite
    <3>1. enqueued' \in Nat
      BY <2>3, WriteFacts
    <3>2. QED BY <1>2, <2>3, <3>1 DEF Typed, EventWrite, flushVars
  <2>4. ASSUME NEW c \in Conns, CompleteResponse(c) PROVE Good
    <3>1. enqueued' \in Nat
      BY <2>4, CompleteFacts
    <3>2. QED BY <1>2, <2>4, <3>1 DEF Typed, CompleteResponse
  <2>5. ASSUME NEW c \in Conns, EventRead(c) PROVE Good
    <3>1. enqueued' \in Nat
      BY <2>5, ReadFacts
    <3>2. QED BY <1>2, <2>5, <3>1 DEF Typed, EventRead, flushVars
  <2>6. CASE LogPublish
    <3>1. written' \in (written + 1)..enqueued
      BY <2>6 DEF LogPublish, Log!Publish
    <3>2. written' \in Nat
      BY <1>2, <3>1 DEF Typed
    <3>3. QED
      BY <1>2, <2>6, <3>2 DEF Typed, LogPublish, Log!Publish, flushVars
  <2>7. CASE LogFail
    BY <1>2, <2>7 DEF Typed, LogFail, Log!Fail, flushVars
  <2>8. CASE Clients
    BY <2>1, <2>8
       DEF Clients, Connect, Send, ShutWrite, Hangup, flushVars
  <2>9. CASE Loop
    BY <2>1, <2>2, <2>3, <2>4, <2>5, <2>9
       DEF Loop, Poll, EventTimer, EventAccept, EventWake, DrainEnd,
           FlushReturn, EventHangup, flushVars
  <2>10. CASE Notify \/ \E c \in Conns : LoadDone(c)
    BY <2>1, <2>10 DEF Notify, LoadDone, flushVars
  <2>11. QED BY <2>6, <2>7, <2>8, <2>9, <2>10 DEF Next
<1>6. {failed', evicted', reported', owed', wake'} \subseteq BOOLEAN
  <2>1. /\ failed \in BOOLEAN /\ evicted \in BOOLEAN /\ reported \in BOOLEAN
        /\ owed \in BOOLEAN /\ wake \in BOOLEAN
    BY <1>2, Zenon DEF Typed
  <2>2. evicted' \in BOOLEAN
    <3>1. ASSUME NEW c \in Conns, CompleteResponse(c)
          PROVE  evicted' \in BOOLEAN
      BY <3>1, CompleteFacts
    <3>2. \/ \E c \in Conns : CompleteResponse(c)
          \/ evicted' = FALSE \/ evicted' = evicted
      BY Zenon
         DEF Next, Clients, Loop, Connect, Send, ShutWrite, Hangup, Poll,
             EventTimer, EventAccept, EventWake, DrainEnd, EventWrite, Flush,
             FlushReturn, EventHangup, EventRead, LoadDone, LogPublish,
             Notify, LogFail, flushVars
    <3>3. QED BY <2>1, <3>1, <3>2, Zenon
  <2>3. failed' = TRUE \/ failed' = failed
    BY Zenon
       DEF Next, Clients, Loop, Connect, Send, ShutWrite, Hangup, Poll,
           EventTimer, EventAccept, EventWake, DrainEnd, EventWrite, Flush,
           FlushReturn, CompleteResponse, EventHangup, EventRead, LoadDone,
           LogPublish, Notify, LogFail, sequenceVars, Log!Enqueue,
           Log!Publish, Log!Fail
  <2>4. reported' = TRUE \/ reported' = reported
    BY Zenon
       DEF Next, Clients, Loop, Connect, Send, ShutWrite, Hangup, Poll,
           EventTimer, EventAccept, EventWake, DrainEnd, EventWrite, Flush,
           FlushReturn, CompleteResponse, EventHangup, EventRead, LoadDone,
           LogPublish, Notify, LogFail, flushVars
  <2>5. /\ owed' = TRUE \/ owed' = FALSE \/ owed' = owed
        /\ wake' = TRUE \/ wake' = FALSE \/ wake' = wake
    BY Zenon
       DEF Next, Clients, Loop, Connect, Send, ShutWrite, Hangup, Poll,
           EventTimer, EventAccept, EventWake, DrainEnd, EventWrite, Flush,
           FlushReturn, CompleteResponse, EventHangup, EventRead, LoadDone,
           LogPublish, Notify, LogFail, wakeVars
  <2>6. QED BY <2>1, <2>2, <2>3, <2>4, <2>5, Zenon
<1>7. QED BY <1>1, <1>3, <1>4, <1>5, <1>6 DEF Typed
\* A connection that a step leaves alone still agrees with its replies: its
\* client may only have sent more.
LEMMA SameConnection ==
    ASSUME Typed, Typed', NEW c \in Conns, ConnectionAgrees(c),
           conn'[c] = conn[c], received'[c] = received[c],
           Len(requests[c]) <= Len(requests'[c]),
           current' = current \/ current # c
    PROVE  ConnectionAgrees(c)'
<1>1. /\ conn[c].taken \in Nat /\ Len(requests[c]) \in Nat
      /\ Len(requests'[c]) \in Nat
  BY FieldTypes DEF Typed
<1>2. ASSUME conn[c].state = "open"
      PROVE  RepliesAgree(c, conn[c], received[c])' /\ Settled(conn[c])'
  <2>1. RepliesAgree(c, conn[c], received[c]) /\ Settled(conn[c])
    BY <1>2 DEF ConnectionAgrees
  <2>2. conn[c].taken <= Len(requests'[c])
    <3>1. conn[c].taken <= Len(requests[c])
      BY <2>1 DEF RepliesAgree
    <3>2. QED BY <1>1, <3>1
  <2>3. QED BY <2>1, <2>2 DEF RepliesAgree, Settled, Unanswered, Numbered,
                              CoveredBy
<1>3. QED BY <1>2 DEF ConnectionAgrees, Numbered, NewConnection

\* A step that leaves an open connection with replies in order.
LEMMA OpenConnection ==
    ASSUME NEW c \in Conns, NEW kk, NEW r, conn'[c] = kk, received'[c] = r,
           kk.state = "open", requests'[c] = requests[c],
           RepliesAgree(c, kk, r), Settled(kk),
           kk.peerEof /\ kk.output = <<>> => current' = c
    PROVE  ConnectionAgrees(c)'
<1>1. RepliesAgree(c, conn[c], received[c])' /\ Settled(conn[c])'
  BY DEF RepliesAgree, Settled, Unanswered, Numbered, CoveredBy
<1>2. QED BY <1>1 DEF ConnectionAgrees

\* A step that destroys a connection.
LEMMA ClosedConnection ==
    ASSUME NEW c \in Conns, NEW r, received'[c] = r, Numbered(r, 0),
           conn'[c].state = "closed", conn'[c].output = <<>>
    PROVE  ConnectionAgrees(c)'
BY DEF ConnectionAgrees, Numbered

\* handle_accept: a connection starts with nothing read and nothing to send.
LEMMA AcceptedConnection ==
    ASSUME Typed, NEW c \in Conns, ConnectionAgrees(c),
           conn[c].state = "backlog",
           conn'[c] = [conn[c] EXCEPT !.state = "open", !.interest = {"in"}],
           received'[c] = received[c], requests'[c] = requests[c]
    PROVE  /\ ConnectionAgrees(c)'
           /\ conn'[c].state = "open" /\ conn'[c].output = <<>>
           /\ "in" \in conn'[c].interest /\ "out" \notin conn'[c].interest
           /\ ~conn'[c].deferred
<1> DEFINE kk == [NewConnection EXCEPT !.state = "open", !.interest = {"in"}]
<1>1. /\ conn[c] = [NewConnection EXCEPT !.state = "backlog"]
      /\ received[c] = <<>>
  BY DEF ConnectionAgrees
<1>2. conn'[c] = kk
  BY <1>1 DEF NewConnection
<1>3. /\ kk.state = "open" /\ kk.taken = 0 /\ kk.consumed = 0
      /\ kk.output = <<>> /\ kk.barrier = 0 /\ ~kk.deferred /\ ~kk.closing
      /\ ~kk.peerEof /\ kk.interest = {"in"}
  BY DEF NewConnection
<1> HIDE DEF kk
<1>4. RepliesAgree(c, kk, <<>>)
  <2>1. OutputHighWater \in Nat /\ Len(requests[c]) \in Nat
    BY ReactorAssumption DEF Typed
  <2>2. Numbered(<<>>, 0) /\ Numbered(kk.output, Len(<<>>))
        /\ CoveredBy(kk.output, kk.barrier)
    BY <1>3 DEF Numbered, CoveredBy
  <2>3. Unanswered(kk) = 0 /\ Len(<<>>) = 0 /\ Len(kk.output) = 0
    BY <1>3 DEF Unanswered
  <2>4. QED BY <1>3, <2>1, <2>2, <2>3 DEF RepliesAgree
<1>5. Settled(kk)
  BY <1>3 DEF Settled
<1>6. ConnectionAgrees(c)'
  BY <1>1, <1>2, <1>3, <1>4, <1>5, OpenConnection
<1>7. "in" \in kk.interest /\ "out" \notin kk.interest
  BY <1>3
<1>8. /\ kk.state = "open" /\ kk.output = <<>> /\ ~kk.deferred
  BY <1>3
<1>9. QED BY <1>2, <1>6, <1>7, <1>8

\* Replies stay in order, whatever happens to the connections.
LEMMA ConnectionsStep ==
    ASSUME Accounted, Next
    PROVE  ConnectionsAgree'
<1>1. Typed /\ Typed' /\ \A c \in Conns : ConnectionAgrees(c)
  BY TypedStep DEF Accounted, TypeOK, Typed, ConnectionsAgree
<1>2. \A c \in Conns : Len(requests[c]) <= Len(requests'[c])
  <2>1. \A c \in Conns : Len(requests[c]) \in Nat
    BY <1>1 DEF Typed
  <2>2. CASE UNCHANGED requests
    BY <2>1, <2>2
  <2>3. ASSUME NEW c \in Conns, NEW kind \in Kinds, Send(c, kind)
        PROVE  \A d \in Conns : Len(requests[d]) <= Len(requests'[d])
    <3> TAKE d \in Conns
    <3>1. requests[c] \in Seq(Requests) /\ kind \in Requests
      BY <1>1, ReactorAssumption DEF Typed
    <3>2. requests'[d] = IF d = c THEN Append(requests[c], kind)
                         ELSE requests[d]
      BY <1>1, <2>3 DEF Send, Typed
    <3>3. Len(Append(requests[c], kind)) = Len(requests[c]) + 1
      BY <3>1
    <3>4. QED BY <2>1, <3>2, <3>3
  <2>4. QED
    BY <2>2, <2>3
       DEF Next, Clients, Loop, Connect, ShutWrite, Hangup, Poll, EventTimer,
           EventAccept, EventWake, DrainEnd, EventWrite, Flush, FlushReturn,
           CompleteResponse, EventHangup, EventRead, LoadDone, LogPublish,
           Notify, LogFail, clientVars
<1>3. CASE UNCHANGED <<conn, received, current>>
  BY <1>1, <1>2, <1>3, SameConnection DEF ConnectionsAgree
<1>4. ASSUME NEW c \in Conns, Connect(c) PROVE ConnectionsAgree'
  <2>1. UNCHANGED <<received, current, requests>>
    BY <1>4 DEF Connect, loopVars, clientVars
  <2>2. /\ conn'[c] = [conn[c] EXCEPT !.state = "backlog"]
        /\ \A d \in Conns \ {c} : conn'[d] = conn[d]
    BY <1>1, <1>4 DEF Connect, Typed
  <2>3. ConnectionAgrees(c)'
    <3>1. conn[c] = [NewConnection EXCEPT !.state = "new"] /\ received[c] = <<>>
      BY <1>1, <1>4 DEF Connect, ConnectionAgrees
    <3>2. conn'[c] = [NewConnection EXCEPT !.state = "backlog"]
      BY <2>2, <3>1 DEF NewConnection
    <3>3. conn'[c].state = "backlog"
      BY <3>2 DEF NewConnection
    <3>4. QED BY <2>1, <3>1, <3>2, <3>3 DEF ConnectionAgrees, NewConnection
  <2>4. QED BY <1>1, <1>2, <2>1, <2>2, <2>3, SameConnection
            DEF ConnectionsAgree
<1>5. CASE EventAccept
  <2> SUFFICES ASSUME NEW c \in Conns PROVE ConnectionAgrees(c)'
    BY DEF ConnectionsAgree
  <2>1. UNCHANGED <<received, current, requests>>
    BY <1>5 DEF EventAccept, clientVars
  <2>2. conn'[c] = IF conn[c].state = "backlog"
                   THEN [conn[c] EXCEPT !.state = "open", !.interest = {"in"}]
                   ELSE conn[c]
    BY <1>5 DEF EventAccept
  <2>3. QED BY <1>1, <1>2, <2>1, <2>2, SameConnection, AcceptedConnection
<1>6. CASE DrainEnd
  <2> SUFFICES ASSUME NEW c \in Conns PROVE ConnectionAgrees(c)'
    BY DEF ConnectionsAgree
  <2>1. UNCHANGED <<received, current, requests>>
    BY <1>6 DEF DrainEnd, clientVars
  <2>2. CASE c \notin Open
    <3>1. conn'[c] = conn[c]
      BY <1>6, <2>2 DEF DrainEnd
    <3>2. QED BY <1>1, <1>2, <2>1, <3>1, SameConnection
  <2>3. CASE c \in Open
    <3>1. conn'[c] = Refreshed(conn[c])
      BY <1>6, <2>3 DEF DrainEnd
    <3>2. /\ conn[c] \in Connection /\ conn[c].state = "open"
          /\ received[c] \in Seq(Reply)
          /\ RepliesAgree(c, conn[c], received[c]) /\ Settled(conn[c])
          /\ conn[c].peerEof /\ conn[c].output = <<>> => current = c
      BY <2>3, OpenFacts
    <3> DEFINE q == conn'[c]
    <3>3. /\ q.state = "open" /\ q.output = conn[c].output
          /\ q.consumed = conn[c].consumed /\ q.taken = conn[c].taken
          /\ q.barrier = conn[c].barrier /\ q.deferred = conn[c].deferred
          /\ q.closing = conn[c].closing /\ q.peerEof = conn[c].peerEof
      BY <3>1, <3>2, RefreshedFacts
    <3>4. RepliesAgree(c, q, received[c]) /\ Settled(q)
      BY <3>2, <3>3, SameAgrees
    <3> HIDE DEF q
    <3>5. conn'[c] = q
      BY DEF q
    <3>6. QED BY <2>1, <3>2, <3>3, <3>4, <3>5, OpenConnection
  <2>4. QED BY <2>2, <2>3
<1>7. ASSUME NEW c \in Open, conn'[c] = Destroyed(conn[c]),
             received'[c] = received[c]
      PROVE  ConnectionAgrees(c)'
  <2>1. /\ c \in Conns /\ conn[c] \in Connection
        /\ RepliesAgree(c, conn[c], received[c])
    BY OpenFacts
  <2>2. conn'[c].state = "closed" /\ conn'[c].output = <<>>
    BY <1>7, <2>1, DestroyedFacts
  <2>3. Numbered(received[c], 0)
    BY <2>1 DEF RepliesAgree
  <2>4. QED BY <1>7, <2>1, <2>2, <2>3, ClosedConnection
<1>8. CASE FlushReturn
  <2>1. UNCHANGED <<received, requests>>
    BY <1>8 DEF FlushReturn, clientVars
  <2>2. CASE failed /\ ~reported
    <3> SUFFICES ASSUME NEW c \in Conns PROVE ConnectionAgrees(c)'
      BY DEF ConnectionsAgree
    <3>1. conn'[c] = IF c \in Open THEN Destroyed(conn[c]) ELSE conn[c]
      BY <1>8, <2>2 DEF FlushReturn
    <3>2. c \notin Open => current # c
      BY DEF Accounted, BatchAgrees
    <3>3. QED BY <1>1, <1>2, <1>7, <2>1, <3>1, <3>2, SameConnection
  <2>3. CASE ~(failed /\ ~reported)
    BY <1>3, <1>8, <2>3 DEF FlushReturn
  <2>4. QED BY <2>2, <2>3
<1>9. ASSUME NEW c \in Conns, EventHangup(c) PROVE ConnectionsAgree'
  <2>1. UNCHANGED <<received, requests, current>>
    BY <1>9 DEF EventHangup, clientVars
  <2>2. /\ conn'[c] = Destroyed(conn[c])
        /\ \A d \in Conns \ {c} : conn'[d] = conn[d]
    BY <1>1, <1>9 DEF EventHangup, Typed
  <2>3. c \in Open
    BY <1>9 DEF EventHangup, Accounted, BatchAgrees
  <2>4. QED BY <1>1, <1>2, <1>7, <2>1, <2>2, <2>3, SameConnection
            DEF ConnectionsAgree
<1>10. ASSUME NEW c \in Conns, CompleteResponse(c) PROVE ConnectionsAgree'
  <2>1. UNCHANGED <<received, requests, current>>
    BY <1>10 DEF CompleteResponse, clientVars
  <2>2. CASE c \notin Open
    BY <1>3, <1>10, <2>1, <2>2, CompleteFacts
  <2>3. CASE c \in Open
    <3>1. PICK kk \in Connection :
            /\ conn' = [conn EXCEPT ![c] = kk]
            /\ kk.state = "open"
            /\ RepliesAgree(c, kk, received[c]) /\ Settled(kk)
            /\ kk.output # <<>>
      BY <1>10, <2>3, CompleteFacts
    <3>2. conn'[c] = kk /\ \A d \in Conns \ {c} : conn'[d] = conn[d]
      BY <1>1, <3>1 DEF Typed
    <3>3. ConnectionAgrees(c)'
      BY <2>1, <3>1, <3>2, OpenConnection
    <3>4. QED BY <1>1, <1>2, <2>1, <3>2, <3>3, SameConnection
              DEF ConnectionsAgree
  <2>4. QED BY <2>2, <2>3
<1>11. ASSUME NEW c \in Conns, EventRead(c) PROVE ConnectionsAgree'
  <2>1. UNCHANGED <<received, requests>>
    BY <1>11 DEF EventRead, clientVars
  <2>2. PICK e \in batch, kk \in Connection :
            /\ conn' = [conn EXCEPT ![c] =
                            IF "out" \in e.active THEN kk ELSE Reaped(kk)]
            /\ kk.state = "open"
            /\ RepliesAgree(c, kk, received[c]) /\ Settled(kk)
            /\ IF "out" \in e.active THEN pc' = "flushOut" /\ current' = c
                                     ELSE pc' = pc /\ current' = current
    BY <1>11, ReadFacts
  <2>3. current \notin Conns
    BY <1>11 DEF EventRead, Accounted, BatchAgrees
  <2>4. \A d \in Conns \ {c} : conn'[d] = conn[d]
    BY <1>1, <2>2 DEF Typed
  <2>5. ConnectionAgrees(c)'
    <3>1. CASE "out" \in e.active
      <4>1. conn'[c] = kk /\ current' = c
        BY <1>1, <2>2, <3>1 DEF Typed
      <4>2. QED BY <2>1, <2>2, <4>1, OpenConnection
    <3>2. CASE "out" \notin e.active
      <4>1. conn'[c] = Reaped(kk)
        BY <1>1, <2>2, <3>2 DEF Typed
      <4>2. CASE kk.peerEof /\ kk.output = <<>>
        <5>1. conn'[c].state = "closed" /\ conn'[c].output = <<>>
          BY <4>1, <4>2, ReapedFacts
        <5>2. Numbered(received[c], 0)
          BY <2>2 DEF RepliesAgree
        <5>3. QED BY <2>1, <5>1, <5>2, ClosedConnection
      <4>3. CASE ~(kk.peerEof /\ kk.output = <<>>)
        <5>1. conn'[c] = kk
          BY <4>1, <4>3, ReapedFacts
        <5>2. QED BY <2>1, <2>2, <4>3, <5>1, OpenConnection
      <4>4. QED BY <4>2, <4>3
    <3>3. QED BY <3>1, <3>2
  <2>6. QED BY <1>1, <1>2, <2>1, <2>3, <2>4, <2>5, SameConnection
            DEF ConnectionsAgree
<1>12. CASE EventWrite
  <2>0. PICK c \in Open : c = current
    BY <1>12, WriteFacts
  <2> DEFINE out == conn[c].output
  <2>1. c \in Conns /\ conn[c] \in Connection /\ received[c] \in Seq(Reply)
        /\ RepliesAgree(c, conn[c], received[c])
    BY OpenFacts
  <2>2. PICK kk \in Connection, n \in 0..Len(out) :
            /\ received' = [received EXCEPT ![c] = @ \o SubSeq(out, 1, n)]
            /\ conn' = [conn EXCEPT ![c] = Reaped(kk)]
            /\ kk.state \in {"open", "closed"}
            /\ kk.state = "open" =>
                /\ RepliesAgree(c, kk, received[c] \o SubSeq(out, 1, n))
                /\ Settled(kk)
            /\ kk.state = "closed" => kk.output = <<>>
    BY <1>12, <2>0, WriteFacts
  <2>3. requests' = requests
    BY <1>12 DEF EventWrite, clientVars
  <2> DEFINE s == received[c] \o SubSeq(out, 1, n)
  <2>4. /\ conn'[c] = Reaped(kk) /\ received'[c] = s
        /\ \A d \in Conns \ {c} :
                conn'[d] = conn[d] /\ received'[d] = received[d]
    BY <1>1, <2>1, <2>2 DEF Typed
  <2>5. Numbered(s, 0)
    <3>1. Numbered(received[c], 0) /\ Numbered(out, Len(received[c]))
          /\ CoveredBy(out, conn[c].barrier)
      BY <2>1 DEF RepliesAgree
    <3>2. out \in Seq(Reply)
      BY <2>1, FieldTypes
    <3>3. QED BY <2>1, <3>1, <3>2, SendKeepsOrder
  <2>6. (RepliesAgree(c, kk, s) /\ Settled(kk)) \/ kk.state = "closed"
    BY <2>2
  <2> HIDE DEF s
  <2>7. CASE kk.peerEof /\ kk.output = <<>>
    <3>1. conn'[c].state = "closed" /\ conn'[c].output = <<>>
      BY <2>4, <2>7, ReapedFacts
    <3>2. ConnectionAgrees(c)'
      BY <2>1, <2>4, <2>5, <3>1, ClosedConnection
    <3>3. QED BY <1>1, <1>2, <2>0, <2>4, <3>2, SameConnection
              DEF ConnectionsAgree
  <2>8. CASE ~(kk.peerEof /\ kk.output = <<>>)
    <3>1. conn'[c] = kk
      BY <2>4, <2>8, ReapedFacts
    <3>2. ConnectionAgrees(c)'
      <4>1. CASE kk.state = "open"
        BY <2>1, <2>3, <2>4, <2>6, <2>8, <3>1, <4>1, OpenConnection
      <4>2. CASE kk.state = "closed"
        BY <2>1, <2>2, <2>4, <2>5, <3>1, <4>2, ClosedConnection
      <4>3. QED BY <2>2, <4>1, <4>2
    <3>3. QED BY <1>1, <1>2, <2>0, <2>4, <3>2, SameConnection
              DEF ConnectionsAgree
  <2>9. QED BY <2>7, <2>8
<1>13. QED
  <2>1. CASE Clients
    BY <1>3, <1>4, <2>1 DEF Clients, Send, ShutWrite, Hangup, loopVars
  <2>2. CASE Loop
    BY <1>3, <1>5, <1>6, <1>8, <1>9, <1>10, <1>11, <1>12, <2>2
       DEF Loop, Poll, EventTimer, EventWake, Flush
  <2>3. CASE \/ \E c \in Conns : LoadDone(c)
             \/ LogPublish \/ Notify \/ LogFail
    BY <1>3, <2>3 DEF LoadDone, LogPublish, Notify, LogFail, loopVars
  <2>4. QED BY <2>1, <2>2, <2>3 DEF Next
\* Each load is in one place, and the connection that asked for it waits.
LEMMA LoadsStep ==
    ASSUME Accounted, Next
    PROVE  LoadsAgree'
<1>1. Typed /\ Typed' /\ LoadsAgree /\ \A c \in Conns : ConnectionAgrees(c)
  BY TypedStep DEF Accounted, TypeOK, Typed, ConnectionsAgree
<1>2. conn \in [Conns -> Connection]
  BY <1>1 DEF Typed
<1>3. CASE UNCHANGED <<conn, loading, loaded, draining, pc, wake>>
  BY <1>1, <1>3 DEF LoadsAgree, Waiting, Open
<1>4. CASE /\ UNCHANGED <<conn, loading, loaded, draining, wake>>
           /\ pc # "drain"
  BY <1>1, <1>4 DEF LoadsAgree, Waiting, Open
<1>5. CASE UNCHANGED <<conn, loading, loaded, draining, pc>> /\ wake'
  BY <1>1, <1>5 DEF LoadsAgree, Waiting, Open
<1>6. ASSUME UNCHANGED <<loading, loaded, draining, pc, wake>>,
             \A c \in Conns : \/ conn'[c] = conn[c]
                              \/ c \notin Open' /\ c \notin Waiting
      PROVE  LoadsAgree'
  <2>1. Waiting' = Waiting /\ Waiting \subseteq Conns
    BY <1>1, <1>6 DEF Waiting, Typed
  <2>2. \A c \in Open' : c \in Open /\ conn'[c] = conn[c]
    BY <1>6 DEF Open
  <2>3. \A c \in Waiting' : conn'[c].state \in {"open", "closed"}
    BY <1>1, <1>6, <2>1 DEF LoadsAgree
  <2>4. \A c \in Open' : conn'[c].deferred <=> c \in Waiting'
    BY <1>1, <2>1, <2>2 DEF LoadsAgree
  <2>5. QED BY <1>1, <1>6, <2>3, <2>4 DEF LoadsAgree
<1>7. ASSUME NEW c \in Conns, Connect(c) PROVE LoadsAgree'
  <2>1. UNCHANGED <<loading, loaded, draining, pc, wake>>
    BY <1>7 DEF Connect, loadVars, loopVars, wakeVars
  <2>2. conn'[c] = [conn[c] EXCEPT !.state = "backlog"]
        /\ \A d \in Conns \ {c} : conn'[d] = conn[d]
    BY <1>2, <1>7 DEF Connect
  <2>3. conn'[c].state = "backlog" /\ conn[c].state = "new"
    BY <1>2, <1>7, <2>2 DEF Connection, Connect
  <2>4. c \notin Open' /\ c \notin Waiting
    BY <1>1, <2>3 DEF LoadsAgree, Open
  <2>5. QED BY <1>6, <2>1, <2>2, <2>4
<1>8. CASE EventAccept
  <2>1. UNCHANGED <<loading, loaded, draining, pc, wake, received, requests>>
    BY <1>8 DEF EventAccept, loadVars, wakeVars, clientVars
  <2>2. ASSUME NEW c \in Conns
        PROVE  /\ \/ conn'[c] = conn[c]
                  \/ /\ c \notin Waiting /\ conn'[c].state = "open"
                     /\ ~conn'[c].deferred
    <3>1. CASE conn[c].state = "backlog"
      <4>1. c \notin Waiting
        BY <1>1, <3>1 DEF LoadsAgree
      <4>2. conn'[c] = [conn[c] EXCEPT !.state = "open", !.interest = {"in"}]
        BY <1>8, <3>1 DEF EventAccept
      <4>3. conn'[c].state = "open" /\ ~conn'[c].deferred
        BY <1>1, <2>1, <3>1, <4>2, AcceptedConnection
      <4>4. QED BY <4>1, <4>3
    <3>2. CASE conn[c].state # "backlog"
      BY <1>8, <3>2 DEF EventAccept
    <3>3. QED BY <3>1, <3>2
  <2>3. Waiting' = Waiting /\ Waiting \subseteq Conns
    BY <1>1, <2>1 DEF Waiting, Typed
  <2>4. \A c \in Waiting' : conn'[c].state \in {"open", "closed"}
    BY <1>1, <2>2, <2>3 DEF LoadsAgree
  <2>5. \A c \in Open' : conn'[c].deferred <=> c \in Waiting'
    BY <1>1, <2>2, <2>3 DEF LoadsAgree, Open
  <2>6. QED BY <1>1, <2>1, <2>4, <2>5 DEF LoadsAgree
<1>9. CASE EventWake
  <2>1. draining = {} /\ conn' = conn /\ loading' = loading
        /\ draining' = loaded /\ loaded' = {} /\ pc' = "drain"
    BY <1>1, <1>9 DEF EventWake, LoadsAgree
  <2>2. Waiting' = Waiting
    BY <2>1 DEF Waiting
  <2>3. QED BY <1>1, <2>1, <2>2 DEF LoadsAgree, Open
<1>10. CASE DrainEnd
  <2>1. UNCHANGED <<loading, loaded, draining, wake>> /\ draining = {}
    BY <1>10 DEF DrainEnd, loadVars, wakeVars
  <2>2. ASSUME NEW c \in Conns
        PROVE  conn'[c].state = conn[c].state
               /\ conn'[c].deferred = conn[c].deferred
    BY <1>2, <1>10, RefreshedFacts DEF DrainEnd
  <2>3. Waiting' = Waiting /\ Open' = Open /\ Waiting \subseteq Conns
    BY <1>1, <2>1, <2>2 DEF Waiting, Open, Typed
  <2>4. \A c \in Waiting' : conn'[c].state \in {"open", "closed"}
    BY <1>1, <2>2, <2>3 DEF LoadsAgree
  <2>5. \A c \in Open' : conn'[c].deferred <=> c \in Waiting'
    BY <1>1, <2>2, <2>3 DEF LoadsAgree, Open
  <2>6. QED BY <1>1, <2>1, <2>4, <2>5 DEF LoadsAgree
<1>11. ASSUME NEW D \in SUBSET Conns,
              \A c \in D : conn'[c].state = "closed",
              \A c \in Conns \ D : conn'[c] = conn[c],
              UNCHANGED <<loading, loaded, draining, wake>>,
              pc # "drain"
       PROVE  LoadsAgree'
  <2>1. draining = {} /\ draining' = {}
    BY <1>1, <1>11 DEF LoadsAgree
  <2>2. Waiting' = Waiting /\ Waiting \subseteq Conns
    BY <1>1, <1>11 DEF Waiting, Typed
  <2>3. \A c \in Waiting' : conn'[c].state \in {"open", "closed"}
    BY <1>1, <1>11, <2>2 DEF LoadsAgree
  <2>4. \A c \in Open' : conn'[c].deferred <=> c \in Waiting'
    BY <1>1, <1>11, <2>2 DEF LoadsAgree, Open
  <2>5. QED BY <1>1, <1>11, <2>1, <2>3, <2>4 DEF LoadsAgree
<1>12. CASE FlushReturn
  <2>1. UNCHANGED <<loading, loaded, draining, wake>> /\ pc # "drain"
    BY <1>12 DEF FlushReturn, loadVars, wakeVars
  <2>2. CASE failed /\ ~reported
    <3>1. \A c \in Conns : conn'[c] = IF c \in Open THEN Destroyed(conn[c])
                                      ELSE conn[c]
      BY <1>12, <2>2 DEF FlushReturn
    <3>2. \A c \in Open : conn'[c].state = "closed"
      BY <1>2, <3>1, DestroyedFacts DEF Open
    <3>3. Open \in SUBSET Conns
      BY DEF Open
    <3>4. QED BY <1>11, <2>1, <3>1, <3>2, <3>3
  <2>3. CASE ~(failed /\ ~reported)
    BY <1>4, <1>12, <2>1, <2>3 DEF FlushReturn
  <2>4. QED BY <2>2, <2>3
<1>13. ASSUME NEW c \in Conns, EventHangup(c) PROVE LoadsAgree'
  <2>1. UNCHANGED <<loading, loaded, draining, wake>> /\ pc # "drain"
    BY <1>13 DEF EventHangup, loadVars, wakeVars
  <2>2. conn'[c] = Destroyed(conn[c])
        /\ \A d \in Conns \ {c} : conn'[d] = conn[d]
    BY <1>2, <1>13 DEF EventHangup
  <2>3. conn'[c].state = "closed"
    BY <1>2, <2>2, DestroyedFacts
  <2>4. {c} \in SUBSET Conns
    OBVIOUS
  <2>5. QED BY <1>11, <2>1, <2>2, <2>3, <2>4
<1>14. ASSUME NEW c \in Conns, NEW kk \in Connection, c \in Open,
              \A d \in Conns \ {c} : conn'[d] = conn[d],
              conn'[c].state \in {"open", "closed"},
              conn'[c].state = "open" => conn'[c] = kk,
              conn[c].deferred => kk.deferred,
              loading' = IF kk.deferred /\ ~conn[c].deferred
                         THEN loading \cup {c} ELSE loading,
              UNCHANGED <<loaded, draining, wake>>, pc # "drain"
       PROVE  LoadsAgree'
  <2>1. draining = {} /\ draining' = {} /\ loaded' = loaded /\ wake' = wake
    BY <1>1, <1>14 DEF LoadsAgree
  <2>2. /\ conn[c].deferred <=> c \in loading \cup loaded
        /\ Waiting = loading \cup loaded /\ Waiting' = loading' \cup loaded
    BY <1>1, <1>14, <2>1 DEF LoadsAgree, Waiting
  <2>3. CASE kk.deferred /\ ~conn[c].deferred
    <3>1. loading' = loading \cup {c} /\ c \notin loading /\ c \notin loaded
      BY <1>14, <2>2, <2>3
    <3>2. loading' \cap loaded = {}
      BY <1>1, <3>1 DEF LoadsAgree
    <3>3. \A d \in Waiting' : conn'[d].state \in {"open", "closed"}
      BY <1>1, <1>14, <2>2, <3>1 DEF LoadsAgree, Typed
    <3>4. \A d \in Open' : conn'[d].deferred <=> d \in Waiting'
      BY <1>1, <1>14, <2>2, <2>3, <3>1 DEF LoadsAgree, Open
    <3>5. QED BY <1>1, <2>1, <3>2, <3>3, <3>4 DEF LoadsAgree
  <2>4. CASE ~(kk.deferred /\ ~conn[c].deferred)
    <3>1. loading' = loading /\ Waiting' = Waiting
      BY <1>14, <2>2, <2>4
    <3>2. \A d \in Waiting' : conn'[d].state \in {"open", "closed"}
      BY <1>1, <1>14, <2>2, <3>1 DEF LoadsAgree, Typed
    <3>3. \A d \in Open' : conn'[d].deferred <=> d \in Waiting'
      <4>1. kk.deferred \in BOOLEAN /\ conn[c].deferred \in BOOLEAN
        BY <1>2, FieldTypes
      <4>2. kk.deferred <=> conn[c].deferred
        BY <1>14, <2>4, <4>1
      <4>3. QED BY <1>1, <1>14, <3>1, <4>2 DEF LoadsAgree, Open
    <3>4. QED BY <1>1, <2>1, <3>1, <3>2, <3>3 DEF LoadsAgree
  <2>5. QED BY <2>3, <2>4
<1>15. ASSUME NEW c \in Conns, EventRead(c) PROVE LoadsAgree'
  <2>1. PICK e \in batch, kk \in Connection :
            /\ c \in Open
            /\ conn' = [conn EXCEPT ![c] =
                            IF "out" \in e.active THEN kk ELSE Reaped(kk)]
            /\ kk.state = "open"
            /\ conn[c].deferred => kk.deferred
            /\ loading' = IF kk.deferred /\ ~conn[c].deferred
                          THEN loading \cup {c} ELSE loading
    BY <1>15, ReadFacts
  <2>2. UNCHANGED <<loaded, draining, wake>> /\ pc # "drain"
    BY <1>15 DEF EventRead, wakeVars
  <2>3. /\ conn'[c] = IF "out" \in e.active THEN kk ELSE Reaped(kk)
        /\ \A d \in Conns \ {c} : conn'[d] = conn[d]
    BY <1>2, <2>1
  <2>4. /\ conn'[c].state \in {"open", "closed"}
        /\ conn'[c].state = "open" => conn'[c] = kk
    BY <2>1, <2>3, ReapedFacts
  <2>5. QED BY <1>14, <2>1, <2>2, <2>3, <2>4
<1>16. CASE EventWrite
  <2>1. PICK c \in Open : c = current
    BY <1>16, WriteFacts
  <2>2. PICK kk \in Connection, n \in 0..Len(conn[c].output) :
            /\ conn' = [conn EXCEPT ![c] = Reaped(kk)]
            /\ kk.state \in {"open", "closed"}
            /\ conn[c].deferred => kk.deferred
            /\ loading' = IF kk.deferred /\ ~conn[c].deferred
                          THEN loading \cup {c} ELSE loading
    BY <1>16, <2>1, WriteFacts
  <2>3. UNCHANGED <<loaded, draining, wake>> /\ pc # "drain"
    BY <1>16 DEF EventWrite, wakeVars
  <2>4. c \in Conns
    BY DEF Open
  <2>5. conn'[c] = Reaped(kk) /\ \A d \in Conns \ {c} : conn'[d] = conn[d]
    BY <1>2, <2>2, <2>4
  <2>6. /\ conn'[c].state \in {"open", "closed"}
        /\ conn'[c].state = "open" => conn'[c] = kk
    BY <2>2, <2>5, ReapedFacts
  <2>7. QED BY <1>14, <2>1, <2>2, <2>3, <2>4, <2>5, <2>6
<1>17. ASSUME NEW c \in Conns, CompleteResponse(c) PROVE LoadsAgree'
  <2>1. /\ UNCHANGED <<loaded, pc, wake>> /\ draining' = draining \ {c}
        /\ c \in draining /\ pc = "drain"
    BY <1>17 DEF CompleteResponse, wakeVars
  <2>2. c \notin loading /\ c \notin loaded
    BY <1>1, <2>1 DEF LoadsAgree
  <2>3. CASE c \notin Open
    <3>1. conn' = conn /\ loading' = loading
      BY <1>17, <2>3, CompleteFacts
    <3>2. Waiting' = Waiting \ {c}
      BY <2>1, <2>2, <3>1 DEF Waiting
    <3>3. QED BY <1>1, <2>1, <2>3, <3>1, <3>2 DEF LoadsAgree, Open
  <2>4. CASE c \in Open
    <3>1. PICK kk \in Connection :
            /\ conn' = [conn EXCEPT ![c] = kk]
            /\ kk.state = "open"
            /\ loading' = IF kk.deferred THEN loading \cup {c} ELSE loading
      BY <1>17, <2>4, CompleteFacts
    <3>2. conn'[c] = kk /\ \A d \in Conns \ {c} : conn'[d] = conn[d]
      BY <1>2, <3>1
    <3>3. /\ kk.deferred => Waiting' = Waiting
          /\ ~kk.deferred => Waiting' = Waiting \ {c}
      BY <2>1, <2>2, <3>1 DEF Waiting
    <3>4. Open' = Open /\ c \in Waiting
      BY <2>1, <2>4, <3>1, <3>2 DEF Open, Waiting
    <3>5. \A d \in Waiting' : conn'[d].state \in {"open", "closed"}
      BY <1>1, <3>1, <3>2, <3>3, <3>4 DEF LoadsAgree, Waiting, Typed
    <3>6. \A d \in Open' : conn'[d].deferred <=> d \in Waiting'
      BY <1>1, <3>2, <3>3, <3>4 DEF LoadsAgree, Open
    <3>7. /\ loading' \cap loaded' = {} /\ loading' \cap draining' = {}
          /\ loaded' \cap draining' = {}
      BY <1>1, <2>1, <2>2, <3>1 DEF LoadsAgree
    <3>8. QED BY <1>1, <2>1, <3>5, <3>6, <3>7 DEF LoadsAgree
  <2>5. QED BY <2>3, <2>4
<1>18. ASSUME NEW c \in Conns, LoadDone(c) PROVE LoadsAgree'
  <2>1. /\ UNCHANGED <<conn, draining, pc>> /\ c \in loading /\ wake' = TRUE
        /\ loading' = loading \ {c} /\ loaded' = loaded \cup {c}
    BY <1>18 DEF LoadDone, loopVars
  <2>2. Waiting' = Waiting
    BY <2>1 DEF Waiting
  <2>3. QED BY <1>1, <2>1, <2>2 DEF LoadsAgree, Open
<1>19. QED
  <2>1. CASE Clients
    BY <1>3, <1>7, <2>1
       DEF Clients, Send, ShutWrite, Hangup, loopVars, loadVars, wakeVars
  <2>2. CASE Poll \/ EventTimer \/ Flush
    BY <1>4, <2>2 DEF Poll, EventTimer, Flush, loadVars, wakeVars
  <2>3. CASE Loop
    BY <1>8, <1>9, <1>10, <1>12, <1>13, <1>15, <1>16, <1>17, <2>2, <2>3
       DEF Loop
  <2>4. CASE LogPublish
    BY <1>3, <2>4 DEF LogPublish, loopVars, loadVars
  <2>5. CASE Notify \/ LogFail
    BY <1>5, <2>5 DEF Notify, LogFail, loopVars, loadVars
  <2>6. QED BY <1>18, <2>1, <2>3, <2>4, <2>5 DEF Next
\* Only the AOF writer moves the published number, and only up.
LEMMA WrittenGrows ==
    ASSUME Accounted, Next
    PROVE  /\ written \in Nat /\ written' \in Nat /\ written <= written'
           /\ written' = written \/ LogPublish
<1>1. written \in Nat /\ written' \in Nat
  BY TypedStep DEF Accounted, TypeOK, Typed
<1>2. CASE LogPublish
  <2>1. enqueued \in Nat
    BY DEF Accounted, TypeOK
  <2>2. written' \in (written + 1)..enqueued
    BY <1>2 DEF LogPublish, Log!Publish
  <2>3. QED BY <1>1, <1>2, <2>1, <2>2
<1>3. CASE ~LogPublish
  <2>1. written' = written
    BY <1>3
       DEF Next, Clients, Loop, Connect, Send, ShutWrite, Hangup, Poll,
           EventTimer, EventAccept, EventWake, DrainEnd, EventWrite, Flush,
           FlushReturn, CompleteResponse, EventHangup, EventRead, LoadDone,
           Notify, LogFail, sequenceVars, Log!Enqueue, Log!Fail
  <2>2. QED BY <1>1, <2>1
<1>4. QED BY <1>2, <1>3

\* What InterestAgrees says of one connection.
InterestFits(c) ==
    LET k == conn[c] IN
    /\ pc # "drain" /\ "out" \in k.interest =>
            k.output # <<>> /\ BarrierReady(k.barrier)
    /\ k.output # <<>> /\ BarrierReady(k.barrier) =>
            "out" \in k.interest \/ wake \/ owed \/ pc = "drain"
    /\ ~k.deferred /\ k.output = <<>> /\ ~k.peerEof =>
            "in" \in k.interest

\* A connection that a step leaves alone: the wake-up that it waits for is
\* not lost on the way from the writer to the eventfd and to the handler.
LEMMA SameInterest ==
    ASSUME Accounted, Next, NEW c \in Open, conn'[c] = conn[c],
           pc' # "drain" => pc # "drain",
           written' = written \/ owed',
           wake \/ owed => wake' \/ owed' \/ pc' = "drain"
    PROVE  InterestFits(c)'
<1> DEFINE k == conn[c]
<1>1. InterestFits(c)
  BY DEF Accounted, InterestAgrees, InterestFits
<1>2. k.barrier \in Nat
  BY OpenFacts, FieldTypes
<1>3. /\ written >= k.barrier => written' >= k.barrier
      /\ written' >= k.barrier => written >= k.barrier \/ owed'
  BY <1>2, WrittenGrows
<1>4. QED BY <1>1, <1>3 DEF InterestFits, BarrierReady

\* A handler that leaves a connection with what it needs asked for.
LEMMA AskedInterest ==
    ASSUME NEW c \in Conns, NEW kk, conn'[c] = kk, Asked(kk),
           UNCHANGED <<written, wake, owed>>
    PROVE  InterestFits(c)'
BY DEF InterestFits, Asked, BarrierReady

\* No connection is left without the event that it needs next.
LEMMA InterestStep ==
    ASSUME Accounted, Next
    PROVE  InterestAgrees'
<1> SUFFICES \A c \in Open' : InterestFits(c)'
  BY DEF InterestAgrees, InterestFits
<1>1. Typed /\ Typed' /\ \A c \in Conns : ConnectionAgrees(c)
  BY TypedStep DEF Accounted, TypeOK, Typed, ConnectionsAgree
<1>2. conn \in [Conns -> Connection] /\ \A c \in Open : c \in Conns
  BY <1>1 DEF Typed, Open
<1>3. ASSUME \A c \in Open' : c \in Open /\ conn'[c] = conn[c],
             pc' # "drain" => pc # "drain",
             UNCHANGED <<written, wake, owed>>
      PROVE  \A c \in Open' : InterestFits(c)'
  BY <1>3, SameInterest
<1>4. CASE UNCHANGED conn /\ (LogPublish \/ Notify \/ LogFail)
  <2>1. Open' = Open /\ pc' = pc
    BY <1>4 DEF Open, LogPublish, Notify, LogFail, loopVars
  <2>2. written' = written \/ owed'
    BY <1>4, WrittenGrows DEF LogPublish
  <2>3. wake \/ owed => wake' \/ owed'
    BY <1>4 DEF LogPublish, Notify, LogFail
  <2>4. QED BY <1>4, <2>1, <2>2, <2>3, SameInterest
<1>5. CASE EventWake
  <2>1. Open' = Open /\ pc' = "drain" /\ conn' = conn /\ written' = written
    BY <1>5 DEF Open, EventWake, sequenceVars
  <2>2. QED BY <2>1, SameInterest
<1>6. ASSUME NEW c \in Conns, LoadDone(c)
      PROVE  \A d \in Open' : InterestFits(d)'
  <2>1. /\ Open' = Open /\ pc' = pc /\ conn' = conn /\ written' = written
        /\ wake'
    BY <1>6 DEF Open, LoadDone, sequenceVars, loopVars
  <2>2. QED BY <2>1, SameInterest
<1>7. ASSUME NEW c \in Conns, Connect(c)
      PROVE  \A d \in Open' : InterestFits(d)'
  <2>1. UNCHANGED <<written, wake, owed, pc>>
    BY <1>7 DEF Connect, sequenceVars, wakeVars, loopVars
  <2>2. conn'[c] = [conn[c] EXCEPT !.state = "backlog"]
        /\ \A d \in Conns \ {c} : conn'[d] = conn[d]
    BY <1>2, <1>7 DEF Connect
  <2>3. conn'[c].state = "backlog"
    BY <1>2, <2>2 DEF Connection
  <2>4. \A d \in Open' : d \in Open /\ conn'[d] = conn[d]
    BY <2>2, <2>3 DEF Open
  <2>5. QED BY <1>3, <2>1, <2>4
<1>8. CASE EventAccept
  <2> SUFFICES ASSUME NEW c \in Open' PROVE InterestFits(c)'
    OBVIOUS
  <2>1. UNCHANGED <<written, wake, owed, pc, received, requests>>
        /\ c \in Conns
    BY <1>8 DEF EventAccept, sequenceVars, wakeVars, clientVars, Open
  <2>2. CASE conn[c].state = "backlog"
    <3>1. conn'[c] = [conn[c] EXCEPT !.state = "open", !.interest = {"in"}]
      BY <1>8, <2>1, <2>2 DEF EventAccept
    <3>2. /\ conn'[c].output = <<>> /\ ~conn'[c].deferred
          /\ "in" \in conn'[c].interest /\ "out" \notin conn'[c].interest
      BY <1>1, <2>1, <2>2, <3>1, AcceptedConnection
    <3>3. QED BY <3>2 DEF InterestFits
  <2>3. CASE conn[c].state # "backlog"
    <3>1. conn'[c] = conn[c]
      BY <1>8, <2>1, <2>3 DEF EventAccept
    <3>2. c \in Open
      BY <2>1, <3>1 DEF Open
    <3>3. QED BY <2>1, <3>1, <3>2, SameInterest
  <2>4. QED BY <2>2, <2>3
<1>9. CASE DrainEnd
  <2> SUFFICES ASSUME NEW c \in Open' PROVE InterestFits(c)'
    OBVIOUS
  <2>1. UNCHANGED <<written, wake, owed>> /\ c \in Conns
    BY <1>9 DEF DrainEnd, sequenceVars, wakeVars, Open
  <2>2. c \in Open /\ conn'[c] = Refreshed(conn[c])
    BY <1>9, <2>1 DEF DrainEnd, Open
  <2>3. conn[c] \in Connection /\ Settled(conn[c])
    BY <2>2, OpenFacts
  <2>4. QED BY <2>1, <2>2, <2>3, RefreshedAsks, AskedInterest
<1>10. CASE FlushReturn
  <2>1. UNCHANGED <<written, wake, owed>> /\ pc # "drain"
    BY <1>10 DEF FlushReturn, sequenceVars, wakeVars
  <2>2. CASE failed /\ ~reported
    <3>1. \A c \in Conns : conn'[c] = IF c \in Open THEN Destroyed(conn[c])
                                      ELSE conn[c]
      BY <1>10, <2>2 DEF FlushReturn
    <3>2. \A c \in Open : conn'[c].state = "closed"
      BY <1>2, <3>1, DestroyedFacts
    <3>3. Open' = {}
      BY <3>1, <3>2 DEF Open
    <3>4. QED BY <3>3
  <2>3. CASE ~(failed /\ ~reported)
    <3>1. conn' = conn
      BY <1>10, <2>3 DEF FlushReturn
    <3>2. QED BY <1>3, <2>1, <3>1 DEF Open
  <2>4. QED BY <2>2, <2>3
<1>11. ASSUME NEW c \in Conns, EventHangup(c)
       PROVE  \A d \in Open' : InterestFits(d)'
  <2>1. UNCHANGED <<written, wake, owed, pc>>
    BY <1>11 DEF EventHangup, sequenceVars, wakeVars
  <2>2. conn'[c] = Destroyed(conn[c])
        /\ \A d \in Conns \ {c} : conn'[d] = conn[d]
    BY <1>2, <1>11 DEF EventHangup
  <2>3. conn'[c].state = "closed"
    BY <1>2, <2>2, DestroyedFacts
  <2>4. \A d \in Open' : d \in Open /\ conn'[d] = conn[d]
    BY <2>2, <2>3 DEF Open
  <2>5. QED BY <1>3, <2>1, <2>4
<1>12. ASSUME NEW c \in Conns, CompleteResponse(c)
       PROVE  \A d \in Open' : InterestFits(d)'
  <2>1. UNCHANGED <<written, wake, owed, pc>> /\ pc = "drain"
    BY <1>12 DEF CompleteResponse, wakeVars
  <2>2. CASE c \notin Open
    <3>1. conn' = conn
      BY <1>12, <2>2, CompleteFacts
    <3>2. QED BY <1>3, <2>1, <3>1 DEF Open
  <2>3. CASE c \in Open
    <3>1. PICK kk \in Connection :
            conn' = [conn EXCEPT ![c] = kk] /\ kk.output # <<>>
      BY <1>12, <2>3, CompleteFacts
    <3>2. conn'[c] = kk /\ \A d \in Conns \ {c} : conn'[d] = conn[d]
      BY <1>2, <3>1
    <3>3. InterestFits(c)'
      BY <2>1, <3>1, <3>2 DEF InterestFits
    <3>4. ASSUME NEW d \in Open', d # c
          PROVE  d \in Open /\ conn'[d] = conn[d]
      <4>1. d \in Conns \ {c} /\ conn'[d].state = "open"
        BY <3>4 DEF Open
      <4>2. QED BY <3>2, <4>1 DEF Open
    <3>5. QED BY <2>1, <3>3, <3>4, SameInterest
  <2>4. QED BY <2>2, <2>3
<1>13. ASSUME NEW c \in Conns, NEW kk \in Connection,
              \A d \in Conns \ {c} : conn'[d] = conn[d],
              conn'[c].state = "open" => conn'[c] = kk /\ Asked(kk),
              UNCHANGED <<written, wake, owed>>, pc # "drain"
       PROVE  \A d \in Open' : InterestFits(d)'
  <2>1. ASSUME NEW d \in Open', d # c
        PROVE  d \in Open /\ conn'[d] = conn[d]
    <3>1. d \in Conns \ {c} /\ conn'[d].state = "open"
      BY <2>1 DEF Open
    <3>2. QED BY <1>13, <3>1 DEF Open
  <2>2. c \in Open' => InterestFits(c)'
    BY <1>13, AskedInterest DEF Open
  <2>3. QED BY <1>13, <2>1, <2>2, SameInterest
<1>14. ASSUME NEW c \in Conns, EventRead(c)
       PROVE  \A d \in Open' : InterestFits(d)'
  <2>1. PICK e \in batch, kk \in Connection :
            /\ conn' = [conn EXCEPT ![c] =
                            IF "out" \in e.active THEN kk ELSE Reaped(kk)]
            /\ Asked(kk)
    BY <1>14, ReadFacts
  <2>2. UNCHANGED <<written, wake, owed>> /\ pc # "drain"
    BY <1>14 DEF EventRead, wakeVars
  <2>3. /\ conn'[c] = IF "out" \in e.active THEN kk ELSE Reaped(kk)
        /\ \A d \in Conns \ {c} : conn'[d] = conn[d]
    BY <1>2, <2>1
  <2>4. conn'[c].state = "open" => conn'[c] = kk
    BY <2>3, ReapedFacts
  <2>5. QED BY <1>13, <2>1, <2>2, <2>3, <2>4
<1>15. CASE EventWrite
  <2>1. PICK c \in Open : c = current
    BY <1>15, WriteFacts
  <2>2. PICK kk \in Connection, n \in 0..Len(conn[c].output) :
            /\ conn' = [conn EXCEPT ![c] = Reaped(kk)]
            /\ kk.state = "open" => Asked(kk)
    BY <1>15, <2>1, WriteFacts
  <2>3. UNCHANGED <<written, wake, owed>> /\ pc # "drain"
    BY <1>15 DEF EventWrite, wakeVars
  <2>4. c \in Conns
    BY DEF Open
  <2>5. conn'[c] = Reaped(kk) /\ \A d \in Conns \ {c} : conn'[d] = conn[d]
    BY <1>2, <2>2, <2>4
  <2>6. conn'[c].state = "open" => conn'[c] = kk /\ Asked(kk)
    BY <2>2, <2>5, ReapedFacts
  <2>7. QED BY <1>13, <2>3, <2>4, <2>5, <2>6
<1>16. QED
  <2>1. ASSUME NEW c \in Conns,
               \/ \E kind \in Kinds : Send(c, kind)
               \/ ShutWrite(c) \/ Hangup(c)
        PROVE  \A d \in Open' : InterestFits(d)'
    <3>1. UNCHANGED <<conn, loopVars, sequenceVars, wakeVars>>
      BY <2>1 DEF Send, ShutWrite, Hangup
    <3>2. UNCHANGED <<conn, pc, written, wake, owed>>
      BY <3>1 DEF loopVars, sequenceVars, wakeVars
    <3>3. QED BY <1>3, <3>2 DEF Open
  <2>2. CASE Poll \/ EventTimer \/ Flush
    <3>1. UNCHANGED <<conn, written, wake, owed>> /\ pc # "drain"
      BY <2>2 DEF Poll, EventTimer, Flush, sequenceVars, wakeVars, Log!Enqueue
    <3>2. QED BY <1>3, <3>1 DEF Open
  <2>3. CASE Clients
    BY <1>7, <2>1, <2>3 DEF Clients
  <2>4. CASE Loop
    <3>1. ASSUME NEW c \in Conns,
                 CompleteResponse(c) \/ EventHangup(c) \/ EventRead(c)
          PROVE  \A d \in Open' : InterestFits(d)'
      BY <1>11, <1>12, <1>14, <3>1
    <3>2. QED BY <1>5, <1>8, <1>9, <1>10, <1>15, <2>2, <2>4, <3>1 DEF Loop
  <2>5. CASE LogPublish \/ Notify \/ LogFail
    BY <1>4, <2>5 DEF LogPublish, Notify, LogFail
  <2>6. QED BY <1>6, <2>3, <2>4, <2>5 DEF Next
\* What epoll_wait reports belongs to open connections, one event for each.
LEMMA PollReports ==
    ASSUME Poll, NEW e \in batch'
    PROVE  /\ e.source \in Conns =>
                e.source \in Open /\ e.active = Active(e.source)
           /\ \A f \in batch' : e.source = f.source => e = f
<1>1. \/ batch' = ReadyClients \cup ReadySources
      \/ batch' = TimerEvent
  BY DEF Poll
<1>2. \A f \in ReadyClients :
        f.source \in Open /\ f = [source |-> f.source,
                                  active |-> Active(f.source)]
  BY DEF ReadyClients
<1>3. \A f \in ReadySources \cup TimerEvent :
        /\ f.source \in {"wake", "listener", "timer"}
        /\ f = [source |-> f.source, active |-> {"in"}]
  BY DEF ReadySources, TimerEvent
<1>4. \A c \in Conns : c \notin {"wake", "listener", "timer"}
  BY ReactorAssumption
<1>5. \A c \in Open : c \in Conns
  BY DEF Open
<1>6. e.source \in Conns => e \in ReadyClients
  BY <1>1, <1>3, <1>4
<1>7. e.source \in Conns => e.source \in Open /\ e.active = Active(e.source)
  <2>1. e \in ReadyClients =>
            e.source \in Open /\ e.active = Active(e.source)
    BY DEF ReadyClients
  <2>2. QED BY <1>6, <2>1
<1>8. ASSUME NEW f \in batch', e.source = f.source
      PROVE  e = f
  <2>1. CASE e \in ReadyClients
    <3>1. e.source \in Conns
      BY <1>2, <1>5, <2>1
    <3>2. f \in ReadyClients
      BY <1>1, <1>3, <1>4, <1>8, <3>1
    <3>3. QED BY <1>2, <1>8, <2>1, <3>2
  <2>2. CASE e \notin ReadyClients
    <3>1. e \in ReadySources \cup TimerEvent
      BY <1>1, <2>2
    <3>2. e.source \notin Conns
      BY <1>3, <1>4, <3>1
    <3>3. f \notin ReadyClients
      BY <1>2, <1>5, <1>8, <3>2
    <3>4. f \in ReadySources \cup TimerEvent
      BY <1>1, <3>3
    <3>5. QED BY <1>3, <1>8, <3>1, <3>4
  <2>3. QED BY <2>1, <2>2
<1>9. QED BY <1>7, <1>8

\* What remains of a batch keeps its connections.
LEMMA BatchShrinks ==
    ASSUME BatchAgrees, batch' \subseteq batch, reset \subseteq reset',
           \A e \in batch' : e.source \in Conns =>
                e.source \in Open' /\ e.source # current',
           current' \in Conns => /\ current' \in Open'
                                 /\ pc' \in {"flushOut", "write", "flushWait"},
           pc' \in {"flushOut", "write"} => current' \in Conns
    PROVE  BatchAgrees'
BY DEF BatchAgrees

\* No event is left for a connection that has been destroyed.
LEMMA BatchStep ==
    ASSUME Accounted, Next
    PROVE  BatchAgrees'
<1>1. /\ Typed /\ BatchAgrees /\ "none" \notin Conns
      /\ conn \in [Conns -> Connection] /\ current \in Conns \cup {"none"}
  BY ReactorAssumption DEF Accounted, TypeOK, Typed
<1>2. ASSUME UNCHANGED <<batch, current, pc>>, reset \subseteq reset',
             Open \subseteq Open'
      PROVE  BatchAgrees'
  BY <1>1, <1>2, BatchShrinks DEF BatchAgrees
<1>3. ASSUME batch' \subseteq batch, UNCHANGED <<current, reset>>,
             Open \subseteq Open', pc \in {"batch", "drain"},
             pc' \in {"batch", "drain"}
      PROVE  BatchAgrees'
  <2>1. current \notin Conns
    BY <1>1, <1>3 DEF BatchAgrees
  <2>2. QED BY <1>1, <1>3, <2>1, BatchShrinks DEF BatchAgrees
<1>4. ASSUME NEW c \in Conns, Connect(c) PROVE BatchAgrees'
  <2>1. UNCHANGED <<batch, current, pc, reset>>
    BY <1>4 DEF Connect, loopVars, clientVars
  <2>2. Open \subseteq Open'
    BY <1>1, <1>4 DEF Connect, Open
  <2>3. QED BY <1>2, <2>1, <2>2
<1>5. ASSUME NEW c \in Conns,
             \/ \E kind \in Kinds : Send(c, kind)
             \/ ShutWrite(c) \/ Hangup(c)
      PROVE  BatchAgrees'
  <2>1. UNCHANGED <<loopVars, conn>> /\ reset \subseteq reset'
    BY <1>5 DEF Send, ShutWrite, Hangup
  <2>2. Open' = Open /\ UNCHANGED <<batch, current, pc>>
    BY <2>1 DEF Open, loopVars
  <2>3. QED BY <1>2, <2>1, <2>2
<1>6. CASE Poll
  <2>1. UNCHANGED <<conn, current, reset>> /\ pc' = "batch" /\ pc = "poll"
    BY <1>6 DEF Poll, clientVars
  <2>2. current \notin Conns
    BY <1>1, <2>1 DEF BatchAgrees
  <2>3. ASSUME NEW e \in batch'
        PROVE  /\ e.source \in Conns =>
                    /\ e.source \in Open' /\ e.source # current'
                    /\ "hup" \in e.active => e.source \in reset'
               /\ \A f \in batch' : e.source = f.source => e = f
    <3>1. /\ e.source \in Conns =>
                e.source \in Open /\ e.active = Active(e.source)
          /\ \A f \in batch' : e.source = f.source => e = f
      BY <1>6, PollReports
    <3>2. \A c \in Conns : "hup" \in Active(c) => c \in reset
      BY DEF Active
    <3>3. QED BY <2>1, <2>2, <3>1, <3>2 DEF Open
  <2>4. QED BY <2>1, <2>2, <2>3 DEF BatchAgrees
<1>7. CASE EventTimer \/ EventWake
  <2>1. /\ UNCHANGED <<conn, current, reset>> /\ batch' \subseteq batch
        /\ pc = "batch" /\ pc' \in {"batch", "drain"}
    BY <1>7 DEF EventTimer, EventWake, clientVars
  <2>2. QED BY <1>3, <2>1 DEF Open
<1>8. CASE EventAccept
  <2>1. /\ UNCHANGED <<current, reset>> /\ batch' \subseteq batch
        /\ pc = "batch" /\ pc' = "batch"
    BY <1>8 DEF EventAccept, clientVars
  <2>2. Open \subseteq Open'
    BY <1>1, <1>8 DEF EventAccept, Open
  <2>3. QED BY <1>3, <2>1, <2>2
<1>9. CASE DrainEnd
  <2>1. /\ UNCHANGED <<current, reset, batch>> /\ pc = "drain" /\ pc' = "batch"
    BY <1>9 DEF DrainEnd, clientVars
  <2>2. ASSUME NEW c \in Open PROVE c \in Open'
    <3>1. c \in Conns /\ conn[c] \in Connection /\ conn[c].state = "open"
      BY <1>1 DEF Open
    <3>2. conn'[c] = Refreshed(conn[c])
      BY <1>9, <3>1 DEF DrainEnd
    <3>3. conn'[c].state = "open"
      BY <3>1, <3>2, RefreshedFacts
    <3>4. QED BY <3>1, <3>3 DEF Open
  <2>3. QED BY <1>3, <2>1, <2>2
<1>10. ASSUME NEW c \in Conns, CompleteResponse(c) PROVE BatchAgrees'
  <2>1. UNCHANGED <<current, reset, batch, pc>>
    BY <1>10 DEF CompleteResponse, clientVars
  <2>2. CASE c \notin Open
    BY <1>2, <1>10, <2>1, <2>2, CompleteFacts DEF Open
  <2>3. CASE c \in Open
    <3>1. PICK kk \in Connection :
            conn' = [conn EXCEPT ![c] = kk] /\ kk.state = "open"
      BY <1>10, <2>3, CompleteFacts
    <3>2. Open \subseteq Open'
      BY <1>1, <3>1 DEF Open
    <3>3. QED BY <1>2, <2>1, <3>2
  <2>4. QED BY <2>2, <2>3
<1>11. CASE Flush
  <2>1. UNCHANGED <<conn, current, reset, batch>>
    BY <1>11 DEF Flush, clientVars
  <2>2. \/ pc = "flushOut" \/ pc = "batch"
    BY <1>11 DEF Flush
  <2>3. pc' \in {"flushWait", IF current = "none" THEN "poll" ELSE "write"}
    BY <1>11 DEF Flush, AfterFlush
  <2>4. current \in Conns => pc = "flushOut"
    BY <1>1, <2>2 DEF BatchAgrees
  <2>5. current \in Conns => current # "none"
    BY <1>1
  <2>6. pc' = "write" => current \in Conns
    BY <1>1, <2>3
  <2>7. Open' = Open
    BY <2>1 DEF Open
  <2>8. QED BY <1>1, <2>1, <2>3, <2>5, <2>6, <2>7, BatchShrinks
            DEF BatchAgrees
<1>12. CASE FlushReturn
  <2>1. reset' = reset
    BY <1>12 DEF FlushReturn, clientVars
  <2>2. CASE failed /\ ~reported
    <3>1. batch' = {} /\ current' = "none" /\ pc' = "poll"
      BY <1>12, <2>2 DEF FlushReturn
    <3>2. QED BY <1>1, <3>1 DEF BatchAgrees
  <2>3. CASE ~(failed /\ ~reported)
    <3>1. /\ UNCHANGED <<conn, current, batch>>
          /\ pc' = IF current = "none" THEN "poll" ELSE "write"
      BY <1>12, <2>3 DEF FlushReturn, AfterFlush
    <3>2. Open' = Open
      BY <3>1 DEF Open
    <3>3. QED BY <1>1, <2>1, <3>1, <3>2, BatchShrinks DEF BatchAgrees
  <2>4. QED BY <2>2, <2>3
<1>13. ASSUME NEW c \in Conns, NEW e \in batch, e.source = c,
              batch' = batch \ {e},
              \A d \in Conns \ {c} : conn'[d] = conn[d],
              pc = "batch", reset' = reset,
              \/ current' = current /\ pc' = pc
              \/ current' = c /\ pc' = "flushOut" /\ conn'[c].state = "open"
       PROVE  BatchAgrees'
  <2>1. current \notin Conns
    BY <1>1, <1>13 DEF BatchAgrees
  <2>2. ASSUME NEW f \in batch', f.source \in Conns
        PROVE  f.source \in Open' /\ f.source # current'
    <3>1. f \in batch /\ f # e
      BY <1>13
    <3>2. f.source # c /\ f.source \in Open
      BY <1>1, <1>13, <2>2, <3>1 DEF BatchAgrees
    <3>3. conn'[f.source] = conn[f.source]
      BY <1>13, <2>2, <3>2
    <3>4. f.source \in Open'
      BY <2>2, <3>2, <3>3 DEF Open
    <3>5. f.source # current'
      BY <1>13, <2>1, <2>2, <3>2
    <3>6. QED BY <3>4, <3>5
  <2>3. current' \in Conns => current' = c /\ pc' = "flushOut" /\ c \in Open'
    BY <1>13, <2>1 DEF Open
  <2>4. pc' \in {"flushOut", "write"} => current' \in Conns
    BY <1>13
  <2>5. batch' \subseteq batch /\ reset \subseteq reset'
    BY <1>13
  <2>6. QED BY <1>1, <2>2, <2>3, <2>4, <2>5, BatchShrinks
<1>14. ASSUME NEW c \in Conns, EventHangup(c) PROVE BatchAgrees'
  <2>1. PICK e \in batch : e.source = c /\ batch' = batch \ {e}
    BY <1>14 DEF EventHangup
  <2>2. \A d \in Conns \ {c} : conn'[d] = conn[d]
    BY <1>1, <1>14 DEF EventHangup
  <2>3. pc = "batch" /\ UNCHANGED <<reset, current, pc>>
    BY <1>14 DEF EventHangup, clientVars
  <2>4. QED BY <1>13, <2>1, <2>2, <2>3
<1>15. ASSUME NEW c \in Conns, EventRead(c) PROVE BatchAgrees'
  <2>1. PICK e \in batch, kk \in Connection :
            /\ e.source = c /\ batch' = batch \ {e}
            /\ conn' = [conn EXCEPT ![c] =
                            IF "out" \in e.active THEN kk ELSE Reaped(kk)]
            /\ kk.state = "open"
            /\ IF "out" \in e.active THEN pc' = "flushOut" /\ current' = c
                                     ELSE pc' = pc /\ current' = current
    BY <1>15, ReadFacts
  <2>2. pc = "batch" /\ reset' = reset
    BY <1>15 DEF EventRead, clientVars
  <2>3. /\ conn'[c] = IF "out" \in e.active THEN kk ELSE Reaped(kk)
        /\ \A d \in Conns \ {c} : conn'[d] = conn[d]
    BY <1>1, <2>1
  <2>4. \/ current' = current /\ pc' = pc
        \/ current' = c /\ pc' = "flushOut" /\ conn'[c].state = "open"
    BY <2>1, <2>3
  <2>5. QED BY <1>13, <2>1, <2>2, <2>3, <2>4
<1>16. CASE EventWrite
  <2>1. PICK c \in Open : c = current
    BY <1>16, WriteFacts
  <2>2. PICK kk \in Connection, n \in 0..Len(conn[c].output) :
            conn' = [conn EXCEPT ![c] = Reaped(kk)]
    BY <1>16, <2>1, WriteFacts
  <2>3. /\ UNCHANGED <<batch, reset>> /\ pc' = "batch" /\ current' = "none"
    BY <1>16 DEF EventWrite, clientVars
  <2>4. \A d \in Conns \ {c} : conn'[d] = conn[d]
    BY <1>1, <2>2
  <2>5. ASSUME NEW f \in batch', f.source \in Conns
        PROVE  f.source \in Open' /\ f.source # current'
    <3>1. f.source \in Open /\ f.source # c
      BY <1>1, <2>1, <2>3, <2>5 DEF BatchAgrees
    <3>2. conn'[f.source] = conn[f.source]
      BY <2>4, <2>5, <3>1
    <3>3. QED BY <1>1, <2>3, <2>5, <3>1, <3>2 DEF Open
  <2>6. QED BY <1>1, <2>3, <2>5, BatchShrinks
<1>17. QED
  <2>1. CASE Clients
    BY <1>4, <1>5, <2>1 DEF Clients
  <2>2. CASE Loop
    <3>1. ASSUME NEW c \in Conns,
                 CompleteResponse(c) \/ EventHangup(c) \/ EventRead(c)
          PROVE  BatchAgrees'
      BY <1>10, <1>14, <1>15, <3>1
    <3>2. QED BY <1>6, <1>7, <1>8, <1>9, <1>11, <1>12, <1>16, <2>2, <3>1
              DEF Loop
  <2>3. CASE \/ \E c \in Conns : LoadDone(c)
             \/ LogPublish \/ Notify \/ LogFail
    <3>1. UNCHANGED <<conn, loopVars, clientVars>>
      BY <2>3 DEF LoadDone, LogPublish, Notify, LogFail
    <3>2. UNCHANGED <<conn, batch, current, pc, reset>>
      BY <3>1 DEF loopVars, clientVars
    <3>3. QED BY <1>2, <3>2 DEF Open
  <2>4. QED BY <2>1, <2>2, <2>3 DEF Next
\* What SerialAgrees says of one connection.
SerialFits(c) ==
    /\ \A i \in 1..Len(received[c]) : received[c][i].barrier <= written
    /\ Len(requests[c]) <= Len(received[c]) + 1
    /\ current = c => Sendable(c)
    /\ \A e \in batch : e.source = c /\ "out" \in e.active => Sendable(c)

\* A published number stays published.
LEMMA StillBelow ==
    ASSUME Accounted, Next, NEW c \in Conns, received'[c] = received[c],
           \A i \in 1..Len(received[c]) : received[c][i].barrier <= written
    PROVE  \A i \in 1..Len(received'[c]) : received'[c][i].barrier <= written'
<1> SUFFICES ASSUME NEW i \in 1..Len(received[c])
             PROVE  received[c][i].barrier <= written'
  OBVIOUS
<1>1. received[c] \in Seq(Reply)
  BY DEF Accounted, TypeOK
<1>2. received[c][i] \in Reply
  BY <1>1
<1>3. received[c][i].barrier \in Nat
  BY <1>2 DEF Reply
<1>4. received[c][i].barrier <= written
  OBVIOUS
<1>5. QED BY <1>3, <1>4, WrittenGrows

\* A step after which whatever may be sent could be sent before.
LEMMA SameSerial ==
    ASSUME Accounted, Next, NEW c \in Serial,
           received'[c] = received[c], requests'[c] = requests[c],
           current' = c => current = c, batch' \subseteq batch,
           Sendable(c) => /\ conn'[c].output = conn[c].output
                          /\ conn'[c].barrier = conn[c].barrier
    PROVE  SerialFits(c)'
<1>1. c \in Conns /\ SerialFits(c)
  BY ReactorAssumption
     DEF Accounted, SerialAgrees, SerialFits, SerialAckAfterWrite
<1>2. \A i \in 1..Len(received'[c]) : received'[c][i].barrier <= written'
  BY <1>1, StillBelow DEF SerialFits
<1>3. Sendable(c) => Sendable(c)'
  <2>1. conn[c].barrier \in Nat
    BY <1>1, FieldTypes DEF Accounted, TypeOK
  <2>2. written >= conn[c].barrier => written' >= conn[c].barrier
    BY <2>1, WrittenGrows
  <2>3. QED BY <2>2 DEF Sendable, BarrierReady
<1>4. QED BY <1>1, <1>2, <1>3 DEF SerialFits

\* While the one reply of a serial client can be sent, none is deferred.
LEMMA SerialNotDeferred ==
    ASSUME Accounted, NEW c \in Serial, c \in Open, conn[c].deferred
    PROVE  ~Sendable(c)
<1> DEFINE k == conn[c]
<1>1. k \in Connection /\ RepliesAgree(c, k, received[c]) /\ c \in Conns
  BY OpenFacts
<1>2. /\ k.consumed \in Nat /\ k.taken \in Nat /\ Len(k.output) \in Nat
      /\ Len(received[c]) \in Nat /\ Len(requests[c]) \in Nat
  BY <1>1, FieldTypes, ReplyTypes DEF Accounted
<1>3. /\ k.consumed <= k.taken /\ k.taken <= Len(requests[c])
      /\ k.consumed = Len(received[c]) + Len(k.output) + Unanswered(k)
  BY <1>1 DEF RepliesAgree
<1>4. Unanswered(k) = 1
  BY DEF Unanswered
<1>5. Len(requests[c]) <= Len(received[c]) + 1
  BY DEF Accounted, SerialAgrees
<1>6. \A a, b, m, t, q \in Nat :
        m <= t /\ t <= q /\ m = a + b + 1 /\ q <= a + 1 => b = 0
  OBVIOUS
<1>7. Len(k.output) = 0
  <2>1. k.consumed = Len(received[c]) + Len(k.output) + 1
    BY <1>3, <1>4
  <2>2. QED BY <1>2, <1>3, <1>5, <1>6, <2>1, Zenon
<1>8. k.output = <<>>
  BY <1>1, <1>7, FieldTypes
<1>9. QED BY <1>8 DEF Sendable

\* A client that waits for each reply is never told of a write too early.
LEMMA SerialStep ==
    ASSUME Accounted, Next
    PROVE  SerialAgrees'
<1> SUFFICES ASSUME NEW c \in Serial PROVE SerialFits(c)'
  BY DEF SerialAgrees, SerialFits, SerialAckAfterWrite
<1>1. /\ c \in Conns /\ SerialFits(c) /\ BatchAgrees
      /\ conn \in [Conns -> Connection] /\ ConnectionAgrees(c)
      /\ received \in [Conns -> Seq(Reply)]
      /\ requests \in [Conns -> Seq(Requests)]
  BY ReactorAssumption
     DEF Accounted, SerialAgrees, SerialFits, SerialAckAfterWrite, TypeOK,
         ConnectionsAgree
<1>2. Len(received[c]) \in Nat /\ Len(requests[c]) \in Nat
  BY <1>1
<1>3. CASE UNCHANGED <<conn, received, requests, current>>
           /\ batch' \subseteq batch
  BY <1>3, SameSerial
<1>4. ASSUME NEW d \in Conns, Connect(d) PROVE SerialFits(c)'
  <2>1. UNCHANGED <<received, requests, batch, current>>
    BY <1>4 DEF Connect, loopVars, clientVars
  <2>2. /\ conn'[c].output = conn[c].output
        /\ conn'[c].barrier = conn[c].barrier
    BY <1>1, <1>4 DEF Connect, Connection
  <2>3. QED BY <2>1, <2>2, SameSerial
<1>5. ASSUME NEW d \in Conns, NEW kind \in Kinds, Send(d, kind)
      PROVE  SerialFits(c)'
  <2>1. UNCHANGED <<conn, received, batch, current, written>>
    BY <1>5 DEF Send, loopVars, sequenceVars
  <2>2. Len(requests'[c]) <= Len(received[c]) + 1
    <3>1. CASE d = c
      <4>1. requests'[c] = Append(requests[c], kind)
            /\ Len(received[c]) = Len(requests[c])
        BY <1>1, <1>5, <3>1 DEF Send
      <4>2. kind \in Requests /\ requests[c] \in Seq(Requests)
        BY <1>1, ReactorAssumption
      <4>3. Len(requests'[c]) = Len(requests[c]) + 1
        BY <4>1, <4>2
      <4>4. QED BY <1>2, <4>1, <4>3
    <3>2. CASE d # c
      BY <1>1, <1>5, <3>2 DEF Send, SerialFits
    <3>3. QED BY <3>1, <3>2
  <2>3. QED BY <1>1, <2>1, <2>2 DEF SerialFits, Sendable, BarrierReady
<1>6. CASE Poll
  <2>1. /\ UNCHANGED <<conn, received, requests, current, written>>
        /\ pc = "poll"
    BY <1>6 DEF Poll, clientVars, sequenceVars
  <2>2. ASSUME NEW e \in batch', e.source = c, "out" \in e.active
        PROVE  Sendable(c)
    <3>1. c \in Open /\ "out" \in Active(c)
      BY <1>1, <1>6, <2>2, PollReports
    <3>2. "out" \in conn[c].interest
      BY <3>1 DEF Active
    <3>3. QED BY <2>1, <3>1, <3>2 DEF Accounted, InterestAgrees, Sendable
  <2>3. QED BY <1>1, <2>1, <2>2 DEF SerialFits, Sendable, BarrierReady
<1>7. CASE EventAccept
  <2>1. UNCHANGED <<received, requests, current>> /\ batch' \subseteq batch
    BY <1>7 DEF EventAccept, clientVars
  <2>2. Sendable(c) => conn[c].state # "backlog"
    BY <1>1 DEF ConnectionAgrees, NewConnection, Sendable
  <2>3. conn[c].state # "backlog" => conn'[c] = conn[c]
    BY <1>1, <1>7 DEF EventAccept
  <2>4. QED BY <2>1, <2>2, <2>3, SameSerial
<1>8. CASE DrainEnd
  <2>1. UNCHANGED <<received, requests, current, batch>>
    BY <1>8 DEF DrainEnd, clientVars
  <2>2. /\ conn'[c].output = conn[c].output
        /\ conn'[c].barrier = conn[c].barrier
    BY <1>1, <1>8, RefreshedFacts DEF DrainEnd
  <2>3. QED BY <2>1, <2>2, SameSerial
<1>9. CASE FlushReturn
  <2>1. UNCHANGED <<received, requests>>
    BY <1>9 DEF FlushReturn, clientVars
  <2>2. CASE failed /\ ~reported
    <3>1. batch' = {} /\ current' = "none" /\ c # "none"
      BY <1>1, <1>9, <2>2, ReactorAssumption DEF FlushReturn
    <3>2. \A i \in 1..Len(received'[c]) : received'[c][i].barrier <= written'
      BY <1>1, <2>1, StillBelow DEF SerialFits
    <3>3. QED BY <1>1, <2>1, <3>1, <3>2 DEF SerialFits
  <2>3. CASE ~(failed /\ ~reported)
    <3>1. UNCHANGED <<conn, current, batch>>
      BY <1>9, <2>3 DEF FlushReturn
    <3>2. QED BY <1>3, <2>1, <3>1
  <2>4. QED BY <2>2, <2>3
<1>10. ASSUME NEW d \in Conns, CompleteResponse(d) PROVE SerialFits(c)'
  <2>1. UNCHANGED <<received, requests, current, batch>>
    BY <1>10 DEF CompleteResponse, clientVars
  <2>2. CASE d # c \/ d \notin Open
    <3>1. conn'[c] = conn[c]
      BY <1>1, <1>10, <2>2, CompleteFacts
    <3>2. QED BY <2>1, <3>1, SameSerial
  <2>3. CASE d = c /\ d \in Open
    <3>1. conn[c].deferred
      BY <1>10, <2>3, CompleteFacts
    <3>2. ~Sendable(c)
      BY <2>3, <3>1, SerialNotDeferred
    <3>3. QED BY <2>1, <3>2, SameSerial
  <2>4. QED BY <2>2, <2>3
<1>11. ASSUME NEW d \in Conns, NEW e \in batch, e.source = d,
              batch' = batch \ {e}, UNCHANGED <<received, requests>>,
              \A x \in Conns \ {d} : conn'[x] = conn[x],
              current \notin Conns, current' = current \/ current' = d,
              /\ current' = d /\ d = c =>
                    /\ "out" \in e.active
                    /\ conn[c].output # <<>> =>
                            /\ conn'[c].output = conn[c].output
                            /\ conn'[c].barrier = conn[c].barrier
       PROVE  SerialFits(c)'
  <2>1. CASE d # c
    <3>1. conn'[c] = conn[c] /\ (current' = c => current = c)
      BY <1>1, <1>11, <2>1
    <3>2. QED BY <1>11, <3>1, SameSerial
  <2>2. CASE d = c
    <3>1. \A f \in batch' : f.source # c
      BY <1>1, <1>11, <2>2 DEF BatchAgrees
    <3>2. \A i \in 1..Len(received'[c]) : received'[c][i].barrier <= written'
      BY <1>1, <1>11, StillBelow DEF SerialFits
    <3>3. ASSUME current' = c PROVE Sendable(c)'
      <4>1. "out" \in e.active
        BY <1>11, <2>2, <3>3
      <4>2. Sendable(c)
        BY <1>1, <1>11, <2>2, <4>1 DEF SerialFits
      <4>3. /\ conn'[c].output = conn[c].output
            /\ conn'[c].barrier = conn[c].barrier
        BY <1>11, <2>2, <3>3, <4>2 DEF Sendable
      <4>4. conn[c].barrier \in Nat
        BY <1>1, FieldTypes
      <4>5. written >= conn[c].barrier => written' >= conn[c].barrier
        BY <4>4, WrittenGrows
      <4>6. QED BY <4>2, <4>3, <4>5 DEF Sendable, BarrierReady
    <3>4. QED BY <1>1, <1>11, <3>1, <3>2, <3>3 DEF SerialFits
  <2>3. QED BY <2>1, <2>2
<1>12. ASSUME NEW d \in Conns, EventHangup(d) PROVE SerialFits(c)'
  <2>1. PICK e \in batch : e.source = d /\ batch' = batch \ {e}
    BY <1>12 DEF EventHangup
  <2>2. \A x \in Conns \ {d} : conn'[x] = conn[x]
    BY <1>1, <1>12 DEF EventHangup
  <2>3. UNCHANGED <<received, requests, current>> /\ current \notin Conns
    BY <1>1, <1>12 DEF EventHangup, clientVars, BatchAgrees
  <2>4. QED BY <1>11, <2>1, <2>2, <2>3
<1>13. ASSUME NEW d \in Conns, EventRead(d) PROVE SerialFits(c)'
  <2>1. PICK e \in batch, kk \in Connection :
            /\ e.source = d /\ batch' = batch \ {e}
            /\ conn' = [conn EXCEPT ![d] =
                            IF "out" \in e.active THEN kk ELSE Reaped(kk)]
            /\ d \in Serial /\ conn[d].output # <<>> =>
                kk.output = conn[d].output /\ kk.barrier = conn[d].barrier
            /\ IF "out" \in e.active THEN pc' = "flushOut" /\ current' = d
                                     ELSE pc' = pc /\ current' = current
    BY <1>13, ReadFacts
  <2>2. UNCHANGED <<received, requests>> /\ current \notin Conns
    BY <1>1, <1>13 DEF EventRead, clientVars, BatchAgrees
  <2>3. /\ conn'[d] = IF "out" \in e.active THEN kk ELSE Reaped(kk)
        /\ \A x \in Conns \ {d} : conn'[x] = conn[x]
    BY <1>1, <2>1
  <2>4. current' = current \/ current' = d
    BY <2>1
  <2>5. current' = d /\ d = c =>
            /\ "out" \in e.active
            /\ conn[c].output # <<>> =>
                    /\ conn'[c].output = conn[c].output
                    /\ conn'[c].barrier = conn[c].barrier
    BY <2>1, <2>2, <2>3
  <2>6. QED BY <1>11, <2>1, <2>2, <2>3, <2>4, <2>5
<1>14. CASE EventWrite
  <2>1. PICK d \in Open : d = current
    BY <1>14, WriteFacts
  <2>2. PICK kk \in Connection, n \in 0..Len(conn[d].output) :
            /\ received' = [received EXCEPT ![d] =
                                @ \o SubSeq(conn[d].output, 1, n)]
            /\ conn' = [conn EXCEPT ![d] = Reaped(kk)]
    BY <1>14, <2>1, WriteFacts
  <2>3. /\ UNCHANGED <<batch, requests>> /\ current' = "none" /\ c # "none"
        /\ d \in Conns
    BY <1>1, <1>14, ReactorAssumption DEF EventWrite, clientVars, Open
  <2>4. CASE d # c
    <3>1. conn'[c] = conn[c] /\ received'[c] = received[c]
      BY <1>1, <2>2, <2>4
    <3>2. QED BY <2>3, <3>1, SameSerial
  <2>5. CASE d = c
    <3> DEFINE k == conn[c]
               s == received[c] \o SubSeq(k.output, 1, n)
    <3>1. received'[c] = s
      BY <1>1, <2>2, <2>5
    <3>2. Sendable(c)
      BY <1>1, <2>1, <2>5 DEF SerialFits
    <3>3. k \in Connection /\ RepliesAgree(c, k, received[c])
      BY <2>5, OpenFacts
    <3>4. /\ s \in Seq(Reply) /\ Len(s) = Len(received[c]) + n
          /\ \A i \in 1..Len(s) :
                \/ i \in 1..Len(received[c]) /\ s[i] = received[c][i]
                \/ s[i].barrier <= k.barrier
      <4>1. /\ Numbered(received[c], 0) /\ Numbered(k.output, Len(received[c]))
            /\ CoveredBy(k.output, k.barrier)
        BY <3>3 DEF RepliesAgree
      <4>2. k.output \in Seq(Reply) /\ received[c] \in Seq(Reply)
            /\ n \in 0..Len(k.output)
        BY <1>1, <2>5, <3>3, FieldTypes
      <4> DEFINE q == k.output
                 r == received[c]
                 b == k.barrier
      <4>3. /\ Numbered(r, 0) /\ Numbered(q, Len(r)) /\ CoveredBy(q, b)
            /\ q \in Seq(Reply) /\ r \in Seq(Reply) /\ n \in 0..Len(q)
            /\ s = r \o SubSeq(q, 1, n)
        BY <4>1, <4>2
      <4> HIDE DEF q, r, b, s
      <4>4. /\ s \in Seq(Reply) /\ Len(s) = Len(r) + n
            /\ \A i \in 1..Len(s) :
                \/ i \in 1..Len(r) /\ s[i] = r[i]
                \/ s[i].barrier <= b
        BY <4>3, SendKeepsOrder
      <4>5. QED BY <4>4 DEF q, r, b
    <3> HIDE DEF s
    <3>5. written' \in Nat /\ written \in Nat /\ written <= written'
          /\ k.barrier \in Nat /\ k.barrier <= written
      BY <3>2, <3>3, WrittenGrows, FieldTypes DEF Sendable, BarrierReady
    <3>6. ASSUME NEW i \in 1..Len(s) PROVE s[i].barrier <= written'
      <4>1. s[i] \in Reply
        BY <3>4
      <4>2. s[i].barrier \in Nat
        BY <4>1 DEF Reply
      <4>3. s[i].barrier <= written \/ s[i].barrier <= k.barrier
        BY <1>1, <3>4 DEF SerialFits
      <4>4. QED BY <3>5, <4>2, <4>3
    <3>7. Len(requests'[c]) <= Len(s) + 1
      <4>1. Len(requests[c]) <= Len(received[c]) + 1
        BY <1>1 DEF SerialFits
      <4>2. n \in Nat /\ Len(s) = Len(received[c]) + n
        BY <2>5, <3>3, <3>4, FieldTypes
      <4>3. QED BY <1>2, <2>3, <4>1, <4>2
    <3>8. \A f \in batch' : f.source # c
      BY <1>1, <2>1, <2>3, <2>5 DEF BatchAgrees
    <3>9. QED BY <2>3, <3>1, <3>6, <3>7, <3>8 DEF SerialFits
  <2>6. QED BY <2>4, <2>5
<1>15. QED
  <2>1. CASE Clients
    <3>1. ASSUME NEW d \in Conns, ShutWrite(d) \/ Hangup(d)
          PROVE  SerialFits(c)'
      <4>1. UNCHANGED <<conn, received, requests, loopVars>>
        BY <3>1 DEF ShutWrite, Hangup
      <4>2. QED BY <1>3, <4>1 DEF loopVars
    <3>2. QED BY <1>4, <1>5, <2>1, <3>1 DEF Clients
  <2>2. CASE EventTimer \/ EventWake \/ Flush
    <3>1. UNCHANGED <<conn, received, clientVars, current>>
          /\ batch' \subseteq batch
      BY <2>2 DEF EventTimer, EventWake, Flush
    <3>2. QED BY <1>3, <3>1 DEF clientVars
  <2>3. CASE Loop
    <3>1. ASSUME NEW d \in Conns,
                 CompleteResponse(d) \/ EventHangup(d) \/ EventRead(d)
          PROVE  SerialFits(c)'
      BY <1>10, <1>12, <1>13, <3>1
    <3>2. QED BY <1>6, <1>7, <1>8, <1>9, <1>14, <2>2, <2>3, <3>1 DEF Loop
  <2>4. CASE \/ \E d \in Conns : LoadDone(d)
             \/ LogPublish \/ Notify \/ LogFail
    <3>1. UNCHANGED <<conn, received, loopVars, clientVars>>
      BY <2>4 DEF LoadDone, LogPublish, Notify, LogFail
    <3>2. QED BY <1>3, <3>1 DEF loopVars, clientVars
  <2>5. QED BY <2>1, <2>3, <2>4 DEF Next
-----------------------------------------------------------------------------
(* The invariant *)

\* The Reactor starts without a connection.
LEMMA AccountedInit ==
    ASSUME Init
    PROVE  Accounted
<1>1. /\ conn = [c \in Conns |-> NewConnection]
      /\ requests = [c \in Conns |-> <<>>]
      /\ received = [c \in Conns |-> <<>>]
      /\ shut = {} /\ reset = {}
      /\ pc = "poll" /\ batch = {} /\ current = "none" /\ draining = {}
      /\ enqueued = 0 /\ written = 0 /\ failed = FALSE
      /\ flushed = 0 /\ evicted = FALSE /\ reported = FALSE
      /\ owed = FALSE /\ wake = FALSE
      /\ loading = {} /\ loaded = {}
  BY DEF Init, Log!Init
<1>2. NewConnection \in Connection /\ NewConnection.output = <<>>
      /\ NewConnection.state = "new"
  BY DEF NewConnection, Connection
<1>3. Open = {}
  BY <1>1, <1>2 DEF Open
<1>4. TypeOK
  <2>1. \A c \in Conns : Len(conn[c].output) <= OutputHighWater
    BY <1>1, <1>2, ReactorAssumption
  <2>2. conn \in [Conns -> Connection]
        /\ requests \in [Conns -> Seq(Requests)]
        /\ received \in [Conns -> Seq(Reply)]
    BY <1>1, <1>2
  <2>3. BarrierCovers
    BY <1>3 DEF BarrierCovers
  <2>4. QED BY <1>1, <2>1, <2>2, <2>3 DEF TypeOK
<1>5. ConnectionsAgree
  <2> SUFFICES ASSUME NEW c \in Conns PROVE ConnectionAgrees(c)
    BY DEF ConnectionsAgree
  <2>1. conn[c] = NewConnection /\ received[c] = <<>>
    BY <1>1
  <2>2. NewConnection = [NewConnection EXCEPT !.state = NewConnection.state]
    BY DEF NewConnection
  <2>3. QED BY <1>2, <2>1, <2>2 DEF ConnectionAgrees
<1>6. LoadsAgree
  BY <1>1, <1>3 DEF LoadsAgree, Waiting
<1>7. InterestAgrees
  BY <1>3 DEF InterestAgrees
<1>8. BatchAgrees
  BY <1>1, ReactorAssumption DEF BatchAgrees
<1>9. SerialAgrees
  BY <1>1, ReactorAssumption DEF SerialAgrees, SerialAckAfterWrite
<1>10. QED BY <1>4, <1>5, <1>6, <1>7, <1>8, <1>9 DEF Accounted

\* What TypeOK says beyond the types follows from the connections' agreement.
LEMMA AgreementTyped == Typed /\ ConnectionsAgree => TypeOK
<1> SUFFICES ASSUME Typed, ConnectionsAgree PROVE TypeOK
  OBVIOUS
<1>1. ASSUME NEW c \in Conns
      PROVE  /\ Len(conn[c].output) <= OutputHighWater
             /\ c \in Open => CoveredBy(conn[c].output, conn[c].barrier)
  <2>1. conn[c] \in Connection /\ ConnectionAgrees(c)
        /\ OutputHighWater \in Nat
    BY ReactorAssumption DEF Typed, ConnectionsAgree
  <2>2. CASE conn[c].state = "open"
    BY <2>1, <2>2 DEF ConnectionAgrees, RepliesAgree
  <2>3. CASE conn[c].state \in {"new", "backlog"}
    <3>1. conn[c].output = <<>>
      BY <2>1, <2>3 DEF ConnectionAgrees, NewConnection
    <3>2. QED BY <2>1, <2>3, <3>1 DEF Open
  <2>4. CASE conn[c].state = "closed"
    BY <2>1, <2>4 DEF ConnectionAgrees, Open
  <2>5. QED BY <2>1, <2>2, <2>3, <2>4, FieldTypes
<1>2. BarrierCovers
  BY <1>1 DEF BarrierCovers, CoveredBy, Open
<1>3. QED BY <1>1, <1>2 DEF Typed, TypeOK

\* Every step of a client, the Reactor or another thread keeps the account.
LEMMA AccountedStep ==
    ASSUME Accounted, Next
    PROVE  Accounted'
<1>1. Typed' /\ ConnectionsAgree'
  BY TypedStep, ConnectionsStep
<1>2. TypeOK'
  BY <1>1, AgreementTyped, PTL
<1>3. QED BY <1>1, <1>2, LoadsStep, InterestStep, BatchStep, SerialStep
          DEF Accounted

\* A step in which nothing moves keeps it too.
LEMMA AccountedStutter ==
    ASSUME Accounted, UNCHANGED vars
    PROVE  Accounted'
<1>1. UNCHANGED <<conn, received, requests, shut, reset, pc, batch, current,
                  draining, enqueued, written, failed, flushed, evicted,
                  reported, owed, wake, loading, loaded>>
  BY DEF vars, clientVars, loopVars, sequenceVars, flushVars, wakeVars,
         loadVars
<1>2. Open' = Open
  BY <1>1 DEF Open
<1>3. TypeOK'
  BY <1>1, <1>2 DEF Accounted, TypeOK, BarrierCovers
<1>4. ConnectionsAgree'
  BY <1>1, ZenonT(40)
     DEF Accounted, ConnectionsAgree, ConnectionAgrees, RepliesAgree, Settled,
         Numbered, CoveredBy, Unanswered
<1>5. LoadsAgree'
  BY <1>1, <1>2 DEF Accounted, LoadsAgree, Waiting
<1>6. InterestAgrees'
  BY <1>1, <1>2 DEF Accounted, InterestAgrees, BarrierReady
<1>7. BatchAgrees'
  BY <1>1, <1>2 DEF Accounted, BatchAgrees
<1>8. SerialAgrees'
  BY <1>1 DEF Accounted, SerialAgrees, SerialAckAfterWrite, Sendable,
              BarrierReady
<1>9. QED BY <1>3, <1>4, <1>5, <1>6, <1>7, <1>8 DEF Accounted

\* The inductive invariant: whatever clients send, however replies are split
\* over sends, and whenever MySQL and the AOF writer answer, the counters, the
\* output, the epoll interest and the loads of every connection agree.
THEOREM AccountedInvariant == Spec => []Accounted
<1>1. Init => Accounted
  BY AccountedInit
<1>2. Accounted /\ [Next]_vars => Accounted'
  BY AccountedStep, AccountedStutter
<1>3. QED BY <1>1, <1>2, PTL DEF Spec

-----------------------------------------------------------------------------
(* What follows from it *)

\* The variables keep their types, no output grows above the high water mark
\* and each connection's one barrier covers every reply in its output.
THEOREM ReactorTyped == Spec => []TypeOK
<1>1. Accounted => TypeOK
  BY DEF Accounted
<1>2. QED BY <1>1, AccountedInvariant, PTL

\* Pipelined requests are answered once each and in their order: the replies
\* that send has taken followed by those in the output are numbered 1, 2, ...
THEOREM RepliesOrdered == Spec => []RepliesInOrder
<1>1. Accounted => RepliesInOrder
  <2> SUFFICES ASSUME Accounted, NEW c \in Conns
               PROVE  LET replies == received[c] \o conn[c].output IN
                      /\ \A i \in 1..Len(replies) : replies[i].request = i
                      /\ conn[c].state = "open" /\ ~conn[c].closing =>
                          conn[c].consumed = Len(replies)
                              + (IF conn[c].deferred THEN 1 ELSE 0)
    BY DEF RepliesInOrder
  <2> DEFINE r == received[c]
             q == conn[c].output
             replies == r \o q
  <2>1. /\ conn[c] \in Connection /\ ConnectionAgrees(c)
        /\ r \in Seq(Reply) /\ q \in Seq(Reply)
    BY ReplyTypes, FieldTypes DEF Accounted, ConnectionsAgree
  <2>2. Numbered(r, 0) /\ Numbered(q, Len(r))
    <3>1. CASE conn[c].state = "open"
      BY <2>1, <3>1 DEF ConnectionAgrees, RepliesAgree
    <3>2. CASE conn[c].state \in {"new", "backlog"}
      <4>1. q = <<>> /\ r = <<>>
        BY <2>1, <3>2 DEF ConnectionAgrees, NewConnection
      <4>2. QED BY <4>1 DEF Numbered
    <3>3. CASE conn[c].state = "closed"
      <4>1. q = <<>> /\ Numbered(r, 0)
        BY <2>1, <3>3 DEF ConnectionAgrees
      <4>2. QED BY <4>1 DEF Numbered
    <3>4. QED BY <2>1, <3>1, <3>2, <3>3, FieldTypes
  <2>3. conn[c].state = "open" /\ ~conn[c].closing =>
            conn[c].consumed = Len(r) + Len(q) + Unanswered(conn[c])
    BY <2>1 DEF ConnectionAgrees, RepliesAgree
  <2> HIDE DEF r, q
  <2>4. /\ Len(r) \in Nat /\ Len(q) \in Nat
        /\ Len(replies) = Len(r) + Len(q)
        /\ \A i \in 1..Len(r) : replies[i] = r[i]
        /\ \A i \in 1..Len(q) : replies[Len(r) + i] = q[i]
    BY <2>1
  <2>5. ASSUME NEW i \in 1..Len(replies) PROVE replies[i].request = i
    <3>1. CASE i \in 1..Len(r)
      <4>1. replies[i].request = 0 + i
        BY <2>2, <2>4, <3>1 DEF Numbered
      <4>2. QED BY <4>1
    <3>2. CASE i \notin 1..Len(r)
      <4>1. PICK j \in 1..Len(q) : i = Len(r) + j
        <5> HIDE DEF replies
        <5>1. i - Len(r) \in 1..Len(q) /\ i = Len(r) + (i - Len(r))
          BY <2>4, <3>2
        <5>2. QED BY <5>1
      <4>2. replies[i] = q[j]
        BY <2>4, <4>1
      <4>3. q[j].request = Len(r) + j
        BY <2>2 DEF Numbered
      <4>4. QED BY <4>1, <4>2, <4>3
    <3>3. QED BY <3>1, <3>2
  <2> HIDE DEF replies
  <2>6. conn[c].state = "open" /\ ~conn[c].closing =>
            conn[c].consumed =
                Len(replies) + (IF conn[c].deferred THEN 1 ELSE 0)
    BY <2>3, <2>4 DEF Unanswered
  <2>7. QED BY <2>5, <2>6 DEF replies, r, q
<1>2. QED BY <1>1, AccountedInvariant, PTL

\* A client that waits for each reply has its reply to a write only after the
\* AOF has published the transaction, although send does not look again.
THEOREM SerialAcknowledged == Spec => []SerialAckAfterWrite
<1>1. Accounted => SerialAckAfterWrite
  BY DEF Accounted, SerialAgrees
<1>2. QED BY <1>1, AccountedInvariant, PTL

\* When the Reactor goes to sleep, every open connection has asked epoll for
\* what it needs next, or the eventfd is about to be readable.
THEOREM WakeupsNotLost == Spec => []NoLostWakeup
<1>1. Accounted => NoLostWakeup
  <2> SUFFICES ASSUME Accounted, pc = "poll", NEW c \in Open
               PROVE  LET k == conn[c] IN
                      /\ k.output # <<>> /\ BarrierReady(k.barrier) =>
                              "out" \in k.interest \/ wake \/ owed
                      /\ ~k.deferred /\ k.output = <<>> =>
                              "in" \in k.interest /\ k.taken = k.consumed
                      /\ k.deferred => c \in loading \/ (c \in loaded /\ wake)
    BY DEF NoLostWakeup
  <2> DEFINE k == conn[c]
  <2>1. current \notin Conns /\ draining = {}
    BY DEF Accounted, BatchAgrees, LoadsAgree
  <2>2. /\ c \in Conns /\ Settled(k)
        /\ k.deferred <=> c \in Waiting
        /\ k.peerEof /\ k.output = <<>> => current = c
    BY OpenFacts
  <2>3. k.output # <<>> /\ BarrierReady(k.barrier) =>
            "out" \in k.interest \/ wake \/ owed
    BY DEF Accounted, InterestAgrees
  <2>4. ~k.deferred /\ k.output = <<>> =>
            "in" \in k.interest /\ k.taken = k.consumed
    BY <2>1, <2>2 DEF Accounted, InterestAgrees, Settled
  <2>5. k.deferred => c \in loading \/ (c \in loaded /\ wake)
    BY <2>1, <2>2 DEF Accounted, LoadsAgree, Waiting
  <2>6. QED BY <2>3, <2>4, <2>5
<1>2. QED BY <1>1, AccountedInvariant, PTL

\* A reply that was computed is dropped only for a client that is gone or by
\* a failed AOF: a half-closed connection and one that closes after a protocol
\* error are destroyed when send has taken their whole output.
THEOREM RepliesKept == Spec => RepliesNotDropped
<1> DEFINE Kept(c) ==
        conn[c].state = "open" /\ conn'[c].state = "closed"
        /\ c \notin reset /\ ~failed
            => received'[c] = received[c] \o conn[c].output
<1>1. ASSUME Accounted, Next, NEW c \in Conns PROVE Kept(c)
  <2>1. /\ conn \in [Conns -> Connection] /\ conn[c] \in Connection
        /\ received \in [Conns -> Seq(Reply)] /\ "none" \notin Conns
    BY <1>1, ReactorAssumption DEF Accounted, TypeOK
  <2>2. CASE UNCHANGED conn
    BY <2>2
  <2>3. ASSUME NEW d \in Conns, Connect(d) PROVE Kept(c)
    BY <2>1, <2>3 DEF Connect, Connection
  <2>4. CASE EventAccept
    BY <2>1, <2>4 DEF EventAccept
  <2>5. CASE DrainEnd
    BY <2>1, <2>5, RefreshedFacts DEF DrainEnd
  <2>6. CASE FlushReturn
    BY <2>1, <2>6 DEF FlushReturn
  <2>7. ASSUME NEW d \in Conns, CompleteResponse(d) PROVE Kept(c)
    <3>1. CASE d \notin Open
      BY <1>1, <2>2, <2>7, <3>1, CompleteFacts
    <3>2. CASE d \in Open
      <4>1. PICK kk \in Connection :
                conn' = [conn EXCEPT ![d] = kk] /\ kk.state = "open"
        BY <1>1, <2>7, <3>2, CompleteFacts
      <4>2. QED BY <2>1, <4>1
    <3>3. QED BY <3>1, <3>2
  <2>8. ASSUME NEW d \in Conns, EventHangup(d) PROVE Kept(c)
    <3>1. d \in reset
      BY <1>1, <2>8 DEF EventHangup, Accounted, BatchAgrees
    <3>2. \A x \in Conns \ {d} : conn'[x] = conn[x]
      BY <2>1, <2>8 DEF EventHangup
    <3>3. QED BY <3>1, <3>2
  <2>9. ASSUME NEW d \in Conns, EventRead(d) PROVE Kept(c)
    <3>1. PICK e \in batch, kk \in Connection :
            /\ conn' = [conn EXCEPT ![d] =
                            IF "out" \in e.active THEN kk ELSE Reaped(kk)]
            /\ kk.state = "open"
            /\ kk.output = <<>> => conn[d].output = <<>>
      BY <1>1, <2>9, ReadFacts
    <3>2. received' = received
      BY <2>9 DEF EventRead
    <3>3. /\ conn'[d] = IF "out" \in e.active THEN kk ELSE Reaped(kk)
          /\ \A x \in Conns \ {d} : conn'[x] = conn[x]
      BY <2>1, <3>1
    <3>4. CASE d = c /\ conn'[c].state = "closed"
      <4>1. conn'[c] = Reaped(kk) /\ kk.peerEof /\ kk.output = <<>>
        BY <3>1, <3>3, <3>4 DEF Reaped
      <4>2. conn[c].output = <<>>
        BY <3>1, <3>4, <4>1
      <4>3. received[c] \in Seq(Reply)
        BY <2>1
      <4>4. received[c] = received[c] \o <<>>
        BY <4>3
      <4>5. QED BY <3>2, <4>2, <4>4
    <3>5. QED BY <3>3, <3>4
  <2>10. CASE EventWrite
    <3>1. PICK d \in Open : d = current
      BY <1>1, <2>10, WriteFacts
    <3>2. PICK kk \in Connection, n \in 0..Len(conn[d].output) :
            /\ received' = [received EXCEPT ![d] =
                                @ \o SubSeq(conn[d].output, 1, n)]
            /\ conn' = [conn EXCEPT ![d] = Reaped(kk)]
            /\ kk.state = "closed" => kk.output = <<>>
            /\ kk.output = <<>> => n = Len(conn[d].output)
      BY <1>1, <2>10, <3>1, WriteFacts
    <3>3. d \in Conns /\ conn'[d] = Reaped(kk)
          /\ received'[d] = received[d] \o SubSeq(conn[d].output, 1, n)
          /\ \A x \in Conns \ {d} : conn'[x] = conn[x]
      BY <2>1, <3>1, <3>2 DEF Open
    <3>4. CASE d = c /\ conn'[c].state = "closed"
      <4>1. kk.output = <<>>
        BY <3>2, <3>3, <3>4 DEF Reaped
      <4>2. conn[c].output \in Seq(Reply) /\ n = Len(conn[c].output)
        BY <2>1, <3>2, <3>4, <4>1, FieldTypes
      <4>3. SubSeq(conn[c].output, 1, n) = conn[c].output
        BY <4>2
      <4>4. QED BY <3>3, <3>4, <4>3
    <3>5. QED BY <3>3, <3>4
  <2>11. CASE Clients
    <3>1. ASSUME NEW d \in Conns,
                 \/ ShutWrite(d) \/ Hangup(d)
                 \/ \E kind \in Kinds : Send(d, kind)
          PROVE  UNCHANGED conn
      BY <3>1 DEF ShutWrite, Hangup, Send
    <3>2. QED BY <2>2, <2>3, <2>11, <3>1 DEF Clients
  <2>12. CASE Poll \/ EventTimer \/ EventWake \/ Flush
    <3>1. UNCHANGED conn
      BY <2>12 DEF Poll, EventTimer, EventWake, Flush
    <3>2. QED BY <2>2, <3>1
  <2>13. CASE \E d \in Conns :
                CompleteResponse(d) \/ EventHangup(d) \/ EventRead(d)
    BY <2>7, <2>8, <2>9, <2>13
  <2>14. CASE \/ \E d \in Conns : LoadDone(d)
              \/ LogPublish \/ Notify \/ LogFail
    <3>1. UNCHANGED conn
      BY <2>14 DEF LoadDone, LogPublish, Notify, LogFail
    <3>2. QED BY <2>2, <3>1
  <2>15. CASE Loop
    BY <2>4, <2>5, <2>6, <2>10, <2>12, <2>13, <2>15 DEF Loop
  <2>16. QED BY <1>1, <2>11, <2>14, <2>15 DEF Next
<1>2. Accounted /\ [Next]_vars => [\A c \in Conns : Kept(c)]_vars
  BY <1>1
<1>3. QED BY <1>2, AccountedInvariant, PTL DEF Spec, RepliesNotDropped

=============================================================================
