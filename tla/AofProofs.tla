----------------------------- MODULE AofProofs -----------------------------
(***************************************************************************)
(* Proofs about Aof for every chunk capacity, water mark, writev width and *)
(* number of bytes, transactions and crashes: the type invariant, the      *)
(* order of bytes in the file, the backpressure flag and the pause before  *)
(* fork, all from the inductive invariant StreamTiled.                     *)
(***************************************************************************)
EXTENDS AofInvariant, TLAPS, WellFoundedInduction, SequenceTheorems

-----------------------------------------------------------------------------
(* Arithmetic *)

NatLess == {p \in Nat \X Nat : p[1] < p[2]}

\* < is well-founded on the naturals.
LEMMA NatLessWellFounded == IsWellFoundedOn(NatLess, Nat)
<1>1. NatLess \cap (Nat \X Nat) \subseteq OpToRel(<, Nat)
  BY DEF NatLess, OpToRel
<1>2. QED BY <1>1, NatLessThanWellFounded, IsWellFoundedOnSubrelation

\* A bounded set of numbers has a greatest element.
LEMMA Maximum ==
    ASSUME NEW N \in Nat, NEW S, S \subseteq 0..N, S # {}
    PROVE  \E n \in S : \A m \in S : m <= n
<1> DEFINE T == {N - x : x \in S}
<1>1. T \subseteq Nat /\ T # {}
  <2>1. T \subseteq Nat
    OBVIOUS
  <2>2. PICK s \in S : TRUE
    OBVIOUS
  <2>3. N - s \in T
    OBVIOUS
  <2>4. QED BY <2>1, <2>3
<1>2. PICK y \in T : \A z \in T : ~(<<z, y>> \in NatLess)
  <2> HIDE DEF T
  <2> QED BY <1>1, NatLessWellFounded, WFMin
<1>3. PICK n \in S : y = N - n
  OBVIOUS
<1>4. \A m \in S : m <= n
  <2> TAKE m \in S
  <2>1. <<N - m, N - n>> \notin NatLess
    BY <1>2, <1>3
  <2>2. QED BY <2>1 DEF NatLess
<1>5. QED BY <1>4

\* Rounding a division up: the number of chunks that a bytes need.
LEMMA CeilDiv ==
    ASSUME NEW a \in Nat \ {0}, NEW c \in Nat \ {0}, NEW n,
           n = (a + c - 1) \div c
    PROVE  /\ n \in Nat \ {0}
           /\ (n - 1) * c < a
           /\ a <= n * c
<1>1. n \in Nat /\ n * c <= a + c - 1 /\ a + c - 1 < n * c + c
  BY Z3
<1>2. n # 0
  BY <1>1
<1>3. (n - 1) * c = n * c - c
  BY <1>1
<1>4. QED BY <1>1, <1>2, <1>3

\* Multiplication keeps the order.
LEMMA MulMonotone ==
    ASSUME NEW i \in Nat, NEW j \in Nat, i <= j, NEW c \in Nat
    PROVE  i * c <= j * c
OBVIOUS

-----------------------------------------------------------------------------
(* The helpers of Aof *)

\* The fields of the buffers and chunks that aof_t holds.
LEMMA FieldTypes ==
    ASSUME TypeOK
    PROVE  /\ txn.used \in Nat /\ txn.recs \in SUBSET Nat
           /\ pending.used \in Nat /\ pending.recs \in SUBSET Nat
           /\ producer.first \in Nat /\ producer.length \in Nat
           /\ producer.offset \in Nat
           /\ \A i \in 1..Len(queue) :
                /\ queue[i] \in Chunk
                /\ queue[i].first \in Nat /\ queue[i].length \in Nat
                /\ queue[i].offset \in Nat /\ queue[i].sequence \in Nat
           /\ Len(queue) \in Nat /\ Len(file) \in Nat /\ Len(ends) \in Nat
<1>1. /\ txn.used \in Nat /\ txn.recs \in SUBSET Nat
      /\ pending.used \in Nat /\ pending.recs \in SUBSET Nat
  BY DEF TypeOK, BufferTypeOK, Buffer
<1>2. /\ producer.first \in Nat /\ producer.length \in Nat
      /\ producer.offset \in Nat
  BY DEF TypeOK, QueueTypeOK, Chunk
<1>3. \A i \in 1..Len(queue) : queue[i] \in Chunk
  BY DEF TypeOK, QueueTypeOK
<1>4. \A x \in Chunk : /\ x.first \in Nat /\ x.length \in Nat
                       /\ x.offset \in Nat /\ x.sequence \in Nat
  BY DEF Chunk
<1>5. Len(queue) \in Nat /\ Len(file) \in Nat /\ Len(ends) \in Nat
  BY DEF TypeOK, QueueTypeOK, FileTypeOK
<1>6. QED BY <1>1, <1>2, <1>3, <1>4, <1>5

\* Copying records into the stream gives byte numbers.
LEMMA PlacedType ==
    ASSUME NEW b, b.recs \in SUBSET Nat,
           NEW from \in Nat, NEW to \in Nat, NEW at \in Nat
    PROVE  Placed(b, from, to, at) \in SUBSET Nat
BY DEF Placed

\* One round of the copy loop copies at least a byte and leaves a chunk that
\* starts where the queue ends and ends where the copied bytes end.
LEMMA CopyFacts ==
    ASSUME StreamTiled, rpc = "commit"
    PROVE  /\ CopyAmount \in Nat \ {0}
           /\ pos + CopyAmount <= txn.used
           /\ FilledChunk \in Chunk
           /\ FilledChunk.length > 0 /\ FilledChunk.length <= ChunkCapacity
           /\ FilledChunk.offset = 0
           /\ FilledChunk.first = QueueEnd
           /\ FilledChunk.first + FilledChunk.length = copied + CopyAmount
           /\ FilledChunk.length >= CopyAmount
           /\ FilledChunk.sequence = Len(ends)
           /\ FilledChunk.end <=> (pos + CopyAmount = txn.used)
<1>1. /\ TypeOK /\ ProducerTiles /\ txn.active /\ pos < txn.used
      /\ pos \in Nat /\ txn.used \in Nat /\ copied \in Nat
      /\ Len(ends) \in Nat /\ ChunkCapacity \in Nat \ {0}
  BY FieldTypes, AofAssumption
     DEF StreamTiled, ReactorAgrees, TypeOK, BufferTypeOK, FileTypeOK
<1>2. /\ ProducerChunk \in Chunk
      /\ ProducerChunk.length \in Nat
      /\ ProducerChunk.length < ChunkCapacity
      /\ ProducerChunk.offset = 0
      /\ ProducerChunk.first = QueueEnd
      /\ ProducerChunk.first + ProducerChunk.length = copied
  <2>1. CASE producer.length = 0
    <3>1. ProducerChunk = [first |-> copied, length |-> 0, offset |-> 0,
                           sequence |-> 0, end |-> FALSE]
      BY <2>1 DEF ProducerChunk, NoChunk
    <3>2. ProducerChunk \in Chunk
      BY <3>1, <1>1 DEF Chunk
    <3>3. QED BY <2>1, <3>1, <3>2, <1>1 DEF QueueEnd
  <2>2. CASE producer.length # 0
    <3>1. producer \in Chunk /\ producer.length > 0
      BY <2>2, <1>1 DEF TypeOK, QueueTypeOK, Chunk
    <3>2. QED BY <2>2, <3>1, <1>1
                 DEF ProducerChunk, ProducerTiles, QueueEnd, Chunk
  <2>3. QED BY <2>1, <2>2
<1>3. /\ CopyAmount \in Nat \ {0} /\ pos + CopyAmount <= txn.used
      /\ ProducerChunk.length + CopyAmount <= ChunkCapacity
  BY <1>1, <1>2, SMTT(20) DEF CopyAmount, Least
<1>4. FilledChunk \in Chunk
  <2>1. /\ ProducerChunk.first \in Nat /\ ProducerChunk.offset \in Nat
        /\ ProducerChunk.length + CopyAmount \in Nat
    BY <1>2, <1>3 DEF Chunk
  <2>2. PICK e \in BOOLEAN : e = (pos + CopyAmount = txn.used)
    OBVIOUS
  <2>3. FilledChunk = [ProducerChunk EXCEPT
                         !.length = ProducerChunk.length + CopyAmount,
                         !.sequence = Len(ends), !.end = e]
    BY <2>2 DEF FilledChunk
  <2>4. QED BY <1>1, <1>2, <2>1, <2>3 DEF Chunk
<1>5. /\ FilledChunk.length = ProducerChunk.length + CopyAmount
      /\ FilledChunk.first = ProducerChunk.first
      /\ FilledChunk.offset = ProducerChunk.offset
      /\ FilledChunk.sequence = Len(ends)
      /\ FilledChunk.end = (pos + CopyAmount = txn.used)
  <2>1. DOMAIN ProducerChunk = {"first", "length", "offset", "sequence", "end"}
    BY <1>2 DEF Chunk
  <2>2. QED BY <2>1 DEF FilledChunk
<1>6. /\ FilledChunk.length \in Nat /\ FilledChunk.length > 0
      /\ FilledChunk.length <= ChunkCapacity
      /\ FilledChunk.length >= CopyAmount
  BY <1>2, <1>3, <1>5
<1>7. FilledChunk.first + FilledChunk.length = copied + CopyAmount
  <2>1. ProducerChunk.first \in Nat
    BY <1>2 DEF Chunk
  <2>2. QED BY <1>1, <1>2, <1>3, <1>5, <2>1, SMTT(20)
<1>8. QED BY <1>2, <1>3, <1>4, <1>5, <1>6, <1>7

\* The pending bytes tile their chunks.
LEMMA PendingFacts ==
    ASSUME StreamTiled, rpc = "flush"
    PROVE  /\ PendingCount \in Nat \ {0}
           /\ \A i \in 1..PendingCount :
                /\ PendingChunk(i) \in Chunk
                /\ PendingChunk(i).length > 0
                /\ PendingChunk(i).offset = 0
                /\ PendingChunk(i).first + PendingChunk(i).length
                     <= copied + pending.used
                /\ i < PendingCount =>
                     PendingChunk(i).first + PendingChunk(i).length
                       = PendingChunk(i + 1).first
                /\ i = PendingCount =>
                     PendingChunk(i).first + PendingChunk(i).length
                       = copied + pending.used
           /\ \A i, j \in 1..PendingCount : i < j =>
                PendingChunk(i).first + PendingChunk(i).length
                  <= PendingChunk(j).first
           /\ PendingChunk(1).first = copied
<1> DEFINE c == ChunkCapacity
           u == pending.used
           n == PendingCount
<1>1. u \in Nat \ {0} /\ c \in Nat \ {0} /\ copied \in Nat /\ Len(ends) \in Nat
  BY FieldTypes, AofAssumption
     DEF StreamTiled, ReactorAgrees, TypeOK, FileTypeOK
<1>2. n \in Nat \ {0} /\ (n - 1) * c < u /\ u <= n * c
  BY <1>1, CeilDiv DEF PendingCount
<1> HIDE DEF c, u, n
<1>3. \A i \in 1..n :
        /\ (i - 1) * c \in Nat /\ (i - 1) * c < u
        /\ i * c = (i - 1) * c + c
        /\ i < n => i * c < u
  <2> TAKE i \in 1..n
  <2>1. i \in Nat /\ i - 1 \in Nat /\ n - 1 \in Nat
    BY <1>2
  <2>2. (i - 1) * c \in Nat /\ i * c = (i - 1) * c + c
    BY <2>1, <1>1
  <2>3. (i - 1) * c <= (n - 1) * c
    BY <2>1, <1>1, <1>2, MulMonotone
  <2>4. (n - 1) * c \in Nat
    BY <2>1, <1>1
  <2>5. ASSUME i < n PROVE i * c < u
    <3>1. i * c <= (n - 1) * c
      BY <2>1, <2>5, <1>1, <1>2, MulMonotone
    <3>2. i * c \in Nat
      BY <2>1, <1>1
    <3>3. QED BY <3>1, <3>2, <2>4, <1>1, <1>2
  <2>6. QED BY <2>2, <2>3, <2>4, <2>5, <1>1, <1>2
<1>4. \A i \in 1..n :
        /\ PendingChunk(i).first = copied + (i - 1) * c
        /\ PendingChunk(i).length = Least(c, u - (i - 1) * c)
        /\ PendingChunk(i).offset = 0
  BY DEF PendingChunk, c, u
<1>5. \A i \in 1..n :
        /\ PendingChunk(i).length \in Nat \ {0}
        /\ i < n => PendingChunk(i).length = c
        /\ PendingChunk(i).length <= u - (i - 1) * c
        /\ i = n => PendingChunk(i).length = u - (i - 1) * c
  <2> SUFFICES ASSUME NEW i \in 1..n
               PROVE  /\ PendingChunk(i).length \in Nat \ {0}
                      /\ i < n => PendingChunk(i).length = c
                      /\ PendingChunk(i).length <= u - (i - 1) * c
                      /\ i = n => PendingChunk(i).length = u - (i - 1) * c
    OBVIOUS
  <2>1. PICK k \in Nat : k = (i - 1) * c
    BY <1>3
  <2>2. k < u /\ (i < n => k + c < u) /\ (i = n => u <= k + c)
    BY <1>2, <1>3, <2>1
  <2>3. PendingChunk(i).length = IF c < u - k THEN c ELSE u - k
    BY <1>4, <2>1 DEF Least
  <2>4. QED BY <1>1, <1>2, <2>1, <2>2, <2>3
<1>6. \A i \in 1..n : PendingChunk(i) \in Chunk
  <2> TAKE i \in 1..n
  <2>1. copied + (i - 1) * c \in Nat
    BY <1>1, <1>3
  <2>2. Least(c, u - (i - 1) * c) \in Nat
    BY <1>4, <1>5
  <2>3. QED BY <1>1, <2>1, <2>2 DEF PendingChunk, Chunk, c, u
<1>7. \A i, j \in 1..n : i < j =>
        PendingChunk(i).first + PendingChunk(i).length
          <= PendingChunk(j).first
  <2> SUFFICES ASSUME NEW i \in 1..n, NEW j \in 1..n, i < j
               PROVE  PendingChunk(i).first + PendingChunk(i).length
                        <= PendingChunk(j).first
    OBVIOUS
  <2>1. i \in Nat /\ j - 1 \in Nat /\ i <= j - 1 /\ i < n
    BY <1>2
  <2>2. i * c <= (j - 1) * c
    BY <2>1, <1>1, MulMonotone
  <2>3. i * c \in Nat /\ (j - 1) * c \in Nat /\ (i - 1) * c \in Nat
    BY <1>1, <1>3, <2>1
  <2>4. PendingChunk(i).first + PendingChunk(i).length = copied + i * c
    <3>1. PendingChunk(i).length = c /\ i * c = (i - 1) * c + c
      BY <1>3, <1>5, <2>1
    <3>2. PendingChunk(i).first = copied + (i - 1) * c
      BY <1>4
    <3>3. QED BY <1>1, <2>3, <3>1, <3>2
  <2>5. PendingChunk(j).first = copied + (j - 1) * c
    BY <1>4
  <2>6. QED BY <1>1, <2>2, <2>3, <2>4, <2>5
<1>8. \A i \in 1..n : i < n =>
        PendingChunk(i).first + PendingChunk(i).length
          = PendingChunk(i + 1).first
  <2> SUFFICES ASSUME NEW i \in 1..n, i < n
               PROVE  PendingChunk(i).first + PendingChunk(i).length
                        = PendingChunk(i + 1).first
    OBVIOUS
  <2>1. i + 1 \in 1..n /\ (i + 1) - 1 = i /\ i \in Nat
    BY <1>2
  <2>2. PendingChunk(i + 1).first = copied + i * c
    BY <1>4, <2>1
  <2>3. QED BY <1>1, <1>3, <1>4, <1>5, <2>1, <2>2
<1>9. PendingChunk(1).first = copied
  <2>1. 1 \in 1..n /\ (1 - 1) * c = 0
    BY <1>1, <1>2
  <2>2. QED BY <1>1, <1>4, <2>1
<1>10. \A i \in 1..n :
        /\ PendingChunk(i).first + PendingChunk(i).length <= copied + u
        /\ i = n => PendingChunk(i).first + PendingChunk(i).length = copied + u
  BY <1>1, <1>3, <1>4, <1>5
<1>11. QED
  BY <1>2, <1>4, <1>5, <1>6, <1>7, <1>8, <1>9, <1>10 DEF c, u, n

\* RecordBefore(n) is the longest prefix of the first n bytes that ends with
\* a complete record.
LEMMA RecordBeforeFacts ==
    ASSUME TypeOK, NEW n \in Nat
    PROVE  /\ RecordBefore(n) \in 0..n
           /\ RecordBefore(n) \in {0} \cup recs
           /\ \A r \in recs : r <= n => r <= RecordBefore(n)
<1> DEFINE ended == {0} \cup {r \in recs : r <= n}
<1>1. recs \in SUBSET Nat
  BY DEF TypeOK, FileTypeOK
<1>2. ended \subseteq 0..n /\ ended # {}
  <2>1. ASSUME NEW x \in ended PROVE x \in 0..n
    <3>1. x = 0 \/ (x \in recs /\ x <= n)
      BY <2>1
    <3>2. QED BY <1>1, <3>1
  <2>2. 0 \in ended
    OBVIOUS
  <2>3. QED BY <2>1, <2>2
<1>3. \E e \in ended : \A m \in ended : m <= e
  <2> HIDE DEF ended
  <2> QED BY <1>2, Maximum
<1>4. /\ RecordBefore(n) \in ended
      /\ \A m \in ended : m <= RecordBefore(n)
  BY <1>3 DEF RecordBefore
<1>5. QED BY <1>1, <1>2, <1>4

\* The first record cut short that a start meets is one of those it meets.
LEMMA FirstTornFacts ==
    ASSUME TypeOK, NEW from \in Nat, TornAhead(from) # {}
    PROVE  /\ FirstTorn(from) \in TornAhead(from)
           /\ FirstTorn(from) \in Nat /\ FirstTorn(from) < Len(file)
<1> DEFINE T == TornAhead(from)
           B == {Len(file) - t : t \in T}
<1>1. Len(file) \in Nat /\ torn \in SUBSET Nat
  BY FieldTypes DEF TypeOK, FileTypeOK
<1>2. T \subseteq 0..Len(file) /\ T # {}
  <2>1. ASSUME NEW t \in T PROVE t \in 0..Len(file)
    <3>1. t \in torn /\ t < Len(file)
      BY <2>1 DEF TornAhead
    <3>2. QED BY <1>1, <3>1
  <2>2. QED BY <2>1
<1>3. B \subseteq 0..Len(file) /\ B # {}
  <2> HIDE DEF T
  <2>1. PICK t \in T : TRUE
    BY <1>2
  <2>2. Len(file) - t \in B
    BY <2>1
  <2>3. B \subseteq 0..Len(file)
    BY <1>1, <1>2
  <2>4. QED BY <2>2, <2>3
<1>4. PICK b \in B : \A c \in B : c <= b
  <2> HIDE DEF B
  <2> QED BY <1>1, <1>3, Maximum
<1>5. PICK t \in T : b = Len(file) - t
  OBVIOUS
<1>6. \A u \in T : t <= u
  <2> HIDE DEF T
  <2> TAKE u \in T
  <2>1. Len(file) - u <= Len(file) - t
    BY <1>4, <1>5
  <2>2. t \in Nat /\ u \in Nat
    BY <1>2, <1>5
  <2>3. QED BY <1>1, <2>1, <2>2
<1>7. FirstTorn(from) \in T
  BY <1>5, <1>6 DEF FirstTorn
<1>8. QED BY <1>1, <1>7 DEF TornAhead

\* What a start leaves: a prefix of the file whose first sound bytes are the
\* records that were written.  Unless a record was cut short they are all the
\* complete records, and nothing is taken back.
LEMMA RestartFacts ==
    ASSUME TypeOK, Restart
    PROVE  \E sound \in 0..Len(file), keep \in 0..Len(file) :
             /\ Reopen(sound, keep) /\ sound <= keep /\ sound \in {0} \cup recs
             /\ \/ /\ UNCHANGED <<marks, promised>>
                   /\ \A r \in recs : r <= Len(file) => r <= sound
                \/ /\ marks' = {m \in marks : m <= sound}
                   /\ promised' = Least(promised, sound)
                   /\ torn # {}
<1>1. /\ Len(file) \in Nat /\ torn \in SUBSET Nat /\ marks \in SUBSET Nat
  BY FieldTypes DEF TypeOK, FileTypeOK, BufferTypeOK
<1>2. PICK from \in {0} \cup marks :
        IF TornAhead(from) = {} THEN ReplayWhole ELSE ReplayTorn(from)
  BY DEF Restart
<1>3. from \in Nat
  BY <1>1
<1>4. CASE TornAhead(from) = {}
  <2>1. ReplayWhole
    BY <1>2, <1>4
  <2>2. /\ RecordBefore(Len(file)) \in 0..Len(file)
        /\ RecordBefore(Len(file)) \in {0} \cup recs
        /\ \A r \in recs : r <= Len(file) => r <= RecordBefore(Len(file))
    BY <1>1, RecordBeforeFacts
  <2>3. RecordBefore(Len(file)) <= RecordBefore(Len(file))
    BY <1>1, <2>2
  <2>4. QED BY <2>1, <2>2, <2>3 DEF ReplayWhole
<1>5. CASE TornAhead(from) # {}
  <2> DEFINE first == FirstTorn(from)
             sound == RecordBefore(first)
  <2>1. first \in Nat /\ first < Len(file) /\ torn # {}
    BY <1>3, <1>5, FirstTornFacts DEF TornAhead
  <2>2. sound \in 0..first /\ sound \in {0} \cup recs
    BY <2>1, RecordBeforeFacts
  <2>3. /\ \E keep \in {sound} \cup (first + 1)..Len(file) : Reopen(sound, keep)
        /\ marks' = {m \in marks : m <= sound}
        /\ promised' = Least(promised, sound)
    BY <1>2, <1>5 DEF ReplayTorn
  <2> HIDE DEF sound, first
  <2>4. PICK keep \in {sound} \cup (first + 1)..Len(file) : Reopen(sound, keep)
    BY <2>3
  <2>5. sound \in 0..Len(file) /\ keep \in 0..Len(file) /\ sound <= keep
    BY <1>1, <2>1, <2>2, <2>4
  <2>6. QED BY <2>1, <2>2, <2>3, <2>4, <2>5
<1>6. QED BY <1>4, <1>5

\* The writer is inside the queue: what it has written is between its two ends.
LEMMA TransferredFacts ==
    ASSUME StreamTiled, wpc = "writev", full + part > 0
    PROVE  /\ Transferred \in Nat
           /\ Transferred <= queueBytes
           /\ QueueStart + Transferred = WritePosition
           /\ QueueStart \in Nat /\ WritePosition \in Nat /\ QueueEnd \in Nat
<1>1. /\ QueueTiles /\ QueueCounted /\ WritevInside /\ TypeOK
      /\ full \in Nat /\ part \in Nat /\ queueBytes \in Nat /\ copied \in Nat
      /\ iov \in Nat
  BY DEF StreamTiled, TypeOK, WriterTypeOK, QueueTypeOK, FileTypeOK
<1>2. QueueEnd \in Nat /\ Len(queue) \in Nat
  BY <1>1, FieldTypes DEF QueueEnd
<1>3. \A i \in 1..Len(queue) : /\ queue[i].first \in Nat
                               /\ queue[i].length \in Nat
                               /\ queue[i].offset \in Nat
  BY <1>1, FieldTypes
<1>4. iov > 0 /\ Len(queue) > 0
  BY <1>1, <1>2 DEF WritevInside
<1>5. QueueStart = queue[1].first + queue[1].offset /\ QueueStart \in Nat
  BY <1>1, <1>2, <1>3, <1>4, 1 \in 1..Len(queue) DEF QueueStart
<1>6. CASE full < Len(queue)
  <2>1. full + 1 \in 1..Len(queue) /\ 1 \in 1..Len(queue)
    BY <1>1, <1>2, <1>6
  <2>2. PICK f \in Nat, l \in Nat, o \in Nat :
           /\ f = queue[full + 1].first /\ l = queue[full + 1].length
           /\ o = queue[full + 1].offset
    BY <1>3, <2>1
  <2>3. PICK f1 \in Nat, l1 \in Nat, o1 \in Nat :
           f1 = queue[1].first /\ l1 = queue[1].length /\ o1 = queue[1].offset
    BY <1>3, <2>1
  <2>4. WritePosition = f + o + part /\ WritePosition \in Nat
    BY <1>1, <1>6, <2>2 DEF WritePosition
  <2>5. o + part <= l
    <3>1. o < l
      BY <1>1, <2>1, <2>2 DEF QueueTiles
    <3>2. part > 0 => part < l - o
      BY <1>1, <2>2 DEF WritevInside
    <3>3. QED BY <1>1, <3>1, <3>2
  <2>6. f + l <= QueueEnd
    BY <1>1, <2>1, <2>2 DEF QueueTiles
  <2>7. QueueStart = f1 + o1
    BY <1>5, <2>3
  <2>8. QueueStart <= WritePosition
    <3>1. CASE full = 0
      BY <1>1, <2>2, <2>3, <2>4, <2>7, <3>1
    <3>2. CASE full > 0
      <4>1. f1 + l1 <= f
        BY <1>1, <2>1, <2>2, <2>3, <3>2 DEF QueueTiles
      <4>2. o1 < l1
        BY <1>1, <2>1, <2>3 DEF QueueTiles
      <4>3. QED BY <1>1, <2>4, <2>7, <4>1, <4>2
    <3>3. QED BY <1>1, <3>1, <3>2
  <2>9. Transferred = (f + o + part) - (f1 + o1)
    <3>1. Transferred = f + o + (part - (f1 + o1))
      BY <1>6, <2>2, <2>3 DEF Transferred
    <3>2. QED BY <1>1, <3>1
  <2>10. QED
    BY <1>1, <1>2, <1>5, <2>4, <2>5, <2>6, <2>7, <2>8, <2>9 DEF QueueCounted
<1>7. CASE ~(full < Len(queue))
  BY <1>1, <1>2, <1>5, <1>7 DEF Transferred, WritePosition, QueueCounted
<1>8. QED BY <1>6, <1>7

\* consume_written drops the chunks that are written completely and advances
\* the offset of the next one.
LEMMA ConsumedFacts ==
    ASSUME StreamTiled, wpc = "writev"
    PROVE  /\ Consumed \in Seq(Chunk)
           /\ Len(Consumed) = Len(queue) - full
           /\ \A i \in 1..Len(Consumed) :
                /\ full + i \in 1..Len(queue)
                /\ Consumed[i].first = queue[full + i].first
                /\ Consumed[i].length = queue[full + i].length
                /\ Consumed[i].sequence = queue[full + i].sequence
                /\ Consumed[i].end = queue[full + i].end
                /\ Consumed[i].offset = queue[full + i].offset
                                          + (IF i = 1 THEN part ELSE 0)
<1> DEFINE rest == SubSeq(queue, full + 1, Len(queue))
<1>1. /\ WritevInside /\ TypeOK /\ queue \in Seq(Chunk)
      /\ full \in Nat /\ part \in Nat /\ iov \in Nat
  BY DEF StreamTiled, TypeOK, WriterTypeOK, QueueTypeOK
<1>2. Len(queue) \in Nat /\ full <= Len(queue)
  BY <1>1, FieldTypes DEF WritevInside
<1>3. /\ rest \in Seq(Chunk) /\ Len(rest) = Len(queue) - full
      /\ \A i \in 1..Len(rest) :
           full + i \in 1..Len(queue) /\ rest[i] = queue[full + i]
  <2>1. Len(rest) = Len(queue) - full
    BY <1>1, <1>2
  <2>2. \A i \in 1..Len(rest) :
           full + i \in 1..Len(queue) /\ rest[i] = queue[full + i]
    BY <1>1, <1>2, <2>1
  <2>3. rest \in Seq(Chunk)
    BY <1>1, <1>2
  <2>4. QED BY <2>1, <2>2, <2>3
<1> HIDE DEF rest
<1>4. \A i \in 1..Len(rest) : rest[i] \in Chunk
  BY <1>3
<1>5. CASE part = 0
  <2>1. Consumed = rest
    BY <1>5 DEF Consumed, rest
  <2>2. \A i \in 1..Len(rest) : rest[i].offset \in Nat
    BY <1>4 DEF Chunk
  <2>3. QED BY <1>3, <1>5, <2>1, <2>2
<1>6. CASE part # 0
  <2>1. 1 \in 1..Len(rest)
    BY <1>1, <1>2, <1>3, <1>6 DEF WritevInside
  <2>2. PICK new : new = [rest[1] EXCEPT !.offset = @ + part]
    OBVIOUS
  <2>3. Consumed = [rest EXCEPT ![1] = new]
    BY <1>6, <2>2 DEF Consumed, rest
  <2>4. rest[1] \in Chunk
    BY <1>4, <2>1
  <2>5. /\ new \in Chunk
        /\ new.first = rest[1].first /\ new.length = rest[1].length
        /\ new.sequence = rest[1].sequence /\ new.end = rest[1].end
        /\ new.offset = rest[1].offset + part
    <3>1. rest[1].offset + part \in Nat
      BY <1>1, <2>4 DEF Chunk
    <3>2. QED BY <2>2, <2>4, <3>1 DEF Chunk
  <2>6. /\ Consumed \in Seq(Chunk) /\ Len(Consumed) = Len(rest)
        /\ Consumed[1] = new
        /\ \A i \in 1..Len(rest) : i # 1 => Consumed[i] = rest[i]
    BY <1>3, <2>1, <2>3, <2>5, ExceptSeq
  <2>7. \A i \in 1..Len(rest) : rest[i].offset \in Nat
    BY <1>4 DEF Chunk
  <2>8. QED BY <1>1, <1>3, <2>5, <2>6, <2>7
<1>7. QED BY <1>5, <1>6

\* consume_written returns 0 or the sequence number of a chunk it released.
LEMMA CompletedFacts ==
    ASSUME StreamTiled
    PROVE  \/ CompletedSequence = 0
           \/ \E i \in 1..full : /\ i \in 1..Len(queue) /\ queue[i].end
                                 /\ CompletedSequence = queue[i].sequence
<1> DEFINE E == {i \in 1..full : queue[i].end}
<1>1. full \in Nat /\ iov \in Nat /\ full <= iov /\ iov <= Len(queue)
      /\ Len(queue) \in Nat
  BY FieldTypes DEF StreamTiled, TypeOK, WriterTypeOK, WritevInside
<1>2. CASE E # {}
  <2>1. \E n \in E : \A m \in E : m <= n
    <3>1. E \subseteq 0..full
      BY <1>1
    <3> HIDE DEF E
    <3>2. QED BY <1>1, <1>2, <3>1, Maximum
  <2>2. \E i \in 1..full : /\ queue[i].end
                           /\ \A j \in (i + 1)..full : ~queue[j].end
    BY <1>1, <2>1
  <2>3. PICK i \in 1..full : queue[i].end /\ CompletedSequence = queue[i].sequence
    BY <2>2 DEF CompletedSequence
  <2>4. QED BY <1>1, <2>3
<1>3. CASE E = {}
  BY <1>3 DEF CompletedSequence
<1>4. QED BY <1>2, <1>3

\* consume_written returns a sequence number that was assigned.
LEMMA CompletedType ==
    ASSUME StreamTiled
    PROVE  CompletedSequence \in Nat /\ CompletedSequence <= Len(ends)
<1>1. TypeOK /\ SequencesAssigned
  BY DEF StreamTiled
<1>2. Len(ends) \in Nat /\ \A i \in 1..Len(queue) : queue[i].sequence \in Nat
  BY <1>1, FieldTypes
<1>3. QED BY <1>1, <1>2, CompletedFacts DEF SequencesAssigned

-----------------------------------------------------------------------------
(* Type correctness, one lemma for each part of TypeOK *)

\* The file, its durable prefix and the records keep their types.
LEMMA FileTypes ==
    ASSUME StreamTiled, Next
    PROVE  FileTypeOK'
<1> USE DEF vars, fileVars, queueVars, seqVars, prodVars, pauseVars,
            writerVars, syncVars, crashVars
<1>1. CASE UNCHANGED <<file, durable, recs, torn, copied, ends>>
  BY <1>1 DEF StreamTiled, TypeOK, FileTypeOK
<1>2. CASE TransactionCommit
  <2>1. copied + txn.used \in Nat /\ FileTypeOK
    BY FieldTypes DEF StreamTiled, TypeOK, FileTypeOK
  <2>2. /\ ends' = ends \/ ends' = Append(ends, copied + txn.used)
        /\ UNCHANGED <<file, durable, recs, torn, copied>>
    BY <1>2 DEF TransactionCommit
  <2>3. ends' \in Seq(Nat)
    BY <2>1, <2>2, AppendProperties, SMTT(20) DEF FileTypeOK
  <2>4. QED BY <2>1, <2>2, <2>3 DEF FileTypeOK
<1>3. CASE CommitAllocFails
  <2>1. FileTypeOK /\ Len(ends) \in Nat \ {0}
    BY <1>3, FieldTypes
       DEF CommitAllocFails, StreamTiled, TypeOK, ReactorAgrees
  <2>2. PICK e \in Nat : ends' = [ends EXCEPT ![Len(ends)] = e]
    <3>1. Len(ends) # 1 => ends[Len(ends) - 1] \in Nat
      <4>1. \A n \in Nat \ {0} : n # 1 => n - 1 \in 1..n
        OBVIOUS
      <4>2. QED BY <2>1, <4>1, ElementOfSeq DEF FileTypeOK
    <3>2. (IF Len(ends) = 1 THEN 0 ELSE ends[Len(ends) - 1]) \in Nat
      BY <3>1
    <3>3. QED BY <1>3, <3>2 DEF CommitAllocFails
  <2>3. ends' \in Seq(Nat)
    BY <2>1, <2>2, ExceptSeq DEF FileTypeOK
  <2>4. torn' \in SUBSET Nat /\ UNCHANGED <<file, durable, recs, copied>>
    BY <1>3, <2>1 DEF CommitAllocFails, FileTypeOK
  <2>5. QED BY <2>1, <2>3, <2>4 DEF FileTypeOK
<1>4. CASE CheckpointBegin
  BY <1>4, AofAssumption
     DEF CheckpointBegin, CanAcceptWrite, WriterTypeOK, SequenceTypeOK,
         StreamTiled, TypeOK, FileTypeOK
<1>5. CASE CommitCopy
  <2>1. /\ FileTypeOK /\ CopyAmount \in Nat /\ pos \in Nat
        /\ txn.recs \in SUBSET Nat
    BY <1>5, CopyFacts, FieldTypes
       DEF CommitCopy, StreamTiled, TypeOK, BufferTypeOK
  <2>2. copied' \in Nat /\ UNCHANGED <<file, durable, torn, ends>>
    BY <1>5, <2>1 DEF CommitCopy, FileTypeOK
  <2>3. Placed(txn, pos, pos + CopyAmount, copied) \in SUBSET Nat
    <3>1. pos + CopyAmount \in Nat /\ copied \in Nat
      BY <2>1 DEF FileTypeOK
    <3>2. QED BY <2>1, <3>1, PlacedType
  <2>4. recs' \in SUBSET Nat
    BY <1>5, <2>1, <2>3 DEF CommitCopy, FileTypeOK
  <2>5. QED BY <2>1, <2>2, <2>4 DEF FileTypeOK
<1>6. CASE FlushPending
  <2>1. /\ FileTypeOK /\ pending.used \in Nat /\ pending.recs \in SUBSET Nat
    BY FieldTypes DEF StreamTiled, TypeOK
  <2>2. /\ copied' \in Nat /\ ends' \in Seq(Nat)
        /\ UNCHANGED <<file, durable, torn>>
    BY <1>6, <2>1 DEF FlushPending, FileTypeOK
  <2>3. Placed(pending, 0, pending.used, copied) \in SUBSET Nat
    BY <2>1, PlacedType DEF FileTypeOK
  <2>4. recs' \in SUBSET Nat
    BY <1>6, <2>1, <2>3 DEF FlushPending, FileTypeOK
  <2>5. QED BY <2>1, <2>2, <2>4 DEF FileTypeOK
<1>7. CASE CheckpointSyncDone
  <2>1. FileTypeOK /\ syncLen \in Nat
    BY DEF StreamTiled, TypeOK, WriterTypeOK
  <2>2. durable' \in Nat /\ UNCHANGED <<file, recs, torn, copied, ends>>
    BY <1>7, <2>1 DEF CheckpointSyncDone, Greatest, FileTypeOK
  <2>3. QED BY <2>1, <2>2 DEF FileTypeOK
<1>8. CASE WritevChunk
  <2>1. FileTypeOK /\ full + 1 \in 1..Len(queue)
    <3>1. FileTypeOK /\ full \in Nat /\ iov \in Nat
      BY DEF StreamTiled, TypeOK, WriterTypeOK
    <3>2. Len(queue) \in Nat /\ iov <= Len(queue)
      BY FieldTypes DEF StreamTiled, WritevInside
    <3>3. full < iov
      BY <1>8 DEF WritevChunk
    <3>4. QED BY <3>1, <3>2, <3>3
  <2>2. PICK f \in Nat, n \in Nat : file' = file \o [i \in 1..n |-> f + i]
    <3>1. /\ queue[full + 1].first + queue[full + 1].offset \in Nat
          /\ queue[full + 1].length \in Nat /\ queue[full + 1].offset \in Nat
      BY <2>1, FieldTypes, SMTT(20) DEF StreamTiled
    <3>2. PICK n \in 1..(queue[full + 1].length - queue[full + 1].offset) :
            file' = file \o [i \in 1..n |-> queue[full + 1].first
                                             + queue[full + 1].offset + i]
      BY <1>8 DEF WritevChunk
    <3>3. n \in Nat
      BY <3>1
    <3>4. QED BY <3>1, <3>2, <3>3
  <2>3. [i \in 1..n |-> f + i] \in Seq(Nat)
    OBVIOUS
  <2>4. file' \in Seq(Nat)
    BY <2>1, <2>2, <2>3, ConcatProperties DEF FileTypeOK
  <2>5. UNCHANGED <<durable, recs, torn, copied, ends>>
    BY <1>8 DEF WritevChunk
  <2>6. QED BY <2>1, <2>4, <2>5 DEF FileTypeOK
<1>9. CASE WriterSyncDone
  <2>1. FileTypeOK /\ syncLen \in Nat
    BY DEF StreamTiled, TypeOK, WriterTypeOK
  <2>2. durable' \in Nat /\ UNCHANGED <<file, recs, torn, copied, ends>>
    BY <1>9, <2>1 DEF WriterSyncDone, Greatest, FileTypeOK
  <2>3. QED BY <2>1, <2>2 DEF FileTypeOK
<1>10. CASE Crash
  <2>1. FileTypeOK /\ Len(file) \in Nat
    BY FieldTypes DEF StreamTiled, TypeOK
  <2>2. file' \in Seq(Nat)
    BY <1>10, <2>1 DEF Crash, FileTypeOK
  <2>3. QED
    BY <1>10, <2>1, <2>2 DEF Crash, ForgetMemory, FileTypeOK
<1>11. CASE Restart
  <2>1. FileTypeOK /\ Len(file) \in Nat
    BY FieldTypes DEF StreamTiled, TypeOK
  <2>2. PICK sound \in 0..Len(file), keep \in 0..Len(file) :
          Reopen(sound, keep)
    BY <1>11, RestartFacts DEF StreamTiled
  <2>3. SubSeq(file, 1, keep) \in Seq(Nat) /\ keep \in Nat
    BY <2>1 DEF FileTypeOK
  <2>4. /\ file' \in Seq(Nat) /\ durable' \in Nat /\ recs' \in SUBSET Nat
        /\ torn' \in SUBSET Nat /\ copied' \in Nat
    BY <2>1, <2>2, <2>3 DEF Reopen, Least, FileTypeOK
  <2>5. ends' \in Seq(Nat)
    BY <1>11, EmptySeq DEF Restart, ForgetMemory
  <2>6. QED BY <2>4, <2>5 DEF FileTypeOK
<1> QED
  BY <1>1, <1>2, <1>3, <1>4, <1>5, <1>6, <1>7, <1>8, <1>9, <1>10, <1>11
     DEF TransactionBegin, TransactionRollback, AofAppend, FlushAllocFails,
         Flush, CloseBegin, FlushReturn, CheckpointQueue, CheckpointWritten,
         CheckpointSyncStart, CheckpointDone, PauseReturn, ResumeAfterFork,
         CloseStop, CloseJoin, WriterPause, WriterResume, WriterStop,
         WriterGather, ConsumeWritten, PublishAlways, WriterSyncStart,
         WriterTimeout, WritevFails, RestartRefused, QueueChunks,
         QueueProducer, Next, ReactorWaits, Writer, LeaveLoop, Publish,
         WriterSynced

\* A missing chunk has the type of a chunk.
LEMMA NoChunkType == NoChunk \in Chunk
BY DEF NoChunk, Chunk

\* The queue and queue_bytes keep their types.
LEMMA QueueTypes ==
    ASSUME StreamTiled, Next
    PROVE  QueueTypeOK'
<1> USE DEF vars, fileVars, queueVars, seqVars, prodVars, pauseVars,
            writerVars, syncVars, crashVars
<1>1. CASE UNCHANGED <<queue, queueBytes, producer, free, backpressured>>
  BY <1>1 DEF StreamTiled, TypeOK, QueueTypeOK
<1>2. CASE FlushAllocFails
  BY <1>2, AofAssumption
     DEF FlushAllocFails, FlushReturns, StreamTiled, TypeOK, QueueTypeOK
<1>3. CASE Flush
  <2>1. QueueTypeOK /\ producer.length \in Nat
    BY FieldTypes DEF StreamTiled, TypeOK
  <2>2. CASE producer.length > 0
    <3>1. /\ queue' = Append(queue, producer)
          /\ queueBytes' = queueBytes + producer.length
          /\ producer' = NoChunk /\ free' = free
      BY <1>3, <2>2 DEF Flush, QueueProducer, QueueChunks
    <3>2. backpressured' \in BOOLEAN
      BY <1>3, <2>2, Zenon DEF Flush, QueueProducer, QueueChunks
    <3>3. QED BY <2>1, <3>1, <3>2, NoChunkType DEF QueueTypeOK
  <2>3. CASE ~(producer.length > 0)
    BY <1>3, <2>1, <2>3 DEF Flush, QueueProducer, queueVars, QueueTypeOK
  <2>4. QED BY <2>2, <2>3
<1>4. CASE CommitCopy
  <2>1. /\ QueueTypeOK /\ FilledChunk \in Chunk /\ FilledChunk.length \in Nat
    BY <1>4, CopyFacts DEF CommitCopy, StreamTiled, TypeOK, Chunk
  <2>2. free' \in Nat
    BY <1>4, <2>1 DEF CommitCopy, QueueTypeOK
  <2>3. CASE FilledChunk.length = ChunkCapacity
    <3>1. /\ queue' = Append(queue, FilledChunk)
          /\ queueBytes' = queueBytes + FilledChunk.length
          /\ producer' = NoChunk
      BY <1>4, <2>3 DEF CommitCopy, QueueChunks
    <3>2. backpressured' \in BOOLEAN
      BY <1>4, <2>3, Zenon DEF CommitCopy, QueueChunks
    <3>3. QED BY <2>1, <2>2, <3>1, <3>2, NoChunkType DEF QueueTypeOK
  <2>4. CASE FilledChunk.length # ChunkCapacity
    <3>1. /\ producer' = FilledChunk
          /\ UNCHANGED <<queue, queueBytes, backpressured>>
      BY <1>4, <2>4 DEF CommitCopy
    <3>2. QED BY <2>1, <2>2, <3>1 DEF QueueTypeOK
  <2>5. QED BY <2>3, <2>4
<1>5. CASE FlushPending
  <2>1. /\ QueueTypeOK /\ PendingCount \in Nat /\ pending.used \in Nat
        /\ \A i \in 1..PendingCount : PendingChunk(i) \in Chunk
    BY <1>5, PendingFacts, FieldTypes DEF FlushPending, StreamTiled, TypeOK
  <2>2. [i \in 1..PendingCount |-> PendingChunk(i)] \in Seq(Chunk)
    BY <2>1
  <2>3. /\ queue' = queue \o [i \in 1..PendingCount |-> PendingChunk(i)]
        /\ queueBytes' = queueBytes + pending.used
        /\ free' = IF PendingCount > free THEN 0 ELSE free - PendingCount
        /\ producer' = producer
    BY <1>5 DEF FlushPending, QueueChunks
  <2>4. queue' \in Seq(Chunk)
    BY <2>1, <2>2, <2>3, ConcatProperties DEF QueueTypeOK
  <2>5. free' \in Nat /\ queueBytes' \in Nat
    BY <2>1, <2>3 DEF QueueTypeOK
  <2>6. backpressured' \in BOOLEAN
    BY <1>5, Zenon DEF FlushPending, QueueChunks
  <2>7. QED BY <2>1, <2>3, <2>4, <2>5, <2>6 DEF QueueTypeOK
<1>6. CASE CheckpointQueue
  <2>1. QueueTypeOK /\ producer.length \in Nat
    BY FieldTypes DEF StreamTiled, TypeOK
  <2>2. CASE producer.length > 0
    <3>1. /\ queue' = Append(queue, producer)
          /\ queueBytes' = queueBytes + producer.length
          /\ producer' = NoChunk /\ free' = free
      BY <1>6, <2>2 DEF CheckpointQueue, QueueProducer, QueueChunks
    <3>2. backpressured' \in BOOLEAN
      BY <1>6, <2>2, Zenon DEF CheckpointQueue, QueueProducer, QueueChunks
    <3>3. QED BY <2>1, <3>1, <3>2, NoChunkType DEF QueueTypeOK
  <2>3. CASE ~(producer.length > 0)
    BY <1>6, <2>1, <2>3
       DEF CheckpointQueue, QueueProducer, queueVars, QueueTypeOK
  <2>4. QED BY <2>2, <2>3
<1>7. CASE ConsumeWritten
  <2>1. /\ QueueTypeOK /\ Transferred \in Nat /\ Transferred <= queueBytes
        /\ Consumed \in Seq(Chunk) /\ full \in Nat
    BY <1>7, TransferredFacts, ConsumedFacts
       DEF ConsumeWritten, StreamTiled, TypeOK, WriterTypeOK
  <2>2. /\ queue' = Consumed /\ queueBytes' = queueBytes - Transferred
        /\ free' = free + full /\ producer' = producer
    BY <1>7 DEF ConsumeWritten
  <2>3. queueBytes' \in Nat /\ free' \in Nat
    BY <2>1, <2>2 DEF QueueTypeOK
  <2>4. backpressured' \in BOOLEAN
    BY <1>7, Zenon DEF ConsumeWritten
  <2>5. QED BY <2>1, <2>2, <2>3, <2>4 DEF QueueTypeOK
<1>8. CASE Crash
  <2>1. /\ queue' = <<>> /\ queueBytes' = 0 /\ producer' = NoChunk
        /\ free' = 0 /\ backpressured' = FALSE
    BY <1>8 DEF Crash, ForgetMemory
  <2>2. queue' \in Seq(Chunk)
    BY <2>1, EmptySeq
  <2>3. QED BY <2>1, <2>2, NoChunkType DEF QueueTypeOK
<1>9. CASE Restart
  <2>1. /\ queue' = <<>> /\ queueBytes' = 0 /\ producer' = NoChunk
        /\ free' = 0 /\ backpressured' = FALSE
    BY <1>9 DEF Restart, ForgetMemory
  <2>2. queue' \in Seq(Chunk)
    BY <2>1, EmptySeq
  <2>3. QED BY <2>1, <2>2, NoChunkType DEF QueueTypeOK
<1> QED
  BY <1>1, <1>2, <1>3, <1>4, <1>5, <1>6, <1>7, <1>8, <1>9
     DEF TransactionBegin, TransactionRollback, TransactionCommit, AofAppend,
         CommitAllocFails, CheckpointBegin, CloseBegin, FlushReturn,
         CheckpointWritten, CheckpointSyncStart, CheckpointSyncDone,
         CheckpointDone, PauseReturn, ResumeAfterFork, CloseStop, CloseJoin,
         WriterPause, WriterResume, WriterStop, WriterGather, WritevChunk,
         PublishAlways, WriterSyncStart, WriterSyncDone, WriterTimeout,
         WritevFails, RestartRefused, Next, ReactorWaits, Writer, LeaveLoop,
         Publish, WriterSynced

\* The published sequence numbers keep their types.
LEMMA SequenceTypes ==
    ASSUME StreamTiled, Next
    PROVE  SequenceTypeOK'
<1> USE DEF vars, fileVars, queueVars, seqVars, prodVars, pauseVars,
            writerVars, syncVars, crashVars
<1>1. CASE UNCHANGED <<written, synced, error, promised>>
  BY <1>1 DEF StreamTiled, TypeOK, SequenceTypeOK, FileTypeOK, WriterTypeOK
<1>2. CASE CheckpointSyncDone
  BY <1>2, AofAssumption
     DEF CheckpointSyncDone, Greatest, StreamTiled, TypeOK, SequenceTypeOK,
         FileTypeOK, WriterTypeOK
<1>3. CASE ConsumeWritten
  <2>1. /\ SequenceTypeOK /\ FileTypeOK /\ CompletedSequence \in Nat
        /\ CompletedSequence <= Len(ends) /\ Len(ends) \in Nat
    BY CompletedType, FieldTypes
       DEF StreamTiled, TypeOK, WriterTypeOK, SequencesAssigned
  <2>2. CompletedSequence > written => ends[CompletedSequence] \in Nat
    BY <2>1 DEF SequenceTypeOK, FileTypeOK
  <2>3. Publish(CompletedSequence) => written' \in Nat /\ promised' \in Nat
    BY <2>1, <2>2 DEF Publish, Greatest, SequenceTypeOK
  <2>4. UNCHANGED <<synced, error>>
    BY <1>3 DEF ConsumeWritten
  <2>5. Publish(CompletedSequence) \/ UNCHANGED <<written, promised>>
    BY <1>3 DEF ConsumeWritten
  <2>6. QED BY <2>1, <2>3, <2>4, <2>5 DEF SequenceTypeOK
<1>4. CASE PublishAlways
  <2>1. /\ SequenceTypeOK /\ FileTypeOK /\ target \in Nat
        /\ target <= Len(ends) /\ Len(ends) \in Nat
    BY CompletedType, FieldTypes
       DEF StreamTiled, TypeOK, WriterTypeOK, SequencesAssigned
  <2>2. target > written => ends[target] \in Nat
    BY <2>1 DEF SequenceTypeOK, FileTypeOK
  <2>3. Publish(target) => written' \in Nat /\ promised' \in Nat
    BY <2>1, <2>2 DEF Publish, Greatest, SequenceTypeOK
  <2>4. UNCHANGED <<synced, error>>
    BY <1>4 DEF PublishAlways
  <2>5. Publish(target) \/ UNCHANGED <<written, promised>>
    BY <1>4 DEF PublishAlways
  <2>6. QED BY <2>1, <2>3, <2>4, <2>5 DEF SequenceTypeOK
<1>5. CASE WriterSyncDone
  BY <1>5, AofAssumption
     DEF WriterSyncDone, WriterSynced, Greatest, StreamTiled, TypeOK,
         SequenceTypeOK, FileTypeOK, WriterTypeOK
<1>6. CASE WritevFails
  BY <1>6, AofAssumption
     DEF WritevFails, LeaveLoop, SyncTarget, StreamTiled, TypeOK,
         SequenceTypeOK, FileTypeOK, WriterTypeOK
<1>7. CASE Crash
  BY <1>7, AofAssumption
     DEF Crash, ForgetMemory, NoChunk, EmptyBuffer, Idle, StreamTiled,
         TypeOK, SequenceTypeOK, FileTypeOK, WriterTypeOK
<1>8. CASE Restart
  <2>1. PICK sound \in 0..Len(file) :
          promised' = promised \/ promised' = Least(promised, sound)
    BY <1>8, RestartFacts DEF StreamTiled
  <2>2. promised' \in Nat
    BY <2>1 DEF Least, StreamTiled, TypeOK, SequenceTypeOK
  <2>3. QED
    BY <1>8, <2>2 DEF Restart, ForgetMemory, SequenceTypeOK
<1> QED
  BY <1>1, <1>2, <1>3, <1>4, <1>5, <1>6, <1>7, <1>8
     DEF TransactionBegin, TransactionRollback, TransactionCommit, AofAppend,
         CommitAllocFails, FlushAllocFails, Flush, CheckpointBegin,
         CloseBegin, CommitCopy, FlushPending, FlushReturn, CheckpointQueue,
         CheckpointWritten, CheckpointSyncStart, CheckpointDone, PauseReturn,
         ResumeAfterFork, CloseStop, CloseJoin, WriterPause, WriterResume,
         WriterStop, WriterGather, WritevChunk, WriterSyncStart,
         WriterTimeout, RestartRefused, QueueChunks, QueueProducer, Next,
         ReactorWaits, Writer, LeaveLoop, WriterSynced

\* The pending and transaction buffers keep their types.
LEMMA BufferTypes ==
    ASSUME StreamTiled, Next
    PROVE  BufferTypeOK'
<1> USE DEF vars, fileVars, queueVars, seqVars, prodVars, pauseVars,
            writerVars, syncVars, crashVars
<1>1. CASE UNCHANGED <<pending, txn, pos, marks>>
  BY <1>1 DEF StreamTiled, TypeOK, BufferTypeOK, FileTypeOK, Buffer
<1>2. CASE TransactionBegin
  BY <1>2, AofAssumption
     DEF TransactionBegin, Idle, CanAcceptWrite, StreamTiled, TypeOK,
         BufferTypeOK, FileTypeOK, Buffer
<1>3. CASE TransactionRollback
  BY <1>3, AofAssumption
     DEF TransactionRollback, Idle, StreamTiled, TypeOK, BufferTypeOK,
         FileTypeOK, Buffer
<1>4. CASE TransactionCommit
  <2>1. BufferTypeOK /\ Idle \in [active: BOOLEAN, used: Nat, recs: SUBSET Nat]
    BY DEF StreamTiled, TypeOK, Idle
  <2>2. /\ txn' = txn \/ txn' = Idle
        /\ pos' = pos \/ pos' = 0
        /\ UNCHANGED <<pending, marks>>
    BY <1>4 DEF TransactionCommit
  <2>3. QED BY <2>1, <2>2 DEF BufferTypeOK
<1>5. CASE \E size \in RecordSizes : AofAppend(size)
  <2>1. /\ BufferTypeOK /\ txn.used \in Nat /\ txn.recs \in SUBSET Nat
        /\ pending.used \in Nat /\ pending.recs \in SUBSET Nat
    BY FieldTypes DEF StreamTiled, TypeOK
  <2>2. PICK size \in RecordSizes : AofAppend(size)
    BY <1>5
  <2>3. size \in Nat
    BY AofAssumption
  <2>4. UNCHANGED <<pos, marks>>
    BY <2>2 DEF AofAppend
  <2>5. PICK u \in Nat, r \in SUBSET Nat :
           \/ txn' = [txn EXCEPT !.used = u, !.recs = r] /\ pending' = pending
           \/ pending' = [used |-> u, recs |-> r] /\ txn' = txn
    <3>1. CASE txn.active
      <4>1. txn' = [txn EXCEPT !.used = txn.used + size,
                               !.recs = txn.recs \cup {txn.used + size}]
            /\ pending' = pending
        BY <2>2, <3>1 DEF AofAppend
      <4>2. /\ txn.used + size \in Nat
            /\ txn.recs \cup {txn.used + size} \in SUBSET Nat
        BY <2>1, <2>3
      <4>3. QED BY <4>1, <4>2
    <3>2. CASE ~txn.active
      <4>1. pending' = [used |-> pending.used + size,
                        recs |-> pending.recs \cup {pending.used + size}]
            /\ txn' = txn
        BY <2>2, <3>2 DEF AofAppend
      <4>2. /\ pending.used + size \in Nat
            /\ pending.recs \cup {pending.used + size} \in SUBSET Nat
        BY <2>1, <2>3
      <4>3. QED BY <4>1, <4>2
    <3>3. QED BY <3>1, <3>2
  <2>6. txn' \in [active: BOOLEAN, used: Nat, recs: SUBSET Nat]
    BY <2>1, <2>5 DEF BufferTypeOK
  <2>7. pending' \in Buffer
    BY <2>1, <2>5 DEF BufferTypeOK, Buffer
  <2>8. QED BY <2>1, <2>4, <2>6, <2>7 DEF BufferTypeOK
<1>6. CASE CommitAllocFails
  BY <1>6, AofAssumption
     DEF CommitAllocFails, Idle, StreamTiled, TypeOK, BufferTypeOK,
         FileTypeOK, Buffer
<1>7. CASE CheckpointBegin
  BY <1>7, AofAssumption
     DEF CheckpointBegin, CanAcceptWrite, StreamTiled, TypeOK, BufferTypeOK,
         FileTypeOK, Buffer
<1>8. CASE CloseBegin
  BY <1>8, AofAssumption
     DEF CloseBegin, Idle, StreamTiled, TypeOK, BufferTypeOK, FileTypeOK,
         Buffer
<1>9. CASE CommitCopy
  <2>1. /\ BufferTypeOK /\ CopyAmount \in Nat
        /\ Idle \in [active: BOOLEAN, used: Nat, recs: SUBSET Nat]
    BY <1>9, CopyFacts DEF CommitCopy, StreamTiled, TypeOK, Idle
  <2>2. /\ txn' = txn \/ txn' = Idle
        /\ pos' = 0 \/ pos' = pos + CopyAmount
        /\ UNCHANGED <<pending, marks>>
    BY <1>9 DEF CommitCopy
  <2>3. QED BY <2>1, <2>2 DEF BufferTypeOK
<1>10. CASE FlushPending
  BY <1>10, AofAssumption
     DEF FlushPending, QueueChunks, Placed, EmptyBuffer, Least, StreamTiled,
         TypeOK, BufferTypeOK, FileTypeOK, Buffer
<1>11. CASE CheckpointDone
  <2>1. Len(file) \in Nat /\ BufferTypeOK
    BY FieldTypes DEF StreamTiled, TypeOK
  <2>2. UNCHANGED <<pending, txn, pos>> /\ marks' = marks \cup {Len(file)}
    BY <1>11 DEF CheckpointDone
  <2>3. QED BY <2>1, <2>2 DEF BufferTypeOK
<1>12. CASE Crash
  BY <1>12, AofAssumption
     DEF Crash, ForgetMemory, NoChunk, EmptyBuffer, Idle, StreamTiled,
         TypeOK, BufferTypeOK, FileTypeOK, Buffer
<1>13. CASE Restart
  <2>1. PICK sound \in 0..Len(file) :
          marks' = marks \/ marks' = {m \in marks : m <= sound}
    BY <1>13, RestartFacts DEF StreamTiled
  <2>2. marks' \in SUBSET Nat
    BY <2>1 DEF StreamTiled, TypeOK, BufferTypeOK
  <2>3. QED
    BY <1>13, <2>2
       DEF Restart, ForgetMemory, EmptyBuffer, Idle, BufferTypeOK, Buffer
<1> QED
  BY <1>1, <1>2, <1>3, <1>4, <1>5, <1>6, <1>7, <1>8, <1>9, <1>10, <1>11,
     <1>12, <1>13
     DEF FlushAllocFails, Flush, FlushReturn, CheckpointQueue,
         CheckpointWritten, CheckpointSyncStart, CheckpointSyncDone,
         PauseReturn, ResumeAfterFork, CloseStop, CloseJoin, WriterPause,
         WriterResume, WriterStop, WriterGather, WritevChunk, ConsumeWritten,
         PublishAlways, WriterSyncStart, WriterSyncDone, WriterTimeout,
         WritevFails, RestartRefused, QueueChunks, QueueProducer, Next,
         ReactorWaits, Writer, LeaveLoop, Publish, WriterSynced

\* The program counters and flags of the two threads keep their types.
LEMMA ThreadTypes ==
    ASSUME StreamTiled, Next
    PROVE  ThreadTypeOK'
<1> USE DEF vars, fileVars, queueVars, seqVars, prodVars, pauseVars,
            writerVars, syncVars, crashVars
<1>1. CASE UNCHANGED <<rpc, call, wpc, syncer, pauseReq, paused, stopping>>
  BY <1>1 DEF StreamTiled, TypeOK, ThreadTypeOK
<1>2. CASE TransactionCommit
  BY <1>2, AofAssumption
     DEF TransactionCommit, Idle, StreamTiled, TypeOK, ThreadTypeOK
<1>3. CASE CommitAllocFails
  BY <1>3, AofAssumption
     DEF CommitAllocFails, Idle, StreamTiled, TypeOK, ThreadTypeOK
<1>4. CASE FlushAllocFails
  BY <1>4, AofAssumption
     DEF FlushAllocFails, FlushReturns, StreamTiled, TypeOK, ThreadTypeOK
<1>5. CASE Flush
  BY <1>5, AofAssumption
     DEF Flush, QueueProducer, QueueChunks, FlushReturns, StreamTiled,
         TypeOK, ThreadTypeOK
<1>6. CASE CheckpointBegin
  BY <1>6, AofAssumption
     DEF CheckpointBegin, CanAcceptWrite, StreamTiled, TypeOK, ThreadTypeOK
<1>7. CASE CloseBegin
  BY <1>7, AofAssumption
     DEF CloseBegin, Idle, StreamTiled, TypeOK, ThreadTypeOK
<1>8. CASE CommitCopy
  BY <1>8, AofAssumption
     DEF CommitCopy, QueueChunks, Placed, Least, Idle, NoChunk, StreamTiled,
         TypeOK, ThreadTypeOK
<1>9. CASE FlushPending
  BY <1>9, AofAssumption
     DEF FlushPending, QueueChunks, Placed, EmptyBuffer, Least, StreamTiled,
         TypeOK, ThreadTypeOK
<1>10. CASE FlushReturn
  BY <1>10, AofAssumption
     DEF FlushReturn, FlushReturns, WaitOver, StreamTiled, TypeOK,
         ThreadTypeOK
<1>11. CASE CheckpointQueue
  BY <1>11, AofAssumption
     DEF CheckpointQueue, QueueProducer, QueueChunks, StreamTiled, TypeOK,
         ThreadTypeOK
<1>12. CASE CheckpointWritten
  BY <1>12, AofAssumption
     DEF CheckpointWritten, WaitOver, StreamTiled, TypeOK, ThreadTypeOK
<1>13. CASE CheckpointSyncStart
  BY <1>13, AofAssumption
     DEF CheckpointSyncStart, NothingToSync, StreamTiled, TypeOK,
         ThreadTypeOK
<1>14. CASE CheckpointSyncDone
  BY <1>14, AofAssumption
     DEF CheckpointSyncDone, Greatest, StreamTiled, TypeOK, ThreadTypeOK
<1>15. CASE CheckpointDone
  BY <1>15, AofAssumption DEF CheckpointDone, StreamTiled, TypeOK, ThreadTypeOK
<1>16. CASE PauseReturn
  BY <1>16, AofAssumption
     DEF PauseReturn, PauseOver, StreamTiled, TypeOK, ThreadTypeOK
<1>17. CASE ResumeAfterFork
  BY <1>17, AofAssumption
     DEF ResumeAfterFork, StreamTiled, TypeOK, ThreadTypeOK
<1>18. CASE CloseStop
  BY <1>18, AofAssumption DEF CloseStop, StreamTiled, TypeOK, ThreadTypeOK
<1>19. CASE CloseJoin
  BY <1>19, AofAssumption DEF CloseJoin, StreamTiled, TypeOK, ThreadTypeOK
<1>20. CASE WriterPause
  BY <1>20, AofAssumption
     DEF WriterPause, HeldByPause, StreamTiled, TypeOK, ThreadTypeOK
<1>21. CASE WriterResume
  BY <1>21, AofAssumption
     DEF WriterResume, HeldByPause, StreamTiled, TypeOK, ThreadTypeOK
<1>22. CASE WriterStop
  BY <1>22, AofAssumption
     DEF WriterStop, LeaveLoop, SyncTarget, StreamTiled, TypeOK, ThreadTypeOK
<1>23. CASE WriterGather
  BY <1>23, AofAssumption
     DEF WriterGather, HeldByPause, Least, StreamTiled, TypeOK, ThreadTypeOK
<1>24. CASE ConsumeWritten
  BY <1>24, AofAssumption
     DEF ConsumeWritten, Publish, Greatest, StreamTiled, TypeOK, ThreadTypeOK
<1>25. CASE PublishAlways
  BY <1>25, AofAssumption
     DEF PublishAlways, Publish, Greatest, StreamTiled, TypeOK, ThreadTypeOK
<1>26. CASE WriterSyncStart
  BY <1>26, AofAssumption
     DEF WriterSyncStart, NothingToSync, WriterSynced, StreamTiled, TypeOK,
         ThreadTypeOK
<1>27. CASE WriterSyncDone
  <2>1. ThreadTypeOK /\ wpc \in {"syncAlways", "syncIdle", "syncLast"}
    BY <1>27 DEF WriterSyncDone, StreamTiled, TypeOK, ThreadsAgree
  <2>2. /\ wpc' \in {"publish", "loop", "exit"} /\ syncer' = "none"
        /\ UNCHANGED <<rpc, call, pauseReq, paused, stopping>>
    BY <1>27, <2>1 DEF WriterSyncDone, WriterSynced, prodVars, pauseVars
  <2>3. QED BY <2>1, <2>2 DEF ThreadTypeOK
<1>28. CASE WriterTimeout
  BY <1>28, AofAssumption
     DEF WriterTimeout, HeldByPause, SyncTarget, StreamTiled, TypeOK,
         ThreadTypeOK
<1>29. CASE WritevFails
  BY <1>29, AofAssumption
     DEF WritevFails, LeaveLoop, SyncTarget, StreamTiled, TypeOK,
         ThreadTypeOK
<1>30. CASE Crash
  BY <1>30, AofAssumption
     DEF Crash, ForgetMemory, NoChunk, EmptyBuffer, Idle, StreamTiled,
         TypeOK, ThreadTypeOK
<1>31. CASE Restart
  BY <1>31, AofAssumption
     DEF Restart, ForgetMemory, NoChunk, EmptyBuffer, Idle, Least,
         StreamTiled, TypeOK, ThreadTypeOK
<1> QED
  BY <1>1, <1>2, <1>3, <1>4, <1>5, <1>6, <1>7, <1>8, <1>9, <1>10, <1>11,
     <1>12, <1>13, <1>14, <1>15, <1>16, <1>17, <1>18, <1>19, <1>20, <1>21,
     <1>22, <1>23, <1>24, <1>25, <1>26, <1>27, <1>28, <1>29, <1>30, <1>31
     DEF TransactionBegin, TransactionRollback, AofAppend, WritevChunk,
         RestartRefused, Next, ReactorWaits, Writer

\* The writev in progress and the sync target keep their types.
LEMMA WriterTypes ==
    ASSUME StreamTiled, Next
    PROVE  WriterTypeOK'
<1> USE DEF vars, fileVars, queueVars, seqVars, prodVars, pauseVars,
            writerVars, syncVars, crashVars
<1>1. CASE UNCHANGED <<iov, full, part, target, syncLen>>
  BY <1>1
     DEF StreamTiled, TypeOK, WriterTypeOK, FileTypeOK, QueueTypeOK,
         SequenceTypeOK
<1>2. CASE CheckpointSyncStart
  BY <1>2, AofAssumption
     DEF CheckpointSyncStart, NothingToSync, StreamTiled, TypeOK,
         WriterTypeOK, FileTypeOK, QueueTypeOK, SequenceTypeOK
<1>3. CASE CheckpointSyncDone
  BY <1>3, AofAssumption
     DEF CheckpointSyncDone, Greatest, StreamTiled, TypeOK, WriterTypeOK,
         FileTypeOK, QueueTypeOK, SequenceTypeOK
<1>4. CASE WriterStop
  BY <1>4, AofAssumption
     DEF WriterStop, LeaveLoop, SyncTarget, StreamTiled, TypeOK,
         WriterTypeOK, FileTypeOK, QueueTypeOK, SequenceTypeOK
<1>5. CASE WriterGather
  BY <1>5, AofAssumption
     DEF WriterGather, HeldByPause, Least, StreamTiled, TypeOK, WriterTypeOK,
         FileTypeOK, QueueTypeOK, SequenceTypeOK
<1>6. CASE WritevChunk
  <2>1. /\ WriterTypeOK /\ full + 1 \in 1..Len(queue)
    BY <1>6, FieldTypes
       DEF WritevChunk, StreamTiled, TypeOK, WritevInside, WriterTypeOK
  <2>2. queue[full + 1].length \in Nat /\ queue[full + 1].offset \in Nat
    BY <2>1, FieldTypes DEF StreamTiled
  <2>3. /\ full' = full + 1 \/ full' = full
        /\ part' = part \/ part' \in 1..(queue[full + 1].length
                                          - queue[full + 1].offset)
        /\ UNCHANGED <<iov, target, syncLen>>
    BY <1>6 DEF WritevChunk, syncVars
  <2>4. QED BY <2>1, <2>2, <2>3 DEF WriterTypeOK
<1>7. CASE ConsumeWritten
  <2>1. WriterTypeOK /\ SequenceTypeOK' /\ CompletedSequence \in Nat
    BY SequenceTypes, CompletedType DEF StreamTiled, TypeOK
  <2>2. /\ iov' = 0 /\ full' = 0 /\ part' = 0 /\ syncLen' = syncLen
        /\ target' = target \/ target' = CompletedSequence \/ target' = written'
    BY <1>7 DEF ConsumeWritten, syncVars
  <2>3. QED BY <2>1, <2>2 DEF WriterTypeOK, SequenceTypeOK
<1>8. CASE PublishAlways
  BY <1>8, AofAssumption
     DEF PublishAlways, Publish, Greatest, StreamTiled, TypeOK, WriterTypeOK,
         FileTypeOK, QueueTypeOK, SequenceTypeOK
<1>9. CASE WriterSyncStart
  <2>1. WriterTypeOK /\ Len(file) \in Nat
    BY FieldTypes DEF StreamTiled, TypeOK
  <2>2. /\ target' = target \/ target' = 0
        /\ syncLen' = syncLen \/ syncLen' = Len(file)
        /\ UNCHANGED <<iov, full, part>>
    BY <1>9 DEF WriterSyncStart, WriterSynced
  <2>3. QED BY <2>1, <2>2 DEF WriterTypeOK
<1>10. CASE WriterSyncDone
  <2>1. WriterTypeOK
    BY DEF StreamTiled, TypeOK
  <2>2. /\ target' = target \/ target' = 0
        /\ syncLen' = 0 /\ UNCHANGED <<iov, full, part>>
    BY <1>10 DEF WriterSyncDone, WriterSynced
  <2>3. QED BY <2>1, <2>2 DEF WriterTypeOK
<1>11. CASE WriterTimeout
  BY <1>11, AofAssumption
     DEF WriterTimeout, HeldByPause, SyncTarget, StreamTiled, TypeOK,
         WriterTypeOK, FileTypeOK, QueueTypeOK, SequenceTypeOK
<1>12. CASE WritevFails
  BY <1>12, AofAssumption
     DEF WritevFails, LeaveLoop, SyncTarget, StreamTiled, TypeOK,
         WriterTypeOK, FileTypeOK, QueueTypeOK, SequenceTypeOK
<1>13. CASE Crash
  BY <1>13, AofAssumption
     DEF Crash, ForgetMemory, NoChunk, EmptyBuffer, Idle, StreamTiled,
         TypeOK, WriterTypeOK, FileTypeOK, QueueTypeOK, SequenceTypeOK
<1>14. CASE Restart
  BY <1>14, AofAssumption
     DEF Restart, ForgetMemory, NoChunk, EmptyBuffer, Idle, Least,
         StreamTiled, TypeOK, WriterTypeOK, FileTypeOK, QueueTypeOK,
         SequenceTypeOK
<1> QED
  BY <1>1, <1>2, <1>3, <1>4, <1>5, <1>6, <1>7, <1>8, <1>9, <1>10, <1>11,
     <1>12, <1>13, <1>14
     DEF TransactionBegin, TransactionRollback, TransactionCommit, AofAppend,
         CommitAllocFails, FlushAllocFails, Flush, CheckpointBegin,
         CloseBegin, CommitCopy, FlushPending, FlushReturn, CheckpointQueue,
         CheckpointWritten, CheckpointDone, PauseReturn, ResumeAfterFork,
         CloseStop, CloseJoin, WriterPause, WriterResume, RestartRefused,
         QueueChunks, QueueProducer, Next, ReactorWaits, Writer

\* The crash history keeps its type.
LEMMA CrashTypes ==
    ASSUME StreamTiled, Next
    PROVE  CrashTypeOK'
<1> USE DEF vars, fileVars, queueVars, seqVars, prodVars, pauseVars,
            writerVars, syncVars, crashVars
<1>1. CASE UNCHANGED <<powerLost, crashes>>
  BY <1>1 DEF StreamTiled, TypeOK, CrashTypeOK
<1>2. CASE Crash
  BY <1>2, AofAssumption
     DEF Crash, ForgetMemory, NoChunk, EmptyBuffer, Idle, StreamTiled,
         TypeOK, CrashTypeOK
<1> QED
  BY <1>1, <1>2
     DEF TransactionBegin, TransactionRollback, TransactionCommit, AofAppend,
         CommitAllocFails, FlushAllocFails, Flush, CheckpointBegin,
         CloseBegin, CommitCopy, FlushPending, FlushReturn, CheckpointQueue,
         CheckpointWritten, CheckpointSyncStart, CheckpointSyncDone,
         CheckpointDone, PauseReturn, ResumeAfterFork, CloseStop, CloseJoin,
         WriterPause, WriterResume, WriterStop, WriterGather, WritevChunk,
         ConsumeWritten, PublishAlways, WriterSyncStart, WriterSyncDone,
         WriterTimeout, WritevFails, Restart, RestartRefused, QueueChunks,
         QueueProducer, Next, ReactorWaits, Writer, ForgetMemory, LeaveLoop,
         Publish, WriterSynced

\* Every step keeps the types.
LEMMA TypeStep ==
    ASSUME StreamTiled, Next
    PROVE  TypeOK'
BY FileTypes, QueueTypes, SequenceTypes, BufferTypes, ThreadTypes,
   WriterTypes, CrashTypes DEF TypeOK

-----------------------------------------------------------------------------
(* The queue tiles the byte stream *)

\* What the invariant says about the queue, in the form the steps need.
LEMMA QueueFacts ==
    ASSUME StreamTiled
    PROVE  /\ QueueTiles /\ QueueCounted /\ ProducerTiles /\ WritevInside
           /\ QueueEnd \in Nat /\ QueueStart \in Nat /\ queueBytes \in Nat
           /\ Len(queue) \in Nat /\ queue \in Seq(Chunk)
           /\ copied \in Nat /\ producer.length \in Nat
           /\ producer.first \in Nat
           /\ full \in Nat /\ part \in Nat /\ iov \in Nat
           /\ full <= Len(queue)
           /\ \A i \in 1..Len(queue) :
                /\ queue[i].first \in Nat /\ queue[i].length \in Nat
                /\ queue[i].offset \in Nat
<1>1. /\ TypeOK /\ QueueTiles /\ QueueCounted /\ ProducerTiles
      /\ WritevInside
  BY DEF StreamTiled
<1>2. /\ queueBytes \in Nat /\ queue \in Seq(Chunk) /\ copied \in Nat
      /\ full \in Nat /\ part \in Nat /\ iov \in Nat
  BY <1>1 DEF TypeOK, QueueTypeOK, FileTypeOK, WriterTypeOK
<1>3. QueueEnd \in Nat
  BY <1>1, <1>2, FieldTypes DEF QueueEnd
<1>4. QueueStart \in Nat
  <2>1. CASE queue = <<>>
    BY <1>3, <2>1 DEF QueueStart
  <2>2. CASE queue # <<>>
    <3>1. 1 \in 1..Len(queue)
      BY <1>2, <2>2
    <3>2. QED BY <1>1, <2>2, <3>1, FieldTypes DEF QueueStart
  <2>3. QED BY <2>1, <2>2
<1>5. full <= Len(queue)
  BY <1>1, <1>2, FieldTypes DEF WritevInside
<1>6. QED BY <1>1, <1>2, <1>3, <1>4, <1>5, FieldTypes

\* Queueing a chunk that starts where the queue ends keeps the tiling, and
\* does not move the writer.
LEMMA AppendTiles ==
    ASSUME StreamTiled,
           NEW c \in Chunk, c.offset = 0, c.length > 0, c.first = QueueEnd,
           queue' = Append(queue, c), queueBytes' = queueBytes + c.length,
           QueueEnd' = c.first + c.length
    PROVE  QueueTiles' /\ QueueCounted'
<1>1. c.first \in Nat /\ c.length \in Nat
  BY DEF Chunk
<1> DEFINE n == Len(queue)
<1>2. /\ n \in Nat /\ Len(queue') = n + 1 /\ queue'[n + 1] = c
      /\ \A i \in 1..n : queue'[i] = queue[i]
  BY QueueFacts, AppendProperties
<1> HIDE DEF n
<1>3. \A i \in 1..n : queue[i].first + queue[i].length <= c.first
  BY QueueFacts DEF QueueTiles, n
<1>4. \A i \in 1..Len(queue)' :
        /\ queue'[i].offset < queue'[i].length
        /\ i > 1 => queue'[i].offset = 0
        /\ queue'[i].first + queue'[i].length <= QueueEnd'
        /\ i < Len(queue)' =>
             queue'[i + 1].first = queue'[i].first + queue'[i].length
        /\ i = Len(queue)' => queue'[i].first + queue'[i].length = QueueEnd'
  <2> TAKE i \in 1..Len(queue)'
  <2>1. CASE i = n + 1
    BY <1>1, <1>2, <2>1
  <2>2. CASE i \in 1..n
    <3>1. /\ queue'[i] = queue[i]
          /\ queue[i].first \in Nat /\ queue[i].length \in Nat
          /\ queue[i].offset \in Nat
      BY <1>2, <2>2, QueueFacts DEF n
    <3>2. /\ queue[i].offset < queue[i].length
          /\ i > 1 => queue[i].offset = 0
      BY <2>2, QueueFacts DEF QueueTiles, n
    <3>3. queue[i].first + queue[i].length <= QueueEnd'
      <4>1. queue[i].first + queue[i].length <= c.first
        BY <1>3, <2>2
      <4>2. QED BY <1>1, <3>1, <4>1, SMTT(20)
    <3>4. queue'[i + 1].first = queue[i].first + queue[i].length
      <4>1. CASE i = n
        BY <1>2, <2>2, <4>1, QueueFacts DEF QueueTiles, n
      <4>2. CASE i < n
        <5>1. i + 1 \in 1..n
          BY <1>2, <2>2, <4>2
        <5>2. QED BY <1>2, <2>2, <4>2, <5>1, QueueFacts DEF QueueTiles, n
      <4>3. QED BY <1>2, <2>2, <4>1, <4>2
    <3>5. QED BY <1>2, <2>2, <3>1, <3>2, <3>3, <3>4
  <2>3. QED BY <1>2, <2>1, <2>2
<1>5. ASSUME NEW i \in 1..Len(queue)', NEW j \in 1..Len(queue)', i < j
      PROVE  queue'[i].first + queue'[i].length <= queue'[j].first
  <2>1. i \in 1..n
    BY <1>2, <1>5
  <2>2. CASE j = n + 1
    BY <1>2, <1>3, <2>1, <2>2
  <2>3. CASE j \in 1..n
    BY <1>2, <1>5, <2>1, <2>3, QueueFacts DEF QueueTiles, n
  <2>4. QED BY <1>2, <2>2, <2>3
<1>6. QueueCounted'
  <2>1. QueueStart' = QueueStart
    <3>1. queue' # <<>>
      BY <1>2
    <3>2. QueueStart' = queue'[1].first + queue'[1].offset
      BY <3>1 DEF QueueStart
    <3>3. CASE queue = <<>>
      <4>1. n = 0 /\ queue'[1] = c
        BY <1>2, <3>3 DEF n
      <4>2. QueueStart = QueueEnd
        BY <3>3 DEF QueueStart
      <4>3. QED BY <1>1, <3>2, <4>1, <4>2
    <3>4. CASE queue # <<>>
      <4>1. 1 \in 1..n
        BY <3>4, QueueFacts DEF n
      <4>2. QED BY <1>2, <3>2, <3>4, <4>1 DEF QueueStart
    <3>5. QED BY <3>3, <3>4
  <2>2. /\ QueueStart + queueBytes = QueueEnd
        /\ QueueStart \in Nat /\ queueBytes \in Nat
    BY QueueFacts DEF QueueCounted
  <2>3. QueueStart' + queueBytes' = QueueEnd'
    BY <1>1, <2>1, <2>2
  <2>4. QED BY <2>3 DEF QueueCounted
<1>7. QED BY <1>4, <1>5, <1>6 DEF QueueTiles

\* A step that leaves the queue and its end alone keeps the tiling.
LEMMA SameTiles ==
    ASSUME StreamTiled, queue' = queue, queueBytes' = queueBytes,
           QueueEnd' = QueueEnd
    PROVE  QueueTiles' /\ QueueCounted'
<1>1. QueueStart' = QueueStart
  BY DEF QueueStart
<1>2. QED BY <1>1, QueueFacts DEF QueueTiles, QueueCounted

\* aof_flush and aof_create_checkpoint hand the producer chunk to the queue.
LEMMA QueueProducerTiles ==
    ASSUME StreamTiled, QueueProducer, copied' = copied
    PROVE  QueueTiles' /\ QueueCounted' /\ ProducerTiles' /\ producer'.length = 0
<1>1. CASE producer.length > 0
  <2>1. /\ queue' = Append(queue, producer) /\ producer' = NoChunk
        /\ queueBytes' = queueBytes + producer.length
    BY <1>1 DEF QueueProducer, QueueChunks
  <2>2. /\ producer.offset = 0 /\ producer.first = QueueEnd
        /\ producer.first + producer.length = copied /\ producer \in Chunk
    BY <1>1, QueueFacts
       DEF ProducerTiles, QueueEnd, StreamTiled, TypeOK, QueueTypeOK
  <2>3. producer'.length = 0 /\ QueueEnd' = copied
    BY <2>1 DEF NoChunk, QueueEnd
  <2>4. QueueTiles' /\ QueueCounted'
    BY <1>1, <2>1, <2>2, <2>3, AppendTiles
  <2>5. QED BY <2>3, <2>4 DEF ProducerTiles
<1>2. CASE ~(producer.length > 0)
  <2>1. UNCHANGED <<queue, queueBytes, producer>> /\ producer.length = 0
    BY <1>2, QueueFacts DEF QueueProducer, queueVars
  <2>2. QueueEnd' = QueueEnd
    BY <2>1 DEF QueueEnd
  <2>3. QED BY <2>1, <2>2, SameTiles DEF ProducerTiles
<1>3. QED BY <1>1, <1>2

\* The queue after enqueue_bytes.
LEMMA FlushPendingTiles ==
    ASSUME StreamTiled, FlushPending
    PROVE  QueueTiles' /\ QueueCounted' /\ ProducerTiles'
<1> DEFINE n == Len(queue)
           m == PendingCount
           new == [i \in 1..m |-> PendingChunk(i)]
<1>1. /\ m \in Nat \ {0} /\ n \in Nat /\ new \in Seq(Chunk)
      /\ queue \in Seq(Chunk) /\ Len(new) = m
  <2>1. m \in Nat \ {0} /\ \A i \in 1..m : PendingChunk(i) \in Chunk
    BY PendingFacts DEF FlushPending
  <2>2. new \in Seq(Chunk) /\ Len(new) = m
    BY <2>1
  <2>3. QED BY <2>1, <2>2, QueueFacts
<1>2. /\ queue' = queue \o new /\ producer' = producer
      /\ queueBytes' = queueBytes + pending.used
      /\ copied' = copied + pending.used
      /\ producer.length = 0 /\ pending.used \in Nat
      /\ rpc = "flush"
  BY FieldTypes DEF FlushPending, QueueChunks, StreamTiled, ReactorAgrees
<1>3. /\ Len(queue') = n + m
      /\ \A i \in 1..n : queue'[i] = queue[i]
      /\ \A i \in 1..m : queue'[n + i] = PendingChunk(i)
  <2>1. Len(queue') = n + m
    BY <1>1, <1>2, ConcatProperties
  <2>2. \A i \in 1..n : queue'[i] = queue[i]
    BY <1>1, <1>2, ConcatProperties
  <2>3. ASSUME NEW i \in 1..m PROVE queue'[n + i] = PendingChunk(i)
    BY <1>1, <1>2
  <2>4. QED BY <2>1, <2>2, <2>3
<1>4. QueueEnd = copied /\ QueueEnd' = copied + pending.used
  BY <1>2 DEF QueueEnd
<1>5. \A i \in 1..m :
        /\ PendingChunk(i).first \in Nat /\ PendingChunk(i).length \in Nat
        /\ PendingChunk(i).length > 0
        /\ PendingChunk(i).offset = 0
        /\ PendingChunk(i).first + PendingChunk(i).length <= QueueEnd'
        /\ i < m => PendingChunk(i).first + PendingChunk(i).length
                      = PendingChunk(i + 1).first
        /\ i = m => PendingChunk(i).first + PendingChunk(i).length = QueueEnd'
        /\ copied <= PendingChunk(i).first
  <2> TAKE i \in 1..m
  <2>1. PendingChunk(i) \in Chunk
    BY <1>2, PendingFacts
  <2>2. PendingChunk(i).first \in Nat /\ PendingChunk(i).length \in Nat
    BY <2>1 DEF Chunk
  <2>3. PendingChunk(1).first = copied /\ 1 \in 1..m /\ PendingChunk(1) \in Chunk
    BY <1>1, <1>2, PendingFacts
  <2>4. PendingChunk(1).length \in Nat
    BY <2>3 DEF Chunk
  <2>5. 1 < i => PendingChunk(1).first + PendingChunk(1).length
                   <= PendingChunk(i).first
    BY <1>2, <2>3, PendingFacts
  <2>6. copied <= PendingChunk(i).first
    BY <2>2, <2>3, <2>4, <2>5, QueueFacts, SMTT(20)
  <2>7. QED BY <1>2, <1>4, <2>2, <2>6, PendingFacts
<1> HIDE DEF n, m, new
<1>6. \A i \in 1..n : /\ queue[i].first + queue[i].length <= copied
                      /\ queue[i].first \in Nat /\ queue[i].length \in Nat
                      /\ queue[i].offset \in Nat
  BY <1>4, QueueFacts DEF QueueTiles, n
<1>7. \A i \in 1..Len(queue)' :
        /\ queue'[i].offset < queue'[i].length
        /\ i > 1 => queue'[i].offset = 0
        /\ queue'[i].first + queue'[i].length <= QueueEnd'
        /\ i < Len(queue)' =>
             queue'[i + 1].first = queue'[i].first + queue'[i].length
        /\ i = Len(queue)' => queue'[i].first + queue'[i].length = QueueEnd'
  <2> TAKE i \in 1..Len(queue)'
  <2>1. CASE i \in 1..n
    <3>1. queue'[i] = queue[i] /\ i < Len(queue')
      BY <1>1, <1>3, <2>1
    <3>2. /\ queue[i].offset < queue[i].length
          /\ i > 1 => queue[i].offset = 0
      BY <2>1, QueueFacts DEF QueueTiles, n
    <3>3. queue[i].first + queue[i].length <= QueueEnd'
      <4>1. queue[i].first + queue[i].length <= copied /\ copied \in Nat
        BY <1>6, <2>1, QueueFacts
      <4>2. QED BY <1>2, <1>4, <1>6, <2>1, <4>1
    <3>4. queue'[i + 1].first = queue[i].first + queue[i].length
      <4>1. CASE i < n
        <5>1. i + 1 \in 1..n
          BY <1>1, <2>1, <4>1
        <5>2. QED BY <1>3, <2>1, <4>1, <5>1, QueueFacts DEF QueueTiles, n
      <4>2. CASE i = n
        <5>1. 1 \in 1..m /\ PendingChunk(1).first = copied
          BY <1>1, <1>2, PendingFacts DEF m
        <5>2. queue'[i + 1] = PendingChunk(1)
          BY <1>3, <4>2, <5>1
        <5>3. queue[i].first + queue[i].length = copied
          BY <1>4, <2>1, <4>2, QueueFacts DEF QueueTiles, n
        <5>4. QED BY <5>1, <5>2, <5>3
      <4>3. QED BY <1>1, <2>1, <4>1, <4>2
    <3>5. QED BY <3>1, <3>2, <3>3, <3>4
  <2>2. CASE i \in (n + 1)..(n + m)
    <3>1. PICK k \in 1..m : i = n + k
      BY <1>1, <2>2
    <3>2. queue'[i] = PendingChunk(k)
      BY <1>3, <3>1
    <3>3. i < Len(queue)' => queue'[i + 1] = PendingChunk(k + 1) /\ k < m
      BY <1>1, <1>3, <3>1, k + 1 \in 1..m \/ k = m, i + 1 = n + (k + 1)
    <3>4. i = Len(queue)' => k = m
      BY <1>1, <1>3, <3>1
    <3>5. QED BY <1>5, <3>2, <3>3, <3>4
  <2>3. QED BY <1>1, <1>3, <2>1, <2>2
<1>8. ASSUME NEW i \in 1..Len(queue)', NEW j \in 1..Len(queue)', i < j
      PROVE  queue'[i].first + queue'[i].length <= queue'[j].first
  <2>1. CASE j \in 1..n
    <3>1. i \in 1..n
      BY <1>1, <1>8, <2>1
    <3>2. QED BY <1>3, <1>8, <2>1, <3>1, QueueFacts DEF QueueTiles, n
  <2>2. CASE j \in (n + 1)..(n + m)
    <3>1. PICK k \in 1..m : j = n + k
      BY <1>1, <2>2
    <3>2. queue'[j] = PendingChunk(k)
      BY <1>3, <3>1
    <3>3. CASE i \in 1..n
      <4>1. queue'[i] = queue[i] /\ copied \in Nat
        BY <1>3, <3>3, QueueFacts
      <4>2. QED BY <1>5, <1>6, <3>2, <3>3, <4>1
    <3>4. CASE i \in (n + 1)..(n + m)
      <4>1. PICK l \in 1..m : i = n + l
        BY <1>1, <3>4
      <4>2. queue'[i] = PendingChunk(l) /\ l < k
        BY <1>1, <1>3, <1>8, <3>1, <4>1
      <4>3. QED BY <1>2, <3>2, <4>2, PendingFacts DEF m
    <3>5. QED BY <1>1, <1>3, <3>3, <3>4
  <2>3. QED BY <1>1, <1>3, <2>1, <2>2
<1>9. QueueCounted'
  <2>1. QueueStart' = QueueStart
    <3>1. queue' # <<>> /\ QueueStart' = queue'[1].first + queue'[1].offset
      BY <1>1, <1>3 DEF QueueStart
    <3>2. CASE queue = <<>>
      <4>1. n = 0 /\ 1 \in 1..m /\ PendingChunk(1).first = copied
        BY <1>1, <1>2, <3>2, PendingFacts DEF n, m
      <4>2. queue'[1] = PendingChunk(1) /\ PendingChunk(1).offset = 0
        BY <1>3, <1>5, <4>1
      <4>3. QueueStart = copied
        BY <1>4, <3>2 DEF QueueStart
      <4>4. QED BY <3>1, <4>1, <4>2, <4>3, QueueFacts
    <3>3. CASE queue # <<>>
      <4>1. 1 \in 1..n
        BY <3>3, QueueFacts DEF n
      <4>2. QED BY <1>3, <3>1, <3>3, <4>1 DEF QueueStart
    <3>4. QED BY <3>2, <3>3
  <2>2. QED BY <1>2, <1>4, <2>1, QueueFacts, SMTT(20) DEF QueueCounted
<1>10. ProducerTiles'
  BY <1>2 DEF ProducerTiles
<1>11. QED BY <1>7, <1>8, <1>9, <1>10 DEF QueueTiles

\* consume_written removes from the front what has been written.
LEMMA ConsumeTiles ==
    ASSUME StreamTiled, ConsumeWritten
    PROVE  /\ QueueTiles' /\ QueueCounted' /\ ProducerTiles'
           /\ QueueStart' = WritePosition
<1>1. /\ wpc = "writev" /\ full + part > 0 /\ queue' = Consumed
      /\ queueBytes' = queueBytes - Transferred
      /\ UNCHANGED <<producer, copied>>
  BY DEF ConsumeWritten, fileVars
<1>2. QueueEnd' = QueueEnd
  BY <1>1 DEF QueueEnd
<1>3. /\ Len(queue') = Len(queue) - full
      /\ \A i \in 1..Len(queue') :
           /\ full + i \in 1..Len(queue)
           /\ queue'[i].first = queue[full + i].first
           /\ queue'[i].length = queue[full + i].length
           /\ queue'[i].offset = queue[full + i].offset
                                   + (IF i = 1 THEN part ELSE 0)
  BY <1>1, ConsumedFacts
<1>4. \A i \in 1..Len(queue)' :
        /\ queue'[i].offset < queue'[i].length
        /\ i > 1 => queue'[i].offset = 0
        /\ queue'[i].first + queue'[i].length <= QueueEnd'
        /\ i < Len(queue)' =>
             queue'[i + 1].first = queue'[i].first + queue'[i].length
        /\ i = Len(queue)' => queue'[i].first + queue'[i].length = QueueEnd'
  <2> TAKE i \in 1..Len(queue)'
  <2>1. full + i \in 1..Len(queue) /\ i \in Nat /\ i >= 1
    BY <1>3, QueueFacts
  <2>2. PICK f \in Nat, l \in Nat, o \in Nat :
           /\ f = queue[full + i].first /\ l = queue[full + i].length
           /\ o = queue[full + i].offset
    BY <2>1, QueueFacts
  <2>3. queue'[i].first = f /\ queue'[i].length = l
        /\ queue'[i].offset = o + (IF i = 1 THEN part ELSE 0)
    BY <1>3, <2>2
  <2>4. /\ o < l /\ (full + i > 1 => o = 0) /\ f + l <= QueueEnd
        /\ full + i < Len(queue) => queue[full + i + 1].first = f + l
        /\ full + i = Len(queue) => f + l = QueueEnd
    BY <2>1, <2>2, QueueFacts DEF QueueTiles
  <2>5. i = 1 => o + part < l
    <3>1. part > 0 => part < queue[full + 1].length - queue[full + 1].offset
      BY QueueFacts DEF WritevInside
    <3>2. i = 1 => (part > 0 => part < l - o)
      BY <2>2, <3>1
    <3>3. part \in Nat
      BY QueueFacts
    <3>4. QED BY <2>4, <3>2, <3>3
  <2>6. queue'[i].offset < queue'[i].length /\ (i > 1 => queue'[i].offset = 0)
    BY <2>1, <2>3, <2>4, <2>5, QueueFacts
  <2>7. i < Len(queue)' => queue'[i + 1].first = queue'[i].first + queue'[i].length
    <3>1. SUFFICES ASSUME i < Len(queue)'
                   PROVE  queue'[i + 1].first = f + l
      BY <2>3
    <3>2. i + 1 \in 1..Len(queue') /\ full + i < Len(queue)
          /\ full + (i + 1) = full + i + 1
      BY <1>3, <2>1, <3>1, QueueFacts, SMTT(20)
    <3>3. QED BY <1>3, <2>4, <3>2
  <2>8. i = Len(queue)' => full + i = Len(queue)
    BY <1>3, <2>1, QueueFacts
  <2>9. QED BY <1>2, <2>3, <2>4, <2>6, <2>7, <2>8
<1>5. ASSUME NEW i \in 1..Len(queue)', NEW j \in 1..Len(queue)', i < j
      PROVE  queue'[i].first + queue'[i].length <= queue'[j].first
  <2>1. /\ full + i \in 1..Len(queue) /\ full + j \in 1..Len(queue)
        /\ full + i < full + j
    BY <1>3, <1>5, QueueFacts
  <2>2. queue[full + i].first + queue[full + i].length <= queue[full + j].first
    BY <2>1, QueueFacts DEF QueueTiles
  <2>3. QED BY <1>3, <2>2
<1>6. QueueStart' = WritePosition
  <2>1. CASE full < Len(queue)
    <3>1. Len(queue') > 0 /\ 1 \in 1..Len(queue')
      BY <1>3, <2>1, QueueFacts
    <3>2. QueueStart' = queue'[1].first + queue'[1].offset
      BY <3>1 DEF QueueStart
    <3>3. /\ queue'[1].first = queue[full + 1].first
          /\ queue'[1].offset = queue[full + 1].offset + part
      BY <1>3, <3>1
    <3>4. /\ queue[full + 1].first \in Nat /\ queue[full + 1].offset \in Nat
          /\ part \in Nat
      BY <1>3, <3>1, QueueFacts
    <3>5. QED BY <2>1, <3>2, <3>3, <3>4 DEF WritePosition
  <2>2. CASE ~(full < Len(queue))
    <3>1. Len(queue') = 0 /\ queue' \in Seq(Chunk)
      BY <1>1, <1>3, <2>2, QueueFacts, ConsumedFacts
    <3>2. queue' = <<>>
      BY <3>1
    <3>3. QED BY <1>2, <2>2, <3>2 DEF QueueStart, WritePosition
  <2>3. QED BY <2>1, <2>2
<1>7. QueueCounted'
  <2>1. /\ QueueStart + Transferred = WritePosition
        /\ QueueStart + queueBytes = QueueEnd
        /\ Transferred \in Nat /\ QueueStart \in Nat /\ queueBytes \in Nat
    BY <1>1, TransferredFacts, QueueFacts DEF QueueCounted
  <2>2. WritePosition + (queueBytes - Transferred) = QueueEnd
    BY <2>1
  <2>3. QED BY <1>1, <1>2, <1>6, <2>2 DEF QueueCounted
<1>8. ProducerTiles'
  BY <1>1, QueueFacts DEF ProducerTiles
<1>9. QED BY <1>4, <1>5, <1>6, <1>7, <1>8 DEF QueueTiles

\* Every step keeps the tiling of the queue.
LEMMA TileStep ==
    ASSUME StreamTiled, Next
    PROVE  QueueTiles' /\ QueueCounted' /\ ProducerTiles'
<1>1. CASE UNCHANGED <<queue, queueBytes, producer, copied>>
  <2>1. QueueEnd' = QueueEnd
    BY <1>1 DEF QueueEnd
  <2>2. ProducerTiles'
    BY <1>1, QueueFacts DEF ProducerTiles
  <2>3. QED BY <1>1, <2>1, <2>2, SameTiles
<1>2. CASE CommitCopy
  <2>1. rpc = "commit" /\ copied' = copied + CopyAmount
    BY <1>2 DEF CommitCopy
  <2>2. CASE FilledChunk.length = ChunkCapacity
    <3>1. /\ queue' = Append(queue, FilledChunk) /\ producer' = NoChunk
          /\ queueBytes' = queueBytes + FilledChunk.length
      BY <1>2, <2>2 DEF CommitCopy, QueueChunks
    <3>2. producer'.length = 0 /\ QueueEnd' = copied + CopyAmount
      BY <2>1, <3>1 DEF NoChunk, QueueEnd
    <3>3. QueueTiles' /\ QueueCounted'
      BY <2>1, <3>1, <3>2, CopyFacts, AppendTiles
    <3>4. QED BY <3>2, <3>3 DEF ProducerTiles
  <2>3. CASE FilledChunk.length # ChunkCapacity
    <3>1. UNCHANGED <<queue, queueBytes>> /\ producer' = FilledChunk
      BY <1>2, <2>3 DEF CommitCopy
    <3>2. /\ FilledChunk.length > 0 /\ FilledChunk.length <= ChunkCapacity
          /\ FilledChunk.length \in Nat
          /\ FilledChunk.offset = 0 /\ FilledChunk.first = QueueEnd
          /\ FilledChunk.first + FilledChunk.length = copied + CopyAmount
      BY <2>1, CopyFacts DEF Chunk
    <3>3. QueueEnd' = QueueEnd
      BY <3>1, <3>2 DEF QueueEnd
    <3>4. ProducerTiles'
      BY <2>1, <2>3, <3>1, <3>2, AofAssumption DEF ProducerTiles
    <3>5. QED BY <3>1, <3>3, <3>4, SameTiles
  <2>4. QED BY <2>2, <2>3
<1>3. CASE Flush
  BY <1>3, QueueProducerTiles DEF Flush, fileVars
<1>4. CASE CheckpointQueue
  BY <1>4, QueueProducerTiles DEF CheckpointQueue, fileVars
<1>5. CASE FlushPending
  BY <1>5, FlushPendingTiles
<1>6. CASE ConsumeWritten
  BY <1>6, ConsumeTiles
<1>7. CASE Crash \/ Restart
  <2>1. queue' = <<>> /\ queueBytes' = 0 /\ producer' = NoChunk
    BY <1>7 DEF Crash, Restart, ForgetMemory
  <2>2. QueueEnd' = copied' /\ QueueStart' = copied' /\ producer'.length = 0
    BY <2>1 DEF QueueEnd, QueueStart, NoChunk
  <2>3. Len(queue') = 0
    BY <2>1
  <2>4. QueueTiles'
    BY <2>3 DEF QueueTiles
  <2>5. QueueCounted'
    <3>1. copied' + 0 = copied'
      BY TypeStep DEF TypeOK, FileTypeOK
    <3>2. QED BY <2>1, <2>2, <3>1 DEF QueueCounted
  <2>6. ProducerTiles'
    BY <2>2 DEF ProducerTiles
  <2>7. QED BY <2>4, <2>5, <2>6
<1>8. QED
  BY <1>1, <1>2, <1>3, <1>4, <1>5, <1>6, <1>7
     DEF Next, ReactorWaits, Writer, TransactionBegin, TransactionRollback,
         TransactionCommit, AofAppend, CommitAllocFails, FlushAllocFails,
         CheckpointBegin, CloseBegin, FlushReturn, CheckpointWritten,
         CheckpointSyncStart, CheckpointSyncDone, CheckpointDone,
         PauseReturn, ResumeAfterFork, CloseStop, CloseJoin, WriterPause,
         WriterResume, WriterStop, WriterGather, WritevChunk, PublishAlways,
         WriterSyncStart, WriterSyncDone, WriterTimeout, WritevFails,
         RestartRefused, vars, fileVars, queueVars, seqVars, prodVars,
         pauseVars, writerVars, syncVars, crashVars

-----------------------------------------------------------------------------
(* The threads *)

\* Every step keeps the Reactor thread's buffers in step with where it is.
LEMMA ReactorStep ==
    ASSUME StreamTiled, Next
    PROVE  ReactorAgrees'
<1> USE DEF vars, fileVars, queueVars, seqVars, prodVars, pauseVars,
            writerVars, syncVars, crashVars
<1>1. CASE UNCHANGED <<rpc, txn, pos, ends, pending, producer>>
  BY <1>1 DEF StreamTiled, ReactorAgrees
<1>2. CASE TransactionBegin
  BY <1>2, AofAssumption
     DEF TransactionBegin, Idle, CanAcceptWrite, StreamTiled, ReactorAgrees
<1>3. CASE TransactionRollback
  BY <1>3, AofAssumption
     DEF TransactionRollback, Idle, StreamTiled, ReactorAgrees
<1>4. CASE TransactionCommit
  <2>1. CASE txn.used = 0
    BY <1>4, <2>1 DEF TransactionCommit, ReactorAgrees
  <2>2. CASE txn.used > 0
    <3>1. /\ rpc' = "commit" /\ pos' = 0 /\ txn' = txn /\ txn.active
          /\ ends' = Append(ends, copied + txn.used)
      BY <1>4, <2>2 DEF TransactionCommit
    <3>2. Len(ends') > 0
      BY <3>1, FieldTypes DEF StreamTiled, TypeOK, FileTypeOK
    <3>3. QED BY <2>2, <3>1, <3>2 DEF ReactorAgrees
  <2>3. QED BY <2>1, <2>2, <1>4, FieldTypes DEF TransactionCommit, StreamTiled
<1>5. CASE \E size \in RecordSizes : AofAppend(size)
  <2>1. rpc' = "ready"
    BY <1>5 DEF AofAppend
  <2>2. QED BY <2>1 DEF ReactorAgrees
<1>6. CASE CommitAllocFails
  BY <1>6, AofAssumption DEF CommitAllocFails, Idle, StreamTiled, ReactorAgrees
<1>7. CASE FlushAllocFails
  BY <1>7, AofAssumption
     DEF FlushAllocFails, FlushReturns, StreamTiled, ReactorAgrees
<1>8. CASE Flush
  <2>1. producer'.length = 0
    BY <1>8, QueueProducerTiles DEF Flush, fileVars
  <2>2. /\ rpc' = "flush" => pending.used # 0
        /\ rpc' # "commit" /\ pending' = pending
    BY <1>8 DEF Flush, FlushReturns
  <2>3. QED BY <2>1, <2>2, FieldTypes DEF StreamTiled, ReactorAgrees
<1>9. CASE CheckpointBegin
  <2>1. /\ rpc' = "commit" /\ pos' = 0
        /\ txn' = [active |-> TRUE, used |-> TokenSize, recs |-> {TokenSize}]
        /\ ends' = Append(ends, copied + TokenSize)
    BY <1>9 DEF CheckpointBegin
  <2>2. Len(ends') > 0
    BY <2>1, AofAssumption DEF StreamTiled, TypeOK, FileTypeOK
  <2>3. QED BY <2>1, <2>2, AofAssumption DEF ReactorAgrees
<1>10. CASE CloseBegin
  BY <1>10, AofAssumption DEF CloseBegin, Idle, StreamTiled, ReactorAgrees
<1>11. CASE CommitCopy
  <2>1. /\ rpc = "commit" /\ txn.active /\ Len(ends) > 0 /\ txn.used \in Nat
        /\ pos \in Nat /\ CopyAmount \in Nat \ {0} /\ pos + CopyAmount <= txn.used
    BY <1>11, CopyFacts, FieldTypes
       DEF CommitCopy, StreamTiled, ReactorAgrees, TypeOK, BufferTypeOK
  <2>2. CASE pos + CopyAmount = txn.used
    <3>1. rpc' # "commit" /\ rpc' # "flush"
      BY <1>11, <2>2 DEF CommitCopy
    <3>2. QED BY <3>1 DEF ReactorAgrees
  <2>3. CASE pos + CopyAmount # txn.used
    <3>1. pos' = pos + CopyAmount /\ UNCHANGED <<txn, rpc, ends>>
      BY <1>11, <2>3 DEF CommitCopy
    <3>2. QED BY <2>1, <2>3, <3>1 DEF ReactorAgrees
  <2>4. QED BY <2>2, <2>3
<1>12. CASE FlushPending
  BY <1>12, AofAssumption
     DEF FlushPending, QueueChunks, Placed, EmptyBuffer, Least, StreamTiled,
         ReactorAgrees
<1>13. CASE FlushReturn
  BY <1>13, AofAssumption
     DEF FlushReturn, FlushReturns, WaitOver, StreamTiled, ReactorAgrees
<1>14. CASE CheckpointQueue
  BY <1>14, AofAssumption
     DEF CheckpointQueue, QueueProducer, QueueChunks, StreamTiled,
         ReactorAgrees
<1>15. CASE CheckpointWritten
  BY <1>15, AofAssumption
     DEF CheckpointWritten, WaitOver, StreamTiled, ReactorAgrees
<1>16. CASE CheckpointSyncStart
  BY <1>16, AofAssumption
     DEF CheckpointSyncStart, NothingToSync, StreamTiled, ReactorAgrees
<1>17. CASE CheckpointSyncDone
  BY <1>17, AofAssumption
     DEF CheckpointSyncDone, Greatest, StreamTiled, ReactorAgrees
<1>18. CASE CheckpointDone
  BY <1>18, AofAssumption DEF CheckpointDone, StreamTiled, ReactorAgrees
<1>19. CASE PauseReturn
  BY <1>19, AofAssumption
     DEF PauseReturn, PauseOver, StreamTiled, ReactorAgrees
<1>20. CASE ResumeAfterFork
  BY <1>20, AofAssumption DEF ResumeAfterFork, StreamTiled, ReactorAgrees
<1>21. CASE CloseStop
  BY <1>21, AofAssumption DEF CloseStop, StreamTiled, ReactorAgrees
<1>22. CASE CloseJoin
  BY <1>22, AofAssumption DEF CloseJoin, StreamTiled, ReactorAgrees
<1>23. CASE Crash
  BY <1>23, AofAssumption
     DEF Crash, ForgetMemory, NoChunk, EmptyBuffer, Idle, StreamTiled,
         ReactorAgrees
<1>24. CASE Restart
  BY <1>24, AofAssumption
     DEF Restart, ForgetMemory, NoChunk, EmptyBuffer, Idle, Least,
         StreamTiled, ReactorAgrees
<1> QED
  BY <1>1, <1>2, <1>3, <1>4, <1>5, <1>6, <1>7, <1>8, <1>9, <1>10, <1>11,
     <1>12, <1>13, <1>14, <1>15, <1>16, <1>17, <1>18, <1>19, <1>20, <1>21,
     <1>22, <1>23, <1>24
     DEF WriterPause, WriterResume, WriterStop, WriterGather, WritevChunk,
         ConsumeWritten, PublishAlways, WriterSyncStart, WriterSyncDone,
         WriterTimeout, WritevFails, RestartRefused, Next, ReactorWaits,
         Writer, LeaveLoop, Publish, WriterSynced

\* Every step keeps the two threads in agreement.
LEMMA ThreadStep ==
    ASSUME StreamTiled, Next
    PROVE  ThreadsAgree'
<1> USE DEF vars, fileVars, queueVars, seqVars, prodVars, pauseVars,
            writerVars, syncVars, crashVars
<1>1. CASE UNCHANGED <<rpc, pauseReq, paused, wpc, stopping, syncer, error>>
  BY <1>1 DEF StreamTiled, ThreadsAgree
<1>2. CASE TransactionCommit
  BY <1>2, AofAssumption DEF TransactionCommit, Idle, StreamTiled, ThreadsAgree
<1>3. CASE CommitAllocFails
  BY <1>3, AofAssumption DEF CommitAllocFails, Idle, StreamTiled, ThreadsAgree
<1>4. CASE FlushAllocFails
  BY <1>4, AofAssumption
     DEF FlushAllocFails, FlushReturns, StreamTiled, ThreadsAgree
<1>5. CASE Flush
  BY <1>5, AofAssumption
     DEF Flush, QueueProducer, QueueChunks, FlushReturns, StreamTiled,
         ThreadsAgree
<1>6. CASE CheckpointBegin
  BY <1>6, AofAssumption
     DEF CheckpointBegin, CanAcceptWrite, StreamTiled, ThreadsAgree
<1>7. CASE CloseBegin
  BY <1>7, AofAssumption DEF CloseBegin, Idle, StreamTiled, ThreadsAgree
<1>8. CASE CommitCopy
  BY <1>8, AofAssumption
     DEF CommitCopy, QueueChunks, Placed, Least, Idle, NoChunk, StreamTiled,
         ThreadsAgree
<1>9. CASE FlushPending
  BY <1>9, AofAssumption
     DEF FlushPending, QueueChunks, Placed, EmptyBuffer, Least, StreamTiled,
         ThreadsAgree
<1>10. CASE FlushReturn
  BY <1>10, AofAssumption
     DEF FlushReturn, FlushReturns, WaitOver, StreamTiled, ThreadsAgree
<1>11. CASE CheckpointQueue
  BY <1>11, AofAssumption
     DEF CheckpointQueue, QueueProducer, QueueChunks, StreamTiled,
         ThreadsAgree
<1>12. CASE CheckpointWritten
  BY <1>12, AofAssumption
     DEF CheckpointWritten, WaitOver, StreamTiled, ThreadsAgree
<1>13. CASE CheckpointSyncStart
  BY <1>13, AofAssumption
     DEF CheckpointSyncStart, NothingToSync, StreamTiled, ThreadsAgree
<1>14. CASE CheckpointSyncDone
  BY <1>14, AofAssumption
     DEF CheckpointSyncDone, Greatest, StreamTiled, ThreadsAgree
<1>15. CASE CheckpointDone
  BY <1>15, AofAssumption DEF CheckpointDone, StreamTiled, ThreadsAgree
<1>16. CASE PauseReturn
  BY <1>16, AofAssumption DEF PauseReturn, PauseOver, StreamTiled, ThreadsAgree
<1>17. CASE ResumeAfterFork
  BY <1>17, AofAssumption DEF ResumeAfterFork, StreamTiled, ThreadsAgree
<1>18. CASE CloseStop
  BY <1>18, AofAssumption DEF CloseStop, StreamTiled, ThreadsAgree
<1>19. CASE CloseJoin
  BY <1>19, AofAssumption DEF CloseJoin, StreamTiled, ThreadsAgree
<1>20. CASE WriterPause
  BY <1>20, AofAssumption
     DEF WriterPause, HeldByPause, StreamTiled, ThreadsAgree
<1>21. CASE WriterResume
  BY <1>21, AofAssumption
     DEF WriterResume, HeldByPause, StreamTiled, ThreadsAgree
<1>22. CASE WriterStop
  BY <1>22, AofAssumption
     DEF WriterStop, LeaveLoop, SyncTarget, StreamTiled, ThreadsAgree
<1>23. CASE WriterGather
  BY <1>23, AofAssumption
     DEF WriterGather, HeldByPause, Least, StreamTiled, ThreadsAgree
<1>24. CASE ConsumeWritten
  BY <1>24, AofAssumption
     DEF ConsumeWritten, Publish, Greatest, StreamTiled, ThreadsAgree
<1>25. CASE PublishAlways
  BY <1>25, AofAssumption
     DEF PublishAlways, Publish, Greatest, StreamTiled, ThreadsAgree
<1>26. CASE WriterSyncStart
  BY <1>26, AofAssumption
     DEF WriterSyncStart, NothingToSync, WriterSynced, StreamTiled,
         ThreadsAgree
<1>27. CASE WriterSyncDone
  BY <1>27, AofAssumption
     DEF WriterSyncDone, WriterSynced, Greatest, StreamTiled, ThreadsAgree
<1>28. CASE WriterTimeout
  BY <1>28, AofAssumption
     DEF WriterTimeout, HeldByPause, SyncTarget, StreamTiled, ThreadsAgree
<1>29. CASE WritevFails
  BY <1>29, AofAssumption
     DEF WritevFails, LeaveLoop, SyncTarget, StreamTiled, ThreadsAgree
<1>30. CASE Crash
  BY <1>30, AofAssumption
     DEF Crash, ForgetMemory, NoChunk, EmptyBuffer, Idle, StreamTiled,
         ThreadsAgree
<1>31. CASE Restart
  BY <1>31, AofAssumption
     DEF Restart, ForgetMemory, NoChunk, EmptyBuffer, Idle, Least,
         StreamTiled, ThreadsAgree
<1> QED
  BY <1>1, <1>2, <1>3, <1>4, <1>5, <1>6, <1>7, <1>8, <1>9, <1>10, <1>11,
     <1>12, <1>13, <1>14, <1>15, <1>16, <1>17, <1>18, <1>19, <1>20, <1>21,
     <1>22, <1>23, <1>24, <1>25, <1>26, <1>27, <1>28, <1>29, <1>30, <1>31
     DEF TransactionBegin, TransactionRollback, AofAppend, WritevChunk,
         RestartRefused, Next, ReactorWaits, Writer

-----------------------------------------------------------------------------
(* Sequence numbers *)

\* Assigning a new sequence number leaves the old ones assigned.
LEMMA LaterSequences ==
    ASSUME StreamTiled, UNCHANGED <<queue, producer, written, target>>,
           Len(ends)' \in Nat, Len(ends)' >= Len(ends)
    PROVE  SequencesAssigned'
<1>1. /\ SequencesAssigned /\ Len(ends) \in Nat
      /\ producer.sequence \in Nat /\ written \in Nat /\ target \in Nat
      /\ \A i \in 1..Len(queue) : queue[i].sequence \in Nat
  BY FieldTypes DEF StreamTiled, TypeOK, QueueTypeOK, SequenceTypeOK,
     WriterTypeOK, Chunk
<1>2. QED BY <1>1 DEF SequencesAssigned

\* Every step names only sequence numbers that were assigned.
LEMMA SequenceStep ==
    ASSUME StreamTiled, Next
    PROVE  SequencesAssigned'
<1> USE DEF vars, fileVars, queueVars, seqVars, prodVars, pauseVars,
            writerVars, syncVars, crashVars
<1>1. CASE UNCHANGED <<queue, producer, ends, written, target>>
  BY <1>1 DEF StreamTiled, SequencesAssigned
<1>2. CASE TransactionCommit
  <2>1. /\ SequencesAssigned /\ UNCHANGED <<queue, producer, written, target>>
        /\ Len(ends)' >= Len(ends) /\ Len(ends) \in Nat /\ Len(ends)' \in Nat
    <3>1. ends' = ends \/ ends' = Append(ends, copied + txn.used)
      BY <1>2 DEF TransactionCommit
    <3>2. QED BY <1>2, <3>1, FieldTypes
             DEF StreamTiled, TypeOK, FileTypeOK, TransactionCommit,
                queueVars, seqVars, writerVars
  <2>2. QED BY <2>1, LaterSequences
<1>3. CASE CommitAllocFails
  <2>1. /\ SequencesAssigned /\ UNCHANGED <<queue, producer, written, target>>
        /\ Len(ends)' >= Len(ends) /\ Len(ends) \in Nat /\ Len(ends)' \in Nat
    BY <1>3, FieldTypes
       DEF StreamTiled, TypeOK, FileTypeOK, CommitAllocFails, queueVars,
          seqVars, writerVars
  <2>2. QED BY <2>1, LaterSequences
<1>4. CASE Flush
  <2>1. SequencesAssigned /\ Len(ends) \in Nat /\ queue \in Seq(Chunk)
    BY FieldTypes DEF StreamTiled, TypeOK, QueueTypeOK
  <2>2. UNCHANGED <<ends, written, target>>
    BY <1>4 DEF Flush, fileVars, seqVars, writerVars
  <2>3. /\ queue' = queue \/ queue' = Append(queue, producer)
        /\ producer' = producer \/ producer' = NoChunk
    BY <1>4 DEF Flush, QueueProducer, QueueChunks, queueVars
  <2>4. producer \in Chunk /\ producer.sequence <= Len(ends)
    BY <1>4, <2>1
       DEF StreamTiled, TypeOK, QueueTypeOK, SequencesAssigned, Flush
  <2>5. NoChunk.sequence = 0
    BY DEF NoChunk
  <2>6. \A i \in 1..Len(queue)' : queue'[i].sequence <= Len(ends)
    BY <2>1, <2>3, <2>4, AppendProperties, SMTT(20) DEF SequencesAssigned
  <2>7. QED BY <2>1, <2>2, <2>3, <2>4, <2>5, <2>6 DEF SequencesAssigned
<1>5. CASE CheckpointBegin
  <2>1. /\ SequencesAssigned /\ UNCHANGED <<queue, producer, written, target>>
        /\ Len(ends)' >= Len(ends) /\ Len(ends) \in Nat /\ Len(ends)' \in Nat
    BY <1>5, FieldTypes
       DEF StreamTiled, TypeOK, FileTypeOK, CheckpointBegin, queueVars,
          seqVars, writerVars
  <2>2. QED BY <2>1, LaterSequences
<1>6. CASE CommitCopy
  <2>1. SequencesAssigned /\ Len(ends) \in Nat /\ queue \in Seq(Chunk)
    BY FieldTypes DEF StreamTiled, TypeOK, QueueTypeOK
  <2>2. UNCHANGED <<ends, written, target>>
    BY <1>6 DEF CommitCopy, fileVars, seqVars, writerVars
  <2>3. /\ queue' = queue \/ queue' = Append(queue, FilledChunk)
        /\ producer' = producer \/ producer' = NoChunk \/ producer' = FilledChunk
    BY <1>6 DEF CommitCopy, QueueProducer, QueueChunks, queueVars
  <2>4. FilledChunk \in Chunk /\ FilledChunk.sequence <= Len(ends)
    BY <1>6, <2>1, CopyFacts
       DEF StreamTiled, TypeOK, QueueTypeOK, SequencesAssigned, CommitCopy
  <2>5. NoChunk.sequence = 0
    BY DEF NoChunk
  <2>6. \A i \in 1..Len(queue)' : queue'[i].sequence <= Len(ends)
    BY <2>1, <2>3, <2>4, AppendProperties, SMTT(20) DEF SequencesAssigned
  <2>7. QED BY <2>1, <2>2, <2>3, <2>4, <2>5, <2>6 DEF SequencesAssigned
<1>7. CASE FlushPending
  <2>1. /\ SequencesAssigned /\ Len(ends) \in Nat /\ queue \in Seq(Chunk)
        /\ PendingCount \in Nat
        /\ \A i \in 1..PendingCount : PendingChunk(i) \in Chunk
        /\ pending.used \in Nat /\ copied \in Nat /\ ends \in Seq(Nat)
        /\ producer.sequence \in Nat /\ written \in Nat /\ target \in Nat
        /\ \A i \in 1..Len(queue) : queue[i].sequence \in Nat
    BY <1>7, FieldTypes, PendingFacts
       DEF FlushPending, StreamTiled, TypeOK, QueueTypeOK, FileTypeOK,
           SequenceTypeOK, WriterTypeOK, Chunk
  <2>2. /\ queue' = queue \o [i \in 1..PendingCount |-> PendingChunk(i)]
        /\ ends' = Append(ends, copied + pending.used)
        /\ UNCHANGED <<producer, written, target>>
    BY <1>7 DEF FlushPending, QueueChunks, seqVars, writerVars
  <2>3. Len(ends') = Len(ends) + 1
    BY <2>1, <2>2
  <2>4. \A i \in 1..PendingCount : PendingChunk(i).sequence <= Len(ends) + 1
    BY <2>1 DEF PendingChunk
  <2>5. [i \in 1..PendingCount |-> PendingChunk(i)] \in Seq(Chunk)
    BY <2>1
  <2>6. ASSUME NEW i \in 1..Len(queue)'
        PROVE  queue'[i].sequence <= Len(ends) + 1
    <3>1. CASE i \in 1..Len(queue)
      <4>1. queue'[i] = queue[i] /\ queue[i].sequence <= Len(ends)
        BY <2>1, <2>2, <2>5, <3>1, ConcatProperties DEF SequencesAssigned
      <4>2. QED BY <2>1, <3>1, <4>1
    <3>2. CASE i \notin 1..Len(queue)
      <4>1. PICK k \in 1..PendingCount : queue'[i] = PendingChunk(k)
        <5>1. /\ Len(queue) \in Nat
              /\ Len(queue') = Len(queue) + PendingCount
          BY <2>1, <2>2, <2>5, ConcatProperties
        <5>2. i - Len(queue) \in 1..PendingCount
          BY <2>1, <3>2, <5>1
        <5>3. queue'[i] = PendingChunk(i - Len(queue))
          BY <2>1, <2>2, <3>2, <5>1, <5>2
        <5>4. QED BY <5>2, <5>3
      <4>2. QED BY <2>4, <4>1
    <3>3. QED BY <3>1, <3>2
  <2>7. /\ producer.sequence <= Len(ends) + 1
        /\ written <= Len(ends) + 1 /\ target <= Len(ends) + 1
    BY <2>1 DEF SequencesAssigned
  <2>8. QED BY <2>2, <2>3, <2>6, <2>7 DEF SequencesAssigned
<1>8. CASE CheckpointQueue
  <2>1. SequencesAssigned /\ Len(ends) \in Nat /\ queue \in Seq(Chunk)
    BY FieldTypes DEF StreamTiled, TypeOK, QueueTypeOK
  <2>2. UNCHANGED <<ends, written, target>>
    BY <1>8 DEF CheckpointQueue, fileVars, seqVars, writerVars
  <2>3. /\ queue' = queue \/ queue' = Append(queue, producer)
        /\ producer' = producer \/ producer' = NoChunk
    BY <1>8 DEF CheckpointQueue, QueueProducer, QueueChunks, queueVars
  <2>4. producer \in Chunk /\ producer.sequence <= Len(ends)
    BY <1>8, <2>1
       DEF StreamTiled, TypeOK, QueueTypeOK, SequencesAssigned,
           CheckpointQueue
  <2>5. NoChunk.sequence = 0
    BY DEF NoChunk
  <2>6. \A i \in 1..Len(queue)' : queue'[i].sequence <= Len(ends)
    BY <2>1, <2>3, <2>4, AppendProperties, SMTT(20) DEF SequencesAssigned
  <2>7. QED BY <2>1, <2>2, <2>3, <2>4, <2>5, <2>6 DEF SequencesAssigned
<1>9. CASE WriterStop
  <2>1. /\ target' = target \/ target' = written
        /\ UNCHANGED <<queue, producer, ends, written>>
    BY <1>9 DEF WriterStop, LeaveLoop, SyncTarget, queueVars, fileVars, seqVars
  <2>2. QED BY <2>1 DEF StreamTiled, SequencesAssigned
<1>10. CASE ConsumeWritten
  <2>1. /\ SequencesAssigned /\ Len(ends) \in Nat /\ full \in Nat
        /\ CompletedSequence \in Nat /\ CompletedSequence <= Len(ends)
        /\ written \in Nat /\ target \in Nat
    BY FieldTypes, CompletedType
       DEF StreamTiled, TypeOK, WriterTypeOK, SequenceTypeOK
  <2>2. UNCHANGED <<ends, producer>> /\ queue' = Consumed /\ wpc = "writev"
    BY <1>10 DEF ConsumeWritten, fileVars
  <2>3. \A i \in 1..Len(queue)' : queue'[i].sequence <= Len(ends)
    BY <2>1, <2>2, ConsumedFacts DEF SequencesAssigned
  <2>4. written' = written \/ written' = CompletedSequence
    BY <1>10, <2>1 DEF ConsumeWritten, Publish, Greatest
  <2>5. target' = target \/ target' = CompletedSequence \/ target' = written'
    BY <1>10 DEF ConsumeWritten
  <2>6. QED BY <2>1, <2>2, <2>3, <2>4, <2>5 DEF SequencesAssigned
<1>11. CASE PublishAlways
  <2>1. /\ written' = written \/ written' = target
        /\ target' = 0 /\ UNCHANGED <<queue, producer, ends>>
    BY <1>11 DEF PublishAlways, Publish, Greatest, queueVars, fileVars
  <2>2. QED BY <2>1, FieldTypes DEF StreamTiled, SequencesAssigned
<1>12. CASE WriterSyncStart
  <2>1. /\ target' = target \/ target' = 0
        /\ UNCHANGED <<queue, producer, ends, written>>
    BY <1>12 DEF WriterSyncStart, WriterSynced, queueVars, fileVars, seqVars
  <2>2. QED BY <2>1, FieldTypes DEF StreamTiled, SequencesAssigned
<1>13. CASE WriterSyncDone
  <2>1. /\ target' = target \/ target' = 0
        /\ UNCHANGED <<queue, producer, ends, written>>
    BY <1>13 DEF WriterSyncDone, WriterSynced, queueVars, fileVars, seqVars
  <2>2. QED BY <2>1, FieldTypes DEF StreamTiled, SequencesAssigned
<1>14. CASE WriterTimeout
  <2>1. /\ target' = target \/ target' = written
        /\ UNCHANGED <<queue, producer, ends, written>>
    BY <1>14
       DEF WriterTimeout, LeaveLoop, SyncTarget, queueVars, fileVars, seqVars
  <2>2. QED BY <2>1 DEF StreamTiled, SequencesAssigned
<1>15. CASE WritevFails
  <2>1. /\ target' = target \/ target' = written
        /\ UNCHANGED <<queue, producer, ends, written>>
    BY <1>15
       DEF WritevFails, LeaveLoop, SyncTarget, queueVars, fileVars, seqVars
  <2>2. QED BY <2>1 DEF StreamTiled, SequencesAssigned
<1>16. CASE Crash
  <2>1. /\ queue' = <<>> /\ producer' = NoChunk /\ ends' = <<>>
        /\ written' = 0 /\ target' = 0
    BY <1>16 DEF Crash, ForgetMemory
  <2>2. Len(queue') = 0 /\ Len(ends') = 0 /\ producer'.sequence = 0
    BY <2>1 DEF NoChunk
  <2>3. QED BY <2>1, <2>2 DEF SequencesAssigned
<1>17. CASE Restart
  <2>1. /\ queue' = <<>> /\ producer' = NoChunk /\ ends' = <<>>
        /\ written' = 0 /\ target' = 0
    BY <1>17 DEF Restart, ForgetMemory
  <2>2. Len(queue') = 0 /\ Len(ends') = 0 /\ producer'.sequence = 0
    BY <2>1 DEF NoChunk
  <2>3. QED BY <2>1, <2>2 DEF SequencesAssigned
<1> QED
  BY <1>1, <1>2, <1>3, <1>4, <1>5, <1>6, <1>7, <1>8, <1>9, <1>10, <1>11,
     <1>12, <1>13, <1>14, <1>15, <1>16, <1>17
     DEF TransactionBegin, TransactionRollback, AofAppend, FlushAllocFails,
         CloseBegin, FlushReturn, CheckpointWritten, CheckpointSyncStart,
         CheckpointSyncDone, CheckpointDone, PauseReturn, ResumeAfterFork,
         CloseStop, CloseJoin, WriterPause, WriterResume, WriterGather,
         WritevChunk, RestartRefused, Next, ReactorWaits, Writer

-----------------------------------------------------------------------------
(* The writer and the file *)

\* A step that only lets the queue grow behind the writev in progress.
LEMMA GrowingQueue ==
    ASSUME StreamTiled, QueueTiles',
           UNCHANGED <<file, full, part, iov>>, wpc' = wpc,
           Len(queue)' \in Nat, Len(queue)' >= Len(queue),
           \A i \in 1..Len(queue) : queue'[i] = queue[i],
           Len(queue)' = Len(queue) => QueueEnd' = QueueEnd,
           Len(queue)' > Len(queue) =>
               /\ queue'[Len(queue) + 1].first = QueueEnd
               /\ queue'[Len(queue) + 1].offset = 0,
           rpc # "closed"
    PROVE  WritevInside' /\ FileFollowsQueue' /\ FileInOrder'
<1>1. /\ WritevInside /\ FileFollowsQueue /\ FileInOrder
      /\ Len(queue) \in Nat /\ QueueEnd \in Nat
      /\ full \in Nat /\ part \in Nat /\ iov \in Nat /\ full <= Len(queue)
  BY QueueFacts DEF StreamTiled
<1>2. WritevInside'
  <2>1. part > 0 => full + 1 \in 1..Len(queue)
    BY <1>1 DEF WritevInside
  <2>2. QED BY <1>1, <2>1 DEF WritevInside
<1>3. WritePosition' = WritePosition
  <2>1. CASE full < Len(queue)
    <3>1. full + 1 \in 1..Len(queue) /\ full < Len(queue)'
      BY <1>1, <2>1
    <3>2. QED BY <2>1, <3>1 DEF WritePosition
  <2>2. CASE full = Len(queue) /\ Len(queue)' > Len(queue)
    <3>1. part = 0
      BY <1>1, <2>2 DEF WritevInside
    <3>2. WritePosition = QueueEnd
      BY <1>1, <2>2 DEF WritePosition
    <3>3. WritePosition' = QueueEnd + 0 + 0
      BY <2>2, <3>1 DEF WritePosition
    <3>4. QED BY <1>1, <3>2, <3>3
  <2>3. CASE full = Len(queue) /\ Len(queue)' = Len(queue)
    <3>1. ~(full < Len(queue)) /\ ~(full' < Len(queue)')
      BY <1>1, <2>3
    <3>2. QED BY <2>3, <3>1 DEF WritePosition
  <2>4. QED BY <1>1, <2>1, <2>2, <2>3
<1>4. QED BY <1>1, <1>2, <1>3 DEF FileFollowsQueue, FileInOrder

\* A step of the writer outside writev.
LEMMA RestingWriter ==
    ASSUME StreamTiled, UNCHANGED <<file, queue, producer, copied, rpc>>,
           full = 0, part = 0, full' = 0, part' = 0,
           iov' \in Nat, iov' <= Len(queue)
    PROVE  WritevInside' /\ FileFollowsQueue' /\ FileInOrder'
<1>1. WritePosition' = WritePosition
  BY DEF WritePosition, QueueEnd
<1>2. QED BY <1>1 DEF StreamTiled, WritevInside, FileFollowsQueue, FileInOrder

\* A prefix of a file in order is in order.
LEMMA PrefixInOrder ==
    ASSUME StreamTiled, NEW k \in 0..Len(file), file' = SubSeq(file, 1, k)
    PROVE  FileInOrder' /\ Len(file') = k
<1>1. file \in Seq(Nat) /\ FileInOrder /\ Len(file) \in Nat
  BY FieldTypes DEF StreamTiled, TypeOK, FileTypeOK
<1>2. Len(file') = k /\ \A i \in 1..k : file'[i] = file[i]
  BY <1>1
<1>3. QED BY <1>1, <1>2 DEF FileInOrder

\* Every step keeps the file in order and its end where the writer is.
LEMMA FileStep ==
    ASSUME StreamTiled, Next
    PROVE  WritevInside' /\ FileFollowsQueue' /\ FileInOrder'
<1> USE DEF vars, fileVars, queueVars, seqVars, prodVars, pauseVars,
            writerVars, syncVars, crashVars
<1>1. CASE UNCHANGED <<file, full, part, iov, wpc, queue, producer, copied, rpc>>
  BY <1>1
     DEF StreamTiled, WritevInside, FileFollowsQueue, FileInOrder,
         WritePosition, QueueEnd
<1>2. CASE Flush
  <2>1. UNCHANGED <<file, full, part, iov, wpc, copied>> /\ rpc # "closed"
    BY <1>2 DEF Flush, fileVars, writerVars, FlushReturns
  <2>2. QueueProducer
    BY <1>2 DEF Flush
  <2>3. CASE producer.length > 0
    <3>1. /\ queue' = Append(queue, producer) /\ producer.first = QueueEnd
          /\ producer.offset = 0 /\ producer \in Chunk
      BY <2>2, <2>3, QueueFacts
         DEF QueueProducer, QueueChunks, QueueEnd, ProducerTiles,
            StreamTiled, TypeOK, QueueTypeOK
    <3>2. /\ Len(queue') = Len(queue) + 1
          /\ queue'[Len(queue) + 1] = producer
          /\ \A i \in 1..Len(queue) : queue'[i] = queue[i]
      BY <3>1, QueueFacts, AppendProperties
    <3>3. QED BY <2>1, <3>1, <3>2, QueueFacts, TileStep, GrowingQueue
  <2>4. CASE ~(producer.length > 0)
    <3>1. UNCHANGED <<queue, producer>>
      BY <2>2, <2>4 DEF QueueProducer, queueVars
    <3>2. QueueEnd' = QueueEnd
      BY <2>1, <3>1 DEF QueueEnd
    <3>3. QED BY <2>1, <3>1, <3>2, QueueFacts, TileStep, GrowingQueue
  <2>5. QED BY <2>3, <2>4
<1>3. CASE CommitCopy
  <2>1. /\ UNCHANGED <<file, full, part, iov, wpc>> /\ rpc # "closed"
        /\ rpc = "commit" /\ copied' = copied + CopyAmount
    BY <1>3 DEF CommitCopy, writerVars
  <2>2. CASE FilledChunk.length = ChunkCapacity
    <3>1. queue' = Append(queue, FilledChunk)
      BY <1>3, <2>2 DEF CommitCopy, QueueChunks
    <3>2. /\ FilledChunk \in Chunk /\ FilledChunk.first = QueueEnd
          /\ FilledChunk.offset = 0
      BY <2>1, CopyFacts
    <3>3. /\ Len(queue') = Len(queue) + 1
          /\ queue'[Len(queue) + 1] = FilledChunk
          /\ \A i \in 1..Len(queue) : queue'[i] = queue[i]
      BY <3>1, <3>2, QueueFacts, AppendProperties
    <3>4. QED BY <2>1, <3>2, <3>3, QueueFacts, TileStep, GrowingQueue
  <2>3. CASE FilledChunk.length # ChunkCapacity
    <3>1. queue' = queue /\ producer' = FilledChunk
      BY <1>3, <2>3 DEF CommitCopy
    <3>2. FilledChunk.length # 0 /\ FilledChunk.first = QueueEnd
      BY <2>1, CopyFacts DEF Chunk
    <3>3. QueueEnd' = QueueEnd
      BY <3>1, <3>2 DEF QueueEnd
    <3>4. QED BY <2>1, <3>1, <3>3, QueueFacts, TileStep, GrowingQueue
  <2>4. QED BY <2>2, <2>3
<1>4. CASE FlushPending
  <2>1. /\ UNCHANGED <<file, full, part, iov, wpc>> /\ rpc # "closed"
        /\ rpc = "flush"
        /\ queue' = queue \o [i \in 1..PendingCount |-> PendingChunk(i)]
    BY <1>4 DEF FlushPending, QueueChunks, writerVars
  <2>2. /\ PendingCount \in Nat \ {0} /\ 1 \in 1..PendingCount
        /\ PendingChunk(1).first = copied /\ PendingChunk(1).offset = 0
        /\ \A i \in 1..PendingCount : PendingChunk(i) \in Chunk
    BY <2>1, PendingFacts
  <2>3. [i \in 1..PendingCount |-> PendingChunk(i)] \in Seq(Chunk)
    BY <2>2
  <2>4. /\ Len(queue') = Len(queue) + PendingCount
        /\ queue'[Len(queue) + 1] = PendingChunk(1)
        /\ \A i \in 1..Len(queue) : queue'[i] = queue[i]
    <3>1. /\ Len(queue') = Len(queue) + PendingCount
          /\ \A i \in 1..Len(queue) : queue'[i] = queue[i]
      BY <2>1, <2>2, <2>3, QueueFacts, ConcatProperties
    <3>2. queue'[Len(queue) + 1] = PendingChunk(1)
      BY <2>1, <2>2, QueueFacts
    <3>3. QED BY <3>1, <3>2
  <2>5. QueueEnd = copied
    BY <1>4, <2>1 DEF QueueEnd, StreamTiled, ReactorAgrees
  <2>6. QED BY <2>1, <2>2, <2>4, <2>5, QueueFacts, TileStep, GrowingQueue
<1>5. CASE CheckpointQueue
  <2>1. UNCHANGED <<file, full, part, iov, wpc, copied>> /\ rpc # "closed"
    BY <1>5 DEF CheckpointQueue, fileVars, writerVars
  <2>2. QueueProducer
    BY <1>5 DEF CheckpointQueue
  <2>3. CASE producer.length > 0
    <3>1. /\ queue' = Append(queue, producer) /\ producer.first = QueueEnd
          /\ producer.offset = 0 /\ producer \in Chunk
      BY <2>2, <2>3, QueueFacts
         DEF QueueProducer, QueueChunks, QueueEnd, ProducerTiles,
            StreamTiled, TypeOK, QueueTypeOK
    <3>2. /\ Len(queue') = Len(queue) + 1
          /\ queue'[Len(queue) + 1] = producer
          /\ \A i \in 1..Len(queue) : queue'[i] = queue[i]
      BY <3>1, QueueFacts, AppendProperties
    <3>3. QED BY <2>1, <3>1, <3>2, QueueFacts, TileStep, GrowingQueue
  <2>4. CASE ~(producer.length > 0)
    <3>1. UNCHANGED <<queue, producer>>
      BY <2>2, <2>4 DEF QueueProducer, queueVars
    <3>2. QueueEnd' = QueueEnd
      BY <2>1, <3>1 DEF QueueEnd
    <3>3. QED BY <2>1, <3>1, <3>2, QueueFacts, TileStep, GrowingQueue
  <2>5. QED BY <2>3, <2>4
<1>6. CASE CloseJoin
  <2>1. /\ UNCHANGED <<file, full, part, iov, wpc, queue>> /\ rpc' = "closed"
    BY <1>6 DEF CloseJoin, fileVars, queueVars, writerVars
  <2>2. QED BY <2>1
     DEF StreamTiled, WritevInside, FileFollowsQueue, FileInOrder
<1>7. CASE WriterStop
  <2>1. /\ UNCHANGED <<file, queue, producer, copied, rpc>>
        /\ full' = 0 /\ part' = 0 /\ iov' \in Nat /\ iov' <= Len(queue)
        /\ full = 0 /\ part = 0
    <3>1. full = 0 /\ part = 0
      BY <1>7, QueueFacts
         DEF WriterStop, StreamTiled, ThreadsAgree, WritevInside
    <3>2. QED
      BY <1>7, <3>1, QueueFacts, AofAssumption
         DEF WriterStop, LeaveLoop, writerVars, fileVars, queueVars,
            prodVars, WritevInside
  <2>2. QED BY <2>1, RestingWriter
<1>8. CASE WriterGather
  <2>1. /\ UNCHANGED <<file, queue, producer, copied, rpc>>
        /\ full' = 0 /\ part' = 0 /\ iov' \in Nat /\ iov' <= Len(queue)
        /\ full = 0 /\ part = 0
    <3>1. full = 0 /\ part = 0
      BY <1>8, QueueFacts
         DEF WriterGather, StreamTiled, ThreadsAgree, WritevInside
    <3>2. QED
      BY <1>8, <3>1, QueueFacts, AofAssumption
         DEF WriterGather, Least, fileVars, queueVars, prodVars, WritevInside
  <2>2. QED BY <2>1, RestingWriter
<1>9. CASE WritevChunk
  <2>1. /\ wpc = "writev" /\ full < iov /\ part = 0 /\ iov' = iov /\ wpc' = wpc
        /\ UNCHANGED <<queue, producer, copied, rpc>>
    BY <1>9 DEF WritevChunk, queueVars, prodVars
  <2>2. /\ full + 1 \in 1..Len(queue) /\ full \in Nat /\ iov \in Nat
        /\ iov <= Len(queue) /\ Len(queue) \in Nat
    BY <2>1, QueueFacts DEF WritevInside
  <2>3. PICK f \in Nat, l \in Nat, o \in Nat :
           /\ f = queue[full + 1].first /\ l = queue[full + 1].length
           /\ o = queue[full + 1].offset
    BY <2>2, QueueFacts
  <2>4. PICK n \in 1..(l - o) :
           /\ file' = file \o [i \in 1..n |-> f + o + i]
           /\ IF n = l - o THEN full' = full + 1 /\ part' = part
                           ELSE part' = n /\ full' = full
    BY <1>9, <2>3 DEF WritevChunk
  <2>5. rpc # "closed"
    BY <2>1 DEF StreamTiled, ThreadsAgree
  <2>6. Len(file) = f + o /\ file \in Seq(Nat) /\ FileInOrder
    <3>1. WritePosition = f + o + 0
      BY <2>1, <2>2, <2>3 DEF WritePosition
    <3>2. QED BY <2>5, <3>1
             DEF StreamTiled, FileFollowsQueue, TypeOK, FileTypeOK
  <2>7. n \in Nat /\ n <= l - o /\ n > 0
    BY <2>3, <2>4
  <2>8. /\ Len(file') = f + o + n
        /\ \A i \in 1..(f + o) : file'[i] = file[i]
        /\ \A i \in (f + o + 1)..(f + o + n) : file'[i] = i
    <3> DEFINE new == [i \in 1..n |-> f + o + i]
    <3>1. new \in Seq(Nat) /\ Len(new) = n
      BY <2>7
    <3>2. /\ Len(file') = f + o + n
          /\ \A i \in 1..(f + o) : file'[i] = file[i]
      <4> HIDE DEF new
      <4>1. file' = file \o new
        BY <2>4 DEF new
      <4>2. Len(file') = Len(file) + Len(new)
        BY <2>6, <3>1, <4>1, ConcatProperties
      <4>3. \A i \in 1..Len(file) : file'[i] = file[i]
        BY <2>6, <3>1, <4>1
      <4>4. QED BY <2>6, <3>1, <4>2, <4>3
    <3>3. ASSUME NEW i \in (f + o + 1)..(f + o + n) PROVE file'[i] = i
      <4>1. i - (f + o) \in 1..n /\ i \in 1..(f + o + n) /\ ~(i <= f + o)
        BY <2>7
      <4>2. file'[i] = new[i - (f + o)]
        <5> HIDE DEF new
        <5>1. file' = file \o new
          BY <2>4 DEF new
        <5>2. Len(file) + Len(new) = f + o + n
          BY <2>6, <3>1
        <5>3. i \in 1..(Len(file) + Len(new)) /\ ~(i <= Len(file))
          BY <2>6, <4>1, <5>2
        <5>4. (file \o new)[i] = new[i - Len(file)]
          BY <2>6, <3>1, <5>3, ConcatProperties
        <5>5. QED BY <2>6, <5>1, <5>4
      <4>3. QED BY <4>1, <4>2
    <3>4. QED BY <3>2, <3>3
  <2>9. FileInOrder'
    <3>1. \A i \in 1..(f + o) : file[i] = i
      BY <2>6 DEF FileInOrder
    <3>2. QED BY <2>7, <2>8, <3>1 DEF FileInOrder
  <2>10. CASE n = l - o
    <3>1. full' = full + 1 /\ part' = 0 /\ o + n = l
      BY <2>1, <2>4, <2>7, <2>10
    <3>2. WritevInside'
      BY <2>1, <2>2, <3>1 DEF WritevInside
    <3>3. Len(file') = f + l
      BY <2>8, <3>1
    <3>4. WritePosition' = f + l
      <4>1. CASE full + 1 < Len(queue)
        <5>1. full + 2 \in 1..Len(queue) /\ full + 2 > 1
          BY <2>2, <4>1
        <5>2. queue[full + 2].first = f + l /\ queue[full + 2].offset = 0
          <6>1. queue[(full + 1) + 1].first = f + l
            BY <2>2, <2>3, <4>1, QueueFacts DEF QueueTiles
          <6>2. queue[full + 2].offset = 0
            BY <5>1, QueueFacts DEF QueueTiles
          <6>3. (full + 1) + 1 = full + 2
            BY <2>2
          <6>4. QED BY <6>1, <6>2, <6>3
        <5>3. WritePosition' = queue[full + 2].first + queue[full + 2].offset + 0
          <6>1. full' < Len(queue') /\ full' + 1 = full + 2
            BY <2>1, <2>2, <3>1, <4>1
          <6>2. QED BY <2>1, <3>1, <6>1 DEF WritePosition
        <5>4. QED BY <5>2, <5>3
      <4>2. CASE full + 1 = Len(queue)
        <5>1. f + l = QueueEnd
          BY <2>2, <2>3, <4>2, QueueFacts DEF QueueTiles
        <5>2. WritePosition' = QueueEnd
          BY <2>1, <2>2, <3>1, <4>2 DEF WritePosition, QueueEnd
        <5>3. QED BY <5>1, <5>2
      <4>3. QED BY <2>2, <4>1, <4>2
    <3>5. QED BY <2>9, <3>2, <3>3, <3>4 DEF FileFollowsQueue
  <2>11. CASE n # l - o
    <3>1. full' = full /\ part' = n
      BY <2>4, <2>11
    <3>2. WritevInside'
      BY <2>1, <2>2, <2>3, <2>7, <2>11, <3>1 DEF WritevInside
    <3>3. WritePosition' = f + o + n
      BY <2>1, <2>2, <2>3, <3>1 DEF WritePosition
    <3>4. QED BY <2>8, <2>9, <3>2, <3>3 DEF FileFollowsQueue
  <2>12. QED BY <2>10, <2>11
<1>10. CASE ConsumeWritten
  <2>1. /\ full' = 0 /\ part' = 0 /\ iov' = 0
        /\ UNCHANGED <<file, rpc>>
    BY <1>10 DEF ConsumeWritten, fileVars, prodVars
  <2>2. Len(queue)' \in Nat /\ queue' \in Seq(Chunk)
    BY TypeStep DEF TypeOK, QueueTypeOK
  <2>3. WritevInside'
    BY <2>1, <2>2 DEF WritevInside
  <2>4. WritePosition' = QueueStart'
    <3>1. CASE queue' = <<>>
      <4>1. ~(full' < Len(queue)')
        BY <2>1, <3>1
      <4>2. QED BY <3>1, <4>1 DEF WritePosition, QueueStart
    <3>2. CASE queue' # <<>>
      <4>1. full' < Len(queue)' /\ full' + 1 = 1
        BY <2>1, <2>2, <3>2
      <4>2. 1 \in 1..Len(queue)' /\ queue'[1] \in Chunk
        BY <2>2, <3>2
      <4>3. queue'[1].first + queue'[1].offset \in Nat
        BY <4>2 DEF Chunk
      <4>4. QED BY <2>1, <3>2, <4>1, <4>3 DEF WritePosition, QueueStart
    <3>3. QED BY <3>1, <3>2
  <2>5. QED BY <1>10, <2>1, <2>3, <2>4, ConsumeTiles
           DEF StreamTiled, FileFollowsQueue, FileInOrder
<1>11. CASE PublishAlways
  <2>1. /\ UNCHANGED <<file, queue, producer, copied, rpc>>
        /\ full' = 0 /\ part' = 0 /\ iov' \in Nat /\ iov' <= Len(queue)
        /\ full = 0 /\ part = 0
    <3>1. full = 0 /\ part = 0
      BY <1>11, QueueFacts
         DEF PublishAlways, StreamTiled, ThreadsAgree, WritevInside
    <3>2. QED
      BY <1>11, <3>1, QueueFacts, AofAssumption
         DEF PublishAlways, fileVars, queueVars, prodVars, WritevInside
  <2>2. QED BY <2>1, RestingWriter
<1>12. CASE WriterSyncStart
  <2>1. /\ UNCHANGED <<file, queue, producer, copied, rpc>>
        /\ full' = 0 /\ part' = 0 /\ iov' \in Nat /\ iov' <= Len(queue)
        /\ full = 0 /\ part = 0
    <3>1. full = 0 /\ part = 0
      BY <1>12, QueueFacts
         DEF WriterSyncStart, StreamTiled, ThreadsAgree, WritevInside
    <3>2. QED
      BY <1>12, <3>1, QueueFacts, AofAssumption
         DEF WriterSyncStart, WriterSynced, fileVars, queueVars, prodVars,
            WritevInside
  <2>2. QED BY <2>1, RestingWriter
<1>13. CASE WriterSyncDone
  <2>1. /\ UNCHANGED <<file, queue, producer, copied, rpc>>
        /\ full' = 0 /\ part' = 0 /\ iov' \in Nat /\ iov' <= Len(queue)
        /\ full = 0 /\ part = 0
    <3>1. full = 0 /\ part = 0
      BY <1>13, QueueFacts
         DEF WriterSyncDone, StreamTiled, ThreadsAgree, WritevInside
    <3>2. QED
      BY <1>13, <3>1, QueueFacts, AofAssumption
         DEF WriterSyncDone, WriterSynced, fileVars, queueVars, prodVars,
            WritevInside
  <2>2. QED BY <2>1, RestingWriter
<1>14. CASE WriterTimeout
  <2>1. /\ UNCHANGED <<file, queue, producer, copied, rpc>>
        /\ full' = 0 /\ part' = 0 /\ iov' \in Nat /\ iov' <= Len(queue)
        /\ full = 0 /\ part = 0
    <3>1. full = 0 /\ part = 0
      BY <1>14, QueueFacts
         DEF WriterTimeout, StreamTiled, ThreadsAgree, WritevInside
    <3>2. QED
      BY <1>14, <3>1, QueueFacts, AofAssumption
         DEF WriterTimeout, writerVars, fileVars, queueVars, prodVars,
            WritevInside
  <2>2. QED BY <2>1, RestingWriter
<1>15. CASE WritevFails
  <2>1. /\ UNCHANGED <<file, queue, producer, copied, rpc>>
        /\ full' = 0 /\ part' = 0 /\ iov' \in Nat /\ iov' <= Len(queue)
        /\ full = 0 /\ part = 0
    <3>1. full = 0 /\ part = 0
      BY <1>15, QueueFacts
         DEF WritevFails, StreamTiled, ThreadsAgree, WritevInside
    <3>2. QED
      BY <1>15, <3>1, QueueFacts, AofAssumption
         DEF WritevFails, LeaveLoop, fileVars, queueVars, prodVars,
            WritevInside
  <2>2. QED BY <2>1, RestingWriter
<1>16. CASE Crash
  <2>1. /\ full' = 0 /\ part' = 0 /\ iov' = 0 /\ queue' = <<>>
        /\ rpc' = "closed"
    BY <1>16 DEF Crash, ForgetMemory
  <2>2. PICK keep \in durable..Len(file) : file' = SubSeq(file, 1, keep)
    BY <1>16 DEF Crash
  <2>3. FileInOrder'
    BY <2>2, PrefixInOrder DEF StreamTiled, TypeOK, FileTypeOK
  <2>4. QED BY <2>1, <2>3 DEF WritevInside, FileFollowsQueue
<1>17. CASE Restart
  <2>1. /\ full' = 0 /\ part' = 0 /\ iov' = 0 /\ queue' = <<>>
        /\ producer' = NoChunk
    BY <1>17 DEF Restart, ForgetMemory
  <2>2. PICK keep \in 0..Len(file) :
          file' = SubSeq(file, 1, keep) /\ copied' = keep
    BY <1>17, RestartFacts DEF Reopen, StreamTiled
  <2>3. FileInOrder' /\ Len(file') = keep
    BY <2>2, PrefixInOrder DEF StreamTiled, TypeOK, FileTypeOK
  <2>4. WritePosition' = keep
    <3>1. producer'.length = 0 /\ ~(full' < Len(queue'))
      BY <2>1 DEF NoChunk
    <3>2. QED BY <2>1, <2>2, <3>1 DEF WritePosition, QueueEnd
  <2>5. WritevInside'
    BY <2>1 DEF WritevInside
  <2>6. QED BY <2>3, <2>4, <2>5 DEF FileFollowsQueue
<1>18. CASE \/ TransactionCommit \/ CommitAllocFails \/ FlushAllocFails
            \/ CheckpointBegin \/ CloseBegin \/ FlushReturn
            \/ CheckpointWritten \/ CheckpointSyncStart \/ CheckpointSyncDone
            \/ CheckpointDone \/ PauseReturn \/ ResumeAfterFork
            \/ CloseStop
  <2>1. /\ UNCHANGED <<file, full, part, iov, wpc, queue, producer, copied>>
        /\ rpc # "closed"
    BY <1>18
       DEF TransactionCommit, CommitAllocFails, FlushAllocFails,
           CheckpointBegin, CloseBegin, FlushReturn, CheckpointWritten,
           CheckpointSyncStart, CheckpointSyncDone, CheckpointDone,
           PauseReturn, ResumeAfterFork, CloseStop, FlushReturns,
           StreamTiled, ThreadsAgree, fileVars, queueVars, writerVars
  <2>2. QueueEnd' = QueueEnd
    BY <2>1 DEF QueueEnd
  <2>3. QED BY <2>1, <2>2, QueueFacts, TileStep, GrowingQueue
<1> QED
  BY <1>1, <1>2, <1>3, <1>4, <1>5, <1>6, <1>7, <1>8, <1>9, <1>10, <1>11,
     <1>12, <1>13, <1>14, <1>15, <1>16, <1>17, <1>18
     DEF TransactionBegin, TransactionRollback, AofAppend, WriterPause,
         WriterResume, RestartRefused, Next, ReactorWaits, Writer

-----------------------------------------------------------------------------
(* Backpressure *)

\* Queueing bytes raises the flag at the high water mark.
LEMMA QueueChunksHysteresis ==
    ASSUME StreamTiled, rpc # "closed", NEW q, NEW n \in Nat,
           QueueChunks(q, queueBytes + n)
    PROVE  BackpressureHysteresis'
<1>1. /\ queueBytes \in Nat /\ LowWater \in Nat /\ HighWater \in Nat
      /\ LowWater < HighWater
  BY AofAssumption, QueueFacts
<1>2. queueBytes' = queueBytes + n
  BY DEF QueueChunks
<1>3. CASE queueBytes + n >= HighWater
  <2>1. backpressured'
    BY <1>3 DEF QueueChunks
  <2>2. QED BY <1>1, <1>2, <1>3, <2>1 DEF BackpressureHysteresis
<1>4. CASE ~(queueBytes + n >= HighWater)
  <2>1. backpressured' <=> backpressured
    BY <1>4 DEF QueueChunks
  <2>2. backpressured => queueBytes > LowWater
    BY DEF StreamTiled, BackpressureHysteresis
  <2>3. QED BY <1>1, <1>2, <1>4, <2>1, <2>2 DEF BackpressureHysteresis
<1>5. QED BY <1>3, <1>4

\* Every step keeps the backpressure flag and the queue in agreement.
LEMMA BackpressureStep ==
    ASSUME StreamTiled, Next
    PROVE  BackpressureHysteresis'
<1>1. CASE UNCHANGED <<queueBytes, backpressured>> /\ rpc # "closed"
  BY <1>1 DEF StreamTiled, BackpressureHysteresis
<1>2. CASE CommitCopy
  <2>1. rpc = "commit"
    BY <1>2 DEF CommitCopy
  <2>2. CASE FilledChunk.length = ChunkCapacity
    <3>1. /\ QueueChunks(Append(queue, FilledChunk),
                         queueBytes + FilledChunk.length)
          /\ FilledChunk.length \in Nat
      BY <1>2, <2>1, <2>2, CopyFacts DEF CommitCopy, Chunk
    <3>2. QED BY <2>1, <3>1, QueueChunksHysteresis
  <2>3. CASE FilledChunk.length # ChunkCapacity
    <3>1. UNCHANGED <<queueBytes, backpressured>>
      BY <1>2, <2>3 DEF CommitCopy
    <3>2. QED BY <1>1, <2>1, <3>1
  <2>4. QED BY <2>2, <2>3
<1>3. CASE Flush \/ CheckpointQueue
  <2>1. QueueProducer /\ rpc # "closed" /\ producer.length \in Nat
    BY <1>3, QueueFacts DEF Flush, CheckpointQueue
  <2>2. CASE producer.length > 0
    <3>1. QueueChunks(Append(queue, producer), queueBytes + producer.length)
      BY <2>1, <2>2 DEF QueueProducer
    <3>2. QED BY <2>1, <3>1, QueueChunksHysteresis
  <2>3. CASE ~(producer.length > 0)
    BY <1>1, <2>1, <2>3 DEF QueueProducer, queueVars
  <2>4. QED BY <2>2, <2>3
<1>4. CASE FlushPending
  <2>1. /\ QueueChunks(queue \o [i \in 1..PendingCount |-> PendingChunk(i)],
                       queueBytes + pending.used)
        /\ rpc # "closed" /\ pending.used \in Nat
    BY <1>4, FieldTypes DEF FlushPending, StreamTiled
  <2>2. QED BY <2>1, QueueChunksHysteresis
<1>5. CASE ConsumeWritten
  <2>1. /\ Transferred \in Nat /\ Transferred <= queueBytes
        /\ queueBytes \in Nat /\ LowWater \in Nat /\ HighWater \in Nat
        /\ LowWater < HighWater /\ wpc = "writev"
    BY <1>5, TransferredFacts, QueueFacts, AofAssumption DEF ConsumeWritten
  <2>2. /\ queueBytes' = queueBytes - Transferred
        /\ backpressured' <=> (backpressured
                                 /\ queueBytes - Transferred > LowWater)
    BY <1>5 DEF ConsumeWritten
  <2>3. rpc # "closed"
    BY <2>1 DEF StreamTiled, ThreadsAgree
  <2>4. ~backpressured => queueBytes < HighWater
    BY <2>3 DEF StreamTiled, BackpressureHysteresis
  <2>5. QED BY <2>1, <2>2, <2>4 DEF BackpressureHysteresis
<1>6. CASE Crash
  BY <1>6 DEF Crash, BackpressureHysteresis
<1>7. CASE Restart
  <2>1. queueBytes' = 0 /\ backpressured' = FALSE
    BY <1>7 DEF Restart, ForgetMemory
  <2>2. HighWater > 0
    BY AofAssumption
  <2>3. QED BY <2>1, <2>2, AofAssumption DEF BackpressureHysteresis
<1>8. CASE rpc = "closed" /\ rpc' = "closed"
  BY <1>8 DEF BackpressureHysteresis
<1>9. CASE Writer \/ WriterTimeout \/ WritevFails
  <2>1. ConsumeWritten \/ UNCHANGED <<queueBytes, backpressured, rpc>>
    BY <1>9
       DEF Writer, queueVars, prodVars, WriterPause, WriterResume,
           WriterStop, WriterGather, WritevChunk, PublishAlways,
           WriterSyncStart, WriterSyncDone, WriterTimeout, WritevFails
  <2>2. QED BY <1>1, <1>5, <1>8, <2>1
<1>10. CASE RestartRefused
  BY <1>8, <1>10 DEF RestartRefused, vars, prodVars
<1>11. QED
  <2>1. SUFFICES ASSUME ~CommitCopy, ~Flush, ~CheckpointQueue, ~FlushPending,
                        ~Crash, ~Restart, ~RestartRefused,
                        ~(Writer \/ WriterTimeout \/ WritevFails)
                 PROVE  UNCHANGED <<queueBytes, backpressured>> /\ rpc # "closed"
    BY <1>1, <1>2, <1>3, <1>4, <1>6, <1>7, <1>9, <1>10
  <2>2. syncer = "reactor" => rpc = "ckptSync"
    BY DEF StreamTiled, ThreadsAgree
  <2>3. QED BY <2>1, <2>2
     DEF Next, ReactorWaits, queueVars, TransactionBegin,
         TransactionRollback, TransactionCommit, AofAppend, CommitAllocFails,
         FlushAllocFails, CheckpointBegin, CloseBegin, FlushReturn,
         CheckpointWritten, CheckpointSyncStart, CheckpointSyncDone,
         CheckpointDone, PauseReturn, ResumeAfterFork, CloseStop, CloseJoin

-----------------------------------------------------------------------------
(* Theorems *)

\* The invariant holds when the process starts on an empty file.
LEMMA StreamTiledInit == Init => StreamTiled
<1> SUFFICES ASSUME Init PROVE StreamTiled
  OBVIOUS
<1>1. NoChunk \in Chunk /\ NoChunk.length = 0 /\ NoChunk.sequence = 0
  BY NoChunkType DEF NoChunk
<1>2. Len(queue) = 0 /\ Len(file) = 0 /\ Len(ends) = 0 /\ queue = <<>>
  BY DEF Init
<1>3. TypeOK
  <2>1. FileTypeOK
    BY EmptySeq DEF Init, FileTypeOK
  <2>2. QueueTypeOK
    BY <1>1, EmptySeq DEF Init, QueueTypeOK
  <2>3. SequenceTypeOK /\ ThreadTypeOK /\ WriterTypeOK /\ CrashTypeOK
    BY DEF Init, SequenceTypeOK, ThreadTypeOK, WriterTypeOK, CrashTypeOK
  <2>4. BufferTypeOK
    BY DEF Init, BufferTypeOK, Buffer, EmptyBuffer, Idle
  <2>5. QED BY <2>1, <2>2, <2>3, <2>4 DEF TypeOK
<1>4. QueueEnd = 0 /\ QueueStart = 0 /\ WritePosition = 0
  <2>1. producer.length = 0 /\ copied = 0 /\ full = 0
    BY <1>1 DEF Init
  <2>2. QED BY <1>2, <2>1 DEF QueueEnd, QueueStart, WritePosition
<1>5. QueueTiles /\ FileInOrder
  BY <1>2 DEF QueueTiles, FileInOrder
<1>6. QueueCounted
  BY <1>4 DEF Init, QueueCounted
<1>7. ProducerTiles
  BY <1>1 DEF Init, ProducerTiles
<1>8. WritevInside /\ FileFollowsQueue
  BY <1>2, <1>4 DEF Init, WritevInside, FileFollowsQueue
<1>9. SequencesAssigned
  BY <1>1, <1>2 DEF Init, SequencesAssigned
<1>10. ReactorAgrees /\ ThreadsAgree
  BY DEF Init, ReactorAgrees, ThreadsAgree
<1>11. BackpressureHysteresis
  BY AofAssumption DEF Init, BackpressureHysteresis
<1>12. QED BY <1>3, <1>5, <1>6, <1>7, <1>8, <1>9, <1>10, <1>11 DEF StreamTiled

\* A stuttering step keeps the invariant.
LEMMA StreamTiledStutters ==
    ASSUME StreamTiled, UNCHANGED vars
    PROVE  StreamTiled'
<1> USE DEF vars, fileVars, queueVars, seqVars, prodVars, pauseVars,
            writerVars, syncVars, crashVars
<1>1. TypeOK'
  BY DEF StreamTiled, TypeOK, FileTypeOK, QueueTypeOK, SequenceTypeOK,
         BufferTypeOK, ThreadTypeOK, WriterTypeOK, CrashTypeOK
<1>2. /\ QueueEnd' = QueueEnd /\ QueueStart' = QueueStart
      /\ WritePosition' = WritePosition
  BY DEF QueueEnd, QueueStart, WritePosition
<1>3. QueueTiles' /\ QueueCounted' /\ ProducerTiles'
  BY <1>2 DEF StreamTiled, QueueTiles, QueueCounted, ProducerTiles
<1>4. WritevInside' /\ SequencesAssigned' /\ FileFollowsQueue' /\ FileInOrder'
  BY <1>2 DEF StreamTiled, WritevInside, SequencesAssigned,
              FileFollowsQueue, FileInOrder
<1>5. ReactorAgrees' /\ ThreadsAgree' /\ BackpressureHysteresis'
  BY DEF StreamTiled, ReactorAgrees, ThreadsAgree, BackpressureHysteresis
<1>6. QED BY <1>1, <1>3, <1>4, <1>5 DEF StreamTiled

\* The inductive invariant: whatever the two threads, the disk, the allocator
\* and crashes do, the file, the queue and the producer chunk tile the bytes
\* that were committed.
THEOREM StreamTiledInvariant == Spec => []StreamTiled
<1>1. StreamTiled /\ [Next]_vars => StreamTiled'
  <2> SUFFICES ASSUME StreamTiled, [Next]_vars PROVE StreamTiled'
    OBVIOUS
  <2>1. CASE Next
    BY <2>1, TypeStep, TileStep, FileStep, SequenceStep, ReactorStep,
       ThreadStep, BackpressureStep DEF StreamTiled
  <2>2. CASE UNCHANGED vars
    BY <2>2, StreamTiledStutters
  <2>3. QED BY <2>1, <2>2
<1>2. QED BY StreamTiledInit, <1>1, PTL DEF Spec

\* The variables of aof_t keep their types; queue_bytes never underflows when
\* consume_written subtracts what writev transferred.
THEOREM TypeCorrect == Spec => []TypeOK
<1>1. StreamTiled => TypeOK
  BY DEF StreamTiled
<1>2. QED BY StreamTiledInvariant, <1>1, PTL

\* The bytes of the file are the committed bytes, each once and in order, for
\* every way writev may split them and after every crash and tail repair.
THEOREM FileOrder == Spec => []FileInOrder
<1>1. StreamTiled => FileInOrder
  BY DEF StreamTiled
<1>2. QED BY StreamTiledInvariant, <1>1, PTL

\* The backpressure flag agrees with the queue and the two water marks: a
\* drained queue always accepts writes again, a full one never does.
THEOREM Hysteresis == Spec => []BackpressureHysteresis
<1>1. StreamTiled => BackpressureHysteresis
  BY DEF StreamTiled
<1>2. QED BY StreamTiledInvariant, <1>1, PTL

\* fork runs only while the writer waits at its condition variable and nobody
\* is inside fdatasync.
THEOREM ForkSafe == Spec => []ForkFindsWriterParked
<1>1. StreamTiled => ForkFindsWriterParked
  BY DEF StreamTiled, TypeOK, ThreadTypeOK, ThreadsAgree, ForkFindsWriterParked
<1>2. QED BY StreamTiledInvariant, <1>1, PTL

=============================================================================
