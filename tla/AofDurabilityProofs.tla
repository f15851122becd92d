------------------------ MODULE AofDurabilityProofs ------------------------
(***************************************************************************)
(* What a sequence number promises, proved for every policy, capacity and  *)
(* number of crashes: published numbers are in the file, synced numbers    *)
(* and checkpoints are on the disk, acknowledged transactions survive, and *)
(* aof_close leaves nothing behind.  The second and third layers of        *)
(* AofInvariant rest on StreamTiled, which AofProofs proves.               *)
(***************************************************************************)
EXTENDS AofProofs

-----------------------------------------------------------------------------
(* The state without its tiling *)

\* The types that the arguments about sequence numbers need.
LEMMA NumberTypes ==
    ASSUME StreamTiled
    PROVE  /\ ends \in Seq(Nat) /\ Len(ends) \in Nat /\ file \in Seq(Nat)
           /\ Len(file) \in Nat /\ copied \in Nat /\ durable \in Nat
           /\ syncLen \in Nat /\ written \in Nat /\ synced \in Nat
           /\ target \in Nat /\ promised \in Nat /\ marks \in SUBSET Nat
           /\ pos \in Nat /\ txn.used \in Nat /\ txn.recs \in SUBSET Nat
           /\ pending.used \in Nat /\ pending.recs \in SUBSET Nat
           /\ recs \in SUBSET Nat /\ producer.sequence \in Nat
           /\ Committed \in Nat /\ Committed <= Len(ends)
           /\ rpc # "commit" => Committed = Len(ends)
           /\ \A n \in 1..Len(ends) : ends[n] \in Nat
           /\ \A i \in 1..Len(queue) :
                queue[i].sequence \in Nat /\ queue[i].end \in BOOLEAN
<1>1. /\ TypeOK /\ ReactorAgrees
  BY DEF StreamTiled
<1>2. /\ ends \in Seq(Nat) /\ file \in Seq(Nat) /\ copied \in Nat
      /\ durable \in Nat /\ recs \in SUBSET Nat /\ syncLen \in Nat
      /\ written \in Nat /\ synced \in Nat /\ target \in Nat
      /\ promised \in Nat /\ marks \in SUBSET Nat /\ pos \in Nat
      /\ producer \in Chunk
  BY <1>1 DEF TypeOK, FileTypeOK, WriterTypeOK, SequenceTypeOK,
              BufferTypeOK, QueueTypeOK
<1>3. /\ Len(ends) \in Nat /\ Len(file) \in Nat
      /\ txn.used \in Nat /\ txn.recs \in SUBSET Nat
      /\ pending.used \in Nat /\ pending.recs \in SUBSET Nat
      /\ \A i \in 1..Len(queue) : queue[i] \in Chunk
  BY <1>1, FieldTypes
<1>4. \A x \in Chunk : x.sequence \in Nat /\ x.end \in BOOLEAN
  BY DEF Chunk
<1>5. /\ Committed \in Nat /\ Committed <= Len(ends)
      /\ rpc # "commit" => Committed = Len(ends)
  BY <1>1, <1>3 DEF Committed, ReactorAgrees
<1>6. \A n \in 1..Len(ends) : ends[n] \in Nat
  BY <1>2
<1>7. QED BY <1>2, <1>3, <1>4, <1>5, <1>6

\* The writer never runs ahead of the bytes that were copied into chunks.
LEMMA FileInCopied ==
    ASSUME StreamTiled, rpc # "closed"
    PROVE  Len(file) <= QueueEnd /\ QueueEnd <= copied
<1>1. /\ QueueTiles /\ WritevInside /\ ProducerTiles
      /\ full \in Nat /\ part \in Nat /\ iov \in Nat /\ Len(queue) \in Nat
      /\ QueueEnd \in Nat /\ copied \in Nat
      /\ producer.length \in Nat /\ producer.first \in Nat
      /\ full <= Len(queue) /\ Len(file) = WritePosition
  BY QueueFacts DEF StreamTiled, FileFollowsQueue
<1>2. QueueEnd <= copied
  BY <1>1 DEF QueueEnd, ProducerTiles
<1>3. CASE full < Len(queue)
  <2>1. full + 1 \in 1..Len(queue)
    BY <1>1, <1>3
  <2>2. PICK f \in Nat, l \in Nat, o \in Nat :
           /\ f = queue[full + 1].first /\ l = queue[full + 1].length
           /\ o = queue[full + 1].offset
    BY <2>1, QueueFacts
  <2>3. o < l /\ f + l <= QueueEnd
    BY <1>1, <2>1, <2>2 DEF QueueTiles
  <2>4. part > 0 => part < l - o
    BY <1>1, <2>2 DEF WritevInside
  <2>5. WritePosition = f + o + part
    BY <1>3, <2>2 DEF WritePosition
  <2>6. f + o + part <= f + l
    <3>1. part \in Nat
      BY <1>1
    <3>2. QED BY <2>2, <2>3, <2>4, <3>1
  <2>7. f + o + part <= QueueEnd
    <3>1. part \in Nat /\ QueueEnd \in Nat
      BY <1>1
    <3>2. QED BY <2>3, <2>6, <3>1
  <2>8. QED BY <1>1, <1>2, <2>5, <2>7
<1>4. CASE ~(full < Len(queue))
  BY <1>1, <1>2, <1>4 DEF WritePosition
<1>5. QED BY <1>3, <1>4

\* A chunk that the writev in progress has written completely is in the file.
LEMMA WrittenChunkInFile ==
    ASSUME StreamTiled, rpc # "closed", NEW i \in 1..full
    PROVE  i \in 1..Len(queue) /\ queue[i].first + queue[i].length <= Len(file)
<1>1. /\ QueueTiles /\ full \in Nat /\ part \in Nat /\ Len(queue) \in Nat
      /\ full <= Len(queue) /\ Len(file) = WritePosition
  BY QueueFacts DEF StreamTiled, FileFollowsQueue
<1>2. i \in 1..Len(queue)
  BY <1>1
<1>3. CASE full < Len(queue)
  <2>1. full + 1 \in 1..Len(queue) /\ i < full + 1
    BY <1>1, <1>3
  <2>2. queue[i].first + queue[i].length <= queue[full + 1].first
    BY <1>1, <1>2, <2>1 DEF QueueTiles
  <2>3. /\ queue[full + 1].first \in Nat /\ queue[full + 1].offset \in Nat
        /\ queue[i].first \in Nat /\ queue[i].length \in Nat
    BY <1>2, <2>1, QueueFacts
  <2>4. Len(file) = queue[full + 1].first + queue[full + 1].offset + part
    BY <1>1, <1>3 DEF WritePosition
  <2>5. part \in Nat
    BY <1>1
  <2>6. QED BY <1>2, <2>2, <2>3, <2>4, <2>5, SMTT(20)
<1>4. CASE ~(full < Len(queue))
  BY <1>1, <1>2, <1>4 DEF WritePosition, QueueTiles
<1>5. QED BY <1>2, <1>3, <1>4

-----------------------------------------------------------------------------
(* What a running process never takes back *)

\* Until the process ends, committed numbers keep their last bytes and the
\* file, its durable prefix and the records only grow.
LEMMA NothingTakenBack ==
    ASSUME StreamTiled, NumbersKept, Next, ~Crash, ~Restart
    PROVE  /\ Len(ends') \in Nat /\ Committed' \in Nat
           /\ Committed <= Committed' /\ Committed' <= Len(ends')
           /\ \A n \in 1..Committed : ends'[n] = ends[n]
           /\ Len(file) <= Len(file') /\ durable <= durable'
           /\ recs \subseteq recs' /\ copied <= copied'
<1> USE DEF vars, fileVars, queueVars, seqVars, prodVars, pauseVars,
            writerVars, syncVars, crashVars
<1>1. CASE /\ UNCHANGED <<ends, file, durable, recs, copied>>
           /\ rpc # "commit" /\ rpc' # "commit"
  BY <1>1, NumberTypes DEF Committed
<1>2. CASE /\ UNCHANGED <<ends, durable, recs, copied, rpc>>
           /\ Len(file') >= Len(file)
  BY <1>2, NumberTypes DEF Committed
<1>3. CASE TransactionCommit /\ txn.used # 0
  <2>1. /\ ends' = Append(ends, copied + txn.used) /\ rpc' = "commit"
        /\ rpc = "ready" /\ UNCHANGED <<file, durable, recs, copied>>
    BY <1>3, NumberTypes DEF TransactionCommit
  <2>2. /\ Len(ends') = Len(ends) + 1
        /\ \A n \in 1..Len(ends) : ends'[n] = ends[n]
    BY <2>1, NumberTypes
  <2>3. QED BY <2>1, <2>2, NumberTypes, SMTT(20) DEF Committed
<1>4. CASE CheckpointBegin
  <2>1. /\ ends' = Append(ends, copied + TokenSize) /\ rpc' = "commit"
        /\ rpc = "ready" /\ UNCHANGED <<file, durable, recs, copied>>
    BY <1>4, NumberTypes DEF CheckpointBegin
  <2>2. /\ Len(ends') = Len(ends) + 1
        /\ \A n \in 1..Len(ends) : ends'[n] = ends[n]
    BY <2>1, NumberTypes, AofAssumption
  <2>3. QED BY <2>1, <2>2, NumberTypes DEF Committed
<1>5. CASE CommitCopy
  <2>1. /\ UNCHANGED <<ends, file, durable>> /\ rpc = "commit"
        /\ copied' = copied + CopyAmount /\ recs \subseteq recs'
    BY <1>5 DEF CommitCopy
  <2>2. CopyAmount \in Nat /\ Len(ends) > 0
    BY <2>1, CopyFacts DEF StreamTiled, ReactorAgrees
  <2>3. copied <= copied'
    BY <2>1, <2>2, NumberTypes
  <2>4. /\ Committed = Len(ends) - 1
        /\ Committed' = Len(ends) - 1 \/ Committed' = Len(ends)
    BY <2>1 DEF Committed
  <2>5. /\ Len(ends) \in Nat /\ Len(file) \in Nat /\ durable \in Nat
    BY NumberTypes
  <2>6. ends' = ends /\ file' = file /\ durable' = durable
    BY <2>1
  <2>7. QED BY <2>1, <2>2, <2>3, <2>4, <2>5, <2>6
<1>6. CASE CommitAllocFails
  <2>1. /\ UNCHANGED <<file, durable, recs, copied>> /\ rpc = "commit"
        /\ rpc' = "ready" /\ Len(ends) > 0
    BY <1>6 DEF CommitAllocFails, StreamTiled, ReactorAgrees
  <2>2. PICK e : ends' = [ends EXCEPT ![Len(ends)] = e]
    BY <1>6 DEF CommitAllocFails
  <2>3. /\ Len(ends') = Len(ends)
        /\ \A n \in 1..(Len(ends) - 1) : ends'[n] = ends[n]
    BY <2>1, <2>2, NumberTypes
  <2>4. QED BY <2>1, <2>3, NumberTypes, SMTT(20) DEF Committed
<1>7. CASE FlushPending
  <2>1. /\ ends' = Append(ends, copied + pending.used)
        /\ rpc = "flush" /\ rpc' = "flushWait" /\ UNCHANGED <<file, durable>>
        /\ copied' = copied + pending.used /\ recs \subseteq recs'
    BY <1>7 DEF FlushPending
  <2>2. /\ Len(ends') = Len(ends) + 1
        /\ \A n \in 1..Len(ends) : ends'[n] = ends[n]
    BY <2>1, NumberTypes
  <2>3. QED BY <2>1, <2>2, NumberTypes, SMTT(20) DEF Committed
<1>8. CASE WritevChunk
  <2>1. UNCHANGED <<ends, durable, recs, copied, rpc>>
    BY <1>8 DEF WritevChunk
  <2>2. full + 1 \in 1..Len(queue)
    BY <1>8, QueueFacts, SMTT(20) DEF WritevChunk, WritevInside
  <2>3. PICK f \in Nat, n \in Nat : file' = file \o [i \in 1..n |-> f + i]
    <3>1. /\ queue[full + 1].first + queue[full + 1].offset \in Nat
          /\ queue[full + 1].length \in Nat /\ queue[full + 1].offset \in Nat
      BY <2>2, QueueFacts, SMTT(20)
    <3>2. PICK n \in 1..(queue[full + 1].length - queue[full + 1].offset) :
            file' = file \o [i \in 1..n |-> queue[full + 1].first
                                             + queue[full + 1].offset + i]
      BY <1>8 DEF WritevChunk
    <3>3. n \in Nat
      BY <3>1
    <3>4. QED BY <3>1, <3>2, <3>3
  <2>4. [i \in 1..n |-> f + i] \in Seq(Nat) /\ Len([i \in 1..n |-> f + i]) = n
    BY <2>3
  <2>5. Len(file') = Len(file) + n
    BY <2>3, <2>4, NumberTypes, ConcatProperties
  <2>6. QED BY <1>2, <2>1, <2>3, <2>5, NumberTypes
<1>9. CASE WriterSyncDone
  <2>1. UNCHANGED <<ends, file, recs, copied, rpc>> /\ durable <= durable'
    BY <1>9, NumberTypes, SMTT(20) DEF WriterSyncDone, Greatest
  <2>2. QED BY <2>1, NumberTypes DEF Committed
<1>10. CASE CheckpointSyncDone
  <2>1. /\ UNCHANGED <<ends, file, recs, copied>> /\ durable <= durable'
        /\ rpc = "ckptSync" /\ rpc' # "commit"
    BY <1>10, NumberTypes
       DEF CheckpointSyncDone, Greatest, StreamTiled, ThreadsAgree
  <2>2. QED BY <2>1, NumberTypes DEF Committed
<1>11. CASE TransactionCommit /\ txn.used = 0
  BY <1>1, <1>11 DEF TransactionCommit
<1>12. CASE UNCHANGED <<ends, file, durable, recs, copied, rpc>>
  BY <1>2, <1>12, NumberTypes
<1> QED
  BY <1>1, <1>3, <1>4, <1>5, <1>6, <1>7, <1>8, <1>9, <1>10, <1>11, <1>12
     DEF TransactionBegin, TransactionRollback, AofAppend, FlushAllocFails,
         Flush, CloseBegin, FlushReturn, CheckpointQueue, CheckpointWritten,
         CheckpointSyncStart, CheckpointDone, PauseReturn, ResumeAfterFork,
         CloseStop, CloseJoin, WriterPause, WriterResume, WriterStop,
         WriterGather, ConsumeWritten, PublishAlways, WriterSyncStart,
         WriterTimeout, WritevFails, RestartRefused, FlushReturns,
         Next, ReactorWaits, Writer

\* What committed numbers cover stays covered.
LEMMA StillEndBy ==
    ASSUME StreamTiled, NumbersKept, Next, ~Crash, ~Restart,
           NEW n \in Nat, n <= Committed, NEW a \in Nat, NEW b \in Nat,
           EndBy(n, a), a <= b
    PROVE  n <= Committed' /\ \A m \in 1..n : ends'[m] <= b
<1>1. /\ Committed \in Nat /\ Len(ends) \in Nat /\ Committed <= Len(ends)
      /\ \A m \in 1..Len(ends) : ends[m] \in Nat
  BY NumberTypes
<1>2. /\ Committed' \in Nat /\ Committed <= Committed'
      /\ \A m \in 1..Committed : ends'[m] = ends[m]
  BY NothingTakenBack
<1>3. ASSUME NEW m \in 1..n PROVE ends'[m] <= b
  <2>1. m \in 1..Committed /\ m \in 1..Len(ends)
    BY <1>1
  <2>2. ends'[m] = ends[m] /\ ends[m] \in Nat /\ ends[m] <= a
    BY <1>1, <1>2, <2>1 DEF EndBy
  <2>3. QED BY <2>2
<1>4. QED BY <1>1, <1>2, <1>3

-----------------------------------------------------------------------------
(* The ends of transactions are records *)

\* The last record of a buffer lands where its last byte does.
LEMMA LastPlaced ==
    ASSUME NEW b, b.used \in Nat, b.recs \in SUBSET Nat, b.used \in b.recs,
           NEW from \in Nat, from < b.used, NEW at \in Nat
    PROVE  at + (b.used - from) \in Placed(b, from, b.used, at)
<1>1. b.used \in {x \in b.recs : from < x /\ x <= b.used}
  OBVIOUS
<1>2. QED BY <1>1 DEF Placed

\* Copied records lie in the bytes that were copied.
LEMMA PlacedBelow ==
    ASSUME NEW b, b.recs \in SUBSET Nat, NEW from \in Nat, NEW to \in Nat,
           from <= to, NEW at \in Nat
    PROVE  \A r \in Placed(b, from, to, at) : r \in Nat /\ r <= at + (to - from)
<1> SUFFICES ASSUME NEW r \in Placed(b, from, to, at)
             PROVE  r \in Nat /\ r <= at + (to - from)
  OBVIOUS
<1>1. PICK x \in b.recs : from < x /\ x <= to /\ r = at + (x - from)
  BY DEF Placed
<1>2. x \in Nat
  BY <1>1
<1>3. QED BY <1>1, <1>2

\* Every step keeps the ends of committed transactions at records.
LEMMA EndsStep ==
    ASSUME StreamTiled, NumbersKept, Next
    PROVE  EndsAreRecords'
<1> USE DEF vars, fileVars, queueVars, seqVars, prodVars, pauseVars,
            writerVars, syncVars, crashVars
<1>0. EndsAreRecords /\ BuffersEndRecords
  BY DEF NumbersKept
<1>1. CASE /\ UNCHANGED <<ends, copied, recs>>
           /\ rpc # "commit" /\ rpc' # "commit"
  BY <1>0, <1>1 DEF EndsAreRecords, Committed
<1>2. CASE UNCHANGED <<ends, copied, recs, rpc, txn, pos>>
  BY <1>0, <1>2 DEF EndsAreRecords, Committed
<1>3. ASSUME NEW used \in Nat, rpc = "ready", rpc' = "commit",
             ends' = Append(ends, copied + used), txn'.used = used, pos' = 0,
             copied' = copied, recs' = recs
      PROVE  EndsAreRecords'
  <2>1. /\ Len(ends') = Len(ends) + 1 /\ ends'[Len(ends) + 1] = copied + used
        /\ \A n \in 1..Len(ends) : ends'[n] = ends[n]
    BY <1>3, NumberTypes
  <2>2. Committed' = Len(ends) /\ Committed = Len(ends)
    BY <1>3, <2>1, NumberTypes DEF Committed
  <2>3. QED BY <1>0, <1>3, <2>1, <2>2, NumberTypes DEF EndsAreRecords
<1>4. CASE TransactionCommit /\ txn.used # 0
  BY <1>3, <1>4, NumberTypes DEF TransactionCommit
<1>5. CASE CheckpointBegin
  <2>1. txn'.used = TokenSize /\ TokenSize \in Nat
    BY <1>5, AofAssumption DEF CheckpointBegin
  <2>2. QED BY <1>3, <1>5, <2>1 DEF CheckpointBegin
<1>6. CASE CommitCopy
  <2>1. /\ rpc = "commit" /\ ends' = ends /\ copied' = copied + CopyAmount
        /\ recs' = recs \cup Placed(txn, pos, pos + CopyAmount, copied)
    BY <1>6 DEF CommitCopy
  <2>2. /\ CopyAmount \in Nat /\ pos + CopyAmount <= txn.used
        /\ pos < txn.used /\ Len(ends) > 0
    BY <2>1, CopyFacts DEF StreamTiled, ReactorAgrees
  <2>3. ends[Len(ends)] = copied + (txn.used - pos) /\ Committed = Len(ends) - 1
    BY <1>0, <2>1 DEF EndsAreRecords, Committed
  <2>4. \A n \in 1..(Len(ends) - 1) :
          ends[n] <= copied' /\ ends[n] \in recs' \cup {0}
    <3> TAKE n \in 1..(Len(ends) - 1)
    <3>1. ends[n] <= copied /\ ends[n] \in recs \cup {0}
      BY <1>0, <2>3 DEF EndsAreRecords
    <3>2. ends[n] \in Nat /\ copied \in Nat
      BY NumberTypes
    <3>3. QED BY <2>1, <2>2, <3>1, <3>2
  <2>5. CASE pos + CopyAmount = txn.used
    <3>1. rpc' # "commit" /\ Committed' = Len(ends)
      BY <1>6, <2>1, <2>5 DEF CommitCopy, Committed
    <3>2. ends[Len(ends)] = copied'
      <4>1. copied \in Nat /\ pos \in Nat /\ txn.used \in Nat
        BY NumberTypes
      <4>2. txn.used - pos = CopyAmount
        BY <2>2, <2>5, <4>1
      <4>3. QED BY <2>1, <2>3, <4>2
    <3>3. ends[Len(ends)] \in recs'
      <4>1. txn.used \in txn.recs
        BY <1>0, <2>2, NumberTypes, SMTT(20) DEF BuffersEndRecords
      <4>2. copied + (txn.used - pos) \in Placed(txn, pos, txn.used, copied)
        BY <2>2, <4>1, NumberTypes, LastPlaced
      <4>3. QED BY <2>1, <2>3, <2>5, <4>2
    <3>4. ASSUME NEW n \in 1..Len(ends)
          PROVE  ends[n] <= copied' /\ ends[n] \in recs' \cup {0}
      <4>1. CASE n = Len(ends)
        BY <3>2, <3>3, <4>1, NumberTypes
      <4>2. CASE n # Len(ends)
        BY <2>4, <4>2, NumberTypes
      <4>3. QED BY <4>1, <4>2
    <3>5. QED BY <2>1, <3>1, <3>4 DEF EndsAreRecords
  <2>6. CASE pos + CopyAmount # txn.used
    <3>1. rpc' = "commit" /\ pos' = pos + CopyAmount /\ txn' = txn
      BY <1>6, <2>1, <2>6 DEF CommitCopy
    <3>2. Committed' = Len(ends) - 1
      BY <2>1, <3>1 DEF Committed
    <3>3. copied + (txn.used - pos) = copied' + (txn.used - pos')
      <4>1. copied \in Nat /\ pos \in Nat /\ txn.used \in Nat
        BY NumberTypes
      <4>2. copied' = copied + CopyAmount /\ pos' = pos + CopyAmount
        BY <2>1, <3>1
      <4>3. QED BY <2>2, <4>1, <4>2
    <3>4. QED BY <2>1, <2>3, <2>4, <3>1, <3>2, <3>3 DEF EndsAreRecords
  <2>7. QED BY <2>5, <2>6
<1>7. CASE CommitAllocFails
  <2>1. /\ rpc = "commit" /\ rpc' = "ready" /\ Len(ends) > 0
        /\ copied' = copied /\ recs' = recs
    BY <1>7 DEF CommitAllocFails, StreamTiled, ReactorAgrees
  <2>2. /\ ends' = [ends EXCEPT ![Len(ends)] = IF Len(ends) = 1 THEN 0
                                               ELSE ends[Len(ends) - 1]]
    BY <1>7 DEF CommitAllocFails
  <2>3. \A n \in 1..(Len(ends) - 1) :
          ends[n] <= copied /\ ends[n] \in recs \cup {0}
    BY <1>0, <2>1 DEF EndsAreRecords, Committed
  <2>4. /\ Len(ends') = Len(ends)
        /\ \A n \in 1..(Len(ends) - 1) : ends'[n] = ends[n]
        /\ ends'[Len(ends)] = IF Len(ends) = 1 THEN 0 ELSE ends[Len(ends) - 1]
    BY <2>1, <2>2, NumberTypes, SMTT(20)
  <2>5. ends'[Len(ends)] <= copied /\ ends'[Len(ends)] \in recs \cup {0}
    <3>1. CASE Len(ends) = 1
      BY <2>4, <3>1, NumberTypes
    <3>2. CASE Len(ends) # 1
      <4>1. Len(ends) - 1 \in 1..(Len(ends) - 1)
        <5>1. Len(ends) \in Nat /\ Len(ends) > 0
          BY <2>1, NumberTypes
        <5>2. \A k \in Nat : k > 0 /\ k # 1 => k - 1 \in 1..(k - 1)
          OBVIOUS
        <5>3. QED BY <3>2, <5>1, <5>2
      <4>2. ends'[Len(ends)] = ends[Len(ends) - 1]
        BY <2>4, <3>2
      <4>3. QED BY <2>3, <4>1, <4>2
    <3>3. QED BY <3>1, <3>2
  <2>6. ASSUME NEW n \in 1..Len(ends)
        PROVE  ends'[n] <= copied /\ ends'[n] \in recs \cup {0}
    <3>1. n = Len(ends) \/ n \in 1..(Len(ends) - 1)
      BY NumberTypes
    <3>2. QED BY <2>3, <2>4, <2>5, <3>1
  <2>7. Committed' = Len(ends)
    BY <2>1, <2>4 DEF Committed
  <2>8. QED BY <2>1, <2>6, <2>7 DEF EndsAreRecords
<1>8. CASE FlushPending
  <2>1. /\ rpc = "flush" /\ rpc' = "flushWait"
        /\ copied' = copied + pending.used
        /\ ends' = Append(ends, copied + pending.used)
        /\ recs' = recs \cup Placed(pending, 0, pending.used, copied)
        /\ pending.used > 0
    BY <1>8 DEF FlushPending, StreamTiled, ReactorAgrees
  <2>2. /\ Len(ends') = Len(ends) + 1
        /\ ends'[Len(ends) + 1] = copied + pending.used
        /\ \A n \in 1..Len(ends) : ends'[n] = ends[n]
    BY <2>1, NumberTypes
  <2>3. Committed' = Len(ends) + 1 /\ Committed = Len(ends)
    BY <2>1, <2>2, NumberTypes DEF Committed
  <2>4. copied + pending.used \in recs'
    <3>1. pending.used \in pending.recs
      BY <1>0, <2>1 DEF BuffersEndRecords
    <3>2. copied + (pending.used - 0) \in Placed(pending, 0, pending.used, copied)
      BY <2>1, <3>1, NumberTypes, LastPlaced
    <3>3. copied + (pending.used - 0) = copied + pending.used
      BY NumberTypes
    <3>4. QED BY <2>1, <3>2, <3>3
  <2>5. ASSUME NEW n \in 1..(Len(ends) + 1)
        PROVE  ends'[n] <= copied' /\ ends'[n] \in recs' \cup {0}
    <3>1. CASE n = Len(ends) + 1
      BY <2>1, <2>2, <2>4, <3>1, NumberTypes, SMTT(20)
    <3>2. CASE n # Len(ends) + 1
      <4>1. n \in 1..Len(ends)
        BY <3>2, NumberTypes
      <4>2. ends[n] <= copied /\ ends[n] \in recs \cup {0} /\ ends[n] \in Nat
        BY <1>0, <2>3, <4>1, NumberTypes DEF EndsAreRecords
      <4>3. copied \in Nat /\ pending.used \in Nat
        BY NumberTypes
      <4>4. ends[n] <= copied'
        BY <2>1, <4>2, <4>3
      <4>5. QED BY <2>1, <2>2, <4>1, <4>2, <4>4
    <3>3. QED BY <3>1, <3>2
  <2>6. QED BY <2>1, <2>3, <2>5 DEF EndsAreRecords
<1>9. CASE Crash \/ Restart
  <2>1. Len(ends') = 0 /\ rpc' # "commit"
    BY <1>9 DEF Crash, Restart, ForgetMemory
  <2>2. QED BY <2>1 DEF EndsAreRecords, Committed
<1>10. CASE TransactionCommit /\ txn.used = 0
  BY <1>1, <1>10 DEF TransactionCommit
<1>11. CASE CheckpointSyncDone
  BY <1>1, <1>11 DEF CheckpointSyncDone, StreamTiled, ThreadsAgree
<1> QED
  BY <1>1, <1>2, <1>4, <1>5, <1>6, <1>7, <1>8, <1>9, <1>10, <1>11
     DEF TransactionBegin, TransactionRollback, AofAppend, FlushAllocFails,
         Flush, CloseBegin, FlushReturn, CheckpointQueue, CheckpointWritten,
         CheckpointSyncStart, CheckpointDone, PauseReturn, ResumeAfterFork,
         CloseStop, CloseJoin, WriterPause, WriterResume, WriterStop,
         WriterGather, WritevChunk, ConsumeWritten, PublishAlways,
         WriterSyncStart, WriterSyncDone, WriterTimeout, WritevFails,
         RestartRefused, FlushReturns, Next, ReactorWaits, Writer

\* Every step keeps the buffers ending with records.
LEMMA BuffersStep ==
    ASSUME StreamTiled, NumbersKept, Next
    PROVE  BuffersEndRecords'
<1> USE DEF vars, fileVars, queueVars, seqVars, prodVars, pauseVars,
            writerVars, syncVars, crashVars
<1>0. BuffersEndRecords
  BY DEF NumbersKept
<1>1. CASE UNCHANGED <<recs, copied, txn, pending>>
  BY <1>0, <1>1 DEF BuffersEndRecords
<1>2. CASE UNCHANGED <<recs, copied, pending>> /\ txn'.used = 0
  BY <1>0, <1>2 DEF BuffersEndRecords
<1>3. ASSUME NEW size \in RecordSizes, AofAppend(size) PROVE BuffersEndRecords'
  <2>1. UNCHANGED <<recs, copied>> /\ size \in Nat
    BY <1>3, AofAssumption DEF AofAppend
  <2>2. CASE txn.active
    <3>1. /\ pending' = pending
          /\ txn' = [txn EXCEPT !.used = @ + size,
                                !.recs = @ \cup {txn.used + size}]
      BY <1>3, <2>2 DEF AofAppend
    <3>2. txn \in [active: BOOLEAN, used: Nat, recs: SUBSET Nat]
      BY DEF StreamTiled, TypeOK, BufferTypeOK
    <3>3. txn'.used = txn.used + size /\ txn'.recs = txn.recs \cup {txn.used + size}
      BY <3>1, <3>2
    <3>4. QED BY <1>0, <2>1, <3>1, <3>3 DEF BuffersEndRecords
  <2>3. CASE ~txn.active
    <3>1. /\ txn' = txn
          /\ pending' = [used |-> pending.used + size,
                         recs |-> pending.recs \cup {pending.used + size}]
      BY <1>3, <2>3 DEF AofAppend
    <3>2. QED BY <1>0, <2>1, <3>1 DEF BuffersEndRecords
  <2>4. QED BY <2>2, <2>3
<1>4. CASE CheckpointBegin
  <2>1. /\ UNCHANGED <<recs, copied, pending>>
        /\ txn'.used = TokenSize /\ txn'.recs = {TokenSize}
    BY <1>4 DEF CheckpointBegin
  <2>2. QED BY <1>0, <2>1 DEF BuffersEndRecords
<1>5. CASE CommitCopy
  <2>1. /\ rpc = "commit" /\ copied' = copied + CopyAmount
        /\ recs' = recs \cup Placed(txn, pos, pos + CopyAmount, copied)
        /\ txn' = txn \/ txn' = Idle
        /\ pending' = pending
    BY <1>5 DEF CommitCopy
  <2>2. CopyAmount \in Nat
    BY <2>1, CopyFacts
  <2>3. \A r \in Placed(txn, pos, pos + CopyAmount, copied) :
          r <= copied + ((pos + CopyAmount) - pos)
    <3>1. /\ copied \in Nat /\ pos \in Nat /\ txn.recs \in SUBSET Nat
      BY NumberTypes
    <3>2. pos + CopyAmount \in Nat /\ pos <= pos + CopyAmount
      BY <2>2, <3>1
    <3>3. QED BY <3>1, <3>2, PlacedBelow
  <2>4. (pos + CopyAmount) - pos = CopyAmount
    BY <2>2, NumberTypes
  <2>5. \A r \in recs' : r <= copied'
    BY <1>0, <2>1, <2>2, <2>3, <2>4, NumberTypes, SMTT(20) DEF BuffersEndRecords
  <2>6. Idle.used = 0
    BY DEF Idle
  <2>7. QED BY <1>0, <2>1, <2>5, <2>6 DEF BuffersEndRecords
<1>6. CASE FlushPending
  <2>1. /\ copied' = copied + pending.used /\ txn' = txn
        /\ recs' = recs \cup Placed(pending, 0, pending.used, copied)
        /\ pending'.used = 0
    BY <1>6 DEF FlushPending, EmptyBuffer
  <2>2. \A r \in Placed(pending, 0, pending.used, copied) :
          r <= copied + (pending.used - 0)
    <3>1. /\ copied \in Nat /\ pending.used \in Nat /\ 0 <= pending.used
          /\ pending.recs \in SUBSET Nat /\ 0 \in Nat
      BY NumberTypes
    <3>2. QED BY <3>1, PlacedBelow
  <2>3. pending.used - 0 = pending.used
    BY NumberTypes
  <2>4. \A r \in recs' : r <= copied'
    BY <1>0, <2>1, <2>2, <2>3, NumberTypes, SMTT(20) DEF BuffersEndRecords
  <2>5. QED BY <1>0, <2>1, <2>4 DEF BuffersEndRecords
<1>7. CASE Crash
  <2>1. /\ UNCHANGED <<recs, copied>> /\ txn'.used = 0 /\ pending'.used = 0
    BY <1>7 DEF Crash, ForgetMemory, Idle, EmptyBuffer
  <2>2. QED BY <1>0, <2>1 DEF BuffersEndRecords
<1>8. CASE Restart
  <2>1. txn'.used = 0 /\ pending'.used = 0
    BY <1>8 DEF Restart, ForgetMemory, Idle, EmptyBuffer
  <2>2. \A r \in recs' : r <= copied'
    <3>1. PICK sound \in 0..Len(file), keep \in 0..Len(file) :
            Reopen(sound, keep) /\ sound <= keep
      BY <1>8, RestartFacts DEF StreamTiled
    <3>2. Len(file) \in Nat /\ recs \in SUBSET Nat
      BY NumberTypes
    <3>3. QED BY <3>1, <3>2 DEF Reopen
  <2>3. QED BY <2>1, <2>2 DEF BuffersEndRecords
<1> QED
  BY <1>1, <1>2, <1>3, <1>4, <1>5, <1>6, <1>7, <1>8
     DEF TransactionBegin, TransactionRollback, TransactionCommit,
         CommitAllocFails, FlushAllocFails, Idle,
         Flush, CloseBegin, FlushReturn, CheckpointQueue, CheckpointWritten,
         CheckpointSyncStart, CheckpointSyncDone, CheckpointDone, PauseReturn,
         ResumeAfterFork, CloseStop, CloseJoin, WriterPause, WriterResume,
         WriterStop, WriterGather, WritevChunk, ConsumeWritten, PublishAlways,
         WriterSyncStart, WriterSyncDone, WriterTimeout, WritevFails,
         RestartRefused, Next, ReactorWaits, Writer

-----------------------------------------------------------------------------
(* The chunks that end a number *)

\* Until the process ends, a queued chunk covers what it covered.
LEMMA QueuedStillCovers ==
    ASSUME StreamTiled, NumbersKept, Next, ~Crash, ~Restart,
           NEW i \in 1..Len(queue), queue[i].end
    PROVE  /\ queue[i].sequence <= Committed'
           /\ \A m \in 1..queue[i].sequence :
                ends'[m] <= queue[i].first + queue[i].length
<1>1. /\ queue[i].sequence <= Committed
      /\ EndBy(queue[i].sequence, queue[i].first + queue[i].length)
  BY DEF NumbersKept, ChunksCover
<1>2. /\ queue[i].sequence \in Nat
      /\ queue[i].first + queue[i].length \in Nat
  <2>1. queue[i].sequence \in Nat
    BY NumberTypes
  <2>2. queue[i].first \in Nat /\ queue[i].length \in Nat
    BY QueueFacts
  <2>3. QED BY <2>1, <2>2
<1>3. queue[i].first + queue[i].length <= queue[i].first + queue[i].length
  BY <1>2
<1>4. QED BY <1>1, <1>2, <1>3, StillEndBy

\* Queueing one more chunk that covers its number.
LEMMA AppendCovers ==
    ASSUME StreamTiled, NumbersKept, Next, ~Crash, ~Restart,
           NEW c, c \in Chunk, queue' = Append(queue, c),
           c.end => /\ c.sequence <= Committed'
                    /\ \A m \in 1..c.sequence : ends'[m] <= c.first + c.length,
           producer'.end => producer'.sequence <= Committed'
    PROVE  ChunksCover'
<1>1. queue \in Seq(Chunk) /\ Len(queue) \in Nat
  BY QueueFacts
<1>2. /\ Len(queue') = Len(queue) + 1 /\ queue'[Len(queue) + 1] = c
      /\ \A i \in 1..Len(queue) : queue'[i] = queue[i]
  BY <1>1, AppendProperties
<1>3. ASSUME NEW i \in 1..Len(queue'), queue'[i].end
      PROVE  /\ queue'[i].sequence <= Committed'
             /\ \A m \in 1..queue'[i].sequence :
                  ends'[m] <= queue'[i].first + queue'[i].length
  <2>1. CASE i = Len(queue) + 1
    BY <1>2, <1>3, <2>1
  <2>2. CASE i # Len(queue) + 1
    <3>1. i \in 1..Len(queue)
      BY <1>1, <1>2, <2>2
    <3>2. queue'[i] = queue[i]
      BY <1>2, <3>1
    <3>3. QED BY <1>3, <3>1, <3>2, QueuedStillCovers
  <2>3. QED BY <2>1, <2>2
<1>4. QED BY <1>3 DEF ChunksCover, EndBy

\* aof_flush and aof_create_checkpoint queue the producer chunk.
LEMMA QueueProducerCovers ==
    ASSUME StreamTiled, NumbersKept, Next, ~Crash, ~Restart, QueueProducer,
           UNCHANGED <<ends, copied>>, rpc # "commit", rpc' # "commit"
    PROVE  ChunksCover'
<1>1. Committed' = Committed
  BY DEF Committed
<1>2. CASE producer.length > 0
  <2>1. queue' = Append(queue, producer) /\ producer' = NoChunk
    BY <1>2 DEF QueueProducer, QueueChunks
  <2>2. producer \in Chunk /\ producer.first + producer.length = copied
    BY <1>2 DEF StreamTiled, TypeOK, QueueTypeOK, ProducerTiles
  <2>3. ~producer'.end
    BY <2>1 DEF NoChunk
  <2>4. ASSUME producer.end
        PROVE  /\ producer.sequence <= Committed
               /\ \A m \in 1..producer.sequence : ends[m] <= copied
    <3>1. producer.sequence <= Committed
      BY <2>4 DEF NumbersKept, ChunksCover
    <3>2. \A m \in 1..producer.sequence : m \in 1..Committed
      <4>1. producer.sequence \in Nat /\ Committed \in Nat
        BY NumberTypes
      <4>2. QED BY <3>1, <4>1
    <3>3. QED BY <3>1, <3>2 DEF NumbersKept, EndsAreRecords
  <2>5. QED BY <1>1, <2>1, <2>2, <2>3, <2>4, AppendCovers
<1>3. CASE ~(producer.length > 0)
  <2>1. queue' = queue /\ producer' = producer
    BY <1>3 DEF QueueProducer, queueVars
  <2>2. QED BY <1>1, <2>1 DEF NumbersKept, ChunksCover, EndBy
<1>4. QED BY <1>2, <1>3

\* Every step leaves the queued and the producer chunks with numbers that
\* they cover.
LEMMA ChunksStep ==
    ASSUME StreamTiled, NumbersKept, Next
    PROVE  ChunksCover'
<1> USE DEF vars, fileVars, queueVars, seqVars, prodVars, pauseVars,
            writerVars, syncVars, crashVars
<1>1. CASE Crash \/ Restart
  <2>1. Len(queue') = 0 /\ ~producer'.end
    BY <1>1 DEF Crash, Restart, ForgetMemory, NoChunk
  <2>2. QED BY <2>1 DEF ChunksCover
<1>2. CASE ~Crash /\ ~Restart /\ UNCHANGED <<queue, producer>>
  <2>1. \A i \in 1..Len(queue) : queue[i].end =>
          /\ queue[i].sequence <= Committed'
          /\ \A m \in 1..queue[i].sequence :
               ends'[m] <= queue[i].first + queue[i].length
    BY <1>2, QueuedStillCovers
  <2>2. ASSUME producer.end PROVE producer.sequence <= Committed'
    <3>1. producer.sequence <= Committed
      BY <2>2 DEF NumbersKept, ChunksCover
    <3>2. /\ Committed <= Committed' /\ Committed' \in Nat
          /\ Committed \in Nat /\ producer.sequence \in Nat
      BY <1>2, NothingTakenBack, NumberTypes
    <3>3. QED BY <3>1, <3>2
  <2>3. QED BY <1>2, <2>1, <2>2 DEF ChunksCover, EndBy
<1>3. CASE CommitCopy
  <2>0. ~Crash /\ ~Restart
    BY <1>3 DEF CommitCopy, Crash, Restart, ForgetMemory
  <2>1. /\ rpc = "commit" /\ ends' = ends /\ copied' = copied + CopyAmount
        /\ pos + CopyAmount = txn.used => rpc' # "commit"
    BY <1>3 DEF CommitCopy
  <2>2. /\ FilledChunk \in Chunk /\ FilledChunk.sequence = Len(ends)
        /\ FilledChunk.end <=> (pos + CopyAmount = txn.used)
        /\ FilledChunk.first + FilledChunk.length = copied'
    BY <2>1, CopyFacts
  <2>3. ASSUME FilledChunk.end
        PROVE  /\ FilledChunk.sequence <= Committed'
               /\ \A m \in 1..FilledChunk.sequence :
                    ends'[m] <= FilledChunk.first + FilledChunk.length
    <3>1. Committed' = Len(ends)
      BY <2>1, <2>2, <2>3 DEF Committed
    <3>2. \A m \in 1..Len(ends) : ends'[m] <= copied'
      BY <3>1, EndsStep DEF EndsAreRecords
    <3>3. Len(ends) <= Committed'
      <4>1. Len(ends) \in Nat BY NumberTypes
      <4>2. QED BY <3>1, <4>1
    <3>4. QED BY <2>2, <3>2, <3>3
  <2>4. CASE FilledChunk.length = ChunkCapacity
    <3>1. queue' = Append(queue, FilledChunk) /\ ~producer'.end
      BY <1>3, <2>4 DEF CommitCopy, QueueChunks, NoChunk
    <3>2. QED BY <2>0, <2>2, <2>3, <3>1, AppendCovers
  <2>5. CASE FilledChunk.length # ChunkCapacity
    <3>1. queue' = queue /\ producer' = FilledChunk
      BY <1>3, <2>5 DEF CommitCopy
    <3>2. QED BY <2>0, <2>3, <3>1, QueuedStillCovers DEF ChunksCover, EndBy
  <2>6. QED BY <2>4, <2>5
<1>4. CASE Flush
  BY <1>4, QueueProducerCovers DEF Flush, FlushReturns, Crash, Restart
<1>5. CASE CheckpointQueue
  BY <1>5, QueueProducerCovers DEF CheckpointQueue, Crash, Restart
<1>6. CASE FlushPending
  <2>0. ~Crash /\ ~Restart
    BY <1>6 DEF FlushPending, Crash, Restart
  <2>1. /\ rpc = "flush" /\ rpc' = "flushWait" /\ producer' = producer
        /\ queue' = queue \o [i \in 1..PendingCount |-> PendingChunk(i)]
        /\ copied' = copied + pending.used
        /\ ends' = Append(ends, copied + pending.used)
    BY <1>6 DEF FlushPending, QueueChunks
  <2>2. /\ PendingCount \in Nat
        /\ \A k \in 1..PendingCount :
             /\ PendingChunk(k) \in Chunk
             /\ k = PendingCount =>
                  PendingChunk(k).first + PendingChunk(k).length = copied'
    BY <2>1, PendingFacts
  <2>3. Len(ends') = Len(ends) + 1 /\ Committed' = Len(ends) + 1
    BY <2>1, NumberTypes DEF Committed
  <2>4. \A m \in 1..(Len(ends) + 1) : ends'[m] <= copied'
    BY <2>3, EndsStep DEF EndsAreRecords
  <2>5. ASSUME NEW k \in 1..PendingCount, PendingChunk(k).end
        PROVE  /\ PendingChunk(k).sequence <= Committed'
               /\ \A m \in 1..PendingChunk(k).sequence :
                    ends'[m] <= PendingChunk(k).first + PendingChunk(k).length
    <3>1. k = PendingCount /\ PendingChunk(k).sequence = Len(ends) + 1
      BY <2>5 DEF PendingChunk
    <3>2. Len(ends) + 1 <= Len(ends) + 1
      BY NumberTypes
    <3>3. QED BY <2>2, <2>3, <2>4, <3>1, <3>2
  <2>6. ASSUME NEW i \in 1..Len(queue'), queue'[i].end
        PROVE  /\ queue'[i].sequence <= Committed'
               /\ \A m \in 1..queue'[i].sequence :
                    ends'[m] <= queue'[i].first + queue'[i].length
    <3>1. /\ queue \in Seq(Chunk) /\ Len(queue) \in Nat
          /\ [k \in 1..PendingCount |-> PendingChunk(k)] \in Seq(Chunk)
          /\ Len([k \in 1..PendingCount |-> PendingChunk(k)]) = PendingCount
      BY <2>2, QueueFacts
    <3>2. CASE i \in 1..Len(queue)
      <4>1. queue'[i] = queue[i]
        BY <2>1, <3>1, <3>2, ConcatProperties
      <4>2. QED BY <2>0, <2>6, <3>2, <4>1, QueuedStillCovers
    <3>3. CASE i \notin 1..Len(queue)
      <4>1. Len(queue') = Len(queue) + PendingCount
        BY <2>1, <3>1, ConcatProperties, ZenonT(40)
      <4>2. i - Len(queue) \in 1..PendingCount
        BY <2>2, <3>1, <3>3, <4>1
      <4>3. queue'[i] = PendingChunk(i - Len(queue))
        BY <2>1, <2>2, <3>1, <3>3, <4>1, <4>2
      <4>4. QED BY <2>5, <2>6, <4>2, <4>3
    <3>4. QED BY <3>2, <3>3
  <2>7. ASSUME producer.end PROVE producer.sequence <= Committed'
    <3>1. producer.sequence <= Committed
      BY <2>7 DEF NumbersKept, ChunksCover
    <3>2. /\ Committed <= Committed' /\ Committed' \in Nat
          /\ Committed \in Nat /\ producer.sequence \in Nat
      BY <2>0, NothingTakenBack, NumberTypes
    <3>3. QED BY <3>1, <3>2
  <2>8. QED BY <2>1, <2>6, <2>7 DEF ChunksCover, EndBy
<1>7. CASE ConsumeWritten
  <2>1. /\ queue' = Consumed /\ producer' = producer /\ ends' = ends
        /\ rpc' = rpc /\ wpc = "writev"
    BY <1>7 DEF ConsumeWritten
  <2>2. Committed' = Committed
    BY <2>1 DEF Committed
  <2>3. \A i \in 1..Len(queue') :
          /\ full + i \in 1..Len(queue)
          /\ queue'[i].first = queue[full + i].first
          /\ queue'[i].length = queue[full + i].length
          /\ queue'[i].sequence = queue[full + i].sequence
          /\ queue'[i].end = queue[full + i].end
    BY <2>1, ConsumedFacts
  <2>4. QED BY <2>1, <2>2, <2>3 DEF NumbersKept, ChunksCover, EndBy
<1>8. CASE ~Crash /\ ~Restart /\ ~(UNCHANGED <<queue, producer>>)
  BY <1>3, <1>4, <1>5, <1>6, <1>7, <1>8
     DEF FlushAllocFails, TransactionBegin, TransactionRollback, TransactionCommit, AofAppend,
         CommitAllocFails, CloseBegin, FlushReturn, CheckpointBegin,
         CheckpointWritten, CheckpointSyncStart, CheckpointSyncDone,
         CheckpointDone, PauseReturn, ResumeAfterFork, CloseStop, CloseJoin,
         WriterPause, WriterResume, WriterStop, WriterGather, WritevChunk,
         PublishAlways, WriterSyncStart, WriterSyncDone, WriterTimeout,
         WritevFails, RestartRefused, Next, ReactorWaits, Writer
<1> QED BY <1>1, <1>2, <1>8

-----------------------------------------------------------------------------
(* The counters *)

\* Until the process ends, the numbers the counters name stay covered.
LEMMA CountersStillCover ==
    ASSUME StreamTiled, NumbersKept, Next, ~Crash, ~Restart
    PROVE  /\ written <= Committed' /\ target <= Committed'
           /\ synced <= Committed'
           /\ \A m \in 1..written : ends'[m] <= Len(file')
           /\ \A m \in 1..target : ends'[m] <= Len(file')
           /\ \A m \in 1..synced : ends'[m] <= durable'
<1>1. /\ written \in Nat /\ target \in Nat /\ synced \in Nat
      /\ Len(file) \in Nat /\ durable \in Nat
  BY NumberTypes
<1>2. /\ Len(file) <= Len(file') /\ durable <= durable'
  BY NothingTakenBack
<1>3. TypeOK'
  BY TypeStep
<1>4. Len(file') \in Nat /\ durable' \in Nat
  BY <1>3 DEF TypeOK, FileTypeOK
<1>5. /\ written <= Committed /\ EndBy(written, Len(file))
      /\ target <= Committed /\ EndBy(target, Len(file))
      /\ synced <= Committed /\ EndBy(synced, durable)
  BY DEF NumbersKept, CountersCover
<1>6. written <= Committed' /\ \A m \in 1..written : ends'[m] <= Len(file')
  BY <1>1, <1>2, <1>4, <1>5, StillEndBy
<1>7. target <= Committed' /\ \A m \in 1..target : ends'[m] <= Len(file')
  BY <1>1, <1>2, <1>4, <1>5, StillEndBy
<1>8. synced <= Committed' /\ \A m \in 1..synced : ends'[m] <= durable'
  BY <1>1, <1>2, <1>4, <1>5, StillEndBy
<1>9. QED BY <1>6, <1>7, <1>8

\* consume_written returns a number whose transactions are in the file.
LEMMA CompletedCovered ==
    ASSUME StreamTiled, NumbersKept, wpc = "writev"
    PROVE  /\ CompletedSequence \in Nat /\ CompletedSequence <= Committed
           /\ \A m \in 1..CompletedSequence : ends[m] <= Len(file)
<1>0. rpc # "closed"
  BY DEF StreamTiled, ThreadsAgree
<1>1. CASE CompletedSequence = 0
  BY <1>1, NumberTypes
<1>2. CASE CompletedSequence # 0
  <2>1. PICK i \in 1..full : /\ i \in 1..Len(queue) /\ queue[i].end
                             /\ CompletedSequence = queue[i].sequence
    BY <1>2, CompletedFacts
  <2>2. queue[i].first + queue[i].length <= Len(file)
    BY <1>0, WrittenChunkInFile
  <2>3. /\ queue[i].first \in Nat /\ queue[i].length \in Nat
    BY <2>1, QueueFacts
  <2>4. /\ queue[i].sequence \in Nat /\ Len(file) \in Nat
        /\ Committed \in Nat /\ Committed <= Len(ends) /\ Len(ends) \in Nat
        /\ \A n \in 1..Len(ends) : ends[n] \in Nat
    BY <2>1, NumberTypes
  <2>5. /\ queue[i].sequence <= Committed
        /\ EndBy(queue[i].sequence, queue[i].first + queue[i].length)
    BY <2>1 DEF NumbersKept, ChunksCover
  <2>6. ASSUME NEW m \in 1..queue[i].sequence PROVE ends[m] <= Len(file)
    <3>1. m \in 1..Len(ends)
      BY <2>4, <2>5
    <3>2. ends[m] <= queue[i].first + queue[i].length /\ ends[m] \in Nat
      BY <2>4, <2>5, <3>1 DEF EndBy
    <3>3. QED BY <2>2, <2>3, <2>4, <3>2
  <2>7. QED BY <2>1, <2>4, <2>5, <2>6
<1>3. QED BY <1>1, <1>2

\* Every step keeps what the counters stand for.
LEMMA CountersStep ==
    ASSUME StreamTiled, NumbersKept, Next
    PROVE  CountersCover'
<1> USE DEF vars, fileVars, queueVars, seqVars, prodVars, pauseVars,
            writerVars, syncVars, crashVars
<1>0. /\ CountersCover /\ written \in Nat /\ target \in Nat /\ synced \in Nat
      /\ Committed \in Nat /\ durable \in Nat /\ syncLen \in Nat
  BY NumberTypes DEF NumbersKept
<1>1. CASE Crash \/ Restart
  <2>1. /\ written' = 0 /\ target' = 0 /\ synced' = 0 /\ wpc' # "publish"
        /\ rpc' # "commit" /\ Len(ends') = 0
    BY <1>1 DEF Crash, Restart, ForgetMemory
  <2>2. Committed' = 0
    BY <2>1 DEF Committed
  <2>3. QED BY <2>1, <2>2 DEF CountersCover, EndBy
<1>2. ASSUME ~Crash, ~Restart, written' = written, synced' = synced,
             target' \in {target, written, 0}, wpc' # "publish"
      PROVE  CountersCover'
  <2>1. 0 <= Committed' /\ \A m \in 1..0 : ends'[m] <= Len(file')
    BY <1>2, NothingTakenBack
  <2>2. QED BY <1>0, <1>2, <2>1, CountersStillCover DEF CountersCover, EndBy
<1>3. CASE ~Crash /\ ~Restart /\ UNCHANGED <<written, synced, target, wpc>>
  BY <1>0, <1>3, CountersStillCover DEF CountersCover, EndBy
<1>4. CASE ConsumeWritten
  <2>1. /\ UNCHANGED <<file, durable, ends, rpc, synced>> /\ wpc = "writev"
        /\ wpc' # "publish"
    BY <1>4 DEF ConsumeWritten
  <2>2. Committed' = Committed
    BY <2>1 DEF Committed
  <2>3. /\ CompletedSequence \in Nat /\ CompletedSequence <= Committed
        /\ \A m \in 1..CompletedSequence : ends[m] <= Len(file)
    BY <2>1, CompletedCovered
  <2>4. CASE Policy = "always"
    <3>1. written' = written /\ target' = CompletedSequence
      BY <1>4, <2>4 DEF ConsumeWritten
    <3>2. QED BY <1>0, <2>1, <2>2, <2>3, <3>1 DEF CountersCover, EndBy
  <2>5. CASE Policy # "always"
    <3>1. /\ written' = written \/ written' = CompletedSequence
          /\ target' = target \/ target' = written'
      BY <1>4, <2>3, <2>5 DEF ConsumeWritten, Publish, Greatest
    <3>2. QED BY <1>0, <2>1, <2>2, <2>3, <2>5, <3>1 DEF CountersCover, EndBy
  <2>6. QED BY <2>4, <2>5
<1>5. CASE PublishAlways
  <2>1. /\ UNCHANGED <<file, durable, ends, rpc, synced>> /\ wpc = "publish"
        /\ wpc' = "loop" /\ target' = 0
        /\ written' = written \/ written' = target
    BY <1>5 DEF PublishAlways, Publish, Greatest
  <2>2. Committed' = Committed /\ target <= synced
    BY <1>0, <2>1 DEF Committed, CountersCover
  <2>3. QED BY <1>0, <2>1, <2>2 DEF CountersCover, EndBy
<1>6. CASE WriterSyncStart
  <2>1. /\ UNCHANGED <<file, durable, ends, rpc, synced, written>>
        /\ target' \in {target, 0}
        /\ wpc' = "publish" => target <= synced \/ wpc = "publish"
    BY <1>6 DEF WriterSyncStart, WriterSynced, NothingToSync
  <2>2. Committed' = Committed
    BY <2>1 DEF Committed
  <2>3. wpc' = "publish" => target' <= synced
    BY <1>0, <2>1 DEF CountersCover
  <2>4. QED BY <1>0, <2>1, <2>2, <2>3 DEF CountersCover, EndBy
<1>7. CASE WriterSyncDone
  <2>1. /\ UNCHANGED <<file, ends, rpc, written>> /\ syncer = "writer"
        /\ target' \in {target, 0}
    BY <1>7 DEF WriterSyncDone, WriterSynced
  <2>2. Committed' = Committed
    BY <2>1 DEF Committed
  <2>3. CASE synced' = Greatest(synced, target)
             /\ durable' = Greatest(durable, syncLen)
    <3>1. EndBy(target, syncLen)
      BY <2>1 DEF NumbersKept, SyncCovers
    <3>2. /\ synced' \in Nat /\ synced <= synced' /\ target <= synced'
          /\ synced' = synced \/ synced' = target
          /\ durable <= durable' /\ syncLen <= durable' /\ durable' \in Nat
      BY <1>0, <2>3 DEF Greatest
    <3>3. \A m \in 1..synced' : ends[m] <= durable'
      <4> TAKE m \in 1..synced'
      <4>1. ends[m] <= durable \/ ends[m] <= syncLen
        BY <1>0, <3>1, <3>2 DEF CountersCover, EndBy
      <4>2. ends[m] \in Nat
        <5>1. m \in 1..Len(ends)
          <6>1. synced' <= Committed
            BY <1>0, <3>2 DEF CountersCover
          <6>2. Committed <= Len(ends) /\ Len(ends) \in Nat
            BY NumberTypes
          <6>3. QED BY <1>0, <3>2, <6>1, <6>2
        <5>2. QED BY <5>1, NumberTypes
      <4>3. QED BY <1>0, <3>2, <4>1, <4>2
    <3>4. synced' <= Committed' /\ (Policy = "always" => written' <= synced')
      BY <1>0, <2>1, <2>2, <3>2 DEF CountersCover
    <3>5. target' <= synced'
      BY <1>0, <2>1, <3>2
    <3>6. QED BY <1>0, <2>1, <2>2, <3>3, <3>4, <3>5 DEF CountersCover, EndBy
  <2>4. CASE UNCHANGED <<durable, synced>> /\ wpc' = "exit"
    BY <1>0, <2>1, <2>2, <2>4 DEF CountersCover, EndBy
  <2>5. QED BY <1>7, <2>3, <2>4 DEF WriterSyncDone
<1>8. CASE CheckpointSyncDone
  <2>1. /\ UNCHANGED <<file, ends, written, target, wpc>>
        /\ syncer = "reactor" /\ rpc = "ckptSync" /\ rpc' # "commit"
    BY <1>8 DEF CheckpointSyncDone, StreamTiled, ThreadsAgree
  <2>2. Committed' = Len(ends) /\ Committed = Len(ends) /\ Len(ends) \in Nat
    BY <2>1, NumberTypes DEF Committed
  <2>3. CASE synced' = Greatest(synced, Len(ends))
             /\ durable' = Greatest(durable, syncLen)
    <3>1. EndBy(Len(ends), syncLen)
      BY <2>1 DEF NumbersKept, SyncCovers
    <3>2. /\ synced' = Len(ends) /\ synced <= synced'
          /\ durable <= durable' /\ syncLen <= durable' /\ durable' \in Nat
      BY <1>0, <2>2, <2>3 DEF Greatest, CountersCover
    <3>3. \A m \in 1..synced' : ends[m] <= durable'
      BY <1>0, <3>1, <3>2, NumberTypes DEF EndBy
    <3>4. /\ Policy = "always" => written <= synced'
          /\ wpc = "publish" => target <= synced'
      BY <1>0, <2>2, <3>2 DEF CountersCover
    <3>5. QED BY <1>0, <2>1, <2>2, <3>2, <3>3, <3>4 DEF CountersCover, EndBy
  <2>4. CASE UNCHANGED <<durable, synced>>
    BY <1>0, <2>1, <2>2, <2>4 DEF CountersCover, EndBy
  <2>5. QED BY <1>8, <2>3, <2>4 DEF CheckpointSyncDone
<1>9. CASE WriterStop \/ WritevFails \/ WriterTimeout
  <2>1. /\ written' = written /\ synced' = synced
        /\ target' \in {target, written} /\ wpc' # "publish"
        /\ rpc' = rpc
    BY <1>9 DEF WriterStop, WritevFails, WriterTimeout, LeaveLoop, SyncTarget
  <2>2. rpc # "closed" /\ ~Crash /\ ~Restart
    BY <1>9, <2>1 DEF WriterStop, WritevFails, WriterTimeout, Crash, Restart,
                      StreamTiled, ThreadsAgree
  <2>3. QED BY <1>2, <2>1, <2>2
<1>10. CASE WriterGather
  BY <1>2, <1>10 DEF WriterGather, Crash, Restart, StreamTiled, ThreadsAgree
<1>11. CASE /\ ~Crash /\ ~Restart
            /\ ~(UNCHANGED <<written, synced, target, wpc>>)
  BY <1>4, <1>5, <1>6, <1>7, <1>8, <1>9, <1>10, <1>11
     DEF TransactionBegin, TransactionRollback, TransactionCommit, AofAppend,
         CommitAllocFails, FlushAllocFails, CommitCopy, Flush, FlushPending,
         CloseBegin, FlushReturn, CheckpointBegin, CheckpointQueue,
         CheckpointWritten, CheckpointSyncStart, CheckpointDone, PauseReturn,
         ResumeAfterFork, CloseStop, CloseJoin, WriterPause, WriterResume,
         WritevChunk, RestartRefused, Next, ReactorWaits, Writer
<1> QED BY <1>1, <1>3, <1>11

\* Every step keeps the fdatasync in progress covering its number, and the
\* durable prefix inside the file.
LEMMA SyncStep ==
    ASSUME StreamTiled, NumbersKept, Next
    PROVE  SyncCovers'
<1> USE DEF vars, fileVars, queueVars, seqVars, prodVars, pauseVars,
            writerVars, syncVars, crashVars
<1>0. /\ SyncCovers /\ CountersCover /\ target \in Nat
      /\ durable \in Nat /\ syncLen \in Nat /\ Len(file) \in Nat
  BY NumberTypes DEF NumbersKept
<1>1. CASE Crash
  <2>1. PICK keep \in durable..Len(file) : file' = SubSeq(file, 1, keep)
    BY <1>1 DEF Crash
  <2>2. keep \in Nat /\ keep \in 0..Len(file) /\ durable <= keep
    BY <1>0, <2>1
  <2>3. Len(file') = keep
    BY <2>1, <2>2, PrefixInOrder
  <2>4. durable' = durable /\ syncLen' = 0 /\ syncer' = "none"
    BY <1>1 DEF Crash, ForgetMemory
  <2>5. QED BY <2>2, <2>3, <2>4 DEF SyncCovers
<1>2. CASE Restart
  <2>1. PICK keep \in 0..Len(file) :
          file' = SubSeq(file, 1, keep) /\ durable' = Least(durable, keep)
    BY <1>2, RestartFacts DEF Reopen, StreamTiled
  <2>2. Len(file') = keep /\ keep \in Nat
    BY <1>0, <2>1, PrefixInOrder
  <2>3. syncLen' = 0 /\ syncer' = "none"
    BY <1>2 DEF Restart, ForgetMemory
  <2>4. QED BY <1>0, <2>1, <2>2, <2>3 DEF SyncCovers, Least
<1>3. CASE /\ ~Crash /\ ~Restart /\ UNCHANGED <<syncer, syncLen, durable>>
           /\ syncer = "writer" => target' = target
           /\ syncer = "reactor" => ends' = ends
  <2>1. Len(file) <= Len(file') /\ Len(file') \in Nat
    <3>1. Len(file) <= Len(file')
      BY <1>3, NothingTakenBack
    <3>2. TypeOK'
      BY TypeStep
    <3>3. QED BY <3>1, <3>2 DEF TypeOK, FileTypeOK
  <2>2. durable' <= Len(file') /\ syncLen' <= Len(file')
    BY <1>0, <1>3, <2>1 DEF SyncCovers
  <2>3. ASSUME syncer = "writer" PROVE \A m \in 1..target : ends'[m] <= syncLen
    <3>1. target <= Committed /\ EndBy(target, syncLen) /\ syncLen <= syncLen
      BY <1>0, <2>3 DEF SyncCovers, CountersCover
    <3>2. QED BY <1>0, <1>3, <3>1, StillEndBy
  <2>4. ASSUME syncer = "reactor"
        PROVE  \A m \in 1..Len(ends') : ends'[m] <= syncLen
    BY <1>0, <1>3, <2>4 DEF SyncCovers, EndBy
  <2>5. QED BY <1>3, <2>2, <2>3, <2>4 DEF SyncCovers, EndBy
<1>4. CASE WriterSyncStart
  <2>1. UNCHANGED <<file, durable, ends>> /\ syncer = "none"
    BY <1>4 DEF WriterSyncStart
  <2>2. CASE NothingToSync(target)
    <3>1. syncer' = "none" /\ syncLen' = syncLen
      BY <1>4, <2>1, <2>2 DEF WriterSyncStart
    <3>2. QED BY <1>0, <2>1, <3>1 DEF SyncCovers
  <2>3. CASE ~NothingToSync(target)
    <3>1. syncer' = "writer" /\ syncLen' = Len(file) /\ target' = target
      BY <1>4, <2>3 DEF WriterSyncStart
    <3>2. QED BY <1>0, <2>1, <3>1 DEF SyncCovers, CountersCover, EndBy
  <2>4. QED BY <2>2, <2>3
<1>5. CASE CheckpointSyncStart
  <2>1. UNCHANGED <<file, durable, ends>> /\ syncer = "none" /\ rpc = "ckptSync"
    BY <1>5 DEF CheckpointSyncStart
  <2>2. CASE NothingToSync(Len(ends))
    <3>1. syncer' = "none" /\ syncLen' = syncLen
      BY <1>5, <2>1, <2>2 DEF CheckpointSyncStart
    <3>2. QED BY <1>0, <2>1, <3>1 DEF SyncCovers
  <2>3. CASE ~NothingToSync(Len(ends))
    <3>1. syncer' = "reactor" /\ syncLen' = Len(file)
      BY <1>5, <2>3 DEF CheckpointSyncStart
    <3>2. written = Len(ends)
      BY <2>1 DEF NumbersKept, CheckpointAgrees
    <3>3. QED BY <1>0, <2>1, <3>1, <3>2 DEF SyncCovers, CountersCover, EndBy
  <2>4. QED BY <2>2, <2>3
<1>6. CASE WriterSyncDone \/ CheckpointSyncDone
  <2>1. /\ file' = file /\ syncer' = "none" /\ syncLen' = 0
        /\ durable' = durable \/ durable' = syncLen
    BY <1>0, <1>6 DEF WriterSyncDone, CheckpointSyncDone, Greatest
  <2>2. QED BY <1>0, <2>1 DEF SyncCovers
<1>7. CASE TransactionCommit \/ CommitAllocFails \/ FlushPending \/ CheckpointBegin
  <2>1. /\ UNCHANGED <<syncer, syncLen, durable, target>>
        /\ rpc \in {"ready", "commit", "flush"} /\ rpc' # "closed"
        /\ rpc = "ready" => rpc' # "closed"
    BY <1>7 DEF TransactionCommit, CommitAllocFails, FlushPending,
                CheckpointBegin
  <2>2. syncer # "reactor" /\ ~Crash /\ ~Restart
    BY <2>1 DEF StreamTiled, ThreadsAgree, Crash, Restart
  <2>3. QED BY <1>3, <2>1, <2>2
<1>8. CASE ConsumeWritten \/ PublishAlways \/ WriterStop \/ WritevFails
           \/ WriterTimeout
  <2>1. /\ UNCHANGED <<syncer, syncLen, durable, ends, rpc>>
        /\ wpc \in {"writev", "publish", "loop"}
    BY <1>8 DEF ConsumeWritten, PublishAlways, WriterStop, WritevFails,
                WriterTimeout
  <2>2. syncer # "writer" /\ ~Crash /\ ~Restart
    BY <2>1 DEF StreamTiled, ThreadsAgree, Crash, Restart
  <2>3. QED BY <1>3, <2>1, <2>2
<1>9. CASE /\ ~Crash /\ ~Restart
           /\ ~(UNCHANGED <<syncer, syncLen, durable, target, ends>>)
  BY <1>4, <1>5, <1>6, <1>7, <1>8, <1>9
     DEF TransactionBegin, TransactionRollback, AofAppend, FlushAllocFails,
         CommitCopy, Flush, CloseBegin, FlushReturn, CheckpointQueue,
         CheckpointWritten, CheckpointDone, PauseReturn, ResumeAfterFork,
         CloseStop, CloseJoin, WriterPause, WriterResume, WriterGather,
         WritevChunk, RestartRefused, Next, ReactorWaits, Writer
<1> QED BY <1>1, <1>2, <1>3, <1>9

-----------------------------------------------------------------------------
(* Promises and checkpoints *)

\* Publishing a number whose transactions are in the file, under "always" on
\* the disk, makes a promise that is kept.
LEMMA PublishKeeps ==
    ASSUME StreamTiled, NumbersKept, NEW n, n \in Nat, n <= Committed,
           \A m \in 1..n : ends[m] <= Len(file),
           Policy = "always" => \A m \in 1..n : ends[m] <= durable,
           Publish(n), UNCHANGED <<file, durable, recs, powerLost>>
    PROVE  PromisesKept'
<1>1. promised' = promised \/ (n > written /\ promised' = ends[n])
  BY NumberTypes DEF Publish, Greatest
<1>2. CASE promised' = promised
  BY <1>2 DEF NumbersKept, PromisesKept
<1>3. CASE n > written /\ promised' = ends[n]
  <2>1. n \in 1..n /\ n \in 1..Committed
    <3>1. written \in Nat /\ Committed \in Nat
      BY NumberTypes
    <3>2. QED BY <1>3, <3>1
  <2>2. ends[n] \in recs \cup {0}
    BY <2>1 DEF NumbersKept, EndsAreRecords
  <2>3. QED BY <1>3, <2>1, <2>2 DEF PromisesKept
<1>4. QED BY <1>1, <1>2, <1>3

\* Every step keeps the promises made by published numbers.
LEMMA PromisesStep ==
    ASSUME StreamTiled, NumbersKept, Next
    PROVE  PromisesKept'
<1> USE DEF vars, fileVars, queueVars, seqVars, prodVars, pauseVars,
            writerVars, syncVars, crashVars
<1>0. /\ PromisesKept /\ durable \in Nat /\ promised \in Nat
      /\ Len(file) \in Nat /\ powerLost \in BOOLEAN
  BY NumberTypes DEF NumbersKept, StreamTiled, TypeOK, CrashTypeOK
<1>1. CASE ~Crash /\ ~Restart /\ UNCHANGED <<promised, powerLost>>
  <2>1. /\ Len(file) <= Len(file') /\ durable <= durable' /\ recs \subseteq recs'
    BY <1>1, NothingTakenBack
  <2>2. TypeOK'
    BY TypeStep
  <2>3. Len(file') \in Nat /\ durable' \in Nat
    BY <2>2 DEF TypeOK, FileTypeOK
  <2>4. QED BY <1>0, <1>1, <2>1, <2>3 DEF PromisesKept
<1>2. CASE ConsumeWritten
  <2>1. UNCHANGED <<file, durable, recs, powerLost>> /\ wpc = "writev"
    BY <1>2 DEF ConsumeWritten
  <2>2. CASE Policy = "always"
    <3>1. promised' = promised
      BY <1>2, <2>2 DEF ConsumeWritten
    <3>2. QED BY <1>0, <2>1, <3>1 DEF PromisesKept
  <2>3. CASE Policy # "always"
    <3>1. Publish(CompletedSequence)
      BY <1>2, <2>3 DEF ConsumeWritten
    <3>2. QED BY <2>1, <2>3, <3>1, CompletedCovered, PublishKeeps
  <2>4. QED BY <2>2, <2>3
<1>3. CASE PublishAlways
  <2>1. /\ UNCHANGED <<file, durable, recs, powerLost>> /\ wpc = "publish"
        /\ Publish(target)
    BY <1>3 DEF PublishAlways
  <2>2. /\ target \in Nat /\ target <= Committed /\ target <= synced
        /\ synced \in Nat
        /\ \A m \in 1..target : ends[m] <= Len(file)
        /\ \A m \in 1..synced : ends[m] <= durable
    BY <2>1, NumberTypes DEF NumbersKept, CountersCover, EndBy
  <2>3. \A m \in 1..target : ends[m] <= durable
    BY <2>2
  <2>4. QED BY <2>1, <2>2, <2>3, PublishKeeps
<1>4. CASE Crash
  <2>1. PICK keep \in durable..Len(file) :
          /\ file' = SubSeq(file, 1, keep)
          /\ powerLost' = (powerLost \/ keep < Len(file))
    BY <1>4 DEF Crash
  <2>2. keep \in Nat /\ keep \in 0..Len(file) /\ durable <= keep
    BY <1>0, <2>1
  <2>3. Len(file') = keep
    BY <2>1, <2>2, PrefixInOrder
  <2>4. UNCHANGED <<durable, recs, promised>>
    BY <1>4 DEF Crash
  <2>5. CASE Policy = "always"
    BY <1>0, <2>2, <2>3, <2>4, <2>5 DEF PromisesKept
  <2>6. CASE Policy # "always"
    <3>1. ~powerLost' => ~powerLost /\ keep = Len(file)
      <4>1. ~powerLost' => ~powerLost /\ ~(keep < Len(file))
        BY <2>1, Zenon
      <4>2. ~(keep < Len(file)) => keep = Len(file)
        BY <1>0, <2>2
      <4>3. QED BY <4>1, <4>2
    <3>2. QED BY <1>0, <2>3, <2>4, <2>6, <3>1 DEF PromisesKept
  <2>7. QED BY <2>5, <2>6
<1>5. CASE Restart
  <2>1. PICK sound \in 0..Len(file), keep \in 0..Len(file) :
          /\ Reopen(sound, keep) /\ sound <= keep /\ sound \in {0} \cup recs
          /\ \/ /\ promised' = promised
                /\ \A r \in recs : r <= Len(file) => r <= sound
             \/ promised' = Least(promised, sound)
    BY <1>5, RestartFacts DEF StreamTiled
  <2>2. /\ file' = SubSeq(file, 1, keep) /\ durable' = Least(durable, keep)
        /\ {r \in recs : r <= sound} \subseteq recs'
    BY <2>1 DEF Reopen
  <2>3. Len(file') = keep /\ keep \in Nat /\ sound \in Nat
    BY <1>0, <2>1, <2>2, PrefixInOrder
  <2>4. powerLost' = powerLost
    BY <1>5 DEF Restart
  <2>5. ASSUME promised \in recs \cup {0}, promised <= Len(file)
        PROVE  /\ promised' <= sound /\ promised' \in recs' \cup {0}
               /\ promised' <= promised /\ promised' \in Nat
    <3>1. /\ promised' <= sound /\ promised' <= promised /\ promised' \in Nat
          /\ promised' \in recs \cup {0}
      BY <1>0, <2>1, <2>3, <2>5 DEF Least
    <3>2. QED BY <2>2, <3>1
  <2>6. QED BY <1>0, <2>1, <2>2, <2>3, <2>4, <2>5 DEF PromisesKept, Least
<1>6. CASE ~Crash /\ ~Restart /\ ~(UNCHANGED <<promised, powerLost>>)
  BY <1>2, <1>3, <1>6
     DEF TransactionBegin, TransactionRollback, TransactionCommit, AofAppend,
         CommitAllocFails, FlushAllocFails, CommitCopy, Flush, FlushPending,
         CloseBegin, FlushReturn, CheckpointBegin, CheckpointQueue,
         CheckpointWritten, CheckpointSyncStart, CheckpointSyncDone,
         CheckpointDone, PauseReturn, ResumeAfterFork, CloseStop, CloseJoin,
         WriterPause, WriterResume, WriterStop, WriterGather, WritevChunk,
         WriterSyncStart, WriterSyncDone, WriterTimeout, WritevFails,
         RestartRefused, Next, ReactorWaits, Writer
<1> QED BY <1>1, <1>4, <1>5, <1>6

\* While a checkpoint is taken its record stays the last one, and each wait
\* of aof_create_checkpoint ends when its number has got that far.
LEMMA CheckpointStep ==
    ASSUME StreamTiled, NumbersKept, Next
    PROVE  CheckpointAgrees'
<1> USE DEF vars, fileVars, queueVars, seqVars, prodVars, pauseVars,
            writerVars, syncVars, crashVars
<1> DEFINE Steps == {"ckptQueue", "ckptWait", "ckptSync", "ckptDone"}
<1>0. /\ CheckpointAgrees /\ CountersCover
      /\ written \in Nat /\ synced \in Nat /\ Len(ends) \in Nat
      /\ target \in Nat
  BY NumberTypes DEF NumbersKept
<1>1. CASE rpc' \notin Steps
  BY <1>1 DEF CheckpointAgrees
<1>2. CASE UNCHANGED <<rpc, ends, copied, producer, written, synced>>
  BY <1>0, <1>2 DEF CheckpointAgrees
<1>3. CASE ConsumeWritten \/ PublishAlways \/ WriterSyncDone
  <2>1. /\ UNCHANGED <<rpc, ends, copied, producer>>
        /\ written <= written' /\ synced <= synced'
        /\ written' \in Nat /\ synced' \in Nat
    <3>1. CASE ConsumeWritten
      <4>1. wpc = "writev"
        BY <3>1 DEF ConsumeWritten
      <4>2. CompletedSequence \in Nat
        BY <4>1, CompletedCovered
      <4>3. QED BY <1>0, <3>1, <4>2 DEF ConsumeWritten, Publish, Greatest
    <3>2. CASE PublishAlways
      BY <1>0, <3>2 DEF PublishAlways, Publish, Greatest
    <3>3. CASE WriterSyncDone
      BY <1>0, <3>3 DEF WriterSyncDone, Greatest
    <3>4. QED BY <1>3, <3>1, <3>2, <3>3
  <2>2. written' <= Committed' /\ synced' <= Committed'
    BY CountersStep DEF CountersCover
  <2>3. ASSUME rpc \in Steps PROVE Committed' = Len(ends)
    BY <2>1, <2>3 DEF Committed
  <2>4. rpc = "ckptSync" => written' = Len(ends)
    BY <1>0, <2>1, <2>2, <2>3 DEF CheckpointAgrees
  <2>5. rpc = "ckptDone" => synced' = Len(ends)
    BY <1>0, <2>1, <2>2, <2>3 DEF CheckpointAgrees
  <2>6. QED BY <1>0, <2>1, <2>4, <2>5 DEF CheckpointAgrees
<1>4. CASE CommitCopy /\ rpc' \in Steps
  <2>1. /\ rpc = "commit" /\ rpc' = "ckptQueue" /\ ends' = ends
        /\ copied' = copied + CopyAmount /\ pos + CopyAmount = txn.used
    BY <1>4 DEF CommitCopy
  <2>2. Len(ends) > 0
    BY <2>1 DEF StreamTiled, ReactorAgrees
  <2>3. ends[Len(ends)] = copied + (txn.used - pos)
    BY <2>1 DEF NumbersKept, EndsAreRecords
  <2>4. txn.used - pos = CopyAmount
    <3>1. pos \in Nat /\ txn.used \in Nat /\ CopyAmount \in Nat
      BY <2>1, NumberTypes, CopyFacts
    <3>2. QED BY <2>1, <3>1
  <2>5. copied' > 0
    BY <2>1, NumberTypes, CopyFacts
  <2>6. QED BY <2>1, <2>2, <2>3, <2>4, <2>5 DEF CheckpointAgrees
<1>5. CASE CheckpointQueue
  <2>1. /\ rpc = "ckptQueue" /\ rpc' = "ckptWait" /\ UNCHANGED <<ends, copied>>
        /\ QueueProducer
    BY <1>5 DEF CheckpointQueue
  <2>2. producer'.length = 0
    BY <2>1, QueueProducerTiles
  <2>3. QED BY <1>0, <2>1, <2>2 DEF CheckpointAgrees
<1>6. CASE CheckpointWritten /\ rpc' \in Steps
  <2>1. /\ rpc = "ckptWait" /\ rpc' = "ckptSync" /\ written >= Len(ends)
        /\ UNCHANGED <<ends, copied, producer, written>>
    BY <1>6 DEF CheckpointWritten, WaitOver
  <2>2. written <= Len(ends)
    BY DEF StreamTiled, SequencesAssigned
  <2>3. written = Len(ends)
    BY <1>0, <2>1, <2>2
  <2>4. QED BY <1>0, <2>1, <2>3 DEF CheckpointAgrees
<1>7. CASE CheckpointSyncStart
  <2>1. /\ rpc = "ckptSync" /\ UNCHANGED <<ends, copied, producer, written, synced>>
        /\ \/ rpc' = "ckptSync"
           \/ rpc' = "ckptDone" /\ Len(ends) <= synced
    BY <1>7 DEF CheckpointSyncStart, NothingToSync
  <2>2. synced <= Len(ends)
    BY <1>0, <2>1 DEF CountersCover, Committed
  <2>3. rpc' = "ckptDone" => synced = Len(ends)
    BY <1>0, <2>1, <2>2
  <2>4. QED BY <1>0, <2>1, <2>3 DEF CheckpointAgrees
<1>8. CASE CheckpointSyncDone /\ rpc' \in Steps
  <2>1. /\ rpc = "ckptSync" /\ rpc' = "ckptDone" /\ UNCHANGED <<ends, copied, producer>>
        /\ synced' = Greatest(synced, Len(ends))
    BY <1>8 DEF CheckpointSyncDone, StreamTiled, ThreadsAgree
  <2>2. synced <= Len(ends)
    BY <1>0, <2>1 DEF CountersCover, Committed
  <2>3. synced' = Len(ends)
    BY <1>0, <2>1, <2>2 DEF Greatest
  <2>4. QED BY <1>0, <2>1, <2>3 DEF CheckpointAgrees
<1>9. CASE TransactionBegin \/ TransactionRollback \/ TransactionCommit
           \/ (\E size \in RecordSizes : AofAppend(size))
           \/ CommitAllocFails \/ FlushAllocFails \/ Flush \/ CheckpointBegin
           \/ CloseBegin \/ FlushPending \/ FlushReturn \/ CheckpointDone
           \/ PauseReturn \/ ResumeAfterFork \/ CloseStop \/ CloseJoin
           \/ Crash \/ Restart
  <2>1. rpc' \notin Steps
    BY <1>9
       DEF TransactionBegin, TransactionRollback, TransactionCommit, AofAppend,
           CommitAllocFails, FlushAllocFails, Flush, FlushReturns,
           CheckpointBegin, CloseBegin, FlushPending, FlushReturn,
           CheckpointDone, PauseReturn, ResumeAfterFork, CloseStop, CloseJoin,
           Crash, Restart
  <2>2. QED BY <1>1, <2>1
<1>10. CASE WriterPause \/ WriterResume \/ WriterStop \/ WriterGather
            \/ WritevChunk \/ WriterSyncStart \/ WriterTimeout \/ WritevFails
            \/ RestartRefused
  BY <1>2, <1>10
     DEF WriterPause, WriterResume, WriterStop, WriterGather, WritevChunk,
         WriterSyncStart, WriterTimeout, WritevFails, RestartRefused
<1> HIDE DEF Steps
<1> QED
  BY <1>1, <1>3, <1>4, <1>5, <1>6, <1>7, <1>8, <1>9, <1>10
     DEF Next, ReactorWaits, Writer

\* Every step keeps the offset of a checkpoint at the end of a record that is
\* on the disk.
LEMMA CheckpointDurableStep ==
    ASSUME StreamTiled, NumbersKept, Next
    PROVE  CheckpointIsDurable'
<1> USE DEF vars, fileVars, queueVars, seqVars, prodVars, pauseVars,
            writerVars, syncVars, crashVars
<1>0. /\ CheckpointIsDurable /\ marks \in SUBSET Nat /\ durable \in Nat
      /\ Len(file) \in Nat /\ durable <= Len(file)
  BY NumberTypes DEF NumbersKept, SyncCovers
<1>1. CASE ~Crash /\ ~Restart /\ marks' = marks
  <2>1. durable <= durable' /\ recs \subseteq recs'
    BY <1>1, NothingTakenBack
  <2>2. TypeOK'
    BY TypeStep
  <2>3. durable' \in Nat
    BY <2>2 DEF TypeOK, FileTypeOK
  <2>4. QED BY <1>0, <1>1, <2>1, <2>3 DEF CheckpointIsDurable
<1>2. CASE CheckpointDone
  <2>1. /\ marks' = marks \cup {Len(file)} /\ UNCHANGED <<durable, recs>>
        /\ rpc = "ckptDone"
    BY <1>2 DEF CheckpointDone
  <2>2. /\ Len(ends) > 0 /\ ends[Len(ends)] = copied
        /\ producer.length = 0 /\ synced = Len(ends)
    BY <2>1 DEF NumbersKept, CheckpointAgrees
  <2>3. Len(ends) \in 1..Len(ends) /\ Committed = Len(ends) /\ copied \in Nat
    BY <2>1, <2>2, NumberTypes
  <2>4. copied <= durable
    BY <2>2, <2>3 DEF NumbersKept, CountersCover, EndBy
  <2>5. copied \in recs \cup {0}
    BY <2>2, <2>3 DEF NumbersKept, EndsAreRecords
  <2>6. Len(file) <= copied
    <3>1. Len(file) <= QueueEnd /\ QueueEnd <= copied /\ QueueEnd \in Nat
      BY <2>1, FileInCopied, QueueFacts
    <3>2. QED BY <1>0, <2>3, <3>1
  <2>7. Len(file) = copied
    BY <1>0, <2>3, <2>4, <2>6
  <2>8. copied # 0
    BY <2>1, <2>3 DEF NumbersKept, CheckpointAgrees
  <2>9. QED BY <1>0, <2>1, <2>4, <2>5, <2>7, <2>8 DEF CheckpointIsDurable
<1>3. CASE Crash
  BY <1>0, <1>3 DEF Crash, CheckpointIsDurable
<1>4. CASE Restart
  <2>1. PICK sound \in 0..Len(file), keep \in 0..Len(file) :
          /\ Reopen(sound, keep) /\ sound <= keep
          /\ \/ /\ marks' = marks
                /\ \A r \in recs : r <= Len(file) => r <= sound
             \/ marks' = {m \in marks : m <= sound}
    BY <1>4, RestartFacts DEF StreamTiled
  <2>2. durable' = Least(durable, keep) /\ {r \in recs : r <= sound} \subseteq recs'
    BY <2>1 DEF Reopen
  <2>3. ASSUME NEW m \in marks'
        PROVE  m <= durable' /\ m \in recs'
    <3>1. m \in marks /\ m <= durable /\ m \in recs /\ m \in Nat
      BY <1>0, <2>1 DEF CheckpointIsDurable
    <3>2. m <= sound
      BY <1>0, <2>1, <3>1
    <3>3. QED BY <1>0, <2>1, <2>2, <3>1, <3>2 DEF Least
  <2>4. QED BY <2>3 DEF CheckpointIsDurable
<1>5. CASE ~Crash /\ ~Restart /\ marks' # marks
  BY <1>2, <1>5
     DEF TransactionBegin, TransactionRollback, TransactionCommit, AofAppend,
         CommitAllocFails, FlushAllocFails, CommitCopy, Flush, FlushPending,
         CloseBegin, FlushReturn, CheckpointBegin, CheckpointQueue,
         CheckpointWritten, CheckpointSyncStart, CheckpointSyncDone,
         PauseReturn, ResumeAfterFork, CloseStop, CloseJoin,
         WriterPause, WriterResume, WriterStop, WriterGather, WritevChunk,
         ConsumeWritten, PublishAlways, WriterSyncStart, WriterSyncDone,
         WriterTimeout, WritevFails, RestartRefused, Next, ReactorWaits, Writer
<1> QED BY <1>1, <1>3, <1>4, <1>5

\* Only a failing allocation cuts a record short.
LEMMA TornStep ==
    ASSUME StreamTiled, NumbersKept, Next
    PROVE  TornNeedsFailure' /\ (AllocMayFail \/ promised' >= promised)
<1> USE DEF vars, fileVars, queueVars, seqVars, prodVars, pauseVars,
            writerVars, syncVars, crashVars
<1>0. TornNeedsFailure
  BY DEF NumbersKept
<1>1. CASE AllocMayFail
  BY <1>1 DEF TornNeedsFailure
<1>2. CASE ~AllocMayFail
  <2>1. torn = {}
    BY <1>0, <1>2 DEF TornNeedsFailure
  <2>2. CASE Restart
    <3>1. torn' = {} /\ promised' = promised
      BY <2>1, <2>2, RestartFacts DEF Reopen, StreamTiled
    <3>2. QED BY <3>1, NumberTypes DEF TornNeedsFailure
  <2>3. CASE ~Restart
    <3>1. torn' = torn
      BY <1>2, <2>3
       DEF TransactionBegin, TransactionRollback, TransactionCommit, AofAppend,
         CommitAllocFails, FlushAllocFails, CommitCopy, Flush, FlushPending,
         CloseBegin, FlushReturn, CheckpointBegin, CheckpointQueue,
         CheckpointWritten, CheckpointSyncStart, CheckpointSyncDone,
         CheckpointDone, PauseReturn, ResumeAfterFork, CloseStop, CloseJoin,
         WriterPause, WriterResume, WriterStop, WriterGather, WritevChunk,
         ConsumeWritten, PublishAlways, WriterSyncStart, WriterSyncDone,
         WriterTimeout, WritevFails, RestartRefused, Crash, Next, ReactorWaits,
         Writer
    <3>2. promised' >= promised
      <4>1. CASE promised' = promised
        BY <4>1, NumberTypes
      <4>2. CASE \E n : Publish(n)
        <5>1. promised' = promised \/ \E n : promised' = Greatest(promised, ends[n])
          BY <4>2 DEF Publish
        <5>2. QED BY <5>1, NumberTypes, TypeStep
                 DEF Greatest, TypeOK, SequenceTypeOK
      <4>3. QED
        BY <2>3, <4>1, <4>2
       DEF TransactionBegin, TransactionRollback, TransactionCommit, AofAppend,
         CommitAllocFails, FlushAllocFails, CommitCopy, Flush, FlushPending,
         CloseBegin, FlushReturn, CheckpointBegin, CheckpointQueue,
         CheckpointWritten, CheckpointSyncStart, CheckpointSyncDone,
         CheckpointDone, PauseReturn, ResumeAfterFork, CloseStop, CloseJoin,
         WriterPause, WriterResume, WriterStop, WriterGather, WritevChunk,
         ConsumeWritten, PublishAlways, WriterSyncStart, WriterSyncDone,
         WriterTimeout, WritevFails, RestartRefused, Crash, Next, ReactorWaits,
         Writer
    <3>3. QED BY <2>1, <3>1, <3>2 DEF TornNeedsFailure
  <2>4. QED BY <2>2, <2>3
<1>3. QED BY <1>1, <1>2

-----------------------------------------------------------------------------
(* The second layer is an invariant *)

\* A process that starts on an empty file has promised nothing.
LEMMA NumbersKeptInit == Init => NumbersKept
<1> SUFFICES ASSUME Init PROVE NumbersKept
  OBVIOUS
<1>1. /\ Len(ends) = 0 /\ Len(queue) = 0 /\ Len(file) = 0 /\ Committed = 0
      /\ producer = NoChunk
  BY DEF Init, Committed
<1>2. EndsAreRecords /\ ChunksCover
  BY <1>1 DEF Init, EndsAreRecords, ChunksCover, NoChunk
<1>3. BuffersEndRecords
  BY DEF Init, BuffersEndRecords, EmptyBuffer, Idle
<1>4. CountersCover /\ SyncCovers
  BY <1>1 DEF Init, CountersCover, SyncCovers, EndBy
<1>5. /\ PromisesKept /\ CheckpointAgrees /\ CheckpointIsDurable
      /\ TornNeedsFailure
  BY <1>1 DEF Init, PromisesKept, CheckpointAgrees, CheckpointIsDurable,
              TornNeedsFailure
<1>6. QED BY <1>2, <1>3, <1>4, <1>5 DEF NumbersKept

\* A stuttering step keeps the second layer.
LEMMA NumbersKeptStutters ==
    ASSUME NumbersKept, UNCHANGED vars
    PROVE  NumbersKept'
<1> USE DEF vars, fileVars, queueVars, seqVars, prodVars, pauseVars,
            writerVars, syncVars, crashVars
<1>1. Committed' = Committed
  BY DEF Committed
<1>2. EndsAreRecords' /\ BuffersEndRecords' /\ ChunksCover'
  BY <1>1 DEF NumbersKept, EndsAreRecords, BuffersEndRecords, ChunksCover, EndBy
<1>3. CountersCover' /\ SyncCovers' /\ PromisesKept'
  BY <1>1 DEF NumbersKept, CountersCover, SyncCovers, PromisesKept, EndBy
<1>4. CheckpointAgrees' /\ CheckpointIsDurable' /\ TornNeedsFailure'
  BY DEF NumbersKept, CheckpointAgrees, CheckpointIsDurable, TornNeedsFailure
<1>5. QED BY <1>2, <1>3, <1>4 DEF NumbersKept

\* The two layers together: the numbers that aof.c hands out stand for bytes
\* that are where the code says they are.
THEOREM NumbersKeptInvariant == Spec => [](StreamTiled /\ NumbersKept)
<1>1. StreamTiled /\ NumbersKept /\ [Next]_vars => NumbersKept'
  <2> SUFFICES ASSUME StreamTiled, NumbersKept, [Next]_vars
               PROVE  NumbersKept'
    OBVIOUS
  <2>1. CASE Next
    BY <2>1, EndsStep, BuffersStep, ChunksStep, CountersStep, SyncStep,
       PromisesStep, TornStep, CheckpointStep, CheckpointDurableStep
       DEF NumbersKept
  <2>2. CASE UNCHANGED vars
    BY <2>2, NumbersKeptStutters
  <2>3. QED BY <2>1, <2>2
<1>2. QED BY StreamTiledInvariant, NumbersKeptInit, <1>1, PTL DEF Spec

\* aof_sequence_ready accepts a number only when its transactions are in the
\* file, and synced_sequence only covers what an fdatasync has covered; under
\* "always" nothing is published before it is synced.
THEOREM NumbersAreCovered == Spec => []NumbersCovered
<1>1. StreamTiled /\ NumbersKept => NumbersCovered
  <2> SUFFICES ASSUME StreamTiled, NumbersKept PROVE NumbersCovered
    OBVIOUS
  <2>1. /\ CountersCover /\ written \in Nat /\ synced \in Nat
        /\ Committed \in Nat /\ Len(ends) \in Nat /\ Committed <= Len(ends)
    BY NumberTypes DEF NumbersKept
  <2>2. written <= Len(ends) /\ synced <= Len(ends)
    BY <2>1 DEF CountersCover
  <2>3. QED BY <2>1, <2>2
           DEF NumbersCovered, WrittenInFile, SyncedIsDurable, CountersCover,
               EndBy
<1>2. QED BY NumbersKeptInvariant, <1>1, PTL

\* An acknowledged transaction is in the file after every kill, restart and
\* tail repair, and under "always" after every power loss, unless a start read
\* over a record cut short by a failed allocation before it.
THEOREM AcknowledgedSurvive == Spec => []AckedSurvives
<1>1. NumbersKept => AckedSurvives
  BY DEF NumbersKept, PromisesKept, AckedSurvives
<1>2. QED BY NumbersKeptInvariant, <1>1, PTL

\* When no allocation fails, no start takes back a reply: the exception of
\* AckedSurvives is never used.
THEOREM NothingTakenBackAtStart ==
    ASSUME ~AllocMayFail
    PROVE  Spec => RepliesNotTakenBack
<1>1. StreamTiled /\ NumbersKept /\ [Next]_vars => [promised' >= promised]_vars
  BY TornStep
<1>2. QED BY NumbersKeptInvariant, <1>1, PTL DEF Spec, RepliesNotTakenBack

\* The offset of a checkpoint is the end of a record on the disk, through
\* every later crash and tail repair, unless a start read over a record cut
\* short by a failed allocation before it.
THEOREM CheckpointDurable == Spec => []CheckpointIsDurable
<1>1. NumbersKept => CheckpointIsDurable
  BY DEF NumbersKept
<1>2. QED BY NumbersKeptInvariant, <1>1, PTL

-----------------------------------------------------------------------------
(* The third layer: aof_close *)

\* Appending a chunk that ends the last number.
LEMMA AppendIsLast ==
    ASSUME StreamTiled, NEW c, queue' = Append(queue, c),
           c.end, c.sequence = Len(ends')
    PROVE  LastQueued(Len(ends))'
<1>1. Len(queue) \in Nat /\ queue \in Seq(Chunk)
  BY QueueFacts
<1>2. Len(queue') = Len(queue) + 1 /\ queue'[Len(queue) + 1] = c
  BY <1>1
<1>3. Len(queue) + 1 \in 1..Len(queue')
  BY <1>1, <1>2
<1>4. \A j \in (Len(queue) + 1 + 1)..Len(queue') : ~queue'[j].end
  BY <1>1, <1>2
<1>5. QED BY <1>2, <1>3, <1>4 DEF LastQueued

\* The number that consume_written completes is the last one queued, or the
\* last one queued stays in the queue.
LEMMA LastConsumed ==
    ASSUME StreamTiled, wpc = "writev", LastQueued(Len(ends)),
           queue' = Consumed, ends' = ends
    PROVE  CompletedSequence = Len(ends) \/ LastQueued(Len(ends))'
<1>1. PICK i \in 1..Len(queue) :
        /\ queue[i].end /\ queue[i].sequence = Len(ends)
        /\ \A j \in (i + 1)..Len(queue) : ~queue[j].end
  BY DEF LastQueued
<1>2. full \in Nat /\ Len(queue) \in Nat /\ full <= Len(queue)
  BY QueueFacts
<1>3. CASE i <= full
  <2>1. /\ i \in 1..full
        /\ \A j \in (i + 1)..full : ~queue[j].end
    BY <1>1, <1>2, <1>3
  <2>2. \E k \in 1..full : queue[k].end
    BY <1>1, <2>1
  <2> DEFINE last == CHOOSE k \in 1..full :
                        /\ queue[k].end
                        /\ \A j \in (k + 1)..full : ~queue[j].end
  <2>3. /\ last \in 1..full /\ queue[last].end
        /\ \A j \in (last + 1)..full : ~queue[j].end
    <3>1. \E k \in 1..full : /\ queue[k].end
                             /\ \A j \in (k + 1)..full : ~queue[j].end
      BY <1>1, <2>1
    <3>2. QED BY <3>1
  <2>4. CompletedSequence = queue[last].sequence
    BY <2>2 DEF CompletedSequence
  <2> HIDE DEF last
  <2>5. last = i
    <3>1. ~(last < i)
      BY <1>1, <1>2, <2>1, <2>3
    <3>2. ~(i < last)
      BY <1>1, <1>2, <2>1, <2>3
    <3>3. QED BY <1>2, <2>1, <2>3, <3>1, <3>2
  <2>6. QED BY <1>1, <2>4, <2>5
<1>4. CASE ~(i <= full)
  <2>1. /\ Len(queue') = Len(queue) - full
        /\ \A k \in 1..Len(queue') :
             /\ queue'[k].sequence = queue[full + k].sequence
             /\ queue'[k].end = queue[full + k].end
    BY ConsumedFacts
  <2>2. i - full \in 1..Len(queue') /\ full + (i - full) = i
    BY <1>2, <1>4, <2>1
  <2>3. queue'[i - full].end /\ queue'[i - full].sequence = Len(ends)
    BY <1>1, <2>1, <2>2
  <2>4. \A j \in (i - full + 1)..Len(queue') : ~queue'[j].end
    <3> TAKE j \in (i - full + 1)..Len(queue')
    <3>1. j \in 1..Len(queue') /\ full + j \in (i + 1)..Len(queue)
      BY <1>2, <1>4, <2>1, <2>2
    <3>2. QED BY <1>1, <2>1, <3>1
  <2>5. QED BY <2>2, <2>3, <2>4 DEF LastQueued
<1>5. QED BY <1>3, <1>4

\* While no allocation fails, every step leaves the last committed number on
\* its way to the Reactor.
LEMMA OnItsWayStep ==
    ASSUME StreamTiled, NumbersKept, NothingStaysBehind, ~AllocMayFail, Next
    PROVE  LastOnItsWay'
<1> USE DEF vars, fileVars, queueVars, seqVars, prodVars, pauseVars,
            writerVars, syncVars, crashVars
<1>0. /\ LastOnItsWay /\ written \in Nat /\ target \in Nat /\ synced \in Nat
      /\ Len(ends) \in Nat /\ written <= Len(ends) /\ target <= Len(ends)
      /\ producer.length \in Nat
  BY NumberTypes, QueueFacts
     DEF NothingStaysBehind, StreamTiled, SequencesAssigned
<1>1. CASE rpc' = "commit"
  BY <1>1 DEF LastOnItsWay
<1>2. CASE /\ UNCHANGED <<ends, producer, queue, error, written>>
           /\ rpc # "commit"
           /\ \/ UNCHANGED <<wpc, target>>
              \/ wpc \notin {"syncAlways", "publish"}
  BY <1>0, <1>2 DEF LastOnItsWay, LastQueued
<1>3. CASE CommitCopy /\ rpc' # "commit"
  <2>1. /\ rpc = "commit" /\ pos + CopyAmount = txn.used /\ ends' = ends
    BY <1>3 DEF CommitCopy
  <2>2. /\ FilledChunk \in Chunk /\ FilledChunk.sequence = Len(ends)
        /\ FilledChunk.end /\ FilledChunk.length > 0
    BY <2>1, CopyFacts
  <2>3. CASE FilledChunk.length = ChunkCapacity
    <3>1. queue' = Append(queue, FilledChunk) /\ producer' = NoChunk
      BY <1>3, <2>3 DEF CommitCopy, QueueChunks
    <3>2. LastQueued(Len(ends))'
      BY <2>1, <2>2, <3>1, AppendIsLast
    <3>3. producer'.length = 0
      BY <3>1 DEF NoChunk
    <3>4. QED BY <3>2, <3>3 DEF LastOnItsWay
  <2>4. CASE FilledChunk.length # ChunkCapacity
    <3>1. producer' = FilledChunk
      BY <1>3, <2>4 DEF CommitCopy
    <3>2. QED BY <2>1, <2>2, <3>1 DEF LastOnItsWay
  <2>5. QED BY <2>3, <2>4
<1>4. CASE Flush \/ CheckpointQueue
  <2>1. /\ UNCHANGED <<ends, error, written, wpc, target>> /\ rpc # "commit"
        /\ QueueProducer
    BY <1>4 DEF Flush, CheckpointQueue
  <2>2. CASE producer.length > 0
    <3>1. queue' = Append(queue, producer) /\ producer'.length = 0
      BY <2>1, <2>2 DEF QueueProducer, QueueChunks, NoChunk
    <3>2. producer.end /\ producer.sequence = Len(ends)
      BY <1>0, <2>1, <2>2 DEF LastOnItsWay
    <3>3. LastQueued(Len(ends))'
      BY <2>1, <3>1, <3>2, AppendIsLast
    <3>4. QED BY <3>1, <3>3 DEF LastOnItsWay
  <2>3. CASE ~(producer.length > 0)
    <3>1. UNCHANGED <<queue, producer>>
      BY <2>1, <2>3 DEF QueueProducer
    <3>2. QED BY <1>2, <2>1, <3>1
  <2>4. QED BY <2>2, <2>3
<1>5. CASE FlushPending
  <2>1. /\ rpc = "flush" /\ producer' = producer
        /\ queue' = queue \o [i \in 1..PendingCount |-> PendingChunk(i)]
        /\ ends' = Append(ends, copied + pending.used)
        /\ producer.length = 0
    BY <1>5 DEF FlushPending, QueueChunks, StreamTiled, ReactorAgrees
  <2>2. /\ PendingCount \in Nat \ {0}
        /\ \A k \in 1..PendingCount : PendingChunk(k) \in Chunk
    BY <2>1, PendingFacts
  <2>3. Len(ends') = Len(ends) + 1
    BY <2>1, NumberTypes
  <2>4. /\ queue \in Seq(Chunk) /\ Len(queue) \in Nat
        /\ [k \in 1..PendingCount |-> PendingChunk(k)] \in Seq(Chunk)
        /\ Len([k \in 1..PendingCount |-> PendingChunk(k)]) = PendingCount
    BY <2>2, QueueFacts
  <2>5. Len(queue') = Len(queue) + PendingCount
    <3> DEFINE more == [k \in 1..PendingCount |-> PendingChunk(k)]
    <3>1. /\ queue' = queue \o more /\ more \in Seq(Chunk)
          /\ Len(more) = PendingCount
      BY <2>1, <2>4
    <3> HIDE DEF more
    <3>2. QED BY <2>4, <3>1, ConcatProperties
  <2>6. Len(queue) + PendingCount \in 1..Len(queue')
    BY <2>2, <2>4, <2>5
  <2>7. queue'[Len(queue) + PendingCount] = PendingChunk(PendingCount)
    <3>1. PendingCount \in 1..PendingCount
      BY <2>2
    <3>2. QED BY <2>1, <2>2, <2>4, <2>5, <2>6, <3>1
  <2>8. /\ PendingChunk(PendingCount).end
        /\ PendingChunk(PendingCount).sequence = Len(ends')
    BY <2>3 DEF PendingChunk
  <2>9. \A j \in (Len(queue) + PendingCount + 1)..Len(queue') : ~queue'[j].end
    BY <2>2, <2>4, <2>5
  <2>10. LastQueued(Len(ends))'
    BY <2>6, <2>7, <2>8, <2>9 DEF LastQueued
  <2>11. QED BY <2>1, <2>10 DEF LastOnItsWay
<1>6. CASE ConsumeWritten
  <2>1. /\ UNCHANGED <<ends, producer, error, rpc>> /\ wpc = "writev"
        /\ queue' = Consumed
    BY <1>6 DEF ConsumeWritten
  <2>2. CompletedSequence \in Nat /\ CompletedSequence <= Len(ends)
    BY CompletedType
  <2>3. ASSUME CompletedSequence = Len(ends)
        PROVE  \/ written' = Len(ends)
               \/ wpc' \in {"syncAlways", "publish"} /\ target' = Len(ends)
    <3>1. CASE Policy = "always"
      <4>1. CASE Len(ends) = 0
        BY <1>0, <1>6, <3>1, <4>1 DEF ConsumeWritten
      <4>2. CASE Len(ends) # 0
        BY <1>6, <2>3, <3>1, <4>2 DEF ConsumeWritten
      <4>3. QED BY <4>1, <4>2
    <3>2. CASE Policy # "always"
      BY <1>0, <1>6, <2>3, <3>2 DEF ConsumeWritten, Publish, Greatest
    <3>3. QED BY <3>1, <3>2
  <2>4. ASSUME written = Len(ends) PROVE written' = Len(ends)
    BY <1>0, <1>6, <2>2, <2>4 DEF ConsumeWritten, Publish, Greatest
  <2>5. LastQueued(Len(ends)) =>
          CompletedSequence = Len(ends) \/ LastQueued(Len(ends))'
    BY <2>1, LastConsumed
  <2>6. QED BY <1>0, <2>1, <2>3, <2>4, <2>5 DEF LastOnItsWay
<1>7. CASE PublishAlways
  <2>1. /\ UNCHANGED <<ends, producer, queue, error, rpc>>
        /\ written' = Greatest(written, target)
    BY <1>7 DEF PublishAlways, Publish
  <2>2. target = Len(ends) \/ written = Len(ends) => written' = Len(ends)
    BY <1>0, <2>1 DEF Greatest
  <2>3. QED BY <1>0, <2>1, <2>2 DEF LastOnItsWay, LastQueued
<1>8. CASE WriterSyncStart
  <2>1. /\ UNCHANGED <<ends, producer, queue, error, written, rpc>>
        /\ \/ UNCHANGED <<wpc, target>>
           \/ wpc = "syncAlways" /\ wpc' = "publish" /\ target' = target
           \/ wpc \notin {"syncAlways", "publish"}
    BY <1>8 DEF WriterSyncStart, WriterSynced
  <2>2. QED BY <1>0, <1>1, <1>2, <2>1 DEF LastOnItsWay, LastQueued
<1>9. CASE WriterSyncDone
  <2>1. /\ UNCHANGED <<ends, producer, queue, written, rpc>>
        /\ wpc \in {"syncAlways", "syncIdle", "syncLast"}
    BY <1>9 DEF WriterSyncDone, StreamTiled, ThreadsAgree
  <2>2. CASE error' = TRUE
    BY <1>0, <2>1, <2>2 DEF LastOnItsWay
  <2>3. CASE error' = error /\ WriterSynced
    <3>1. \/ wpc = "syncAlways" /\ wpc' = "publish" /\ target' = target
          \/ wpc \notin {"syncAlways", "publish"}
      BY <2>1, <2>3 DEF WriterSynced
    <3>2. QED BY <1>0, <1>1, <1>2, <2>1, <2>3, <3>1 DEF LastOnItsWay, LastQueued
  <2>4. QED BY <1>9, <2>2, <2>3 DEF WriterSyncDone
<1>10. CASE WritevFails
  BY <1>0, <1>10 DEF WritevFails, LastOnItsWay
<1>11. CASE Crash \/ Restart
  <2>1. /\ Len(ends') = 0 /\ written' = 0 /\ producer'.length = 0
    BY <1>11 DEF Crash, Restart, ForgetMemory, NoChunk
  <2>2. QED BY <2>1 DEF LastOnItsWay
<1>12. CASE WriterStop \/ WriterGather \/ WriterTimeout
  <2>1. /\ UNCHANGED <<ends, producer, queue, error, written, rpc>>
        /\ wpc = "loop"
    BY <1>12 DEF WriterStop, WriterGather, WriterTimeout
  <2>2. QED BY <1>1, <1>2, <2>1
<1>13. CASE WriterPause \/ WriterResume \/ WritevChunk \/ RestartRefused
  <2>1. UNCHANGED <<ends, producer, queue, error, written, rpc, wpc, target>>
    BY <1>13 DEF WriterPause, WriterResume, WritevChunk, RestartRefused
  <2>2. QED BY <1>1, <1>2, <2>1
<1>14. CASE TransactionBegin \/ TransactionRollback
            \/ (\E size \in RecordSizes : AofAppend(size))
            \/ CloseBegin \/ FlushReturn \/ CheckpointWritten
            \/ CheckpointSyncStart \/ CheckpointSyncDone \/ CheckpointDone
            \/ PauseReturn \/ ResumeAfterFork \/ CloseStop \/ CloseJoin
  <2>1. /\ UNCHANGED <<ends, producer, queue, error, written, wpc, target>>
        /\ rpc # "commit"
    BY <1>14
       DEF TransactionBegin, TransactionRollback, AofAppend, CloseBegin,
           FlushReturn, CheckpointWritten, CheckpointSyncStart,
           CheckpointSyncDone, CheckpointDone, PauseReturn, ResumeAfterFork,
           CloseStop, CloseJoin, StreamTiled, ThreadsAgree
  <2>2. QED BY <1>2, <2>1
<1>15. CASE TransactionCommit
  BY <1>1, <1>2, <1>15 DEF TransactionCommit
<1>16. CASE CheckpointBegin
  BY <1>1, <1>16 DEF CheckpointBegin
<1>17. CASE CommitAllocFails \/ FlushAllocFails
  BY <1>17 DEF CommitAllocFails, FlushAllocFails
<1> QED
  BY <1>1, <1>3, <1>4, <1>5, <1>6, <1>7, <1>8, <1>9, <1>10, <1>11, <1>12,
     <1>13, <1>14, <1>15, <1>16, <1>17 DEF Next, ReactorWaits, Writer

\* The Reactor thread reaches the end of aof_close with no bytes in the
\* producer chunk.
LEMMA ProducerHandedOver ==
    ASSUME StreamTiled, NothingStaysBehind, Next
    PROVE  /\ rpc' \in {"flush", "flushWait", "stop", "join"} =>
                producer'.length = 0
           /\ rpc' = "closed" /\ stopping' => producer'.length = 0
<1> USE DEF vars, fileVars, queueVars, seqVars, prodVars, pauseVars,
            writerVars, syncVars, crashVars
<1> DEFINE Late == {"flush", "flushWait", "stop", "join"}
<1>0. WriterLeavesLast
  BY DEF NothingStaysBehind
<1>1. CASE UNCHANGED <<rpc, producer, stopping>>
  BY <1>0, <1>1 DEF WriterLeavesLast
<1>2. CASE rpc' \notin Late /\ rpc' # "closed"
  BY <1>2
<1>3. CASE Flush
  <2>1. QueueProducer /\ copied' = copied
    BY <1>3 DEF Flush
  <2>2. QED BY <2>1, QueueProducerTiles
<1>4. CASE FlushPending \/ FlushAllocFails \/ FlushReturn \/ CloseStop \/ CloseJoin
  <2>1. rpc \in Late /\ producer' = producer
    BY <1>4 DEF FlushPending, FlushAllocFails, FlushReturn, CloseStop, CloseJoin
  <2>2. QED BY <1>0, <2>1 DEF WriterLeavesLast
<1>5. CASE Crash
  BY <1>5 DEF Crash, ForgetMemory
<1>6. CASE WriterPause \/ WriterResume \/ WriterStop \/ WriterGather
           \/ WritevChunk \/ ConsumeWritten \/ PublishAlways
           \/ WriterSyncStart \/ WriterSyncDone \/ WriterTimeout
           \/ WritevFails \/ RestartRefused
  <2>1. UNCHANGED <<rpc, producer, stopping>>
    BY <1>6 DEF WriterPause, WriterResume, WriterStop, WriterGather,
                WritevChunk, ConsumeWritten, PublishAlways, WriterSyncStart,
                WriterSyncDone, WriterTimeout, WritevFails, RestartRefused
  <2>2. QED BY <1>1, <2>1
<1>7. CASE TransactionBegin \/ TransactionRollback \/ TransactionCommit
           \/ (\E size \in RecordSizes : AofAppend(size))
           \/ CommitAllocFails \/ CommitCopy \/ CheckpointBegin
           \/ CheckpointQueue \/ CheckpointWritten \/ CheckpointSyncStart
           \/ CheckpointSyncDone \/ CheckpointDone \/ PauseReturn
           \/ ResumeAfterFork \/ CloseBegin \/ Restart
  <2>1. rpc' \notin Late /\ rpc' # "closed"
    BY <1>7
       DEF TransactionBegin, TransactionRollback, TransactionCommit, AofAppend,
           CommitAllocFails, CommitCopy, CheckpointBegin, CheckpointQueue,
           CheckpointWritten, CheckpointSyncStart, CheckpointSyncDone,
           CheckpointDone, PauseReturn, ResumeAfterFork, CloseBegin, Restart,
           StreamTiled, ThreadsAgree
  <2>2. QED BY <1>2, <2>1
<1> QED BY <1>3, <1>4, <1>5, <1>6, <1>7 DEF Next, ReactorWaits, Writer

\* When the writer finds the queue empty and is asked to stop, every committed
\* number is published or the error is.
LEMMA NothingLeftToWrite ==
    ASSUME StreamTiled, NothingStaysBehind, WriterStop, ~error
    PROVE  written = Len(ends)
<1>1. wpc = "loop" /\ stopping /\ queue = <<>>
  BY DEF WriterStop
<1>2. rpc = "join"
  BY <1>1 DEF StreamTiled, ThreadsAgree
<1>3. producer.length = 0
  BY <1>2 DEF NothingStaysBehind, WriterLeavesLast
<1>4. ~LastQueued(Len(ends))
  BY <1>1 DEF LastQueued
<1>5. QED BY <1>1, <1>2, <1>3, <1>4 DEF NothingStaysBehind, LastOnItsWay

\* Every step leaves the writer outside its loop only when its work is done.
LEMMA LeavesLastStep ==
    ASSUME StreamTiled, NumbersKept, NothingStaysBehind, Next
    PROVE  WriterLeavesLast'
<1> USE DEF vars, fileVars, queueVars, seqVars, prodVars, pauseVars,
            writerVars, syncVars, crashVars
<1> DEFINE Left ==
      /\ wpc \in {"syncLast", "exit"} /\ ~error /\ rpc # "closed" => stopping
      /\ wpc = "syncLast" => Policy = "everysec"
      /\ wpc \in {"syncLast", "exit"} /\ ~error /\ stopping =>
          /\ queue = <<>> /\ written = Len(ends)
          /\ wpc = "syncLast" => target = written
          /\ wpc = "exit" /\ Policy = "everysec" => synced = written
<1>0. /\ WriterLeavesLast /\ Left /\ written \in Nat /\ synced \in Nat
      /\ Len(ends) \in Nat /\ synced <= Len(ends) /\ target \in Nat
  <2>1. synced <= Committed /\ Committed <= Len(ends) /\ Committed \in Nat
        /\ synced \in Nat /\ Len(ends) \in Nat
    BY NumberTypes DEF NumbersKept, CountersCover
  <2>2. synced <= Len(ends)
    BY <2>1
  <2>3. QED BY <2>2, NumberTypes DEF NothingStaysBehind, WriterLeavesLast
<1>1. Left'
  <2>1. CASE WriterStop
    <3>1. /\ wpc = "loop" /\ stopping /\ queue = <<>>
          /\ UNCHANGED <<queue, ends, written, synced, error, stopping>>
          /\ IF Policy = "everysec" THEN wpc' = "syncLast" /\ target' = written
                                    ELSE wpc' = "exit"
      BY <2>1 DEF WriterStop, LeaveLoop, SyncTarget
    <3>2. ~error => written = Len(ends)
      BY <2>1, NothingLeftToWrite
    <3>3. QED BY <3>1, <3>2
  <2>2. CASE WritevFails
    BY <2>2 DEF WritevFails, LeaveLoop
  <2>3. CASE WriterSyncStart
    <3>1. /\ UNCHANGED <<queue, ends, written, synced, error, stopping, rpc>>
          /\ wpc \in {"syncAlways", "syncIdle", "syncLast"}
      BY <2>3 DEF WriterSyncStart
    <3>2. CASE UNCHANGED <<wpc, target>>
      BY <1>0, <3>1, <3>2
    <3>3. CASE target <= synced /\ WriterSynced
      <4>1. CASE wpc = "syncLast"
        <5>1. wpc' = "exit"
          BY <3>3, <4>1 DEF WriterSynced
        <5>2. ~error /\ stopping => synced = written
          BY <1>0, <3>3, <4>1
        <5>3. QED BY <1>0, <3>1, <4>1, <5>1, <5>2
      <4>2. CASE wpc # "syncLast"
        <5>1. wpc' \in {"publish", "loop"}
          BY <3>1, <3>3, <4>2 DEF WriterSynced
        <5>2. QED BY <5>1
      <4>3. QED BY <4>1, <4>2
    <3>4. QED BY <2>3, <3>2, <3>3 DEF WriterSyncStart, NothingToSync
  <2>4. CASE WriterSyncDone
    <3>1. /\ UNCHANGED <<queue, ends, written, stopping, rpc>>
          /\ wpc \in {"syncAlways", "syncIdle", "syncLast"}
      BY <2>4 DEF WriterSyncDone, StreamTiled, ThreadsAgree
    <3>2. CASE error' = TRUE /\ wpc' = "exit"
      BY <3>2
    <3>3. CASE WriterSynced /\ error' = error /\ synced' = Greatest(synced, target)
      <4>1. CASE wpc = "syncLast"
        <5>1. wpc' = "exit"
          BY <3>3, <4>1 DEF WriterSynced
        <5>2. ~error /\ stopping => synced' = written
          BY <1>0, <3>3, <4>1 DEF Greatest
        <5>3. QED BY <1>0, <3>1, <3>3, <4>1, <5>1, <5>2
      <4>2. CASE wpc # "syncLast"
        <5>1. wpc' \in {"publish", "loop"}
          BY <3>1, <3>3, <4>2 DEF WriterSynced
        <5>2. QED BY <5>1
      <4>3. QED BY <4>1, <4>2
    <3>4. QED BY <2>4, <3>2, <3>3 DEF WriterSyncDone
  <2>5. CASE Crash \/ Restart
    BY <2>5 DEF Crash, Restart, ForgetMemory
  <2>6. CASE CloseStop
    <3>1. /\ UNCHANGED <<wpc, error, queue, ends, written, synced, target>>
          /\ rpc = "stop" /\ ~stopping
      BY <2>6 DEF CloseStop, StreamTiled, ThreadsAgree
    <3>2. ~(wpc \in {"syncLast", "exit"} /\ ~error)
      BY <1>0, <3>1
    <3>3. QED BY <1>0, <3>1, <3>2
  <2>7. CASE CloseJoin \/ WriterPause \/ WriterResume \/ RestartRefused
    <3>1. /\ UNCHANGED <<wpc, error, queue, ends, written, synced, target, stopping>>
          /\ rpc' # "closed" => rpc # "closed"
      BY <2>7 DEF CloseJoin, WriterPause, WriterResume, RestartRefused
    <3>2. QED BY <1>0, <3>1
  <2>8. CASE WriterGather \/ WritevChunk \/ ConsumeWritten \/ PublishAlways
             \/ WriterTimeout
    <3>1. wpc' \in {"loop", "writev", "syncAlways", "syncIdle"}
      BY <2>8 DEF WriterGather, WritevChunk, ConsumeWritten, PublishAlways,
                  WriterTimeout
    <3>2. QED BY <3>1
  <2>9. CASE TransactionBegin \/ TransactionRollback \/ TransactionCommit
             \/ (\E size \in RecordSizes : AofAppend(size))
             \/ CommitAllocFails \/ FlushAllocFails \/ CommitCopy
             \/ Flush \/ FlushPending \/ FlushReturn
             \/ CheckpointBegin \/ CheckpointQueue \/ CheckpointWritten
             \/ CheckpointSyncStart \/ CheckpointSyncDone \/ CheckpointDone
             \/ PauseReturn \/ ResumeAfterFork \/ CloseBegin
    <3>1. /\ rpc \notin {"join", "closed"} /\ UNCHANGED <<wpc, error, stopping>>
      BY <2>9, ZenonT(40)
         DEF TransactionBegin, TransactionRollback, TransactionCommit,
             AofAppend, CommitAllocFails, FlushAllocFails, CommitCopy, Flush,
             FlushPending, FlushReturn, CheckpointBegin, CheckpointQueue,
             CheckpointWritten, CheckpointSyncStart, CheckpointSyncDone,
             CheckpointDone, PauseReturn, ResumeAfterFork, CloseBegin,
             StreamTiled, ThreadsAgree
    <3>2. ~stopping
      BY <3>1 DEF StreamTiled, ThreadsAgree
    <3>3. QED BY <1>0, <3>1, <3>2
  <2> HIDE DEF Left
  <2>10. QED
    BY <2>1, <2>2, <2>3, <2>4, <2>5, <2>6, <2>7, <2>8, <2>9
       DEF Next, ReactorWaits, Writer
<1>2. ASSUME rpc' = "closed", stopping', ~error' PROVE Len(file') = copied'
  <2>1. CASE CloseJoin
    <3>1. /\ rpc = "join" /\ wpc = "exit" /\ stopping /\ ~error
          /\ UNCHANGED <<file, copied>>
      BY <1>2, <2>1 DEF CloseJoin
    <3>2. queue = <<>> /\ producer.length = 0
      BY <1>0, <3>1 DEF WriterLeavesLast
    <3>3. Len(file) = WritePosition /\ QueueEnd = copied
      BY <3>1, <3>2 DEF StreamTiled, FileFollowsQueue, QueueEnd
    <3>4. WritePosition = QueueEnd
      <4>1. Len(queue) = 0 /\ full \in Nat
        BY <3>2, QueueFacts
      <4>2. ~(full < Len(queue))
        BY <4>1
      <4>3. QED BY <4>2 DEF WritePosition
    <3>5. QED BY <3>1, <3>3, <3>4
  <2>2. CASE Crash
    BY <1>2, <2>2 DEF Crash, ForgetMemory
  <2>3. CASE ~CloseJoin /\ ~Crash
    <3>1. UNCHANGED <<rpc, file, copied, stopping, error>>
      <4>1. rpc = "closed"
        BY <1>2, <2>3
           DEF TransactionBegin, TransactionRollback, TransactionCommit,
               AofAppend, CommitAllocFails, FlushAllocFails, CommitCopy,
               Flush, FlushReturns, FlushPending, FlushReturn,
               CheckpointBegin, CheckpointQueue, CheckpointWritten,
               CheckpointSyncStart, CheckpointSyncDone, CheckpointDone,
               PauseReturn, ResumeAfterFork, CloseBegin, CloseStop, Restart,
               WriterPause, WriterResume, WriterStop, WriterGather,
               WritevChunk, ConsumeWritten, PublishAlways, WriterSyncStart,
               WriterSyncDone, WriterTimeout, WritevFails, RestartRefused,
               StreamTiled, ThreadsAgree, Next, ReactorWaits, Writer
      <4>2. wpc = "exit" /\ syncer = "none"
        BY <4>1 DEF StreamTiled, ThreadsAgree, TypeOK, ThreadTypeOK
      <4>3. QED
        BY <1>2, <2>3, <4>1, <4>2
           DEF TransactionBegin, TransactionRollback, TransactionCommit,
               AofAppend, CommitAllocFails, FlushAllocFails, CommitCopy,
               Flush, FlushPending, FlushReturn, CheckpointBegin,
               CheckpointQueue, CheckpointWritten, CheckpointSyncStart,
               CheckpointSyncDone, CheckpointDone, PauseReturn,
               ResumeAfterFork, CloseBegin, CloseStop, Restart, WriterPause,
               WriterResume, WriterStop, WriterGather, WritevChunk,
               ConsumeWritten, PublishAlways, WriterSyncStart, WriterSyncDone,
               WriterTimeout, WritevFails, RestartRefused, Next, ReactorWaits,
               Writer
    <3>2. QED BY <1>0, <1>2, <3>1 DEF WriterLeavesLast
  <2>4. QED BY <2>1, <2>2, <2>3
<1>3. QED BY <1>1, <1>2, ProducerHandedOver DEF WriterLeavesLast

\* The third layer is an invariant while no allocation fails.
LEMMA NothingStaysBehindInvariant ==
    ASSUME ~AllocMayFail
    PROVE  Spec => []NothingStaysBehind
<1>1. Init => NothingStaysBehind
  <2> SUFFICES ASSUME Init PROVE NothingStaysBehind
    OBVIOUS
  <2>1. producer.length = 0 /\ Len(ends) = 0 /\ written = 0
    BY DEF Init, NoChunk
  <2>2. LastOnItsWay
    BY <2>1 DEF LastOnItsWay
  <2>3. WriterLeavesLast
    BY DEF Init, WriterLeavesLast
  <2>4. QED BY <2>2, <2>3 DEF NothingStaysBehind
<1>2. StreamTiled /\ NumbersKept /\ NothingStaysBehind /\ [Next]_vars
        => NothingStaysBehind'
  <2> SUFFICES ASSUME StreamTiled, NumbersKept, NothingStaysBehind, [Next]_vars
               PROVE  NothingStaysBehind'
    OBVIOUS
  <2>1. CASE Next
    BY <2>1, OnItsWayStep, LeavesLastStep DEF NothingStaysBehind
  <2>2. CASE UNCHANGED vars
    BY <2>2
       DEF NothingStaysBehind, LastOnItsWay, LastQueued, WriterLeavesLast,
           vars, fileVars, queueVars, seqVars, prodVars, pauseVars,
           writerVars, syncVars, crashVars
  <2>3. QED BY <2>1, <2>2
<1>3. QED BY NumbersKeptInvariant, <1>1, <1>2, PTL DEF Spec

\* When no allocation fails, aof_close without an error has written every
\* byte, and has synced every transaction unless the policy is "no".  (An
\* allocation that fails in aof_transaction_commit can take sequence_end from
\* a chunk with an earlier transaction, whose number the last sync then does
\* not cover.)
THEOREM CloseIsComplete ==
    ASSUME ~AllocMayFail
    PROVE  Spec => []CloseLosesNothing
<1>1. StreamTiled /\ NumbersKept /\ NothingStaysBehind => CloseLosesNothing
  <2> SUFFICES ASSUME StreamTiled, NumbersKept, NothingStaysBehind,
                      rpc = "closed", stopping, ~error
               PROVE  /\ Len(file) = copied
                      /\ Policy # "no" =>
                           \A n \in 1..Len(ends) : ends[n] <= durable
    BY DEF CloseLosesNothing
  <2>1. wpc = "exit" /\ Len(file) = copied /\ written = Len(ends)
    BY DEF StreamTiled, ThreadsAgree, NothingStaysBehind, WriterLeavesLast
  <2>2. synced \in Nat /\ Len(ends) \in Nat /\ synced <= Len(ends)
    BY NumberTypes DEF NumbersKept, CountersCover, Committed
  <2>3. ASSUME Policy # "no" PROVE synced = Len(ends)
    <3>1. CASE Policy = "always"
      BY <2>1, <2>2, <3>1 DEF NumbersKept, CountersCover
    <3>2. CASE Policy = "everysec"
      BY <2>1, <3>2 DEF NothingStaysBehind, WriterLeavesLast
    <3>3. QED BY <2>3, <3>1, <3>2, AofAssumption
  <2>4. EndBy(synced, durable)
    BY DEF NumbersKept, CountersCover
  <2>5. QED BY <2>1, <2>3, <2>4 DEF EndBy
<1>2. QED BY NumbersKeptInvariant, NothingStaysBehindInvariant, <1>1, PTL

=============================================================================
