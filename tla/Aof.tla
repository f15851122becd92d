-------------------------------- MODULE Aof --------------------------------
(***************************************************************************)
(* The append-only file of src/persistence/aof.c: the Reactor thread       *)
(* encodes records, commits transactions into chunks and waits for them;   *)
(* the writer thread drains the chunk queue with writev, fdatasyncs and    *)
(* publishes sequence numbers.  A crash may stop both at any step.         *)
(*                                                                         *)
(* Bytes are numbered in the order in which the producer copies them into  *)
(* chunks, so a chunk holds an interval of byte numbers and the file is    *)
(* the sequence of byte numbers that writev appended.  Every critical      *)
(* section of aof->mutex is one step.                                      *)
(***************************************************************************)
EXTENDS Naturals, Sequences

CONSTANTS
    Policy,         \* aof->fsync_policy: "always", "everysec" or "no"
    ChunkCapacity,  \* AOF_CHUNK_CAPACITY
    HighWater,      \* AOF_QUEUE_HIGH_WATER
    LowWater,       \* AOF_QUEUE_LOW_WATER
    WritevMax,      \* AOF_WRITEV_MAX
    RecordSizes,    \* encoded sizes of the records the service appends
    TokenSize,      \* encoded size of the PING checkpoint record
    EvictOutside,   \* may the cache evict outside a transaction (MySQL loads)
    AllocMayFail,   \* may malloc fail in acquire_chunk
    IoMayFail,      \* may writev or fdatasync fail
    MaxBytes,       \* bound: bytes ever copied into chunks
    MaxBegins,      \* bound: no transaction begins after that many sequences
    MaxCrashes      \* bound: crashes and restarts

ASSUME AofAssumption ==
    /\ Policy \in {"always", "everysec", "no"}
    /\ ChunkCapacity \in Nat \ {0}
    /\ HighWater \in Nat /\ LowWater \in Nat /\ LowWater < HighWater
    /\ WritevMax \in Nat \ {0}
    /\ RecordSizes \subseteq Nat \ {0}
    /\ TokenSize \in Nat \ {0}
    /\ EvictOutside \in BOOLEAN /\ AllocMayFail \in BOOLEAN
    /\ IoMayFail \in BOOLEAN
    /\ MaxBytes \in Nat /\ MaxBegins \in Nat /\ MaxCrashes \in Nat

VARIABLES
    file,          \* byte numbers in the file, in file order
    durable,       \* length of the prefix an fdatasync has covered
    recs,          \* last bytes of the records copied into chunks
    torn,          \* byte numbers after which a record was cut short
    copied,        \* bytes copied into chunks so far
    ends,          \* ends[n] = last byte of transaction n; Len(ends) = next_sequence
    queue,         \* queue_head .. queue_tail
    queueBytes,    \* queue_bytes
    producer,      \* producer_chunk, NoChunk when NULL
    free,          \* number of chunks in free_chunks
    written,       \* written_sequence
    synced,        \* synced_sequence
    backpressured, \* backpressured
    error,         \* async_error # 0
    pending,       \* pending, pending_used
    txn,           \* transaction, transaction_used, transaction_active
    pos,           \* position of the copy loop in aof_transaction_commit
    rpc,           \* where the Reactor thread is
    call,          \* entry point it is in: "request", "checkpoint" or "close"
    marks,         \* checkpoint->aof_offset of every checkpoint returned
    pauseReq,      \* pause_requested
    paused,        \* paused
    stopping,      \* stopping
    wpc,           \* where the writer thread is
    iov,           \* chunks gathered for the writev in progress
    full,          \* gathered chunks it has written completely
    part,          \* bytes it has written of the next one
    syncer,        \* holder of sync_mutex: "none", "writer" or "reactor"
    target,        \* the writer's completed_sequence, or its sync target
    syncLen,       \* file length when the holder called fdatasync
    promised,      \* highest byte of a transaction whose reply may have been sent
    powerLost,     \* a crash has dropped bytes that were not durable
    crashes        \* crashes so far

fileVars == <<file, durable, recs, torn, copied, ends>>
queueVars == <<queue, queueBytes, producer, free, backpressured>>
seqVars == <<written, synced, error, promised>>
prodVars == <<pending, txn, pos, rpc, call, marks>>
pauseVars == <<pauseReq, paused, stopping>>
writerVars == <<wpc, iov, full, part, target>>
syncVars == <<syncer, syncLen>>
crashVars == <<powerLost, crashes>>
vars == <<fileVars, queueVars, seqVars, prodVars, pauseVars, writerVars,
          syncVars, crashVars>>

-----------------------------------------------------------------------------
(* Chunks and buffers *)

Chunk == [first: Nat, length: Nat, offset: Nat, sequence: Nat, end: BOOLEAN]

NoChunk == [first |-> 0, length |-> 0, offset |-> 0, sequence |-> 0,
            end |-> FALSE]

Buffer == [used: Nat, recs: SUBSET Nat]

EmptyBuffer == [used |-> 0, recs |-> {}]

Idle == [active |-> FALSE, used |-> 0, recs |-> {}]

Least(a, b) == IF a < b THEN a ELSE b

Greatest(a, b) == IF a > b THEN a ELSE b

\* The records of buffer b that end in its bytes from+1 .. to, once byte
\* from+1 has become byte at+1 of the stream.
Placed(b, from, to, at) ==
    {at + (r - from) : r \in {x \in b.recs : from < x /\ x <= to}}

\* Mutant of QueueChunks: the high water mark itself is let through.
QueueChunksAboveMark(q, bytes) ==
    /\ queue' = q
    /\ queueBytes' = bytes
    /\ backpressured' = (backpressured \/ bytes > HighWater)

\* queue_chunk_locked: append to the queue, raise backpressure at the high
\* water mark.
QueueChunks(q, bytes) ==
    /\ queue' = q
    /\ queueBytes' = bytes
    /\ backpressured' = (backpressured \/ bytes >= HighWater)

-----------------------------------------------------------------------------
(* aof_open and the empty file of a first start *)

Init ==
    /\ file = <<>> /\ durable = 0 /\ recs = {} /\ torn = {}
    /\ copied = 0 /\ ends = <<>>
    /\ queue = <<>> /\ queueBytes = 0 /\ producer = NoChunk
    /\ free = 0 /\ backpressured = FALSE
    /\ written = 0 /\ synced = 0 /\ error = FALSE /\ promised = 0
    /\ pending = EmptyBuffer /\ txn = Idle /\ pos = 0
    /\ rpc = "ready" /\ call = "request" /\ marks = {}
    /\ pauseReq = FALSE /\ paused = FALSE /\ stopping = FALSE
    /\ wpc = "loop" /\ iov = 0 /\ full = 0 /\ part = 0 /\ target = 0
    /\ syncer = "none" /\ syncLen = 0
    /\ powerLost = FALSE /\ crashes = 0

-----------------------------------------------------------------------------
(* The Reactor thread: transactions *)

CanAcceptWrite == ~backpressured /\ ~error

TransactionBegin ==
    /\ rpc = "ready" /\ ~txn.active
    /\ CanAcceptWrite
    /\ Len(ends) < MaxBegins
    /\ txn' = [Idle EXCEPT !.active = TRUE]
    /\ UNCHANGED <<fileVars, queueVars, seqVars, pauseVars, writerVars,
                   syncVars, crashVars, pending, pos, rpc, call, marks>>

\* aof_append: a record goes to the open transaction, or to the pending
\* buffer when there is none (a DEL of record_eviction).
AofAppend(size) ==
    /\ rpc = "ready"
    /\ ~error
    /\ copied + txn.used + pending.used + size <= MaxBytes
    /\ \/ /\ txn.active
          /\ txn' = [txn EXCEPT !.used = @ + size,
                                !.recs = @ \cup {txn.used + size}]
          /\ UNCHANGED pending
       \/ /\ ~txn.active
          /\ EvictOutside
          /\ pending' = [used |-> pending.used + size,
                         recs |-> pending.recs \cup {pending.used + size}]
          /\ UNCHANGED txn
    /\ UNCHANGED <<fileVars, queueVars, seqVars, pauseVars, writerVars,
                   syncVars, crashVars, pos, rpc, call, marks>>

TransactionRollback ==
    /\ rpc = "ready" /\ txn.active
    /\ txn' = Idle
    /\ UNCHANGED <<fileVars, queueVars, seqVars, pauseVars, writerVars,
                   syncVars, crashVars, pending, pos, rpc, call, marks>>

\* aof_transaction_commit up to its copy loop.
TransactionCommit ==
    /\ rpc = "ready" /\ txn.active
    /\ \/ /\ txn.used = 0
          /\ txn' = Idle
          /\ UNCHANGED <<ends, pos, rpc>>
       \/ /\ txn.used > 0
          /\ ends' = Append(ends, copied + txn.used)
          /\ pos' = 0
          /\ rpc' = "commit"
          /\ UNCHANGED txn
    /\ UNCHANGED <<queueVars, seqVars, pauseVars, writerVars, syncVars,
                   crashVars, file, durable, recs, torn, copied,
                   pending, call, marks>>

\* The chunk that the copy loop fills: producer_chunk, or a fresh one.
ProducerChunk ==
    IF producer.length = 0 THEN [NoChunk EXCEPT !.first = copied]
                           ELSE producer

CopyAmount == Least(txn.used - pos, ChunkCapacity - ProducerChunk.length)

FilledChunk ==
    [ProducerChunk EXCEPT !.length = @ + CopyAmount,
                          !.sequence = Len(ends),
                          !.end = (pos + CopyAmount = txn.used)]

\* One round of the copy loop: fill the producer chunk, queue it when full.
CommitCopy ==
    /\ rpc = "commit"
    /\ copied' = copied + CopyAmount
    /\ recs' = recs \cup Placed(txn, pos, pos + CopyAmount, copied)
    /\ free' = IF producer.length = 0 /\ free > 0 THEN free - 1 ELSE free
    /\ IF FilledChunk.length = ChunkCapacity
       THEN /\ QueueChunks(Append(queue, FilledChunk),
                           queueBytes + FilledChunk.length)
            /\ producer' = NoChunk
       ELSE /\ producer' = FilledChunk
            /\ UNCHANGED <<queue, queueBytes, backpressured>>
    /\ IF pos + CopyAmount = txn.used
       THEN /\ txn' = Idle /\ pos' = 0
            /\ rpc' = IF call = "checkpoint" THEN "ckptQueue" ELSE "ready"
       ELSE /\ pos' = pos + CopyAmount
            /\ UNCHANGED <<txn, rpc>>
    /\ UNCHANGED <<seqVars, pauseVars, writerVars, syncVars, crashVars,
                   file, durable, torn, ends, pending, call,
                   marks>>

\* acquire_chunk fails inside the loop: the rest of the transaction is
\* dropped although its first bytes may already be queued.  The request gets
\* an error, so its sequence number promises nothing.
CommitAllocFails ==
    LET n == Len(ends) IN
    /\ AllocMayFail
    /\ rpc = "commit" /\ producer.length = 0 /\ free = 0
    /\ ends' = [ends EXCEPT ![n] = IF n = 1 THEN 0 ELSE ends[n - 1]]
    /\ torn' = IF pos > 0 /\ pos \notin txn.recs
               THEN torn \cup {copied} ELSE torn
    /\ txn' = Idle /\ pos' = 0 /\ rpc' = "ready" /\ call' = "request"
    /\ UNCHANGED <<queueVars, seqVars, pauseVars, writerVars, syncVars,
                   crashVars, file, durable, recs, copied, pending,
                   marks>>

-----------------------------------------------------------------------------
(* The Reactor thread: aof_flush, at the end of every event batch *)

\* Where aof_flush's caller continues: kvstore_service_flush or aof_close.
FlushReturns == IF call = "close" THEN "stop" ELSE "ready"

\* Mutant of QueueProducer: a chunk that is not full stays with the producer.
QueueProducerWhenFull == UNCHANGED queueVars

QueueProducer ==
    IF producer.length > 0
    THEN /\ QueueChunks(Append(queue, producer),
                        queueBytes + producer.length)
         /\ producer' = NoChunk
         /\ UNCHANGED free
    ELSE UNCHANGED queueVars

Flush ==
    /\ \/ rpc = "ready" /\ ~txn.active
       \/ rpc = "closing"
    /\ QueueProducer
    /\ rpc' = IF pending.used = 0 THEN FlushReturns ELSE "flush"
    /\ UNCHANGED <<fileVars, seqVars, pauseVars, writerVars, syncVars,
                   crashVars, pending, txn, pos, call, marks>>

\* The number of chunks that the pending bytes fill, and these chunks: they
\* hold the pending bytes only, and the last one ends their sequence.
PendingCount == (pending.used + ChunkCapacity - 1) \div ChunkCapacity

PendingChunk(i) ==
    [first    |-> copied + (i - 1) * ChunkCapacity,
     length   |-> Least(ChunkCapacity, pending.used - (i - 1) * ChunkCapacity),
     offset   |-> 0,
     sequence |-> IF i = PendingCount THEN Len(ends) + 1 ELSE 0,
     end      |-> i = PendingCount]

\* enqueue_bytes: the pending bytes become chunks of their own, under one
\* sequence number, all queued in one critical section.
FlushPending ==
    /\ rpc = "flush"
    /\ ends' = Append(ends, copied + pending.used)
    /\ QueueChunks(queue \o [i \in 1..PendingCount |-> PendingChunk(i)],
                   queueBytes + pending.used)
    /\ free' = IF PendingCount > free THEN 0 ELSE free - PendingCount
    /\ copied' = copied + pending.used
    /\ recs' = recs \cup Placed(pending, 0, pending.used, copied)
    /\ pending' = EmptyBuffer
    /\ rpc' = "flushWait"
    /\ UNCHANGED <<seqVars, pauseVars, writerVars, syncVars, crashVars,
                   file, durable, torn, producer, txn, pos, call,
                   marks>>

\* acquire_chunk fails in enqueue_bytes: the chunks obtained so far are
\* released to malloc and the pending bytes stay where they are.
FlushAllocFails ==
    /\ AllocMayFail
    /\ rpc = "flush"
    /\ free < PendingCount
    /\ free' = 0
    /\ rpc' = FlushReturns
    /\ UNCHANGED <<fileVars, seqVars, pauseVars, writerVars, syncVars,
                   crashVars, queue, queueBytes, producer, backpressured,
                   pending, txn, pos, call, marks>>

\* Mutant of WaitOver: the wait does not look at async_error.
WaitOverWhenWritten == written >= Len(ends)

\* The wait for the sequence number just enqueued: it is published, or the
\* writer has failed.
WaitOver == written >= Len(ends) \/ error

FlushReturn ==
    /\ rpc = "flushWait"
    /\ WaitOver
    /\ rpc' = FlushReturns
    /\ UNCHANGED <<fileVars, queueVars, seqVars, pauseVars, writerVars,
                   syncVars, crashVars, pending, txn, pos, call, marks>>

-----------------------------------------------------------------------------
(* The Reactor thread: checkpoint, pause for fork, close *)

\* aof_create_checkpoint: the PING record is a transaction of its own.
CheckpointBegin ==
    /\ rpc = "ready" /\ ~txn.active /\ CanAcceptWrite
    /\ copied + pending.used + TokenSize <= MaxBytes /\ Len(ends) < MaxBegins
    /\ txn' = [active |-> TRUE, used |-> TokenSize, recs |-> {TokenSize}]
    /\ ends' = Append(ends, copied + TokenSize)
    /\ pos' = 0 /\ rpc' = "commit" /\ call' = "checkpoint"
    /\ UNCHANGED <<queueVars, seqVars, pauseVars, writerVars, syncVars,
                   crashVars, file, durable, recs, torn, copied, pending,
                   marks>>

CheckpointQueue ==
    /\ rpc = "ckptQueue"
    /\ QueueProducer
    /\ rpc' = "ckptWait"
    /\ UNCHANGED <<fileVars, seqVars, pauseVars, writerVars, syncVars,
                   crashVars, pending, txn, pos, call, marks>>

CheckpointWritten ==
    /\ rpc = "ckptWait"
    /\ WaitOver
    /\ IF error THEN rpc' = "ready" /\ call' = "request"
                ELSE rpc' = "ckptSync" /\ UNCHANGED call
    /\ UNCHANGED <<fileVars, queueVars, seqVars, pauseVars, writerVars,
                   syncVars, crashVars, pending, txn, pos, marks>>

\* fstat: the checkpoint's offset is the size of the file.  persistence_save
\* goes on to save in this thread (SAVE) or to pause the writer and fork.
CheckpointDone ==
    /\ rpc = "ckptDone"
    /\ marks' = marks \cup {Len(file)}
    /\ call' = "request"
    /\ \/ rpc' = "ready" /\ UNCHANGED pauseReq
       \/ /\ ~pauseReq /\ ~stopping /\ ~error
          /\ pauseReq' = TRUE
          /\ rpc' = "pauseWait"
    /\ UNCHANGED <<fileVars, queueVars, seqVars, writerVars, syncVars,
                   crashVars, paused, stopping, pending, txn, pos>>

\* Mutant of PauseOver: the caller does not wait for the writer.
PauseOverAtOnce == TRUE

\* The wait of aof_pause_for_fork ends when the writer is parked or has failed.
PauseOver == paused \/ error

PauseReturn ==
    /\ rpc = "pauseWait"
    /\ PauseOver
    /\ IF error THEN pauseReq' = FALSE /\ rpc' = "ready"
                ELSE rpc' = "fork" /\ UNCHANGED pauseReq
    /\ UNCHANGED <<fileVars, queueVars, seqVars, writerVars, syncVars,
                   crashVars, paused, stopping, pending, txn, pos, call,
                   marks>>

ResumeAfterFork ==
    /\ rpc = "fork"
    /\ pauseReq' = FALSE
    /\ rpc' = "ready"
    /\ UNCHANGED <<fileVars, queueVars, seqVars, writerVars, syncVars,
                   crashVars, paused, stopping, pending, txn, pos, call,
                   marks>>

CloseBegin ==
    /\ rpc = "ready"
    /\ txn' = Idle
    /\ rpc' = "closing" /\ call' = "close"
    /\ UNCHANGED <<fileVars, queueVars, seqVars, pauseVars, writerVars,
                   syncVars, crashVars, pending, pos, marks>>

CloseStop ==
    /\ rpc = "stop"
    /\ stopping' = TRUE
    /\ rpc' = "join"
    /\ UNCHANGED <<fileVars, queueVars, seqVars, writerVars, syncVars,
                   crashVars, pauseReq, paused, pending, txn, pos, call,
                   marks>>

CloseJoin ==
    /\ rpc = "join" /\ wpc = "exit"
    /\ rpc' = "closed"
    /\ UNCHANGED <<fileVars, queueVars, seqVars, pauseVars, writerVars,
                   syncVars, crashVars, pending, txn, pos, call, marks>>

-----------------------------------------------------------------------------
(* The writer thread *)

\* The inner pause loop of writer_main holds it at the condition variable.
HeldByPause == pauseReq /\ ~stopping

WriterPause ==
    /\ wpc = "loop" /\ HeldByPause /\ ~paused
    /\ paused' = TRUE
    /\ UNCHANGED <<fileVars, queueVars, seqVars, prodVars, writerVars,
                   syncVars, crashVars, pauseReq, stopping>>

WriterResume ==
    /\ wpc = "loop" /\ ~HeldByPause /\ paused
    /\ queue = <<>> /\ ~stopping
    /\ paused' = FALSE
    /\ UNCHANGED <<fileVars, queueVars, seqVars, prodVars, writerVars,
                   syncVars, crashVars, pauseReq, stopping>>

\* The sequence that a periodic or final sync covers.
SyncTarget == written

\* everysec: pthread_cond_timedwait times out on an empty queue.
WriterTimeout ==
    /\ Policy = "everysec"
    /\ wpc = "loop" /\ ~HeldByPause /\ ~paused
    /\ queue = <<>> /\ ~stopping
    /\ target' = SyncTarget
    /\ wpc' = "syncIdle"
    /\ UNCHANGED <<fileVars, queueVars, seqVars, prodVars, pauseVars,
                   syncVars, crashVars, iov, full, part>>

\* Mutants of LeaveLoop: no final sync; a failed writev is tried again.
LeaveLoopUnsynced == wpc' = "exit" /\ UNCHANGED target

LeaveLoopRetry == wpc' = (IF stopping THEN "exit" ELSE "loop") /\ UNCHANGED target

\* Where the writer goes when it leaves its outer loop.
LeaveLoop ==
    IF Policy = "everysec"
    THEN wpc' = "syncLast" /\ target' = SyncTarget
    ELSE wpc' = "exit" /\ UNCHANGED target

WriterStop ==
    /\ wpc = "loop" /\ stopping /\ queue = <<>>
    /\ paused' = FALSE
    /\ LeaveLoop
    /\ UNCHANGED <<fileVars, queueVars, seqVars, prodVars, syncVars,
                   crashVars, pauseReq, stopping, iov, full, part>>

WriterGather ==
    /\ wpc = "loop" /\ ~HeldByPause /\ queue # <<>>
    /\ paused' = FALSE
    /\ wpc' = "writev"
    /\ iov' = Least(Len(queue), WritevMax)
    /\ full' = 0 /\ part' = 0
    /\ UNCHANGED <<fileVars, queueVars, seqVars, prodVars, syncVars,
                   crashVars, pauseReq, stopping, target>>

\* writev copies the gathered chunks in order; a signal, a full disk or a
\* crash may end it after any byte.
WritevChunk ==
    LET chunk == queue[full + 1]
        left  == chunk.length - chunk.offset
    IN
    /\ wpc = "writev" /\ full < iov /\ part = 0
    /\ \E n \in 1..left :
        /\ file' = file \o [i \in 1..n |-> chunk.first + chunk.offset + i]
        /\ IF n = left THEN full' = full + 1 /\ UNCHANGED part
                       ELSE part' = n /\ UNCHANGED full
    /\ UNCHANGED <<queueVars, seqVars, prodVars, pauseVars, syncVars,
                   crashVars, durable, recs, torn, copied, ends, wpc,
                   iov, target>>

WritevFails ==
    /\ IoMayFail
    /\ wpc = "writev" /\ full = 0 /\ part = 0
    /\ error' = TRUE
    /\ LeaveLoop
    /\ iov' = 0
    /\ UNCHANGED <<fileVars, queueVars, prodVars, pauseVars, syncVars,
                   crashVars, written, synced, promised, full, part>>

\* Mutant of CompletedSequence: sequence_end is not looked at.
CompletedSequenceEager == IF full = 0 THEN 0 ELSE queue[full].sequence

\* completed_sequence of consume_written: the sequence of the last chunk
\* written completely that ends a transaction.
CompletedSequence ==
    IF \E i \in 1..full : queue[i].end
    THEN LET last == CHOOSE i \in 1..full :
                        /\ queue[i].end
                        /\ \A j \in (i + 1)..full : ~queue[j].end
         IN queue[last].sequence
    ELSE 0

\* Mutant of Consumed: a partial write does not move the chunk's offset.
ConsumedWhole == SubSeq(queue, full + 1, Len(queue))

\* The queue after consume_written.
Consumed ==
    LET rest == SubSeq(queue, full + 1, Len(queue))
    IN IF part = 0 THEN rest
       ELSE [rest EXCEPT ![1].offset = @ + part]

\* Mutant of Transferred: counts the whole chunk again after a partial write.
TransferredWhole ==
    IF full < Len(queue)
    THEN queue[full + 1].first + queue[full + 1].offset + part
         - queue[1].first
    ELSE queue[full].first + queue[full].length - queue[1].first

\* The bytes that the writev in progress has written.
Transferred ==
    IF full < Len(queue)
    THEN queue[full + 1].first + queue[full + 1].offset + part
         - (queue[1].first + queue[1].offset)
    ELSE queueBytes

\* A sequence number becomes visible to the Reactor: replies up to it may go.
Publish(n) ==
    /\ written' = Greatest(written, n)
    /\ promised' = IF n > written THEN Greatest(promised, ends[n])
                                  ELSE promised

\* The critical section after writev.  everysec may find its deadline reached.
ConsumeWritten ==
    LET done == CompletedSequence
        left == queueBytes - Transferred
    IN
    /\ wpc = "writev" /\ full + part > 0
    /\ queue' = Consumed
    /\ queueBytes' = left
    /\ backpressured' = (backpressured /\ left > LowWater)
    /\ free' = free + full
    /\ IF Policy = "always"
       THEN /\ wpc' = IF done = 0 THEN "loop" ELSE "syncAlways"
            /\ target' = done
            /\ UNCHANGED <<written, promised>>
       ELSE /\ Publish(done)
            /\ \/ wpc' = "loop" /\ UNCHANGED target
               \/ /\ Policy = "everysec"
                  /\ wpc' = "syncIdle"
                  /\ target' = written'
    /\ iov' = 0 /\ full' = 0 /\ part' = 0
    /\ UNCHANGED <<fileVars, prodVars, pauseVars, syncVars, crashVars,
                   producer, synced, error>>

\* always: the sequence is published only after its fdatasync.
PublishAlways ==
    /\ wpc = "publish"
    /\ Publish(target)
    /\ target' = 0
    /\ wpc' = "loop"
    /\ UNCHANGED <<fileVars, queueVars, prodVars, pauseVars, syncVars,
                   crashVars, synced, error, iov, full, part>>

-----------------------------------------------------------------------------
(* sync_written, called by the writer and by aof_create_checkpoint *)

\* Mutant of NothingToSync: compares with the wrong counter.
NothingToSyncEnqueued(n) == n <= Len(ends)

\* sync_written returns at once when its target is already synced.
NothingToSync(n) == n <= synced

\* Where the writer continues after a successful sync.
WriterSynced ==
    /\ wpc' = CASE wpc = "syncAlways" -> "publish"
                [] wpc = "syncIdle" -> "loop"
                [] wpc = "syncLast" -> "exit"
    /\ target' = IF wpc = "syncAlways" THEN target ELSE 0

\* Take sync_mutex and call fdatasync.
WriterSyncStart ==
    /\ wpc \in {"syncAlways", "syncIdle", "syncLast"} /\ syncer = "none"
    /\ IF NothingToSync(target)
       THEN WriterSynced /\ UNCHANGED <<syncer, syncLen>>
       ELSE syncer' = "writer" /\ syncLen' = Len(file)
            /\ UNCHANGED <<wpc, target>>
    /\ UNCHANGED <<fileVars, queueVars, seqVars, prodVars, pauseVars,
                   crashVars, iov, full, part>>

WriterSyncDone ==
    /\ syncer = "writer"
    /\ \/ /\ durable' = Greatest(durable, syncLen)
          /\ synced' = Greatest(synced, target)
          /\ WriterSynced
          /\ UNCHANGED error
       \/ /\ IoMayFail
          /\ error' = TRUE
          /\ wpc' = "exit" /\ target' = 0
          /\ UNCHANGED <<durable, synced>>
    /\ syncer' = "none" /\ syncLen' = 0
    /\ UNCHANGED <<queueVars, prodVars, pauseVars, crashVars, file, recs,
                   torn, copied, ends, written, promised, iov, full, part>>

\* aof_create_checkpoint syncs the sequence of its own record, the last one.
CheckpointSyncStart ==
    /\ rpc = "ckptSync" /\ syncer = "none"
    /\ IF NothingToSync(Len(ends))
       THEN rpc' = "ckptDone" /\ UNCHANGED <<syncer, syncLen>>
       ELSE syncer' = "reactor" /\ syncLen' = Len(file) /\ UNCHANGED rpc
    /\ UNCHANGED <<fileVars, queueVars, seqVars, pauseVars, writerVars,
                   crashVars, pending, txn, pos, call,
                   marks>>

\* A failed fdatasync fails the checkpoint; it is not published as an error.
CheckpointSyncDone ==
    /\ syncer = "reactor"
    /\ \/ /\ durable' = Greatest(durable, syncLen)
          /\ synced' = Greatest(synced, Len(ends))
          /\ rpc' = "ckptDone"
          /\ UNCHANGED call
       \/ /\ IoMayFail
          /\ rpc' = "ready" /\ call' = "request"
          /\ UNCHANGED <<durable, synced>>
    /\ syncer' = "none" /\ syncLen' = 0
    /\ UNCHANGED <<queueVars, pauseVars, writerVars, crashVars, file, recs,
                   torn, copied, ends, written, error, promised, pending,
                   txn, pos, marks>>

-----------------------------------------------------------------------------
(* Crash and restart *)

\* What a process loses when it ends: everything but the file.
ForgetMemory ==
    /\ ends' = <<>>
    /\ queue' = <<>> /\ queueBytes' = 0 /\ producer' = NoChunk /\ free' = 0
    /\ backpressured' = FALSE
    /\ written' = 0 /\ synced' = 0 /\ error' = FALSE
    /\ pending' = EmptyBuffer /\ txn' = Idle /\ pos' = 0 /\ call' = "request"
    /\ pauseReq' = FALSE /\ paused' = FALSE /\ stopping' = FALSE
    /\ iov' = 0 /\ full' = 0 /\ part' = 0 /\ target' = 0
    /\ syncer' = "none" /\ syncLen' = 0

\* The process is killed, or the machine loses power and with it any suffix
\* of the file that no fdatasync has covered.
Crash ==
    /\ crashes < MaxCrashes
    /\ rpc # "closed"
    /\ \E keep \in durable..Len(file) :
        /\ file' = SubSeq(file, 1, keep)
        /\ powerLost' = (powerLost \/ keep < Len(file))
    /\ crashes' = crashes + 1
    /\ ForgetMemory
    /\ rpc' = "closed" /\ wpc' = "exit"
    /\ UNCHANGED <<durable, recs, torn, copied, promised, marks>>

\* Mutant of RecordBefore: the last record is cut off even when complete.
RecordBeforeShort(n) ==
    LET ended == {0} \cup {r \in recs : r < n}
    IN CHOOSE e \in ended : \A m \in ended : m <= e

\* The end of the last record that ends at or before byte n.
RecordBefore(n) ==
    LET ended == {0} \cup {r \in recs : r <= n}
    IN CHOOSE e \in ended : \A m \in ended : m <= e

\* The records cut short that a start finds when it reads from byte from on,
\* with other bytes behind them.
TornAhead(from) == {t \in torn : from < t /\ t < Len(file)}

FirstTorn(from) ==
    CHOOSE t \in TornAhead(from) : \A u \in TornAhead(from) : t <= u

\* The file that a start leaves: its first sound bytes are the records that
\* were written, and what follows them, if anything, was read as one more.
Reopen(sound, keep) ==
    /\ file' = SubSeq(file, 1, keep)
    /\ durable' = Least(durable, keep)
    /\ recs' = {r \in recs : r <= sound} \cup ({keep} \ {0})
    /\ torn' = {t \in torn : t <= sound}
    /\ copied' = keep

\* aof_replay_from finds whole records, and cuts an incomplete one off the end.
ReplayWhole ==
    /\ Reopen(RecordBefore(Len(file)), RecordBefore(Len(file)))
    /\ UNCHANGED <<marks, promised>>

\* aof_replay_from comes to a record that was cut short.  The parser takes the
\* bytes behind it for the rest of the record.  When the file has not enough of
\* them the frame is incomplete, and the file is cut off before it, whatever
\* follows; when a line end happens to be where the parser looks for it, the
\* record swallows the bytes up to there and the reading goes on.  Replies and
\* checkpoints that rest on bytes behind the torn record are lost.
ReplayTorn(from) ==
    LET sound == RecordBefore(FirstTorn(from)) IN
    /\ \E keep \in {sound} \cup (FirstTorn(from) + 1)..Len(file) :
        Reopen(sound, keep)
    /\ marks' = {m \in marks : m <= sound}
    /\ promised' = Least(promised, sound)

\* A start: aof_open, then aof_replay_from at the offset of an RDB file, or at
\* 0 when there is none or scan_mysql_aof reads the file.
Restart ==
    /\ rpc = "closed" /\ wpc = "exit"
    /\ \E from \in {0} \cup marks :
        IF TornAhead(from) = {} THEN ReplayWhole ELSE ReplayTorn(from)
    /\ ForgetMemory
    /\ rpc' = "ready" /\ wpc' = "loop"
    /\ UNCHANGED crashVars

\* What follows a record that was cut short is no record (RESP_PARSE_ERROR):
\* the start fails and leaves everything as it is.
RestartRefused ==
    /\ rpc = "closed" /\ wpc = "exit"
    /\ \E from \in {0} \cup marks : TornAhead(from) # {}
    /\ UNCHANGED vars

-----------------------------------------------------------------------------
Writer ==
    \/ WriterPause \/ WriterResume \/ WriterStop \/ WriterGather
    \/ WritevChunk \/ ConsumeWritten \/ PublishAlways
    \/ WriterSyncStart \/ WriterSyncDone

ReactorWaits ==
    \/ CommitCopy \/ FlushPending \/ FlushReturn
    \/ CheckpointQueue \/ CheckpointWritten
    \/ CheckpointSyncStart \/ CheckpointSyncDone \/ CheckpointDone
    \/ PauseReturn \/ ResumeAfterFork
    \/ CloseStop \/ CloseJoin
    \/ rpc = "closing" /\ Flush

Next ==
    \/ TransactionBegin \/ TransactionRollback \/ TransactionCommit
    \/ \E size \in RecordSizes : AofAppend(size)
    \/ CommitAllocFails \/ FlushAllocFails
    \/ Flush \/ CheckpointBegin \/ CloseBegin
    \/ ReactorWaits
    \/ Writer \/ WriterTimeout \/ WritevFails
    \/ Crash \/ Restart \/ RestartRefused

Spec == Init /\ [][Next]_vars

\* The operating system schedules both threads; a call the Reactor thread has
\* entered runs on, a request closes its transaction, and reactor_run flushes
\* after every batch of events, which is finite.
FairSpec ==
    /\ Spec
    /\ WF_vars(Writer)
    /\ WF_vars(ReactorWaits)
    /\ WF_vars(TransactionCommit \/ TransactionRollback)
    /\ SF_vars(Flush)

-----------------------------------------------------------------------------
(* Properties *)

FileTypeOK ==
    /\ file \in Seq(Nat) /\ durable \in Nat
    /\ recs \in SUBSET Nat /\ torn \in SUBSET Nat
    /\ copied \in Nat /\ ends \in Seq(Nat)

QueueTypeOK ==
    /\ queue \in Seq(Chunk) /\ queueBytes \in Nat /\ producer \in Chunk
    /\ free \in Nat /\ backpressured \in BOOLEAN

SequenceTypeOK ==
    /\ written \in Nat /\ synced \in Nat /\ promised \in Nat
    /\ error \in BOOLEAN

BufferTypeOK ==
    /\ pending \in Buffer
    /\ txn \in [active: BOOLEAN, used: Nat, recs: SUBSET Nat]
    /\ pos \in Nat /\ marks \in SUBSET Nat

ThreadTypeOK ==
    /\ rpc \in {"ready", "commit", "flush", "flushWait", "ckptQueue",
                "ckptWait", "ckptSync", "ckptDone", "pauseWait", "fork",
                "closing", "stop", "join", "closed"}
    /\ call \in {"request", "checkpoint", "close"}
    /\ wpc \in {"loop", "writev", "syncAlways", "syncIdle", "syncLast",
                "publish", "exit"}
    /\ syncer \in {"none", "writer", "reactor"}
    /\ pauseReq \in BOOLEAN /\ paused \in BOOLEAN /\ stopping \in BOOLEAN

WriterTypeOK ==
    /\ iov \in Nat /\ full \in Nat /\ part \in Nat
    /\ target \in Nat /\ syncLen \in Nat

CrashTypeOK == powerLost \in BOOLEAN /\ crashes \in Nat

\* The variables of aof_t, the file and the two threads keep their types;
\* queue_bytes in particular never drops below zero, however writev splits
\* the chunks.
TypeOK ==
    /\ FileTypeOK /\ QueueTypeOK /\ SequenceTypeOK /\ BufferTypeOK
    /\ ThreadTypeOK /\ WriterTypeOK /\ CrashTypeOK

\* Chunks reach the file completely, once and in the order they were filled,
\* however writev splits them.
FileInOrder == \A i \in 1..Len(file) : file[i] = i

WrittenInFile ==
    /\ written <= Len(ends)
    /\ \A n \in 1..written : ends[n] <= Len(file)

SyncedIsDurable ==
    /\ synced <= Len(ends)
    /\ \A n \in 1..synced : ends[n] <= durable
    /\ Policy = "always" => written <= synced

\* A sequence number that aof_sequence_ready accepts stands for transactions
\* whose last byte is in the file: no chunk boundary, partial writev or merge
\* of several transactions in a chunk publishes it early.  synced_sequence
\* never runs ahead of what an fdatasync has covered, with two threads calling
\* sync_written; under "always" nothing is published before it is synced.
NumbersCovered == WrittenInFile /\ SyncedIsDurable

\* No record is cut short unless an allocation may fail.
TornNeedsFailure == torn # {} => AllocMayFail

\* A transaction whose reply could be sent is still in the file after crashes
\* and the tail repair of aof_replay_from: always when the process is killed,
\* and under "always" when the machine loses power.  The one exception is a
\* start that reads over a record which a failed allocation cut short: it may
\* lose every reply behind that record (ReplayTorn takes them out of promised).
AckedSurvives ==
    /\ TornNeedsFailure
    /\ Policy = "always" \/ ~powerLost => promised <= Len(file)

\* Between aof_pause_for_fork and aof_resume_after_fork the writer is at its
\* condition variable: not in writev, not in fdatasync, not holding sync_mutex.
ForkFindsWriterParked == rpc = "fork" => wpc = "loop" /\ syncer = "none"

\* The backpressure flag and the queue agree with the two water marks, so a
\* queue that has drained always accepts writes again.
BackpressureHysteresis ==
    rpc # "closed" =>
        /\ backpressured => queueBytes > LowWater
        /\ ~backpressured => queueBytes < HighWater

\* The offset that an RDB file records, of the last save or of an earlier one,
\* is the end of a complete record and is durable in the AOF, whatever crashes
\* follow.  A start that reads over a record which a failed allocation cut short
\* may lose the offsets behind it.
CheckpointIsDurable == \A m \in marks : m <= durable /\ m \in recs

\* aof_close without an error has written every byte, and synced every
\* transaction unless the policy is "no".
CloseLosesNothing ==
    rpc = "closed" /\ stopping /\ ~error =>
        /\ Len(file) = copied
        /\ Policy # "no" => \A n \in 1..Len(ends) : ends[n] <= durable

\* Once an error is published the writer appends nothing more, so the file
\* ends where the failed writev left it.
NoWriteAfterError == [][error => Len(file') <= Len(file)]_vars

\* Every committed transaction is eventually published, or the error is: time
\* and again the writer has caught up with the commits, although chunks are
\* queued half full, the queue is cut by crashes and the writer is paused.
CaughtUp == []<>(written >= Len(ends) \/ error \/ rpc = "closed")

\* No call blocks the Reactor thread for ever, even when the writer dies
\* under it.
CallsReturn == rpc \notin {"ready", "closed"} ~> rpc \in {"ready", "closed"}

\* docs/v0.6.1-memory-aof.md:21: all records of a command enter the queue
\* together at commit; no record is cut short with others behind it.
RecordsStayWhole == \A t \in torn : t >= copied

\* No start takes back a reply: what was promised once stays promised.
RepliesNotTakenBack == [][promised' >= promised]_vars

=============================================================================
