---------------------------- MODULE AofInvariant ----------------------------
(***************************************************************************)
(* The inductive invariant of Aof: how the chunk queue, the producer chunk *)
(* and the writev in progress tile the byte stream, and how the program    *)
(* counters of the two threads exclude each other.  AofProofs proves that  *)
(* every step keeps it.                                                    *)
(***************************************************************************)
EXTENDS Aof

\* The first byte position that the queue does not hold.
QueueEnd == IF producer.length = 0 THEN copied ELSE producer.first

\* The byte position up to which the writer has consumed the queue.
QueueStart ==
    IF queue = <<>> THEN QueueEnd ELSE queue[1].first + queue[1].offset

\* The byte position up to which the writer has called writev successfully.
WritePosition ==
    IF full < Len(queue)
    THEN queue[full + 1].first + queue[full + 1].offset + part
    ELSE QueueEnd

\* Queued chunks are adjacent intervals that end where the producer begins;
\* only the first one may be partly written.
QueueTiles ==
    /\ \A i \in 1..Len(queue) :
        /\ queue[i].offset < queue[i].length
        /\ i > 1 => queue[i].offset = 0
        /\ queue[i].first + queue[i].length <= QueueEnd
        /\ i < Len(queue) =>
            queue[i + 1].first = queue[i].first + queue[i].length
        /\ i = Len(queue) => queue[i].first + queue[i].length = QueueEnd
    /\ \A i, j \in 1..Len(queue) :
        i < j => queue[i].first + queue[i].length <= queue[j].first

\* queue_bytes counts exactly the bytes that are queued and not consumed.
QueueCounted == QueueStart + queueBytes = QueueEnd

\* The producer chunk is the end of the copied bytes and never full.
ProducerTiles ==
    producer.length > 0 =>
        /\ producer.offset = 0
        /\ producer.first + producer.length = copied
        /\ producer.length < ChunkCapacity

\* The writev in progress stays inside the chunks it gathered.
WritevInside ==
    /\ full <= iov /\ iov <= Len(queue)
    /\ wpc # "writev" => full = 0 /\ part = 0
    /\ part > 0 =>
        /\ full < iov
        /\ part < queue[full + 1].length - queue[full + 1].offset

\* Chunks and counters only name sequence numbers that were assigned.
SequencesAssigned ==
    /\ \A i \in 1..Len(queue) : queue[i].sequence <= Len(ends)
    /\ producer.sequence <= Len(ends)
    /\ written <= Len(ends) /\ target <= Len(ends)

\* While the process runs, the file ends where the writer is in the queue.
FileFollowsQueue == rpc # "closed" => Len(file) = WritePosition

\* What the Reactor thread's program counter says about its buffers.
ReactorAgrees ==
    /\ rpc = "commit" => txn.active /\ pos < txn.used /\ Len(ends) > 0
    /\ rpc = "flush" => pending.used > 0 /\ producer.length = 0

\* What the program counters and flags of the two threads say about each
\* other: the writer waits while the Reactor forks, and nobody holds
\* sync_mutex outside sync_written.
ThreadsAgree ==
    /\ rpc \in {"pauseWait", "fork"} => pauseReq
    /\ rpc = "fork" => paused
    /\ rpc = "closed" => wpc = "exit"
    /\ stopping => rpc \in {"join", "closed"}
    /\ paused => wpc = "loop"
    /\ syncer = "writer" => wpc \in {"syncAlways", "syncIdle", "syncLast"}
    /\ syncer = "reactor" => rpc = "ckptSync"
    /\ error => wpc \in {"syncLast", "exit"}

\* The byte stream is tiled by the file, the queue and the producer chunk, and
\* the two threads are where their shared flags say.
StreamTiled ==
    /\ TypeOK
    /\ QueueTiles
    /\ QueueCounted
    /\ ProducerTiles
    /\ WritevInside
    /\ SequencesAssigned
    /\ FileFollowsQueue
    /\ FileInOrder
    /\ ReactorAgrees
    /\ ThreadsAgree
    /\ BackpressureHysteresis

-----------------------------------------------------------------------------
(* The second layer: which bytes the sequence numbers stand for *)

\* The last number whose transaction is completely in the chunks: that of an
\* open commit is assigned and not yet there.
Committed == IF rpc = "commit" THEN Len(ends) - 1 ELSE Len(ends)

\* The transactions up to number n end at or before byte length.
EndBy(n, length) == \A m \in 1..n : ends[m] <= length

\* A committed transaction ends with a record that is in the chunks; the open
\* one will end where its remaining bytes do.  (A failed allocation gives a
\* number the end of its predecessor, or 0.)
EndsAreRecords ==
    /\ \A n \in 1..Committed : ends[n] <= copied /\ ends[n] \in recs \cup {0}
    /\ rpc = "commit" => ends[Len(ends)] = copied + (txn.used - pos)

\* What is buffered ends with a record, and records lie in the copied bytes.
BuffersEndRecords ==
    /\ txn.used > 0 => txn.used \in txn.recs
    /\ pending.used > 0 => pending.used \in pending.recs
    /\ \A r \in recs : r <= copied

\* A chunk that ends a sequence number holds the last byte of every
\* transaction up to it, and no chunk ends the number of an open commit.
ChunksCover ==
    /\ \A i \in 1..Len(queue) : queue[i].end =>
        /\ queue[i].sequence <= Committed
        /\ EndBy(queue[i].sequence, queue[i].first + queue[i].length)
    /\ producer.end => producer.sequence <= Committed

\* What the counters stand for: published numbers are in the file, so is
\* the number the writer is about to sync or publish, and synced numbers are
\* on the disk.
CountersCover ==
    /\ written <= Committed /\ EndBy(written, Len(file))
    /\ target <= Committed /\ EndBy(target, Len(file))
    /\ synced <= Committed /\ EndBy(synced, durable)
    /\ Policy = "always" => written <= synced
    /\ wpc = "publish" => target <= synced

\* The fdatasync in progress covers the number it was called for, and no
\* more of the file than there is is durable.
SyncCovers ==
    /\ durable <= Len(file)
    /\ syncLen <= Len(file)
    /\ syncer = "writer" => EndBy(target, syncLen)
    /\ syncer = "reactor" => EndBy(Len(ends), syncLen)

\* A reply that was allowed stands for a record that is in the file, under
\* "always" on the disk, unless power was lost under a weaker policy.
PromisesKept ==
    Policy = "always" \/ ~powerLost =>
        /\ promised \in recs \cup {0}
        /\ promised <= Len(file)
        /\ Policy = "always" => promised <= durable

\* While a checkpoint is taken its record is the last one, and it is queued,
\* published and synced in that order.
CheckpointAgrees ==
    /\ rpc \in {"ckptQueue", "ckptWait", "ckptSync", "ckptDone"} =>
        Len(ends) > 0 /\ ends[Len(ends)] = copied /\ copied > 0
    /\ rpc \in {"ckptWait", "ckptSync", "ckptDone"} => producer.length = 0
    /\ rpc = "ckptSync" => written = Len(ends)
    /\ rpc = "ckptDone" => synced = Len(ends)

\* Published, synced and promised numbers stand for bytes that are where they
\* should be, through every crash and restart.
NumbersKept ==
    /\ EndsAreRecords
    /\ BuffersEndRecords
    /\ ChunksCover
    /\ CountersCover
    /\ SyncCovers
    /\ TornNeedsFailure
    /\ PromisesKept
    /\ CheckpointAgrees
    /\ CheckpointIsDurable

-----------------------------------------------------------------------------
(* The third layer: nothing committed stays behind when the file is closed *)

\* The last chunk of the queue that ends a number ends number n.
LastQueued(n) ==
    \E i \in 1..Len(queue) :
        /\ queue[i].end /\ queue[i].sequence = n
        /\ \A j \in (i + 1)..Len(queue) : ~queue[j].end

\* The last committed number is published, or on its way: with the producer,
\* in the queue or with the writer.
LastOnItsWay ==
    rpc # "commit" =>
        IF producer.length > 0
        THEN producer.end /\ producer.sequence = Len(ends)
        ELSE \/ error
             \/ written = Len(ends)
             \/ wpc \in {"syncAlways", "publish"} /\ target = Len(ends)
             \/ LastQueued(Len(ends))

\* When the writer leaves its loop without an error, it was asked to stop and
\* has emptied the queue.
WriterLeavesLast ==
    /\ rpc \in {"flush", "flushWait", "stop", "join"} => producer.length = 0
    /\ rpc = "closed" /\ stopping => producer.length = 0
    /\ wpc \in {"syncLast", "exit"} /\ ~error /\ rpc # "closed" => stopping
    /\ wpc = "syncLast" => Policy = "everysec"
    /\ wpc \in {"syncLast", "exit"} /\ ~error /\ stopping =>
        /\ queue = <<>> /\ written = Len(ends)
        /\ wpc = "syncLast" => target = written
        /\ wpc = "exit" /\ Policy = "everysec" => synced = written
    /\ rpc = "closed" /\ stopping /\ ~error => Len(file) = copied

\* Everything committed has a place from which it reaches the disk before
\* aof_close returns.
NothingStaysBehind == LastOnItsWay /\ WriterLeavesLast

-----------------------------------------------------------------------------
(* The contract that the Reactor relies on *)

Contract == INSTANCE AofContract WITH enqueued <- Len(ends), failed <- error

\* aof.c keeps the contract of AofContract: whatever the chunks, the writevs
\* and the syncs do, the Reactor sees numbers that are assigned one by one and
\* published in order, and none is published once the error is.
KeepsContract == Contract!Spec

=============================================================================
