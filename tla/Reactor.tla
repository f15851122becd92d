------------------------------ MODULE Reactor ------------------------------
(***************************************************************************)
(* The epoll loop of src/net/reactor.c with the handlers that main.c gives *)
(* it: requests run in the Reactor thread, replies to writes wait for the  *)
(* AOF's published sequence number, a cache miss is answered later by the  *)
(* MySQL threads.  The AOF is the one of AofContract.                      *)
(*                                                                         *)
(* A connection is named by its connection_id, which is never used twice.  *)
(* Its requests are numbered; a reply is the number of its request with    *)
(* the AOF sequence it needs.  Buffers are counted in requests and         *)
(* replies.  One step is one event of the batch, or the part of it between *)
(* two points where another thread or a client may move.                   *)
(***************************************************************************)
EXTENDS Naturals, Sequences, FiniteSets

CONSTANTS
    Conns,           \* connection_ids that may be accepted
    Serial,          \* connections whose client waits for each reply
    Kinds,           \* what clients send, see Requests
    OutputHighWater, \* REACTOR_OUTPUT_HIGH_WATER, in replies
    MaxRequests,     \* bound: requests of all connections together
    MaxLeaving,      \* bound: half-closes and hang-ups
    MayFail,         \* may the AOF writer fail
    MayEvict         \* may storing a loaded object evict another one

\* Requests by what dispatch_request does with them: answer from the cache,
\* log a write, wait for a load and then do either, or refuse and close.
Misses == {"missRead", "missWrite"}

Requests == {"read", "write", "bad"} \cup Misses

ASSUME ReactorAssumption ==
    /\ IsFiniteSet(Conns) /\ Serial \subseteq Conns
    /\ Conns \cap {"none", "wake", "listener", "timer"} = {}
    /\ Kinds \subseteq Requests
    /\ OutputHighWater \in Nat \ {0} /\ MaxRequests \in Nat
    /\ MaxLeaving \in Nat
    /\ MayFail \in BOOLEAN /\ MayEvict \in BOOLEAN

VARIABLES
    conn,       \* reactor->clients, see Connection
    requests,   \* what each client has sent
    received,   \* the replies that send has handed to the kernel
    shut,       \* clients that have closed their sending direction
    reset,      \* clients that are gone (EPOLLHUP)
    pc,         \* where the Reactor thread is
    batch,      \* events of this epoll_wait that are not handled yet
    current,    \* the connection whose EPOLLOUT is in hand
    draining,   \* load results that the async handler has taken
    enqueued, written, failed,  \* the AOF, see AofContract
    flushed,    \* sequence up to which aof_flush has queued the chunks
    evicted,    \* aof->pending holds the DEL of an eviction
    reported,   \* aof_flush_failure_reported
    owed,       \* the writer has published and not yet notified
    wake,       \* the eventfd is readable
    loading,    \* connections with a load in MySQL
    loaded      \* connections whose load has a result

clientVars == <<requests, shut, reset>>
loopVars == <<pc, batch, current, draining>>
sequenceVars == <<enqueued, written, failed>>
flushVars == <<flushed, evicted, reported>>
wakeVars == <<owed, wake>>
loadVars == <<loading, loaded>>
vars == <<conn, received, clientVars, loopVars, sequenceVars, flushVars,
          wakeVars, loadVars>>

Log == INSTANCE AofContract

-----------------------------------------------------------------------------
(* Connections *)

Reply == [request: Nat, barrier: Nat]

\* taken counts the requests that recv has moved to the input buffer and
\* consumed those that the handler has taken from it.
Connection ==
    [state: {"new", "backlog", "open", "closed"}, taken: Nat, consumed: Nat,
     output: Seq(Reply), barrier: Nat, deferred: BOOLEAN, peerEof: BOOLEAN,
     closing: BOOLEAN, interest: SUBSET {"in", "out"}]

\* source_create, client_create
NewConnection ==
    [state |-> "new", taken |-> 0, consumed |-> 0, output |-> <<>>,
     barrier |-> 0, deferred |-> FALSE, peerEof |-> FALSE,
     closing |-> FALSE, interest |-> {}]

\* connection_destroy
Destroyed(k) ==
    [k EXCEPT !.state = "closed", !.output = <<>>, !.interest = {}]

Open == {c \in Conns : conn[c].state = "open"}

Least(a, b) == IF a < b THEN a ELSE b

Greatest(a, b) == IF a > b THEN a ELSE b

\* aof_sequence_ready
BarrierReady(n) == written >= n

\* Mutant of Refreshed: EPOLLOUT does not look at the barrier.
RefreshedEagerly(k) ==
    [k EXCEPT !.interest =
        {e \in {"in", "out"} :
            \/ e = "out" /\ k.output # <<>>
            \/ /\ e = "in"
               /\ ~k.peerEof /\ ~k.closing /\ ~k.deferred
               /\ Len(k.output) < OutputHighWater}]

\* refresh_client_events
Refreshed(k) ==
    [k EXCEPT !.interest =
        {e \in {"in", "out"} :
            \/ e = "out" /\ k.output # <<>> /\ BarrierReady(k.barrier)
            \/ /\ e = "in"
               /\ ~k.peerEof /\ ~k.closing /\ ~k.deferred
               /\ Len(k.output) < OutputHighWater}]

\* Mutant of Ahead: a deferred request does not hold back the next ones.
AheadOfDeferred(c, k) ==
    {n \in (k.consumed + 1)..k.taken :
        /\ ~k.closing
        /\ Len(k.output) + (n - k.consumed) <= OutputHighWater
        /\ \A m \in (k.consumed + 1)..(n - 1) : requests[c][m] # "bad"}

\* The requests that one process_input consumes: it stops at an empty input,
\* a full output, a request that is deferred and one that closes.
Ahead(c, k) ==
    {n \in (k.consumed + 1)..k.taken :
        /\ ~k.closing /\ ~k.deferred
        /\ Len(k.output) + (n - k.consumed) <= OutputHighWater
        /\ \A m \in (k.consumed + 1)..(n - 1) :
                requests[c][m] \notin Misses \cup {"bad"}}

\* Those that commit a transaction; a failed AOF refuses writes.
Logged(c, k) == {n \in Ahead(c, k) : requests[c][n] = "write" /\ ~failed}

\* process_input, with the AOF at sequence number seq: replies go to the
\* output, the barrier to the largest sequence number, a miss to MySQL.
\* A protocol error consumes and drops the whole input.
Processed(c, k, seq) ==
    LET ahead   == Ahead(c, k)
        last    == k.consumed + Cardinality(ahead)
        Ends(S) == ahead # {} /\ requests[c][last] \in S
        Number(n) == IF n \notin Logged(c, k) THEN 0
                     ELSE seq + Cardinality({m \in Logged(c, k) : m <= n})
        answered == IF Ends(Misses) THEN Cardinality(ahead) - 1
                                    ELSE Cardinality(ahead)
    IN [k EXCEPT
            !.consumed = IF Ends({"bad"}) THEN k.taken ELSE last,
            !.output = @ \o [i \in 1..answered |->
                                [request |-> k.consumed + i,
                                 barrier |-> Number(k.consumed + i)]],
            !.barrier = IF Logged(c, k) = {} THEN @
                        ELSE Greatest(@, seq + Cardinality(Logged(c, k))),
            !.deferred = @ \/ Ends(Misses),
            !.closing = @ \/ Ends({"bad"})]

\* The recv loop of handle_read runs while there is room for replies.
CanRecv(k) == ~k.closing /\ ~k.deferred /\ Len(k.output) < OutputHighWater

\* handle_read: everything is read unless the loop stops earlier, and then
\* any part of the rest may already have been in the last chunk.
AfterRead(c, k, seq) ==
    LET sent == Len(requests[c])
        p    == Processed(c, [k EXCEPT !.taken = sent], seq)
    IN IF ~CanRecv(k) THEN {Refreshed(Processed(c, k, seq))}
       ELSE IF CanRecv(p)
       THEN {Refreshed([p EXCEPT !.peerEof = @ \/ c \in shut])}
       ELSE {Refreshed([p EXCEPT !.taken = t]) :
                t \in Greatest(k.taken, p.consumed)..sent}

\* Mutant of Reaped: does not wait for the output.
ReapedAtOnce(k) == IF k.peerEof THEN Destroyed(k) ELSE k

\* reactor_run destroys a half-closed connection that has nothing to send.
Reaped(k) == IF k.peerEof /\ k.output = <<>> THEN Destroyed(k) ELSE k

\* Mutants of AfterWrite: the barrier is forgotten after a partial send; the
\* input that a full output had held back is not looked at again.
AfterWriteForgets(c, k, n, seq) ==
    LET sent == [k EXCEPT !.output = SubSeq(@, n + 1, Len(@)), !.barrier = 0]
    IN IF sent.output # <<>> THEN Refreshed(sent)
       ELSE IF sent.closing THEN Destroyed(sent)
       ELSE Refreshed(Processed(c, sent, seq))

AfterWriteIdle(c, k, n, seq) ==
    LET sent == [k EXCEPT !.output = SubSeq(@, n + 1, Len(@)), !.barrier = 0]
    IN IF sent.output = <<>> /\ sent.closing THEN Destroyed(sent)
                                            ELSE Refreshed(sent)

\* The rest of handle_write once send has taken n replies.
AfterWrite(c, k, n, seq) ==
    LET rest == SubSeq(k.output, n + 1, Len(k.output))
        sent == [k EXCEPT !.output = rest,
                          !.barrier = IF rest = <<>> THEN 0 ELSE @]
    IN IF rest # <<>> THEN Refreshed(sent)
       ELSE IF sent.closing THEN Destroyed(sent)
       ELSE Refreshed(Processed(c, sent, seq))

\* What changes with connection c when a handler replaces k by kk: the
\* transactions it committed and the load it asked for.
Effects(c, k, kk, seq) ==
    /\ enqueued' = seq + Cardinality({n \in Logged(c, k) : n <= kk.consumed})
    /\ loading' = IF kk.deferred /\ ~k.deferred THEN loading \cup {c}
                                                ELSE loading

-----------------------------------------------------------------------------
Init ==
    /\ conn = [c \in Conns |-> NewConnection]
    /\ requests = [c \in Conns |-> <<>>]
    /\ received = [c \in Conns |-> <<>>]
    /\ shut = {} /\ reset = {}
    /\ pc = "poll" /\ batch = {} /\ current = "none" /\ draining = {}
    /\ Log!Init /\ flushed = 0 /\ evicted = FALSE /\ reported = FALSE
    /\ owed = FALSE /\ wake = FALSE
    /\ loading = {} /\ loaded = {}

(* Clients *)

Connect(c) ==
    /\ conn[c].state = "new"
    /\ conn' = [conn EXCEPT ![c].state = "backlog"]
    /\ UNCHANGED <<received, clientVars, loopVars, sequenceVars, flushVars,
                   wakeVars, loadVars>>

RequestsSent ==
    Cardinality(UNION {{c} \X (1..Len(requests[c])) : c \in Conns})

Send(c, kind) ==
    /\ conn[c].state \in {"backlog", "open"} /\ c \notin shut \cup reset
    /\ RequestsSent < MaxRequests
    /\ c \in Serial => Len(received[c]) = Len(requests[c])
    /\ requests' = [requests EXCEPT ![c] = Append(@, kind)]
    /\ UNCHANGED <<conn, received, shut, reset, loopVars, sequenceVars,
                   flushVars, wakeVars, loadVars>>

ShutWrite(c) ==
    /\ conn[c].state \in {"backlog", "open"} /\ c \notin shut \cup reset
    /\ Cardinality(shut) + Cardinality(reset) < MaxLeaving
    /\ shut' = shut \cup {c}
    /\ UNCHANGED <<conn, received, requests, reset, loopVars, sequenceVars,
                   flushVars, wakeVars, loadVars>>

Hangup(c) ==
    /\ conn[c].state = "open" /\ c \notin reset
    /\ Cardinality(shut) + Cardinality(reset) < MaxLeaving
    /\ reset' = reset \cup {c}
    /\ UNCHANGED <<conn, received, requests, shut, loopVars, sequenceVars,
                   flushVars, wakeVars, loadVars>>

-----------------------------------------------------------------------------
(* reactor_run *)

\* What epoll reports for a connection, level-triggered.
Active(c) ==
    {e \in {"in", "out", "rdhup", "hup"} :
        \/ /\ e = "in" /\ "in" \in conn[c].interest
           /\ Len(requests[c]) > conn[c].taken \/ c \in shut
        \/ e = "out" /\ "out" \in conn[c].interest
        \/ e = "rdhup" /\ c \in shut
        \/ e = "hup" /\ c \in reset}

ReadyClients ==
    {[source |-> c, active |-> Active(c)] : c \in {x \in Open : Active(x) # {}}}

ReadySources ==
    {[source |-> s, active |-> {"in"}] : s \in
        {x \in {"wake", "listener"} :
            \/ x = "wake" /\ wake
            \/ x = "listener" /\ \E c \in Conns : conn[c].state = "backlog"}}

TimerEvent == {[source |-> "timer", active |-> {"in"}]}

\* epoll_wait returns what is ready, or the timer, which only makes a
\* difference when it comes alone.
Poll ==
    /\ pc = "poll"
    /\ batch' \in {ReadyClients \cup ReadySources, TimerEvent} \ {{}}
    /\ batch' = TimerEvent => ReadyClients \cup ReadySources = {}
    /\ pc' = "batch"
    /\ UNCHANGED <<conn, received, clientVars, current, draining,
                   sequenceVars, flushVars, wakeVars, loadVars>>

\* drain_timer_fd: the periodic handler touches no connection.
EventTimer ==
    /\ pc = "batch"
    /\ \E e \in batch : e.source = "timer" /\ batch' = batch \ {e}
    /\ UNCHANGED <<conn, received, clientVars, pc, current, draining,
                   sequenceVars, flushVars, wakeVars, loadVars>>

\* handle_accept takes every connection that is waiting.
EventAccept ==
    /\ pc = "batch"
    /\ \E e \in batch : e.source = "listener" /\ batch' = batch \ {e}
    /\ conn' = [c \in Conns |->
                    IF conn[c].state = "backlog"
                    THEN [conn[c] EXCEPT !.state = "open", !.interest = {"in"}]
                    ELSE conn[c]]
    /\ UNCHANGED <<received, clientVars, pc, current, draining,
                   sequenceVars, flushVars, wakeVars, loadVars>>

\* drain_wake_fd: read the eventfd and take the load results ...
EventWake ==
    /\ pc = "batch"
    /\ \E e \in batch : e.source = "wake" /\ batch' = batch \ {e}
    /\ wake' = FALSE
    /\ draining' = loaded /\ loaded' = {}
    /\ pc' = "drain"
    /\ UNCHANGED <<conn, received, clientVars, current, sequenceVars,
                   flushVars, owed, loading>>

\* ... execute each deferred request, or fail it, and complete its response.
\* The request is executed even if its connection is gone.
CompleteResponse(c) ==
    /\ pc = "drain" /\ c \in draining
    /\ draining' = draining \ {c}
    /\ \E ok \in BOOLEAN, dels \in BOOLEAN :
        LET k     == conn[c]
            write == ok /\ ~failed /\ requests[c][k.consumed] = "missWrite"
            seq   == IF write THEN enqueued + 1 ELSE enqueued
            done  == [k EXCEPT
                        !.output = Append(@,
                            [request |-> k.consumed,
                             barrier |-> IF write THEN seq ELSE 0]),
                        !.barrier = IF write THEN Greatest(@, seq) ELSE @,
                        !.deferred = FALSE]
        IN
        /\ dels => MayEvict /\ ok /\ ~failed
        /\ evicted' = (evicted \/ dels)
        /\ IF c \in Open
           THEN /\ conn' = [conn EXCEPT ![c] = Processed(c, done, seq)]
                /\ Effects(c, done, Processed(c, done, seq), seq)
           ELSE /\ enqueued' = seq
                /\ UNCHANGED <<conn, loading>>
    /\ UNCHANGED <<received, clientVars, pc, batch, current, written, failed,
                   flushed, reported, wakeVars, loaded>>

\* Mutant of DrainEnd: the interest is left as it was.
DrainEndOnly ==
    /\ pc = "drain" /\ draining = {}
    /\ pc' = "batch"
    /\ UNCHANGED <<conn, received, clientVars, batch, current, draining,
                   sequenceVars, flushVars, wakeVars, loadVars>>

\* ... and recompute the interest of every connection.
DrainEnd ==
    /\ pc = "drain" /\ draining = {}
    /\ conn' = [c \in Conns |-> IF c \in Open THEN Refreshed(conn[c])
                                              ELSE conn[c]]
    /\ pc' = "batch"
    /\ UNCHANGED <<received, clientVars, batch, current, draining,
                   sequenceVars, flushVars, wakeVars, loadVars>>

EventHangup(c) ==
    /\ pc = "batch"
    /\ \E e \in batch : e.source = c /\ "hup" \in e.active
                        /\ batch' = batch \ {e}
    /\ conn' = [conn EXCEPT ![c] = Destroyed(@)]
    /\ UNCHANGED <<received, clientVars, pc, current, draining,
                   sequenceVars, flushVars, wakeVars, loadVars>>

\* A client event up to the flush that precedes handle_write.
EventRead(c) ==
    /\ pc = "batch"
    /\ \E e \in batch :
        LET k == [conn[c] EXCEPT !.peerEof = @ \/ "rdhup" \in e.active]
            seen == [k EXCEPT !.taken =
                        IF CanRecv(k) THEN Len(requests[c]) ELSE @]
        IN
        /\ e.source = c /\ "hup" \notin e.active
        /\ batch' = batch \ {e}
        /\ \E kk \in IF "in" \in e.active THEN AfterRead(c, k, enqueued)
                                          ELSE {k} :
            /\ conn' = [conn EXCEPT ![c] =
                            IF "out" \in e.active THEN kk ELSE Reaped(kk)]
            /\ Effects(c, seen, kk, enqueued)
        /\ IF "out" \in e.active
           THEN pc' = "flushOut" /\ current' = c
           ELSE UNCHANGED <<pc, current>>
    /\ UNCHANGED <<received, clientVars, draining, written, failed,
                   flushVars, wakeVars, loaded>>

\* handle_write: send takes some or all of the output, without another look
\* at the barrier.
EventWrite ==
    LET c == current
        k == conn[c]
    IN
    /\ pc = "write"
    /\ \E n \in IF k.output = <<>> THEN {0} ELSE 1..Len(k.output) :
        LET kk == AfterWrite(c, k, n, enqueued)
            sent == [k EXCEPT !.output = <<>>]
        IN
        /\ received' = [received EXCEPT ![c] = @ \o SubSeq(k.output, 1, n)]
        /\ conn' = [conn EXCEPT ![c] = Reaped(kk)]
        /\ Effects(c, sent, kk, enqueued)
    /\ pc' = "batch" /\ current' = "none"
    /\ UNCHANGED <<clientVars, batch, draining, written, failed, flushVars,
                   wakeVars, loaded>>

\* Where reactor_run continues after a successful flush.
AfterFlush == IF current = "none" THEN "poll" ELSE "write"

\* kvstore_service_flush, aof_flush: queue the producer chunk; pending bytes
\* are committed and waited for.
Flush ==
    /\ pc = "flushOut" \/ (pc = "batch" /\ batch = {})
    /\ IF evicted
       THEN /\ Log!Enqueue
            /\ pc' = "flushWait"
       ELSE /\ pc' = AfterFlush
            /\ UNCHANGED sequenceVars
    /\ flushed' = enqueued'
    /\ evicted' = FALSE
    /\ UNCHANGED <<conn, received, clientVars, batch, current, draining,
                   reported, wakeVars, loadVars>>

\* The first flush that meets an error makes reactor_run close every client.
FlushReturn ==
    /\ pc = "flushWait"
    /\ BarrierReady(enqueued) \/ failed
    /\ IF failed /\ ~reported
       THEN /\ reported' = TRUE
            /\ conn' = [c \in Conns |-> IF c \in Open THEN Destroyed(conn[c])
                                                      ELSE conn[c]]
            /\ batch' = {} /\ current' = "none"
            /\ pc' = "poll"
       ELSE /\ pc' = AfterFlush
            /\ UNCHANGED <<reported, conn, batch, current>>
    /\ UNCHANGED <<received, clientVars, draining, sequenceVars, flushed,
                   evicted, wakeVars, loadVars>>

-----------------------------------------------------------------------------
(* The other threads *)

\* A reader thread of mysql_store.c puts a result into the completion list and
\* writes the eventfd.  The two are one step: between them the Reactor could
\* only take the result for another reason, and be woken once more in vain.
LoadDone(c) ==
    /\ c \in loading
    /\ loading' = loading \ {c} /\ loaded' = loaded \cup {c}
    /\ wake' = TRUE
    /\ UNCHANGED <<conn, received, clientVars, loopVars, sequenceVars,
                   flushVars, owed>>

\* writer_main publishes; what is not flushed yet is only written when its
\* chunk was full.
LogPublish ==
    /\ ~owed
    /\ Log!Publish
    /\ owed' = TRUE
    /\ UNCHANGED <<conn, received, clientVars, loopVars, flushVars, wake,
                   loadVars>>

\* notify_reactor
Notify ==
    /\ owed
    /\ owed' = FALSE /\ wake' = TRUE
    /\ UNCHANGED <<conn, received, clientVars, loopVars, sequenceVars,
                   flushVars, loadVars>>

\* publish_error
LogFail ==
    /\ MayFail /\ ~failed /\ ~owed
    /\ Log!Fail
    /\ wake' = TRUE
    /\ UNCHANGED <<conn, received, clientVars, loopVars, flushVars, owed,
                   loadVars>>

-----------------------------------------------------------------------------
Clients ==
    \E c \in Conns :
        \/ Connect(c) \/ ShutWrite(c) \/ Hangup(c)
        \/ \E kind \in Kinds : Send(c, kind)

Loop ==
    \/ Poll \/ EventTimer \/ EventAccept \/ EventWake \/ DrainEnd
    \/ EventWrite \/ Flush \/ FlushReturn
    \/ \E c \in Conns : CompleteResponse(c) \/ EventHangup(c) \/ EventRead(c)

Next ==
    \/ Clients \/ Loop
    \/ \E c \in Conns : LoadDone(c)
    \/ LogPublish \/ Notify \/ LogFail

Spec == Init /\ [][Next]_vars

\* The Reactor thread runs, the AOF writer gets to what is queued, and MySQL
\* answers or times out.
FairSpec ==
    /\ Spec
    /\ WF_vars(Loop)
    /\ WF_vars(LogPublish /\ written < flushed)
    /\ WF_vars(Notify)
    /\ \A c \in Conns : WF_vars(LoadDone(c))

-----------------------------------------------------------------------------
(* Properties *)

\* The connection's barrier covers every reply in its output, also after a
\* partial send and when replies to other batches join it.
BarrierCovers ==
    \A c \in Open : \A i \in 1..Len(conn[c].output) :
        conn[c].output[i].barrier <= conn[c].barrier

\* Every variable keeps its type; no mix of pipelined requests, deferred
\* replies and partial sends takes an output above the high water mark or
\* leaves a reply in it that the connection's one barrier does not cover.
TypeOK ==
    /\ conn \in [Conns -> Connection]
    /\ \A c \in Conns : Len(conn[c].output) <= OutputHighWater
    /\ BarrierCovers
    /\ requests \in [Conns -> Seq(Requests)]
    /\ received \in [Conns -> Seq(Reply)]
    /\ shut \subseteq Conns /\ reset \subseteq Conns
    /\ pc \in {"poll", "batch", "drain", "flushOut", "write", "flushWait"}
    /\ current \in Conns \cup {"none"}
    /\ draining \subseteq Conns
    /\ enqueued \in Nat /\ written \in Nat /\ flushed \in Nat
    /\ {failed, evicted, reported, owed, wake} \subseteq BOOLEAN
    /\ loading \subseteq Conns /\ loaded \subseteq Conns

\* Pipelined requests are answered once each and in their order, whichever of
\* them waited for MySQL, filled the output or were overtaken by an EPOLLOUT.
RepliesInOrder ==
    \A c \in Conns :
        LET replies == received[c] \o conn[c].output IN
        /\ \A i \in 1..Len(replies) : replies[i].request = i
        /\ conn[c].state = "open" /\ ~conn[c].closing =>
            conn[c].consumed =
                Len(replies) + (IF conn[c].deferred THEN 1 ELSE 0)

\* A client that waits for each reply never has its reply to a write before
\* the AOF has published the transaction.
SerialAckAfterWrite ==
    \A c \in Serial : \A i \in 1..Len(received[c]) :
        received[c][i].barrier <= written

\* When the Reactor is about to sleep in epoll_wait it has asked for the event
\* that each connection needs next, or a wake-up is on its way.
NoLostWakeup ==
    pc = "poll" =>
        \A c \in Open :
            LET k == conn[c] IN
            /\ k.output # <<>> /\ BarrierReady(k.barrier) =>
                    "out" \in k.interest \/ wake \/ owed
            /\ ~k.deferred /\ k.output = <<>> =>
                    "in" \in k.interest /\ k.taken = k.consumed
            /\ k.deferred => c \in loading \/ (c \in loaded /\ wake)

\* A reply that was computed is dropped only if the client is gone or the AOF
\* has failed.
RepliesNotDropped ==
    [][\A c \in Conns :
        conn[c].state = "open" /\ conn'[c].state = "closed"
        /\ c \notin reset /\ ~failed
            => received'[c] = received[c] \o conn[c].output]_vars

\* Every request is answered, or its connection closed, unless the AOF fails.
RepliesArrive ==
    \A c \in Conns : \A n \in 1..MaxRequests :
        Len(requests[c]) >= n ~>
            \/ Len(received[c]) >= n
            \/ conn[c].state = "closed"
            \/ failed

\* docs/v0.6.1-memory-aof.md:27: no success reply leaves before the AOF write
\* of its transaction, for pipelining clients too.
AckAfterWrite ==
    \A c \in Conns : \A i \in 1..Len(received[c]) :
        received[c][i].barrier <= written

=============================================================================
