-------------------------- MODULE ReactorInvariant --------------------------
(***************************************************************************)
(* The inductive invariant behind the theorems of ReactorProofs: what the  *)
(* fields of a connection say about each other, about the events that are  *)
(* still to be handled and about the load that MySQL works on.             *)
(***************************************************************************)
EXTENDS Reactor

Waiting == loading \cup loaded \cup draining

Unanswered(k) == IF k.deferred THEN 1 ELSE 0

\* The replies q answer the requests after the n-th, and need no sequence
\* number above b.
Numbered(q, n) == \A i \in 1..Len(q) : q[i].request = n + i

CoveredBy(q, b) == \A i \in 1..Len(q) : q[i].barrier <= b

\* The counters and the output of a connection k that has been sent replies r:
\* every reply has the number of its request, and what has been consumed is
\* answered, in the output or deferred.
RepliesAgree(c, k, r) ==
    /\ Len(k.output) <= OutputHighWater
    /\ k.consumed <= k.taken /\ k.taken <= Len(requests[c])
    /\ Numbered(r, 0)
    /\ Numbered(k.output, Len(r)) /\ CoveredBy(k.output, k.barrier)
    /\ k.deferred => ~k.closing /\ Len(k.output) < OutputHighWater
    /\ ~k.closing => k.consumed = Len(r) + Len(k.output) + Unanswered(k)

\* An open connection that neither waits for MySQL nor has a reply to send has
\* looked at all its input, and one that closes has a last reply to send.
Settled(k) ==
    /\ k.closing => k.output # <<>>
    /\ ~k.deferred /\ k.output = <<>> => k.taken = k.consumed

\* A connection is empty until it is accepted and again once it is destroyed;
\* a half-closed one is only kept for the replies it still has to send.
ConnectionAgrees(c) ==
    LET k == conn[c] IN
    /\ k.state \in {"new", "backlog"} =>
            /\ k = [NewConnection EXCEPT !.state = k.state]
            /\ received[c] = <<>>
    /\ k.state = "open" =>
            /\ RepliesAgree(c, k, received[c])
            /\ Settled(k)
            /\ k.peerEof /\ k.output = <<>> => current = c
    /\ k.state = "closed" => k.output = <<>> /\ Numbered(received[c], 0)

ConnectionsAgree == \A c \in Conns : ConnectionAgrees(c)

\* A load is in one place at a time, an open connection waits for one exactly
\* when it is deferred, and a result that is there has been notified.
LoadsAgree ==
    /\ loading \cap loaded = {} /\ loading \cap draining = {}
    /\ loaded \cap draining = {}
    /\ \A c \in Waiting : conn[c].state \in {"open", "closed"}
    /\ \A c \in Open : conn[c].deferred <=> c \in Waiting
    /\ draining # {} => pc = "drain"
    /\ loaded # {} => wake

\* What epoll has been asked for, except while the async handler is changing
\* connections: EPOLLOUT only for replies that may be sent, and for all of
\* them unless a wake-up is to come.
InterestAgrees ==
    \A c \in Open :
        LET k == conn[c] IN
        /\ pc # "drain" /\ "out" \in k.interest =>
                k.output # <<>> /\ BarrierReady(k.barrier)
        /\ k.output # <<>> /\ BarrierReady(k.barrier) =>
                "out" \in k.interest \/ wake \/ owed \/ pc = "drain"
        /\ ~k.deferred /\ k.output = <<>> /\ ~k.peerEof =>
                "in" \in k.interest

\* An event of the batch belongs to a connection that is still open and that
\* no other event can close; EPOLLHUP comes from a client that is gone.
BatchAgrees ==
    /\ \A e \in batch :
            /\ e.source \in Conns =>
                    /\ e.source \in Open /\ e.source # current
                    /\ "hup" \in e.active => e.source \in reset
            /\ \A f \in batch : e.source = f.source => e = f
    /\ current \in Conns =>
            current \in Open /\ pc \in {"flushOut", "write", "flushWait"}
    /\ pc \in {"flushOut", "write"} => current \in Conns

Sendable(c) == conn[c].output # <<>> /\ BarrierReady(conn[c].barrier)

\* A client that waits for each reply has at most one request on its way, so
\* nothing joins a reply between its EPOLLOUT and the send.
SerialAgrees ==
    /\ SerialAckAfterWrite
    /\ \A c \in Serial :
            /\ Len(requests[c]) <= Len(received[c]) + 1
            /\ current = c => Sendable(c)
            /\ \A e \in batch :
                    e.source = c /\ "out" \in e.active => Sendable(c)

\* Every reply goes out in order, none before its time, and none is forgotten.
Accounted ==
    /\ TypeOK
    /\ ConnectionsAgree
    /\ LoadsAgree
    /\ InterestAgrees
    /\ BatchAgrees
    /\ SerialAgrees

=============================================================================
