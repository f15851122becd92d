------------------------------- MODULE Replay -------------------------------
(***************************************************************************)
(* kvstore_service_replay_aof: what a restart makes of the AOF.  The       *)
(* process may stop after any command of Service; it starts again at some  *)
(* instant, with the same limits, and replays the records one by one into  *)
(* an empty cache before the AOF is attached.  The replay is taken to be   *)
(* instantaneous.                                                          *)
(***************************************************************************)
EXTENDS Service

\* One record: the cache it leaves, with reply "error" when the record is
\* refused, which ends the start of the server.
replay_aof(c, r, now) ==
    LET over == r.deadline # 0 /\ r.deadline <= now
        Stored(x) == Reply(x.cache, IF x.result = "OK" THEN "ok" ELSE "error")
    IN  CASE \/ r.op = "DEL"
             \/ r.op \in {"SET", "PEXPIREAT"} /\ over ->
                Reply(cache_delete(c, r.key, now).cache, "ok")
          [] r.op = "SET" /\ ~over ->
                Stored(cache_store_object(c, r.key, NewString(r.value),
                                          r.deadline, FALSE, now))
          [] r.op = "PEXPIREAT" /\ ~over ->
                Reply(cache_expire_at(c, r.key, r.deadline, now).cache, "ok")
          [] r.op = "PERSIST" ->
                Reply(cache_persist(c, r.key, now).cache, "ok")
          [] r.op = "ADD" ->
                CollectionAdd(c, r.type, r.key, r.values, now, now)
          [] r.op = "REM" ->
                CollectionRemove(c, r.type, r.key, r.fields, now, now)

RECURSIVE ReplayFrom(_, _, _)
ReplayFrom(c, journal, now) ==
    IF journal = <<>> THEN Reply(c, "ok")
    ELSE LET Continue(first) ==
                 IF first.reply = "error" THEN first
                 ELSE ReplayFrom(first.cache, Tail(journal), now)
         IN  Continue(replay_aof(c, Head(journal), now))

\* A restart at the instant now.
Restarted(now) == ReplayFrom(NewCache(FALSE), cache.journal, now)

-----------------------------------------------------------------------------
(* Properties *)

\* What clients can read at the instant now.
Readable(c, now) ==
    [k \in {x \in DOMAIN c.index : ~Expired(c.index[x], now)} |->
        [type |-> c.index[k].object.type,
         values |-> Values(c.index[k].object),
         expire_at |-> c.index[k].expire_at]]

Restores(now) ==
    LET restarted == Restarted(now)
    IN  /\ restarted.reply = "ok"
        /\ Readable(restarted.cache, now) = Readable(cache, now)

\* The AOF holds, for some key, a deadline that is over at the instant now
\* and after it a record that builds on what the key was before.
Exposed(now) ==
    LET Log == cache.journal
        Over(i) == /\ Log[i].op \in {"SET", "PEXPIREAT"}
                   /\ Log[i].deadline # 0 /\ Log[i].deadline <= now
        Builds(i) == Log[i].op \notin {"SET", "DEL"}
    IN  \E i, j \in DOMAIN Log :
          /\ i < j /\ Log[i].key = Log[j].key /\ Over(i) /\ Builds(j)
          /\ \A m \in i + 1 .. j - 1 : Log[m].key = Log[i].key => Builds(m)

\* Whenever the server stops and starts again, replay accepts the AOF and
\* gives clients the keys, values and deadlines that they would have read
\* without the restart: evictions are in the AOF before the write that
\* caused them, keys that expired silently do not come back, and TTLs do not
\* start anew.  This is so unless a record follows an expired deadline that
\* it was meant to change.
ReplayRestores == \A now \in clock .. MaxClock : Exposed(now) \/ Restores(now)

\* README: the deadlines in the AOF are absolute, so a restart restores what
\* has not expired and skips what has.
ReplayAlwaysRestores == \A now \in clock .. MaxClock : Restores(now)

=============================================================================
