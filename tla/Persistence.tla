----------------------------- MODULE Persistence -----------------------------
(***************************************************************************)
(* Snapshots beside the append-only file: SAVE, BGSAVE and the automatic   *)
(* save of main.c, rdb_save of rdb.c step by step, the checkpoint that     *)
(* ties a snapshot to a place in the AOF, the count of changes that no     *)
(* snapshot holds, and what a restart makes of the files after a stop, the *)
(* death of the process or a loss of power.                                *)
(*                                                                         *)
(* A change is a number, the cache the sequence of changes applied to it,  *)
(* the AOF the sequence of its records.  The AOF itself is Aof.tla's       *)
(* subject: here it is what is written and what is synced of it, whether   *)
(* it has failed and whether it is above its high-water mark.              *)
(***************************************************************************)
EXTENDS Naturals, Sequences, FiniteSets

CONSTANTS SaveChanges,    \* save_changes: changes that start a save
          HighWater,      \* unwritten records at which writes are refused
          LowWater,       \* unwritten records at which they are taken again
          MaxChanges,     \* bound: changes made
          MaxSaves,       \* bound: saves begun
          MaxFaults,      \* bound: failures of the AOF, of a save, of fork
          MaxCrashes,     \* bound: ends of the server
          NoSnapshot      \* no file has the snapshot's name

ASSUME LimitsAssumption ==
    /\ SaveChanges \in Nat \ {0}
    /\ HighWater \in Nat \ {0} /\ LowWater \in 0..HighWater - 1
    /\ {MaxChanges, MaxSaves, MaxFaults, MaxCrashes} \subseteq Nat

(* A snapshot: the changes it holds, the place and the token of its mark,  *)
(* and whether all of it is there.                                         *)
Files == [content : Seq(Nat), offset : Nat, token : Nat, whole : BOOLEAN]

ASSUME NoSnapshotAssumption == NoSnapshot \notin Files

VARIABLES server,   \* the process: its cache and its persistence manager
          log,      \* the AOF
          disk,     \* the file that has the snapshot's name
          jobs,     \* the calls of rdb_save under way, by number of the save
          used      \* how much of each bound is used, and what was lost

vars == <<server, log, disk, jobs, used>>

Change(n) == [kind |-> "change", id |-> n]
Mark(token) == [kind |-> "mark", id |-> token]

(* The places of the changes from place i + 1 on. *)
Places(records, i) ==
    {p \in i + 1..Len(records) : records[p].kind = "change"}

Nth(places, c) == CHOOSE p \in places : Cardinality({q \in places : q <= p}) = c

(* What the records from place i + 1 on do to a cache. *)
ChangesAfter(records, i) ==
    LET places == Places(records, i)
    IN  [c \in 1..Cardinality(places) |-> records[Nth(places, c)].id]

NoChild == 0        \* child_pid is 0

Started(cache) ==
    [mode |-> "up", cache |-> cache, dirty |-> 0, child |-> NoChild,
     covered |-> 0, saving |-> NoChild, status |-> "none"]

Serving == server.mode = "up" /\ server.saving = NoChild

-----------------------------------------------------------------------------
(* The AOF. *)

Busy(l) == l.on /\ (l.failed \/ l.full)

Unwritten(l) == Len(l.records) - l.written

Appended(l, record) ==
    LET longer == [l EXCEPT !.records = Append(@, record)]
    IN  IF l.on THEN [longer EXCEPT !.full = @ \/ Unwritten(longer) >= HighWater]
                ELSE l

(* A successful write command: kvstore_service_execute_with_barrier.  A      *)
(* commit that fails for lack of memory, after the change of the cache, is   *)
(* left out.                                                                 *)
Write ==
    /\ Serving
    /\ used.changes < MaxChanges
    /\ ~Busy(log)
    /\ used' = [used EXCEPT !.changes = @ + 1]
    /\ server' = [server EXCEPT !.cache = Append(@, used.changes + 1),
                                !.dirty = @ + 1]
    /\ log' = Appended(log, Change(used.changes + 1))
    /\ UNCHANGED <<disk, jobs>>

WriterWrites ==
    /\ server.mode = "up"
    /\ log.on /\ ~log.failed
    /\ Unwritten(log) > 0
    /\ LET written == [log EXCEPT !.written = @ + 1]
       IN  log' = [written EXCEPT !.full = @ /\ Unwritten(written) > LowWater]
    /\ UNCHANGED <<server, disk, jobs, used>>

WriterSyncs ==
    /\ server.mode = "up"
    /\ log.on /\ ~log.failed
    /\ log.synced < log.written
    /\ log' = [log EXCEPT !.synced = log.written]
    /\ UNCHANGED <<server, disk, jobs, used>>

Fault ==
    /\ used.faults < MaxFaults
    /\ used' = [used EXCEPT !.faults = @ + 1]

(* A write or a sync of the writer fails; it stops for good. *)
LogFails ==
    /\ server.mode = "up"
    /\ log.on /\ ~log.failed
    /\ Fault
    /\ log' = [log EXCEPT !.failed = TRUE]
    /\ UNCHANGED <<server, disk, jobs>>

-----------------------------------------------------------------------------
(* rdb_save: the temporary file is written and synced, takes the name of   *)
(* the snapshot, and the directory is synced.  Until then either file may  *)
(* be the one a loss of power leaves behind.                               *)

JobWrites(j) ==
    /\ jobs[j].phase = "begun"
    /\ jobs' = [jobs EXCEPT ![j].phase = "written"]
    /\ UNCHANGED <<server, log, disk, used>>

JobSyncs(j) ==
    /\ jobs[j].phase = "written"
    /\ jobs' = [jobs EXCEPT ![j].phase = "synced", ![j].file.whole = TRUE]
    /\ UNCHANGED <<server, log, disk, used>>

JobRenames(j) ==
    /\ jobs[j].phase = "synced"
    /\ jobs' = [jobs EXCEPT ![j].phase = "renamed"]
    /\ disk' = [disk EXCEPT !.file = jobs[j].file,
                            !.possible = @ \cup {jobs[j].file}]
    /\ UNCHANGED <<server, log, used>>

JobSyncsDirectory(j) ==
    /\ jobs[j].phase = "renamed"
    /\ jobs' = [jobs EXCEPT ![j].phase = "ok"]
    /\ disk' = [disk EXCEPT !.possible = {disk.file}]
    /\ UNCHANGED <<server, log, used>>

(* Any call of rdb_save fails: the temporary file is unlinked, unless it   *)
(* is the snapshot already.                                                *)
JobFails(j) ==
    /\ jobs[j].phase \in {"begun", "written", "synced", "renamed"}
    /\ Fault
    /\ jobs' = [jobs EXCEPT ![j].phase = "error"]
    /\ UNCHANGED <<server, log, disk>>

JobStep(j) ==
    JobWrites(j) \/ JobSyncs(j) \/ JobRenames(j) \/ JobSyncsDirectory(j)

Over(j) == jobs[j].phase \in {"ok", "error"}

-----------------------------------------------------------------------------
(* The persistence manager. *)

(* Mutant: the count starts again from zero. *)
snapshot_committed_zero(dirty, covered) == 0

(* kvstore_service_snapshot_committed: changes made while the snapshot was *)
(* written stay counted.                                                   *)
snapshot_committed(dirty, covered) ==
    IF covered >= dirty THEN 0 ELSE dirty - covered

Without(j) == [i \in DOMAIN jobs \ {j} |-> jobs[i]]

(* persistence_finish_child *)
Finished(s, phase) ==
    LET ended == [s EXCEPT !.child = NoChild, !.covered = 0]
    IN  IF phase = "ok"
        THEN [ended EXCEPT !.status = "ok",
                           !.dirty = snapshot_committed(@, s.covered)]
        ELSE [ended EXCEPT !.status = "failed"]

(* Mutant: a child that failed is not reaped. *)
ChildSucceeded == server.child # NoChild /\ jobs[server.child].phase = "ok"

(* persistence_reap(manager, 0): the server and the jobs after it. *)
ChildOver == server.child # NoChild /\ Over(server.child)

Reaped == IF ChildOver THEN Finished(server, jobs[server.child].phase) ELSE server

JobsLeft == IF ChildOver THEN Without(server.child) ELSE jobs

(* Mutant: the mark is not synced before the cache is saved. *)
CheckpointedUnsynced(l, token) ==
    LET marked == Append(l.records, Mark(token))
    IN  IF l.on THEN [l EXCEPT !.records = marked, !.written = Len(marked),
                               !.full = FALSE]
                ELSE l

(* aof_create_checkpoint: a mark is appended, written and synced. *)
Checkpointed(l, token) ==
    LET marked == Append(l.records, Mark(token))
    IN  IF l.on THEN [l EXCEPT !.records = marked, !.written = Len(marked),
                               !.synced = Len(marked), !.full = FALSE]
                ELSE l

NewJob(l, s, token) ==
    [phase |-> "begun",
     file |-> [content |-> s.cache, offset |-> IF l.on THEN Len(l.records) ELSE 0,
               token |-> IF l.on THEN token ELSE 0, whole |-> FALSE]]

(* persistence_save succeeds as far as the checkpoint; background says     *)
(* that a child is forked for the rest.                                    *)
SaveBegins(background) ==
    LET token == used.saves + 1
        l == Checkpointed(log, token)
    IN  /\ Reaped.child = NoChild
        /\ ~Busy(log)
        /\ used.saves < MaxSaves
        /\ used' = [used EXCEPT !.saves = token]
        /\ log' = l
        /\ server' = IF background
                     THEN [Reaped EXCEPT !.child = token, !.covered = Reaped.dirty]
                     ELSE [Reaped EXCEPT !.saving = token, !.covered = Reaped.dirty]
        /\ jobs' = [i \in DOMAIN JobsLeft \cup {token} |->
                       IF i = token THEN NewJob(l, Reaped, token) ELSE JobsLeft[i]]
        /\ UNCHANGED disk

(* persistence_save fails and leaves the AOF l and the status, and the     *)
(* server goes on in the given mode.                                       *)
SaveLeaves(l, status, mode) ==
    /\ log' = l
    /\ server' = [Reaped EXCEPT !.status = status, !.mode = mode]
    /\ jobs' = JobsLeft
    /\ UNCHANGED disk

(* The AOF refuses the mark, or fails while the mark is written or while   *)
(* the writer is paused for fork (the one failure that leaves the status), *)
(* or fork fails.                                                          *)
SaveRefused(mode) ==
    /\ Reaped.child = NoChild
    /\ \/ Busy(log) /\ SaveLeaves(log, "failed", mode) /\ UNCHANGED used
       \/ /\ ~Busy(log) /\ Fault
          /\ \/ /\ log.on
                /\ SaveLeaves([Appended(log, Mark(0)) EXCEPT !.failed = TRUE],
                              "failed", mode)
             \/ /\ log.on
                /\ SaveLeaves([Checkpointed(log, 0) EXCEPT !.failed = TRUE],
                              Reaped.status, mode)
             \/ SaveLeaves(Checkpointed(log, 0), "failed", mode)

(* SAVE and BGSAVE.  While a child is at work the answer is an error and   *)
(* nothing changes.                                                        *)
SaveCommand ==
    /\ Serving
    /\ \/ \E background \in BOOLEAN : SaveBegins(background)
       \/ SaveRefused("up")

(* SAVE goes on in the Reactor's thread until rdb_save returns. *)
SaveReturns ==
    /\ server.mode = "up"
    /\ server.saving # NoChild
    /\ Over(server.saving)
    /\ server' = [Finished(server, jobs[server.saving].phase)
                     EXCEPT !.saving = NoChild]
    /\ jobs' = Without(server.saving)
    /\ UNCHANGED <<log, disk, used>>

(* persistence_maintain, from the timer.  The time since the last save may *)
(* or may not have passed.  An error ends reactor_run.                     *)
SaveDue == Reaped.child = NoChild /\ Reaped.dirty >= SaveChanges

Maintain ==
    /\ Serving
    /\ \/ /\ ChildOver
          /\ server' = Reaped
          /\ jobs' = JobsLeft
          /\ UNCHANGED <<log, disk, used>>
       \/ /\ SaveDue
          /\ SaveBegins(TRUE) \/ SaveRefused("died")
       \/ /\ ~ChildOver          \* nothing is due
          /\ UNCHANGED vars

-----------------------------------------------------------------------------
(* Ends and restarts. *)

Ends ==
    /\ used.crashes < MaxCrashes
    /\ used' = [used EXCEPT !.crashes = @ + 1]

(* A signal makes reactor_run return. *)
Stop ==
    /\ Serving
    /\ Ends
    /\ server' = [server EXCEPT !.mode = "stopped"]
    /\ UNCHANGED <<log, disk, jobs>>

Down == [Started(<<>>) EXCEPT !.mode = "down"]

(* The cleanup of main: the child is waited for, then aof_close writes and *)
(* syncs what is left, unless the AOF has failed.                          *)
Close ==
    /\ server.mode \in {"stopped", "died"}
    /\ server.child # NoChild => ChildOver
    /\ server' = Down
    /\ jobs' = JobsLeft
    /\ log' = IF log.failed THEN [log EXCEPT !.records = SubSeq(@, 1, log.written)]
              ELSE [log EXCEPT !.written = Len(log.records),
                               !.synced = Len(log.records)]
    /\ UNCHANGED <<disk, used>>

(* The process dies.  What it wrote stays; a SAVE ends with it, a child    *)
(* goes on by itself.                                                      *)
Die ==
    /\ server.mode = "up"
    /\ used.crashes < MaxCrashes
    /\ used' = [used EXCEPT !.crashes = @ + 1,
                            !.orphans = @ \/ (server.child # NoChild /\ ~ChildOver)]
    /\ server' = Down
    /\ jobs' = Without(server.saving)
    /\ log' = [log EXCEPT !.records = SubSeq(@, 1, log.written)]
    /\ UNCHANGED disk

(* Power is lost: of the AOF what was synced is left and perhaps more, of  *)
(* the names of the snapshot one that may have been on disk.               *)
LosePower ==
    /\ Ends
    /\ server' = Down
    /\ jobs' = <<>>
    /\ \E n \in log.synced..log.written :
          log' = [log EXCEPT !.records = SubSeq(@, 1, n), !.written = n, !.synced = n]
    /\ \E file \in disk.possible : disk' = [file |-> file, possible |-> {file}]

(* rdb_load takes a whole file; beside an AOF its mark must be there. *)
Loads(file, l) ==
    /\ file.whole
    /\ l.on => /\ file.offset \in DOMAIN l.records
               /\ l.records[file.offset] = Mark(file.token)

(* What a start makes of a snapshot and the AOF. *)
Recovered(file, l) ==
    IF file = NoSnapshot THEN ChangesAfter(l.records, 0)
    ELSE file.content \o (IF l.on THEN ChangesAfter(l.records, file.offset)
                                  ELSE <<>>)

Start ==
    /\ server.mode = "down"
    /\ disk.file # NoSnapshot => Loads(disk.file, log)
    /\ server' = [Started(Recovered(disk.file, log)) EXCEPT
                     !.status = IF disk.file = NoSnapshot THEN "none" ELSE "ok"]
    /\ log' = [log EXCEPT !.failed = FALSE, !.full = FALSE]
    /\ used' = [used EXCEPT !.unsynced = disk.possible # {disk.file}]
    /\ UNCHANGED <<disk, jobs>>

Init ==
    /\ server = Started(<<>>)
    /\ log \in [on : BOOLEAN, records : {<<>>}, written : {0}, synced : {0},
                failed : {FALSE}, full : {FALSE}]
    /\ disk = [file |-> NoSnapshot, possible |-> {NoSnapshot}]
    /\ jobs = <<>>
    /\ used = [changes |-> 0, saves |-> 0, faults |-> 0, crashes |-> 0,
               orphans |-> FALSE, unsynced |-> FALSE]

Next ==
    \/ Write \/ WriterWrites \/ WriterSyncs \/ LogFails
    \/ \E j \in DOMAIN jobs : JobStep(j) \/ JobFails(j)
    \/ SaveCommand \/ SaveReturns \/ Maintain
    \/ Stop \/ Close \/ Die \/ LosePower \/ Start

(* The kernel runs the child, the timer goes off, main gets to its end.    *)
Fairness ==
    /\ WF_vars(\E j \in DOMAIN jobs : JobStep(j))
    /\ WF_vars(Maintain) /\ WF_vars(SaveReturns) /\ WF_vars(Close)

Spec == Init /\ [][Next]_vars /\ Fairness

-----------------------------------------------------------------------------
(* Properties. *)

(* Type invariant of the server, the AOF, the snapshot and the saves. *)
TypeOK ==
    /\ server \in [mode : {"up", "stopped", "died", "down"}, cache : Seq(Nat),
                   dirty : Nat, child : Nat, covered : Nat, saving : Nat,
                   status : {"none", "ok", "failed"}]
    /\ log.synced <= log.written /\ log.written <= Len(log.records)
    /\ disk.file \in disk.possible
    /\ disk.possible \ {NoSnapshot} \subseteq Files
    /\ \A j \in DOMAIN jobs : jobs[j].file \in Files
    /\ {server.child, server.saving} \ {NoChild} \subseteq DOMAIN jobs

(* With the AOF on, a start after any end of the server finds a snapshot   *)
(* it accepts, and snapshot and AOF tail together give every change of the *)
(* AOF once and in order: aof_create_checkpoint syncs the mark before the  *)
(* cache is saved, and rdb_save replaces the old snapshot only by a whole  *)
(* one.  A child that outlives its server does no harm here.               *)
SnapshotAndLogAgree ==
    log.on =>
        \A file \in disk.possible, n \in log.synced..log.written :
            LET left == [log EXCEPT !.records = SubSeq(log.records, 1, n)]
            IN  /\ file # NoSnapshot => Loads(file, left)
                /\ Recovered(file, left) = ChangesAfter(left.records, 0)

(* With snapshots alone, what a restart or a loss of power can take from   *)
(* the cache is no more than the changes that rdb_dirty_changes counts,    *)
(* whatever was written while a child saved and whichever step of rdb_save *)
(* failed; the automatic save relies on it.  It takes that no child of a   *)
(* server that was killed is still at work, as its rename may put an older *)
(* snapshot in the place of a newer one; and for power, that the server    *)
(* did not start from a snapshot whose name was not synced, as rdb_load    *)
(* does not sync the directory.                                            *)
ChangesAccounted ==
    server.mode = "up" /\ ~log.on /\ ~used.orphans =>
        \A file \in IF used.unsynced THEN {disk.file} ELSE disk.possible :
            LET saved == IF file = NoSnapshot THEN <<>> ELSE file.content
            IN  /\ file # NoSnapshot => file.whole
                /\ saved = SubSeq(server.cache, 1, Len(saved))
                /\ Len(server.cache) - Len(saved) <= server.dirty

(* A BGSAVE comes to an end that the manager notices, so that another save *)
(* is possible: the child is reaped by the timer or by the cleanup.        *)
BgsaveEnds == server.child # NoChild ~> server.child = NoChild

(* README.md: after a failed write or sync of the AOF "reads stay          *)
(* available", and above the high-water mark they are served too.          *)
ReadsStayAvailable == log.failed \/ log.full => server.mode # "died"

=============================================================================
