------------------------ MODULE PersistenceInvariant ------------------------
(***************************************************************************)
(* The inductive invariant behind the theorems of PersistenceProofs: what  *)
(* a snapshot, finished or still being written, has to do with the AOF, or *)
(* without one with the cache and the count of changes.                    *)
(***************************************************************************)
EXTENDS Persistence

Records == [kind : {"change", "mark"}, id : Nat]

Phases == {"begun", "written", "synced", "renamed", "ok", "error"}

ServerTyped(s) ==
    s \in [mode : {"up", "stopped", "died", "down"}, cache : Seq(Nat),
           dirty : Nat, child : Nat, covered : Nat, saving : Nat,
           status : {"none", "ok", "failed"}]

\* An AOF that is off stays empty.
LogTyped(l) ==
    /\ l \in [on : BOOLEAN, records : Seq(Records), written : Nat,
              synced : Nat, failed : BOOLEAN, full : BOOLEAN]
    /\ l.synced <= l.written /\ l.written <= Len(l.records)
    /\ ~l.on => l.records = <<>>

\* A file that has or may have the name of the snapshot is whole.
DiskTyped ==
    /\ disk \in [file : Files \cup {NoSnapshot},
                 possible : SUBSET (Files \cup {NoSnapshot})]
    /\ disk.file \in disk.possible
    /\ \A file \in disk.possible \ {NoSnapshot} : file.whole

UsedTyped ==
    used \in [changes : Nat, saves : Nat, faults : Nat, crashes : Nat,
              orphans : BOOLEAN, unsynced : BOOLEAN]

\* A job is known by the number of its save, and renames a whole file.
JobsTyped(js) ==
    /\ DOMAIN js \subseteq 1..used.saves
    /\ \A j \in DOMAIN js :
            /\ js[j] \in [phase : Phases, file : Files]
            /\ js[j].phase = "synced" => js[j].file.whole

Jobs(s) == {s.child, s.saving} \ {NoChild}

\* The server knows the jobs that are not over, unless one has outlived the
\* server that forked it; during SAVE there is no child, and none before a
\* start.
JobsKnown(s, js) ==
    /\ Jobs(s) \subseteq DOMAIN js
    /\ s.saving # NoChild => s.mode = "up" /\ s.child = NoChild
    /\ s.mode = "down" => s.child = NoChild
    /\ ~used.orphans =>
            \A j \in DOMAIN js : j \in Jobs(s) \/ js[j].phase \in {"ok", "error"}

\* A snapshot beside an AOF: its mark is synced, and it holds the changes
\* before the mark.
Marked(file, l) ==
    /\ file.offset \in 1..l.synced
    /\ l.records[file.offset] = Mark(file.token)
    /\ file.content = ChangesAfter(SubSeq(l.records, 1, file.offset), 0)

LogAgrees(s, js, l) ==
    l.on =>
        /\ \A file \in disk.possible \ {NoSnapshot} : Marked(file, l)
        /\ \A j \in DOMAIN js : Marked(js[j].file, l)
        /\ s.mode = "up" => s.cache = ChangesAfter(l.records, 0)

\* The cache consists of the changes saved and at most n more.
Covers(cache, saved, n) ==
    /\ saved = SubSeq(cache, 1, Len(saved))
    /\ Len(saved) <= Len(cache) /\ Len(cache) <= Len(saved) + n

Content(file) == IF file = NoSnapshot THEN <<>> ELSE file.content

\* The files that the count of changes is about.
Counted == IF used.unsynced THEN {disk.file} ELSE disk.possible

\* A snapshot without an AOF: the count covers what any of the files lacks,
\* and what will be left of it covers what the file of the save lacks.
CountAgrees(s, js) ==
    s.mode = "up" /\ ~log.on /\ ~used.orphans =>
        /\ \A file \in Counted : Covers(s.cache, Content(file), s.dirty)
        /\ \A j \in Jobs(s) :
                /\ s.covered <= s.dirty
                /\ Covers(s.cache, js[j].file.content, s.dirty - s.covered)
                /\ js[j].phase \in {"renamed", "ok"} => disk.file = js[j].file
                /\ js[j].phase = "ok" => disk.possible = {disk.file}

Consistent ==
    /\ ServerTyped(server) /\ LogTyped(log) /\ DiskTyped /\ UsedTyped
    /\ JobsTyped(jobs) /\ JobsKnown(server, jobs)
    /\ LogAgrees(server, jobs, log)
    /\ CountAgrees(server, jobs)

=============================================================================
