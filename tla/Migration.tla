------------------------------ MODULE Migration ------------------------------
(***************************************************************************)
(* The data migrations of the Qt program (src/src/services/                *)
(* migration_service, TorrentRepository::migrateRowIdPage): blocking ones  *)
(* that run before the services, in pages that can be interrupted between  *)
(* two writes, and background ones that resume at the last row a crash     *)
(* left on disk, while the services index new torrents.                    *)
(*                                                                         *)
(* A row of `torrents` is [id, hash, type]; the files of a torrent are one *)
(* row [id, hash] of `files`.  Sorting by id is the order of the numbers.  *)
(***************************************************************************)
EXTENDS Integers, FiniteSets, FiniteSetsExt, Functions

CONSTANTS
    Hash,
    RowId,        \* rowIdFromHash: the derived id, 0 for an unusable hash
    BestType,     \* what the classifier says of the torrent and its files
    Installs,     \* the installations that are explored: [disk, torrents, files]
    kPageSize,    \* rows per page of the re-keying, and of a batch
    MaxFaults,    \* bound: commands of the database that fail
    MaxCrashes,   \* bound: crashes
    MaxAdds       \* bound: torrents the services add

Type == {"unknown", "known"}
TorrentRow == [id : Nat \ {0}, hash : Hash, type : Type]
FileRow == [id : Nat \ {0}, hash : Hash]

\* registerMigrations, in its order.
SyncMigrations == <<"cleanup", "derive", "interval">>
AsyncMigrations == <<"recategorize", "removeUnknown">>
Migrations == Range(SyncMigrations) \cup Range(AsyncMigrations)

MigrationState == [id : {"none"} \cup Range(AsyncMigrations), lastId : Nat, counted : BOOLEAN]
StateFile == [exists : BOOLEAN, readable : BOOLEAN, completed : SUBSET Migrations,
              inProgress : MigrationState]

Keyed(rows) == \A r, s \in rows : r.id = s.id => r = s
AllDerived(rows) == \A r \in rows : r.id = RowId[r.hash]
\* An id that is derived from a row of the table is not the number of another one.
NoSquatters(rows) == \A r, s \in rows : r.id = RowId[s.hash] => r.id = RowId[r.hash]

\* A torrent the classifier would recognise; the only row of its hash's id.
Missed(rows) == {r \in rows : r.type = "unknown" /\ BestType[r.hash] # "unknown"}
Sole(rows, h) == RowId[h] # 0 /\ \A o \in rows : RowId[o.hash] = RowId[h] => o.hash = h

\* A program finds tables with a key, whose old numbers are smaller than what is
\* derived; without a state file, or once it says so, they are derived.  What can
\* be recognised has its files, and has not been passed by a recategorisation.
MigrationAssumption ==
    /\ RowId \in [Hash -> Nat] /\ BestType \in [Hash -> Type] /\ kPageSize \in Nat \ {0}
    /\ \A i \in Installs :
          /\ i.disk \in StateFile
          /\ i.torrents \subseteq TorrentRow /\ i.files \subseteq FileRow
          /\ \A rows \in {i.torrents, i.files} :
                /\ IsFiniteSet(rows) /\ Keyed(rows) /\ NoSquatters(rows)
                /\ ~i.disk.exists \/ "derive" \in i.disk.completed => AllDerived(rows)
          /\ \A r \in Missed(i.torrents) :
                /\ Sole(i.files, r.hash) /\ \E f \in i.files : f.hash = r.hash
                /\ i.disk.exists /\ "recategorize" \notin i.disk.completed
                /\ i.disk.inProgress.id = "recategorize" =>
                      RowId[r.hash] > i.disk.inProgress.lastId
ASSUME MigrationAssumption

VARIABLES
    stateFile,  \* migrations.json
    mem,        \* completedMigrations_, inProgressMigration_
    phase,      \* where the program is
    rekey,      \* syncDeriveRowIds: its table, cursor and page
    async,      \* the background worker
    stop,       \* stopRequested_
    torrents, files, feed, walkInterval,
    had,        \* hashes the index held when this version was installed
    dropped,    \* hashes the clean-up of Unknown rows removed
    faults, crashes, adds

migrationVars == <<stateFile, mem, phase, rekey, async, stop, torrents, files, feed,
                   walkInterval, had, dropped, faults, crashes, adds>>

NoMigration == [id |-> "none", lastId |-> 0, counted |-> FALSE]
NoPage == [table |-> "torrents", cursor |-> 0, doomed |-> {}, rewritten |-> FALSE]
IdleWorker == [at |-> "idle", id |-> "none", lastId |-> 0, batch |-> {}, last |-> FALSE]

MigrationInit ==
    /\ \E i \in Installs : stateFile = i.disk /\ torrents = i.torrents /\ files = i.files
    /\ mem = [completed |-> {}, inProgress |-> NoMigration]
    /\ phase = "off" /\ rekey = NoPage /\ async = IdleWorker /\ stop = FALSE
    /\ feed = "old" /\ walkInterval \in {5, 250}
    /\ had = {r.hash : r \in torrents}
    /\ dropped = {} /\ faults = 0 /\ crashes = 0 /\ adds = 0

Tables == <<torrents, files>>
Data == <<torrents, files, feed, walkInterval, dropped>>
Bounds == <<faults, crashes, adds, had>>
Fault == faults < MaxFaults /\ faults' = faults + 1

\* saveState: what is on disk after it.
Saved(m) == [exists |-> TRUE, readable |-> TRUE, completed |-> m.completed,
             inProgress |-> m.inProgress]
\* loadState: a file that cannot be parsed says nothing.
Loaded == IF stateFile.readable
          THEN [completed |-> stateFile.completed, inProgress |-> stateFile.inProgress]
          ELSE [completed |-> {}, inProgress |-> NoMigration]

\* The constructor: without a state file there is nothing to migrate.
Start ==
    /\ phase = "off"
    /\ phase' = "sync"
    /\ mem' = IF stateFile.exists THEN Loaded
              ELSE [completed |-> Migrations, inProgress |-> NoMigration]
    /\ stateFile' = IF stateFile.exists THEN stateFile ELSE Saved(mem')
    /\ rekey' = NoPage /\ async' = IdleWorker /\ stop' = FALSE
    /\ UNCHANGED <<Data, Bounds>>

\* markMigrationCompleted: also saved.
MarkCompleted(m) ==
    /\ mem' = [completed |-> mem.completed \cup {m},
               inProgress |-> IF mem.inProgress.id = m THEN NoMigration ELSE mem.inProgress]
    /\ stateFile' = Saved(mem')

-----------------------------------------------------------------------------
(* runSyncMigrations: each in its order, until one fails                    *)

Pending(list) == {k \in DOMAIN list : list[k] \notin mem.completed}
IsNext(list, m) == \E k \in Pending(list) : list[k] = m /\ \A j \in Pending(list) : k <= j
Running(m) == phase = "sync" /\ IsNext(SyncMigrations, m)

\* No blocking migration is left: the services start.
SyncDone ==
    /\ phase = "sync" /\ Pending(SyncMigrations) = {}
    /\ phase' = "services"
    /\ UNCHANGED <<stateFile, mem, rekey, async, stop, Data, Bounds>>

\* A body that fails stops the list; the application starts all the same.
SyncFails ==
    /\ phase' = "services" /\ rekey' = NoPage
    /\ UNCHANGED <<stateFile, mem, async, stop>>

\* syncCleanupFeedStorage: the feed table and the storage folder go.
CleanupFeedStorage ==
    /\ Running("cleanup")
    /\ feed' = "clean"
    /\ MarkCompleted("cleanup")
    /\ UNCHANGED <<phase, rekey, async, stop, Tables, walkInterval, dropped, Bounds>>

\* syncUpdateWalkInterval: only an earlier default is raised.
UpdateWalkInterval ==
    /\ Running("interval")
    /\ walkInterval' = IF walkInterval < 100 THEN 100 ELSE walkInterval
    /\ MarkCompleted("interval")
    /\ UNCHANGED <<phase, rekey, async, stop, Tables, feed, dropped, Bounds>>

\* The ids of the next page of a table, in order.
Ids(rows) == {r.id : r \in rows}
PageAfter(rows, cursor) ==
    LET later == {i \in Ids(rows) : i > cursor} IN
    {i \in later : Cardinality({j \in later : j <= i}) <= kPageSize}
At(rows, i) == CHOOSE r \in rows : r.id = i
Table == IF rekey.table = "torrents" THEN torrents ELSE files

\* The moves of a page: the first row of a hash carries it, unless the id it
\* wants is held by another torrent.  Every row moved or unusable is retired.
Free(rows, h) == \A o \in rows : o.id = RowId[h] => o.hash = h
Movable(rows, ids) ==
    {i \in ids : RowId[At(rows, i).hash] \notin {0, i} /\ Free(rows, At(rows, i).hash)}
Moves(rows, ids) ==
    {i \in Movable(rows, ids) : \A j \in Movable(rows, ids) :
        RowId[At(rows, j).hash] = RowId[At(rows, i).hash] => i <= j}
Retired(rows, ids) == {i \in ids : i # RowId[At(rows, i).hash]}

Rewritten(rows, ids) ==
    LET new == {[At(rows, i) EXCEPT !.id = RowId[At(rows, i).hash]] : i \in Moves(rows, ids)}
    IN {r \in rows : r.id \notin Ids(new)} \cup new

SetTable(rows) ==
    IF rekey.table = "torrents" THEN torrents' = rows /\ UNCHANGED files
                                ELSE files' = rows /\ UNCHANGED torrents

\* migrateRowIdPage, its first half: read, decide, write the replacements.
RekeyPage ==
    /\ Running("derive") /\ ~rekey.rewritten
    /\ LET ids == PageAfter(Table, rekey.cursor) IN
       /\ ids # {}
       /\ SetTable(Rewritten(Table, ids))
       /\ rekey' = [rekey EXCEPT !.cursor = Max(ids), !.doomed = Retired(Table, ids),
                                 !.rewritten = Retired(Table, ids) # {}]
    /\ UNCHANGED <<stateFile, mem, phase, async, stop, feed, walkInterval, dropped, Bounds>>

\* Its second half: the originals are retired.
RetirePage ==
    /\ Running("derive") /\ rekey.rewritten
    /\ SetTable({r \in Table : r.id \notin rekey.doomed})
    /\ rekey' = [rekey EXCEPT !.rewritten = FALSE, !.doomed = {}]
    /\ UNCHANGED <<stateFile, mem, phase, async, stop, feed, walkInterval, dropped, Bounds>>

\* A query or a write of the page fails: the migration fails, and is not marked.
RekeyFails ==
    /\ Running("derive") /\ Fault
    /\ SyncFails
    /\ UNCHANGED <<Data, crashes, adds, had>>

\* An empty page ends the table; the last table ends the migration.
RekeyTableDone ==
    /\ Running("derive") /\ ~rekey.rewritten /\ PageAfter(Table, rekey.cursor) = {}
    /\ IF rekey.table = "torrents"
       THEN rekey' = [NoPage EXCEPT !.table = "files"] /\ UNCHANGED <<mem, stateFile>>
       ELSE rekey' = NoPage /\ MarkCompleted("derive")
    /\ UNCHANGED <<phase, async, stop, Data, Bounds>>

-----------------------------------------------------------------------------
(* startAsyncMigrations: a worker beside the services                       *)

StartAsync ==
    /\ phase = "services" /\ async.at = "idle" /\ Pending(AsyncMigrations) # {} /\ ~stop
    /\ async' = [IdleWorker EXCEPT !.at = "next"]
    /\ UNCHANGED <<stateFile, mem, phase, rekey, stop, Data, Bounds>>

\* The next migration of the list; its record is kept when it is resumed.
NextMigration ==
    /\ async.at = "next"
    /\ IF stop \/ Pending(AsyncMigrations) = {}
       THEN async' = [IdleWorker EXCEPT !.at = "ended"] /\ UNCHANGED mem
       ELSE \E m \in Range(AsyncMigrations) :
            /\ IsNext(AsyncMigrations, m)
            /\ mem' = IF mem.inProgress.id = m THEN mem
                      ELSE [mem EXCEPT !.inProgress = [NoMigration EXCEPT !.id = m]]
            /\ async' = [IdleWorker EXCEPT !.at = "counting", !.id = m,
                                         !.lastId = mem'.inProgress.lastId]
    /\ UNCHANGED <<stateFile, phase, rekey, stop, Data, Bounds>>

Unknown == {r \in torrents : r.type = "unknown"}

\* Both bodies count once; the removal has nothing to do when it counts none.
CountItems(ok) ==
    /\ async.at = "counting"
    /\ ok \/ ~mem.inProgress.counted
    /\ LET rows == IF async.id = "removeUnknown" THEN Unknown ELSE torrents
           found == mem.inProgress.counted \/ (ok /\ rows # {})
       IN /\ mem' = [mem EXCEPT !.inProgress.counted = found]
          /\ async' = [async EXCEPT !.at =
                 IF async.id = "removeUnknown" /\ ~found THEN "done" ELSE "batch"]
    /\ IF ok THEN UNCHANGED faults ELSE Fault
    /\ UNCHANGED <<stateFile, phase, rekey, stop, Data, crashes, adds, had>>

\* One turn of the loop: a page of rows; none, or a failed query, ends it.
QueryBatch(ok) ==
    /\ async.at = "batch"
    /\ ok \/ ~stop
    /\ LET rows == IF async.id = "removeUnknown" THEN Unknown ELSE torrents
           ids == PageAfter(rows, async.lastId)
       IN async' = IF stop \/ ~ok \/ ids = {} THEN [async EXCEPT !.at = "done"]
                   ELSE [async EXCEPT !.at = "rows", !.batch = {r \in rows : r.id \in ids},
                             !.last = async.id = "recategorize" /\ Cardinality(ids) < kPageSize]
    /\ IF ok THEN UNCHANGED faults ELSE Fault
    /\ UNCHANGED <<stateFile, mem, phase, rekey, stop, Data, crashes, adds, had>>

HasFiles(h) == \E f \in files : f.hash = h /\ f.id = RowId[h]

\* updateClassification of a row found under its derived id.
Recategorize(r) ==
    LET new == IF HasFiles(r.hash) THEN BestType[r.hash] ELSE r.type IN
    /\ torrents' = IF new = r.type THEN torrents
                   ELSE {IF t.id = RowId[r.hash] /\ t.hash = r.hash
                         THEN [t EXCEPT !.type = new] ELSE t : t \in torrents}
    /\ UNCHANGED <<files, dropped>>

\* TorrentRepository::remove: the row and the files under the derived id.
RemoveUnknown(r) ==
    LET id == RowId[r.hash]
        other == \E t \in torrents : t.id = id /\ t.hash # r.hash
    IN IF id = 0 \/ other THEN UNCHANGED <<torrents, files, dropped>>
       ELSE /\ torrents' = {t \in torrents : t.id # id}
            /\ files' = {f \in files : f.id # id}
            /\ dropped' = IF torrents' = torrents THEN dropped ELSE dropped \cup {r.hash}

\* Plausible bug: the resume point is set to the end of the batch at its start.
RowAhead ==
    /\ async.at = "rows" /\ async.batch # {} /\ ~stop
    /\ \E r \in async.batch :
       /\ \A s \in async.batch : r.id <= s.id
       /\ IF async.id = "recategorize" THEN Recategorize(r) ELSE RemoveUnknown(r)
       /\ async' = [async EXCEPT !.lastId = r.id, !.batch = @ \ {r}]
       /\ mem' = [mem EXCEPT !.inProgress.lastId = Max(Ids(async.batch))]
    /\ UNCHANGED <<stateFile, phase, rekey, stop, feed, walkInterval, Bounds>>

\* The body of one row, and its id as the point to resume from.
ProcessRow ==
    /\ async.at = "rows" /\ async.batch # {} /\ ~stop
    /\ \E r \in async.batch :
       /\ \A s \in async.batch : r.id <= s.id
       /\ IF async.id = "recategorize" THEN Recategorize(r) ELSE RemoveUnknown(r)
       /\ async' = [async EXCEPT !.lastId = r.id, !.batch = @ \ {r}]
       /\ mem' = [mem EXCEPT !.inProgress.lastId = r.id]
    /\ UNCHANGED <<stateFile, phase, rekey, stop, feed, walkInterval, Bounds>>

\* The batch is through, or a stop was seen; a short batch is the last one.
BatchDone ==
    /\ async.at = "rows" /\ (async.batch = {} \/ stop)
    /\ async' = [async EXCEPT !.at = IF async.last THEN "done" ELSE "batch", !.batch = {}]
    /\ UNCHANGED <<stateFile, mem, phase, rekey, stop, Data, Bounds>>

\* The body returned: completed, unless a stop was requested.
BodyDone ==
    /\ async.at = "done"
    /\ IF stop THEN UNCHANGED <<mem, stateFile>> ELSE MarkCompleted(async.id)
    /\ async' = [IdleWorker EXCEPT !.at = "next"]
    /\ UNCHANGED <<phase, rekey, stop, Data, Bounds>>

\* The five-second timer while the worker runs.
SaveState ==
    /\ async.at \notin {"idle", "ended"} /\ stateFile # Saved(mem)
    /\ stateFile' = Saved(mem)
    /\ UNCHANGED <<mem, phase, rekey, async, stop, Data, Bounds>>

\* The destructor: stop the worker, wait for it, save.
RequestStop ==
    /\ phase = "services" /\ ~stop /\ async.at \notin {"idle", "ended"}
    /\ stop' = TRUE /\ stateFile' = Saved(mem)
    /\ UNCHANGED <<mem, phase, rekey, async, Data, Bounds>>
Quit ==
    /\ phase = "services" /\ async.at \in {"idle", "ended"} /\ crashes < MaxCrashes
    /\ phase' = "off" /\ stateFile' = Saved(mem) /\ crashes' = crashes + 1
    /\ UNCHANGED <<mem, rekey, async, stop, Data, faults, adds, had>>

\* The process dies, and its worker with it; a state file that was being written is
\* left unreadable.
Crash(torn) ==
    /\ phase # "off" /\ crashes < MaxCrashes
    /\ phase' = "off" /\ crashes' = crashes + 1
    /\ stateFile' = IF torn THEN [stateFile EXCEPT !.readable = FALSE] ELSE stateFile
    /\ rekey' = NoPage /\ async' = IdleWorker
    /\ UNCHANGED <<mem, stop, Data, faults, adds, had>>

\* The services meet a torrent the index does not answer for.
ServicesAdd(h) ==
    /\ phase = "services" /\ adds < MaxAdds /\ adds' = adds + 1
    /\ RowId[h] # 0 /\ RowId[h] \notin Ids(torrents)
    /\ torrents' = torrents \cup {[id |-> RowId[h], hash |-> h, type |-> BestType[h]]}
    /\ files' = {f \in files : f.id # RowId[h]} \cup {[id |-> RowId[h], hash |-> h]}
    /\ UNCHANGED <<stateFile, mem, phase, rekey, async, stop, feed, walkInterval, dropped,
                   faults, crashes, had>>

-----------------------------------------------------------------------------
MigrationNext ==
    \/ Start \/ SyncDone \/ CleanupFeedStorage \/ UpdateWalkInterval
    \/ RekeyPage \/ RetirePage \/ RekeyFails \/ RekeyTableDone
    \/ StartAsync \/ NextMigration \/ ProcessRow \/ BatchDone \/ BodyDone
    \/ SaveState \/ RequestStop \/ Quit
    \/ \E b \in BOOLEAN : CountItems(b) \/ QueryBatch(b) \/ Crash(b)
    \/ \E h \in Hash : ServicesAdd(h)

MigrationSpec == MigrationInit /\ [][MigrationNext]_migrationVars

-----------------------------------------------------------------------------
MigrationTypeOK ==
    /\ stateFile \in StateFile
    /\ mem \in [completed : SUBSET Migrations, inProgress : MigrationState]
    /\ phase \in {"off", "sync", "services"} /\ stop \in BOOLEAN
    /\ rekey \in [table : {"torrents", "files"}, cursor : Nat, doomed : SUBSET Nat,
                  rewritten : BOOLEAN]
    /\ async \in [at : {"idle", "next", "counting", "batch", "rows", "done", "ended"},
                  id : {"none"} \cup Range(AsyncMigrations), lastId : Nat,
                  batch : SUBSET TorrentRow, last : BOOLEAN]
    /\ torrents \subseteq TorrentRow /\ files \subseteq FileRow
    /\ feed \in {"old", "clean"} /\ walkInterval \in Nat
    /\ had \subseteq Hash /\ dropped \subseteq Hash /\ faults \in Nat

Contended(h) == \E g \in Hash \ {h} : RowId[g] = RowId[h]
Kept == {h \in Hash : RowId[h] # 0 /\ ~Contended(h)}

(* Re-keying, interrupted between any two writes and run again, loses no    *)
(* torrent: a hash that had a row still has one, and once the migration is  *)
(* recorded as done every row is found under the id derived from its hash.  *)
RekeyedWhole ==
    /\ \A h \in had \cap Kept : h \in dropped \/ \E r \in torrents : r.hash = h
    /\ "derive" \in stateFile.completed =>
          AllDerived(torrents) /\ AllDerived(files)

(* The clean-up only removes what recategorisation left Unknown, however    *)
(* often either was stopped, crashed and resumed (while no command fails):  *)
(* a torrent with files that can be recognised is never thrown away.        *)
RemovedWasUnknown == faults = 0 => \A h \in dropped : BestType[h] = "unknown"
=============================================================================
