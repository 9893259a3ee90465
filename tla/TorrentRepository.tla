-------------------------- MODULE TorrentRepository --------------------------
(***************************************************************************)
(* The rows of the Qt program's index and its one write path (src/src/data/*)
(* torrent_repository, src/src/services/indexing_service): callers on      *)
(* several threads, each of whose operations is a sequence of database     *)
(* commands; rows addressed by an id derived from the hash, so that two    *)
(* hashes may want one id; a row of files beside each torrent; counters    *)
(* that follow the writes.                                                 *)
(*                                                                         *)
(* A torrent is [hash, files, votes]; it has a size unless it is Sizeless. *)
(***************************************************************************)
EXTENDS Integers, Sequences, FiniteSets, FiniteSetsExt, Functions

CONSTANTS
    Client,         \* threads that write: the crawler's, an import, a migration
    Infohash,
    rowIdFromHash,  \* 0 for an unusable hash
    Filtered,        \* hashes the filter policy refuses
    Sizeless,       \* hashes of torrents that come without a size
    Work,           \* the operations each client may run: [kind, ts]
    Outcomes,       \* whether a command succeeds whose failure nothing makes up for
    MaxOps,         \* bound: operations of one client
    MaxRejects      \* bound: writes of a torrent's row that fail

Torrent == [hash : Infohash, files : Nat, votes : Nat]
NoRow == [hash |-> "none", files |-> 0, votes |-> 0]
IdOf(t) == rowIdFromHash[t.hash]
Slots == Range(rowIdFromHash) \ {0}

\* An insert and a removal are of one torrent, a batch of any number.
ASSUME RepositoryAssumption ==
    /\ IsFiniteSet(Infohash) /\ "none" \notin Infohash
    /\ rowIdFromHash \in [Infohash -> Nat]
    /\ \A c \in Client : \A w \in Work[c] : w.ts \in Seq(Torrent)

VARIABLES
    store,         \* the torrents table: by id, a torrent or NoRow
    fileStore,     \* the files table: by id, the hash of the row or "none"
    stats,         \* stats_: torrents, files
    doing,         \* per client, the operation it is in
    ops, rejects

repositoryVars == <<store, fileStore, stats, doing, ops, rejects>>

\* An operation: its next command; the torrents it was given; by their position,
\* the stored copy of those to merge; by id, those to add; what updateFiles read.
IdleJob == [at |-> "idle", ts |-> <<>>, found |-> <<>>, new |-> <<>>, oldCount |-> 0]

RepositoryInit ==
    /\ store = [i \in Slots |-> NoRow] /\ fileStore = [i \in Slots |-> "none"]
    /\ stats = [torrents |-> 0, files |-> 0]
    /\ doing = [c \in Client |-> IdleJob]
    /\ ops = [c \in Client |-> 0] /\ rejects = 0

-----------------------------------------------------------------------------
(* The order of an operation's commands                                     *)

\* The merge of insert() and insertBatch(): a file list for a row without one,
\* and higher votes.
Backfills(t, old) == old.files = 0 /\ t.files > 0
Outvotes(t, old) == t.votes > old.votes

\* The torrent being merged, and the copy of its row that was read.
Position(j) == Min(DOMAIN j.found)
Offered(j) == j.ts[Position(j)]
Copy(j) == j.found[Position(j)]

\* updateFiles() succeeded: the copy is kept in step with what it wrote.
\* Plausible bug: the row is rebuilt from a copy that misses the new file list.
StaleCopy(j) == j
Backfilled(j) == [j EXCEPT !.found[Position(j)].files = Offered(j).files]

\* The next torrent to merge; after the last one, those that are new are written.
Proceed(j) ==
    CASE DOMAIN j.found # {} ->
           [j EXCEPT !.at = IF Backfills(Offered(j), Copy(j)) THEN "readCount" ELSE "checkSlot"]
      [] DOMAIN j.found = {} /\ DOMAIN j.new # {} -> [j EXCEPT !.at = "write"]
      [] OTHER -> IdleJob
Merged(j) == Proceed([j EXCEPT !.found = Restrict(@, DOMAIN @ \ {Position(j)})])
AfterFiles(j) == IF Outvotes(Offered(j), Copy(j)) THEN [j EXCEPT !.at = "checkSlot"] ELSE Merged(j)

Begin(c, j) ==
    /\ doing[c].at = "idle" /\ ops[c] < MaxOps
    /\ ops' = [ops EXCEPT ![c] = @ + 1]
    /\ doing' = [doing EXCEPT ![c] = j]
    /\ UNCHANGED <<store, fileStore, stats, rejects>>

\* resolve(): who holds the id.  A query that failed answers with no rows.
Resolve(t, answered) == IF answered THEN store[IdOf(t)] ELSE NoRow

\* addMany lets an id leave once: of the first torrent that wants it.
Claimed(ts, added) ==
    [i \in {IdOf(ts[k]) : k \in added} |-> ts[Min({k \in added : IdOf(ts[k]) = i})]]

\* The first torrent of every usable hash: one whose row it is, is merged; one
\* whose id is free and that the filter lets pass, is new.
Lookup(ts, answered) ==
    LET old == [k \in {n \in DOMAIN ts : IdOf(ts[n]) # 0} |-> Resolve(ts[k], answered)]
        first == {k \in DOMAIN old : \A n \in DOMAIN old : ts[n].hash = ts[k].hash => k <= n}
        found == {k \in first : /\ old[k].hash = ts[k].hash
                                /\ Backfills(ts[k], old[k]) \/ Outvotes(ts[k], old[k])}
        added == {k \in first : old[k] = NoRow /\ ts[k].hash \notin Filtered}
    IN Proceed([IdleJob EXCEPT !.ts = ts, !.found = Restrict(old, found),
                              !.new = Claimed(ts, added)])

\* IndexingService::insert, with add(), and insertBatch, with addMany(): one
\* query first.  (The signal of insert() to its listeners is left out.)
Insert(c, t, answered) ==
    /\ [kind |-> "insert", ts |-> <<t>>] \in Work[c]
    /\ Begin(c, Lookup(<<t>>, answered))
InsertMany(c, ts, answered) ==
    /\ [kind |-> "batch", ts |-> ts] \in Work[c]
    /\ Begin(c, Lookup(ts, answered))

\* remove(): what the row counted for is read first.
RemoveRow(c, t, answered) ==
    /\ [kind |-> "remove", ts |-> <<t>>] \in Work[c] /\ IdOf(t) # 0
    /\ LET old == Resolve(t, answered) IN
       Begin(c, IF old.hash \in {"none", t.hash}
                THEN [IdleJob EXCEPT !.at = "delete", !.ts = <<t>>,
                                     !.found = IF old = NoRow THEN <<>> ELSE <<old>>]
                ELSE IdleJob)

-----------------------------------------------------------------------------
(* One command of a client                                                  *)

Now(c, step) == doing[c].at = step
Goto(c, step) == doing' = [doing EXCEPT ![c].at = step]
Slot(c) == IdOf(Offered(doing[c]))

\* updateFiles: refused when the row is gone or another's.
ReadCount(c, answered) ==
    /\ Now(c, "readCount")
    /\ LET j == doing[c]
           r == Resolve(Offered(j), answered)
       IN doing' = [doing EXCEPT ![c] =
              IF r.hash = Offered(j).hash THEN [j EXCEPT !.at = "saveFiles", !.oldCount = r.files]
              ELSE AfterFiles(j)]
    /\ UNCHANGED <<store, fileStore, stats, ops, rejects>>

\* saveFiles: one REPLACE, unchecked.
SaveFiles(c, ok) ==
    /\ Now(c, "saveFiles") /\ Goto(c, "setFiles")
    /\ fileStore' = IF ok THEN [fileStore EXCEPT ![Slot(c)] = Offered(doing[c]).hash] ELSE fileStore
    /\ UNCHANGED <<store, stats, ops, rejects>>

\* bumpStatistics, clamped at zero.
Bump(torrentCount, fileCount) ==
    stats' = [torrents |-> Max({0, stats.torrents + torrentCount}),
              files |-> Max({0, stats.files + fileCount})]

SetFiles(c, ok) ==
    /\ Now(c, "setFiles")
    /\ LET j == doing[c] IN
       /\ store' = IF ~ok \/ store[Slot(c)] = NoRow THEN store
                  ELSE [store EXCEPT ![Slot(c)].files = Offered(j).files]
       /\ IF ok THEN Bump(0, Offered(j).files - j.oldCount) ELSE UNCHANGED stats
       /\ doing' = [doing EXCEPT ![c] = AfterFiles(IF ok THEN Backfilled(j) ELSE j)]
    /\ UNCHANGED <<fileStore, ops, rejects>>

\* update() looks at the slot again, and gives up when another torrent has it.
CheckSlot(c, answered) ==
    /\ Now(c, "checkSlot")
    /\ LET t == Offered(doing[c]) IN
       IF Resolve(t, answered).hash \in {"none", t.hash} THEN Goto(c, "rewrite")
       ELSE doing' = [doing EXCEPT ![c] = Merged(@)]
    /\ UNCHANGED <<store, fileStore, stats, ops, rejects>>

Checked(ok) == IF ok THEN UNCHANGED rejects
               ELSE rejects < MaxRejects /\ rejects' = rejects + 1

\* The whole row again, rebuilt from the copy.
Rewrite(c, ok) ==
    /\ Now(c, "rewrite") /\ Checked(ok)
    /\ LET j == doing[c] IN
       /\ store' = IF ~ok THEN store
                  ELSE [store EXCEPT ![Slot(c)] = [Copy(j) EXCEPT !.votes = Offered(j).votes]]
       /\ doing' = [doing EXCEPT ![c] = Merged(j)]
    /\ UNCHANGED <<fileStore, stats, ops>>

\* The REPLACE of add() and addMany(): all rows or none; a failure ends the
\* operation without counting.
WriteRows(c, ok) ==
    /\ Now(c, "write") /\ Checked(ok)
    /\ LET new == doing[c].new IN
       IF ok THEN /\ store' = [i \in Slots |-> IF i \in DOMAIN new THEN new[i] ELSE store[i]]
                  /\ Goto(c, "writeFiles")
             ELSE UNCHANGED store /\ doing' = [doing EXCEPT ![c] = IdleJob]
    /\ UNCHANGED <<fileStore, stats, ops>>

\* Their files; a torrent without any has no row of them.
WriteFiles(c, ok) ==
    /\ Now(c, "writeFiles") /\ Goto(c, "count")
    /\ LET new == doing[c].new IN
       fileStore' = [i \in Slots |-> IF ok /\ i \in DOMAIN new /\ new[i].files > 0
                                    THEN new[i].hash ELSE fileStore[i]]
    /\ UNCHANGED <<store, stats, ops, rejects>>

Total(f, S) == MapThenSumSet(LAMBDA i : f[i], S)
FileCounts(table) == [i \in DOMAIN table |-> table[i].files]

Count(c) ==
    /\ Now(c, "count")
    /\ LET new == doing[c].new IN Bump(Cardinality(DOMAIN new), Total(FileCounts(new), DOMAIN new))
    /\ doing' = [doing EXCEPT ![c] = IdleJob]
    /\ UNCHANGED <<store, fileStore, ops, rejects>>

\* Neither of the two is checked.
Delete(c, ok) ==
    /\ Now(c, "delete") /\ Goto(c, "deleteFiles")
    /\ store' = IF ok THEN [store EXCEPT ![IdOf(doing[c].ts[1])] = NoRow] ELSE store
    /\ UNCHANGED <<fileStore, stats, ops, rejects>>
\* A row without size and files is not taken for one that was counted.
Weighs(t, row) == t.hash \notin Sizeless \/ row.files > 0
DeleteFiles(c, ok) ==
    /\ Now(c, "deleteFiles")
    /\ fileStore' = IF ok THEN [fileStore EXCEPT ![IdOf(doing[c].ts[1])] = "none"] ELSE fileStore
    /\ doing' = [doing EXCEPT ![c] =
           IF DOMAIN @.found = {} \/ ~Weighs(@.ts[1], @.found[1]) THEN IdleJob
           ELSE [@ EXCEPT !.at = "uncount"]]
    /\ UNCHANGED <<store, stats, ops, rejects>>
Uncount(c) ==
    /\ Now(c, "uncount")
    /\ Bump(-1, -doing[c].found[1].files)
    /\ doing' = [doing EXCEPT ![c] = IdleJob]
    /\ UNCHANGED <<store, fileStore, ops, rejects>>

-----------------------------------------------------------------------------
RepositoryNext ==
    \E c \in Client :
       \/ \E w \in Work[c], a \in Outcomes :
             Insert(c, w.ts[1], a) \/ InsertMany(c, w.ts, a) \/ RemoveRow(c, w.ts[1], a)
       \/ \E a \in Outcomes :
             \/ ReadCount(c, a) \/ SaveFiles(c, a) \/ SetFiles(c, a) \/ CheckSlot(c, a)
             \/ WriteFiles(c, a) \/ Delete(c, a) \/ DeleteFiles(c, a)
       \/ Count(c) \/ Uncount(c)
       \/ \E ok \in BOOLEAN : Rewrite(c, ok) \/ WriteRows(c, ok)

RepositorySpec == RepositoryInit /\ [][RepositoryNext]_repositoryVars

-----------------------------------------------------------------------------
RepositoryTypeOK ==
    /\ store \in [Slots -> Torrent \cup {NoRow}]
    /\ \A i \in Slots : store[i] # NoRow => IdOf(store[i]) = i
    /\ fileStore \in [Slots -> Infohash \cup {"none"}]
    /\ stats \in [torrents : Nat, files : Nat]

Quiet == \A c \in Client : Now(c, "idle")
Stored(table) == {i \in DOMAIN table : table[i] # NoRow}

(* Between operations the counters equal the table, and a torrent counts    *)
(* files exactly when the files row under its id is its own, although these *)
(* are kept by separate commands, batches repeat hashes and ids collide.    *)
CountersExact ==
    Quiet => /\ stats.torrents = Cardinality(Stored(store))
             /\ stats.files = Total(FileCounts(store), Slots)
             /\ \A i \in Slots : fileStore[i] = IF store[i].files > 0 THEN store[i].hash ELSE "none"

(* A stored torrent is never overwritten by another one, and no insert      *)
(* takes votes or files from it: it only goes by being removed.             *)
StoredUntouched ==
    [][\A i \in Stored(store) : store'[i] = NoRow \/
          /\ store'[i].hash = store[i].hash
          /\ store'[i].votes >= store[i].votes /\ store'[i].files >= store[i].files]_repositoryVars

\* What both are stated under, with Outcomes = {TRUE}: no two clients work on one row.
Reach(c) == {i \in Slots : \E w \in Work[c] : \E k \in DOMAIN w.ts : IdOf(w.ts[k]) = i}
Apart == \A c, d \in Client : c # d => Reach(c) \cap Reach(d) = {}
\* ... and what is removed has a size: add() counts a torrent without one too.
RemovedWeigh ==
    \A c \in Client : \A w \in Work[c] : w.kind = "remove" => w.ts[1].hash \notin Sizeless
=============================================================================
