---------------------------- MODULE TorrentIndex ----------------------------
(***************************************************************************)
(* The index of a node and who writes it: Indexer                          *)
(* (native/engine/indexer.cpp), the write path of GroongaIndex             *)
(* (native/index/groonga_index.cpp) and the scrape results of              *)
(* TrackerService (native/engine/tracker_service.cpp).                     *)
(*                                                                         *)
(* All of it runs on the engine loop, so a handler is one action; between  *)
(* two handlers anything else the loop holds may run. Groonga knows no     *)
(* transactions: a write is a list of commands, and a process that dies    *)
(* leaves any prefix of them behind (the Crash actions).                   *)
(*                                                                         *)
(* A row keeps what the properties tell apart: whether it has a name,      *)
(* seeders, the date added, and the keys of its info object ("files" for   *)
(* filesList, "site" for scraped extras). Torrents the filter rejects and  *)
(* upserts that fail change nothing and are left out, and so are the vote  *)
(* columns.                                                                *)
(***************************************************************************)
EXTENDS Integers, FiniteSets, Sequences

CONSTANTS IndexHash,     \* info-hashes
          Torrents,      \* torrents that may be discovered, or come from peers
          Cap,           \* indexMaxTorrents
          Slack,         \* slack above Cap (100 or more in the code)
          Batch,         \* kBatchCap
          FileIndex,     \* the fileIndex setting
          Undeletable,   \* hashes whose delete command fails
          MaxFound,      \* discoveries (a bound)
          MaxCrashes     \* crashes (a bound)

Dates == 0..1
Seeders == 0..1
InfoKeys == {"files", "site"}

Torrent == [hash : IndexHash, seeders : Seeders, added : Dates,
            info : SUBSET {"site"}, list : BOOLEAN]
Row == [named : BOOLEAN, seeders : Seeders, added : Dates, info : SUBSET InfoKeys]

TorrentIndexAssumptions ==
    /\ IsFiniteSet(IndexHash)
    /\ Torrents \subseteq Torrent
    /\ Cap \in Nat /\ Slack \in Nat
    /\ Batch \in Nat \ {0}
    /\ FileIndex \in BOOLEAN
    /\ Undeletable \subseteq IndexHash
    /\ MaxFound \in Nat /\ MaxCrashes \in Nat

VARIABLES db,            \* both tables: keys and columns of Torrents, hashes in Files
          recordCount,   \* recordCount_
          pruneInFlight, \* pruneInFlight_
          batches,       \* pruneBatch() closures in the loop's queue
          counts,        \* swarm scrapes under way, by hash
          infos,         \* site scrapes under way, by hash
          found,         \* discoveries so far
          crashes        \* crashes so far

pruning == <<recordCount, pruneInFlight, batches>>
indexVars == <<db, pruning, counts, infos, found, crashes>>

\* The column values Groonga gives a row nobody has written.
Blank == [named |-> FALSE, seeders |-> 0, added |-> 0, info |-> {}]

-----------------------------------------------------------------------------
(* GroongaIndex: commands, and the writes made of them. A write is the      *)
(* sequence of states it leaves after each command.                         *)

Known(h) == h \in db.keys

\* "load" creates the row if need be.
Load(d, h, row) == [d EXCEPT !.keys = @ \cup {h}, !.col[h] = row]

RemoveFilesFor(d, h) == IF FileIndex THEN [d EXCEPT !.files = @ \ {h}] ELSE d

DeleteTorrent(d, h) == [d EXCEPT !.keys = @ \ {h}, !.col[h] = Blank]

\* info is written only if there is some: otherwise the old value stays.
Written(old, t) ==
    LET info == t.info \cup (IF t.list THEN {"files"} ELSE {})
    IN [named |-> TRUE, seeders |-> t.seeders, added |-> t.added,
        info |-> IF info = {} THEN old.info ELSE info]

\* Files.torrent refers to Torrents: a file row of an unknown torrent creates it.
LoadFiles(d, h) == [d EXCEPT !.keys = @ \cup {h}, !.files = @ \cup {h}]

Upsert(d, t) ==
    LET loaded == Load(d, t.hash, Written(d.col[t.hash], t))
        cleared == RemoveFilesFor(loaded, t.hash)
        filled == IF FileIndex /\ t.list THEN LoadFiles(cleared, t.hash) ELSE cleared
    IN <<loaded, cleared, filled>>

Remove(d, h) ==
    <<RemoveFilesFor(d, h), DeleteTorrent(RemoveFilesFor(d, h), h)>>

\* Remove() of all victims, of which the row went only for those in gone.
Pruned(d, victims, gone) ==
    [keys |-> d.keys \ gone,
     col |-> [h \in IndexHash |-> IF h \in gone THEN Blank ELSE d.col[h]],
     files |-> IF FileIndex THEN d.files \ victims ELSE d.files]

\* sort_keys "seeders,added": r may come before s.
WorthLess(r, s) ==
    \/ r.seeders < s.seeders
    \/ r.seeders = s.seeders /\ r.added <= s.added

LowestValueHashes(limit) ==
    {S \in SUBSET db.keys :
        /\ Cardinality(S) = IF limit < Cardinality(db.keys) THEN limit
                            ELSE Cardinality(db.keys)
        /\ \A v \in S, k \in db.keys \ S : WorthLess(db.col[v], db.col[k])}

-----------------------------------------------------------------------------
(* Indexer.                                                                 *)

\* Does maybePrune() start a chain of batches at count n?
MaybePrune(n, flying) == Cap > 0 /\ ~flying /\ n > Cap + Slack

\* handleDiscovered(), for a torrent the filter accepts.
HandleDiscovered(t) ==
    LET n == recordCount + 1
        prune == MaybePrune(n, pruneInFlight)
    IN /\ found < MaxFound
       /\ found' = found + 1
       /\ db' = Upsert(db, t)[3]
       /\ IF Known(t.hash)
          THEN UNCHANGED <<pruning, counts, infos>>
          ELSE /\ recordCount' = n
               /\ pruneInFlight' = (pruneInFlight \/ prune)
               /\ batches' = batches + (IF prune THEN 1 ELSE 0)
               /\ counts' = counts \cup {t.hash}
               /\ infos' = infos \cup {t.hash}
       /\ UNCHANGED crashes

Least(m, n) == IF m < n THEN m ELSE n
Limit == Least(IF recordCount > Cap THEN recordCount - Cap ELSE 0, Batch)

\* Is another batch posted after one that removed gone and left so many?
GoOn(left, gone) == left > Cap /\ gone # {}

\* Plausible bug: the flag is cleared after each batch, not after the last.
FlagAfterEarly(on) == FALSE

FlagAfter(on) == on

\* Plausible bug: failed deletes are counted as removed.
RemovedOfAll(victims, gone) == Cardinality(victims)

Removed(victims, gone) == Cardinality(gone)

\* pruneBatch(); with nothing over the cap it only clears the flag.
PruneBatch ==
    /\ batches > 0
    /\ \E victims \in LowestValueHashes(Limit) :
          LET gone == victims \ Undeletable
              left == recordCount - Removed(victims, gone)
              on == GoOn(left, gone)
          IN /\ db' = Pruned(db, victims, gone)
             /\ recordCount' = left
             /\ batches' = batches - 1 + (IF on THEN 1 ELSE 0)
             /\ pruneInFlight' = FlagAfter(on)
    /\ UNCHANGED <<counts, infos, found, crashes>>

-----------------------------------------------------------------------------
(* TrackerService: scrape results, posted to the loop by the scrapers long  *)
(* after the row was looked at. A scrape may also end without a result.     *)

\* rowExists(), or readInfoRaw() having found the row.
MayUpdate(h) == Known(h)

CountsScraped(h, n) ==
    /\ h \in counts
    /\ counts' = counts \ {h}
    /\ db' = IF MayUpdate(h) THEN Load(db, h, [db.col[h] EXCEPT !.seeders = n]) ELSE db
    /\ UNCHANGED <<pruning, infos, found, crashes>>

\* mergeInfo(): the scraped keys are added to those the row has.
InfoScraped(h) ==
    /\ h \in infos
    /\ infos' = infos \ {h}
    /\ db' = IF MayUpdate(h)
             THEN Load(db, h, [db.col[h] EXCEPT !.info = @ \cup {"site"}]) ELSE db
    /\ UNCHANGED <<pruning, counts, found, crashes>>

ScrapeFails(h) ==
    /\ \/ h \in counts /\ counts' = counts \ {h} /\ UNCHANGED infos
       \/ h \in infos /\ infos' = infos \ {h} /\ UNCHANGED counts
    /\ UNCHANGED <<db, pruning, found, crashes>>

-----------------------------------------------------------------------------
(* The process: killed between two commands, and started again.             *)

\* Indexer's constructor asks the index.
StartsAt(d) == Cardinality(d.keys)

Restart(d) ==
    /\ crashes < MaxCrashes
    /\ crashes' = crashes + 1
    /\ db' = d
    /\ recordCount' = StartsAt(d)
    /\ pruneInFlight' = FALSE /\ batches' = 0
    /\ counts' = {} /\ infos' = {}
    /\ UNCHANGED found

Crash == Restart(db)

CrashInUpsert(t) == \E i \in 1..3 : Restart(Upsert(db, t)[i])

\* Some victims are gone, one more may have lost its files only.
CrashInPrune ==
    /\ batches > 0
    /\ \E victims \in LowestValueHashes(Limit) :
       \E gone \in SUBSET victims : \E h \in victims \ gone, i \in 1..2 :
          Restart(Remove(Pruned(db, gone, gone), h)[i])

IndexInit ==
    /\ db = [keys |-> {}, col |-> [h \in IndexHash |-> Blank], files |-> {}]
    /\ recordCount = 0 /\ pruneInFlight = FALSE /\ batches = 0
    /\ counts = {} /\ infos = {}
    /\ found = 0 /\ crashes = 0

IndexNext ==
    \/ \E t \in Torrents : HandleDiscovered(t) \/ CrashInUpsert(t)
    \/ PruneBatch
    \/ \E h \in IndexHash : \/ \E n \in Seeders : CountsScraped(h, n)
                       \/ InfoScraped(h)
                       \/ ScrapeFails(h)
    \/ Crash \/ CrashInPrune

IndexSpec == IndexInit /\ [][IndexNext]_indexVars

-----------------------------------------------------------------------------
(* Properties.                                                              *)

IndexTypeOK ==
    /\ db \in [keys : SUBSET IndexHash, col : [IndexHash -> Row], files : SUBSET IndexHash]
    /\ recordCount \in Nat
    /\ pruneInFlight \in BOOLEAN /\ batches \in Nat
    /\ counts \subseteq IndexHash /\ infos \subseteq IndexHash
    /\ found \in 0..MaxFound /\ crashes \in 0..MaxCrashes

\* recordCount_, which the cap is judged by, is the number of rows: however
\* discoveries, prunes, failed deletes and restarts mix, it never drifts.
CountExact == recordCount = Cardinality(db.keys)

\* There is one chain of prune batches at most, and the flag says when: a second
\* chain would delete twice what is over the cap.
OneChain == batches = IF pruneInFlight THEN 1 ELSE 0

\* No row without a name: a scrape result that comes after its row was pruned
\* does not bring the row back (groonga_index.cpp:437-441).
NoPhantom == \A h \in IndexHash : Known(h) <=> db.col[h].named

\* Every entry of Files belongs to a row of Torrents, also after a crash between
\* two commands: the order of the commands sees to it.
FilesOwned == db.files \subseteq db.keys

\* Together: however discoveries, peers' copies, prunes, late scrapes and crashes mix,
\* the two tables and what the indexer believes of them agree.
IndexAgrees == CountExact /\ OneChain /\ NoPhantom /\ FilesOwned

\* A prune chain that ends, by itself, has brought the index to its cap, unless
\* its last batch could delete nothing.
EndsAtCap ==
    [][pruneInFlight /\ ~pruneInFlight' /\ UNCHANGED crashes
         => \/ Cardinality(db'.keys) <= Cap
            \/ UNCHANGED db.keys /\ db.keys \cap Undeletable # {}]_indexVars

\* What search_index.h:54 and groonga_index.cpp:386-388 say: an upsert updates
\* every column, and a file list that is stored is also in the Files table.
ListsSearchable ==
    FileIndex /\ crashes = 0 =>
        \A h \in db.keys : "files" \in db.col[h].info => h \in db.files
=============================================================================
