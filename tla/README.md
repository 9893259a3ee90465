# Formal models of rats-search (ratsn and the Qt application)

This directory keeps TLA+ models of rats-search beside its code: what the
components do, what makes them correct, what TLC checks on small instances and
what TLAPS proves for every instance. Paths are relative to the repository.

rats-search is a BitTorrent search engine without a server. A node listens to
the DHT, fetches the metadata of the torrents it hears of, classifies and
filters them, keeps them in a local full-text index, exchanges torrents, votes
and a feed with other nodes, scrapes trackers for swarm sizes and site data,
and downloads torrents. The repository holds the program twice: the Qt
application (`src/**`, Manticore as index) and a Qt-free rewrite for terminals
(`native/**`, Groonga as index) that ports the same services. Both are modelled.
Where they do the same with different threads, timers or files, each has a
module of its own.

## 1. Inventory

### The native program

All application state belongs to one thread, the *engine loop*
(`platform/engine_loop`): a mutex-protected FIFO of closures and a heap of
delayed ones. Other threads -- librats' reactor and workers, the worker pool of
the tracker scrapers, the terminal UI -- post closures to it and wait for
nothing. What is hard is what crosses that border: a callback that runs before,
between or after the closures it depends on; timers that re-arm themselves
across stop and start; state that is written to disk later than it changed; and
messages of other nodes that may come twice, late or never.

| Component | State it keeps | Operations | Talks to | What makes it correct |
|---|---|---|---|---|
| Engine loop (`native/platform/engine_loop`) | FIFO, heap of delayed tasks, stop flag | post, postDelayed, run, stop | every component | FIFO order, no closure twice, stop returns |
| Worker pool (`native/platform/worker_pool`) | task queue, threads, stopping flag | post, stopAndDrain, workerLoop | scrapers | stop terminates, no task starts after it, none lost before |
| Crawler (`native/engine/crawler`) | recent hashes, metadata queue, fetch counter | start, stop, onAnnounce, processMetadataQueue, fetchMetadata and its callback | librats (spider, BEP 9), indexer | bound on fetches, one retry, nothing lost |
| Indexer (`native/engine/indexer`) | record count, prune flag | handleDiscovered, maybePrune, pruneBatch, isKnownHash | index, crawler, tracker scrapes | count equals rows, index stays near its cap |
| Groonga index (`native/index/groonga_index`) | Torrents and Files tables | upsert, remove, updateStats, updateVotes, mergeInfo, searches | every reader | file rows belong to torrents, no phantom rows |
| P2P store, voting (`native/engine/p2p_store`, `voting`) | replicated vote records, the votes of this run | put, find, vote, aggregate, onRecordStored | index, feed | one vote per peer and torrent, columns follow the records |
| Feed (`native/engine/feed`) | items, date, dirty and scheduled flags, file | load, add, addByHash, save, flush, fromJsonArray | voting, peer API, disk | one entry per torrent, bounded, nothing unsaved for ever |
| Replication (`native/engine/replication`) | interval, running flag, counters | start, stop, performCycle, settle | peer API | one timer chain, only new rows counted |
| Peer API, registry, node host (`native/engine/peer_api`, `peer_registry`, `node_host`) | peer table | requests, responses, connect, disconnect | librats, index, feed, replication | answers applied to the right state, no ghost peers |
| Swarm scraper (`native/engine/swarm_scraper`) | slots, queue, last-scrape times | requestScrape, processQueue, announces, stop | worker pool, tracker service | bound on scrapes, the best result reported once, stop drains |
| Site scraper (`native/engine/site_scraper`) | slots, queue, per-hash strategy state | scrape, onStrategyComplete, checkAllComplete | worker pool, tracker service | as the swarm scraper, both strategies joined |
| Tracker service (`native/engine/tracker_service`) | flags | onTorrentIndexed, onCountsScraped, onInfoScraped | scrapers, index | results never create rows |
| Downloads (`native/engine/downloads`, `session_store`) | downloads, revision counters, session file | add, restore, remove, pause, resume, poll, autosave, load, save | librats, disk, UI | completion reported once, session file never behind for ever |
| Torrent files (`native/engine/torrent_file`) | -- | fetch a .torrent | librats, UI | one answer per fetch |
| Terminal UI (`native/tui/**`) | view state of each tab | key handlers, snapshots of engine state | engine loop, librats | no stale answer shown, no delete of another row, threads end before the screen |
| Domain code (`native/domain/**`) | -- | classification, filter policy, codecs | indexer, peer API, commands | order of rules, every limit |
| Batch commands (`native/main.cpp`) | one page or line at a time | export, import, cleanup, add | index, filter policy, files | every row once |
| Configuration, paths, log (`native/platform`) | settings file | load, save | main | settings survive a restart |

### The Qt application

One Qt thread owns the services; librats' threads queue signals to it; exports,
imports, migrations and snapshots run on workers of their own; dialogs nest
event loops; Manticore's `searchd` and the updater script are other processes.

| Component | State it keeps | Operations | Talks to | What makes it correct |
|---|---|---|---|---|
| Crawler (`src/net/crawler`) | recent hashes, queue, counter, timer | start, stop, onAnnounce, processMetadataQueue, results | librats, indexing service | counter follows the fetches, also over stop and start |
| Torrent repository (`src/data/torrent_repository`) | rows, file rows, statistics | add, addMany, update, updateFiles, remove | Manticore, indexing service | counters equal tables, ids that collide do not overwrite |
| Manticore supervision (`src/data/manticore`) | status, child, timer, binlog flags | start, waitForReady, checkConnection, stop | processes, files | one daemon, none left behind, binlog dropped only when torn |
| Migrations (`src/services/migration_service`) | state file, cursor | blocking and background migrations | database | no row lost over crash and resume |
| Database sync, snapshots (`src/services/database_sync_service`, `database_snapshot`) | local operation, serves, snapshot job, generations | request, serve, cancel, offer, rebuild | transport, exporter, importer | a file being read stays, nobody waits for nothing |
| Dumps (`src/services/database_exporter`, `_importer`, `_dump`) | queue of pages, frames, resume point | export, import, cancel, resume, sweep | repository, disk | a good dump is whole, a resume skips nothing |
| Updates (`src/services/update_service`) | state, temporary directory | check, download, extract, install | network, main window, script | the script has what it installs |
| Downloads (`src/services/download_service`, `src/net/torrent_engine`, session store) | registry, session file | add, remove, pause, select, poll, load, save | librats | registry and client agree |
| Torrent export (`src/services/torrent_exporter`) | in-flight marks | export | torrent engine, disk | no mark outlives its fetch |
| Voting, feed (`src/services/voting_service`, `feed_service`, `p2p_store`, `src/data/feed_repository`) | votes of this run, feed, timer | vote, record, flush, load | store, database | a vote counts once, the table follows |
| Transport, peer registry (`src/net/p2p_transport`, `src/services/peer_registry`) | handlers, peers, count | start, stop, send, peer events | librats | one dispatcher per type, counts and table follow the links |
| Peer API, replication (`src/peer/peer_api`, `src/services/replication_service`, `indexing_service`) | -- | requests, responses, timers | transport, repository, feed | an answer never takes from a row |
| Tracker scrapers (`src/net/swarm_scraper`, `tracker_site_scraper`, `src/services/tracker_service`) | slots, queues, timers, entries | scrape, replies, toggles, stop | trackers, sites, repository | slots exact; after stop only reports that were already posted |
| REST and WebSocket API (`src/rest`) | connections, pending calls | routes, late answers | every service | one answer per call |
| Main window and panels (`src/ui`) | what is shown of what | searches, details, files, downloads, votes | every service | what is shown belongs together |
| Application, settings (`src/app`, `src/bootstrap`) | services, configuration | start, stop | every service | order of start and stop |

Not in C++: the legacy Electron program, translations, installers. librats is a
submodule whose contents are not in the repository.

### Behaviours that are hard

* Callbacks on foreign threads: metadata, announces, storage records, peer
  events, replies of sites; nested event loops of dialogs.
* Timer chains without cancellation: crawler, replication, feed flush, download
  poll and autosave re-post themselves and only look at a flag.
* Two truths for one fact: vote records and columns; record count and rows;
  download list, client and session file; feed and its file or table; file list
  and file rows; fetch counter and fetches; slots and scrapes; a panel and the
  service behind it.
* Crashes between a change and its write, and between two writes: sessions,
  feeds, resume points, migration state, index commands, binlog.
* Processes that outlive the program: searchd, the updater script.
* Peers: responses that arrive after the state they answer has changed, that
  time out, that repeat, that come from a session that has been abandoned.

`PROJECT.json` lists the hazards line by line with the properties that watch
them.

## 2. Plan

The order follows what hurts most if it is wrong: first what runs on several
threads, then what is persisted, then what several nodes share, then what the
user sees.

| Module(s) | Abstract specification | State |
|---|---|---|
| `Crawler` | `AnnounceLedger` | checked; safety and refinement proved |
| `Downloads` | -- | checked; safety proved |
| `TorrentIndex` | -- | checked; safety proved |
| `WorkerPool` | `TaskPool` | checked; safety and refinement proved |
| `Feed` | -- | checked; safety proved |
| `SiteScraper` (on a `TaskPool`) | -- | checked; safety proved |
| `PeerNode`: engine loop, node host, registry, peer API, replication, votes | -- | checked; safety proved |
| `SwarmScraper`, `Tui`, `Batch` (`Engine` puts them beside the two above) | -- | checked; safety proved |
| `DatabaseSync`, `DumpExport`, `DumpImport`, `Migration`, `TorrentRepository`, `Manticore`, `Updater`, `SpiderCrawler` (`QtServices`) | -- | checked; safety proved |
| `DownloadService`, `TorrentExport`, `VotedFeed`, `Transport`, `PeerExchange`, `TrackerService`, `RestApi`, `MainWindow` (`QtPeers`) | -- | checked; safety proved |

Compositions: `Engine`, `QtServices` and `QtPeers` put parts beside each other
for the proofs; `MCNative`, `MCQtData` and `MCQtNet` extend them with small
instances for TLC (section 4). What is left to prove is in section 7, under "only
model-checked".

## 3. Conventions

* A loop -- the engine loop, the Qt event loop -- runs one closure at a time, so
  a closure, slot or handler is one action, with every call it makes. Code that
  runs on another thread, between two releases of a mutex, between two commands
  of a database, or between two `exec()` of a dialog is an action of its own.
* Parameters are CONSTANTS; assumptions on them are named. Bounds are named
  `Max...` or are sets (`Heard`, `Cast`, `Torrents`, `Plans`, `Installs`), and a
  comment says "bound".
* History variables and fields are called that where they are declared: the
  program does not keep them, the properties need them.
* Operators whose comment begins "Plausible bug" are mutations of the operator
  that follows. Nothing uses them; in the place of the operator each makes the
  run it is listed for in `PROJECT.json` fail, which shows that the property can
  fail.
* A cfg named after a disagreement (`DownloadsOffline`, `IndexLists`,
  `FeedUnsaved`, `SiteScraperLeak`, `RestUpdate`) is expected to find a
  violation; section 6 lists them.
* `CHECK_DEADLOCK FALSE` is set where the program ends: the loop has stopped,
  the pool is closed, the bounds are used up.
* librats, users, trackers, sites, peers and disks are external: what they may do
  is modelled from how the code uses them, and is left open otherwise.

## 4. The models

### Crawler, AnnounceLedger

| Model | Code |
|---|---|
| `inbox`, `queue`, `recent`, `active` | posted closures, `metadataQueue_`, `recentHashes_`, `activeFetches_` |
| `fetches` with a phase | requests in librats: in flight, or their callback between `--activeFetches_` and what follows |
| `pumping` | the engine thread is inside the loop of `processMetadataQueue` |
| `AnnounceArrives`, `OnAnnounce` | spider callback on librats' thread; the closure it posts |
| `PumpBegins`, `PumpFetches`, `PumpEnds` | `processMetadataQueue`, one iteration at a time |
| `FetchReturns`, `ResultFailed`, `ResultArrived` | the callback: the decrement; the retry or the end; the posting of the torrent |
| `OnMetadataReceived`, `OnIgnoreToggle`, `Start`, `Stop`, `LoopEnds` | as named |

The decrement comes before the re-queue in the callback, hence two actions: a
slot may be given to another request before the failed one is queued again.
`recent` drops any half when it is full, as iteration over an unordered set
does. `AnnounceLedger` is the promise to the caller; the crawler implements it
with `fetching` mapped to the requests in flight.

Run `crawler`: three announces, two hashes, two slots, a set of one recent
hash. Two slots with three requests make the pump meet a full pool, and slots
that are freed while it loops; with one recent hash eviction lets a hash be
fetched twice at once. Announces are alike but for hash and known peer, so
`Heard` lists the combinations that differ and drops what is a renaming. What
is found: the bound holds although counter and pump are on different threads,
because only the pump increments.

Fairness: the loop runs what is posted (strong, because a pump in between
disables it again and again), the pump's timer fires, librats calls back.

### Downloads

`downloads` is the manager's map, `session` the session file, `torrents` the
librats client with what it knows of each torrent, `resume` its resume data,
`disk` the pieces that are on disk, `changed`/`everSaved` the comparison of
revisions that autosave makes. Commands (`Add`, `Remove`, `RemoveAndDelete`,
`TogglePause`), `Poll` (progress, metadata, completion, `removeOnDone`) and
`Autosave` are one action each; the client moves by itself between them
(metadata, recheck, pieces); `Crash` and `Shutdown` end a run, `Start` reads
the file and restores.

Instance in `native`: one torrent of two pieces through two runs. Downloads do
not interact -- every loop body touches one entry, and the revision counter is
shared but only ever raised -- so one torrent shows each body against the file,
the client and the restart; the program is started twice because nothing but
the session file, resume data and the disk survive. Two pieces give "none",
"some", "all". `FirstSessions` includes files as the Qt program leaves them.

Fairness: the poll fires while the program runs, and some autosave succeeds
in writing. Nothing is assumed of users or peers.

### TorrentIndex

`db` holds the keys and columns of Torrents and the keys of Files. A write is a
sequence of Groonga commands (`Upsert` lists the states between them); a crash
may leave any prefix (`CrashInUpsert`, `CrashInPrune`). `recordCount`,
`pruneInFlight` and `batches` (closures posted) are the indexer's; `counts` and
`infos` are scrapes under way for a torrent, whose results come whenever they
come. A restart counts the rows again.

Instance in `native`: three torrents, cap one, slack one, batches of one, one
row that cannot be deleted, three discoveries, one crash. The cap is passed by
one and by two, so that a chain has one batch, several batches, or ends because
nothing can be deleted; a second chain could start while one runs; results come
for rows that were pruned. `Mixed` fixes what each torrent looks like, one kind
per hash being enough as the handlers treat hashes alike.

Fairness: the loop runs the posted batch.

### WorkerPool, TaskPool

Each region under the mutex is an action: `Post` up to the unlock, `Take`,
`Wait`, `Exit`, `Stop` up to the unlock; `NotifyOne` and `NotifyAll` come
after it and are separate; `Spurious` ends a wait for no reason; `Join` is the
caller's last join. `owed` counts the notifications not yet given. `TaskPool`
is what the scrapers rely on, and `WorkerPool` implements it: a task is
accepted, starts in order, once, or is dropped by closing.

Run `pool`: three workers and three tasks. With fewer no worker can be waiting
while another runs and a third is on its way to wait, which is where a lost
wake-up would be.

Fairness: threads that can run do; a task is not assumed to return
(`Finish` has no fairness), so `NoneIdlesBesideWork` is shown for tasks that
block for ever and `StopReturns` under the condition that tasks end.

### Feed

Each node has `feed`, `feedDate`, `dirty`, `flushScheduled`, the closure
`timer` and its `file`; `answers[m][n]` is m's `feed_response` on its way to n.
`AddByHash` is the vote (or a peer's vote record) with `Add` and `MarkDirty`;
`Flush` is the debounced closure, `Shutdown`, `Crash`, `Load` the ends and the
start of a run; `HandleFeedRequest` and `HandleFeedResponse` the exchange. The
score that orders the feed moves with time and depends on votes; it only
decides which entry a full feed loses, and that choice is left open. An answer is
its items, its date and the size its sender states, which is a number apart: the
size and the date decide whether it is taken over (`MayReplace`), and only then
are blocked and malformed items dropped and the rest cut to the bound (`Taken`;
`Refused` is what is dropped). A node of this program states the size of what it
sends; `Foreign` are answers of other programs, which may not. `NeverShrinks`
says what the code grants: a running node's feed gets smaller only by taking over
an answer that states more than may be taken of it (`Overstated`).
`modified` is history: when a vote last changed what a feed holds, wherever
its content came from.

Run `feed`: two nodes, three torrents for two places, a fourth that is refused,
three votes or foreign answers, one restart, two seconds. One foreign answer
counts a refused item, one lists more than fits. A full feed has to give up an
entry, answers cross, and an answer may meet a newer feed, a restarted node or a
feed of the same size. A third node adds only another sender. `Cast` says who
may vote on what: votes on the same torrent by one node cover an update in
place.

Fairness: delayed closures run as long as the loop does.

### SiteScraper

`pending` is `pendingScrapes_`, `active` the slots, `waiting` the overflow
queue, `recent` the hashes in cooldown, `fetches` what the pool runs (taken as
`TaskPool` promises), `inbox` the results posted to the loop. `RequestScrape`
is `scrape()`, `ApplyResult` the posted closure with `onStrategyComplete`,
`checkAllComplete` and `processQueue` in one, as they run; a search at nyaa may
lead to a second request. The numbers of scrapes are history, so that
`ClosedByItsOwn` can tell a result of an earlier scrape from one of the later.

`CooldownEnds` is time passing. A request ends after 20 s and a cooldown after
an hour, so a scrape that runs never outlasts its cooldown; one that waits may,
if the backlog is long, and only with `Outlast`.

Run `site_scraper`: three scrapes, two slots, three hashes: one scrape has to
wait, and a hash may be scraped a second time.

Fairness: a request ends, if only by its timeout (the pool has eight threads
for at most six requests), and the loop applies results.

### PeerNode

The engine loop with what runs on it. `queue`, `due` and `delayed` are the
loop's FIFO, the batch that one pass took out, and the closures of the heap by
kind (when one is due is left open); `CollectDueTasks` is the head of a pass,
every other action of the loop runs the first closure of `due`; `Stop` and
`RunReturns` end it, and what is still queued is dropped. `links` and `records`
are librats' (peers, replicated store), `table` the registry, `rows` and `feed`
what votes and answers of peers change, `running`, `received`, `total`
replication's. `PeerConnects`, `PeerDisconnects`, `Request`, `Response`,
`ChangeCallback` run on librats' thread and post; `OnPeerConnected`, the
`Handle...` actions, `Vote`, `OnRecordStored`, `PerformCycle`, `Settle` are the
closures. `out` is what a step sends, so that a reply to a peer is visible.

`NodeAgrees`: replication has one closure to go on with while it runs and none
otherwise; `total` never exceeds the rows that were new; a peer in the table is
linked or a closure that removes it is queued; our vote is added to a column
once. Instance: one peer, one torrent, two posts from outside, three delayed
closures -- enough for a response between disconnect and its closure, for a vote
twice with the store refusing it, and for a cycle that overlaps an answer.

### SwarmScraper

`Started` is `startScrape` (one pool task per tracker), `Take`, `Announced`,
`Leaves` the steps of a task on a pool thread: begin, merge under the mutex,
decrement and, if last, post; `Reported` the closure with `processQueue`;
`Stop` and `Drained` the two halves of `stop()`. `found` is history: what each
tracker said. `ScrapesRight` compares what is posted with it (`ReportIsBest`)
and the slots taken with the scrapes that have not been reported
(`SlotPerScrape`). Instance: two scrapes of two trackers over one slot, so that
the second waits.

Fairness: pool threads go on and the loop runs what is posted.

### Tui

Three threads: the screen's (`HandleKey`, `TriggerSearch`, `OnActivated`,
`Quit`, and `RunPosted`, which runs one posted closure), the engine loop's
(`RunTask`, `RunSearch`, `OnRemoteHit`, `Tick`, `FeedChanges`, `FetchAnswered`
on a thread of librats) and the watcher's (`SeesItRun`, `SeesItStop`,
`SeesTheUiLeave`). `posted` and `tasks` are the two queues between them;
`generation`, `feedGeneration` and the revisions are how late answers are told
apart. A row carries the generation it was found for, as history.

`ScreenIsRight` conjoins: rows of one search (`OneSearchShown`), a counted vote
on the row or on its way (`VotesShown`, with strict search: without it a peer may
send an indexed torrent that the text does not match, with the votes the peer
knows of), the feed as it is or asked for again
(`FeedIsCurrent`), the downloads of the last snapshot (`RowsFollow`), files
deleted only under two X on that row (`DeletedTwiceAsked`), a save marked
exactly while its one answer is owed (`SavesOwed`), no thread left when the
screen goes (`ScreenOutlivesThreads`). Instance: two torrents, two texts, two
keys per tab (three for downloads, for X, move, X), one change from outside.

### Batch

`CmdExport`/`ExportPage`, `CmdImport`/`ImportLine`/`ImportDone`,
`CmdCleanup`/`CleanupPage` and `CmdAdd` are the commands of `main.cpp`, a page
or line at a time; `Killed` may come between any two, `PageFails` is a Groonga
command that fails, which the code reads as the end. `Classify` and
`RejectionReason` are `content_classifier.cpp` and `filter_policy.cpp` with
their order of rules; words and files are kinds, sizes small numbers. A page
(`PageAfterId`) is the rows with the smallest ids past the last one, described
as the set of sequences that are one.
`BatchWhole` says what a command may claim when it ends without a failed page:
the export has each row once, the import accounts for each line and holds what
it accepted, the clean-up left nothing the policy refuses. Instance: four
torrents that differ in type, words, file list and tracker, five policies that
use every filter, pages of one row, two commands.

### SpiderCrawler

The Qt crawler: `Start` and `Stop` alternate with fetches under way; `calls` are
the invocations queued for the Qt thread, `flight` librats' fetches, whose
callback (`OnResult`) decrements the counter from another thread. `stop()` sets
the counter to zero and the callbacks still come: `OffByTheStops` says how far
counter and fetches drift apart (by the fetches that stops left behind, history
`orphaned`) and that a crawler never stopped is exact. Instance: three hashes,
one known, one fetch at a time, two starts, a set of two recent hashes.

### TorrentRepository

The rows and the one path that writes them, by callers on several threads.
`Insert` and `InsertMany` (one query, then what it calls for), and `RemoveRow`,
begin an operation; `ReadCount`, `SaveFiles`, `SetFiles`, `CheckSlot`, `Rewrite`,
`WriteRows`, `WriteFiles`, `Count`, `Delete`, `DeleteFiles`, `Uncount` are each
one command of it, and between two of them the others run. `doing` holds what an
operation has read: the torrents it was given, the stored copies of those to
merge, by id those to add. Rows are addressed by an id derived from the hash,
which two hashes may share, and a batch may repeat a hash.

`CountersExact` and `StoredUntouched` hold where no two clients work on one row
(`Apart`) and the commands whose failure nothing makes up for succeed (`Outcomes`);
writes that are checked may fail (`MaxRejects`). Two writers of one torrent, or a
query that fails and reads as "absent", make the counters drift, and no document
promises otherwise. A torrent that comes without a size (`Sizeless`) is counted
when it is added, and when it is removed only if it has files
(`torrent_repository.cpp:312`): the counters hold if none such is removed
(`RemovedWeigh`). Instance: an importer of hashes of
which two collide, one is unusable and one has no size, single and in batches,
beside a crawler that adds, adds again and removes another.

### Manticore

`at` is where the program is in `start()`, the two `waitForReady()`, the
recovery and `stop()`; `process` is the child, `foreign` the daemon an earlier
run left, `pidFile` whose pid is in the file, `binlog` the state of the binlog.
The daemons move by themselves (`WritesPid`, `Serves`, `BlamesBinlog`,
`ChildDies`, `ForeignDies`), the program may be killed anywhere
(`ProgramKilled`). `ResetOnlyTorn`: the binlog goes only if it is torn, nobody
has it open, and once per start; `NoneLeftBehind`: a program that is gone by
itself leaves no child. Instance: three runs, two deaths.

Fairness: the connection check fires; `BelievesTheDead` then ends.

### Migration

`stateFile` is `migrations.json` (which may be torn), `mem` what was loaded; blocking
migrations (`CleanupFeedStorage`, `RekeyPage`/`RetirePage`, `UpdateWalkInterval`)
run first, background ones (`StartAsync`, `CountItems`, `QueryBatch`,
`ProcessRow`, `BatchDone`, `SaveState`) beside `ServicesAdd`. `Crash`, `Quit`
and a failing command come anywhere; a crash ends the worker with the process.
What a first start finds (`Installs`) is bounded by `MigrationAssumption`: tables
with a key, in which no old number is what the hash of another row derives; and
what the classifier recognises but is still Unknown has its files under an id of
its own and has not been passed by a recategorisation yet. `RekeyedWhole`: a hash that had a row keeps
one, through any number of interrupted runs, and once recorded as done every row
is under its derived id; `RemovedWasUnknown`: what the clean-up throws away
could not be recognised (`dropped`). Instance: a new installation and three old ones, with
a doubled row, colliding ids, an unusable hash, and one half-way through; pages
of two, one fault, one crash, one torrent added meanwhile.

### DatabaseSync

One server, several pullers, one FIFO of messages per direction. `pull` is each
puller's `local_`, `serves` the server's table, `job` the snapshot job and its
thread (`RunSnapshot`), `snapshot`/`onDisk` the generations. Every handler of
the protocol is an action, with the deadlines (`Deadline`), the heartbeat, the
user's cancel, the sharing switch, `Disconnect` and `Restart`. `FilesHeld`: a
file that is being sent, and the live one, are on disk; `WaitersHaveJob`: who was
told to wait waits for a job that will end; a pull ends. Instance (`Plans`): one
peer that pulls twice, or once beside two generations, from a node that
restarts (a fresh snapshot that is loaded again may still be fresh or not), an
offer that does not leave, disconnects and is switched; two peers at once, with room for one
serve and for two.

Fairness: what is in a queue is handled, transfers and imports end, deadlines
pass. Two conditions on messages, one per puller, because a server repeats its
progress without end and would satisfy a common one by that alone.

### DumpExport, DumpImport

`DumpExport`: the reader (`Open`, `ReadPage`, `Push`, `FinishQueue`, `Return`,
`Report`) and the serialiser (`Pop`, `Write`) with the bounded queue between
them, closed from either end; `Cancel` at any moment; writes and reads may fail.
`DumpIsWhole`: a dump reported good has behind its footer every page read, once,
in order; one that failed leaves no file. Sizes: empty, as long as the
read-ahead, twice as long. Both threads are fair, so an export ends.

`DumpImport`: `ReadBatch`, `InsertBatch`, `SaveResumeState` per frame, `Cancel`,
`EndImport`, `Report`, and `Restart` after a death between any two, with the
sweep of old files. `ResumeNeverSkips`: what lies before the resume point was
inserted, or refused by the database; `ResumeKeepsFile`: an import that can be
resumed keeps its file. Dumps: whole, cut off, corrupt.

### Updater

Checks and downloads as replies that are in flight, the stack of dialogs whose
nested event loops let further replies in, the temporary directories, the
prompt, the ways to close the window, and the script that waits for the program
to be gone. `UpdaterHasFiles`: the directory the script was given exists, is
extracted and has its script, whatever later downloads and destructors do.
Instance: a check by timer and two by the user, two downloads.

### DownloadService, TorrentExport

`DownloadService`: registry, librats' torrents, session file and resume data, as
in `Downloads` but with the Qt rules (a restored torrent is shown as it was
saved, a snapshot resets the selection). `RegistryAgrees`: the same torrents,
paused alike, and what is shown as completed was announced in this run. Two
torrents, three commands, two starts. `TorrentExport`: `RequestExport`,
`Fetched`, `ResultArrives`, `BittorrentStops`; `MarkedIffOwed`: a hash is marked
exactly while an answer is owed.

### VotedFeed

Votes and feed of the Qt program: `CastVote`, `RemoteRecord`, `OnRecordStored`,
`FromJsonArray`, `Flush` with three outcomes (done, nothing done, rows deleted
and not all inserted), `Start` with and without a store, `Stop`, `ProgramDies`.
A peer's feed is compared by the size its sender states, then filtered and cut.
`VotedOnceAndOwed`: an own vote counts once per run; the feed is in its size;
while writes succeed a change is in the table or owed by a running timer.

### Transport, PeerExchange

`Transport`: `start`/`stop`, registration of handlers before and after a node is
there, peer events queued for the Qt thread, the count by event and by timer,
`client_info` out and in. `PeersAgree`: each handler is wired once; table, count
and what peers were told of our sharing follow the links but for what is queued.
Two peers, two starts.

`PeerExchange`: two nodes joined by FIFO channels; every request and response
handler of `peer_api.cpp`, merging into rows, replication timers, disconnects.
`KeepsTheBest`: no answer takes votes or files from a row, a row with a list says
so, and `total` counts new rows once. One torrent, held with a list and a vote
by one node, absent or bare at the other, which asks four times.

### TrackerService

Both Qt scrapers in one run of the service: announces on pool threads
(`PoolTakes`, `AnnounceOne`, `TaskLeaves`), pages as replies on the Qt thread
(`RutrackerAnswers`, `NyaaAnswers`, `ViewPageAnswers`, `Failed`), queue timers,
toggles, and `stop()` in two halves. `CooledDown` is time passing: a cooldown
outlasts its scrape, as it does with the request timeouts of the code and queues
shorter than an hour's work (`SiteScraper` shows what happens otherwise).
An announce that is over before it sees the stop still merges what it got.
`ScrapesAccounted`: the posted result is the best, once; slots, queues, timers
and pending counts match the scrapes; after stop nothing runs, waits or is asked
for (`OnlyReportsAfterStop`). Reports that the pool posted before stop() returned
are still in the Qt thread's queue then, and are written when it gets to them:
their closure does not look at `stopping_` (`swarm_scraper.cpp:275-292`).

### RestApi

A connection opens, its header arrives, then its request; `RouterCall` answers
at once or leaves `respond` with a peer's reply and a 15 s timer, a fetch in the
DHT, or the signals of the updater (`owes`). `RespondOnce`: `respond` has run
once exactly if nobody holds it, and an HTTP connection that waits has a call.
`AlwaysResponds` is the promise of `api_router.h`; section 6 tells where it
fails. A client sends one request per connection, as the server's `Connection:
close` tells it; one that pipelines a second is not modelled, nor is the socket
itself (section 8).

### MainWindow

Results, details panel, files panel, downloads list and one torrent tab, with
the services behind them (`registry`, `index`, `favorites`, `voted`); `asked` are
questions to peers, trackers, web servers and the DHT, answered in any order
(`RemoteSearchResults`, `DhtAnswers`, `RemoteTorrentReceived`, `TrackersAnswer`,
`PosterLoaded`). A torrent is copied when it is put into a hit, a tab's selection
or a reply, and the copy stays as it was made: `Copy` says whether it has votes, a
tracker's page, a list of files, `Copies` what peers, feeds and the DHT may send.
The panel shows a copy (`SetTorrent`), so its votes may be what a peer says and
the index does not; `votes` and `poster` therefore name the torrent they were
given for. An answer is inserted into the index, which may refuse it (`taken`),
and the panel hears of a row that was rewritten (`TorrentUpdated`). The menu and
the folder dialog of a download nest an event loop: `OnDownloadRequested` opens
them, anything may be answered meanwhile, `DownloadChosen` goes on.

`WindowIsRight`: local hits and those of the DHT answer the present query, the
rows are the downloads, each with its own completion and favorite mark, files and
details are of one torrent, and the details show no votes and no poster given for
another one, however late an answer comes. A row's pause mark is left out of it:
section 6 says why. Two torrents, two queries of which one is an info hash, three
acts of the user, one event elsewhere.

### Compositions: MCNative, MCQtData, MCQtNet

`Engine` extends `PeerNode`, `Downloads`, `TorrentIndex`, `SwarmScraper`, `Tui`
and `Batch`; `QtServices` the database sync, the dumps, the migrations, the
repository, Manticore, the updater and the crawler; `QtPeers` the eight parts
that face librats, peers, clients and the user. Each states the properties of
its parts under one name. No two parts share a variable, so a behaviour of the
composition is one of each part. `MCNative` extends `Engine`, `MCQtNet` extends
`QtPeers`, and `MCQtData` extends `QtServices`; what the runs check is therefore
what the theorems are about, word for word. The constants are in the cfg, or in
the MC module where they are structured.

Each MC module adds `scene`, the part that is on. A part that is off rests in one
initial state, so a run explores the sum of the parts' state spaces and not
their product: each part sees every state of its small instance. The properties
of a composition are conjunctions of those of its parts, grouped by what they
are about. Liveness is one leads-to per composition: every part in `Owing` keeps
its own clause, and as `scene` never changes the formula says of each part that
what it owes is delivered.

In `MCNative` one weak fairness condition holds for the closures of the loop and
one for other threads and the disk; in a behaviour only the steps of its own
scene are enabled. In `MCQtData` one condition covers all that progresses by
itself, because within its bounds each part has finitely many such steps, so
that fairness to their disjunction runs each of them out; messages are apart (see
DatabaseSync). `MCQtNet` checks safety only.

## 5. What is checked

| Run | Module, cfg | Checks | Distinct states |
|---|---|---|---|
| `crawler` | `MCCrawler`, `Crawler.cfg` | `FetchBound`; `HandledOnce` (types, `CounterExact`, `OneCarrier`, `RetriedOnce`); `PendingSettles` (liveness); refinement of `AnnounceLedger` | 110 000 |
| `pool` | `WorkerPool`, `Pool.cfg` | `OnePlace`, `QuietAfterStop`; refinement of `TaskPool`; `WorkGoesOn` (liveness: `NoneIdlesBesideWork`, `StopReturns`) | 5 000 |
| `feed` | `MCFeed`, `Feed.cfg` | `DebtScheduled`, `NeverPredated`; `FeedKept` (types, `Bounded`, `CleanIsSaved`); `NeverShrinks` (steps); `ReachesDisk` (liveness) | 289 000 |
| `site_scraper` | `SiteScraper`, `SiteScraper.cfg` | `SlotsRight` (`SlotsExact`, `NoneWaitsForNothing`); `EntriesClosed` (types, `ClosedByItsOwn`); `ScrapesFinish` (liveness) | 97 000 |
| `native` | `MCNative`, `Native.cfg` | `NativeTypeOK`; `DownloadsAgree` (`ClientAgrees`, `ReportedOnce`, `SavedWhenQuiet`); `IndexAgrees` (`CountExact`, `OneChain`, `NoPhantom`, `FilesOwned`); `NodeAgrees`; `ScrapesRight` (`ReportIsBest`, `SlotPerScrape`); `ScreenIsRight`; `BatchWhole`; `NoStepBack` (steps: `NeverDowngraded`, `EndsAtCap`); `AllComesToItsEnd` (liveness: completions saved, prune chains end, queued scrapes start) | 228 000 |
| `qt_data` | `MCQtData`, `QtData.cfg` | `DataTypeOK`; `PullsSafe` (`FilesHeld`, `WaitersHaveJob`); `DumpsRight` (`DumpIsWhole`, `ResumeNeverSkips`); `RowsRight` (`RekeyedWhole`, `RemovedWasUnknown`); `ProcessesRight` (`NoneLeftBehind`, `UpdaterHasFiles`, `OffByTheStops`); `NoStepBack` (steps: `ResumeKeepsFile`, `ResetOnlyTorn`); `RepositoryExact` (`CountersExact`, and the step property `StoredUntouched`); `AllComesToItsEnd` (liveness: pulls and exports end, a dead daemon is noticed, queued hashes are fetched) | 213 000 |
| `qt_net` | `MCQtNet`, `QtNet.cfg` | `PeersTypeOK`; `DownloadsRight` (`RegistryAgrees`, `MarkedIffOwed`); `NodesRight` (`VotedOnceAndOwed`, `PeersAgree`); `ScrapesAccounted`; `RespondOnce`; `WindowIsRight`; `KeepsTheBest` (steps) | 871 000 |
| `downloads_offline` | `MCDownloads`, `DownloadsOffline.cfg` | violation of `SessionKeptWithoutClient` | |
| `index_lists` | `MCTorrentIndex`, `IndexLists.cfg` | violation of `ListsSearchable` | |
| `feed_unsaved` | `MCFeed`, `FeedUnsaved.cfg` | violation of `CleanIsSaved` when a write fails | |
| `site_scraper_leak` | `SiteScraper`, `SiteScraperLeak.cfg` | violation of `SlotsExact` with a long backlog | |
| `rest_update` | `RestApi`, `RestUpdate.cfg` | violation of `AlwaysResponds` during a download | |

No run uses symmetry: most check liveness too, for which it is not sound.

To repeat one: `tlc -workers 2 -config Feed.cfg MCFeed`.

## 6. Where code and documentation disagree

1. **A run without the client deletes the session** (`downloads_offline`).
   `main.cpp:414-415` calls `loadSession`/`start` a clean no-op then; but the
   autosave is armed, has never saved, and writes the empty list, which removes
   the file (`downloads.cpp:698`, `session_store.cpp:14`).
2. **An upsert without a file list** (`index_lists`) deletes the torrent's
   Files rows but keeps `info.filesList`, so the files are shown and not found
   (`groonga_index.cpp:392`, `404`), against `search_index.h:54`.
3. **A failed flush counts as saved** (`feed_unsaved`): `dirty_` is cleared
   before the write and stays so (`feed.cpp:326`), against `feed.cpp:117-118`.
4. **A slot of the site scraper leaks** (`site_scraper_leak`) when a hash is
   requested again while its first scrape has waited an hour: one entry, two
   slots (`site_scraper.cpp:301`), against `site_scraper.h:184-186`.
5. **A check for updates may never be answered** (`rest_update`).
   `update.check` answers on three signals (`api_router.cpp:885-922`), and
   `checkForUpdates()` returns without any of them while the service is checking
   or downloading (`update_service.cpp:191-194`); a download that succeeds emits
   a fourth. `api_router.h:33`: "`respond` is always invoked exactly once."

Met on the way and not given a run, because no document says otherwise or the
model only shows what the code plainly does:

* The autosave does not notice that a file list has arrived
  (`docs/M6-PLAN.md:159-160` saves it); metadata that comes after `restore()` is
  applied by the poll with the client's defaults.
* After a restart the native feed's date is that of its newest entry, not of its
  last vote, so a peer's older feed of the same size can win (`peer_api.cpp:354`).
* The watcher of the terminal UI waits for the loop to run before it waits for
  it to stop; a loop that ran and stopped within its poll is missed, and the
  screen stays until a key ends it (`tui/app.cpp:227-231`).
* Qt: votes of peers reach the columns late or not at all, because the store is
  listened to before there is one (`voting_service.cpp:255`, `p2p_store.cpp:182`).
* Qt: the services start on a table that a failed migration left half-way
  (`application.cpp:254-279`).
* Qt: when the set of recent hashes is halved, the newest may go (`net/crawler.cpp:241`).
* Qt: a torrent fetched for its files stays without them if its row has a count
  already (`indexing_service.cpp:47`, asked for in `mainwindow.cpp:1126`).
* The native clean-up counts a row as removed when its removal failed
  (`native/main.cpp:869`).
* Qt: a download paused by its row's button and resumed over the API before the
  next poll (or the reverse) is announced by neither, because the poll compares
  with what it saw last (`download_service.cpp:671-676`) and the row toggled its
  mark itself (`downloadswidget.cpp:429`): the row keeps the wrong mark.
* A node of another program can make a native feed smaller: the size that is
  compared is the sender's word (`peer_api.cpp:348`, `355`), and only afterwards
  the list is filtered and cut (`feed.cpp:216-230`). The Qt program does the same
  (`src/src/peer/peer_api.cpp:323-336`).
* Qt: what the trackers found is written by `updateTrackerCounts` and `mergeInfo`,
  which do not emit `torrentUpdated` (`torrent_repository.cpp:702-711`, `739-751`),
  although the details panel waits for it (`torrentdetailspanel.cpp:792-796`): it
  is shown when the torrent is opened again or voted on.
* Qt: reports of a swarm scraper that were posted before `stop()` are written after
  it (`swarm_scraper.cpp:275-292`).
* Qt: a row without a size and files is counted when it is added and not when it is
  removed (`torrent_repository.cpp:312`).
* Qt: a late answer of the API looks at a socket that may be deleted by then
  (`api_server.cpp:172`, `208`, `241-245`), and a request that is pipelined behind
  one that waits is dispatched too (`api_server.cpp:271-295`): section 8.

## 7. What is proved

All theorems are checked by TLAPS, for every value of the constants that
satisfies the module's assumption (below). A module of proofs extends the module
its theorems are about, and what the runs check is extended from the same module:
a theorem and a run that name the same property speak of one definition.

* `CrawlerProofs`: `TypeCorrect`; `FetchBoundHolds`. The bound alone is not
  inductive, because the pump tests `active` and not the fetches. `IInv` adds
  that the requests in flight are finite in number and, with `Tied`, that the
  counter is never below their number while the crawler runs, and that only a
  running crawler pumps. `HandledOnceHolds`: a closure that announces a request
  must find nothing of it yet, so `CountInv` says for every announce how often
  it is posted, queued, reported and fetched (`Placed`), and that a request
  that was not retried is on its first attempt; the counts follow each append
  and tail (`Where`). `Refinement`: `Spec => ImplementsLedger`; the ledger's
  counter of slots is the requests in flight, so `CounterExact` is what makes a
  step of the crawler a step of `AnnounceLedger`.
* `WorkerPoolProofs`: `OnePlaceHolds`, `QuietAfterStopHolds`, and `Refinement`:
  `Spec => ImplementsPool`, for any number of threads and tasks. `IInv` is that
  only posted tasks are queued or run, that no task is in two places, and how
  stop flag, queue and caller go together (`StopOrder`). Each action keeps it
  (`PostInv`, `TakeInv`, ...), and each maps to a step of `TaskPool` or to none
  (`PostAccepts`, `TakeStarts`, `FinishEnds`, `StepRefines`).
* `FeedProofs`: `TypeCorrect`; `DebtScheduledHolds`, by `FlagIsTimer` (the flag
  and the closure come and go together); `NeverPredatedHolds`, by `DatesInv`:
  the date has to be bounded in memory, on disk and on the wire at once, as
  each is the source of another. `BoundedHolds` is inductive with the types and with
  what a node states of its own answers (their size is that of their items), and
  gives the action property `NeverShrinksHolds`: a node's answer that is taken over
  is taken whole; what another program sends may be less than it states. `FeedKeptHolds`
  assumes `WriteOutcomes \subseteq {TRUE}`, as the run `feed` does; `feed_unsaved`
  shows what a write that fails does to `CleanIsSaved`.
* `SiteScraperProofs`: `TypeCorrect`, `SlotsExactHolds`,
  `NoneWaitsForNothingHolds`, `SlotsRightHolds` for both, all under `~Outlast` -- the assumption the
  finding violates. `IInv` says why it is needed: what runs or waits is cooling
  down, and a hash never does both or either twice (`Counting`, `Queued`); only
  then does draining n scrapes add n entries (`StartedCount`, `CompleteKeeps`).
  `EntriesClosedHolds`, under the same assumption: `JoinInv` says that a site of
  a scrape is under way once, in the pool or in the inbox (`Once`), and that
  what is under way for a hash is of the scrape its entry was made for and of
  the site the entry has not heard (`Own`).
* `PeerNodeProofs`: `TypeCorrect`, `NodeAgreesHolds`, for a finite set of peers
  and any hashes. The batch that runs and the queue behind it are one line of
  jobs: taking a batch does not change it, every post appends to it, every task
  done is its head (`Jobs`, `HeadDone`). Along it, a `client_info` of a peer that
  has left is followed by its `disconnected` (`Followed`), which is why the table
  ends up right; and a settle that is to come has not added what it will add
  (`CountedOnce`), which is why no torrent is counted twice.

`EngineProofs`, the rest of the native program:

* `DownloadsTypeCorrect`, `DownloadsAgreeHolds`, `NeverDowngradedHolds`. `AllSound`
  speaks of one torrent at a time and of five things together: the download, the
  client's torrent, the entry in the session file, the stored resume data and the
  number of reports. A completed download is a ready one, the client has metadata
  for it, and what was last shown is what it is (or a save is owed).
  `DownloadsAssumptions` asks of the session a first start finds that a completed
  entry has its file list, as every entry that this program has written as
  completed does.
* `IndexTypeCorrect`, `IndexAgreesHolds`, `EndsAtCapHolds`. That file rows have a
  torrent (`FilesOwned`) does not survive a prune by itself: without the
  `fileIndex` setting no command removes file rows. `Tables` adds that there are
  none then. Failing deletes, late scrapes and crashes between two commands are
  steps like the others.
* `SwarmTypeCorrect`, `ScrapesRightHolds`. A slot is held by a scrape that is under
  way or whose report has not run (`HeldBy`), and `SwarmInv` says that `active` is
  the number of those, that what is reported has heard of every tracker
  (`ReportsEnded`), and that `best` of a scrape is no less than any tracker's
  answer (`Whole`).
* `TuiTypeCorrect`, `ScreenIsRightHolds`. `TuiInv` has a part for each tab.
  `SearchInv`: a closure on its way to the screen belongs to a search not newer
  than the present one (`ResultsPosted`, `HitsPosted`); the hits of peers come
  after the results of the same search (`Listed`), which is why the search never
  overwrites them; a vote that is counted is in the hits that are posted or
  follows them (`VotesFollow`). `RowsInv`, `DeleteInv`, `SavesOwed` and
  `ThreadsInv` cover the downloads and delete keys, the exports of .torrent files
  and the three threads.
* `BatchTypeCorrect`, `BatchWholeHolds`. What the end of a command reports follows
  from what it did so far: `ExportSoFar` (what is in the file is what was passed,
  once each), `ImportSoFar` (imported, rejected and malformed lines make up the
  lines read, and those let in are rows), `CleanupSoFar` (what was passed and is
  still there is let stay). A page is any sequence that the description of
  `PageAfterId` admits, hence `LongEnough`: a page shorter than the limit is the
  last one.
* `NativeTypeCorrect` and `NoStepBackHolds` put the parts together.

`QtDataProofs`:

* `TypeCorrect`, `PullsSafeHolds` of `DatabaseSync`, for any number of pullers and
  any plan. A file stays because the serve that sends it is held
  (`HeldWhileSent`), which is what pruning looks at; and what is offered is live,
  because a snapshot is only fresh when there is one (`FreshIsLive`).
* `DumpIsWholeHolds`, `DumpsRightHolds`: `ExportInv` follows a row from the reader
  through the queue and the serialiser into a frame (`InOrder`: what is flushed,
  framed, being written, queued and being pushed add up to what was read), as long
  as nothing has failed (`Intact`). `ImportInv` says of a resume point that the
  frames before it are indexed or were lost by the database and not by the import
  (`Covered`), which gives `ResumeNeverSkips`; `ResumeKeepsFileHolds` is its action
  property.
* `ProcessesRightHolds`: `SupervisedInv` relates status, child, pid file and binlog
  of Manticore (no daemon is left behind, a log is dropped once and only when it
  is torn: `ResetOnlyTornHolds`); `InstallInv` says that what the program may
  install is whole, and that the script's directory is whole and the program no
  longer deletes it;
  `CrawlInv` that the counter is off by the fetches a stop has orphaned
  (`OffByTheStopsHolds`) and that the recent hashes are bounded.
* `MigrationTypeCorrect`, `RekeyedWholeHolds`, `RemovedWasUnknownHolds`, and
  `RowsRightHolds` for both: `MigrationInv` is inductive and has a part for each
  way an interruption could hurt. A row's number is a key and never the id that
  another torrent derives (`TablesNumbered`), so a page rewrites no stranger's row;
  a row that a page retires is on the page's side of the cursor, with its hash
  kept at the derived id (`PageSwept`); what the record calls done is derived
  already (`DoneIsDerived`); a hash that had a row has one or was removed
  (`HadIsKept`). For the clean-up: what the classifier would still recognise lies
  ahead of every resume point that a crash could bring back -- the one in memory,
  the one on disk and the worker's (`MissedAhead`, `WorkerBeside`, `BatchAhead`).
  The lemmas about a page take the least row that a page could miss (the
  well-founded minimum of a set of numbers), since `PageAfter` counts. The proof
  does not go through for a `Crash` that leaves the worker where it was.
* `NoStepBackHolds`: the action properties of the import and of Manticore.
* `RepositoryExactHolds`, of the counters and of `StoredUntouched`, for any hashes,
  ids, batches and clients. It assumes `Apart` (no two clients work on one row),
  `RemovedWeigh` (what is removed has a size) and `Outcomes \subseteq {TRUE}` (the
  commands succeed whose failure nothing makes up for). In the middle of an
  operation the tables are ahead of the counters or behind; `RepositoryInv` says
  that there is a table the counters are those of -- the rows without those that
  are written and not counted, and with those that are gone and still counted
  (`Account`) -- and what each operation rests on at its next command (`Sound`):
  copies that are still what the rows are, ids that are still free. Sums over the
  table change by one row (`OneRow`) or by those of a batch (`MoreRows`).
* `ServicesTypeCorrect` of the other seven services.

`QtNetProofs`:

* `DownloadsRightHolds`: the registry and the client agree (`RegistryInv`), an
  export is marked while its fetch is owed, once per hash (`OwedInv`,
  `OncePerHash`).
* `NodesRightHolds`: `VotedInv` (the feed fits its size, a change that is not in the
  table is timed, a vote of ours counts once) and `TransportInv`: between events
  the table of peers and the count differ from the links, so what is invariant is
  that the event that corrects them is still queued (`Introduced`, `ListedPeers`,
  `ToldLast`, `CountShown`).
* `KeepsTheBestHolds`: an answer that a node posts is of rows whose list of files is
  counted (`CountedInAdvance`); only then does a merge not take from a row.
* `ScrapesAccountedHolds`, for any number of trackers and slots. `SwarmInv` and
  `SitesInv` count: active slots are scrapes going on and posted results
  (`SwarmCounted`), a pending count is the replies out plus the views to come
  (`SitesCounted`), and a queue means full slots and a timer (`SwarmWaits`,
  `SitesWaits`). After stop nothing runs or waits, and what is still posted is
  complete (`SwarmStopped`, `PostedOnce`): that it is handed over late is not
  excluded, as the code does not.
* `RespondOnceHolds`: whoever may call `respond` owes it, and none does once it has
  been called (`OwingOnce`); an HTTP connection that waits has a call
  (`AskedWaits`).
* `WindowIsRightHolds`: the panel's own fields agree with the services
  (`PanelOwn`): whoever said so, the votes and the poster it shows were given for the
  torrent it shows; rows agree with the downloads, hits that are not a peer's with
  the query (`Searching`).
* `PeersTypeOKHolds`.

Assumptions on the constants, as each module states them: peers, trackers,
hashes and indexed torrents are finite sets where they are counted; limits that
are positive in the code are positive (`CrawlerAssumption`, `WorkerPoolAssumption`,
`CrawlAssumption`, `ExportAssumption`, `BatchAssumption`); there is a tracker
(`SwarmAssumption`, `TrackerAssumption`); what a program finds at its first start
is something it could have written (`DownloadsAssumptions`,
`TorrentIndexAssumptions`, `ExchangeAssumption`, `FeedAssumption`); texts and
answers are of the kinds the code distinguishes (`TuiAssumption`,
`WindowAssumption`, `RestAssumption`, `ImportAssumption`, `SyncAssumptions`).
`SiteScraperProofs` assumes `~Outlast` besides, and `FeedKeptHolds` that writes
succeed, `RepositoryExactHolds` the three conditions above. TLC evaluates the
assumptions in every run.

Only model-checked:

* everything under fairness: `PendingSettles`, `WorkGoesOn`, `ReachesDisk`,
  `ScrapesFinish`, `AllComesToItsEnd` of both compositions (liveness and ENABLED
  are outside what TLAPS proves here);
* `CleanIsSaved` of `Feed` with writes that fail is false (section 6).

What the classifier, the filter policy and `PageAfterId` compute, the proofs use
only as far as they need it. No module uses a RECURSIVE operator.

## 8. What is not modelled

* librats, a submodule that is not part of the repository: an external party
  that calls back once, in any order, from other threads.
* Pure text: query building, `content.*`, `row_id`, the Qt copies of classifier
  and filter policy (the native ones are in `Batch`), JSON, HTTP and page
  parsing, compression, the wire's text and the debug dump of messages.
* Reading: sorting and ranking of search results, `getVotes`, statistics.
* Native configuration, paths and log; the status bar and the top tab of the
  terminal UI (which loads as the feed tab does).
* Qt settings, the single-instance socket, the copying of an old installation:
  one write or one read with no protocol around it. Drawing, tray, menus,
  settings dialog, activity, feed, favorites and top-torrent tabs, autostart,
  translations: presentation.
* The Qt settings file is truncated before it is written
  (`config_store.cpp:136`): a crash in between leaves the defaults. The one write
  has no state around it that a model could add to.
* API handlers that hand one call to a service modelled elsewhere, and the
  broadcast of events to WebSocket clients.
* Creating a torrent from files: only the seed it registers.
* Two writers of one torrent, and queries that fail, in `TorrentRepository`.
* Lifetimes of C++ objects: the models have no addresses. A socket that is deleted
  while its answer is on its way, or a label that a lambda keeps, is not seen.
* A client that pipelines HTTP requests: each would be answered on the one socket.
* Events of one peer that overtake each other on two threads of librats: it delivers
  messages and the disconnect of a peer on its reactor thread
  (`native/engine/peer_api.h:36-40`), so `PeerNode.On` comes before the disconnect.
* Restored downloads without resume metadata, hence the branch of the poll that waits
  for their recheck (`downloads.cpp:627-633`): every completed entry that the program
  has written has its metadata (`downloads.cpp:557`, `343-346`).
* Cooldowns that end while the scrape they began with still runs (section 4,
  SiteScraper and TrackerService; the swarm scraper's is 300 s,
  `swarm_scraper.h:50`, against announces of 15 s and a queue that would have to
  hold it up that long).
* Hazards in `PROJECT.json` with a note are covered in part or not at all; the note
  says what is left.
* Legacy Electron program, translations, installers, tests.
* Memory ordering: the flags are `relaxed` atomics and the models interleave
  whole accesses, which is enough for flags that are only raised and for
  counters changed by atomic operations.
