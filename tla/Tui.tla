--------------------------------- MODULE Tui ---------------------------------
(***************************************************************************)
(* The terminal interface of the native program (src/native/tui) and the   *)
(* three threads it runs beside: FTXUI's loop on the calling thread, the   *)
(* engine loop, and the watcher that closes the screen when the engine     *)
(* stops.  A tab asks by posting to the engine and is answered by a        *)
(* closure posted to the screen; what comes back is matched with the       *)
(* tab's generation or revision.  Rendering is left out.                   *)
(***************************************************************************)
EXTENDS Integers, Sequences, FiniteSets, Functions

CONSTANTS
    TuiHash,          \* torrents, naturals: DownloadsTab sorts its rows by them
    Query,            \* texts the user types, the empty one not among them
    Matching,         \* the torrents each text is in the name of; peers have them all
    Local,            \* those in the index
    strict,           \* Config::strictSearch
    MaxKeys,          \* bound on what the user does, by tab
    MaxChanges        \* bound on changes nobody at the screen asked for

VARIABLES
    tuiLooping,       \* EngineLoop::running_, and whether run() has returned
    tuiStopRequested, tasks, debounced,
    watcher, uiActive,
    ui,               \* where tui::run is
    posted,           \* closures Screen::Post holds
    generation, query, shown, shownFor,          \* SearchTab and its ResultView
    remoteSearchGeneration, remoteFilters, asked,
    tab, feedGeneration, lastSeenRevision, feedShown, feedRevision,
    voted,            \* torrents whose vote is counted in the index
    tuiRows, selected, lastRevision, revision, tuiDownloads, armed,
    presses,          \* history: per torrent, 'X' pressed since it was last deleted
    inFlightSaves, owed,                         \* ResultView, and fetches librats owes
    keys, changes

tuiLoopVars == <<tuiLooping, tuiStopRequested, tasks, debounced>>
appVars == <<watcher, uiActive, ui>>
searchVars == <<generation, query, shown, shownFor>>
remoteVars == <<remoteSearchGeneration, remoteFilters, asked>>
feedVars == <<tab, feedGeneration, lastSeenRevision, feedShown>>
rowVars == <<tuiRows, selected, armed, presses>>
pollVars == <<voted, lastRevision, revision, tuiDownloads, feedRevision>>
tuiVars == <<tuiLoopVars, appVars, posted, searchVars, remoteVars, feedVars, rowVars, pollVars,
             inFlightSaves, owed, keys, changes>>

None == 0
NoText == "empty"
ASSUME TuiAssumption ==
    /\ TuiHash \subseteq Nat \ {None} /\ IsFiniteSet(TuiHash)
    /\ Local \subseteq TuiHash /\ strict \in BOOLEAN
    /\ NoText \notin Query /\ Matching \in [Query -> SUBSET TuiHash]

Matches(q) == IF q = NoText THEN {} ELSE Matching[q]
ResultRow(h, gen, good) == [hash |-> h, gen |-> gen, good |-> good]

TuiInit ==
    /\ tuiLooping = "starting" /\ tuiStopRequested \in BOOLEAN /\ tasks = <<>> /\ debounced = <<>>
    /\ watcher = "waiting" /\ uiActive = TRUE /\ ui = "loop" /\ posted = <<>>
    /\ generation = 0 /\ query = NoText /\ shown = {} /\ shownFor = 0
    /\ remoteSearchGeneration = 0 /\ remoteFilters = NoText /\ asked = {}
    /\ tab \in {"search", "feed", "downloads"} /\ feedGeneration = 0
    /\ lastSeenRevision = 0 /\ feedShown = 0 /\ feedRevision \in {0, 1}
    /\ tuiRows = <<>> /\ selected = 1 /\ lastRevision = 0 /\ armed = None
    /\ voted = {} /\ presses = [h \in TuiHash |-> 0]
    /\ tuiDownloads \in SUBSET TuiHash /\ revision = (IF tuiDownloads = {} THEN 0 ELSE 1)
    /\ inFlightSaves = {} /\ owed = {} /\ keys = 0 /\ changes = 0

-----------------------------------------------------------------------------
(* The user: keys reach the tabs while the screen loops.  A behaviour stays  *)
(* on one tab: the tabs share the two queues and no other state.            *)

Key == ui = "loop" /\ keys < MaxKeys[tab] /\ keys' = keys + 1
Ask(task) == tasks' = Append(tasks, task) /\ UNCHANGED <<tuiLooping, tuiStopRequested, debounced>>

\* setResults: a fresh list; the row it selects is asked about (onSelectionChanged).
SetResults(gen, hits) ==
    /\ shown' = {ResultRow(hit.hash, gen, hit.good) : hit \in hits} /\ shownFor' = gen
\* Plausible bug: a superseded answer is shown.
ApplyAnyResults(gen, hits) == SetResults(gen, hits)
\* applyResults drops what a newer keystroke superseded.
ApplyResults(gen, hits) ==
    IF gen = generation THEN SetResults(gen, hits) ELSE UNCHANGED <<shown, shownFor>>

TriggerSearch(q) ==
    /\ tab = "search" /\ Key /\ query' = q /\ generation' = generation + 1
    /\ IF q = NoText THEN SetResults(generation', {}) /\ UNCHANGED tuiLoopVars
       ELSE /\ debounced' = Append(debounced, [kind |-> "search", gen |-> generation', query |-> q])
            /\ UNCHANGED <<shown, shownFor, tuiLooping, tuiStopRequested, tasks>>
    /\ UNCHANGED <<appVars, posted, remoteVars, feedVars, rowVars, pollVars, inFlightSaves, owed,
                   changes>>

\* A frame reloads the Feed tab when it becomes active or its revision moved.
NeedsReload == feedRevision # lastSeenRevision
Reload ==
    /\ feedGeneration' = feedGeneration + 1
    /\ Ask([kind |-> "feed", gen |-> feedGeneration'])
OnActivated ==
    /\ tab = "feed" /\ Key /\ (feedGeneration > 0 => NeedsReload) /\ Reload
    /\ UNCHANGED <<tab, appVars, posted, searchVars, remoteVars, lastSeenRevision, feedShown,
                   rowVars, pollVars, inFlightSaves, owed, changes>>

\* 't': a fetch is asked for unless the file is there or one is in flight.
HandleSaveTorrent(h) ==
    /\ Key /\ \E row \in shown : row.hash = h
    /\ h \notin inFlightSaves /\ inFlightSaves' = inFlightSaves \cup {h}
    /\ Ask([kind |-> "fetch", hash |-> h])
    /\ UNCHANGED <<appVars, posted, searchVars, remoteVars, feedVars, rowVars, pollVars, owed,
                   changes>>
\* 'd', and the add row of the Downloads tab: addWithInfo, addFromFile or add.
HandleDownload(h) ==
    /\ Key /\ \E row \in shown : row.hash = h
    /\ Ask([kind |-> "add", hash |-> h])
    /\ UNCHANGED <<appVars, posted, searchVars, remoteVars, feedVars, rowVars, pollVars,
                   inFlightSaves, owed, changes>>

\* 'v': voted on the engine thread, where a torrent that is not indexed is refused.
HandleVote(h) ==
    /\ Key /\ \E row \in shown : row.hash = h
    /\ Ask([kind |-> "vote", hash |-> h])
    /\ UNCHANGED <<appVars, posted, searchVars, remoteVars, feedVars, rowVars, pollVars,
                   inFlightSaves, owed, changes>>

\* The keys of the Downloads tab: up and down, 'x', and 'X' twice on a row.
Under == tuiRows[selected]
Select(i) ==
    /\ tab = "downloads" /\ Key /\ i \in DOMAIN tuiRows /\ i # selected /\ selected' = i
    /\ UNCHANGED <<tuiLoopVars, appVars, posted, searchVars, remoteVars, feedVars, tuiRows, armed,
                   presses, pollVars, inFlightSaves, owed, changes>>
Confirmed == armed = Under
HandleKey(k) ==
    /\ tab = "downloads" /\ Key /\ tuiRows # <<>>
    /\ IF k = "x"
       THEN armed' = None /\ Ask([kind |-> "remove", hash |-> Under]) /\ UNCHANGED presses
       ELSE IF Confirmed
       THEN /\ armed' = None /\ presses' = [presses EXCEPT ![Under] = 0]
            /\ Ask([kind |-> "delete", hash |-> Under, presses |-> presses[Under] + 1])
       ELSE /\ armed' = Under /\ presses' = [presses EXCEPT ![Under] = @ + 1]
            /\ UNCHANGED tuiLoopVars
    /\ UNCHANGED <<appVars, posted, searchVars, remoteVars, feedVars, tuiRows, selected, pollVars,
                   inFlightSaves, owed, changes>>
\* The five seconds of kDeleteConfirmWindow pass.
WindowElapses ==
    /\ ui = "loop" /\ armed # None /\ armed' = None
    /\ UNCHANGED <<tuiLoopVars, appVars, posted, searchVars, remoteVars, feedVars, tuiRows, selected,
                   presses, pollVars, inFlightSaves, owed, keys, changes>>

\* 'q' outside a text input, or Ctrl-C in FTXUI: the loop ends.
Quit ==
    /\ Key /\ ui' = "left" /\ uiActive' = FALSE
    /\ UNCHANGED <<tuiLoopVars, watcher, posted, searchVars, remoteVars, feedVars, rowVars, pollVars,
                   inFlightSaves, owed, changes>>

-----------------------------------------------------------------------------
(* Closures posted to the screen, in order                                  *)

\* onRemoteHit's closure.
AppendHit(h, gen) ==
    IF gen # generation \/ \E row \in shown : row.hash = h
    THEN UNCHANGED <<shown, shownFor>>
    ELSE /\ shown' = shown \cup {ResultRow(h, gen, 0)}
         /\ UNCHANGED shownFor

\* In place, whichever search the rows are of by now.
UpdateSelectedVotes(h) ==
    /\ shown' = {IF r.hash = h THEN [r EXCEPT !.good = 1] ELSE r : r \in shown}
    /\ UNCHANGED shownFor

ApplyFeed(c) ==
    IF c.gen = feedGeneration
    THEN lastSeenRevision' = c.rev /\ feedShown' = c.items
    ELSE UNCHANGED <<lastSeenRevision, feedShown>>

\* The selection stays at its place, whatever row is there now.
ApplyRows(hashes) ==
    /\ \E sorted \in [1..Cardinality(hashes) -> hashes] :
          /\ Range(sorted) = hashes /\ \A i, j \in DOMAIN sorted : i < j => sorted[i] < sorted[j]
          /\ tuiRows' = sorted
    /\ selected' = IF hashes = {} THEN 1
                   ELSE IF selected <= Cardinality(hashes) THEN selected ELSE Cardinality(hashes)

RunPosted ==
    /\ ui = "loop" /\ posted # <<>> /\ posted' = Tail(posted)
    /\ LET c == Head(posted) IN
       /\ IF c.kind = "results" THEN ApplyResults(c.gen, c.hits)
          ELSE IF c.kind = "hit" THEN AppendHit(c.hash, c.gen)
          ELSE IF c.kind = "voted" THEN UpdateSelectedVotes(c.hash)
          ELSE UNCHANGED <<shown, shownFor>>
       /\ IF c.kind = "feed" THEN ApplyFeed(c) ELSE UNCHANGED <<lastSeenRevision, feedShown>>
       /\ IF c.kind = "snapshot" THEN ApplyRows(c.hashes) ELSE UNCHANGED <<tuiRows, selected>>
       /\ inFlightSaves' = IF c.kind = "saved" THEN inFlightSaves \ {c.hash} ELSE inFlightSaves
       /\ IF c.kind = "exit" THEN ui' = "left" /\ uiActive' = FALSE
          ELSE UNCHANGED <<ui, uiActive>>
    /\ UNCHANGED <<tuiLoopVars, watcher, generation, query, remoteVars, tab, feedGeneration, armed,
                   presses, pollVars, owed, keys, changes>>
-----------------------------------------------------------------------------
(* The engine thread.  run() takes its tasks in batches; here it may return  *)
(* between any two.                                                          *)

Running == tuiLooping = "running"
PostUI(c) == posted' = Append(posted, c)
EngineStarts ==
    /\ tuiLooping = "starting" /\ tuiLooping' = "running"
    /\ UNCHANGED <<tuiStopRequested, tasks, debounced, appVars, posted, searchVars, remoteVars,
                   feedVars, rowVars, pollVars, inFlightSaves, owed, keys, changes>>
EngineReturns ==
    /\ Running /\ tuiStopRequested /\ tuiLooping' = "returned"
    /\ UNCHANGED <<tuiStopRequested, tasks, debounced, appVars, posted, searchVars, remoteVars,
                   feedVars, rowVars, pollVars, inFlightSaves, owed, keys, changes>>
\* SIGINT or SIGTERM.
HandleSigint ==
    /\ ui # "gone" /\ ~tuiStopRequested /\ tuiStopRequested' = TRUE
    /\ UNCHANGED <<tuiLooping, tasks, debounced, appVars, posted, searchVars, remoteVars, feedVars,
                   rowVars, pollVars, inFlightSaves, owed, keys, changes>>

SearchNames(q) ==
    {[hash |-> h, good |-> IF h \in voted THEN 1 ELSE 0] : h \in Matches(q) \cap Local}
\* The debounced query, 300 ms after the last keystroke, and the same one to the peers.
RunSearch ==
    /\ Running /\ debounced # <<>> /\ debounced' = Tail(debounced)
    /\ LET t == Head(debounced) IN
       IF t.gen # generation THEN UNCHANGED <<posted, remoteVars>>
       ELSE /\ PostUI([kind |-> "results", gen |-> t.gen, hits |-> SearchNames(t.query)])
            /\ remoteSearchGeneration' = t.gen /\ remoteFilters' = t.query
            /\ asked' = asked \cup {t.query}
    /\ UNCHANGED <<tuiLooping, tuiStopRequested, tasks, appVars, searchVars, feedVars, rowVars,
                   pollVars, inFlightSaves, owed, keys, changes>>

PassesStrictTokenCheck(h) == h \in Matches(remoteFilters)
\* A peer answers any search it was sent, now or much later.
OnRemoteHit(q, h) ==
    /\ Running /\ q \in asked /\ h \in Matches(q)
    /\ changes < MaxChanges /\ changes' = changes + 1
    /\ remoteSearchGeneration = generation /\ (strict => PassesStrictTokenCheck(h))
    /\ PostUI([kind |-> "hit", gen |-> remoteSearchGeneration, hash |-> h])
    /\ UNCHANGED <<tuiLoopVars, appVars, searchVars, remoteVars, feedVars, rowVars, pollVars,
                   inFlightSaves, owed, keys>>

\* A vote or a peer's feed changes the feed; pollStatus changes a download.
FeedChanges ==
    /\ Running /\ changes < MaxChanges /\ changes' = changes + 1
    /\ feedRevision' = feedRevision + 1
    /\ UNCHANGED <<tuiLoopVars, appVars, posted, searchVars, remoteVars, feedVars, rowVars,
                   voted, lastRevision, revision, tuiDownloads, inFlightSaves, owed, keys>>

\* DownloadsTab::tick, once a second: a snapshot when the revision moved.
Tick ==
    /\ Running /\ revision # lastRevision /\ lastRevision' = revision
    /\ PostUI([kind |-> "snapshot", hashes |-> tuiDownloads])
    /\ UNCHANGED <<tuiLoopVars, appVars, searchVars, remoteVars, feedVars, rowVars, voted, revision,
                   tuiDownloads, feedRevision, inFlightSaves, owed, keys, changes>>

Registered(hashes) ==
    /\ tuiDownloads' = hashes
    /\ revision' = IF hashes = tuiDownloads THEN revision ELSE revision + 1
RunTask ==
    /\ Running /\ tasks # <<>> /\ tasks' = Tail(tasks)
    /\ LET t == Head(tasks) IN
       /\ CASE t.kind = "feed" ->
                  IF t.gen # feedGeneration THEN UNCHANGED posted
                  ELSE PostUI([kind |-> "feed", gen |-> t.gen, rev |-> feedRevision,
                               items |-> feedRevision])
            [] t.kind = "written" -> PostUI([kind |-> "saved", hash |-> t.hash])
            [] t.kind = "vote" /\ t.hash \in Local -> PostUI([kind |-> "voted", hash |-> t.hash])
            [] OTHER -> UNCHANGED posted
       /\ voted' = IF t.kind = "vote" THEN voted \cup ({t.hash} \cap Local) ELSE voted
       /\ CASE t.kind = "add" -> Registered(tuiDownloads \cup {t.hash})
            [] t.kind \in {"remove", "delete"} -> Registered(tuiDownloads \ {t.hash})
            [] OTHER -> UNCHANGED <<tuiDownloads, revision>>
       /\ owed' = IF t.kind = "fetch" THEN owed \cup {t.hash} ELSE owed
    /\ UNCHANGED <<tuiLooping, tuiStopRequested, debounced, appVars, searchVars, remoteVars, feedVars,
                   rowVars, lastRevision, feedRevision, inFlightSaves, keys, changes>>

\* librats answers a fetch on a thread of its own: bytes or an error, either is
\* posted to be written and reported.
FetchAnswered(h) ==
    /\ h \in owed /\ owed' = owed \ {h}
    /\ Ask([kind |-> "written", hash |-> h])
    /\ UNCHANGED <<appVars, posted, searchVars, remoteVars, feedVars, rowVars, pollVars,
                   inFlightSaves, keys, changes>>

-----------------------------------------------------------------------------
(* The watcher, and the end of tui::run                                     *)

WatcherMoves(pc) ==
    /\ watcher' = pc
    /\ UNCHANGED <<tuiLoopVars, uiActive, ui, searchVars, remoteVars, feedVars, rowVars, pollVars,
                   inFlightSaves, owed, keys, changes>>
\* The first poll waits for the loop to run, the second for it to stop running.
SeesItRun ==
    /\ watcher = "waiting" /\ uiActive /\ Running
    /\ WatcherMoves("watching") /\ UNCHANGED posted
SeesItStop ==
    /\ watcher = "watching" /\ uiActive /\ ~Running
    /\ WatcherMoves("returned") /\ PostUI([kind |-> "exit"])
SeesTheUiLeave ==
    /\ watcher # "returned" /\ ~uiActive
    /\ WatcherMoves("returned") /\ UNCHANGED posted

AfterLoop(step) ==
    /\ ui' = step
    /\ UNCHANGED <<tuiLooping, tasks, debounced, watcher, uiActive, posted, searchVars, remoteVars,
                   feedVars, rowVars, pollVars, inFlightSaves, owed, keys, changes>>
StopsEngine ==
    /\ ui = "left" /\ watcher = "returned" /\ tuiStopRequested' = TRUE /\ AfterLoop("stopping")
\* The engine thread is joined before the screen and the tabs are destroyed.
Returns ==
    /\ ui = "stopping" /\ tuiLooping = "returned" /\ AfterLoop("gone") /\ UNCHANGED tuiStopRequested

TuiNext ==
    \/ \E q \in Query \cup {NoText} : TriggerSearch(q)
    \/ OnActivated
    \/ \E h \in TuiHash :
          HandleSaveTorrent(h) \/ HandleDownload(h) \/ HandleVote(h) \/ FetchAnswered(h)
    \/ \E i \in DOMAIN tuiRows : Select(i)
    \/ \E k \in {"x", "X"} : HandleKey(k)
    \/ WindowElapses \/ Quit \/ RunPosted
    \/ EngineStarts \/ EngineReturns \/ HandleSigint \/ RunSearch \/ FeedChanges \/ Tick \/ RunTask
    \/ \E q \in Query, h \in TuiHash : OnRemoteHit(q, h)
    \/ SeesItRun \/ SeesItStop \/ SeesTheUiLeave \/ StopsEngine \/ Returns

TuiSpec == TuiInit /\ [][TuiNext]_tuiVars

-----------------------------------------------------------------------------
(* Properties                                                               *)

TuiTypeOK ==
    /\ tuiLooping \in {"starting", "running", "returned"}
    /\ ui \in {"loop", "left", "stopping", "gone"}
    /\ watcher \in {"waiting", "watching", "returned"}
    /\ shown \subseteq [hash : TuiHash, gen : 0..generation, good : 0..1]
    /\ armed \in TuiHash \cup {None} /\ Range(tuiRows) \subseteq TuiHash
    /\ tuiRows # <<>> => selected \in DOMAIN tuiRows

\* The rows of the Search tab are those of one search, none of them twice, and
\* with strict search each matches the text in the box once it was searched for.
OneSearchShown ==
    /\ \A r \in shown : r.gen = shownFor
    /\ \A r1, r2 \in shown : r1.hash = r2.hash => r1 = r2
    /\ query = NoText => shown = {}
    /\ strict /\ shownFor = generation => \A r \in shown : r.hash \in Matches(query)
\* A row shows the vote once it is counted, or the answer is on its way. (Without
\* strict search a peer may send an indexed torrent the text does not match; its
\* row shows the votes the peer knows of.)
VotesShown ==
    strict => \A r \in shown : r.hash \in voted /\ r.good = 0 =>
                 \E i \in DOMAIN posted : posted[i].kind = "voted" /\ posted[i].hash = r.hash
\* A Feed tab that does not ask for a reload shows the feed as it is.
FeedIsCurrent == ~NeedsReload => feedShown = feedRevision
\* The Downloads tab shows the last snapshot taken, or it is on its way.
Snapshots == {i \in DOMAIN posted : posted[i].kind = "snapshot"}
RowsFollow ==
    revision = lastRevision =>
        IF Snapshots = {} THEN Range(tuiRows) = tuiDownloads
        ELSE \A i \in Snapshots : (\A j \in Snapshots : j <= i) => posted[i].hashes = tuiDownloads
\* Files are deleted only of a download whose own row was under 'X' twice.
DeletedTwiceAsked ==
    \A i \in DOMAIN tasks : tasks[i].kind = "delete" => tasks[i].presses >= 2
\* A torrent is marked as being fetched exactly while its one answer is to come.
Fetching(h) == {i \in DOMAIN tasks : tasks[i].kind \in {"fetch", "written"} /\ tasks[i].hash = h}
Saved(h) == {i \in DOMAIN posted : posted[i].kind = "saved" /\ posted[i].hash = h}
Carriers(h) == Cardinality(Fetching(h)) + Cardinality(Saved(h)) + (IF h \in owed THEN 1 ELSE 0)
SavesOwed == \A h \in TuiHash : Carriers(h) = IF h \in inFlightSaves THEN 1 ELSE 0
\* No thread that posts to the screen is left when the screen is destroyed.
ScreenOutlivesThreads == ui = "gone" => tuiLooping = "returned" /\ watcher = "returned"

\* What the interface shows, and what it deletes, over all its tabs and threads.
ScreenIsRight ==
    /\ OneSearchShown /\ VotesShown /\ FeedIsCurrent /\ RowsFollow /\ DeletedTwiceAsked /\ SavesOwed
    /\ ScreenOutlivesThreads
=============================================================================
