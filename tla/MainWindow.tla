----------------------------- MODULE MainWindow -----------------------------
(***************************************************************************)
(* The Qt window (src/src/ui): the search results, the details panel, the  *)
(* files panel, the downloads tab and one torrent tab, over the services   *)
(* they show (favorites, votes, downloads, the repository).  One thread;   *)
(* peers, trackers, posters and librats answer when they like, whatever the*)
(* user has turned to since.                                               *)
(***************************************************************************)
EXTENDS Integers, FiniteSets

CONSTANTS
    WindowHash,
    Query,
    Matching,       \* per query, the torrents whose name matches
    FileMatching,   \* per query, those with a file that matches
    HashQuery,       \* the queries that are an info hash, with that hash
    Local,          \* torrents of the repository at the start
    Downloading,    \* downloads at the start: hash -> completed
    Copies,         \* what a copy of a torrent that comes from elsewhere may carry
    MaxActs,        \* bound: what the user does
    MaxEvents       \* bound: what happens to the torrents elsewhere

NoTorrent == "none"

\* What matches a text, and what a hash names, are torrents; a hash is in the name of
\* its own torrent.
ASSUME WindowAssumption ==
    /\ NoTorrent \notin WindowHash /\ "" \notin Query
    /\ Matching \in [Query -> SUBSET WindowHash] /\ FileMatching \in [Query -> SUBSET WindowHash]
    /\ DOMAIN HashQuery \subseteq Query /\ \A q \in DOMAIN HashQuery : HashQuery[q] \in Matching[q]
    /\ Local \subseteq WindowHash /\ DOMAIN Downloading \subseteq WindowHash
    /\ \A h \in DOMAIN Downloading : Downloading[h] \in BOOLEAN
    /\ Copies \subseteq [votes : BOOLEAN, info : BOOLEAN, listed : BOOLEAN]
    /\ MaxActs \in Nat /\ MaxEvents \in Nat

VARIABLES
    tab,         \* the current tab
    query,       \* currentSearchQuery_
    results,     \* searchResultModel
    current,     \* the row of the results that is current, by its hash
    remembered,  \* tabSelection_ of the torrent tabs: a torrent, and the copy of it
    panel,       \* detailsPanel
    files,       \* filesWidget
    downloadItems,        \* downloadItems_
    registry,    \* DownloadService's downloads, with the progress last told
    index,       \* the repository, and what the vote store says
    favorites,   \* FavoritesStore
    voted,       \* VotingService::hasVoted
    asked,       \* questions to peers, trackers, web servers that are open
    dialog,      \* the torrent that the menu or the dialog on the screen is about
    acts, happenings

shownVars == <<tab, query, results, current, remembered>>
serviceVars == <<downloadItems, registry, index, favorites, voted>>
windowVars == <<shownVars, panel, files, serviceVars, asked, dialog, acts, happenings>>

\* A torrent is copied into hits, rows and replies: whether it has votes, a page of a
\* tracker (`info`), and a list of files.  A copy stays as it was made.
Copy == [votes : BOOLEAN, info : BOOLEAN, listed : BOOLEAN]
Blank == [votes |-> FALSE, info |-> FALSE, listed |-> FALSE]
Hit == [remote : BOOLEAN, file : BOOLEAN, copy : Copy]
Stored == [known : BOOLEAN, votes : BOOLEAN, info : BOOLEAN, listed : BOOLEAN]
Progress == [completed : BOOLEAN, paused : BOOLEAN]
\* `whole`: every file is selected; `told`: the payload of the last progressUpdated, if any.
DownloadItem == [completed : BOOLEAN, paused : BOOLEAN, whole : BOOLEAN, told : SUBSET Progress]
Row == [completed : BOOLEAN, paused : BOOLEAN, favorite : BOOLEAN]
\* `votes` and `poster` are those of the torrent they name, the place that is kept for
\* a poster while it loads included.
Panel == [shown : BOOLEAN, hash : WindowHash \cup {NoTorrent},
          download : {"none", "progress", "completed"}, voted : BOOLEAN, favorite : BOOLEAN,
          votes : WindowHash \cup {NoTorrent}, poster : WindowHash \cup {NoTorrent}]
Files == [shown : BOOLEAN, hash : WindowHash \cup {NoTorrent}, listed : BOOLEAN, whole : BOOLEAN]
Question == [kind : {"search", "files", "dht"}, of : Query]
            \cup [kind : {"torrent", "trackers", "poster"}, of : WindowHash]
Of(f, S) == DOMAIN f \subseteq WindowHash /\ \A h \in DOMAIN f : f[h] \in S
Put(f, h, v) == [k \in DOMAIN f \cup {h} |-> IF k = h THEN v ELSE f[k]]
Omit(f, h) == [k \in DOMAIN f \ {h} |-> f[k]]

Payload(d) == [completed |-> d.completed, paused |-> d.paused]
NewRow(h) == [completed |-> FALSE, paused |-> FALSE, favorite |-> h \in favorites]

WindowInit ==
    /\ tab = "results" /\ query = "" /\ results = [h \in {} |-> h]
    /\ current = NoTorrent /\ remembered = [hash |-> NoTorrent, copy |-> Blank]
    /\ panel = [shown |-> FALSE, hash |-> NoTorrent, download |-> "none", voted |-> FALSE,
                favorite |-> FALSE, votes |-> NoTorrent, poster |-> NoTorrent]
    /\ files = [shown |-> FALSE, hash |-> NoTorrent, listed |-> FALSE, whole |-> TRUE]
    /\ registry = [h \in DOMAIN Downloading |->
                      [completed |-> Downloading[h], paused |-> FALSE, whole |-> TRUE, told |-> {}]]
    /\ downloadItems = [h \in DOMAIN registry |->
                  [completed |-> registry[h].completed, paused |-> FALSE, favorite |-> FALSE]]
    /\ index = [h \in WindowHash |-> [known |-> h \in Local, votes |-> FALSE,
                                       info |-> FALSE, listed |-> h \in Local]]
    /\ favorites = {} /\ voted = {} /\ asked = {} /\ dialog = NoTorrent /\ acts = 0 /\ happenings = 0

\* The user does something, which a modal dialog does not let through; something
\* happens to a torrent elsewhere.
Acts ==
    acts < MaxActs /\ acts' = acts + 1 /\ dialog = NoTorrent /\ UNCHANGED <<happenings, dialog>>
Happens == happenings < MaxEvents /\ happenings' = happenings + 1 /\ UNCHANGED <<acts, dialog>>
Answers == UNCHANGED <<acts, happenings, dialog>>

-----------------------------------------------------------------------------
(* The panels                                                               *)

\* setDownloadProgress or setDownloadCompleted, or resetDownloadState.
DownloadState(h) ==
    IF h \notin DOMAIN registry THEN "none"
    ELSE IF registry[h].completed THEN "completed" ELSE "progress"

\* What is the torrent's own, where there is any.
Own(h, has) == IF has THEN h ELSE NoTorrent

\* setTorrent() and requestTrackerRefresh(), of a copy: one without a page is looked up
\* on the trackers, one with a page shows its poster.
SetTorrent(h, copy) ==
    panel' = [shown |-> TRUE, hash |-> h, download |-> DownloadState(h), voted |-> h \in voted,
              favorite |-> h \in favorites, votes |-> Own(h, copy.votes),
              poster |-> Own(h, copy.info)]
Looked(h, copy) == [kind |-> IF copy.info THEN "poster" ELSE "trackers", of |-> h]

\* setFiles(): a list replaces the tree, all boxes checked.
SetFiles(h, listed) == files' = [shown |-> TRUE, hash |-> h, listed |-> listed, whole |-> TRUE]

\* The files are those of the copy, or else of the repository.
ShowTorrentDetails(h, copy) ==
    SetTorrent(h, copy) /\ SetFiles(h, copy.listed \/ index[h].listed)

\* The panels are hidden: the files forget their torrent, the details do not.
HideDetails ==
    /\ panel' = [panel EXCEPT !.shown = FALSE]
    /\ files' = [files EXCEPT !.shown = FALSE, !.hash = NoTorrent]

\* What a tab shows in the panels when it is turned to: the copy it holds.
Selection(t) ==
    CASE t = "results" /\ current # NoTorrent -> [hash |-> current, copy |-> results[current].copy]
      [] t = "torrents" -> remembered
      [] OTHER -> [hash |-> NoTorrent, copy |-> Blank]
ShowTab(t) ==
    LET s == Selection(t) IN
    IF s.hash = NoTorrent
    THEN HideDetails /\ asked' = asked
    ELSE ShowTorrentDetails(s.hash, s.copy) /\ asked' = asked \cup {Looked(s.hash, s.copy)}

OnTabChanged(t) ==
    /\ Acts /\ t # tab /\ tab' = t
    /\ ShowTab(t)
    /\ UNCHANGED <<query, results, current, remembered, serviceVars>>

\* The row loses its mark; it stays the current one, which a click does not select again.
OnDetailsPanelCloseRequested ==
    /\ Acts /\ panel.shown
    /\ HideDetails
    /\ UNCHANGED <<shownVars, serviceVars, asked>>

-----------------------------------------------------------------------------
(* Searching                                                                *)

LocalHits(q) == {h \in Matching[q] : index[h].known}
LocalFiles(q) == {h \in FileMatching[q] : index[h].listed}

\* A row of the repository comes without its list of files.
Read(h) == [votes |-> index[h].votes, info |-> index[h].info, listed |-> FALSE]

\* setResults() with the local hits; addFileResults() with the file matches, which
\* carry a list of the files that match.
SetResults(q) ==
    results' = [h \in LocalHits(q) \cup LocalFiles(q) |->
                   [remote |-> FALSE, file |-> h \in LocalFiles(q),
                    copy |-> [Read(h) EXCEPT !.listed = h \notin LocalHits(q)]]]

\* performSearch(): the results tab first, with what it still shows; then the
\* local hits, the file matches merged in, and the questions that go out.
PerformSearch(q) ==
    /\ Acts
    /\ query' = q /\ tab' = "results" /\ current' = NoTorrent
    /\ SetResults(q)
    /\ LET questions == {[kind |-> "search", of |-> q], [kind |-> "files", of |-> q]}
                        \cup {d \in {[kind |-> "dht", of |-> q]} :
                                  LocalHits(q) = {} /\ q \in DOMAIN HashQuery} IN
       IF tab = "results" THEN asked' = asked \cup questions /\ UNCHANGED <<panel, files>>
       ELSE IF current = NoTorrent THEN HideDetails /\ asked' = asked \cup questions
       ELSE /\ ShowTorrentDetails(current, results[current].copy)
            /\ asked' = asked \cup questions \cup {Looked(current, results[current].copy)}
    /\ UNCHANGED <<remembered, serviceVars>>

\* addResult: a torrent that is listed stays as it is.
AddResult(h, hit) == results' = IF h \in DOMAIN results THEN results ELSE Put(results, h, hit)
\* mergeFileResultIntoExisting
AddFileResult(h, hit) ==
    results' = Put(results, h, IF h \in DOMAIN results THEN [results[h] EXCEPT !.file = TRUE]
                               ELSE hit)

\* Hits of a peer, whatever it was asked for, as long as there is a query: the votes,
\* and whatever else it says of the torrent, are the peer's.
RemoteSearchResults(q, h, copy) ==
    /\ Answers /\ [kind |-> "search", of |-> q] \in asked /\ h \in Matching[q] /\ query # ""
    /\ AddResult(h, [remote |-> TRUE, file |-> FALSE, copy |-> copy])
    /\ asked' = asked \ {[kind |-> "search", of |-> q]}
    /\ UNCHANGED <<tab, query, current, remembered, panel, files, serviceVars>>
RemoteFileSearchResults(q, h, copy) ==
    /\ Answers /\ [kind |-> "files", of |-> q] \in asked /\ h \in FileMatching[q] /\ query # ""
    /\ AddFileResult(h, [remote |-> TRUE, file |-> TRUE, copy |-> copy])
    /\ asked' = asked \ {[kind |-> "files", of |-> q]}
    /\ UNCHANGED <<tab, query, current, remembered, panel, files, serviceVars>>

\* torrentUpdated: the panel reads the row of its torrent again, and its page.
TorrentUpdated(h, p) ==
    IF p.hash = h /\ index'[h].info THEN [p EXCEPT !.poster = h] ELSE p
PosterOf(h) == {q \in {[kind |-> "poster", of |-> h]} : panel.hash = h /\ index'[h].info}

\* insert() of a copy.  `taken` is what the window does not know of it: whether the
\* filter lets a new torrent in, whether a row is without files and takes the list, and
\* whether there are more votes than the row's.
AfterInsert(h, copy, taken) ==
    IF index[h].known
    THEN [index[h] EXCEPT !.votes = index[h].votes \/ copy.votes,
                          !.listed = index[h].listed \/ (taken /\ copy.listed)]
    ELSE IF taken THEN [known |-> TRUE, votes |-> copy.votes, info |-> copy.info,
                        listed |-> copy.listed]
    ELSE index[h]
Rewritten(h, copy, taken) ==
    /\ index[h].known
    /\ \/ copy.votes /\ (taken \/ ~index[h].votes)
       \/ copy.listed /\ taken /\ ~index[h].listed

\* ... and what the panel hears of it; `left` are the questions that stay open.
InsertCopy(h, copy, taken, left) ==
    /\ index' = Put(index, h, AfterInsert(h, copy, taken))
    /\ IF Rewritten(h, copy, taken)
       THEN panel' = TorrentUpdated(h, panel) /\ asked' = left \cup PosterOf(h)
       ELSE panel' = panel /\ asked' = left

\* Plausible bug: the question is not compared with the query.
AnyDhtAnswer(q) == TRUE
StillAsked(q) == query = q
FromDht == [votes |-> FALSE, info |-> FALSE, listed |-> TRUE]
\* torrent.get answers from the DHT, or with an error: what it found is inserted in any
\* case, and its answer is the row where there was one.
DhtAnswers(q, ok, taken) ==
    LET h == HashQuery[q]
        left == asked \ {[kind |-> "dht", of |-> q]} IN
    /\ Answers /\ asked # left
    /\ IF ok THEN InsertCopy(h, FromDht, taken, left)
       ELSE index' = index /\ panel' = panel /\ asked' = left
    /\ IF ok /\ StillAsked(q)
       THEN AddResult(h, [remote |-> FALSE, file |-> FALSE,
                          copy |-> IF ~index[h].known THEN FromDht
                                   ELSE [Read(h) EXCEPT !.listed = taken /\ ~index[h].listed]])
       ELSE results' = results
    /\ UNCHANGED <<tab, query, current, remembered, files, downloadItems, registry, favorites, voted>>

\* A remote hit without files here is asked for in full.
OnTorrentSelected(h) ==
    /\ Acts /\ tab = "results" /\ h \in DOMAIN results /\ h # current
    /\ LET copy == results[h].copy IN
       /\ current' = h /\ ShowTorrentDetails(h, copy)
       /\ asked' = asked \cup {Looked(h, copy)}
                   \cup {q \in {[kind |-> "torrent", of |-> h]} : results[h].remote /\ ~files'.listed}
    /\ UNCHANGED <<tab, query, results, remembered, serviceVars>>

\* A row of a torrent tab: of the repository, or a copy that the feed or the favorites hold.
TorrentSelected(h, copy) ==
    /\ Acts /\ tab = "torrents" /\ h # remembered.hash
    /\ copy \in Copies \/ (index[h].known /\ copy = Read(h))
    /\ remembered' = [hash |-> h, copy |-> copy] /\ ShowTorrentDetails(h, copy)
    /\ asked' = asked \cup {Looked(h, copy)}
    /\ UNCHANGED <<tab, query, results, current, serviceVars>>

-----------------------------------------------------------------------------
(* Answers about a torrent                                                  *)

\* The peer's torrent: its files are shown where it is the one in the panel, and then
\* it is inserted.
RemoteTorrentReceived(h, copy, taken) ==
    /\ Answers /\ [kind |-> "torrent", of |-> h] \in asked
    /\ IF panel.hash = h /\ copy.listed THEN SetFiles(h, TRUE) ELSE files' = files
    /\ InsertCopy(h, copy, taken, asked \ {[kind |-> "torrent", of |-> h]})
    /\ UNCHANGED <<shownVars, downloadItems, registry, favorites, voted>>

\* The crawler, the replication or an import has a torrent.
TorrentIndexed(h, copy, taken) ==
    /\ Happens
    /\ InsertCopy(h, copy, taken, asked)
    /\ UNCHANGED <<shownVars, files, downloadItems, registry, favorites, voted>>

\* The trackers gave counts, and perhaps a page: neither write tells the panel.
TrackersAnswer(h, found) ==
    /\ Answers /\ [kind |-> "trackers", of |-> h] \in asked
    /\ index' = IF index[h].known THEN Put(index, h, [index[h] EXCEPT !.info = index[h].info \/ found])
                ELSE index
    /\ asked' = asked \ {[kind |-> "trackers", of |-> h]}
    /\ UNCHANGED <<shownVars, panel, files, downloadItems, registry, favorites, voted>>

StillShown(h) == panel.hash = h
PosterLoaded(h, ok) ==
    /\ Answers /\ [kind |-> "poster", of |-> h] \in asked
    /\ asked' = asked \ {[kind |-> "poster", of |-> h]}
    /\ panel' = IF StillShown(h) THEN [panel EXCEPT !.poster = Own(h, ok)]
                ELSE panel
    /\ UNCHANGED <<shownVars, files, serviceVars>>

-----------------------------------------------------------------------------
(* Favorites and votes                                                      *)

\* add() or remove()
Favored(h) == (favorites \ {h}) \cup ({h} \ favorites)
\* ... and what follows favoritesChanged.
ToggleFavorite(h) ==
    /\ favorites' = Favored(h)
    /\ downloadItems' = [k \in DOMAIN downloadItems |->
                            [downloadItems[k] EXCEPT !.favorite = k \in favorites']]
    /\ panel' = [panel EXCEPT !.favorite = panel.hash \in favorites']

OnFavoriteClicked(h) ==
    /\ Acts /\ \/ panel.shown /\ panel.hash = h
               \/ tab = "downloads" /\ h \in DOMAIN downloadItems
    /\ ToggleFavorite(h)
    /\ UNCHANGED <<shownVars, files, registry, index, voted, asked>>

VotesOfShown(h) == panel.hash = h
\* update() of a row that is there
VotedIn(h) == index' = IF index[h].known THEN Put(index, h, [index[h] EXCEPT !.votes = TRUE]) ELSE index
\* The panel's buttons: disabled at once.  Of a torrent that is not in the repository
\* no vote is taken; else votesUpdated follows.
OnVoteClicked ==
    /\ Acts /\ panel.shown /\ ~panel.voted
    /\ LET h == panel.hash IN
       IF index[h].known
       THEN /\ voted' = voted \cup {h}
            /\ VotedIn(h)
            /\ panel' = [TorrentUpdated(h, panel) EXCEPT !.voted = TRUE, !.votes = h]
            /\ asked' = asked \cup PosterOf(h)
       ELSE panel' = [panel EXCEPT !.voted = TRUE] /\ UNCHANGED <<voted, index, asked>>
    /\ UNCHANGED <<shownVars, files, downloadItems, registry, favorites>>
\* A peer voted: the row is rewritten, and then onVotesUpdated.
OnVotesUpdated(h) ==
    /\ Happens
    /\ VotedIn(h)
    /\ LET p == IF index[h].known THEN TorrentUpdated(h, panel) ELSE panel IN
       panel' = IF VotesOfShown(h) THEN [p EXCEPT !.votes = h] ELSE p
    /\ asked' = asked \cup {p \in PosterOf(h) : index[h].known}
    /\ UNCHANGED <<shownVars, files, downloadItems, registry, favorites, voted>>

-----------------------------------------------------------------------------
(* Downloads                                                                *)

Started(h) ==
    /\ registry' = Put(registry, h, [completed |-> FALSE, paused |-> FALSE, whole |-> TRUE,
                                     told |-> {}])
    /\ downloadItems' = Put(downloadItems, h, NewRow(h))

\* The button of the panel opens a menu, and that perhaps a dialog for the folder ...
OnDownloadRequested ==
    /\ acts < MaxActs /\ acts' = acts + 1 /\ happenings' = happenings
    /\ panel.shown /\ panel.download = "none" /\ dialog = NoTorrent /\ dialog' = panel.hash
    /\ UNCHANGED <<shownVars, panel, files, serviceVars, asked>>
\* ... and what the user chose is added, unless it is a download by then.
DownloadChosen(chosen) ==
    /\ dialog # NoTorrent /\ dialog' = NoTorrent
    /\ IF chosen /\ dialog \notin DOMAIN registry
       THEN /\ Started(dialog)
            /\ panel' = IF panel.hash = dialog THEN [panel EXCEPT !.download = "progress"] ELSE panel
       ELSE UNCHANGED <<registry, downloadItems, panel>>
    /\ UNCHANGED <<shownVars, files, index, favorites, voted, asked, acts, happenings>>
\* Through the API: the panel hears with the first progress.
OnDownloadStarted(h) ==
    /\ Happens /\ h \notin DOMAIN registry
    /\ Started(h)
    /\ UNCHANGED <<shownVars, panel, files, index, favorites, voted, asked>>

\* torrentRemoved
RemovedFromPanel(h) == panel' = IF panel.hash = h THEN [panel EXCEPT !.download = "none"] ELSE panel
Removed(h) ==
    /\ registry' = Omit(registry, h) /\ downloadItems' = Omit(downloadItems, h)
    /\ RemovedFromPanel(h)
    /\ UNCHANGED <<shownVars, files, index, favorites, voted, asked>>
OnCancelRequested(h) ==
    /\ Acts /\ h \in DOMAIN registry
    /\ \/ tab = "downloads"
       \/ panel.shown /\ panel.hash = h /\ panel.download = "progress"
    /\ Removed(h)
DownloadRemoved(h) == Happens /\ h \in DOMAIN registry /\ Removed(h)

\* togglePause
Toggled(h) == registry' = Put(registry, h, [registry[h] EXCEPT !.paused = ~registry[h].paused])

\* The row's button, until the row is a completed one.
OnPauseToggled(h) ==
    /\ Acts /\ tab = "downloads" /\ h \in DOMAIN downloadItems /\ ~downloadItems[h].completed
    /\ Toggled(h)
    /\ downloadItems' = Put(downloadItems, h,
                            [downloadItems[h] EXCEPT !.paused = ~registry[h].paused])
    /\ UNCHANGED <<shownVars, panel, files, index, favorites, voted, asked>>
\* Through the API: the row hears with the next progress.
PauseToggled(h) ==
    /\ Happens /\ h \in DOMAIN registry
    /\ Toggled(h)
    /\ UNCHANGED <<shownVars, panel, files, downloadItems, index, favorites, voted, asked>>

\* A row that is completed stays so.
Shown(r, p) ==
    IF r.completed THEN r
    ELSE IF p.completed THEN [r EXCEPT !.completed = TRUE]
    ELSE [r EXCEPT !.paused = p.paused]

\* onProgressUpdated and onDownloadCompleted of the tab
RowTold(h, p) == downloadItems' = Put(downloadItems, h, Shown(downloadItems[h], p))

\* A poll of the service whose payload is new, the torrent complete now or not;
\* downloadCompleted follows for one that has just become complete.
OnProgressUpdated(h, complete) ==
    /\ Answers /\ h \in DOMAIN registry
    /\ LET d == [registry[h] EXCEPT !.completed = registry[h].completed \/ complete]
           p == Payload(d) IN
       /\ {p} # d.told
       /\ registry' = Put(registry, h, [d EXCEPT !.told = {p}])
       /\ RowTold(h, p)
       /\ panel' = IF panel.hash # h THEN panel
                   ELSE [panel EXCEPT !.download = IF d.completed /\ ~registry[h].completed
                                                   THEN "completed" ELSE "progress"]
    /\ UNCHANGED <<shownVars, files, index, favorites, voted, asked>>

\* A box of the tree: the selection goes to the download, where there is one.
OnFileItemChanged ==
    /\ Acts /\ files.shown /\ files.listed /\ files.hash # NoTorrent
    /\ files' = [files EXCEPT !.whole = ~files.whole]
    /\ registry' = IF files.hash \in DOMAIN registry
                   THEN Put(registry, files.hash,
                            [registry[files.hash] EXCEPT !.whole = ~files.whole])
                   ELSE registry
    /\ UNCHANGED <<shownVars, panel, downloadItems, index, favorites, voted, asked>>

-----------------------------------------------------------------------------
WindowNext ==
    \/ \E t \in {"results", "torrents", "downloads"} : OnTabChanged(t)
    \/ OnDetailsPanelCloseRequested \/ OnVoteClicked \/ OnDownloadRequested \/ OnFileItemChanged
    \/ \E chosen \in BOOLEAN : DownloadChosen(chosen)
    \/ \E q \in Query : \/ PerformSearch(q)
                        \/ \E h \in WindowHash, copy \in Copies :
                              RemoteSearchResults(q, h, copy) \/ RemoteFileSearchResults(q, h, copy)
    \/ \E q \in DOMAIN HashQuery, ok \in BOOLEAN, taken \in BOOLEAN : DhtAnswers(q, ok, taken)
    \/ \E h \in WindowHash, copy \in Copy : TorrentSelected(h, copy)
    \/ \E h \in WindowHash, copy \in Copies, taken \in BOOLEAN :
          RemoteTorrentReceived(h, copy, taken) \/ TorrentIndexed(h, copy, taken)
    \/ \E h \in WindowHash : \/ OnTorrentSelected(h)
                       \/ OnFavoriteClicked(h) \/ OnVotesUpdated(h)
                       \/ OnDownloadStarted(h) \/ OnCancelRequested(h) \/ DownloadRemoved(h)
                       \/ OnPauseToggled(h) \/ PauseToggled(h)
    \/ \E h \in WindowHash, b \in BOOLEAN :
          TrackersAnswer(h, b) \/ PosterLoaded(h, b) \/ OnProgressUpdated(h, b)

WindowSpec == WindowInit /\ [][WindowNext]_windowVars

WindowTypeOK ==
    /\ tab \in {"results", "torrents", "downloads"} /\ query \in Query \cup {""}
    /\ Of(results, Hit) /\ {current, dialog} \subseteq WindowHash \cup {NoTorrent}
    /\ remembered \in [hash : WindowHash \cup {NoTorrent}, copy : Copy]
    /\ panel \in Panel /\ files \in Files /\ Of(downloadItems, Row) /\ Of(registry, DownloadItem)
    /\ index \in [WindowHash -> Stored] /\ favorites \subseteq WindowHash /\ voted \subseteq WindowHash
    /\ asked \subseteq Question /\ acts \in 0..MaxActs /\ happenings \in 0..MaxEvents

-----------------------------------------------------------------------------
\* A hit found here, or by the DHT, answers the query of the moment.
ResultsAnswer ==
    \A h \in DOMAIN results : results[h].remote \/ h \in Matching[query] \cup FileMatching[query]

\* The rows are the downloads, complete exactly if they are.  (A row may show a
\* download as paused that is not: the button of the row and the API can undo each
\* other between two polls, and a payload that is the last one again is not told.)
RowsAgree ==
    /\ DOMAIN downloadItems = DOMAIN registry
    /\ \A h \in DOMAIN downloadItems :
          /\ downloadItems[h].favorite = (h \in favorites)
          /\ downloadItems[h].completed = registry[h].completed

(* However late an answer comes, the panels show one torrent, and of that   *)
(* torrent what is its own: no votes and no poster of another, whoever it is *)
(* that says so, and no bar of a download that is gone; results and rows are *)
(* as they say.                                                             *)
WindowIsRight ==
    /\ ResultsAnswer /\ RowsAgree
    /\ current \in DOMAIN results \cup {NoTorrent}
    /\ files.hash \in {panel.hash, NoTorrent}
    /\ {panel.votes, panel.poster} \subseteq {panel.hash, NoTorrent}
    /\ panel.hash # NoTorrent =>
          /\ panel.download # "none" => panel.hash \in DOMAIN registry
          /\ panel.favorite = (panel.hash \in favorites)
=============================================================================
