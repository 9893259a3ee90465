--------------------------- MODULE DownloadService ---------------------------
(***************************************************************************)
(* The download registry of the Qt program (src/src/services/download_     *)
(* service), its session file and the engine it drives (src/src/net/       *)
(* torrent_engine).  One thread; librats works beside it and a poll once a *)
(* second mirrors what it has come to.  A torrent restored from the session*)
(* is shown as it was saved, while librats checks its files again.         *)
(***************************************************************************)
EXTENDS Integers, FiniteSets

CONSTANTS
    InfoHash,
    MaxCommands, MaxSessions  \* bounds

VARIABLES
    up,         \* the program runs
    ready,      \* isReady(): librats' BitTorrent subsystem is there
    downloads,  \* downloads_
    client,     \* librats' torrents
    content,    \* hashes whose files are whole on disk
    resume,     \* hashes whose resume file has the metadata
    session,    \* torrents_session.json
    announced,  \* history: downloadCompleted of this run of the program
    commands, sessionStarts

downloadVars == <<up, ready, downloads, client, content, resume, session, announced, commands,
                  sessionStarts>>

\* `selected`: every file is wanted.
Download == [ready : BOOLEAN, completed : BOOLEAN, paused : BOOLEAN, selected : BOOLEAN]
\* librats' view of a torrent (TorrentSnapshot).
Torrent == [meta : BOOLEAN, complete : BOOLEAN, paused : BOOLEAN]
Entries(S) == UNION {[D -> S] : D \in SUBSET InfoHash}

With(f, h, v) == [k \in DOMAIN f \cup {h} |-> IF k = h THEN v ELSE f[k]]
Without(f, h) == [k \in DOMAIN f \ {h} |-> f[k]]
NoEntries == [k \in {} |-> k]

DownloadInit ==
    /\ up = FALSE /\ ready = FALSE
    /\ downloads = NoEntries /\ client = NoEntries /\ session = NoEntries
    /\ content = {} /\ resume = {} /\ announced = {} /\ commands = 0 /\ sessionStarts = 0

-----------------------------------------------------------------------------
(* Commands                                                                 *)

IsDownloading(h) == h \in DOMAIN downloads
Commanded == up /\ commands < MaxCommands /\ commands' = commands + 1

\* With every file wanted, and not paused.
Begun(known, whole) == [ready |-> known, completed |-> whole, paused |-> FALSE, selected |-> TRUE]

\* A magnet begins without metadata; librats may refuse it.
Add(h) ==
    /\ Commanded /\ ready /\ ~IsDownloading(h)
    /\ client' = With(client, h, [meta |-> FALSE, complete |-> FALSE, paused |-> FALSE])
    /\ downloads' = With(downloads, h, Begun(FALSE, FALSE))
    /\ UNCHANGED <<up, ready, content, resume, session, announced, sessionStarts>>

AddFromFile(h) ==
    /\ Commanded /\ ready /\ ~IsDownloading(h)
    /\ client' = With(client, h, [meta |-> TRUE, complete |-> FALSE, paused |-> FALSE])
    /\ downloads' = With(downloads, h, Begun(TRUE, FALSE))
    /\ UNCHANGED <<up, ready, content, resume, session, announced, sessionStarts>>

\* createAndSeed: librats seeds what it has just hashed, and the registry shows
\* it as complete.
RegisterSeed(h) ==
    /\ Commanded /\ ready /\ ~IsDownloading(h)
    /\ client' = With(client, h, [meta |-> TRUE, complete |-> TRUE, paused |-> FALSE])
    /\ downloads' = With(downloads, h, Begun(TRUE, TRUE))
    /\ content' = content \cup {h} /\ announced' = announced \cup {h}
    /\ UNCHANGED <<up, ready, resume, session, sessionStarts>>

RemoveDownload(h) ==
    /\ Commanded /\ IsDownloading(h)
    /\ downloads' = Without(downloads, h) /\ client' = Without(client, h)
    /\ announced' = announced \ {h}
    /\ UNCHANGED <<up, ready, content, resume, session, sessionStarts>>

\* pause() and resume(), as togglePause() chooses.
TogglePause(h) ==
    /\ Commanded /\ IsDownloading(h)
    /\ downloads' = [downloads EXCEPT ![h].paused = ~@]
    /\ client' = [client EXCEPT ![h].paused = ~@]
    /\ UNCHANGED <<up, ready, content, resume, session, announced, sessionStarts>>

\* Only where the files are known is there something to select.
SelectFiles(h) ==
    /\ Commanded /\ IsDownloading(h) /\ downloads[h].ready
    /\ downloads' = [downloads EXCEPT ![h].selected = ~@]
    /\ UNCHANGED <<up, ready, client, content, resume, session, announced, sessionStarts>>

-----------------------------------------------------------------------------
(* The poll                                                                 *)

\* What a snapshot with metadata makes of a download.
ApplySnapshot(d, c) == [d EXCEPT !.ready = TRUE, !.completed = c.complete, !.selected = TRUE]

Polled(d, c) ==
    LET e == IF c.meta /\ ~d.ready THEN ApplySnapshot(d, c) ELSE d IN
    [e EXCEPT !.completed = @ \/ c.complete]

NewlyCompleted ==
    {h \in DOMAIN downloads : client[h].complete /\ ~downloads[h].completed}

\* onUpdateTimer: pollStatus over all downloads, then the signals.
OnUpdateTimer ==
    /\ up /\ ready
    /\ downloads' = [h \in DOMAIN downloads |-> Polled(downloads[h], client[h])]
    /\ announced' = announced \cup NewlyCompleted
    /\ downloads' # downloads
    /\ UNCHANGED <<up, ready, client, content, resume, session, commands, sessionStarts>>

-----------------------------------------------------------------------------
(* librats                                                                  *)

MetadataArrives(h) ==
    /\ h \in DOMAIN client /\ ~client[h].meta
    /\ client' = [client EXCEPT ![h].meta = TRUE]
    /\ UNCHANGED <<up, ready, downloads, content, resume, session, announced, commands,
                   sessionStarts>>

\* All pieces are there: downloaded, or found by the check of the files.
Completes(h) ==
    /\ h \in DOMAIN client /\ client[h].meta /\ ~client[h].complete
    /\ ~client[h].paused \/ h \in content
    /\ client' = [client EXCEPT ![h].complete = TRUE] /\ content' = content \cup {h}
    /\ UNCHANGED <<up, ready, downloads, resume, session, announced, commands, sessionStarts>>

-----------------------------------------------------------------------------
(* The session                                                              *)

\* Seeded from the entry; where resume data has brought the metadata, from the
\* snapshot too, which is older than the check of the files.
Restored(h, e) ==
    LET c == [meta |-> h \in resume, complete |-> FALSE]
        d == [e EXCEPT !.ready = FALSE]
        s == IF c.meta THEN ApplySnapshot(d, c) ELSE d IN
    [s EXCEPT !.completed = @ \/ e.completed, !.selected = e.selected]

\* Plausible bug: the pause is remembered and not applied.
ResumedRunning(h, e) == [meta |-> h \in resume, complete |-> FALSE, paused |-> FALSE]
\* addMagnetResumed and the pause that follows.
Resumed(h, e) == [meta |-> h \in resume, complete |-> FALSE, paused |-> e.paused]

\* Application::start: without BitTorrent nothing can be restored.
LoadSession(r) ==
    /\ ~up /\ sessionStarts < MaxSessions
    /\ up' = TRUE /\ ready' = r /\ sessionStarts' = sessionStarts + 1
    /\ downloads' = IF r THEN [h \in DOMAIN session |-> Restored(h, session[h])] ELSE NoEntries
    /\ client' = IF r THEN [h \in DOMAIN session |-> Resumed(h, session[h])] ELSE NoEntries
    /\ announced' = {h \in DOMAIN downloads' : downloads'[h].completed}
    /\ UNCHANGED <<content, resume, session, commands>>

\* TorrentSessionStore::save: an empty list removes the file.
Saved == [h \in DOMAIN downloads |-> downloads[h]]

\* Application::stop: resume data, session file, then librats goes.
SaveSession ==
    /\ up
    /\ resume' = resume \cup {h \in DOMAIN client : client[h].meta}
    /\ session' = Saved
    /\ up' = FALSE /\ ready' = FALSE
    /\ downloads' = NoEntries /\ client' = NoEntries /\ announced' = {}
    /\ UNCHANGED <<content, commands, sessionStarts>>

\* The program dies, perhaps while the file is being written: one that does not
\* parse restores nothing.
DownloadsDie(torn) ==
    /\ up
    /\ session' = IF torn THEN NoEntries ELSE session
    /\ up' = FALSE /\ ready' = FALSE
    /\ downloads' = NoEntries /\ client' = NoEntries /\ announced' = {}
    /\ UNCHANGED <<content, resume, commands, sessionStarts>>

DownloadNext ==
    \/ \E h \in InfoHash : \/ Add(h) \/ AddFromFile(h) \/ RegisterSeed(h) \/ RemoveDownload(h)
                       \/ TogglePause(h) \/ SelectFiles(h) \/ MetadataArrives(h) \/ Completes(h)
    \/ OnUpdateTimer \/ SaveSession
    \/ \E b \in BOOLEAN : LoadSession(b) \/ DownloadsDie(b)

DownloadSpec == DownloadInit /\ [][DownloadNext]_downloadVars

-----------------------------------------------------------------------------
DownloadTypeOK ==
    /\ up \in BOOLEAN /\ ready \in BOOLEAN
    /\ downloads \in Entries(Download) /\ session \in Entries(Download)
    /\ client \in Entries(Torrent)
    /\ content \subseteq InfoHash /\ resume \subseteq InfoHash /\ announced \subseteq InfoHash

(* The registry and librats hold the same torrents, and agree on which of   *)
(* them are paused, through restarts and late metadata; whatever the        *)
(* registry shows as completed was reported as completed in this run.       *)
RegistryAgrees ==
    /\ DOMAIN downloads = DOMAIN client
    /\ \A h \in DOMAIN downloads :
          /\ downloads[h].paused = client[h].paused
          /\ downloads[h].completed => h \in announced
=============================================================================
