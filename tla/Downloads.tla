------------------------------ MODULE Downloads ------------------------------
(***************************************************************************)
(* DownloadManager and its session file (native/engine/downloads.cpp,      *)
(* native/engine/session_store.cpp), with the librats client it polls.     *)
(*                                                                         *)
(* The manager's state belongs to the engine loop, so each operation, each *)
(* poll and each autosave is one action. The client moves between them: it *)
(* fetches metadata, rechecks files and downloads pieces on its own.       *)
(*                                                                         *)
(* A file is its number of pieces, 0..Size. The revision counter is kept   *)
(* as changed, revision_ # lastSavedRevision_: it only ever grows. Speed,  *)
(* peers and remaining time are left out: they are not persisted, and can  *)
(* only make a poll count as a change that counts as one anyway.           *)
(***************************************************************************)
EXTENDS Integers, FiniteSets

CONSTANTS InfoHash,      \* info-hashes
          Size,          \* pieces per torrent (a bound)
          Nothing,       \* no download, no session entry
          FirstSessions, \* session files the first start may find
          MaxStarts,     \* how often the program is started (a bound)
          ClientStarts   \* whether the BitTorrent client comes up: values tried

Files == {"none", "all", "some"}    \* the file list and its selection
Payload == [bytes : 0..Size, sized : BOOLEAN, paused : BOOLEAN, completed : BOOLEAN]

\* struct Download; shown is lastProgress, sized is totalSize > 0.
Download == [ready : BOOLEAN, completed : BOOLEAN, paused : BOOLEAN,
             removeOnDone : BOOLEAN, bytes : 0..Size, sized : BOOLEAN,
             files : Files, shown : Payload \cup {Nothing}]

\* What the session file keeps of one.
Entry == [completed : BOOLEAN, paused : BOOLEAN, removeOnDone : BOOLEAN,
          bytes : 0..Size, sized : BOOLEAN, files : Files]

\* The client's view of a torrent.
ClientTorrent == [exists : BOOLEAN, meta : BOOLEAN, checked : BOOLEAN, paused : BOOLEAN,
            have : 0..Size]

DownloadsAssumptions ==
    /\ Size \in Nat \ {0}
    /\ MaxStarts \in Nat
    /\ ClientStarts \subseteq BOOLEAN
    /\ Nothing \notin Download \cup Entry \cup Payload
    /\ FirstSessions \subseteq [InfoHash -> Entry \cup {Nothing}]
    \* An entry is complete only with its file list: it was written with the metadata.
    /\ \A file \in FirstSessions, h \in InfoHash :
          file[h] # Nothing /\ file[h].completed => file[h].files # "none"

VARIABLES up,         \* the program runs
          starts,     \* how often it has been started
          client,     \* isReady(): the node, and with it the client, came up
          downloads,  \* downloads_
          changed,    \* revision_ # lastSavedRevision_
          everSaved,  \* everSaved_
          session,    \* the session file
          torrents,   \* the client's torrents
          resume,     \* resume data with metadata saved for a torrent
          disk,       \* pieces on disk
          reports     \* history: completions reported (or known) in this run

memory == <<client, downloads, changed, everSaved, torrents, reports>>
downloadsVars == <<up, starts, session, resume, disk, memory>>

-----------------------------------------------------------------------------

Tracked == {h \in InfoHash : downloads[h] # Nothing}

NoTorrent == [exists |-> FALSE, meta |-> FALSE, checked |-> FALSE,
              paused |-> FALSE, have |-> 0]

IsComplete(t) == t.checked /\ t.have = Size

\* Plausible bug: the payload forgets whether the download is complete.
PayloadShort(d) == [bytes |-> d.bytes, sized |-> d.sized, paused |-> d.paused]

PayloadOf(d) == [bytes |-> d.bytes, sized |-> d.sized, paused |-> d.paused,
                 completed |-> d.completed]

EntryOf(d) == [completed |-> d.completed, paused |-> d.paused,
               removeOnDone |-> d.removeOnDone, bytes |-> d.bytes,
               sized |-> d.sized, files |-> d.files]

Snapshot == [h \in InfoHash |-> IF h \in Tracked THEN EntryOf(downloads[h]) ELSE Nothing]

ApplySnapshot(d, t) ==
    [d EXCEPT !.ready = t.meta, !.completed = IsComplete(t), !.bytes = t.have,
              !.sized = TRUE, !.files = "all"]

-----------------------------------------------------------------------------
(* Start, shutdown and crash *)

\* restore() of one entry and what loadSession() applies after it; now: the
\* resume data has already brought back the metadata.
Restored(e, now) ==
    LET seeded == [ready |-> FALSE, completed |-> e.completed, paused |-> e.paused,
                   removeOnDone |-> e.removeOnDone, bytes |-> e.bytes,
                   sized |-> e.sized, files |-> e.files, shown |-> Nothing]
    IN  IF ~now THEN seeded
        ELSE [ApplySnapshot(seeded, [NoTorrent EXCEPT !.meta = TRUE]) EXCEPT
                !.completed = e.completed,
                !.bytes = IF e.completed THEN Size ELSE 0,
                !.files = IF e.files = "none" THEN "all" ELSE e.files]

\* Plausible bug: the pause recorded in the session is not handed to the client.
ResumedUnpaused(e, now) ==
    [NoTorrent EXCEPT !.exists = TRUE, !.meta = now]

Resumed(e, now) ==
    [NoTorrent EXCEPT !.exists = TRUE, !.meta = now, !.paused = e.paused]

\* The client may reject an entry. If it has resume data with the metadata, restore()
\* sees it: had it come later, the first poll would take a completion back.
LoadSession ==
    LET entries == {h \in InfoHash : session[h] # Nothing}
        now == {h \in entries : resume[h]}
    IN  \E accepted \in SUBSET entries :
          /\ downloads' = [h \in InfoHash |-> IF h \in accepted
                             THEN Restored(session[h], h \in now) ELSE Nothing]
          /\ torrents' = [h \in InfoHash |-> IF h \in accepted
                            THEN Resumed(session[h], h \in now) ELSE NoTorrent]
          /\ reports' = [h \in InfoHash |->
                            IF h \in accepted /\ session[h].completed THEN 1 ELSE 0]
          /\ changed' = (accepted # {})

NoSession == /\ downloads' = [h \in InfoHash |-> Nothing]
             /\ torrents' = [h \in InfoHash |-> NoTorrent]
             /\ reports' = [h \in InfoHash |-> 0]
             /\ changed' = FALSE

Start == /\ ~up
         /\ starts < MaxStarts
         /\ up' = TRUE
         /\ starts' = starts + 1
         /\ client' \in ClientStarts
         /\ IF client' THEN LoadSession ELSE NoSession
         /\ everSaved' = FALSE
         /\ UNCHANGED <<session, resume, disk>>

Forget == /\ up' = FALSE
          /\ client' = FALSE
          /\ downloads' = [h \in InfoHash |-> Nothing]
          /\ torrents' = [h \in InfoHash |-> NoTorrent]
          /\ reports' = [h \in InfoHash |-> 0]
          /\ changed' = FALSE
          /\ everSaved' = FALSE

ProgramCrash == /\ up
         /\ Forget
         /\ UNCHANGED <<starts, session, resume, disk>>

-----------------------------------------------------------------------------
(* The session file *)

\* Resume data is saved for every torrent before the file is written.
SaveResumeData == resume' = [h \in InfoHash |-> resume[h] \/ torrents[h].meta]

\* Temp file, then rename: the old file or the new one. An empty list deletes
\* the file; deleting is taken to succeed.
SessionWritten(ok) == session' = IF ok \/ Tracked = {} THEN Snapshot ELSE session

NeedsSave == ~everSaved \/ changed

Autosave(ok) ==
    /\ up
    /\ NeedsSave
    /\ SaveResumeData
    /\ SessionWritten(ok)
    /\ IF ok \/ Tracked = {}
       THEN changed' = FALSE /\ everSaved' = TRUE
       ELSE UNCHANGED <<changed, everSaved>>
    /\ UNCHANGED <<up, starts, client, downloads, torrents, disk, reports>>

Shutdown(ok) ==
    /\ up
    /\ SaveResumeData
    /\ SessionWritten(ok)
    /\ Forget
    /\ UNCHANGED <<starts, disk>>

-----------------------------------------------------------------------------
(* Commands of the user interface, run on the engine loop *)

Ready == up /\ client

\* add(), addWithInfo() and addFromFile().
Origin == {"magnet", "info", "file"}

NewDownload(origin) ==
    [ready |-> origin = "file", completed |-> FALSE, paused |-> FALSE,
     removeOnDone |-> FALSE, bytes |-> 0, sized |-> origin # "magnet",
     files |-> IF origin = "file" THEN "all" ELSE "none", shown |-> Nothing]

Add(h, origin) ==
    /\ Ready
    /\ h \notin Tracked
    /\ downloads' = [downloads EXCEPT ![h] = NewDownload(origin)]
    /\ torrents' = [torrents EXCEPT ![h] =
                        [NoTorrent EXCEPT !.exists = TRUE, !.meta = (origin = "file")]]
    /\ reports' = [reports EXCEPT ![h] = 0]
    /\ changed' = TRUE
    /\ UNCHANGED <<up, starts, client, everSaved, session, resume, disk>>

\* remove(): files stay; the interface asks for resume data to be saved.
RemoveDownload(h) ==
    /\ Ready
    /\ h \in Tracked
    /\ downloads' = [downloads EXCEPT ![h] = Nothing]
    /\ torrents' = [torrents EXCEPT ![h] = NoTorrent]
    /\ resume' = [resume EXCEPT ![h] = @ \/ torrents[h].meta]
    /\ reports' = [reports EXCEPT ![h] = 0]
    /\ changed' = TRUE
    /\ UNCHANGED <<up, starts, client, everSaved, session, disk>>

\* Only the files it has a list of can be deleted.
RemoveAndDelete(h) ==
    /\ Ready
    /\ h \in Tracked
    /\ disk' = [disk EXCEPT ![h] = IF downloads[h].files = "none" THEN @ ELSE 0]
    /\ downloads' = [downloads EXCEPT ![h] = Nothing]
    /\ torrents' = [torrents EXCEPT ![h] = NoTorrent]
    /\ reports' = [reports EXCEPT ![h] = 0]
    /\ changed' = TRUE
    /\ UNCHANGED <<up, starts, client, everSaved, session, resume>>

TogglePause(h) ==
    /\ Ready
    /\ h \in Tracked
    /\ downloads' = [downloads EXCEPT ![h].paused = ~@]
    /\ torrents' = [torrents EXCEPT ![h].paused = ~downloads[h].paused]
    /\ changed' = TRUE
    /\ UNCHANGED <<up, starts, client, everSaved, session, resume, disk, reports>>

-----------------------------------------------------------------------------
(* The 1 s poll *)

NewlyComplete(d, t) == IsComplete(t) /\ ~d.completed

\* Metadata that has just arrived fills in the download, else only the live
\* counters move.
Polled(d, t) ==
    LET seen == IF t.meta /\ ~d.ready THEN ApplySnapshot(d, t)
                ELSE [d EXCEPT !.bytes = t.have, !.sized = @ \/ t.meta]
        done == IF NewlyComplete(d, t) THEN [seen EXCEPT !.completed = TRUE] ELSE seen
    IN  [done EXCEPT !.shown = PayloadOf(done)]

Completing == {h \in Tracked : NewlyComplete(downloads[h], torrents[h])}
Leaving == {h \in Completing : downloads[h].removeOnDone}

TimesReported(n) == IF n < 2 THEN n + 1 ELSE n

Poll ==
    /\ Ready
    /\ downloads' = [h \in InfoHash |->
            IF h \in Tracked \ Leaving THEN Polled(downloads[h], torrents[h]) ELSE Nothing]
    /\ torrents' = [h \in InfoHash |-> IF h \in Leaving THEN NoTorrent ELSE torrents[h]]
    /\ reports' = [h \in InfoHash |->
           IF h \in Completing THEN TimesReported(reports[h]) ELSE reports[h]]
    /\ changed' = (\/ changed
                   \/ Leaving # {}
                   \/ \E h \in Tracked : Polled(downloads[h], torrents[h]).shown # downloads[h].shown)
    /\ UNCHANGED <<up, starts, client, everSaved, session, resume, disk>>

-----------------------------------------------------------------------------
(* The client, on its own threads *)

ClientStep(h, t) ==
    /\ torrents[h].exists
    /\ torrents' = [torrents EXCEPT ![h] = t]
    /\ UNCHANGED <<up, starts, client, downloads, changed, everSaved, session,
                   resume, reports>>

FetchesMetadata(h) == /\ ~torrents[h].meta
                      /\ ~torrents[h].paused
                      /\ ClientStep(h, [torrents[h] EXCEPT !.meta = TRUE])
                      /\ UNCHANGED disk

Rechecks(h) == /\ torrents[h].meta
               /\ ~torrents[h].checked
               /\ ClientStep(h, [torrents[h] EXCEPT !.checked = TRUE, !.have = disk[h]])
               /\ UNCHANGED disk

GetsPiece(h) == /\ torrents[h].checked
                /\ ~torrents[h].paused
                /\ torrents[h].have < Size
                /\ ClientStep(h, [torrents[h] EXCEPT !.have = @ + 1])
                /\ disk' = [disk EXCEPT ![h] = torrents[h].have + 1]

-----------------------------------------------------------------------------

DownloadsInit == /\ up = FALSE
        /\ starts = 0
        /\ client = FALSE
        /\ downloads = [h \in InfoHash |-> Nothing]
        /\ changed = FALSE
        /\ everSaved = FALSE
        /\ session \in FirstSessions
        /\ torrents = [h \in InfoHash |-> NoTorrent]
        /\ resume = [h \in InfoHash |-> session[h] # Nothing /\ session[h].files # "none"]
        /\ disk = [h \in InfoHash |-> IF session[h] # Nothing THEN session[h].bytes ELSE 0]
        /\ reports = [h \in InfoHash |-> 0]

Command(h) == \/ \E origin \in Origin : Add(h, origin)
              \/ RemoveDownload(h)
              \/ RemoveAndDelete(h)
              \/ TogglePause(h)

ClientMoves(h) == FetchesMetadata(h) \/ Rechecks(h) \/ GetsPiece(h)

DownloadsNext == \/ Start \/ ProgramCrash \/ Poll
        \/ \E ok \in BOOLEAN : Autosave(ok) \/ Shutdown(ok)
        \/ \E h \in InfoHash : Command(h) \/ ClientMoves(h)

DownloadsSpec == DownloadsInit /\ [][DownloadsNext]_downloadsVars

-----------------------------------------------------------------------------
(* Properties *)

DownloadsTypeOK == /\ up \in BOOLEAN
          /\ starts \in 0..MaxStarts
          /\ client \in BOOLEAN
          /\ downloads \in [InfoHash -> Download \cup {Nothing}]
          /\ changed \in BOOLEAN
          /\ everSaved \in BOOLEAN
          /\ session \in [InfoHash -> Entry \cup {Nothing}]
          /\ torrents \in [InfoHash -> ClientTorrent]
          /\ resume \in [InfoHash -> BOOLEAN]
          /\ disk \in [InfoHash -> 0..Size]
          /\ reports \in [InfoHash -> 0..2]

(* The manager and the client hold the same torrents, paused alike: add, remove,
   restore, pause and removeOnDone keep the two in step (no orphan that goes on
   downloading, no ghost in the list). *)
ClientAgrees == \A h \in InfoHash :
    /\ torrents[h].exists <=> h \in Tracked
    /\ h \in Tracked => torrents[h].paused = downloads[h].paused

(* A completion is reported once: not on every poll while the torrent seeds, and
   not for a torrent the session already recorded as complete. *)
ReportedOnce == \A h \in InfoHash : reports[h] <= 1

(* "It must not downgrade a torrent the session recorded as complete" (restore):
   a download that is complete stays so until it is removed. *)
NeverDowngraded ==
    [][\A h \in InfoHash : (h \in Tracked /\ h \in Tracked' /\ downloads[h].completed)
                          => downloads'[h].completed]_downloadsVars

\* The session entry without the file list and its selection.
Core(e) == IF e = Nothing THEN Nothing
           ELSE <<e.completed, e.paused, e.removeOnDone, e.bytes, e.sized>>

(* The autosave only looks at revision_: when it finds nothing to do, the session
   file holds every download with its progress, pause and completion. *)
SavedWhenQuiet ==
    up /\ ~NeedsSave => \A h \in InfoHash : Core(session[h]) = Core(Snapshot[h])

(* Together: what the interface shows, what the client does and what is on disk
   never drift apart. *)
DownloadsAgree == ClientAgrees /\ ReportedOnce /\ SavedWhenQuiet

(* "loadSession/start no-op cleanly when the BitTorrent client isn't available":
   a run without a client leaves the session file alone. *)
SessionKeptWithoutClient == [][up /\ ~client => UNCHANGED session]_downloadsVars

(* A completion the session file does not have yet: it gets there if the program
   keeps running and the download is not removed. *)
CompletionOwed ==
    up /\ \E h \in Tracked :
        downloads[h].completed /\ ~(session[h] # Nothing /\ session[h].completed)

=============================================================================
