----------------------------- MODULE EngineProofs -----------------------------
(***************************************************************************)
(* Downloads, for any torrents, sessions found, crashes, restarts and      *)
(* failed saves: the download list, the client and the session file stay   *)
(* in step, a completion is reported once, and it is never taken back.     *)
(*                                                                         *)
(* TorrentIndex, for every set of torrents, every cap, slack and batch, and*)
(* deletes that fail for good: the count the cap is judged by is that of   *)
(* the rows, one chain of batches prunes, and no write, late scrape or     *)
(* crash leaves a row without a name or file rows without a torrent. And a *)
(* chain that ends has done what it was for.                               *)
(*                                                                         *)
(* SwarmScraper, for any trackers, threads and slots: a hash is reported   *)
(* once, with the best of its answers, and its slot given back once.       *)
(*                                                                         *)
(* Tui, for any texts, torrents and keys: what a tab shows is of its own   *)
(* last search or snapshot, a fetch is owed once, and no file is deleted   *)
(* that was not asked for twice.                                           *)
(*                                                                         *)
(* Batch, for any rows, filters and pages: a command that ends has gone    *)
(* through all it was asked to.                                            *)
(***************************************************************************)
EXTENDS Engine, PeerNodeProofs, FiniteSetTheorems, SequenceTheorems, TLAPS

-----------------------------------------------------------------------------
(* Downloads                                                                *)

-----------------------------------------------------------------------------
(* Types of the records the manager builds.                                 *)

LEMMA TorrentTyped ==
  ASSUME DownloadsAssumptions
  PROVE  /\ NoTorrent \in ClientTorrent /\ Size \in 0..Size /\ 0 \in 0..Size
         /\ NoTorrent.exists = FALSE /\ NoTorrent.meta = FALSE
         /\ NoTorrent.checked = FALSE /\ NoTorrent.paused = FALSE
         /\ NoTorrent.have = 0
<1>1. Size \in 0..Size /\ 0 \in 0..Size
  BY DEF DownloadsAssumptions
<1>2. /\ NoTorrent \in ClientTorrent /\ NoTorrent.have = 0
      /\ NoTorrent.exists = FALSE /\ NoTorrent.meta = FALSE
      /\ NoTorrent.checked = FALSE /\ NoTorrent.paused = FALSE
  BY <1>1 DEF ClientTorrent, NoTorrent
<1> QED
  BY <1>1, <1>2

(* What the client holds of a torrent it has just been given.               *)
LEMMA GivenTyped ==
  ASSUME DownloadsAssumptions, NEW m \in BOOLEAN, NEW q \in BOOLEAN,
         NEW t, t = [NoTorrent EXCEPT !.exists = TRUE, !.meta = m, !.paused = q]
  PROVE  /\ t \in ClientTorrent /\ t.exists = TRUE /\ t.meta = m
         /\ t.checked = FALSE /\ t.paused = q
BY TorrentTyped DEF ClientTorrent

(* A poll rebuilds a download from the client's torrent: it is ready once   *)
(* the metadata is there, never loses a completion it had when ready, and   *)
(* remembers what it showed.                                                *)
LEMMA PolledIs ==
  ASSUME DownloadsAssumptions, NEW d \in Download, NEW t \in ClientTorrent
  PROVE  /\ Polled(d, t) \in Download /\ Polled(d, t) # Nothing
         /\ Polled(d, t).shown = PayloadOf(Polled(d, t)) /\ Polled(d, t).shown # Nothing
         /\ Polled(d, t).paused = d.paused /\ Polled(d, t).removeOnDone = d.removeOnDone
         /\ Polled(d, t).ready = (d.ready \/ t.meta)
         /\ d.completed /\ d.ready => Polled(d, t).completed
         /\ Polled(d, t).completed => d.completed \/ IsComplete(t)
         /\ NewlyComplete(d, t) => Polled(d, t).completed
<1> DEFINE seen == IF t.meta /\ ~d.ready THEN ApplySnapshot(d, t)
                   ELSE [d EXCEPT !.bytes = t.have, !.sized = @ \/ t.meta]
           done == IF NewlyComplete(d, t) THEN [seen EXCEPT !.completed = TRUE] ELSE seen
<1>1. /\ d.ready \in BOOLEAN /\ d.completed \in BOOLEAN /\ d.paused \in BOOLEAN
      /\ d.removeOnDone \in BOOLEAN /\ d.sized \in BOOLEAN /\ d.files \in Files
      /\ t.meta \in BOOLEAN /\ t.checked \in BOOLEAN /\ t.have \in 0..Size
      /\ IsComplete(t) \in BOOLEAN
  BY DEF Download, ClientTorrent, IsComplete
<1>2. /\ ApplySnapshot(d, t) \in Download
      /\ ApplySnapshot(d, t).ready = t.meta
      /\ ApplySnapshot(d, t).completed = IsComplete(t)
      /\ ApplySnapshot(d, t).paused = d.paused
      /\ ApplySnapshot(d, t).removeOnDone = d.removeOnDone
  BY <1>1 DEF ApplySnapshot, Download, Files
<1>3. [d EXCEPT !.bytes = t.have, !.sized = @ \/ t.meta] \in Download
  BY <1>1 DEF Download
<1>4. /\ seen \in Download /\ seen.paused = d.paused /\ seen.removeOnDone = d.removeOnDone
      /\ seen.ready = (d.ready \/ t.meta)
      /\ d.completed /\ d.ready => seen.completed
      /\ seen.completed => d.completed \/ IsComplete(t)
  BY <1>1, <1>2, <1>3 DEF Download
<1> HIDE DEF seen
<1>5. /\ done \in Download /\ done.paused = seen.paused /\ done.ready = seen.ready
      /\ done.removeOnDone = seen.removeOnDone
      /\ seen.completed => done.completed
      /\ done.completed => seen.completed \/ NewlyComplete(d, t)
      /\ NewlyComplete(d, t) => done.completed
  BY <1>4 DEF Download
<1>6. NewlyComplete(d, t) => IsComplete(t)
  BY DEF NewlyComplete
<1>7. Polled(d, t) = [done EXCEPT !.shown = PayloadOf(done)]
  BY DEF Polled, seen
<1> HIDE DEF done
<1>8. PayloadOf(done) \in Payload
  BY <1>5 DEF Download, Payload, PayloadOf
<1>9. /\ Polled(d, t) \in Download /\ Polled(d, t).shown = PayloadOf(done)
      /\ PayloadOf(Polled(d, t)) = PayloadOf(done)
      /\ Polled(d, t).paused = done.paused /\ Polled(d, t).removeOnDone = done.removeOnDone
      /\ Polled(d, t).ready = done.ready /\ Polled(d, t).completed = done.completed
  BY <1>5, <1>7, <1>8 DEF Download, PayloadOf
<1>10. Polled(d, t) # Nothing /\ PayloadOf(done) # Nothing
  BY <1>8, <1>9 DEF DownloadsAssumptions
<1> QED
  BY <1>4, <1>5, <1>6, <1>9, <1>10

(* restore(): a complete entry comes back complete, and ready when the      *)
(* metadata was saved with it.                                              *)
LEMMA RestoredIs ==
  ASSUME DownloadsAssumptions, NEW e \in Entry, NEW now \in BOOLEAN
  PROVE  /\ Restored(e, now) \in Download /\ Restored(e, now) # Nothing
         /\ Restored(e, now).shown = Nothing /\ Restored(e, now).paused = e.paused
         /\ Restored(e, now).completed = e.completed /\ Restored(e, now).ready = now
<1> DEFINE seeded == [ready |-> FALSE, completed |-> e.completed, paused |-> e.paused,
                      removeOnDone |-> e.removeOnDone, bytes |-> e.bytes,
                      sized |-> e.sized, files |-> e.files, shown |-> Nothing]
           t == [NoTorrent EXCEPT !.meta = TRUE]
<1>1. /\ e.completed \in BOOLEAN /\ e.paused \in BOOLEAN /\ e.removeOnDone \in BOOLEAN
      /\ e.bytes \in 0..Size /\ e.sized \in BOOLEAN /\ e.files \in Files
  BY DEF Entry
<1>2. seeded \in Download
  BY <1>1 DEF Download
<1>3. IsComplete(t) = FALSE /\ t.meta = TRUE /\ t.have = 0
  BY TorrentTyped DEF ClientTorrent, IsComplete
<1> HIDE DEF t
<1>4. Size \in 0..Size /\ 0 \in 0..Size
  BY TorrentTyped
<1> DEFINE bytes == IF e.completed THEN Size ELSE 0
           files == IF e.files = "none" THEN "all" ELSE e.files
<1>5. bytes \in 0..Size /\ files \in Files
  BY <1>1, <1>4 DEF Files
<1>6. ~now => Restored(e, now) = seeded
  BY DEF Restored
<1>7. now => Restored(e, now) = [ApplySnapshot(seeded, t) EXCEPT
                                    !.completed = e.completed, !.bytes = bytes, !.files = files]
  BY DEF Restored, t
<1>8. /\ seeded.ready = FALSE /\ seeded.shown = Nothing /\ seeded.paused = e.paused
      /\ seeded.completed = e.completed
  OBVIOUS
<1> HIDE DEF seeded, bytes, files
<1>9. CASE now
  <2> DEFINE a == ApplySnapshot(seeded, t)
  <2>1. a \in Download /\ a.ready = TRUE /\ a.shown = Nothing /\ a.paused = e.paused
    BY <1>2, <1>3, <1>4, <1>8 DEF ApplySnapshot, Download, Files
  <2>2. Restored(e, now) = [a EXCEPT !.completed = e.completed, !.bytes = bytes, !.files = files]
    BY <1>7, <1>9
  <2> HIDE DEF a
  <2>3. /\ Restored(e, now) \in Download /\ Restored(e, now).shown = Nothing
        /\ Restored(e, now).paused = e.paused /\ Restored(e, now).completed = e.completed
        /\ Restored(e, now).ready = TRUE
    BY <1>1, <1>5, <2>1, <2>2 DEF Download
  <2>4. Restored(e, now) # Nothing /\ now = TRUE
    BY <1>9, <2>3 DEF DownloadsAssumptions
  <2> QED
    BY <2>3, <2>4
<1>10. CASE ~now
  <2>1. Restored(e, now) = seeded
    BY <1>6, <1>10
  <2>2. seeded # Nothing
    BY <1>2 DEF DownloadsAssumptions
  <2>3. seeded.ready = now
    BY <1>8, <1>10
  <2> QED
    BY <1>2, <1>8, <2>1, <2>2, <2>3, Zenon
<1> QED
  BY <1>9, <1>10
-----------------------------------------------------------------------------
(* The inductive invariant speaks of each hash alone. The client holds what *)
(* is listed, paused alike. A completion is only recorded with the metadata *)
(* at hand, so it survives a restart: restore() finds the resume data, and  *)
(* the download is ready before the first poll. It is reported when it is   *)
(* set. What was shown last is the download's own state, but for the pause. *)

Sound(d, t, s, r, n) ==
    /\ t.exists <=> d # Nothing
    /\ t.checked => t.meta
    /\ s # Nothing /\ s.completed => r
    /\ n <= 1
    /\ d # Nothing =>
          /\ d.paused = t.paused
          /\ d.completed => d.ready
          /\ d.ready => t.meta
          /\ ~d.completed => n = 0
          /\ d.shown # Nothing =>
                /\ d.shown.bytes = d.bytes /\ d.shown.sized = d.sized
                /\ d.shown.completed = d.completed

AllSound == \A h \in InfoHash : Sound(downloads[h], torrents[h], session[h], resume[h], reports[h])

(* Nothing is listed and the client holds nothing.                          *)
LEMMA EmptySound ==
  ASSUME DownloadsAssumptions, NEW s, NEW r, s # Nothing /\ s.completed => r, NEW n \in 0..1
  PROVE  Sound(Nothing, NoTorrent, s, r, n)
<1>1. NoTorrent.exists = FALSE /\ NoTorrent.checked = FALSE
  BY TorrentTyped
<1>2. n <= 1
  OBVIOUS
<1> QED
  BY <1>1, <1>2, Zenon DEF Sound

StoppedIsEmpty == ~up => Tracked = {} /\ ~client

DownloadsInv == DownloadsTypeOK /\ AllSound /\ SavedWhenQuiet /\ StoppedIsEmpty

LEMMA TrackedTyped ==
  ASSUME DownloadsTypeOK, NEW h \in InfoHash
  PROVE  /\ downloads[h] # Nothing <=> h \in Tracked
         /\ h \in Tracked => downloads[h] \in Download
         /\ torrents[h] \in ClientTorrent
BY DEF DownloadsTypeOK, Tracked

LEMMA DownloadsInitInv == ASSUME DownloadsAssumptions, DownloadsInit PROVE DownloadsInv
<1>1. Tracked = {}
  BY DEF DownloadsInit, Tracked
<1>2. \A h \in InfoHash : session[h] \in Entry \cup {Nothing}
  BY DEF DownloadsInit, DownloadsAssumptions
<1>3. DownloadsTypeOK
  <2>1. disk \in [InfoHash -> 0..Size]
    BY <1>2, TorrentTyped DEF DownloadsInit, Entry
  <2>2. resume \in [InfoHash -> BOOLEAN]
    BY DEF DownloadsInit
  <2>3. session \in [InfoHash -> Entry \cup {Nothing}]
    BY DEF DownloadsInit, DownloadsAssumptions
  <2>4. 0 \in 0..MaxStarts /\ 0 \in 0..2
    BY DEF DownloadsAssumptions
  <2>5. torrents \in [InfoHash -> ClientTorrent] /\ downloads \in [InfoHash -> Download \cup {Nothing}]
    BY TorrentTyped DEF DownloadsInit
  <2> QED
    BY <2>1, <2>2, <2>3, <2>4, <2>5 DEF DownloadsInit, DownloadsTypeOK
<1>4. AllSound
  <2> SUFFICES ASSUME NEW h \in InfoHash
               PROVE  Sound(downloads[h], torrents[h], session[h], resume[h], reports[h])
    BY DEF AllSound
  <2>1. /\ downloads[h] = Nothing /\ torrents[h] = NoTorrent /\ reports[h] = 0
        /\ session[h] # Nothing /\ session[h].completed => resume[h]
    BY DEF DownloadsInit, DownloadsAssumptions
  <2>2. 0 \in 0..1
    OBVIOUS
  <2> QED
    BY <2>1, <2>2, EmptySound
<1> QED
  BY <1>1, <1>3, <1>4 DEF DownloadsInit, DownloadsInv, SavedWhenQuiet, StoppedIsEmpty

-----------------------------------------------------------------------------
(* Steps of one torrent.                                                    *)

LEMMA NewDownloadIs ==
  ASSUME DownloadsAssumptions, NEW origin \in Origin
  PROVE  /\ NewDownload(origin) \in Download /\ NewDownload(origin) # Nothing
         /\ NewDownload(origin).ready = (origin = "file") /\ ~NewDownload(origin).completed
         /\ ~NewDownload(origin).paused /\ NewDownload(origin).shown = Nothing
<1>1. NewDownload(origin) \in Download
  BY TorrentTyped DEF NewDownload, Download, Files, Origin
<1> QED
  BY <1>1 DEF NewDownload, DownloadsAssumptions

(* A step for one hash: what it leaves there must be sound, and a change    *)
(* of the list must ask for a save.                                         *)
LEMMA OneHash ==
  ASSUME DownloadsInv, up, NEW h \in InfoHash, NEW d \in Download \cup {Nothing}, NEW t \in ClientTorrent,
         NEW r, r \in BOOLEAN, NEW n, n \in 0..2, Sound(d, t, session[h], r, n),
         downloads' = [downloads EXCEPT ![h] = d], torrents' = [torrents EXCEPT ![h] = t],
         resume' = [resume EXCEPT ![h] = r], reports' = [reports EXCEPT ![h] = n],
         disk' \in [InfoHash -> 0..Size],
         changed' = TRUE \/ (downloads' = downloads /\ changed' = changed),
         UNCHANGED <<up, starts, client, everSaved, session>>
  PROVE  DownloadsInv'
<1>1. DownloadsTypeOK'
  BY DEF DownloadsInv, DownloadsTypeOK
<1>2. AllSound'
  <2> SUFFICES ASSUME NEW x \in InfoHash
               PROVE  Sound(downloads'[x], torrents'[x], session'[x], resume'[x], reports'[x])
    BY DEF AllSound
  <2>1. CASE x = h
    BY <2>1 DEF DownloadsInv, DownloadsTypeOK
  <2>2. CASE x # h
    <3>1. Sound(downloads[x], torrents[x], session[x], resume[x], reports[x])
      BY DEF DownloadsInv, AllSound
    <3> QED
      BY <2>2, <3>1 DEF DownloadsInv, DownloadsTypeOK
  <2> QED
    BY <2>1, <2>2
<1>3. SavedWhenQuiet'
  <2>1. CASE changed' = TRUE
    BY <2>1 DEF SavedWhenQuiet, NeedsSave
  <2>2. CASE downloads' = downloads /\ changed' = changed
    BY <2>2 DEF DownloadsInv, SavedWhenQuiet, NeedsSave, Snapshot, Tracked
  <2> QED
    BY <2>1, <2>2
<1>4. StoppedIsEmpty'
  BY DEF StoppedIsEmpty
<1> QED
  BY <1>1, <1>2, <1>3, <1>4 DEF DownloadsInv

LEMMA CommandInv ==
  ASSUME DownloadsAssumptions, DownloadsInv, NEW h \in InfoHash, Command(h)
  PROVE  DownloadsInv'
<1> DEFINE d == downloads[h]
           t == torrents[h]
<1>1. /\ DownloadsTypeOK /\ t \in ClientTorrent /\ d \in Download \cup {Nothing}
      /\ resume[h] \in BOOLEAN /\ reports[h] \in 0..2 /\ disk \in [InfoHash -> 0..Size]
      /\ Sound(d, t, session[h], resume[h], reports[h])
      /\ h \in Tracked <=> d # Nothing
  BY TrackedTyped DEF DownloadsInv, DownloadsTypeOK, AllSound
<1>2. resume = [resume EXCEPT ![h] = resume[h]] /\ reports = [reports EXCEPT ![h] = reports[h]]
  BY <1>1 DEF DownloadsTypeOK
<1>3. 0 \in 0..2
  OBVIOUS
<1>4. ASSUME NEW origin \in Origin, Add(h, origin) PROVE DownloadsInv'
  <2> DEFINE e == NewDownload(origin)
             m == (origin = "file")
             c == [NoTorrent EXCEPT !.exists = TRUE, !.meta = m]
  <2>1. /\ e \in Download /\ e # Nothing /\ e.ready = m /\ e.completed = FALSE
        /\ e.paused = FALSE /\ e.shown = Nothing
    BY NewDownloadIs
  <2>2. /\ c \in ClientTorrent /\ c.exists = TRUE /\ c.meta = m /\ c.checked = FALSE
        /\ c.paused = FALSE
    BY TorrentTyped DEF ClientTorrent
  <2>3. /\ downloads' = [downloads EXCEPT ![h] = e] /\ torrents' = [torrents EXCEPT ![h] = c]
        /\ reports' = [reports EXCEPT ![h] = 0] /\ resume' = resume /\ disk' = disk
        /\ changed' = TRUE /\ up /\ UNCHANGED <<up, starts, client, everSaved, session>>
    BY <1>4 DEF Add, Ready
  <2> HIDE DEF e, c, m
  <2>4. Sound(e, c, session[h], resume[h], 0)
    <3>1. 0 <= 1 /\ (session[h] # Nothing /\ session[h].completed => resume[h])
      BY <1>1 DEF Sound
    <3> QED
      BY <2>1, <2>2, <3>1, Zenon DEF Sound
  <2> QED
    BY <1>1, <1>2, <1>3, <2>1, <2>2, <2>3, <2>4, OneHash
<1>5. CASE RemoveDownload(h) \/ RemoveAndDelete(h)
  <2>1. PICK r \in BOOLEAN : resume' = [resume EXCEPT ![h] = r] /\ (resume[h] => r)
    BY <1>1, <1>2, <1>5 DEF RemoveDownload, RemoveAndDelete, ClientTorrent
  <2>2. /\ downloads' = [downloads EXCEPT ![h] = Nothing]
        /\ torrents' = [torrents EXCEPT ![h] = NoTorrent]
        /\ reports' = [reports EXCEPT ![h] = 0]
        /\ changed' = TRUE /\ up /\ UNCHANGED <<up, starts, client, everSaved, session>>
    BY <1>5 DEF RemoveDownload, RemoveAndDelete, Ready
  <2>3. disk' \in [InfoHash -> 0..Size]
    BY <1>1, <1>5, TorrentTyped DEF RemoveDownload, RemoveAndDelete
  <2>4. NoTorrent \in ClientTorrent /\ 0 \in 0..1
    BY TorrentTyped
  <2>5. Sound(Nothing, NoTorrent, session[h], r, 0)
    <3>1. session[h] # Nothing /\ session[h].completed => resume[h]
      BY <1>1 DEF Sound
    <3>2. session[h] # Nothing /\ session[h].completed => r
      BY <2>1, <3>1
    <3> QED
      BY <2>4, <3>2, EmptySound
  <2> QED
    BY <1>1, <1>3, <2>1, <2>2, <2>3, <2>4, <2>5, OneHash
<1>6. CASE TogglePause(h)
  <2> DEFINE e == [d EXCEPT !.paused = ~@]
             c == [t EXCEPT !.paused = ~d.paused]
  <2>1. d # Nothing /\ d \in Download
    BY <1>1, <1>6 DEF TogglePause
  <2>2. /\ e \in Download /\ e # Nothing /\ e.paused = ~d.paused /\ e.ready = d.ready
        /\ e.completed = d.completed /\ e.shown = d.shown /\ e.bytes = d.bytes
        /\ e.sized = d.sized
    BY <2>1 DEF Download, DownloadsAssumptions
  <2>3. /\ c \in ClientTorrent /\ c.paused = ~d.paused /\ c.meta = t.meta /\ c.exists = t.exists
        /\ c.checked = t.checked
    BY <1>1, <2>1 DEF ClientTorrent, Download
  <2>4. /\ downloads' = [downloads EXCEPT ![h] = e] /\ torrents' = [torrents EXCEPT ![h] = c]
        /\ reports' = reports /\ resume' = resume /\ disk' = disk
        /\ changed' = TRUE /\ up /\ UNCHANGED <<up, starts, client, everSaved, session>>
    BY <1>6 DEF TogglePause, Ready
  <2> HIDE DEF e, c, d, t
  <2>5. Sound(e, c, session[h], resume[h], reports[h])
    BY <1>1, <2>1, <2>2, <2>3 DEF Sound
  <2>6. resume' = [resume EXCEPT ![h] = resume[h]] /\ reports' = [reports EXCEPT ![h] = reports[h]]
    BY <1>2, <2>4
  <2>7. disk' \in [InfoHash -> 0..Size] /\ e \in Download \cup {Nothing}
    BY <1>1, <2>2, <2>4
  <2>8. PICK r, n, x, y : r = resume[h] /\ n = reports[h] /\ x = e /\ y = c
    OBVIOUS
  <2>9. Sound(x, y, session[h], r, n) /\ up
    BY <2>4, <2>5, <2>8
  <2>10. /\ resume' = [resume EXCEPT ![h] = r] /\ reports' = [reports EXCEPT ![h] = n]
         /\ downloads' = [downloads EXCEPT ![h] = x] /\ torrents' = [torrents EXCEPT ![h] = y]
    BY <2>4, <2>6, <2>8
  <2>11. r \in BOOLEAN /\ n \in 0..2 /\ x \in Download \cup {Nothing} /\ y \in ClientTorrent
    BY <1>1, <2>2, <2>3, <2>8
  <2>12. changed' = TRUE /\ UNCHANGED <<up, starts, client, everSaved, session>>
    BY <2>4
  <2> QED
    BY <2>7, <2>9, <2>10, <2>11, <2>12, OneHash
<1> QED
  BY <1>4, <1>5, <1>6 DEF Command

LEMMA ClientMovesInv ==
  ASSUME DownloadsAssumptions, DownloadsInv, NEW h \in InfoHash, ClientMoves(h)
  PROVE  DownloadsInv'
<1> DEFINE d == downloads[h]
           t == torrents[h]
<1>1. /\ DownloadsTypeOK /\ t \in ClientTorrent /\ d \in Download \cup {Nothing}
      /\ resume[h] \in BOOLEAN /\ reports[h] \in 0..2 /\ disk \in [InfoHash -> 0..Size]
      /\ Sound(d, t, session[h], resume[h], reports[h])
      /\ h \in Tracked <=> d # Nothing
  BY TrackedTyped DEF DownloadsInv, DownloadsTypeOK, AllSound
<1>2. /\ resume = [resume EXCEPT ![h] = resume[h]] /\ reports = [reports EXCEPT ![h] = reports[h]]
      /\ downloads = [downloads EXCEPT ![h] = d]
  BY <1>1 DEF DownloadsTypeOK
<1>3. PICK c \in ClientTorrent :
        /\ c.exists = t.exists /\ c.paused = t.paused /\ (t.meta => c.meta)
        /\ c.checked => c.meta
        /\ torrents' = [torrents EXCEPT ![h] = c]
  <2>1. CASE FetchesMetadata(h)
    <3>1. PICK c \in ClientTorrent : c = [t EXCEPT !.meta = TRUE]
      BY <1>1 DEF ClientTorrent
    <3> QED
      BY <1>1, <2>1, <3>1 DEF FetchesMetadata, ClientStep, ClientTorrent
  <2>2. CASE Rechecks(h)
    <3>1. PICK c \in ClientTorrent : c = [t EXCEPT !.checked = TRUE, !.have = disk[h]]
      BY <1>1 DEF ClientTorrent
    <3> QED
      BY <1>1, <2>2, <3>1 DEF Rechecks, ClientStep, ClientTorrent
  <2>3. CASE GetsPiece(h)
    <3>1. t.have \in 0..Size /\ t.have < Size /\ Size \in Nat
      BY <1>1, <2>3 DEF GetsPiece, ClientTorrent, DownloadsAssumptions
    <3>2. PICK c \in ClientTorrent : c = [t EXCEPT !.have = @ + 1]
      <4>1. t.have + 1 \in 0..Size
        BY <3>1
      <4> QED
        BY <1>1, <4>1 DEF ClientTorrent
    <3> QED
      BY <1>1, <2>3, <3>2 DEF GetsPiece, ClientStep, ClientTorrent, Sound
  <2> QED
    BY <2>1, <2>2, <2>3 DEF ClientMoves
<1>4. /\ downloads' = downloads /\ changed' = changed /\ resume' = resume /\ reports' = reports
      /\ UNCHANGED <<up, starts, client, everSaved, session>> /\ t.exists
  BY DEF ClientMoves, FetchesMetadata, Rechecks, GetsPiece, ClientStep
<1>5. disk' \in [InfoHash -> 0..Size]
  <2>1. CASE GetsPiece(h)
    <3>1. t.have + 1 \in 0..Size
      BY <1>1, <2>1 DEF GetsPiece, ClientTorrent, DownloadsAssumptions
    <3> QED
      BY <1>1, <2>1, <3>1 DEF GetsPiece
  <2>2. CASE disk' = disk
    BY <1>1, <2>2
  <2> QED
    BY <2>1, <2>2 DEF ClientMoves, FetchesMetadata, Rechecks
<1>6. up
  BY <1>1, <1>4 DEF Sound, DownloadsInv, StoppedIsEmpty
<1> HIDE DEF d, t
<1>7. Sound(d, c, session[h], resume[h], reports[h])
  BY <1>1, <1>3 DEF Sound, ClientTorrent
<1>8. /\ resume' = [resume EXCEPT ![h] = resume[h]] /\ reports' = [reports EXCEPT ![h] = reports[h]]
      /\ downloads' = [downloads EXCEPT ![h] = d]
  BY <1>2, <1>4
<1>9. torrents' = [torrents EXCEPT ![h] = c]
  BY <1>3
<1>10. PICK r, n, x : r = resume[h] /\ n = reports[h] /\ x = d
  OBVIOUS
<1>11. Sound(x, c, session[h], r, n)
  BY <1>7, <1>10
<1>12. /\ resume' = [resume EXCEPT ![h] = r] /\ reports' = [reports EXCEPT ![h] = n]
       /\ downloads' = [downloads EXCEPT ![h] = x]
  BY <1>8, <1>10
<1>13. r \in BOOLEAN /\ n \in 0..2 /\ x \in Download \cup {Nothing}
  BY <1>1, <1>10
<1>14. changed' = TRUE \/ (downloads' = downloads /\ changed' = changed)
  BY <1>4
<1>15. UNCHANGED <<up, starts, client, everSaved, session>>
  BY <1>4
<1> QED
  BY <1>5, <1>6, <1>9, <1>11, <1>12, <1>13, <1>14, <1>15, OneHash
-----------------------------------------------------------------------------
(* Steps of the whole list.                                                 *)

LEMMA ForgetInv ==
  ASSUME DownloadsAssumptions, DownloadsTypeOK', Forget,
         \A h \in InfoHash : session'[h] # Nothing /\ session'[h].completed => resume'[h]
  PROVE  DownloadsInv'
<1>1. /\ ~up' /\ ~client' /\ downloads' = [h \in InfoHash |-> Nothing]
      /\ torrents' = [h \in InfoHash |-> NoTorrent] /\ reports' = [h \in InfoHash |-> 0]
  BY DEF Forget
<1>2. AllSound'
  <2> SUFFICES ASSUME NEW h \in InfoHash
               PROVE  Sound(downloads'[h], torrents'[h], session'[h], resume'[h], reports'[h])
    BY DEF AllSound
  <2>1. Sound(Nothing, NoTorrent, session'[h], resume'[h], 0)
    <3>1. 0 \in 0..1
      OBVIOUS
    <3> QED
      BY <3>1, EmptySound
  <2> QED
    BY <1>1, <2>1
<1>3. SavedWhenQuiet' /\ StoppedIsEmpty'
  BY <1>1 DEF SavedWhenQuiet, StoppedIsEmpty, Tracked
<1> QED
  BY <1>2, <1>3 DEF DownloadsInv

LEMMA ForgottenTyped ==
  ASSUME DownloadsAssumptions, DownloadsTypeOK, Forget, starts' = starts, disk' = disk,
         session' \in [InfoHash -> Entry \cup {Nothing}], resume' \in [InfoHash -> BOOLEAN]
  PROVE  DownloadsTypeOK'
<1>1. [h \in InfoHash |-> NoTorrent] \in [InfoHash -> ClientTorrent] /\ 0 \in 0..2
  BY TorrentTyped
<1> QED
  BY <1>1 DEF Forget, DownloadsTypeOK

(* A save keeps the resume data of every torrent whose entry is complete.   *)
LEMMA SnapshotResumes ==
  ASSUME DownloadsAssumptions, DownloadsInv, SaveResumeData, session' = Snapshot \/ session' = session
  PROVE  /\ session' \in [InfoHash -> Entry \cup {Nothing}] /\ resume' \in [InfoHash -> BOOLEAN]
         /\ \A h \in InfoHash : session'[h] # Nothing /\ session'[h].completed => resume'[h]
<1>1. ASSUME NEW h \in InfoHash
      PROVE  /\ torrents[h].meta \in BOOLEAN /\ resume[h] \in BOOLEAN
             /\ resume'[h] = (resume[h] \/ torrents[h].meta)
             /\ Sound(downloads[h], torrents[h], session[h], resume[h], reports[h])
             /\ h \in Tracked <=> downloads[h] # Nothing
             /\ h \in Tracked => downloads[h] \in Download
  BY TrackedTyped DEF DownloadsInv, AllSound, DownloadsTypeOK, ClientTorrent, SaveResumeData
<1>2. ASSUME NEW d \in Download
      PROVE  EntryOf(d) \in Entry /\ EntryOf(d).completed = d.completed
  BY DEF EntryOf, Download, Entry
<1>3. Snapshot \in [InfoHash -> Entry \cup {Nothing}]
  BY <1>1, <1>2 DEF Snapshot
<1>4. session' \in [InfoHash -> Entry \cup {Nothing}] /\ resume' \in [InfoHash -> BOOLEAN]
  BY <1>3 DEF SaveResumeData, DownloadsInv, DownloadsTypeOK
<1>5. ASSUME NEW h \in InfoHash, session'[h] # Nothing, session'[h].completed PROVE resume'[h]
  <2>1. CASE session' = session
    BY <1>1, <1>5, <2>1 DEF Sound
  <2>2. CASE session' = Snapshot
    <3>1. h \in Tracked /\ session'[h] = EntryOf(downloads[h])
      BY <1>5, <2>2 DEF Snapshot
    <3>2. downloads[h].completed /\ downloads[h] # Nothing
      BY <1>1, <1>2, <1>5, <3>1
    <3>3. torrents[h].meta
      BY <1>1, <3>2 DEF Sound
    <3> QED
      BY <1>1, <3>3
  <2> QED
    BY <2>1, <2>2
<1> QED
  BY <1>4, <1>5

LEMMA SavesInv ==
  ASSUME DownloadsAssumptions, DownloadsInv, NEW ok \in BOOLEAN, Autosave(ok) \/ Shutdown(ok) \/ ProgramCrash
  PROVE  DownloadsInv'
<1>1. CASE ProgramCrash
  <2>1. \A h \in InfoHash : session'[h] # Nothing /\ session'[h].completed => resume'[h]
    BY <1>1 DEF ProgramCrash, DownloadsInv, AllSound, Sound
  <2>2. DownloadsTypeOK'
    BY <1>1, ForgottenTyped DEF ProgramCrash, DownloadsInv, DownloadsTypeOK
  <2> QED
    BY <1>1, <2>1, <2>2, ForgetInv DEF ProgramCrash
<1>2. CASE Shutdown(ok)
  <2>1. SaveResumeData /\ (session' = Snapshot \/ session' = session)
    BY <1>2 DEF Shutdown, SessionWritten
  <2>2. DownloadsTypeOK'
    BY <1>2, <2>1, SnapshotResumes, ForgottenTyped DEF Shutdown, DownloadsInv
  <2> QED
    BY <1>2, <2>1, <2>2, SnapshotResumes, ForgetInv DEF Shutdown
<1>3. CASE Autosave(ok)
  <2>1. SaveResumeData /\ (session' = Snapshot \/ session' = session)
    BY <1>3 DEF Autosave, SessionWritten
  <2>2. /\ session' \in [InfoHash -> Entry \cup {Nothing}] /\ resume' \in [InfoHash -> BOOLEAN]
        /\ \A h \in InfoHash : session'[h] # Nothing /\ session'[h].completed => resume'[h]
    BY <2>1, SnapshotResumes
  <2>3. /\ UNCHANGED <<up, starts, client, downloads, torrents, disk, reports>>
        /\ \/ changed' = FALSE /\ everSaved' = TRUE /\ session' = Snapshot
           \/ changed' = changed /\ everSaved' = everSaved /\ NeedsSave
    BY <1>3 DEF Autosave, SessionWritten
  <2>4. DownloadsTypeOK'
    BY <2>2, <2>3 DEF DownloadsInv, DownloadsTypeOK
  <2>5. AllSound'
    <3> SUFFICES ASSUME NEW h \in InfoHash
                 PROVE  Sound(downloads[h], torrents[h], session'[h], resume'[h], reports[h])
      BY <2>3 DEF AllSound
    <3>1. Sound(downloads[h], torrents[h], session[h], resume[h], reports[h])
      BY DEF DownloadsInv, AllSound
    <3> QED
      BY <2>2, <3>1 DEF Sound
  <2>6. SavedWhenQuiet'
    <3>1. Snapshot' = Snapshot
      BY <2>3 DEF Snapshot, Tracked
    <3> QED
      BY <2>3, <3>1 DEF SavedWhenQuiet, NeedsSave
  <2>7. StoppedIsEmpty'
    BY <2>3 DEF DownloadsInv, StoppedIsEmpty, Tracked
  <2> QED
    BY <2>4, <2>5, <2>6, <2>7 DEF DownloadsInv
<1> QED
  BY <1>1, <1>2, <1>3

(* A start reads the session: each entry the client accepts is listed as it *)
(* was saved, its completion known and counted as reported.                 *)
LEMMA StartInv ==
  ASSUME DownloadsAssumptions, DownloadsInv, Start
  PROVE  DownloadsInv'
<1>1. /\ up' = TRUE /\ starts' = starts + 1 /\ starts < MaxStarts /\ everSaved' = FALSE
      /\ UNCHANGED <<session, resume, disk>> /\ client' \in BOOLEAN
  BY DEF Start, DownloadsAssumptions
<1>2. ASSUME NEW h \in InfoHash
      PROVE  /\ session[h] \in Entry \cup {Nothing} /\ resume[h] \in BOOLEAN
             /\ session[h] # Nothing /\ session[h].completed => resume[h]
  BY DEF DownloadsInv, DownloadsTypeOK, AllSound, Sound
<1>3. SavedWhenQuiet' /\ StoppedIsEmpty'
  BY <1>1 DEF SavedWhenQuiet, NeedsSave, StoppedIsEmpty
<1>4. starts' \in 0..MaxStarts
  BY <1>1 DEF DownloadsAssumptions, DownloadsInv, DownloadsTypeOK
<1>5. ASSUME changed' \in BOOLEAN, downloads' \in [InfoHash -> Download \cup {Nothing}],
             torrents' \in [InfoHash -> ClientTorrent], reports' \in [InfoHash -> 0..1],
             \A h \in InfoHash : Sound(downloads'[h], torrents'[h], session[h], resume[h], reports'[h])
      PROVE  DownloadsInv'
  <2>1. reports' \in [InfoHash -> 0..2]
    BY <1>5
  <2>2. DownloadsTypeOK'
    BY <1>1, <1>4, <1>5, <2>1 DEF DownloadsInv, DownloadsTypeOK
  <2>3. AllSound'
    BY <1>1, <1>5 DEF AllSound
  <2> QED
    BY <1>3, <2>2, <2>3 DEF DownloadsInv
<1>6. CASE NoSession
  <2>1. \A h \in InfoHash : downloads'[h] = Nothing /\ torrents'[h] = NoTorrent /\ reports'[h] = 0
    BY <1>6 DEF NoSession
  <2>2. \A h \in InfoHash : Sound(Nothing, NoTorrent, session[h], resume[h], 0)
    <3>1. 0 \in 0..1
      OBVIOUS
    <3> QED
      BY <1>2, <3>1, EmptySound
  <2>3. /\ downloads' \in [InfoHash -> Download \cup {Nothing}] /\ torrents' \in [InfoHash -> ClientTorrent]
        /\ reports' \in [InfoHash -> 0..1] /\ changed' \in BOOLEAN
    <3>1. NoTorrent \in ClientTorrent /\ 0 \in 0..1
      BY TorrentTyped
    <3>2. downloads' \in [InfoHash -> Download \cup {Nothing}] /\ changed' \in BOOLEAN
      BY <1>6 DEF NoSession
    <3>3. torrents' \in [InfoHash -> ClientTorrent] /\ reports' \in [InfoHash -> 0..1]
      BY <1>6, <3>1 DEF NoSession
    <3> QED
      BY <3>2, <3>3
  <2> QED
    BY <1>5, <2>1, <2>2, <2>3
<1>7. CASE LoadSession
  <2> DEFINE entries == {h \in InfoHash : session[h] # Nothing}
             now == {h \in entries : resume[h]}
  <2>1. PICK accepted \in SUBSET entries :
          /\ downloads' = [h \in InfoHash |-> IF h \in accepted
                             THEN Restored(session[h], h \in now) ELSE Nothing]
          /\ torrents' = [h \in InfoHash |-> IF h \in accepted
                            THEN Resumed(session[h], h \in now) ELSE NoTorrent]
          /\ reports' = [h \in InfoHash |->
                            IF h \in accepted /\ session[h].completed THEN 1 ELSE 0]
          /\ changed' = (accepted # {})
    BY <1>7 DEF LoadSession
  <2>2. ASSUME NEW h \in InfoHash
        PROVE  /\ downloads'[h] \in Download \cup {Nothing} /\ torrents'[h] \in ClientTorrent
               /\ Sound(downloads'[h], torrents'[h], session[h], resume[h], reports'[h])
    <3>1. CASE h \in accepted
      <4>1. PICK e \in Entry, w \in BOOLEAN : e = session[h] /\ w = (h \in now)
        BY <1>2, <3>1
      <4>2. PICK d \in Download, t \in ClientTorrent : d = Restored(e, w) /\ t = Resumed(e, w)
        BY RestoredIs, GivenTyped DEF Resumed, Entry
      <4>3. downloads'[h] = d /\ torrents'[h] = t
        BY <2>1, <3>1, <4>1, <4>2
      <4>4. /\ d # Nothing /\ d.shown = Nothing /\ d.paused = e.paused
            /\ d.completed = e.completed /\ d.ready = w
        BY <4>2, RestoredIs
      <4>5. t.exists = TRUE /\ t.meta = w /\ t.checked = FALSE /\ t.paused = e.paused
        <5>1. e.paused \in BOOLEAN
          BY DEF Entry
        <5> QED
          BY <4>2, <5>1, GivenTyped DEF Resumed
      <4>6. reports'[h] = IF e.completed THEN 1 ELSE 0
        BY <2>1, <3>1, <4>1
      <4>7. reports'[h] <= 1 /\ (~e.completed => reports'[h] = 0)
        BY <4>6
      <4>8. e.completed => w
        BY <1>2, <3>1, <4>1
      <4>9. session[h] # Nothing /\ session[h].completed => resume[h]
        BY <1>2
      <4> QED
        BY <4>3, <4>4, <4>5, <4>7, <4>8, <4>9, Zenon DEF Sound
    <3>2. CASE h \notin accepted
      <4>1. downloads'[h] = Nothing /\ torrents'[h] = NoTorrent /\ reports'[h] = 0 /\ 0 \in 0..1
        BY <2>1, <3>2
      <4> QED
        BY <1>2, <4>1, EmptySound, TorrentTyped
    <3> QED
      BY <3>1, <3>2
  <2>3. changed' \in BOOLEAN /\ reports' \in [InfoHash -> 0..1]
    BY <2>1
  <2>4. downloads' \in [InfoHash -> Download \cup {Nothing}] /\ torrents' \in [InfoHash -> ClientTorrent]
    BY <2>1, <2>2
  <2> QED
    BY <1>5, <2>2, <2>3, <2>4
<1> QED
  BY <1>6, <1>7 DEF Start
(* A poll: what it completes it reports for the first time, what it removes *)
(* leaves the client too, and when it asks for no save it changed nothing   *)
(* that is saved.                                                           *)
LEMMA PollHere ==
  ASSUME DownloadsAssumptions, DownloadsInv, Poll, NEW h \in InfoHash
  PROVE  /\ downloads'[h] \in Download \cup {Nothing} /\ torrents'[h] \in ClientTorrent
         /\ reports'[h] \in 0..2
         /\ Sound(downloads'[h], torrents'[h], session[h], resume[h], reports'[h])
         /\ h \in Tracked /\ downloads[h].completed => downloads'[h].completed
         /\ ~changed' => /\ h \in Tracked <=> downloads'[h] # Nothing
                         /\ h \in Tracked => Core(EntryOf(downloads'[h])) = Core(EntryOf(downloads[h]))
<1>1. /\ torrents[h] \in ClientTorrent /\ reports[h] \in 0..2
      /\ Sound(downloads[h], torrents[h], session[h], resume[h], reports[h])
      /\ h \in Tracked <=> downloads[h] # Nothing
      /\ h \in Tracked => downloads[h] \in Download
  BY TrackedTyped DEF DownloadsInv, AllSound, DownloadsTypeOK
<1>2. /\ downloads'[h] = IF h \in Tracked \ Leaving THEN Polled(downloads[h], torrents[h]) ELSE Nothing
      /\ torrents'[h] = IF h \in Leaving THEN NoTorrent ELSE torrents[h]
      /\ reports'[h] = IF h \in Completing THEN TimesReported(reports[h]) ELSE reports[h]
  BY DEF Poll
<1>3. h \in Completing => h \in Tracked /\ reports[h] = 0 /\ reports'[h] = 1
  BY <1>1, <1>2 DEF Completing, NewlyComplete, Sound, TimesReported
<1>4. reports'[h] \in 0..2 /\ reports'[h] <= 1
  BY <1>1, <1>2, <1>3 DEF Sound
<1>5. session[h] # Nothing /\ session[h].completed => resume[h]
  BY <1>1 DEF Sound
<1>6. CASE h \notin Tracked
  <2>1. h \notin Leaving /\ h \notin Completing
    BY <1>6 DEF Leaving, Completing
  <2> QED
    BY <1>1, <1>2, <1>6, <2>1
<1>7. CASE h \in Leaving
  <2>1. downloads'[h] = Nothing /\ torrents'[h] = NoTorrent /\ changed' = TRUE /\ h \in Tracked
        /\ ~downloads[h].completed /\ reports'[h] \in 0..1
    BY <1>2, <1>3, <1>7 DEF Poll, Leaving, Completing, NewlyComplete
  <2> QED
    BY <1>4, <1>5, <2>1, EmptySound, TorrentTyped
<1>8. CASE h \in Tracked \ Leaving
  <2>1. PICK d, t, e : /\ d \in Download /\ d = downloads[h]
                       /\ t \in ClientTorrent /\ t = torrents[h] /\ e = Polled(d, t)
    BY <1>1, <1>8
  <2>2. downloads'[h] = e /\ torrents'[h] = t
    BY <1>2, <1>8, <2>1
  <2>3. /\ e \in Download /\ e # Nothing /\ e.shown = PayloadOf(e) /\ e.shown # Nothing
        /\ e.paused = d.paused /\ e.removeOnDone = d.removeOnDone
        /\ e.ready = (d.ready \/ t.meta)
        /\ d.completed /\ d.ready => e.completed
        /\ e.completed => d.completed \/ IsComplete(t)
        /\ NewlyComplete(d, t) => e.completed
    BY <2>1, PolledIs
  <2>4. /\ d # Nothing /\ t.exists /\ d.paused = t.paused
        /\ d.completed => d.ready
        /\ d.ready => t.meta
        /\ t.checked => t.meta
        /\ ~d.completed => reports[h] = 0
        /\ d.shown # Nothing => /\ d.shown.bytes = d.bytes /\ d.shown.sized = d.sized
                                /\ d.shown.completed = d.completed
    BY <1>1, <1>8, <2>1 DEF Sound
  <2>5. e.completed => e.ready
    BY <2>3, <2>4 DEF IsComplete, Download, ClientTorrent
  <2>6. e.ready => t.meta
    BY <2>3, <2>4
  <2>7. ~e.completed => reports'[h] = 0
    <3>1. h \in Completing <=> NewlyComplete(d, t)
      BY <1>8, <2>1 DEF Completing
    <3>2. d.completed => e.completed
      BY <2>3, <2>4
    <3> QED
      BY <1>2, <2>3, <2>4, <3>1, <3>2
  <2>8. /\ e.shown.bytes = e.bytes /\ e.shown.sized = e.sized
        /\ e.shown.completed = e.completed /\ e.shown.paused = e.paused
    BY <2>3 DEF PayloadOf
  <2>9. Sound(e, t, session[h], resume[h], reports'[h])
    BY <1>4, <1>5, <2>3, <2>4, <2>5, <2>6, <2>7, <2>8, Zenon DEF Sound
  <2>10. ASSUME ~changed' PROVE Core(EntryOf(e)) = Core(EntryOf(d))
    <3>1. e.shown = d.shown
      BY <1>8, <2>1, <2>10 DEF Poll
    <3>2. e.bytes = d.bytes /\ e.sized = d.sized /\ e.completed = d.completed
      BY <2>3, <2>4, <2>8, <3>1
    <3>3. EntryOf(e) \in Entry /\ EntryOf(d) \in Entry
      BY <2>1, <2>3 DEF EntryOf, Entry, Download
    <3>4. EntryOf(e) # Nothing /\ EntryOf(d) # Nothing
      BY <3>3 DEF DownloadsAssumptions
    <3>5. /\ Core(EntryOf(e)) = <<e.completed, e.paused, e.removeOnDone, e.bytes, e.sized>>
          /\ Core(EntryOf(d)) = <<d.completed, d.paused, d.removeOnDone, d.bytes, d.sized>>
      BY <3>4 DEF Core, EntryOf
    <3> QED
      BY <2>3, <3>2, <3>5
  <2>11. d.completed => e.completed
    BY <2>3, <2>4
  <2> QED
    BY <1>4, <1>8, <2>1, <2>2, <2>3, <2>9, <2>10, <2>11
<1> QED
  BY <1>6, <1>7, <1>8 DEF Leaving, Completing

LEMMA PollInv ==
  ASSUME DownloadsAssumptions, DownloadsInv, Poll
  PROVE  DownloadsInv'
<1>1. up /\ UNCHANGED <<up, starts, client, everSaved, session, resume, disk>>
  BY DEF Poll, Ready
<1>2. \A h \in InfoHash : /\ downloads'[h] \in Download \cup {Nothing} /\ torrents'[h] \in ClientTorrent
                      /\ reports'[h] \in 0..2
                      /\ Sound(downloads'[h], torrents'[h], session[h], resume[h], reports'[h])
  BY PollHere
<1>3. /\ downloads' \in [InfoHash -> Download \cup {Nothing}] /\ torrents' \in [InfoHash -> ClientTorrent]
      /\ reports' \in [InfoHash -> 0..2]
  <2>1. /\ downloads' = [h \in InfoHash |-> downloads'[h]] /\ torrents' = [h \in InfoHash |-> torrents'[h]]
        /\ reports' = [h \in InfoHash |-> reports'[h]]
    BY DEF Poll
  <2> QED
    BY <1>2, <2>1
<1>4. changed' \in BOOLEAN
  BY DEF Poll, DownloadsInv, DownloadsTypeOK
<1>5. DownloadsTypeOK'
  BY <1>1, <1>3, <1>4 DEF DownloadsInv, DownloadsTypeOK
<1>6. AllSound'
  BY <1>1, <1>2 DEF AllSound
<1>7. SavedWhenQuiet'
  <2> SUFFICES ASSUME everSaved, ~changed', NEW h \in InfoHash
               PROVE  Core(session[h]) = Core(Snapshot'[h])
    BY <1>1, <1>4 DEF SavedWhenQuiet, NeedsSave
  <2>1. ~changed
    BY DEF Poll
  <2>2. Core(session[h]) = Core(Snapshot[h])
    BY <1>1, <2>1 DEF DownloadsInv, SavedWhenQuiet, NeedsSave
  <2>3. /\ h \in Tracked <=> downloads'[h] # Nothing
        /\ h \in Tracked => Core(EntryOf(downloads'[h])) = Core(EntryOf(downloads[h]))
    BY PollHere
  <2>4. Snapshot'[h] = IF downloads'[h] # Nothing THEN EntryOf(downloads'[h]) ELSE Nothing
    BY DEF Snapshot, Tracked
  <2>5. Snapshot[h] = IF h \in Tracked THEN EntryOf(downloads[h]) ELSE Nothing
    BY DEF Snapshot
  <2> QED
    BY <2>2, <2>3, <2>4, <2>5
<1>8. StoppedIsEmpty'
  BY <1>1 DEF StoppedIsEmpty
<1> QED
  BY <1>5, <1>6, <1>7, <1>8 DEF DownloadsInv

LEMMA DownloadsNextInv == ASSUME DownloadsAssumptions, DownloadsInv, [DownloadsNext]_downloadsVars PROVE DownloadsInv'
<1>1. CASE Start
  BY <1>1, StartInv
<1>2. CASE Poll
  BY <1>2, PollInv
<1>3. ASSUME NEW ok \in BOOLEAN, Autosave(ok) \/ Shutdown(ok) \/ ProgramCrash PROVE DownloadsInv'
  BY <1>3, SavesInv
<1>4. ASSUME NEW h \in InfoHash, Command(h) PROVE DownloadsInv'
  BY <1>4, CommandInv
<1>5. ASSUME NEW h \in InfoHash, ClientMoves(h) PROVE DownloadsInv'
  BY <1>5, ClientMovesInv
<1>6. CASE UNCHANGED downloadsVars
  BY <1>6 DEF downloadsVars, memory, DownloadsInv, DownloadsTypeOK, AllSound, SavedWhenQuiet, NeedsSave, Snapshot, Tracked,
              StoppedIsEmpty
<1>7. CASE ProgramCrash
  BY <1>3, <1>7
<1> QED
  BY <1>1, <1>2, <1>3, <1>4, <1>5, <1>6, <1>7 DEF DownloadsNext

LEMMA DownloadsInvHolds == ASSUME DownloadsAssumptions PROVE DownloadsSpec => []DownloadsInv
<1>1. DownloadsInit => DownloadsInv
  BY DownloadsInitInv
<1>2. DownloadsInv /\ [DownloadsNext]_downloadsVars => DownloadsInv'
  BY DownloadsNextInv
<1> QED
  BY <1>1, <1>2, PTL DEF DownloadsSpec

-----------------------------------------------------------------------------
(* The list, the client and the session file are well typed in every        *)
(* reachable state (struct Download, session_store.cpp).                    *)
THEOREM DownloadsTypeCorrect == ASSUME DownloadsAssumptions PROVE DownloadsSpec => []DownloadsTypeOK
<1>1. DownloadsInv => DownloadsTypeOK
  BY DEF DownloadsInv
<1> QED
  BY <1>1, DownloadsInvHolds, PTL

(* However adds, removals, pauses, polls, failed saves, crashes and         *)
(* restarts mix: manager and client hold the same torrents, paused alike; a *)
(* completion is reported once; and when the autosave has nothing to do     *)
(* the session file holds the list (downloads.cpp, session_store.cpp).      *)
THEOREM DownloadsAgreeHolds == ASSUME DownloadsAssumptions PROVE DownloadsSpec => []DownloadsAgree
<1>1. DownloadsInv => DownloadsAgree
  <2> SUFFICES ASSUME DownloadsInv PROVE DownloadsAgree
    OBVIOUS
  <2>1. ASSUME NEW h \in InfoHash
        PROVE  /\ torrents[h].exists <=> h \in Tracked
               /\ h \in Tracked => torrents[h].paused = downloads[h].paused
               /\ reports[h] <= 1
    BY DEF DownloadsInv, AllSound, Sound, Tracked
  <2> QED
    BY <2>1 DEF DownloadsAgree, ClientAgrees, ReportedOnce, DownloadsInv
<1> QED
  BY <1>1, DownloadsInvHolds, PTL

(* restore() and the polls after it never take a completion back: the       *)
(* metadata was saved before the entry that calls the download complete.    *)
THEOREM NeverDowngradedHolds == ASSUME DownloadsAssumptions PROVE DownloadsSpec => NeverDowngraded
<1> DEFINE Kept == \A h \in InfoHash : (h \in Tracked /\ h \in Tracked' /\ downloads[h].completed)
                                      => downloads'[h].completed
<1>1. ASSUME DownloadsInv, [DownloadsNext]_downloadsVars PROVE Kept
  <2>1. CASE Poll
    BY <1>1, <2>1, PollHere
  <2>2. CASE Start
    BY <1>1, <2>2 DEF Start, DownloadsInv, StoppedIsEmpty
  <2>3. CASE downloads' = downloads
    BY <2>3
  <2>4. CASE Forget
    BY <2>4 DEF Forget, Tracked
  <2>5. ASSUME NEW h \in InfoHash, Command(h) PROVE Kept
    <3> SUFFICES ASSUME NEW x \in Tracked, x \in Tracked', downloads[x].completed
                 PROVE  downloads'[x].completed
      BY DEF Tracked
    <3>1. CASE x # h
      BY <1>1, <2>5, <3>1
         DEF Command, Add, RemoveDownload, RemoveAndDelete, TogglePause, DownloadsInv, DownloadsTypeOK, Tracked
    <3>2. CASE x = h
      <4>1. TogglePause(h)
        BY <1>1, <2>5, <3>2
           DEF Command, Add, RemoveDownload, RemoveAndDelete, DownloadsInv, DownloadsTypeOK, Tracked
      <4>2. downloads[h] \in Download
        BY <1>1, <3>2, TrackedTyped DEF DownloadsInv, Tracked
      <4>3. downloads'[h] = [downloads[h] EXCEPT !.paused = ~@]
        BY <1>1, <4>1 DEF TogglePause, DownloadsInv, DownloadsTypeOK
      <4> QED
        BY <3>2, <4>2, <4>3 DEF Download
    <3> QED
      BY <3>1, <3>2
  <2> QED
    BY <1>1, <2>1, <2>2, <2>3, <2>4, <2>5
       DEF DownloadsNext, ClientMoves, FetchesMetadata, Rechecks, GetsPiece, ClientStep, ProgramCrash, Autosave,
           Shutdown, downloadsVars, memory
<1> QED
  BY <1>1, DownloadsInvHolds, PTL DEF DownloadsSpec, NeverDowngraded

-----------------------------------------------------------------------------
(* TorrentIndex                                                             *)

-----------------------------------------------------------------------------
(* What is kept of both tables. FilesOwned alone does not survive a prune:  *)
(* with the fileIndex setting off no command removes file rows, and there   *)
(* must be none.                                                            *)

Tables(d) == /\ d \in [keys : SUBSET IndexHash, col : [IndexHash -> Row], files : SUBSET IndexHash]
             /\ \A h \in IndexHash : h \in d.keys <=> d.col[h].named
             /\ d.files \subseteq d.keys
             /\ ~FileIndex => d.files = {}

IndexInv == /\ Tables(db)
        /\ recordCount = Cardinality(db.keys)
        /\ OneChain
        /\ pruneInFlight \in BOOLEAN
        /\ counts \subseteq IndexHash /\ infos \subseteq IndexHash
        /\ found \in 0..MaxFound /\ crashes \in 0..MaxCrashes

(* The tables hold finitely many rows. *)
LEMMA KeysFinite ==
  ASSUME TorrentIndexAssumptions, NEW d, Tables(d)
  PROVE  IsFiniteSet(d.keys) /\ Cardinality(d.keys) \in Nat
<1>1. d.keys \in SUBSET IndexHash /\ IsFiniteSet(IndexHash)
  BY DEF Tables, TorrentIndexAssumptions
<1>2. IsFiniteSet(d.keys)
  BY <1>1, FS_Subset
<1> QED
  BY <1>2, FS_CardinalityType

(* A load of a named row keeps the tables, and adds that row. *)
LEMMA LoadKeeps ==
  ASSUME NEW d, Tables(d), NEW h \in IndexHash, NEW row \in Row, row.named
  PROVE  /\ Tables(Load(d, h, row))
         /\ Load(d, h, row).keys = d.keys \cup {h}
         /\ Load(d, h, row).files = d.files
         /\ Load(d, h, row).col[h] = row
BY DEF Tables, Load

(* So does clearing the file rows of a torrent. *)
LEMMA RemoveFilesForKeeps ==
  ASSUME NEW d, Tables(d), NEW h \in IndexHash
  PROVE  /\ Tables(RemoveFilesFor(d, h))
         /\ RemoveFilesFor(d, h).keys = d.keys /\ RemoveFilesFor(d, h).col = d.col
         /\ FileIndex => h \notin RemoveFilesFor(d, h).files
BY DEF Tables, RemoveFilesFor

(* Each state an upsert goes through is in order, and holds the torrent's row. *)
LEMMA UpsertKeeps ==
  ASSUME TorrentIndexAssumptions, NEW d, Tables(d), NEW t \in Torrents, NEW i \in 1..3
  PROVE  Tables(Upsert(d, t)[i]) /\ Upsert(d, t)[i].keys = d.keys \cup {t.hash}
<1> DEFINE row == Written(d.col[t.hash], t)
           loaded == Load(d, t.hash, row)
           cleared == RemoveFilesFor(loaded, t.hash)
           filled == IF FileIndex /\ t.list THEN LoadFiles(cleared, t.hash) ELSE cleared
<1>1. t \in Torrent /\ t.hash \in IndexHash
  BY DEF TorrentIndexAssumptions, Torrent
<1>2. d.col[t.hash] \in Row
  BY <1>1 DEF Tables
<1>3. row \in Row /\ row.named
  BY <1>1, <1>2 DEF Written, Row, Torrent, InfoKeys
<1> HIDE DEF row
<1>4. Tables(loaded) /\ loaded.keys = d.keys \cup {t.hash} /\ loaded.col[t.hash] = row
  BY <1>1, <1>3, LoadKeeps
<1> HIDE DEF loaded
<1>5. Tables(cleared) /\ cleared.keys = d.keys \cup {t.hash} /\ cleared.col[t.hash] = row
  BY <1>1, <1>4, RemoveFilesForKeeps
<1> HIDE DEF cleared
<1>6. Tables(filled) /\ filled.keys = d.keys \cup {t.hash}
  BY <1>1, <1>3, <1>5 DEF LoadFiles, Tables
<1> HIDE DEF filled
<1>7. Upsert(d, t) = <<loaded, cleared, filled>>
  BY DEF Upsert, loaded, cleared, filled, row
<1> QED
  BY <1>4, <1>5, <1>6, <1>7

(* A batch of deletes takes rows with their file rows, or file rows only. *)
LEMMA PrunedKeeps ==
  ASSUME NEW d, Tables(d), NEW victims \in SUBSET d.keys, NEW gone \in SUBSET victims
  PROVE  Tables(Pruned(d, victims, gone)) /\ Pruned(d, victims, gone).keys = d.keys \ gone
<1>1. Blank \in Row /\ ~Blank.named
  BY DEF Blank, Row, Seeders, Dates, InfoKeys
<1> HIDE DEF Blank
<1> QED
  BY <1>1 DEF Tables, Pruned

(* The delete of one torrent that a crash cuts short leaves both tables in order:
   its file rows go first. *)
LEMMA RemoveKeeps ==
  ASSUME NEW d, Tables(d), NEW h \in IndexHash, NEW i \in 1..2
  PROVE  Tables(Remove(d, h)[i])
<1> DEFINE cleared == RemoveFilesFor(d, h)
<1>1. Blank \in Row /\ ~Blank.named
  BY DEF Blank, Row, Seeders, Dates, InfoKeys
<1>2. Tables(cleared) /\ h \notin cleared.files
  BY RemoveFilesForKeeps DEF Tables
<1> HIDE DEF cleared
<1>3. Tables(DeleteTorrent(cleared, h))
  BY <1>1, <1>2 DEF Tables, DeleteTorrent
<1>4. Remove(d, h) = <<cleared, DeleteTorrent(cleared, h)>>
  BY DEF Remove, cleared
<1> QED
  BY <1>2, <1>3, <1>4

-----------------------------------------------------------------------------
(* One lemma for each step. *)

(* The index is empty when it is made. *)
LEMMA IndexInitInv == ASSUME TorrentIndexAssumptions, IndexInit PROVE IndexInv
<1>1. Blank \in Row /\ ~Blank.named
  BY DEF Blank, Row, Seeders, Dates, InfoKeys
<1>2. Tables(db)
  BY <1>1 DEF IndexInit, Tables
<1>3. recordCount = Cardinality(db.keys)
  BY FS_EmptySet DEF IndexInit
<1>4. OneChain /\ pruneInFlight \in BOOLEAN
  BY Zenon DEF IndexInit, OneChain
<1>5. counts = {} /\ infos = {} /\ found \in 0..MaxFound /\ crashes \in 0..MaxCrashes
  BY DEF IndexInit, TorrentIndexAssumptions
<1> QED
  BY <1>2, <1>3, <1>4, <1>5, Zenon DEF IndexInv

(* A discovery: a torrent that was not known is counted, and it alone. *)
LEMMA HandleDiscoveredKeeps ==
  ASSUME TorrentIndexAssumptions, IndexInv, NEW t \in Torrents, HandleDiscovered(t)
  PROVE  IndexInv'
<1>1. t.hash \in IndexHash
  BY DEF TorrentIndexAssumptions, Torrent
<1>2. Tables(db') /\ db'.keys = db.keys \cup {t.hash}
  <2>1. db' = Upsert(db, t)[3] /\ Tables(db) /\ 3 \in 1..3
    BY DEF HandleDiscovered, IndexInv
  <2> QED
    BY <2>1, UpsertKeeps
<1>3. found' \in 0..MaxFound /\ crashes' = crashes
  BY DEF HandleDiscovered, IndexInv, TorrentIndexAssumptions
<1>4. IsFiniteSet(db.keys) /\ Cardinality(db.keys) \in Nat
  BY KeysFinite DEF IndexInv
<1>5. CASE Known(t.hash)
  <2>1. db'.keys = db.keys /\ UNCHANGED <<recordCount, pruneInFlight, batches, counts, infos>>
    BY <1>2, <1>5 DEF HandleDiscovered, Known, pruning
  <2> QED
    BY <1>2, <1>3, <2>1 DEF IndexInv, OneChain
<1>6. CASE ~Known(t.hash)
  <2> DEFINE prune == MaybePrune(recordCount + 1, pruneInFlight)
  <2>1. /\ recordCount' = recordCount + 1
        /\ pruneInFlight' = (pruneInFlight \/ prune)
        /\ batches' = batches + (IF prune THEN 1 ELSE 0)
        /\ counts' = counts \cup {t.hash} /\ infos' = infos \cup {t.hash}
    BY <1>6, Zenon DEF HandleDiscovered
  <2>2. recordCount' = Cardinality(db'.keys)
    BY <1>2, <1>4, <1>6, <2>1, FS_AddElement DEF IndexInv, Known
  <2>3. prune \in BOOLEAN /\ (prune => ~pruneInFlight)
    BY DEF MaybePrune
  <2> HIDE DEF prune
  <2>4. OneChain' /\ pruneInFlight' \in BOOLEAN
    BY <2>1, <2>3 DEF IndexInv, OneChain
  <2> QED
    BY <1>1, <1>2, <1>3, <2>1, <2>2, <2>4 DEF IndexInv
<1> QED
  BY <1>5, <1>6

\* What a batch with these victims has done to the tables, the count and the chain.
BatchDid(victims) ==
    LET gone == victims \ Undeletable
        on == GoOn(recordCount - Cardinality(gone), gone)
    IN /\ victims \subseteq db.keys
       /\ Tables(db') /\ db'.keys = db.keys \ gone
       /\ recordCount' = Cardinality(db'.keys)
       /\ recordCount' = recordCount - Cardinality(gone)
       /\ on \in BOOLEAN /\ pruneInFlight' = on
       /\ batches' = IF on THEN 1 ELSE 0

(* Every batch does so, for some victims of the lowest value. *)
LEMMA BatchEffect ==
  ASSUME TorrentIndexAssumptions, IndexInv, PruneBatch
  PROVE  \E victims \in LowestValueHashes(Limit) : BatchDid(victims)
<1>1. PICK victims \in LowestValueHashes(Limit) :
        LET gone == victims \ Undeletable
            left == recordCount - Removed(victims, gone)
            on == GoOn(left, gone)
        IN /\ db' = Pruned(db, victims, gone)
           /\ recordCount' = left
           /\ batches' = batches - 1 + (IF on THEN 1 ELSE 0)
           /\ pruneInFlight' = FlagAfter(on)
  BY DEF PruneBatch
<1> DEFINE gone == victims \ Undeletable
           on == GoOn(recordCount - Cardinality(gone), gone)
<1>2. victims \subseteq db.keys /\ gone \subseteq victims
  BY DEF LowestValueHashes
<1>3. /\ db' = Pruned(db, victims, gone)
      /\ recordCount' = recordCount - Cardinality(gone)
      /\ batches' = batches - 1 + (IF on THEN 1 ELSE 0)
      /\ pruneInFlight' = on
  BY <1>1 DEF Removed, FlagAfter
<1>4. Tables(db') /\ db'.keys = db.keys \ gone
  BY <1>2, <1>3, PrunedKeeps, ZenonT(40) DEF IndexInv
<1>5. IsFiniteSet(db.keys) /\ Cardinality(db.keys) \in Nat
  BY KeysFinite DEF IndexInv
<1>6. Cardinality(db'.keys) = Cardinality(db.keys) - Cardinality(gone)
  <2>1. db.keys \cap gone = gone
    BY <1>2
  <2> QED
    BY <1>4, <1>5, <2>1, FS_Difference, ZenonT(40)
<1>7. batches = 1
  BY DEF PruneBatch, IndexInv, OneChain
<1>8. on \in BOOLEAN
  BY DEF GoOn
<1> HIDE DEF on
<1>9. batches' = IF on THEN 1 ELSE 0
  BY <1>3, <1>7, <1>8
<1> QED
  BY <1>2, <1>3, <1>4, <1>6, <1>8, <1>9 DEF IndexInv, on, BatchDid

(* A batch of the prune chain: what went is taken off the count, and the flag
   says whether another batch is posted. *)
LEMMA PruneBatchKeeps ==
  ASSUME TorrentIndexAssumptions, IndexInv, PruneBatch
  PROVE  IndexInv'
<1>1. /\ Tables(db') /\ recordCount' = Cardinality(db'.keys)
      /\ pruneInFlight' \in BOOLEAN /\ batches' = IF pruneInFlight' THEN 1 ELSE 0
  BY BatchEffect DEF BatchDid
<1>2. UNCHANGED <<counts, infos, found, crashes>>
  BY DEF PruneBatch
<1> QED
  BY <1>1, <1>2 DEF IndexInv, OneChain

(* A scrape result that comes late writes to a row that is there, or to none. *)
LEMMA ScrapedKeeps ==
  ASSUME TorrentIndexAssumptions, IndexInv, NEW h \in IndexHash,
         \/ \E n \in Seeders : CountsScraped(h, n)
         \/ InfoScraped(h)
         \/ ScrapeFails(h)
  PROVE  IndexInv'
<1>1. /\ UNCHANGED <<recordCount, pruneInFlight, batches, found, crashes>>
      /\ counts' \subseteq counts /\ infos' \subseteq infos
  BY DEF CountsScraped, InfoScraped, ScrapeFails, pruning
<1>2. Tables(db') /\ db'.keys = db.keys
  <2>1. CASE db' = db
    BY <2>1 DEF IndexInv
  <2>2. ASSUME NEW row \in Row, row.named, Known(h), db' = Load(db, h, row)
        PROVE  Tables(db') /\ db'.keys = db.keys
    <3>1. Tables(db) /\ h \in db.keys
      BY <2>2 DEF IndexInv, Known
    <3>2. Tables(Load(db, h, row)) /\ Load(db, h, row).keys = db.keys \cup {h}
      BY <2>2, <3>1, LoadKeeps
    <3> QED
      BY <2>2, <3>1, <3>2
  <2>3. db.col[h] \in Row
    BY DEF IndexInv, Tables
  <2>4. Known(h) => db.col[h].named
    BY DEF IndexInv, Tables, Known
  <2>5. ASSUME NEW n \in Seeders, CountsScraped(h, n)
        PROVE  Tables(db') /\ db'.keys = db.keys
    <3>1. CASE ~Known(h)
      BY <2>1, <2>5, <3>1 DEF CountsScraped, MayUpdate
    <3>2. CASE Known(h)
      <4> DEFINE row == [db.col[h] EXCEPT !.seeders = n]
      <4>1. row \in Row /\ row.named
        BY <2>3, <2>4, <3>2 DEF Row
      <4>2. db' = Load(db, h, row)
        BY <2>5, <3>2 DEF CountsScraped, MayUpdate
      <4> QED
        BY <2>2, <3>2, <4>1, <4>2
    <3> QED
      BY <3>1, <3>2
  <2>6. CASE InfoScraped(h)
    <3>1. CASE ~Known(h)
      BY <2>1, <2>6, <3>1 DEF InfoScraped, MayUpdate
    <3>2. CASE Known(h)
      <4> DEFINE row == [db.col[h] EXCEPT !.info = @ \cup {"site"}]
      <4>1. row \in Row /\ row.named
        BY <2>3, <2>4, <3>2 DEF Row, InfoKeys
      <4>2. db' = Load(db, h, row)
        BY <2>6, <3>2 DEF InfoScraped, MayUpdate
      <4> QED
        BY <2>2, <3>2, <4>1, <4>2
    <3> QED
      BY <3>1, <3>2
  <2>7. CASE ScrapeFails(h)
    BY <2>1, <2>7 DEF ScrapeFails
  <2> QED
    BY <2>5, <2>6, <2>7
<1> QED
  BY <1>1, <1>2 DEF IndexInv, OneChain

(* A start on tables that are in order: what is kept in memory begins anew. *)
LEMMA RestartKeeps ==
  ASSUME TorrentIndexAssumptions, IndexInv, NEW d, Tables(d), Restart(d)
  PROVE  IndexInv'
<1>1. Tables(db') /\ recordCount' = Cardinality(db'.keys)
  BY DEF Restart, StartsAt
<1>2. OneChain' /\ pruneInFlight' \in BOOLEAN
  BY Zenon DEF Restart, OneChain
<1>3. /\ counts' = {} /\ infos' = {} /\ found' \in 0..MaxFound
      /\ crashes' \in 0..MaxCrashes
  BY DEF Restart, IndexInv, TorrentIndexAssumptions
<1> QED
  BY <1>1, <1>2, <1>3, Zenon DEF IndexInv

(* The process is killed between two commands. *)
LEMMA CrashKeeps ==
  ASSUME TorrentIndexAssumptions, IndexInv,
         Crash \/ CrashInPrune \/ \E t \in Torrents : CrashInUpsert(t)
  PROVE  IndexInv'
<1>0. Tables(db)
  BY DEF IndexInv
<1>1. CASE Crash
  BY <1>0, <1>1, RestartKeeps DEF Crash
<1>2. ASSUME NEW t \in Torrents, CrashInUpsert(t) PROVE IndexInv'
  BY <1>0, <1>2, UpsertKeeps, RestartKeeps DEF CrashInUpsert
<1>3. CASE CrashInPrune
  <2> PICK victims \in LowestValueHashes(Limit) :
        \E gone \in SUBSET victims : \E h \in victims \ gone, i \in 1..2 :
           Restart(Remove(Pruned(db, gone, gone), h)[i])
    BY <1>3 DEF CrashInPrune
  <2> PICK gone \in SUBSET victims : \E h \in victims \ gone, i \in 1..2 :
           Restart(Remove(Pruned(db, gone, gone), h)[i])
    OBVIOUS
  <2>1. PICK h \in victims \ gone, i \in 1..2 : Restart(Remove(Pruned(db, gone, gone), h)[i])
    OBVIOUS
  <2>2. victims \subseteq db.keys /\ db.keys \subseteq IndexHash
    BY <1>0 DEF LowestValueHashes, Tables
  <2>3. Tables(Pruned(db, gone, gone))
    BY <1>0, <2>2, PrunedKeeps
  <2>4. Tables(Remove(Pruned(db, gone, gone), h)[i])
    BY <2>2, <2>3, RemoveKeeps
  <2> QED
    BY <2>1, <2>4, RestartKeeps
<1> QED
  BY <1>1, <1>2, <1>3

LEMMA IndexNextInv == ASSUME TorrentIndexAssumptions, IndexInv, [IndexNext]_indexVars PROVE IndexInv'
<1>1. CASE UNCHANGED indexVars
  BY <1>1 DEF indexVars, pruning, IndexInv, OneChain
<1> QED
  BY <1>1, HandleDiscoveredKeeps, PruneBatchKeeps, ScrapedKeeps, CrashKeeps DEF IndexNext

-----------------------------------------------------------------------------
LEMMA IndexInvHolds == ASSUME TorrentIndexAssumptions PROVE IndexSpec => []IndexInv
<1>1. IndexInit => IndexInv
  BY IndexInitInv
<1>2. IndexInv /\ [IndexNext]_indexVars => IndexInv'
  BY IndexNextInv
<1> QED
  BY <1>1, <1>2, PTL DEF IndexSpec

(* Every reachable state of index and indexer is well typed. *)
THEOREM IndexTypeCorrect == ASSUME TorrentIndexAssumptions PROVE IndexSpec => []IndexTypeOK
<1>1. IndexInv => IndexTypeOK
  <2> SUFFICES ASSUME IndexInv PROVE IndexTypeOK
    OBVIOUS
  <2>1. recordCount \in Nat
    BY KeysFinite DEF IndexInv
  <2> QED
    BY <2>1 DEF IndexInv, Tables, OneChain, IndexTypeOK
<1> QED
  BY <1>1, IndexInvHolds, PTL

(* The tables of the index, and the indexer's count and chain of them, agree for
   any torrents and settings, deletes that fail and crashes between commands. *)
THEOREM IndexAgreesHolds == ASSUME TorrentIndexAssumptions PROVE IndexSpec => []IndexAgrees
<1>1. IndexInv => IndexAgrees
  BY DEF IndexInv, Tables, IndexAgrees, CountExact, NoPhantom, FilesOwned, Known
<1> QED
  BY <1>1, IndexInvHolds, PTL

(* What is deleted in a batch that could delete something is not empty. *)
LEMMA VictimsExist ==
  ASSUME TorrentIndexAssumptions, IndexInv, recordCount > Cap,
         NEW victims \in LowestValueHashes(Limit)
  PROVE  victims # {}
<1>1. recordCount \in Nat /\ Cap \in Nat /\ Batch \in Nat \ {0}
  BY KeysFinite DEF IndexInv, TorrentIndexAssumptions
<1>2. Limit \in Nat \ {0}
  BY <1>1 DEF Limit, Least
<1>3. Cardinality(victims) # 0
  BY <1>1, <1>2 DEF LowestValueHashes, IndexInv
<1> QED
  BY <1>3, FS_EmptySet

(* A prune chain that ends has brought the index to its cap, or the batch that
   ended it met only rows that cannot be deleted: whatever ran between its
   batches. *)
THEOREM EndsAtCapHolds == ASSUME TorrentIndexAssumptions PROVE IndexSpec => EndsAtCap
<1> DEFINE Ends == pruneInFlight /\ ~pruneInFlight' /\ UNCHANGED crashes
                     => \/ Cardinality(db'.keys) <= Cap
                        \/ UNCHANGED db.keys /\ db.keys \cap Undeletable # {}
<1>1. IndexInv /\ [IndexNext]_indexVars => [Ends]_indexVars
  <2> SUFFICES ASSUME IndexInv, [IndexNext]_indexVars, pruneInFlight, ~pruneInFlight', UNCHANGED crashes
               PROVE  \/ Cardinality(db'.keys) <= Cap
                      \/ UNCHANGED db.keys /\ db.keys \cap Undeletable # {}
    OBVIOUS
  <2>1. PruneBatch
    <3>1. ~UNCHANGED pruneInFlight
      OBVIOUS
    <3>2. ASSUME NEW d PROVE ~Restart(d)
      BY DEF Restart, IndexInv
    <3>3. ASSUME NEW t \in Torrents PROVE ~HandleDiscovered(t)
      BY <3>1 DEF HandleDiscovered, pruning, IndexInv
    <3> QED
      BY <3>1, <3>2, <3>3 DEF IndexNext, indexVars, pruning, CountsScraped, InfoScraped, ScrapeFails,
         Crash, CrashInUpsert, CrashInPrune
  <2>2. PICK victims \in LowestValueHashes(Limit) : BatchDid(victims)
    BY <2>1, BatchEffect
  <2> DEFINE gone == victims \ Undeletable
  <2>3. /\ db'.keys = db.keys \ gone /\ recordCount' = Cardinality(db'.keys)
        /\ recordCount' = recordCount - Cardinality(gone)
        /\ ~GoOn(recordCount - Cardinality(gone), gone)
        /\ victims \subseteq db.keys /\ Tables(db')
    BY <2>2 DEF BatchDid
  <2>4. recordCount' \in Nat /\ Cap \in Nat
    BY <2>3, KeysFinite DEF TorrentIndexAssumptions
  <2>5. CASE recordCount' <= Cap
    BY <2>3, <2>5
  <2>6. CASE recordCount' > Cap
    <3>1. gone = {}
      BY <2>3, <2>6 DEF GoOn
    <3>2. db'.keys = db.keys /\ recordCount' = recordCount
      BY <2>3, <3>1, FS_EmptySet DEF IndexInv
    <3>3. victims # {}
      BY <2>6, <3>2, VictimsExist
    <3> QED
      BY <2>3, <3>1, <3>2, <3>3
  <2> QED
    BY <2>4, <2>5, <2>6
<1> QED
  BY <1>1, IndexInvHolds, PTL DEF IndexSpec, EndsAtCap

-----------------------------------------------------------------------------
(* SwarmScraper                                                             *)

\* What every ScrapeState keeps to: `best` is the best of what was merged so far,
\* and a task that has not merged has found nothing.
Whole(s) ==
    /\ s \in ScrapeState
    /\ \A t \in Tracker : s.found[t] <= s.best
    /\ \E t \in Tracker : s.found[t] = s.best
    /\ \A t \in Tracker : s.tasks[t] \notin {"merged", "left"} => s.found[t] = NoCount

Ended(s) == \A t \in Tracker : s.tasks[t] = "left"

\* The variables stay of their kind, the two sequences of hashes included.
SwarmKind ==
    /\ stopping \in {"no", "draining", "yes"} /\ recent \subseteq SwarmHash
    /\ active \in 0..kMaxConcurrent
    /\ pending \in Seq(SwarmHash) /\ scrapes \in Seq(ScrapeState) /\ swarmReports \in Seq(Nat)

\* A report is about a scrape that was made and has ended, and there is one of it.
ReportsEnded ==
    /\ \A i \in 1..Len(swarmReports) :
          swarmReports[i] \in 1..Len(scrapes) /\ Ended(scrapes[swarmReports[i]])
    /\ \A i, j \in 1..Len(swarmReports) : swarmReports[i] = swarmReports[j] => i = j

\* The scrapes that hold a slot, over the indexes of the two sequences.
HeldBy(ss, rs) == {k \in 1..Len(ss) : ~Ended(ss[k]) \/ \E i \in 1..Len(rs) : rs[i] = k}

SwarmInv ==
    /\ SwarmKind
    /\ \A k \in 1..Len(scrapes) : Whole(scrapes[k])
    /\ ReportsEnded
    /\ active = Cardinality(HeldBy(scrapes, swarmReports))

\* Max of a set of integers, when one of its elements is known to bound it.
LEMMA MaxIs ==
  ASSUME NEW S \in SUBSET Int, NEW x \in S, \A y \in S : x >= y
  PROVE  Max(S) = x
  <1> DEFINE m == CHOOSE z \in S : \A y \in S : z >= y
  <1>1. m \in S /\ \A y \in S : m >= y
    OBVIOUS
  <1>2. m \in Int /\ x \in Int /\ m >= x /\ x >= m
    BY <1>1
  <1>3. m = x
    BY <1>2
  <1> QED
    BY <1>3 DEF Max

\* Min of two.
LEMMA MinOfTwo ==
  ASSUME NEW a \in Int, NEW b \in Int
  PROVE  Min({a, b}) \in {a, b} /\ Min({a, b}) <= a /\ Min({a, b}) <= b
  <1> DEFINE m == CHOOSE z \in {a, b} : \A y \in {a, b} : z <= y
  <1>1. \E z \in {a, b} : \A y \in {a, b} : z <= y
    <2>1. a <= b \/ b <= a
      OBVIOUS
    <2> QED
      BY <2>1
  <1>2. m \in {a, b} /\ \A y \in {a, b} : m <= y
    BY <1>1
  <1> QED
    BY <1>2 DEF Min

\* A slot given back, when there is one.
LEMMA MaxWithZero == ASSUME NEW a \in Nat, a >= 1 PROVE Max({0, a - 1}) = a - 1
  <1> DEFINE S == {0, a - 1}
  <1>1. S \in SUBSET Int /\ a - 1 \in S /\ \A y \in S : a - 1 >= y
    OBVIOUS
  <1> HIDE DEF S
  <1>2. Max(S) = a - 1
    BY <1>1, MaxIs
  <1> QED
    BY <1>2 DEF S

\* As many of the queue as fit are no more than the queue has, nor than are free.
LEMMA FitsBounds ==
  ASSUME NEW free \in Nat, SwarmKind
  PROVE  Fits(free) \in Nat /\ Fits(free) <= Len(pending) /\ Fits(free) <= free
  <1>1. Len(pending) \in Nat
    BY LenProperties DEF SwarmKind
  <1>2. \A a, b \in Int : Min({a, b}) \in {a, b} /\ Min({a, b}) <= a /\ Min({a, b}) <= b
    BY MinOfTwo
  <1>3. /\ Min({Len(pending), free}) \in {Len(pending), free}
        /\ Min({Len(pending), free}) <= Len(pending) /\ Min({Len(pending), free}) <= free
    BY <1>1, <1>2
  <1> QED
    BY <1>1, <1>3 DEF Fits

\* A scrape starts with nothing found, and not ended.
LEMMA StartedWhole ==
  ASSUME NEW h \in SwarmHash
  PROVE  Started(h) \in ScrapeState /\ Whole(Started(h)) /\ ~Ended(Started(h))
  <1>1. NoCount \in NoCount..MaxSeeders
    BY SwarmAssumption DEF NoCount
  <1>2. Started(h) \in ScrapeState
    BY <1>1 DEF Started, ScrapeState, ScrapeTask
  <1>3. PICK t \in Tracker : TRUE
    BY SwarmAssumption
  <1>4. Whole(Started(h))
    BY <1>2, <1>3 DEF Whole, Started, NoCount
  <1> QED
    BY <1>2, <1>3, <1>4 DEF Ended, Started

\* A step of one task keeps its scrape whole, as long as it ends where it may.
LEMMA MovedWhole ==
  ASSUME NEW s, Whole(s), NEW t \in Tracker, NEW w \in ScrapeTask,
         w \in {"merged", "left"} => s.tasks[t] \in {"merged", "left"} ,
         s.tasks[t] \in {"merged", "left"} => w \in {"merged", "left"}
  PROVE  Whole([s EXCEPT !.tasks[t] = w])
  BY DEF Whole, ScrapeState, ScrapeTask

\* The merge: `best` is the best of the old and of the new.
LEMMA AnnouncedWhole ==
  ASSUME NEW s, Whole(s), NEW t \in Tracker, NEW n \in NoCount..MaxSeeders,
         s.tasks[t] = "announcing"
  PROVE  Whole([s EXCEPT !.tasks[t] = "merged", !.found[t] = n, !.best = Better(s, n)])
  <1> DEFINE r == [s EXCEPT !.tasks[t] = "merged", !.found[t] = n, !.best = Better(s, n)]
  <1>1. /\ s \in ScrapeState /\ s.best \in NoCount..MaxSeeders /\ s.found[t] = NoCount
        /\ s.found \in [Tracker -> NoCount..MaxSeeders]
        /\ s.tasks \in [Tracker -> ScrapeTask]
    BY DEF Whole, ScrapeState
  <1>2. /\ r.hash = s.hash /\ r.tasks = [s.tasks EXCEPT ![t] = "merged"]
        /\ r.found = [s.found EXCEPT ![t] = n] /\ r.best = Better(s, n)
    BY <1>1 DEF ScrapeState
  <1>3. r.best \in NoCount..MaxSeeders /\ r.best >= s.best /\ r.best >= n
    BY <1>1, <1>2, SwarmAssumption DEF Better, NoCount
  <1>4. r \in ScrapeState
    BY <1>1, <1>3 DEF ScrapeState, ScrapeTask
  <1>5. \A u \in Tracker : r.found[u] <= r.best
    BY <1>1, <1>2, <1>3, SwarmAssumption DEF Whole, NoCount
  <1>6. \E u \in Tracker : r.found[u] = r.best
    <2>1. CASE n > s.best
      BY <1>1, <1>2, <2>1 DEF Better
    <2>2. CASE ~(n > s.best)
      <3>1. PICK u \in Tracker : s.found[u] = s.best
        BY DEF Whole
      <3>2. CASE u = t
        BY <1>1, <1>2, <2>2, <3>1, <3>2, SwarmAssumption DEF Better, NoCount
      <3>3. CASE u # t
        BY <1>1, <1>2, <2>2, <3>1, <3>3 DEF Better
      <3> QED
        BY <3>2, <3>3
    <2> QED
      BY <2>1, <2>2
  <1>7. \A u \in Tracker : r.tasks[u] \notin {"merged", "left"} => r.found[u] = NoCount
    BY <1>1, <1>2 DEF Whole
  <1> HIDE DEF r
  <1>8. Whole(r)
    BY <1>4, <1>5, <1>6, <1>7 DEF Whole
  <1> QED
    BY <1>8 DEF r

\* processQueue: the scrapes there were stay as they are, and each one that starts
\* takes a slot.
LEMMA ProcessQueueStarts ==
  ASSUME SwarmInv, NEW taken \in 0..kMaxConcurrent, ProcessQueue(taken)
  PROVE  \E n \in Nat :
            /\ active' = taken + n /\ active' <= kMaxConcurrent
            /\ pending' \in Seq(SwarmHash)
            /\ scrapes' \in Seq(ScrapeState) /\ Len(scrapes') = Len(scrapes) + n
            /\ \A k \in 1..Len(scrapes) : scrapes'[k] = scrapes[k]
            /\ \A k \in (Len(scrapes) + 1)..(Len(scrapes) + n) :
                  Whole(scrapes'[k]) /\ ~Ended(scrapes'[k])
  <1> DEFINE n == IF stopping = "yes" THEN 0 ELSE Fits(kMaxConcurrent - taken)
             new == [k \in 1..n |-> Started(pending[k])]
  <1>0. SwarmKind
    BY DEF SwarmInv
  <1>1. n \in Nat /\ n <= Len(pending) /\ taken + n <= kMaxConcurrent /\ Len(pending) \in Nat
    <2>1. kMaxConcurrent - taken \in Nat /\ Len(pending) \in Nat
      BY <1>0, LenProperties, SwarmAssumption DEF SwarmKind
    <2>2. /\ Fits(kMaxConcurrent - taken) \in Nat /\ Fits(kMaxConcurrent - taken) <= Len(pending)
          /\ Fits(kMaxConcurrent - taken) <= kMaxConcurrent - taken
      BY <2>1, <1>0, FitsBounds
    <2> QED
      BY <2>1, <2>2, SwarmAssumption
  <1>2. /\ pending' = SubSeq(pending, n + 1, Len(pending)) /\ active' = taken + n
        /\ scrapes' = scrapes \o new
    BY DEF ProcessQueue
  <1> HIDE DEF n
  <1>3. \A k \in 1..n : pending[k] \in SwarmHash
    BY <1>0, <1>1, ElementOfSeq DEF SwarmKind
  <1>4. new \in Seq(ScrapeState) /\ Len(new) = n
        /\ \A k \in 1..n : Whole(new[k]) /\ ~Ended(new[k])
    <2>1. \A k \in 1..n : new[k] \in ScrapeState /\ Whole(new[k]) /\ ~Ended(new[k])
      BY <1>3, StartedWhole
    <2>2. new \in [1..n -> ScrapeState]
      BY <2>1
    <2> QED
      BY <2>1, <2>2, <1>1
  <1> HIDE DEF new
  <1>5. /\ scrapes' \in Seq(ScrapeState) /\ Len(scrapes') = Len(scrapes) + n
        /\ \A i \in 1..Len(scrapes) + n : scrapes'[i] =
              IF i <= Len(scrapes) THEN scrapes[i] ELSE new[i - Len(scrapes)]
        /\ Len(scrapes) \in Nat
    BY <1>0, <1>2, <1>4, ConcatProperties, LenProperties DEF SwarmKind
  <1>6. pending' \in Seq(SwarmHash)
    <2>1. \A i \in (n + 1)..Len(pending) : pending[i] \in SwarmHash
      BY <1>0, <1>1, ElementOfSeq DEF SwarmKind
    <2> QED
      BY <2>1, <1>1, <1>2, SubSeqProperties
  <1>7. \A k \in 1..Len(scrapes) : scrapes'[k] = scrapes[k]
    BY <1>1, <1>5
  <1>8. \A k \in (Len(scrapes) + 1)..(Len(scrapes) + n) : Whole(scrapes'[k]) /\ ~Ended(scrapes'[k])
    <2> SUFFICES ASSUME NEW k \in (Len(scrapes) + 1)..(Len(scrapes) + n)
                 PROVE  Whole(scrapes'[k]) /\ ~Ended(scrapes'[k])
      OBVIOUS
    <2>1. k - Len(scrapes) \in 1..n /\ scrapes'[k] = new[k - Len(scrapes)]
      BY <1>1, <1>5
    <2> QED
      BY <1>4, <2>1
  <1>9. active' <= kMaxConcurrent
    BY <1>1, <1>2
  <1> QED
    BY <1>1, <1>2, <1>5, <1>6, <1>7, <1>8, <1>9

\* The scrapes are finitely many.
LEMMA HeldFinite ==
  ASSUME NEW ss \in Seq(ScrapeState), NEW rs
  PROVE  IsFiniteSet(HeldBy(ss, rs)) /\ Cardinality(HeldBy(ss, rs)) \in Nat
  <1>1. IsFiniteSet(1..Len(ss))
    BY FS_Interval, LenProperties
  <1>2. HeldBy(ss, rs) \subseteq 1..Len(ss)
    BY DEF HeldBy
  <1> QED
    BY <1>1, <1>2, FS_Subset, FS_CardinalityType

(* n numbers in a row.                                                      *)
LEMMA RunOf ==
  ASSUME NEW m \in Nat, NEW n \in Nat
  PROVE  IsFiniteSet((m + 1)..(m + n)) /\ Cardinality((m + 1)..(m + n)) = n
  <1> DEFINE a == m + 1
             b == m + n
  <1>1. a \in Int /\ b \in Int /\ (IF a > b THEN 0 ELSE b - a + 1) = n
    OBVIOUS
  <1> HIDE DEF a, b
  <1>2. IsFiniteSet(a..b) /\ Cardinality(a..b) = IF a > b THEN 0 ELSE b - a + 1
    BY <1>1, FS_Interval
  <1>3. IsFiniteSet(a..b) /\ Cardinality(a..b) = n
    BY <1>1, <1>2
  <1> QED
    BY <1>3 DEF a, b

\* The slots, when scrapes start behind those there were, and the first report is
\* seen or none is.
LEMMA HeldGrows ==
  ASSUME NEW ss \in Seq(ScrapeState), NEW tt \in Seq(ScrapeState), NEW n \in Nat,
         Len(tt) = Len(ss) + n,
         \A k \in 1..Len(ss) : tt[k] = ss[k],
         \A k \in (Len(ss) + 1)..(Len(ss) + n) : ~Ended(tt[k]),
         NEW rs \in Seq(Nat), \A i \in 1..Len(rs) : rs[i] \in 1..Len(ss)
  PROVE  Cardinality(HeldBy(tt, rs)) = Cardinality(HeldBy(ss, rs)) + n
  <1> DEFINE new == (Len(ss) + 1)..(Len(ss) + n)
  <1>1. Len(ss) \in Nat
    BY LenProperties
  <1>2. HeldBy(tt, rs) = HeldBy(ss, rs) \cup new /\ HeldBy(ss, rs) \cap new = {}
    BY <1>1 DEF HeldBy
  <1>3. IsFiniteSet(new) /\ Cardinality(new) = n
    BY <1>1, RunOf
  <1> HIDE DEF new
  <1>4. Cardinality(HeldBy(ss, rs) \cup new)
          = Cardinality(HeldBy(ss, rs)) + Cardinality(new) - Cardinality(HeldBy(ss, rs) \cap new)
    BY <1>3, HeldFinite, FS_Union
  <1>5. Cardinality(HeldBy(ss, rs)) \in Nat /\ Cardinality(HeldBy(ss, rs) \cap new) = 0
    BY <1>2, HeldFinite, FS_EmptySet
  <1> QED
    BY <1>2, <1>3, <1>4, <1>5

\* The slots, when the report at the head is seen.
LEMMA HeldShrinks ==
  ASSUME SwarmInv, swarmReports # <<>>
  PROVE  /\ Tail(swarmReports) \in Seq(Nat)
         /\ Cardinality(HeldBy(scrapes, swarmReports)) >= 1
         /\ Cardinality(HeldBy(scrapes, Tail(swarmReports)))
              = Cardinality(HeldBy(scrapes, swarmReports)) - 1
  <1> DEFINE h == swarmReports[1]
             T == Tail(swarmReports)
             H == HeldBy(scrapes, swarmReports)
  <1>1. /\ T \in Seq(Nat) /\ Len(T) = Len(swarmReports) - 1 /\ Len(swarmReports) \in Nat
        /\ \A i \in 1..Len(T) : T[i] = swarmReports[i + 1]
        /\ Len(swarmReports) >= 1
    BY HeadTailProperties, LenProperties, EmptySeq DEF SwarmInv, SwarmKind
  <1> HIDE DEF T
  <1>2. h \in 1..Len(scrapes) /\ Ended(scrapes[h])
    BY <1>1 DEF SwarmInv, ReportsEnded
  <1>3. \A i \in 1..Len(T) : T[i] # h
    BY <1>1 DEF SwarmInv, ReportsEnded
  <1>4. h \in H
    BY <1>1, <1>2 DEF HeldBy
  <1>5. HeldBy(scrapes, T) = H \ {h}
    <2>1. ASSUME NEW k \in HeldBy(scrapes, T) PROVE k \in H \ {h}
      <3>1. k # h
        BY <2>1, <1>2, <1>3 DEF HeldBy
      <3>2. k \in H
        BY <2>1, <1>1 DEF HeldBy
      <3> QED
        BY <3>1, <3>2
    <2>2. ASSUME NEW k \in H \ {h} PROVE k \in HeldBy(scrapes, T)
      <3>1. CASE ~Ended(scrapes[k])
        BY <2>2, <3>1 DEF HeldBy
      <3>2. ASSUME NEW i \in 1..Len(swarmReports), swarmReports[i] = k PROVE k \in HeldBy(scrapes, T)
        <4>1. i - 1 \in 1..Len(T) /\ T[i - 1] = k
          BY <1>1, <2>2, <3>2
        <4> QED
          BY <2>2, <4>1 DEF HeldBy
      <3> QED
        BY <2>2, <3>1, <3>2 DEF HeldBy
    <2> QED
      BY <2>1, <2>2
  <1>6. IsFiniteSet(H) /\ Cardinality(H) \in Nat
    BY HeldFinite DEF SwarmInv, SwarmKind
  <1> HIDE DEF H
  <1>7. Cardinality(H \ {h}) = Cardinality(H) - 1 /\ Cardinality(H \ {h}) \in Nat
    BY <1>4, <1>6, FS_RemoveElement, FS_CardinalityType
  <1>8. Cardinality(H) >= 1 /\ Cardinality(HeldBy(scrapes, T)) = Cardinality(H) - 1
    BY <1>5, <1>6, <1>7
  <1>9. T \in Seq(Nat)
    BY <1>1
  <1> QED
    BY <1>8, <1>9 DEF H, T

\* The engine's actions keep the invariant.
LEMMA RequestInv == ASSUME SwarmInv, NEW h \in SwarmHash, RequestScrape(h) PROVE SwarmInv'
  <1>1. SwarmKind /\ active \in Nat /\ Len(scrapes) \in Nat
    BY LenProperties, SwarmAssumption DEF SwarmInv, SwarmKind
  <1>2. CASE UNCHANGED scrapes
    <2>1. SwarmKind'
      <3>1. pending' = pending \/ pending' = Append(pending, h)
        BY <1>2 DEF RequestScrape
      <3>2. pending' \in Seq(SwarmHash)
        BY <1>1, <3>1, AppendProperties DEF SwarmKind
      <3> QED
        BY <1>1, <1>2, <3>2 DEF SwarmKind, RequestScrape
    <2> QED
      BY <1>2, <2>1 DEF SwarmInv, RequestScrape, ReportsEnded
  <1>3. CASE ~UNCHANGED scrapes
    <2>1. /\ active < kMaxConcurrent /\ active' = active + 1 /\ scrapes' = Append(scrapes, Started(h))
          /\ UNCHANGED <<pending, stopping, swarmReports>> /\ recent' \subseteq SwarmHash
      BY <1>1, <1>3, SwarmAssumption DEF RequestScrape, SwarmKind
    <2>2. Started(h) \in ScrapeState /\ Whole(Started(h)) /\ ~Ended(Started(h))
      BY StartedWhole
    <2>3. /\ scrapes' \in Seq(ScrapeState) /\ Len(scrapes') = Len(scrapes) + 1
          /\ \A k \in 1..Len(scrapes) : scrapes'[k] = scrapes[k]
          /\ scrapes'[Len(scrapes) + 1] = Started(h)
      BY <1>1, <2>1, <2>2, AppendProperties DEF SwarmKind
    <2>4. SwarmKind'
      BY <1>1, <2>1, <2>3, SwarmAssumption DEF SwarmKind
    <2>5. (\A k \in 1..Len(scrapes) : Whole(scrapes[k]))'
      BY <1>1, <2>2, <2>3 DEF SwarmInv
    <2>6. ReportsEnded'
      BY <1>1, <2>1, <2>3 DEF SwarmInv, ReportsEnded
    <2>7. Cardinality(HeldBy(scrapes', swarmReports)) = Cardinality(HeldBy(scrapes, swarmReports)) + 1
      <3>1. \A k \in (Len(scrapes) + 1)..(Len(scrapes) + 1) : ~Ended(scrapes'[k])
        BY <1>1, <2>2, <2>3
      <3>2. \A i \in 1..Len(swarmReports) : swarmReports[i] \in 1..Len(scrapes)
        BY DEF SwarmInv, ReportsEnded
      <3> QED
        BY <1>1, <2>3, <3>1, <3>2, HeldGrows DEF SwarmKind
    <2> QED
      BY <2>1, <2>4, <2>5, <2>6, <2>7 DEF SwarmInv
  <1> QED
    BY <1>2, <1>3

LEMMA ReportedInv == ASSUME SwarmInv, ScrapeReported PROVE SwarmInv'
  <1>1. SwarmKind /\ active \in Nat /\ Len(scrapes) \in Nat
    BY LenProperties, SwarmAssumption DEF SwarmInv, SwarmKind
  <1>2. /\ swarmReports # <<>> /\ swarmReports' = Tail(swarmReports)
        /\ ProcessQueue(Max({0, active - 1})) /\ UNCHANGED <<stopping, recent>>
    BY DEF ScrapeReported
  <1>3. /\ swarmReports' \in Seq(Nat) /\ active >= 1
        /\ Cardinality(HeldBy(scrapes, swarmReports')) = active - 1
    BY <1>2, HeldShrinks DEF SwarmInv
  <1>4. Max({0, active - 1}) = active - 1
    BY <1>1, <1>3, MaxWithZero
  <1>5. PICK n \in Nat :
            /\ active' = (active - 1) + n /\ active' <= kMaxConcurrent
            /\ pending' \in Seq(SwarmHash)
            /\ scrapes' \in Seq(ScrapeState) /\ Len(scrapes') = Len(scrapes) + n
            /\ \A k \in 1..Len(scrapes) : scrapes'[k] = scrapes[k]
            /\ \A k \in (Len(scrapes) + 1)..(Len(scrapes) + n) :
                  Whole(scrapes'[k]) /\ ~Ended(scrapes'[k])
    <2>1. active - 1 \in 0..kMaxConcurrent /\ ProcessQueue(active - 1)
      BY <1>1, <1>2, <1>3, <1>4, SwarmAssumption DEF SwarmKind
    <2> QED
      BY <2>1, ProcessQueueStarts
  <1>6. SwarmKind'
    BY <1>1, <1>2, <1>3, <1>5, SwarmAssumption DEF SwarmKind
  <1>7. (\A k \in 1..Len(scrapes) : Whole(scrapes[k]))'
    <2>1. SUFFICES ASSUME NEW k \in 1..Len(scrapes') PROVE Whole(scrapes'[k])
      OBVIOUS
    <2>2. k \in 1..Len(scrapes) \/ k \in (Len(scrapes) + 1)..(Len(scrapes) + n)
      BY <1>1, <1>5
    <2>3. CASE k \in 1..Len(scrapes)
      <3>1. Whole(scrapes[k])
        BY <2>3 DEF SwarmInv
      <3> QED
        BY <1>5, <2>3, <3>1
    <2>4. CASE k \in (Len(scrapes) + 1)..(Len(scrapes) + n)
      BY <1>5, <2>4
    <2> QED
      BY <2>2, <2>3, <2>4
  <1>8. /\ Len(swarmReports') = Len(swarmReports) - 1 /\ Len(swarmReports) \in Nat
        /\ \A i \in 1..Len(swarmReports') : swarmReports'[i] = swarmReports[i + 1]
    BY <1>1, <1>2, HeadTailProperties, LenProperties DEF SwarmKind
  <1>9. \A i \in 1..Len(swarmReports') :
            swarmReports'[i] \in 1..Len(scrapes) /\ Ended(scrapes[swarmReports'[i]])
    BY <1>8 DEF SwarmInv, ReportsEnded
  <1>10. ReportsEnded'
    <2>1. \A i, j \in 1..Len(swarmReports') : swarmReports'[i] = swarmReports'[j] => i = j
      BY <1>8 DEF SwarmInv, ReportsEnded
    <2>2. \A i \in 1..Len(swarmReports') :
             swarmReports'[i] \in 1..Len(scrapes') /\ Ended(scrapes'[swarmReports'[i]])
      BY <1>1, <1>5, <1>9
    <2> QED
      BY <2>1, <2>2 DEF ReportsEnded, Ended
  <1>11. Cardinality(HeldBy(scrapes', swarmReports')) = Cardinality(HeldBy(scrapes, swarmReports')) + n
    <2>1. \A i \in 1..Len(swarmReports') : swarmReports'[i] \in 1..Len(scrapes)
      BY <1>9
    <2> QED
      BY <1>1, <1>3, <1>5, <2>1, HeldGrows DEF SwarmKind
  <1> QED
    BY <1>3, <1>5, <1>6, <1>7, <1>10, <1>11 DEF SwarmInv

\* A scrape whose task moves: the others stay, and all stay whole.
LEMMA OneMoves ==
  ASSUME SwarmInv, NEW k \in DOMAIN scrapes, NEW s, Whole(s), ~Ended(scrapes[k]),
         scrapes' = [scrapes EXCEPT ![k] = s]
  PROVE  /\ k \in 1..Len(scrapes)
         /\ scrapes' \in Seq(ScrapeState) /\ Len(scrapes') = Len(scrapes)
         /\ scrapes'[k] = s /\ \A j \in 1..Len(scrapes) : j # k => scrapes'[j] = scrapes[j]
         /\ (\A j \in 1..Len(scrapes) : Whole(scrapes[j]))'
         /\ ReportsEnded /\ \A i \in 1..Len(swarmReports) : swarmReports[i] # k
         /\ \A i \in 1..Len(swarmReports) :
               swarmReports[i] \in 1..Len(scrapes') /\ Ended(scrapes'[swarmReports[i]])
  <1>1. k \in 1..Len(scrapes) /\ s \in ScrapeState /\ scrapes \in Seq(ScrapeState)
    BY LenProperties DEF SwarmInv, SwarmKind, Whole
  <1>2. /\ scrapes' \in Seq(ScrapeState) /\ Len(scrapes') = Len(scrapes)
        /\ \A j \in 1..Len(scrapes) : scrapes'[j] = IF j = k THEN s ELSE scrapes[j]
    BY <1>1, ExceptSeq
  <1>3. \A j \in 1..Len(scrapes') : Whole(scrapes'[j])
    BY <1>1, <1>2 DEF SwarmInv
  <1>4. ReportsEnded /\ \A i \in 1..Len(swarmReports) : swarmReports[i] # k
    BY DEF SwarmInv, ReportsEnded
  <1>5. \A i \in 1..Len(swarmReports) :
           swarmReports[i] \in 1..Len(scrapes') /\ Ended(scrapes'[swarmReports[i]])
    BY <1>2, <1>4 DEF ReportsEnded
  <1>6. (\A j \in 1..Len(scrapes) : Whole(scrapes[j]))'
    BY <1>3
  <1> QED
    BY <1>1, <1>2, <1>4, <1>5, <1>6

\* A task that moves without leaving changes neither the slots nor the reports.
LEMMA MovesOnInv ==
  ASSUME SwarmInv, NEW k \in DOMAIN scrapes, NEW s, Whole(s), ~Ended(scrapes[k]), ~Ended(s),
         scrapes' = [scrapes EXCEPT ![k] = s],
         UNCHANGED <<stopping, recent, pending, active, swarmReports>>
  PROVE  SwarmInv'
  <1>1. /\ k \in 1..Len(scrapes)
        /\ scrapes' \in Seq(ScrapeState) /\ Len(scrapes') = Len(scrapes)
        /\ scrapes'[k] = s /\ \A j \in 1..Len(scrapes) : j # k => scrapes'[j] = scrapes[j]
        /\ (\A j \in 1..Len(scrapes) : Whole(scrapes[j]))'
        /\ ReportsEnded
        /\ \A i \in 1..Len(swarmReports) :
              swarmReports[i] \in 1..Len(scrapes') /\ Ended(scrapes'[swarmReports[i]])
    BY OneMoves
  <1>2. SwarmKind'
    BY <1>1 DEF SwarmInv, SwarmKind
  <1>3. ReportsEnded'
    BY <1>1 DEF ReportsEnded, Ended
  <1>4. HeldBy(scrapes', swarmReports) = HeldBy(scrapes, swarmReports)
    <2>1. \A j \in 1..Len(scrapes) : Ended(scrapes'[j]) <=> Ended(scrapes[j])
      BY <1>1
    <2> QED
      BY <1>1, <2>1 DEF HeldBy
  <1> QED
    BY <1>1, <1>2, <1>3, <1>4 DEF SwarmInv

LEMMA KthScrape ==
  ASSUME SwarmInv, NEW k \in DOMAIN scrapes
  PROVE  /\ Whole(scrapes[k]) /\ scrapes[k] \in ScrapeState
         /\ scrapes[k].tasks \in [Tracker -> ScrapeTask]
  <1>1. scrapes \in Seq(ScrapeState) /\ \A j \in 1..Len(scrapes) : Whole(scrapes[j])
    BY DEF SwarmInv, SwarmKind
  <1>2. k \in 1..Len(scrapes)
    BY <1>1, LenProperties
  <1>3. Whole(scrapes[k])
    BY <1>1, <1>2
  <1>4. scrapes[k] \in ScrapeState
    BY <1>3 DEF Whole
  <1> QED
    BY <1>3, <1>4 DEF ScrapeState

LEMMA TakeInv == ASSUME SwarmInv, NEW k \in DOMAIN scrapes, NEW t \in Tracker, Take(k, t) PROVE SwarmInv'
  <1> DEFINE s == [scrapes[k] EXCEPT !.tasks[t] = "announcing"]
  <1>1. Whole(scrapes[k]) /\ scrapes[k].tasks[t] = "queued" /\ scrapes[k].tasks \in [Tracker -> ScrapeTask]
    BY KthScrape DEF Take
  <1>2. Whole(s)
    BY <1>1, MovedWhole DEF ScrapeTask
  <1>3. ~Ended(scrapes[k]) /\ ~Ended(s)
    BY <1>1 DEF Ended, Whole, ScrapeState
  <1>4. scrapes' = [scrapes EXCEPT ![k] = s]
    BY DEF Take
  <1> HIDE DEF s
  <1> QED
    BY <1>2, <1>3, <1>4, MovesOnInv DEF Take

LEMMA AnnouncedInv ==
  ASSUME SwarmInv, NEW k \in DOMAIN scrapes, NEW t \in Tracker, NEW n \in NoCount..MaxSeeders,
         Announced(k, t, n)
  PROVE  SwarmInv'
  <1> DEFINE s == [scrapes[k] EXCEPT !.tasks[t] = "merged", !.found[t] = n,
                                     !.best = Better(scrapes[k], n)]
  <1>1. /\ Whole(scrapes[k]) /\ scrapes[k].tasks[t] = "announcing"
        /\ scrapes[k].tasks \in [Tracker -> ScrapeTask] /\ scrapes[k] \in ScrapeState
    BY KthScrape DEF Announced
  <1>2. Whole(s)
    BY <1>1, AnnouncedWhole
  <1>3. ~Ended(scrapes[k]) /\ ~Ended(s)
    BY <1>1 DEF Ended, ScrapeState
  <1>4. scrapes' = [scrapes EXCEPT ![k] = s]
    BY DEF Announced
  <1> HIDE DEF s
  <1> QED
    BY <1>2, <1>3, <1>4, MovesOnInv DEF Announced

\* The last task to leave ends the scrape and reports it; the slot stays taken.
LEMMA TaskLeavesInv ==
  ASSUME SwarmInv, NEW k \in DOMAIN scrapes, NEW t \in Tracker, TaskLeaves(k, t)
  PROVE  SwarmInv'
  <1> DEFINE s == [scrapes[k] EXCEPT !.tasks[t] = "left"]
             last == \A u \in Tracker \ {t} : scrapes[k].tasks[u] = "left"
  <1>1. /\ Whole(scrapes[k]) /\ scrapes[k].tasks[t] = "merged"
        /\ scrapes[k].tasks \in [Tracker -> ScrapeTask] /\ scrapes[k] \in ScrapeState
    BY KthScrape DEF TaskLeaves
  <1>2. Whole(s)
    BY <1>1, MovedWhole DEF ScrapeTask
  <1>3. ~Ended(scrapes[k]) /\ (Ended(s) <=> last)
    BY <1>1 DEF Ended, ScrapeState
  <1>4. /\ scrapes' = [scrapes EXCEPT ![k] = s]
        /\ swarmReports' = IF last THEN Append(swarmReports, k) ELSE swarmReports
        /\ UNCHANGED <<stopping, recent, pending, active>>
    BY DEF TaskLeaves
  <1> HIDE DEF s, last
  <1>5. CASE ~last
    BY <1>2, <1>3, <1>4, <1>5, MovesOnInv
  <1>6. CASE last
    <2>1. /\ k \in 1..Len(scrapes)
          /\ scrapes' \in Seq(ScrapeState) /\ Len(scrapes') = Len(scrapes)
          /\ scrapes'[k] = s /\ \A j \in 1..Len(scrapes) : j # k => scrapes'[j] = scrapes[j]
          /\ (\A j \in 1..Len(scrapes) : Whole(scrapes[j]))'
          /\ ReportsEnded /\ \A i \in 1..Len(swarmReports) : swarmReports[i] # k
          /\ \A i \in 1..Len(swarmReports) :
                swarmReports[i] \in 1..Len(scrapes') /\ Ended(scrapes'[swarmReports[i]])
      BY <1>2, <1>3, <1>4, OneMoves
    <2>2. Len(scrapes) \in Nat /\ Len(swarmReports) \in Nat
      BY LenProperties DEF SwarmInv, SwarmKind
    <2>3. /\ swarmReports' \in Seq(Nat) /\ Len(swarmReports') = Len(swarmReports) + 1
          /\ \A i \in 1..Len(swarmReports) : swarmReports'[i] = swarmReports[i]
          /\ swarmReports'[Len(swarmReports) + 1] = k
      <3>1. k \in Nat
        BY <2>1, <2>2
      <3> QED
        BY <3>1, <1>4, <1>6, AppendProperties DEF SwarmInv, SwarmKind
    <2>4. SwarmKind'
      BY <1>4, <2>1, <2>3 DEF SwarmInv, SwarmKind
    <2>5. \A i \in 1..Len(swarmReports') :
             swarmReports'[i] \in 1..Len(scrapes') /\ Ended(scrapes'[swarmReports'[i]])
      <3> SUFFICES ASSUME NEW i \in 1..Len(swarmReports')
                   PROVE  swarmReports'[i] \in 1..Len(scrapes') /\ Ended(scrapes'[swarmReports'[i]])
        OBVIOUS
      <3>1. CASE i \in 1..Len(swarmReports)
        BY <2>1, <2>3, <3>1
      <3>2. CASE i = Len(swarmReports) + 1
        BY <1>3, <1>6, <2>1, <2>3, <3>2
      <3> QED
        BY <2>2, <2>3, <3>1, <3>2
    <2>6. \A i, j \in 1..Len(swarmReports') : swarmReports'[i] = swarmReports'[j] => i = j
      <3> SUFFICES ASSUME NEW i \in 1..Len(swarmReports'), NEW j \in 1..Len(swarmReports'),
                          swarmReports'[i] = swarmReports'[j]
                   PROVE  i = j
        OBVIOUS
      <3>1. CASE i \in 1..Len(swarmReports) /\ j \in 1..Len(swarmReports)
        BY <2>1, <2>3, <3>1 DEF ReportsEnded
      <3>2. \A x \in 1..Len(swarmReports) : swarmReports'[x] # swarmReports'[Len(swarmReports) + 1]
        BY <2>1, <2>3
      <3>3. \A x \in 1..Len(swarmReports') : x \in 1..Len(swarmReports) \/ x = Len(swarmReports) + 1
        BY <2>2, <2>3
      <3> QED
        BY <3>1, <3>2, <3>3
    <2>7. ReportsEnded'
      BY <2>5, <2>6 DEF ReportsEnded, Ended
    <2>8. HeldBy(scrapes', swarmReports') = HeldBy(scrapes, swarmReports)
      <3>1. \A j \in 1..Len(scrapes) : j # k =>
               /\ Ended(scrapes'[j]) <=> Ended(scrapes[j])
               /\ (\E i \in 1..Len(swarmReports') : swarmReports'[i] = j)
                    <=> (\E i \in 1..Len(swarmReports) : swarmReports[i] = j)
        <4> SUFFICES ASSUME NEW j \in 1..Len(scrapes), j # k
                     PROVE  /\ Ended(scrapes'[j]) <=> Ended(scrapes[j])
                            /\ (\E i \in 1..Len(swarmReports') : swarmReports'[i] = j)
                                 <=> (\E i \in 1..Len(swarmReports) : swarmReports[i] = j)
          OBVIOUS
        <4>1. Ended(scrapes'[j]) <=> Ended(scrapes[j])
          BY <2>1
        <4>2. ASSUME NEW i \in 1..Len(swarmReports'), swarmReports'[i] = j
              PROVE  \E r \in 1..Len(swarmReports) : swarmReports[r] = j
          BY <2>2, <2>3, <4>2, SMTT(30)
        <4>3. ASSUME NEW i \in 1..Len(swarmReports), swarmReports[i] = j
              PROVE  \E r \in 1..Len(swarmReports') : swarmReports'[r] = j
          BY <2>2, <2>3, <4>3
        <4> QED
          BY <4>1, <4>2, <4>3
      <3>2. k \in HeldBy(scrapes', swarmReports') /\ k \in HeldBy(scrapes, swarmReports)
        BY <1>3, <2>1, <2>2, <2>3 DEF HeldBy
      <3> QED
        BY <2>1, <3>1, <3>2 DEF HeldBy
    <2> QED
      BY <1>4, <2>1, <2>4, <2>7, <2>8 DEF SwarmInv
  <1> QED
    BY <1>5, <1>6

\* stop() drops what has not begun, so it ends no scrape.
LEMMA StopSwarmInv == ASSUME SwarmInv, StopSwarm PROVE SwarmInv'
  <1> DEFINE dropped(k) == [scrapes[k] EXCEPT !.tasks =
                 [t \in Tracker |-> IF @[t] = "queued" THEN "dropped" ELSE @[t]]]
  <1>1. /\ scrapes \in Seq(ScrapeState) /\ Len(scrapes) \in Nat /\ DOMAIN scrapes = 1..Len(scrapes)
        /\ scrapes' = [k \in 1..Len(scrapes) |-> dropped(k)]
    BY LenProperties DEF SwarmInv, SwarmKind, StopSwarm
  <1>2. ASSUME NEW k \in 1..Len(scrapes)
        PROVE  Whole(dropped(k)) /\ dropped(k) \in ScrapeState
               /\ (Ended(dropped(k)) <=> Ended(scrapes[k]))
    <2>1. Whole(scrapes[k]) /\ scrapes[k] \in ScrapeState
      BY <1>2 DEF SwarmInv, Whole
    <2>2. /\ dropped(k).hash = scrapes[k].hash /\ dropped(k).found = scrapes[k].found
          /\ dropped(k).best = scrapes[k].best
          /\ dropped(k).tasks = [t \in Tracker |->
                IF scrapes[k].tasks[t] = "queued" THEN "dropped" ELSE scrapes[k].tasks[t]]
          /\ dropped(k) \in ScrapeState
      BY <2>1 DEF ScrapeState, ScrapeTask
    <2> HIDE DEF dropped
    <2>3. Whole(dropped(k))
      BY <2>1, <2>2 DEF Whole
    <2>4. Ended(dropped(k)) <=> Ended(scrapes[k])
      BY <2>2 DEF Ended
    <2> QED
      BY <2>2, <2>3, <2>4
  <1> HIDE DEF dropped
  <1>3. scrapes' \in Seq(ScrapeState) /\ Len(scrapes') = Len(scrapes)
        /\ \A k \in 1..Len(scrapes) : scrapes'[k] = dropped(k)
    BY <1>1, <1>2
  <1>4. SwarmKind'
    <2>1. <<>> \in Seq(SwarmHash)
      OBVIOUS
    <2> QED
      BY <1>3, <2>1 DEF SwarmInv, SwarmKind, StopSwarm
  <1>5. ReportsEnded'
    <2>1. \A i \in 1..Len(swarmReports) :
             swarmReports[i] \in 1..Len(scrapes') /\ Ended(scrapes'[swarmReports[i]])
      BY <1>2, <1>3 DEF SwarmInv, ReportsEnded
    <2> QED
      BY <2>1 DEF SwarmInv, ReportsEnded, StopSwarm, Ended
  <1>6. HeldBy(scrapes', swarmReports) = HeldBy(scrapes, swarmReports)
    BY <1>2, <1>3 DEF HeldBy
  <1>7. \A k \in 1..Len(scrapes') : Whole(scrapes'[k])
    BY <1>2, <1>3
  <1> QED
    BY <1>4, <1>5, <1>6, <1>7 DEF SwarmInv, StopSwarm

\* The steps that touch neither the scrapes nor their reports.
LEMMA SwarmRestInv ==
  ASSUME SwarmInv, UNCHANGED swarmVars \/ Drained \/ \E h \in SwarmHash : CooledDown(h)
  PROVE  SwarmInv'
  <1>1. /\ UNCHANGED <<pending, active, scrapes, swarmReports>>
        /\ stopping' \in {"no", "draining", "yes"} /\ recent' \subseteq SwarmHash
    BY DEF SwarmInv, SwarmKind, swarmVars, Drained, CooledDown
  <1> QED
    BY <1>1 DEF SwarmInv, SwarmKind, ReportsEnded

LEMMA SwarmInitInv == SwarmInit => SwarmInv
  <1> SUFFICES ASSUME SwarmInit PROVE SwarmInv
    OBVIOUS
  <1>1. scrapes = <<>> /\ swarmReports = <<>> /\ pending = <<>> /\ Len(<<>>) = 0
    BY DEF SwarmInit
  <1>2. SwarmKind
    BY <1>1, SwarmAssumption DEF SwarmInit, SwarmKind
  <1>3. HeldBy(scrapes, swarmReports) = {}
    BY <1>1 DEF HeldBy
  <1> QED
    BY <1>1, <1>2, <1>3, FS_EmptySet DEF SwarmInit, SwarmInv, ReportsEnded

LEMMA SwarmNextInv == SwarmInv /\ [SwarmNext]_swarmVars => SwarmInv'
  <1> SUFFICES ASSUME SwarmInv, [SwarmNext]_swarmVars PROVE SwarmInv'
    OBVIOUS
  <1>1. ASSUME NEW h \in SwarmHash, RequestScrape(h) PROVE SwarmInv'
    BY <1>1, RequestInv
  <1>2. ASSUME NEW k \in DOMAIN scrapes, NEW t \in Tracker, Step(k, t) PROVE SwarmInv'
    BY <1>2, TakeInv, TaskLeavesInv, AnnouncedInv DEF Step
  <1>3. CASE ScrapeReported
    BY <1>3, ReportedInv
  <1>4. CASE StopSwarm
    BY <1>4, StopSwarmInv
  <1>5. CASE UNCHANGED swarmVars \/ Drained \/ \E h \in SwarmHash : CooledDown(h)
    BY <1>5, SwarmRestInv
  <1> QED
    BY <1>1, <1>2, <1>3, <1>4, <1>5 DEF SwarmNext

\* What the invariant says of the properties.
LEMMA SwarmInvImplies == SwarmInv => SwarmTypeOK /\ ScrapesRight
  <1> SUFFICES ASSUME SwarmInv PROVE SwarmTypeOK /\ ScrapesRight
    OBVIOUS
  <1>1. /\ DOMAIN scrapes = 1..Len(scrapes) /\ DOMAIN swarmReports = 1..Len(swarmReports)
        /\ DOMAIN pending = 1..Len(pending)
    BY LenProperties DEF SwarmInv, SwarmKind
  <1>2. SwarmTypeOK
    BY <1>1, ElementOfSeq DEF SwarmTypeOK, SwarmInv, SwarmKind
  <1>3. ASSUME NEW k \in 1..Len(scrapes)
        PROVE  scrapes[k].best = Max({scrapes[k].found[t] : t \in Tracker})
    <2> DEFINE S == {scrapes[k].found[t] : t \in Tracker}
    <2>1. Whole(scrapes[k]) /\ scrapes[k] \in ScrapeState
      BY <1>3 DEF SwarmInv, Whole
    <2>2. \A t \in Tracker : scrapes[k].found[t] \in Int
      BY <2>1, SwarmAssumption DEF ScrapeState, NoCount
    <2>3. S \in SUBSET Int /\ scrapes[k].best \in S /\ \A y \in S : scrapes[k].best >= y
      BY <2>1, <2>2, SwarmAssumption DEF Whole, ScrapeState, NoCount
    <2> HIDE DEF S
    <2>4. Max(S) = scrapes[k].best
      BY <2>3, MaxIs
    <2> QED
      BY <2>4 DEF S
  <1>4. ReportIsBest
    BY <1>1, <1>3 DEF ReportIsBest, SwarmInv, ReportsEnded, Ended
  <1>5. Holding = HeldBy(scrapes, swarmReports)
    BY <1>1 DEF Holding, HeldBy, Ended
  <1> QED
    BY <1>2, <1>4, <1>5 DEF ScrapesRight, SlotPerScrape, SwarmInv

\* The native swarm scraper's state stays of its kind (swarm_scraper.cpp), and it
\* never has more scrapes under way than kMaxConcurrent.
THEOREM SwarmTypeCorrect == SwarmSpec => []SwarmTypeOK
  <1> QED
    BY SwarmInitInv, SwarmNextInv, SwarmInvImplies, PTL DEF SwarmSpec

\* Whatever order the trackers answer, merge and leave in, on however many threads:
\* a hash is reported once, with the best of its answers, when the last of them has
\* left; and activeRequests_ counts the scrapes that have not been reported.
THEOREM ScrapesRightHolds == SwarmSpec => []ScrapesRight
  <1> QED
    BY SwarmInitInv, SwarmNextInv, SwarmInvImplies, PTL DEF SwarmSpec

-----------------------------------------------------------------------------
(* The two queues of the terminal interface                                 *)

\* What is posted to the engine loop, to the debouncer and to the screen.
TuiTask ==
    [kind : {"feed"}, gen : Nat]
      \cup [kind : {"fetch", "written", "add", "vote", "remove"}, hash : TuiHash]
      \cup [kind : {"delete"}, hash : TuiHash, presses : Nat]
Keystroke == [kind : {"search"}, gen : Nat, query : Query]
TuiClosure ==
    [kind : {"results"}, gen : Nat, hits : SUBSET [hash : TuiHash, good : 0..1]]
      \cup [kind : {"hit"}, gen : Nat, hash : TuiHash]
      \cup [kind : {"voted", "saved"}, hash : TuiHash]
      \cup {c \in [kind : {"feed"}, gen : Nat, rev : Nat, items : Nat] : c.items = c.rev}
      \cup [kind : {"snapshot"}, hashes : SUBSET TuiHash]
      \cup [kind : {"exit"}]

QueuesTyped ==
    /\ tasks \in Seq(TuiTask) /\ debounced \in Seq(Keystroke) /\ posted \in Seq(TuiClosure)

\* What the tabs and the engine keep for them.
ViewsTyped ==
    /\ generation \in Nat /\ query \in Query \cup {NoText}
    /\ remoteSearchGeneration \in Nat /\ remoteFilters \in Query \cup {NoText} /\ asked \subseteq Query
    /\ feedGeneration \in Nat /\ lastSeenRevision \in Nat /\ feedRevision \in Nat
    /\ voted \subseteq Local /\ tuiDownloads \subseteq TuiHash
    /\ tuiRows \in Seq(TuiHash) /\ selected \in Nat \ {0}
    /\ (tuiRows # <<>> => selected \in DOMAIN tuiRows)
    /\ presses \in [TuiHash -> Nat] /\ armed \in TuiHash \cup {None}
    /\ owed \subseteq TuiHash /\ inFlightSaves \subseteq TuiHash

TuiKinds == QueuesTyped /\ ViewsTyped /\ feedShown = lastSeenRevision

(* A queue after a closure was added, and after its first one was taken.    *)
LEMMA Pushed ==
  ASSUME NEW T, NEW s \in Seq(T), NEW e \in T
  PROVE  /\ Append(s, e) \in Seq(T) /\ Len(s) \in Nat /\ Len(Append(s, e)) = Len(s) + 1
         /\ \A i \in 1..Len(s) : Append(s, e)[i] = s[i]
         /\ Append(s, e)[Len(s) + 1] = e
OBVIOUS

LEMMA Popped ==
  ASSUME NEW T, NEW s \in Seq(T), s # <<>>
  PROVE  /\ Tail(s) \in Seq(T) /\ Len(s) \in Nat \ {0} /\ Len(Tail(s)) = Len(s) - 1
         /\ \A i \in 1..Len(Tail(s)) : Tail(s)[i] = s[i + 1]
         /\ Head(s) = s[1] /\ Head(s) \in T
OBVIOUS

LEMMA TuiKindsInit == ASSUME TuiAssumption, TuiInit PROVE TuiKinds
<1> QED
  <2>1. QueuesTyped
    BY EmptySeq DEF TuiInit, QueuesTyped
  <2>2. ViewsTyped
    BY EmptySeq DEF TuiInit, ViewsTyped, None, NoText
  <2> QED
    BY <2>1, <2>2 DEF TuiInit, TuiKinds

LEMMA MatchesTyped ==
  ASSUME TuiAssumption, NEW q \in Query \cup {NoText}
  PROVE  Matches(q) \subseteq TuiHash
BY DEF TuiAssumption, Matches

(* A snapshot is shown sorted, each of its torrents in one row.             *)
LEMMA SnapshotSorted ==
  ASSUME TuiAssumption, NEW hashes \in SUBSET TuiHash, selected \in Nat \ {0}, ApplyRows(hashes)
  PROVE  /\ tuiRows' \in Seq(TuiHash) /\ Range(tuiRows') = hashes
         /\ selected' \in Nat \ {0} /\ (tuiRows' # <<>> => selected' \in DOMAIN tuiRows')
<1>1. IsFiniteSet(hashes) /\ Cardinality(hashes) \in Nat
  BY FS_Subset, FS_CardinalityType DEF TuiAssumption
<1>2. PICK sorted \in [1..Cardinality(hashes) -> hashes] : Range(sorted) = hashes /\ tuiRows' = sorted
  BY DEF ApplyRows
<1>3. tuiRows' \in Seq(TuiHash) /\ DOMAIN tuiRows' = 1..Cardinality(hashes)
  <2>1. sorted \in [1..Cardinality(hashes) -> TuiHash]
    BY <1>2
  <2>2. sorted \in Seq(TuiHash)
    BY <1>1, <2>1, SeqDef
  <2> QED
    BY <1>2, <2>2
<1>4. hashes = {} => Cardinality(hashes) = 0
  BY FS_EmptySet
<1>5. hashes # {} => Cardinality(hashes) # 0
  BY <1>1, FS_EmptySet
<1>6. selected' \in Nat \ {0}
  <2>1. hashes # {} => Cardinality(hashes) \in Nat \ {0}
    BY <1>1, <1>5
  <2> QED
    BY <1>1, <2>1 DEF ApplyRows
<1>7. tuiRows' # <<>> => hashes # {}
  <2>1. SUFFICES ASSUME hashes = {} PROVE tuiRows' = <<>>
    OBVIOUS
  <2>2. Len(tuiRows') = 0
    BY <1>3, <1>4, <2>1
  <2> QED
    BY <1>3, <2>2, EmptySeq
<1> QED
  BY <1>1, <1>2, <1>3, <1>5, <1>6, <1>7 DEF ApplyRows

\* What the closures of the tabs read of the queues they wait in.
LEMMA TaskTyped ==
  ASSUME NEW t \in TuiTask
  PROVE  /\ t.kind \in {"feed", "fetch", "written", "add", "vote", "remove", "delete"}
         /\ t.kind # "feed" => t.hash \in TuiHash
         /\ t.kind = "feed" => t.gen \in Nat
         /\ t.kind = "delete" => t.presses \in Nat
BY DEF TuiTask

LEMMA ClosureTyped ==
  ASSUME NEW c \in TuiClosure
  PROVE  /\ c.kind \in {"results", "hit", "voted", "saved", "feed", "snapshot", "exit"}
         /\ c.kind = "results" =>
               /\ c.gen \in Nat /\ c.hits \in SUBSET [hash : TuiHash, good : 0..1]
         /\ c.kind = "hit" => c.gen \in Nat /\ c.hash \in TuiHash
         /\ c.kind \in {"voted", "saved"} => c.hash \in TuiHash
         /\ c.kind = "feed" => c.gen \in Nat /\ c.rev \in Nat /\ c.items = c.rev
         /\ c.kind = "snapshot" => c.hashes \in SUBSET TuiHash
BY DEF TuiClosure

LEMMA RowUnder ==
  ASSUME TuiKinds, tuiRows # <<>>
  PROVE  Under \in TuiHash
BY DEF TuiKinds, ViewsTyped, Under

LEMMA SearchTyped ==
  ASSUME TuiAssumption, TuiKinds, NEW t \in Keystroke
  PROVE  [kind |-> "results", gen |-> t.gen, hits |-> SearchNames(t.query)] \in TuiClosure
<1>1. t.gen \in Nat /\ t.query \in Query
  BY DEF Keystroke
<1>2. SearchNames(t.query) \in SUBSET [hash : TuiHash, good : 0..1]
  BY <1>1, MatchesTyped DEF SearchNames
<1> QED
  BY <1>1, <1>2 DEF TuiClosure

LEMMA TuiKindsKept == ASSUME TuiAssumption, TuiKinds, TuiNext PROVE TuiKinds'
<1> USE DEF tuiLoopVars, appVars, searchVars, remoteVars, feedVars, rowVars, pollVars
<1>0. Local \subseteq TuiHash
  BY DEF TuiAssumption
<1> USE DEF TuiKinds
<1>1. ASSUME NEW q \in Query \cup {NoText}, TriggerSearch(q) PROVE TuiKinds'
  <2>1. q # NoText => [kind |-> "search", gen |-> generation + 1, query |-> q] \in Keystroke
    BY <1>1 DEF Keystroke, ViewsTyped
  <2>3. /\ UNCHANGED <<tasks, posted>>
        /\ \/ UNCHANGED debounced
           \/ /\ q # NoText
              /\ debounced' = Append(debounced, [kind |-> "search", gen |-> generation + 1, query |-> q])
    BY <1>1 DEF TriggerSearch, SetResults
  <2>4. UNCHANGED debounced \/ \E e \in Keystroke : debounced' = Append(debounced, e)
    BY <2>1, <2>3
  <2>5. debounced \in Seq(Keystroke)
    BY DEF QueuesTyped
  <2>6. debounced' \in Seq(Keystroke)
    BY <2>4, <2>5
  <2>2. QueuesTyped'
    BY <2>3, <2>6 DEF QueuesTyped
  <2> QED
    BY <1>1, <2>2 DEF TriggerSearch, Key, ViewsTyped
<1>2. ASSUME OnActivated PROVE TuiKinds'
  <2>1. [kind |-> "feed", gen |-> feedGeneration'] \in TuiTask /\ feedGeneration' \in Nat
    BY <1>2 DEF OnActivated, Reload, TuiTask, ViewsTyped
  <2>2. QueuesTyped'
    BY <1>2, <2>1 DEF OnActivated, Reload, Ask, QueuesTyped
  <2> QED
    BY <1>2, <2>1, <2>2 DEF OnActivated, Ask, Reload, ViewsTyped
<1>3. ASSUME NEW h \in TuiHash,
             HandleSaveTorrent(h) \/ HandleDownload(h) \/ HandleVote(h) \/ FetchAnswered(h)
      PROVE  TuiKinds'
  <2>1. PICK k \in {"fetch", "written", "add", "vote"} :
           tasks' = Append(tasks, [kind |-> k, hash |-> h])
    BY <1>3 DEF HandleSaveTorrent, HandleDownload, HandleVote, FetchAnswered, Ask
  <2>2. [kind |-> k, hash |-> h] \in TuiTask
    BY DEF TuiTask
  <2>3. QueuesTyped'
    BY <1>3, <2>1, <2>2, Pushed
       DEF HandleSaveTorrent, HandleDownload, HandleVote, FetchAnswered, Ask, QueuesTyped
  <2>4. ViewsTyped' /\ feedShown' = lastSeenRevision'
    BY <1>3 DEF HandleSaveTorrent, HandleDownload, HandleVote, FetchAnswered, ViewsTyped
  <2> QED
    BY <2>3, <2>4
<1>4. ASSUME NEW i \in DOMAIN tuiRows, Select(i) PROVE TuiKinds'
  <2>1. selected' \in Nat \ {0} /\ selected' \in DOMAIN tuiRows
    BY <1>4 DEF Select, ViewsTyped
  <2> QED
    BY <1>4, <2>1 DEF Select, QueuesTyped, ViewsTyped
<1>5. ASSUME NEW k \in {"x", "X"}, HandleKey(k) PROVE TuiKinds'
  <2>1. Under \in TuiHash
    BY <1>5, RowUnder DEF HandleKey
  <2>2. presses' \in [TuiHash -> Nat] /\ armed' \in TuiHash \cup {None}
    BY <1>5, <2>1 DEF HandleKey, ViewsTyped
  <2>3. ViewsTyped' /\ feedShown' = lastSeenRevision'
    BY <1>5, <2>2 DEF HandleKey, ViewsTyped
  <2>4. /\ [kind |-> "remove", hash |-> Under] \in TuiTask
        /\ [kind |-> "delete", hash |-> Under, presses |-> presses[Under] + 1] \in TuiTask
    BY <2>1 DEF TuiTask, ViewsTyped
  <2>6. /\ UNCHANGED <<debounced, posted>>
        /\ \/ UNCHANGED tasks
           \/ tasks' = Append(tasks, [kind |-> "remove", hash |-> Under])
           \/ tasks' = Append(tasks, [kind |-> "delete", hash |-> Under,
                                     presses |-> presses[Under] + 1])
    BY <1>5 DEF HandleKey, Ask
  <2>7. UNCHANGED tasks \/ \E e \in TuiTask : tasks' = Append(tasks, e)
    BY <2>4, <2>6
  <2>8. tasks \in Seq(TuiTask)
    BY DEF QueuesTyped
  <2>9. tasks' \in Seq(TuiTask)
    BY <2>7, <2>8
  <2>5. QueuesTyped'
    BY <2>6, <2>9 DEF QueuesTyped
  <2> QED
    BY <2>3, <2>5
<1>6. ASSUME WindowElapses \/ Quit PROVE TuiKinds'
  BY <1>6 DEF WindowElapses, Quit, QueuesTyped, ViewsTyped
<1>7. ASSUME RunPosted PROVE TuiKinds'
  <2> DEFINE c == Head(posted)
  <2>1. posted # <<>> /\ c \in TuiClosure /\ posted' \in Seq(TuiClosure)
    BY <1>7, Popped DEF RunPosted, QueuesTyped
  <2>2. QueuesTyped'
    BY <1>7, <2>1 DEF RunPosted, QueuesTyped
  <2>3. lastSeenRevision' \in Nat /\ feedShown' = lastSeenRevision'
    <3>1. CASE c.kind = "feed" /\ c.gen = feedGeneration
      <4>1. lastSeenRevision' = c.rev /\ feedShown' = c.items
        BY <1>7, <3>1 DEF RunPosted, ApplyFeed
      <4> QED
        BY <4>1, <2>1, <3>1, ClosureTyped
    <3>2. CASE ~(c.kind = "feed" /\ c.gen = feedGeneration)
      BY <1>7, <3>2 DEF RunPosted, ApplyFeed, ViewsTyped
    <3> QED
      BY <3>1, <3>2
  <2>4. /\ tuiRows' \in Seq(TuiHash) /\ selected' \in Nat \ {0}
        /\ tuiRows' # <<>> => selected' \in DOMAIN tuiRows'
    <3>1. CASE c.kind = "snapshot"
      <4>1. ApplyRows(c.hashes) /\ c.hashes \in SUBSET TuiHash
        BY <1>7, <2>1, <3>1, ClosureTyped DEF RunPosted
      <4> QED
        BY <4>1, SnapshotSorted DEF ViewsTyped
    <3>2. CASE c.kind # "snapshot"
      BY <1>7, <3>2 DEF RunPosted, ViewsTyped
    <3> QED
      BY <3>1, <3>2
  <2>5. inFlightSaves' \subseteq TuiHash
    BY <1>7 DEF RunPosted, ViewsTyped
  <2> QED
    <3>1. UNCHANGED <<generation, query, remoteSearchGeneration, remoteFilters, asked, voted, armed,
                      presses, owed, feedGeneration, feedRevision, tuiDownloads>>
      BY <1>7 DEF RunPosted
    <3> HIDE DEF c
    <3> QED
      BY <2>2, <2>3, <2>4, <2>5, <3>1 DEF ViewsTyped
<1>8. ASSUME EngineStarts \/ EngineReturns \/ HandleSigint \/ FeedChanges PROVE TuiKinds'
  <2>1. /\ UNCHANGED <<tasks, debounced, posted, searchVars, remoteVars, feedVars, rowVars>>
        /\ UNCHANGED <<voted, lastRevision, revision, tuiDownloads, inFlightSaves, owed>>
        /\ feedRevision' \in {feedRevision, feedRevision + 1}
    BY <1>8 DEF EngineStarts, EngineReturns, HandleSigint, FeedChanges
  <2> QED
    BY <2>1 DEF QueuesTyped, ViewsTyped
<1>9. ASSUME RunSearch PROVE TuiKinds'
  <2> DEFINE t == Head(debounced)
  <2>1. debounced # <<>> /\ t \in Keystroke /\ debounced' \in Seq(Keystroke)
    BY <1>9, Popped DEF RunSearch, QueuesTyped
  <2>2. t.gen \in Nat /\ t.query \in Query
    BY <2>1 DEF Keystroke
  <2>3. [kind |-> "results", gen |-> t.gen, hits |-> SearchNames(t.query)] \in TuiClosure
    BY <2>1, SearchTyped
  <2>6. /\ UNCHANGED tasks
        /\ \/ UNCHANGED posted
           \/ posted' = Append(posted, [kind |-> "results", gen |-> t.gen,
                                       hits |-> SearchNames(t.query)])
    BY <1>9 DEF RunSearch, PostUI
  <2>4. QueuesTyped'
    <3> HIDE DEF t
    <3>1. UNCHANGED posted \/ \E e \in TuiClosure : posted' = Append(posted, e)
      BY <2>3, <2>6
    <3>2. posted \in Seq(TuiClosure)
      BY DEF QueuesTyped
    <3>3. posted' \in Seq(TuiClosure)
      BY <3>1, <3>2
    <3> QED
      BY <2>1, <2>6, <3>3 DEF QueuesTyped
  <2>5. ViewsTyped' /\ feedShown' = lastSeenRevision'
    BY <1>9, <2>2 DEF RunSearch, ViewsTyped
  <2> QED
    BY <2>4, <2>5
<1>10. ASSUME NEW q \in Query, NEW h \in TuiHash, OnRemoteHit(q, h) PROVE TuiKinds'
  <2>1. [kind |-> "hit", gen |-> remoteSearchGeneration, hash |-> h] \in TuiClosure
    BY DEF TuiClosure, ViewsTyped
  <2>2. QueuesTyped'
    BY <1>10, <2>1 DEF OnRemoteHit, PostUI, QueuesTyped
  <2> QED
    BY <1>10, <2>2 DEF OnRemoteHit, ViewsTyped
<1>11. ASSUME Tick PROVE TuiKinds'
  <2>1. [kind |-> "snapshot", hashes |-> tuiDownloads] \in TuiClosure
    BY DEF TuiClosure, ViewsTyped
  <2>2. QueuesTyped'
    BY <1>11, <2>1 DEF Tick, PostUI, QueuesTyped
  <2> QED
    BY <1>11, <2>2 DEF Tick, ViewsTyped
<1>12. ASSUME RunTask PROVE TuiKinds'
  <2> DEFINE t == Head(tasks)
  <2>1. tasks # <<>> /\ t \in TuiTask /\ tasks' \in Seq(TuiTask)
    BY <1>12, Popped DEF RunTask, QueuesTyped
  <2>2. /\ t.kind # "feed" => t.hash \in TuiHash
        /\ t.kind = "feed" => t.gen \in Nat
    BY <2>1, TaskTyped
  <2>3. posted' \in Seq(TuiClosure)
    <3>1. CASE t.kind = "feed"
      <4>1. [kind |-> "feed", gen |-> t.gen, rev |-> feedRevision, items |-> feedRevision]
               \in TuiClosure
        BY <2>2, <3>1 DEF TuiClosure, ViewsTyped
      <4> QED
        <5>1. posted' = posted \/ posted' = Append(posted,
              [kind |-> "feed", gen |-> t.gen, rev |-> feedRevision, items |-> feedRevision])
          BY <1>12, <3>1 DEF RunTask, PostUI
        <5> HIDE DEF t
        <5>2. UNCHANGED posted \/ \E e \in TuiClosure : posted' = Append(posted, e)
          BY <4>1, <5>1
        <5> QED
          BY <5>2 DEF QueuesTyped
    <3>2. CASE t.kind = "written"
      <4>1. [kind |-> "saved", hash |-> t.hash] \in TuiClosure
        BY <2>2, <3>2 DEF TuiClosure
      <4> QED
        <5>1. posted' = posted \/ posted' = Append(posted, [kind |-> "saved", hash |-> t.hash])
          BY <1>12, <3>2 DEF RunTask, PostUI
        <5> HIDE DEF t
        <5>2. UNCHANGED posted \/ \E e \in TuiClosure : posted' = Append(posted, e)
          BY <4>1, <5>1
        <5> QED
          BY <5>2 DEF QueuesTyped
    <3>3. CASE t.kind = "vote"
      <4>1. [kind |-> "voted", hash |-> t.hash] \in TuiClosure
        BY <2>2, <3>3 DEF TuiClosure
      <4> QED
        <5>1. posted' = posted \/ posted' = Append(posted, [kind |-> "voted", hash |-> t.hash])
          BY <1>12, <3>3 DEF RunTask, PostUI
        <5> HIDE DEF t
        <5>2. UNCHANGED posted \/ \E e \in TuiClosure : posted' = Append(posted, e)
          BY <4>1, <5>1
        <5> QED
          BY <5>2 DEF QueuesTyped
    <3>4. CASE t.kind \notin {"feed", "written", "vote"}
      BY <1>12, <3>4 DEF RunTask, QueuesTyped
    <3> QED
      BY <3>1, <3>2, <3>3, <3>4
  <2>4. QueuesTyped'
    BY <1>12, <2>1, <2>3 DEF RunTask, QueuesTyped
  <2>5. voted' \subseteq Local /\ owed' \subseteq TuiHash
    BY <1>12, <2>2 DEF RunTask, ViewsTyped
  <2>6. tuiDownloads' \subseteq TuiHash
    <3>1. CASE t.kind = "add"
      BY <1>12, <2>2, <3>1 DEF RunTask, Registered, ViewsTyped
    <3>2. CASE t.kind \in {"remove", "delete"}
      BY <1>12, <3>2 DEF RunTask, Registered, ViewsTyped
    <3>3. CASE t.kind \notin {"add", "remove", "delete"}
      BY <1>12, <3>3 DEF RunTask, ViewsTyped
    <3> QED
      BY <3>1, <3>2, <3>3
  <2> QED
    <3>1. UNCHANGED <<searchVars, remoteVars, feedVars, rowVars, feedRevision, inFlightSaves>>
      BY <1>12 DEF RunTask
    <3> HIDE DEF t
    <3> QED
      BY <2>4, <2>5, <2>6, <3>1 DEF ViewsTyped
<1>13. ASSUME SeesItRun \/ SeesItStop \/ SeesTheUiLeave \/ StopsEngine \/ Returns PROVE TuiKinds'
  <2>1. [kind |-> "exit"] \in TuiClosure
    BY DEF TuiClosure
  <2>2. /\ UNCHANGED <<tasks, debounced>>
        /\ posted' = posted \/ posted' = Append(posted, [kind |-> "exit"])
    BY <1>13 DEF SeesItRun, SeesItStop, SeesTheUiLeave, StopsEngine, Returns, WatcherMoves, AfterLoop,
                 PostUI
  <2>5. posted \in Seq(TuiClosure)
    BY DEF QueuesTyped
  <2>6. posted' \in Seq(TuiClosure)
    BY <2>1, <2>2, <2>5
  <2>4. QueuesTyped'
    BY <2>2, <2>6 DEF QueuesTyped
  <2>3. UNCHANGED <<searchVars, remoteVars, feedVars, rowVars, pollVars, inFlightSaves, owed>>
    BY <1>13 DEF SeesItRun, SeesItStop, SeesTheUiLeave, StopsEngine, Returns, WatcherMoves, AfterLoop
  <2> QED
    BY <2>3, <2>4 DEF ViewsTyped
<1> QED
  BY <1>1, <1>2, <1>3, <1>4, <1>5, <1>6, <1>7, <1>8, <1>9, <1>10, <1>11, <1>12, <1>13 DEF TuiNext

-----------------------------------------------------------------------------
(* The Search tab. A closure on its way to the screen carries what it needs *)
(* to be told from a superseded one; the rows of peers come after those of  *)
(* the index, and so never stand in for them.                               *)

Behind == shownFor \in Nat /\ shownFor <= generation /\ remoteSearchGeneration <= generation
LatestTyped ==
    \A i \in 1..Len(debounced) :
        /\ debounced[i].gen <= generation
        /\ debounced[i].gen = generation => debounced[i].query = query

\* The hits of the present search are shown, or posted before the n-th closure.
Listed(n) ==
    \/ shownFor = generation
    \/ \E j \in 1..Len(posted) :
          j < n /\ posted[j].kind = "results" /\ posted[j].gen = generation
PeersAsked ==
    remoteSearchGeneration = generation /\ asked # {} =>
        query # NoText /\ remoteFilters = query /\ Listed(Len(posted) + 1)
OneHitEach(hits) == \A a, b \in hits : a.hash = b.hash => a = b
ResultsPosted ==
    \A i \in 1..Len(posted) : posted[i].kind = "results" =>
        /\ posted[i].gen <= generation /\ OneHitEach(posted[i].hits)
        /\ posted[i].gen = generation =>
              /\ query # NoText
              /\ \A h \in TuiHash : (\E x \in posted[i].hits : x.hash = h)
                                        <=> h \in Matches(query) \cap Local
HitsPosted ==
    \A i \in 1..Len(posted) : posted[i].kind = "hit" =>
        /\ posted[i].gen <= generation
        /\ posted[i].gen = generation =>
              query # NoText /\ (strict => posted[i].hash \in Matches(query)) /\ Listed(i)
RowsAre ==
    /\ shown \subseteq [hash : TuiHash, gen : Nat, good : 0..1]
    /\ OneSearchShown
    /\ shownFor = generation /\ query # NoText =>
          \A h \in Matches(query) \cap Local : \E r \in shown : r.hash = h
\* A vote that is counted is in the hits that are posted, or follows them.
VoteFollows(h, i) == \E j \in 1..Len(posted) : j > i /\ posted[j].kind = "voted" /\ posted[j].hash = h
VotesFollow ==
    strict =>
        /\ \A r \in shown : r.good = 0 /\ r.hash \in voted => VoteFollows(r.hash, 0)
        /\ \A i \in 1..Len(posted) : posted[i].kind = "results" =>
              \A x \in posted[i].hits : x.good = 0 /\ x.hash \in voted => VoteFollows(x.hash, i)

SearchInv ==
    /\ Behind /\ LatestTyped /\ PeersAsked /\ ResultsPosted /\ HitsPosted /\ RowsAre /\ VotesFollow

searchState == <<debounced, searchVars, remoteVars>>

LEMMA SearchInit == ASSUME TuiAssumption, TuiInit PROVE SearchInv
BY DEF TuiInit, SearchInv, Behind, LatestTyped, PeersAsked, ResultsPosted, HitsPosted, RowsAre,
       VotesFollow, OneSearchShown

(* A closure of another tab, or a vote: nothing that is posted moves.       *)
LEMMA SearchPushed ==
  ASSUME TuiKinds, SearchInv, NEW c \in TuiClosure, c.kind \notin {"results", "hit"},
         posted' = Append(posted, c), UNCHANGED searchState,
         voted' = voted \/ (c.kind = "voted" /\ voted' = voted \cup {c.hash})
  PROVE  SearchInv'
<1> USE DEF searchState, searchVars, remoteVars
<1>1. /\ Len(posted) \in Nat /\ Len(posted') = Len(posted) + 1
      /\ \A i \in 1..Len(posted) : posted'[i] = posted[i]
      /\ posted'[Len(posted')] = c
  BY DEF TuiKinds, QueuesTyped
<1>2. \A i \in 1..Len(posted') : i \in 1..Len(posted) \/ i = Len(posted')
  BY <1>1
<1>3. \A n \in Nat : Listed(n) => Listed(n)'
  BY <1>1 DEF Listed
<1>4. Listed(Len(posted) + 1) => Listed(Len(posted) + 1)'
  BY <1>1 DEF Listed
<1>5. Behind' /\ LatestTyped'
  BY DEF SearchInv, Behind, LatestTyped
<1>6. PeersAsked'
  BY <1>1, <1>4 DEF SearchInv, PeersAsked, Listed
<1>7. ResultsPosted'
  BY <1>1, <1>2 DEF SearchInv, ResultsPosted, OneHitEach, Matches
<1>8. HitsPosted'
  BY <1>1, <1>2, <1>3 DEF SearchInv, HitsPosted, Matches
<1>9. RowsAre'
  BY DEF SearchInv, RowsAre, OneSearchShown, Matches
<1>10. \A h, i : VoteFollows(h, i) => VoteFollows(h, i)'
  BY <1>1 DEF VoteFollows
<1>11. \A i \in 0..Len(posted) : \A h : h \in voted' /\ h \notin voted => VoteFollows(h, i)'
  BY <1>1 DEF VoteFollows
<1>12. VotesFollow'
  BY <1>1, <1>2, <1>10, <1>11 DEF SearchInv, VotesFollow
<1> QED
  BY <1>5, <1>6, <1>7, <1>8, <1>9, <1>12 DEF SearchInv

LEMMA SearchTriggered ==
  ASSUME TuiAssumption, TuiKinds, SearchInv, NEW q \in Query \cup {NoText}, TriggerSearch(q)
  PROVE  SearchInv'
<1> USE DEF searchVars, remoteVars, pollVars
<1>1. /\ generation' = generation + 1 /\ query' = q /\ generation \in Nat
      /\ UNCHANGED <<posted, remoteSearchGeneration, remoteFilters, asked, voted>>
      /\ shownFor \in Nat /\ shownFor <= generation /\ remoteSearchGeneration <= generation
      /\ remoteSearchGeneration \in Nat
  BY DEF TriggerSearch, TuiKinds, ViewsTyped, SearchInv, Behind
<1>a. \A i \in 1..Len(debounced) : debounced[i].gen \in Nat /\ debounced[i].gen <= generation
  <2>1. \A i \in 1..Len(debounced) : debounced[i] \in Keystroke
    BY DEF TuiKinds, QueuesTyped
  <2> QED
    BY <2>1 DEF Keystroke, SearchInv, LatestTyped
<1>b. \A i \in 1..Len(posted) : posted[i].kind \in {"results", "hit"} =>
          posted[i].gen \in Nat /\ posted[i].gen <= generation
  <2>1. \A i \in 1..Len(posted) : posted[i] \in TuiClosure
    BY DEF TuiKinds, QueuesTyped
  <2> QED
    BY <2>1, ClosureTyped DEF SearchInv, ResultsPosted, HitsPosted
<1>2. CASE q = NoText
  <2>1. shown' = {} /\ shownFor' = generation' /\ UNCHANGED debounced
    BY <1>2 DEF TriggerSearch, SetResults, tuiLoopVars
  <2>2. Behind' /\ LatestTyped' /\ PeersAsked'
    BY <1>1, <1>a, <2>1 DEF Behind, LatestTyped, PeersAsked
  <2>3. ResultsPosted' /\ HitsPosted'
    BY <1>1, <1>b, <2>1 DEF SearchInv, ResultsPosted, HitsPosted, OneHitEach
  <2>4. RowsAre' /\ VotesFollow'
    BY <1>1, <1>2, <2>1 DEF SearchInv, RowsAre, VotesFollow, OneSearchShown, VoteFollows
  <2> QED
    BY <2>2, <2>3, <2>4 DEF SearchInv
<1>3. CASE q # NoText
  <2> DEFINE k == [kind |-> "search", gen |-> generation + 1, query |-> q]
  <2>1. UNCHANGED <<shown, shownFor>> /\ debounced' = Append(debounced, k)
    BY <1>1, <1>3 DEF TriggerSearch
  <2>2. /\ Len(debounced) \in Nat /\ Len(debounced') = Len(debounced) + 1
        /\ \A i \in 1..Len(debounced) : debounced'[i] = debounced[i]
        /\ debounced'[Len(debounced')] = k
        /\ \A i \in 1..Len(debounced') : i \in 1..Len(debounced) \/ i = Len(debounced')
    <3> HIDE DEF k
    <3>1. Len(debounced) \in Nat /\ debounced \in Seq(Keystroke)
      BY DEF TuiKinds, QueuesTyped
    <3> QED
      BY <2>1, <3>1
  <2>8. k.gen = generation' /\ k.query = query'
    BY <1>1
  <2> HIDE DEF k
  <2>3. LatestTyped'
    BY <1>1, <1>a, <2>2, <2>8 DEF LatestTyped
  <2>4. Behind' /\ PeersAsked'
    BY <1>1, <2>1 DEF SearchInv, Behind, PeersAsked, TuiKinds, ViewsTyped
  <2>5. ResultsPosted' /\ HitsPosted'
    BY <1>1, <1>b, <2>1 DEF SearchInv, ResultsPosted, HitsPosted, OneHitEach
  <2>6. RowsAre'
    BY <1>1, <1>3, <2>1 DEF SearchInv, Behind, RowsAre, OneSearchShown
  <2>7. VotesFollow'
    BY <1>1, <2>1 DEF SearchInv, VotesFollow, VoteFollows
  <2> QED
    BY <2>3, <2>4, <2>5, <2>6, <2>7 DEF SearchInv
<1> QED
  BY <1>2, <1>3

LEMMA SearchRuns ==
  ASSUME TuiAssumption, TuiKinds, SearchInv, RunSearch
  PROVE  SearchInv'
<1> USE DEF searchVars, remoteVars, pollVars
<1> DEFINE t == Head(debounced)
<1>1. /\ debounced # <<>> /\ t \in Keystroke /\ t = debounced[1]
      /\ Len(debounced) \in Nat /\ Len(debounced') = Len(debounced) - 1
      /\ \A i \in 1..Len(debounced') : debounced'[i] = debounced[i + 1]
      /\ UNCHANGED <<searchVars, voted>>
      /\ t.gen \in Nat /\ t.query \in Query /\ generation \in Nat
  <2>1. debounced \in Seq(Keystroke) /\ debounced # <<>> /\ debounced' = Tail(debounced)
    BY DEF RunSearch, TuiKinds, QueuesTyped
  <2>2. t \in Keystroke /\ t = debounced[1]
    BY <2>1
  <2>3. t.gen \in Nat /\ t.query \in Query
    BY <2>2 DEF Keystroke
  <2>4. UNCHANGED <<searchVars, voted>> /\ generation \in Nat
    BY DEF RunSearch, TuiKinds, ViewsTyped
  <2> HIDE DEF t
  <2> QED
    BY <2>1, <2>2, <2>3, <2>4
<1>2. LatestTyped'
  BY <1>1 DEF SearchInv, LatestTyped
<1>3. CASE t.gen # generation
  <2>1. UNCHANGED <<posted, remoteVars>>
    BY <1>3 DEF RunSearch
  <2>2. Behind' /\ PeersAsked' /\ ResultsPosted' /\ HitsPosted' /\ RowsAre'
    BY <1>1, <2>1 DEF SearchInv, Behind, PeersAsked, Listed, ResultsPosted, OneHitEach, HitsPosted,
                      RowsAre, OneSearchShown
  <2>3. VotesFollow'
    BY <1>1, <2>1 DEF SearchInv, VotesFollow, VoteFollows
  <2> QED
    BY <1>2, <2>2, <2>3 DEF SearchInv
<1>4. CASE t.gen = generation
  <2> DEFINE c == [kind |-> "results", gen |-> t.gen, hits |-> SearchNames(t.query)]
  <2>1. /\ posted' = Append(posted, c) /\ remoteSearchGeneration' = t.gen
        /\ remoteFilters' = t.query /\ asked' = asked \cup {t.query}
    BY <1>4 DEF RunSearch, PostUI
  <2>2. t.query = query /\ query # NoText
    <3>1. Len(debounced) > 0
      BY <1>1, EmptySeq DEF TuiKinds, QueuesTyped
    <3> QED
      BY <1>1, <1>4, <3>1 DEF SearchInv, LatestTyped, TuiAssumption
  <2>3. /\ Len(posted) \in Nat /\ Len(posted') = Len(posted) + 1
        /\ \A i \in 1..Len(posted) : posted'[i] = posted[i]
        /\ posted'[Len(posted')] = c
        /\ \A i \in 1..Len(posted') : i \in 1..Len(posted) \/ i = Len(posted')
    <3> HIDE DEF c
    <3>1. Len(posted) \in Nat /\ posted \in Seq(TuiClosure)
      BY DEF TuiKinds, QueuesTyped
    <3> QED
      BY <2>1, <3>1
  <2>4. c.kind = "results" /\ c.gen = generation /\ c.hits = SearchNames(query)
    BY <1>4, <2>2
  <2> HIDE DEF c, t
  <2>5. \A n \in Nat : Listed(n) => Listed(n)'
    BY <1>1, <2>3 DEF Listed
  <2>6. Listed(Len(posted) + 1)'
    BY <1>1, <2>3, <2>4 DEF Listed
  <2>7. Behind' /\ PeersAsked'
    BY <1>1, <1>4, <2>1, <2>2, <2>6 DEF SearchInv, Behind, PeersAsked
  <2>8. OneHitEach(c.hits) /\ \A h \in TuiHash : (\E x \in c.hits : x.hash = h)
                                        <=> h \in Matches(query) \cap Local
    <3>1. OneHitEach(SearchNames(query))
      BY DEF SearchNames, OneHitEach
    <3>2. ASSUME NEW h \in TuiHash
          PROVE  (\E x \in SearchNames(query) : x.hash = h) <=> h \in Matches(query) \cap Local
      <4> DEFINE hit == [hash |-> h, good |-> IF h \in voted THEN 1 ELSE 0]
      <4>1. ASSUME h \in Matches(query) \cap Local PROVE hit \in SearchNames(query) /\ hit.hash = h
        BY <4>1 DEF SearchNames
      <4>2. \A x \in SearchNames(query) : x.hash \in Matches(query) \cap Local
        BY DEF SearchNames
      <4> HIDE DEF hit
      <4> QED
        BY <4>1, <4>2
    <3> QED
      BY <2>4, <3>1, <3>2
  <2>9. ResultsPosted'
    BY <1>1, <2>2, <2>3, <2>4, <2>8 DEF SearchInv, ResultsPosted, OneHitEach, Matches
  <2>10. HitsPosted'
    BY <1>1, <2>3, <2>4, <2>5 DEF SearchInv, HitsPosted, Matches
  <2>11. RowsAre'
    BY <1>1 DEF SearchInv, RowsAre, OneSearchShown, Matches
  <2>12. \A h, i : VoteFollows(h, i) => VoteFollows(h, i)'
    BY <2>3 DEF VoteFollows
  <2>13. \A x \in c.hits : x.good = 0 => x.hash \notin voted
    BY <2>4 DEF SearchNames
  <2>14. VotesFollow'
    BY <1>1, <2>3, <2>12, <2>13 DEF SearchInv, VotesFollow
  <2> QED
    BY <1>2, <2>7, <2>9, <2>10, <2>11, <2>14 DEF SearchInv
<1> QED
  BY <1>3, <1>4

LEMMA RemoteHitKept ==
  ASSUME TuiAssumption, TuiKinds, SearchInv, NEW q \in Query, NEW h \in TuiHash, OnRemoteHit(q, h)
  PROVE  SearchInv'
<1> USE DEF searchVars, remoteVars, pollVars, tuiLoopVars
<1> DEFINE c == [kind |-> "hit", gen |-> remoteSearchGeneration, hash |-> h]
<1>1. /\ posted' = Append(posted, c) /\ UNCHANGED <<debounced, searchVars, remoteVars, voted>>
      /\ remoteSearchGeneration = generation /\ asked # {}
      /\ strict => h \in Matches(remoteFilters)
  BY DEF OnRemoteHit, PostUI, PassesStrictTokenCheck
<1>2. /\ Len(posted) \in Nat /\ Len(posted') = Len(posted) + 1
      /\ \A i \in 1..Len(posted) : posted'[i] = posted[i]
      /\ posted'[Len(posted')] = c
      /\ \A i \in 1..Len(posted') : i \in 1..Len(posted) \/ i = Len(posted')
  <2> HIDE DEF c
  <2>1. Len(posted) \in Nat /\ posted \in Seq(TuiClosure)
    BY DEF TuiKinds, QueuesTyped
  <2> QED
    BY <1>1, <2>1
<1>3. c.kind = "hit" /\ c.gen = generation /\ c.hash = h /\ generation \in Nat
  BY <1>1 DEF TuiKinds, ViewsTyped
<1> HIDE DEF c
<1>4. query # NoText /\ remoteFilters = query /\ Listed(Len(posted) + 1)
  BY <1>1 DEF SearchInv, PeersAsked
<1>5. \A n \in Nat : Listed(n) => Listed(n)'
  BY <1>1, <1>2 DEF Listed
<1>6. Listed(Len(posted) + 1) => Listed(Len(posted) + 1)'
  BY <1>1, <1>2 DEF Listed
<1>7. Behind' /\ LatestTyped' /\ PeersAsked'
  BY <1>1, <1>4, <1>6 DEF SearchInv, Behind, LatestTyped, PeersAsked
<1>8. ResultsPosted'
  BY <1>1, <1>2, <1>3 DEF SearchInv, ResultsPosted, OneHitEach, Matches
<1>9. HitsPosted'
  BY <1>1, <1>2, <1>3, <1>4, <1>5 DEF SearchInv, HitsPosted, Matches
<1>10. RowsAre'
  BY <1>1 DEF SearchInv, RowsAre, OneSearchShown, Matches
<1>11. \A g, i : VoteFollows(g, i) => VoteFollows(g, i)'
  BY <1>2 DEF VoteFollows
<1>12. VotesFollow'
  BY <1>1, <1>2, <1>3, <1>11 DEF SearchInv, VotesFollow
<1> QED
  BY <1>7, <1>8, <1>9, <1>10, <1>12 DEF SearchInv

(* The screen runs the closure that waits longest.                          *)
LEMMA SearchShown ==
  ASSUME TuiAssumption, TuiKinds, SearchInv, RunPosted
  PROVE  SearchInv'
<1> USE DEF searchVars, remoteVars, pollVars, tuiLoopVars
<1> DEFINE c == Head(posted)
<1>1. /\ c \in TuiClosure /\ c = posted[1] /\ Len(posted) \in Nat \ {0}
      /\ Len(posted') = Len(posted) - 1
      /\ \A i \in 1..Len(posted') : posted'[i] = posted[i + 1]
  <2>1. posted \in Seq(TuiClosure) /\ posted # <<>> /\ posted' = Tail(posted)
    BY DEF RunPosted, TuiKinds, QueuesTyped
  <2> QED
    BY <2>1
<1>2. /\ UNCHANGED <<generation, query, remoteVars, voted, debounced>>
      /\ generation \in Nat /\ voted \subseteq Local /\ query \in Query \cup {NoText}
  BY DEF RunPosted, TuiKinds, ViewsTyped
<1>3. /\ c.kind = "results" /\ c.gen = generation => SetResults(c.gen, c.hits)
      /\ c.kind = "hit" => AppendHit(c.hash, c.gen)
      /\ c.kind = "voted" => UpdateSelectedVotes(c.hash)
      /\ ~(c.kind = "results" /\ c.gen = generation) /\ c.kind \notin {"hit", "voted"} =>
            UNCHANGED <<shown, shownFor>>
  BY DEF RunPosted, ApplyResults
<1> HIDE DEF c
<1>4. /\ c.kind = "results" /\ c.gen = generation => shownFor' = generation
      /\ ~(c.kind = "results" /\ c.gen = generation) => shownFor' = shownFor
  BY <1>3 DEF SetResults, AppendHit, UpdateSelectedVotes
<1>5. ASSUME NEW n \in Nat \ {0}, Listed(n + 1) PROVE Listed(n)'
  <2>1. CASE shownFor = generation
    BY <1>2, <1>4, <2>1 DEF Listed
  <2>2. ASSUME NEW j \in 1..Len(posted), j < n + 1, posted[j].kind = "results",
               posted[j].gen = generation
        PROVE  Listed(n)'
    <3>1. CASE j = 1
      BY <1>1, <1>2, <1>4, <2>2, <3>1 DEF Listed
    <3>2. CASE j # 1
      <4>1. j - 1 \in 1..Len(posted') /\ posted'[j - 1] = posted[j] /\ j - 1 < n
        BY <1>1, <2>2, <3>2
      <4> QED
        BY <1>2, <2>2, <4>1 DEF Listed
    <3> QED
      BY <3>1, <3>2
  <2> QED
    BY <1>5, <2>1, <2>2 DEF Listed
<1>6. Behind' /\ LatestTyped'
  BY <1>2, <1>4 DEF SearchInv, Behind, LatestTyped
<1>7. PeersAsked'
  <2>1. Len(posted) \in Nat \ {0} /\ Len(posted') + 1 = Len(posted)
    BY <1>1
  <2>2. Listed(Len(posted) + 1) => Listed(Len(posted) + 1)'
    BY <1>5, <2>1 DEF Listed
  <2> QED
    BY <1>2, <2>2 DEF SearchInv, PeersAsked
<1>8. \A i \in 1..Len(posted') : i + 1 \in 1..Len(posted) /\ posted'[i] = posted[i + 1]
  BY <1>1
<1>9. ResultsPosted'
  BY <1>2, <1>8 DEF SearchInv, ResultsPosted, OneHitEach, Matches
<1>10. HitsPosted'
  BY <1>2, <1>5, <1>8 DEF SearchInv, HitsPosted, Matches
<1>11. ASSUME NEW h, NEW i \in Nat, VoteFollows(h, i + 1) PROVE VoteFollows(h, i)'
  <2>1. PICK j \in 1..Len(posted) : j > i + 1 /\ posted[j].kind = "voted" /\ posted[j].hash = h
    BY <1>11 DEF VoteFollows
  <2>2. j - 1 \in 1..Len(posted') /\ posted'[j - 1] = posted[j] /\ j - 1 > i
    BY <1>1, <2>1
  <2> QED
    BY <2>1, <2>2 DEF VoteFollows
<1>12. ASSUME NEW h, VoteFollows(h, 0), ~(c.kind = "voted" /\ c.hash = h) PROVE VoteFollows(h, 0)'
  <2>1. PICK j \in 1..Len(posted) : posted[j].kind = "voted" /\ posted[j].hash = h
    BY <1>12 DEF VoteFollows
  <2>2. j - 1 \in 1..Len(posted') /\ posted'[j - 1] = posted[j] /\ j - 1 > 0
    BY <1>1, <1>12, <2>1
  <2> QED
    BY <2>1, <2>2 DEF VoteFollows
<1>13. strict => \A i \in 1..Len(posted') : posted'[i].kind = "results" =>
          \A x \in posted'[i].hits : x.good = 0 /\ x.hash \in voted' => VoteFollows(x.hash, i)'
  BY <1>2, <1>8, <1>11 DEF SearchInv, VotesFollow
<1> DEFINE RowsFollowed ==
      strict => \A r \in shown' : r.good = 0 /\ r.hash \in voted' => VoteFollows(r.hash, 0)'
<1> SUFFICES RowsAre' /\ RowsFollowed
  BY <1>6, <1>7, <1>9, <1>10, <1>13 DEF SearchInv, VotesFollow
<1>14. CASE c.kind = "results" /\ c.gen = generation
  <2>1. /\ c.hits \in SUBSET [hash : TuiHash, good : 0..1] /\ OneHitEach(c.hits)
        /\ query # NoText
        /\ \A h \in TuiHash : (\E x \in c.hits : x.hash = h) <=> h \in Matches(query) \cap Local
    BY <1>1, <1>14, ClosureTyped DEF SearchInv, ResultsPosted
  <2>2. /\ shown' = {ResultRow(x.hash, generation, x.good) : x \in c.hits}
        /\ shownFor' = generation
    BY <1>3, <1>14 DEF SetResults
  <2>3. \A r \in shown' : \E x \in c.hits :
            r = [hash |-> x.hash, gen |-> generation, good |-> x.good]
    BY <2>2 DEF ResultRow
  <2>4. shown' \subseteq [hash : TuiHash, gen : Nat, good : 0..1]
    BY <1>2, <2>1, <2>3
  <2>5. \A r1, r2 \in shown' : r1.hash = r2.hash => r1 = r2
    BY <2>1, <2>3 DEF OneHitEach
  <2>6. \A r \in shown' : r.gen = generation /\ r.hash \in Matches(query)
    <3>1. \A x \in c.hits : x.hash \in TuiHash /\ x.hash \in Matches(query)
      BY <2>1
    <3> QED
      BY <2>3, <3>1
  <2>7. ASSUME NEW h \in Matches(query) \cap Local PROVE \E r \in shown' : r.hash = h
    <3>1. h \in TuiHash
      BY <2>7 DEF TuiAssumption
    <3>2. PICK x \in c.hits : x.hash = h
      BY <2>1, <3>1
    <3>3. ResultRow(h, generation, x.good) \in shown'
      BY <2>2, <3>2
    <3>4. ResultRow(h, generation, x.good).hash = h
      BY DEF ResultRow
    <3> QED
      BY <3>3, <3>4
  <2>8. RowsAre'
    BY <1>2, <2>1, <2>2, <2>4, <2>5, <2>6, <2>7 DEF RowsAre, OneSearchShown, Matches
  <2>9. RowsFollowed
    <3>1. strict => \A x \in c.hits : x.good = 0 /\ x.hash \in voted => VoteFollows(x.hash, 1)
      BY <1>1, <1>14 DEF SearchInv, VotesFollow
    <3>2. \A h : VoteFollows(h, 1) => VoteFollows(h, 0)'
      BY <1>11
    <3> QED
      BY <1>2, <2>3, <3>1, <3>2
  <2> QED
    BY <2>8, <2>9
<1>15. CASE c.kind = "hit"
  <2>1. CASE UNCHANGED <<shown, shownFor>>
    <3>1. RowsAre'
      BY <1>2, <2>1 DEF SearchInv, RowsAre, OneSearchShown, Matches
    <3> QED
      BY <1>2, <1>12, <1>15, <2>1, <3>1 DEF SearchInv, VotesFollow
  <2>2. CASE ~UNCHANGED <<shown, shownFor>>
    <3>1. /\ c.gen = generation /\ ~\E row \in shown : row.hash = c.hash
          /\ shown' = shown \cup {ResultRow(c.hash, generation, 0)} /\ shownFor' = shownFor
      BY <1>3, <1>15, <2>2 DEF AppendHit
    <3>2. /\ c.hash \in TuiHash /\ query # NoText /\ (strict => c.hash \in Matches(query))
          /\ shownFor = generation
      BY <1>1, <1>15, <3>1, ClosureTyped DEF SearchInv, HitsPosted, Listed
    <3>3. strict => c.hash \notin voted
      BY <1>2, <3>1, <3>2 DEF SearchInv, RowsAre
    <3> DEFINE row == ResultRow(c.hash, generation, 0)
    <3>4. row \in [hash : TuiHash, gen : Nat, good : 0..1] /\ row.hash = c.hash /\ row.gen = generation
      BY <1>2, <3>2 DEF ResultRow
    <3> HIDE DEF row
    <3>5. \A r \in shown' : r \in shown \/ r = row
      BY <3>1 DEF row
    <3>6. RowsAre'
      BY <1>2, <3>1, <3>2, <3>4, <3>5 DEF SearchInv, RowsAre, OneSearchShown, Matches
    <3>7. RowsFollowed
      BY <1>2, <1>12, <1>15, <3>3, <3>4, <3>5 DEF SearchInv, VotesFollow
    <3> QED
      BY <3>6, <3>7
  <2> QED
    BY <2>1, <2>2
<1>16. CASE c.kind = "voted"
  <2>1. /\ shown' = {IF r.hash = c.hash THEN [r EXCEPT !.good = 1] ELSE r : r \in shown}
        /\ shownFor' = shownFor
    BY <1>3, <1>16 DEF UpdateSelectedVotes
  <2>2. shown \subseteq [hash : TuiHash, gen : Nat, good : 0..1]
    BY DEF SearchInv, RowsAre
  <2>3. ASSUME NEW s \in shown'
        PROVE  \E r \in shown : /\ s.hash = r.hash /\ s.gen = r.gen
                               /\ s \in [hash : TuiHash, gen : Nat, good : 0..1]
                               /\ s = IF r.hash = c.hash THEN [r EXCEPT !.good = 1] ELSE r
    <3>1. PICK r \in shown : s = IF r.hash = c.hash THEN [r EXCEPT !.good = 1] ELSE r
      BY <2>1
    <3>2. r \in [hash : TuiHash, gen : Nat, good : 0..1]
      BY <2>2
    <3> QED
      BY <3>1, <3>2
  <2>4. ASSUME NEW r \in shown PROVE \E s \in shown' : s.hash = r.hash
    <3>1. (IF r.hash = c.hash THEN [r EXCEPT !.good = 1] ELSE r) \in shown'
      BY <2>1
    <3>2. (IF r.hash = c.hash THEN [r EXCEPT !.good = 1] ELSE r).hash = r.hash
      BY <2>2
    <3> QED
      BY <3>1, <3>2
  <2>5. \A s1, s2 \in shown' : s1.hash = s2.hash => s1 = s2
    BY <2>3 DEF SearchInv, RowsAre, OneSearchShown
  <2>6. RowsAre'
    <3>1. shown' \subseteq [hash : TuiHash, gen : Nat, good : 0..1]
      BY <2>3
    <3>2. \A s \in shown' : s.gen = shownFor
      BY <2>3 DEF SearchInv, RowsAre, OneSearchShown
    <3>3. query = NoText => shown' = {}
      BY <2>1 DEF SearchInv, RowsAre, OneSearchShown
    <3>4. strict /\ shownFor = generation => \A s \in shown' : s.hash \in Matches(query)
      BY <2>3 DEF SearchInv, RowsAre, OneSearchShown
    <3>5. shownFor = generation /\ query # NoText =>
             \A h \in Matches(query) \cap Local : \E s \in shown' : s.hash = h
      BY <2>4 DEF SearchInv, RowsAre
    <3> QED
      BY <1>2, <2>1, <2>5, <3>1, <3>2, <3>3, <3>4, <3>5 DEF RowsAre, OneSearchShown, Matches
  <2>7. RowsFollowed
    <3>1. SUFFICES ASSUME strict, NEW s \in shown', s.good = 0, s.hash \in voted
                   PROVE  VoteFollows(s.hash, 0)'
      BY <1>2
    <3>2. PICK r \in shown : s = IF r.hash = c.hash THEN [r EXCEPT !.good = 1] ELSE r
      BY <2>1
    <3>3. r \in [hash : TuiHash, gen : Nat, good : 0..1]
      BY <2>2
    <3>4. r.hash # c.hash /\ s = r
      BY <3>1, <3>2, <3>3
    <3> QED
      BY <1>12, <3>1, <3>4 DEF SearchInv, VotesFollow
  <2> QED
    BY <2>6, <2>7
<1>17. CASE ~(c.kind = "results" /\ c.gen = generation) /\ c.kind \notin {"hit", "voted"}
  <2>1. UNCHANGED <<shown, shownFor>>
    BY <1>3, <1>17
  <2>2. RowsAre'
    BY <1>2, <2>1 DEF SearchInv, RowsAre, OneSearchShown, Matches
  <2> QED
    BY <1>2, <1>12, <1>17, <2>1, <2>2 DEF SearchInv, VotesFollow
<1> QED
  BY <1>14, <1>15, <1>16, <1>17

(* Every step of the interface keeps what is shown right.                   *)
LEMMA SearchStays ==
  ASSUME SearchInv, UNCHANGED <<posted, searchState, voted>>
  PROVE  SearchInv'
<1> USE DEF searchState, searchVars, remoteVars
<1>1. Behind' /\ LatestTyped' /\ PeersAsked' /\ ResultsPosted' /\ HitsPosted' /\ RowsAre'
  BY DEF SearchInv, Behind, LatestTyped, PeersAsked, Listed, ResultsPosted, OneHitEach, HitsPosted,
         RowsAre, OneSearchShown, Matches
<1>2. VotesFollow'
  BY DEF SearchInv, VotesFollow, VoteFollows
<1> QED
  BY <1>1, <1>2 DEF SearchInv

LEMMA SearchKept == ASSUME TuiAssumption, TuiKinds, SearchInv, TuiNext PROVE SearchInv'
<1>1. ASSUME OnActivated \/ (\E h \in TuiHash : \/ HandleSaveTorrent(h) \/ HandleDownload(h)
                                              \/ HandleVote(h) \/ FetchAnswered(h))
      PROVE  SearchInv'
  <2>1. UNCHANGED <<posted, searchState, voted>>
    BY <1>1 DEF OnActivated, HandleSaveTorrent, HandleDownload, HandleVote, FetchAnswered, Reload, Ask,
                searchState, pollVars
  <2> QED
    BY <2>1, SearchStays
<1>2. ASSUME (\E i \in DOMAIN tuiRows : Select(i)) \/ (\E k \in {"x", "X"} : HandleKey(k))
             \/ WindowElapses \/ Quit
      PROVE  SearchInv'
  <2>1. UNCHANGED <<posted, searchState, voted>>
    BY <1>2 DEF Select, HandleKey, WindowElapses, Quit, Ask, searchState, pollVars, tuiLoopVars
  <2> QED
    BY <2>1, SearchStays
<1>3. ASSUME EngineStarts \/ EngineReturns \/ HandleSigint \/ FeedChanges \/ SeesItRun
             \/ SeesTheUiLeave \/ StopsEngine \/ Returns
      PROVE  SearchInv'
  <2>1. UNCHANGED <<posted, searchState, voted>>
    BY <1>3 DEF EngineStarts, EngineReturns, HandleSigint, FeedChanges, SeesItRun, SeesTheUiLeave,
                StopsEngine, Returns, WatcherMoves, AfterLoop, searchState, pollVars, tuiLoopVars
  <2> QED
    BY <2>1, SearchStays
<1>4. ASSUME Tick \/ SeesItStop PROVE SearchInv'
  <2>1. PICK c \in TuiClosure : /\ posted' = Append(posted, c) /\ c.kind \notin {"results", "hit"}
                               /\ UNCHANGED <<searchState, voted>>
    <3>1. CASE Tick
      <4>1. [kind |-> "snapshot", hashes |-> tuiDownloads] \in TuiClosure
        BY DEF TuiClosure, TuiKinds, ViewsTyped
      <4> QED
        BY <3>1, <4>1 DEF Tick, PostUI, searchState, tuiLoopVars
    <3>2. CASE SeesItStop
      <4>1. [kind |-> "exit"] \in TuiClosure
        BY DEF TuiClosure
      <4> QED
        BY <3>2, <4>1 DEF SeesItStop, WatcherMoves, PostUI, searchState, tuiLoopVars, pollVars
    <3> QED
      BY <1>4, <3>1, <3>2
  <2> QED
    BY <2>1, SearchPushed
<1>5. ASSUME RunTask PROVE SearchInv'
  <2> DEFINE t == Head(tasks)
  <2>1. t \in TuiTask /\ UNCHANGED searchState
    <3>1. tasks \in Seq(TuiTask) /\ tasks # <<>>
      BY <1>5 DEF RunTask, TuiKinds, QueuesTyped
    <3> QED
      BY <1>5, <3>1 DEF RunTask, searchState
  <2>2. CASE t.kind = "feed"
    <3>1. voted' = voted /\ (\/ posted' = posted
                            \/ posted' = Append(posted, [kind |-> "feed", gen |-> t.gen,
                                              rev |-> feedRevision, items |-> feedRevision]))
      BY <1>5, <2>2 DEF RunTask, PostUI
    <3>2. [kind |-> "feed", gen |-> t.gen, rev |-> feedRevision, items |-> feedRevision] \in TuiClosure
      BY <2>1, <2>2, TaskTyped DEF TuiClosure, TuiKinds, ViewsTyped
    <3> HIDE DEF t
    <3> QED
      BY <2>1, <3>1, <3>2, SearchStays, SearchPushed
  <2>3. CASE t.kind = "written"
    <3>1. voted' = voted /\ posted' = Append(posted, [kind |-> "saved", hash |-> t.hash])
      BY <1>5, <2>3 DEF RunTask, PostUI
    <3>2. [kind |-> "saved", hash |-> t.hash] \in TuiClosure
      BY <2>1, <2>3, TaskTyped DEF TuiClosure
    <3> HIDE DEF t
    <3> QED
      BY <2>1, <3>1, <3>2, SearchPushed
  <2>4. CASE t.kind = "vote" /\ t.hash \in Local
    <3>1. /\ posted' = Append(posted, [kind |-> "voted", hash |-> t.hash])
          /\ voted' = voted \cup {t.hash}
      BY <1>5, <2>4 DEF RunTask, PostUI
    <3>2. [kind |-> "voted", hash |-> t.hash] \in TuiClosure
      BY <2>1, <2>4, TaskTyped DEF TuiClosure
    <3> HIDE DEF t
    <3> QED
      BY <2>1, <3>1, <3>2, SearchPushed
  <2>5. CASE t.kind = "vote" /\ t.hash \notin Local
    <3>1. posted' = posted /\ voted' = voted
      BY <1>5, <2>5 DEF RunTask
    <3> QED
      BY <2>1, <3>1, SearchStays
  <2>6. CASE t.kind \notin {"feed", "written", "vote"}
    <3>1. posted' = posted /\ voted' = voted
      BY <1>5, <2>6 DEF RunTask
    <3> QED
      BY <2>1, <3>1, SearchStays
  <2> QED
    BY <2>2, <2>3, <2>4, <2>5, <2>6
<1> QED
  BY <1>1, <1>2, <1>3, <1>4, <1>5, SearchTriggered, SearchRuns, RemoteHitKept, SearchShown DEF TuiNext

-----------------------------------------------------------------------------
(* The Downloads tab, the threads                                           *)

RowsInv ==
    /\ lastRevision \in Nat /\ revision \in Nat /\ lastRevision <= revision /\ RowsFollow
DeleteInv == (armed # None => presses[armed] >= 1) /\ DeletedTwiceAsked
ThreadsInv ==
    /\ tuiLooping \in {"starting", "running", "returned"} /\ ui \in {"loop", "left", "stopping", "gone"}
    /\ watcher \in {"waiting", "watching", "returned"}
    /\ ui \in {"stopping", "gone"} => watcher = "returned"
    /\ ui = "gone" => tuiLooping = "returned"

LEMMA RowsInit == ASSUME TuiAssumption, TuiInit PROVE RowsInv /\ DeleteInv /\ ThreadsInv
<1>1. Range(<<>>) = {}
  BY DEF Range
<1>2. Snapshots = {}
  BY DEF TuiInit, Snapshots
<1>3. RowsInv
  <2>1. /\ tuiRows = <<>> /\ lastRevision = 0
        /\ revision = (IF tuiDownloads = {} THEN 0 ELSE 1)
    BY DEF TuiInit
  <2>2. Range(tuiRows) = {}
    BY <1>1, <2>1
  <2>3. revision = lastRevision => tuiDownloads = {}
    BY <2>1
  <2>4. RowsFollow
    BY <1>2, <2>2, <2>3 DEF RowsFollow
  <2> QED
    BY <2>1, <2>4 DEF RowsInv
<1>4. DeleteInv /\ ThreadsInv
  BY DEF TuiInit, DeleteInv, DeletedTwiceAsked, ThreadsInv
<1> QED
  BY <1>3, <1>4

(* A closure that is no snapshot changes nothing of what the tab will show.  *)
LEMMA RowsPushed ==
  ASSUME TuiKinds, RowsInv, NEW c \in TuiClosure, c.kind # "snapshot",
         posted' = posted \/ posted' = Append(posted, c),
         UNCHANGED <<tuiRows, lastRevision>>,
         (revision' = revision /\ tuiDownloads' = tuiDownloads) \/ revision' = revision + 1
  PROVE  RowsInv'
<1>1. /\ DOMAIN posted = 1..Len(posted) /\ Len(posted) \in Nat
      /\ Snapshots' = Snapshots /\ \A i \in Snapshots : posted'[i] = posted[i]
  <2>1. posted \in Seq(TuiClosure)
    BY DEF TuiKinds, QueuesTyped
  <2>2. CASE posted' = posted
    BY <2>1, <2>2 DEF Snapshots
  <2>3. CASE posted' = Append(posted, c)
    <3>1. /\ DOMAIN posted = 1..Len(posted) /\ DOMAIN posted' = 1..(Len(posted) + 1)
          /\ Len(posted) \in Nat /\ posted'[Len(posted) + 1] = c
          /\ \A i \in 1..Len(posted) : posted'[i] = posted[i]
      BY <2>1, <2>3
    <3>2. \A i \in DOMAIN posted' : i \in DOMAIN posted \/ i = Len(posted) + 1
      BY <3>1
    <3>3. Snapshots' = Snapshots
      BY <3>1, <3>2 DEF Snapshots
    <3> QED
      BY <3>1, <3>3 DEF Snapshots
  <2> QED
    BY <2>2, <2>3
<1> QED
  BY <1>1 DEF RowsInv, RowsFollow

LEMMA RowsKept == ASSUME TuiAssumption, TuiKinds, RowsInv, TuiNext PROVE RowsInv'
<1> USE DEF tuiLoopVars, appVars, rowVars, pollVars
<1>0. /\ [kind |-> "exit"] \in TuiClosure
      /\ \A c \in TuiClosure : c.kind \in {"results", "hit", "voted", "saved", "feed", "snapshot", "exit"}
  BY ClosureTyped DEF TuiClosure
<1>e. [kind |-> "exit"].kind # "snapshot"
  OBVIOUS
<1>1. ASSUME \/ \E q \in Query \cup {NoText} : TriggerSearch(q)
             \/ OnActivated
             \/ \E h \in TuiHash : \/ HandleSaveTorrent(h) \/ HandleDownload(h) \/ HandleVote(h)
                                   \/ FetchAnswered(h)
             \/ \E i \in DOMAIN tuiRows : Select(i)
             \/ \E k \in {"x", "X"} : HandleKey(k)
      PROVE  RowsInv'
  <2>1. UNCHANGED <<posted, tuiRows, lastRevision, revision, tuiDownloads>>
    BY <1>1 DEF TriggerSearch, OnActivated, HandleSaveTorrent, HandleDownload, HandleVote, FetchAnswered,
                Select, HandleKey
  <2> QED
    BY <2>1, <1>0, <1>e, RowsPushed
<1>2. ASSUME \/ WindowElapses \/ Quit \/ EngineStarts \/ EngineReturns \/ HandleSigint \/ FeedChanges
             \/ SeesItRun \/ SeesTheUiLeave \/ StopsEngine \/ Returns
      PROVE  RowsInv'
  <2>1. UNCHANGED <<posted, tuiRows, lastRevision, revision, tuiDownloads>>
    BY <1>2 DEF WindowElapses, Quit, EngineStarts, EngineReturns, HandleSigint, FeedChanges, SeesItRun,
                SeesTheUiLeave, StopsEngine, Returns, WatcherMoves, AfterLoop
  <2> QED
    BY <2>1, <1>0, <1>e, RowsPushed
<1>3. ASSUME SeesItStop PROVE RowsInv'
  <2>1. /\ UNCHANGED <<tuiRows, lastRevision, revision, tuiDownloads>>
        /\ posted' = Append(posted, [kind |-> "exit"])
    BY <1>3 DEF SeesItStop, WatcherMoves, PostUI
  <2> QED
    BY <2>1, <1>0, <1>e, RowsPushed
<1>4. ASSUME RunSearch PROVE RowsInv'
  <2> DEFINE t == Head(debounced)
             c == [kind |-> "results", gen |-> t.gen, hits |-> SearchNames(t.query)]
  <2>1. t \in Keystroke
    <3>1. debounced \in Seq(Keystroke) /\ debounced # <<>>
      BY <1>4 DEF RunSearch, TuiKinds, QueuesTyped
    <3> QED
      BY <3>1
  <2>2. c \in TuiClosure /\ c.kind # "snapshot"
    BY <2>1, SearchTyped
  <2>3. /\ UNCHANGED <<tuiRows, lastRevision, revision, tuiDownloads>>
        /\ posted' = posted \/ posted' = Append(posted, c)
    BY <1>4 DEF RunSearch, PostUI
  <2> HIDE DEF c
  <2> QED
    BY <2>2, <2>3, RowsPushed
<1>5. ASSUME NEW q \in Query, NEW h \in TuiHash, OnRemoteHit(q, h) PROVE RowsInv'
  <2> DEFINE c == [kind |-> "hit", gen |-> remoteSearchGeneration, hash |-> h]
  <2>1. c \in TuiClosure /\ c.kind # "snapshot"
    BY DEF TuiClosure, TuiKinds, ViewsTyped
  <2>2. UNCHANGED <<tuiRows, lastRevision, revision, tuiDownloads>> /\ posted' = Append(posted, c)
    BY <1>5 DEF OnRemoteHit, PostUI
  <2> HIDE DEF c
  <2> QED
    BY <2>1, <2>2, RowsPushed
<1>6. ASSUME RunTask PROVE RowsInv'
  <2> DEFINE t == Head(tasks)
             fed == [kind |-> "feed", gen |-> t.gen, rev |-> feedRevision, items |-> feedRevision]
             saved == [kind |-> "saved", hash |-> t.hash]
             reply == [kind |-> "voted", hash |-> t.hash]
  <2>1. t \in TuiTask
    <3>1. tasks \in Seq(TuiTask) /\ tasks # <<>>
      BY <1>6 DEF RunTask, TuiKinds, QueuesTyped
    <3> QED
      BY <3>1
  <2>2. /\ t.kind = "feed" => fed \in TuiClosure /\ fed.kind # "snapshot"
        /\ t.kind = "written" => saved \in TuiClosure /\ saved.kind # "snapshot"
        /\ t.kind = "vote" => reply \in TuiClosure /\ reply.kind # "snapshot"
    BY <2>1, TaskTyped DEF TuiClosure, TuiKinds, ViewsTyped
  <2>3. /\ UNCHANGED <<tuiRows, lastRevision>>
        /\ (revision' = revision /\ tuiDownloads' = tuiDownloads) \/ revision' = revision + 1
    BY <1>6 DEF RunTask, Registered
  <2>4. \/ posted' = posted
        \/ t.kind = "feed" /\ posted' = Append(posted, fed)
        \/ t.kind = "written" /\ posted' = Append(posted, saved)
        \/ t.kind = "vote" /\ posted' = Append(posted, reply)
    BY <1>6 DEF RunTask, PostUI
  <2> HIDE DEF t, fed, saved, reply
  <2> QED
    BY <1>0, <1>e, <2>2, <2>3, <2>4, RowsPushed
<1>7. ASSUME Tick PROVE RowsInv'
  <2> DEFINE c == [kind |-> "snapshot", hashes |-> tuiDownloads]
  <2>1. /\ posted' = Append(posted, c) /\ lastRevision' = revision
        /\ UNCHANGED <<tuiRows, revision, tuiDownloads>>
        /\ c.kind = "snapshot" /\ c.hashes = tuiDownloads
    BY <1>7 DEF Tick, PostUI
  <2> HIDE DEF c
  <2>2. posted \in Seq(TuiClosure) /\ Len(posted) \in Nat
    BY DEF TuiKinds, QueuesTyped
  <2>3. /\ DOMAIN posted' = 1..(Len(posted) + 1) /\ posted'[Len(posted) + 1] = c
    BY <2>1, <2>2
  <2>4. /\ Len(posted) + 1 \in Snapshots' /\ Snapshots' # {}
        /\ \A i \in Snapshots' : i \in 1..(Len(posted) + 1)
    BY <2>1, <2>3 DEF Snapshots
  <2>5. \A i \in Snapshots' : (\A j \in Snapshots' : j <= i) => i = Len(posted) + 1
    BY <2>2, <2>4
  <2> QED
    BY <2>1, <2>3, <2>4, <2>5 DEF RowsInv, RowsFollow
<1>8. ASSUME RunPosted PROVE RowsInv'
  <2> DEFINE c == Head(posted)
  <2>1. /\ posted \in Seq(TuiClosure) /\ posted # <<>> /\ posted' = Tail(posted)
    BY <1>8 DEF RunPosted, TuiKinds, QueuesTyped
  <2>2. /\ Len(posted) \in Nat \ {0} /\ c = posted[1] /\ c \in TuiClosure
        /\ DOMAIN posted = 1..Len(posted) /\ DOMAIN posted' = 1..(Len(posted) - 1)
        /\ \A i \in 1..(Len(posted) - 1) : posted'[i] = posted[i + 1]
    BY <2>1
  <2>3. UNCHANGED <<lastRevision, revision, tuiDownloads>>
    BY <1>8 DEF RunPosted
  <2>4. c.kind # "snapshot" => tuiRows' = tuiRows
    BY <1>8 DEF RunPosted
  <2>5. c.kind = "snapshot" => Range(tuiRows') = c.hashes
    <3>1. SUFFICES ASSUME c.kind = "snapshot" PROVE Range(tuiRows') = c.hashes
      OBVIOUS
    <3>2. ApplyRows(c.hashes) /\ c.hashes \in SUBSET TuiHash
      BY <1>8, <2>2, <3>1, ClosureTyped DEF RunPosted
    <3> QED
      BY <3>2, SnapshotSorted DEF TuiKinds, ViewsTyped
  <2> HIDE DEF c
  <2>6. \A i \in Snapshots' : i \in Nat \ {0} /\ i + 1 \in Snapshots /\ posted'[i] = posted[i + 1]
    BY <2>2 DEF Snapshots
  <2>7. \A i \in Snapshots : i \in Nat \ {0} /\ (i # 1 => i - 1 \in Snapshots')
    BY <2>2 DEF Snapshots
  <2>8. 1 \in Snapshots <=> c.kind = "snapshot"
    BY <2>2 DEF Snapshots
  <2>9. SUFFICES ASSUME revision = lastRevision
                 PROVE  IF Snapshots' = {} THEN Range(tuiRows') = tuiDownloads
                        ELSE \A i \in Snapshots' : (\A j \in Snapshots' : j <= i)
                                 => posted'[i].hashes = tuiDownloads
    BY <2>3 DEF RowsInv, RowsFollow
  <2>10. CASE Snapshots' = {}
    <3>1. CASE c.kind = "snapshot"
      <4>1. \A j \in Snapshots : j <= 1
        BY <2>7, <2>10
      <4> QED
        BY <2>2, <2>5, <2>8, <2>9, <2>10, <3>1, <4>1 DEF RowsInv, RowsFollow
    <3>2. CASE c.kind # "snapshot"
      <4>1. Snapshots = {}
        BY <2>7, <2>8, <2>10, <3>2
      <4> QED
        BY <2>4, <2>9, <2>10, <3>2, <4>1 DEF RowsInv, RowsFollow
    <3> QED
      BY <3>1, <3>2
  <2>11. ASSUME NEW i \in Snapshots', \A j \in Snapshots' : j <= i
         PROVE  posted'[i].hashes = tuiDownloads
    <3>1. i + 1 \in Snapshots /\ posted'[i] = posted[i + 1] /\ i \in Nat \ {0}
      BY <2>6
    <3>2. \A j \in Snapshots : j <= i + 1
      BY <2>6, <2>7, <2>11, <3>1
    <3> QED
      BY <2>9, <3>1, <3>2 DEF RowsInv, RowsFollow
  <2> QED
    BY <2>10, <2>11
<1> QED
  BY <1>1, <1>2, <1>3, <1>4, <1>5, <1>6, <1>7, <1>8 DEF TuiNext

LEMMA DeleteKept == ASSUME TuiAssumption, TuiKinds, DeleteInv, TuiNext PROVE DeleteInv'
<1> USE DEF tuiLoopVars, appVars, rowVars, pollVars
<1>0. tasks \in Seq(TuiTask) /\ Len(tasks) \in Nat /\ DOMAIN tasks = 1..Len(tasks)
  BY DEF TuiKinds, QueuesTyped
<1>a. ASSUME NEW e, e.kind = "delete" => e.presses >= 2, UNCHANGED <<armed, presses>>,
             tasks' = tasks \/ tasks' = Append(tasks, e)
      PROVE  DeleteInv'
  <2>1. CASE tasks' = tasks
    BY <1>a, <2>1 DEF DeleteInv, DeletedTwiceAsked
  <2>2. CASE tasks' = Append(tasks, e)
    <3>1. /\ DOMAIN tasks' = 1..(Len(tasks) + 1) /\ tasks'[Len(tasks) + 1] = e
          /\ \A i \in 1..Len(tasks) : tasks'[i] = tasks[i]
      BY <1>0, <2>2
    <3> QED
      BY <1>0, <1>a, <3>1 DEF DeleteInv, DeletedTwiceAsked
  <2> QED
    BY <1>a, <2>1, <2>2
<1>b. [kind |-> "feed"].kind # "delete"
  OBVIOUS
<1>1. ASSUME (\E q \in Query \cup {NoText} : TriggerSearch(q)) \/ (\E i \in DOMAIN tuiRows : Select(i))
             \/ Quit \/ RunPosted
             \/ (\E q \in Query, h \in TuiHash : OnRemoteHit(q, h))
      PROVE  DeleteInv'
  <2>1. UNCHANGED <<tasks, armed, presses>>
    BY <1>1 DEF TriggerSearch, Select, Quit, RunPosted, OnRemoteHit
  <2> QED
    BY <2>1, <1>a, <1>b
<1>2. ASSUME OnActivated PROVE DeleteInv'
  <2>1. /\ UNCHANGED <<armed, presses>>
        /\ tasks' = Append(tasks, [kind |-> "feed", gen |-> feedGeneration'])
    BY <1>2 DEF OnActivated, Reload, Ask
  <2>2. [kind |-> "feed", gen |-> feedGeneration'].kind # "delete"
    OBVIOUS
  <2> QED
    BY <2>1, <2>2, <1>a
<1>3. ASSUME NEW h \in TuiHash,
             HandleSaveTorrent(h) \/ HandleDownload(h) \/ HandleVote(h) \/ FetchAnswered(h)
      PROVE  DeleteInv'
  <2>1. PICK k \in {"fetch", "written", "add", "vote"} :
           tasks' = Append(tasks, [kind |-> k, hash |-> h]) /\ UNCHANGED <<armed, presses>>
    BY <1>3 DEF HandleSaveTorrent, HandleDownload, HandleVote, FetchAnswered, Ask
  <2>2. [kind |-> k, hash |-> h].kind # "delete"
    OBVIOUS
  <2> QED
    BY <2>1, <2>2, <1>a
<1>4. ASSUME NEW k \in {"x", "X"}, HandleKey(k) PROVE DeleteInv'
  <2>1. Under \in TuiHash /\ Under # None /\ presses \in [TuiHash -> Nat]
    BY <1>4, RowUnder DEF HandleKey, TuiAssumption, TuiKinds, ViewsTyped
  <2> DEFINE gone == [kind |-> "remove", hash |-> Under]
             wiped == [kind |-> "delete", hash |-> Under, presses |-> presses[Under] + 1]
  <2>2. CASE k = "x"
    <3>1. armed' = None /\ tasks' = Append(tasks, gone) /\ presses' = presses
      BY <1>4, <2>2 DEF HandleKey, Ask
    <3>2. gone.kind # "delete"
      OBVIOUS
    <3> HIDE DEF gone
    <3>3. /\ DOMAIN tasks' = 1..(Len(tasks) + 1) /\ tasks'[Len(tasks) + 1] = gone
          /\ \A i \in 1..Len(tasks) : tasks'[i] = tasks[i]
      BY <1>0, <3>1
    <3> QED
      BY <1>0, <3>1, <3>2, <3>3 DEF DeleteInv, DeletedTwiceAsked
  <2>3. CASE k # "x" /\ Confirmed
    <3>1. armed' = None /\ tasks' = Append(tasks, wiped)
      BY <1>4, <2>3 DEF HandleKey, Ask
    <3>2. wiped.presses >= 2
      BY <2>1, <2>3 DEF DeleteInv, Confirmed
    <3> HIDE DEF wiped
    <3>3. /\ DOMAIN tasks' = 1..(Len(tasks) + 1) /\ tasks'[Len(tasks) + 1] = wiped
          /\ \A i \in 1..Len(tasks) : tasks'[i] = tasks[i]
      BY <1>0, <3>1
    <3> QED
      BY <1>0, <3>1, <3>2, <3>3 DEF DeleteInv, DeletedTwiceAsked
  <2>4. CASE k # "x" /\ ~Confirmed
    <3>1. armed' = Under /\ presses' = [presses EXCEPT ![Under] = @ + 1] /\ tasks' = tasks
      BY <1>4, <2>4 DEF HandleKey
    <3> QED
      BY <2>1, <3>1 DEF DeleteInv, DeletedTwiceAsked
  <2> QED
    BY <2>2, <2>3, <2>4
<1>5. ASSUME WindowElapses PROVE DeleteInv'
  BY <1>5 DEF WindowElapses, DeleteInv, DeletedTwiceAsked
<1>6. ASSUME EngineStarts \/ EngineReturns \/ HandleSigint \/ RunSearch \/ FeedChanges \/ Tick
             \/ SeesItRun \/ SeesItStop \/ SeesTheUiLeave \/ StopsEngine \/ Returns
      PROVE  DeleteInv'
  <2>1. UNCHANGED <<tasks, armed, presses>>
    BY <1>6 DEF EngineStarts, EngineReturns, HandleSigint, RunSearch, FeedChanges, Tick, SeesItRun,
                SeesItStop, SeesTheUiLeave, StopsEngine, Returns, WatcherMoves, AfterLoop
  <2> QED
    BY <2>1, <1>a, <1>b
<1>7. ASSUME RunTask PROVE DeleteInv'
  <2>1. UNCHANGED <<armed, presses>> /\ tasks # <<>> /\ tasks' = Tail(tasks)
    BY <1>7 DEF RunTask
  <2>2. /\ DOMAIN tasks' = 1..(Len(tasks) - 1)
        /\ \A i \in 1..(Len(tasks) - 1) : tasks'[i] = tasks[i + 1] /\ i + 1 \in 1..Len(tasks)
    BY <1>0, <2>1
  <2> QED
    BY <1>0, <2>1, <2>2 DEF DeleteInv, DeletedTwiceAsked
<1> QED
  BY <1>1, <1>2, <1>3, <1>4, <1>5, <1>6, <1>7 DEF TuiNext

LEMMA ThreadsKept == ASSUME ThreadsInv, TuiNext PROVE ThreadsInv'
<1> USE DEF tuiLoopVars, appVars, rowVars, pollVars, Key
<1>1. ASSUME \/ \E q \in Query \cup {NoText} : TriggerSearch(q)
             \/ OnActivated
             \/ \E h \in TuiHash : \/ HandleSaveTorrent(h) \/ HandleDownload(h) \/ HandleVote(h)
                                   \/ FetchAnswered(h)
             \/ \E i \in DOMAIN tuiRows : Select(i)
             \/ \E k \in {"x", "X"} : HandleKey(k)
             \/ WindowElapses \/ HandleSigint \/ RunSearch \/ FeedChanges \/ Tick \/ RunTask
             \/ \E q \in Query, h \in TuiHash : OnRemoteHit(q, h)
      PROVE  ThreadsInv'
  <2>1. UNCHANGED <<tuiLooping, ui, watcher>>
    BY <1>1 DEF TriggerSearch, OnActivated, HandleSaveTorrent, HandleDownload, HandleVote, FetchAnswered,
                Select, HandleKey, WindowElapses, HandleSigint, RunSearch, FeedChanges, Tick, RunTask,
                OnRemoteHit, Reload, Ask
  <2> QED
    BY <2>1 DEF ThreadsInv
<1>2. ASSUME EngineStarts \/ EngineReturns PROVE ThreadsInv'
  BY <1>2 DEF EngineStarts, EngineReturns, Running, ThreadsInv
<1>3. ASSUME Quit \/ RunPosted PROVE ThreadsInv'
  BY <1>3 DEF Quit, RunPosted, ThreadsInv
<1>4. ASSUME SeesItRun \/ SeesItStop \/ SeesTheUiLeave PROVE ThreadsInv'
  BY <1>4 DEF SeesItRun, SeesItStop, SeesTheUiLeave, WatcherMoves, ThreadsInv
<1>5. ASSUME StopsEngine \/ Returns PROVE ThreadsInv'
  BY <1>5 DEF StopsEngine, Returns, AfterLoop, ThreadsInv
<1> QED
  BY <1>1, <1>2, <1>3, <1>4, <1>5 DEF TuiNext

-----------------------------------------------------------------------------
(* The fetches librats owes: facts about counting in a queue                *)

\* The places of s that hold an element of S.
Where(s, S) == {i \in 1..Len(s) : s[i] \in S}

(* There are finitely many such places. *)
LEMMA WhereFinite ==
  ASSUME NEW T, NEW s \in Seq(T), NEW S
  PROVE  IsFiniteSet(Where(s, S)) /\ Cardinality(Where(s, S)) \in Nat
<1>1. Len(s) \in Nat /\ IsFiniteSet(1..Len(s))
  BY FS_Interval
<1>2. Where(s, S) \in SUBSET (1..Len(s))
  BY DEF Where
<1>3. IsFiniteSet(Where(s, S))
  BY <1>1, <1>2, FS_Subset
<1> QED
  BY <1>3, FS_CardinalityType

(* And none in an empty queue. *)
LEMMA WhereNone == ASSUME NEW S PROVE Cardinality(Where(<<>>, S)) = 0
<1>1. Where(<<>>, S) = {}
  BY DEF Where
<1> QED
  BY <1>1, FS_EmptySet

(* Pushing an element adds a place if it is one of S. *)
LEMMA WhereAppend ==
  ASSUME NEW T, NEW s \in Seq(T), NEW e \in T, NEW S
  PROVE  Cardinality(Where(Append(s, e), S)) =
            Cardinality(Where(s, S)) + (IF e \in S THEN 1 ELSE 0)
<1> DEFINE n == Len(s) + 1
<1>1. /\ n \in Nat /\ Len(Append(s, e)) = n /\ n \notin Where(s, S)
      /\ \A i \in 1..Len(s) : Append(s, e)[i] = s[i]
      /\ Append(s, e)[n] = e
  BY DEF Where
<1>2. CASE e \in S
  <2>1. Where(Append(s, e), S) = Where(s, S) \cup {n}
    BY <1>1, <1>2 DEF Where
  <2> QED
    BY <1>1, <1>2, <2>1, WhereFinite, FS_AddElement
<1>3. CASE e \notin S
  <2>1. Where(Append(s, e), S) = Where(s, S)
    BY <1>1, <1>3 DEF Where
  <2> QED
    BY <1>3, <2>1, WhereFinite
<1> QED
  BY <1>2, <1>3

(* Popping the head takes a place away if it is one of S. *)
LEMMA WhereTail ==
  ASSUME NEW T, NEW s \in Seq(T), s # <<>>, NEW S
  PROVE  Cardinality(Where(s, S)) =
            Cardinality(Where(Tail(s), S)) + (IF Head(s) \in S THEN 1 ELSE 0)
<1> DEFINE rest == Where(s, S) \ {1}
           shift == [i \in Where(Tail(s), S) |-> i + 1]
<1>1. /\ Len(s) \in Nat \ {0} /\ Tail(s) \in Seq(T) /\ Len(Tail(s)) = Len(s) - 1
      /\ \A i \in 1..Len(Tail(s)) : Tail(s)[i] = s[i + 1]
      /\ Head(s) = s[1]
  OBVIOUS
<1>2. IsFiniteSet(rest) /\ Cardinality(rest) =
         IF Head(s) \in S THEN Cardinality(Where(s, S)) - 1 ELSE Cardinality(Where(s, S))
  <2>1. 1 \in Where(s, S) <=> Head(s) \in S
    BY <1>1 DEF Where
  <2> QED
    BY <2>1, WhereFinite, FS_RemoveElement
<1>3. ExistsBijection(Where(Tail(s), S), rest)
  <2>1. shift \in [Where(Tail(s), S) -> rest]
    BY <1>1 DEF Where
  <2>2. \A i, j \in Where(Tail(s), S) : shift[i] = shift[j] => i = j
    BY <1>1 DEF Where
  <2>3. ASSUME NEW k \in rest PROVE \E i \in Where(Tail(s), S) : shift[i] = k
    <3>1. k - 1 \in Where(Tail(s), S) /\ (k - 1) + 1 = k
      BY <1>1 DEF Where
    <3> QED
      BY <3>1
  <2> QED
    <3> HIDE DEF shift, rest
    <3>1. DOMAIN shift = Where(Tail(s), S)
      BY <2>1
    <3>2. shift \in Bijection(Where(Tail(s), S), rest)
      BY <2>1, <2>2, <2>3, <3>1 DEF Bijection, Injection, Surjection, IsInjective
    <3> QED
      BY <3>2 DEF ExistsBijection
<1>4. Cardinality(rest) = Cardinality(Where(Tail(s), S))
  BY <1>1, <1>3, WhereFinite, FS_Bijection
<1> QED
  BY <1>1, <1>2, <1>4, WhereFinite

\* What carries a fetch of h, before it is answered and after.
FetchesOf(h) == {t \in TuiTask : t.kind \in {"fetch", "written"} /\ t.hash = h}
SavesOf(h) == {c \in TuiClosure : c.kind = "saved" /\ c.hash = h}

LEMMA CarriersAre ==
  ASSUME TuiKinds, NEW h
  PROVE  Fetching(h) = Where(tasks, FetchesOf(h)) /\ Saved(h) = Where(posted, SavesOf(h))
BY DEF TuiKinds, QueuesTyped, Fetching, Saved, Where, FetchesOf, SavesOf

(* What each of the two queues holds of h, once an element is added or taken. *)
LEMMA TaskAdded ==
  ASSUME TuiKinds, NEW e \in TuiTask, tasks' = Append(tasks, e), NEW h
  PROVE  /\ Fetching(h)' = Where(tasks', FetchesOf(h))
         /\ Cardinality(Where(tasks', FetchesOf(h))) =
               Cardinality(Fetching(h)) + (IF e \in FetchesOf(h) THEN 1 ELSE 0)
<1>1. tasks \in Seq(TuiTask) /\ tasks' \in Seq(TuiTask)
  BY DEF TuiKinds, QueuesTyped
<1>2. Fetching(h)' = Where(tasks', FetchesOf(h))
  BY <1>1 DEF Fetching, Where, FetchesOf
<1> QED
  BY <1>1, <1>2, CarriersAre, WhereAppend

LEMMA TaskTaken ==
  ASSUME TuiKinds, tasks # <<>>, tasks' = Tail(tasks), NEW h
  PROVE  /\ Fetching(h)' = Where(tasks', FetchesOf(h))
         /\ Cardinality(Fetching(h)) =
               Cardinality(Where(tasks', FetchesOf(h)))
                 + (IF Head(tasks) \in FetchesOf(h) THEN 1 ELSE 0)
<1>1. tasks \in Seq(TuiTask) /\ tasks' \in Seq(TuiTask)
  BY DEF TuiKinds, QueuesTyped
<1>2. Fetching(h)' = Where(tasks', FetchesOf(h))
  BY <1>1 DEF Fetching, Where, FetchesOf
<1> QED
  BY <1>1, <1>2, CarriersAre, WhereTail

LEMMA ClosureAdded ==
  ASSUME TuiKinds, NEW c \in TuiClosure, posted' = Append(posted, c), NEW h
  PROVE  /\ Saved(h)' = Where(posted', SavesOf(h))
         /\ Cardinality(Where(posted', SavesOf(h))) =
               Cardinality(Saved(h)) + (IF c \in SavesOf(h) THEN 1 ELSE 0)
<1>1. posted \in Seq(TuiClosure) /\ posted' \in Seq(TuiClosure)
  BY DEF TuiKinds, QueuesTyped
<1>2. Saved(h)' = Where(posted', SavesOf(h))
  BY <1>1 DEF Saved, Where, SavesOf
<1> QED
  BY <1>1, <1>2, CarriersAre, WhereAppend

LEMMA ClosureTaken ==
  ASSUME TuiKinds, posted # <<>>, posted' = Tail(posted), NEW h
  PROVE  /\ Saved(h)' = Where(posted', SavesOf(h))
         /\ Cardinality(Saved(h)) =
               Cardinality(Where(posted', SavesOf(h)))
                 + (IF Head(posted) \in SavesOf(h) THEN 1 ELSE 0)
<1>1. posted \in Seq(TuiClosure) /\ posted' \in Seq(TuiClosure)
  BY DEF TuiKinds, QueuesTyped
<1>2. Saved(h)' = Where(posted', SavesOf(h))
  BY <1>1 DEF Saved, Where, SavesOf
<1> QED
  BY <1>1, <1>2, CarriersAre, WhereTail

LEMMA CarriersCounted ==
  ASSUME TuiKinds, NEW h
  PROVE  /\ Cardinality(Fetching(h)) \in Nat /\ Cardinality(Saved(h)) \in Nat
         /\ Carriers(h) = Cardinality(Fetching(h)) + Cardinality(Saved(h))
                             + (IF h \in owed THEN 1 ELSE 0)
<1>1. Cardinality(Fetching(h)) \in Nat /\ Cardinality(Saved(h)) \in Nat
  BY CarriersAre, WhereFinite DEF TuiKinds, QueuesTyped
<1> QED
  BY <1>1 DEF Carriers

LEMMA SavesInit == ASSUME TuiAssumption, TuiInit PROVE SavesOwed
<1>1. TuiKinds
  BY TuiKindsInit
<1>2. ASSUME NEW h \in TuiHash PROVE Carriers(h) = 0
  <2>1. Cardinality(Fetching(h)) = 0 /\ Cardinality(Saved(h)) = 0
    BY <1>1, CarriersAre, WhereNone DEF TuiInit
  <2> QED
    BY <1>1, <2>1, CarriersCounted DEF TuiInit
<1> QED
  BY <1>2 DEF SavesOwed, TuiInit

(* Steps that carry no fetch.                                                *)
LEMMA SavesStay ==
  ASSUME TuiKinds, SavesOwed, UNCHANGED <<owed, inFlightSaves>>,
         \/ UNCHANGED tasks
         \/ \E e \in TuiTask : e.kind \notin {"fetch", "written"} /\ tasks' = Append(tasks, e),
         UNCHANGED posted \/ \E c \in TuiClosure : c.kind # "saved" /\ posted' = Append(posted, c)
  PROVE  SavesOwed'
<1> SUFFICES ASSUME NEW h \in TuiHash PROVE Carriers(h)' = Carriers(h)
  BY DEF SavesOwed
<1>1. Cardinality(Fetching(h))' = Cardinality(Fetching(h))
  <2>1. CASE UNCHANGED tasks
    BY <2>1 DEF Fetching
  <2>2. ASSUME NEW e \in TuiTask, e.kind \notin {"fetch", "written"}, tasks' = Append(tasks, e)
        PROVE  Cardinality(Fetching(h))' = Cardinality(Fetching(h))
    <3>1. e \notin FetchesOf(h)
      BY <2>2 DEF FetchesOf
    <3> QED
      BY <2>2, <3>1, TaskAdded, CarriersCounted
  <2> QED
    BY <2>1, <2>2
<1>2. Cardinality(Saved(h))' = Cardinality(Saved(h))
  <2>1. CASE UNCHANGED posted
    BY <2>1 DEF Saved
  <2>2. ASSUME NEW c \in TuiClosure, c.kind # "saved", posted' = Append(posted, c)
        PROVE  Cardinality(Saved(h))' = Cardinality(Saved(h))
    <3>1. c \notin SavesOf(h)
      BY <2>2 DEF SavesOf
    <3> QED
      BY <2>2, <3>1, ClosureAdded, CarriersCounted
  <2> QED
    BY <2>1, <2>2
<1> QED
  BY <1>1, <1>2 DEF Carriers

LEMMA SavesKept == ASSUME TuiAssumption, TuiKinds, SavesOwed, TuiNext PROVE SavesOwed'
<1> USE DEF tuiLoopVars, appVars, rowVars, pollVars
<1>1. ASSUME \/ \E q \in Query \cup {NoText} : TriggerSearch(q)
             \/ \E i \in DOMAIN tuiRows : Select(i)
             \/ WindowElapses \/ Quit \/ EngineStarts \/ EngineReturns \/ HandleSigint \/ FeedChanges
             \/ SeesItRun \/ SeesTheUiLeave \/ StopsEngine \/ Returns
      PROVE  SavesOwed'
  <2>1. UNCHANGED <<tasks, posted, owed, inFlightSaves>>
    BY <1>1 DEF TriggerSearch, Select, WindowElapses, Quit, EngineStarts, EngineReturns, HandleSigint,
                FeedChanges, SeesItRun, SeesTheUiLeave, StopsEngine, Returns, WatcherMoves, AfterLoop
  <2> QED
    BY <2>1, SavesStay
<1>2. ASSUME OnActivated PROVE SavesOwed'
  <2> DEFINE e == [kind |-> "feed", gen |-> feedGeneration']
  <2>1. e \in TuiTask /\ e.kind \notin {"fetch", "written"}
    BY <1>2 DEF OnActivated, Reload, TuiTask, TuiKinds, ViewsTyped
  <2>2. UNCHANGED <<posted, owed, inFlightSaves>> /\ tasks' = Append(tasks, e)
    BY <1>2 DEF OnActivated, Reload, Ask
  <2> HIDE DEF e
  <2> QED
    BY <2>1, <2>2, SavesStay
<1>3. ASSUME NEW h \in TuiHash, HandleDownload(h) \/ HandleVote(h) PROVE SavesOwed'
  <2>1. PICK k \in {"add", "vote"} :
           /\ tasks' = Append(tasks, [kind |-> k, hash |-> h])
           /\ UNCHANGED <<posted, owed, inFlightSaves>>
    BY <1>3 DEF HandleDownload, HandleVote, Ask
  <2>2. [kind |-> k, hash |-> h] \in TuiTask /\ [kind |-> k, hash |-> h].kind \notin {"fetch", "written"}
    BY DEF TuiTask
  <2> QED
    BY <2>1, <2>2, SavesStay
<1>4. ASSUME NEW k \in {"x", "X"}, HandleKey(k) PROVE SavesOwed'
  <2> DEFINE gone == [kind |-> "remove", hash |-> Under]
             wiped == [kind |-> "delete", hash |-> Under, presses |-> presses[Under] + 1]
  <2>1. Under \in TuiHash
    BY <1>4, RowUnder DEF HandleKey
  <2>2. /\ gone \in TuiTask /\ gone.kind \notin {"fetch", "written"}
        /\ wiped \in TuiTask /\ wiped.kind \notin {"fetch", "written"}
    BY <2>1 DEF TuiTask, TuiKinds, ViewsTyped
  <2>3. /\ UNCHANGED <<posted, owed, inFlightSaves>>
        /\ tasks' = tasks \/ tasks' = Append(tasks, gone) \/ tasks' = Append(tasks, wiped)
    BY <1>4 DEF HandleKey, Ask
  <2> HIDE DEF gone, wiped
  <2> QED
    BY <2>2, <2>3, SavesStay
<1>5. ASSUME RunSearch PROVE SavesOwed'
  <2> DEFINE t == Head(debounced)
             c == [kind |-> "results", gen |-> t.gen, hits |-> SearchNames(t.query)]
  <2>1. t \in Keystroke
    <3>1. debounced \in Seq(Keystroke) /\ debounced # <<>>
      BY <1>5 DEF RunSearch, TuiKinds, QueuesTyped
    <3> QED
      BY <3>1
  <2>2. c \in TuiClosure /\ c.kind # "saved"
    BY <2>1, SearchTyped
  <2>3. /\ UNCHANGED <<tasks, owed, inFlightSaves>>
        /\ posted' = posted \/ posted' = Append(posted, c)
    BY <1>5 DEF RunSearch, PostUI
  <2> HIDE DEF c
  <2> QED
    BY <2>2, <2>3, SavesStay
<1>6. ASSUME NEW q \in Query, NEW h \in TuiHash, OnRemoteHit(q, h) PROVE SavesOwed'
  <2> DEFINE c == [kind |-> "hit", gen |-> remoteSearchGeneration, hash |-> h]
  <2>1. c \in TuiClosure /\ c.kind # "saved"
    BY DEF TuiClosure, TuiKinds, ViewsTyped
  <2>2. UNCHANGED <<tasks, owed, inFlightSaves>> /\ posted' = Append(posted, c)
    BY <1>6 DEF OnRemoteHit, PostUI
  <2> HIDE DEF c
  <2> QED
    BY <2>1, <2>2, SavesStay
<1>7. ASSUME Tick PROVE SavesOwed'
  <2> DEFINE c == [kind |-> "snapshot", hashes |-> tuiDownloads]
  <2>1. c \in TuiClosure /\ c.kind # "saved"
    BY DEF TuiClosure, TuiKinds, ViewsTyped
  <2>2. UNCHANGED <<tasks, owed, inFlightSaves>> /\ posted' = Append(posted, c)
    BY <1>7 DEF Tick, PostUI
  <2> HIDE DEF c
  <2> QED
    BY <2>1, <2>2, SavesStay
<1>8. ASSUME SeesItStop PROVE SavesOwed'
  <2>1. [kind |-> "exit"] \in TuiClosure /\ [kind |-> "exit"].kind # "saved"
    BY DEF TuiClosure
  <2>2. UNCHANGED <<tasks, owed, inFlightSaves>> /\ posted' = Append(posted, [kind |-> "exit"])
    BY <1>8 DEF SeesItStop, WatcherMoves, PostUI
  <2> QED
    BY <2>1, <2>2, SavesStay
<1>9. ASSUME NEW h \in TuiHash, HandleSaveTorrent(h) PROVE SavesOwed'
  <2> DEFINE e == [kind |-> "fetch", hash |-> h]
  <2>1. /\ e \in TuiTask /\ \A g : e \in FetchesOf(g) <=> g = h
    BY DEF TuiTask, FetchesOf
  <2>2. /\ UNCHANGED <<posted, owed>> /\ tasks' = Append(tasks, e) /\ h \notin inFlightSaves
        /\ inFlightSaves' = inFlightSaves \cup {h}
    BY <1>9 DEF HandleSaveTorrent, Ask
  <2> HIDE DEF e
  <2>3. ASSUME NEW g \in TuiHash PROVE Carriers(g)' = IF g \in inFlightSaves' THEN 1 ELSE 0
    <3>1. Cardinality(Fetching(g))' = Cardinality(Fetching(g)) + (IF g = h THEN 1 ELSE 0)
      BY <2>1, <2>2, TaskAdded
    <3>2. Cardinality(Saved(g))' = Cardinality(Saved(g))
      BY <2>2 DEF Saved
    <3>3. Carriers(g)' = Carriers(g) + (IF g = h THEN 1 ELSE 0)
      BY <2>2, <3>1, <3>2, CarriersCounted DEF Carriers
    <3> QED
      BY <2>2, <3>3 DEF SavesOwed
  <2> QED
    BY <2>3 DEF SavesOwed
<1>10. ASSUME NEW h \in TuiHash, FetchAnswered(h) PROVE SavesOwed'
  <2> DEFINE e == [kind |-> "written", hash |-> h]
  <2>1. /\ e \in TuiTask /\ \A g : e \in FetchesOf(g) <=> g = h
    BY DEF TuiTask, FetchesOf
  <2>2. /\ UNCHANGED <<posted, inFlightSaves>> /\ tasks' = Append(tasks, e) /\ h \in owed
        /\ owed' = owed \ {h}
    BY <1>10 DEF FetchAnswered, Ask
  <2> HIDE DEF e
  <2>3. ASSUME NEW g \in TuiHash PROVE Carriers(g)' = Carriers(g)
    <3>1. Cardinality(Fetching(g))' = Cardinality(Fetching(g)) + (IF g = h THEN 1 ELSE 0)
      BY <2>1, <2>2, TaskAdded
    <3>2. Cardinality(Saved(g))' = Cardinality(Saved(g))
      BY <2>2 DEF Saved
    <3> QED
      BY <2>2, <3>1, <3>2, CarriersCounted DEF Carriers
  <2> QED
    BY <2>2, <2>3 DEF SavesOwed
<1>11. ASSUME RunTask PROVE SavesOwed'
  <2> DEFINE t == Head(tasks)
  <2>1. /\ t \in TuiTask /\ tasks # <<>> /\ tasks' = Tail(tasks) /\ inFlightSaves' = inFlightSaves
    <3>1. tasks \in Seq(TuiTask) /\ tasks # <<>>
      BY <1>11 DEF RunTask, TuiKinds, QueuesTyped
    <3> QED
      BY <1>11, <3>1 DEF RunTask
  <2>2. t.kind \in {"fetch", "written"} => t.hash \in TuiHash
    BY <2>1, TaskTyped
  <2>3. ASSUME NEW h
        PROVE  Cardinality(Fetching(h)) = Cardinality(Fetching(h))'
                  + (IF t.kind \in {"fetch", "written"} /\ t.hash = h THEN 1 ELSE 0)
    <3>1. t \in FetchesOf(h) <=> t.kind \in {"fetch", "written"} /\ t.hash = h
      BY <2>1 DEF FetchesOf
    <3> QED
      BY <2>1, <3>1, TaskTaken
  <2>4. Cardinality(Fetching(t.hash)) \in Nat /\ \A h : Cardinality(Fetching(h))' \in Nat
    <3>1. tasks' \in Seq(TuiTask)
      BY <2>1 DEF TuiKinds, QueuesTyped
    <3>2. \A h : Fetching(h)' = Where(tasks', FetchesOf(h))
      BY <2>1, TaskTaken
    <3> QED
      BY <3>1, <3>2, CarriersCounted, WhereFinite
  <2>5. CASE t.kind = "fetch"
    <3>1. posted' = posted /\ owed' = owed \cup {t.hash}
      BY <1>11, <2>5 DEF RunTask
    <3>2. t.hash \notin owed
      <4>1. PICK g \in TuiHash : g = t.hash
        BY <2>2, <2>5
      <4>2. /\ Cardinality(Fetching(g)) = Cardinality(Fetching(g))' + 1
            /\ Cardinality(Fetching(g))' \in Nat
        BY <2>3, <2>4, <2>5, <4>1
      <4>3. Carriers(g) = IF g \in inFlightSaves THEN 1 ELSE 0
        BY DEF SavesOwed
      <4> QED
        BY <4>1, <4>2, <4>3, CarriersCounted
    <3>3. ASSUME NEW h \in TuiHash PROVE Carriers(h)' = Carriers(h)
      <4>1. Cardinality(Saved(h))' = Cardinality(Saved(h))
        BY <3>1 DEF Saved
      <4>2. Cardinality(Fetching(h)) = Cardinality(Fetching(h))' + (IF t.hash = h THEN 1 ELSE 0)
        BY <2>3, <2>5
      <4> QED
        BY <2>4, <3>1, <3>2, <4>1, <4>2, CarriersCounted DEF Carriers
    <3> QED
      BY <2>1, <3>3 DEF SavesOwed
  <2>6. CASE t.kind = "written"
    <3> DEFINE c == [kind |-> "saved", hash |-> t.hash]
    <3>1. owed' = owed /\ posted' = Append(posted, c)
      BY <1>11, <2>6 DEF RunTask, PostUI
    <3>2. c \in TuiClosure /\ \A h : c \in SavesOf(h) <=> h = t.hash
      BY <2>2, <2>6 DEF TuiClosure, SavesOf
    <3> HIDE DEF c
    <3>3. ASSUME NEW h \in TuiHash PROVE Carriers(h)' = Carriers(h)
      <4>1. Cardinality(Saved(h))' = Cardinality(Saved(h)) + (IF h = t.hash THEN 1 ELSE 0)
        BY <3>1, <3>2, ClosureAdded
      <4>2. Cardinality(Fetching(h)) = Cardinality(Fetching(h))' + (IF t.hash = h THEN 1 ELSE 0)
        BY <2>3, <2>6
      <4> QED
        BY <2>4, <3>1, <4>1, <4>2, CarriersCounted DEF Carriers
    <3> QED
      BY <2>1, <3>3 DEF SavesOwed
  <2>7. CASE t.kind \notin {"fetch", "written"}
    <3> DEFINE fed == [kind |-> "feed", gen |-> t.gen, rev |-> feedRevision, items |-> feedRevision]
               reply == [kind |-> "voted", hash |-> t.hash]
    <3>1. /\ owed' = owed
          /\ \/ posted' = posted
             \/ t.kind = "feed" /\ posted' = Append(posted, fed)
             \/ t.kind = "vote" /\ posted' = Append(posted, reply)
      BY <1>11, <2>7 DEF RunTask, PostUI
    <3>2. /\ t.kind = "feed" => fed \in TuiClosure /\ \A h : fed \notin SavesOf(h)
          /\ t.kind = "vote" => reply \in TuiClosure /\ \A h : reply \notin SavesOf(h)
      BY <2>1, TaskTyped DEF TuiClosure, SavesOf, TuiKinds, ViewsTyped
    <3> HIDE DEF fed, reply
    <3>3. ASSUME NEW h \in TuiHash PROVE Carriers(h)' = Carriers(h)
      <4>1. Cardinality(Saved(h))' = Cardinality(Saved(h))
        <5>1. CASE posted' = posted
          BY <5>1 DEF Saved
        <5>2. CASE t.kind = "feed" /\ posted' = Append(posted, fed)
          BY <3>2, <5>2, ClosureAdded, CarriersCounted
        <5>3. CASE t.kind = "vote" /\ posted' = Append(posted, reply)
          BY <3>2, <5>3, ClosureAdded, CarriersCounted
        <5> QED
          BY <3>1, <5>1, <5>2, <5>3
      <4>2. Cardinality(Fetching(h)) = Cardinality(Fetching(h))'
        BY <2>3, <2>4, <2>7
      <4> QED
        BY <3>1, <4>1, <4>2 DEF Carriers
    <3> QED
      BY <2>1, <3>3 DEF SavesOwed
  <2> QED
    BY <2>5, <2>6, <2>7
<1>12. ASSUME RunPosted PROVE SavesOwed'
  <2> DEFINE c == Head(posted)
  <2>1. /\ c \in TuiClosure /\ posted # <<>> /\ posted' = Tail(posted) /\ UNCHANGED <<tasks, owed>>
        /\ inFlightSaves' = IF c.kind = "saved" THEN inFlightSaves \ {c.hash} ELSE inFlightSaves
    <3>1. posted \in Seq(TuiClosure) /\ posted # <<>>
      BY <1>12 DEF RunPosted, TuiKinds, QueuesTyped
    <3> QED
      BY <1>12, <3>1 DEF RunPosted
  <2>2. ASSUME NEW h \in TuiHash PROVE Carriers(h)' = IF h \in inFlightSaves' THEN 1 ELSE 0
    <3>1. c \in SavesOf(h) <=> c.kind = "saved" /\ c.hash = h
      BY <2>1 DEF SavesOf
    <3>2. Cardinality(Saved(h)) = Cardinality(Saved(h))'
              + (IF c.kind = "saved" /\ c.hash = h THEN 1 ELSE 0)
      BY <2>1, <3>1, ClosureTaken
    <3>3. Cardinality(Saved(h))' \in Nat
      <4>1. posted' \in Seq(TuiClosure)
        BY <2>1 DEF TuiKinds, QueuesTyped
      <4>2. Saved(h)' = Where(posted', SavesOf(h))
        BY <2>1, ClosureTaken
      <4> QED
        BY <4>1, <4>2, WhereFinite
    <3>4. Cardinality(Fetching(h))' = Cardinality(Fetching(h)) /\ owed' = owed
      BY <2>1 DEF Fetching
    <3> HIDE DEF c
    <3>5. Carriers(h) = Carriers(h)' + (IF c.kind = "saved" /\ c.hash = h THEN 1 ELSE 0)
      BY <3>2, <3>3, <3>4, CarriersCounted DEF Carriers
    <3>6. Carriers(h)' \in Nat
      BY <3>3, <3>4, CarriersCounted DEF Carriers
    <3> QED
      BY <2>1, <3>5, <3>6 DEF SavesOwed
  <2> QED
    BY <2>2 DEF SavesOwed
<1> QED
  BY <1>1, <1>2, <1>3, <1>4, <1>5, <1>6, <1>7, <1>8, <1>9, <1>10, <1>11, <1>12 DEF TuiNext

-----------------------------------------------------------------------------
(* What the interface keeps right                                           *)

TuiInv == TuiKinds /\ SearchInv /\ RowsInv /\ DeleteInv /\ SavesOwed /\ ThreadsInv

(* The interface's types, the search whose answers are shown, the downloads
   listed, the fetches owed and the threads, in every reachable state.      *)
THEOREM TuiInvHolds == TuiSpec => []TuiInv
<1>1. TuiInit => TuiInv
  BY TuiAssumption, TuiKindsInit, SearchInit, RowsInit, SavesInit DEF TuiInv
<1>2. TuiInv /\ [TuiNext]_tuiVars => TuiInv'
  <2>1. ASSUME TuiInv, TuiNext PROVE TuiInv'
    BY <2>1, TuiAssumption, TuiKindsKept, SearchKept, RowsKept, DeleteKept, SavesKept, ThreadsKept
       DEF TuiInv
  <2>2. ASSUME TuiInv, UNCHANGED tuiVars PROVE TuiInv'
    <3>1. TuiKinds'
      BY <2>2 DEF TuiInv, TuiKinds, QueuesTyped, ViewsTyped, tuiVars, tuiLoopVars, searchVars, remoteVars,
                  feedVars, rowVars, pollVars
    <3>2. SearchInv'
      BY <2>2, SearchStays DEF TuiInv, tuiVars, searchState, tuiLoopVars, searchVars, remoteVars, pollVars
    <3>3. RowsInv' /\ DeleteInv' /\ ThreadsInv'
      BY <2>2 DEF TuiInv, RowsInv, RowsFollow, Snapshots, DeleteInv, DeletedTwiceAsked, ThreadsInv,
                  tuiVars, tuiLoopVars, appVars, rowVars, pollVars
    <3>4. SavesOwed'
      BY <2>2, SavesStay DEF TuiInv, tuiVars, tuiLoopVars
    <3> QED
      BY <3>1, <3>2, <3>3, <3>4 DEF TuiInv
  <2> QED
    BY <2>1, <2>2
<1> QED
  BY <1>1, <1>2, PTL DEF TuiSpec

\* The terminal's lists, generations and armed key stay of their kind: a row shown is
\* of no search yet to come, and the selection is a row of the list (src/native/tui).
THEOREM TuiTypeCorrect == TuiSpec => []TuiTypeOK
<1>1. ASSUME TuiInv PROVE TuiTypeOK
  <2>1. shown \subseteq [hash : TuiHash, gen : 0..generation, good : 0..1]
    <3>1. /\ shown \subseteq [hash : TuiHash, gen : Nat, good : 0..1]
          /\ \A r \in shown : r.gen = shownFor
          /\ shownFor \in Nat /\ shownFor <= generation /\ generation \in Nat
      BY <1>1 DEF TuiInv, SearchInv, Behind, RowsAre, OneSearchShown, TuiKinds, ViewsTyped
    <3>2. \A r \in shown : r \in [hash : TuiHash, gen : 0..generation, good : 0..1]
      BY <3>1
    <3> QED
      BY <3>2
  <2>2. Range(tuiRows) \subseteq TuiHash
    BY <1>1 DEF TuiInv, TuiKinds, ViewsTyped, Range
  <2> QED
    BY <1>1, <2>1, <2>2 DEF TuiInv, ThreadsInv, TuiKinds, ViewsTyped, TuiTypeOK
<1> QED
  BY <1>1, TuiInvHolds, PTL

(* What the terminal shows and deletes, whatever the user does and the order *)
(* the three threads take their steps in.                                   *)
THEOREM ScreenIsRightHolds == TuiSpec => []ScreenIsRight
<1>1. ASSUME TuiInv PROVE ScreenIsRight
  <2>1. OneSearchShown
    BY <1>1 DEF TuiInv, SearchInv, RowsAre
  <2>2. VotesShown
    <3>1. DOMAIN posted = 1..Len(posted)
      BY <1>1 DEF TuiInv, TuiKinds, QueuesTyped
    <3> QED
      BY <1>1, <3>1 DEF TuiInv, SearchInv, VotesFollow, VoteFollows, VotesShown
  <2>3. FeedIsCurrent
    BY <1>1 DEF TuiInv, TuiKinds, FeedIsCurrent, NeedsReload
  <2>4. RowsFollow /\ DeletedTwiceAsked /\ SavesOwed /\ ScreenOutlivesThreads
    BY <1>1 DEF TuiInv, RowsInv, DeleteInv, ThreadsInv, ScreenOutlivesThreads
  <2> QED
    BY <2>1, <2>2, <2>3, <2>4 DEF ScreenIsRight
<1> QED
  BY <1>1, TuiInvHolds, PTL

-----------------------------------------------------------------------------
(* The batch commands: what a command knows of its rows and of its file     *)

FileLine == [kind : {"torrent"}, hash : BatchHash, listed : BOOLEAN] \cup [kind : {"malformed"}]
Exporting == [kind : {"export"}, noFiles : BOOLEAN, after : Nat, total : Nat, faulted : {FALSE}]
Importing ==
    [kind : {"import"}, noFilter : BOOLEAN, next : Nat \ {0}, faulted : BOOLEAN,
     imported : Nat, malformed : Nat, rejected : Nat]
Cleaning ==
    [kind : {"cleanup"}, dryRun : BOOLEAN, after : Nat, scanned : Nat, matched : Nat,
     faulted : BOOLEAN]

RowsValid ==
    /\ batchRows \in [BatchHash -> [id : 0..Cardinality(BatchHash), listed : BOOLEAN]]
    /\ \A g, h \in Stored : batchRows[g].id = batchRows[h].id => g = h
BatchKinds ==
    /\ RowsValid /\ file \in Seq(FileLine)
    /\ cmd \in {NoCommand} \cup Exporting \cup Importing \cup Cleaning
    /\ cmd # NoCommand => report = NoCommand

\* The rows a command has come past, and those the policy lets stay.
Passed(after) == {h \in Stored : batchRows[h].id <= after}
Allowed(h) == Accepts(policy, AsSeen(h))

\* What is written so far is what was come past, once each.
ExportSoFar ==
    cmd.kind = "export" =>
        /\ cmd.total = Len(file) /\ Len(file) = Cardinality(Passed(cmd.after))
        /\ {file[i].hash : i \in DOMAIN file} = Passed(cmd.after)
\* The lines read so far are counted; those let in are rows.
ImportSoFar ==
    cmd.kind = "import" =>
        /\ cmd.next <= Len(file) + 1
        /\ cmd.imported + cmd.rejected + cmd.malformed = cmd.next - 1
        /\ ~cmd.faulted =>
              \A i \in 1..(cmd.next - 1) :
                 /\ file[i].kind = "torrent" /\ (cmd.noFilter \/ Allowed(file[i].hash))
                 => file[i].hash \in Stored
\* What was come past and is still there is let stay, and was counted.
CleanupSoFar ==
    cmd.kind = "cleanup" /\ ~cmd.faulted /\ ~cmd.dryRun =>
        /\ \A h \in Passed(cmd.after) : Allowed(h)
        /\ cmd.scanned - cmd.matched = Cardinality(Passed(cmd.after))

BatchInv == BatchKinds /\ ExportSoFar /\ ImportSoFar /\ CleanupSoFar /\ BatchWhole

(* The rows are finitely many.                                              *)
LEMMA RowsFinite ==
  ASSUME BatchAssumption, NEW S, S \subseteq BatchHash
  PROVE  IsFiniteSet(S) /\ Cardinality(S) \in Nat
<1>1. IsFiniteSet(S)
  BY FS_Subset DEF BatchAssumption
<1> QED
  BY <1>1, FS_CardinalityType

LEMMA IdsTyped ==
  ASSUME BatchAssumption, RowsValid
  PROVE  \A h \in BatchHash : batchRows[h].id \in Nat /\ batchRows[h].listed \in BOOLEAN
<1>1. Cardinality(BatchHash) \in Nat
  BY RowsFinite
<1> QED
  BY <1>1 DEF RowsValid

LEMMA Joined ==
  ASSUME NEW T, NEW s \in Seq(T), NEW t \in Seq(T)
  PROVE  /\ s \o t \in Seq(T) /\ Len(s \o t) = Len(s) + Len(t)
         /\ Len(s) \in Nat /\ Len(t) \in Nat
         /\ DOMAIN (s \o t) = 1..(Len(s) + Len(t)) /\ DOMAIN s = 1..Len(s)
         /\ \A i \in 1..Len(s) : (s \o t)[i] = s[i]
         /\ \A i \in 1..Len(t) : (s \o t)[Len(s) + i] = t[i]
OBVIOUS

LEMMA CommandTyped ==
  ASSUME BatchKinds
  PROVE  /\ cmd.kind \in {"none", "export", "import", "cleanup"}
         /\ cmd.kind = "none" <=> cmd = NoCommand
         /\ cmd.kind = "export" <=> cmd \in Exporting
         /\ cmd.kind = "import" <=> cmd \in Importing
         /\ cmd.kind = "cleanup" <=> cmd \in Cleaning
<1>1. /\ \A c \in Exporting : c.kind = "export"
      /\ \A c \in Importing : c.kind = "import"
      /\ \A c \in Cleaning : c.kind = "cleanup"
      /\ NoCommand.kind = "none"
  BY DEF NoCommand, Exporting, Importing, Cleaning
<1>2. cmd = NoCommand \/ cmd \in Exporting \/ cmd \in Importing \/ cmd \in Cleaning
  BY DEF BatchKinds
<1> QED
  BY <1>1, <1>2

(* A page lists rows not come past yet, in the order of their ids and none  *)
(* left out before its last.                                                *)
LEMMA PageListsAll ==
  ASSUME BatchAssumption, RowsValid, NEW after \in Nat, NEW page \in PageAfterId(after)
  PROVE  /\ page \in Seq(BatchHash) /\ Len(page) \in Nat /\ DOMAIN page = 1..Len(page)
         /\ Range(page) \subseteq Later(after)
         /\ IsFiniteSet(Range(page)) /\ Cardinality(Range(page)) = Len(page)
         /\ page = <<>> => Later(after) = {}
         /\ page # <<>> =>
               /\ page[Len(page)] \in Later(after)
               /\ Passed(batchRows[page[Len(page)]].id) = Passed(after) \cup Range(page)
<1> DEFINE n == UpToAPage(Cardinality(Later(after)))
<1>1. /\ Later(after) \subseteq BatchHash /\ Stored \subseteq BatchHash
      /\ \A h \in Stored : batchRows[h].id \in Nat
  BY DEF Later, Stored, RowsValid
<1>2. IsFiniteSet(Later(after)) /\ Cardinality(Later(after)) \in Nat
  BY <1>1, RowsFinite
<1>3. n \in Nat /\ (n = 0 => Cardinality(Later(after)) = 0)
  BY <1>2 DEF UpToAPage, BatchAssumption
<1> HIDE DEF n
<1>4. /\ page \in [1..n -> Later(after)]
      /\ \A i, j \in 1..n : i < j => batchRows[page[i]].id < batchRows[page[j]].id
      /\ \A i \in 1..n, h \in Later(after) \ Range(page) : batchRows[page[i]].id < batchRows[h].id
  BY DEF PageAfterId, n
<1>5. page \in Seq(BatchHash) /\ Len(page) = n /\ DOMAIN page = 1..n
  <2>1. page \in [1..n -> BatchHash]
    BY <1>1, <1>4
  <2>2. page \in Seq(BatchHash)
    BY <1>3, <2>1, SeqDef
  <2> QED
    BY <1>3, <2>1, <2>2
<1>6. Range(page) \subseteq Later(after)
  BY <1>4 DEF Range
<1>7. IsFiniteSet(Range(page)) /\ Cardinality(Range(page)) = n
  <2>1. \A i, j \in 1..n : page[i] = page[j] => i = j
    <3>1. SUFFICES ASSUME NEW i \in 1..n, NEW j \in 1..n, i < j PROVE page[i] # page[j]
      BY <1>3
    <3>2. batchRows[page[i]].id \in Nat /\ batchRows[page[j]].id \in Nat
      BY <1>1, <1>4 DEF Later
    <3>3. batchRows[page[i]].id < batchRows[page[j]].id
      BY <1>4, <3>1
    <3> QED
      BY <3>2, <3>3
  <2>2. page \in Bijection(1..n, Range(page))
    BY <1>4, <1>5, <2>1 DEF Bijection, Injection, Surjection, IsInjective, Range
  <2>3. ExistsBijection(1..n, Range(page))
    BY <2>2 DEF ExistsBijection
  <2> QED
    BY <1>3, <2>3, FS_Interval, FS_Bijection
<1>8. page = <<>> => Later(after) = {}
  BY <1>2, <1>3, <1>5, FS_EmptySet
<1>9. ASSUME page # <<>>
      PROVE  /\ page[n] \in Later(after)
             /\ Passed(batchRows[page[n]].id) = Passed(after) \cup Range(page)
  <2>1. n \in 1..n
    BY <1>3, <1>5, <1>9, EmptySeq
  <2>2. page[n] \in Later(after) /\ batchRows[page[n]].id > after /\ batchRows[page[n]].id \in Nat
    BY <1>1, <1>4, <2>1 DEF Later
  <2>3. ASSUME NEW h \in Range(page) PROVE h \in Passed(batchRows[page[n]].id)
    <3>1. PICK i \in 1..n : h = page[i]
      BY <1>5, <2>3 DEF Range
    <3>2. batchRows[page[i]].id <= batchRows[page[n]].id /\ h \in Stored
      <4>1. h \in Stored /\ batchRows[page[i]].id \in Nat
        BY <1>1, <1>6, <3>1 DEF Later
      <4>2. i = n \/ batchRows[page[i]].id < batchRows[page[n]].id
        BY <1>3, <1>4, <2>1
      <4> QED
        BY <2>2, <4>1, <4>2
    <3>3. h \in Stored /\ batchRows[h].id <= batchRows[page[n]].id
      BY <3>1, <3>2
    <3> QED
      BY <3>3 DEF Passed
  <2>4. ASSUME NEW h \in Passed(after) PROVE h \in Passed(batchRows[page[n]].id)
    <3>1. h \in Stored /\ batchRows[h].id \in Nat /\ batchRows[h].id <= after
      BY <1>1, <2>4 DEF Passed
    <3>2. batchRows[h].id <= batchRows[page[n]].id
      BY <2>2, <3>1
    <3> QED
      BY <3>1, <3>2 DEF Passed
  <2>5. ASSUME NEW h \in Passed(batchRows[page[n]].id), h \notin Range(page) PROVE h \in Passed(after)
    <3>1. SUFFICES ASSUME h \in Later(after) PROVE FALSE
      <4>1. h \in Stored /\ batchRows[h].id \in Nat
        BY <1>1, <2>5 DEF Passed
      <4> QED
        BY <4>1 DEF Passed, Later
    <3>2. batchRows[page[n]].id < batchRows[h].id
      BY <1>4, <2>1, <2>5, <3>1
    <3> QED
      BY <1>1, <2>2, <2>5, <3>2 DEF Passed
  <2> QED
    BY <2>2, <2>3, <2>4, <2>5
<1> QED
  BY <1>3, <1>5, <1>6, <1>7, <1>8, <1>9

LEMMA BatchInitInv == ASSUME BatchAssumption, BatchInit PROVE BatchInv
<1>1. PICK known \in SUBSET {h \in BatchHash : Accepts(policy, AsSeen(h))} :
         batchRows = [h \in BatchHash |-> IF h \in known
                                THEN [id |-> Cardinality({g \in known : g <= h}),
                                      listed |-> Raw[h].list # <<>>] ELSE Unstored]
  BY DEF BatchInit
<1> DEFINE UpTo(h) == {g \in known : g <= h}
<1>2. known \subseteq BatchHash /\ BatchHash \subseteq Nat /\ IsFiniteSet(known)
  BY FS_Subset DEF BatchAssumption
<1>3. ASSUME NEW h \in known
      PROVE  /\ UpTo(h) \subseteq known /\ IsFiniteSet(UpTo(h)) /\ h \in UpTo(h)
             /\ Cardinality(UpTo(h)) \in 1..Cardinality(BatchHash)
  <2>1. UpTo(h) \subseteq BatchHash /\ h \in UpTo(h) /\ UpTo(h) \subseteq known
    <3>1. h \in Nat /\ h <= h
      BY <1>2
    <3> QED
      BY <1>2, <3>1
  <2>2. IsFiniteSet(UpTo(h)) /\ Cardinality(UpTo(h)) \in Nat /\ Cardinality(BatchHash) \in Nat
    BY <2>1, RowsFinite DEF BatchAssumption
  <2>3. Cardinality(UpTo(h)) <= Cardinality(BatchHash)
    BY <2>1, FS_Subset DEF BatchAssumption
  <2>4. Cardinality(UpTo(h)) # 0
    BY <2>1, <2>2, FS_EmptySet
  <2> QED
    BY <2>1, <2>2, <2>3, <2>4
<1>4. ASSUME NEW g \in known, NEW h \in known, g < h PROVE Cardinality(UpTo(g)) # Cardinality(UpTo(h))
  <2>1. UpTo(g) \in SUBSET UpTo(h) /\ h \notin UpTo(g) /\ h \in UpTo(h)
    <3>1. g \in Nat /\ h \in Nat /\ h <= h /\ ~(h <= g)
      BY <1>2, <1>4
    <3>2. \A k \in known : k \in Nat /\ (k <= g => k <= h)
      BY <1>2, <1>4, <3>1
    <3> QED
      BY <3>1, <3>2
  <2> QED
    BY <1>3, <2>1, FS_Subset
<1>5. \A h \in known : batchRows[h].id = Cardinality(UpTo(h))
  BY <1>1, <1>2
<1> HIDE DEF UpTo
<1>6. \A h \in BatchHash : h \notin known => batchRows[h] = Unstored
  BY <1>1
<1>7. Stored = known
  <2>1. Unstored.id = 0
    BY DEF Unstored
  <2>2. \A h \in known : batchRows[h].id > 0
    <3>1. Cardinality(BatchHash) \in Nat
      BY RowsFinite
    <3> QED
      BY <1>3, <1>5, <3>1
  <2> QED
    <3>1. \A h \in BatchHash : h \notin known => ~(batchRows[h].id > 0)
      BY <1>6, <2>1
    <3> QED
      BY <1>2, <2>2, <3>1 DEF Stored
<1>8. \A g, h \in Stored : batchRows[g].id = batchRows[h].id => g = h
  BY <1>2, <1>4, <1>5, <1>7
<1>9. batchRows \in [BatchHash -> [id : 0..Cardinality(BatchHash), listed : BOOLEAN]]
  <2>1. \A h \in known : batchRows[h] = [id |-> Cardinality(UpTo(h)), listed |-> Raw[h].list # <<>>]
    BY <1>1, <1>2 DEF UpTo
  <2>2. Cardinality(BatchHash) \in Nat
    BY RowsFinite
  <2>3. \A h \in BatchHash : batchRows[h] \in [id : 0..Cardinality(BatchHash), listed : BOOLEAN]
    <3>1. ASSUME NEW h \in known
          PROVE  batchRows[h] \in [id : 0..Cardinality(BatchHash), listed : BOOLEAN]
      <4>1. Cardinality(UpTo(h)) \in 0..Cardinality(BatchHash)
        BY <1>3, <2>2
      <4>2. PICK l \in BOOLEAN : l = (Raw[h].list # <<>>)
        OBVIOUS
      <4>3. batchRows[h] = [id |-> Cardinality(UpTo(h)), listed |-> l]
        BY <2>1, <4>2, Zenon
      <4> QED
        BY <4>1, <4>3
    <3>2. Unstored \in [id : 0..Cardinality(BatchHash), listed : BOOLEAN]
      BY <2>2 DEF Unstored
    <3> QED
      BY <1>6, <3>1, <3>2
  <2>4. batchRows = [h \in BatchHash |-> batchRows[h]]
    BY <1>1
  <2> QED
    BY <2>3, <2>4
<1>10. BatchKinds
  BY <1>8, <1>9, EmptySeq DEF BatchInit, BatchKinds, RowsValid
<1> QED
  BY <1>10 DEF BatchInit, BatchInv, ExportSoFar, ImportSoFar, CleanupSoFar, BatchWhole, ExportWhole,
              ImportWhole, CleanupWhole, NoCommand

(* A step of a command that leaves the rows alone, and one that ends it.     *)
LEMMA RowsStay ==
  ASSUME UNCHANGED batchRows
  PROVE  /\ Stored' = Stored /\ (RowsValid => RowsValid')
         /\ \A after : Passed(after)' = Passed(after)
BY DEF Stored, RowsValid, Passed

LEMMA PolicyStays ==
  ASSUME UNCHANGED policy
  PROVE  \A h : Allowed(h)' = Allowed(h)
BY DEF Allowed

(* A command begins, from any rows and any file.                            *)
LEMMA BatchBegins ==
  ASSUME BatchAssumption, BatchInv, NEW b \in BOOLEAN,
         CmdExport(b) \/ CmdImport(b) \/ CmdCleanup(b)
  PROVE  BatchInv'
<1>1. /\ UNCHANGED <<batchRows, policy>> /\ report' = NoCommand
      /\ RowsValid'
  BY RowsStay DEF CmdExport, CmdImport, CmdCleanup, Begins, BatchInv, BatchKinds
<1>2. BatchWhole'
  BY <1>1 DEF BatchWhole, ExportWhole, ImportWhole, CleanupWhole, NoCommand
<1>3. \A h \in Stored : batchRows[h].id > 0 /\ batchRows[h].id \in Nat
  BY IdsTyped DEF Stored, BatchInv, BatchKinds
<1>4. Passed(0) = {}
  BY <1>3 DEF Passed
<1>5. Passed(0)' = {}
  BY <1>1, <1>4, RowsStay
<1>6. CASE CmdExport(b)
  <2>1. /\ file' = <<>>
        /\ cmd' = [kind |-> "export", noFiles |-> b, after |-> 0, total |-> 0, faulted |-> FALSE]
    BY <1>6 DEF CmdExport, Begins
  <2>2. cmd' \in Exporting
    BY <2>1 DEF Exporting
  <2>3. BatchKinds'
    BY <1>1, <2>1, <2>2, EmptySeq DEF BatchKinds
  <2>4. ExportSoFar'
    BY <1>5, <2>1, FS_EmptySet DEF ExportSoFar
  <2> QED
    BY <1>2, <2>1, <2>3, <2>4 DEF BatchInv, ImportSoFar, CleanupSoFar
<1>7. CASE CmdImport(b)
  <2>1. /\ file' = file
        /\ cmd' = [kind |-> "import", noFilter |-> b, next |-> 1, faulted |-> FALSE,
                   imported |-> 0, malformed |-> 0, rejected |-> 0]
    BY <1>7 DEF CmdImport, Begins
  <2>2. cmd' \in Importing
    BY <2>1 DEF Importing
  <2>3. BatchKinds' /\ Len(file) \in Nat
    BY <1>1, <2>1, <2>2 DEF BatchInv, BatchKinds
  <2>4. ImportSoFar'
    BY <2>1, <2>3 DEF ImportSoFar
  <2> QED
    BY <1>2, <2>1, <2>3, <2>4 DEF BatchInv, ExportSoFar, CleanupSoFar
<1>8. CASE CmdCleanup(b)
  <2>1. /\ file' = file
        /\ cmd' = [kind |-> "cleanup", dryRun |-> b, after |-> 0, scanned |-> 0, matched |-> 0,
                   faulted |-> FALSE]
    BY <1>8 DEF CmdCleanup, Begins
  <2>2. cmd' \in Cleaning
    BY <2>1 DEF Cleaning
  <2>3. BatchKinds'
    BY <1>1, <2>1, <2>2 DEF BatchInv, BatchKinds
  <2>4. CleanupSoFar'
    BY <1>5, <2>1, FS_EmptySet DEF CleanupSoFar
  <2> QED
    BY <1>2, <2>1, <2>3, <2>4 DEF BatchInv, ExportSoFar, ImportSoFar
<1> QED
  BY <1>6, <1>7, <1>8

(* A command that ends, by itself, by a page it cannot read, or killed.     *)
LEMMA NoCommandLeft ==
  ASSUME BatchInv, cmd' = NoCommand, RowsValid', file' \in Seq(FileLine), BatchWhole'
  PROVE  BatchInv'
BY DEF BatchInv, BatchKinds, ExportSoFar, ImportSoFar, CleanupSoFar, NoCommand

LEMMA ExportPageKept == ASSUME BatchAssumption, BatchInv, ExportPage PROVE BatchInv'
<1>1. PICK batch \in PageAfterId(cmd.after) :
         IF batch = <<>> THEN Reported /\ UNCHANGED file
         ELSE /\ file' = file \o [i \in DOMAIN batch |-> Line(batch[i])]
              /\ cmd' = [cmd EXCEPT !.after = batchRows[batch[Len(batch)]].id,
                                    !.total = @ + Len(batch)]
              /\ UNCHANGED report
  BY DEF ExportPage
<1>2. /\ cmd \in Exporting /\ cmd.kind = "export" /\ cmd.after \in Nat /\ cmd.total \in Nat
      /\ cmd.noFiles \in BOOLEAN /\ report = NoCommand /\ ~cmd.faulted
  BY CommandTyped DEF ExportPage, BatchInv, BatchKinds, Exporting, NoCommand
<1>3. UNCHANGED <<batchRows, policy>> /\ RowsValid /\ RowsValid' /\ Stored' = Stored
  BY RowsStay DEF ExportPage, BatchInv, BatchKinds
<1>4. /\ batch \in Seq(BatchHash) /\ Len(batch) \in Nat /\ DOMAIN batch = 1..Len(batch)
      /\ Range(batch) \subseteq Later(cmd.after)
      /\ IsFiniteSet(Range(batch)) /\ Cardinality(Range(batch)) = Len(batch)
      /\ batch = <<>> => Later(cmd.after) = {}
      /\ batch # <<>> =>
            /\ batch[Len(batch)] \in Later(cmd.after)
            /\ Passed(batchRows[batch[Len(batch)]].id) = Passed(cmd.after) \cup Range(batch)
  BY <1>2, <1>3, PageListsAll
<1>5. /\ file \in Seq(FileLine) /\ Len(file) \in Nat
      /\ cmd.total = Len(file) /\ Len(file) = Cardinality(Passed(cmd.after))
      /\ {file[i].hash : i \in DOMAIN file} = Passed(cmd.after)
  BY <1>2 DEF BatchInv, BatchKinds, ExportSoFar
<1>6. CASE batch = <<>>
  <2>1. report' = cmd /\ cmd' = NoCommand /\ file' = file
    BY <1>1, <1>6 DEF Reported
  <2>2. Passed(cmd.after) = Stored
    BY <1>2, <1>3, <1>4, <1>6 DEF Later, Passed, Stored, RowsValid
  <2>3. BatchWhole'
    BY <1>2, <1>3, <1>5, <2>1, <2>2 DEF BatchWhole, ExportWhole, ImportWhole, CleanupWhole
  <2> QED
    BY <1>3, <1>5, <2>1, <2>3, NoCommandLeft
<1>7. CASE batch # <<>>
  <2> DEFINE lines == [i \in DOMAIN batch |-> Line(batch[i])]
             last == batchRows[batch[Len(batch)]].id
  <2>1. /\ file' = file \o lines /\ report' = report
        /\ cmd' = [cmd EXCEPT !.after = last, !.total = @ + Len(batch)]
    BY <1>1, <1>7
  <2>2. lines \in Seq(FileLine) /\ Len(lines) = Len(batch) /\ \A i \in 1..Len(batch) : lines[i].hash = batch[i]
    <3>1. ASSUME NEW h \in BatchHash PROVE Line(h) \in FileLine /\ Line(h).hash = h
      <4>1. PICK l \in BOOLEAN : l = (batchRows[h].listed /\ ~cmd.noFiles)
        OBVIOUS
      <4>2. Line(h) = [kind |-> "torrent", hash |-> h, listed |-> l]
        BY <4>1, Zenon DEF Line
      <4> QED
        BY <4>2 DEF FileLine
    <3>2. \A i \in 1..Len(batch) : batch[i] \in BatchHash
      BY <1>4
    <3>3. lines \in [1..Len(batch) -> FileLine]
      BY <1>4, <3>1, <3>2
    <3>4. lines \in Seq(FileLine)
      BY <1>4, <3>3, SeqDef
    <3>5. Len(lines) = Len(batch)
      BY <1>4, <3>3, <3>4
    <3> QED
      BY <1>4, <3>1, <3>2, <3>4, <3>5
  <2> HIDE DEF lines
  <2>3. /\ file' \in Seq(FileLine) /\ Len(file') = Len(file) + Len(batch)
        /\ DOMAIN file' = 1..(Len(file) + Len(batch)) /\ DOMAIN file = 1..Len(file)
        /\ \A i \in 1..Len(file) : file'[i] = file[i]
        /\ \A i \in 1..Len(batch) : file'[Len(file) + i] = lines[i]
    <3>1. Len(lines) \in Nat /\ DOMAIN lines = 1..Len(lines)
      BY <2>2
    <3>2. PICK t \in Seq(FileLine) : t = lines
      BY <2>2
    <3>3. PICK s \in Seq(FileLine) : s = file
      BY <1>5
    <3>4. /\ s \o t \in Seq(FileLine) /\ Len(s \o t) = Len(s) + Len(t)
          /\ DOMAIN (s \o t) = 1..(Len(s) + Len(t)) /\ DOMAIN s = 1..Len(s)
          /\ \A i \in 1..Len(s) : (s \o t)[i] = s[i]
          /\ \A i \in 1..Len(t) : (s \o t)[Len(s) + i] = t[i]
      BY Joined
    <3> QED
      BY <2>1, <2>2, <3>2, <3>3, <3>4
  <2>4. Passed(cmd.after) \cap Range(batch) = {}
    <3>1. \A h \in Later(cmd.after) : h \in Stored /\ batchRows[h].id \in Nat /\ batchRows[h].id > cmd.after
      BY <1>3 DEF Later, Stored, RowsValid
    <3> QED
      BY <1>2, <1>4, <3>1 DEF Passed
  <2>5. IsFiniteSet(Passed(cmd.after)) /\ Cardinality(Passed(cmd.after)) \in Nat
    BY RowsFinite DEF Passed, Stored
  <2>6. Cardinality(Passed(last)) = Len(file) + Len(batch) /\ Passed(last) = Passed(cmd.after) \cup Range(batch)
    <3>1. Passed(last) = Passed(cmd.after) \cup Range(batch)
      BY <1>4, <1>7
    <3>2. Cardinality(Passed(cmd.after) \cup Range(batch)) =
             Cardinality(Passed(cmd.after)) + Cardinality(Range(batch)) - Cardinality({})
      BY <1>4, <2>4, <2>5, FS_Union
    <3> QED
      BY <1>4, <1>5, <2>5, <3>1, <3>2, FS_EmptySet
  <2>7. last \in Nat
    BY <1>3, <1>4, <1>7, IdsTyped DEF Later, Stored
  <2> HIDE DEF last
  <2>8. cmd' \in Exporting /\ cmd'.after = last /\ cmd'.total = cmd.total + Len(batch)
    <3>1. PICK b \in BOOLEAN, a \in Nat, n \in Nat :
             cmd = [kind |-> "export", noFiles |-> b, after |-> a, total |-> n, faulted |-> FALSE]
      BY <1>2 DEF Exporting
    <3>2. cmd' = [kind |-> "export", noFiles |-> b, after |-> last, total |-> n + Len(batch),
                  faulted |-> FALSE]
      BY <2>1, <3>1
    <3>3. n + Len(batch) \in Nat
      BY <1>4
    <3> QED
      BY <2>7, <3>1, <3>2, <3>3 DEF Exporting
  <2>9. {file'[i].hash : i \in DOMAIN file'} = Passed(last)
    <3>1. ASSUME NEW i \in DOMAIN file' PROVE file'[i].hash \in Passed(last)
      <4>1. CASE i \in 1..Len(file)
        BY <1>5, <2>3, <2>6, <4>1
      <4>2. CASE i \notin 1..Len(file)
        <5>1. i - Len(file) \in 1..Len(batch) /\ i = Len(file) + (i - Len(file))
          BY <1>4, <1>5, <2>3, <3>1, <4>2
        <5>2. file'[i].hash = batch[i - Len(file)]
          BY <2>2, <2>3, <5>1
        <5> QED
          BY <1>4, <2>6, <5>1, <5>2 DEF Range
      <4> QED
        BY <4>1, <4>2
    <3>2. ASSUME NEW h \in Passed(last) PROVE \E i \in DOMAIN file' : file'[i].hash = h
      <4>1. CASE h \in Passed(cmd.after)
        <5>1. PICK i \in DOMAIN file : file[i].hash = h
          BY <1>5, <4>1
        <5> QED
          BY <1>4, <1>5, <2>3, <5>1
      <4>2. CASE h \in Range(batch)
        <5>1. PICK i \in 1..Len(batch) : batch[i] = h
          BY <1>4, <4>2 DEF Range
        <5>2. Len(file) + i \in DOMAIN file'
          BY <1>4, <1>5, <2>3
        <5>3. file'[Len(file) + i].hash = h
          BY <2>2, <2>3, <5>1
        <5> QED
          BY <5>2, <5>3
      <4> QED
        BY <2>6, <4>1, <4>2
    <3> QED
      BY <3>1, <3>2
  <2>11. ExportSoFar'
    <3>1. \A after : Passed(after)' = Passed(after)
      BY <1>3, RowsStay
    <3> QED
      BY <1>5, <2>3, <2>6, <2>8, <2>9, <3>1 DEF ExportSoFar
  <2>12. BatchKinds' /\ ImportSoFar' /\ CleanupSoFar'
    BY <1>2, <1>3, <2>1, <2>3, <2>8 DEF BatchKinds, ImportSoFar, CleanupSoFar, Exporting
  <2>13. BatchWhole'
    BY <1>2, <2>1 DEF BatchWhole, ExportWhole, ImportWhole, CleanupWhole, NoCommand
  <2> QED
    BY <2>11, <2>12, <2>13 DEF BatchInv
<1> QED
  BY <1>6, <1>7

(* A row that is put there, under its own id or a free one.                  *)
LEMMA RowPut ==
  ASSUME BatchAssumption, RowsValid, NEW h \in BatchHash, NEW l \in BOOLEAN, PutRow(h, l)
  PROVE  RowsValid' /\ Stored' = Stored \cup {h}
<1>1. PICK id \in IF batchRows[h].id > 0 THEN {batchRows[h].id}
                  ELSE (1..Cardinality(BatchHash)) \ Ids :
         batchRows' = [batchRows EXCEPT ![h] = [id |-> id, listed |-> l]]
  BY DEF PutRow
<1>2. Cardinality(BatchHash) \in Nat /\ \A g \in BatchHash : batchRows[g].id \in Nat
  BY RowsFinite, IdsTyped
<1>3. id \in 1..Cardinality(BatchHash)
  BY <1>1, <1>2 DEF RowsValid
<1>4. \A g \in Stored : g # h => batchRows[g].id # id
  <2>1. CASE batchRows[h].id > 0
    BY <1>1, <2>1 DEF RowsValid, Stored
  <2>2. CASE ~(batchRows[h].id > 0)
    BY <1>1, <2>2 DEF Ids
  <2> QED
    BY <2>1, <2>2
<1>5. /\ batchRows' \in [BatchHash -> [id : 0..Cardinality(BatchHash), listed : BOOLEAN]]
      /\ batchRows'[h].id = id /\ \A g \in BatchHash : g # h => batchRows'[g] = batchRows[g]
  <2>1. [id |-> id, listed |-> l] \in [id : 0..Cardinality(BatchHash), listed : BOOLEAN]
    BY <1>2, <1>3
  <2> QED
    BY <1>1, <2>1 DEF RowsValid
<1>6. id > 0 /\ id \in Nat
  BY <1>2, <1>3
<1>7. Stored' = Stored \cup {h}
  BY <1>5, <1>6 DEF Stored
<1>8. \A f, g \in Stored' : batchRows'[f].id = batchRows'[g].id => f = g
  <2>1. \A g \in Stored : g \in BatchHash
    BY DEF Stored
  <2> QED
    <3>1. ASSUME NEW g \in Stored, g # h
          PROVE  batchRows'[g].id = batchRows[g].id /\ batchRows'[g].id # id
      BY <1>4, <1>5, <2>1, <3>1
    <3>2. \A f, g \in Stored : batchRows[f].id = batchRows[g].id => f = g
      BY DEF RowsValid
    <3>3. \A g \in Stored' : g = h \/ (g \in Stored /\ g # h)
      BY <1>7
    <3> QED
      BY <1>5, <3>1, <3>2, <3>3
<1> QED
  BY <1>5, <1>7, <1>8 DEF RowsValid

LEMMA ImportLineKept == ASSUME BatchAssumption, BatchInv, ImportLine PROVE BatchInv'
<1> DEFINE line == file[cmd.next]
<1>1. /\ cmd.kind = "import" /\ cmd.next <= Len(file) /\ UNCHANGED <<policy, file, report>>
      /\ file \in Seq(FileLine) /\ Len(file) \in Nat /\ report = NoCommand /\ RowsValid
  BY DEF ImportLine, BatchInv, BatchKinds, NoCommand
<1>2. PICK nf \in BOOLEAN, n \in Nat \ {0}, bad \in BOOLEAN, im \in Nat, ma \in Nat, re \in Nat :
         cmd = [kind |-> "import", noFilter |-> nf, next |-> n, faulted |-> bad, imported |-> im,
                malformed |-> ma, rejected |-> re]
  <2>1. cmd \in Importing
    BY <1>1, CommandTyped DEF BatchInv
  <2> QED
    BY <2>1 DEF Importing
<1>3. line = file[n] /\ line \in FileLine /\ n \in 1..Len(file)
  BY <1>1, <1>2
<1>4. /\ im + re + ma = n - 1
      /\ ~bad => \A i \in 1..(n - 1) : file[i].kind = "torrent" /\ (nf \/ Allowed(file[i].hash))
                                          => file[i].hash \in Stored
  BY <1>1, <1>2 DEF BatchInv, ImportSoFar
<1> HIDE DEF line
<1>5. ASSUME NEW b2 \in BOOLEAN, NEW i2 \in Nat, NEW m2 \in Nat, NEW r2 \in Nat,
             cmd' = [kind |-> "import", noFilter |-> nf, next |-> n + 1, faulted |-> b2,
                     imported |-> i2, malformed |-> m2, rejected |-> r2],
             i2 + m2 + r2 = n, b2 = FALSE => bad = FALSE,
             RowsValid', Stored \subseteq Stored',
             b2 = FALSE => (line.kind = "torrent" /\ (nf \/ Allowed(line.hash)) => line.hash \in Stored')
      PROVE  BatchInv'
  <2>1. cmd' \in Importing
    BY <1>5 DEF Importing
  <2>2. BatchKinds' /\ BatchWhole'
    BY <1>1, <1>5, <2>1
       DEF BatchKinds, BatchWhole, ExportWhole, ImportWhole, CleanupWhole, NoCommand
  <2>3. ASSUME ~b2, NEW i \in 1..n, file[i].kind = "torrent", nf \/ Allowed(file[i].hash)
        PROVE  file[i].hash \in Stored'
    <3>1. b2 = FALSE /\ ~bad
      BY <1>5, <2>3
    <3>2. CASE i = n
      BY <1>3, <1>5, <2>3, <3>1, <3>2
    <3>3. CASE i # n
      <4>1. i \in 1..(n - 1)
        BY <1>3, <3>3
      <4>2. file[i].hash \in Stored
        BY <1>4, <2>3, <3>1, <4>1
      <4> QED
        BY <1>5, <4>2
    <3> QED
      BY <3>2, <3>3
  <2>4. \A h : Allowed(h)' = Allowed(h)
    BY <1>1, PolicyStays
  <2>5. ImportSoFar'
    BY <1>1, <1>3, <1>5, <2>3, <2>4 DEF ImportSoFar
  <2> QED
    BY <1>5, <2>2, <2>5 DEF BatchInv, ExportSoFar, CleanupSoFar
<1>6. ASSUME UNCHANGED batchRows PROVE RowsValid' /\ Stored \subseteq Stored'
  BY <1>1, <1>6, RowsStay
<1>7. CASE line.kind = "malformed" /\ Counted("malformed") /\ UNCHANGED <<batchRows, faults>>
  <2>1. cmd' = [kind |-> "import", noFilter |-> nf, next |-> n + 1, faulted |-> bad, imported |-> im,
                malformed |-> ma + 1, rejected |-> re]
    BY <1>2, <1>7 DEF Counted
  <2>2. ma + 1 \in Nat /\ im + (ma + 1) + re = n
    BY <1>4
  <2> QED
    BY <1>5, <1>6, <1>7, <2>1, <2>2
<1>8. CASE /\ line.kind = "torrent" /\ ~cmd.noFilter /\ ~Accepts(policy, AsSeen(line.hash))
           /\ Counted("rejected") /\ UNCHANGED <<batchRows, faults>>
  <2>1. cmd' = [kind |-> "import", noFilter |-> nf, next |-> n + 1, faulted |-> bad, imported |-> im,
                malformed |-> ma, rejected |-> re + 1]
    BY <1>2, <1>8 DEF Counted
  <2>2. re + 1 \in Nat /\ im + ma + (re + 1) = n /\ ~nf /\ ~Allowed(line.hash)
    BY <1>2, <1>4, <1>8 DEF Allowed
  <2> QED
    BY <1>5, <1>6, <1>8, <2>1, <2>2
<1>9. CASE /\ line.kind = "torrent" /\ Counted("imported") /\ PutRow(line.hash, line.listed)
  <2>1. cmd' = [kind |-> "import", noFilter |-> nf, next |-> n + 1, faulted |-> bad, imported |-> im + 1,
                malformed |-> ma, rejected |-> re]
    BY <1>2, <1>9 DEF Counted
  <2>2. line.hash \in BatchHash /\ line.listed \in BOOLEAN
    BY <1>3, <1>9 DEF FileLine
  <2>3. RowsValid' /\ Stored' = Stored \cup {line.hash}
    BY <1>1, <1>9, <2>2, RowPut
  <2>4. im + 1 \in Nat /\ (im + 1) + ma + re = n
    BY <1>4
  <2> QED
    BY <1>5, <2>1, <2>3, <2>4
<1>10. CASE /\ Fault /\ UNCHANGED batchRows
            /\ cmd' = [Faulted EXCEPT !.malformed = @ + 1, !.next = @ + 1]
  <2>1. cmd' = [kind |-> "import", noFilter |-> nf, next |-> n + 1, faulted |-> TRUE, imported |-> im,
                malformed |-> ma + 1, rejected |-> re]
    BY <1>2, <1>10 DEF Faulted
  <2>2. ma + 1 \in Nat /\ im + (ma + 1) + re = n
    BY <1>4
  <2> QED
    BY <1>5, <1>6, <1>10, <2>1, <2>2
<1> QED
  BY <1>7, <1>8, <1>9, <1>10 DEF ImportLine, line

LEMMA ImportDoneKept == ASSUME BatchAssumption, BatchInv, ImportDone PROVE BatchInv'
<1>1. /\ cmd.kind = "import" /\ cmd.next > Len(file) /\ report' = cmd /\ cmd' = NoCommand
      /\ UNCHANGED <<batchRows, policy, file>>
      /\ file \in Seq(FileLine) /\ Len(file) \in Nat /\ RowsValid
  BY DEF ImportDone, Reported, BatchInv, BatchKinds
<1>2. cmd \in Importing /\ cmd.next \in Nat
  BY <1>1, CommandTyped DEF BatchInv, Importing
<1>3. cmd.next = Len(file) + 1
  BY <1>1, <1>2 DEF BatchInv, ImportSoFar
<1>4. RowsValid' /\ Stored' = Stored
  BY <1>1, RowsStay
<1>5. ImportWhole'
  <2>1. report'.imported + report'.rejected + report'.malformed = Len(file)
    <3>1. cmd.imported + cmd.rejected + cmd.malformed = cmd.next - 1
      BY <1>1 DEF BatchInv, ImportSoFar
    <3> QED
      BY <1>1, <1>3, <3>1
  <2>2. ~cmd.faulted => \A i \in DOMAIN file :
           file[i].kind = "torrent" /\ (cmd.noFilter \/ Accepts(policy, AsSeen(file[i].hash)))
             => file[i].hash \in Stored
    <3>1. DOMAIN file = 1..(cmd.next - 1)
      BY <1>1, <1>3
    <3> QED
      BY <1>1, <3>1 DEF BatchInv, ImportSoFar, Allowed
  <2> QED
    BY <1>1, <1>4, <2>1, <2>2 DEF ImportWhole
<1>6. BatchWhole'
  BY <1>1, <1>5 DEF BatchWhole, ExportWhole, CleanupWhole
<1> QED
  BY <1>1, <1>4, <1>6, NoCommandLeft

LEMMA CleanupPageKept == ASSUME BatchAssumption, BatchInv, CleanupPage PROVE BatchInv'
<1> DEFINE Rejects(batch) == {h \in Range(batch) : ~Accepts(policy, AsSeen(h))}
<1>1. PICK batch \in PageAfterId(cmd.after) :
         IF batch = <<>> THEN Reported /\ UNCHANGED <<batchRows, faults>>
         ELSE \E kept \in SUBSET Rejects(batch) :
                /\ IF kept = {} THEN UNCHANGED faults ELSE ~cmd.dryRun /\ Fault
                /\ batchRows' = [h \in BatchHash |-> IF h \in Rejects(batch) \ kept /\ ~cmd.dryRun
                                                    THEN Unstored ELSE batchRows[h]]
                /\ cmd' = [cmd EXCEPT !.after = batchRows[batch[Len(batch)]].id,
                                      !.scanned = @ + Len(batch),
                                      !.matched = @ + Cardinality(Rejects(batch)),
                                      !.faulted = @ \/ kept # {}]
                /\ UNCHANGED report
  BY DEF CleanupPage
<1>2. /\ cmd.kind = "cleanup" /\ UNCHANGED <<policy, file>> /\ file \in Seq(FileLine) /\ RowsValid
      /\ report = NoCommand
  <2>1. /\ cmd.kind = "cleanup" /\ UNCHANGED <<policy, file>>
    BY DEF CleanupPage
  <2>2. cmd # NoCommand
    BY <2>1 DEF NoCommand
  <2> QED
    BY <2>1, <2>2 DEF BatchInv, BatchKinds
<1>3. PICK dry \in BOOLEAN, a \in Nat, sc \in Nat, ma \in Nat, bad \in BOOLEAN :
         cmd = [kind |-> "cleanup", dryRun |-> dry, after |-> a, scanned |-> sc, matched |-> ma,
                faulted |-> bad]
  <2>1. cmd \in Cleaning
    BY <1>2, CommandTyped DEF BatchInv
  <2> QED
    BY <2>1 DEF Cleaning
<1>4. cmd.after = a /\ cmd.dryRun = dry /\ cmd.faulted = bad /\ cmd.scanned = sc /\ cmd.matched = ma
  BY <1>3
<1>5. /\ batch \in Seq(BatchHash) /\ Len(batch) \in Nat /\ DOMAIN batch = 1..Len(batch)
      /\ Range(batch) \subseteq Later(a)
      /\ IsFiniteSet(Range(batch)) /\ Cardinality(Range(batch)) = Len(batch)
      /\ batch = <<>> => Later(a) = {}
      /\ batch # <<>> =>
            /\ batch[Len(batch)] \in Later(a)
            /\ Passed(batchRows[batch[Len(batch)]].id) = Passed(a) \cup Range(batch)
  BY <1>2, <1>4, PageListsAll
<1>6. ~bad /\ ~dry => (\A h \in Passed(a) : Allowed(h)) /\ sc - ma = Cardinality(Passed(a))
  BY <1>2, <1>4 DEF BatchInv, CleanupSoFar
<1>7. \A h \in BatchHash : batchRows[h].id \in Nat
  BY <1>2, IdsTyped
<1>8. CASE batch = <<>>
  <2>1. report' = cmd /\ cmd' = NoCommand /\ UNCHANGED batchRows
    BY <1>1, <1>8 DEF Reported
  <2>2. Passed(a) = Stored
    <3>1. \A h \in Stored : h \in BatchHash /\ ~(batchRows[h].id > a)
      BY <1>5, <1>8 DEF Later, Stored
    <3>2. ASSUME NEW h \in Stored PROVE batchRows[h].id <= a
      <4>1. batchRows[h].id \in Nat /\ ~(batchRows[h].id > a)
        BY <1>7, <3>1
      <4> QED
        BY <4>1
    <3> QED
      BY <3>2 DEF Passed
  <2>3. RowsValid' /\ Stored' = Stored
    BY <1>2, <2>1, RowsStay
  <2>4. CleanupWhole'
    BY <1>2, <1>4, <1>6, <2>1, <2>2, <2>3 DEF CleanupWhole, Allowed
  <2>5. BatchWhole'
    BY <1>2, <2>1, <2>4 DEF BatchWhole, ExportWhole, ImportWhole
  <2> QED
    BY <1>2, <2>1, <2>3, <2>5, NoCommandLeft
<1>9. CASE batch # <<>>
  <2> DEFINE refused == Rejects(batch)
             last == batchRows[batch[Len(batch)]].id
  <2>1. PICK kept \in SUBSET refused :
           /\ batchRows' = [h \in BatchHash |-> IF h \in refused \ kept /\ ~dry
                                               THEN Unstored ELSE batchRows[h]]
           /\ cmd' = [cmd EXCEPT !.after = last, !.scanned = @ + Len(batch),
                                 !.matched = @ + Cardinality(refused), !.faulted = @ \/ kept # {}]
           /\ UNCHANGED report
    BY <1>1, <1>4, <1>9, ZenonT(40)
  <2>2. /\ refused \subseteq Range(batch) /\ Range(batch) \subseteq BatchHash
        /\ \A h \in Range(batch) : h \notin refused <=> Allowed(h)
    BY <1>5 DEF Later, Stored, Allowed
  <2>3. last \in Nat /\ Passed(last) = Passed(a) \cup Range(batch)
    BY <1>5, <1>7, <1>9 DEF Later, Stored
  <2>4. /\ IsFiniteSet(refused) /\ Cardinality(refused) \in Nat
        /\ Cardinality(Range(batch) \ refused) = Len(batch) - Cardinality(refused)
    <3>1. IsFiniteSet(refused) /\ Cardinality(refused) \in Nat /\ Range(batch) \cap refused = refused
      BY <2>2, RowsFinite
    <3> QED
      BY <1>5, <3>1, FS_Difference
  <2> HIDE DEF refused, last
  <2>5. PICK b2 \in BOOLEAN : /\ b2 = (bad \/ kept # {})
                             /\ cmd' = [kind |-> "cleanup", dryRun |-> dry, after |-> last,
                                        scanned |-> sc + Len(batch), matched |-> ma + Cardinality(refused),
                                        faulted |-> b2]
    <3>1. PICK b2 \in BOOLEAN : b2 = (bad \/ kept # {})
      OBVIOUS
    <3>2. cmd' = [kind |-> "cleanup", dryRun |-> dry, after |-> last, scanned |-> sc + Len(batch),
                  matched |-> ma + Cardinality(refused), faulted |-> b2]
      BY <1>3, <2>1, <3>1
    <3> QED
      BY <3>1, <3>2
  <2>6. cmd' \in Cleaning
    <3>1. sc + Len(batch) \in Nat /\ ma + Cardinality(refused) \in Nat
      BY <1>5, <2>4
    <3> QED
      BY <2>3, <2>5, <3>1 DEF Cleaning
  <2>7. /\ batchRows' \in [BatchHash -> [id : 0..Cardinality(BatchHash), listed : BOOLEAN]]
        /\ \A h \in BatchHash : IF h \in refused \ kept /\ ~dry THEN batchRows'[h].id = 0
                                ELSE batchRows'[h] = batchRows[h]
    <3>1. Unstored \in [id : 0..Cardinality(BatchHash), listed : BOOLEAN] /\ Unstored.id = 0
      <4>1. Cardinality(BatchHash) \in Nat
        BY RowsFinite
      <4> QED
        BY <4>1 DEF Unstored
    <3> QED
      BY <1>2, <2>1, <3>1 DEF RowsValid
  <2>8. \A h \in Stored' : h \in Stored /\ batchRows'[h] = batchRows[h]
    <3>1. SUFFICES ASSUME NEW h \in BatchHash, batchRows'[h].id > 0
                   PROVE  batchRows[h].id > 0 /\ batchRows'[h] = batchRows[h]
      BY DEF Stored
    <3>2. ~(h \in refused \ kept /\ ~dry)
      BY <2>7, <3>1
    <3> QED
      BY <2>7, <3>1, <3>2
  <2>9. RowsValid'
    BY <1>2, <2>7, <2>8 DEF RowsValid
  <2>10. BatchKinds' /\ BatchWhole'
    BY <1>2, <2>1, <2>5, <2>6, <2>9
       DEF BatchKinds, BatchWhole, ExportWhole, ImportWhole, CleanupWhole, NoCommand
  <2>11. ASSUME ~bad, ~dry, kept = {}
         PROVE  /\ Passed(cmd.after)' = Passed(a) \cup (Range(batch) \ refused)
                /\ Passed(a) \cap Range(batch) = {}
    <3>1. Passed(a) \cap Range(batch) = {}
      <4>1. \A h \in Later(a) : h \in BatchHash /\ batchRows[h].id > a
        BY DEF Later, Stored
      <4>2. ASSUME NEW h \in Later(a) PROVE h \notin Passed(a)
        <5>1. batchRows[h].id \in Nat /\ batchRows[h].id > a
          BY <1>7, <4>1
        <5> QED
          BY <5>1 DEF Passed
      <4> QED
        BY <1>5, <4>2
    <3>2. Stored' = Stored \ refused
      <4>1. ASSUME NEW h \in refused PROVE h \notin Stored'
        <5>1. h \in BatchHash /\ batchRows'[h].id = 0
          BY <2>2, <2>7, <2>11
        <5> QED
          BY <5>1 DEF Stored
      <4>2. \A h \in BatchHash : h \notin refused => batchRows'[h] = batchRows[h]
        BY <2>7
      <4>3. \A h \in Stored : h \notin refused => h \in Stored'
        BY <4>2 DEF Stored
      <4> QED
        BY <2>8, <4>1, <4>3
    <3>3. \A h \in Stored' : batchRows'[h].id = batchRows[h].id
      BY <2>8
    <3>4. {h \in Stored' : batchRows'[h].id <= last} = {h \in Stored : batchRows[h].id <= last} \ refused
      BY <3>2, <3>3
    <3>5. {h \in Stored' : batchRows'[h].id <= last} = Passed(last) \ refused
      BY <3>4 DEF Passed
    <3>6. Passed(cmd.after)' = Passed(last) \ refused
      BY <2>5, <3>5 DEF Passed
    <3> QED
      BY <2>2, <2>3, <3>1, <3>6
  <2>12. CleanupSoFar'
    <3>1. SUFFICES ASSUME ~b2, ~dry
                   PROVE  /\ \A h \in Passed(cmd.after)' : Allowed(h)'
                          /\ cmd'.scanned - cmd'.matched = Cardinality(Passed(cmd.after)')
      BY <2>5 DEF CleanupSoFar
    <3>2. ~bad /\ kept = {}
      BY <2>5, <3>1
    <3>3. /\ Passed(cmd.after)' = Passed(a) \cup (Range(batch) \ refused)
          /\ Passed(a) \cap Range(batch) = {}
      BY <2>11, <3>1, <3>2
    <3>4. \A h \in Passed(a) : Allowed(h)
      BY <1>6, <3>1, <3>2
    <3>5. \A h : Allowed(h)' = Allowed(h)
      BY <1>2, PolicyStays
    <3>6. IsFiniteSet(Passed(a)) /\ Cardinality(Passed(a)) \in Nat
      BY RowsFinite DEF Passed, Stored
    <3>7. Cardinality(Passed(a) \cup (Range(batch) \ refused)) =
             Cardinality(Passed(a)) + (Len(batch) - Cardinality(refused))
      <4>1. IsFiniteSet(Range(batch) \ refused) /\ Passed(a) \cap (Range(batch) \ refused) = {}
        BY <1>5, <3>3, FS_Difference
      <4>2. Cardinality(Passed(a) \cup (Range(batch) \ refused)) =
               Cardinality(Passed(a)) + Cardinality(Range(batch) \ refused) - Cardinality({})
        BY <3>6, <4>1, FS_Union
      <4> QED
        BY <1>5, <2>4, <3>6, <4>2, FS_EmptySet
    <3>8. cmd'.scanned = sc + Len(batch) /\ cmd'.matched = ma + Cardinality(refused)
      BY <2>5
    <3>9. sc - ma = Cardinality(Passed(a))
      BY <1>6, <3>1, <3>2
    <3>10. cmd'.scanned - cmd'.matched = Cardinality(Passed(cmd.after)')
      BY <1>5, <2>4, <3>3, <3>6, <3>7, <3>8, <3>9
    <3> QED
      BY <2>2, <3>3, <3>4, <3>5, <3>10
  <2> QED
    BY <2>5, <2>10, <2>12 DEF BatchInv, ExportSoFar, ImportSoFar
<1> QED
  BY <1>8, <1>9

(* What is done between two commands; no command is at work.                *)
LEMMA BetweenCommands ==
  ASSUME BatchAssumption, BatchInv,
         PageFails \/ (\E h \in BatchHash : CmdAdd(h)) \/ EditConfig \/ EditFile \/ FreshDataDir \/ Killed
  PROVE  BatchInv'
<1>1. RowsValid /\ file \in Seq(FileLine) /\ (cmd # NoCommand => report = NoCommand)
  BY DEF BatchInv, BatchKinds
<1>2. BatchWhole' /\ cmd' = NoCommand
  <2>1. CASE PageFails
    <3>1. /\ cmd.kind \in {"export", "cleanup"} /\ cmd' = NoCommand
          /\ report' = [cmd EXCEPT !.faulted = TRUE]
      BY <2>1 DEF PageFails, Faulted
    <3>2. cmd \in Exporting \/ cmd \in Cleaning
      BY <3>1, CommandTyped DEF BatchInv
    <3>3. report'.kind = cmd.kind /\ report'.faulted = TRUE
      BY <3>1, <3>2 DEF Exporting, Cleaning
    <3> QED
      BY <3>1, <3>3 DEF BatchWhole, ExportWhole, ImportWhole, CleanupWhole
  <2>2. CASE (\E h \in BatchHash : CmdAdd(h)) \/ EditConfig \/ EditFile \/ FreshDataDir
    <3>1. cmd' = NoCommand /\ report' = NoCommand
      BY <2>2 DEF CmdAdd, EditConfig, EditFile, FreshDataDir
    <3> QED
      BY <3>1 DEF BatchWhole, ExportWhole, ImportWhole, CleanupWhole, NoCommand
  <2>3. CASE Killed
    <3>1. cmd' = NoCommand /\ report' = NoCommand
      BY <1>1, <2>3 DEF Killed
    <3> QED
      BY <3>1 DEF BatchWhole, ExportWhole, ImportWhole, CleanupWhole, NoCommand
  <2> QED
    BY <2>1, <2>2, <2>3
<1>3. RowsValid'
  <2>1. CASE PageFails \/ EditConfig \/ EditFile \/ Killed
    <3>1. UNCHANGED batchRows
      BY <2>1 DEF PageFails, EditConfig, EditFile, Killed
    <3> QED
      BY <1>1, <3>1, RowsStay
  <2>2. ASSUME NEW h \in BatchHash, CmdAdd(h) PROVE RowsValid'
    BY <1>1, <2>2, RowPut DEF CmdAdd
  <2>3. CASE FreshDataDir
    <3>1. batchRows' = [h \in BatchHash |-> Unstored] /\ Unstored.id = 0
      BY <2>3 DEF FreshDataDir, Unstored
    <3>2. Unstored \in [id : 0..Cardinality(BatchHash), listed : BOOLEAN]
      <4>1. Cardinality(BatchHash) \in Nat
        BY RowsFinite
      <4> QED
        BY <4>1 DEF Unstored
    <3>3. Stored' = {}
      BY <3>1 DEF Stored
    <3> QED
      BY <3>1, <3>2, <3>3 DEF RowsValid
  <2> QED
    BY <2>1, <2>2, <2>3
<1>4. file' \in Seq(FileLine)
  <2>1. file' = file \/ file' = Append(file, [kind |-> "malformed"])
    BY DEF PageFails, CmdAdd, EditConfig, EditFile, FreshDataDir, Killed
  <2>2. [kind |-> "malformed"] \in FileLine
    BY DEF FileLine
  <2> QED
    BY <1>1, <2>1, <2>2
<1> QED
  BY <1>2, <1>3, <1>4, NoCommandLeft

(* The rows' ids, what a command has gone through so far, and that one that
   ends has done all it was asked to, in every reachable state.             *)
THEOREM BatchInvHolds == BatchSpec => []BatchInv
<1>1. BatchInit => BatchInv
  BY BatchAssumption, BatchInitInv
<1>2. BatchInv /\ [BatchNext]_batchVars => BatchInv'
  <2>1. ASSUME BatchInv, BatchNext PROVE BatchInv'
    BY <2>1, BatchAssumption, BatchBegins, ExportPageKept, ImportLineKept, ImportDoneKept,
       CleanupPageKept, BetweenCommands DEF BatchNext
  <2>2. ASSUME BatchInv, UNCHANGED batchVars PROVE BatchInv'
    <3>1. /\ UNCHANGED <<batchRows, policy, file, cmd, report>>
          /\ Stored' = Stored /\ (RowsValid => RowsValid')
          /\ (\A after : Passed(after)' = Passed(after)) /\ (\A h : Allowed(h)' = Allowed(h))
      BY <2>2, RowsStay, PolicyStays DEF batchVars
    <3>2. BatchKinds' /\ ExportSoFar' /\ ImportSoFar' /\ CleanupSoFar'
      BY <2>2, <3>1 DEF BatchInv, BatchKinds, ExportSoFar, ImportSoFar, CleanupSoFar
    <3>3. BatchWhole'
      BY <2>2, <3>1 DEF BatchInv, BatchWhole, ExportWhole, ImportWhole, CleanupWhole, Allowed
    <3> QED
      BY <3>2, <3>3 DEF BatchInv
  <2> QED
    BY <2>1, <2>2
<1> QED
  BY <1>1, <1>2, PTL DEF BatchSpec

\* The rows the batch commands read and write keep ids that no two of them share
\* (groonga_index.cpp), and a command is one of the three (main.cpp).
THEOREM BatchTypeCorrect == BatchSpec => []BatchTypeOK
<1>1. BatchInv => BatchTypeOK
  BY CommandTyped DEF BatchInv, BatchKinds, RowsValid, BatchTypeOK
<1> QED
  BY <1>1, BatchInvHolds, PTL

(* An export, import or cleanup that ends has gone through every row, or
   line, though rows come and go and any command may be killed or fail.     *)
THEOREM BatchWholeHolds == BatchSpec => []BatchWhole
<1>1. BatchInv => BatchWhole
  BY DEF BatchInv
<1> QED
  BY <1>1, BatchInvHolds, PTL

-----------------------------------------------------------------------------
(* The engine, all parts together                                           *)

\* Whatever the parts of the native program do, each beside the others: their state
\* stays of its kind, a scraper's slots in their bound, a file in the session that of
\* a download, and no two rows of the index with one id.
THEOREM NativeTypeCorrect ==
  ASSUME DownloadsAssumptions, TorrentIndexAssumptions, PeerNodeAssumptions
  PROVE  EngineSpec => []NativeTypeOK
  <1>1. (Spec => []TypeOK) /\ (DownloadsSpec => []DownloadsTypeOK) /\ (IndexSpec => []IndexTypeOK)
    BY TypeCorrect, DownloadsTypeCorrect, IndexTypeCorrect
  <1>2. (SwarmSpec => []SwarmTypeOK) /\ (TuiSpec => []TuiTypeOK) /\ (BatchSpec => []BatchTypeOK)
    BY SwarmTypeCorrect, TuiTypeCorrect, BatchTypeCorrect
  <1> QED
    BY <1>1, <1>2, PTL DEF EngineSpec, NativeTypeOK

\* Neither a completion nor a prune chain goes back on itself.
THEOREM NoStepBackHolds ==
  ASSUME DownloadsAssumptions, TorrentIndexAssumptions
  PROVE  EngineSpec => NoStepBack
  <1>1. (DownloadsSpec => NeverDowngraded) /\ (IndexSpec => EndsAtCap)
    BY NeverDowngradedHolds, EndsAtCapHolds
  <1> QED
    BY <1>1, PTL DEF EngineSpec, NoStepBack
=============================================================================
