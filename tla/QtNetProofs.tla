------------------------------ MODULE QtNetProofs ------------------------------
(***************************************************************************)
(* The parts of the Qt program that face librats, peers, trackers and      *)
(* clients, for every value of their constants: the downloads and librats  *)
(* agree, a .torrent that is asked for is owed once, own votes count once  *)
(* and the feed is owed to its table, the table of peers is that of the    *)
(* links, rows that are exchanged lose nothing, every scrape has its slot  *)
(* and its answers to come, no request is answered twice, and the window   *)
(* shows of a torrent what is its own.                                     *)
(***************************************************************************)
EXTENDS QtPeers, SequenceTheorems, FiniteSetTheorems, TLAPS

-----------------------------------------------------------------------------
(* The downloads.  The invariant is the agreement with the kinds of what is *)
(* kept: a session entry is a download, whichever run wrote it.             *)

DownloadKinds ==
    /\ DOMAIN downloads \subseteq InfoHash /\ downloads \in [DOMAIN downloads -> Download]
    /\ DOMAIN session \subseteq InfoHash /\ session \in [DOMAIN session -> Download]
    /\ DOMAIN client \subseteq InfoHash /\ client \in [DOMAIN client -> Torrent]
    /\ content \subseteq InfoHash /\ resume \subseteq InfoHash /\ announced \subseteq InfoHash

Switches == up \in BOOLEAN /\ ready \in BOOLEAN

RegistryInv == Switches /\ DownloadKinds /\ RegistryAgrees

LEMMA EntriesAre ==
  ASSUME NEW S, NEW f, DOMAIN f \subseteq InfoHash, f \in [DOMAIN f -> S]
  PROVE  f \in Entries(S)
BY DEF Entries

LEMMA RegistryGivesTypeOK == RegistryInv => DownloadTypeOK
<1> SUFFICES ASSUME RegistryInv PROVE DownloadTypeOK
  OBVIOUS
<1>1. up \in BOOLEAN /\ ready \in BOOLEAN
  BY Zenon DEF RegistryInv, Switches
<1>2. /\ downloads \in Entries(Download) /\ session \in Entries(Download)
      /\ client \in Entries(Torrent)
  BY EntriesAre DEF RegistryInv, DownloadKinds
<1> QED
  BY <1>1, <1>2, Zenon DEF RegistryInv, DownloadKinds, DownloadTypeOK

LEMMA DownloadStarts == DownloadInit => RegistryInv
BY DEF DownloadInit, RegistryInv, Switches, DownloadKinds, RegistryAgrees, NoEntries

LEMMA AddKeeps ==
  ASSUME RegistryInv, NEW h \in InfoHash, Add(h) \/ AddFromFile(h) \/ RegisterSeed(h)
  PROVE  RegistryInv'
<1>0. /\ DOMAIN downloads \subseteq InfoHash /\ downloads \in [DOMAIN downloads -> Download]
      /\ DOMAIN client \subseteq InfoHash /\ client \in [DOMAIN client -> Torrent]
  BY DEF RegistryInv, DownloadKinds
<1>1. PICK known \in BOOLEAN, whole \in BOOLEAN :
         /\ h \notin DOMAIN downloads
         /\ client' = With(client, h, [meta |-> known, complete |-> whole, paused |-> FALSE])
         /\ downloads' = With(downloads, h, Begun(known, whole))
         /\ whole => announced' = announced \cup {h}
  <2>1. CASE Add(h)
    BY <2>1 DEF Add, IsDownloading
  <2>2. CASE AddFromFile(h)
    BY <2>2 DEF AddFromFile, IsDownloading
  <2>3. CASE RegisterSeed(h)
    BY <2>3 DEF RegisterSeed, IsDownloading
  <2> QED
    BY <2>1, <2>2, <2>3
<1>2. /\ UNCHANGED <<resume, session>>
      /\ content' \subseteq InfoHash /\ announced' \subseteq InfoHash
      /\ announced \subseteq announced'
  BY DEF Add, AddFromFile, RegisterSeed, RegistryInv, DownloadKinds
<1>3. Switches'
  <2>1. UNCHANGED <<up, ready>>
    BY DEF Add, AddFromFile, RegisterSeed
  <2> QED
    BY <2>1, Zenon DEF RegistryInv, Switches
<1> DEFINE d == Begun(known, whole)
           c == [meta |-> known, complete |-> whole, paused |-> FALSE]
<1>4. /\ d \in Download /\ d.paused = FALSE /\ d.completed = whole
      /\ c \in Torrent /\ c.paused = FALSE
  BY DEF Begun, Download, Torrent
<1> HIDE DEF d, c
<1>5. downloads' = With(downloads, h, d) /\ client' = With(client, h, c)
  BY <1>1 DEF d, c
<1>6. /\ DOMAIN downloads' = DOMAIN downloads \cup {h}
      /\ downloads' \in [DOMAIN downloads' -> Download] /\ downloads'[h] = d
      /\ \A k \in DOMAIN downloads : k # h => downloads'[k] = downloads[k]
  BY <1>0, <1>4, <1>5 DEF With
<1>7. /\ DOMAIN client' = DOMAIN client \cup {h}
      /\ client' \in [DOMAIN client' -> Torrent] /\ client'[h] = c
      /\ \A k \in DOMAIN client : k # h => client'[k] = client[k]
  BY <1>0, <1>4, <1>5 DEF With
<1>8. DownloadKinds'
  BY <1>2, <1>6, <1>7 DEF RegistryInv, DownloadKinds
<1>9. RegistryAgrees'
  BY <1>1, <1>2, <1>4, <1>6, <1>7 DEF RegistryInv, RegistryAgrees
<1> QED
  BY <1>3, <1>8, <1>9 DEF RegistryInv

LEMMA RemoveKeeps ==
  ASSUME RegistryInv, NEW h \in InfoHash, RemoveDownload(h)
  PROVE  RegistryInv'
<1>0. /\ DOMAIN downloads \subseteq InfoHash /\ downloads \in [DOMAIN downloads -> Download]
      /\ DOMAIN client \subseteq InfoHash /\ client \in [DOMAIN client -> Torrent]
  BY DEF RegistryInv, DownloadKinds
<1>1. /\ downloads' = Without(downloads, h) /\ client' = Without(client, h)
      /\ announced' = announced \ {h} /\ UNCHANGED <<up, ready, content, resume, session>>
  BY DEF RemoveDownload
<1>2. /\ DOMAIN downloads' = DOMAIN downloads \ {h}
      /\ downloads' \in [DOMAIN downloads' -> Download]
      /\ \A k \in DOMAIN downloads \ {h} : downloads'[k] = downloads[k]
  BY <1>0, <1>1 DEF Without
<1>3. /\ DOMAIN client' = DOMAIN client \ {h}
      /\ client' \in [DOMAIN client' -> Torrent]
      /\ \A k \in DOMAIN client \ {h} : client'[k] = client[k]
  BY <1>0, <1>1 DEF Without
<1>4. Switches'
  BY <1>1, Zenon DEF RegistryInv, Switches
<1>5. DownloadKinds'
  BY <1>1, <1>2, <1>3 DEF RegistryInv, DownloadKinds
<1>6. RegistryAgrees'
  BY <1>1, <1>2, <1>3 DEF RegistryInv, RegistryAgrees
<1> QED
  BY <1>4, <1>5, <1>6 DEF RegistryInv

\* A step that changes entries where they are: each stays of its kind, the two sides
\* stay paused alike, and what becomes complete is announced.
LEMMA InPlaceKeeps ==
  ASSUME RegistryInv,
         UNCHANGED <<up, ready, resume, session>>,
         content' \subseteq InfoHash, announced' \subseteq InfoHash,
         DOMAIN downloads' = DOMAIN downloads, DOMAIN client' = DOMAIN client,
         downloads' \in [DOMAIN downloads -> Download], client' \in [DOMAIN client -> Torrent],
         \A k \in DOMAIN downloads :
            /\ downloads'[k].paused = client'[k].paused
            /\ downloads'[k].completed => k \in announced'
  PROVE  RegistryInv'
<1>1. Switches'
  BY Zenon DEF RegistryInv, Switches
<1>2. DownloadKinds' /\ RegistryAgrees'
  BY DEF RegistryInv, DownloadKinds, RegistryAgrees
<1> QED
  BY <1>1, <1>2 DEF RegistryInv

LEMMA CommandKeeps ==
  ASSUME RegistryInv, NEW h \in InfoHash, TogglePause(h) \/ SelectFiles(h)
  PROVE  RegistryInv'
<1>1. /\ DOMAIN downloads = DOMAIN client /\ h \in DOMAIN downloads
      /\ downloads[h] \in Download /\ client[h] \in Torrent
      /\ downloads \in [DOMAIN downloads -> Download] /\ client \in [DOMAIN client -> Torrent]
      /\ UNCHANGED <<up, ready, resume, session, content, announced>>
  BY DEF RegistryInv, RegistryAgrees, DownloadKinds, TogglePause, SelectFiles, IsDownloading
<1>2. CASE TogglePause(h)
  <2>1. /\ downloads' = [downloads EXCEPT ![h].paused = ~@]
        /\ client' = [client EXCEPT ![h].paused = ~@]
    BY <1>2 DEF TogglePause
  <2>2. /\ downloads' \in [DOMAIN downloads -> Download]
        /\ client' \in [DOMAIN client -> Torrent]
    BY <1>1, <2>1 DEF Download, Torrent
  <2>3. \A k \in DOMAIN downloads :
            /\ downloads'[k].paused = client'[k].paused
            /\ downloads'[k].completed = downloads[k].completed
    BY <1>1, <2>1 DEF Download, Torrent, RegistryInv, RegistryAgrees
  <2> QED
    BY <1>1, <2>2, <2>3, InPlaceKeeps DEF RegistryInv, RegistryAgrees, DownloadKinds
<1>3. CASE SelectFiles(h)
  <2>1. downloads' = [downloads EXCEPT ![h].selected = ~@] /\ client' = client
    BY <1>3 DEF SelectFiles
  <2>2. downloads' \in [DOMAIN downloads -> Download]
    BY <1>1, <2>1 DEF Download
  <2>3. \A k \in DOMAIN downloads :
            /\ downloads'[k].paused = downloads[k].paused
            /\ downloads'[k].completed = downloads[k].completed
    BY <1>1, <2>1 DEF Download
  <2> QED
    BY <1>1, <2>1, <2>2, <2>3, InPlaceKeeps DEF RegistryInv, RegistryAgrees, DownloadKinds
<1> QED
  BY <1>2, <1>3

\* A poll moves no pause, and completes what is complete or was.
LEMMA PolledIs ==
  ASSUME NEW d \in Download, NEW c \in Torrent
  PROVE  /\ Polled(d, c) \in Download /\ Polled(d, c).paused = d.paused
         /\ Polled(d, c).completed => d.completed \/ c.complete
BY DEF Polled, ApplySnapshot, Download, Torrent

LEMMA PollKeeps == ASSUME RegistryInv, OnUpdateTimer PROVE RegistryInv'
<1>1. /\ downloads' = [h \in DOMAIN downloads |-> Polled(downloads[h], client[h])]
      /\ announced' = announced \cup NewlyCompleted
      /\ UNCHANGED <<up, ready, client, content, resume, session>>
  BY DEF OnUpdateTimer
<1>2. /\ DOMAIN downloads = DOMAIN client /\ DOMAIN downloads' = DOMAIN downloads
      /\ \A h \in DOMAIN downloads : downloads[h] \in Download /\ client[h] \in Torrent
  BY <1>1 DEF RegistryInv, RegistryAgrees, DownloadKinds
<1>3. \A h \in DOMAIN downloads :
         /\ downloads'[h] \in Download /\ downloads'[h].paused = downloads[h].paused
         /\ downloads'[h].completed => downloads[h].completed \/ client[h].complete
  BY <1>1, <1>2, PolledIs
<1>4. \A h \in DOMAIN downloads : downloads'[h].completed => h \in announced'
  BY <1>1, <1>2, <1>3 DEF NewlyCompleted, RegistryInv, RegistryAgrees
<1>5. NewlyCompleted \subseteq InfoHash
  BY DEF NewlyCompleted, RegistryInv, DownloadKinds
<1>6. downloads' \in [DOMAIN downloads -> Download]
  BY <1>1, <1>3
<1> QED
  BY <1>1, <1>2, <1>3, <1>4, <1>5, <1>6, InPlaceKeeps DEF RegistryInv, RegistryAgrees, DownloadKinds

LEMMA LibratsKeeps ==
  ASSUME RegistryInv, NEW h \in InfoHash, MetadataArrives(h) \/ Completes(h)
  PROVE  RegistryInv'
<1>1. /\ h \in DOMAIN client /\ UNCHANGED <<up, ready, downloads, resume, session, announced>>
      /\ content' \subseteq InfoHash
      /\ \/ client' = [client EXCEPT ![h].meta = TRUE]
         \/ client' = [client EXCEPT ![h].complete = TRUE]
  BY DEF MetadataArrives, Completes, RegistryInv, DownloadKinds
<1>2. /\ DOMAIN client' = DOMAIN client /\ client' \in [DOMAIN client -> Torrent]
      /\ \A k \in DOMAIN client : client'[k].paused = client[k].paused
  <2>1. client \in [DOMAIN client -> Torrent]
    BY DEF RegistryInv, DownloadKinds
  <2>2. CASE client' = [client EXCEPT ![h].meta = TRUE]
    BY <2>1, <2>2 DEF Torrent
  <2>3. CASE client' = [client EXCEPT ![h].complete = TRUE]
    BY <2>1, <2>3 DEF Torrent
  <2> QED
    BY <1>1, <2>2, <2>3
<1> QED
  BY <1>1, <1>2, InPlaceKeeps DEF RegistryInv, RegistryAgrees, DownloadKinds

\* What a session entry becomes is paused as the entry is, on both sides.
LEMMA RestoredIs ==
  ASSUME NEW h \in InfoHash, NEW e \in Download
  PROVE  /\ Restored(h, e) \in Download /\ Resumed(h, e) \in Torrent
         /\ Restored(h, e).paused = e.paused /\ Resumed(h, e).paused = e.paused
<1>1. Resumed(h, e) \in Torrent /\ Resumed(h, e).paused = e.paused
  <2>1. (h \in resume) \in BOOLEAN /\ e.paused \in BOOLEAN
    BY DEF Download
  <2> QED
    BY <2>1 DEF Resumed, Torrent
<1>2. PICK s \in Download :
         /\ s.paused = e.paused
         /\ Restored(h, e) = [s EXCEPT !.completed = @ \/ e.completed, !.selected = e.selected]
  <2> DEFINE d == [e EXCEPT !.ready = FALSE]
             c == [meta |-> h \in resume, complete |-> FALSE]
  <2>1. d \in Download /\ d.paused = e.paused
    BY DEF Download
  <2>2. ApplySnapshot(d, c) \in Download /\ ApplySnapshot(d, c).paused = e.paused
    BY <2>1 DEF ApplySnapshot, Download
  <2>3. CASE c.meta
    BY <2>2, <2>3 DEF Restored
  <2>4. CASE ~c.meta
    BY <2>1, <2>4 DEF Restored
  <2> QED
    BY <2>3, <2>4
<1>3. Restored(h, e) \in Download /\ Restored(h, e).paused = e.paused
  BY <1>2 DEF Download
<1> QED
  BY <1>1, <1>3

LEMMA LoadKeeps ==
  ASSUME RegistryInv, NEW r \in BOOLEAN, LoadSession(r)
  PROVE  RegistryInv'
<1>1. /\ downloads' = IF r THEN [h \in DOMAIN session |-> Restored(h, session[h])] ELSE NoEntries
      /\ client' = IF r THEN [h \in DOMAIN session |-> Resumed(h, session[h])] ELSE NoEntries
      /\ announced' = {h \in DOMAIN downloads' : downloads'[h].completed}
      /\ UNCHANGED <<content, resume, session>>
  BY DEF LoadSession
<1>2. Switches'
  <2>1. up' = TRUE /\ ready' = r
    BY DEF LoadSession
  <2> QED
    BY <2>1 DEF Switches
<1>3. CASE ~r
  BY <1>1, <1>2, <1>3 DEF NoEntries, RegistryInv, DownloadKinds, RegistryAgrees
<1>4. CASE r
  <2>1. \A h \in DOMAIN session : h \in InfoHash /\ session[h] \in Download
    BY DEF RegistryInv, DownloadKinds
  <2>2. /\ DOMAIN downloads' = DOMAIN session /\ DOMAIN client' = DOMAIN session
        /\ \A h \in DOMAIN session : /\ downloads'[h] = Restored(h, session[h])
                                     /\ client'[h] = Resumed(h, session[h])
        /\ downloads' = [h \in DOMAIN session |-> downloads'[h]]
        /\ client' = [h \in DOMAIN session |-> client'[h]]
    BY <1>1, <1>4
  <2>3. \A h \in DOMAIN session : /\ downloads'[h] \in Download /\ client'[h] \in Torrent
                                  /\ downloads'[h].paused = client'[h].paused
    BY <2>1, <2>2, RestoredIs
  <2>4. DownloadKinds'
    BY <1>1, <2>2, <2>3 DEF RegistryInv, DownloadKinds
  <2>5. RegistryAgrees'
    BY <1>1, <2>2, <2>3 DEF RegistryAgrees
  <2> QED
    BY <1>2, <2>4, <2>5 DEF RegistryInv
<1> QED
  BY <1>3, <1>4

LEMMA EndKeepsRegistry ==
  ASSUME RegistryInv, SaveSession \/ \E torn \in BOOLEAN : DownloadsDie(torn)
  PROVE  RegistryInv'
<1>1. /\ up' = FALSE /\ ready' = FALSE /\ content' = content
      /\ downloads' = NoEntries /\ client' = NoEntries /\ announced' = {}
      /\ resume' \subseteq resume \cup DOMAIN client
      /\ session' \in {session, downloads, NoEntries}
  <2>1. CASE SaveSession
    <3>1. [h \in DOMAIN downloads |-> downloads[h]] = downloads
      BY DEF RegistryInv, DownloadKinds
    <3> QED
      BY <2>1, <3>1 DEF SaveSession, Saved
  <2>2. CASE \E torn \in BOOLEAN : DownloadsDie(torn)
    BY <2>2 DEF DownloadsDie
  <2> QED
    BY <2>1, <2>2
<1> QED
  BY <1>1 DEF RegistryInv, Switches, DownloadKinds, RegistryAgrees, NoEntries

LEMMA DownloadsKeep == RegistryInv /\ [DownloadNext]_downloadVars => RegistryInv'
<1> SUFFICES ASSUME RegistryInv, [DownloadNext]_downloadVars PROVE RegistryInv'
  OBVIOUS
<1>1. CASE UNCHANGED downloadVars
  <2>1. Switches'
    BY <1>1, Zenon DEF downloadVars, RegistryInv, Switches
  <2> QED
    BY <1>1, <2>1 DEF downloadVars, RegistryInv, DownloadKinds, RegistryAgrees
<1> QED
  BY <1>1, AddKeeps, RemoveKeeps, CommandKeeps, PollKeeps, LibratsKeeps, LoadKeeps,
     EndKeepsRegistry, Zenon DEF DownloadNext

\* The registry and librats hold the same torrents and agree on which are paused, and
\* what is shown as completed was reported in this run: for any torrents, commands,
\* restarts and deaths of the program (download_service.cpp, torrent_session_store.cpp).
THEOREM RegistryAgreesHolds == DownloadSpec => []RegistryAgrees
<1>1. RegistryInv => RegistryAgrees
  BY DEF RegistryInv
<1> QED
  BY <1>1, DownloadStarts, DownloadsKeep, PTL DEF DownloadSpec

-----------------------------------------------------------------------------
(* The export of a .torrent.  The invariant adds that a hash is owed by one *)
(* fetch or by one closure: else the first of two answers would clear the   *)
(* mark of the second.                                                      *)

FetchedFor(q) == {q[k].hash : k \in DOMAIN q}
OncePerHash(q) == \A j, k \in DOMAIN q : q[j].hash = q[k].hash => j = k

OwedInv ==
    /\ TorrentExportTypeOK /\ fetched \in Seq(Result)
    /\ MarkedIffOwed
    /\ OncePerHash(fetched) /\ fetches \cap FetchedFor(fetched) = {}

\* An answer more, for a hash that has none.
LEMMA OneMoreFetched ==
  ASSUME NEW q \in Seq(Result), OncePerHash(q), NEW r \in Result, r.hash \notin FetchedFor(q)
  PROVE  /\ Append(q, r) \in Seq(Result) /\ OncePerHash(Append(q, r))
         /\ FetchedFor(Append(q, r)) = FetchedFor(q) \cup {r.hash}
<1> DEFINE n == Len(q)
           s == Append(q, r)
<1>1. /\ s \in Seq(Result) /\ n \in Nat /\ DOMAIN s = 1..n + 1 /\ DOMAIN q = 1..n
      /\ s[n + 1] = r /\ \A i \in 1..n : s[i] = q[i]
  BY AppendProperties, LenProperties
<1>2. 1..n + 1 = 1..n \cup {n + 1} /\ n + 1 \notin 1..n
  BY <1>1
<1> HIDE DEF n, s
<1>3. FetchedFor(s) = FetchedFor(q) \cup {r.hash}
  BY <1>1, <1>2 DEF FetchedFor
<1>4. \A i \in 1..n : s[i].hash # r.hash
  BY <1>1 DEF FetchedFor
<1>5. OncePerHash(s)
  BY <1>1, <1>2, <1>4 DEF OncePerHash
<1> QED
  BY <1>1, <1>3, <1>5 DEF s

\* The first answer is taken.
LEMMA FirstFetchedTaken ==
  ASSUME NEW q \in Seq(Result), OncePerHash(q), q # <<>>
  PROVE  /\ Head(q) \in Result /\ Tail(q) \in Seq(Result) /\ OncePerHash(Tail(q))
         /\ FetchedFor(Tail(q)) = FetchedFor(q) \ {Head(q).hash}
         /\ Head(q).hash \in FetchedFor(q)
<1> DEFINE n == Len(q)
           s == Tail(q)
<1>1. /\ s \in Seq(Result) /\ n \in Nat \ {0} /\ DOMAIN s = 1..n - 1 /\ DOMAIN q = 1..n
      /\ Head(q) = q[1] /\ Head(q) \in Result
      /\ \A i \in 1..n - 1 : s[i] = q[i + 1]
  BY HeadTailProperties, LenProperties, EmptySeq
<1> HIDE DEF n, s
<1>2. \A i \in 1..n : i = 1 \/ (i - 1 \in 1..n - 1 /\ s[i - 1] = q[i])
  BY <1>1
<1>3. \A i \in 1..n - 1 : i + 1 \in 1..n /\ i + 1 # 1
  BY <1>1
<1>4. 1 \in 1..n
  BY <1>1
<1>5. FetchedFor(s) \subseteq FetchedFor(q) \ {q[1].hash}
  BY <1>1, <1>3, <1>4 DEF FetchedFor, OncePerHash
<1>6. FetchedFor(q) \ {q[1].hash} \subseteq FetchedFor(s)
  <2>1. SUFFICES ASSUME NEW i \in 1..n, q[i].hash # q[1].hash
                 PROVE  q[i].hash \in FetchedFor(s)
    BY <1>1 DEF FetchedFor
  <2>2. i - 1 \in DOMAIN s /\ s[i - 1].hash = q[i].hash
    BY <1>1, <1>2, <2>1
  <2> QED
    BY <2>2 DEF FetchedFor
<1>7. OncePerHash(s)
  <2>1. SUFFICES ASSUME NEW j \in 1..n - 1, NEW k \in 1..n - 1, s[j].hash = s[k].hash
                 PROVE  j = k
    BY <1>1 DEF OncePerHash
  <2>2. q[j + 1].hash = q[k + 1].hash
    BY <1>1, <2>1
  <2>3. j + 1 = k + 1
    BY <1>1, <1>3, <2>2 DEF OncePerHash
  <2> QED
    BY <2>3
<1>8. Head(q).hash \in FetchedFor(q)
  BY <1>1, <1>4 DEF FetchedFor
<1> QED
  BY <1>1, <1>5, <1>6, <1>7, <1>8 DEF s

LEMMA OwedStarts == TorrentExportInit => OwedInv
<1> SUFFICES ASSUME TorrentExportInit PROVE OwedInv
  OBVIOUS
<1>1. fetched = <<>> /\ DOMAIN fetched = {} /\ fetched \in Seq(Result)
  BY DEF TorrentExportInit
<1>2. TorrentExportTypeOK
  BY <1>1 DEF TorrentExportInit, TorrentExportTypeOK
<1> QED
  BY <1>1, <1>2 DEF TorrentExportInit, OwedInv, MarkedIffOwed, OncePerHash, FetchedFor

LEMMA RequestExportKeeps ==
  ASSUME OwedInv, NEW h \in ExportHash, NEW goes \in BOOLEAN, RequestExport(h, goes)
  PROVE  OwedInv'
<1>1. available' \in BOOLEAN /\ loaded' \subseteq ExportHash /\ cached' = cached
  <2>1. available' = available /\ loaded' = loaded /\ cached' = cached
    BY DEF RequestExport
  <2> QED
    BY <2>1, Zenon DEF OwedInv, TorrentExportTypeOK
<1>2. cached' \in [ExportHash -> {"none", "whole", "short"}]
  BY <1>1 DEF OwedInv, TorrentExportTypeOK
<1>3. CASE UNCHANGED <<inFlight, fetches, fetched>>
  BY <1>1, <1>2, <1>3 DEF OwedInv, TorrentExportTypeOK, MarkedIffOwed
<1>4. CASE h \notin inFlight /\ inFlight' = inFlight \cup {h} /\ FetchTorrentFile(h)
  <2>1. h \notin fetches /\ h \notin FetchedFor(fetched)
    BY <1>4 DEF OwedInv, MarkedIffOwed, FetchedFor
  <2>2. CASE fetched' = Append(fetched, [hash |-> h, ok |-> TRUE]) /\ UNCHANGED fetches
    <3>1. [hash |-> h, ok |-> TRUE] \in Result /\ [hash |-> h, ok |-> TRUE].hash = h
      BY DEF Result
    <3>2. /\ fetched' \in Seq(Result) /\ OncePerHash(fetched')
          /\ FetchedFor(fetched') = FetchedFor(fetched) \cup {h}
      BY <2>1, <2>2, <3>1, OneMoreFetched DEF OwedInv
    <3>3. \A k \in DOMAIN fetched' : fetched'[k] \in Result
      BY <3>2, ElementOfSeq, LenProperties
    <3>4. inFlight' = fetches' \cup FetchedFor(fetched')
      BY <1>4, <2>2, <3>2 DEF OwedInv, MarkedIffOwed, FetchedFor
    <3> QED
      BY <1>1, <1>2, <1>4, <2>1, <2>2, <3>2, <3>3, <3>4
         DEF OwedInv, TorrentExportTypeOK, MarkedIffOwed, FetchedFor
  <2>3. CASE fetches' = fetches \cup {h} /\ UNCHANGED fetched
    BY <1>1, <1>2, <1>4, <2>1, <2>3
       DEF OwedInv, TorrentExportTypeOK, MarkedIffOwed, FetchedFor
  <2> QED
    BY <1>4, <2>2, <2>3 DEF FetchTorrentFile
<1> QED
  BY <1>3, <1>4 DEF RequestExport

LEMMA FetchedKeeps ==
  ASSUME OwedInv, NEW h \in ExportHash, NEW ok \in BOOLEAN, Fetched(h, ok)
  PROVE  OwedInv'
<1>1. /\ h \in fetches /\ fetches' = fetches \ {h}
      /\ fetched' = Append(fetched, [hash |-> h, ok |-> ok])
      /\ UNCHANGED <<available, loaded, inFlight, cached>>
  BY DEF Fetched
<1>2. [hash |-> h, ok |-> ok] \in Result /\ [hash |-> h, ok |-> ok].hash = h
  BY DEF Result
<1>3. h \notin FetchedFor(fetched)
  BY <1>1 DEF OwedInv
<1>4. /\ fetched' \in Seq(Result) /\ OncePerHash(fetched')
      /\ FetchedFor(fetched') = FetchedFor(fetched) \cup {h}
  BY <1>1, <1>2, <1>3, OneMoreFetched DEF OwedInv
<1>5. \A k \in DOMAIN fetched' : fetched'[k] \in Result
  BY <1>4, ElementOfSeq, LenProperties
<1>6. TorrentExportTypeOK'
  <2>1. available' \in BOOLEAN
    BY <1>1, Zenon DEF OwedInv, TorrentExportTypeOK
  <2> QED
    BY <1>1, <1>5, <2>1 DEF OwedInv, TorrentExportTypeOK
<1>7. inFlight' = fetches' \cup FetchedFor(fetched')
  BY <1>1, <1>4 DEF OwedInv, MarkedIffOwed, FetchedFor
<1>8. fetches' \cap FetchedFor(fetched') = {}
  BY <1>1, <1>4 DEF OwedInv
<1> QED
  BY <1>4, <1>6, <1>7, <1>8 DEF OwedInv, MarkedIffOwed, FetchedFor

LEMMA ResultArrivesKeeps ==
  ASSUME OwedInv, NEW kind \in {"none", "whole", "short"}, ResultArrives(kind)
  PROVE  OwedInv'
<1> DEFINE r == Head(fetched)
<1>1. /\ fetched # <<>> /\ fetched' = Tail(fetched) /\ inFlight' = inFlight \ {r.hash}
      /\ cached' = IF r.ok THEN [cached EXCEPT ![r.hash] = kind] ELSE cached
      /\ UNCHANGED <<available, loaded, fetches>>
  BY DEF ResultArrives, NoLongerInFlight
<1>2. /\ r \in Result /\ fetched' \in Seq(Result) /\ OncePerHash(fetched')
      /\ FetchedFor(fetched') = FetchedFor(fetched) \ {r.hash}
      /\ r.hash \in FetchedFor(fetched)
  BY <1>1, FirstFetchedTaken DEF OwedInv
<1> HIDE DEF r
<1>3. cached' \in [ExportHash -> {"none", "whole", "short"}]
  BY <1>1, <1>2 DEF OwedInv, TorrentExportTypeOK, Result
<1>4. \A k \in DOMAIN fetched' : fetched'[k] \in Result
  BY <1>2, ElementOfSeq, LenProperties
<1>5. TorrentExportTypeOK'
  <2>1. available' \in BOOLEAN
    BY <1>1, Zenon DEF OwedInv, TorrentExportTypeOK
  <2> QED
    BY <1>1, <1>3, <1>4, <2>1 DEF OwedInv, TorrentExportTypeOK
<1>6. inFlight' = fetches' \cup FetchedFor(fetched')
  BY <1>1, <1>2 DEF OwedInv, MarkedIffOwed, FetchedFor
<1>7. fetches' \cap FetchedFor(fetched') = {}
  BY <1>1, <1>2 DEF OwedInv
<1> QED
  BY <1>2, <1>5, <1>6, <1>7 DEF OwedInv, MarkedIffOwed, FetchedFor

LEMMA TorrentExportKeeps == OwedInv /\ [TorrentExportNext]_torrentExportVars => OwedInv'
<1> SUFFICES ASSUME OwedInv, [TorrentExportNext]_torrentExportVars PROVE OwedInv'
  OBVIOUS
<1>1. CASE UNCHANGED torrentExportVars
  <2>1. TorrentExportTypeOK'
    BY <1>1, Zenon DEF OwedInv, torrentExportVars, TorrentExportTypeOK
  <2> QED
    BY <1>1, <2>1 DEF OwedInv, torrentExportVars, MarkedIffOwed
<1>2. CASE BittorrentStops
  <2>1. TorrentExportTypeOK'
    BY <1>2 DEF OwedInv, BittorrentStops, TorrentExportTypeOK
  <2> QED
    BY <1>2, <2>1 DEF OwedInv, BittorrentStops, MarkedIffOwed
<1> QED
  BY <1>1, <1>2, RequestExportKeeps, FetchedKeeps, ResultArrivesKeeps DEF TorrentExportNext

\* A hash is marked as being fetched exactly while librats or a queued closure still
\* owes its answer, for any torrents and any requests (torrent_exporter.cpp).
THEOREM MarkedIffOwedHolds == TorrentExportSpec => []MarkedIffOwed
<1>1. OwedInv => MarkedIffOwed
  BY DEF OwedInv
<1> QED
  BY <1>1, OwedStarts, TorrentExportKeeps, PTL DEF TorrentExportSpec

-----------------------------------------------------------------------------
(* Votes and the feed.  The invariant adds that neither the feed nor its    *)
(* table is ever over the size, that nothing blocked is in the feed, and    *)
(* that an own vote that was counted is remembered.                         *)

FeedKinds ==
    /\ {started, dirty, timer, failed} \subseteq BOOLEAN
    /\ feed \in [Indexed -> 0..maxSize] /\ table \in [Indexed -> 0..maxSize]
    /\ \A h \in Indexed : h \in Blocked => feed[h] = 0
FeedFits == Size(feed) <= maxSize /\ Size(table) <= maxSize
FeedOwed == started /\ ~failed =>
    /\ dirty => timer
    /\ ~dirty => table = [h \in Indexed |-> feed[h] + (IF h \in Blocked THEN table[h] ELSE 0)]
VotesOnce ==
    /\ notices \in Seq(Indexed)
    /\ counted \in [Indexed -> 0..1]
    /\ \A h \in Indexed : counted[h] = 1 => h \in selfVoted

VotedInv == FeedKinds /\ FeedFits /\ FeedOwed /\ VotesOnce

LEMMA VotedGives == VotedInv => VotedOnceAndOwed
<1>1. VotesOnce => \A h \in Indexed : counted[h] <= 1
  BY DEF VotesOnce
<1> QED
  BY <1>1 DEF VotedInv, FeedFits, FeedOwed, VotedOnceAndOwed

\* The items of a feed are finitely many, and less of each is no more of all.
LEMMA ItemsAre ==
  ASSUME NEW f \in [Indexed -> 0..maxSize]
  PROVE  /\ IsFiniteSet(Items(f)) /\ Size(f) \in Nat
         /\ \A g \in [Indexed -> 0..maxSize] : (\A h \in Indexed : g[h] <= f[h]) => Size(g) <= Size(f)
<1>1. IsFiniteSet(Indexed \X (1..maxSize))
  BY VotedAssumption, FS_Interval, FS_Product, 1 \in Int, maxSize \in Int
<1>2. \A g : IsFiniteSet(Items(g)) /\ Size(g) \in Nat
  BY <1>1, FS_Subset, FS_CardinalityType DEF Items, Size
<1>3. ASSUME NEW g \in [Indexed -> 0..maxSize], \A h \in Indexed : g[h] <= f[h]
      PROVE  Size(g) <= Size(f)
  <2>1. Items(g) \subseteq Items(f)
    <3>1. SUFFICES ASSUME NEW i \in Indexed \X (1..maxSize), i[2] <= g[i[1]] PROVE i[2] <= f[i[1]]
      BY DEF Items
    <3>2. i[1] \in Indexed /\ i[2] \in 1..maxSize
      OBVIOUS
    <3>3. g[i[1]] <= f[i[1]] /\ g[i[1]] \in Int /\ f[i[1]] \in Int
      BY <1>3, <3>2, VotedAssumption
    <3> QED
      BY <3>1, <3>2, <3>3, VotedAssumption
  <2> QED
    BY <1>2, <2>1, FS_Subset DEF Size
<1> QED
  BY <1>2, <1>3

LEMMA EmptyFits == Empty \in [Indexed -> 0..maxSize] /\ Size(Empty) = 0
<1>1. Empty \in [Indexed -> 0..maxSize] /\ \A h \in Indexed : Empty[h] = 0
  BY VotedAssumption DEF Empty
<1>2. Items(Empty) = {}
  <2>1. SUFFICES ASSUME NEW i \in Indexed \X (1..maxSize), i[2] <= Empty[i[1]] PROVE FALSE
    BY DEF Items
  <2>2. i[1] \in Indexed /\ i[2] \in 1..maxSize
    OBVIOUS
  <2> QED
    BY <1>1, <2>1, <2>2, VotedAssumption
<1> QED
  BY <1>1, <1>2, FS_EmptySet DEF Size

LEMMA VotedStarts == VotedInit => VotedInv
<1> SUFFICES ASSUME VotedInit PROVE VotedInv
  OBVIOUS
<1>1. FeedFits /\ feed \in [Indexed -> 0..maxSize] /\ table \in [Indexed -> 0..maxSize]
  BY EmptyFits, VotedAssumption DEF VotedInit, FeedFits
<1>2. FeedKinds
  BY <1>1 DEF VotedInit, FeedKinds, Empty
<1>3. VotesOnce
  <2>1. notices = <<>> /\ notices \in Seq(Indexed)
    BY DEF VotedInit
  <2> QED
    BY <2>1 DEF VotedInit, VotesOnce
<1> QED
  BY <1>1, <1>2, <1>3 DEF VotedInit, VotedInv, FeedOwed

\* One more, and one for another: the items that a new hash makes.
LEMMA OneMore ==
  ASSUME NEW f \in [Indexed -> 0..maxSize], NEW h \in Indexed, f[h] = 0, maxSize >= 1
  PROVE  /\ [f EXCEPT ![h] = 1] \in [Indexed -> 0..maxSize]
         /\ Size([f EXCEPT ![h] = 1]) = Size(f) + 1
<1> DEFINE g == [f EXCEPT ![h] = 1]
<1>1. g \in [Indexed -> 0..maxSize] /\ g[h] = 1 /\ \A k \in Indexed \ {h} : g[k] = f[k]
  BY VotedAssumption
<1> HIDE DEF g
<1>2. <<h, 1>> \notin Items(f)
  BY DEF Items
<1>3. Items(g) = Items(f) \cup {<<h, 1>>}
  <2>1. ASSUME NEW i \in Indexed \X (1..maxSize)
        PROVE  i[2] <= g[i[1]] <=> i[2] <= f[i[1]] \/ i = <<h, 1>>
    <3>1. i = <<i[1], i[2]>> /\ i[1] \in Indexed /\ i[2] \in 1..maxSize
      OBVIOUS
    <3>2. CASE i[1] = h
      BY <1>1, <3>1, <3>2, VotedAssumption
    <3>3. CASE i[1] # h
      BY <1>1, <3>1, <3>3
    <3> QED
      BY <3>2, <3>3
  <2>2. <<h, 1>> \in Indexed \X (1..maxSize)
    BY VotedAssumption
  <2> QED
    BY <2>1, <2>2 DEF Items
<1>4. Size(g) = Size(f) + 1
  <2>1. PICK x : x = <<h, 1>>
    OBVIOUS
  <2>2. x \notin Items(f) /\ Items(g) = Items(f) \cup {x} /\ IsFiniteSet(Items(f))
    BY <1>2, <1>3, <2>1, ItemsAre
  <2> QED
    BY <2>2, FS_AddElement DEF Size
<1> QED
  BY <1>1, <1>4 DEF g

LEMMA OneLess ==
  ASSUME NEW f \in [Indexed -> 0..maxSize], NEW k \in Indexed, f[k] > 0
  PROVE  /\ [f EXCEPT ![k] = @ - 1] \in [Indexed -> 0..maxSize]
         /\ Size([f EXCEPT ![k] = @ - 1]) = Size(f) - 1
<1> DEFINE g == [f EXCEPT ![k] = @ - 1]
<1>1. g \in [Indexed -> 0..maxSize] /\ g[k] = f[k] - 1 /\ \A j \in Indexed \ {k} : g[j] = f[j]
  BY VotedAssumption
<1> HIDE DEF g
<1>2. f[k] \in 1..maxSize
  BY VotedAssumption
<1>3. <<k, f[k]>> \in Items(f)
  BY <1>2 DEF Items
<1>4. Items(g) = Items(f) \ {<<k, f[k]>>}
  <2>1. ASSUME NEW i \in Indexed \X (1..maxSize)
        PROVE  i[2] <= g[i[1]] <=> i[2] <= f[i[1]] /\ i # <<k, f[k]>>
    <3>1. i = <<i[1], i[2]>> /\ i[1] \in Indexed /\ i[2] \in 1..maxSize
      OBVIOUS
    <3>2. CASE i[1] = k
      <4>1. i[2] <= f[k] - 1 <=> i[2] <= f[k] /\ i[2] # f[k]
        BY <1>2, <3>1
      <4> QED
        BY <1>1, <3>1, <3>2, <4>1
    <3>3. CASE i[1] # k
      BY <1>1, <3>1, <3>3
    <3> QED
      BY <3>2, <3>3
  <2> QED
    BY <2>1 DEF Items
<1>5. Size(g) = Size(f) - 1
  BY <1>3, <1>4, ItemsAre, FS_RemoveElement DEF Size
<1> QED
  BY <1>1, <1>5 DEF g

\* What a hash does to the feed.
LEMMA AddByHashKeeps ==
  ASSUME FeedKinds, FeedFits, FeedOwed, NEW h \in Indexed, AddByHash(h), UNCHANGED started
  PROVE  FeedKinds' /\ FeedFits' /\ FeedOwed'
<1>1. CASE h \in Blocked
  <2>1. UNCHANGED <<started, feed, dirty, timer, table, failed>>
    BY <1>1 DEF AddByHash, feedVars
  <2> QED
    BY <2>1 DEF FeedKinds, FeedFits, FeedOwed, Size, Items
<1>2. CASE h \notin Blocked
  <2>1. dirty' = TRUE /\ timer' = TRUE /\ UNCHANGED <<started, table, failed>>
    BY <1>2 DEF AddByHash, MarkDirty
  <2>2. FeedOwed'
    BY <2>1 DEF FeedOwed
  <2>3. feed \in [Indexed -> 0..maxSize] /\ Size(feed) \in Nat /\ maxSize \in Nat
    BY ItemsAre, VotedAssumption DEF FeedKinds
  <2>4. /\ feed' \in [Indexed -> 0..maxSize] /\ Size(feed') <= maxSize
        /\ \A k \in Indexed : k # h => feed'[k] <= feed[k]
    <3>1. CASE feed[h] > 0 /\ UNCHANGED feed
      BY <2>3, <3>1 DEF FeedFits
    <3>2. CASE feed[h] = 0 /\ Size(feed) < maxSize /\ feed' = [feed EXCEPT ![h] = 1]
      <4>1. maxSize >= 1
        BY <2>3, <3>2
      <4>2. feed' \in [Indexed -> 0..maxSize] /\ Size(feed') = Size(feed) + 1
        BY <2>3, <3>2, <4>1, OneMore
      <4>3. \A k \in Indexed : k # h => feed'[k] = feed[k] /\ feed[k] \in Int
        BY <2>3, <3>2
      <4> QED
        BY <2>3, <3>2, <4>2, <4>3
    <3>3. CASE feed[h] = 0 /\ \E g \in Indexed : feed[g] > 0 /\ feed' = [feed EXCEPT ![g] = @ - 1, ![h] = 1]
      <4>1. PICK g \in Indexed : feed[g] > 0 /\ feed' = [feed EXCEPT ![g] = @ - 1, ![h] = 1]
        BY <3>3
      <4> DEFINE f == [feed EXCEPT ![g] = @ - 1]
      <4>2. f \in [Indexed -> 0..maxSize] /\ Size(f) = Size(feed) - 1
        BY <2>3, <4>1, OneLess
      <4>3. f[h] = 0 /\ maxSize >= 1 /\ g # h
        BY <2>3, <3>3, <4>1
      <4>4. feed' = [f EXCEPT ![h] = 1]
        BY <4>1
      <4>5. \A k \in Indexed : feed'[k] = IF k = h THEN 1 ELSE IF k = g THEN feed[k] - 1 ELSE feed[k]
        BY <2>3, <4>1, <4>3
      <4> HIDE DEF f
      <4>6. feed' \in [Indexed -> 0..maxSize] /\ Size(feed') = Size(f) + 1
        BY <4>2, <4>3, <4>4, OneMore
      <4>7. \A k \in Indexed : k # h => feed'[k] <= feed[k]
        BY <2>3, <4>5
      <4>8. Size(feed) <= maxSize
        BY DEF FeedFits
      <4> QED
        BY <2>3, <4>2, <4>6, <4>7, <4>8
    <3> QED
      BY <1>2, <3>1, <3>2, <3>3 DEF AddByHash
  <2>5. \A k \in Indexed : k \in Blocked => feed'[k] = 0
    <3>1. SUFFICES ASSUME NEW k \in Indexed, k \in Blocked PROVE feed'[k] = 0
      OBVIOUS
    <3>2. k # h /\ feed[k] = 0 /\ feed'[k] <= feed[k] /\ feed'[k] \in 0..maxSize
      BY <1>2, <2>4, <3>1 DEF FeedKinds
    <3> QED
      BY <3>2, VotedAssumption
  <2>6. FeedKinds'
    BY <2>1, <2>4, <2>5 DEF FeedKinds
  <2>7. FeedFits'
    BY <2>1, <2>4 DEF FeedFits, Size, Items
  <2> QED
    BY <2>2, <2>6, <2>7
<1> QED
  BY <1>1, <1>2

\* A flush, whatever becomes of it.
LEMMA PersistKeeps ==
  ASSUME VotedInv, NEW o \in Outcome, UNCHANGED feed,
         IF dirty THEN PersistNow(o) ELSE timer' = FALSE /\ UNCHANGED <<dirty, table, failed>>,
         started' \in BOOLEAN, started' => started
  PROVE  FeedKinds' /\ FeedFits' /\ FeedOwed'
<1>1. /\ {started, dirty, timer, failed} \subseteq BOOLEAN
      /\ feed \in [Indexed -> 0..maxSize] /\ table \in [Indexed -> 0..maxSize]
      /\ \A h \in Indexed : h \in Blocked => feed[h] = 0
  BY DEF VotedInv, FeedKinds
<1>2. dirty' = FALSE /\ timer' = FALSE
  BY <1>1 DEF PersistNow
<1>3. \/ table' = feed /\ UNCHANGED failed
      \/ failed' = TRUE /\ table' \in {table, Empty}
      \/ ~dirty /\ UNCHANGED <<table, failed>>
  BY DEF PersistNow, ReplaceAll, Outcome
<1>4. failed' \in BOOLEAN /\ table' \in [Indexed -> 0..maxSize]
  BY <1>1, <1>3, EmptyFits
<1>5. FeedKinds'
  BY <1>1, <1>2, <1>4 DEF FeedKinds
<1>6. FeedFits'
  <2>1. Size(feed') <= maxSize /\ Size(feed) <= maxSize
    BY DEF VotedInv, FeedFits, Size, Items
  <2>2. table' \in {feed, table, Empty}
    BY <1>3
  <2>3. Size(table') <= maxSize
    BY <2>1, <2>2, EmptyFits, VotedAssumption DEF VotedInv, FeedFits
  <2> QED
    BY <2>1, <2>3 DEF FeedFits
<1>7. FeedOwed'
  <2>1. CASE table' = feed /\ UNCHANGED failed
    <3>1. feed = [h \in Indexed |-> feed[h] + (IF h \in Blocked THEN feed[h] ELSE 0)]
      <4>1. \A h \in Indexed : feed[h] = feed[h] + (IF h \in Blocked THEN feed[h] ELSE 0)
        BY <1>1, VotedAssumption
      <4> QED
        BY <1>1, <4>1
    <3> QED
      BY <1>2, <2>1, <3>1 DEF FeedOwed
  <2>2. CASE failed' = TRUE
    BY <2>2 DEF FeedOwed
  <2>3. CASE ~dirty /\ UNCHANGED <<table, failed>>
    BY <1>2, <2>3 DEF VotedInv, FeedOwed
  <2> QED
    BY <1>3, <2>1, <2>2, <2>3
<1> QED
  BY <1>5, <1>6, <1>7

\* The feed's own steps.
LEMMA FeedKeeps ==
  ASSUME VotedInv,
         \/ \E f \in [Indexed -> 0..maxSize] : FromJsonArray(f)
         \/ \E o \in Outcome : Flush(o) \/ StopServices(o)
  PROVE  VotedInv'
<1>1. UNCHANGED <<notices, selfVoted, counted>>
  BY DEF FromJsonArray, Flush, StopServices
<1>2. VotesOnce'
  BY <1>1 DEF VotedInv, VotesOnce
<1>3. CASE \E f \in [Indexed -> 0..maxSize] : FromJsonArray(f)
  <2>1. PICK f \in [Indexed -> 0..maxSize] : FromJsonArray(f)
    BY <1>3
  <2>2. /\ feed' = f /\ dirty' = TRUE /\ timer' = TRUE /\ UNCHANGED <<started, table, failed>>
        /\ Size(f) <= maxSize /\ \A h \in Blocked : f[h] = 0
    BY <2>1 DEF FromJsonArray, MarkDirty
  <2>3. FeedKinds'
    BY <2>2 DEF VotedInv, FeedKinds
  <2>4. FeedFits'
    BY <2>2 DEF VotedInv, FeedFits, Size, Items
  <2> QED
    BY <1>2, <2>2, <2>3, <2>4 DEF VotedInv, FeedOwed
<1>4. CASE \E o \in Outcome : Flush(o) \/ StopServices(o)
  <2>1. PICK o \in Outcome : Flush(o) \/ StopServices(o)
    BY <1>4
  <2>2. started' \in BOOLEAN /\ (started' => started) /\ UNCHANGED feed
    BY <2>1 DEF Flush, StopServices, VotedInv, FeedKinds
  <2>3. IF dirty THEN PersistNow(o) ELSE timer' = FALSE /\ UNCHANGED <<dirty, table, failed>>
    BY <2>1 DEF Flush, StopServices
  <2> QED
    BY <1>2, <2>2, <2>3, PersistKeeps DEF VotedInv
<1> QED
  BY <1>3, <1>4

LEMMA VotesKeep ==
  ASSUME VotedInv,
         \/ \E h \in Indexed, v \in Vote, ok \in BOOLEAN : CastVote(h, v, ok)
         \/ \E h \in Indexed, v \in Vote, p \in Voter : RemoteRecord(h, p, v)
         \/ OnRecordStored
  PROVE  VotedInv'
<1>1. /\ FeedKinds /\ FeedFits /\ FeedOwed /\ notices \in Seq(Indexed)
      /\ counted \in [Indexed -> 0..1] /\ \A h \in Indexed : counted[h] = 1 => h \in selfVoted
  BY DEF VotedInv, VotesOnce
<1>2. UNCHANGED feedVars /\ UNCHANGED started => FeedKinds' /\ FeedFits' /\ FeedOwed'
  BY <1>1 DEF feedVars, FeedKinds, FeedFits, FeedOwed, Size, Items
<1>3. ASSUME NEW h \in Indexed, NEW v \in Vote, NEW ok \in BOOLEAN, CastVote(h, v, ok)
      PROVE  VotedInv'
  <2>1. UNCHANGED <<started, notices>>
    BY <1>3 DEF CastVote
  <2>2. CASE AlreadyVoted(h)
    <3>1. UNCHANGED <<selfVoted, feedVars, counted>>
      BY <1>3, <2>2 DEF CastVote
    <3> QED
      BY <1>1, <1>2, <2>1, <3>1 DEF VotedInv, VotesOnce
  <2>3. CASE ~AlreadyVoted(h)
    <3>1. /\ counted' = [counted EXCEPT ![h] = @ + 1] /\ selfVoted' = selfVoted \cup {h}
          /\ AddByHash(h) /\ h \notin selfVoted
      BY <1>3, <2>3 DEF CastVote, AlreadyVoted
    <3>2. FeedKinds' /\ FeedFits' /\ FeedOwed'
      BY <1>1, <2>1, <3>1, AddByHashKeeps
    <3>3. counted[h] = 0
      BY <1>1, <3>1
    <3>4. counted' = [counted EXCEPT ![h] = 1]
      BY <3>1, <3>3
    <3>5. VotesOnce'
      BY <1>1, <2>1, <3>1, <3>4 DEF VotesOnce
    <3> QED
      BY <3>2, <3>5 DEF VotedInv
  <2> QED
    BY <2>2, <2>3
<1>4. ASSUME NEW h \in Indexed, NEW v \in Vote, NEW p \in Voter, RemoteRecord(h, p, v)
      PROVE  VotedInv'
  <2>1. UNCHANGED <<started, selfVoted, feedVars, counted>>
    BY <1>4 DEF RemoteRecord
  <2>2. notices' \in Seq(Indexed)
    BY <1>1, <1>4, AppendProperties DEF RemoteRecord
  <2> QED
    BY <1>1, <1>2, <2>1, <2>2 DEF VotedInv, VotesOnce
<1>5. CASE OnRecordStored
  <2>1. /\ notices # <<>> /\ notices' = Tail(notices) /\ AddByHash(Head(notices))
        /\ UNCHANGED <<started, selfVoted, counted>>
    BY <1>5 DEF OnRecordStored
  <2>2. Head(notices) \in Indexed /\ notices' \in Seq(Indexed)
    BY <1>1, <2>1, HeadTailProperties
  <2>3. FeedKinds' /\ FeedFits' /\ FeedOwed'
    BY <1>1, <2>1, <2>2, AddByHashKeeps
  <2> QED
    BY <1>1, <2>1, <2>2, <2>3 DEF VotedInv, VotesOnce
<1> QED
  BY <1>3, <1>4, <1>5

LEMMA ProgramKeeps ==
  ASSUME VotedInv,
         \/ \E avail \in BOOLEAN : StartServices(avail)
         \/ \E rows \in {table, Empty} : ProgramDies(rows)
  PROVE  VotedInv'
<1>1. /\ {started, dirty, timer, failed} \subseteq BOOLEAN
      /\ feed \in [Indexed -> 0..maxSize] /\ table \in [Indexed -> 0..maxSize]
      /\ \A h \in Indexed : h \in Blocked => feed[h] = 0
      /\ Size(feed) <= maxSize /\ Size(table) <= maxSize /\ maxSize \in Nat
  BY VotedAssumption DEF VotedInv, FeedKinds, FeedFits
<1>2. CASE \E avail \in BOOLEAN : StartServices(avail)
  <2>1. /\ feed' = [h \in Indexed |-> IF h \in Blocked THEN 0 ELSE table[h]]
        /\ started' = TRUE /\ dirty' = FALSE /\ timer' = FALSE /\ failed' = FALSE
        /\ notices' = <<>> /\ counted' = [h \in Indexed |-> 0] /\ UNCHANGED table
    BY <1>2 DEF StartServices
  <2>2. /\ feed' \in [Indexed -> 0..maxSize]
        /\ \A h \in Indexed : feed'[h] <= table[h] /\ (h \in Blocked => feed'[h] = 0)
    BY <1>1, <2>1
  <2>3. FeedKinds'
    BY <1>1, <2>1, <2>2 DEF FeedKinds
  <2>4. FeedFits'
    <3>1. Size(feed') <= Size(table) /\ Size(table) \in Nat /\ Size(feed') \in Nat
      BY <1>1, <2>2, ItemsAre
    <3>2. Size(feed') <= maxSize
      BY <1>1, <3>1
    <3> QED
      BY <1>1, <2>1, <3>2 DEF FeedFits, Size, Items
  <2>5. FeedOwed'
    <3>1. table = [h \in Indexed |-> feed'[h] + (IF h \in Blocked THEN table[h] ELSE 0)]
      <4>1. \A h \in Indexed : table[h] = feed'[h] + (IF h \in Blocked THEN table[h] ELSE 0)
        BY <1>1, <2>1
      <4> QED
        BY <1>1, <4>1
    <3> QED
      BY <2>1, <3>1 DEF FeedOwed
  <2>6. VotesOnce'
    BY <2>1 DEF VotesOnce
  <2> QED
    BY <2>3, <2>4, <2>5, <2>6 DEF VotedInv
<1>3. CASE \E rows \in {table, Empty} : ProgramDies(rows)
  <2>1. /\ started' = FALSE /\ table' \in {table, Empty} /\ failed' = TRUE
        /\ UNCHANGED <<notices, selfVoted, counted, feed, dirty, timer>>
    BY <1>3 DEF ProgramDies
  <2>2. table' \in [Indexed -> 0..maxSize] /\ Size(table') <= maxSize
    BY <1>1, <2>1, EmptyFits
  <2>3. FeedKinds'
    BY <1>1, <2>1, <2>2 DEF FeedKinds
  <2>4. FeedFits'
    BY <1>1, <2>1, <2>2 DEF FeedFits, Size, Items
  <2> QED
    BY <2>1, <2>3, <2>4 DEF VotedInv, FeedOwed, VotesOnce
<1> QED
  BY <1>2, <1>3

LEMMA VotedKeeps == VotedInv /\ [VotedNext]_votedVars => VotedInv'
<1> SUFFICES ASSUME VotedInv, [VotedNext]_votedVars PROVE VotedInv'
  OBVIOUS
<1>1. CASE UNCHANGED votedVars
  BY <1>1 DEF votedVars, feedVars, VotedInv, FeedKinds, FeedFits, FeedOwed, VotesOnce, Size, Items
<1> QED
  BY <1>1, FeedKeeps, VotesKeep, ProgramKeeps DEF VotedNext

\* However votes, a peer's feed, failed writes and restarts fall together: an own vote is
\* counted once, the feed never outgrows its size, and what is not in its table is owed
\* to it (voting_service.cpp, feed_service.cpp, feed_repository.cpp).
THEOREM VotedOnceAndOwedHolds == VotedSpec => []VotedOnceAndOwed
<1> QED
  BY VotedStarts, VotedKeeps, VotedGives, PTL DEF VotedSpec

\* Who has a record in the store has voted, and the columns never exceed the votes.
RecordedBy(h) == {p \in Voter \cup {Us} : records[h][p] # "none"}
VotesCounted ==
    /\ {started, storeUp, listening} \subseteq BOOLEAN /\ selfVoted \subseteq Indexed
    /\ votes \in 0..MaxVotes
    /\ records \in [Indexed -> [Voter \cup {Us} -> Vote \cup {"none"}]]
    /\ columns \in [Indexed -> [Vote -> 0..votes]]
    /\ \A h \in Indexed : IsFiniteSet(RecordedBy(h)) /\ Cardinality(RecordedBy(h)) <= votes

\* One vote more, whoever cast it, and perhaps its record.
LEMMA RecordCounts ==
  ASSUME VotesCounted, NEW h \in Indexed, NEW p \in Voter \cup {Us}, NEW v \in Vote,
         records[h][p] = "none", votes < MaxVotes, votes' = votes + 1,
         records' = [records EXCEPT ![h][p] = v]
  PROVE  /\ votes' \in 0..MaxVotes
         /\ records' \in [Indexed -> [Voter \cup {Us} -> Vote \cup {"none"}]]
         /\ \A k \in Indexed : IsFiniteSet(RecordedBy(k)') /\ Cardinality(RecordedBy(k)') <= votes'
<1>1. votes \in Nat /\ votes' \in 0..MaxVotes
  BY VotedAssumption DEF VotesCounted
<1>2. /\ records' \in [Indexed -> [Voter \cup {Us} -> Vote \cup {"none"}]]
      /\ \A q \in Voter \cup {Us} : records'[h][q] = IF q = p THEN v ELSE records[h][q]
      /\ \A k \in Indexed : k # h => records'[k] = records[k]
  BY DEF VotesCounted
<1>3. v # "none"
  BY DEF Vote
<1>4. RecordedBy(h)' = RecordedBy(h) \cup {p}
  BY <1>2, <1>3 DEF RecordedBy
<1>5. IsFiniteSet(RecordedBy(h)) /\ Cardinality(RecordedBy(h)) <= votes
      /\ Cardinality(RecordedBy(h)) \in Nat
  BY FS_CardinalityType DEF VotesCounted
<1>6. p \notin RecordedBy(h)
  BY DEF RecordedBy
<1>7. IsFiniteSet(RecordedBy(h) \cup {p})
      /\ Cardinality(RecordedBy(h) \cup {p}) = Cardinality(RecordedBy(h)) + 1
  BY <1>5, <1>6, FS_AddElement
<1>8. ASSUME NEW k \in Indexed
      PROVE  IsFiniteSet(RecordedBy(k)') /\ Cardinality(RecordedBy(k)') <= votes'
  <2>1. CASE k = h
    <3>1. RecordedBy(k)' = RecordedBy(h) \cup {p}
      BY <1>4, <2>1 DEF RecordedBy
    <3> QED
      BY <1>1, <1>5, <1>7, <3>1
  <2>2. CASE k # h
    <3>1. RecordedBy(k)' = RecordedBy(k)
      BY <1>2, <2>2 DEF RecordedBy
    <3>2. IsFiniteSet(RecordedBy(k)) /\ Cardinality(RecordedBy(k)) <= votes
          /\ Cardinality(RecordedBy(k)) \in Nat
      BY FS_CardinalityType DEF VotesCounted
    <3> QED
      BY <1>1, <3>1, <3>2
  <2> QED
    BY <2>1, <2>2
<1> QED
  BY <1>1, <1>2, <1>8

LEMMA VotesGrow ==
  ASSUME VotesCounted, votes < MaxVotes, votes' = votes + 1, records' = records
  PROVE  /\ votes' \in 0..MaxVotes /\ 0..votes \subseteq 0..votes'
         /\ \A k \in Indexed : IsFiniteSet(RecordedBy(k)') /\ Cardinality(RecordedBy(k)') <= votes'
<1>1. votes \in Nat /\ votes' \in 0..MaxVotes
  BY VotedAssumption DEF VotesCounted
<1>2. ASSUME NEW k \in Indexed
      PROVE  IsFiniteSet(RecordedBy(k)') /\ Cardinality(RecordedBy(k)') <= votes'
  <2>1. RecordedBy(k)' = RecordedBy(k)
    BY DEF RecordedBy
  <2>2. IsFiniteSet(RecordedBy(k)) /\ Cardinality(RecordedBy(k)) <= votes
        /\ Cardinality(RecordedBy(k)) \in Nat
    BY FS_CardinalityType DEF VotesCounted
  <2> QED
    BY <1>1, <2>1, <2>2
<1> QED
  BY <1>1, <1>2

LEMMA ColumnsCast ==
  ASSUME VotesCounted, NEW h \in Indexed, NEW v \in Vote, votes' = votes + 1,
         \/ columns' = columns
         \/ columns' = [columns EXCEPT ![h][v] = @ + 1]
  PROVE  columns' \in [Indexed -> [Vote -> 0..votes']]
<1>1. votes \in Nat /\ columns \in [Indexed -> [Vote -> 0..votes]]
  BY VotedAssumption DEF VotesCounted
<1>2. DOMAIN columns' = Indexed /\ \A k \in Indexed : DOMAIN columns'[k] = Vote
  BY <1>1
<1>3. ASSUME NEW k \in Indexed, NEW w \in Vote
      PROVE  columns'[k][w] \in 0..votes'
  <2>1. columns[k][w] \in 0..votes
    BY <1>1
  <2>2. columns'[k][w] = columns[k][w] \/ columns'[k][w] = columns[k][w] + 1
    BY <1>1
  <2> QED
    BY <1>1, <2>1, <2>2
<1>4. ASSUME NEW k \in Indexed
      PROVE  columns'[k] \in [Vote -> 0..votes']
  <2>1. columns'[k] = [w \in Vote |-> columns'[k][w]]
    BY <1>1
  <2> QED
    BY <1>3, <2>1
<1>5. columns' = [k \in Indexed |-> columns'[k]]
  BY <1>1
<1> QED
  BY <1>4, <1>5

LEMMA AggregateFits ==
  ASSUME VotesCounted, NEW h \in Indexed
  PROVE  Aggregate(records[h]) \in [Vote -> 0..votes]
<1>1. SUFFICES ASSUME NEW v \in Vote
               PROVE  Cardinality({p \in DOMAIN records[h] : records[h][p] = v}) \in 0..votes
  BY DEF Aggregate
<1>2. DOMAIN records[h] = Voter \cup {Us} /\ v # "none"
  BY DEF VotesCounted, Vote
<1>3. {p \in DOMAIN records[h] : records[h][p] = v} \subseteq RecordedBy(h)
  BY <1>2 DEF RecordedBy
<1>4. IsFiniteSet(RecordedBy(h)) /\ Cardinality(RecordedBy(h)) <= votes /\ votes \in Nat
  BY DEF VotesCounted
<1>5. /\ Cardinality({p \in DOMAIN records[h] : records[h][p] = v}) \in Nat
      /\ Cardinality(RecordedBy(h)) \in Nat
      /\ Cardinality({p \in DOMAIN records[h] : records[h][p] = v}) <= Cardinality(RecordedBy(h))
  BY <1>3, <1>4, FS_Subset, FS_CardinalityType
<1> QED
  BY <1>4, <1>5

LEMMA CastCounts ==
  ASSUME VotedInv, VotesCounted, NEW h \in Indexed, NEW v \in Vote, NEW ok \in BOOLEAN,
         CastVote(h, v, ok)
  PROVE  VotesCounted'
<1>1. /\ votes < MaxVotes /\ votes' = votes + 1
      /\ UNCHANGED <<started, storeUp, listening>> /\ selfVoted' \subseteq selfVoted \cup {h}
      /\ records' = records \/ (records[h][Us] = "none" /\ records' = [records EXCEPT ![h][Us] = v])
      /\ columns' = columns \/ columns' = [columns EXCEPT ![h][v] = @ + 1]
  BY DEF CastVote, AlreadyVoted
<1>2. columns' \in [Indexed -> [Vote -> 0..votes']]
  BY <1>1, ColumnsCast
<1>3. CASE records' = records
  BY <1>1, <1>2, <1>3, VotesGrow DEF VotesCounted
<1>4. CASE records[h][Us] = "none" /\ records' = [records EXCEPT ![h][Us] = v]
  BY <1>1, <1>2, <1>4, RecordCounts DEF VotesCounted
<1> QED
  BY <1>1, <1>3, <1>4

LEMMA RecordArrives ==
  ASSUME VotedInv, VotesCounted, NEW h \in Indexed, NEW p \in Voter, NEW v \in Vote,
         RemoteRecord(h, p, v)
  PROVE  VotesCounted'
<1>1. /\ votes < MaxVotes /\ votes' = votes + 1 /\ records[h][p] = "none"
      /\ UNCHANGED <<started, storeUp, listening, selfVoted, columns>>
      /\ records' = [records EXCEPT ![h][p] = v]
  BY DEF RemoteRecord
<1>2. columns' \in [Indexed -> [Vote -> 0..votes']]
  BY <1>1, ColumnsCast
<1> QED
  BY <1>1, <1>2, RecordCounts DEF VotesCounted

LEMMA RestOfVotesCounts ==
  ASSUME VotesCounted, UNCHANGED <<records, votes>>, {started', storeUp', listening'} \subseteq BOOLEAN,
         selfVoted' \subseteq Indexed, columns' \in [Indexed -> [Vote -> 0..votes]]
  PROVE  VotesCounted'
BY DEF VotesCounted, RecordedBy

LEMMA VotesCountedKeeps ==
  ASSUME VotedInv, VotesCounted, [VotedNext]_votedVars
  PROVE  VotesCounted'
<1>1. {started, storeUp, listening} \subseteq BOOLEAN /\ selfVoted \subseteq Indexed
      /\ columns \in [Indexed -> [Vote -> 0..votes]]
  BY DEF VotesCounted
<1>2. CASE UNCHANGED votedVars
  BY <1>1, <1>2, RestOfVotesCounts DEF votedVars
<1>3. CASE \E f \in [Indexed -> 0..maxSize] : FromJsonArray(f)
  BY <1>1, <1>3, RestOfVotesCounts DEF FromJsonArray
<1>4. CASE \E o \in Outcome : Flush(o) \/ StopServices(o)
  BY <1>1, <1>4, RestOfVotesCounts DEF Flush, StopServices
<1>5. CASE \E with \in BOOLEAN : StartServices(with)
  BY <1>1, <1>5, RestOfVotesCounts DEF StartServices
<1>6. CASE \E rows \in {table, Empty} : ProgramDies(rows)
  BY <1>1, <1>6, RestOfVotesCounts DEF ProgramDies
<1>7. CASE OnRecordStored
  <2>1. /\ UNCHANGED <<started, storeUp, listening, records, selfVoted, votes>>
        /\ columns' = [columns EXCEPT ![Head(notices)] = Aggregate(records[Head(notices)])]
        /\ notices # <<>>
    BY <1>7 DEF OnRecordStored
  <2>2. Head(notices) \in Indexed
    BY <2>1 DEF VotedInv, VotesOnce
  <2>3. columns' \in [Indexed -> [Vote -> 0..votes]]
    BY <1>1, <2>1, <2>2, AggregateFits
  <2> QED
    BY <1>1, <2>1, <2>3, RestOfVotesCounts
<1> QED
  BY <1>2, <1>3, <1>4, <1>5, <1>6, <1>7, CastCounts, RecordArrives DEF VotedNext

\* What the votes and the feed keep stays of its kind (p2p_store.cpp, voting_service.cpp).
THEOREM VotedTypeOKHolds == VotedSpec => []VotedTypeOK
<1>1. VotedInit => VotesCounted
  <2> SUFFICES ASSUME VotedInit
               PROVE  VotesCounted
    OBVIOUS
  <2>1. /\ records = [h \in Indexed |-> [p \in Voter \cup {Us} |-> "none"]] /\ votes = 0
        /\ columns = [h \in Indexed |-> [v \in Vote |-> 0]] /\ selfVoted = {}
        /\ started = FALSE /\ storeUp = FALSE /\ listening = FALSE
    BY DEF VotedInit
  <2>2. \A h \in Indexed : RecordedBy(h) = {}
    BY <2>1 DEF RecordedBy
  <2>3. \A h \in Indexed : IsFiniteSet(RecordedBy(h)) /\ Cardinality(RecordedBy(h)) <= votes
    BY <2>1, <2>2, FS_EmptySet
  <2>4. columns \in [Indexed -> [Vote -> 0..votes]]
    BY <2>1
  <2>5. votes \in 0..MaxVotes
    BY <2>1, VotedAssumption
  <2>6. records \in [Indexed -> [Voter \cup {Us} -> Vote \cup {"none"}]]
    BY <2>1
  <2>7. {started, storeUp, listening} \subseteq BOOLEAN /\ selfVoted \subseteq Indexed
    BY <2>1
  <2> QED
    BY <2>3, <2>4, <2>5, <2>6, <2>7 DEF VotesCounted
<1>2. VotedInv /\ VotesCounted /\ [VotedNext]_votedVars => (VotedInv /\ VotesCounted)'
  BY VotesCountedKeeps, VotedKeeps
<1>3. VotedInv /\ VotesCounted => VotedTypeOK
  <2> SUFFICES ASSUME VotedInv, VotesCounted
               PROVE  VotedTypeOK
    OBVIOUS
  <2>1. columns \in [Indexed -> [Vote -> 0..MaxVotes]]
    <3>1. 0..votes \subseteq 0..MaxVotes
      BY VotedAssumption DEF VotesCounted
    <3> QED
      BY <3>1 DEF VotesCounted
  <2>2. \A k \in DOMAIN notices : notices[k] \in Indexed
    BY DEF VotedInv, VotesOnce
  <2> QED
    BY <2>1, <2>2 DEF VotedInv, FeedKinds, VotesCounted, VotedTypeOK
<1> QED
  BY <1>1, <1>2, <1>3, VotedStarts, PTL DEF VotedSpec

-----------------------------------------------------------------------------
(* The transport.  The invariant adds that a node that is down has no       *)
(* links, that an introduction still queued is of a link, or ahead of the   *)
(* news that it is gone, and what the last count was.                       *)

TransportKinds ==
    /\ running \in BOOLEAN /\ sharing \in BOOLEAN
    /\ handlers \subseteq Type
    /\ links \subseteq Peer /\ IsFiniteSet(links)
    /\ events \in Seq(Event)
    /\ told \in [Peer -> {"no", "yes", "off"}]

NodeDown == ~running => links = {} /\ registered = {} /\ peerCount = 0
HandlersWired == running =>
    registered = handlers /\ wired = [t \in Type |-> IF t \in handlers THEN 1 ELSE 0]
Introduced == \A k \in DOMAIN events : events[k].kind = "client_info" =>
    \/ events[k].peer \in links
    \/ \E j \in DOMAIN events : k < j /\ events[j] = PeerGone(events[k].peer)
ListedPeers == \A p \in peers :
    p \in links \/ \E j \in DOMAIN events : events[j] = PeerGone(p)
ToldLast == \A p \in links :
    \/ told[p] = IF sharing THEN "yes" ELSE "off"
    \/ \E j \in DOMAIN events : events[j] = [kind |-> "connected", peer |-> p]
CountShown ==
    /\ \/ peerCount = (IF running THEN Cardinality(links) ELSE 0)
       \/ \E j \in DOMAIN events : events[j] = Count
    /\ running => lastCount = -1 \/ lastCount = peerCount

TransportInv == /\ TransportKinds /\ NodeDown /\ HandlersWired /\ Introduced /\ ListedPeers
                /\ ToldLast /\ CountShown

LEMMA TransportGives == TransportInv => PeersAgree
<1> SUFFICES ASSUME TransportInv PROVE PeersAgree
  OBVIOUS
<1>1. running => \A t \in Type : wired[t] = (IF t \in handlers THEN 1 ELSE 0)
  BY DEF TransportInv, HandlersWired
<1>2. \A p \in peers : p \in links \/ Pending("disconnected", p)
  BY DEF TransportInv, ListedPeers, Pending, PeerGone
<1>3. \A p \in links :
         told[p] = (IF sharing THEN "yes" ELSE "off") \/ Pending("connected", p)
  BY DEF TransportInv, ToldLast, Pending
<1>4. \/ peerCount = (IF running THEN Cardinality(links) ELSE 0)
      \/ \E k \in DOMAIN events : events[k].kind = "count"
  BY DEF TransportInv, CountShown, Count
<1> QED
  BY <1>1, <1>2, <1>3, <1>4 DEF PeersAgree

LEMMA TransportStarted == TransportInit => TransportInv
<1> SUFFICES ASSUME TransportInit PROVE TransportInv
  OBVIOUS
<1>1. events = <<>> /\ DOMAIN events = {} /\ events \in Seq(Event)
  BY DEF TransportInit
<1>2. IsFiniteSet(links)
  BY FS_EmptySet DEF TransportInit
<1>3. TransportKinds
  BY <1>1, <1>2 DEF TransportInit, TransportKinds
<1>4. NodeDown /\ HandlersWired /\ CountShown
  BY DEF TransportInit, NodeDown, HandlersWired, CountShown
<1> QED
  BY <1>1, <1>3, <1>4 DEF TransportInit, TransportInv, Introduced, ListedPeers, ToldLast

\* What is queued behind what is there, and what is left of a queue.
LEMMA QueuedBehind ==
  ASSUME events \in Seq(Event), NEW s \in Seq(Event), events' = events \o s
  PROVE  /\ events' \in Seq(Event)
         /\ \A k \in DOMAIN events : k \in DOMAIN events' /\ events'[k] = events[k]
         /\ \A i \in DOMAIN s : \E j \in DOMAIN events' :
               events'[j] = s[i] /\ \A k \in DOMAIN events : k < j
         /\ \A k \in DOMAIN events' : k \in DOMAIN events \/ \E i \in DOMAIN s : events'[k] = s[i]
<1>1. /\ Len(events) \in Nat /\ DOMAIN events = 1..Len(events)
      /\ Len(s) \in Nat /\ DOMAIN s = 1..Len(s)
  BY LenProperties
<1>2. /\ events' \in Seq(Event) /\ Len(events') = Len(events) + Len(s)
      /\ DOMAIN events' = 1..Len(events')
      /\ \A k \in 1..Len(events) + Len(s) :
            events'[k] = IF k <= Len(events) THEN events[k] ELSE s[k - Len(events)]
  BY <1>1, ConcatProperties, LenProperties
<1>3. ASSUME NEW i \in DOMAIN s
      PROVE  \E j \in DOMAIN events' : events'[j] = s[i] /\ \A k \in DOMAIN events : k < j
  <2>1. /\ Len(events) + i \in 1..Len(events) + Len(s) /\ Len(events) + i - Len(events) = i
        /\ ~(Len(events) + i <= Len(events))
    BY <1>1
  <2>2. events'[Len(events) + i] = s[i]
    BY <1>2, <2>1
  <2>3. \A k \in DOMAIN events : k < Len(events) + i
    BY <1>1
  <2> QED
    BY <1>2, <2>1, <2>2, <2>3
<1>4. ASSUME NEW k \in DOMAIN events', k \notin DOMAIN events
      PROVE  \E i \in DOMAIN s : events'[k] = s[i]
  <2>1. k \in 1..Len(events) + Len(s) /\ ~(k <= Len(events)) /\ k - Len(events) \in 1..Len(s)
    BY <1>1, <1>2, <1>4
  <2> QED
    BY <1>1, <1>2, <2>1
<1>5. \A k \in DOMAIN events : k \in DOMAIN events' /\ events'[k] = events[k]
  BY <1>1, <1>2
<1> QED
  BY <1>2, <1>3, <1>4, <1>5

LEMMA OneTaken ==
  ASSUME events \in Seq(Event), events # <<>>, events' = Tail(events)
  PROVE  /\ events' \in Seq(Event) /\ Head(events) = events[1] /\ 1 \in DOMAIN events
         /\ \A k \in DOMAIN events' : k \in Nat /\ k + 1 \in DOMAIN events /\ events'[k] = events[k + 1]
         /\ \A k \in DOMAIN events : k \in Nat /\ (k > 1 => k - 1 \in DOMAIN events'
                                                            /\ events'[k - 1] = events[k])
         /\ \A k \in DOMAIN events : k = 1 \/ k > 1
<1>1. /\ Len(events) \in Nat \ {0} /\ DOMAIN events = 1..Len(events) /\ Head(events) = events[1]
  BY LenProperties, EmptySeq, HeadTailProperties
<1>2. /\ events' \in Seq(Event) /\ Len(events') = Len(events) - 1 /\ DOMAIN events' = 1..Len(events')
      /\ \A k \in 1..Len(events) - 1 : events'[k] = events[k + 1]
  BY <1>1, HeadTailProperties, LenProperties
<1>3. \A k \in DOMAIN events : k > 1 =>
         k - 1 \in 1..Len(events) - 1 /\ (k - 1) + 1 = k
  BY <1>1
<1> QED
  BY <1>1, <1>2, <1>3

\* Steps that leave the queue, the links and what is known of peers alone.
LEMMA HandlersKeep ==
  ASSUME TransportInv, (\E t \in Type : RegisterHandler(t)) \/ \E ok \in BOOLEAN : StartTransport(ok)
  PROVE  TransportInv'
<1>1. UNCHANGED <<links, events, peerCount, peers, sharing, told>>
  BY DEF RegisterHandler, StartTransport
<1>2. Introduced' /\ ListedPeers' /\ ToldLast'
  BY <1>1 DEF TransportInv, Introduced, ListedPeers, ToldLast
<1>3. CASE \E t \in Type : RegisterHandler(t)
  <2>1. PICK t \in Type : RegisterHandler(t)
    BY <1>3
  <2>2. UNCHANGED <<running, lastCount>> /\ handlers' = handlers \cup {t} /\ t \notin handlers
    BY <2>1 DEF RegisterHandler
  <2>3. TransportKinds' /\ CountShown'
    BY <1>1, <2>2 DEF TransportInv, TransportKinds, CountShown
  <2>4. NodeDown' /\ HandlersWired'
    <3>1. CASE running
      <4>1. registered' = registered \cup {t} /\ wired' = [wired EXCEPT ![t] = @ + 1]
        BY <2>1, <2>2, <3>1 DEF RegisterHandler, TransportInv, HandlersWired
      <4>2. registered' = handlers' /\ wired = [u \in Type |-> IF u \in handlers THEN 1 ELSE 0]
        BY <2>2, <3>1, <4>1 DEF TransportInv, HandlersWired
      <4>3. wired' = [u \in Type |-> IF u \in handlers' THEN 1 ELSE 0]
        BY <2>2, <4>1, <4>2
      <4> QED
        BY <2>2, <3>1, <4>2, <4>3 DEF NodeDown, HandlersWired
    <3>2. CASE ~running
      BY <1>1, <2>1, <2>2, <3>2 DEF RegisterHandler, TransportInv, NodeDown, HandlersWired
    <3> QED
      BY <3>1, <3>2
  <2> QED
    BY <1>2, <2>3, <2>4 DEF TransportInv
<1>4. CASE \E ok \in BOOLEAN : StartTransport(ok)
  <2>1. PICK ok \in BOOLEAN : StartTransport(ok)
    BY <1>4
  <2>2. ~running /\ links = {} /\ registered = {} /\ peerCount = 0 /\ UNCHANGED handlers
    BY <2>1 DEF StartTransport, TransportInv, NodeDown
  <2>3. CASE ok
    <3>1. running' = TRUE /\ lastCount' = -1 /\ Dispatchers
      BY <2>1, <2>3 DEF StartTransport
    <3>2. registered' = handlers' /\ wired' = [t \in Type |-> IF t \in handlers' THEN 1 ELSE 0]
      BY <2>2, <3>1 DEF Dispatchers
    <3>3. CountShown'
      <4>1. Cardinality(links') = 0
        BY <1>1, <2>2, FS_EmptySet
      <4> QED
        BY <1>1, <2>2, <3>1, <4>1 DEF CountShown
    <3>4. TransportKinds'
      BY <1>1, <2>2, <3>1 DEF TransportInv, TransportKinds
    <3> QED
      BY <1>2, <3>1, <3>2, <3>3, <3>4 DEF TransportInv, NodeDown, HandlersWired
  <2>4. CASE ~ok
    <3>1. UNCHANGED <<running, lastCount, registered, wired>>
      BY <2>1, <2>4 DEF StartTransport
    <3> QED
      BY <1>1, <1>2, <2>2, <3>1
      DEF TransportInv, TransportKinds, NodeDown, HandlersWired, CountShown
  <2> QED
    BY <2>3, <2>4
<1> QED
  BY <1>3, <1>4

\* What is queued behind the rest makes no news untrue.
LEMMA BehindKeeps ==
  ASSUME TransportInv, NEW s \in Seq(Event), events' = events \o s, peers' = peers,
         \A p \in links \ links' : \E i \in DOMAIN s : s[i] = PeerGone(p),
         \A i \in DOMAIN s : s[i].kind = "client_info" => s[i].peer \in links'
  PROVE  /\ events' \in Seq(Event) /\ Introduced' /\ ListedPeers'
         /\ \A e : (\E j \in DOMAIN events : events[j] = e) => \E j \in DOMAIN events' : events'[j] = e
         /\ \A i \in DOMAIN s : \E j \in DOMAIN events' : events'[j] = s[i]
<1>1. events \in Seq(Event)
  BY DEF TransportInv, TransportKinds
<1>2. /\ events' \in Seq(Event)
      /\ \A k \in DOMAIN events : k \in DOMAIN events' /\ events'[k] = events[k]
      /\ \A i \in DOMAIN s : \E j \in DOMAIN events' :
            events'[j] = s[i] /\ \A k \in DOMAIN events : k < j
      /\ \A k \in DOMAIN events' : k \in DOMAIN events \/ \E i \in DOMAIN s : events'[k] = s[i]
  BY <1>1, QueuedBehind
<1>3. \A p \in links \ links' : \E j \in DOMAIN events' :
         events'[j] = PeerGone(p) /\ \A k \in DOMAIN events : k < j
  BY <1>2
<1>4. Introduced'
  <2>1. SUFFICES ASSUME NEW k \in DOMAIN events', events'[k].kind = "client_info"
                 PROVE  \/ events'[k].peer \in links'
                        \/ \E j \in DOMAIN events' : k < j /\ events'[j] = PeerGone(events'[k].peer)
    BY DEF Introduced, PeerGone
  <2>2. CASE k \in DOMAIN events
    <3>1. events'[k] = events[k]
      BY <1>2, <2>2
    <3>2. CASE events[k].peer \in links
      BY <1>3, <2>2, <3>1, <3>2
    <3>3. CASE \E j \in DOMAIN events : k < j /\ events[j] = PeerGone(events[k].peer)
      BY <1>2, <3>1, <3>3
    <3> QED
      BY <2>1, <2>2, <3>1, <3>2, <3>3 DEF TransportInv, Introduced
  <2>3. CASE \E i \in DOMAIN s : events'[k] = s[i]
    BY <2>1, <2>3
  <2> QED
    BY <1>2, <2>2, <2>3
<1>5. ListedPeers'
  BY <1>2, <1>3 DEF TransportInv, ListedPeers, PeerGone
<1> QED
  BY <1>2, <1>4, <1>5

\* The callbacks of links that close are one of each, and counts.
LEMMA ClosingIs ==
  ASSUME TransportInv, NEW order \in Orders
  PROVE  /\ Closing(order) \in Seq(Event)
         /\ \A p \in links : \E i \in DOMAIN Closing(order) : Closing(order)[i] = PeerGone(p)
         /\ \A i \in DOMAIN Closing(order) : Closing(order)[i].kind # "client_info"
<1> DEFINE n == Cardinality(links)
<1>1. n \in Nat /\ links \subseteq Peer
  BY FS_CardinalityType DEF TransportInv, TransportKinds
<1>2. order \in [1..n -> links] /\ {order[k] : k \in 1..n} = links /\ Len(order) = n
  <2>1. order \in [1..n -> links] /\ {order[k] : k \in DOMAIN order} = links
    BY DEF Orders
  <2>2. order \in Seq(links)
    BY <1>1, <2>1 DEF Seq
  <2>3. Len(order) \in Nat /\ DOMAIN order = 1..Len(order)
    BY <2>2, LenProperties
  <2> QED
    BY <1>1, <2>1, <2>3
<1>3. Closing(order) = [k \in 1..2 * n |->
         IF k % 2 = 1 THEN PeerGone(order[(k + 1) \div 2]) ELSE Count]
  BY <1>2 DEF Closing
<1> HIDE DEF n
<1>4. \A k \in 1..2 * n : k % 2 = 1 => (k + 1) \div 2 \in 1..n
  BY <1>1, Z3
<1>5. \A k \in 1..n : 2 * k - 1 \in 1..2 * n /\ (2 * k - 1) % 2 = 1 /\ (2 * k - 1 + 1) \div 2 = k
  BY <1>1, Z3
<1>6. \A k \in 1..2 * n : Closing(order)[k] \in Event /\ Closing(order)[k].kind # "client_info"
  <2>1. \A p \in Peer : PeerGone(p) \in Event /\ PeerGone(p).kind # "client_info"
    BY DEF PeerGone, Event
  <2>2. Count \in Event /\ Count.kind # "client_info"
    BY DEF Count, Event
  <2>3. \A k \in 1..2 * n : k % 2 = 1 => order[(k + 1) \div 2] \in Peer
    BY <1>1, <1>2, <1>4
  <2> QED
    BY <1>3, <2>1, <2>2, <2>3
<1>7. Closing(order) \in Seq(Event) /\ DOMAIN Closing(order) = 1..2 * n
  <2>1. Closing(order) \in [1..2 * n -> Event]
    BY <1>3, <1>6
  <2>2. 2 * n \in Nat
    BY <1>1
  <2> QED
    BY <2>1, <2>2 DEF Seq
<1>8. ASSUME NEW p \in links PROVE \E i \in 1..2 * n : Closing(order)[i] = PeerGone(p)
  <2>1. PICK k \in 1..n : order[k] = p
    BY <1>2
  <2>2. Closing(order)[2 * k - 1] = PeerGone(order[k])
    BY <1>3, <1>5, <2>1
  <2> QED
    BY <1>5, <2>1, <2>2
<1> QED
  BY <1>6, <1>7, <1>8

LEMMA StopKeeps == ASSUME TransportInv, StopTransport PROVE TransportInv'
<1>1. PICK order \in Orders : events' = events \o Closing(order)
  BY DEF StopTransport
<1>2. /\ running' = FALSE /\ registered' = {} /\ links' = {} /\ peerCount' = 0
      /\ told' = [p \in Peer |-> "no"] /\ UNCHANGED <<handlers, peers, sharing>>
  BY DEF StopTransport
<1> DEFINE s == Closing(order)
<1>3. /\ s \in Seq(Event) /\ \A p \in links : \E i \in DOMAIN s : s[i] = PeerGone(p)
      /\ \A i \in DOMAIN s : s[i].kind # "client_info"
  BY ClosingIs
<1>4. events' = events \o s
  BY <1>1
<1> HIDE DEF s
<1>5. events' \in Seq(Event) /\ Introduced' /\ ListedPeers'
  BY <1>2, <1>3, <1>4, BehindKeeps
<1>6. TransportKinds'
  BY <1>2, <1>5, FS_EmptySet DEF TransportInv, TransportKinds
<1>7. NodeDown' /\ HandlersWired' /\ ToldLast' /\ CountShown'
  BY <1>2 DEF NodeDown, HandlersWired, ToldLast, CountShown
<1> QED
  BY <1>5, <1>6, <1>7 DEF TransportInv

LEMMA LinksKeep ==
  ASSUME TransportInv,
         \E p \in Peer : PeerConnects(p) \/ PeerDisconnects(p) \/ ClientInfoArrives(p)
  PROVE  TransportInv'
<1>1. PICK p \in Peer : PeerConnects(p) \/ PeerDisconnects(p) \/ ClientInfoArrives(p)
  OBVIOUS
<1>2. UNCHANGED <<running, sharing, handlers, registered, wired, lastCount, peerCount, peers>>
  BY <1>1 DEF PeerConnects, PeerDisconnects, ClientInfoArrives
<1>3. links \subseteq Peer /\ IsFiniteSet(links) /\ told \in [Peer -> {"no", "yes", "off"}]
  BY DEF TransportInv, TransportKinds
<1>4. Count \in Event /\ PeerGone(p) \in Event /\ Count.kind = "count" /\ PeerGone(p).kind = "disconnected"
  BY DEF Event, Count, PeerGone
<1>5. \A k \in {"connected", "client_info"} : [kind |-> k, peer |-> p] \in Event
  BY DEF Event
<1>6. running
  BY <1>1 DEF PeerConnects, PeerDisconnects, ClientInfoArrives, TransportInv, NodeDown
<1>7. NodeDown' /\ HandlersWired'
  BY <1>2, <1>6 DEF TransportInv, NodeDown, HandlersWired
<1>8. CASE PeerConnects(p)
  <2> DEFINE s == <<[kind |-> "connected", peer |-> p], Count>>
  <2>1. events' = events \o s /\ links' = links \cup {p} /\ UNCHANGED told
    BY <1>8 DEF PeerConnects
  <2>2. s \in Seq(Event) /\ DOMAIN s = {1, 2}
    BY <1>4, <1>5
  <2>3. s[1] = [kind |-> "connected", peer |-> p] /\ s[2] = Count
    OBVIOUS
  <2> HIDE DEF s
  <2>4. \A i \in DOMAIN s : s[i].kind # "client_info"
    BY <1>4, <2>2, <2>3
  <2>5. /\ events' \in Seq(Event) /\ Introduced' /\ ListedPeers'
        /\ \A e : (\E j \in DOMAIN events : events[j] = e) => \E j \in DOMAIN events' : events'[j] = e
        /\ \A i \in DOMAIN s : \E j \in DOMAIN events' : events'[j] = s[i]
    BY <1>2, <2>1, <2>2, <2>4, BehindKeeps
  <2>6. TransportKinds'
    BY <1>2, <1>3, <2>1, <2>5, FS_AddElement DEF TransportInv, TransportKinds
  <2>7. ToldLast'
    <3>1. SUFFICES ASSUME NEW q \in links'
                   PROVE  \/ told[q] = IF sharing THEN "yes" ELSE "off"
                          \/ \E j \in DOMAIN events' : events'[j] = [kind |-> "connected", peer |-> q]
      BY <1>2, <2>1 DEF ToldLast
    <3>2. CASE q = p
      BY <2>2, <2>3, <2>5, <3>2
    <3>3. CASE q # p
      <4>1. q \in links
        BY <2>1, <3>1, <3>3
      <4> QED
        BY <2>5, <4>1 DEF TransportInv, ToldLast
    <3> QED
      BY <3>2, <3>3
  <2>8. CountShown'
    BY <1>2, <2>2, <2>3, <2>5 DEF TransportInv, CountShown, Count
  <2> QED
    BY <1>7, <2>5, <2>6, <2>7, <2>8 DEF TransportInv
<1>9. CASE PeerDisconnects(p)
  <2> DEFINE s == <<PeerGone(p), Count>>
  <2>1. events' = events \o s /\ links' = links \ {p} /\ told' = [told EXCEPT ![p] = "no"]
    BY <1>9 DEF PeerDisconnects
  <2>2. s \in Seq(Event) /\ DOMAIN s = {1, 2}
    BY <1>4
  <2>3. s[1] = PeerGone(p) /\ s[2] = Count
    OBVIOUS
  <2> HIDE DEF s
  <2>4. /\ \A i \in DOMAIN s : s[i].kind # "client_info"
        /\ \A q \in links \ links' : \E i \in DOMAIN s : s[i] = PeerGone(q)
    BY <1>4, <2>1, <2>2, <2>3
  <2>5. /\ events' \in Seq(Event) /\ Introduced' /\ ListedPeers'
        /\ \A e : (\E j \in DOMAIN events : events[j] = e) => \E j \in DOMAIN events' : events'[j] = e
        /\ \A i \in DOMAIN s : \E j \in DOMAIN events' : events'[j] = s[i]
    BY <1>2, <2>1, <2>2, <2>4, BehindKeeps
  <2>6. TransportKinds'
    BY <1>2, <1>3, <2>1, <2>5, FS_RemoveElement DEF TransportInv, TransportKinds
  <2>7. ToldLast'
    BY <1>2, <1>3, <2>1, <2>5 DEF TransportInv, ToldLast
  <2>8. CountShown'
    BY <1>2, <2>2, <2>3, <2>5 DEF TransportInv, CountShown, Count
  <2> QED
    BY <1>7, <2>5, <2>6, <2>7, <2>8 DEF TransportInv
<1>10. CASE ClientInfoArrives(p)
  <2> DEFINE e == [kind |-> "client_info", peer |-> p]
             s == <<e>>
  <2>1. events' = events \o s /\ UNCHANGED <<links, told>> /\ p \in links
    <3>1. Append(events, e) = events \o <<e>>
      BY <1>5, AppendIsConcat DEF TransportInv, TransportKinds
    <3> QED
      BY <1>10, <3>1 DEF ClientInfoArrives
  <2>2. s \in Seq(Event) /\ DOMAIN s = {1} /\ s[1].kind = "client_info" /\ s[1].peer = p
    BY <1>5
  <2> HIDE DEF s, e
  <2>3. /\ events' \in Seq(Event) /\ Introduced' /\ ListedPeers'
        /\ \A x : (\E j \in DOMAIN events : events[j] = x) => \E j \in DOMAIN events' : events'[j] = x
    BY <1>2, <2>1, <2>2, BehindKeeps
  <2>4. TransportKinds'
    BY <1>2, <2>1, <2>3 DEF TransportInv, TransportKinds
  <2>5. ToldLast'
    BY <1>2, <2>1, <2>3 DEF TransportInv, ToldLast
  <2>6. CountShown'
    BY <1>2, <2>1, <2>3 DEF TransportInv, CountShown, Count
  <2> QED
    BY <1>7, <2>3, <2>4, <2>5, <2>6 DEF TransportInv
<1> QED
  BY <1>1, <1>8, <1>9, <1>10

\* An event is taken: what else is said of the queue stays true of the rest.
LEMMA TakenKeeps ==
  ASSUME TransportInv, events # <<>>, events' = Tail(events), links' = links
  PROVE  /\ events' \in Seq(Event) /\ Introduced'
         /\ \A e : (\E j \in DOMAIN events : events[j] = e) =>
                 e = Head(events) \/ \E j \in DOMAIN events' : events'[j] = e
         /\ Head(events).kind = "client_info" =>
               \/ Head(events).peer \in links
               \/ \E j \in DOMAIN events' : events'[j] = PeerGone(Head(events).peer)
<1>1. /\ events' \in Seq(Event) /\ Head(events) = events[1] /\ 1 \in DOMAIN events
      /\ \A k \in DOMAIN events' : k \in Nat /\ k + 1 \in DOMAIN events /\ events'[k] = events[k + 1]
      /\ \A k \in DOMAIN events : k \in Nat /\ (k > 1 => k - 1 \in DOMAIN events'
                                                         /\ events'[k - 1] = events[k])
      /\ \A k \in DOMAIN events : k = 1 \/ k > 1
  BY OneTaken DEF TransportInv, TransportKinds
<1>2. Introduced'
  <2>1. SUFFICES ASSUME NEW k \in DOMAIN events', events'[k].kind = "client_info",
                        events'[k].peer \notin links
                 PROVE  \E j \in DOMAIN events' : k < j /\ events'[j] = PeerGone(events'[k].peer)
    BY DEF Introduced, PeerGone
  <2>2. PICK j \in DOMAIN events : k + 1 < j /\ events[j] = PeerGone(events'[k].peer)
    BY <1>1, <2>1 DEF TransportInv, Introduced
  <2>3. j - 1 \in DOMAIN events' /\ events'[j - 1] = PeerGone(events'[k].peer) /\ k < j - 1
    BY <1>1, <2>1, <2>2
  <2> QED
    BY <2>3
<1>3. ASSUME NEW e, NEW j \in DOMAIN events, events[j] = e, e # Head(events)
      PROVE  \E i \in DOMAIN events' : events'[i] = e
  <2>1. j > 1
    BY <1>1, <1>3
  <2> QED
    BY <1>1, <1>3, <2>1
<1>4. ASSUME Head(events).kind = "client_info", Head(events).peer \notin links
      PROVE  \E j \in DOMAIN events' : events'[j] = PeerGone(Head(events).peer)
  <2>1. PICK j \in DOMAIN events : 1 < j /\ events[j] = PeerGone(Head(events).peer)
    BY <1>1, <1>4 DEF TransportInv, Introduced
  <2> QED
    BY <1>1, <2>1
<1> QED
  BY <1>1, <1>2, <1>3, <1>4

LEMMA QtTakes ==
  ASSUME TransportInv,
         OnPeerConnected \/ OnPeerDisconnected \/ OnClientInfo \/ UpdatePeerCount
  PROVE  TransportInv'
<1> DEFINE e == Head(events)
<1>1. /\ events # <<>> /\ events' = Tail(events)
      /\ UNCHANGED <<running, sharing, handlers, registered, wired, links>>
  BY DEF OnPeerConnected, OnPeerDisconnected, OnClientInfo, UpdatePeerCount, Is
<1>2. /\ events' \in Seq(Event) /\ Introduced'
      /\ \A x : (\E j \in DOMAIN events : events[j] = x) =>
              x = e \/ \E j \in DOMAIN events' : events'[j] = x
      /\ e.kind = "client_info" =>
            e.peer \in links \/ \E j \in DOMAIN events' : events'[j] = PeerGone(e.peer)
  BY <1>1, TakenKeeps
<1>3. events \in Seq(Event) /\ e \in Event
  BY <1>1, HeadTailProperties DEF TransportInv, TransportKinds
<1>4. HandlersWired'
  BY <1>1 DEF TransportInv, HandlersWired
<1> HIDE DEF e
<1>9. /\ \A p : PeerGone(p) = e => e.kind = "disconnected" /\ e.peer = p
      /\ \A p : [kind |-> "connected", peer |-> p] = e => e.kind = "connected"
      /\ Count = e => e.kind = "count"
  BY DEF PeerGone, Count
<1>10. /\ \A p \in links : \/ told[p] = IF sharing THEN "yes" ELSE "off"
                           \/ \E j \in DOMAIN events : events[j] = [kind |-> "connected", peer |-> p]
       /\ \A p \in peers : p \in links \/ \E j \in DOMAIN events : events[j] = PeerGone(p)
       /\ \/ peerCount = (IF running THEN Cardinality(links) ELSE 0)
          \/ \E j \in DOMAIN events : events[j] = Count
       /\ running => lastCount = -1 \/ lastCount = peerCount
  BY DEF TransportInv, ToldLast, ListedPeers, CountShown
<1>5. CASE OnPeerConnected
  <2>1. e.kind = "connected" /\ told' = SendMessage(e.peer) /\ UNCHANGED <<lastCount, peerCount, peers>>
    BY <1>5 DEF OnPeerConnected, Is, e
  <2>2. e.peer \in Peer /\ e = [kind |-> "connected", peer |-> e.peer]
    BY <1>3, <2>1 DEF Event
  <2>3. /\ told' \in [Peer -> {"no", "yes", "off"}]
        /\ \A p \in Peer : p # e.peer => told'[p] = told[p]
        /\ e.peer \in links => told'[e.peer] = IF sharing THEN "yes" ELSE "off"
    BY <2>1, <2>2 DEF SendMessage, TransportInv, TransportKinds, NodeDown
  <2>4. TransportKinds'
    BY <1>1, <1>2, <2>3 DEF TransportInv, TransportKinds
  <2>5. ListedPeers'
    BY <1>1, <1>2, <1>9, <1>10, <2>1 DEF ListedPeers
  <2>6. ToldLast'
    <3>1. SUFFICES ASSUME NEW p \in links
                   PROVE  \/ told'[p] = IF sharing THEN "yes" ELSE "off"
                          \/ \E j \in DOMAIN events' : events'[j] = [kind |-> "connected", peer |-> p]
      BY <1>1 DEF ToldLast
    <3>2. CASE p = e.peer
      BY <2>3, <3>2
    <3>3. CASE p # e.peer
      <4>1. p \in Peer /\ [kind |-> "connected", peer |-> p] # e
        BY <3>3 DEF TransportInv, TransportKinds
      <4> QED
        BY <1>2, <2>3, <3>3, <4>1 DEF TransportInv, ToldLast
    <3> QED
      BY <3>2, <3>3
  <2>7. CountShown'
    BY <1>1, <1>2, <1>9, <1>10, <2>1 DEF CountShown
  <2>8. NodeDown'
    BY <1>1, <2>1 DEF TransportInv, NodeDown
  <2> QED
    BY <1>2, <1>4, <2>4, <2>5, <2>6, <2>7, <2>8 DEF TransportInv
<1>6. CASE OnPeerDisconnected
  <2>1. e.kind = "disconnected" /\ peers' = peers \ {e.peer} /\ UNCHANGED <<told, lastCount, peerCount>>
    BY <1>6 DEF OnPeerDisconnected, Is, e
  <2>2. TransportKinds'
    BY <1>1, <1>2, <2>1 DEF TransportInv, TransportKinds
  <2>3. ListedPeers'
    BY <1>1, <1>2, <1>9, <1>10, <2>1 DEF ListedPeers
  <2>4. ToldLast'
    BY <1>1, <1>2, <1>9, <1>10, <2>1 DEF ToldLast
  <2>5. CountShown'
    BY <1>1, <1>2, <1>9, <1>10, <2>1 DEF CountShown
  <2>6. NodeDown'
    BY <1>1, <2>1 DEF TransportInv, NodeDown
  <2> QED
    BY <1>2, <1>4, <2>2, <2>3, <2>4, <2>5, <2>6 DEF TransportInv
<1>7. CASE OnClientInfo
  <2>1. e.kind = "client_info" /\ peers' = peers \cup {e.peer} /\ UNCHANGED <<told, lastCount, peerCount>>
    BY <1>7 DEF OnClientInfo, Is, e
  <2>2. TransportKinds'
    BY <1>1, <1>2, <2>1 DEF TransportInv, TransportKinds
  <2>3. ListedPeers'
    BY <1>1, <1>2, <1>9, <1>10, <2>1 DEF ListedPeers
  <2>4. ToldLast'
    BY <1>1, <1>2, <1>9, <1>10, <2>1 DEF ToldLast
  <2>5. CountShown'
    BY <1>1, <1>2, <1>9, <1>10, <2>1 DEF CountShown
  <2>6. NodeDown'
    BY <1>1, <2>1 DEF TransportInv, NodeDown
  <2> QED
    BY <1>2, <1>4, <2>2, <2>3, <2>4, <2>5, <2>6 DEF TransportInv
<1>8. CASE UpdatePeerCount
  <2>1. e.kind = "count" /\ Counted /\ UNCHANGED <<told, peers>>
    BY <1>8 DEF UpdatePeerCount, Is, e
  <2>2. TransportKinds'
    BY <1>1, <1>2, <2>1 DEF TransportInv, TransportKinds
  <2>3. ListedPeers'
    BY <1>1, <1>2, <1>9, <1>10, <2>1 DEF ListedPeers
  <2>4. ToldLast'
    BY <1>1, <1>2, <1>9, <1>10, <2>1 DEF ToldLast
  <2>5. CountShown' /\ NodeDown'
    <3>1. Cardinality(links) \in Nat
      BY FS_CardinalityType DEF TransportInv, TransportKinds
    <3> QED
      BY <1>1, <2>1, <3>1 DEF Counted, TransportInv, CountShown, NodeDown
  <2> QED
    BY <1>2, <1>4, <2>2, <2>3, <2>4, <2>5 DEF TransportInv
<1> QED
  BY <1>5, <1>6, <1>7, <1>8

LEMMA TimerKeeps == ASSUME TransportInv, TimerCounts \/ SetDatabaseSharing PROVE TransportInv'
<1>1. UNCHANGED <<running, handlers, registered, wired, links, events, peers>>
  BY DEF TimerCounts, SetDatabaseSharing
<1>2. Introduced' /\ ListedPeers' /\ HandlersWired'
  BY <1>1 DEF TransportInv, Introduced, ListedPeers, HandlersWired
<1>3. CASE TimerCounts
  <2>1. Counted /\ UNCHANGED <<sharing, told>>
    BY <1>3 DEF TimerCounts
  <2>2. Cardinality(links) \in Nat
    BY FS_CardinalityType DEF TransportInv, TransportKinds
  <2>3. CountShown' /\ NodeDown'
    BY <1>1, <2>1, <2>2 DEF Counted, TransportInv, CountShown, NodeDown
  <2>4. TransportKinds' /\ ToldLast'
    BY <1>1, <2>1 DEF TransportInv, TransportKinds, ToldLast
  <2> QED
    BY <1>2, <2>3, <2>4 DEF TransportInv
<1>4. CASE SetDatabaseSharing
  <2>1. /\ sharing' = ~sharing /\ told' = IF running THEN Announced ELSE told
        /\ UNCHANGED <<lastCount, peerCount>>
    BY <1>4 DEF SetDatabaseSharing
  <2>2. CountShown' /\ NodeDown'
    BY <1>1, <2>1 DEF TransportInv, CountShown, NodeDown
  <2>3. /\ told' \in [Peer -> {"no", "yes", "off"}]
        /\ \A p \in links : told'[p] = IF sharing' THEN "yes" ELSE "off"
    BY <2>1 DEF Announced, TransportInv, TransportKinds, NodeDown
  <2>4. TransportKinds'
    <3>1. (~sharing) \in BOOLEAN
      OBVIOUS
    <3> QED
      BY <1>1, <2>1, <2>3, <3>1 DEF TransportInv, TransportKinds
  <2>5. ToldLast'
    BY <1>1, <2>3 DEF ToldLast
  <2> QED
    BY <1>2, <2>2, <2>4, <2>5 DEF TransportInv
<1> QED
  BY <1>3, <1>4

LEMMA TransportKeeps == TransportInv /\ [TransportNext]_transportVars => TransportInv'
<1> SUFFICES ASSUME TransportInv, [TransportNext]_transportVars PROVE TransportInv'
  OBVIOUS
<1>1. CASE UNCHANGED transportVars
  BY <1>1 DEF transportVars, TransportInv, TransportKinds, NodeDown, HandlersWired, Introduced,
              ListedPeers, ToldLast, CountShown
<1> QED
  BY <1>1, HandlersKeep, StopKeeps, LinksKeep, QtTakes, TimerKeeps DEF TransportNext

\* Restarts of the node, links that come and go and the queue between the reactor and
\* the Qt thread: handlers are wired once, the table and the count are those of the
\* links but for what is queued, and every peer was told last what is so
\* (p2p_transport.cpp, peer_registry.cpp, replication_service.cpp, peer_api.cpp).
THEOREM PeersAgreeHolds == TransportSpec => []PeersAgree
<1> QED
  BY TransportStarted, TransportKeeps, TransportGives, PTL DEF TransportSpec

\* The table and the counts are of peers there are.
PeersCounted ==
    /\ registered \subseteq Type /\ peers \subseteq Peer
    /\ lastCount \in -1..Cardinality(Peer) /\ peerCount \in 0..Cardinality(Peer)

LEMMA PeersCountedKeeps ==
  ASSUME TransportInv, PeersCounted, [TransportNext]_transportVars
  PROVE  PeersCounted'
<1>1. Cardinality(links) \in 0..Cardinality(Peer) /\ Cardinality(Peer) \in Nat
  BY TransportAssumption, FS_CardinalityType, FS_Subset DEF TransportInv, TransportKinds
<1>2. \A k \in DOMAIN events : events[k] \in Event
  BY DEF TransportInv, TransportKinds
<1>3. CASE UNCHANGED transportVars
  BY <1>3 DEF transportVars, PeersCounted
<1>4. CASE \E t \in Type : RegisterHandler(t)
  BY <1>4 DEF RegisterHandler, PeersCounted
<1>5. CASE \E ok \in BOOLEAN : StartTransport(ok)
  BY <1>1, <1>5 DEF StartTransport, Dispatchers, PeersCounted, TransportInv, TransportKinds
<1>6. CASE StopTransport
  BY <1>1, <1>6 DEF StopTransport, PeersCounted
<1>7. CASE \E p \in Peer : PeerConnects(p) \/ PeerDisconnects(p) \/ ClientInfoArrives(p)
  BY <1>7 DEF PeerConnects, PeerDisconnects, ClientInfoArrives, PeersCounted
<1>8. CASE OnPeerConnected \/ OnPeerDisconnected
  BY <1>8 DEF OnPeerConnected, OnPeerDisconnected, PeersCounted
<1>9. CASE OnClientInfo
  <2>1. Head(events).kind = "client_info" /\ Head(events) \in Event
    BY <1>2, <1>9 DEF OnClientInfo, Is, TransportInv, TransportKinds
  <2>2. Head(events).peer \in Peer
    BY <2>1 DEF Event
  <2> QED
    BY <1>9, <2>2 DEF OnClientInfo, PeersCounted
<1>10. CASE UpdatePeerCount \/ TimerCounts
  BY <1>1, <1>10 DEF UpdatePeerCount, TimerCounts, Counted, PeersCounted
<1>11. CASE SetDatabaseSharing
  BY <1>11 DEF SetDatabaseSharing, PeersCounted
<1> QED
  BY <1>3, <1>4, <1>5, <1>6, <1>7, <1>8, <1>9, <1>10, <1>11 DEF TransportNext

\* What the transport keeps stays of its kind, whatever peers do (p2p_transport.cpp).
THEOREM TransportTypeOKHolds == TransportSpec => []TransportTypeOK
<1>1. TransportInit => PeersCounted
  BY TransportAssumption, FS_CardinalityType DEF TransportInit, PeersCounted
<1>2. TransportInv /\ PeersCounted /\ [TransportNext]_transportVars => (TransportInv /\ PeersCounted)'
  BY PeersCountedKeeps, TransportKeeps
<1>3. TransportInv /\ PeersCounted => TransportTypeOK
  BY DEF TransportInv, TransportKinds, PeersCounted, TransportTypeOK
<1> QED
  BY <1>1, <1>2, <1>3, TransportStarted, PTL DEF TransportSpec

-----------------------------------------------------------------------------
(* Two nodes that exchange torrents.  The invariant types what is on its    *)
(* way, and adds that a cycle that is yet to settle counts in advance what  *)
(* it will add to the total.                                                *)

RowTable == {t \in TorrentRows : \A h \in DOMAIN t : t[h].list => t[h].count}

Questioned == {"searchTorrent", "searchFiles", "topTorrents", "feed", "randomTorrents"}
Answered4 == {"searchTorrent_response", "searchFiles_response", "torrent_response",
              "randomTorrents_response", "torrentAnnounce"}
Travelling == [kind : Questioned, torrents : {<<>>}]
              \cup [kind : Answered4, torrents : TorrentRows]
              \cup [kind : {"torrent"}, hashes : SUBSET ExchangeHash, includeFiles : BOOLEAN]
              \cup [kind : {"feed_response"}, date : Nat, torrents : TorrentRows]

ExchangeKinds ==
    /\ nodeRows \in [Node -> RowTable]
    /\ nodeFeed \in [Node -> SUBSET ExchangeHash] /\ shown \in [Node -> SUBSET ExchangeHash]
    /\ chan \in [Node -> Seq(Travelling)]
    /\ replicating \in [Node -> BOOLEAN] /\ cycleTimer \in [Node -> BOOLEAN]
    /\ settling \in [Node -> BOOLEAN] /\ date \in [Node -> Nat]
    /\ received \in [Node -> Nat] /\ total \in [Node -> Nat] /\ replicated \in [Node -> Nat]

CountedInAdvance ==
    \A n \in Node : total[n] + (IF settling[n] THEN received[n] ELSE 0) <= replicated[n]

ExchangeInv == ExchangeKinds /\ CountedInAdvance

\* A torrent keeps its row, its votes and its files.
Kept(old, new) ==
    \A h \in DOMAIN old : /\ h \in DOMAIN new /\ new[h].good >= old[h].good
                          /\ old[h].list => new[h].list

LEMMA RowsAre ==
  /\ \A t : t \in TorrentRows <=> /\ DOMAIN t \subseteq ExchangeHash /\ t = [h \in DOMAIN t |-> t[h]]
                                 /\ \A h \in DOMAIN t : t[h] \in TorrentRow
  /\ RowTable \subseteq TorrentRows
<1>1. RowTable \subseteq TorrentRows
  BY DEF RowTable
<1>2. ASSUME NEW t, DOMAIN t \subseteq ExchangeHash, t = [h \in DOMAIN t |-> t[h]],
             \A h \in DOMAIN t : t[h] \in TorrentRow
      PROVE  t \in TorrentRows
  <2>1. t \in [DOMAIN t -> TorrentRow]
    BY <1>2
  <2> QED
    BY <1>2, <2>1 DEF TorrentRows
<1>3. ASSUME NEW t \in TorrentRows
      PROVE  /\ DOMAIN t \subseteq ExchangeHash /\ t = [h \in DOMAIN t |-> t[h]]
             /\ \A h \in DOMAIN t : t[h] \in TorrentRow
  <2>1. PICK S \in SUBSET ExchangeHash : t \in [S -> TorrentRow]
    BY DEF TorrentRows
  <2> QED
    BY <2>1
<1> QED
  BY <1>1, <1>2, <1>3

LEMMA EntryOfRows == ASSUME NEW t \in TorrentRows, NEW h \in DOMAIN t
                     PROVE  t[h] \in TorrentRow /\ h \in ExchangeHash
  BY RowsAre

\* What the codec sends of a row and makes of what arrives is a row.
LEMMA CodecTyped ==
  ASSUME NEW t \in TorrentRow, NEW b \in BOOLEAN
  PROVE  /\ ToJson(t, b) \in TorrentRow
         /\ TorrentFromJson(t) \in TorrentRow
         /\ TorrentFromJson(t).list => TorrentFromJson(t).count
<1>1. PICK c \in BOOLEAN, l \in BOOLEAN, g \in 0..1 : t = [count |-> c, list |-> l, good |-> g]
  BY DEF TorrentRow
<1>2. ToJson(t, b) = [count |-> c, list |-> l /\ b, good |-> g]
  BY <1>1 DEF ToJson
<1>3. TorrentFromJson(t) = [count |-> c \/ l, list |-> l, good |-> g]
  BY <1>1 DEF TorrentFromJson
<1>4. (l /\ b) \in BOOLEAN /\ (c \/ l) \in BOOLEAN
  OBVIOUS
<1> QED
  BY <1>2, <1>3, <1>4 DEF TorrentRow

LEMMA MergeKeeps ==
  ASSUME NEW old \in TorrentRow, old.list => old.count, NEW t \in TorrentRow
  PROVE  /\ Merge(old, t) \in TorrentRow
         /\ Merge(old, t).list => Merge(old, t).count
         /\ Merge(old, t).good >= old.good
         /\ old.list => Merge(old, t).list
<1>1. PICK c \in BOOLEAN, l \in BOOLEAN, g \in 0..1 : old = [count |-> c, list |-> l, good |-> g]
  BY DEF TorrentRow
<1>2. t.good \in 0..1
  BY DEF TorrentRow
<1>3. PICK x \in 0..1 : x = IF t.good > g THEN t.good ELSE g
  BY <1>2
<1>4. x >= g
  BY <1>2, <1>3
<1>5. t.list \in BOOLEAN
  BY DEF TorrentRow
<1>6. PICK u \in BOOLEAN : u = (c \/ (~c /\ t.list))
  OBVIOUS
<1>7. PICK v \in BOOLEAN : v = (l \/ (~c /\ t.list))
  OBVIOUS
<1>8. Merge(old, t) = [count |-> u, list |-> v, good |-> x]
  <2>1. old.count = c /\ old.list = l /\ old.good = g
    BY <1>1
  <2>2. Merge(old, t) = [old EXCEPT !.count = c \/ (~c /\ t.list), !.list = l \/ (~c /\ t.list),
                                    !.good = IF t.good > g THEN t.good ELSE g]
    BY <2>1, Zenon DEF Merge
  <2>3. Merge(old, t) = [old EXCEPT !.count = u, !.list = v, !.good = x]
    BY <1>3, <1>6, <1>7, <2>2, Zenon
  <2> QED
    BY <1>1, <2>3
<1> QED
  BY <1>1, <1>4, <1>5, <1>6, <1>7, <1>8 DEF TorrentRow

LEMMA InsertedKeeps ==
  ASSUME nodeRows \in [Node -> RowTable], NEW n \in Node, NEW ts \in TorrentRows, NEW fails
  PROVE  /\ Inserted(n, ts, fails) \in RowTable
         /\ Kept(nodeRows[n], Inserted(n, ts, fails))
<1> DEFINE old == nodeRows[n]
           new == Inserted(n, ts, fails)
           fresh == (DOMAIN ts) \ (Held(n) \cup Filtered[n] \cup fails)
<1>1. old \in RowTable /\ old \in TorrentRows /\ DOMAIN old = Held(n)
  BY RowsAre DEF Held
<1>2. DOMAIN new = Held(n) \cup fresh /\ new = [h \in DOMAIN new |-> new[h]]
  BY DEF Inserted
<1>3. DOMAIN new \subseteq ExchangeHash
  BY <1>1, <1>2, RowsAre
<1>4. ASSUME NEW h \in DOMAIN new
      PROVE  /\ new[h] \in TorrentRow
             /\ new[h].list => new[h].count
             /\ h \in DOMAIN old => new[h].good >= old[h].good /\ (old[h].list => new[h].list)
  <2>1. CASE h \in fresh
    <3>1. new[h] = TorrentFromJson(ts[h]) /\ h \notin DOMAIN old /\ ts[h] \in TorrentRow
      BY <1>1, <1>2, <2>1, EntryOfRows DEF Inserted
    <3> QED
      BY <3>1, CodecTyped
  <2>2. CASE h \notin fresh /\ h \in DOMAIN ts \ fails
    <3>1. h \in DOMAIN old /\ h \in DOMAIN ts
      BY <1>1, <1>2, <2>2
    <3>2. new[h] = Merge(old[h], TorrentFromJson(ts[h]))
      BY <1>2, <2>2 DEF Inserted
    <3>3. ts[h] \in TorrentRow /\ old[h] \in TorrentRow /\ (old[h].list => old[h].count)
      BY <1>1, <3>1, EntryOfRows DEF RowTable
    <3>4. TorrentFromJson(ts[h]) \in TorrentRow
      BY <3>3, CodecTyped
    <3> QED
      BY <3>2, <3>3, <3>4, MergeKeeps
  <2>3. CASE h \notin fresh /\ h \notin DOMAIN ts \ fails
    <3>1. h \in DOMAIN old /\ new[h] = old[h]
      BY <1>1, <1>2, <2>3 DEF Inserted
    <3>2. old[h] \in TorrentRow /\ (old[h].list => old[h].count) /\ old[h].good >= old[h].good
      BY <1>1, <3>1, EntryOfRows DEF RowTable, TorrentRow
    <3> QED
      BY <3>1, <3>2
  <2> QED
    BY <2>1, <2>2, <2>3
<1> HIDE DEF new, old
<1>5. \A h \in DOMAIN new : new[h] \in TorrentRow /\ (new[h].list => new[h].count)
  BY <1>4
<1>6. \A h \in DOMAIN old : /\ h \in DOMAIN new /\ new[h].good >= old[h].good
                            /\ old[h].list => new[h].list
  BY <1>1, <1>2, <1>4
<1>7. new \in TorrentRows
  BY <1>2, <1>3, <1>5, RowsAre
<1>8. new \in RowTable
  BY <1>5, <1>7 DEF RowTable
<1>9. Kept(old, new)
  BY <1>6 DEF Kept
<1> QED
  BY <1>8, <1>9 DEF new, old

LEMMA RowsFinite ==
  ASSUME NEW t \in TorrentRows, NEW S
  PROVE  Cardinality(DOMAIN t \ S) \in Nat /\ Cardinality(DOMAIN t) \in Nat
<1>1. IsFiniteSet(DOMAIN t)
  BY RowsAre, ExchangeAssumption, FS_Subset
<1>2. IsFiniteSet(DOMAIN t \ S)
  BY <1>1, FS_Subset
<1> QED
  BY <1>1, <1>2, FS_CardinalityType

\* A message is taken off its channel and others are added to another.
LEMMA AnswerTyped ==
  ASSUME chan \in [Node -> Seq(Travelling)], NEW n \in Node, chan[n] # <<>>,
         NEW replies \in Seq(Travelling), Answer(n, replies)
  PROVE  chan' \in [Node -> Seq(Travelling)]
<1>1. Tail(chan[n]) \in Seq(Travelling)
  OBVIOUS
<1>2. \A s \in Seq(Travelling) : s \o replies \in Seq(Travelling)
  OBVIOUS
<1> QED
  BY <1>1, <1>2 DEF Answer

LEMMA MessageIs ==
  ASSUME chan \in [Node -> Seq(Travelling)], NEW n \in Node, chan[n] # <<>>
  PROVE  Got(n) \in Travelling
  BY DEF Got

\* What is sent of a table is rows.
LEMMA SentTyped ==
  ASSUME nodeRows \in [Node -> RowTable], NEW n \in Node, NEW S \in SUBSET Held(n), NEW b \in BOOLEAN
  PROVE  Sent(n, S, b) \in TorrentRows
<1>1. nodeRows[n] \in TorrentRows /\ DOMAIN nodeRows[n] = Held(n)
  BY RowsAre DEF Held
<1>2. \A h \in S : nodeRows[n][h] \in TorrentRow /\ h \in ExchangeHash
  BY <1>1, EntryOfRows
<1>3. \A h \in S : ToJson(nodeRows[n][h], b) \in TorrentRow
  BY <1>2, CodecTyped
<1> QED
  BY <1>2, <1>3, RowsAre DEF Sent

\* InsertFromPeer: rows are kept, and what is counted is counted in both places.
LEMMA InsertFromPeerKeeps ==
  ASSUME ExchangeInv, NEW n \in Node, NEW ts \in TorrentRows, NEW track \in BOOLEAN, NEW fails,
         InsertFromPeer(n, ts, track, fails)
  PROVE  /\ nodeRows' \in [Node -> RowTable] /\ received' \in [Node -> Nat]
         /\ replicated' \in [Node -> Nat]
         /\ \A m \in Node : Kept(nodeRows[m], nodeRows'[m])
         /\ \A m \in Node : \E k \in Nat : /\ received'[m] = received[m] + k
                                           /\ replicated'[m] = replicated[m] + k
<1>1. /\ nodeRows \in [Node -> RowTable] /\ received \in [Node -> Nat]
      /\ replicated \in [Node -> Nat]
  BY DEF ExchangeInv, ExchangeKinds
<1>2. PICK after : after = Inserted(n, ts, fails)
  OBVIOUS
<1>3. after \in RowTable /\ Kept(nodeRows[n], after)
  BY <1>1, <1>2, InsertedKeeps
<1>4. after \in TorrentRows
  BY <1>3, RowsAre
<1>5. PICK count \in Nat : count = IF track THEN Cardinality(DOMAIN after \ Held(n)) ELSE 0
  BY <1>4, RowsFinite
<1>6. /\ nodeRows' = [nodeRows EXCEPT ![n] = after]
      /\ received' = [received EXCEPT ![n] = @ + count]
      /\ replicated' = [replicated EXCEPT ![n] = @ + count]
  BY <1>2, <1>5 DEF InsertFromPeer
<1>7. \A m \in Node : Kept(nodeRows[m], nodeRows[m])
  <2> SUFFICES ASSUME NEW m \in Node, NEW h \in DOMAIN nodeRows[m]
               PROVE  nodeRows[m][h].good >= nodeRows[m][h].good
    BY DEF Kept
  <2>1. nodeRows[m] \in TorrentRows
    BY <1>1, RowsAre
  <2>2. nodeRows[m][h] \in TorrentRow
    BY <2>1, EntryOfRows
  <2> QED
    BY <2>2 DEF TorrentRow
<1>8. \A m \in Node : Kept(nodeRows[m], nodeRows'[m])
  BY <1>1, <1>3, <1>6, <1>7
<1>9. nodeRows' \in [Node -> RowTable]
  BY <1>1, <1>3, <1>6
<1>10. \A m \in Node : \E k \in Nat : /\ received'[m] = received[m] + k
                                      /\ replicated'[m] = replicated[m] + k
  <2> SUFFICES ASSUME NEW m \in Node
               PROVE  \E k \in Nat : /\ received'[m] = received[m] + k
                                     /\ replicated'[m] = replicated[m] + k
    OBVIOUS
  <2>1. CASE m = n
    BY <1>1, <1>5, <1>6, <2>1
  <2>2. CASE m # n
    <3>1. received'[m] = received[m] + 0 /\ replicated'[m] = replicated[m] + 0 /\ 0 \in Nat
      BY <1>1, <1>6, <2>2
    <3> QED
      BY <3>1
  <2> QED
    BY <2>1, <2>2
<1>11. received' \in [Node -> Nat] /\ replicated' \in [Node -> Nat]
  BY <1>1, <1>5, <1>6
<1> QED
  BY <1>8, <1>9, <1>10, <1>11

\* Nothing of the tables and of the counters changes.
LEMMA TablesStay ==
  ASSUME ExchangeInv, UNCHANGED nodeRows PROVE \A n \in Node : Kept(nodeRows[n], nodeRows'[n])
<1> SUFFICES ASSUME NEW n \in Node, NEW h \in DOMAIN nodeRows[n]
             PROVE  nodeRows[n][h].good >= nodeRows[n][h].good
  BY DEF Kept
<1>1. nodeRows[n] \in TorrentRows
  BY RowsAre DEF ExchangeInv, ExchangeKinds
<1>2. nodeRows[n][h] \in TorrentRow
  BY <1>1, EntryOfRows
<1> QED
  BY <1>2 DEF TorrentRow

LEMMA ExchangeStarts == ExchangeInit => ExchangeInv
<1> SUFFICES ASSUME ExchangeInit PROVE ExchangeInv
  OBVIOUS
<1>1. nodeRows \in [Node -> RowTable]
  BY ExchangeAssumption DEF ExchangeInit, RowTable
<1>2. nodeFeed \in [Node -> SUBSET ExchangeHash] /\ \A n \in Node : Cardinality(nodeFeed[n]) \in Nat
  <2>1. nodeFeed \in [Node -> SUBSET ExchangeHash]
    BY ExchangeAssumption DEF ExchangeInit
  <2>2. \A n \in Node : IsFiniteSet(nodeFeed[n])
    BY <2>1, ExchangeAssumption, FS_Subset
  <2> QED
    BY <2>1, <2>2, FS_CardinalityType
<1>3. date \in [Node -> Nat]
  BY <1>2 DEF ExchangeInit
<1>4. <<>> \in Seq(Travelling)
  OBVIOUS
<1>5. PICK on \in BOOLEAN : replicating = [n \in Node |-> n \in Active /\ on]
  BY DEF ExchangeInit
<1>6. replicating \in [Node -> BOOLEAN]
  BY <1>5
<1>7. ExchangeKinds
  BY <1>1, <1>2, <1>3, <1>4, <1>6 DEF ExchangeInit, ExchangeKinds
<1>8. CountedInAdvance
  BY DEF ExchangeInit, CountedInAdvance
<1> QED
  BY <1>7, <1>8 DEF ExchangeInv

\* What is promised of one step.
Steady == ExchangeInv' /\ \A n \in Node : Kept(nodeRows[n], nodeRows'[n])

\* A request is answered.
LEMMA RequestSteady ==
  ASSUME ExchangeInv, NEW n \in Node, chan[n] # <<>>, NEW replies \in Seq(Travelling),
         Answer(n, replies), UNCHANGED <<indexVars, shown, received>>, Unchanged
  PROVE  Steady
<1>1. chan' \in [Node -> Seq(Travelling)]
  BY AnswerTyped DEF ExchangeInv, ExchangeKinds
<1>2. /\ UNCHANGED <<nodeRows, replicated, shown, received, nodeFeed, date, linked>>
      /\ UNCHANGED <<replicating, cycleTimer, settling, interval, total>>
  BY DEF Unchanged, indexVars
<1> QED
  BY <1>1, <1>2, TablesStay DEF Steady, ExchangeInv, ExchangeKinds, CountedInAdvance

\* One message, with torrents or without.
LEMMA ReplyTyped ==
  ASSUME NEW kind \in Answered4, NEW ts \in TorrentRows PROVE <<Msg(kind, ts)>> \in Seq(Travelling)
  BY DEF Msg, Travelling
LEMMA NoReply == <<>> \in Seq(Travelling)
  OBVIOUS

LEMMA HeldTyped ==
  ASSUME ExchangeInv, NEW n \in Node PROVE Held(n) \subseteq ExchangeHash /\ nodeRows[n] \in TorrentRows
  BY RowsAre DEF ExchangeInv, ExchangeKinds, Held

LEMMA RequestsSteady ==
  ASSUME ExchangeInv, NEW n \in Node, NEW S \in SUBSET ExchangeHash, NEW serves \in BOOLEAN,
         \/ HandleTopTorrentsRequest(n) \/ HandleTorrentRequest(n) \/ HandleFeedRequest(n)
         \/ HandleSearchRequest(n, S) \/ HandleSearchFilesRequest(n, S)
         \/ HandleRandomTorrentsRequest(n, serves, S)
  PROVE  Steady
<1>1. nodeRows \in [Node -> RowTable] /\ chan \in [Node -> Seq(Travelling)]
  BY DEF ExchangeInv, ExchangeKinds
<1>2. CASE HandleTopTorrentsRequest(n)
  BY <1>2, RequestSteady, NoReply DEF HandleTopTorrentsRequest, Gets
<1>3. CASE HandleTorrentRequest(n)
  <2>1. chan[n] # <<>> /\ Got(n).kind = "torrent" /\ Got(n) \in Travelling
    BY <1>1, <1>3, MessageIs DEF HandleTorrentRequest, Gets, Got
  <2>2. Got(n).includeFiles \in BOOLEAN
    BY <2>1 DEF Travelling, Questioned, Answered4
  <2>3. PICK T : T = Got(n).hashes \cap Held(n)
    OBVIOUS
  <2>4. Sent(n, T, Got(n).includeFiles) \in TorrentRows
    BY <1>1, <2>2, <2>3, SentTyped
  <2>5. PICK replies : replies = IF T = {} THEN <<>>
                          ELSE <<Msg("torrent_response", Sent(n, T, Got(n).includeFiles))>>
    OBVIOUS
  <2>6. replies \in Seq(Travelling)
    BY <2>4, <2>5, ReplyTyped, NoReply DEF Answered4
  <2> QED
    BY <1>3, <2>1, <2>3, <2>5, <2>6, RequestSteady DEF HandleTorrentRequest
<1>4. CASE HandleFeedRequest(n)
  <2>1. FeedMsg(n) \in Travelling
    <3> DEFINE ts == [h \in nodeFeed[n] |-> IF h \in Held(n) THEN ToJson(nodeRows[n][h], FALSE)
                                            ELSE [count |-> TRUE, list |-> FALSE, good |-> 1]]
    <3>1. \A h \in Held(n) : ToJson(nodeRows[n][h], FALSE) \in TorrentRow
      BY HeldTyped, EntryOfRows, CodecTyped DEF Held
    <3>2. [count |-> TRUE, list |-> FALSE, good |-> 1] \in TorrentRow
      BY DEF TorrentRow
    <3>3. nodeFeed[n] \subseteq ExchangeHash /\ date[n] \in Nat
      BY DEF ExchangeInv, ExchangeKinds
    <3>4. \A h \in DOMAIN ts : ts[h] \in TorrentRow
      BY <3>1, <3>2
    <3>5. ts \in TorrentRows
      BY <3>3, <3>4, RowsAre
    <3> QED
      BY <3>3, <3>5 DEF FeedMsg, Travelling
  <2>2. PICK replies : replies = <<FeedMsg(n)>>
    OBVIOUS
  <2>3. replies \in Seq(Travelling)
    BY <2>1, <2>2
  <2> QED
    BY <1>4, <2>2, <2>3, RequestSteady DEF HandleFeedRequest, Gets
<1>5. CASE HandleSearchRequest(n, S)
  <2>1. Sent(n, S, FALSE) \in TorrentRows
    BY <1>1, <1>5, SentTyped DEF HandleSearchRequest
  <2>2. PICK replies : replies = IF S = {} THEN <<>>
                                 ELSE <<Msg("searchTorrent_response", Sent(n, S, FALSE))>>
    OBVIOUS
  <2>3. replies \in Seq(Travelling)
    BY <2>1, <2>2, ReplyTyped, NoReply DEF Answered4
  <2> QED
    BY <1>5, <2>2, <2>3, RequestSteady DEF HandleSearchRequest, Gets
<1>6. CASE HandleSearchFilesRequest(n, S)
  <2>1. Sent(n, S, FALSE) \in TorrentRows
    BY <1>1, <1>6, SentTyped DEF HandleSearchFilesRequest
  <2>2. PICK replies : replies = IF S = {} THEN <<>>
                                 ELSE <<Msg("searchFiles_response", Sent(n, S, FALSE))>>
    OBVIOUS
  <2>3. replies \in Seq(Travelling)
    BY <2>1, <2>2, ReplyTyped, NoReply DEF Answered4
  <2> QED
    BY <1>6, <2>2, <2>3, RequestSteady DEF HandleSearchFilesRequest, Gets
<1>7. CASE HandleRandomTorrentsRequest(n, serves, S)
  <2>1. Sent(n, S, TRUE) \in TorrentRows
    BY <1>1, <1>7, SentTyped DEF HandleRandomTorrentsRequest
  <2>2. PICK replies : replies = IF serves THEN <<Msg("randomTorrents_response", Sent(n, S, TRUE))>>
                                 ELSE <<>>
    OBVIOUS
  <2>3. replies \in Seq(Travelling)
    BY <2>1, <2>2, ReplyTyped, NoReply DEF Answered4
  <2> QED
    BY <1>7, <2>2, <2>3, RequestSteady DEF HandleRandomTorrentsRequest, Gets
<1> QED
  BY <1>2, <1>3, <1>4, <1>5, <1>6, <1>7

\* Hits are shown.
LEMMA HitsSteady ==
  ASSUME ExchangeInv, NEW n \in Node, HandleSearchResult(n) \/ HandleSearchFilesResult(n)
  PROVE  Steady
<1>1. /\ chan[n] # <<>> /\ Got(n).kind \in {"searchTorrent_response", "searchFiles_response"}
      /\ shown' = [shown EXCEPT ![n] = @ \cup DOMAIN Got(n).torrents]
      /\ Answer(n, <<>>) /\ UNCHANGED <<indexVars, received>> /\ Unchanged
  BY DEF HandleSearchResult, HandleSearchFilesResult, Gets, Got
<1>2. Got(n) \in Travelling
  BY <1>1, MessageIs DEF ExchangeInv, ExchangeKinds
<1>3. Got(n).torrents \in TorrentRows
  BY <1>1, <1>2 DEF Travelling, Questioned, Answered4
<1>4. DOMAIN Got(n).torrents \subseteq ExchangeHash
  BY <1>3, RowsAre
<1>5. shown' \in [Node -> SUBSET ExchangeHash]
  BY <1>1, <1>4 DEF ExchangeInv, ExchangeKinds
<1>6. chan' \in [Node -> Seq(Travelling)]
  BY <1>1, AnswerTyped, NoReply DEF ExchangeInv, ExchangeKinds
<1>7. /\ UNCHANGED <<nodeRows, replicated, received, nodeFeed, date, linked>>
      /\ UNCHANGED <<replicating, cycleTimer, settling, interval, total>>
  BY <1>1 DEF Unchanged, indexVars
<1> QED
  BY <1>5, <1>6, <1>7, TablesStay DEF Steady, ExchangeInv, ExchangeKinds, CountedInAdvance

\* Torrents are indexed.
LEMMA IndexedSteady ==
  ASSUME ExchangeInv, NEW n \in Node, NEW ts \in TorrentRows, NEW track \in BOOLEAN, NEW fails,
         chan[n] # <<>>, InsertFromPeer(n, ts, track, fails), Answer(n, <<>>),
         nodeFeed' \in [Node -> SUBSET ExchangeHash], date' \in [Node -> Nat],
         UNCHANGED <<shown, linked, replicating, cycleTimer, settling, interval, total, asks>>
  PROVE  Steady
<1>1. /\ nodeRows' \in [Node -> RowTable] /\ received' \in [Node -> Nat]
      /\ replicated' \in [Node -> Nat]
      /\ \A m \in Node : Kept(nodeRows[m], nodeRows'[m])
      /\ \A m \in Node : \E k \in Nat : /\ received'[m] = received[m] + k
                                        /\ replicated'[m] = replicated[m] + k
  BY InsertFromPeerKeeps
<1>2. chan' \in [Node -> Seq(Travelling)]
  BY AnswerTyped, NoReply DEF ExchangeInv, ExchangeKinds
<1>3. ExchangeKinds'
  BY <1>1, <1>2 DEF ExchangeInv, ExchangeKinds
<1>4. CountedInAdvance'
  <2> SUFFICES ASSUME NEW m \in Node
               PROVE  total[m] + (IF settling[m] THEN received'[m] ELSE 0) <= replicated'[m]
    BY DEF CountedInAdvance
  <2>1. PICK k \in Nat : received'[m] = received[m] + k /\ replicated'[m] = replicated[m] + k
    BY <1>1
  <2>2. /\ total[m] \in Nat /\ received[m] \in Nat /\ replicated[m] \in Nat
        /\ total[m] + (IF settling[m] THEN received[m] ELSE 0) <= replicated[m]
    BY DEF ExchangeInv, ExchangeKinds, CountedInAdvance
  <2> QED
    BY <2>1, <2>2
<1> QED
  BY <1>1, <1>3, <1>4 DEF Steady, ExchangeInv

LEMMA ResponsesSteady ==
  ASSUME ExchangeInv, NEW n \in Node, NEW fails,
         \/ HandleTorrentResponse(n, fails)
         \/ \E kept \in SUBSET ExchangeHash : HandleFeedResponse(n, kept, fails)
         \/ HandleRandomTorrentsResponse(n, fails) \/ HandleTorrentAnnounce(n, fails)
  PROVE  Steady
<1>1. CASE \/ HandleTorrentResponse(n, fails) \/ HandleRandomTorrentsResponse(n, fails)
           \/ HandleTorrentAnnounce(n, fails)
  <2>1. PICK track \in BOOLEAN : InsertFromPeer(n, Got(n).torrents, track, fails)
    BY <1>1 DEF HandleTorrentResponse, HandleRandomTorrentsResponse, HandleTorrentAnnounce
  <2>2. /\ chan[n] # <<>> /\ Got(n).kind \in {"torrent_response", "randomTorrents_response",
                                              "torrentAnnounce"}
        /\ Answer(n, <<>>) /\ UNCHANGED shown /\ Unchanged
    BY <1>1 DEF HandleTorrentResponse, HandleRandomTorrentsResponse, HandleTorrentAnnounce, Gets, Got
  <2>3. Got(n) \in Travelling
    BY <2>2, MessageIs DEF ExchangeInv, ExchangeKinds
  <2>4. Got(n).torrents \in TorrentRows
    BY <2>2, <2>3 DEF Travelling, Questioned, Answered4
  <2>5. /\ UNCHANGED <<shown, linked, replicating, cycleTimer, settling, interval, total, asks>>
        /\ nodeFeed' \in [Node -> SUBSET ExchangeHash] /\ date' \in [Node -> Nat]
    BY <2>2 DEF Unchanged, ExchangeInv, ExchangeKinds
  <2> QED
    BY <2>1, <2>2, <2>4, <2>5, IndexedSteady
<1>2. ASSUME NEW kept \in SUBSET ExchangeHash, HandleFeedResponse(n, kept, fails)
      PROVE  Steady
  <2>1. /\ chan[n] # <<>> /\ Got(n).kind = "feed_response" /\ Answer(n, <<>>)
        /\ UNCHANGED <<shown, linked, replicating, cycleTimer, settling, interval, total, asks>>
        /\ \/ /\ nodeFeed' = [nodeFeed EXCEPT ![n] = DOMAIN Got(n).torrents \cap kept]
              /\ date' = [date EXCEPT ![n] = Got(n).date]
              /\ InsertFromPeer(n, Got(n).torrents, FALSE, fails)
           \/ UNCHANGED <<nodeFeed, date, nodeRows, received, replicated>>
    BY <1>2 DEF HandleFeedResponse, Gets, Got
  <2>2. Got(n) \in Travelling
    BY <2>1, MessageIs DEF ExchangeInv, ExchangeKinds
  <2>3. Got(n).torrents \in TorrentRows /\ Got(n).date \in Nat
    BY <2>1, <2>2 DEF Travelling, Questioned, Answered4
  <2>4. DOMAIN Got(n).torrents \cap kept \subseteq ExchangeHash
    OBVIOUS
  <2>5. CASE /\ nodeFeed' = [nodeFeed EXCEPT ![n] = DOMAIN Got(n).torrents \cap kept]
             /\ date' = [date EXCEPT ![n] = Got(n).date]
             /\ InsertFromPeer(n, Got(n).torrents, FALSE, fails)
    <3>1. nodeFeed' \in [Node -> SUBSET ExchangeHash] /\ date' \in [Node -> Nat]
      BY <2>3, <2>4, <2>5 DEF ExchangeInv, ExchangeKinds
    <3>2. PICK track \in BOOLEAN : InsertFromPeer(n, Got(n).torrents, track, fails)
      BY <2>5
    <3> QED
      BY <2>1, <2>3, <3>1, <3>2, IndexedSteady
  <2>6. CASE UNCHANGED <<nodeFeed, date, nodeRows, received, replicated>>
    <3>1. Unchanged /\ UNCHANGED <<indexVars, shown, received>>
      BY <2>1, <2>6 DEF Unchanged, indexVars
    <3> QED
      BY <2>1, <3>1, NoReply, RequestSteady
  <2> QED
    BY <2>1, <2>5, <2>6
<1> QED
  BY <1>1, <1>2

\* The link, and what a node says.
LEMMA TalkSteady ==
  ASSUME ExchangeInv, chan' \in [Node -> Seq(Travelling)],
         UNCHANGED <<indexVars, nodeFeed, date, shown, replicationVars>>
  PROVE  Steady
<1>1. /\ UNCHANGED <<nodeRows, replicated, received, nodeFeed, date, shown>>
      /\ UNCHANGED <<replicating, cycleTimer, settling, interval, total>>
  BY DEF indexVars, replicationVars
<1> QED
  BY <1>1, TablesStay DEF Steady, ExchangeInv, ExchangeKinds, CountedInAdvance

LEMMA SaidTyped ==
  ASSUME chan \in [Node -> Seq(Travelling)], NEW o, NEW m \in Travelling
  PROVE  [chan EXCEPT ![o] = Append(@, m)] \in [Node -> Seq(Travelling)]
<1>1. \A s \in Seq(Travelling) : Append(s, m) \in Seq(Travelling)
  OBVIOUS
<1> QED
  BY <1>1

LEMMA AskTyped == \A kind \in Questioned : Msg(kind, <<>>) \in Travelling
  BY DEF Msg, Travelling

LEMMA ExchangeLinkSteady == ASSUME ExchangeInv, Connect \/ Disconnect PROVE Steady
<1>1. Msg("feed", <<>>) \in Travelling /\ Msg("randomTorrents", <<>>) \in Travelling
  BY AskTyped DEF Questioned
<1>2. \A n : Ask(n) \in Seq(Travelling)
  <2>1. <<Msg("feed", <<>>)>> \in Seq(Travelling) /\ <<Msg("randomTorrents", <<>>)>> \in Seq(Travelling)
    BY <1>1
  <2>2. \A s, t \in Seq(Travelling) : s \o t \in Seq(Travelling)
    OBVIOUS
  <2>3. <<>> \in Seq(Travelling)
    OBVIOUS
  <2> QED
    BY <2>1, <2>2, <2>3 DEF Ask
<1>3. chan' \in [Node -> Seq(Travelling)]
  BY <1>2, NoReply DEF Connect, Disconnect
<1> QED
  BY <1>3, TalkSteady DEF Connect, Disconnect

LEMMA SaySteady ==
  ASSUME ExchangeInv, NEW n \in Node, NEW m \in Travelling, Say(n, m)
  PROVE  Steady
<1>1. chan' \in [Node -> Seq(Travelling)]
  BY SaidTyped DEF ExchangeInv, ExchangeKinds, Say
<1> QED
  BY <1>1, TalkSteady DEF Say

LEMMA UserSteady ==
  ASSUME ExchangeInv, NEW n \in Node, NEW h \in ExchangeHash, NEW b \in BOOLEAN,
         Search(n) \/ AnnounceTorrent(n, h) \/ RequestTorrent(n, h, b)
  PROVE  Steady
<1>1. CASE Search(n)
  <2>1. PICK kind \in {"searchTorrent", "searchFiles", "topTorrents"} : Say(n, Msg(kind, <<>>))
    BY <1>1 DEF Search
  <2> QED
    BY <2>1, AskTyped, SaySteady DEF Questioned
<1>2. CASE AnnounceTorrent(n, h)
  <2>1. Sent(n, {h}, FALSE) \in TorrentRows
    BY <1>2, SentTyped DEF AnnounceTorrent, ExchangeInv, ExchangeKinds
  <2>2. Msg("torrentAnnounce", Sent(n, {h}, FALSE)) \in Travelling
    BY <2>1 DEF Msg, Travelling, Answered4
  <2> QED
    BY <1>2, <2>2, SaySteady DEF AnnounceTorrent
<1>3. CASE RequestTorrent(n, h, b)
  <2>1. [kind |-> "torrent", hashes |-> {h}, includeFiles |-> b] \in Travelling
    BY DEF Travelling
  <2> QED
    BY <1>3, <2>1, SaySteady DEF RequestTorrent
<1> QED
  BY <1>1, <1>2, <1>3

\* The replication service.
LEMMA ReplicationSteady ==
  ASSUME ExchangeInv, NEW n \in Node, NEW on \in BOOLEAN,
         SetEnabled(n, on) \/ StartReplication(n) \/ PerformCycle(n) \/ Settle(n)
  PROVE  Steady
<1> USE DEF ExchangeInv, ExchangeKinds, CountedInAdvance, Apart, indexVars
<1>1. \A m \in Node : Kept(nodeRows[m], nodeRows'[m])
  BY TablesStay DEF SetEnabled, StartReplication, PerformCycle, Settle
<1>2. CASE SetEnabled(n, on)
  <2>1. (cycleTimer[n] /\ on) \in BOOLEAN
    OBVIOUS
  <2>2. cycleTimer' \in [Node -> BOOLEAN] /\ replicating' \in [Node -> BOOLEAN]
    BY <1>2, <2>1 DEF SetEnabled
  <2> QED
    BY <1>1, <1>2, <2>2 DEF SetEnabled, Steady
<1>3. CASE StartReplication(n)
  <2>1. received' \in [Node -> Nat] /\ cycleTimer' \in [Node -> BOOLEAN]
    BY <1>3 DEF StartReplication
  <2>2. \A m \in Node : received'[m] = IF m = n THEN 0 ELSE received[m]
    BY <1>3 DEF StartReplication
  <2>3. CountedInAdvance'
    BY <1>3, <2>1, <2>2 DEF StartReplication
  <2> QED
    BY <1>1, <1>3, <2>1, <2>3 DEF StartReplication, Steady
<1>4. CASE PerformCycle(n)
  <2>1. received' \in [Node -> Nat] /\ settling' \in [Node -> BOOLEAN]
    BY <1>4 DEF PerformCycle
  <2>2. \A m \in Node : /\ received'[m] = IF m = n THEN 0 ELSE received[m]
                        /\ settling'[m] = (m = n \/ settling[m])
    BY <1>4 DEF PerformCycle
  <2>3. CountedInAdvance'
    BY <1>4, <2>1, <2>2 DEF PerformCycle
  <2>4. Msg("randomTorrents", <<>>) \in Travelling
    BY AskTyped DEF Questioned
  <2>5. chan' \in [Node -> Seq(Travelling)]
    BY <1>4, <2>4, SaidTyped DEF PerformCycle
  <2> QED
    BY <1>1, <1>4, <2>1, <2>3, <2>5 DEF PerformCycle, Steady
<1>5. CASE Settle(n)
  <2>1. total[n] + received[n] \in Nat
    OBVIOUS
  <2>2. total' \in [Node -> Nat] /\ settling' \in [Node -> BOOLEAN]
    BY <1>5, <2>1 DEF Settle
  <2>3. \A m \in Node : /\ total'[m] = IF m = n THEN total[m] + received[m] ELSE total[m]
                        /\ settling'[m] = (m # n /\ settling[m])
    BY <1>5 DEF Settle
  <2>4. CountedInAdvance'
    BY <1>5, <2>2, <2>3 DEF Settle
  <2> QED
    BY <1>1, <1>5, <2>2, <2>4 DEF Settle, Steady
<1> QED
  BY <1>2, <1>3, <1>4, <1>5

LEMMA ExchangeSteady == ASSUME ExchangeInv, [ExchangeNext]_exchangeVars PROVE Steady
<1>1. CASE UNCHANGED exchangeVars
  <2>1. /\ UNCHANGED <<indexVars, nodeFeed, date, shown, replicationVars>>
        /\ UNCHANGED chan
    BY <1>1 DEF exchangeVars
  <2>2. chan' \in [Node -> Seq(Travelling)]
    BY <2>1 DEF ExchangeInv, ExchangeKinds
  <2> QED
    BY <2>1, <2>2, TalkSteady
<1>2. CASE Connect \/ Disconnect
  BY <1>2, ExchangeLinkSteady
<1>3. ASSUME NEW n \in Node, \/ HandleTopTorrentsRequest(n) \/ HandleTorrentRequest(n)
                             \/ HandleFeedRequest(n)
      PROVE  Steady
  BY <1>3, {} \in SUBSET ExchangeHash, TRUE \in BOOLEAN, RequestsSteady
<1>4. ASSUME NEW n \in Node, NEW S \in SUBSET ExchangeHash,
             \/ HandleSearchRequest(n, S) \/ HandleSearchFilesRequest(n, S)
             \/ \E serves \in BOOLEAN : HandleRandomTorrentsRequest(n, serves, S)
      PROVE  Steady
  BY <1>4, TRUE \in BOOLEAN, RequestsSteady
<1>5. ASSUME NEW n \in Node, NEW fails,
             \/ HandleTorrentResponse(n, fails)
             \/ \E kept \in SUBSET ExchangeHash : HandleFeedResponse(n, kept, fails)
             \/ HandleRandomTorrentsResponse(n, fails) \/ HandleTorrentAnnounce(n, fails)
      PROVE  Steady
  BY <1>5, ResponsesSteady
<1>6. ASSUME NEW n \in Node, HandleSearchResult(n) \/ HandleSearchFilesResult(n) \/ Settle(n)
      PROVE  Steady
  BY <1>6, HitsSteady, ReplicationSteady, TRUE \in BOOLEAN
<1>7. ASSUME NEW n \in Active, Search(n) PROVE Steady
  <2>1. PICK kind \in {"searchTorrent", "searchFiles", "topTorrents"} : Say(n, Msg(kind, <<>>))
    BY <1>7 DEF Search
  <2> QED
    BY <2>1, ExchangeAssumption, AskTyped, SaySteady DEF Questioned
<1>8. ASSUME NEW n \in Active, NEW h \in ExchangeHash,
             AnnounceTorrent(n, h) \/ \E b \in BOOLEAN : RequestTorrent(n, h, b)
      PROVE  Steady
  BY <1>8, ExchangeAssumption, UserSteady, TRUE \in BOOLEAN
<1>9. ASSUME NEW n \in Active, \/ \E on \in BOOLEAN : SetEnabled(n, on)
                               \/ StartReplication(n) \/ PerformCycle(n)
      PROVE  Steady
  BY <1>9, ExchangeAssumption, ReplicationSteady, TRUE \in BOOLEAN
<1> QED
  BY <1>1, <1>2, <1>3, <1>4, <1>5, <1>6, <1>7, <1>8, <1>9 DEF ExchangeNext

\* A step of the invariant is one that loses nothing.
LEMMA SteadyLosesNothing == Steady /\ ExchangeInv => NothingLost
<1> SUFFICES ASSUME Steady, ExchangeInv PROVE NothingLost
  OBVIOUS
<1>1. \A n \in Node : \A h \in Held(n) :
          h \in DOMAIN nodeRows'[n] /\ nodeRows'[n][h].good >= nodeRows[n][h].good
          /\ (nodeRows[n][h].list => nodeRows'[n][h].list)
  BY DEF Steady, Kept, Held
<1>2. \A n \in Node : \A h \in DOMAIN nodeRows'[n] : nodeRows'[n][h].list => nodeRows'[n][h].count
  <2>1. nodeRows' \in [Node -> RowTable]
    BY DEF Steady, ExchangeInv, ExchangeKinds
  <2> QED
    BY <2>1 DEF RowTable
<1>3. \A n \in Node : total'[n] <= replicated'[n]
  <2> SUFFICES ASSUME NEW n \in Node PROVE total'[n] <= replicated'[n]
    OBVIOUS
  <2>1. /\ total'[n] \in Nat /\ received'[n] \in Nat /\ replicated'[n] \in Nat
        /\ total'[n] + (IF settling'[n] THEN received'[n] ELSE 0) <= replicated'[n]
    BY DEF Steady, ExchangeInv, ExchangeKinds, CountedInAdvance
  <2> QED
    BY <2>1
<1> QED
  BY <1>1, <1>2, <1>3 DEF NothingLost

LEMMA ExchangeInvTyped == ExchangeInv => ExchangeTypeOK
<1>1. RowTable \subseteq TorrentRows
  BY RowsAre
<1> QED
  BY <1>1 DEF ExchangeInv, ExchangeKinds, ExchangeTypeOK

\* No answer of a peer, in whatever order it comes and with whatever write failing, takes
\* votes or files from a row, and no new row is counted twice (peer_api.cpp,
\* indexing_service.cpp, replication_service.cpp).
THEOREM KeepsTheBestHolds == ExchangeSpec => KeepsTheBest
<1>1. ExchangeInv /\ [ExchangeNext]_exchangeVars => ExchangeInv' /\ [NothingLost]_exchangeVars
  BY ExchangeSteady, SteadyLosesNothing DEF Steady
<1> QED
  BY <1>1, ExchangeStarts, PTL DEF ExchangeSpec, KeepsTheBest

\* What the nodes keep and send each other stays of its kind (peer_api.cpp).
THEOREM ExchangeTypeOKHolds == ExchangeSpec => []ExchangeTypeOK
<1>1. ExchangeInv /\ [ExchangeNext]_exchangeVars => ExchangeInv'
  BY ExchangeSteady DEF Steady
<1> QED
  BY <1>1, ExchangeStarts, ExchangeInvTyped, PTL DEF ExchangeSpec

-----------------------------------------------------------------------------
(* TrackerService, the swarm scraper: a scrape counts the tasks that have   *)
(* not left, a posted result is of a scrape they all have left, and a slot  *)
(* is held by each of either.                                               *)

Counts == None..MaxSeeders
ScrapeKind == [hash : TrackedHash, tasks : [Tracker -> Announce], found : [Tracker -> Counts],
               best : Counts, remaining : Nat]
PostedKind == [scrape : Nat, best : Counts]
SwarmKind == [queue : Seq(TrackedHash), active : Nat, timer : BOOLEAN, recent : SUBSET TrackedHash,
              scrapes : Seq(ScrapeKind), posted : Seq(PostedKind)]

NotLeft(c) == {t \in Tracker : c.tasks[t] # "left"}
ScrapeWhole(c) == /\ c \in ScrapeKind
                  /\ c.remaining = Cardinality(NotLeft(c))
                  /\ \A t \in Tracker : c.found[t] <= c.best
PostedOnce(q, p) == \A i \in 1..Len(p) :
    /\ p[i].scrape \in 1..Len(q) /\ q[p[i].scrape].remaining = 0
    /\ \A t \in Tracker : q[p[i].scrape].found[t] <= p[i].best
    /\ \A j \in 1..Len(p) : p[j].scrape = p[i].scrape => j = i
Going(q) == {k \in 1..Len(q) : q[k].remaining > 0}

SwarmCounted(s) ==
    /\ s \in SwarmKind
    /\ \A k \in 1..Len(s.scrapes) : ScrapeWhole(s.scrapes[k])
    /\ PostedOnce(s.scrapes, s.posted)
    /\ s.active = Len(s.posted) + Cardinality(Going(s.scrapes)) /\ s.active <= kMaxSwarms
SwarmWaits(s) == s.queue # <<>> => s.active = kMaxSwarms /\ s.timer
\* What a stop leaves of the tasks.
SwarmStopped(s) ==
    /\ stage # "on" => /\ s.queue = <<>> /\ ~s.timer
                       /\ \A k \in 1..Len(s.scrapes) : \A t \in Tracker :
                             s.scrapes[k].tasks[t] # "queued"
    /\ stage = "off" => \A k \in 1..Len(s.scrapes) : \A t \in Tracker :
                           s.scrapes[k].tasks[t] \notin {"announcing", "merged"}

SwarmInv == SwarmCounted(swarm) /\ SwarmWaits(swarm) /\ SwarmStopped(swarm)

\* A scrape that starts is whole, and has its tasks before it.
LEMMA StartsWhole ==
  ASSUME NEW h \in TrackedHash
  PROVE  /\ ScrapeWhole(SwarmScrape(h)) /\ SwarmScrape(h).remaining > 0
         /\ \A t \in Tracker : SwarmScrape(h).tasks[t] = "queued"
<1> DEFINE c == SwarmScrape(h)
<1>1. Cardinality(Tracker) \in Nat /\ Cardinality(Tracker) > 0
  BY TrackerAssumption, FS_CardinalityType, FS_EmptySet
<1>2. None \in Counts /\ None <= None
  BY TrackerAssumption DEF None, Counts
<1>3. c = [hash |-> h, tasks |-> [t \in Tracker |-> "queued"],
           found |-> [t \in Tracker |-> None], best |-> None, remaining |-> Cardinality(Tracker)]
  BY DEF SwarmScrape
<1>4. c \in ScrapeKind
  BY <1>1, <1>2, <1>3 DEF ScrapeKind, Announce
<1>5. NotLeft(c) = Tracker
  BY <1>3 DEF NotLeft
<1> QED
  BY <1>1, <1>2, <1>3, <1>4, <1>5 DEF ScrapeWhole

LEMMA GoingFinite ==
  ASSUME NEW q \in Seq(ScrapeKind)
  PROVE  IsFiniteSet(Going(q)) /\ Cardinality(Going(q)) \in Nat
<1>1. IsFiniteSet(1..Len(q))
  BY FS_Interval, LenProperties
<1>2. Going(q) \subseteq 1..Len(q)
  BY DEF Going
<1> QED
  BY <1>1, <1>2, FS_Subset, FS_CardinalityType

\* Scrapes that start behind those there were each take a slot.
LEMMA GoingGrows ==
  ASSUME NEW q \in Seq(ScrapeKind), NEW n \in Nat, NEW r \in Seq(ScrapeKind), Len(r) = Len(q) + n,
         \A k \in 1..Len(q) : r[k] = q[k],
         \A k \in Len(q) + 1..Len(q) + n : r[k].remaining > 0
  PROVE  Cardinality(Going(r)) = Cardinality(Going(q)) + n
<1> DEFINE new == Len(q) + 1..Len(q) + n
<1>1. Len(q) \in Nat
  BY LenProperties
<1>2. Going(r) = Going(q) \cup new /\ Going(q) \cap new = {}
  BY <1>1 DEF Going
<1>3. IsFiniteSet(new) /\ Cardinality(new) = n
  BY <1>1, FS_Interval
<1> HIDE DEF new
<1>4. Cardinality(Going(q) \cup new)
        = Cardinality(Going(q)) + Cardinality(new) - Cardinality(Going(q) \cap new)
  BY <1>3, GoingFinite, FS_Union
<1>5. Cardinality(Going(q)) \in Nat /\ Cardinality(Going(q) \cap new) = 0
  BY <1>2, GoingFinite, FS_EmptySet
<1> QED
  BY <1>2, <1>3, <1>4, <1>5

\* n scrapes start behind those there were.
LEMMA StartedCounted ==
  ASSUME NEW s, SwarmCounted(s), NEW n \in Nat, s.active + n <= kMaxSwarms,
         NEW u \in SwarmKind, u.posted = s.posted, u.active = s.active + n,
         Len(u.scrapes) = Len(s.scrapes) + n,
         \A k \in 1..Len(s.scrapes) : u.scrapes[k] = s.scrapes[k],
         \A k \in Len(s.scrapes) + 1..Len(s.scrapes) + n :
             ScrapeWhole(u.scrapes[k]) /\ u.scrapes[k].remaining > 0
  PROVE  SwarmCounted(u)
<1> DEFINE q == s.scrapes
           r == u.scrapes
<1>1. q \in Seq(ScrapeKind) /\ Len(q) \in Nat /\ s.active \in Nat /\ s.posted \in Seq(PostedKind)
  BY LenProperties DEF SwarmCounted, SwarmKind
<1>2. r \in Seq(ScrapeKind)
  BY DEF SwarmKind
<1>5. Cardinality(Going(r)) = Cardinality(Going(q)) + n
  <2> HIDE DEF q, r
  <2>1. Len(r) = Len(q) + n /\ \A k \in 1..Len(q) : r[k] = q[k]
    BY DEF q, r
  <2>2. \A k \in Len(q) + 1..Len(q) + n : r[k].remaining > 0
    BY DEF q, r
  <2> QED
    BY <1>1, <1>2, <2>1, <2>2, GoingGrows
<1>6. Cardinality(Going(q)) \in Nat /\ Len(s.posted) \in Nat
  BY <1>1, GoingFinite, LenProperties
<1>7. /\ \A k \in 1..Len(q) : ScrapeWhole(q[k])
      /\ s.active = Len(s.posted) + Cardinality(Going(q))
  BY DEF SwarmCounted
<1>8. PostedOnce(q, s.posted)
  BY DEF SwarmCounted
<1>9. PostedOnce(r, u.posted)
  <2>1. 1..Len(q) \subseteq 1..Len(r)
    BY <1>1
  <2> QED
    BY <1>8, <2>1 DEF PostedOnce
<1>10. \A k \in 1..Len(r) : ScrapeWhole(r[k])
  <2> SUFFICES ASSUME NEW k \in 1..Len(r) PROVE ScrapeWhole(r[k])
    OBVIOUS
  <2>1. k \in 1..Len(q) \/ k \in Len(q) + 1..Len(q) + n
    BY <1>1
  <2> QED
    BY <1>7, <2>1
<1>11. u.active = Len(u.posted) + Cardinality(Going(r)) /\ u.active <= kMaxSwarms
  BY <1>1, <1>5, <1>6, <1>7
<1> QED
  BY <1>9, <1>10, <1>11 DEF SwarmCounted

\* A hash that is asked for takes a free slot, or waits behind full ones.
LEMMA RequestScrapeCounted ==
  ASSUME NEW s, SwarmCounted(s), SwarmWaits(s), NEW h \in TrackedHash
  PROVE  SwarmCounted(RequestScrape(s, h)) /\ SwarmWaits(RequestScrape(s, h))
<1>0. /\ s \in SwarmKind /\ s.active \in Nat /\ s.active <= kMaxSwarms
      /\ s.scrapes \in Seq(ScrapeKind) /\ s.queue \in Seq(TrackedHash) /\ Len(s.scrapes) \in Nat
  BY LenProperties DEF SwarmCounted, SwarmKind
<1>1. CASE stage # "on" \/ h \in s.recent
  BY <1>1 DEF RequestScrape
<1>2. CASE ~(stage # "on" \/ h \in s.recent) /\ s.active >= kMaxSwarms
  <2> DEFINE u == [s EXCEPT !.recent = @ \cup {h}, !.queue = Append(@, h), !.timer = TRUE]
  <2>1. RequestScrape(s, h) = u
    BY <1>2 DEF RequestScrape
  <2>2. Append(s.queue, h) \in Seq(TrackedHash)
    BY <1>0, AppendProperties
  <2>3. u \in SwarmKind
    BY <1>0, <2>2 DEF SwarmKind
  <2>4. /\ u.scrapes = s.scrapes /\ u.posted = s.posted /\ u.active = s.active
        /\ u.timer = TRUE
    BY <1>0 DEF SwarmKind
  <2>5. SwarmCounted(u)
    BY <2>3, <2>4 DEF SwarmCounted
  <2>6. SwarmWaits(u)
    BY <1>0, <1>2, <2>4, TrackerAssumption DEF SwarmWaits
  <2> QED
    BY <2>1, <2>5, <2>6
<1>3. CASE ~(stage # "on" \/ h \in s.recent) /\ ~(s.active >= kMaxSwarms)
  <2>2. PICK c : c = SwarmScrape(h)
    OBVIOUS
  <2>0. PICK u : u = [s EXCEPT !.recent = @ \cup {h}, !.active = @ + 1, !.scrapes = Append(@, c)]
    OBVIOUS
  <2>1. RequestScrape(s, h) = u
    BY <1>3, <2>2, <2>0 DEF RequestScrape
  <2>3. ScrapeWhole(c) /\ c.remaining > 0 /\ c \in ScrapeKind
    BY <2>2, StartsWhole DEF ScrapeWhole
  <2>4. /\ Append(s.scrapes, c) \in Seq(ScrapeKind)
        /\ Len(Append(s.scrapes, c)) = Len(s.scrapes) + 1
        /\ \A k \in 1..Len(s.scrapes) : Append(s.scrapes, c)[k] = s.scrapes[k]
        /\ Append(s.scrapes, c)[Len(s.scrapes) + 1] = c
    BY <1>0, <2>3, AppendProperties
  <2>5. u \in SwarmKind
    <3>1. PICK a : a = s.active + 1
      OBVIOUS
    <3>2. a \in Nat
      BY <1>0, <3>1
    <3>3. u = [queue |-> s.queue, active |-> a, timer |-> s.timer, recent |-> s.recent \cup {h},
               scrapes |-> Append(s.scrapes, c), posted |-> s.posted]
      BY <1>0, <2>0, <3>1 DEF SwarmKind
    <3>4. s.recent \cup {h} \in SUBSET TrackedHash /\ s.posted \in Seq(PostedKind)
      BY <1>0 DEF SwarmKind
    <3>5. s.timer \in BOOLEAN
      BY <1>0 DEF SwarmKind
    <3> QED
      BY <1>0, <2>4, <3>2, <3>3, <3>4, <3>5 DEF SwarmKind
  <2>6. /\ u.scrapes = Append(s.scrapes, c) /\ u.posted = s.posted /\ u.active = s.active + 1
        /\ u.queue = s.queue
    BY <1>0, <2>0 DEF SwarmKind
  <2>7. s.active + 1 <= kMaxSwarms
    BY <1>0, <1>3, TrackerAssumption
  <2>8. \A k \in Len(s.scrapes) + 1..Len(s.scrapes) + 1 :
            ScrapeWhole(u.scrapes[k]) /\ u.scrapes[k].remaining > 0
    <3>1. \A k \in Len(s.scrapes) + 1..Len(s.scrapes) + 1 : k = Len(s.scrapes) + 1
      BY <1>0
    <3> QED
      BY <2>3, <2>4, <2>6, <3>1
  <2>9. Len(u.scrapes) = Len(s.scrapes) + 1 /\ \A k \in 1..Len(s.scrapes) : u.scrapes[k] = s.scrapes[k]
    BY <2>4, <2>6
  <2>10. SwarmCounted(u)
    BY <2>5, <2>6, <2>7, <2>8, <2>9, StartedCounted
  <2>11. SwarmWaits(u)
    BY <1>3, <1>0, <2>6, TrackerAssumption DEF SwarmWaits
  <2> QED
    BY <2>1, <2>10, <2>11
<1> QED
  BY <1>1, <1>2, <1>3

\* What fits is started, so that nothing waits beside a free slot.
LEMMA SwarmQueueCounted ==
  ASSUME NEW s, SwarmCounted(s), s.queue # <<>> => s.timer
  PROVE  /\ SwarmCounted(SwarmQueue(s))
         /\ stage = "on" => SwarmWaits(SwarmQueue(s))
         /\ stage # "on" => SwarmQueue(s) = s
<1>0. /\ s \in SwarmKind /\ s.active \in Nat /\ s.active <= kMaxSwarms /\ s.timer \in BOOLEAN
      /\ s.scrapes \in Seq(ScrapeKind) /\ s.queue \in Seq(TrackedHash)
      /\ Len(s.scrapes) \in Nat /\ Len(s.queue) \in Nat
  BY LenProperties DEF SwarmCounted, SwarmKind
<1>1. CASE stage # "on"
  BY <1>1 DEF SwarmQueue
<1>2. CASE stage = "on"
  <2>1. PICK n : n = Least(Len(s.queue), kMaxSwarms - s.active)
    OBVIOUS
  <2>2. n \in Nat /\ n <= Len(s.queue) /\ s.active + n <= kMaxSwarms
    BY <1>0, <2>1, TrackerAssumption DEF Least
  <2>3. n < Len(s.queue) => s.active + n = kMaxSwarms
    BY <1>0, <2>1, TrackerAssumption DEF Least
  <2>4. PICK new : new = [k \in 1..n |-> SwarmScrape(s.queue[k])]
    OBVIOUS
  <2>5. \A k \in 1..n : s.queue[k] \in TrackedHash
    BY <1>0, <2>2, ElementOfSeq
  <2>6. \A k \in 1..n : ScrapeWhole(new[k]) /\ new[k].remaining > 0 /\ new[k] \in ScrapeKind
    BY <2>4, <2>5, StartsWhole DEF ScrapeWhole
  <2>7. new \in [1..n -> ScrapeKind]
    BY <2>4, <2>6
  <2>8. new \in Seq(ScrapeKind) /\ Len(new) = n
    BY <2>2, <2>7 DEF Seq
  <2>9. PICK q : q = s.scrapes
    OBVIOUS
  <2>10. PICK r : r = q \o new
    OBVIOUS
  <2>11. \A p, z \in Seq(ScrapeKind) :
            /\ p \o z \in Seq(ScrapeKind) /\ Len(p \o z) = Len(p) + Len(z)
            /\ \A k \in 1..Len(p) + Len(z) : (p \o z)[k] = IF k <= Len(p) THEN p[k] ELSE z[k - Len(p)]
    BY ConcatProperties
  <2>12. q \in Seq(ScrapeKind) /\ Len(q) \in Nat
    BY <1>0, <2>9
  <2>13. /\ r \in Seq(ScrapeKind) /\ Len(r) = Len(q) + n
         /\ \A k \in 1..Len(q) + n : r[k] = IF k <= Len(q) THEN q[k] ELSE new[k - Len(q)]
    BY <2>8, <2>10, <2>11, <2>12
  <2>14. \A k \in 1..Len(q) : r[k] = q[k]
    BY <2>2, <2>12, <2>13
  <2>15. \A k \in Len(q) + 1..Len(q) + n : ScrapeWhole(r[k]) /\ r[k].remaining > 0
    <3> SUFFICES ASSUME NEW k \in Len(q) + 1..Len(q) + n PROVE ScrapeWhole(r[k]) /\ r[k].remaining > 0
      OBVIOUS
    <3>1. k - Len(q) \in 1..n /\ r[k] = new[k - Len(q)]
      BY <2>2, <2>12, <2>13
    <3> QED
      BY <2>6, <3>1
  <2>16. PICK w : w = SubSeq(s.queue, n + 1, Len(s.queue))
    OBVIOUS
  <2>17. w \in Seq(TrackedHash) /\ (w # <<>> => n < Len(s.queue))
    <3>1. \A k \in n + 1..Len(s.queue) : k \in 1..Len(s.queue)
      BY <1>0, <2>2
    <3>2. \A k \in n + 1..Len(s.queue) : s.queue[k] \in TrackedHash
      BY <1>0, <3>1, ElementOfSeq
    <3>3. w \in Seq(TrackedHash) /\ Len(w) = IF n + 1 <= Len(s.queue) THEN Len(s.queue) - n ELSE 0
      BY <1>0, <2>2, <2>16, <3>2, SubSeqProperties
    <3> QED
      BY <1>0, <2>2, <3>3, EmptySeq
  <2>18. PICK b : b = (s.timer /\ n < Len(s.queue))
    OBVIOUS
  <2>19. PICK u : u = [s EXCEPT !.queue = w, !.active = @ + n, !.timer = b, !.scrapes = r]
    OBVIOUS
  <2>20. SwarmQueue(s) = u
    BY <1>2, <2>1, <2>4, <2>9, <2>10, <2>16, <2>18, <2>19 DEF SwarmQueue
  <2>21. b \in BOOLEAN
    BY <2>18
  <2>22. u \in SwarmKind
    <3>1. PICK a : a = s.active + n
      OBVIOUS
    <3>2. a \in Nat
      BY <1>0, <2>2, <3>1
    <3>3. u = [queue |-> w, active |-> a, timer |-> b, recent |-> s.recent, scrapes |-> r,
               posted |-> s.posted]
      BY <1>0, <2>19, <3>1 DEF SwarmKind
    <3>4. s.recent \in SUBSET TrackedHash /\ s.posted \in Seq(PostedKind)
      BY <1>0 DEF SwarmKind
    <3> QED
      BY <2>13, <2>17, <2>21, <3>2, <3>3, <3>4 DEF SwarmKind
  <2>23. /\ u.scrapes = r /\ u.posted = s.posted /\ u.active = s.active + n
         /\ u.queue = w /\ u.timer = b
    BY <1>0, <2>19 DEF SwarmKind
  <2>24. SwarmCounted(u)
    <3>1. Len(u.scrapes) = Len(s.scrapes) + n
      BY <2>9, <2>13, <2>23
    <3>2. \A k \in 1..Len(s.scrapes) : u.scrapes[k] = s.scrapes[k]
      BY <2>9, <2>14, <2>23
    <3>3. \A k \in Len(s.scrapes) + 1..Len(s.scrapes) + n :
             ScrapeWhole(u.scrapes[k]) /\ u.scrapes[k].remaining > 0
      BY <2>9, <2>15, <2>23
    <3> QED
      BY <2>2, <2>22, <2>23, <3>1, <3>2, <3>3, StartedCounted
  <2>25. w # <<>> => b
    <3>1. w # <<>> => s.queue # <<>>
      BY <1>0, <2>2, <2>17, EmptySeq
    <3> QED
      BY <2>17, <2>18, <3>1
  <2>26. w # <<>> => u.active = kMaxSwarms
    BY <2>3, <2>17, <2>23
  <2> QED
    BY <1>2, <2>20, <2>23, <2>24, <2>25, <2>26 DEF SwarmWaits
<1> QED
  BY <1>1, <1>2

ScrapeBecomes(s, k, c, p) ==
    [s EXCEPT !.scrapes = [@ EXCEPT ![k] = c],
              !.posted = IF c.remaining = 0 THEN Append(@, p) ELSE @]

\* A scrape under way becomes c: if c has none left it gives its slot to what it posts.
LEMMA ScrapeChanges ==
  ASSUME NEW s, SwarmCounted(s), NEW k \in 1..Len(s.scrapes), s.scrapes[k].remaining > 0,
         NEW c, ScrapeWhole(c), NEW p \in PostedKind, p.scrape = k, p.best = c.best,
         NEW u, u = ScrapeBecomes(s, k, c, p)
  PROVE  /\ SwarmCounted(u) /\ u.queue = s.queue /\ u.active = s.active /\ u.timer = s.timer
         /\ u.scrapes = [s.scrapes EXCEPT ![k] = c]
<1>1. PICK q : q = s.scrapes
  OBVIOUS
<1>2. PICK r : r = [q EXCEPT ![k] = c]
  OBVIOUS
<1>3. PICK w : w = s.posted
  OBVIOUS
<1>4. PICK z : z = IF c.remaining = 0 THEN Append(w, p) ELSE w
  OBVIOUS
<1>5. /\ s \in SwarmKind /\ q \in Seq(ScrapeKind) /\ w \in Seq(PostedKind)
      /\ s.queue \in Seq(TrackedHash) /\ s.timer \in BOOLEAN /\ s.recent \in SUBSET TrackedHash
      /\ s.active \in Nat /\ Len(q) \in Nat /\ Len(w) \in Nat /\ k \in 1..Len(q) /\ q[k].remaining > 0
  BY <1>1, <1>3, LenProperties DEF SwarmCounted, SwarmKind
<1>6. c \in ScrapeKind /\ c.remaining \in Nat
  BY DEF ScrapeWhole, ScrapeKind
<1>7. r \in Seq(ScrapeKind) /\ Len(r) = Len(q) /\ r[k] = c /\ \A i \in 1..Len(q) : i # k => r[i] = q[i]
  BY <1>2, <1>5, <1>6, ExceptSeq
<1>8. z \in Seq(PostedKind)
  BY <1>4, <1>5, AppendProperties
<1>9. u = [queue |-> s.queue, active |-> s.active, timer |-> s.timer, recent |-> s.recent,
           scrapes |-> r, posted |-> z]
  BY <1>1, <1>2, <1>3, <1>4, <1>5 DEF SwarmKind, ScrapeBecomes
<1>10. u \in SwarmKind
  BY <1>5, <1>7, <1>8, <1>9 DEF SwarmKind
<1>11. \A i \in 1..Len(q) : q[i].remaining \in Nat
  <2>1. \A i \in 1..Len(q) : q[i] \in ScrapeKind
    BY <1>5, ElementOfSeq
  <2> QED
    BY <2>1 DEF ScrapeKind
<1>12. \A i \in 1..Len(r) : ScrapeWhole(r[i])
  BY <1>1, <1>7 DEF SwarmCounted
<1>13. PostedOnce(q, w)
  BY <1>1, <1>3 DEF SwarmCounted
<1>14. \A i \in 1..Len(w) : w[i].scrape # k
  BY <1>5, <1>13 DEF PostedOnce
<1>15. PostedOnce(r, w)
  BY <1>7, <1>13, <1>14 DEF PostedOnce
<1>15a. /\ u.queue = s.queue /\ u.active = s.active /\ u.timer = s.timer
        /\ u.scrapes = r /\ u.posted = z
  BY <1>9
<1>15b. u.scrapes = [s.scrapes EXCEPT ![k] = c]
  BY <1>1, <1>2, <1>15a
<1>16. CASE c.remaining > 0
  <2>1. z = w
    BY <1>4, <1>6, <1>16
  <2>2. Going(r) = Going(q)
    BY <1>5, <1>7, <1>16 DEF Going
  <2>3. s.active = Len(w) + Cardinality(Going(q)) /\ s.active <= kMaxSwarms
    BY <1>1, <1>3 DEF SwarmCounted
  <2>4. SwarmCounted(u)
    BY <1>10, <1>12, <1>15, <1>15a, <2>1, <2>2, <2>3 DEF SwarmCounted
  <2> QED
    BY <1>15a, <1>15b, <2>4
<1>17. CASE c.remaining = 0
  <2>1. /\ Len(z) = Len(w) + 1 /\ z[Len(w) + 1] = p
        /\ \A i \in 1..Len(w) : z[i] = w[i]
    BY <1>4, <1>5, <1>17, AppendProperties
  <2>2. Going(r) = Going(q) \ {k} /\ k \in Going(q)
    BY <1>5, <1>7, <1>17 DEF Going
  <2>3. Cardinality(Going(r)) = Cardinality(Going(q)) - 1 /\ Cardinality(Going(q)) \in Nat
    <3>1. IsFiniteSet(Going(q)) /\ Cardinality(Going(q)) \in Nat
      BY <1>5, GoingFinite
    <3> QED
      BY <2>2, <3>1, FS_RemoveElement
  <2>4. s.active = Len(w) + Cardinality(Going(q)) /\ s.active <= kMaxSwarms
    BY <1>1, <1>3 DEF SwarmCounted
  <2>5. s.active = Len(z) + Cardinality(Going(r))
    BY <1>5, <2>1, <2>3, <2>4
  <2>6. \A t \in Tracker : c.found[t] <= p.best
    BY DEF ScrapeWhole
  <2>7. PostedOnce(r, z)
    <3> SUFFICES ASSUME NEW i \in 1..Len(z)
                 PROVE  /\ z[i].scrape \in 1..Len(r) /\ r[z[i].scrape].remaining = 0
                        /\ \A t \in Tracker : r[z[i].scrape].found[t] <= z[i].best
                        /\ \A j \in 1..Len(z) : z[j].scrape = z[i].scrape => j = i
      BY DEF PostedOnce
    <3>1. CASE i \in 1..Len(w)
      <4>1. z[i] = w[i]
        BY <2>1, <3>1
      <4>2. \A j \in 1..Len(z) : j \in 1..Len(w) \/ j = Len(w) + 1
        BY <1>5, <2>1
      <4> QED
        BY <1>14, <1>15, <2>1, <3>1, <4>1, <4>2 DEF PostedOnce
    <3>2. CASE i = Len(w) + 1
      <4>1. z[i] = p
        BY <2>1, <3>2
      <4>2. \A j \in 1..Len(z) : j \in 1..Len(w) \/ j = Len(w) + 1
        BY <1>5, <2>1
      <4>3. \A j \in 1..Len(z) : z[j].scrape = k => j = i
        BY <1>14, <2>1, <3>2, <4>2
      <4> QED
        BY <1>5, <1>7, <1>17, <2>6, <4>1, <4>3
    <3> QED
      BY <1>5, <2>1, <3>1, <3>2
  <2>8. SwarmCounted(u)
    BY <1>10, <1>12, <1>15a, <2>4, <2>5, <2>7 DEF SwarmCounted
  <2> QED
    BY <1>15a, <1>15b, <2>8
<1> QED
  BY <1>6, <1>16, <1>17

\* A task that has not left begins, is merged, or leaves.
LEMMA TaskMoves ==
  ASSUME SwarmInv, stage \in {"on", "draining", "off"}, stage' = stage,
         NEW k \in 1..Len(swarm.scrapes), NEW t \in Tracker,
         NEW v \in {"announcing", "merged", "left"}, NEW c \in ScrapeKind,
         swarm.scrapes[k].tasks[t] \in {"queued", "announcing", "merged"},
         c.tasks = [swarm.scrapes[k].tasks EXCEPT ![t] = v],
         c.remaining = IF v = "left" THEN swarm.scrapes[k].remaining - 1
                       ELSE swarm.scrapes[k].remaining,
         \A x \in Tracker : c.found[x] <= c.best,
         NEW p \in PostedKind, p.scrape = k, p.best = c.best,
         swarm' = ScrapeBecomes(swarm, k, c, p)
  PROVE  SwarmInv'
<1>1. PICK s : s = swarm
  OBVIOUS
<1>2. PICK old : old = s.scrapes[k]
  OBVIOUS
<1>3. SwarmCounted(s) /\ k \in 1..Len(s.scrapes)
  BY <1>1 DEF SwarmInv
<1>4. ScrapeWhole(old) /\ old \in ScrapeKind
  BY <1>2, <1>3 DEF SwarmCounted, ScrapeWhole
<1>5. old.tasks \in [Tracker -> Announce] /\ old.remaining \in Nat /\ c.remaining \in Int
  BY <1>1, <1>2, <1>4 DEF ScrapeKind
<1>6. /\ old.tasks[t] \in {"queued", "announcing", "merged"}
      /\ c.tasks = [old.tasks EXCEPT ![t] = v]
      /\ c.remaining = IF v = "left" THEN old.remaining - 1 ELSE old.remaining
  BY <1>1, <1>2
<1>7. t \in NotLeft(old) /\ IsFiniteSet(NotLeft(old)) /\ old.remaining = Cardinality(NotLeft(old))
  <2>1. NotLeft(old) \subseteq Tracker
    BY DEF NotLeft
  <2> QED
    BY <1>4, <1>6, <2>1, TrackerAssumption, FS_Subset DEF NotLeft, ScrapeWhole
<1>8. old.remaining > 0
  BY <1>5, <1>7, FS_EmptySet
<1>9. c.remaining = Cardinality(NotLeft(c))
  <2>1. CASE v = "left"
    <3>1. NotLeft(c) = NotLeft(old) \ {t}
      BY <1>5, <1>6, <2>1 DEF NotLeft
    <3> QED
      BY <1>6, <1>7, <2>1, <3>1, FS_RemoveElement
  <2>2. CASE v # "left"
    <3>1. NotLeft(c) = NotLeft(old)
      BY <1>5, <1>6, <2>2 DEF NotLeft
    <3> QED
      BY <1>6, <1>7, <2>2, <3>1
  <2> QED
    BY <2>1, <2>2
<1>10. ScrapeWhole(c)
  BY <1>9 DEF ScrapeWhole
<1>11. PICK u : u = ScrapeBecomes(s, k, c, p)
  OBVIOUS
<1>12. u = swarm'
  BY <1>1, <1>11
<1>13. /\ SwarmCounted(u) /\ u.queue = s.queue /\ u.active = s.active /\ u.timer = s.timer
       /\ u.scrapes = [s.scrapes EXCEPT ![k] = c]
  <2>1. s.scrapes[k].remaining > 0
    BY <1>2, <1>8
  <2> QED
    BY <1>3, <1>10, <1>11, <2>1, ScrapeChanges
<1>14. SwarmWaits(u)
  BY <1>1, <1>13 DEF SwarmInv, SwarmWaits
<1>15. SwarmStopped(s)
  BY <1>1 DEF SwarmInv
<1>16. stage # "off"
  BY <1>2, <1>3, <1>6, <1>15 DEF SwarmStopped
<1>17. stage # "on" => /\ u.queue = <<>> /\ ~u.timer
                       /\ \A i \in 1..Len(u.scrapes) : \A x \in Tracker :
                             u.scrapes[i].tasks[x] # "queued"
  <2> SUFFICES ASSUME stage # "on", NEW i \in 1..Len(u.scrapes), NEW x \in Tracker
               PROVE  u.queue = <<>> /\ u.scrapes[i].tasks[x] # "queued"
    BY <1>13, <1>15 DEF SwarmStopped
  <2>1. s.scrapes \in Seq(ScrapeKind)
    BY <1>3 DEF SwarmCounted, SwarmKind
  <2>2. i \in 1..Len(s.scrapes) /\ (i # k => u.scrapes[i] = s.scrapes[i]) /\ u.scrapes[k] = c
    BY <1>3, <1>13, <2>1, ExceptSeq
  <2>3. s.scrapes[i].tasks[x] # "queued" /\ s.queue = <<>>
    BY <1>15, <2>2 DEF SwarmStopped
  <2>4. CASE i = k
    <3>1. c.tasks[x] # "queued"
      BY <1>2, <1>5, <1>6, <2>3, <2>4
    <3> QED
      BY <1>13, <2>2, <2>3, <2>4, <3>1
  <2> QED
    BY <1>13, <2>2, <2>3, <2>4
<1> QED
  BY <1>12, <1>13, <1>14, <1>16, <1>17 DEF SwarmInv, SwarmStopped

LEMMA PoolStepKeeps ==
  ASSUME SwarmInv, stage \in {"on", "draining", "off"}, NEW k \in DOMAIN swarm.scrapes,
         NEW t \in Tracker, PoolStep(k, t)
  PROVE  SwarmInv'
<1>1. PICK old : old = swarm.scrapes[k]
  OBVIOUS
<1>2. /\ swarm \in SwarmKind /\ swarm.scrapes \in Seq(ScrapeKind) /\ swarm.posted \in Seq(PostedKind)
      /\ k \in 1..Len(swarm.scrapes) /\ old \in ScrapeKind /\ ScrapeWhole(old)
  BY <1>1 DEF SwarmInv, SwarmCounted, SwarmKind
<1>3. /\ old.tasks \in [Tracker -> Announce] /\ old.found \in [Tracker -> Counts]
      /\ old.best \in Counts /\ old.remaining \in Nat /\ old.hash \in TrackedHash /\ k \in Nat
  BY <1>2, LenProperties DEF ScrapeKind
<1>4. PICK oh \in TrackedHash, ot \in [Tracker -> Announce], of \in [Tracker -> Counts],
           ob \in Counts, om \in Nat :
             old = [hash |-> oh, tasks |-> ot, found |-> of, best |-> ob, remaining |-> om]
  BY <1>2 DEF ScrapeKind
<1>5. \A x \in Tracker : old.found[x] <= old.best
  BY <1>2 DEF ScrapeWhole
<1>6. old.tasks[t] \in {"queued", "announcing", "merged"} => old.remaining > 0
  <2>1. ASSUME old.tasks[t] # "left" PROVE t \in NotLeft(old) /\ IsFiniteSet(NotLeft(old))
    BY <2>1, TrackerAssumption, FS_Subset DEF NotLeft
  <2> QED
    BY <1>2, <1>3, <2>1, FS_EmptySet DEF ScrapeWhole
<1>7. CASE PoolTakes(k, t)
  <2>1. PICK c : c = [hash |-> old.hash, tasks |-> [old.tasks EXCEPT ![t] = "announcing"],
                      found |-> old.found, best |-> old.best, remaining |-> old.remaining]
    OBVIOUS
  <2>2. c \in ScrapeKind
    BY <1>3, <2>1 DEF ScrapeKind, Announce
  <2>3. c = [old EXCEPT !.tasks[t] = "announcing"]
    BY <1>4, <2>1
  <2>4. PICK p : p = [scrape |-> k, best |-> c.best]
    OBVIOUS
  <2>5. p \in PostedKind /\ p.scrape = k /\ p.best = c.best
    BY <1>3, <2>1, <2>4 DEF PostedKind
  <2>6. c.remaining # 0 /\ old.tasks[t] = "queued"
    BY <1>1, <1>3, <1>6, <1>7, <2>1 DEF PoolTakes
  <2>7. swarm' = ScrapeBecomes(swarm, k, c, p)
    BY <1>1, <1>2, <1>7, <2>3, <2>6 DEF PoolTakes, SwarmKind, ScrapeBecomes
  <2>8. stage' = stage
    BY <1>7 DEF PoolTakes
  <2> QED
    BY <1>1, <1>2, <1>5, <2>1, <2>2, <2>5, <2>6, <2>7, <2>8, TaskMoves
<1>8. ASSUME NEW n \in None..MaxSeeders, AnnounceOne(k, t, n) PROVE SwarmInv'
  <2>1. PICK b : b = IF n > old.best THEN n ELSE old.best
    OBVIOUS
  <2>2. PICK c : c = [hash |-> old.hash, tasks |-> [old.tasks EXCEPT ![t] = "merged"],
                      found |-> [old.found EXCEPT ![t] = n], best |-> b,
                      remaining |-> old.remaining]
    OBVIOUS
  <2>3. n \in Int /\ old.best \in Int /\ \A x \in Tracker : old.found[x] \in Int
    BY <1>3, TrackerAssumption DEF Counts, None
  <2>4. b \in Counts /\ b >= n /\ b >= old.best
    BY <1>3, <2>1, <2>3 DEF Counts
  <2>5. c \in ScrapeKind
    BY <1>3, <2>2, <2>4 DEF ScrapeKind, Announce, Counts
  <2>6. c = MergedTask(old, t, n)
    <3>1. c = [hash |-> oh, tasks |-> [ot EXCEPT ![t] = "merged"], found |-> [of EXCEPT ![t] = n],
               best |-> IF n > ob THEN n ELSE ob, remaining |-> om]
      BY <1>4, <2>1, <2>2
    <3>2. MergedTask(old, t, n)
            = [hash |-> oh, tasks |-> [ot EXCEPT ![t] = "merged"], found |-> [of EXCEPT ![t] = n],
               best |-> IF n > ob THEN n ELSE ob, remaining |-> om]
      <4>1. PICK y : y = [ot EXCEPT ![t] = "merged"]
        OBVIOUS
      <4>2. PICK z : z = [of EXCEPT ![t] = n]
        OBVIOUS
      <4>3. PICK g : g = IF n > ob THEN n ELSE ob
        OBVIOUS
      <4>4. old.tasks = ot /\ old.found = of /\ old.best = ob
        BY <1>4
      <4>5. MergedTask(old, t, n) = [old EXCEPT !.tasks = y, !.found = z, !.best = g]
        BY <4>1, <4>2, <4>3, <4>4 DEF MergedTask
      <4>6. MergedTask(old, t, n) = [hash |-> oh, tasks |-> y, found |-> z, best |-> g,
                                     remaining |-> om]
        BY <1>4, <4>5
      <4> QED
        BY <4>1, <4>2, <4>3, <4>6
    <3> QED
      BY <3>1, <3>2
  <2>7. \A x \in Tracker : c.found[x] <= c.best
    <3> SUFFICES ASSUME NEW x \in Tracker PROVE c.found[x] <= b
      BY <2>2
    <3>1. c.found[x] = IF x = t THEN n ELSE old.found[x]
      BY <1>3, <2>2
    <3> QED
      BY <1>5, <2>3, <2>4, <3>1, TrackerAssumption DEF Counts, None
  <2>8. PICK p : p = [scrape |-> k, best |-> b]
    OBVIOUS
  <2>9. p \in PostedKind /\ p.scrape = k /\ p.best = c.best
    BY <1>3, <2>2, <2>4, <2>8 DEF PostedKind
  <2>10. c.remaining # 0 /\ old.tasks[t] = "announcing"
    BY <1>1, <1>3, <1>6, <1>8, <2>2 DEF AnnounceOne
  <2>11. swarm' = ScrapeBecomes(swarm, k, c, p)
    <3>1. swarm' = [swarm EXCEPT !.scrapes[k] = c]
      BY <1>1, <1>8, <2>6 DEF AnnounceOne
    <3> QED
      BY <1>2, <2>10, <3>1 DEF SwarmKind, ScrapeBecomes
  <2>12. stage' = stage
    BY <1>8 DEF AnnounceOne
  <2> QED
    BY <1>1, <1>2, <2>2, <2>5, <2>7, <2>9, <2>10, <2>11, <2>12, TaskMoves
<1>9. CASE TaskLeaves(k, t)
  <2>1. old.tasks[t] = "merged" /\ old.remaining > 0
    BY <1>1, <1>6, <1>9 DEF TaskLeaves
  <2>2. PICK c : c = [hash |-> old.hash, tasks |-> [old.tasks EXCEPT ![t] = "left"],
                      found |-> old.found, best |-> old.best, remaining |-> old.remaining - 1]
    OBVIOUS
  <2>3. c \in ScrapeKind
    BY <1>3, <2>1, <2>2 DEF ScrapeKind, Announce
  <2>4. c = LeftTask(old, t)
    <3>1. c = [hash |-> oh, tasks |-> [ot EXCEPT ![t] = "left"], found |-> of, best |-> ob,
               remaining |-> om - 1]
      BY <1>4, <2>2
    <3>2. LeftTask(old, t)
            = [hash |-> oh, tasks |-> [ot EXCEPT ![t] = "left"], found |-> of, best |-> ob,
               remaining |-> om - 1]
      <4>1. PICK y : y = [ot EXCEPT ![t] = "left"]
        OBVIOUS
      <4>2. PICK z : z = om - 1
        OBVIOUS
      <4>3. old.tasks = ot /\ old.remaining = om
        BY <1>4
      <4>4. LeftTask(old, t) = [old EXCEPT !.tasks = y, !.remaining = z]
        BY <4>1, <4>2, <4>3 DEF LeftTask
      <4>5. LeftTask(old, t) = [hash |-> oh, tasks |-> y, found |-> of, best |-> ob,
                                remaining |-> z]
        BY <1>4, <4>4
      <4> QED
        BY <4>1, <4>2, <4>5
    <3> QED
      BY <3>1, <3>2
  <2>5. PICK p : p = [scrape |-> k, best |-> old.best]
    OBVIOUS
  <2>6. p \in PostedKind /\ p.scrape = k /\ p.best = c.best
    BY <1>3, <2>2, <2>5 DEF PostedKind
  <2>7. c.remaining = 0 <=> old.remaining = 1
    BY <1>3, <2>2
  <2>8. swarm' = ScrapeBecomes(swarm, k, c, p)
    <3>1. swarm' = [swarm EXCEPT !.scrapes[k] = c,
                                 !.posted = IF old.remaining = 1 THEN Append(@, p) ELSE @]
      BY <1>1, <1>9, <2>4, <2>5 DEF TaskLeaves
    <3> QED
      BY <1>2, <2>7, <3>1 DEF SwarmKind, ScrapeBecomes
  <2>9. stage' = stage
    BY <1>9 DEF TaskLeaves
  <2>10. \A x \in Tracker : c.found[x] <= c.best
    BY <1>5, <2>2
  <2> QED
    BY <1>1, <1>2, <2>1, <2>2, <2>3, <2>6, <2>8, <2>9, <2>10, TaskMoves
<1> QED
  BY <1>7, <1>8, <1>9 DEF PoolStep

ReportLeaves(s, k) == [s EXCEPT !.posted = Tail(@), !.active = IF @ > 0 THEN @ - 1 ELSE @,
                                !.scrapes[k] = Released(@)]

\* The first posted result gives its slot back.
LEMMA ReportedCounted ==
  ASSUME NEW s, SwarmCounted(s), s.posted # <<>>, NEW k, k = Head(s.posted).scrape,
         NEW u, u = ReportLeaves(s, k)
  PROVE  /\ SwarmCounted(u) /\ u.queue = s.queue /\ u.timer = s.timer
         /\ Len(u.scrapes) = Len(s.scrapes)
         /\ \A i \in 1..Len(s.scrapes) : u.scrapes[i].tasks = s.scrapes[i].tasks
<1>1. PICK q : q = s.scrapes
  OBVIOUS
<1>2. PICK w : w = s.posted
  OBVIOUS
<1>3. /\ s \in SwarmKind /\ q \in Seq(ScrapeKind) /\ w \in Seq(PostedKind) /\ w # <<>>
      /\ s.queue \in Seq(TrackedHash) /\ s.timer \in BOOLEAN /\ s.recent \in SUBSET TrackedHash
      /\ s.active \in Nat /\ Len(q) \in Nat /\ Len(w) \in Nat \ {0}
  BY <1>1, <1>2, LenProperties, EmptySeq DEF SwarmCounted, SwarmKind
<1>4. PostedOnce(q, w) /\ \A i \in 1..Len(q) : ScrapeWhole(q[i])
  BY <1>1, <1>2 DEF SwarmCounted
<1>5. Head(w) = w[1]
  BY <1>3 DEF Head
<1>6. /\ k = w[1].scrape /\ k \in 1..Len(q) /\ q[k].remaining = 0
      /\ \A i \in 1..Len(w) : i # 1 => w[i].scrape # k
  <2>1. k = w[1].scrape /\ 1 \in 1..Len(w)
    BY <1>2, <1>3, <1>5
  <2> QED
    BY <1>4, <2>1 DEF PostedOnce
<1>7. PICK c : c = Released(q[k])
  OBVIOUS
<1>8. /\ ScrapeWhole(c) /\ c \in ScrapeKind /\ c.tasks = q[k].tasks
      /\ c.remaining = 0
  <2>1. PICK old : old = q[k]
    OBVIOUS
  <2>2. ScrapeWhole(old) /\ old \in ScrapeKind /\ old.remaining = 0
    BY <1>4, <1>6, <2>1 DEF ScrapeWhole
  <2>3. PICK f : f = [t \in Tracker |-> None]
    OBVIOUS
  <2>4. None \in Counts /\ None <= None
    BY TrackerAssumption DEF None, Counts
  <2>5. PICK oh \in TrackedHash, ot \in [Tracker -> Announce], of \in [Tracker -> Counts],
             ob \in Counts, om \in Nat :
               old = [hash |-> oh, tasks |-> ot, found |-> of, best |-> ob, remaining |-> om]
    BY <2>2 DEF ScrapeKind
  <2>6. c = [old EXCEPT !.found = f, !.best = None]
    BY <1>7, <2>1, <2>3 DEF Released
  <2>7. c = [hash |-> oh, tasks |-> ot, found |-> f, best |-> None, remaining |-> om]
    BY <2>5, <2>6
  <2>8. f \in [Tracker -> Counts] /\ \A t \in Tracker : f[t] = None
    BY <2>3, <2>4
  <2>9. c \in ScrapeKind /\ c.tasks = old.tasks /\ c.remaining = old.remaining
    BY <2>4, <2>5, <2>7, <2>8 DEF ScrapeKind
  <2>10. \A t \in Tracker : c.found[t] <= c.best
    BY <2>4, <2>7, <2>8
  <2>11. NotLeft(c) = NotLeft(old)
    BY <2>9 DEF NotLeft
  <2> QED
    BY <2>1, <2>2, <2>9, <2>10, <2>11 DEF ScrapeWhole
<1>9. PICK r : r = [q EXCEPT ![k] = c]
  OBVIOUS
<1>10. r \in Seq(ScrapeKind) /\ Len(r) = Len(q) /\ r[k] = c /\ \A i \in 1..Len(q) : i # k => r[i] = q[i]
  BY <1>3, <1>6, <1>8, <1>9, ExceptSeq
<1>11. PICK z : z = Tail(w)
  OBVIOUS
<1>12. z \in Seq(PostedKind) /\ Len(z) = Len(w) - 1 /\ \A i \in 1..Len(z) : z[i] = w[i + 1]
  BY <1>3, <1>11, HeadTailProperties
<1>13. s.active = Len(w) + Cardinality(Going(q)) /\ s.active <= kMaxSwarms
  BY <1>1, <1>2 DEF SwarmCounted
<1>14. Cardinality(Going(q)) \in Nat
  BY <1>3, GoingFinite
<1>15. PICK a : a = s.active - 1
  OBVIOUS
<1>16. a \in Nat /\ a <= kMaxSwarms /\ s.active > 0 /\ a = Len(z) + Cardinality(Going(q))
  BY <1>3, <1>12, <1>13, <1>14, <1>15, TrackerAssumption
<1>17. u = [s EXCEPT !.posted = z, !.active = a, !.scrapes = r]
  <2>1. (IF s.active > 0 THEN s.active - 1 ELSE s.active) = a
    BY <1>15, <1>16
  <2>2. [s.scrapes EXCEPT ![k] = Released(s.scrapes[k])] = r
    BY <1>1, <1>7, <1>9
  <2>3. Tail(s.posted) = z
    BY <1>2, <1>11
  <2> QED
    BY <2>1, <2>2, <2>3 DEF ReportLeaves
<1>18. u = [queue |-> s.queue, active |-> a, timer |-> s.timer, recent |-> s.recent,
            scrapes |-> r, posted |-> z]
  BY <1>3, <1>17 DEF SwarmKind
<1>19. u \in SwarmKind
  BY <1>3, <1>10, <1>12, <1>16, <1>18 DEF SwarmKind
<1>20. u.scrapes = r /\ u.posted = z /\ u.active = a /\ u.queue = s.queue /\ u.timer = s.timer
  BY <1>18
<1>21. Going(r) = Going(q)
  BY <1>6, <1>8, <1>10 DEF Going
<1>22. \A i \in 1..Len(r) : ScrapeWhole(r[i])
  BY <1>4, <1>8, <1>10
<1>23. PostedOnce(r, z)
  <2> SUFFICES ASSUME NEW i \in 1..Len(z)
               PROVE  /\ z[i].scrape \in 1..Len(r) /\ r[z[i].scrape].remaining = 0
                      /\ \A t \in Tracker : r[z[i].scrape].found[t] <= z[i].best
                      /\ \A j \in 1..Len(z) : z[j].scrape = z[i].scrape => j = i
    BY DEF PostedOnce
  <2>1. /\ i + 1 \in 1..Len(w) /\ i + 1 # 1 /\ z[i] = w[i + 1]
        /\ \A j \in 1..Len(z) : j + 1 \in 1..Len(w) /\ z[j] = w[j + 1]
    BY <1>3, <1>12
  <2>2. z[i].scrape # k
    BY <1>6, <2>1
  <2>3. \A j \in 1..Len(z) : z[j].scrape = z[i].scrape => j + 1 = i + 1
    BY <1>4, <2>1 DEF PostedOnce
  <2>4. /\ z[i].scrape \in 1..Len(q) /\ q[z[i].scrape].remaining = 0
        /\ \A t \in Tracker : q[z[i].scrape].found[t] <= z[i].best
    BY <1>4, <2>1 DEF PostedOnce
  <2> QED
    BY <1>10, <1>12, <2>2, <2>3, <2>4
<1>24. SwarmCounted(u)
  BY <1>16, <1>19, <1>20, <1>21, <1>22, <1>23 DEF SwarmCounted
<1>25. \A i \in 1..Len(q) : r[i].tasks = q[i].tasks
  BY <1>8, <1>10
<1> QED
  BY <1>1, <1>10, <1>20, <1>24, <1>25

LEMMA SwarmReportedKeeps ==
  ASSUME SwarmInv, SwarmReported
  PROVE  SwarmInv'
<1>1. PICK s : s = swarm
  OBVIOUS
<1>2. PICK k : k = Head(s.posted).scrape
  OBVIOUS
<1>3. PICK u : u = ReportLeaves(s, k)
  OBVIOUS
<1>4. s.posted # <<>> /\ stage' = stage /\ swarm' = SwarmQueue(u)
  BY <1>1, <1>2, <1>3 DEF SwarmReported, ReportLeaves
<1>5. SwarmCounted(s) /\ SwarmWaits(s) /\ SwarmStopped(s)
  BY <1>1 DEF SwarmInv
<1>6. /\ SwarmCounted(u) /\ u.queue = s.queue /\ u.timer = s.timer
      /\ Len(u.scrapes) = Len(s.scrapes)
      /\ \A i \in 1..Len(s.scrapes) : u.scrapes[i].tasks = s.scrapes[i].tasks
  BY <1>2, <1>3, <1>4, <1>5, ReportedCounted
<1>7. PICK v : v = SwarmQueue(u)
  OBVIOUS
<1>8. u.queue # <<>> => u.timer
  BY <1>5, <1>6 DEF SwarmWaits
<1>9. SwarmCounted(v) /\ (stage = "on" => SwarmWaits(v)) /\ (stage # "on" => v = u)
  BY <1>6, <1>7, <1>8, SwarmQueueCounted
<1>10. SwarmStopped(u)
  BY <1>5, <1>6 DEF SwarmStopped
<1>11. stage # "on" => SwarmWaits(v)
  BY <1>9, <1>10 DEF SwarmStopped, SwarmWaits
<1>12. v = swarm'
  BY <1>4, <1>7
<1>13. SwarmStopped(v)
  BY <1>9, <1>10 DEF SwarmStopped
<1> QED
  BY <1>4, <1>9, <1>11, <1>12, <1>13 DEF SwarmInv, SwarmStopped

LEMMA SwarmTimerKeeps ==
  ASSUME SwarmInv, SwarmTimer
  PROVE  SwarmInv'
<1>1. PICK v : v = SwarmQueue(swarm)
  OBVIOUS
<1>2. SwarmCounted(v) /\ (stage = "on" => SwarmWaits(v)) /\ (stage # "on" => v = swarm)
  BY <1>1, SwarmQueueCounted DEF SwarmInv, SwarmTimer
<1>3. v = swarm' /\ stage' = stage
  BY <1>1 DEF SwarmTimer
<1> QED
  BY <1>2, <1>3 DEF SwarmInv, SwarmStopped

LEMMA RequestKeeps ==
  ASSUME SwarmInv, stage' = stage, NEW h \in TrackedHash, swarm' = RequestScrape(swarm, h)
  PROVE  SwarmInv'
<1>1. PICK v : v = RequestScrape(swarm, h)
  OBVIOUS
<1>2. SwarmCounted(v) /\ SwarmWaits(v)
  BY <1>1, RequestScrapeCounted DEF SwarmInv
<1>3. stage # "on" => v = swarm
  BY <1>1 DEF RequestScrape
<1>4. v = swarm'
  BY <1>1
<1> QED
  BY <1>2, <1>3, <1>4 DEF SwarmInv, SwarmStopped

LEMMA CooledKeeps ==
  ASSUME SwarmInv, stage' = stage, NEW h, swarm' = [swarm EXCEPT !.recent = @ \ {h}]
  PROVE  SwarmInv'
<1>1. PICK u : u = [swarm EXCEPT !.recent = @ \ {h}]
  OBVIOUS
<1>2. swarm \in SwarmKind
  BY DEF SwarmInv, SwarmCounted
<1>3. u \in SwarmKind
  BY <1>1, <1>2 DEF SwarmKind
<1>4. /\ u.queue = swarm.queue /\ u.scrapes = swarm.scrapes /\ u.posted = swarm.posted
      /\ u.active = swarm.active /\ u.timer = swarm.timer
  BY <1>1, <1>2 DEF SwarmKind
<1>5. SwarmCounted(u)
  BY <1>3, <1>4 DEF SwarmInv, SwarmCounted
<1>6. u = swarm'
  BY <1>1
<1> QED
  BY <1>4, <1>5, <1>6 DEF SwarmInv, SwarmWaits, SwarmStopped

LEMMA StopSwarmKeeps ==
  ASSUME SwarmInv, StopSwarm
  PROVE  SwarmInv'
<1>1. PICK s : s = swarm
  OBVIOUS
<1>2. PICK q : q = s.scrapes
  OBVIOUS
<1>3. SwarmCounted(s) /\ s \in SwarmKind /\ q \in Seq(ScrapeKind) /\ Len(q) \in Nat
  BY <1>1, <1>2, LenProperties DEF SwarmInv, SwarmCounted, SwarmKind
<1>4. PICK r : r = [k \in 1..Len(q) |-> Dropped(q[k])]
  OBVIOUS
<1>5. ASSUME NEW k \in 1..Len(q)
      PROVE  /\ ScrapeWhole(r[k]) /\ r[k] \in ScrapeKind /\ r[k].remaining = q[k].remaining
             /\ r[k].found = q[k].found
             /\ \A t \in Tracker : r[k].tasks[t] # "queued"
  <2>1. PICK old : old = q[k]
    OBVIOUS
  <2>2. ScrapeWhole(old) /\ old \in ScrapeKind
    BY <1>2, <1>3, <2>1 DEF SwarmCounted, ScrapeWhole
  <2>3. PICK c : c = Dropped(old)
    OBVIOUS
  <2>4. PICK oh \in TrackedHash, ot \in [Tracker -> Announce], of \in [Tracker -> Counts],
             ob \in Counts, om \in Nat :
               old = [hash |-> oh, tasks |-> ot, found |-> of, best |-> ob, remaining |-> om]
    BY <2>2 DEF ScrapeKind
  <2>5. PICK y : y = [t \in Tracker |-> IF ot[t] = "queued" THEN "dropped" ELSE ot[t]]
    OBVIOUS
  <2>6. y \in [Tracker -> Announce] /\ \A t \in Tracker : y[t] # "queued" /\ (y[t] = "left" <=> ot[t] = "left")
    BY <2>5 DEF Announce
  <2>7. c = [old EXCEPT !.tasks = y]
    BY <2>3, <2>4, <2>5 DEF Dropped
  <2>8. c = [hash |-> oh, tasks |-> y, found |-> of, best |-> ob, remaining |-> om]
    BY <2>4, <2>7
  <2>9. c \in ScrapeKind /\ c.remaining = old.remaining /\ c.found = old.found /\ c.best = old.best
    BY <2>4, <2>6, <2>8 DEF ScrapeKind
  <2>10. NotLeft(c) = NotLeft(old)
    BY <2>4, <2>6, <2>8 DEF NotLeft
  <2>11. ScrapeWhole(c)
    BY <2>2, <2>9, <2>10 DEF ScrapeWhole
  <2>12. r[k] = c
    BY <1>4, <2>1, <2>3
  <2> QED
    BY <2>1, <2>6, <2>8, <2>9, <2>11, <2>12
<1>6. r \in [1..Len(q) -> ScrapeKind]
  BY <1>4, <1>5
<1>7. r \in Seq(ScrapeKind) /\ Len(r) = Len(q)
  BY <1>3, <1>6 DEF Seq
<1>8. PICK u : u = [s EXCEPT !.queue = <<>>, !.timer = FALSE, !.scrapes = r]
  OBVIOUS
<1>9. u = swarm' /\ stage = "on" /\ stage' = "draining"
  <2>1. DOMAIN s.scrapes = 1..Len(q)
    BY <1>2, <1>3
  <2>2. r = [k \in DOMAIN s.scrapes |-> Dropped(s.scrapes[k])]
    BY <1>2, <1>4, <2>1
  <2> QED
    BY <1>1, <1>8, <2>2 DEF StopSwarm
<1>10. u = [queue |-> <<>>, active |-> s.active, timer |-> FALSE, recent |-> s.recent,
            scrapes |-> r, posted |-> s.posted]
  BY <1>3, <1>8 DEF SwarmKind
<1>11. <<>> \in Seq(TrackedHash)
  OBVIOUS
<1>12. u \in SwarmKind
  BY <1>3, <1>7, <1>10, <1>11 DEF SwarmKind
<1>13. Going(r) = Going(q)
  BY <1>5, <1>7 DEF Going
<1>14. PostedOnce(q, s.posted)
  BY <1>2, <1>3 DEF SwarmCounted
<1>15. PostedOnce(r, s.posted)
  BY <1>5, <1>7, <1>14 DEF PostedOnce
<1>16. /\ u.scrapes = r /\ u.posted = s.posted /\ u.active = s.active /\ u.queue = <<>>
       /\ ~u.timer
  BY <1>10
<1>17. s.active = Len(s.posted) + Cardinality(Going(q)) /\ s.active <= kMaxSwarms
  BY <1>2, <1>3 DEF SwarmCounted
<1>18. SwarmCounted(u)
  BY <1>5, <1>7, <1>12, <1>13, <1>15, <1>16, <1>17 DEF SwarmCounted
<1>19. /\ u.queue = <<>> /\ ~u.timer
       /\ \A k \in 1..Len(u.scrapes) : \A t \in Tracker : u.scrapes[k].tasks[t] # "queued"
  BY <1>5, <1>7, <1>16
<1> QED
  BY <1>9, <1>18, <1>19 DEF SwarmInv, SwarmWaits, SwarmStopped

\* StopSites waits for the pool.
LEMMA SwarmSettles ==
  ASSUME SwarmInv, StopSites
  PROVE  SwarmInv'
<1>1. /\ stage = "draining" /\ stage' = "off" /\ swarm' = swarm /\ AnnounceTasks(swarm) = {}
  BY DEF StopSites
<1>2. swarm.scrapes \in Seq(ScrapeKind) /\ DOMAIN swarm.scrapes = 1..Len(swarm.scrapes)
  BY DEF SwarmInv, SwarmCounted, SwarmKind
<1>3. \A k \in 1..Len(swarm.scrapes) : \A t \in Tracker :
          swarm.scrapes[k].tasks[t] \notin {"announcing", "merged"}
  <2> SUFFICES ASSUME NEW k \in 1..Len(swarm.scrapes), NEW t \in Tracker,
                      swarm.scrapes[k].tasks[t] \in {"announcing", "merged"}
               PROVE  FALSE
    OBVIOUS
  <2>1. PICK a : a = <<k, t>>
    OBVIOUS
  <2>2. a \in (DOMAIN swarm.scrapes) \X Tracker /\ a[1] = k /\ a[2] = t
    BY <1>2, <2>1
  <2>3. a \in AnnounceTasks(swarm)
    BY <2>2 DEF AnnounceTasks
  <2> QED
    BY <1>1, <2>3
<1> QED
  BY <1>1, <1>3 DEF SwarmInv, SwarmCounted, SwarmWaits, SwarmStopped

-----------------------------------------------------------------------------
(* Its site scraper: a hash waits for as many answers as it has replies    *)
(* under way, the search of a site and the page it leads to never both; a   *)
(* slot is held by each hash that is looked up, none of which is queued.    *)

PendingKind == [pendingCount : Nat, results : Seq(TrackerSiteInfo)]
SitesKind == [queue : Seq(TrackedHash), active : Nat, timer : BOOLEAN, recent : SUBSET TrackedHash,
              pending : [TrackedHash -> PendingKind], replies : SUBSET Reply]

ReplyFor(h, k) == [hash |-> h, kind |-> k]
RepliesOf(R, h) == {r \in R : r.hash = h}
Sought(p) == {h \in TrackedHash : p[h] # NoScrape}
HashWhole(p, R, rec, h) ==
    /\ p[h].pendingCount = Cardinality(RepliesOf(R, h))
    /\ p[h].pendingCount = 0 => p[h] = NoScrape
    /\ ~(ReplyFor(h, "nyaa") \in R /\ ReplyFor(h, "view") \in R)
    /\ p[h] # NoScrape => h \in rec
QueueWhole(q, p, rec) == \A k \in 1..Len(q) :
    /\ q[k] \in rec /\ p[q[k]] = NoScrape
    /\ \A j \in 1..Len(q) : q[j] = q[k] => j = k

SitesCounted(s) ==
    /\ s \in SitesKind
    /\ \A h \in TrackedHash : HashWhole(s.pending, s.replies, s.recent, h)
    /\ QueueWhole(s.queue, s.pending, s.recent)
    /\ IsFiniteSet(Sought(s.pending)) /\ s.active = Cardinality(Sought(s.pending))
    /\ s.active <= kMaxSites
SitesWaits(s) == s.queue # <<>> => s.active = kMaxSites /\ s.timer

SitesInv == /\ SitesCounted(sites) /\ SitesWaits(sites)
            /\ stage = "off" => sites.replies = {} /\ sites.queue = <<>> /\ ~sites.timer

LEMMA NoScrapeKind == NoScrape \in PendingKind /\ NoScrape.pendingCount = 0
<1>1. <<>> \in Seq(TrackerSiteInfo)
  OBVIOUS
<1> QED
  BY <1>1 DEF NoScrape, PendingKind

LEMMA RepliesFinite ==
  ASSUME NEW R \in SUBSET Reply, NEW h \in TrackedHash
  PROVE  IsFiniteSet(RepliesOf(R, h))
<1> DEFINE a == ReplyFor(h, "rutracker")
           b == ReplyFor(h, "nyaa")
           c == ReplyFor(h, "view")
           all == (({} \cup {a}) \cup {b}) \cup {c}
<1>1. IsFiniteSet(all)
  <2>1. IsFiniteSet({} \cup {a})
    BY FS_EmptySet, FS_AddElement
  <2>2. IsFiniteSet(({} \cup {a}) \cup {b})
    BY <2>1, FS_AddElement
  <2> QED
    BY <2>2, FS_AddElement
<1>2. RepliesOf(R, h) \subseteq all
  BY DEF RepliesOf, Reply, ReplyFor
<1> QED
  BY <1>1, <1>2, FS_Subset

LEMMA TwoSitesCounted ==
  /\ Cardinality(Site) = 2
  /\ \A h : Cardinality({ReplyFor(h, "rutracker"), ReplyFor(h, "nyaa")}) = 2
<1>1. \A a, b : a # b => Cardinality({a, b}) = 2
  <2> SUFFICES ASSUME NEW a, NEW b, a # b PROVE Cardinality({a, b}) = 2
    OBVIOUS
  <2>1. IsFiniteSet({a}) /\ Cardinality({a}) = 1
    BY FS_Singleton
  <2>2. Cardinality({a} \cup {b}) = Cardinality({a}) + 1
    BY <2>1, FS_AddElement
  <2>3. {a, b} = {a} \cup {b}
    OBVIOUS
  <2> QED
    BY <2>1, <2>2, <2>3
<1>2. Site = {"rutracker", "nyaa"} /\ "rutracker" # "nyaa"
  BY DEF Site
<1>3. \A h : ReplyFor(h, "rutracker") # ReplyFor(h, "nyaa")
  BY DEF ReplyFor
<1> QED
  BY <1>1, <1>2, <1>3

StartedFor(p, H) == [h \in TrackedHash |->
                   IF h \in H THEN [pendingCount |-> Cardinality(Site), results |-> <<>>]
                   ELSE p[h]]
Asked(R, H) == R \cup [hash : H, kind : Site]

Ready(p, R, rec, H) ==
    /\ p \in [TrackedHash -> PendingKind] /\ R \in SUBSET Reply /\ rec \in SUBSET TrackedHash
    /\ H \in SUBSET TrackedHash /\ \A h \in TrackedHash : HashWhole(p, R, rec, h)
    /\ \A h \in H : h \in rec /\ p[h] = NoScrape

\* The hashes of H start, both sites at once.
LEMMA StartHashes ==
  ASSUME NEW p, NEW R, NEW rec, NEW H, Ready(p, R, rec, H),
         NEW z, z = StartedFor(p, H), NEW Q, Q = Asked(R, H)
  PROVE  /\ z \in [TrackedHash -> PendingKind] /\ Q \in SUBSET Reply
         /\ \A h \in TrackedHash : HashWhole(z, Q, rec, h)
         /\ Sought(z) = Sought(p) \cup H /\ Sought(p) \cap H = {}
         /\ \A h \in TrackedHash \ H : z[h] = p[h]
<1> /\ p \in [TrackedHash -> PendingKind] /\ R \in SUBSET Reply /\ rec \in SUBSET TrackedHash
    /\ H \in SUBSET TrackedHash /\ \A h \in TrackedHash : HashWhole(p, R, rec, h)
    /\ \A h \in H : h \in rec /\ p[h] = NoScrape
  BY DEF Ready
<1>1. PICK e : e = [pendingCount |-> Cardinality(Site), results |-> <<>>]
  OBVIOUS
<1>2. e \in PendingKind /\ e.pendingCount = 2 /\ e # NoScrape
  <2>1. <<>> \in Seq(TrackerSiteInfo)
    OBVIOUS
  <2> QED
    BY <1>1, <2>1, TwoSitesCounted DEF PendingKind, NoScrape
<1>0. Q = R \cup [hash : H, kind : Site]
  BY DEF Asked
<1>3. \A h \in TrackedHash : z[h] = IF h \in H THEN e ELSE p[h]
  BY <1>1 DEF StartedFor
<1>4. z \in [TrackedHash -> PendingKind]
  BY <1>1, <1>2 DEF StartedFor
<1>5. Q \in SUBSET Reply
  BY <1>0 DEF Reply, Site
<1>6. Sought(z) = Sought(p) \cup H /\ Sought(p) \cap H = {}
  BY <1>2, <1>3 DEF Sought
<1>7. ASSUME NEW h \in H PROVE HashWhole(z, Q, rec, h)
  <2>1. h \in TrackedHash /\ z[h] = e /\ h \in rec
    BY <1>3
  <2>2. RepliesOf(R, h) = {}
    BY <2>1, NoScrapeKind, RepliesFinite, FS_EmptySet DEF HashWhole
  <2>3. RepliesOf(Q, h) = {ReplyFor(h, "rutracker"), ReplyFor(h, "nyaa")}
    <3>1. \A r \in [hash : H, kind : Site] :
              r.hash = h => r = ReplyFor(h, "rutracker") \/ r = ReplyFor(h, "nyaa")
      BY DEF Site, ReplyFor
    <3>2. /\ ReplyFor(h, "rutracker") \in [hash : H, kind : Site] /\ ReplyFor(h, "rutracker").hash = h
          /\ ReplyFor(h, "nyaa") \in [hash : H, kind : Site] /\ ReplyFor(h, "nyaa").hash = h
      BY DEF Site, ReplyFor
    <3> QED
      BY <1>0, <2>2, <3>1, <3>2 DEF RepliesOf
  <2>4. ReplyFor(h, "view") \notin Q
    <3>1. ReplyFor(h, "view").hash = h /\ ReplyFor(h, "view").kind = "view"
      BY DEF ReplyFor
    <3>2. ReplyFor(h, "view") \notin R
      BY <2>2, <3>1 DEF RepliesOf
    <3>3. ReplyFor(h, "view") \notin [hash : H, kind : Site]
      BY <3>1 DEF Site
    <3> QED
      BY <1>0, <3>2, <3>3
  <2>5. Cardinality(RepliesOf(Q, h)) = 2
    BY <2>3, TwoSitesCounted
  <2> QED
    BY <1>2, <2>1, <2>4, <2>5 DEF HashWhole
<1>8. ASSUME NEW h \in TrackedHash, h \notin H PROVE HashWhole(z, Q, rec, h)
  <2>1. z[h] = p[h] /\ HashWhole(p, R, rec, h)
    BY <1>3, <1>8
  <2>2. \A r \in [hash : H, kind : Site] : r.hash # h
    BY <1>8
  <2>3. RepliesOf(Q, h) = RepliesOf(R, h)
    BY <1>0, <2>2 DEF RepliesOf
  <2>4. \A k : ReplyFor(h, k) \in Q => ReplyFor(h, k) \in R
    BY <1>0, <2>2 DEF ReplyFor
  <2> QED
    BY <2>1, <2>3, <2>4 DEF HashWhole
<1> QED
  BY <1>3, <1>4, <1>5, <1>6, <1>7, <1>8

Leaves(p, R, rec, r, e, z) ==
    /\ z = [p EXCEPT ![r.hash] = e]
    /\ p \in [TrackedHash -> PendingKind] /\ R \in SUBSET Reply /\ rec \in SUBSET TrackedHash
    /\ \A h \in TrackedHash : HashWhole(p, R, rec, h)
    /\ r \in R /\ e \in PendingKind
    /\ e.pendingCount = p[r.hash].pendingCount - 1 /\ (e.pendingCount = 0 => e = NoScrape)

HasLeft(p, R, rec, r, e, z) ==
    /\ z \in [TrackedHash -> PendingKind]
    /\ \A h \in TrackedHash : HashWhole(z, R \ {r}, rec, h)
    /\ r.hash \in Sought(p)
    /\ e = NoScrape => Sought(z) = Sought(p) \ {r.hash}
    /\ e # NoScrape => Sought(z) = Sought(p)

\* A reply of a hash ends: e is what the hash waits for then.
LEMMA ReplyLeaves ==
  ASSUME NEW p, NEW R, NEW rec, NEW r, NEW e, NEW z, Leaves(p, R, rec, r, e, z)
  PROVE  HasLeft(p, R, rec, r, e, z)
<1> /\ p \in [TrackedHash -> PendingKind] /\ R \in SUBSET Reply /\ rec \in SUBSET TrackedHash
    /\ \A h \in TrackedHash : HashWhole(p, R, rec, h)
    /\ r \in R /\ e \in PendingKind
    /\ e.pendingCount = p[r.hash].pendingCount - 1 /\ (e.pendingCount = 0 => e = NoScrape)
    /\ z = [p EXCEPT ![r.hash] = e]
  BY DEF Leaves
<1>1. PICK g : g = r.hash
  OBVIOUS
<1>2. g \in TrackedHash /\ r \in RepliesOf(R, g)
  BY <1>1 DEF Reply, RepliesOf
<1>3. /\ z \in [TrackedHash -> PendingKind] /\ z[g] = e
      /\ \A h \in TrackedHash : h # g => z[h] = p[h]
  BY <1>1, <1>2
<1>4. HashWhole(p, R, rec, g) /\ p[g].pendingCount \in Nat
  BY <1>2 DEF PendingKind
<1>5. IsFiniteSet(RepliesOf(R, g))
  BY <1>2, RepliesFinite
<1>6. p[g] # NoScrape
  <2>1. p[g].pendingCount # 0
    BY <1>2, <1>4, <1>5, FS_EmptySet DEF HashWhole
  <2> QED
    BY <2>1, NoScrapeKind
<1>7. RepliesOf(R \ {r}, g) = RepliesOf(R, g) \ {r}
  BY DEF RepliesOf
<1>8. HashWhole(z, R \ {r}, rec, g)
  <2>1. Cardinality(RepliesOf(R, g) \ {r}) = Cardinality(RepliesOf(R, g)) - 1
    BY <1>2, <1>5, FS_RemoveElement
  <2>2. e.pendingCount = Cardinality(RepliesOf(R \ {r}, g))
    BY <1>1, <1>4, <1>7, <2>1 DEF HashWhole
  <2> QED
    BY <1>3, <1>4, <1>6, <2>2 DEF HashWhole
<1>9. ASSUME NEW h \in TrackedHash, h # g PROVE HashWhole(z, R \ {r}, rec, h)
  <2>1. RepliesOf(R \ {r}, h) = RepliesOf(R, h)
    BY <1>1, <1>9 DEF RepliesOf
  <2>2. z[h] = p[h] /\ HashWhole(p, R, rec, h)
    BY <1>3, <1>9
  <2> QED
    BY <2>1, <2>2 DEF HashWhole
<1>10. /\ e = NoScrape => Sought(z) = Sought(p) \ {g}
       /\ e # NoScrape => Sought(z) = Sought(p)
  BY <1>2, <1>3, <1>6 DEF Sought
<1> QED
  <2>1. r.hash \in Sought(p)
    BY <1>1, <1>2, <1>6 DEF Sought
  <2>2. \A h \in TrackedHash : HashWhole(z, R \ {r}, rec, h)
    BY <1>8, <1>9
  <2> QED
    BY <1>1, <1>3, <1>10, <2>1, <2>2 DEF HasLeft

\* With the slots of H already taken, H starts.
LEMMA StartSitesCounted ==
  ASSUME NEW s \in SitesKind, \A h \in TrackedHash : HashWhole(s.pending, s.replies, s.recent, h),
         QueueWhole(s.queue, s.pending, s.recent), IsFiniteSet(Sought(s.pending)),
         NEW H \in SUBSET TrackedHash, IsFiniteSet(H),
         \A h \in H : h \in s.recent /\ s.pending[h] = NoScrape,
         \A k \in 1..Len(s.queue) : s.queue[k] \notin H,
         s.active = Cardinality(Sought(s.pending)) + Cardinality(H), s.active <= kMaxSites,
         NEW u, u = StartSites(s, H)
  PROVE  SitesCounted(u) /\ u.queue = s.queue /\ u.active = s.active /\ u.timer = s.timer
<1>1. PICK p : p = s.pending
  OBVIOUS
<1>2. PICK R : R = s.replies
  OBVIOUS
<1>3. PICK rec : rec = s.recent
  OBVIOUS
<1>4. PICK q : q = s.queue
  OBVIOUS
<1>5. /\ p \in [TrackedHash -> PendingKind] /\ R \in SUBSET Reply /\ rec \in SUBSET TrackedHash
      /\ q \in Seq(TrackedHash) /\ s.active \in Nat /\ s.timer \in BOOLEAN
  BY <1>1, <1>2, <1>3, <1>4 DEF SitesKind
<1>6. PICK z : z = StartedFor(p, H)
  OBVIOUS
<1>7. PICK Q : Q = Asked(R, H)
  OBVIOUS
<1>8. \A h \in TrackedHash : HashWhole(p, R, rec, h)
  BY <1>1, <1>2, <1>3
<1>9. \A h \in H : h \in rec /\ p[h] = NoScrape
  BY <1>1, <1>3
<1>9a. Ready(p, R, rec, H)
  BY <1>5, <1>8, <1>9 DEF Ready
<1>10. /\ z \in [TrackedHash -> PendingKind] /\ Q \in SUBSET Reply
       /\ \A h \in TrackedHash : HashWhole(z, Q, rec, h)
       /\ Sought(z) = Sought(p) \cup H /\ Sought(p) \cap H = {}
       /\ \A h \in TrackedHash \ H : z[h] = p[h]
  BY <1>6, <1>7, <1>9a, StartHashes
<1>11. IsFiniteSet(Sought(p))
  BY <1>1
<1>12. IsFiniteSet(Sought(z)) /\ Cardinality(Sought(z)) = Cardinality(Sought(p)) + Cardinality(H)
  <2>1. /\ IsFiniteSet(Sought(p) \cup H)
        /\ Cardinality(Sought(p) \cup H)
             = Cardinality(Sought(p)) + Cardinality(H) - Cardinality(Sought(p) \cap H)
    BY <1>11, FS_Union
  <2>2. Cardinality(Sought(p)) \in Nat /\ Cardinality(H) \in Nat
    BY <1>11, FS_CardinalityType
  <2>3. PICK both : both = Sought(p) \cap H
    OBVIOUS
  <2>4. both = {} /\ Cardinality(both) = 0
    BY <1>10, <2>3, FS_EmptySet
  <2>5. Cardinality(Sought(p) \cup H) = Cardinality(Sought(p)) + Cardinality(H)
    BY <2>1, <2>2, <2>3, <2>4
  <2> QED
    BY <1>10, <2>1, <2>5
<1>13. u = [s EXCEPT !.pending = z, !.replies = Q]
  BY <1>1, <1>2, <1>6, <1>7 DEF StartSites, StartedFor, Asked
<1>14. u = [queue |-> s.queue, active |-> s.active, timer |-> s.timer, recent |-> s.recent,
            pending |-> z, replies |-> Q]
  BY <1>13 DEF SitesKind
<1>15. /\ u.queue = q /\ u.active = s.active /\ u.timer = s.timer /\ u.recent = rec
       /\ u.pending = z /\ u.replies = Q
  BY <1>3, <1>4, <1>14
<1>16. u \in SitesKind
  BY <1>3, <1>4, <1>5, <1>10, <1>14 DEF SitesKind
<1>17. QueueWhole(q, z, rec)
  <2>1. QueueWhole(q, p, rec) /\ \A k \in 1..Len(q) : q[k] \notin H
    BY <1>1, <1>3, <1>4
  <2>2. \A k \in 1..Len(q) : q[k] \in TrackedHash
    BY <1>5, ElementOfSeq
  <2> QED
    BY <1>10, <2>1, <2>2 DEF QueueWhole
<1>18. s.active = Cardinality(Sought(z))
  BY <1>1, <1>12
<1>19. SitesCounted(u)
  BY <1>10, <1>12, <1>15, <1>16, <1>17, <1>18 DEF SitesCounted
<1> QED
  BY <1>4, <1>15, <1>19

LEMMA ScrapeSitesCounted ==
  ASSUME NEW s, SitesCounted(s), SitesWaits(s), NEW h \in TrackedHash
  PROVE  SitesCounted(ScrapeSites(s, h)) /\ SitesWaits(ScrapeSites(s, h))
<1>1. PICK q : q = s.queue
  OBVIOUS
<1>2. /\ s \in SitesKind /\ q \in Seq(TrackedHash) /\ Len(q) \in Nat /\ s.active \in Nat
      /\ s.timer \in BOOLEAN /\ s.recent \in SUBSET TrackedHash /\ s.active <= kMaxSites
      /\ s.pending \in [TrackedHash -> PendingKind] /\ s.replies \in SUBSET Reply
  BY <1>1, LenProperties DEF SitesCounted, SitesKind
<1>3. PICK rec : rec = s.recent \cup {h}
  OBVIOUS
<1>4. \A i \in TrackedHash : HashWhole(s.pending, s.replies, rec, i)
  BY <1>3 DEF SitesCounted, HashWhole
<1>5. QueueWhole(q, s.pending, s.recent)
  BY <1>1 DEF SitesCounted
<1>6. QueueWhole(q, s.pending, rec)
  BY <1>3, <1>5 DEF QueueWhole
<1>7. CASE stage # "on" \/ h \in s.recent
  BY <1>7 DEF ScrapeSites
<1>8. ASSUME ~(stage # "on" \/ h \in s.recent)
      PROVE  s.pending[h] = NoScrape /\ \A k \in 1..Len(q) : q[k] # h
  <2>1. HashWhole(s.pending, s.replies, s.recent, h)
    BY DEF SitesCounted
  <2> QED
    BY <1>5, <1>8, <2>1 DEF HashWhole, QueueWhole
<1>9. CASE ~(stage # "on" \/ h \in s.recent) /\ s.active >= kMaxSites
  <2>1. PICK w : w = Append(q, h)
    OBVIOUS
  <2>2. PICK u : u = [s EXCEPT !.recent = rec, !.queue = w, !.timer = TRUE]
    OBVIOUS
  <2>3. ScrapeSites(s, h) = u
    BY <1>1, <1>3, <1>9, <2>1, <2>2 DEF ScrapeSites
  <2>4. u = [queue |-> w, active |-> s.active, timer |-> TRUE, recent |-> rec,
             pending |-> s.pending, replies |-> s.replies]
    BY <1>2, <2>2 DEF SitesKind
  <2>5. /\ w \in Seq(TrackedHash) /\ Len(w) = Len(q) + 1 /\ w[Len(q) + 1] = h
        /\ \A k \in 1..Len(q) : w[k] = q[k]
    BY <1>2, <2>1, AppendProperties
  <2>6. rec \in SUBSET TrackedHash
    BY <1>2, <1>3
  <2>7. u \in SitesKind
    BY <1>2, <2>4, <2>5, <2>6 DEF SitesKind
  <2>8. QueueWhole(w, s.pending, rec)
    <3> SUFFICES ASSUME NEW k \in 1..Len(w)
                 PROVE  /\ w[k] \in rec /\ s.pending[w[k]] = NoScrape
                        /\ \A j \in 1..Len(w) : w[j] = w[k] => j = k
      BY DEF QueueWhole
    <3>1. \A j \in 1..Len(w) : j \in 1..Len(q) \/ j = Len(q) + 1
      BY <1>2, <2>5
    <3>2. CASE k \in 1..Len(q)
      BY <1>6, <1>8, <1>9, <2>5, <3>1, <3>2 DEF QueueWhole
    <3>3. CASE k = Len(q) + 1
      BY <1>3, <1>8, <1>9, <2>5, <3>1, <3>3
    <3> QED
      BY <3>1, <3>2, <3>3
  <2>9. /\ u.queue = w /\ u.active = s.active /\ u.timer = TRUE /\ u.recent = rec
        /\ u.pending = s.pending /\ u.replies = s.replies
    BY <2>4
  <2>10. SitesCounted(u)
    BY <1>4, <2>7, <2>8, <2>9 DEF SitesCounted
  <2>11. SitesWaits(u)
    BY <1>2, <1>9, <2>9, TrackerAssumption DEF SitesWaits
  <2> QED
    BY <2>3, <2>10, <2>11
<1>10. CASE ~(stage # "on" \/ h \in s.recent) /\ ~(s.active >= kMaxSites)
  <2>1. PICK a : a = s.active + 1
    OBVIOUS
  <2>2. PICK v : v = [s EXCEPT !.recent = rec, !.active = a]
    OBVIOUS
  <2>3. PICK u : u = StartSites(v, {h})
    OBVIOUS
  <2>4. ScrapeSites(s, h) = u
    BY <1>3, <1>10, <2>1, <2>2, <2>3 DEF ScrapeSites
  <2>5. v = [queue |-> s.queue, active |-> a, timer |-> s.timer, recent |-> rec,
             pending |-> s.pending, replies |-> s.replies]
    BY <1>2, <2>2 DEF SitesKind
  <2>6. a \in Nat /\ rec \in SUBSET TrackedHash /\ a <= kMaxSites /\ h \in rec
    BY <1>2, <1>3, <1>10, <2>1, TrackerAssumption
  <2>7. v \in SitesKind
    BY <1>1, <1>2, <2>5, <2>6 DEF SitesKind
  <2>8. /\ v.queue = q /\ v.active = a /\ v.timer = s.timer /\ v.recent = rec
        /\ v.pending = s.pending /\ v.replies = s.replies
    BY <1>1, <2>5
  <2>9. IsFiniteSet(Sought(s.pending)) /\ s.active = Cardinality(Sought(s.pending))
    BY DEF SitesCounted
  <2>10. IsFiniteSet({h}) /\ Cardinality({h}) = 1
    BY FS_Singleton
  <2>11. a = Cardinality(Sought(s.pending)) + Cardinality({h})
    BY <2>1, <2>9, <2>10
  <2>12. {h} \in SUBSET TrackedHash /\ \A i \in {h} : i \in rec /\ s.pending[i] = NoScrape
    BY <1>8, <1>10, <2>6
  <2>13. \A k \in 1..Len(q) : q[k] \notin {h}
    BY <1>8, <1>10
  <2>14. PICK H : H = {h}
    OBVIOUS
  <2>15. SitesCounted(u) /\ u.queue = v.queue /\ u.active = v.active /\ u.timer = v.timer
    <3>1. /\ \A i \in TrackedHash : HashWhole(v.pending, v.replies, v.recent, i)
          /\ QueueWhole(v.queue, v.pending, v.recent) /\ IsFiniteSet(Sought(v.pending))
      BY <1>4, <1>6, <2>8, <2>9
    <3>2. /\ H \in SUBSET TrackedHash /\ IsFiniteSet(H)
          /\ \A i \in H : i \in v.recent /\ v.pending[i] = NoScrape
          /\ \A k \in 1..Len(v.queue) : v.queue[k] \notin H
      BY <2>8, <2>10, <2>12, <2>13, <2>14
    <3>3. v.active = Cardinality(Sought(v.pending)) + Cardinality(H) /\ v.active <= kMaxSites
      BY <2>6, <2>8, <2>11, <2>14
    <3> QED
      BY <2>3, <2>7, <2>14, <3>1, <3>2, <3>3, StartSitesCounted
  <2>16. u.queue = <<>>
    BY <1>1, <1>2, <1>10, <2>8, <2>15, TrackerAssumption DEF SitesWaits
  <2> QED
    BY <2>4, <2>15, <2>16 DEF SitesWaits
<1> QED
  BY <1>7, <1>9, <1>10

\* As many hashes start as are taken from the queue.
LEMMA TakenCount ==
  ASSUME NEW q \in Seq(TrackedHash), NEW n \in Nat, n <= Len(q),
         \A i, j \in 1..Len(q) : q[j] = q[i] => j = i
  PROVE  LET H == {q[i] : i \in 1..n} IN IsFiniteSet(H) /\ Cardinality(H) = n
<1> DEFINE H == {q[i] : i \in 1..n}
           f == [i \in 1..n |-> q[i]]
<1>1. 1..n \subseteq 1..Len(q)
  BY LenProperties
<1>2. f \in [1..n -> H] /\ \A i, j \in 1..n : f[i] = f[j] => i = j
  BY <1>1
<1>3. \A h \in H : \E i \in 1..n : f[i] = h
  OBVIOUS
<1>4. f \in Bijection(1..n, H)
  BY <1>2, <1>3 DEF Bijection, Injection, Surjection, IsInjective
<1>5. ExistsBijection(1..n, H)
  BY <1>4 DEF ExistsBijection
<1>6. IsFiniteSet(1..n)
  BY FS_Interval
<1> QED
  BY <1>5, <1>6, FS_Bijection, FS_CountingElements

LEMMA SitesQueueCounted ==
  ASSUME NEW s, SitesCounted(s), s.queue # <<>> => s.timer
  PROVE  /\ SitesCounted(SitesQueue(s))
         /\ stage = "on" => SitesWaits(SitesQueue(s))
         /\ stage # "on" => SitesQueue(s) = s
<1>1. CASE stage # "on"
  BY <1>1 DEF SitesQueue
<1>2. CASE stage = "on"
  <2>1. PICK q : q = s.queue
    OBVIOUS
  <2>2. /\ s \in SitesKind /\ q \in Seq(TrackedHash) /\ Len(q) \in Nat /\ s.active \in Nat
        /\ s.timer \in BOOLEAN /\ s.recent \in SUBSET TrackedHash /\ s.active <= kMaxSites
        /\ s.pending \in [TrackedHash -> PendingKind] /\ s.replies \in SUBSET Reply
    BY <2>1, LenProperties DEF SitesCounted, SitesKind
  <2>3. PICK n : n = Least(Len(q), kMaxSites - s.active)
    OBVIOUS
  <2>4. /\ n \in Nat /\ n <= Len(q) /\ s.active + n <= kMaxSites
        /\ n < Len(q) => s.active + n = kMaxSites
    BY <2>2, <2>3, TrackerAssumption DEF Least
  <2>5. QueueWhole(q, s.pending, s.recent)
    BY <2>1 DEF SitesCounted
  <2>6. PICK H : H = {q[k] : k \in 1..n}
    OBVIOUS
  <2>7. \A i, j \in 1..Len(q) : q[j] = q[i] => j = i
    BY <2>5 DEF QueueWhole
  <2>8. IsFiniteSet(H) /\ Cardinality(H) = n
    BY <2>2, <2>4, <2>6, <2>7, TakenCount
  <2>9. PICK w : w = SubSeq(q, n + 1, Len(q))
    OBVIOUS
  <2>10. \A k \in n + 1..Len(q) : q[k] \in TrackedHash
    BY <2>2, <2>4, ElementOfSeq
  <2>11. /\ w \in Seq(TrackedHash) /\ Len(w) = Len(q) - n
         /\ \A k \in 1..Len(w) : w[k] = q[n + k]
    <3>1. n + 1 \in Int /\ Len(q) \in Int
      BY <2>2, <2>4
    <3>2. /\ w \in Seq(TrackedHash)
          /\ Len(w) = IF n + 1 <= Len(q) THEN Len(q) - (n + 1) + 1 ELSE 0
          /\ \A k \in 1..Len(q) - (n + 1) + 1 : w[k] = q[(n + 1) + k - 1]
      BY <2>9, <2>10, <3>1, SubSeqProperties
    <3>3. Len(w) = Len(q) - n
      BY <2>2, <2>4, <3>2
    <3>4. \A k \in 1..Len(w) : w[k] = q[n + k]
      BY <2>2, <2>4, <3>2, <3>3
    <3> QED
      BY <3>2, <3>3, <3>4
  <2>12. \A k \in 1..Len(w) : n + k \in 1..Len(q) /\ n + k \notin 1..n
    BY <2>2, <2>4, <2>11
  <2>13. QueueWhole(w, s.pending, s.recent) /\ \A k \in 1..Len(w) : w[k] \notin H
    <3>1. \A k \in 1..Len(w) : w[k] \in s.recent /\ s.pending[w[k]] = NoScrape
      BY <2>5, <2>11, <2>12 DEF QueueWhole
    <3>2. \A k, j \in 1..Len(w) : w[j] = w[k] => j = k
      <4> SUFFICES ASSUME NEW k \in 1..Len(w), NEW j \in 1..Len(w), w[j] = w[k] PROVE j = k
        OBVIOUS
      <4>1. n + j = n + k
        BY <2>7, <2>11, <2>12
      <4> QED
        BY <2>4, <4>1
    <3>3. ASSUME NEW k \in 1..Len(w), w[k] \in H PROVE FALSE
      <4>1. PICK j \in 1..n : q[j] = w[k]
        BY <2>6, <3>3
      <4>2. j \in 1..Len(q)
        BY <2>2, <2>4
      <4>3. j = n + k
        BY <2>7, <2>11, <2>12, <4>1, <4>2
      <4> QED
        BY <2>12, <4>3
    <3> QED
      BY <3>1, <3>2, <3>3 DEF QueueWhole
  <2>14. PICK a : a = s.active + n
    OBVIOUS
  <2>15. PICK b : b = (s.timer /\ n < Len(q))
    OBVIOUS
  <2>16. PICK v : v = [s EXCEPT !.queue = w, !.active = a, !.timer = b]
    OBVIOUS
  <2>17. PICK u : u = StartSites(v, H)
    OBVIOUS
  <2>18. SitesQueue(s) = u
    BY <1>2, <2>1, <2>3, <2>6, <2>9, <2>14, <2>15, <2>16, <2>17 DEF SitesQueue
  <2>19. v = [queue |-> w, active |-> a, timer |-> b, recent |-> s.recent,
              pending |-> s.pending, replies |-> s.replies]
    BY <2>2, <2>16 DEF SitesKind
  <2>20. a \in Nat /\ a <= kMaxSites /\ b \in BOOLEAN
    BY <2>2, <2>4, <2>14, <2>15
  <2>21. v \in SitesKind
    BY <2>2, <2>11, <2>19, <2>20 DEF SitesKind
  <2>22. /\ v.queue = w /\ v.active = a /\ v.timer = b /\ v.recent = s.recent
         /\ v.pending = s.pending /\ v.replies = s.replies
    BY <2>19
  <2>23. SitesCounted(u) /\ u.queue = v.queue /\ u.active = v.active /\ u.timer = v.timer
    <3>1. /\ \A i \in TrackedHash : HashWhole(v.pending, v.replies, v.recent, i)
          /\ QueueWhole(v.queue, v.pending, v.recent) /\ IsFiniteSet(Sought(v.pending))
      BY <2>13, <2>22 DEF SitesCounted
    <3>2. \A i \in H : i \in TrackedHash /\ i \in s.recent /\ s.pending[i] = NoScrape
      <4>1. \A k \in 1..n : k \in 1..Len(q)
        BY <2>2, <2>4
      <4>2. \A k \in 1..Len(q) : q[k] \in TrackedHash
        BY <2>2, ElementOfSeq
      <4> QED
        BY <2>5, <2>6, <4>1, <4>2 DEF QueueWhole
    <3>3. /\ H \in SUBSET TrackedHash
          /\ \A i \in H : i \in v.recent /\ v.pending[i] = NoScrape
          /\ \A k \in 1..Len(v.queue) : v.queue[k] \notin H
      BY <2>13, <2>22, <3>2
    <3>4. v.active = Cardinality(Sought(v.pending)) + Cardinality(H) /\ v.active <= kMaxSites
      BY <2>8, <2>14, <2>20, <2>22 DEF SitesCounted
    <3> QED
      BY <2>8, <2>17, <2>21, <3>1, <3>3, <3>4, StartSitesCounted
  <2>24. w # <<>> => n < Len(q)
    BY <2>2, <2>4, <2>11, EmptySeq
  <2>25. w # <<>> => b /\ a = kMaxSites
    <3>1. n < Len(q) => q # <<>>
      BY <2>2, <2>4, EmptySeq
    <3> QED
      BY <2>1, <2>4, <2>14, <2>15, <2>24, <3>1
  <2> QED
    BY <1>2, <2>18, <2>22, <2>23, <2>25 DEF SitesWaits
<1> QED
  BY <1>1, <1>2

\* An answer counts one down, and the last gives the slot back and starts what is queued.
LEMMA OnStrategyKeeps ==
  ASSUME SitesInv, stage = "on", stage' = stage, NEW r \in sites.replies,
         NEW info \in TrackerSiteInfo,
         sites' = CheckAllComplete(Recorded(Rest(r), r.hash, info), r.hash)
  PROVE  SitesInv'
<1>1. PICK s : s = sites
  OBVIOUS
<1>2. PICK h : h = r.hash
  OBVIOUS
<1>3. PICK p : p = s.pending
  OBVIOUS
<1>4. PICK R : R = s.replies
  OBVIOUS
<1>5. PICK rec : rec = s.recent
  OBVIOUS
<1>6. /\ SitesCounted(s) /\ SitesWaits(s) /\ s \in SitesKind
      /\ s.active \in Nat /\ s.timer \in BOOLEAN /\ s.queue \in Seq(TrackedHash)
      /\ p \in [TrackedHash -> PendingKind] /\ R \in SUBSET Reply /\ rec \in SUBSET TrackedHash
  BY <1>1, <1>3, <1>4, <1>5 DEF SitesInv, SitesCounted, SitesKind
<1>7. /\ \A i \in TrackedHash : HashWhole(p, R, rec, i)
      /\ QueueWhole(s.queue, p, rec) /\ IsFiniteSet(Sought(p))
      /\ s.active = Cardinality(Sought(p)) /\ s.active <= kMaxSites
  BY <1>3, <1>4, <1>5, <1>6 DEF SitesCounted
<1>8. r \in R /\ h \in TrackedHash /\ r \in RepliesOf(R, h)
  BY <1>1, <1>2, <1>4, <1>6 DEF Reply, RepliesOf
<1>9. PICK old : old = p[h]
  OBVIOUS
<1>10. PICK m \in Nat, res \in Seq(TrackerSiteInfo) : old = [pendingCount |-> m, results |-> res]
  BY <1>6, <1>8, <1>9 DEF PendingKind
<1>11. m > 0
  <2>1. m = Cardinality(RepliesOf(R, h))
    <3>1. HashWhole(p, R, rec, h)
      BY <1>7, <1>8
    <3>2. p[h].pendingCount = m
      BY <1>9, <1>10
    <3> QED
      BY <3>1, <3>2 DEF HashWhole
  <2>2. IsFiniteSet(RepliesOf(R, h))
    BY <1>6, <1>8, RepliesFinite
  <2> QED
    BY <1>8, <1>10, <2>1, <2>2, FS_EmptySet
<1>12. PICK e : e = Answered(old, info)
  OBVIOUS
<1>13. PICK res2 : res2 = IF info.success THEN Append(res, info) ELSE res
  OBVIOUS
<1>14. e = [pendingCount |-> m - 1, results |-> res2]
  <2>1. PICK m2 : m2 = m - 1
    OBVIOUS
  <2>2. old.pendingCount = m /\ old.results = res
    BY <1>10
  <2>3. e = [old EXCEPT !.pendingCount = m2, !.results = res2]
    BY <1>12, <1>13, <2>1, <2>2 DEF Answered
  <2>4. e = [pendingCount |-> m2, results |-> res2]
    BY <1>10, <2>3
  <2> QED
    BY <2>1, <2>4
<1>15. e \in PendingKind /\ e.pendingCount = m - 1
  <2>1. res2 \in Seq(TrackerSiteInfo)
    BY <1>10, <1>13, AppendProperties
  <2>2. m - 1 \in Nat
    BY <1>11
  <2> QED
    BY <1>14, <2>1, <2>2 DEF PendingKind
<1>16. PICK z : z = [p EXCEPT ![h] = e]
  OBVIOUS
<1>17. PICK Q : Q = R \ {r}
  OBVIOUS
<1>18. PICK a : a = Recorded(Rest(r), h, info)
  OBVIOUS
<1>19. a = [queue |-> s.queue, active |-> s.active, timer |-> s.timer, recent |-> rec,
            pending |-> z, replies |-> Q]
  <2>1. PICK b : b = [s EXCEPT !.replies = Q]
    OBVIOUS
  <2>2. b = Rest(r)
    BY <1>1, <1>4, <1>17, <2>1 DEF Rest
  <2>3. b = [queue |-> s.queue, active |-> s.active, timer |-> s.timer, recent |-> rec,
             pending |-> p, replies |-> Q]
    BY <1>3, <1>5, <1>6, <2>1 DEF SitesKind
  <2>4. b.pending = p
    BY <2>3
  <2>5. a = [b EXCEPT !.pending = z]
    BY <1>9, <1>12, <1>16, <1>18, <2>2, <2>4 DEF Recorded
  <2> QED
    BY <2>3, <2>5
<1>20. /\ a.queue = s.queue /\ a.active = s.active /\ a.timer = s.timer /\ a.recent = rec
       /\ a.pending = z /\ a.replies = Q
  BY <1>19
<1>21. z[h] = e
  BY <1>6, <1>8, <1>16
<1>22. Q \in SUBSET Reply
  BY <1>6, <1>17
<1>23. sites' = CheckAllComplete(a, h)
  BY <1>2, <1>18
<1>24. p[r.hash].pendingCount = m
  BY <1>2, <1>9, <1>10
<1>25. CASE m - 1 > 0
  <2>1. sites' = a
    BY <1>15, <1>20, <1>21, <1>23, <1>25 DEF CheckAllComplete
  <2>2. Leaves(p, R, rec, r, e, z)
    BY <1>2, <1>6, <1>7, <1>8, <1>15, <1>16, <1>24, <1>25 DEF Leaves
  <2>3. HasLeft(p, R, rec, r, e, z)
    BY <2>2, ReplyLeaves
  <2>4. e # NoScrape
    BY <1>15, <1>25, NoScrapeKind
  <2>5. /\ z \in [TrackedHash -> PendingKind] /\ h \in Sought(p)
        /\ Sought(z) = Sought(p) /\ \A i \in TrackedHash : HashWhole(z, Q, rec, i)
    BY <1>2, <1>17, <2>3, <2>4 DEF HasLeft
  <2>6. a \in SitesKind
    BY <1>6, <1>19, <1>22, <2>5 DEF SitesKind
  <2>7. QueueWhole(s.queue, z, rec)
    <3>1. \A k \in 1..Len(s.queue) : s.queue[k] \in TrackedHash
      BY <1>6, ElementOfSeq
    <3>2. p[h] # NoScrape
      BY <2>5 DEF Sought
    <3>3. \A i \in TrackedHash : i # h => z[i] = p[i]
      BY <1>6, <1>16
    <3> QED
      BY <1>7, <3>1, <3>2, <3>3 DEF QueueWhole
  <2>8. SitesCounted(a)
    BY <1>7, <1>20, <2>5, <2>6, <2>7 DEF SitesCounted
  <2>9. SitesWaits(a)
    BY <1>6, <1>20 DEF SitesWaits
  <2> QED
    BY <2>1, <2>8, <2>9 DEF SitesInv
<1>26. CASE ~(m - 1 > 0)
  <2>1. m - 1 = 0
    BY <1>11, <1>26
  <2>2. PICK y : y = [p EXCEPT ![h] = NoScrape]
    OBVIOUS
  <2>3. Leaves(p, R, rec, r, NoScrape, y)
    BY <1>2, <1>6, <1>7, <1>8, <1>24, <2>1, <2>2, NoScrapeKind DEF Leaves
  <2>4. HasLeft(p, R, rec, r, NoScrape, y)
    <3>1. PICK ns : ns = NoScrape
      OBVIOUS
    <3>2. Leaves(p, R, rec, r, ns, y)
      BY <2>3, <3>1
    <3>3. HasLeft(p, R, rec, r, ns, y)
      BY <3>2, ReplyLeaves
    <3> QED
      BY <3>1, <3>3
  <2>5. /\ y \in [TrackedHash -> PendingKind]
        /\ \A i \in TrackedHash : HashWhole(y, R \ {r}, rec, i)
        /\ Sought(y) = Sought(p) \ {h} /\ h \in Sought(p)
    BY <1>2, <2>4 DEF HasLeft
  <2>6. PICK act : act = s.active - 1
    OBVIOUS
  <2>7. /\ IsFiniteSet(Sought(y)) /\ Cardinality(Sought(y)) = s.active - 1
        /\ act \in Nat /\ s.active > 0 /\ act <= kMaxSites
    <3>1. IsFiniteSet(Sought(p) \ {h}) /\ Cardinality(Sought(p) \ {h}) = Cardinality(Sought(p)) - 1
      BY <1>7, <2>5, FS_RemoveElement
    <3>2. Cardinality(Sought(p) \ {h}) \in Nat
      BY <3>1, FS_CardinalityType
    <3> QED
      BY <1>6, <1>7, <2>5, <2>6, <3>1, <3>2, TrackerAssumption
  <2>8. PICK u : u = [a EXCEPT !.pending = y, !.active = act]
    OBVIOUS
  <2>9. sites' = SitesQueue(u)
    <3>1. ~(a.pending[h].pendingCount > 0)
      BY <1>15, <1>20, <1>21, <1>26
    <3>2. [z EXCEPT ![h] = NoScrape] = y
      BY <1>6, <1>8, <1>16, <2>2
    <3>3. (IF a.active > 0 THEN a.active - 1 ELSE a.active) = act
      BY <1>20, <2>6, <2>7
    <3>4. u = [a EXCEPT !.pending[h] = NoScrape, !.active = IF @ > 0 THEN @ - 1 ELSE @]
      BY <1>20, <2>8, <3>2, <3>3
    <3> QED
      BY <1>23, <3>1, <3>4 DEF CheckAllComplete
  <2>10. u = [queue |-> s.queue, active |-> act, timer |-> s.timer, recent |-> rec,
              pending |-> y, replies |-> Q]
    BY <1>19, <2>8
  <2>11. /\ u.queue = s.queue /\ u.active = act /\ u.timer = s.timer /\ u.recent = rec
         /\ u.pending = y /\ u.replies = Q
    BY <2>10
  <2>12. u \in SitesKind
    BY <1>6, <1>22, <2>5, <2>7, <2>10 DEF SitesKind
  <2>13. QueueWhole(s.queue, y, rec)
    <3>1. \A k \in 1..Len(s.queue) : s.queue[k] \in TrackedHash
      BY <1>6, ElementOfSeq
    <3>2. \A i \in TrackedHash : i # h => y[i] = p[i]
      BY <1>6, <2>2
    <3>3. p[h] # NoScrape
      BY <2>5 DEF Sought
    <3> QED
      BY <1>7, <3>1, <3>2, <3>3 DEF QueueWhole
  <2>14. \A i \in TrackedHash : HashWhole(y, Q, rec, i)
    BY <1>17, <2>5
  <2>15. SitesCounted(u)
    BY <2>6, <2>7, <2>11, <2>12, <2>13, <2>14 DEF SitesCounted
  <2>16. u.queue # <<>> => u.timer
    BY <1>6, <2>11 DEF SitesWaits
  <2>17. PICK v : v = SitesQueue(u)
    OBVIOUS
  <2>18. SitesCounted(v) /\ SitesWaits(v)
    BY <2>15, <2>16, <2>17, SitesQueueCounted
  <2>19. v = sites'
    BY <2>9, <2>17
  <2> QED
    BY <2>18, <2>19 DEF SitesInv
<1> QED
  BY <1>25, <1>26

\* A search that leads to a page waits for the page instead.
LEMMA SearchLeads ==
  ASSUME SitesInv, stage = "on", stage' = stage, NEW r \in sites.replies, r.kind = "nyaa",
         sites' = [Rest(r) EXCEPT !.replies = @ \cup {[hash |-> r.hash, kind |-> "view"]}]
  PROVE  SitesInv'
<1>1. PICK s : s = sites
  OBVIOUS
<1>2. PICK h : h = r.hash
  OBVIOUS
<1>3. PICK p : p = s.pending
  OBVIOUS
<1>4. PICK R : R = s.replies
  OBVIOUS
<1>5. PICK rec : rec = s.recent
  OBVIOUS
<1>6. /\ SitesCounted(s) /\ SitesWaits(s) /\ s \in SitesKind
      /\ p \in [TrackedHash -> PendingKind] /\ R \in SUBSET Reply /\ rec \in SUBSET TrackedHash
      /\ s.active \in Nat /\ s.timer \in BOOLEAN /\ s.queue \in Seq(TrackedHash)
  BY <1>1, <1>3, <1>4, <1>5 DEF SitesInv, SitesCounted, SitesKind
<1>7. \A i \in TrackedHash : HashWhole(p, R, rec, i)
  BY <1>3, <1>4, <1>5, <1>6 DEF SitesCounted
<1>8. r \in R /\ h \in TrackedHash /\ r = ReplyFor(h, "nyaa") /\ r \in RepliesOf(R, h)
  BY <1>1, <1>2, <1>4, <1>6 DEF Reply, RepliesOf, ReplyFor
<1>9. PICK v : v = ReplyFor(h, "view")
  OBVIOUS
<1>10. v \notin R /\ v \in Reply /\ v.hash = h /\ v # r /\ v.kind = "view"
  BY <1>7, <1>8, <1>9 DEF HashWhole, Reply, ReplyFor
<1>11. PICK Q : Q = (R \ {r}) \cup {v}
  OBVIOUS
<1>12. PICK u : u = [s EXCEPT !.replies = Q]
  OBVIOUS
<1>13. u = sites'
  BY <1>1, <1>2, <1>4, <1>9, <1>11, <1>12 DEF Rest, ReplyFor
<1>14. u = [queue |-> s.queue, active |-> s.active, timer |-> s.timer, recent |-> rec,
            pending |-> p, replies |-> Q]
  BY <1>3, <1>5, <1>6, <1>12 DEF SitesKind
<1>15. Q \in SUBSET Reply
  BY <1>6, <1>10, <1>11
<1>16. /\ u.queue = s.queue /\ u.active = s.active /\ u.timer = s.timer /\ u.recent = rec
       /\ u.pending = p /\ u.replies = Q
  BY <1>14
<1>17. u \in SitesKind
  BY <1>6, <1>14, <1>15 DEF SitesKind
<1>18. HashWhole(p, Q, rec, h)
  <2>1. PICK mine : mine = RepliesOf(R, h)
    OBVIOUS
  <2>2. RepliesOf(Q, h) = (mine \ {r}) \cup {v} /\ r \in mine /\ v \notin mine
    BY <1>8, <1>10, <1>11, <2>1 DEF RepliesOf
  <2>3. IsFiniteSet(mine)
    BY <1>6, <1>8, <2>1, RepliesFinite
  <2>4. IsFiniteSet(mine \ {r}) /\ Cardinality(mine \ {r}) = Cardinality(mine) - 1
    BY <2>2, <2>3, FS_RemoveElement
  <2>5. Cardinality((mine \ {r}) \cup {v}) = Cardinality(mine \ {r}) + 1
    BY <2>2, <2>4, FS_AddElement
  <2>6. Cardinality(mine) \in Nat
    BY <2>3, FS_CardinalityType
  <2>7. Cardinality(RepliesOf(Q, h)) = Cardinality(RepliesOf(R, h))
    BY <2>1, <2>2, <2>4, <2>5, <2>6
  <2>8. ReplyFor(h, "nyaa") \notin Q
    BY <1>8, <1>10, <1>11
  <2>9. HashWhole(p, R, rec, h)
    BY <1>7, <1>8
  <2> QED
    BY <2>7, <2>8, <2>9 DEF HashWhole
<1>19. ASSUME NEW i \in TrackedHash, i # h PROVE HashWhole(p, Q, rec, i)
  <2>1. RepliesOf(Q, i) = RepliesOf(R, i)
    BY <1>8, <1>10, <1>11, <1>19 DEF RepliesOf
  <2>2. \A k : ReplyFor(i, k) \in Q => ReplyFor(i, k) \in R
    BY <1>10, <1>11, <1>19 DEF ReplyFor
  <2>3. HashWhole(p, R, rec, i)
    BY <1>7
  <2> QED
    BY <2>1, <2>2, <2>3 DEF HashWhole
<1>20. SitesCounted(u)
  BY <1>3, <1>5, <1>6, <1>16, <1>17, <1>18, <1>19 DEF SitesCounted
<1>21. SitesWaits(u)
  BY <1>6, <1>16 DEF SitesWaits
<1> QED
  BY <1>13, <1>20, <1>21 DEF SitesInv

LEMMA ScrapeSitesKeeps ==
  ASSUME SitesInv, stage' = stage, NEW h \in TrackedHash, sites' = ScrapeSites(sites, h)
  PROVE  SitesInv'
<1>1. PICK v : v = ScrapeSites(sites, h)
  OBVIOUS
<1>2. SitesCounted(v) /\ SitesWaits(v)
  BY <1>1, ScrapeSitesCounted DEF SitesInv
<1>3. stage # "on" => v = sites
  BY <1>1 DEF ScrapeSites
<1>4. v = sites'
  BY <1>1
<1> QED
  BY <1>2, <1>3, <1>4 DEF SitesInv

LEMMA SitesTimerKeeps ==
  ASSUME SitesInv, SitesTimer
  PROVE  SitesInv'
<1>1. PICK v : v = SitesQueue(sites)
  OBVIOUS
<1>2. SitesCounted(v) /\ (stage = "on" => SitesWaits(v)) /\ (stage # "on" => v = sites)
  BY <1>1, SitesQueueCounted DEF SitesInv, SitesTimer
<1>3. v = sites' /\ stage' = stage
  BY <1>1 DEF SitesTimer
<1> QED
  BY <1>2, <1>3 DEF SitesInv

LEMMA CooledSitesKeeps ==
  ASSUME SitesInv, NEW h \in TrackedHash, CooledDown(h)
  PROVE  SitesInv'
<1>1. PICK s : s = sites
  OBVIOUS
<1>2. PICK rec : rec = s.recent \ {h}
  OBVIOUS
<1>3. PICK u : u = [s EXCEPT !.recent = rec]
  OBVIOUS
<1>4. SitesCounted(s) /\ SitesWaits(s) /\ s \in SitesKind /\ s.queue \in Seq(TrackedHash)
  BY <1>1 DEF SitesInv, SitesCounted, SitesKind
<1>5. u = sites' /\ stage' = stage /\ s.pending[h] = NoScrape
  BY <1>1, <1>2, <1>3 DEF CooledDown
<1>6. \A k \in 1..Len(s.queue) : s.queue[k] # h
  BY <1>1, <1>4 DEF CooledDown
<1>7. u \in SitesKind
  BY <1>2, <1>3, <1>4 DEF SitesKind
<1>8. /\ u.queue = s.queue /\ u.active = s.active /\ u.timer = s.timer /\ u.recent = rec
      /\ u.pending = s.pending /\ u.replies = s.replies
  BY <1>3, <1>4 DEF SitesKind
<1>9. \A i \in TrackedHash : HashWhole(s.pending, s.replies, rec, i)
  BY <1>2, <1>4, <1>5 DEF SitesCounted, HashWhole
<1>10. QueueWhole(s.queue, s.pending, rec)
  BY <1>2, <1>4, <1>6 DEF SitesCounted, QueueWhole
<1>11. SitesCounted(u)
  BY <1>4, <1>7, <1>8, <1>9, <1>10 DEF SitesCounted
<1>12. SitesWaits(u)
  BY <1>4, <1>8 DEF SitesWaits
<1>13. stage = "off" => u.replies = {} /\ u.queue = <<>> /\ ~u.timer
  BY <1>1, <1>8 DEF SitesInv
<1> QED
  BY <1>5, <1>11, <1>12, <1>13 DEF SitesInv

LEMMA StopSitesKeeps ==
  ASSUME SitesInv, StopSites
  PROVE  SitesInv'
<1>1. PICK s : s = sites
  OBVIOUS
<1>2. PICK z : z = [h \in TrackedHash |-> NoScrape]
  OBVIOUS
<1>3. PICK u : u = [s EXCEPT !.queue = <<>>, !.timer = FALSE, !.replies = {}, !.active = 0,
                             !.pending = z]
  OBVIOUS
<1>4. u = sites'
  BY <1>1, <1>2, <1>3 DEF StopSites
<1>5. s \in SitesKind /\ s.recent \in SUBSET TrackedHash
  BY <1>1 DEF SitesInv, SitesCounted, SitesKind
<1>6. u = [queue |-> <<>>, active |-> 0, timer |-> FALSE, recent |-> s.recent, pending |-> z,
           replies |-> {}]
  BY <1>3, <1>5 DEF SitesKind
<1>7. z \in [TrackedHash -> PendingKind] /\ \A h \in TrackedHash : z[h] = NoScrape
  BY <1>2, NoScrapeKind
<1>8. u \in SitesKind
  <2>1. <<>> \in Seq(TrackedHash)
    OBVIOUS
  <2> QED
    BY <1>5, <1>6, <1>7, <2>1 DEF SitesKind
<1>9. /\ u.queue = <<>> /\ u.active = 0 /\ u.replies = {} /\ u.pending = z /\ ~u.timer
  BY <1>6
<1>10. Sought(z) = {} /\ \A h : RepliesOf({}, h) = {}
  BY <1>7 DEF Sought, RepliesOf
<1>11. \A h \in TrackedHash : HashWhole(z, {}, u.recent, h)
  BY <1>7, <1>10, NoScrapeKind, FS_EmptySet DEF HashWhole
<1>12. QueueWhole(<<>>, z, u.recent)
  BY DEF QueueWhole
<1>13. SitesCounted(u)
  BY <1>8, <1>9, <1>10, <1>11, <1>12, FS_EmptySet, TrackerAssumption DEF SitesCounted
<1> QED
  BY <1>4, <1>9, <1>13 DEF SitesInv, SitesWaits

-----------------------------------------------------------------------------
(* The tracker service.                                                     *)

TrackerInv == stage \in {"on", "draining", "off"} /\ SwarmInv /\ SitesInv

\* What a parser makes of a page is an answer of its tracker.
LEMMA InfoTyped ==
  ASSUME NEW name \in Site, NEW page \in [title : BOOLEAN, poster : BOOLEAN, thread : BOOLEAN],
         NEW link \in BOOLEAN
  PROVE  Info(name, page, link) \in TrackerSiteInfo
<1>1. PICK a : a = page.title
  OBVIOUS
<1>2. PICK b : b = (page.title /\ page.poster /\ name = "rutracker")
  OBVIOUS
<1>3. PICK c : c = (page.title /\ link)
  OBVIOUS
<1>4. page.title \in BOOLEAN
  OBVIOUS
<1>5. a \in BOOLEAN
  BY <1>1, <1>4, Zenon
<1>6. b \in BOOLEAN
  BY <1>2, Zenon
<1>7. c \in BOOLEAN
  BY <1>3, Zenon
<1>8. Info(name, page, link) = [trackerName |-> name, success |-> a, poster |-> b, threadId |-> c]
  BY <1>1, <1>2, <1>3, Zenon DEF Info
<1> QED
  BY <1>5, <1>6, <1>7, <1>8 DEF TrackerSiteInfo

LEMMA ReplyEndsKeeps ==
  ASSUME TrackerInv, NEW r \in sites.replies, ReplyEnds(r)
  PROVE  SitesInv' /\ stage' = stage /\ swarm' = swarm
<1>1. Handles /\ UNCHANGED <<enabled, stage, swarm, checks, toggles>>
  BY DEF ReplyEnds, Failed, RutrackerAnswers, ViewPageAnswers, NyaaAnswers, Finished
<1>2. stage = "on"
  BY <1>1 DEF TrackerInv, SitesInv, Handles
<1>3. "rutracker" \in Site /\ "nyaa" \in Site
  BY DEF Site
<1>4. ASSUME NEW info \in TrackerSiteInfo, OnStrategyComplete(Rest(r), r.hash, info)
      PROVE  SitesInv'
  <2>1. sites' = CheckAllComplete(Recorded(Rest(r), r.hash, info), r.hash)
    BY <1>4 DEF OnStrategyComplete
  <2> QED
    BY <1>1, <1>2, <2>1, OnStrategyKeeps DEF TrackerInv
<1>5. ASSUME Failed(r) PROVE SitesInv'
  <2>1. [title |-> FALSE, poster |-> FALSE, thread |-> FALSE]
          \in [title : BOOLEAN, poster : BOOLEAN, thread : BOOLEAN]
    OBVIOUS
  <2>2. \A name \in Site : NotFound(name) \in TrackerSiteInfo
    BY <2>1, InfoTyped DEF NotFound
  <2>3. (IF r.kind = "rutracker" THEN r.kind ELSE "nyaa") \in Site
    BY <1>3
  <2>4. PICK info : info = NotFound(IF r.kind = "rutracker" THEN r.kind ELSE "nyaa")
    OBVIOUS
  <2>5. info \in TrackerSiteInfo
    BY <2>2, <2>3, <2>4
  <2>6. OnStrategyComplete(Rest(r), r.hash, info)
    BY <1>5, <2>4 DEF Failed
  <2> QED
    BY <1>4, <2>5, <2>6
<1>6. ASSUME NEW page \in Page, RutrackerAnswers(r, page) PROVE SitesInv'
  <2>1. page \in [title : BOOLEAN, poster : BOOLEAN, thread : BOOLEAN] /\ page.thread \in BOOLEAN
    BY TrackerAssumption
  <2>2. ParseRutrackerHtml(page) \in TrackerSiteInfo
    BY <1>3, <2>1, InfoTyped DEF ParseRutrackerHtml
  <2> QED
    BY <1>4, <1>6, <2>2 DEF RutrackerAnswers
<1>7. ASSUME NEW page \in Page, ViewPageAnswers(r, page) PROVE SitesInv'
  <2>1. page \in [title : BOOLEAN, poster : BOOLEAN, thread : BOOLEAN] /\ page.thread \in BOOLEAN
    BY TrackerAssumption
  <2>2. ParseNyaaViewHtml(page) \in TrackerSiteInfo
    BY <1>3, <2>1, InfoTyped DEF ParseNyaaViewHtml
  <2> QED
    BY <1>4, <1>7, <2>2 DEF ViewPageAnswers
<1>8. ASSUME NEW page \in Page, NEW redirected \in BOOLEAN, NyaaAnswers(r, page, redirected)
      PROVE  SitesInv'
  <2>1. page \in [title : BOOLEAN, poster : BOOLEAN, thread : BOOLEAN] /\ page.thread \in BOOLEAN
    BY TrackerAssumption
  <2>2. ParseNyaaViewHtml(page) \in TrackerSiteInfo /\ ParseNyaaSearchHtml(page) \in TrackerSiteInfo
    BY <1>3, <2>1, InfoTyped DEF ParseNyaaViewHtml, ParseNyaaSearchHtml
  <2>3. CASE sites' = [Rest(r) EXCEPT !.replies = @ \cup {[hash |-> r.hash, kind |-> "view"]}]
    BY <1>1, <1>2, <1>8, <2>3, SearchLeads DEF NyaaAnswers, TrackerInv
  <2>4. CASE OnStrategyComplete(Rest(r), r.hash,
                IF redirected THEN ParseNyaaViewHtml(page) ELSE ParseNyaaSearchHtml(page))
    BY <1>4, <2>2, <2>4
  <2> QED
    BY <1>8, <2>3, <2>4 DEF NyaaAnswers
<1>9. SitesInv'
  BY <1>5, <1>6, <1>7, <1>8, Zenon DEF ReplyEnds
<1>10. stage' = stage /\ swarm' = swarm
  BY <1>1
<1> QED
  BY <1>9, <1>10

LEMMA TrackerInvInit ==
  ASSUME TrackerInit
  PROVE  TrackerInv
<1>1. PICK s : s = swarm
  OBVIOUS
<1>2. s = [queue |-> <<>>, active |-> 0, timer |-> FALSE, recent |-> {}, scrapes |-> <<>>,
           posted |-> <<>>]
  BY <1>1 DEF TrackerInit
<1>3. <<>> \in Seq(TrackedHash) /\ <<>> \in Seq(ScrapeKind) /\ <<>> \in Seq(PostedKind)
  OBVIOUS
<1>4. s \in SwarmKind
  BY <1>2, <1>3 DEF SwarmKind
<1>5. Going(<<>>) = {} /\ PostedOnce(<<>>, <<>>)
  BY DEF Going, PostedOnce
<1>6. s.queue = <<>> /\ s.active = 0 /\ s.scrapes = <<>> /\ s.posted = <<>>
  BY <1>2
<1>7. SwarmCounted(s)
  <2>1. Cardinality({}) = 0 /\ Len(<<>>) = 0
    BY FS_EmptySet
  <2>2. s.active = Len(s.posted) + Cardinality(Going(s.scrapes))
    <3>1. Going(s.scrapes) = {}
      BY <1>5, <1>6
    <3>2. Len(s.posted) = 0
      BY <1>6, <2>1
    <3>3. Cardinality(Going(s.scrapes)) = 0
      BY <2>1, <3>1
    <3> QED
      BY <1>6, <3>2, <3>3
  <2>3. s.active <= kMaxSwarms
    BY <1>6, TrackerAssumption
  <2>4. \A k \in 1..Len(s.scrapes) : ScrapeWhole(s.scrapes[k])
    BY <1>6
  <2>5. PostedOnce(s.scrapes, s.posted)
    BY <1>5, <1>6
  <2> QED
    BY <1>4, <2>2, <2>3, <2>4, <2>5 DEF SwarmCounted
<1>8. stage = "on"
  BY DEF TrackerInit
<1>9. SwarmInv
  BY <1>1, <1>6, <1>7, <1>8 DEF SwarmInv, SwarmWaits, SwarmStopped
<1>10. PICK p : p = [h \in TrackedHash |-> NoScrape]
  OBVIOUS
<1>11. PICK w : w = sites
  OBVIOUS
<1>12. w = [queue |-> <<>>, active |-> 0, timer |-> FALSE, recent |-> {}, pending |-> p,
            replies |-> {}]
  BY <1>10, <1>11 DEF TrackerInit
<1>13. p \in [TrackedHash -> PendingKind] /\ \A h \in TrackedHash : p[h] = NoScrape
  BY <1>10, NoScrapeKind
<1>14. w \in SitesKind
  BY <1>3, <1>12, <1>13 DEF SitesKind
<1>15. w.queue = <<>> /\ w.active = 0 /\ w.recent = {} /\ w.pending = p /\ w.replies = {}
  BY <1>12
<1>16. Sought(p) = {} /\ \A h : RepliesOf({}, h) = {}
  BY <1>13 DEF Sought, RepliesOf
<1>17. \A h \in TrackedHash : HashWhole(p, {}, {}, h)
  BY <1>13, <1>16, NoScrapeKind, FS_EmptySet DEF HashWhole
<1>18. QueueWhole(<<>>, p, {})
  BY DEF QueueWhole
<1>19. SitesCounted(w)
  BY <1>14, <1>15, <1>16, <1>17, <1>18, FS_EmptySet, TrackerAssumption DEF SitesCounted
<1> QED
  BY <1>8, <1>9, <1>11, <1>15, <1>19 DEF TrackerInv, SitesInv, SitesWaits

LEMMA TrackerInvStep ==
  ASSUME TrackerInv, [TrackerNext]_trackerVars
  PROVE  TrackerInv'
<1>1. CASE UNCHANGED trackerVars
  BY <1>1 DEF trackerVars, TrackerInv, SwarmInv, SitesInv, SwarmStopped
<1>2. ASSUME NEW k \in DOMAIN swarm.scrapes, NEW t \in Tracker, PoolStep(k, t) PROVE TrackerInv'
  <2>1. SwarmInv'
    BY <1>2, PoolStepKeeps DEF TrackerInv
  <2>2. stage' = stage /\ sites' = sites
    BY <1>2 DEF PoolStep, PoolTakes, TaskLeaves, AnnounceOne
  <2> QED
    BY <2>1, <2>2 DEF TrackerInv, SitesInv
<1>3. ASSUME NEW r \in sites.replies, ReplyEnds(r) PROVE TrackerInv'
  <2>1. SitesInv' /\ stage' = stage /\ swarm' = swarm
    BY <1>3, ReplyEndsKeeps
  <2> QED
    BY <2>1 DEF TrackerInv, SwarmInv, SwarmStopped
<1>4. ASSUME NEW h \in TrackedHash, OnTorrentIndexed(h) PROVE TrackerInv'
  <2>1. stage' = stage
    BY <1>4 DEF OnTorrentIndexed
  <2>2. SwarmInv'
    <3>1. CASE swarm' = swarm
      BY <2>1, <3>1 DEF TrackerInv, SwarmInv, SwarmStopped
    <3>2. CASE swarm' = RequestScrape(swarm, h)
      BY <2>1, <3>2, RequestKeeps DEF TrackerInv
    <3> QED
      BY <1>4, <3>1, <3>2 DEF OnTorrentIndexed
  <2>3. SitesInv'
    <3>1. CASE sites' = sites
      BY <2>1, <3>1 DEF TrackerInv, SitesInv
    <3>2. CASE sites' = ScrapeSites(sites, h)
      BY <2>1, <3>2, ScrapeSitesKeeps DEF TrackerInv
    <3> QED
      BY <1>4, <3>1, <3>2 DEF OnTorrentIndexed
  <2> QED
    BY <2>1, <2>2, <2>3 DEF TrackerInv
<1>5. ASSUME NEW h \in TrackedHash, CooledDown(h) PROVE TrackerInv'
  <2>1. stage' = stage /\ swarm' = [swarm EXCEPT !.recent = @ \ {h}]
    BY <1>5 DEF CooledDown
  <2>2. SwarmInv'
    BY <2>1, CooledKeeps DEF TrackerInv
  <2>3. SitesInv'
    BY <1>5, CooledSitesKeeps DEF TrackerInv
  <2> QED
    BY <2>1, <2>2, <2>3 DEF TrackerInv
<1>6. ASSUME NEW on \in BOOLEAN, SetScrapingEnabled(on) PROVE TrackerInv'
  BY <1>6 DEF SetScrapingEnabled, TrackerInv, SwarmInv, SitesInv, SwarmStopped
<1>7. CASE SwarmReported
  <2>1. SwarmInv' /\ stage' = stage /\ sites' = sites
    BY <1>7, SwarmReportedKeeps DEF TrackerInv, SwarmReported
  <2> QED
    BY <2>1 DEF TrackerInv, SitesInv
<1>8. CASE SwarmTimer
  <2>1. SwarmInv' /\ stage' = stage /\ sites' = sites
    BY <1>8, SwarmTimerKeeps DEF TrackerInv, SwarmTimer
  <2> QED
    BY <2>1 DEF TrackerInv, SitesInv
<1>9. CASE SitesTimer
  <2>1. SitesInv' /\ stage' = stage /\ swarm' = swarm
    BY <1>9, SitesTimerKeeps DEF TrackerInv, SitesTimer
  <2> QED
    BY <2>1 DEF TrackerInv, SwarmInv, SwarmStopped
<1>10. CASE StopSwarm
  <2>1. SwarmInv' /\ stage' = "draining" /\ sites' = sites
    BY <1>10, StopSwarmKeeps DEF TrackerInv, StopSwarm
  <2> QED
    BY <2>1 DEF TrackerInv, SitesInv
<1>11. CASE StopSites
  <2>1. SwarmInv' /\ SitesInv' /\ stage' = "off"
    BY <1>11, SwarmSettles, StopSitesKeeps DEF TrackerInv, StopSites
  <2> QED
    BY <2>1 DEF TrackerInv
<1> QED
  BY <1>1, <1>2, <1>3, <1>4, <1>5, <1>6, <1>7, <1>8, <1>9, <1>10, <1>11 DEF TrackerNext

LEMMA TrackerInvImplies ==
  ASSUME TrackerInv
  PROVE  TrackerTypeOK /\ ScrapesAccounted
<1>1. /\ SwarmCounted(swarm) /\ SwarmWaits(swarm) /\ SwarmStopped(swarm)
      /\ SitesCounted(sites) /\ SitesWaits(sites) /\ stage \in {"on", "draining", "off"}
  BY DEF TrackerInv, SwarmInv, SitesInv
<1>2. /\ swarm \in SwarmKind /\ swarm.scrapes \in Seq(ScrapeKind)
      /\ swarm.posted \in Seq(PostedKind) /\ swarm.active \in Nat
      /\ DOMAIN swarm.scrapes = 1..Len(swarm.scrapes)
      /\ DOMAIN swarm.posted = 1..Len(swarm.posted)
  BY <1>1 DEF SwarmCounted, SwarmKind
<1>3. /\ sites \in SitesKind /\ sites.replies \subseteq Reply /\ sites.active \in Nat
      /\ sites.pending \in [TrackedHash -> PendingKind]
  BY <1>1 DEF SitesCounted, SitesKind
<1>4. ASSUME NEW k \in 1..Len(swarm.scrapes)
      PROVE  /\ \A t \in Tracker : swarm.scrapes[k].tasks[t] \in Announce
             /\ swarm.scrapes[k].remaining = 0 =>
                   \A t \in Tracker : swarm.scrapes[k].tasks[t] = "left"
  <2>1. PICK c : c = swarm.scrapes[k]
    OBVIOUS
  <2>2. ScrapeWhole(c) /\ c \in ScrapeKind
    BY <1>1, <2>1 DEF SwarmCounted, ScrapeWhole
  <2>3. c.tasks \in [Tracker -> Announce]
    BY <2>2 DEF ScrapeKind
  <2>4. NotLeft(c) \subseteq Tracker
    BY DEF NotLeft
  <2>5. IsFiniteSet(NotLeft(c))
    BY <2>4, TrackerAssumption, FS_Subset
  <2>6. c.remaining = 0 => NotLeft(c) = {}
    BY <2>2, <2>5, FS_EmptySet DEF ScrapeWhole
  <2> QED
    BY <2>1, <2>3, <2>6 DEF NotLeft
<1>5. TrackerTypeOK
  <2>1. swarm.active \in 0..kMaxSwarms /\ sites.active \in 0..kMaxSites
    BY <1>1, <1>2, <1>3, TrackerAssumption DEF SwarmCounted, SitesCounted
  <2>2. ASSUME NEW h \in TrackedHash, NEW k \in DOMAIN sites.pending[h].results
        PROVE  sites.pending[h].results[k] \in TrackerSiteInfo
    <3>1. PICK z : z = sites.pending[h].results
      OBVIOUS
    <3>2. z \in Seq(TrackerSiteInfo)
      BY <1>3, <3>1 DEF PendingKind
    <3>3. k \in 1..Len(z)
      BY <2>2, <3>1, <3>2
    <3> QED
      BY <3>1, <3>2, <3>3, ElementOfSeq
  <2> QED
    BY <1>1, <1>2, <1>3, <1>4, <2>1, <2>2 DEF TrackerTypeOK
<1>6. PostedIsBest
  <2>1. PostedOnce(swarm.scrapes, swarm.posted)
    BY <1>1 DEF SwarmCounted
  <2> QED
    BY <1>2, <1>4, <2>1 DEF PostedIsBest, PostedOnce
<1>7. SlotsHeld
  <2>1. UnderWay = Going(swarm.scrapes)
    BY <1>2 DEF UnderWay, Going
  <2>2. swarm.active = Len(swarm.posted) + Cardinality(UnderWay)
    BY <1>1, <2>1 DEF SwarmCounted
  <2>3. sites.active = Cardinality({h \in TrackedHash : sites.pending[h] # NoScrape})
    BY <1>1 DEF SitesCounted, Sought
  <2>4. \A h \in TrackedHash :
           sites.pending[h].pendingCount = Cardinality({r \in sites.replies : r.hash = h})
    BY <1>1 DEF SitesCounted, HashWhole, RepliesOf
  <2> QED
    BY <1>1, <2>2, <2>3, <2>4 DEF SlotsHeld, SwarmWaits, SitesWaits
<1>8. OnlyReportsAfterStop
  <2> SUFFICES ASSUME stage = "off"
               PROVE  /\ sites.replies = {} /\ sites.queue = <<>> /\ swarm.queue = <<>>
                      /\ ~sites.timer /\ ~swarm.timer
                      /\ \A k \in DOMAIN swarm.scrapes : \A t \in Tracker :
                            swarm.scrapes[k].tasks[t] \in {"left", "dropped"}
    BY DEF OnlyReportsAfterStop
  <2>1. /\ sites.replies = {} /\ sites.queue = <<>> /\ swarm.queue = <<>>
        /\ ~sites.timer /\ ~swarm.timer
    BY <1>1 DEF TrackerInv, SitesInv, SwarmStopped
  <2>2. \A k \in 1..Len(swarm.scrapes) : \A t \in Tracker :
           /\ swarm.scrapes[k].tasks[t] # "queued"
           /\ swarm.scrapes[k].tasks[t] \notin {"announcing", "merged"}
    BY <1>1 DEF SwarmStopped
  <2>3. \A k \in 1..Len(swarm.scrapes) : \A t \in Tracker :
           swarm.scrapes[k].tasks[t] \in {"left", "dropped"}
    BY <1>4, <2>2 DEF Announce
  <2> QED
    BY <1>2, <2>1, <2>3
<1> QED
  BY <1>5, <1>6, <1>7, <1>8 DEF ScrapesAccounted

(* TrackerService: over any order of announces, pages, timers, failures and *)
(* a stop the slots, queues and pending counts agree, a swarm result is the *)
(* best of its trackers and is posted once, and all a stopped service may   *)
(* still do is hand over reports that were complete before the stop.        *)
THEOREM ScrapesAccountedHolds == TrackerSpec => []ScrapesAccounted
<1>1. TrackerInit => TrackerInv
  BY TrackerInvInit
<1>2. TrackerInv /\ [TrackerNext]_trackerVars => TrackerInv'
  BY TrackerInvStep
<1>3. TrackerInv => ScrapesAccounted
  BY TrackerInvImplies
<1> QED
  BY <1>1, <1>2, <1>3, PTL DEF TrackerSpec

(* TrackerService: its types, the slots of either scraper within their      *)
(* limit among them.                                                        *)
THEOREM TrackerTypeOKHolds == TrackerSpec => []TrackerTypeOK
<1>1. TrackerInit => TrackerInv
  BY TrackerInvInit
<1>2. TrackerInv /\ [TrackerNext]_trackerVars => TrackerInv'
  BY TrackerInvStep
<1>3. TrackerInv => TrackerTypeOK
  BY TrackerInvImplies
<1> QED
  BY <1>1, <1>2, <1>3, PTL DEF TrackerSpec

-----------------------------------------------------------------------------
(* The API.  The invariant adds who can hold `respond` together: a reply    *)
(* and the timer that races it, or one of the others alone.                 *)

ConnState == {"none", "open", "reading", "asked", "gone"}
Owing == {{}, {"reply", "timer"}, {"fetch"}, {"posted"}, {"signals"}}

RestKinds ==
    /\ server \in [running : BOOLEAN, http : BOOLEAN, ws : BOOLEAN]
    /\ conns \in [Conn -> ConnState]
    /\ indexed \in [ApiHash -> {"absent", "bare", "full"}]
    /\ calls \in Seq(Call)

OwingOnce == \A k \in DOMAIN calls :
    calls[k].owes \in Owing /\ calls[k].answers = IF calls[k].owes = {} THEN 1 ELSE 0

AskedWaits == \A c \in Http : conns[c] = "asked" =>
    \E k \in DOMAIN calls : calls[k].conn = c /\ calls[k].answers = 0

RestInv == RestKinds /\ OwingOnce /\ AskedWaits

\* A function over 1..n is a sequence.
LEMMA SeqIs ==
  ASSUME NEW S, NEW n \in Nat, NEW f, f = [k \in 1..n |-> f[k]], \A k \in 1..n : f[k] \in S
  PROVE  f \in Seq(S)
<1>1. f \in [1..n -> S]
  OBVIOUS
<1> QED
  BY <1>1 DEF Seq

LEMMA RestGives == RestInv => RestTypeOK /\ RespondOnce
<1> SUFFICES ASSUME RestInv PROVE RestTypeOK /\ RespondOnce
  OBVIOUS
<1>1. \A k \in DOMAIN calls : calls[k] \in Call
  BY ElementOfSeq, LenProperties DEF RestInv, RestKinds
<1> QED
  BY <1>1 DEF RestInv, RestKinds, OwingOnce, AskedWaits, RestTypeOK, RespondOnce, ConnState

LEMMA CallsAre ==
  ASSUME calls \in Seq(Call)
  PROVE  /\ Len(calls) \in Nat /\ DOMAIN calls = 1..Len(calls)
         /\ \A k \in DOMAIN calls : calls[k] \in Call
BY ElementOfSeq, LenProperties

LEMMA RestStarts == RestInit => RestInv
<1> SUFFICES ASSUME RestInit PROVE RestInv
  OBVIOUS
<1>1. calls = <<>> /\ DOMAIN calls = {} /\ calls \in Seq(Call)
  BY DEF RestInit
<1>2. RestKinds
  BY <1>1 DEF RestInit, RestKinds, ConnState
<1>3. AskedWaits
  BY RestAssumption DEF RestInit, AskedWaits
<1> QED
  BY <1>1, <1>2, <1>3 DEF RestInv, OwingOnce

\* A step that makes no connection wait.
LEMMA NoneAskedKeeps ==
  ASSUME RestInv, UNCHANGED <<calls, indexed>>,
         server' \in [running : BOOLEAN, http : BOOLEAN, ws : BOOLEAN],
         conns' \in [Conn -> ConnState],
         \A c \in Conn : conns'[c] = "asked" => conns[c] = "asked"
  PROVE  RestInv'
<1>1. AskedWaits'
  BY RestAssumption DEF RestInv, AskedWaits
<1> QED
  BY <1>1 DEF RestInv, RestKinds, OwingOnce

LEMMA ServerKeeps ==
  ASSUME RestInv,
         \/ \E http, ws \in BOOLEAN : StartServer(http, ws)
         \/ StopServer
         \/ \E c \in Conn : Connects(c) \/ Disconnected(c) \/ HeaderArrives(c)
  PROVE  RestInv'
<1>1. /\ conns \in [Conn -> ConnState]
      /\ server \in [running : BOOLEAN, http : BOOLEAN, ws : BOOLEAN]
  BY DEF RestInv, RestKinds
<1>2. \A S : /\ ConnsClosed(S) \in [Conn -> ConnState]
             /\ \A c \in Conn : ConnsClosed(S)[c] = "asked" => conns[c] = "asked"
  BY <1>1 DEF ConnsClosed, ConnState
<1>3. CASE \E http, ws \in BOOLEAN : StartServer(http, ws)
  <2>1. PICK http \in BOOLEAN, ws \in BOOLEAN : StartServer(http, ws)
    BY <1>3
  <2>2. server' \in [running : BOOLEAN, http : BOOLEAN, ws : BOOLEAN]
    <3>1. (http /\ ws) \in BOOLEAN
      OBVIOUS
    <3> QED
      BY <2>1, <3>1 DEF StartServer
  <2> QED
    BY <1>2, <2>1, <2>2, NoneAskedKeeps DEF StartServer
<1>4. CASE StopServer
  <2>1. server' \in [running : BOOLEAN, http : BOOLEAN, ws : BOOLEAN]
    BY <1>4 DEF StopServer
  <2> QED
    BY <1>2, <1>4, <2>1, NoneAskedKeeps DEF StopServer
<1>5. CASE \E c \in Conn : Connects(c) \/ Disconnected(c) \/ HeaderArrives(c)
  <2>1. PICK c \in Conn, s \in {"open", "gone", "reading"} :
           conns' = [conns EXCEPT ![c] = s] /\ UNCHANGED <<server, calls, indexed>>
    BY <1>5 DEF Connects, Disconnected, HeaderArrives
  <2>2. conns' \in [Conn -> ConnState]
    BY <1>1, <2>1 DEF ConnState
  <2>3. \A d \in Conn : conns'[d] = "asked" => conns[d] = "asked"
    BY <1>1, <2>1
  <2> QED
    BY <1>1, <2>1, <2>2, <2>3, NoneAskedKeeps
<1> QED
  BY <1>3, <1>4, <1>5

\* What a handler leaves is one of the ways to owe.
LEMMA HandledIs ==
  ASSUME NEW q \in Request
  PROVE  /\ Handled(q).owes \in Owing /\ Handled(q).owes \subseteq Holder
         /\ Handled(q).answers = IF Handled(q).owes = {} THEN 1 ELSE 0
         /\ Handled(q).found \in BOOLEAN
<1>1. \A S \in Owing, f \in BOOLEAN :
         /\ Routed(S, f).owes \in Owing /\ Routed(S, f).owes \subseteq Holder
         /\ Routed(S, f).answers = IF Routed(S, f).owes = {} THEN 1 ELSE 0
         /\ Routed(S, f).found \in BOOLEAN
  BY DEF Routed, Owing, Holder
<1>2. PICK S \in Owing, f \in BOOLEAN : Handled(q) = Routed(S, f)
  <2>1. /\ {} \in Owing /\ {"reply", "timer"} \in Owing /\ {"fetch"} \in Owing
        /\ {"signals"} \in Owing
    BY DEF Owing
  <2>2. \E S \in Owing, f \in BOOLEAN : DhtLookup = Routed(S, f)
    BY <2>1 DEF DhtLookup
  <2>3. \E S \in Owing, f \in BOOLEAN : SearchTorrents(q) = Routed(S, f)
    BY <2>1, <2>2 DEF SearchTorrents
  <2>4. \E S \in Owing, f \in BOOLEAN : TorrentGet(q) = Routed(S, f)
    BY <2>1, <2>2 DEF TorrentGet, PeerLookup
  <2>5. q.method \in Method
    BY DEF Request
  <2>6. /\ (q.hash \in Present \/ q.hash \notin Rejected) \in BOOLEAN
        /\ (q.hash \in Present) \in BOOLEAN /\ (Present \cap Rejected # {}) \in BOOLEAN
    OBVIOUS
  <2>7. CASE q.method = "search.torrents"
    BY <2>3, <2>7 DEF Handled
  <2>8. CASE q.method = "torrent.get"
    BY <2>4, <2>8 DEF Handled
  <2>9. CASE q.method = "torrent.import"
    BY <2>1, <2>6, <2>9 DEF Handled
  <2>10. CASE q.method = "torrent.remove"
    BY <2>1, <2>6, <2>10 DEF Handled
  <2>11. CASE q.method = "torrent.cleanup"
    BY <2>1, <2>6, <2>11 DEF Handled
  <2>12. CASE q.method = "update.check"
    BY <2>1, <2>12 DEF Handled
  <2>13. CASE q.method = "unknown"
    BY <2>1, <2>13 DEF Handled
  <2> QED
    BY <2>5, <2>7, <2>8, <2>9, <2>10, <2>11, <2>12, <2>13 DEF Method
<1> QED
  BY <1>1, <1>2

LEMMA InsertIs ==
  ASSUME RestKinds, NEW h \in ApiHash, NEW kind \in {"bare", "full"}
  PROVE  Insert(h, kind) \in [ApiHash -> {"absent", "bare", "full"}]
BY DEF RestKinds, Insert

LEMMA RouterCallKeeps ==
  ASSUME RestInv, NEW c \in Conn, NEW q \in Questions, RouterCall(c, q), UNCHANGED server
  PROVE  RestInv'
<1> DEFINE call == [conn |-> c, request |-> q, owes |-> Handled(q).owes,
                    answers |-> Handled(q).answers, found |-> Handled(q).found]
           n == Len(calls)
<1>1. q \in Request /\ q.hash \in ApiHash
  BY RestAssumption DEF Request
<1>2. /\ call \in Call /\ call.conn = c
      /\ call.owes \in Owing /\ call.answers = IF call.owes = {} THEN 1 ELSE 0
      /\ call.answers = Handled(q).answers
  BY <1>1, HandledIs DEF Call
<1>3. /\ calls' = Append(calls, call)
      /\ conns' = [conns EXCEPT ![c] = IF c \notin Http THEN @
                                       ELSE IF Handled(q).answers = 1 THEN "gone" ELSE "asked"]
  BY DEF RouterCall
<1> HIDE DEF call
<1>4. /\ calls' \in Seq(Call) /\ n \in Nat /\ DOMAIN calls = 1..n /\ DOMAIN calls' = 1..n + 1
      /\ calls'[n + 1] = call /\ \A k \in 1..n : calls'[k] = calls[k]
  BY <1>2, <1>3, AppendProperties, LenProperties, CallsAre DEF RestInv, RestKinds
<1> HIDE DEF n
<1>5. 1..n + 1 = 1..n \cup {n + 1}
  BY <1>4
<1>6. indexed' \in [ApiHash -> {"absent", "bare", "full"}]
  <2>1. indexed \in [ApiHash -> {"absent", "bare", "full"}]
    BY DEF RestInv, RestKinds
  <2>2. TorrentImport(q) \in [ApiHash -> {"absent", "bare", "full"}]
    BY <1>1, InsertIs DEF TorrentImport, RestInv
  <2>3. \A gone : RowsWithout(gone) \in [ApiHash -> {"absent", "bare", "full"}]
    BY <2>1 DEF RowsWithout
  <2> QED
    BY <2>1, <2>2, <2>3 DEF RouterCall, TorrentRemove, TorrentCleanup
<1>7. conns' \in [Conn -> ConnState]
  BY <1>3 DEF RestInv, RestKinds, ConnState
<1>8. RestKinds'
  BY <1>4, <1>6, <1>7 DEF RestInv, RestKinds
<1>9. OwingOnce'
  BY <1>2, <1>4, <1>5 DEF RestInv, OwingOnce
<1>10. AskedWaits'
  <2>1. SUFFICES ASSUME NEW d \in Http, conns'[d] = "asked"
                 PROVE  \E k \in DOMAIN calls' : calls'[k].conn = d /\ calls'[k].answers = 0
    BY DEF AskedWaits
  <2>2. d \in Conn /\ conns \in [Conn -> ConnState]
    BY RestAssumption DEF RestInv, RestKinds
  <2>3. CASE d = c
    <3>1. call.answers = 0
      BY <1>2, <1>3, <2>1, <2>2, <2>3
    <3> QED
      BY <1>2, <1>4, <1>5, <2>3, <3>1
  <2>4. CASE d # c
    <3>1. conns[d] = "asked"
      BY <1>3, <2>1, <2>2, <2>4
    <3>2. PICK k \in 1..n : calls[k].conn = d /\ calls[k].answers = 0
      BY <1>4, <3>1 DEF RestInv, AskedWaits
    <3> QED
      BY <1>4, <1>5, <3>2
  <2> QED
    BY <2>3, <2>4
<1> QED
  BY <1>8, <1>9, <1>10 DEF RestInv

\* `respond` runs for calls that owe what is let go of, and for no other.
LEMMA RespondKeeps ==
  ASSUME RestInv, NEW K \in SUBSET DOMAIN calls, NEW who \in Owing \ {{}}, NEW found \in BOOLEAN,
         Respond(K, who, found), \A k \in K : calls[k].owes = who,
         indexed' \in [ApiHash -> {"absent", "bare", "full"}], UNCHANGED server
  PROVE  RestInv'
<1>1. /\ calls \in Seq(Call) /\ DOMAIN calls = 1..Len(calls) /\ Len(calls) \in Nat
      /\ \A k \in DOMAIN calls : calls[k] \in Call
      /\ conns \in [Conn -> ConnState]
  BY CallsAre DEF RestInv, RestKinds
<1>2. /\ DOMAIN calls' = DOMAIN calls
      /\ calls' = [k \in 1..Len(calls) |-> calls'[k]]
      /\ \A k \in DOMAIN calls \ K : calls'[k] = calls[k]
      /\ \A k \in K : calls'[k] = [calls[k] EXCEPT !.owes = @ \ who, !.answers = @ + 1,
                                                    !.found = found]
  BY <1>1 DEF Respond
<1>3. \A k \in K : /\ calls'[k].owes = {} /\ calls'[k].answers = 1 /\ calls'[k].conn = calls[k].conn
                   /\ calls'[k] \in Call
  <2>1. SUFFICES ASSUME NEW k \in K
                 PROVE  /\ calls'[k].owes = {} /\ calls'[k].answers = 1
                        /\ calls'[k].conn = calls[k].conn /\ calls'[k] \in Call
    OBVIOUS
  <2>2. calls[k] \in Call /\ calls[k].owes = who /\ who # {} /\ calls[k].answers = 0
    BY <1>1 DEF RestInv, OwingOnce
  <2>3. calls'[k] = [calls[k] EXCEPT !.owes = @ \ who, !.answers = @ + 1, !.found = found]
    BY <1>2
  <2>4. PICK c \in Call : c = calls[k]
    BY <2>2
  <2>5. PICK d : d = calls'[k]
    OBVIOUS
  <2>6. d = [c EXCEPT !.owes = @ \ who, !.answers = @ + 1, !.found = found]
    BY <2>3, <2>4, <2>5
  <2>7. d.owes = {} /\ d.answers = 1 /\ d.conn = c.conn /\ d \in Call
    <3>1. c \in Call /\ c.owes = who /\ c.answers = 0 /\ found \in BOOLEAN
      BY <2>2, <2>4
    <3>2. c.owes \ who = {} /\ c.answers + 1 = 1 /\ {} \in SUBSET Holder
      BY <3>1
    <3>3. d = [c EXCEPT !.owes = {}, !.answers = 1, !.found = found]
      BY <2>6, <3>2
    <3>4. d.owes = {} /\ d.answers = 1 /\ d.conn = c.conn
      BY <3>1, <3>3 DEF Call
    <3>5. d = [conn |-> c.conn, request |-> c.request, owes |-> {}, answers |-> 1, found |-> found]
      BY <3>1, <3>3 DEF Call
    <3> QED
      BY <3>1, <3>2, <3>4, <3>5 DEF Call
  <2> QED
    BY <2>4, <2>5, <2>7
<1>4. \A k \in DOMAIN calls : calls'[k] \in Call
  BY <1>1, <1>2, <1>3
<1>5. calls' \in Seq(Call)
  BY <1>1, <1>2, <1>4, SeqIs
<1>6. conns' = [c \in Conn |-> IF \E k \in K : calls[k].conn = c THEN Answering(c) ELSE conns[c]]
  BY DEF Respond
<1>7. conns' \in [Conn -> ConnState]
  BY <1>1, <1>6 DEF Answering, ConnState
<1>8. OwingOnce'
  BY <1>2, <1>3, ZenonT(40) DEF RestInv, OwingOnce, Owing
<1>9. AskedWaits'
  <2>1. SUFFICES ASSUME NEW c \in Http, conns'[c] = "asked"
                 PROVE  \E k \in DOMAIN calls' : calls'[k].conn = c /\ calls'[k].answers = 0
    BY DEF AskedWaits
  <2>2. c \in Conn
    BY RestAssumption
  <2>3. ~\E k \in K : calls[k].conn = c
    BY <1>6, <2>1, <2>2 DEF Answering
  <2>4. conns[c] = "asked"
    BY <1>6, <2>1, <2>2, <2>3
  <2>5. PICK k \in DOMAIN calls : calls[k].conn = c /\ calls[k].answers = 0
    BY <2>4 DEF RestInv, AskedWaits
  <2> QED
    BY <1>2, <2>3, <2>5
<1> QED
  BY <1>5, <1>7, <1>8, <1>9 DEF RestInv, RestKinds

\* `respond` changes hands.
LEMMA HandedOnKeeps ==
  ASSUME RestInv, NEW k \in DOMAIN calls, NEW owes \in Owing \ {{}}, NEW found \in BOOLEAN,
         calls[k].owes # {},
         calls' = [calls EXCEPT ![k].owes = owes, ![k].found = found],
         UNCHANGED <<server, conns, indexed>>
  PROVE  RestInv'
<1>1. /\ calls \in Seq(Call) /\ DOMAIN calls = 1..Len(calls) /\ Len(calls) \in Nat
      /\ \A j \in DOMAIN calls : calls[j] \in Call
  BY CallsAre DEF RestInv, RestKinds
<1>2. owes \subseteq Holder
  BY DEF Owing, Holder
<1>3. /\ DOMAIN calls' = DOMAIN calls /\ calls' = [j \in 1..Len(calls) |-> calls'[j]]
      /\ \A j \in DOMAIN calls \ {k} : calls'[j] = calls[j]
      /\ calls'[k] = [calls[k] EXCEPT !.owes = owes, !.found = found]
  BY <1>1
<1>4. /\ calls'[k] \in Call /\ calls'[k].owes = owes /\ calls'[k].conn = calls[k].conn
      /\ calls'[k].answers = calls[k].answers /\ calls[k].answers = 0
  <2>1. calls[k] \in Call /\ calls[k].answers = 0
    BY <1>1 DEF RestInv, OwingOnce
  <2> QED
    BY <1>2, <1>3, <2>1 DEF Call
<1>5. calls' \in Seq(Call)
  BY <1>1, <1>3, <1>4, SeqIs
<1>6. OwingOnce'
  BY <1>3, <1>4 DEF RestInv, OwingOnce
<1>7. AskedWaits'
  BY <1>3, <1>4 DEF RestInv, AskedWaits
<1> QED
  BY <1>5, <1>6, <1>7 DEF RestInv, RestKinds

\* Who holds, holds alone, but for a reply and its timer.
LEMMA HoldersAre ==
  ASSUME RestInv, NEW k \in DOMAIN calls
  PROVE  /\ "reply" \in calls[k].owes => calls[k].owes = {"reply", "timer"}
         /\ "timer" \in calls[k].owes => calls[k].owes = {"reply", "timer"}
         /\ "fetch" \in calls[k].owes => calls[k].owes = {"fetch"}
         /\ "posted" \in calls[k].owes => calls[k].owes = {"posted"}
         /\ "signals" \in calls[k].owes => calls[k].owes = {"signals"}
BY DEF RestInv, OwingOnce, Owing

LEMMA TorrentResponseKeeps ==
  ASSUME RestInv, NEW h \in ApiHash, NEW kind \in {"bare", "full"}, TorrentResponse(h, kind)
  PROVE  RestInv'
<1> DEFINE K == {k \in Holding("reply") : calls[k].request.hash = h}
<1>1. K \in SUBSET DOMAIN calls /\ \A k \in K : calls[k].owes = {"reply", "timer"}
  BY HoldersAre DEF Holding
<1>2. /\ Respond(K, {"reply", "timer"}, TRUE) /\ indexed' = Insert(h, kind) /\ UNCHANGED server
  BY DEF TorrentResponse
<1>3. {"reply", "timer"} \in Owing \ {{}}
  BY DEF Owing
<1>4. indexed' \in [ApiHash -> {"absent", "bare", "full"}]
  BY <1>2, InsertIs DEF RestInv
<1> HIDE DEF K
<1> QED
  BY <1>1, <1>2, <1>3, <1>4, RespondKeeps

LEMMA TimeoutKeeps == ASSUME RestInv, NEW k \in DOMAIN calls, Timeout(k) PROVE RestInv'
<1>1. calls[k].owes = {"reply", "timer"} /\ UNCHANGED <<server, indexed>>
  BY HoldersAre DEF Timeout, Holding
<1>2. CASE bittorrent
  <2>1. calls' = [calls EXCEPT ![k].owes = {"fetch"}] /\ UNCHANGED conns
    <3>1. AfterTimeout \cup {"fetch"} = {"fetch"}
      BY DEF AfterTimeout
    <3> QED
      BY <1>2, <3>1 DEF Timeout
  <2>2. calls[k] \in Call /\ calls[k].found \in BOOLEAN /\ DOMAIN calls = 1..Len(calls)
    BY CallsAre DEF RestInv, RestKinds, Call
  <2>3. calls' = [calls EXCEPT ![k].owes = {"fetch"}, ![k].found = calls[k].found]
    BY <2>1, <2>2 DEF Call
  <2>4. {"fetch"} \in Owing \ {{}} /\ calls[k].owes # {}
    BY <1>1 DEF Owing
  <2>5. UNCHANGED <<server, conns, indexed>>
    BY <1>1, <2>1
  <2> HIDE DEF Timeout
  <2> QED
    BY <2>2, <2>3, <2>4, <2>5, HandedOnKeeps
<1>3. CASE ~bittorrent
  <2>1. Respond({k}, {"reply", "timer"}, FALSE)
    BY <1>3 DEF Timeout
  <2>2. {"reply", "timer"} \in Owing \ {{}} /\ {k} \in SUBSET DOMAIN calls
    BY DEF Owing
  <2>3. indexed' \in [ApiHash -> {"absent", "bare", "full"}]
    BY <1>1 DEF RestInv, RestKinds
  <2> QED
    BY <1>1, <2>1, <2>2, <2>3, RespondKeeps
<1> QED
  BY <1>2, <1>3

LEMMA FetchKeeps ==
  ASSUME RestInv, NEW k \in DOMAIN calls, NEW ok \in BOOLEAN, MetadataFetched(k, ok)
  PROVE  RestInv'
<1>1. calls[k].owes = {"fetch"} /\ UNCHANGED <<server, conns, indexed>>
  BY HoldersAre DEF MetadataFetched, Holding
<1>2. calls' = [calls EXCEPT ![k].owes = {"posted"}, ![k].found = ok]
  <2>1. (calls[k].owes \ {"fetch"}) \cup {"posted"} = {"posted"}
    BY <1>1
  <2> QED
    BY <2>1 DEF MetadataFetched
<1>3. {"posted"} \in Owing \ {{}}
  BY DEF Owing
<1> QED
  BY <1>1, <1>2, <1>3, HandedOnKeeps

LEMMA PostedKeeps == ASSUME RestInv, NEW k \in DOMAIN calls, PostedRuns(k) PROVE RestInv'
<1>1. /\ calls[k].owes = {"posted"} /\ Respond({k}, {"posted"}, calls[k].found)
      /\ indexed' = IF calls[k].found THEN Insert(calls[k].request.hash, "full") ELSE indexed
      /\ UNCHANGED server
  BY HoldersAre DEF PostedRuns, Holding
<1>2. calls[k].request.hash \in ApiHash /\ calls[k].found \in BOOLEAN
  BY CallsAre DEF RestInv, RestKinds, Call, Request
<1>3. indexed' \in [ApiHash -> {"absent", "bare", "full"}]
  BY <1>1, <1>2, InsertIs DEF RestInv, RestKinds
<1>4. {"posted"} \in Owing \ {{}} /\ {k} \in SUBSET DOMAIN calls
  BY DEF Owing
<1> QED
  BY <1>1, <1>2, <1>3, <1>4, RespondKeeps

LEMMA UpdateKeeps ==
  ASSUME RestInv,
         \/ \E to \in {"Idle", "UpdateAvailable", "Error"} : CheckReplies(to)
         \/ DownloadUpdate
         \/ \E ok \in BOOLEAN : DownloadEnds(ok)
  PROVE  RestInv'
<1>1. /\ UNCHANGED <<server, indexed>>
      /\ \/ \E found \in BOOLEAN : Respond(Holding("signals"), {"signals"}, found)
         \/ UNCHANGED <<calls, conns>>
  <2>1. \A to \in {"Idle", "UpdateAvailable", "Error"} : (to # "Error") \in BOOLEAN
    OBVIOUS
  <2>2. CASE \E to \in {"Idle", "UpdateAvailable", "Error"} : CheckReplies(to)
    BY <2>1, <2>2 DEF CheckReplies
  <2>3. CASE DownloadUpdate
    BY <2>3 DEF DownloadUpdate
  <2>4. CASE \E ok \in BOOLEAN : DownloadEnds(ok)
    BY <2>4 DEF DownloadEnds
  <2> QED
    BY <2>2, <2>3, <2>4
<1>2. CASE UNCHANGED <<calls, conns>>
  BY <1>1, <1>2 DEF RestInv, RestKinds, OwingOnce, AskedWaits
<1>3. CASE \E found \in BOOLEAN : Respond(Holding("signals"), {"signals"}, found)
  <2> DEFINE K == Holding("signals")
  <2>1. PICK found \in BOOLEAN : Respond(K, {"signals"}, found)
    BY <1>3
  <2>2. K \in SUBSET DOMAIN calls
    BY DEF Holding
  <2>3. \A k \in K : calls[k].owes = {"signals"}
    BY HoldersAre DEF Holding
  <2>4. {"signals"} \in Owing \ {{}}
    BY DEF Owing
  <2>5. indexed' \in [ApiHash -> {"absent", "bare", "full"}] /\ UNCHANGED server
    BY <1>1 DEF RestInv, RestKinds
  <2> HIDE DEF K
  <2> QED
    BY <2>1, <2>2, <2>3, <2>4, <2>5, RespondKeeps
<1> QED
  BY <1>1, <1>2, <1>3

LEMMA RestKeeps == RestInv /\ [RestNext]_restVars => RestInv'
<1> SUFFICES ASSUME RestInv, [RestNext]_restVars PROVE RestInv'
  OBVIOUS
<1>1. CASE UNCHANGED restVars
  BY <1>1 DEF restVars, RestInv, RestKinds, OwingOnce, AskedWaits
<1>2. ASSUME NEW c \in Conn, NEW q \in Questions, OnHttpReadyRead(c, q) \/ OnWsMessage(c, q)
      PROVE  RestInv'
  <2>1. RouterCall(c, q) /\ UNCHANGED server
    BY <1>2 DEF OnHttpReadyRead, OnWsMessage
  <2> QED
    BY <2>1, RouterCallKeeps
<1> QED
  BY <1>1, <1>2, ServerKeeps, TorrentResponseKeeps, TimeoutKeeps, FetchKeeps, PostedKeeps,
     UpdateKeeps, Zenon DEF RestNext

\* Whatever a reply, a timeout, a fetch, a signal and a disconnect do to each other,
\* `respond` has run once or somebody holds it: for any clients, requests and restarts
\* of the server (api_router.cpp, api_server.cpp).
THEOREM RespondOnceHolds == RestSpec => []RespondOnce
<1>1. RestInv => RespondOnce
  BY RestGives
<1> QED
  BY <1>1, RestStarts, RestKeeps, PTL DEF RestSpec

-----------------------------------------------------------------------------
(* The main window.  Beside what is shown, the invariant says that a panel  *)
(* that is shown has a torrent, and that copies, rows and questions are of  *)
(* their kinds.                                                             *)

Searching ==
    /\ query \in Query \cup {""} /\ Of(results, Hit) /\ ResultsAnswer
    /\ current \in DOMAIN results \cup {NoTorrent}
    /\ remembered \in [hash : WindowHash \cup {NoTorrent}, copy : Copy]
Rows ==
    /\ Of(downloadItems, Row) /\ Of(registry, DownloadItem) /\ favorites \subseteq WindowHash
    /\ RowsAgree
Torrents == index \in [WindowHash -> Stored]
AskedFor == asked \subseteq Question
PanelOwn ==
    /\ {panel.votes, panel.poster} \subseteq {panel.hash, NoTorrent}
    /\ panel.hash # NoTorrent =>
          /\ panel.download # "none" => panel.hash \in DOMAIN registry
          /\ panel.favorite = (panel.hash \in favorites)
Panels ==
    /\ panel \in Panel /\ files \in Files /\ files.hash \in {panel.hash, NoTorrent}
    /\ panel.shown => panel.hash # NoTorrent
    /\ PanelOwn
OtherKinds ==
    /\ tab \in {"results", "torrents", "downloads"} /\ voted \subseteq WindowHash
    /\ dialog \in WindowHash \cup {NoTorrent} /\ acts \in 0..MaxActs /\ happenings \in 0..MaxEvents

WindowInv == Searching /\ Rows /\ Torrents /\ AskedFor /\ Panels /\ OtherKinds

LEMMA WindowBounds == MaxActs \in Nat /\ MaxEvents \in Nat
BY WindowAssumption

LEMMA WindowGives == WindowInv => WindowTypeOK /\ WindowIsRight
<1> SUFFICES ASSUME WindowInv
             PROVE  WindowTypeOK /\ WindowIsRight
  OBVIOUS
<1> USE DEF WindowInv
<1>1. {current, dialog} \subseteq WindowHash \cup {NoTorrent}
  BY DEF Searching, OtherKinds, Of
<1>2. WindowTypeOK
  BY <1>1 DEF WindowTypeOK, Searching, Rows, Torrents, AskedFor, Panels, OtherKinds
<1>3. WindowIsRight
  BY DEF WindowIsRight, Searching, Rows, Panels, PanelOwn
<1> QED
  BY <1>2, <1>3

\* A table of torrents in which one is put, or from which one is left out.
LEMMA PutGives ==
  ASSUME NEW f, NEW S, Of(f, S), NEW h \in WindowHash, NEW v \in S
  PROVE  /\ Of(Put(f, h, v), S)
         /\ DOMAIN Put(f, h, v) = DOMAIN f \cup {h}
         /\ Put(f, h, v)[h] = v
         /\ \A k \in DOMAIN f : k # h => Put(f, h, v)[k] = f[k]
BY DEF Of, Put

LEMMA OmitGives ==
  ASSUME NEW f, NEW S, Of(f, S), NEW h
  PROVE  /\ Of(Omit(f, h), S)
         /\ DOMAIN Omit(f, h) = DOMAIN f \ {h}
         /\ \A k \in DOMAIN f : k # h => Omit(f, h)[k] = f[k]
BY DEF Of, Omit

LEMMA WindowStarts == WindowInit => WindowInv
<1> SUFFICES ASSUME WindowInit
             PROVE  WindowInv
  OBVIOUS
<1>1. Searching
  <2>1. /\ query = "" /\ DOMAIN results = {} /\ current = NoTorrent
        /\ remembered = [hash |-> NoTorrent, copy |-> Blank]
    BY DEF WindowInit
  <2>2. Blank \in Copy
    BY DEF Blank, Copy
  <2> QED
    BY <2>1, <2>2 DEF Searching, Of, ResultsAnswer
<1>2. Rows
  <2>1. /\ registry = [h \in DOMAIN Downloading |->
                      [completed |-> Downloading[h], paused |-> FALSE, whole |-> TRUE, told |-> {}]]
        /\ downloadItems = [h \in DOMAIN registry |->
                  [completed |-> registry[h].completed, paused |-> FALSE, favorite |-> FALSE]]
        /\ favorites = {}
    BY DEF WindowInit
  <2>2. DOMAIN Downloading \subseteq WindowHash /\ \A h \in DOMAIN Downloading : Downloading[h] \in BOOLEAN
    BY WindowAssumption
  <2>3. \A h \in DOMAIN Downloading : registry[h] \in DownloadItem /\ registry[h].completed = Downloading[h]
    BY <2>1, <2>2 DEF DownloadItem
  <2>4. \A h \in DOMAIN Downloading : /\ downloadItems[h] \in Row
                                      /\ downloadItems[h].completed = registry[h].completed
                                      /\ downloadItems[h].favorite = FALSE
    BY <2>1, <2>2, <2>3 DEF Row
  <2>5. DOMAIN registry = DOMAIN Downloading /\ DOMAIN downloadItems = DOMAIN Downloading
    BY <2>1
  <2>6. Of(downloadItems, Row) /\ Of(registry, DownloadItem)
    BY <2>2, <2>3, <2>4, <2>5 DEF Of
  <2>7. favorites = {}
    BY <2>1
  <2>8. RowsAgree
    <3>1. \A h \in DOMAIN downloadItems : /\ downloadItems[h].favorite = (h \in favorites)
                                         /\ downloadItems[h].completed = registry[h].completed
      <4>1. ASSUME NEW h \in DOMAIN downloadItems
            PROVE  /\ downloadItems[h].favorite = (h \in favorites)
                   /\ downloadItems[h].completed = registry[h].completed
        <5>1. h \in DOMAIN Downloading /\ ~(h \in favorites)
          BY <2>5, <2>7, <4>1
        <5>2. downloadItems[h].favorite = FALSE
              /\ downloadItems[h].completed = registry[h].completed
          BY <2>4, <5>1
        <5>3. (h \in favorites) = FALSE
          BY <5>1
        <5> QED
          BY <5>2, <5>3, Zenon
      <4> QED
        BY <4>1
    <3> QED
      BY <2>5, <3>1 DEF RowsAgree
  <2> QED
    BY <2>6, <2>7, <2>8 DEF Rows
<1>3. Torrents
  <2>1. index = [h \in WindowHash |-> [known |-> h \in Local, votes |-> FALSE,
                                       info |-> FALSE, listed |-> h \in Local]]
    BY DEF WindowInit
  <2> QED
    BY <2>1 DEF Torrents, Stored
<1>4. AskedFor
  BY DEF AskedFor, WindowInit
<1>5. Panels
  <2>1. /\ panel = [shown |-> FALSE, hash |-> NoTorrent, download |-> "none", voted |-> FALSE,
                favorite |-> FALSE, votes |-> NoTorrent, poster |-> NoTorrent]
        /\ files = [shown |-> FALSE, hash |-> NoTorrent, listed |-> FALSE, whole |-> TRUE]
    BY DEF WindowInit
  <2> QED
    BY <2>1 DEF Panels, PanelOwn, Panel, Files
<1>6. OtherKinds
  <2>1. tab = "results" /\ voted = {} /\ dialog = NoTorrent /\ acts = 0
        /\ happenings = 0
    BY DEF WindowInit
  <2> QED
    BY <2>1, WindowBounds DEF OtherKinds
<1> QED
  BY <1>1, <1>2, <1>3, <1>4, <1>5, <1>6 DEF WindowInv

-----------------------------------------------------------------------------
\* What each part keeps.

\* One record more in the table of the torrents.
LEMMA TorrentsPut ==
  ASSUME Torrents, NEW h \in WindowHash, NEW new \in Stored, index' = Put(index, h, new)
  PROVE  Torrents'
BY DEF Torrents, Put

LEMMA SearchingStays ==
  ASSUME Searching, UNCHANGED <<query, results, current, remembered>>
  PROVE  Searching'
BY DEF Searching, ResultsAnswer, Of

LEMMA RowsStay == ASSUME Rows, UNCHANGED <<downloadItems, registry, favorites>>
                  PROVE  Rows'
BY DEF Rows, RowsAgree, Of

LEMMA PanelsStay ==
  ASSUME Panels, panel' = panel, files' \in Files, files'.hash \in {panel.hash, NoTorrent},
         DOMAIN registry \subseteq DOMAIN registry', favorites' = favorites
  PROVE  Panels'
BY DEF Panels, PanelOwn

LEMMA OtherKindsStay ==
  ASSUME OtherKinds, tab' \in {"results", "torrents", "downloads"}, voted' \subseteq WindowHash,
         Acts \/ Happens \/ Answers
  PROVE  OtherKinds'
BY WindowBounds DEF OtherKinds, Acts, Happens, Answers

\* A torrent is shown in the panels, with what is its own.
LEMMA PanelsShow ==
  ASSUME Panels, Torrents, NEW h \in WindowHash, NEW copy \in Copy,
         ShowTorrentDetails(h, copy), UNCHANGED <<registry, favorites>>
  PROVE  Panels'
<1> DEFINE l == copy.listed \/ index[h].listed
           g == h \in favorites
           p == [shown |-> TRUE, hash |-> h, download |-> DownloadState(h), voted |-> h \in voted,
                 favorite |-> g, votes |-> Own(h, copy.votes), poster |-> Own(h, copy.info)]
           f == [shown |-> TRUE, hash |-> h, listed |-> l, whole |-> TRUE]
<1>1. panel' = p /\ files' = f
  BY DEF ShowTorrentDetails, SetTorrent, SetFiles
<1>2. DownloadState(h) \in {"none", "progress", "completed"}
      /\ (DownloadState(h) # "none" => h \in DOMAIN registry)
  BY DEF DownloadState
<1>3. l \in BOOLEAN /\ g \in BOOLEAN
  OBVIOUS
<1>4. {Own(h, copy.votes), Own(h, copy.info)} \subseteq {h, NoTorrent}
  BY DEF Own
<1> HIDE DEF l
<1>5. p \in Panel
  BY <1>2, <1>4 DEF Panel
<1>6. f \in Files
  BY <1>3 DEF Files
<1>7. p.hash = h /\ f.hash = h /\ p.shown /\ p.download = DownloadState(h)
      /\ p.favorite = g /\ p.votes = Own(h, copy.votes) /\ p.poster = Own(h, copy.info)
  OBVIOUS
<1> HIDE DEF p, f
<1>8. h # NoTorrent
  BY WindowAssumption
<1>9. panel'.hash = h /\ files'.hash = h
  BY <1>1, <1>7
<1>10. PanelOwn'
  BY <1>1, <1>2, <1>4, <1>7, <1>9 DEF PanelOwn
<1> QED
  BY <1>1, <1>5, <1>6, <1>8, <1>9, <1>10 DEF Panels

LEMMA PanelsHide ==
  ASSUME Panels, HideDetails, UNCHANGED <<registry, favorites>>
  PROVE  Panels'
<1>1. /\ panel' \in Panel /\ ~panel'.shown /\ panel'.hash = panel.hash
      /\ panel'.download = panel.download /\ panel'.favorite = panel.favorite
      /\ panel'.votes = panel.votes /\ panel'.poster = panel.poster
  BY DEF Panels, HideDetails, Panel
<1>2. files' \in Files /\ files'.hash = NoTorrent
  BY DEF Panels, HideDetails, Files
<1> QED
  BY <1>1, <1>2 DEF Panels, PanelOwn

\* What is looked up of a torrent that is shown is a question.
LEMMA LookedAsks == ASSUME NEW h \in WindowHash, NEW copy \in Copy
                    PROVE  Looked(h, copy) \in Question
<1>1. CASE copy.info
  BY <1>1 DEF Looked, Question
<1>2. CASE ~copy.info
  BY <1>2 DEF Looked, Question
<1> QED
  BY <1>1, <1>2

LEMMA PosterAsks == ASSUME NEW h \in WindowHash
                    PROVE  PosterOf(h) \subseteq Question
BY DEF PosterOf, Question

-----------------------------------------------------------------------------
\* The tabs, the search and the selection.

LEMMA TabsKeep ==
  ASSUME WindowInv, NEW t \in {"results", "torrents", "downloads"}, OnTabChanged(t)
  PROVE  WindowInv'
<1> USE DEF WindowInv
<1> DEFINE s == Selection(t)
<1>1. /\ Acts /\ tab' = t /\ UNCHANGED <<query, results, current, remembered>>
      /\ UNCHANGED <<downloadItems, registry, index, favorites, voted>>
  BY DEF OnTabChanged, serviceVars
<1>2. IF s.hash = NoTorrent THEN HideDetails /\ asked' = asked
      ELSE ShowTorrentDetails(s.hash, s.copy) /\ asked' = asked \cup {Looked(s.hash, s.copy)}
  BY DEF OnTabChanged, ShowTab
<1>3. s.hash \in WindowHash \cup {NoTorrent} /\ s.copy \in Copy
  <2>1. CASE t = "results" /\ current # NoTorrent
    <3>1. s = [hash |-> current, copy |-> results[current].copy]
      BY <2>1 DEF Selection
    <3>2. current \in WindowHash /\ results[current].copy \in Copy
      BY <2>1 DEF Searching, Of, Hit
    <3> QED
      BY <3>1, <3>2
  <2>2. CASE t = "torrents"
    BY <2>2 DEF Selection, Searching
  <2>3. CASE ~(t = "results" /\ current # NoTorrent) /\ t # "torrents"
    <3>1. s = [hash |-> NoTorrent, copy |-> Blank]
      BY <2>3 DEF Selection
    <3> QED
      BY <3>1 DEF Blank, Copy
  <2> QED
    BY <2>1, <2>2, <2>3
<1> HIDE DEF s
<1>4. Searching' /\ Rows' /\ Torrents' /\ OtherKinds'
  BY <1>1, SearchingStays, RowsStay, OtherKindsStay DEF OtherKinds, Torrents
<1>5. CASE s.hash = NoTorrent
  <2>1. Panels' /\ AskedFor'
    BY <1>1, <1>2, <1>5, PanelsHide DEF AskedFor
  <2> QED
    BY <1>4, <2>1
<1>6. CASE s.hash # NoTorrent
  <2>1. s.hash \in WindowHash /\ ShowTorrentDetails(s.hash, s.copy)
        /\ asked' = asked \cup {Looked(s.hash, s.copy)}
    BY <1>2, <1>3, <1>6
  <2>2. Panels'
    BY <1>1, <1>3, <2>1, PanelsShow
  <2>3. AskedFor'
    BY <1>3, <2>1, LookedAsks DEF AskedFor
  <2> QED
    BY <1>4, <2>2, <2>3
<1> QED
  BY <1>5, <1>6

LEMMA CloseKeeps ==
  ASSUME WindowInv, OnDetailsPanelCloseRequested
  PROVE  WindowInv'
<1> USE DEF WindowInv
<1>1. /\ Acts /\ HideDetails /\ UNCHANGED <<tab, query, results, current, remembered>>
      /\ UNCHANGED <<downloadItems, registry, index, favorites, voted>> /\ asked' = asked
  BY DEF OnDetailsPanelCloseRequested, serviceVars, shownVars
<1>2. Searching' /\ Rows' /\ OtherKinds' /\ Panels'
  BY <1>1, SearchingStays, RowsStay, OtherKindsStay, PanelsHide DEF OtherKinds
<1>3. Torrents' /\ AskedFor'
  BY <1>1 DEF Torrents, AskedFor
<1> QED
  BY <1>2, <1>3

\* What is read of a row is a copy.
LEMMA ReadCopies == ASSUME Torrents, NEW h \in WindowHash, NEW listed \in BOOLEAN
                    PROVE  Read(h) \in Copy /\ [Read(h) EXCEPT !.listed = listed] \in Copy
BY DEF Torrents, Stored, Read, Copy

\* The results of a query are its own, as they are now.
LEMMA ResultsSet ==
  ASSUME WindowInv, NEW q \in Query, SetResults(q), query' = q, current' = NoTorrent,
         remembered' = remembered
  PROVE  Searching'
<1> USE DEF WindowInv
<1>1. Matching[q] \subseteq WindowHash /\ FileMatching[q] \subseteq WindowHash
  BY WindowAssumption
<1>2. /\ LocalHits(q) \subseteq Matching[q] /\ LocalFiles(q) \subseteq FileMatching[q]
      /\ LocalHits(q) \cup LocalFiles(q) \subseteq WindowHash
  BY <1>1 DEF LocalHits, LocalFiles
<1>3. DOMAIN results' = LocalHits(q) \cup LocalFiles(q)
  BY DEF SetResults
<1>4. \A h \in DOMAIN results' : results'[h] \in Hit
  <2> SUFFICES ASSUME NEW h \in DOMAIN results'
               PROVE  results'[h] \in Hit
    OBVIOUS
  <2> DEFINE l == h \notin LocalHits(q)
             g == h \in LocalFiles(q)
             c == [Read(h) EXCEPT !.listed = l]
  <2>1. l \in BOOLEAN /\ g \in BOOLEAN /\ h \in WindowHash
    BY <1>2, <1>3
  <2>2. results'[h] = [remote |-> FALSE, file |-> g, copy |-> c]
    BY <1>3 DEF SetResults
  <2> HIDE DEF l, g
  <2>3. c \in Copy
    BY <2>1, ReadCopies
  <2> HIDE DEF c
  <2> QED
    BY <2>1, <2>2, <2>3 DEF Hit
<1>5. Of(results, Hit)'
  BY <1>2, <1>3, <1>4 DEF Of
<1>6. ResultsAnswer'
  BY <1>2, <1>3 DEF ResultsAnswer
<1> QED
  BY <1>5, <1>6 DEF Searching

LEMMA SearchKeeps ==
  ASSUME WindowInv, NEW q \in Query, PerformSearch(q)
  PROVE  WindowInv'
<1> USE DEF WindowInv
<1> DEFINE Q == {[kind |-> "search", of |-> q], [kind |-> "files", of |-> q]}
                \cup {d \in {[kind |-> "dht", of |-> q]} :
                          LocalHits(q) = {} /\ q \in DOMAIN HashQuery}
           copy == results[current].copy
<1>1. /\ Acts /\ query' = q /\ tab' = "results" /\ current' = NoTorrent /\ SetResults(q)
      /\ remembered' = remembered
      /\ UNCHANGED <<downloadItems, registry, index, favorites, voted>>
  BY DEF PerformSearch, serviceVars
<1>2. IF tab = "results" THEN asked' = asked \cup Q /\ UNCHANGED <<panel, files>>
       ELSE IF current = NoTorrent THEN HideDetails /\ asked' = asked \cup Q
       ELSE /\ ShowTorrentDetails(current, copy)
            /\ asked' = asked \cup Q \cup {Looked(current, copy)}
  BY DEF PerformSearch
<1>3. Q \subseteq Question
  BY DEF Question
<1> HIDE DEF Q
<1>4. Searching' /\ Rows' /\ OtherKinds' /\ Torrents'
  BY <1>1, ResultsSet, RowsStay, OtherKindsStay DEF OtherKinds, Torrents
<1>5. CASE tab = "results"
  <2>1. AskedFor'
    BY <1>2, <1>3, <1>5 DEF AskedFor
  <2>2. Panels'
    BY <1>1, <1>2, <1>5, PanelsStay DEF Panels
  <2> QED
    BY <1>4, <2>1, <2>2
<1>6. CASE tab # "results" /\ current = NoTorrent
  BY <1>1, <1>2, <1>3, <1>4, <1>6, PanelsHide DEF AskedFor
<1>7. CASE tab # "results" /\ current # NoTorrent
  <2>1. current \in WindowHash /\ copy \in Copy
    BY <1>7 DEF Searching, Of, Hit
  <2>2. /\ ShowTorrentDetails(current, copy)
        /\ asked' = asked \cup Q \cup {Looked(current, copy)}
    BY <1>2, <1>7
  <2> HIDE DEF copy
  <2>3. Panels'
    BY <1>1, <2>1, <2>2, PanelsShow
  <2>4. AskedFor'
    BY <1>3, <2>1, <2>2, LookedAsks DEF AskedFor
  <2> QED
    BY <1>4, <2>3, <2>4
<1> QED
  BY <1>5, <1>6, <1>7

\* A hit that comes later, of a peer or of the DHT.
LEMMA HitPut ==
  ASSUME Searching, NEW h \in WindowHash, NEW hit \in Hit,
         hit.remote \/ h \in Matching[query] \cup FileMatching[query],
         results' = Put(results, h, hit), UNCHANGED <<query, current, remembered>>
  PROVE  Searching'
<1>1. /\ Of(results', Hit) /\ DOMAIN results' = DOMAIN results \cup {h} /\ results'[h] = hit
      /\ \A k \in DOMAIN results : k # h => results'[k] = results[k]
  <2>1. Of(results, Hit)
    BY DEF Searching
  <2>2. /\ Of(Put(results, h, hit), Hit) /\ DOMAIN Put(results, h, hit) = DOMAIN results \cup {h}
        /\ Put(results, h, hit)[h] = hit
        /\ \A k \in DOMAIN results : k # h => Put(results, h, hit)[k] = results[k]
    BY <2>1 DEF Put, Of
  <2> QED
    BY <2>2
<1>2. ResultsAnswer'
  BY <1>1 DEF Searching, ResultsAnswer
<1> QED
  BY <1>1, <1>2 DEF Searching

\* A row with other votes and another list.
LEMMA StoredEdited ==
  ASSUME NEW s \in Stored, NEW a \in BOOLEAN, NEW b \in BOOLEAN
  PROVE  [s EXCEPT !.votes = a, !.listed = b] \in Stored
BY DEF Stored

\* A copy that is inserted: a row of its kind, a panel that stays right, and questions.
LEMMA InsertKeeps ==
  ASSUME Torrents, Panels, NEW h \in WindowHash, NEW copy \in Copy, NEW taken \in BOOLEAN, NEW left,
         left \subseteq Question, InsertCopy(h, copy, taken, left),
         files' \in Files, files'.hash \in {panel.hash, NoTorrent},
         UNCHANGED <<registry, favorites>>
  PROVE  Torrents' /\ Panels' /\ AskedFor'
<1> DEFINE new == AfterInsert(h, copy, taken)
<1>1. new \in Stored
  <2>1. index[h] \in Stored
    BY DEF Torrents
  <2>2. PICK k \in BOOLEAN, v \in BOOLEAN, i \in BOOLEAN, l \in BOOLEAN :
          index[h] = [known |-> k, votes |-> v, info |-> i, listed |-> l]
    BY <2>1 DEF Stored
  <2>3. PICK cv \in BOOLEAN, ci \in BOOLEAN, cl \in BOOLEAN :
          copy = [votes |-> cv, info |-> ci, listed |-> cl]
    BY DEF Copy
  <2> DEFINE nv == v \/ cv
             nl == l \/ (taken /\ cl)
  <2>4. nv \in BOOLEAN /\ nl \in BOOLEAN
    OBVIOUS
  <2>5. CASE index[h].known
    <3>1. index[h].votes = v /\ index[h].listed = l /\ copy.votes = cv /\ copy.listed = cl
      BY <2>2, <2>3
    <3>2. new = [index[h] EXCEPT !.votes = index[h].votes \/ copy.votes,
                                !.listed = index[h].listed \/ (taken /\ copy.listed)]
      BY <2>5, Zenon DEF AfterInsert
    <3>3. new = [index[h] EXCEPT !.votes = nv, !.listed = nl]
      BY <3>1, <3>2, Zenon
    <3> HIDE DEF nv, nl, new
    <3> QED
      BY <2>1, <2>4, <3>3, StoredEdited
  <2>6. CASE ~index[h].known /\ taken
    <3>1. new = [known |-> TRUE, votes |-> cv, info |-> ci, listed |-> cl]
      BY <2>3, <2>6 DEF AfterInsert
    <3> QED
      BY <3>1 DEF Stored
  <2>7. CASE ~index[h].known /\ ~taken
    BY <2>1, <2>7 DEF AfterInsert
  <2> QED
    BY <2>5, <2>6, <2>7
<1> HIDE DEF new
<1>2. Torrents'
  BY <1>1, TorrentsPut DEF InsertCopy, new
<1>3. AskedFor'
  BY PosterAsks DEF InsertCopy, AskedFor
<1>4. CASE panel' = panel
  <2>1. Panels'
    BY <1>4, PanelsStay
  <2> QED
    BY <1>2, <1>3, <2>1
<1>5. CASE panel' = TorrentUpdated(h, panel)
  <2>1. panel' = panel \/ (panel.hash = h /\ panel' = [panel EXCEPT !.poster = h])
    BY <1>5 DEF TorrentUpdated
  <2>2. ASSUME panel.hash = h, panel' = [panel EXCEPT !.poster = h]
        PROVE  Panels'
    <3>1. /\ panel' \in Panel /\ panel'.hash = panel.hash /\ panel'.shown = panel.shown
          /\ panel'.download = panel.download /\ panel'.favorite = panel.favorite
          /\ panel'.votes = panel.votes /\ panel'.poster = h
      BY <2>2 DEF Panels, Panel
    <3>2. PanelOwn'
      BY <2>2, <3>1 DEF PanelOwn, Panels
    <3> QED
      BY <3>1, <3>2 DEF Panels
  <2>3. Panels'
    BY <2>1, <2>2, PanelsStay
  <2> QED
    BY <1>2, <1>3, <2>3
<1> QED
  BY <1>4, <1>5 DEF InsertCopy

LEMMA RemoteHitsKeep ==
  ASSUME WindowInv, NEW q \in Query, NEW h \in WindowHash, NEW copy \in Copies,
         RemoteSearchResults(q, h, copy) \/ RemoteFileSearchResults(q, h, copy)
  PROVE  WindowInv'
<1> USE DEF WindowInv
<1>1. /\ Answers /\ asked' \subseteq asked /\ UNCHANGED <<tab, panel, files, serviceVars>>
      /\ UNCHANGED <<query, current, remembered>>
  BY DEF RemoteSearchResults, RemoteFileSearchResults
<1>2. UNCHANGED <<downloadItems, registry, index, favorites, voted>>
  BY <1>1 DEF serviceVars
<1>3. copy \in Copy
  BY WindowAssumption DEF Copy
<1>4. Rows' /\ OtherKinds' /\ Panels'
  BY <1>1, <1>2, RowsStay, OtherKindsStay, PanelsStay DEF OtherKinds, Panels
<1>5. Torrents' /\ AskedFor'
  BY <1>1, <1>2 DEF Torrents, AskedFor
<1>6. Searching'
  <2> DEFINE b == RemoteFileSearchResults(q, h, copy)
             new == [remote |-> TRUE, file |-> b, copy |-> copy]
             old == [results[h] EXCEPT !.file = TRUE]
  <2>1. \/ results' = results
        \/ h \in DOMAIN results /\ results' = Put(results, h, old)
        \/ \E f \in BOOLEAN : results' = Put(results, h, [remote |-> TRUE, file |-> f, copy |-> copy])
    BY DEF RemoteSearchResults, RemoteFileSearchResults, AddResult, AddFileResult
  <2>2. CASE results' = results
    BY <1>1, <2>2, SearchingStays
  <2>3. CASE h \in DOMAIN results /\ results' = Put(results, h, old)
    <3>1. old \in Hit /\ old.remote = results[h].remote
      BY <2>3 DEF Searching, Of, Hit
    <3>2. results[h].remote \/ h \in Matching[query] \cup FileMatching[query]
      BY <2>3 DEF Searching, ResultsAnswer
    <3> HIDE DEF old
    <3> QED
      BY <1>1, <2>3, <3>1, <3>2, HitPut
  <2>4. ASSUME NEW f \in BOOLEAN,
               results' = Put(results, h, [remote |-> TRUE, file |-> f, copy |-> copy])
        PROVE  Searching'
    <3> DEFINE hit == [remote |-> TRUE, file |-> f, copy |-> copy]
    <3>1. hit \in Hit /\ hit.remote
      BY <1>3 DEF Hit
    <3> HIDE DEF hit
    <3>2. results' = Put(results, h, hit)
      BY <2>4 DEF hit
    <3> QED
      BY <1>1, <3>1, <3>2, HitPut
  <2> QED
    BY <2>1, <2>2, <2>3, <2>4
<1> QED
  BY <1>4, <1>5, <1>6

LEMMA DhtKeeps ==
  ASSUME WindowInv, NEW q \in DOMAIN HashQuery, NEW ok \in BOOLEAN, NEW taken \in BOOLEAN,
         DhtAnswers(q, ok, taken)
  PROVE  WindowInv'
<1> USE DEF WindowInv
<1> DEFINE h == HashQuery[q]
           left == asked \ {[kind |-> "dht", of |-> q]}
           l == taken /\ ~index[h].listed
           c == IF ~index[h].known THEN FromDht ELSE [Read(h) EXCEPT !.listed = l]
           hit == [remote |-> FALSE, file |-> FALSE, copy |-> c]
<1>1. /\ Answers /\ UNCHANGED <<tab, query, current, remembered, files>>
      /\ UNCHANGED <<downloadItems, registry, favorites, voted>>
      /\ IF ok THEN InsertCopy(h, FromDht, taken, left)
         ELSE index' = index /\ panel' = panel /\ asked' = left
  BY DEF DhtAnswers
<1>2. results' = results \/ (query = q /\ results' = Put(results, h, hit))
  BY DEF DhtAnswers, AddResult, StillAsked
<1>3. q \in Query /\ h \in Matching[q] /\ h \in WindowHash
  BY WindowAssumption
<1>4. FromDht \in Copy
  BY DEF FromDht, Copy
<1>5. hit \in Hit
  <2>1. l \in BOOLEAN
    OBVIOUS
  <2> HIDE DEF l, h
  <2>2. c \in Copy
    BY <1>3, <1>4, <2>1, ReadCopies
  <2> HIDE DEF c
  <2> QED
    BY <2>2 DEF Hit
<1>6. left \subseteq Question
  BY DEF AskedFor
<1> HIDE DEF h, hit, left
<1>7. Searching'
  <2>1. CASE results' = results
    BY <1>1, <2>1, SearchingStays
  <2>2. CASE query = q /\ results' = Put(results, h, hit)
    BY <1>1, <1>3, <1>5, <2>2, HitPut
  <2> QED
    BY <1>2, <2>1, <2>2
<1>8. Rows' /\ OtherKinds'
  BY <1>1, RowsStay, OtherKindsStay DEF OtherKinds
<1>9. files' \in Files /\ files'.hash \in {panel.hash, NoTorrent}
  BY <1>1 DEF Panels
<1>10. Torrents' /\ Panels' /\ AskedFor'
  <2>1. CASE ok
    BY <1>1, <1>3, <1>4, <1>6, <1>9, <2>1, InsertKeeps
  <2>2. CASE ~ok
    BY <1>1, <1>6, <1>9, <2>2, PanelsStay DEF Torrents, AskedFor
  <2> QED
    BY <2>1, <2>2
<1> QED
  BY <1>7, <1>8, <1>10

LEMMA SelectionKeeps ==
  ASSUME WindowInv, NEW h \in WindowHash, NEW copy \in Copy,
         \/ OnTorrentSelected(h) /\ copy = results[h].copy
         \/ TorrentSelected(h, copy)
  PROVE  WindowInv'
<1> USE DEF WindowInv
<1>1. /\ Acts /\ UNCHANGED <<tab, query, results>> /\ ShowTorrentDetails(h, copy)
      /\ UNCHANGED <<downloadItems, registry, index, favorites, voted>>
  BY DEF OnTorrentSelected, TorrentSelected, serviceVars
<1>2. asked' \subseteq asked \cup {Looked(h, copy)} \cup {[kind |-> "torrent", of |-> h]}
  BY DEF OnTorrentSelected, TorrentSelected
<1>3. [kind |-> "torrent", of |-> h] \in Question
  BY DEF Question
<1>4. Rows' /\ OtherKinds' /\ Panels'
  BY <1>1, RowsStay, OtherKindsStay, PanelsShow DEF OtherKinds
<1>5. Torrents' /\ AskedFor'
  BY <1>1, <1>2, <1>3, LookedAsks DEF Torrents, AskedFor
<1>6. \/ current' = current /\ remembered' = [hash |-> h, copy |-> copy]
      \/ current' = h /\ h \in DOMAIN results /\ remembered' = remembered
  BY DEF OnTorrentSelected, TorrentSelected
<1>7. current' \in (DOMAIN results) \cup {NoTorrent}
  BY <1>6 DEF Searching
<1>8. remembered' \in [hash : WindowHash \cup {NoTorrent}, copy : Copy]
  <2>1. CASE remembered' = [hash |-> h, copy |-> copy]
    <3>1. [hash |-> h, copy |-> copy] \in [hash : WindowHash \cup {NoTorrent}, copy : Copy]
      OBVIOUS
    <3> QED
      BY <2>1, <3>1, Zenon
  <2>2. CASE remembered' = remembered
    BY <2>2, Zenon DEF Searching
  <2> QED
    BY <1>6, <2>1, <2>2, Zenon
<1>9. Searching'
  BY <1>1, <1>7, <1>8 DEF Searching, ResultsAnswer, Of
<1> QED
  BY <1>4, <1>5, <1>9

-----------------------------------------------------------------------------
\* Answers about a torrent, favorites and votes.

\* What the panel is told of its own torrent.
LEMMA PanelsTold ==
  ASSUME Panels, panel' \in Panel, panel'.hash = panel.hash, panel'.shown = panel.shown,
         files' = files, PanelOwn'
  PROVE  Panels'
BY DEF Panels

LEMMA TorrentKeeps ==
  ASSUME WindowInv, NEW h \in WindowHash, NEW copy \in Copies, NEW taken \in BOOLEAN,
         RemoteTorrentReceived(h, copy, taken) \/ TorrentIndexed(h, copy, taken)
  PROVE  WindowInv'
<1> USE DEF WindowInv
<1> DEFINE f == [shown |-> TRUE, hash |-> h, listed |-> TRUE, whole |-> TRUE]
<1>1. /\ Happens \/ Answers
      /\ UNCHANGED <<tab, query, results, current, remembered>>
      /\ UNCHANGED <<downloadItems, registry, favorites, voted>>
      /\ \E left \in SUBSET asked : InsertCopy(h, copy, taken, left)
      /\ files' = files \/ (panel.hash = h /\ files' = f)
  BY DEF RemoteTorrentReceived, TorrentIndexed, shownVars, SetFiles
<1>2. copy \in Copy
  BY WindowAssumption DEF Copy
<1>3. f \in Files /\ f.hash = h
  BY DEF Files
<1> HIDE DEF f
<1>4. Searching' /\ Rows' /\ OtherKinds'
  BY <1>1, SearchingStays, RowsStay, OtherKindsStay DEF OtherKinds
<1>5. files' \in Files /\ files'.hash \in {panel.hash, NoTorrent}
  BY <1>1, <1>3 DEF Panels
<1>6. PICK left \in SUBSET asked : InsertCopy(h, copy, taken, left)
  BY <1>1
<1>7. left \subseteq Question
  BY DEF AskedFor
<1>8. Torrents' /\ Panels' /\ AskedFor'
  BY <1>1, <1>2, <1>5, <1>6, <1>7, InsertKeeps
<1> QED
  BY <1>4, <1>8

LEMMA TrackersKeep ==
  ASSUME WindowInv, NEW h \in WindowHash, NEW found \in BOOLEAN, TrackersAnswer(h, found)
  PROVE  WindowInv'
<1> USE DEF WindowInv
<1> DEFINE i == index[h].info \/ found
           new == [index[h] EXCEPT !.info = i]
<1>1. /\ Answers /\ asked' \subseteq asked /\ panel' = panel /\ files' = files
      /\ UNCHANGED <<tab, query, results, current, remembered>>
      /\ UNCHANGED <<downloadItems, registry, favorites, voted>>
      /\ index' = index \/ index' = Put(index, h, new)
  BY DEF TrackersAnswer, shownVars
<1>2. i \in BOOLEAN
  OBVIOUS
<1> HIDE DEF i
<1>3. new \in Stored
  BY <1>2 DEF Torrents, Stored
<1> HIDE DEF new
<1>4. Torrents'
  <2>1. CASE index' = index
    BY <2>1 DEF Torrents
  <2>2. CASE index' = Put(index, h, new)
    BY <1>3, <2>2, TorrentsPut
  <2> QED
    BY <1>1, <2>1, <2>2
<1>5. Searching' /\ Rows' /\ OtherKinds' /\ Panels' /\ AskedFor'
  BY <1>1, SearchingStays, RowsStay, OtherKindsStay, PanelsStay DEF OtherKinds, Panels, AskedFor
<1> QED
  BY <1>4, <1>5

LEMMA PosterKeeps ==
  ASSUME WindowInv, NEW h \in WindowHash, NEW ok \in BOOLEAN, PosterLoaded(h, ok)
  PROVE  WindowInv'
<1> USE DEF WindowInv
<1> DEFINE p == [panel EXCEPT !.poster = Own(h, ok)]
<1>1. /\ Answers /\ asked' \subseteq asked
      /\ UNCHANGED <<tab, query, results, current, remembered, files>>
      /\ UNCHANGED <<downloadItems, registry, index, favorites, voted>>
  BY DEF PosterLoaded, shownVars, serviceVars
<1>2. panel' = IF panel.hash = h THEN p ELSE panel
  BY DEF PosterLoaded, StillShown
<1>3. Searching' /\ Rows' /\ OtherKinds' /\ Torrents' /\ AskedFor'
  BY <1>1, SearchingStays, RowsStay, OtherKindsStay DEF OtherKinds, Torrents, AskedFor
<1>4. CASE panel.hash # h
  BY <1>1, <1>2, <1>3, <1>4, PanelsStay DEF Panels
<1>5. CASE panel.hash = h
  <2>1. Own(h, ok) \in {h, NoTorrent}
    BY DEF Own
  <2>2. /\ p \in Panel /\ p.hash = panel.hash /\ p.shown = panel.shown
        /\ p.download = panel.download /\ p.favorite = panel.favorite /\ p.votes = panel.votes
        /\ p.poster \in {h, NoTorrent}
    BY <2>1 DEF Panels, Panel
  <2>3. panel' = p
    BY <1>2, <1>5
  <2> HIDE DEF p
  <2>4. PanelOwn'
    BY <1>1, <1>5, <2>2, <2>3 DEF PanelOwn, Panels
  <2>5. Panels'
    BY <1>1, <2>2, <2>3, <2>4, PanelsTold
  <2> QED
    BY <1>3, <2>5
<1> QED
  BY <1>4, <1>5

LEMMA FavoriteKeeps ==
  ASSUME WindowInv, NEW h \in WindowHash, OnFavoriteClicked(h)
  PROVE  WindowInv'
<1> USE DEF WindowInv
<1> DEFINE p == [panel EXCEPT !.favorite = panel.hash \in favorites']
<1>1. /\ Acts /\ UNCHANGED <<tab, query, results, current, remembered, files>>
      /\ UNCHANGED <<registry, index, voted, asked>> /\ panel' = p
  BY DEF OnFavoriteClicked, ToggleFavorite, shownVars
<1>2. favorites' \subseteq WindowHash
  BY DEF OnFavoriteClicked, ToggleFavorite, Favored, Rows
<1>3. downloadItems' = [k \in DOMAIN downloadItems |->
                            [downloadItems[k] EXCEPT !.favorite = k \in favorites']]
  BY DEF OnFavoriteClicked, ToggleFavorite
<1>5. Searching' /\ Torrents' /\ OtherKinds' /\ AskedFor'
  BY <1>1, SearchingStays, OtherKindsStay DEF OtherKinds, Torrents, AskedFor
<1>6. Rows'
  <2>1. DOMAIN downloadItems' = DOMAIN downloadItems
    BY <1>3
  <2>2. ASSUME NEW k \in DOMAIN downloadItems
        PROVE  /\ downloadItems'[k] \in Row /\ downloadItems'[k].favorite = (k \in favorites')
               /\ downloadItems'[k].completed = downloadItems[k].completed
    <3>1. PICK c \in BOOLEAN, u \in BOOLEAN, b \in BOOLEAN :
            downloadItems[k] = [completed |-> c, paused |-> u, favorite |-> b]
      BY DEF Rows, Of, Row
    <3> DEFINE g == k \in favorites'
    <3>2. g \in BOOLEAN
      OBVIOUS
    <3>5. downloadItems'[k] = [downloadItems[k] EXCEPT !.favorite = g]
      BY <1>3
    <3> HIDE DEF g
    <3>3. downloadItems'[k] = [completed |-> c, paused |-> u, favorite |-> g]
      BY <3>1, <3>5
    <3>4. downloadItems'[k] \in Row /\ downloadItems'[k].favorite = g
          /\ downloadItems'[k].completed = downloadItems[k].completed
      BY <3>1, <3>2, <3>3 DEF Row
    <3> QED
      BY <3>4 DEF g
  <2>3. Of(downloadItems', Row)
    BY <2>1, <2>2 DEF Rows, Of
  <2>4. RowsAgree'
    BY <1>1, <2>1, <2>2 DEF Rows, RowsAgree
  <2> QED
    BY <1>1, <1>2, <2>3, <2>4 DEF Rows
<1>7. Panels'
  <2>1. /\ p \in Panel /\ p.hash = panel.hash /\ p.shown = panel.shown
        /\ p.download = panel.download /\ p.favorite = (panel.hash \in favorites')
        /\ p.votes = panel.votes /\ p.poster = panel.poster
    <3> DEFINE g == panel.hash \in favorites'
    <3>1. g \in BOOLEAN
      OBVIOUS
    <3>2. p = [panel EXCEPT !.favorite = g]
      OBVIOUS
    <3> HIDE DEF p, g
    <3>3. /\ p \in Panel /\ p.hash = panel.hash /\ p.shown = panel.shown
          /\ p.download = panel.download /\ p.favorite = g
          /\ p.votes = panel.votes /\ p.poster = panel.poster
      BY <3>1, <3>2 DEF Panels, Panel
    <3> QED
      BY <3>3 DEF g
  <2> HIDE DEF p
  <2>2. PanelOwn'
    BY <1>1, <2>1 DEF PanelOwn, Panels
  <2> QED
    BY <1>1, <2>1, <2>2, PanelsTold
<1> QED
  BY <1>5, <1>6, <1>7

LEMMA VotesShownKeep ==
  ASSUME WindowInv, NEW h \in WindowHash,
         \/ OnVoteClicked /\ h = panel.hash
         \/ OnVotesUpdated(h)
  PROVE  WindowInv'
<1> USE DEF WindowInv
<1> DEFINE new == [index[h] EXCEPT !.votes = TRUE]
<1>1. /\ Acts \/ Happens
      /\ UNCHANGED <<tab, query, results, current, remembered, files>>
      /\ UNCHANGED <<downloadItems, registry, favorites>>
      /\ index' = index \/ index' = Put(index, h, new)
      /\ voted' \subseteq WindowHash /\ asked' \subseteq asked \cup PosterOf(h)
  BY DEF OnVoteClicked, OnVotesUpdated, VotedIn, shownVars, OtherKinds
<1>2. new \in Stored
  BY DEF Torrents, Stored
<1> HIDE DEF new
<1>3. Torrents'
  <2>1. CASE index' = index
    BY <2>1 DEF Torrents
  <2>2. CASE index' = Put(index, h, new)
    BY <1>2, <2>2, TorrentsPut
  <2> QED
    BY <1>1, <2>1, <2>2
<1>4. Searching' /\ Rows' /\ OtherKinds'
  BY <1>1, SearchingStays, RowsStay, OtherKindsStay DEF OtherKinds
<1>5. AskedFor'
  BY <1>1, PosterAsks DEF AskedFor
<1>6. \/ panel' = panel
      \/ /\ panel.hash = h /\ panel' \in Panel
         /\ panel'.hash = panel.hash /\ panel'.shown = panel.shown
         /\ panel'.download = panel.download /\ panel'.favorite = panel.favorite
         /\ panel'.votes \in {panel.votes, h} /\ panel'.poster \in {panel.poster, h}
  <2> DEFINE p == TorrentUpdated(h, panel)
             r == IF index[h].known THEN p ELSE panel
  <2>1. panel \in Panel
    BY DEF Panels
  <2>2. /\ p \in Panel /\ p.hash = panel.hash /\ p.shown = panel.shown
        /\ p.download = panel.download /\ p.favorite = panel.favorite /\ p.votes = panel.votes
        /\ p.poster \in {panel.poster, h}
    BY <2>1 DEF TorrentUpdated, Panel
  <2>3. panel.hash # h => p = panel
    BY DEF TorrentUpdated
  <2> HIDE DEF p
  <2>4. CASE OnVotesUpdated(h)
    <3>1. panel' = IF panel.hash = h THEN [r EXCEPT !.votes = h] ELSE r
      BY <2>4 DEF OnVotesUpdated, VotesOfShown, p
    <3>2. /\ r \in Panel /\ r.hash = panel.hash /\ r.shown = panel.shown
          /\ r.download = panel.download /\ r.favorite = panel.favorite /\ r.votes = panel.votes
          /\ r.poster \in {panel.poster, h} /\ (panel.hash # h => r = panel)
      BY <2>1, <2>2, <2>3
    <3> HIDE DEF r
    <3> QED
      BY <3>1, <3>2 DEF Panel
  <2>5. CASE OnVoteClicked /\ h = panel.hash
    <3>1. \/ panel' = [p EXCEPT !.voted = TRUE, !.votes = h]
          \/ panel' = [panel EXCEPT !.voted = TRUE]
      BY <2>5 DEF OnVoteClicked, p
    <3>2. CASE panel' = [panel EXCEPT !.voted = TRUE]
      BY <2>1, <2>5, <3>2 DEF Panel
    <3>3. CASE panel' = [p EXCEPT !.voted = TRUE, !.votes = h]
      <4> DEFINE one == [p EXCEPT !.voted = TRUE]
      <4>1. /\ one \in Panel /\ one.hash = p.hash /\ one.shown = p.shown /\ one.download = p.download
            /\ one.favorite = p.favorite /\ one.poster = p.poster
        BY <2>2 DEF Panel
      <4>2. panel' = [one EXCEPT !.votes = h]
        BY <2>2, <3>3 DEF Panel
      <4> HIDE DEF one
      <4>3. /\ panel' \in Panel /\ panel'.hash = one.hash /\ panel'.shown = one.shown
            /\ panel'.download = one.download /\ panel'.favorite = one.favorite
            /\ panel'.poster = one.poster /\ panel'.votes = h
        BY <4>1, <4>2 DEF Panel
      <4> QED
        BY <2>2, <2>5, <4>1, <4>3
    <3> QED
      BY <3>1, <3>2, <3>3
  <2> QED
    BY <2>4, <2>5
<1>7. Panels'
  <2>1. CASE panel' = panel
    BY <1>1, <2>1, PanelsStay DEF Panels
  <2>2. CASE panel' # panel
    <3>1. PanelOwn'
      BY <1>1, <1>6, <2>2 DEF PanelOwn, Panels
    <3> QED
      BY <1>1, <1>6, <2>2, <3>1, PanelsTold
  <2> QED
    BY <2>1, <2>2
<1> QED
  BY <1>3, <1>4, <1>5, <1>7

-----------------------------------------------------------------------------
\* The downloads and their rows.

LEMMA RowsPut ==
  ASSUME Rows, NEW h \in WindowHash, NEW d \in DownloadItem, NEW r \in Row,
         r.completed = d.completed, r.favorite = (h \in favorites), favorites' = favorites,
         registry' = Put(registry, h, d), downloadItems' = Put(downloadItems, h, r)
  PROVE  Rows' /\ DOMAIN registry \subseteq DOMAIN registry' /\ h \in DOMAIN registry'
<1>1. /\ Of(registry', DownloadItem) /\ DOMAIN registry' = DOMAIN registry \cup {h}
      /\ registry'[h] = d /\ \A k \in DOMAIN registry : k # h => registry'[k] = registry[k]
  BY DEF Put, Of, Rows
<1>2. /\ Of(downloadItems', Row) /\ DOMAIN downloadItems' = DOMAIN downloadItems \cup {h}
      /\ downloadItems'[h] = r
      /\ \A k \in DOMAIN downloadItems : k # h => downloadItems'[k] = downloadItems[k]
  BY DEF Put, Of, Rows
<1>3. RowsAgree'
  BY <1>1, <1>2 DEF Rows, RowsAgree
<1> QED
  BY <1>1, <1>2, <1>3 DEF Rows

LEMMA RegistryPut ==
  ASSUME Rows, NEW h \in DOMAIN registry, NEW d \in DownloadItem,
         d.completed = registry[h].completed, favorites' = favorites,
         registry' = Put(registry, h, d), downloadItems' = downloadItems
  PROVE  Rows' /\ DOMAIN registry' = DOMAIN registry
<1>1. /\ Of(registry', DownloadItem) /\ DOMAIN registry' = DOMAIN registry
      /\ registry'[h] = d /\ \A k \in DOMAIN registry : k # h => registry'[k] = registry[k]
  BY DEF Put, Of, Rows
<1>2. RowsAgree'
  BY <1>1 DEF Rows, RowsAgree
<1> QED
  BY <1>1, <1>2 DEF Rows

\* A step of the downloads: what it leaves alone stays right.
LEMMA DownloadsStep ==
  ASSUME WindowInv, Rows', Panels', OtherKinds', UNCHANGED <<shownVars, index, asked>>
  PROVE  WindowInv'
<1> USE DEF WindowInv
<1>1. UNCHANGED <<tab, query, results, current, remembered>>
  BY DEF shownVars
<1>2. Searching' /\ Torrents' /\ AskedFor'
  BY <1>1, SearchingStays DEF Torrents, AskedFor
<1> QED
  BY <1>2

LEMMA OtherKindsStep ==
  ASSUME WindowInv, Acts \/ Happens \/ Answers, UNCHANGED <<shownVars, voted>>
  PROVE  OtherKinds'
BY OtherKindsStay DEF WindowInv, OtherKinds, shownVars

LEMMA AskingKeeps ==
  ASSUME WindowInv, OnDownloadRequested, panel.hash \in WindowHash
  PROVE  WindowInv'
<1> USE DEF WindowInv
<1>1. /\ acts' = acts + 1 /\ acts < MaxActs /\ happenings' = happenings /\ dialog' = panel.hash
      /\ UNCHANGED <<shownVars, panel, files, serviceVars, asked>>
  BY DEF OnDownloadRequested
<1>2. UNCHANGED <<downloadItems, registry, index, favorites, voted>> /\ tab' = tab
  BY <1>1 DEF serviceVars, shownVars
<1>3. OtherKinds'
  BY <1>1, <1>2, WindowBounds DEF OtherKinds
<1>4. Rows' /\ Panels'
  BY <1>1, <1>2, RowsStay, PanelsStay DEF Panels
<1> QED
  BY <1>1, <1>2, <1>3, <1>4, DownloadsStep

LEMMA StartKeeps ==
  ASSUME WindowInv, NEW h \in WindowHash,
         \/ OnDownloadStarted(h)
         \/ h = dialog /\ \E chosen \in BOOLEAN : DownloadChosen(chosen)
  PROVE  WindowInv'
<1> USE DEF WindowInv
<1> DEFINE d == [completed |-> FALSE, paused |-> FALSE, whole |-> TRUE, told |-> {}]
           p == [panel EXCEPT !.download = "progress"]
<1>1. UNCHANGED <<shownVars, index, voted, asked>> /\ UNCHANGED <<files, favorites>>
  BY DEF OnDownloadStarted, DownloadChosen
<1>2. \/ UNCHANGED <<registry, downloadItems, panel>>
      \/ /\ registry' = Put(registry, h, d) /\ downloadItems' = Put(downloadItems, h, NewRow(h))
         /\ panel' = panel \/ (panel' = p /\ panel.hash = h)
  BY DEF OnDownloadStarted, DownloadChosen, Started
<1>3. OtherKinds'
  <2>1. CASE OnDownloadStarted(h)
    BY <1>1, <2>1, OtherKindsStep DEF OnDownloadStarted
  <2>2. CASE \E chosen \in BOOLEAN : DownloadChosen(chosen)
    <3>1. dialog' = NoTorrent /\ UNCHANGED <<acts, happenings>>
      BY <2>2 DEF DownloadChosen
    <3>2. tab' = tab
      BY <1>1 DEF shownVars
    <3> QED
      BY <1>1, <3>1, <3>2 DEF OtherKinds
  <2> QED
    BY <2>1, <2>2
<1>4. CASE UNCHANGED <<registry, downloadItems, panel>>
  <2>1. Rows' /\ Panels'
    BY <1>1, <1>4, RowsStay, PanelsStay DEF Panels
  <2> QED
    BY <1>1, <1>3, <2>1, DownloadsStep
<1>5. CASE registry' = Put(registry, h, d) /\ downloadItems' = Put(downloadItems, h, NewRow(h))
  <2>1. /\ d \in DownloadItem /\ NewRow(h) \in Row /\ NewRow(h).completed = d.completed
        /\ NewRow(h).favorite = (h \in favorites)
    BY DEF DownloadItem, Row, NewRow
  <2> HIDE DEF d
  <2>2. Rows' /\ DOMAIN registry \subseteq DOMAIN registry' /\ h \in DOMAIN registry'
    BY <1>1, <1>5, <2>1, RowsPut
  <2>3. CASE panel' = panel
    <3>1. Panels'
      BY <1>1, <2>2, <2>3, PanelsStay DEF Panels
    <3> QED
      BY <1>1, <1>3, <2>2, <3>1, DownloadsStep
  <2>4. CASE panel' = p /\ panel.hash = h
    <3>1. /\ p \in Panel /\ p.hash = panel.hash /\ p.shown = panel.shown
          /\ p.favorite = panel.favorite /\ p.votes = panel.votes /\ p.poster = panel.poster
      BY DEF Panels, Panel
    <3> HIDE DEF p
    <3>2. PanelOwn'
      BY <1>1, <2>2, <2>4, <3>1 DEF PanelOwn, Panels
    <3>3. Panels'
      BY <1>1, <2>4, <3>1, <3>2, PanelsTold
    <3> QED
      BY <1>1, <1>3, <2>2, <3>3, DownloadsStep
  <2> QED
    BY <1>2, <1>4, <2>3, <2>4
<1> QED
  BY <1>2, <1>4, <1>5

LEMMA RemovalKeeps ==
  ASSUME WindowInv, NEW h \in WindowHash, OnCancelRequested(h) \/ DownloadRemoved(h)
  PROVE  WindowInv'
<1> USE DEF WindowInv
<1> DEFINE p == [panel EXCEPT !.download = "none"]
<1>1. /\ Acts \/ Happens \/ Answers
      /\ UNCHANGED <<shownVars, index, voted, asked>> /\ UNCHANGED <<files, favorites>>
      /\ registry' = Omit(registry, h) /\ downloadItems' = Omit(downloadItems, h)
      /\ panel' = IF panel.hash = h THEN p ELSE panel
  BY DEF OnCancelRequested, DownloadRemoved, Removed, RemovedFromPanel
<1>2. /\ Of(registry', DownloadItem) /\ DOMAIN registry' = DOMAIN registry \ {h}
      /\ \A k \in DOMAIN registry' : registry'[k] = registry[k]
  BY <1>1 DEF Omit, Of, Rows
<1>3. /\ Of(downloadItems', Row) /\ DOMAIN downloadItems' = DOMAIN downloadItems \ {h}
      /\ \A k \in DOMAIN downloadItems' : downloadItems'[k] = downloadItems[k]
  BY <1>1 DEF Omit, Of, Rows
<1>4. RowsAgree'
  BY <1>1, <1>2, <1>3 DEF Rows, RowsAgree
<1>5. Rows'
  BY <1>1, <1>2, <1>3, <1>4 DEF Rows
<1>6. /\ p \in Panel /\ p.hash = panel.hash /\ p.shown = panel.shown /\ p.download = "none"
      /\ p.favorite = panel.favorite /\ p.votes = panel.votes /\ p.poster = panel.poster
  BY DEF Panels, Panel
<1> HIDE DEF p
<1>7. /\ panel' \in Panel /\ panel'.hash = panel.hash /\ panel'.shown = panel.shown
      /\ panel'.favorite = panel.favorite /\ panel'.votes = panel.votes
      /\ panel'.poster = panel.poster
      /\ panel'.download # "none" => panel'.download = panel.download /\ panel.hash # h
  BY <1>1, <1>6 DEF Panels
<1>8. PanelOwn'
  BY <1>1, <1>2, <1>7 DEF PanelOwn, Panels
<1>9. Panels'
  BY <1>1, <1>7, <1>8, PanelsTold
<1> QED
  BY <1>1, <1>5, <1>9, OtherKindsStep, DownloadsStep

LEMMA PauseKeeps ==
  ASSUME WindowInv, NEW h \in WindowHash, OnPauseToggled(h) \/ PauseToggled(h)
  PROVE  WindowInv'
<1> USE DEF WindowInv
<1> DEFINE d == [registry[h] EXCEPT !.paused = ~registry[h].paused]
           r == [downloadItems[h] EXCEPT !.paused = ~registry[h].paused]
<1>1. /\ Acts \/ Happens \/ Answers
      /\ UNCHANGED <<shownVars, index, voted, asked>> /\ UNCHANGED <<files, favorites, panel>>
      /\ registry' = Put(registry, h, d)
      /\ downloadItems' = Put(downloadItems, h, r) \/ downloadItems' = downloadItems
      /\ h \in DOMAIN registry /\ h \in DOMAIN downloadItems
  BY DEF OnPauseToggled, PauseToggled, Toggled, Rows, RowsAgree
<1>2. d \in DownloadItem /\ d.completed = registry[h].completed
  BY <1>1 DEF Rows, Of, DownloadItem
<1>3. r \in Row /\ r.completed = downloadItems[h].completed /\ r.favorite = downloadItems[h].favorite
  BY <1>1, <1>2 DEF Rows, Of, Row, DownloadItem
<1>4. downloadItems[h].completed = registry[h].completed
      /\ downloadItems[h].favorite = (h \in favorites)
  BY <1>1 DEF Rows, RowsAgree
<1> HIDE DEF d, r
<1>5. Rows' /\ DOMAIN registry \subseteq DOMAIN registry'
  <2>1. CASE downloadItems' = downloadItems
    BY <1>1, <1>2, <2>1, RegistryPut
  <2>2. CASE downloadItems' = Put(downloadItems, h, r)
    BY <1>1, <1>2, <1>3, <1>4, <2>2, RowsPut
  <2> QED
    BY <1>1, <2>1, <2>2
<1>6. Panels'
  BY <1>1, <1>5, PanelsStay DEF Panels
<1> QED
  BY <1>1, <1>5, <1>6, OtherKindsStep, DownloadsStep

LEMMA ProgressKeeps ==
  ASSUME WindowInv, NEW h \in WindowHash, NEW complete \in BOOLEAN, OnProgressUpdated(h, complete)
  PROVE  WindowInv'
<1> USE DEF WindowInv
<1> DEFINE d == [registry[h] EXCEPT !.completed = registry[h].completed \/ complete]
           m == Payload(d)
           e == [d EXCEPT !.told = {m}]
           r == Shown(downloadItems[h], m)
           w == IF d.completed /\ ~registry[h].completed THEN "completed" ELSE "progress"
           p == [panel EXCEPT !.download = w]
<1>1. /\ Answers /\ h \in DOMAIN registry
      /\ UNCHANGED <<shownVars, index, voted, asked>> /\ UNCHANGED <<files, favorites>>
      /\ registry' = Put(registry, h, e) /\ downloadItems' = Put(downloadItems, h, r)
      /\ panel' = IF panel.hash # h THEN panel ELSE p
  BY DEF OnProgressUpdated, RowTold
<1>2. PICK c \in BOOLEAN, u \in BOOLEAN, l \in BOOLEAN, t \in SUBSET Progress :
        registry[h] = [completed |-> c, paused |-> u, whole |-> l, told |-> t]
  BY <1>1 DEF Rows, Of, DownloadItem
<1>3. (c \/ complete) \in BOOLEAN
  OBVIOUS
<1>4. d = [completed |-> c \/ complete, paused |-> u, whole |-> l, told |-> t]
  BY <1>2
<1>5. m = [completed |-> c \/ complete, paused |-> u]
  BY <1>4 DEF Payload
<1>6. {m} \in SUBSET Progress
  BY <1>3, <1>5 DEF Progress
<1> HIDE DEF m
<1> HIDE DEF d
<1>7. e = [completed |-> c \/ complete, paused |-> u, whole |-> l, told |-> {m}]
  BY <1>4
<1>8. e \in DownloadItem /\ e.completed = (c \/ complete)
  BY <1>3, <1>6, <1>7 DEF DownloadItem
<1>9. h \in DOMAIN downloadItems /\ downloadItems[h] \in Row /\ downloadItems[h].completed = c
      /\ downloadItems[h].favorite = (h \in favorites)
  BY <1>1, <1>2 DEF Rows, RowsAgree, Of
<1>10. m.completed = (c \/ complete) /\ m.paused = u
  BY <1>5
<1>11. r \in Row /\ r.completed = (c \/ complete) /\ r.favorite = downloadItems[h].favorite
  BY <1>9, <1>10 DEF Shown, Row
<1>12. w \in {"progress", "completed"}
  OBVIOUS
<1> HIDE DEF e, r
<1>13. Rows' /\ DOMAIN registry \subseteq DOMAIN registry' /\ h \in DOMAIN registry'
  BY <1>1, <1>8, <1>9, <1>11, RowsPut
<1>14. CASE panel.hash # h
  <2>1. Panels'
    BY <1>1, <1>13, <1>14, PanelsStay DEF Panels
  <2> QED
    BY <1>1, <1>13, <2>1, OtherKindsStep, DownloadsStep
<1>15. CASE panel.hash = h
  <2>1. /\ p \in Panel /\ p.hash = panel.hash /\ p.shown = panel.shown
        /\ p.favorite = panel.favorite /\ p.votes = panel.votes /\ p.poster = panel.poster
    BY <1>12 DEF Panels, Panel
  <2> HIDE DEF p
  <2>2. PanelOwn'
    BY <1>1, <1>13, <1>15, <2>1 DEF PanelOwn, Panels
  <2>3. Panels'
    BY <1>1, <1>15, <2>1, <2>2, PanelsTold
  <2> QED
    BY <1>1, <1>13, <2>3, OtherKindsStep, DownloadsStep
<1> QED
  BY <1>14, <1>15

LEMMA FilesKeep ==
  ASSUME WindowInv, OnFileItemChanged
  PROVE  WindowInv'
<1> USE DEF WindowInv
<1> DEFINE h == files.hash
           d == [registry[h] EXCEPT !.whole = ~files.whole]
<1>1. /\ Acts /\ UNCHANGED <<shownVars, index, voted, asked>>
      /\ UNCHANGED <<panel, downloadItems, favorites>>
      /\ files' = [files EXCEPT !.whole = ~files.whole]
      /\ registry' = IF h \in DOMAIN registry THEN Put(registry, h, d) ELSE registry
  BY DEF OnFileItemChanged
<1>2. files' \in Files /\ files'.hash = files.hash /\ files.whole \in BOOLEAN
  BY <1>1 DEF Panels, Files
<1>3. h \in DOMAIN registry => d \in DownloadItem /\ d.completed = registry[h].completed
  BY <1>2 DEF Rows, Of, DownloadItem
<1> HIDE DEF h, d
<1>4. Rows' /\ DOMAIN registry \subseteq DOMAIN registry'
  <2>1. CASE h \in DOMAIN registry
    BY <1>1, <1>3, <2>1, RegistryPut
  <2>2. CASE h \notin DOMAIN registry
    BY <1>1, <2>2, RowsStay
  <2> QED
    BY <2>1, <2>2
<1>5. files'.hash \in {panel.hash, NoTorrent}
  BY <1>2 DEF Panels
<1>6. Panels'
  BY <1>1, <1>2, <1>4, <1>5, PanelsStay
<1> QED
  BY <1>1, <1>4, <1>6, OtherKindsStep, DownloadsStep

LEMMA ShownIsThere == ASSUME WindowInv, panel.shown
                      PROVE  panel.hash \in WindowHash
BY DEF WindowInv, Panels, Panel

LEMMA WindowKeeps == WindowInv /\ [WindowNext]_windowVars => WindowInv'
<1> SUFFICES ASSUME WindowInv, [WindowNext]_windowVars
             PROVE  WindowInv'
  OBVIOUS
<1>1. CASE UNCHANGED windowVars
  <2>1. /\ UNCHANGED <<shownVars, serviceVars, panel, files>>
        /\ UNCHANGED <<asked, acts, happenings, dialog>>
    BY <1>1 DEF windowVars
  <2>2. Answers
    BY <2>1 DEF Answers
  <2>3. UNCHANGED <<tab, query, results, current, remembered>>
        /\ UNCHANGED <<downloadItems, registry, index, favorites, voted>>
    BY <2>1 DEF shownVars, serviceVars
  <2>4. Searching' /\ Rows' /\ OtherKinds'
    BY <2>2, <2>3, SearchingStays, RowsStay, OtherKindsStay DEF WindowInv, OtherKinds
  <2>5. Torrents' /\ AskedFor'
    BY <2>1, <2>3 DEF WindowInv, Torrents, AskedFor
  <2>6. Panels'
    BY <2>1, <2>3, PanelsStay DEF WindowInv, Panels
  <2> QED
    BY <2>4, <2>5, <2>6 DEF WindowInv
<1>2. CASE \E t \in {"results", "torrents", "downloads"} : OnTabChanged(t)
  BY <1>2, TabsKeep
<1>3. CASE OnDetailsPanelCloseRequested
  BY <1>3, CloseKeeps
<1>4. CASE OnVoteClicked
  <2>1. panel.hash \in WindowHash
    BY <1>4, ShownIsThere DEF OnVoteClicked
  <2> QED
    BY <1>4, <2>1, VotesShownKeep
<1>5. CASE OnDownloadRequested
  <2>1. panel.hash \in WindowHash
    BY <1>5, ShownIsThere DEF OnDownloadRequested
  <2> QED
    BY <1>5, <2>1, AskingKeeps
<1>6. CASE OnFileItemChanged
  BY <1>6, FilesKeep
<1>7. CASE \E q \in Query : PerformSearch(q)
  BY <1>7, SearchKeeps
<1>8. CASE \E q \in Query, h \in WindowHash, copy \in Copies :
             RemoteSearchResults(q, h, copy) \/ RemoteFileSearchResults(q, h, copy)
  BY <1>8, RemoteHitsKeep
<1>9. CASE \E q \in DOMAIN HashQuery, ok \in BOOLEAN, taken \in BOOLEAN : DhtAnswers(q, ok, taken)
  BY <1>9, DhtKeeps
<1>20. CASE \E h \in WindowHash : OnTorrentSelected(h)
  <2>1. PICK h \in WindowHash : OnTorrentSelected(h)
    BY <1>20
  <2>2. results[h].copy \in Copy
    BY <2>1 DEF OnTorrentSelected, WindowInv, Searching, Of, Hit
  <2> QED
    BY <2>1, <2>2, SelectionKeeps
<1>10. CASE \E h \in WindowHash, copy \in Copy : TorrentSelected(h, copy)
  BY <1>10, SelectionKeeps
<1>21. CASE \E chosen \in BOOLEAN : DownloadChosen(chosen)
  <2>1. dialog \in WindowHash
    BY <1>21 DEF DownloadChosen, WindowInv, OtherKinds
  <2> QED
    BY <1>21, <2>1, StartKeeps
<1>11. CASE \E h \in WindowHash, copy \in Copies, taken \in BOOLEAN :
             RemoteTorrentReceived(h, copy, taken) \/ TorrentIndexed(h, copy, taken)
  BY <1>11, TorrentKeeps
<1>12. CASE \E h \in WindowHash : OnFavoriteClicked(h)
  BY <1>12, FavoriteKeeps
<1>13. CASE \E h \in WindowHash : OnVotesUpdated(h)
  BY <1>13, VotesShownKeep
<1>14. CASE \E h \in WindowHash : OnDownloadStarted(h)
  BY <1>14, StartKeeps
<1>15. CASE \E h \in WindowHash : OnCancelRequested(h) \/ DownloadRemoved(h)
  BY <1>15, RemovalKeeps
<1>16. CASE \E h \in WindowHash : OnPauseToggled(h) \/ PauseToggled(h)
  BY <1>16, PauseKeeps
<1>17. CASE \E h \in WindowHash, b \in BOOLEAN : TrackersAnswer(h, b)
  BY <1>17, TrackersKeep
<1>18. CASE \E h \in WindowHash, b \in BOOLEAN : PosterLoaded(h, b)
  BY <1>18, PosterKeeps
<1>19. CASE \E h \in WindowHash, b \in BOOLEAN : OnProgressUpdated(h, b)
  BY <1>19, ProgressKeeps
<1> QED
  BY <1>1, <1>2, <1>3, <1>4, <1>5, <1>6, <1>7, <1>8, <1>9, <1>10, <1>11, <1>12, <1>13, <1>14,
     <1>15, <1>16, <1>17, <1>18, <1>19, <1>20, <1>21 DEF WindowNext

\* The window of a session, whatever is asked and answered in which order (src/src/ui).
THEOREM WindowIsRightHolds == WindowSpec => [](WindowTypeOK /\ WindowIsRight)
<1>1. WindowSpec => []WindowInv
  BY WindowStarts, WindowKeeps, PTL DEF WindowSpec
<1> QED
  BY <1>1, WindowGives, PTL

-----------------------------------------------------------------------------
(* The properties of the program                                            *)

\* The registry, librats and the requesters of a .torrent agree, however commands,
\* restarts and answers mix (download_service.cpp, torrent_exporter.cpp).
THEOREM DownloadsRightHolds == PeersSpec => []DownloadsRight
<1> QED
  BY RegistryAgreesHolds, MarkedIffOwedHolds, PTL DEF PeersSpec, DownloadsRight

\* Votes, the feed and the table of peers survive restarts, failed writes and news that
\* comes late (voting_service.cpp, feed_service.cpp, p2p_transport.cpp, peer_registry.cpp).
THEOREM NodesRightHolds == PeersSpec => []NodesRight
<1> QED
  BY VotedOnceAndOwedHolds, PeersAgreeHolds, PTL DEF PeersSpec, NodesRight

\* What any part keeps stays of its kind: tables, queues and counts within their bounds.
THEOREM PeersTypeOKHolds == PeersSpec => []PeersTypeOK
<1>1. DownloadSpec => []DownloadTypeOK
  BY DownloadStarts, DownloadsKeep, RegistryGivesTypeOK, PTL DEF DownloadSpec
<1>2. TorrentExportSpec => []TorrentExportTypeOK
  <2>1. OwedInv => TorrentExportTypeOK
    BY DEF OwedInv
  <2> QED
    BY <2>1, OwedStarts, TorrentExportKeeps, PTL DEF TorrentExportSpec
<1>3. RestSpec => []RestTypeOK
  <2>1. RestInv => RestTypeOK
    BY RestGives
  <2> QED
    BY <2>1, RestStarts, RestKeeps, PTL DEF RestSpec
<1> QED
  BY <1>1, <1>2, <1>3, VotedTypeOKHolds, TransportTypeOKHolds, ExchangeTypeOKHolds,
     TrackerTypeOKHolds, WindowIsRightHolds, PTL DEF PeersSpec, PeersTypeOK
=============================================================================
