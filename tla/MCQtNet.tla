------------------------------- MODULE MCQtNet -------------------------------
(***************************************************************************)
(* Small instances of the Qt program's parts that face peers, trackers,    *)
(* clients and the user, in one module: the downloads, the .torrent export,*)
(* the votes and the feed, the transport, two nodes that exchange torrents,*)
(* the trackers, the API and the main window.                              *)
(* `scene` is the part that is on; no two parts share a variable, so the   *)
(* run explores the sum of their state spaces and not the product.         *)
(***************************************************************************)
EXTENDS QtPeers, TLC

VARIABLE scene

vars == <<scene, downloadVars, torrentExportVars, votedVars, transportVars, exchangeVars,
          trackerVars, restVars, windowVars>>

-----------------------------------------------------------------------------
(* PeerExchange: one torrent, which one node has with files and a vote and  *)
(* the other has not, or has without either; the other asks                 *)

Good == [count |-> TRUE, list |-> TRUE, good |-> 1]
Bare == [count |-> FALSE, list |-> FALSE, good |-> 0]
OnNodes(a, b) == ("a" :> a) @@ ("b" :> b)
NothingRefused == OnNodes({}, {})
FirstRows == {OnNodes("h" :> Good, <<>>), OnNodes("h" :> Good, "h" :> Bare)}
FirstFeeds == {OnNodes({"h"}, {})}

(* TrackerService: what the parser makes of a page: nothing, or all there is *)

Pages == {[title |-> FALSE, poster |-> FALSE, thread |-> FALSE],
          [title |-> TRUE, poster |-> TRUE, thread |-> TRUE]}

(* RestApi: what an HTTP and a WebSocket client may ask                     *)

Asks(method, filesToo, peerToo) ==
    [method |-> method, hash |-> "h", files |-> filesToo, peer |-> peerToo, dryRun |-> filesToo]
Asked == {Asks("torrent.get", TRUE, TRUE)}
         \cup {Asks(m, FALSE, FALSE) : m \in {"search.torrents", "torrent.get", "torrent.import",
                  "torrent.remove", "torrent.cleanup", "update.check", "unknown"}}

(* MainWindow: two torrents, of which one is in the repository and was      *)
(* downloaded; two searches, one of them by info hash                       *)

Named == ("p" :> {"h1"}) @@ ("q" :> {"h2"})
FileNamed == ("p" :> {}) @@ ("q" :> {"h2"})
HashNamed == "p" :> "h1"
FinishedOne == "h2" :> TRUE
\* What a peer, the feed or the favorites say of a torrent: that it has votes and a
\* page, or its files.
OfOthers == {[votes |-> TRUE, info |-> TRUE, listed |-> FALSE],
             [votes |-> FALSE, info |-> FALSE, listed |-> TRUE]}

ASSUME /\ VotedAssumption /\ ExchangeAssumption /\ TrackerAssumption /\ RestAssumption
       /\ TransportAssumption /\ WindowAssumption

-----------------------------------------------------------------------------
(* The composition                                                          *)

\* A part that is not on rests in one of its initial states.
Init ==
    /\ scene \in {"downloads", "export", "votes", "transport", "exchange", "trackers", "api",
                  "window"}
    /\ DownloadInit
    /\ TorrentExportInit /\ (scene # "export" => available /\ loaded = {})
    /\ VotedInit
    /\ TransportInit /\ (scene # "transport" => sharing)
    /\ ExchangeInit /\ (scene # "exchange" => nodeRows["b"] = <<>> /\ ~replicating["b"])
    /\ TrackerInit /\ (scene # "trackers" => enabled.info)
    /\ RestInit /\ (scene # "api" => indexed["h"] = "bare" /\ bittorrent /\ update = "Idle")
    /\ WindowInit

On(part) ==
    /\ scene = part /\ UNCHANGED scene
    /\ part # "downloads" => UNCHANGED downloadVars
    /\ part # "export" => UNCHANGED torrentExportVars
    /\ part # "votes" => UNCHANGED votedVars
    /\ part # "transport" => UNCHANGED transportVars
    /\ part # "exchange" => UNCHANGED exchangeVars
    /\ part # "trackers" => UNCHANGED trackerVars
    /\ part # "api" => UNCHANGED restVars
    /\ part # "window" => UNCHANGED windowVars

Next ==
    \/ On("downloads") /\ DownloadNext
    \/ On("export") /\ TorrentExportNext
    \/ On("votes") /\ VotedNext
    \/ On("transport") /\ TransportNext
    \/ On("exchange") /\ ExchangeNext
    \/ On("trackers") /\ TrackerNext
    \/ On("api") /\ RestNext
    \/ On("window") /\ WindowNext

Spec == Init /\ [][Next]_vars
=============================================================================
