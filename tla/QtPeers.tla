------------------------------- MODULE QtPeers -------------------------------
(***************************************************************************)
(* The parts of the Qt program that face librats, peers, trackers and      *)
(* clients, of which no two share state: the downloads, the export of a    *)
(* .torrent, the votes and the feed, the transport with the table of       *)
(* peers, what two nodes exchange, the trackers, the API and the window.   *)
(***************************************************************************)
EXTENDS DownloadService, TorrentExport, VotedFeed, Transport, PeerExchange, TrackerService,
        RestApi, MainWindow

PeersSpec == /\ DownloadSpec /\ TorrentExportSpec /\ VotedSpec /\ TransportSpec
             /\ ExchangeSpec /\ TrackerSpec /\ RestSpec /\ WindowSpec

\* What is kept stays of its kind, with the bounds each part states beside it.
PeersTypeOK == /\ DownloadTypeOK /\ TorrentExportTypeOK /\ VotedTypeOK /\ TransportTypeOK
               /\ ExchangeTypeOK /\ TrackerTypeOK /\ RestTypeOK /\ WindowTypeOK

\* DownloadService, TorrentExport: the registry and librats hold the same
\* downloads, and a .torrent is under way exactly if its requester is owed one.
DownloadsRight == RegistryAgrees /\ MarkedIffOwed

\* VotedFeed, Transport: a vote of ours counts once and a changed feed is owed to
\* its table; the peers that are listed are those that are there.
NodesRight == VotedOnceAndOwed /\ PeersAgree
=============================================================================
