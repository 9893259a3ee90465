-------------------------------- MODULE Engine --------------------------------
(***************************************************************************)
(* What the native program runs: the downloads, the index and the swarm    *)
(* scraper on the engine loop, the node host beside them, the terminal     *)
(* interface with threads of its own, and the batch commands instead of    *)
(* all of these.  No two of them share state: a handler is a step of one.  *)
(***************************************************************************)
EXTENDS PeerNode, Downloads, TorrentIndex, SwarmScraper, Tui, Batch

EngineSpec == Spec /\ DownloadsSpec /\ IndexSpec /\ SwarmSpec /\ TuiSpec /\ BatchSpec

\* What is kept stays of its kind, with the relations each part states beside it
\* (a slot count in its bound, a file that belongs to a download).
NativeTypeOK == TypeOK /\ DownloadsTypeOK /\ IndexTypeOK /\ SwarmTypeOK /\ TuiTypeOK /\ BatchTypeOK

\* A completed download stays so (downloads.cpp); a prune chain that ends has
\* reached the cap, or can delete nothing more (groonga_index.cpp, indexer.cpp).
NoStepBack == NeverDowngraded /\ EndsAtCap
=============================================================================
