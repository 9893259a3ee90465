----------------------------- MODULE MCCrawler -----------------------------
(* Small instances of Crawler. *)
EXTENDS Crawler

CONSTANTS a1, a2, a3, h1, h2

\* Two announces name their peer and one does not. Two of them, or all three, may
\* be of the same torrent.
ThreeAnnounces == {<<a1, h1, TRUE>>, <<a2, h1, FALSE>>, <<a2, h2, FALSE>>,
                   <<a3, h2, TRUE>>, <<a3, h1, TRUE>>}
=============================================================================
