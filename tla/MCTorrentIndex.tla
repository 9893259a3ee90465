--------------------------- MODULE MCTorrentIndex ---------------------------
(* Small instances of TorrentIndex. *)
EXTENDS TorrentIndex

CONSTANTS h1, h2, h3

Found(h, seeders, added, info, list) ==
    [hash |-> h, seeders |-> seeders, added |-> added, info |-> info, list |-> list]

\* From the DHT: no seeders, files known. From a peer: seeded, maybe without files.
CrawledOrFeed == {Found(h1, 0, a, {}, TRUE) : a \in Dates} \cup {Found(h1, 1, 0, {}, FALSE)}
=============================================================================
