------------------------------- MODULE MCFeed -------------------------------
(* Small instances of Feed. *)
EXTENDS Feed

CONSTANTS n1, n2, h1, h2, h3, h4

\* n1 votes on one torrent, good or bad; n2 on another. Others come from elsewhere.
TwoTorrents == {<<n1, h1, 0>>, <<n1, h1, 1>>, <<n2, h2, 0>>}
OneTorrent == {<<n1, h1, 0>>}

\* h4 is refused: one answer counts it, another lists more than fits.
ListOf(hashes) == [h \in Hash |-> IF h \in hashes THEN [votes |-> 0, feedDate |-> 1]
                                  ELSE None]
OtherPrograms == {<<n2, [items |-> ListOf({h1, h4}), size |-> 2, date |-> 2]>>,
                  <<n2, [items |-> ListOf({h1, h2, h3}), size |-> 3, date |-> 1]>>}
NoOthers == {}

Succeeds == {TRUE}
MayFail == BOOLEAN
=============================================================================
