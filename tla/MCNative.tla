------------------------------ MODULE MCNative ------------------------------
(***************************************************************************)
(* Small instances of the parts of the native program that have no run of  *)
(* their own, in one module: the node and its peers, the downloads, the    *)
(* index, the swarm scraper, the terminal interface and the batch commands.*)
(* `scene` is the part that is on; no two parts share a variable, so the   *)
(* run explores the sum of their state spaces and not the product.         *)
(***************************************************************************)
EXTENDS Engine, TLC

VARIABLE scene

vars == <<scene, downloadsVars, indexVars, nodeVars, swarmVars, tuiVars, batchVars>>

-----------------------------------------------------------------------------
(* Downloads: one torrent of two pieces through two runs of the program     *)

NoFile == [h \in {"h"} |-> Nothing]
\* A finished torrent of which one file is deselected, kept for seeding.
Seeding == [completed |-> TRUE, paused |-> FALSE, removeOnDone |-> FALSE,
            bytes |-> 2, sized |-> TRUE, files |-> "some"]
\* A paused one the Qt program was told to remove when it is done.
Leftover == [completed |-> FALSE, paused |-> TRUE, removeOnDone |-> TRUE,
             bytes |-> 0, sized |-> TRUE, files |-> "all"]

Sessions == {NoFile, [h \in {"h"} |-> Seeding], [h \in {"h"} |-> Leftover]}

-----------------------------------------------------------------------------
(* TorrentIndex: three torrents, a cap of one with a slack of one, one that *)
(* cannot be deleted, a crash anywhere                                      *)

Found(h, seeders, added, info, list) ==
    [hash |-> h, seeders |-> seeders, added |-> added, info |-> info, list |-> list]
\* h1 is crawled, h2 crawled and received from a peer, h3 received with the
\* extras a site scrape gave the peer.
Mixed == {Found("h1", 0, 0, {}, TRUE),
          Found("h2", 0, 1, {}, TRUE), Found("h2", 1, 0, {}, FALSE),
          Found("h3", 1, 0, {"site"}, TRUE), Found("h3", 0, 1, {}, FALSE)}

(* SwarmScraper: two scrapes of two trackers, one at a time.                *)
(* PeerNode: one peer and one torrent.                                      *)

ASSUME /\ DownloadsAssumptions /\ TorrentIndexAssumptions /\ PeerNodeAssumptions
       /\ TuiAssumption /\ BatchAssumption

(* Tui: two torrents, two texts; one of the torrents is in the index        *)

TheirMatches == ("p" :> {1}) @@ ("q" :> {1, 2})
KeysPerTab == ("search" :> 2) @@ ("feed" :> 2) @@ ("downloads" :> 3)

-----------------------------------------------------------------------------
(* Batch: four torrents, five configurations, pages of one row              *)

F(t, s, w) == [type |-> t, size |-> s, word |-> w]
FourTorrents ==
    <<[word |-> "plain", list |-> <<F("video", 2, "plain"), F("audio", 1, "plain")>>, trackers |-> {}],
      [word |-> "block", list |-> <<F("video", 1, "plain")>>, trackers |-> {"x"}],
      [word |-> "plain", list |-> <<F("archive", 3, "veryBad")>>, trackers |-> {}],
      [word |-> "keyword", list |-> <<>>, trackers |-> {}]>>
Open == [maxFiles |-> 0, sizeMin |-> 0, sizeMax |-> 0, adultFilter |-> FALSE, namingRegExp |-> "",
         namingRegExpNegative |-> FALSE, contentType |-> {}, trackerAllow |-> {}, trackerDeny |-> {},
         trackerRequireKnown |-> FALSE]
FiveFilters ==
    {Open,
     [Open EXCEPT !.adultFilter = TRUE],
     [Open EXCEPT !.sizeMax = 2, !.contentType = {"video", "application"}],
     [Open EXCEPT !.maxFiles = 1, !.namingRegExp = "plain", !.namingRegExpNegative = TRUE,
                  !.trackerAllow = {"x"}],
     [Open EXCEPT !.namingRegExp = "invalid", !.trackerDeny = {"x"}]}

-----------------------------------------------------------------------------
(* The composition                                                          *)

\* A part that is not on rests in one of its initial states.
NativeInit ==
    /\ scene \in {"downloads", "index", "node", "swarm", "tui", "batch"}
    /\ DownloadsInit /\ (scene # "downloads" => session = NoFile)
    /\ IndexInit
    /\ Init /\ (scene # "node" => node /\ enabled /\ rows["h"] = 0)
    /\ SwarmInit /\ (scene # "swarm" => stats = [h \in {"h1", "h2"} |-> 0])
    /\ TuiInit /\ (scene # "tui" => /\ ~tuiStopRequested /\ tab = "search"
                                   /\ feedRevision = 0 /\ tuiDownloads = {})
    /\ BatchInit /\ (scene # "batch" => policy = Open /\ \A h \in 1..4 : batchRows[h].id = 0)

Scene(part) ==
    /\ scene = part /\ UNCHANGED scene
    /\ part # "downloads" => UNCHANGED downloadsVars
    /\ part # "index" => UNCHANGED indexVars
    /\ part # "node" => UNCHANGED nodeVars
    /\ part # "swarm" => UNCHANGED swarmVars
    /\ part # "tui" => UNCHANGED tuiVars
    /\ part # "batch" => UNCHANGED batchVars

NativeNext ==
    \/ Scene("downloads") /\ DownloadsNext
    \/ Scene("index") /\ IndexNext
    \/ Scene("node") /\ Next
    \/ Scene("swarm") /\ SwarmNext
    \/ Scene("tui") /\ TuiNext
    \/ Scene("batch") /\ BatchNext

NativeSpec == NativeInit /\ [][NativeNext]_vars

(* The poll re-arms itself, and the loop runs a posted prune batch or a     *)
(* posted scrape report; the autosave re-arms itself, and the disk takes a  *)
(* write sooner or later; librats' threads finish an announce.              *)
Loop ==
    \/ Scene("downloads") /\ Poll
    \/ Scene("index") /\ PruneBatch
    \/ Scene("swarm") /\ ScrapeReported

Others ==
    \/ Scene("downloads") /\ Autosave(TRUE)
    \/ Scene("swarm") /\ \E k \in DOMAIN scrapes, t \in {"t1", "t2"} : Step(k, t)

FairSpec ==
    /\ NativeSpec
    /\ WF_vars(Loop)
    /\ WF_vars(Others)

-----------------------------------------------------------------------------
\* A completion reaches the session file (Downloads); a prune chain ends, even if
\* deletes fail for good (TorrentIndex); hashes that wait for a slot get one,
\* however their predecessors end, or the scraper is stopped (SwarmScraper).
Owing == CompletionOwed \/ pruneInFlight \/ pending # <<>>
AllComesToItsEnd == Owing ~> ~Owing
=============================================================================
