---------------------------- MODULE TorrentExport ----------------------------
(***************************************************************************)
(* Saving the .torrent file of a search result (src/src/services/torrent_  *)
(* exporter and fetchTorrentFile of src/src/net/torrent_engine): a cached  *)
(* file is offered at once; otherwise the metadata is fetched on a thread  *)
(* of librats and written on the Qt thread.                                *)
(***************************************************************************)
EXTENDS Integers, FiniteSets, Sequences

CONSTANTS ExportHash, MaxExports  \* bound: requests

VARIABLES
    available,   \* BitTorrent is there
    loaded,      \* hashes librats has with metadata
    inFlight,    \* inFlight_
    fetches,     \* get_torrent_metadata calls librats works on
    fetched,     \* results queued for the Qt thread
    cached,      \* hash -> "none", "whole" or "short": its file in the cache
    exports

torrentExportVars == <<available, loaded, inFlight, fetches, fetched, cached, exports>>

Result == [hash : ExportHash, ok : BOOLEAN]

TorrentExportInit ==
    /\ available \in BOOLEAN /\ loaded \in SUBSET ExportHash
    /\ inFlight = {} /\ fetches = {} /\ fetched = <<>>
    /\ cached = [h \in ExportHash |-> "none"] /\ exports = 0

\* Where librats has the metadata the callback runs at once, and its work is
\* queued all the same.
FetchTorrentFile(h) ==
    IF h \in loaded
    THEN fetched' = Append(fetched, [hash |-> h, ok |-> TRUE]) /\ UNCHANGED fetches
    ELSE fetches' = fetches \cup {h} /\ UNCHANGED fetched

\* A file that is there is offered, whole or not; a fetch under way is not
\* begun again; one that cannot begin is refused (`goes`: BitTorrent is still
\* there when the fetch is made).
RequestExport(h, goes) ==
    /\ exports < MaxExports /\ exports' = exports + 1
    /\ IF cached[h] # "none" \/ h \in inFlight \/ ~available \/ ~goes
       THEN UNCHANGED <<inFlight, fetches, fetched>>
       ELSE /\ inFlight' = inFlight \cup {h}
            /\ FetchTorrentFile(h)
    /\ UNCHANGED <<available, loaded, cached>>

\* The callback of librats: exactly once.
Fetched(h, ok) ==
    /\ h \in fetches
    /\ fetches' = fetches \ {h}
    /\ fetched' = Append(fetched, [hash |-> h, ok |-> ok])
    /\ UNCHANGED <<available, loaded, inFlight, cached, exports>>

NoLongerInFlight(r) == inFlight \ {r.hash}

\* The closure on the Qt thread. `file`: what writing it leaves; the result of
\* write() is not looked at.
ResultArrives(file) ==
    /\ fetched # <<>>
    /\ LET r == Head(fetched) IN
       /\ inFlight' = NoLongerInFlight(r)
       /\ cached' = IF r.ok THEN [cached EXCEPT ![r.hash] = file] ELSE cached
    /\ fetched' = Tail(fetched)
    /\ UNCHANGED <<available, loaded, fetches, exports>>

BittorrentStops ==
    /\ available /\ available' = FALSE /\ loaded' = {}
    /\ UNCHANGED <<inFlight, fetches, fetched, cached, exports>>

TorrentExportNext ==
    \/ \E h \in ExportHash, b \in BOOLEAN : RequestExport(h, b) \/ Fetched(h, b)
    \/ \E file \in {"none", "whole", "short"} : ResultArrives(file)
    \/ BittorrentStops

TorrentExportSpec == TorrentExportInit /\ [][TorrentExportNext]_torrentExportVars

TorrentExportTypeOK ==
    /\ available \in BOOLEAN /\ loaded \subseteq ExportHash
    /\ inFlight \subseteq ExportHash /\ fetches \subseteq ExportHash
    /\ \A k \in DOMAIN fetched : fetched[k] \in Result
    /\ cached \in [ExportHash -> {"none", "whole", "short"}]

(* A hash is marked as being fetched exactly while librats or a queued      *)
(* closure still owes its answer: no failure leaves a mark that refuses     *)
(* every later export of that torrent.                                      *)
MarkedIffOwed ==
    inFlight = fetches \cup {fetched[k].hash : k \in DOMAIN fetched}
=============================================================================
