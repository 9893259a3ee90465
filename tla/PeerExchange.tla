----------------------------- MODULE PeerExchange -----------------------------
(***************************************************************************)
(* Two nodes of the Qt program that are linked: what they ask of each      *)
(* other (src/src/peer/peer_api), how what arrives is indexed              *)
(* (src/src/services/indexing_service) and the timer that asks for more    *)
(* (src/src/services/replication_service).  A link delivers in order.      *)
(***************************************************************************)
EXTENDS Integers, Sequences, FiniteSets

CONSTANTS
    Node, ExchangeHash,
    Filtered,                 \* per node: hashes its filter policy refuses
    InitRows, InitFeeds,      \* what the nodes may hold at first
    Active,                   \* bound: nodes that do something of their own accord
    MaxAsks,                  \* bound: how often they do
    kBusyThreshold

VARIABLES
    nodeRows,   \* per node: the torrents table
    nodeFeed, date, \* per node: the hashes of the feed, and its feedDate
    linked,
    chan,       \* per node: messages that are on their way to it
    shown,      \* per node: remote hits in its result list
    replicating, cycleTimer, settling, interval,  \* per node: ReplicationService
    received, total,                     \* receivedThisCycle_, totalReplicated_
    replicated, \* history, per node: new rows that were counted as replicated
    asks

indexVars == <<nodeRows, replicated>>
replicationVars == <<replicating, cycleTimer, settling, interval, received, total>>
exchangeVars == <<indexVars, nodeFeed, date, linked, chan, shown, replicationVars, asks>>

Other(n) == CHOOSE m \in Node : m # n

\* A row: has it a file count, has it a file list, how many good votes.
TorrentRow == [count : BOOLEAN, list : BOOLEAN, good : 0..1]
TorrentRows == UNION {[S -> TorrentRow] : S \in SUBSET ExchangeHash}

\* A row that is in a table at first and has a list has its count.
ASSUME ExchangeAssumption ==
    /\ IsFiniteSet(ExchangeHash) /\ Active \subseteq Node
    /\ InitFeeds \subseteq [Node -> SUBSET ExchangeHash]
    /\ InitRows \subseteq [Node -> TorrentRows]
    /\ \A r \in InitRows : \A n \in Node : \A h \in DOMAIN r[n] : r[n][h].list => r[n][h].count

ExchangeInit ==
    /\ nodeRows \in InitRows /\ nodeFeed \in InitFeeds
    /\ date = [n \in Node |-> Cardinality(nodeFeed[n])]
    /\ linked = FALSE /\ chan = [n \in Node |-> <<>>] /\ shown = [n \in Node |-> {}]
    /\ \E on \in BOOLEAN : replicating = [n \in Node |-> n \in Active /\ on]
    /\ cycleTimer = [n \in Node |-> FALSE] /\ settling = cycleTimer
    /\ interval = [n \in Node |-> "initial"]
    /\ received = [n \in Node |-> 0] /\ total = received /\ replicated = received
    /\ asks = 0

-----------------------------------------------------------------------------
(* What travels                                                             *)

\* The codec: a torrent with or without its list of files; the count always goes.
ToJson(t, includeFiles) == [t EXCEPT !.list = @ /\ includeFiles]
TorrentFromJson(t) == [t EXCEPT !.count = @ \/ t.list]

Held(n) == DOMAIN nodeRows[n]
Sent(n, S, includeFiles) == [h \in S |-> ToJson(nodeRows[n][h], includeFiles)]

Msg(kind, torrents) == [kind |-> kind, torrents |-> torrents]
FeedMsg(n) ==
    [kind |-> "feed_response", date |-> date[n],
     torrents |-> [h \in nodeFeed[n] |->
                     IF h \in Held(n) THEN ToJson(nodeRows[n][h], FALSE)
                                      ELSE [count |-> TRUE, list |-> FALSE, good |-> 1]]]

Gets(n, kind) == chan[n] # <<>> /\ Head(chan[n]).kind = kind
Got(n) == Head(chan[n])
\* The message is consumed, and answered with a sequence of messages.
Answer(n, replies) ==
    chan' = [m \in Node |-> IF m = n THEN Tail(chan[m]) ELSE chan[m] \o replies]

-----------------------------------------------------------------------------
(* Insertion                                                                *)

\* Plausible bug: the votes are written over a copy that was read before the files.
StaleMerge(old, t) ==
    LET filled == IF ~old.count /\ t.list THEN [old EXCEPT !.count = TRUE, !.list = TRUE] ELSE old
    IN IF t.good > old.good THEN [filled EXCEPT !.count = old.count, !.good = t.good] ELSE filled
\* A row with no file count takes the list that comes in; the votes only grow.
Merge(old, t) ==
    LET fills == ~old.count /\ t.list
    IN [old EXCEPT !.count = @ \/ fills, !.list = @ \/ fills,
                   !.good = IF t.good > @ THEN t.good ELSE @]

\* IndexingService::insert of each torrent in turn: one that is there is merged
\* and never judged again, a new one has to pass the filter.  Writes of the
\* hashes in `fails` fail.
Inserted(n, torrents, fails) ==
    LET new == (DOMAIN torrents) \ (Held(n) \cup Filtered[n] \cup fails)
        t(h) == TorrentFromJson(torrents[h])
    IN [h \in Held(n) \cup new |->
          IF h \in new THEN t(h)
          ELSE IF h \in DOMAIN torrents \ fails THEN Merge(nodeRows[n][h], t(h))
          ELSE nodeRows[n][h]]

\* What is new is reported to the replication service, where that is asked for.
InsertFromPeer(n, torrents, trackReplication, fails) ==
    LET after == Inserted(n, torrents, fails)
        count == IF trackReplication THEN Cardinality(DOMAIN after \ Held(n)) ELSE 0
    IN /\ nodeRows' = [nodeRows EXCEPT ![n] = after]
       /\ received' = [received EXCEPT ![n] = @ + count]
       /\ replicated' = [replicated EXCEPT ![n] = @ + count]

-----------------------------------------------------------------------------
(* Requests that are answered                                               *)

Unchanged == UNCHANGED <<nodeFeed, date, linked, replicating, cycleTimer, settling, interval, total,
                         asks>>

\* Each hit is a message of its own, without its files; a query that is too short
\* is ignored.
HandleSearchRequest(n, hits) ==
    /\ Gets(n, "searchTorrent") /\ hits \subseteq Held(n)
    /\ Answer(n, IF hits = {} THEN <<>> ELSE <<Msg("searchTorrent_response", Sent(n, hits, FALSE))>>)
    /\ UNCHANGED <<indexVars, shown, received>> /\ Unchanged
HandleSearchFilesRequest(n, hits) ==
    /\ Gets(n, "searchFiles") /\ hits \subseteq {h \in Held(n) : nodeRows[n][h].list}
    /\ Answer(n, IF hits = {} THEN <<>> ELSE <<Msg("searchFiles_response", Sent(n, hits, FALSE))>>)
    /\ UNCHANGED <<indexVars, shown, received>> /\ Unchanged
\* The response has no handler on the other side.
HandleTopTorrentsRequest(n) ==
    /\ Gets(n, "topTorrents") /\ Answer(n, <<>>)
    /\ UNCHANGED <<indexVars, shown, received>> /\ Unchanged

\* A miss is not answered.
HandleTorrentRequest(n) ==
    /\ Gets(n, "torrent")
    /\ LET S == Got(n).hashes \cap Held(n)
       IN Answer(n, IF S = {} THEN <<>>
                    ELSE <<Msg("torrent_response", Sent(n, S, Got(n).includeFiles))>>)
    /\ UNCHANGED <<indexVars, shown, received>> /\ Unchanged

HandleFeedRequest(n) ==
    /\ Gets(n, "feed") /\ Answer(n, <<FeedMsg(n)>>)
    /\ UNCHANGED <<indexVars, shown, received>> /\ Unchanged

\* Only where this node serves replication (p2pReplicationServer).
HandleRandomTorrentsRequest(n, serves, some) ==
    /\ Gets(n, "randomTorrents") /\ some \subseteq Held(n)
    /\ Answer(n, IF serves THEN <<Msg("randomTorrents_response", Sent(n, some, TRUE))>> ELSE <<>>)
    /\ UNCHANGED <<indexVars, shown, received>> /\ Unchanged

-----------------------------------------------------------------------------
(* Responses that are consumed                                              *)

\* Shown, not indexed.
HandleSearchResult(n) ==
    /\ Gets(n, "searchTorrent_response")
    /\ shown' = [shown EXCEPT ![n] = @ \cup DOMAIN Got(n).torrents]
    /\ Answer(n, <<>>) /\ UNCHANGED <<indexVars, received>> /\ Unchanged
HandleSearchFilesResult(n) ==
    /\ Gets(n, "searchFiles_response")
    /\ shown' = [shown EXCEPT ![n] = @ \cup DOMAIN Got(n).torrents]
    /\ Answer(n, <<>>) /\ UNCHANGED <<indexVars, received>> /\ Unchanged

HandleTorrentResponse(n, fails) ==
    /\ Gets(n, "torrent_response")
    /\ InsertFromPeer(n, Got(n).torrents, TRUE, fails)
    /\ Answer(n, <<>>) /\ UNCHANGED shown /\ Unchanged

\* A feed that is larger, or as large and newer, replaces this one, but for what the
\* filter or the size of the feed keeps out (its sender counts what it sends); and
\* what is behind it is indexed without being counted as replicated.
HandleFeedResponse(n, kept, fails) ==
    LET m == Got(n)
        more == Cardinality(DOMAIN m.torrents) - Cardinality(nodeFeed[n])
    IN /\ Gets(n, "feed_response")
       /\ IF more > 0 \/ (more = 0 /\ m.date > date[n])
          THEN /\ nodeFeed' = [nodeFeed EXCEPT ![n] = DOMAIN m.torrents \cap kept]
               /\ date' = [date EXCEPT ![n] = m.date]
               /\ InsertFromPeer(n, m.torrents, FALSE, fails)
          ELSE UNCHANGED <<nodeFeed, date, nodeRows, received, replicated>>
       /\ Answer(n, <<>>)
       /\ UNCHANGED <<shown, linked, replicating, cycleTimer, settling, interval, total, asks>>

HandleRandomTorrentsResponse(n, fails) ==
    /\ Gets(n, "randomTorrents_response")
    /\ InsertFromPeer(n, Got(n).torrents, TRUE, fails)
    /\ Answer(n, <<>>) /\ UNCHANGED shown /\ Unchanged

\* A peer announces one of its torrents.
HandleTorrentAnnounce(n, fails) ==
    /\ Gets(n, "torrentAnnounce")
    /\ InsertFromPeer(n, Got(n).torrents, FALSE, fails)
    /\ Answer(n, <<>>) /\ UNCHANGED shown /\ Unchanged

-----------------------------------------------------------------------------
(* The link, and what a node sends of its own accord                        *)

Ask(n) == <<Msg("feed", <<>>)>>
          \o IF replicating[n] THEN <<Msg("randomTorrents", <<>>)>> ELSE <<>>
\* onPeerConnected on both sides.
Connect ==
    /\ ~linked /\ asks < MaxAsks /\ asks' = asks + 1
    /\ linked' = TRUE /\ chan' = [n \in Node |-> Ask(Other(n))]
    /\ UNCHANGED <<indexVars, nodeFeed, date, shown, replicationVars>>
Disconnect ==
    /\ linked /\ linked' = FALSE /\ chan' = [n \in Node |-> <<>>]
    /\ UNCHANGED <<indexVars, nodeFeed, date, shown, replicationVars, asks>>

\* A search of the user, a torrent of the list or the API that is looked at, a
\* peer of another version that asks for the top or announces.
Say(n, m) ==
    /\ linked /\ asks < MaxAsks /\ asks' = asks + 1
    /\ chan' = [chan EXCEPT ![Other(n)] = Append(@, m)]
    /\ UNCHANGED <<indexVars, nodeFeed, date, linked, shown, replicationVars>>
RequestTorrent(n, h, includeFiles) ==
    /\ h \in shown[n]
    /\ Say(n, [kind |-> "torrent", hashes |-> {h}, includeFiles |-> includeFiles])
Search(n) == \E kind \in {"searchTorrent", "searchFiles", "topTorrents"} : Say(n, Msg(kind, <<>>))
AnnounceTorrent(n, h) == h \in Held(n) /\ Say(n, Msg("torrentAnnounce", Sent(n, {h}, FALSE)))

-----------------------------------------------------------------------------
(* ReplicationService                                                       *)

Apart == UNCHANGED <<indexVars, nodeFeed, date, linked, shown>>

SetEnabled(n, on) ==
    /\ asks < MaxAsks /\ asks' = asks + 1
    /\ replicating[n] # on /\ replicating' = [replicating EXCEPT ![n] = on]
    /\ cycleTimer' = [cycleTimer EXCEPT ![n] = @ /\ on]
    /\ Apart /\ UNCHANGED <<chan, settling, interval, received, total>>
StartReplication(n) ==
    /\ replicating[n] /\ ~cycleTimer[n] /\ cycleTimer' = [cycleTimer EXCEPT ![n] = TRUE]
    /\ interval' = [interval EXCEPT ![n] = "initial"]
    /\ received' = [received EXCEPT ![n] = 0]
    /\ Apart /\ UNCHANGED <<chan, replicating, settling, total, asks>>

\* A tick of the timer; every interval is longer than the delay of settle.
PerformCycle(n) ==
    /\ cycleTimer[n] /\ ~settling[n] /\ asks < MaxAsks /\ asks' = asks + 1
    /\ linked /\ settling' = [settling EXCEPT ![n] = TRUE]
    /\ received' = [received EXCEPT ![n] = 0]
    /\ chan' = [chan EXCEPT ![Other(n)] = Append(@, Msg("randomTorrents", <<>>))]
    /\ Apart /\ UNCHANGED <<replicating, cycleTimer, interval, total>>
\* After kSettleDelayMs, stopped or not.
Settle(n) ==
    /\ settling[n] /\ settling' = [settling EXCEPT ![n] = FALSE]
    /\ interval' = [interval EXCEPT ![n] = IF received[n] > kBusyThreshold THEN "backoff" ELSE "idle"]
    /\ total' = [total EXCEPT ![n] = @ + received[n]]
    /\ Apart /\ UNCHANGED <<chan, replicating, cycleTimer, received, asks>>

ExchangeNext ==
    \/ Connect \/ Disconnect
    \/ \E n \in Node :
        \/ HandleTopTorrentsRequest(n) \/ HandleTorrentRequest(n) \/ HandleFeedRequest(n)
        \/ \E S \in SUBSET ExchangeHash :
            \/ HandleSearchRequest(n, S) \/ HandleSearchFilesRequest(n, S)
            \/ \E serves \in BOOLEAN : HandleRandomTorrentsRequest(n, serves, S)
        \/ \E fails \in {{}, ExchangeHash} :
            \/ HandleTorrentResponse(n, fails)
            \/ \E kept \in SUBSET ExchangeHash : HandleFeedResponse(n, kept, fails)
            \/ HandleRandomTorrentsResponse(n, fails) \/ HandleTorrentAnnounce(n, fails)
        \/ HandleSearchResult(n) \/ HandleSearchFilesResult(n) \/ Settle(n)
    \/ \E n \in Active :
        \/ Search(n)
        \/ \E h \in ExchangeHash :
              AnnounceTorrent(n, h) \/ \E includeFiles \in BOOLEAN : RequestTorrent(n, h, includeFiles)
        \/ \E on \in BOOLEAN : SetEnabled(n, on)
        \/ StartReplication(n) \/ PerformCycle(n)

ExchangeSpec == ExchangeInit /\ [][ExchangeNext]_exchangeVars

-----------------------------------------------------------------------------
ExchangeTypeOK ==
    /\ nodeRows \in [Node -> TorrentRows]
    /\ nodeFeed \in [Node -> SUBSET ExchangeHash] /\ shown \in [Node -> SUBSET ExchangeHash]
    /\ cycleTimer \in [Node -> BOOLEAN] /\ settling \in [Node -> BOOLEAN]

(* Whatever arrives from where, in whatever order and with whatever write   *)
(* failing, a row keeps its votes and its files, says that it has files     *)
(* when there are some, and what the service counted as replicated was      *)
(* indexed by it, once.                                                     *)
NothingLost ==
    /\ \A n \in Node : \A h \in Held(n) :
          h \in DOMAIN nodeRows'[n] /\ nodeRows'[n][h].good >= nodeRows[n][h].good
          /\ (nodeRows[n][h].list => nodeRows'[n][h].list)
    /\ \A n \in Node : \A h \in DOMAIN nodeRows'[n] : nodeRows'[n][h].list => nodeRows'[n][h].count
    /\ \A n \in Node : total'[n] <= replicated'[n]
KeepsTheBest == [][NothingLost]_exchangeVars
=============================================================================
