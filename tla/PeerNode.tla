------------------------------- MODULE PeerNode -------------------------------
(***************************************************************************)
(* The node of the native program and what runs on its engine loop:        *)
(* EngineLoop, NodeHost, PeerRegistry, PeerApi, Replication, P2PStore and  *)
(* Voting (src/native/engine, src/native/platform/engine_loop).  librats   *)
(* calls back on a thread of its own, which only posts; votes come from    *)
(* the interface, posted as well.                                          *)
(***************************************************************************)
EXTENDS Integers, Sequences, FiniteSets

CONSTANTS
    Peer, Us, Hash,
    Rejected,         \* hashes the filter refuses
    Storage,          \* built with RATS_STORAGE
    MaxPosts,         \* bound on what is posted from outside
    MaxFires,         \* bound on delayed tasks that come due
    MaxGood

PeerNodeAssumptions == IsFiniteSet(Peer) /\ MaxGood \in Nat

VARIABLES
    queue, due,       \* EngineLoop: queue_, and the batch collectDueTasks returned
    delayed,          \* delayed_: how many closures of each kind
    stopRequested, looping,
    node,             \* NodeHost::running_
    links,            \* librats: connected peers
    listening,        \* the change callback of the store is set
    records,          \* the store: per hash and peer "none", "good" or "bad"
    table,            \* PeerRegistry::peers_
    rows,             \* the index: per hash -1, or the column good
    feed,             \* hashes in the feed
    selfVoted,        \* selfVotedHashes_
    enabled, running, received, total,    \* Replication
    out,              \* what the step sent: pairs of peer and type
    counted,          \* history: per hash, own votes added to the column
    replicated,       \* history: new rows reported to Replication
    posts, fires

loopVars == <<queue, due, delayed, stopRequested, looping>>
votingVars == <<records, selfVoted, counted>>
replicationVars == <<enabled, running, received, total, replicated>>
nodeVars == <<loopVars, node, links, listening, table, rows, feed, votingVars, replicationVars,
              out, posts, fires>>

Closure == {"cycle", "settle"}
Absent == -1

-----------------------------------------------------------------------------
(* The engine loop                                                          *)

Post(task) == queue' = Append(queue, task)
\* Calls back only while its node is up.
Outside(task) ==
    /\ posts < MaxPosts /\ posts' = posts + 1 /\ Post(task) /\ out' = {}
    /\ UNCHANGED <<due, delayed, stopRequested, looping, rows, feed, table, selfVoted, counted,
                   replicationVars, fires>>

\* A batch: the queue as it is now, then any of the delayed closures that are due.
CollectDueTasks(ripe) ==
    /\ looping /\ due = <<>> /\ ~stopRequested
    /\ queue # <<>> \/ ripe # {}
    /\ ripe \subseteq {c \in Closure : delayed[c] > 0} /\ Cardinality(ripe) <= 1
    /\ fires + Cardinality(ripe) <= MaxFires /\ fires' = fires + Cardinality(ripe)
    /\ delayed' = [c \in Closure |-> IF c \in ripe THEN delayed[c] - 1 ELSE delayed[c]]
    /\ due' = IF ripe = {} THEN queue ELSE Append(queue, [kind |-> CHOOSE c \in ripe : TRUE])
    /\ queue' = <<>> /\ out' = {}
    /\ UNCHANGED <<stopRequested, looping, node, links, listening, table, rows, feed, votingVars,
                   replicationVars, posts>>

\* handleSigint, or the end of the interface.
Stop ==
    /\ ~stopRequested /\ stopRequested' = TRUE /\ out' = {}
    /\ UNCHANGED <<queue, due, delayed, looping, node, links, listening, table, rows, feed,
                   votingVars, replicationVars, posts, fires>>
\* run() returns between two batches; the rest of the queue is never run.
RunReturns ==
    /\ looping /\ due = <<>> /\ stopRequested /\ looping' = FALSE /\ out' = {}
    /\ UNCHANGED <<queue, due, delayed, stopRequested, node, links, listening, table, rows, feed,
                   votingVars, replicationVars, posts, fires>>

-----------------------------------------------------------------------------
(* NodeHost                                                                 *)

\* The pipeline is built before the loop runs: the node starts or fails to, and
\* the store is listened to once it is there.
Init ==
    /\ queue = <<>> /\ due = <<>> /\ stopRequested = FALSE /\ looping = TRUE
    /\ node \in BOOLEAN /\ links = {} /\ table = {}
    /\ listening = (node /\ Storage)
    /\ records = [h \in Hash |-> [p \in Peer \cup {Us} |-> "none"]]
    /\ rows \in [Hash -> {Absent, 0}] /\ feed = {} /\ selfVoted = {}
    /\ enabled \in BOOLEAN /\ running = (node /\ enabled)
    /\ delayed = [c \in Closure |-> IF c = "cycle" /\ running THEN 1 ELSE 0]
    /\ received = 0 /\ total = 0 /\ replicated = 0
    /\ out = {} /\ counted = [h \in Hash |-> 0] /\ posts = 0 /\ fires = 0

\* After the loop: node_->stop() closes what is open.
NodeStops ==
    /\ ~looping /\ node /\ node' = FALSE /\ links' = {} /\ listening' = FALSE /\ out' = {}
    /\ UNCHANGED <<loopVars, table, rows, feed, votingVars, replicationVars, posts, fires>>

-----------------------------------------------------------------------------
(* The thread of librats                                                    *)

PeerConnects(p) ==
    /\ node /\ p \notin links /\ links' = links \cup {p}
    /\ Outside([kind |-> "connected", peer |-> p])
    /\ UNCHANGED <<node, listening, records>>
PeerDisconnects(p) ==
    /\ p \in links /\ links' = links \ {p}
    /\ Outside([kind |-> "disconnected", peer |-> p])
    /\ UNCHANGED <<node, listening, records>>
\* Each type of PeerApi::on and client_info: a message of a peer is posted.
Request == {"searchTorrent", "searchFiles", "topTorrents", "torrent", "feed", "randomTorrents"}
Response == {"searchTorrent_response", "searchFiles_response", "torrent_response",
             "feed_response", "randomTorrents_response", "torrentAnnounce"}
On(p, type, h, good) ==
    /\ p \in links
    /\ Outside([kind |-> type, peer |-> p, hash |-> h, good |-> good])
    /\ UNCHANGED <<node, links, listening, records>>
\* The store replicates a vote of another peer.
ChangeCallback(p, h, v) ==
    /\ node /\ Storage /\ listening /\ records[h][p] # v
    /\ records' = [records EXCEPT ![h][p] = v]
    /\ Outside([kind |-> "record", peer |-> p, hash |-> h, good |-> 0])
    /\ UNCHANGED <<node, links, listening>>
\* The interface posts a vote.
PostVote(h, ok) ==
    /\ Outside([kind |-> "vote", peer |-> Us, hash |-> h, good |-> IF ok THEN 1 ELSE 0])
    /\ UNCHANGED <<node, links, listening, records>>

-----------------------------------------------------------------------------
(* Tasks                                                                    *)

Is(kind) == due # <<>> /\ Head(due).kind = kind
Task == Head(due)
\* The task is over; it posts nothing.
Done == /\ due' = Tail(due)
        /\ UNCHANGED <<queue, stopRequested, looping, node, links, listening, posts, fires>>
Send(p, types) == out' = IF p \in links THEN {p} \X types ELSE {}

OnPeerConnected ==
    /\ Is("connected") /\ Done
    /\ Send(Task.peer, {"client_info", "feed"} \cup IF enabled THEN {"randomTorrents"} ELSE {})
    /\ UNCHANGED <<delayed, table, rows, feed, votingVars, replicationVars>>
OnPeerDisconnected ==
    /\ Is("disconnected") /\ Done /\ table' = table \ {Task.peer} /\ out' = {}
    /\ UNCHANGED <<delayed, rows, feed, votingVars, replicationVars>>
OnClientInfo ==
    /\ Is("client_info") /\ Done /\ table' = table \cup {Task.peer} /\ out' = {}
    /\ UNCHANGED <<delayed, rows, feed, votingVars, replicationVars>>

\* Answers: hits one by one, the top as a whole; nothing for a query that is too
\* short or a torrent that is not there; random torrents where they are served.
Quiet == UNCHANGED <<delayed, table, rows, feed, votingVars, replicationVars>>
Reply(type, may) == Send(Task.peer, IF may THEN {type} ELSE {})
HandleSearchRequest(long) ==
    /\ Is("searchTorrent") /\ Done /\ Quiet
    /\ Reply("searchTorrent_response", long /\ rows[Task.hash] # Absent)
HandleSearchFilesRequest(long) ==
    /\ Is("searchFiles") /\ Done /\ Quiet
    /\ Reply("searchFiles_response", long /\ rows[Task.hash] # Absent)
HandleTopTorrentsRequest == Is("topTorrents") /\ Done /\ Quiet /\ Reply("topTorrents_response", TRUE)
HandleTorrentRequest ==
    Is("torrent") /\ Done /\ Quiet /\ Reply("torrent_response", rows[Task.hash] # Absent)
HandleFeedRequest == Is("feed") /\ Done /\ Quiet /\ Reply("feed_response", TRUE)
HandleRandomTorrentsRequest(serves) ==
    Is("randomTorrents") /\ Done /\ Quiet /\ Reply("randomTorrents_response", serves)

\* Shown by the interface, not indexed.
HandleSearchResult == Is("searchTorrent_response") /\ Done /\ Quiet /\ out' = {}
HandleSearchFilesResult == Is("searchFiles_response") /\ Done /\ Quiet /\ out' = {}

\* Indexer::handleDiscovered: the row is written as the peer has it; new rows are
\* reported to Replication where that is asked for.
InsertFromPeer(h, good, trackReplication, ok) ==
    LET new == rows[h] = Absent /\ h \notin Rejected /\ ok
        n == IF new /\ trackReplication THEN 1 ELSE 0
    IN /\ rows' = IF h \in Rejected \/ ~ok THEN rows ELSE [rows EXCEPT ![h] = good]
       /\ received' = received + n /\ replicated' = replicated + n
Inserts(track, ok) ==
    /\ InsertFromPeer(Task.hash, Task.good, track, ok) /\ Done /\ out' = {}
    /\ UNCHANGED <<delayed, table, votingVars, enabled, running, total>>
HandleTorrentResponse(ok) == Is("torrent_response") /\ Inserts(TRUE, ok) /\ UNCHANGED feed
HandleRandomTorrentsResponse(ok) == Is("randomTorrents_response") /\ Inserts(TRUE, ok) /\ UNCHANGED feed
HandleTorrentAnnounce(ok) == Is("torrentAnnounce") /\ Inserts(FALSE, ok) /\ UNCHANGED feed
\* A larger feed replaces this one.
HandleFeedResponse(ok) ==
    /\ Is("feed_response")
    /\ IF feed = {} THEN feed' = {Task.hash} /\ Inserts(FALSE, ok)
       ELSE Done /\ out' = {} /\ Quiet

-----------------------------------------------------------------------------
(* Voting                                                                   *)

IsAvailable == node /\ Storage
Aggregate(h) == Cardinality({p \in Peer \cup {Us} : records[h][p] = "good"})
HasVoted(h) == IsAvailable /\ records[h][Us] # "none"

\* Plausible bug: where there is a store it alone is asked.
VotedInStoreOnly(h) == IF IsAvailable THEN HasVoted(h) ELSE h \in selfVoted
AlreadyVoted(h) == h \in selfVoted \/ HasVoted(h)

\* put() may fail; the column is raised all the same, and the feed takes the torrent.
Vote ==
    /\ Is("vote") /\ Done /\ out' = {}
    /\ LET h == Task.hash IN
       IF rows[h] = Absent \/ AlreadyVoted(h)
       THEN UNCHANGED <<rows, feed, votingVars>>
       ELSE /\ records' = IF IsAvailable /\ Task.good = 1 THEN [records EXCEPT ![h][Us] = "good"] ELSE records
            /\ rows' = [rows EXCEPT ![h] = @ + 1] /\ counted' = [counted EXCEPT ![h] = @ + 1]
            /\ selfVoted' = selfVoted \cup {h} /\ feed' = feed \cup {h}
    /\ UNCHANGED <<delayed, table, replicationVars>>

\* A peer's vote: the column becomes the sum of the records.
OnRecordStored ==
    /\ Is("record") /\ Done /\ out' = {}
    /\ LET h == Task.hash IN
       IF rows[h] = Absent THEN UNCHANGED <<rows, feed>>
       ELSE rows' = [rows EXCEPT ![h] = Aggregate(h)] /\ feed' = feed \cup {h}
    /\ UNCHANGED <<delayed, table, votingVars, replicationVars>>

-----------------------------------------------------------------------------
(* Replication: one closure, which posts the next                           *)

PostDelayed(c) == delayed' = [delayed EXCEPT ![c] = @ + 1]

PerformCycle ==
    /\ Is("cycle") /\ Done
    /\ IF ~running THEN out' = {} /\ UNCHANGED <<received, delayed>>
       ELSE IF links = {} THEN out' = {} /\ PostDelayed("cycle") /\ UNCHANGED received
       ELSE received' = 0 /\ out' = links \X {"randomTorrents"} /\ PostDelayed("settle")
    /\ UNCHANGED <<table, rows, feed, votingVars, enabled, running, total, replicated>>
Settle ==
    /\ Is("settle") /\ Done /\ out' = {}
    /\ IF running THEN total' = total + received /\ PostDelayed("cycle")
                  ELSE UNCHANGED <<total, delayed>>
    /\ UNCHANGED <<table, rows, feed, votingVars, enabled, running, received, replicated>>

Next ==
    \/ \E ripe \in SUBSET Closure : CollectDueTasks(ripe)
    \/ Stop \/ RunReturns \/ NodeStops
    \/ \E p \in Peer :
        \/ PeerConnects(p) \/ PeerDisconnects(p)
        \/ \E h \in Hash :
            \/ \E v \in {"good", "bad"} : ChangeCallback(p, h, v)
            \/ \E type \in Request \cup {"client_info"} : On(p, type, h, 0)
            \/ \E type \in Response, good \in 0..MaxGood : On(p, type, h, good)
    \/ \E h \in Hash, ok \in BOOLEAN : PostVote(h, ok)
    \/ OnPeerConnected \/ OnPeerDisconnected \/ OnClientInfo
    \/ \E yes \in BOOLEAN :
        \/ HandleSearchRequest(yes) \/ HandleSearchFilesRequest(yes) \/ HandleRandomTorrentsRequest(yes)
        \/ HandleTorrentResponse(yes) \/ HandleRandomTorrentsResponse(yes)
        \/ HandleTorrentAnnounce(yes) \/ HandleFeedResponse(yes)
    \/ HandleTopTorrentsRequest \/ HandleTorrentRequest \/ HandleFeedRequest
    \/ HandleSearchResult \/ HandleSearchFilesResult
    \/ Vote \/ OnRecordStored \/ PerformCycle \/ Settle

Spec == Init /\ [][Next]_nodeVars

-----------------------------------------------------------------------------
Tasks == queue \o due
Waits(kind) == Cardinality({k \in DOMAIN Tasks : Tasks[k].kind = kind})
Leaves(p) == \E k \in DOMAIN Tasks : Tasks[k].kind = "disconnected" /\ Tasks[k].peer = p

TypeOK ==
    /\ \A h \in Hash : rows[h] \in Int /\ rows[h] >= Absent
    /\ links \subseteq Peer /\ table \subseteq Peer /\ feed \subseteq Hash
    /\ delayed \in [Closure -> Nat] /\ received \in Nat

(* Replication always has exactly one closure that will go on with it; it   *)
(* never counts a torrent twice; the table holds no peer that is gone but   *)
(* for a task that will say so; and this node's vote is added to a column   *)
(* at most once, with or without the store.                                 *)
NodeAgrees ==
    /\ delayed["cycle"] + delayed["settle"] + Waits("cycle") + Waits("settle") = IF running THEN 1 ELSE 0
    /\ total <= replicated
    /\ node => \A p \in table : p \in links \/ Leaves(p)
    /\ \A h \in Hash : counted[h] <= 1
=============================================================================
