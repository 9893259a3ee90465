------------------------------ MODULE VotedFeed ------------------------------
(***************************************************************************)
(* Votes and the feed of voted torrents in the Qt program: P2PStore,       *)
(* VotingService and FeedService (src/src/services), FeedRepository and the*)
(* batched writes of Database (src/src/data).  A vote goes to the          *)
(* replicated store, to the columns of the torrent and into the feed, which*)
(* a timer writes to its table.                                            *)
(***************************************************************************)
EXTENDS Integers, Sequences, FiniteSets

CONSTANTS
    Voter, Us,           \* the others, and this node
    Indexed,             \* hashes of the torrents in the database
    Blocked,             \* those whose content is kept out of the feed
    MaxVotes, MaxRuns,   \* bounds
    maxSize              \* of the feed

\* A size, and finitely many torrents.
ASSUME VotedAssumption ==
    IsFiniteSet(Indexed) /\ maxSize \in Nat /\ MaxVotes \in Nat

VARIABLES
    started,       \* between Application::start and stop
    storeUp,       \* P2PStore::isAvailable
    listening,     \* the change callback of the store is set
    records,       \* the store: per hash and peer "none", "good" or "bad"
    columns,       \* good and bad of the torrent rows
    selfVoted,     \* selfVotedHashes_
    notices,       \* recordStored(remote), queued for the Qt thread
    feed,          \* feed_: how often each hash is in it
    dirty, timer,  \* dirty_; flushTimer_ is active
    table,         \* the feed table
    failed,        \* history: a write of the table has failed
    counted,       \* history: per hash, own votes added to the columns in this run
    votes, runs

feedVars == <<feed, dirty, timer, table, failed>>
votedVars == <<started, storeUp, listening, records, columns, selfVoted, notices, feedVars,
               counted, votes, runs>>

Vote == {"good", "bad"}
Empty == [h \in Indexed |-> 0]
\* The items of a feed: a hash that is in it twice is two.
Items(f) == {i \in Indexed \X (1..maxSize) : i[2] <= f[i[1]]}
Size(f) == Cardinality(Items(f))

\* The services are constructed before the transport starts: P2PStore finds no
\* store to listen to.
VotedInit ==
    /\ started = FALSE /\ storeUp = FALSE /\ listening = FALSE
    /\ records = [h \in Indexed |-> [p \in Voter \cup {Us} |-> "none"]]
    /\ columns = [h \in Indexed |-> [v \in Vote |-> 0]]
    /\ selfVoted = {} /\ notices = <<>>
    /\ feed = Empty /\ dirty = FALSE /\ timer = FALSE /\ table = Empty /\ failed = FALSE
    /\ counted = [h \in Indexed |-> 0] /\ votes = 0 /\ runs = 0

-----------------------------------------------------------------------------
(* The feed                                                                 *)

MarkDirty == dirty' = TRUE /\ timer' = TRUE

\* A hash that is there is refreshed; in a full feed the lowest-scored item
\* gives way, and which that is depends on the clock.
AddByHash(h) ==
    IF h \in Blocked THEN UNCHANGED feedVars
    ELSE /\ MarkDirty
         /\ \/ feed[h] > 0 /\ UNCHANGED feed
            \/ feed[h] = 0 /\ Size(feed) < maxSize /\ feed' = [feed EXCEPT ![h] = 1]
            \/ /\ feed[h] = 0 /\ Size(feed) >= maxSize
               /\ \E g \in Indexed : feed[g] > 0 /\ feed' = [feed EXCEPT ![g] = @ - 1, ![h] = 1]
         /\ UNCHANGED <<table, failed>>

\* What a peer's array leaves: nothing blocked, no more than fits; a hash that is
\* in it twice stays twice.  It was let in for the size and the date that the sender
\* claims, so that it may be smaller than what it replaces.
FromJsonArray(f) ==
    /\ started /\ runs <= MaxRuns
    /\ \A h \in Blocked : f[h] = 0
    /\ Size(f) <= maxSize
    /\ feed' = f /\ MarkDirty
    /\ UNCHANGED <<started, storeUp, listening, records, columns, selfVoted, notices, table, failed,
                   counted, votes, runs>>

\* replaceAll and the batches of insertMany: done; nothing done; or the rows are
\* deleted and not all of the new ones are in.
ReplaceAll(outcome) ==
    CASE outcome = "done" -> table' = feed /\ UNCHANGED failed
      [] outcome = "none" -> failed' = TRUE /\ UNCHANGED table
      [] outcome = "part" -> failed' = TRUE /\ table' = Empty

\* persistNow forgets the debt before it knows what became of it.
PersistNow(outcome) == dirty' = FALSE /\ timer' = FALSE /\ ReplaceAll(outcome)

Flush(outcome) ==
    /\ started /\ timer
    /\ IF dirty THEN PersistNow(outcome) ELSE timer' = FALSE /\ UNCHANGED <<dirty, table, failed>>
    /\ UNCHANGED <<started, storeUp, listening, records, columns, selfVoted, notices, feed,
                   counted, votes, runs>>

-----------------------------------------------------------------------------
(* Votes                                                                    *)

Aggregate(r) == [v \in Vote |-> Cardinality({p \in DOMAIN r : r[p] = v})]

AlreadyVoted(h) == h \in selfVoted \/ (storeUp /\ records[h][Us] # "none")

\* A vote that was cast before changes nothing; put() may fail.
CastVote(h, v, ok) ==
    /\ started /\ votes < MaxVotes /\ votes' = votes + 1
    /\ IF AlreadyVoted(h)
       THEN UNCHANGED <<records, columns, selfVoted, feedVars, counted>>
       ELSE LET stored == storeUp /\ ok IN
            /\ records' = IF stored THEN [records EXCEPT ![h][Us] = v] ELSE records
            /\ columns' = [columns EXCEPT ![h][v] = @ + 1]
            /\ counted' = [counted EXCEPT ![h] = @ + 1]
            /\ selfVoted' = selfVoted \cup {h}
            /\ AddByHash(h)
    /\ UNCHANGED <<started, storeUp, listening, notices, runs>>

\* A peer's record is replicated to this node.
RemoteRecord(h, p, v) ==
    /\ storeUp /\ records[h][p] = "none" /\ votes < MaxVotes /\ votes' = votes + 1
    /\ records' = [records EXCEPT ![h][p] = v]
    /\ notices' = IF listening THEN Append(notices, h) ELSE notices
    /\ UNCHANGED <<started, storeUp, listening, columns, selfVoted, feedVars, counted, runs>>

\* The columns become the sum of the records.  (Enabled only where the store
\* could be listened to: see Init.)
OnRecordStored ==
    /\ started /\ storeUp /\ notices # <<>>
    /\ LET h == Head(notices) IN
       /\ columns' = [columns EXCEPT ![h] = Aggregate(records[h])]
       /\ AddByHash(h)
    /\ notices' = Tail(notices)
    /\ UNCHANGED <<started, storeUp, listening, records, selfVoted, counted, votes, runs>>

-----------------------------------------------------------------------------
(* The program                                                              *)

\* The feed is loaded, and the transport brings up the store or fails to.
StartServices(up) ==
    /\ ~started /\ runs < MaxRuns /\ runs' = runs + 1
    /\ started' = TRUE /\ storeUp' = up
    /\ feed' = [h \in Indexed |-> IF h \in Blocked THEN 0 ELSE table[h]]
    /\ dirty' = FALSE /\ timer' = FALSE /\ failed' = FALSE
    /\ selfVoted' = {} /\ notices' = <<>> /\ listening' = FALSE
    /\ counted' = [h \in Indexed |-> 0]
    /\ UNCHANGED <<records, columns, table, votes>>

\* save() trusts the flag.
StopServices(outcome) ==
    /\ started /\ started' = FALSE /\ storeUp' = FALSE
    /\ IF dirty THEN PersistNow(outcome) ELSE timer' = FALSE /\ UNCHANGED <<dirty, table, failed>>
    /\ UNCHANGED <<listening, records, columns, selfVoted, notices, feed, counted, votes, runs>>

\* With some or all of what a flush was about to write.
ProgramDies(rows) ==
    /\ started /\ started' = FALSE /\ storeUp' = FALSE
    /\ table' = rows /\ failed' = TRUE
    /\ UNCHANGED <<listening, records, columns, selfVoted, notices, feed, dirty, timer,
                   counted, votes, runs>>

Outcome == {"done", "none", "part"}
VotedNext ==
    \/ \E f \in [Indexed -> 0..maxSize] : FromJsonArray(f)
    \/ \E o \in Outcome : Flush(o) \/ StopServices(o)
    \/ \E h \in Indexed, v \in Vote : \/ \E ok \in BOOLEAN : CastVote(h, v, ok)
                                      \/ \E p \in Voter : RemoteRecord(h, p, v)
    \/ OnRecordStored
    \/ \E up \in BOOLEAN : StartServices(up)
    \/ \E rows \in {table, Empty} : ProgramDies(rows)

VotedSpec == VotedInit /\ [][VotedNext]_votedVars

-----------------------------------------------------------------------------
VotedTypeOK ==
    /\ {started, storeUp, listening, dirty, timer, failed} \subseteq BOOLEAN
    /\ records \in [Indexed -> [Voter \cup {Us} -> Vote \cup {"none"}]]
    /\ columns \in [Indexed -> [Vote -> 0..MaxVotes]]
    /\ selfVoted \subseteq Indexed /\ \A k \in DOMAIN notices : notices[k] \in Indexed
    /\ feed \in [Indexed -> 0..maxSize] /\ table \in [Indexed -> 0..maxSize]

(* Own vote on a torrent is counted once in a run of the program, with a    *)
(* store or without; the feed is never over its size, and while every write *)
(* has succeeded what is not in the table is owed to it by a running timer. *)
VotedOnceAndOwed ==
    /\ \A h \in Indexed : counted[h] <= 1
    /\ Size(feed) <= maxSize
    /\ started /\ ~failed =>
          /\ dirty => timer
          /\ ~dirty => table = [h \in Indexed |-> feed[h] + (IF h \in Blocked THEN table[h] ELSE 0)]
=============================================================================
