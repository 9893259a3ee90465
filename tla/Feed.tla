-------------------------------- MODULE Feed --------------------------------
(***************************************************************************)
(* The ranked feed of voted torrents (native/engine/feed.cpp), its         *)
(* debounced file, and its exchange between nodes                          *)
(* (native/engine/peer_api.cpp).                                           *)
(*                                                                         *)
(* Each node is one engine loop, so an operation is one action; the flush  *)
(* timer and the answers of other nodes come between any two. A node asks  *)
(* for a peer's feed when they connect and the request carries nothing     *)
(* that is looked at, so asking and answering are one action; applying the *)
(* answer is another, any time later or never. What a peer that runs       *)
(* another program answers is one of Foreign, at any time: it may overstate *)
(* its size, list what this program refuses, or more than fits, but its    *)
(* dates are those of a clock that agrees with ours.                       *)
(*                                                                         *)
(* The ranking is left open: it only decides which entry is the last, the  *)
(* one a full feed gives up, and the score moves with time. Votes for      *)
(* torrents that shouldBlock() rejects or the index does not hold change   *)
(* nothing.                                                                *)
(* modified is history: when a vote last changed what a feed holds.        *)
(***************************************************************************)
EXTENDS Integers, FiniteSets

CONSTANTS Node, Hash,
          MaxSize,        \* maxSize_
          Votes,          \* vote counts (the columns good and bad)
          WriteOutcomes,  \* may writing the file succeed, fail
          None,           \* no entry, no answer
          Refused,        \* torrents that shouldBlock() rejects, and malformed items
          Foreign,        \* answers of peers that run another program: <<node, answer>> (a bound)
          Cast,           \* what may be voted: <<node, hash, votes>> (a bound)
          MaxClock,       \* seconds that pass (a bound)
          MaxVotes,       \* votes and peers' records applied (a bound)
          MaxStarts       \* restarts (a bound)

Time == 0..MaxClock
Item == [votes : Votes, feedDate : Time]
Items == [Hash -> Item \cup {None}]
Answer == [items : Items, size : Nat, date : Time, modified : Time]

Listed(items) == {h \in Hash : items[h] # None}
Size(items) == Cardinality(Listed(items))
Empty == [h \in Hash |-> None]

\* No entry is dated after d.
Dated(items, d) ==
    \A h \in Listed(items) : 1 <= items[h].feedDate /\ items[h].feedDate <= d

ASSUME FeedAssumption ==
    /\ MaxSize \in Nat \ {0}
    /\ WriteOutcomes \subseteq BOOLEAN
    /\ MaxClock \in Nat \ {0} /\ MaxVotes \in Nat /\ MaxStarts \in Nat
    /\ None \notin Item \cup Answer
    /\ IsFiniteSet(Hash)
    /\ Foreign \subseteq Node \X [items : Items, size : Nat, date : Time]
    /\ \A f \in Foreign : Dated(f[2].items, f[2].date)

VARIABLES clock,
          up,             \* the node runs
          feed,           \* feed_
          feedDate,       \* feedDate_
          dirty,          \* dirty_
          flushScheduled, \* flushScheduled_
          timer,          \* the loop holds a closure that will flush
          file,           \* feed.json: its items (and when they were modified)
          answers,        \* answers[m][n]: m's feed on its way to n
          modified,       \* history
          voted, starts   \* counters for the bounds

flushing == <<dirty, flushScheduled, timer>>
vars == <<clock, up, feed, feedDate, flushing, file, answers, modified, voted, starts>>

\* What may be taken over of a list, and how much of it.
Acceptable(items) == Listed(items) \ Refused
Room(items) == LET count == Cardinality(Acceptable(items))
               IN  IF count < MaxSize THEN count ELSE MaxSize

\* What load() and fromJsonArray() may make of a list: all that is acceptable, or as
\* much of it as comes first and fits.
Taken(items) ==
    {[h \in Hash |-> IF h \in first THEN items[h] ELSE None] :
        first \in {S \in SUBSET Acceptable(items) : Cardinality(S) = Room(items)}}

\* The date load() makes of the items it finds: that of the newest.
Newest(items) ==
    LET dates == {items[h].feedDate : h \in Listed(items)} \cup {0}
    IN  {d \in dates : \A e \in dates : e <= d}

Init == /\ clock = 1
        /\ up = [n \in Node |-> TRUE]
        /\ feed = [n \in Node |-> Empty]
        /\ feedDate = [n \in Node |-> 0]
        /\ dirty = [n \in Node |-> FALSE]
        /\ flushScheduled = [n \in Node |-> FALSE]
        /\ timer = [n \in Node |-> FALSE]
        /\ file = [n \in Node |-> [items |-> Empty, modified |-> 0]]
        /\ answers = [m \in Node |-> [n \in Node |-> None]]
        /\ modified = [n \in Node |-> 0]
        /\ voted = 0 /\ starts = 0

-----------------------------------------------------------------------------
(* Persistence *)

\* Plausible bug: the timer is armed only for a feed that was dirty already.
MarkDirtyLazily(n) ==
    /\ dirty' = [dirty EXCEPT ![n] = TRUE]
    /\ flushScheduled' = [flushScheduled EXCEPT ![n] = TRUE]
    /\ timer' = [timer EXCEPT ![n] = dirty[n] /\ ~flushScheduled[n]]

MarkDirty(n) == /\ dirty' = [dirty EXCEPT ![n] = TRUE]
                /\ flushScheduled' = [flushScheduled EXCEPT ![n] = TRUE]
                /\ timer' = [timer EXCEPT ![n] = @ \/ ~flushScheduled[n]]

\* Plausible bug: the flag stays set when the flush had something to write.
ScheduledAfterStuck(n) == dirty[n]

\* The closure clears the flag before it flushes.
ScheduledAfter(n) == FALSE

\* Temp file, then rename: all of the feed or the old file. dirty_ is cleared first.
PersistNow(n, ok) ==
    /\ dirty' = [dirty EXCEPT ![n] = FALSE]
    /\ file' = IF ok THEN [file EXCEPT ![n] = [items |-> feed[n], modified |-> modified[n]]]
               ELSE file

Flush(n, ok) ==
    /\ up[n] /\ timer[n]
    /\ timer' = [timer EXCEPT ![n] = FALSE]
    /\ flushScheduled' = [flushScheduled EXCEPT ![n] = ScheduledAfter(n)]
    /\ IF dirty[n] THEN PersistNow(n, ok) ELSE UNCHANGED <<dirty, file>>
    /\ UNCHANGED <<clock, up, feed, feedDate, answers, modified, voted, starts>>

\* The node is gone, and with it every answer to it or from it.
Leave(n) ==
    /\ up' = [up EXCEPT ![n] = FALSE]
    /\ feed' = [feed EXCEPT ![n] = Empty]
    /\ feedDate' = [feedDate EXCEPT ![n] = 0]
    /\ flushScheduled' = [flushScheduled EXCEPT ![n] = FALSE]
    /\ timer' = [timer EXCEPT ![n] = FALSE]
    /\ modified' = [modified EXCEPT ![n] = 0]
    /\ answers' = [m \in Node |-> [k \in Node |->
                    IF n \in {m, k} THEN None ELSE answers[m][k]]]
    /\ UNCHANGED <<clock, voted, starts>>

Save(n, ok) == IF dirty[n] THEN PersistNow(n, ok) ELSE UNCHANGED <<dirty, file>>

\* main saves the feed when the loop has ended. The destructor finds it clean.
Shutdown(n, ok) == up[n] /\ Save(n, ok) /\ Leave(n)

Crash(n) == /\ up[n]
            /\ dirty' = [dirty EXCEPT ![n] = FALSE]
            /\ UNCHANGED file
            /\ Leave(n)

Load(n) ==
    /\ ~up[n] /\ starts < MaxStarts /\ starts' = starts + 1
    /\ up' = [up EXCEPT ![n] = TRUE]
    /\ \E items \in Taken(file[n].items) : \E d \in Newest(items) :
          /\ feed' = [feed EXCEPT ![n] = items]
          /\ feedDate' = [feedDate EXCEPT ![n] = d]
    /\ modified' = [modified EXCEPT ![n] = file[n].modified]
    /\ UNCHANGED <<clock, flushing, file, answers, voted>>

-----------------------------------------------------------------------------
(* Votes *)

\* A full feed gives up its last entry, whatever its score.
Added(items, h, item) ==
    IF Size(items) < MaxSize THEN {[items EXCEPT ![h] = item]}
    ELSE {[items EXCEPT ![last] = None, ![h] = item] : last \in Listed(items)}

\* An entry that is there keeps its date.
Refreshed(item, votes) == [votes |-> votes, feedDate |-> item.feedDate]

Add(n, h, votes) ==
    IF h \in Listed(feed[n])
    THEN feed' = [feed EXCEPT ![n][h] = Refreshed(@, votes)]
    ELSE \E items \in Added(feed[n], h, [votes |-> votes, feedDate |-> clock]) :
            feed' = [feed EXCEPT ![n] = items]

\* Plausible bug: only a new entry makes the feed dirty.
AddByHashUnsaved(n, h, votes) ==
    /\ up[n] /\ <<n, h, votes>> \in Cast /\ h \notin Refused
    /\ voted < MaxVotes /\ voted' = voted + 1
    /\ Add(n, h, votes)
    /\ feedDate' = [feedDate EXCEPT ![n] = clock]
    /\ modified' = [modified EXCEPT ![n] = clock]
    /\ IF h \in Listed(feed[n]) THEN UNCHANGED flushing ELSE MarkDirty(n)
    /\ UNCHANGED <<clock, up, file, answers, starts>>

\* votesUpdated: the votes are those the index has now.
AddByHash(n, h, votes) ==
    /\ up[n] /\ <<n, h, votes>> \in Cast /\ h \notin Refused
    /\ voted < MaxVotes /\ voted' = voted + 1
    /\ Add(n, h, votes)
    /\ feedDate' = [feedDate EXCEPT ![n] = clock]
    /\ modified' = [modified EXCEPT ![n] = clock]
    /\ MarkDirty(n)
    /\ UNCHANGED <<clock, up, file, answers, starts>>

-----------------------------------------------------------------------------
(* The exchange *)

\* n connects to m and asks; m answers with all it has.
HandleFeedRequest(m, n) ==
    /\ m # n /\ up[m] /\ up[n]
    /\ answers[m][n] = None
    /\ answers' = [answers EXCEPT ![m][n] =
                      [items |-> feed[m], size |-> Size(feed[m]), date |-> feedDate[m],
                       modified |-> modified[m]]]
    /\ UNCHANGED <<clock, up, feed, feedDate, flushing, file, modified, voted, starts>>

\* Plausible bug: the newer feed wins, whatever its size.
MayReplaceByDate(n, a) == a.date > feedDate[n]

\* It is the size the sender states that is compared, not what may be taken.
MayReplace(n, a) ==
    \/ a.size > Size(feed[n])
    \/ a.size = Size(feed[n]) /\ a.date > feedDate[n]

\* Plausible bug: the feed that was taken over counts as changed now.
DateTakenNow(a) == clock

DateTaken(a) == IF a.date > 0 THEN a.date ELSE clock

\* fromJsonArray(): last is when the list was last modified, as far as is known.
Replace(n, a, last) ==
    /\ \E items \in Taken(a.items) : feed' = [feed EXCEPT ![n] = items]
    /\ feedDate' = [feedDate EXCEPT ![n] = DateTaken(a)]
    /\ modified' = [modified EXCEPT ![n] = last]
    /\ MarkDirty(n)

Consider(n, a, last) ==
    IF MayReplace(n, a) THEN Replace(n, a, last)
    ELSE UNCHANGED <<feed, feedDate, modified, flushing>>

HandleFeedResponse(m, n) ==
    /\ answers[m][n] # None
    /\ answers' = [answers EXCEPT ![m][n] = None]
    /\ Consider(n, answers[m][n], answers[m][n].modified)
    /\ UNCHANGED <<clock, up, file, voted, starts>>

\* The answer of a peer that runs another program, taken at its word.
HandleForeignResponse(n, a) ==
    /\ up[n] /\ <<n, a>> \in Foreign /\ a.date <= clock
    /\ voted < MaxVotes /\ voted' = voted + 1
    /\ Consider(n, a, DateTaken(a))
    /\ UNCHANGED <<clock, up, file, answers, starts>>

Tick == /\ clock < MaxClock /\ clock' = clock + 1
        /\ UNCHANGED <<up, feed, feedDate, flushing, file, answers, modified, voted,
                       starts>>

-----------------------------------------------------------------------------

Next == \/ Tick
        \/ \E n \in Node :
             \/ \E ok \in WriteOutcomes : Flush(n, ok) \/ Shutdown(n, ok)
             \/ Crash(n) \/ Load(n)
             \/ \E h \in Hash, votes \in Votes : AddByHash(n, h, votes)
             \/ \E m \in Node : HandleFeedRequest(m, n) \/ HandleFeedResponse(m, n)
             \/ \E f \in Foreign : HandleForeignResponse(n, f[2])

Spec == Init /\ [][Next]_vars

\* The loop runs its delayed closures as long as it runs.
FairSpec == Spec /\ \A n \in Node : WF_vars(\E ok \in WriteOutcomes : Flush(n, ok))

-----------------------------------------------------------------------------
(* Properties *)

TypeOK ==
    /\ clock \in Time
    /\ up \in [Node -> BOOLEAN]
    /\ feed \in [Node -> Items]
    /\ feedDate \in [Node -> Time]
    /\ dirty \in [Node -> BOOLEAN]
    /\ flushScheduled \in [Node -> BOOLEAN]
    /\ timer \in [Node -> BOOLEAN]
    /\ file \in [Node -> [items : Items, modified : Time]]
    /\ answers \in [Node -> [Node -> Answer \cup {None}]]
    /\ modified \in [Node -> Time]
    /\ voted \in 0..MaxVotes /\ starts \in 0..MaxStarts

\* The feed never grows beyond maxSize_ and never lists what shouldBlock() rejects
\* ("Bad or xxx content never enters the feed", feed.cpp:30), in memory, on disk or in
\* what is sent: votes, a reload and a peer's feed all respect it.
Proper(items) == Size(items) <= MaxSize /\ Listed(items) \cap Refused = {}
Bounded ==
    /\ \A n \in Node : Proper(feed[n]) /\ Proper(file[n].items)
    /\ \A m, n \in Node : answers[m][n] # None =>
          /\ Proper(answers[m][n].items)
          /\ answers[m][n].size = Size(answers[m][n].items)

\* What is not on disk has a timer that will write it: the flag that coalesces
\* flushes never outlives its timer (feed.cpp:304-316).
DebtScheduled == \A n \in Node : dirty[n] => timer[n]

\* "Nothing changed since the last flush -- the stored file already matches"
\* (Feed::save): a feed that is not dirty is the one on disk. It takes writes that
\* succeed.
CleanIsSaved == \A n \in Node : up[n] /\ ~dirty[n] => file[n].items = feed[n]

\* Together: what a node holds is a feed, of no more than maxSize_ and without what is
\* blocked, and on disk unless the feed is dirty.
FeedKept == TypeOK /\ Bounded /\ CleanIsSaved

\* An answer that states more than may be taken of it: refused entries counted, more
\* than fits, or a number out of the air.
Overstated(a) == a.size > Room(a.items)

\* A running node's feed gets smaller in one way only: by taking over the answer of
\* another program that states a larger size than what is left of it (the size is
\* compared before the list is filtered, peer_api.cpp:348-355, feed.cpp:216-230).
\* Neither a vote on a full feed nor an answer of a node of this program, however old
\* the state of either side it was computed against, costs it an entry.
NeverShrinks ==
    [][\A n \in Node : up[n] /\ up'[n] =>
          \/ Size(feed'[n]) >= Size(feed[n])
          \/ \E f \in Foreign : Overstated(f[2]) /\ HandleForeignResponse(n, f[2])]_vars

\* A node never claims its feed to be newer than the last vote that went into it,
\* however often the feed was handed on or reloaded: else an old feed would replace
\* newer ones of the same size everywhere (peer_api.cpp:354).
NeverPredated == \A n \in Node : up[n] => feedDate[n] <= modified[n]

\* What a feed holds reaches the disk while the node keeps running.
ReachesDisk ==
    \A n \in Node : (up[n] /\ dirty[n]) ~> (~up[n] \/ file[n].items = feed[n])
=============================================================================
