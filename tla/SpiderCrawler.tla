---------------------------- MODULE SpiderCrawler ----------------------------
(***************************************************************************)
(* The DHT crawler of the Qt program (src/src/net/crawler).  Announces and *)
(* results come on worker threads of librats and are queued for the Qt     *)
(* thread; a 100 ms timer starts fetches while fewer than the cap are under*)
(* way; the crawler can be stopped and started again.  A hash is a number: *)
(* the order of the numbers is that of the strings.                        *)
(***************************************************************************)
EXTENDS Integers, Sequences, FiniteSets, FiniteSetsExt

CONSTANTS
    CrawlHash,                                         \* a set of naturals
    InDatabase,                                        \* hashes the database has
    MaxAnnounces, MaxCrawls,                           \* bounds
    MAX_CONCURRENT_METADATA_FETCHES, MAX_RECENT_HASHES

\* What the constants of the source are: room for a hash that is seen, and for a fetch.
ASSUME CrawlAssumption ==
    /\ CrawlHash \subseteq Nat
    /\ MAX_CONCURRENT_METADATA_FETCHES \in Nat \ {0} /\ MAX_RECENT_HASHES \in Nat \ {0}

VARIABLES
    running,        \* running_; the timers run with it
    spider,         \* librats' spider mode: "off", "on" or "ignoring"
    recent,         \* recentHashes_, a std::set
    metadataQueue,  \* metadataQueue_
    active,         \* activeFetches_
    flight,         \* the fetches librats works on, in the order they began
    calls,          \* invocations queued for the Qt thread
    discovered,     \* discoveredCount_
    orphaned,       \* history: fetches that were under way at a stop()
    announces, starts

crawlVars == <<running, spider, recent, metadataQueue, active, flight, calls, discovered,
               orphaned, announces, starts>>

Call == [kind : {"announce", "metadata"}, hash : CrawlHash]

CrawlInit ==
    /\ running = FALSE /\ spider = "off"
    /\ recent = {} /\ metadataQueue = <<>> /\ active = 0 /\ flight = <<>> /\ calls = <<>>
    /\ discovered = 0 /\ orphaned = 0 /\ announces = 0 /\ starts = 0

-----------------------------------------------------------------------------
(* librats                                                                  *)

SpiderAnnounce(h) ==
    /\ spider = "on" /\ announces < MaxAnnounces
    /\ announces' = announces + 1
    /\ calls' = Append(calls, [kind |-> "announce", hash |-> h])
    /\ UNCHANGED <<running, spider, recent, metadataQueue, active, flight, discovered, orphaned, starts>>

\* The callback of a fetch, exactly once, with metadata or without.
OnResult(k, ok) ==
    /\ k \in DOMAIN flight
    /\ flight' = SubSeq(flight, 1, k - 1) \o SubSeq(flight, k + 1, Len(flight))
    /\ active' = active - 1
    /\ calls' = IF ok THEN Append(calls, [kind |-> "metadata", hash |-> flight[k]]) ELSE calls
    /\ UNCHANGED <<running, spider, recent, metadataQueue, discovered, orphaned, announces, starts>>

-----------------------------------------------------------------------------
(* The Qt thread                                                            *)

\* The timers start and spider mode goes on; what librats ignored it may
\* ignore still.
StartCrawler ==
    /\ ~running /\ starts < MaxCrawls
    /\ running' = TRUE /\ spider' \in {"on", "ignoring"} /\ starts' = starts + 1
    /\ UNCHANGED <<recent, metadataQueue, active, flight, calls, discovered, orphaned, announces>>

\* The queue and the fetches under way stay, the counter does not.
StopCrawler ==
    /\ running
    /\ running' = FALSE /\ spider' = "off"
    /\ active' = 0 /\ orphaned' = orphaned + active
    /\ UNCHANGED <<recent, metadataQueue, flight, calls, discovered, announces, starts>>

OnIgnoreToggle ==
    /\ running
    /\ spider' = IF spider = "on" THEN "ignoring" ELSE "on"
    /\ UNCHANGED <<running, recent, metadataQueue, active, flight, calls, discovered, orphaned,
                   announces, starts>>

\* Plausible bug: the size is looked at before the hash is counted.
BoundedLate(seen) ==
    IF Cardinality(seen) > MAX_RECENT_HASHES + 1
    THEN {h \in seen : Cardinality({g \in seen : g < h}) >= Cardinality(seen) \div 2}
    ELSE seen

\* Where the set has grown too large its lower half goes: the lower half of the
\* strings.
Bounded(seen) ==
    IF Cardinality(seen) > MAX_RECENT_HASHES
    THEN {h \in seen : Cardinality({g \in seen : g < h}) >= Cardinality(seen) \div 2}
    ELSE seen

OnAnnounce ==
    /\ calls # <<>> /\ Head(calls).kind = "announce"
    /\ calls' = Tail(calls)
    /\ LET h == Head(calls).hash IN
       IF h \in recent
       THEN UNCHANGED <<recent, metadataQueue>>
       ELSE /\ recent' = Bounded(recent \cup {h})
            /\ metadataQueue' = IF h \in InDatabase THEN metadataQueue ELSE Append(metadataQueue, h)
    /\ UNCHANGED <<running, spider, active, flight, discovered, orphaned, announces, starts>>

OnMetadataReceived ==
    /\ calls # <<>> /\ Head(calls).kind = "metadata"
    /\ calls' = Tail(calls) /\ discovered' = discovered + 1
    /\ UNCHANGED <<running, spider, recent, metadataQueue, active, flight, orphaned, announces, starts>>

\* The timer: as many fetches as the counter says are free.
ProcessMetadataQueue ==
    LET n == Min({Len(metadataQueue), Max({0, MAX_CONCURRENT_METADATA_FETCHES - active})}) IN
    /\ running /\ n > 0
    /\ metadataQueue' = SubSeq(metadataQueue, n + 1, Len(metadataQueue))
    /\ active' = active + n
    /\ flight' = flight \o SubSeq(metadataQueue, 1, n)
    /\ UNCHANGED <<running, spider, recent, calls, discovered, orphaned, announces, starts>>

CrawlNext ==
    \/ \E h \in CrawlHash : SpiderAnnounce(h)
    \/ \E k \in 1..MaxAnnounces, ok \in BOOLEAN : OnResult(k, ok)
    \/ StartCrawler \/ StopCrawler \/ OnIgnoreToggle
    \/ OnAnnounce \/ OnMetadataReceived \/ ProcessMetadataQueue

-----------------------------------------------------------------------------
CrawlSpec == CrawlInit /\ [][CrawlNext]_crawlVars

CrawlTypeOK ==
    /\ running \in BOOLEAN /\ spider \in {"off", "on", "ignoring"}
    /\ recent \subseteq CrawlHash /\ Cardinality(recent) <= MAX_RECENT_HASHES
    /\ \A k \in DOMAIN metadataQueue : metadataQueue[k] \in CrawlHash \ InDatabase
    /\ \A k \in DOMAIN flight : flight[k] \in CrawlHash
    /\ \A k \in DOMAIN calls : calls[k] \in Call

(* What the counter says and what librats works on differ by the fetches    *)
(* that were under way when the crawler was stopped, and by nothing else: a *)
(* crawler that was never stopped is exact, and within its cap.             *)
OffByTheStops ==
    /\ active = Len(flight) - orphaned
    /\ orphaned = 0 => Len(flight) <= MAX_CONCURRENT_METADATA_FETCHES
=============================================================================
