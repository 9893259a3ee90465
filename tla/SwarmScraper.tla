----------------------------- MODULE SwarmScraper -----------------------------
(***************************************************************************)
(* Reading a torrent's seeders from its trackers (src/native/engine/       *)
(* swarm_scraper and tracker_service; src/src/net/swarm_scraper is its     *)
(* twin): per hash one pool task per tracker, merged into a shared best;   *)
(* the last one posts the result to the engine thread, which frees the slot*)
(* of the hash and starts one that waited.                                 *)
(***************************************************************************)
EXTENDS Integers, Sequences, FiniteSets, FiniteSetsExt

CONSTANTS
    SwarmHash,        \* info-hashes
    Tracker,
    MaxSeeders,       \* bound: seeders a tracker reports
    MaxRequests,      \* bound: requests
    kMaxConcurrent,   \* scrapes under way
    kMaxPoolThreads   \* announces under way

ASSUME SwarmAssumption ==
    /\ Tracker # {} /\ MaxSeeders \in Nat
    /\ kMaxConcurrent \in Nat /\ kMaxPoolThreads \in Nat

VARIABLES
    stopping,   \* "no"; "draining": stop() waits for the pool; "yes"
    recent,     \* recentChecks_: hashes within the cooldown
    pending,    \* pendingQueue_
    active,     \* activeRequests_
    scrapes,    \* the ScrapeStates made so far
    swarmReports, \* closures posted to the engine: indexes into scrapes
    stats,      \* the index: per hash the seeders written last (NoCount: no row)
    requests

swarmVars == <<stopping, recent, pending, active, scrapes, swarmReports, stats, requests>>

NoCount == -1
\* What one tracker's task has come to; "merged": its result is in `best`.
ScrapeTask == {"queued", "announcing", "merged", "left", "dropped"}
ScrapeState == [hash : SwarmHash, tasks : [Tracker -> ScrapeTask],
                found : [Tracker -> NoCount..MaxSeeders], best : NoCount..MaxSeeders]

SwarmInit ==
    /\ stopping = "no" /\ recent = {} /\ pending = <<>> /\ active = 0
    /\ scrapes = <<>> /\ swarmReports = <<>> /\ requests = 0
    /\ stats \in [SwarmHash -> {NoCount, 0}]

TasksIn(where) == {kt \in (1..Len(scrapes)) \X Tracker : scrapes[kt[1]].tasks[kt[2]] = where}

-----------------------------------------------------------------------------
(* The engine thread                                                        *)

EngineFree == stopping # "draining"

Started(h) == [hash |-> h, tasks |-> [t \in Tracker |-> "queued"],
               found |-> [t \in Tracker |-> NoCount], best |-> NoCount]

\* onTorrentIndexed, checkCounts and requestScrape: a fresh hash takes a slot or
\* waits for one.
RequestScrape(h) ==
    /\ EngineFree /\ requests < MaxRequests
    /\ requests' = requests + 1
    /\ IF stopping = "yes" \/ h \in recent
       THEN UNCHANGED <<recent, pending, active, scrapes>>
       ELSE /\ recent' = recent \cup {h}
            /\ IF active >= kMaxConcurrent
               THEN pending' = Append(pending, h) /\ UNCHANGED <<active, scrapes>>
               ELSE /\ active' = active + 1 /\ scrapes' = Append(scrapes, Started(h))
                    /\ UNCHANGED pending
    /\ UNCHANGED <<stopping, swarmReports, stats>>

\* The cooldown of a hash has passed (pruneStaleChecks): no earlier than its
\* announces have timed out.
CooledDown(h) ==
    /\ h \in recent /\ h \notin {pending[k] : k \in DOMAIN pending}
    /\ \A k \in DOMAIN scrapes : scrapes[k].hash = h => \A t \in Tracker : scrapes[k].tasks[t] \in {"left", "dropped"}
    /\ recent' = recent \ {h}
    /\ UNCHANGED <<stopping, pending, active, scrapes, swarmReports, stats, requests>>

\* processQueue with `free` slots taken: as many of the queue as fit.
Fits(free) == Min({Len(pending), free})
ProcessQueue(taken) ==
    LET n == IF stopping = "yes" THEN 0 ELSE Fits(kMaxConcurrent - taken) IN
    /\ pending' = SubSeq(pending, n + 1, Len(pending))
    /\ active' = taken + n
    /\ scrapes' = scrapes \o [k \in 1..n |-> Started(pending[k])]

\* onCountsScraped: a row that is gone is not written.
OnCountsScraped(s) ==
    stats' = IF s.best # NoCount /\ stats[s.hash] # NoCount THEN [stats EXCEPT ![s.hash] = s.best] ELSE stats

\* Plausible bug: only a result gives the slot back.
ReportedIfFound ==
    /\ EngineFree /\ swarmReports # <<>>
    /\ swarmReports' = Tail(swarmReports)
    /\ ProcessQueue(IF scrapes[Head(swarmReports)].best = NoCount THEN active ELSE Max({0, active - 1}))
    /\ OnCountsScraped(scrapes[Head(swarmReports)])
    /\ UNCHANGED <<stopping, recent, requests>>
\* The closure of the last task of a hash.
ScrapeReported ==
    /\ EngineFree /\ swarmReports # <<>>
    /\ swarmReports' = Tail(swarmReports)
    /\ ProcessQueue(Max({0, active - 1}))
    /\ OnCountsScraped(scrapes[Head(swarmReports)])
    /\ UNCHANGED <<stopping, recent, requests>>

\* stop(): the queue and the tasks that have not begun are dropped, and the others
\* waited for.
StopSwarm ==
    /\ stopping = "no"
    /\ stopping' = "draining" /\ pending' = <<>>
    /\ scrapes' = [k \in DOMAIN scrapes |-> [scrapes[k] EXCEPT !.tasks =
           [t \in Tracker |-> IF @[t] = "queued" THEN "dropped" ELSE @[t]]]]
    /\ UNCHANGED <<recent, active, swarmReports, stats, requests>>
Drained ==
    /\ stopping = "draining" /\ TasksIn("announcing") \cup TasksIn("merged") = {}
    /\ stopping' = "yes"
    /\ UNCHANGED <<recent, pending, active, scrapes, swarmReports, stats, requests>>

-----------------------------------------------------------------------------
(* The pool                                                                 *)

Take(k, t) ==
    /\ scrapes[k].tasks[t] = "queued"
    /\ Cardinality(TasksIn("announcing") \cup TasksIn("merged")) < kMaxPoolThreads
    /\ scrapes' = [scrapes EXCEPT ![k].tasks[t] = "announcing"]
    /\ UNCHANGED <<stopping, recent, pending, active, swarmReports, stats, requests>>

\* Plausible bug: the tracker that answers last decides.
LatestWins(s, n) == IF n # NoCount THEN n ELSE s.best
\* The merge under the mutex of the hash.
Better(s, n) == IF n > s.best THEN n ELSE s.best

\* announceOne: an answer, an error or a timeout (n = NoCount); cancelled by stop().
Announced(k, t, n) ==
    /\ scrapes[k].tasks[t] = "announcing"
    /\ stopping # "no" => n = NoCount
    /\ scrapes' = [scrapes EXCEPT ![k] = [@ EXCEPT !.tasks[t] = "merged", !.found[t] = n,
                                                   !.best = Better(scrapes[k], n)]]
    /\ UNCHANGED <<stopping, recent, pending, active, swarmReports, stats, requests>>

\* remaining.fetch_sub: whoever is last reports.
TaskLeaves(k, t) ==
    /\ scrapes[k].tasks[t] = "merged"
    /\ scrapes' = [scrapes EXCEPT ![k].tasks[t] = "left"]
    /\ swarmReports' = IF \A u \in Tracker \ {t} : scrapes[k].tasks[u] = "left"
                       THEN Append(swarmReports, k) ELSE swarmReports
    /\ UNCHANGED <<stopping, recent, pending, active, stats, requests>>

-----------------------------------------------------------------------------
Step(k, t) == Take(k, t) \/ TaskLeaves(k, t) \/ \E n \in NoCount..MaxSeeders : Announced(k, t, n)
SwarmNext ==
    \/ \E h \in SwarmHash : RequestScrape(h) \/ CooledDown(h)
    \/ \E k \in DOMAIN scrapes, t \in Tracker : Step(k, t)
    \/ ScrapeReported \/ StopSwarm \/ Drained

SwarmSpec == SwarmInit /\ [][SwarmNext]_swarmVars

SwarmTypeOK ==
    /\ stopping \in {"no", "draining", "yes"} /\ recent \subseteq SwarmHash /\ active \in 0..kMaxConcurrent
    /\ \A k \in DOMAIN pending : pending[k] \in SwarmHash
    /\ \A k \in DOMAIN scrapes : scrapes[k] \in ScrapeState

(* What is reported for a hash is the best any of its trackers answered,    *)
(* although they merge and leave in any order on several threads; it is     *)
(* reported once, when the last of them has left.                           *)
ReportIsBest ==
    /\ \A i \in DOMAIN swarmReports : LET s == scrapes[swarmReports[i]] IN
          s.best = Max({s.found[t] : t \in Tracker}) /\ \A t \in Tracker : s.tasks[t] = "left"
    /\ \A i, j \in DOMAIN swarmReports : swarmReports[i] = swarmReports[j] => i = j

(* activeRequests_ counts the scrapes that still have a task, or a report    *)
(* the engine has not seen: no slot is given back twice, and none is lost.   *)
Holding == {k \in DOMAIN scrapes : \/ \E t \in Tracker : scrapes[k].tasks[t] # "left"
                                  \/ \E i \in DOMAIN swarmReports : swarmReports[i] = k}
SlotPerScrape == active = Cardinality(Holding)

ScrapesRight == ReportIsBest /\ SlotPerScrape
=============================================================================
