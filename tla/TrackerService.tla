---------------------------- MODULE TrackerService ----------------------------
(***************************************************************************)
(* The tracker service of the Qt program and its two scrapers              *)
(* (src/src/services/tracker_service, src/src/net/swarm_scraper,           *)
(* src/src/net/tracker_site_scraper): announces on a pool of their own,    *)
(* merged per hash and posted to the Qt thread; web pages fetched by that  *)
(* thread, two sites per hash, merged when both have answered.  A page is  *)
(* what its parser can tell of it: a title, a poster, a thread.            *)
(***************************************************************************)
EXTENDS Integers, Sequences, FiniteSets

CONSTANTS
    TrackedHash, Tracker, Page,
    MaxSeeders, MaxChecks, MaxToggles,  \* bounds: seeders reported, checks, changes of the setting
    kMaxSwarms, kMaxSites,              \* kMaxConcurrent of either scraper
    kMaxPoolThreads

\* The trackers are a list in the code, not an empty one; a page says yes or no.
ASSUME TrackerAssumption ==
    /\ IsFiniteSet(Tracker) /\ Tracker # {} /\ MaxSeeders \in Nat
    /\ kMaxSwarms \in Nat /\ kMaxSites \in Nat
    /\ Page \subseteq [title : BOOLEAN, poster : BOOLEAN, thread : BOOLEAN]

VARIABLES
    enabled,  \* [counts, info]: countEnabled_, infoEnabled_
    stage,    \* "on"; "draining": stop() waits for the pool; "off"
    swarm,    \* SwarmScraper: its queue, slots, timer, cooldowns, ScrapeStates and posted results
    sites,    \* TrackerSiteScraper: its queue, slots, timer, cooldowns, PendingScrapes and replies
    stored,   \* the database: per hash the seeders, the trackers and the poster written
    checks, toggles

trackerVars == <<enabled, stage, swarm, sites, stored, checks, toggles>>

None == -1
Site == {"rutracker", "nyaa"}
TrackerSiteInfo == [trackerName : Site, poster : BOOLEAN, threadId : BOOLEAN, success : BOOLEAN]
Reply == [hash : TrackedHash, kind : {"rutracker", "nyaa", "view"}]
Announce == {"queued", "announcing", "merged", "left", "dropped"}
NoScrape == [pendingCount |-> 0, results |-> <<>>]

TrackerInit ==
    /\ enabled \in {[counts |-> on, info |-> on] : on \in BOOLEAN} /\ stage = "on"
    /\ swarm = [queue |-> <<>>, active |-> 0, timer |-> FALSE, recent |-> {}, scrapes |-> <<>>,
                posted |-> <<>>]
    /\ sites = [queue |-> <<>>, active |-> 0, timer |-> FALSE, recent |-> {},
                pending |-> [h \in TrackedHash |-> NoScrape], replies |-> {}]
    /\ stored = [h \in TrackedHash |-> [seeders |-> None, trackers |-> {}, poster |-> "none"]]
    /\ checks = 0 /\ toggles = 0

Least(m, n) == IF m < n THEN m ELSE n
Handles == stage # "draining"   \* the Qt thread is not inside stop()

-----------------------------------------------------------------------------
(* The swarm scraper                                                        *)

AnnounceTasks(s) == {a \in (DOMAIN s.scrapes) \X Tracker :
                        s.scrapes[a[1]].tasks[a[2]] \in {"announcing", "merged"}}

\* startScrape: one task per tracker.
SwarmScrape(h) == [hash |-> h, tasks |-> [t \in Tracker |-> "queued"],
                   found |-> [t \in Tracker |-> None], best |-> None,
                   remaining |-> Cardinality(Tracker)]

\* Plausible bug: one more than the slots is let in.
RequestScrapeLate(s, h) ==
    IF stage # "on" \/ h \in s.recent THEN s
    ELSE IF s.active > kMaxSwarms
    THEN [s EXCEPT !.recent = @ \cup {h}, !.queue = Append(@, h), !.timer = TRUE]
    ELSE [s EXCEPT !.recent = @ \cup {h}, !.active = @ + 1, !.scrapes = Append(@, SwarmScrape(h))]

RequestScrape(s, h) ==
    IF stage # "on" \/ h \in s.recent THEN s
    ELSE IF s.active >= kMaxSwarms
    THEN [s EXCEPT !.recent = @ \cup {h}, !.queue = Append(@, h), !.timer = TRUE]
    ELSE [s EXCEPT !.recent = @ \cup {h}, !.active = @ + 1, !.scrapes = Append(@, SwarmScrape(h))]

\* What fits is started; the poll timer runs while something is queued.
SwarmQueue(s) ==
    IF stage # "on" THEN s
    ELSE LET n == Least(Len(s.queue), kMaxSwarms - s.active) IN
         [s EXCEPT !.queue = SubSeq(@, n + 1, Len(@)), !.active = @ + n,
                   !.timer = @ /\ n < Len(s.queue),
                   !.scrapes = @ \o [k \in 1..n |-> SwarmScrape(s.queue[k])]]

PoolTakes(k, t) ==
    /\ swarm.scrapes[k].tasks[t] = "queued" /\ Cardinality(AnnounceTasks(swarm)) < kMaxPoolThreads
    /\ swarm' = [swarm EXCEPT !.scrapes[k].tasks[t] = "announcing"]
    /\ UNCHANGED <<enabled, stage, sites, stored, checks, toggles>>

MergedTask(c, t, n) ==
    [c EXCEPT !.tasks = [@ EXCEPT ![t] = "merged"], !.found = [@ EXCEPT ![t] = n],
              !.best = IF n > @ THEN n ELSE @]
LeftTask(c, t) == [c EXCEPT !.tasks = [@ EXCEPT ![t] = "left"], !.remaining = @ - 1]

\* announceOne and the merge under the mutex. None: it failed or was cancelled; one
\* that is done before it sees the cancel merges what it got, also while stop() waits.
AnnounceOne(k, t, n) ==
    /\ swarm.scrapes[k].tasks[t] = "announcing"
    /\ swarm' = [swarm EXCEPT !.scrapes[k] = MergedTask(@, t, n)]
    /\ UNCHANGED <<enabled, stage, sites, stored, checks, toggles>>

\* fetch_sub: the last one posts what is best.
TaskLeaves(k, t) ==
    LET s == swarm.scrapes[k] IN
    /\ s.tasks[t] = "merged"
    /\ swarm' = [swarm EXCEPT !.scrapes[k] = LeftTask(@, t),
                              !.posted = IF s.remaining = 1
                                         THEN Append(@, [scrape |-> k, best |-> s.best]) ELSE @]
    /\ UNCHANGED <<enabled, stage, sites, stored, checks, toggles>>

Released(c) == [c EXCEPT !.found = [t \in Tracker |-> None], !.best = None]

\* The posted closure, with onCountsScraped; the ScrapeState goes with it.
SwarmReported ==
    /\ Handles /\ swarm.posted # <<>>
    /\ LET r == Head(swarm.posted)
           h == swarm.scrapes[r.scrape].hash IN
       /\ swarm' = SwarmQueue(
              [swarm EXCEPT !.posted = Tail(@), !.active = IF @ > 0 THEN @ - 1 ELSE @,
                            !.scrapes[r.scrape] = Released(@)])
       /\ stored' = IF r.best # None THEN [stored EXCEPT ![h].seeders = r.best] ELSE stored
    /\ UNCHANGED <<enabled, stage, sites, checks, toggles>>

SwarmTimer ==
    /\ Handles /\ swarm.timer
    /\ swarm' = SwarmQueue(swarm)
    /\ UNCHANGED <<enabled, stage, sites, stored, checks, toggles>>

-----------------------------------------------------------------------------
(* The site scraper                                                         *)

\* startScrape, for each of H: both strategies at once.
StartSites(s, H) ==
    [s EXCEPT !.pending = [h \in TrackedHash |->
                               IF h \in H
                               THEN [pendingCount |-> Cardinality(Site), results |-> <<>>]
                               ELSE @[h]],
              !.replies = @ \cup [hash : H, kind : Site]]

ScrapeSites(s, h) ==
    IF stage # "on" \/ h \in s.recent THEN s
    ELSE IF s.active >= kMaxSites
    THEN [s EXCEPT !.recent = @ \cup {h}, !.queue = Append(@, h), !.timer = TRUE]
    ELSE StartSites([s EXCEPT !.recent = @ \cup {h}, !.active = @ + 1], {h})

SitesQueue(s) ==
    IF stage # "on" THEN s
    ELSE LET n == Least(Len(s.queue), kMaxSites - s.active) IN
         StartSites([s EXCEPT !.queue = SubSeq(@, n + 1, Len(@)), !.active = @ + n,
                              !.timer = @ /\ n < Len(s.queue)], {s.queue[k] : k \in 1..n})

\* The parsers: a page without a title is no match.
Info(name, page, link) ==
    [trackerName |-> name, success |-> page.title,
     poster |-> page.title /\ page.poster /\ name = "rutracker", threadId |-> page.title /\ link]
NotFound(name) == Info(name, [title |-> FALSE, poster |-> FALSE, thread |-> FALSE], FALSE)
ParseRutrackerHtml(page) == Info("rutracker", page, page.thread)
ParseNyaaSearchHtml(page) == Info("nyaa", page, page.thread)
ParseNyaaViewHtml(page) == Info("nyaa", page, page.thread)

\* checkAllComplete: the poster of the first result that has one, every tracker once.
Merged(results) ==
    [trackers |-> {results[k].trackerName : k \in DOMAIN results},
     poster |-> LET with == SelectSeq(results, LAMBDA r : r.poster) IN
                IF with = <<>> THEN "none" ELSE with[1].trackerName]

CheckAllComplete(s, h) ==
    IF s.pending[h].pendingCount > 0 THEN s
    ELSE SitesQueue([s EXCEPT !.pending[h] = NoScrape, !.active = IF @ > 0 THEN @ - 1 ELSE @])

Answered(p, info) == [p EXCEPT !.pendingCount = @ - 1,
                               !.results = IF info.success THEN Append(@, info) ELSE @]
Recorded(s, h, info) == [s EXCEPT !.pending[h] = Answered(@, info)]

\* onStrategyComplete; what is merged goes to mergeInfo.
OnStrategyComplete(s, h, info) ==
    LET r == Recorded(s, h, info) IN
    /\ sites' = CheckAllComplete(r, h)
    /\ stored' = IF r.pending[h].pendingCount = 0 /\ r.pending[h].results # <<>>
                 THEN LET m == Merged(r.pending[h].results) IN
                      [stored EXCEPT ![h].trackers = m.trackers,
                                     ![h].poster = IF m.poster = "none" THEN @ ELSE m.poster]
                 ELSE stored

Finished(r) == /\ Handles /\ r \in sites.replies
               /\ UNCHANGED <<enabled, stage, swarm, checks, toggles>>
Rest(r) == [sites EXCEPT !.replies = @ \ {r}]

Failed(r) ==
    /\ Finished(r)
    /\ OnStrategyComplete(Rest(r), r.hash,
                          NotFound(IF r.kind = "rutracker" THEN r.kind ELSE "nyaa"))

RutrackerAnswers(r, page) ==
    /\ Finished(r) /\ r.kind = "rutracker"
    /\ OnStrategyComplete(Rest(r), r.hash, ParseRutrackerHtml(page))

\* One hit redirects to its page; else the list has a link to it, or a title, or nothing.
NyaaAnswers(r, page, redirected) ==
    LET info == ParseNyaaSearchHtml(page) IN
    /\ Finished(r) /\ r.kind = "nyaa"
    /\ IF ~redirected /\ info.success /\ info.threadId
       THEN /\ sites' = [Rest(r) EXCEPT !.replies = @ \cup {[hash |-> r.hash, kind |-> "view"]}]
            /\ UNCHANGED stored
       ELSE OnStrategyComplete(Rest(r), r.hash,
                               IF redirected THEN ParseNyaaViewHtml(page) ELSE info)

ViewPageAnswers(r, page) ==
    /\ Finished(r) /\ r.kind = "view"
    /\ OnStrategyComplete(Rest(r), r.hash, ParseNyaaViewHtml(page))

SitesTimer ==
    /\ Handles /\ sites.timer
    /\ sites' = SitesQueue(sites)
    /\ UNCHANGED <<enabled, stage, swarm, stored, checks, toggles>>

-----------------------------------------------------------------------------
(* The service                                                              *)

\* onTorrentIndexed, and tracker.check of the API.
OnTorrentIndexed(h) ==
    /\ Handles /\ checks < MaxChecks
    /\ checks' = checks + 1
    /\ swarm' = IF enabled.counts THEN RequestScrape(swarm, h) ELSE swarm
    /\ sites' = IF enabled.info THEN ScrapeSites(sites, h) ELSE sites
    /\ UNCHANGED <<enabled, stage, stored, toggles>>

\* setCountScrapingEnabled and setInfoScrapingEnabled, when the setting changes.
SetScrapingEnabled(on) ==
    /\ Handles /\ toggles < MaxToggles
    /\ toggles' = toggles + 1
    /\ enabled' = [counts |-> on, info |-> on]
    /\ UNCHANGED <<stage, swarm, sites, stored, checks>>

\* The cooldowns run out: no earlier than the scrape they were set for (README, 4).
CooledDown(h) ==
    /\ Handles
    /\ ~\E k \in DOMAIN swarm.queue : swarm.queue[k] = h
    /\ ~\E k \in DOMAIN sites.queue : sites.queue[k] = h
    /\ \A k \in DOMAIN swarm.scrapes : swarm.scrapes[k].hash = h => swarm.scrapes[k].remaining = 0
    /\ sites.pending[h] = NoScrape /\ h \in swarm.recent \cup sites.recent
    /\ swarm' = [swarm EXCEPT !.recent = @ \ {h}]
    /\ sites' = [sites EXCEPT !.recent = @ \ {h}]
    /\ UNCHANGED <<enabled, stage, stored, checks, toggles>>

Dropped(c) ==
    [c EXCEPT !.tasks = [t \in Tracker |-> IF @[t] = "queued" THEN "dropped" ELSE @[t]]]

\* stop(), up to the wait for the pool: what has not begun is dropped.
StopSwarm ==
    /\ stage = "on"
    /\ stage' = "draining" /\ enabled' = [counts |-> FALSE, info |-> FALSE]
    /\ swarm' = [swarm EXCEPT !.queue = <<>>, !.timer = FALSE,
                              !.scrapes = [k \in DOMAIN @ |-> Dropped(@[k])]]
    /\ UNCHANGED <<sites, stored, checks, toggles>>

\* Plausible bug: the replies are left to time out.
StopLeavesReplies ==
    /\ stage = "draining" /\ AnnounceTasks(swarm) = {}
    /\ stage' = "off"
    /\ sites' = [sites EXCEPT !.queue = <<>>, !.timer = FALSE]
    /\ UNCHANGED <<enabled, swarm, stored, checks, toggles>>
\* The rest of it: every reply is aborted, and its handler runs with an error; a hash
\* one site answered for is stored.
StopSites ==
    /\ stage = "draining" /\ AnnounceTasks(swarm) = {}
    /\ stage' = "off"
    /\ sites' = [sites EXCEPT !.queue = <<>>, !.timer = FALSE, !.replies = {}, !.active = 0,
                              !.pending = [h \in TrackedHash |-> NoScrape]]
    /\ stored' = [h \in TrackedHash |->
           IF sites.pending[h].results = <<>> THEN stored[h]
           ELSE LET m == Merged(sites.pending[h].results) IN
                [stored[h] EXCEPT !.trackers = m.trackers,
                                  !.poster = IF m.poster = "none" THEN @ ELSE m.poster]]
    /\ UNCHANGED <<enabled, swarm, checks, toggles>>

-----------------------------------------------------------------------------
PoolStep(k, t) ==
    PoolTakes(k, t) \/ TaskLeaves(k, t) \/ \E n \in None..MaxSeeders : AnnounceOne(k, t, n)
ReplyEnds(r) ==
    \/ Failed(r)
    \/ \E page \in Page : \/ RutrackerAnswers(r, page) \/ ViewPageAnswers(r, page)
                          \/ \E redirected \in BOOLEAN : NyaaAnswers(r, page, redirected)
TrackerNext ==
    \/ \E k \in DOMAIN swarm.scrapes, t \in Tracker : PoolStep(k, t)
    \/ \E r \in sites.replies : ReplyEnds(r)
    \/ \E h \in TrackedHash : OnTorrentIndexed(h) \/ CooledDown(h)
    \/ \E on \in BOOLEAN : SetScrapingEnabled(on)
    \/ SwarmReported \/ SwarmTimer \/ SitesTimer \/ StopSwarm \/ StopSites

TrackerSpec == TrackerInit /\ [][TrackerNext]_trackerVars

TrackerTypeOK ==
    /\ swarm.active \in 0..kMaxSwarms /\ sites.active \in 0..kMaxSites
    /\ stage \in {"on", "draining", "off"} /\ sites.replies \subseteq Reply
    /\ \A h \in TrackedHash : LET results == sites.pending[h].results IN
          \A k \in DOMAIN results : results[k] \in TrackerSiteInfo
    /\ \A k \in DOMAIN swarm.scrapes : \A t \in Tracker : swarm.scrapes[k].tasks[t] \in Announce

\* What a scrape has posted is the best any tracker said, posted once.
PostedIsBest ==
    /\ \A k \in DOMAIN swarm.posted : LET s == swarm.scrapes[swarm.posted[k].scrape] IN
          /\ \A t \in Tracker : s.tasks[t] = "left" /\ s.found[t] <= swarm.posted[k].best
          /\ \A j \in DOMAIN swarm.posted : swarm.posted[j].scrape = swarm.posted[k].scrape => j = k
\* The scrapes that have not posted.
UnderWay == {k \in DOMAIN swarm.scrapes : swarm.scrapes[k].remaining > 0}
\* A slot is held by a scrape under way and by nothing else, and none waits beside a free one.
SlotsHeld ==
    stage = "on" =>
    /\ swarm.active = Len(swarm.posted) + Cardinality(UnderWay)
    /\ sites.active = Cardinality({h \in TrackedHash : sites.pending[h] # NoScrape})
    /\ swarm.queue # <<>> => swarm.active = kMaxSwarms /\ swarm.timer
    /\ sites.queue # <<>> => sites.active = kMaxSites /\ sites.timer
    /\ \A h \in TrackedHash :
          sites.pending[h].pendingCount = Cardinality({r \in sites.replies : r.hash = h})
\* After stop() nothing runs, waits or is asked for. Reports that were posted before it
\* returned are still written: the closure does not look at stopping_
\* (swarm_scraper.cpp:275-292).
OnlyReportsAfterStop ==
    stage = "off" => /\ sites.replies = {} /\ sites.queue = <<>> /\ swarm.queue = <<>>
                     /\ ~sites.timer /\ ~swarm.timer
                     /\ \A k \in DOMAIN swarm.scrapes : \A t \in Tracker :
                           swarm.scrapes[k].tasks[t] \in {"left", "dropped"}
(* Over any order of announces, answers, failures and a stop: slots, queues *)
(* and pending counts agree, a swarm result is the best of its trackers,    *)
(* and all that a stopped service may still do is hand over reports that    *)
(* were complete and posted before the stop, each once.                     *)
ScrapesAccounted == PostedIsBest /\ SlotsHeld /\ OnlyReportsAfterStop
=============================================================================
