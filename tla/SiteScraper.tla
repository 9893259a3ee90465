----------------------------- MODULE SiteScraper -----------------------------
(***************************************************************************)
(* TrackerSiteScraper (native/engine/site_scraper.cpp): a scrape of a      *)
(* torrent asks two tracker sites at once, one of them perhaps with a      *)
(* second request, and reports when both have answered.                    *)
(*                                                                         *)
(* What the pages say only decides whether the scrape is reported, and is  *)
(* left out, except that nyaa's search may lead to a page to fetch.        *)
(*                                                                         *)
(* Requests run in the worker pool, which is taken as TaskPool promises:   *)
(* what is posted runs once, in any order as far as the results go, and    *)
(* nothing runs when it has been stopped. A result is posted to the engine *)
(* loop, and applied there later.                                          *)
(*                                                                         *)
(* The numbers of the scrapes are history: the program tells two scrapes   *)
(* of a hash apart no more than their results. After main has left the     *)
(* loop no result is applied, so stop() is one action.                     *)
(***************************************************************************)
EXTENDS Integers, Sequences, FiniteSets

CONSTANTS Hash,
          MaxConcurrent,  \* kMaxConcurrent
          MaxScrapes,     \* scrapes requested (a bound)
          Outlast         \* may a scrape wait longer than the cooldown of its hash?

ASSUME SiteScraperAssumption ==
    /\ MaxConcurrent \in Nat \ {0}
    /\ MaxScrapes \in Nat
    /\ Outlast \in BOOLEAN

Site == {"rutracker", "nyaa"}       \* kStrategies
Number == 1..MaxScrapes
Scrape == [number : Number, hash : Hash]

\* A request, and its result; more: a search that leads to a page (view).
Fetch == [scrape : Scrape, site : Site, view : BOOLEAN]
Result == [fetch : Fetch, more : BOOLEAN]

\* An entry of pendingScrapes_; joined is history: the results it was given.
Pending == [count : 0..Cardinality(Site), joined : SUBSET (Number \X Site)]
None == [count |-> 0, joined |-> {}]

VARIABLES alive,     \* the loop runs
          stopping,  \* stopping_
          recent,    \* recentChecks_, of less than kCooldownSecs ago
          waiting,   \* pendingQueue_
          active,    \* activeRequests_
          pending,   \* pendingScrapes_, None if there is no entry
          fetches,   \* requests in the pool
          inbox,     \* results posted to the loop
          requested, \* scrapes so far
          finished   \* history: what each erased entry had been given

vars == <<alive, stopping, recent, waiting, active, pending, fetches, inbox,
          requested, finished>>

Init == /\ alive = TRUE /\ stopping = FALSE
        /\ recent = {} /\ waiting = <<>> /\ active = 0
        /\ pending = [h \in Hash |-> None]
        /\ fetches = {} /\ inbox = <<>>
        /\ requested = 0 /\ finished = {}

Present == {h \in Hash : pending[h] # None}

-----------------------------------------------------------------------------
(* Starting *)

\* startScrape() of scrapes, their slots claimed, over the entries p.
Entered(p, scrapes) ==
    [h \in Hash |-> IF \E s \in scrapes : s.hash = h
                    THEN [count |-> Cardinality(Site), joined |-> {}]
                    ELSE p[h]]

Requests(scrapes) == [scrape : scrapes, site : Site, view : {FALSE}]

Full == active >= MaxConcurrent

\* scrape(), for a hash that was not checked recently.
RequestScrape(h) ==
    LET new == [number |-> requested + 1, hash |-> h] IN
    /\ alive /\ ~stopping
    /\ requested < MaxScrapes /\ requested' = requested + 1
    /\ h \notin recent /\ recent' = recent \cup {h}
    /\ IF Full
       THEN /\ waiting' = Append(waiting, new)
            /\ UNCHANGED <<active, pending, fetches>>
       ELSE /\ active' = active + 1
            /\ pending' = Entered(pending, {new})
            /\ fetches' = fetches \cup Requests({new})
            /\ UNCHANGED waiting
    /\ UNCHANGED <<alive, stopping, inbox, finished>>

Waits(h) == \E i \in 1..Len(waiting) : waiting[i].hash = h

\* An hour has passed since h was checked. Requests end after 20 s, so its scrape may
\* still wait then, but does not run.
CooldownEnds(h) ==
    /\ h \in recent /\ recent' = recent \ {h}
    /\ h \notin Present
    /\ Waits(h) => Outlast
    /\ UNCHANGED <<alive, stopping, waiting, active, pending, fetches, inbox,
                   requested, finished>>

-----------------------------------------------------------------------------
(* Results *)

\* httpGet() returns, at the latest after kTimeoutMs; parsing is done on the loop
\* and changes nothing before.
FetchEnds(f, more) ==
    /\ f \in fetches /\ fetches' = fetches \ {f}
    /\ more => f.site = "nyaa" /\ ~f.view
    /\ inbox' = Append(inbox, [fetch |-> f, more |-> more])
    /\ UNCHANGED <<alive, stopping, recent, waiting, active, pending, requested, finished>>

Least(m, n) == IF m < n THEN m ELSE n

\* How many of those that wait processQueue() starts.
Drained(slots) == Least(Len(waiting), slots)

\* Plausible bug: an entry is closed by the first result.
JoinedFirst(p, r) ==
    [count |-> 0,
     joined |-> p.joined \cup {<<r.fetch.scrape.number, r.fetch.site>>}]

Joined(p, r) ==
    [count |-> p.count - 1,
     joined |-> p.joined \cup {<<r.fetch.scrape.number, r.fetch.site>>}]

\* Plausible bug: the last slot is never freed.
FreedButLast(n) == IF n > 1 THEN n - 1 ELSE n

Freed(n) == IF n > 0 THEN n - 1 ELSE n

\* The last result: erase the entry, free the slot, drain the queue, report.
CheckAllComplete(h, p) ==
    LET free == Freed(active)
        n == Drained(MaxConcurrent - free)
        started == {waiting[i] : i \in 1..n}
    IN  /\ active' = free + n
        /\ waiting' = SubSeq(waiting, n + 1, Len(waiting))
        /\ pending' = Entered([pending EXCEPT ![h] = None], started)
        /\ fetches' = fetches \cup Requests(started)
        /\ finished' = finished \cup {p.joined}

OnStrategyComplete(h, r) ==
    IF h \notin Present THEN UNCHANGED <<active, waiting, pending, fetches, finished>>
    ELSE LET p == Joined(pending[h], r) IN
         IF p.count > 0
         THEN /\ pending' = [pending EXCEPT ![h] = p]
              /\ UNCHANGED <<active, waiting, fetches, finished>>
         ELSE CheckAllComplete(h, p)

\* Plausible bug: the page behind a search result is not asked for.
ViewPageForgotten(f) == {}

ViewPage(f) == {[f EXCEPT !.view = TRUE]}

ApplyResult ==
    /\ alive /\ inbox # <<>> /\ inbox' = Tail(inbox)
    /\ LET r == Head(inbox) IN
       IF r.more
       THEN /\ fetches' = fetches \cup ViewPage(r.fetch)
            /\ UNCHANGED <<active, waiting, pending, finished>>
       ELSE OnStrategyComplete(r.fetch.scrape.hash, r)
    /\ UNCHANGED <<alive, stopping, recent, requested>>

-----------------------------------------------------------------------------
(* Shutdown *)

LoopEnds == /\ alive /\ alive' = FALSE
            /\ UNCHANGED <<stopping, recent, waiting, active, pending, fetches, inbox,
                           requested, finished>>

\* Requests that have started are aborted; what they post is never applied.
Stop == /\ ~alive /\ ~stopping /\ stopping' = TRUE
        /\ waiting' = <<>> /\ fetches' = {}
        /\ UNCHANGED <<alive, recent, active, pending, inbox, requested, finished>>

-----------------------------------------------------------------------------

AnyFetchEnds == \E f \in fetches, more \in BOOLEAN : FetchEnds(f, more)

Next == \/ \E h \in Hash : RequestScrape(h) \/ CooldownEnds(h)
        \/ AnyFetchEnds \/ ApplyResult \/ LoopEnds \/ Stop

Spec == Init /\ [][Next]_vars

(* The loop runs what is posted to it; each request ends, if only by its timeout,
   and the pool has more threads than there are requests at a time. *)
FairSpec == Spec /\ WF_vars(ApplyResult) /\ WF_vars(AnyFetchEnds)

-----------------------------------------------------------------------------
(* Properties *)

\* Types; at most kMaxConcurrent slots are taken (site_scraper.h:91-97).
TypeOK == /\ alive \in BOOLEAN /\ stopping \in BOOLEAN
          /\ recent \subseteq Hash
          /\ waiting \in Seq(Scrape)
          /\ active \in 0..MaxConcurrent
          /\ pending \in [Hash -> Pending]
          /\ fetches \subseteq Fetch
          /\ inbox \in Seq(Result)
          /\ requested \in 0..MaxScrapes
          /\ finished \subseteq SUBSET (Number \X Site)

\* "A scrape holds one slot from startScrape() until all its strategies report"
\* (site_scraper.h:184-186): slots are neither leaked nor given back twice.
SlotsExact == active = Cardinality(Present)

\* Scrapes wait only while all slots are taken.
NoneWaitsForNothing == waiting # <<>> => active = MaxConcurrent

\* Slots are used as they are accounted for: none is lost and none lies idle.
SlotsRight == SlotsExact /\ NoneWaitsForNothing

\* An entry is closed by the results of both sites of one scrape: no result is left
\* out, counted twice, or taken from another scrape.
ClosedByItsOwn ==
    \A results \in finished :
        \E n \in Number : results = {n} \X Site

\* Together with the types, of which the number of slots is one.
EntriesClosed == TypeOK /\ ClosedByItsOwn

Done(n) == {n} \X Site \in finished

\* Every scrape that was accepted finishes, unless the program ends first: its results
\* are not lost between the pool and the loop, and those that wait get their turn.
ScrapesFinish == \A n \in Number : requested >= n ~> Done(n) \/ ~alive
=============================================================================
