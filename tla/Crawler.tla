------------------------------- MODULE Crawler -------------------------------
(***************************************************************************)
(* The native DHT crawler, native/engine/crawler.{h,cpp}.                  *)
(*                                                                         *)
(* Two kinds of threads touch it. librats' worker threads post announces   *)
(* to the engine loop and run the result callback of each metadata fetch;  *)
(* the engine loop runs everything else, one closure at a time. The result *)
(* callback decrements the fetch counter and only then re-queues the       *)
(* request or posts the torrent, so those are two actions here, and the    *)
(* loop in processMetadataQueue is one action per iteration.               *)
(*                                                                         *)
(* ledger and the fields ann and attempt of a request are history: the     *)
(* program does not keep them, the properties need them.                   *)
(***************************************************************************)
EXTENDS Integers, Sequences, FiniteSets

CONSTANTS Hash,        \* info-hashes
          Announce,    \* the announces the DHT may deliver, each once (a bound)
          Heard,       \* what they may be: <<announce, hash, peer known>>
          MaxFetches,  \* MAX_CONCURRENT_METADATA_FETCHES
          MaxRecent    \* MAX_RECENT_HASHES

ASSUME CrawlerAssumption == /\ MaxFetches \in Nat \ {0}
                            /\ MaxRecent \in Nat \ {0}
                            /\ IsFiniteSet(Announce)

VARIABLES loopAlive,   \* EngineLoop::run has not returned
          running,     \* running_
          ignoring,    \* librats' spider ignore flag
          inbox,       \* closures posted to the engine loop by this component
          recent,      \* recentHashes_
          queue,       \* metadataQueue_
          pumping,     \* the loop is inside processMetadataQueue
          active,      \* activeFetches_
          fetches,     \* fetches handed to librats whose callback has not finished
          ledger       \* history: the fate of each announce

vars == <<loopAlive, running, ignoring, inbox, recent, queue, pumping, active,
          fetches, ledger>>

-----------------------------------------------------------------------------

\* fast: the announcing peer is known, fetch straight from it.
Request == [ann : Announce, hash : Hash, fast : BOOLEAN, attempt : Nat]

\* A fetch is in flight until its callback has decremented the counter.
Phase == {"inflight", "ok", "failed"}
Fetch == [req : Request, phase : Phase]

\* What the crawler posts to the loop: onAnnounce or onMetadataReceived.
Closure == [kind : {"announce", "received"}, req : Request]

Fate == {"unheard", "posted", "skipped", "pending", "discovered", "dropped"}

InFlight == {f \in fetches : f.phase = "inflight"}

Init == /\ loopAlive = TRUE
        /\ running = FALSE
        /\ ignoring = FALSE
        /\ inbox = <<>>
        /\ recent = {}
        /\ queue = <<>>
        /\ pumping = FALSE
        /\ active = 0
        /\ fetches = {}
        /\ ledger = [a \in Announce |-> "unheard"]

Settle(a, fate) == ledger' = [ledger EXCEPT ![a] = fate]

\* The engine loop runs one closure at a time, and none inside the pump.
LoopFree == loopAlive /\ ~pumping

-----------------------------------------------------------------------------
(* Life cycle *)

\* The pipeline starts the crawler once, before the loop runs anything of it.
Start == /\ LoopFree
         /\ ~running
         /\ running' = TRUE
         /\ UNCHANGED <<loopAlive, ignoring, inbox, recent, queue, pumping,
                        active, fetches, ledger>>

\* main leaves the loop first and stops the crawler afterwards.
LoopEnds == /\ LoopFree
            /\ loopAlive' = FALSE
            /\ UNCHANGED <<running, ignoring, inbox, recent, queue, pumping,
                           active, fetches, ledger>>

Stop == /\ ~loopAlive
        /\ running
        /\ running' = FALSE
        /\ active' = 0
        /\ UNCHANGED <<loopAlive, ignoring, inbox, recent, queue, pumping,
                       fetches, ledger>>

OnIgnoreToggle == /\ LoopFree
                  /\ running
                  /\ ignoring' = ~ignoring
                  /\ UNCHANGED <<loopAlive, running, inbox, recent, queue,
                                 pumping, active, fetches, ledger>>

-----------------------------------------------------------------------------
(* Announces *)

\* librats' spider callback, on a worker thread.
AnnounceArrives(a, h, fast) ==
    /\ running
    /\ ~ignoring
    /\ <<a, h, fast>> \in Heard
    /\ ledger[a] = "unheard"
    /\ inbox' = Append(inbox, [kind |-> "announce",
                               req  |-> [ann |-> a, hash |-> h, fast |-> fast,
                                         attempt |-> 1]])
    /\ Settle(a, "posted")
    /\ UNCHANGED <<loopAlive, running, ignoring, recent, queue, pumping, active,
                   fetches>>

\* recentHashes_ after h is inserted: half of it goes when it is too large,
\* which half is up to the iteration order of the unordered_set.
Remembered(h) ==
    LET all == recent \cup {h}
    IN  IF Cardinality(all) > MaxRecent
        THEN {all \ gone : gone \in
                {s \in SUBSET all : Cardinality(s) = Cardinality(all) \div 2}}
        ELSE {all}

\* known is what the injected filter answers: the crawler keeps no index.
OnAnnounce ==
    /\ LoopFree
    /\ inbox # <<>>
    /\ Head(inbox).kind = "announce"
    /\ inbox' = Tail(inbox)
    /\ LET r == Head(inbox).req
       IN  \/ /\ r.hash \in recent
              /\ Settle(r.ann, "skipped")
              /\ UNCHANGED <<recent, queue>>
           \/ /\ r.hash \notin recent
              /\ recent' \in Remembered(r.hash)
              /\ \E known \in BOOLEAN :
                    IF known
                    THEN Settle(r.ann, "skipped") /\ UNCHANGED queue
                    ELSE Settle(r.ann, "pending") /\ queue' = Append(queue, r)
    /\ UNCHANGED <<loopAlive, running, ignoring, pumping, active, fetches>>

-----------------------------------------------------------------------------
(* The metadata queue *)

PumpBegins == /\ LoopFree
              /\ running
              /\ pumping' = TRUE
              /\ UNCHANGED <<loopAlive, running, ignoring, inbox, recent, queue,
                             active, fetches, ledger>>

\* Plausible bug: the bound is tested with <=.
MaySpawnOffByOne == active <= MaxFetches

MaySpawn == active < MaxFetches

FetchMetadata(r) == /\ active' = active + 1
                    /\ fetches' = fetches \cup {[req |-> r, phase |-> "inflight"]}

\* Plausible bug: the request is read with front() and never popped.
PumpFetchesNoPop == /\ pumping
                    /\ MaySpawn
                    /\ queue # <<>>
                    /\ FetchMetadata(Head(queue))
                    /\ UNCHANGED <<loopAlive, running, ignoring, inbox, recent,
                                   queue, pumping, ledger>>

PumpFetches == /\ pumping
               /\ MaySpawn
               /\ queue # <<>>
               /\ queue' = Tail(queue)
               /\ FetchMetadata(Head(queue))
               /\ UNCHANGED <<loopAlive, running, ignoring, inbox, recent,
                              pumping, ledger>>

\* The timer that runs the next pump is armed again here.
PumpEnds == /\ pumping
            /\ ~MaySpawn \/ queue = <<>>
            /\ pumping' = FALSE
            /\ UNCHANGED <<loopAlive, running, ignoring, inbox, recent, queue,
                           active, fetches, ledger>>

-----------------------------------------------------------------------------
(* The result callback, on a librats worker thread *)

\* Plausible bug: the failure path returns before the slot is given back.
FetchReturnsLeaky(f, result) ==
    /\ f.phase = "inflight"
    /\ active' = IF result = "ok" THEN active - 1 ELSE active
    /\ fetches' = (fetches \ {f}) \cup {[f EXCEPT !.phase = result]}
    /\ UNCHANGED <<loopAlive, running, ignoring, inbox, recent, queue, pumping,
                   ledger>>

FetchReturns(f, result) ==
    /\ f.phase = "inflight"
    /\ active' = active - 1
    /\ fetches' = (fetches \ {f}) \cup {[f EXCEPT !.phase = result]}
    /\ UNCHANGED <<loopAlive, running, ignoring, inbox, recent, queue, pumping,
                   ledger>>

\* The announcing peer was unhelpful: once more through the DHT.
RetryOf(r) == [ann |-> r.ann, hash |-> r.hash, fast |-> FALSE,
               attempt |-> r.attempt + 1]

MayRetry(r) == r.fast /\ running

ResultFailed(f) ==
    /\ f.phase = "failed"
    /\ fetches' = fetches \ {f}
    /\ \/ /\ MayRetry(f.req)
          /\ queue' = Append(queue, RetryOf(f.req))
          /\ UNCHANGED ledger
       \/ /\ ~MayRetry(f.req)
          /\ Settle(f.req.ann, "dropped")
          /\ UNCHANGED queue
    /\ UNCHANGED <<loopAlive, running, ignoring, inbox, recent, pumping, active>>

ResultArrived(f) ==
    /\ f.phase = "ok"
    /\ fetches' = fetches \ {f}
    /\ inbox' = Append(inbox, [kind |-> "received", req |-> f.req])
    /\ UNCHANGED <<loopAlive, running, ignoring, recent, queue, pumping, active,
                   ledger>>

OnMetadataReceived ==
    /\ LoopFree
    /\ inbox # <<>>
    /\ Head(inbox).kind = "received"
    /\ inbox' = Tail(inbox)
    /\ Settle(Head(inbox).req.ann, "discovered")
    /\ UNCHANGED <<loopAlive, running, ignoring, recent, queue, pumping, active,
                   fetches>>

-----------------------------------------------------------------------------

Callback(f) == \/ \E result \in {"ok", "failed"} : FetchReturns(f, result)
               \/ ResultFailed(f)
               \/ ResultArrived(f)

RunClosure == OnAnnounce \/ OnMetadataReceived
Pump == PumpFetches \/ PumpEnds

Next == \/ Start \/ LoopEnds \/ Stop \/ OnIgnoreToggle
        \/ \E a \in Announce, h \in Hash, fast \in BOOLEAN :
              AnnounceArrives(a, h, fast)
        \/ RunClosure \/ PumpBegins \/ Pump
        \/ \E f \in fetches : Callback(f)

Spec == Init /\ [][Next]_vars

(* EngineLoop::run drains its whole queue on every turn, so a posted closure is
   not overtaken for ever by the timers (strong fairness: the pump disables it
   again and again); the pump's timer comes due again and again; librats calls
   back every fetch, with a result or a timeout. *)
FairSpec == /\ Spec
            /\ SF_vars(RunClosure)
            /\ WF_vars(PumpBegins)
            /\ WF_vars(Pump)
            /\ WF_vars(\E f \in fetches : Callback(f))

-----------------------------------------------------------------------------
(* Properties *)

TypeOK == /\ loopAlive \in BOOLEAN
          /\ running \in BOOLEAN
          /\ ignoring \in BOOLEAN
          /\ inbox \in Seq(Closure)
          /\ recent \subseteq Hash
          /\ queue \in Seq(Request)
          /\ pumping \in BOOLEAN
          /\ active \in Int
          /\ fetches \subseteq Fetch
          /\ ledger \in [Announce -> Fate]

(* No more than MAX_CONCURRENT_METADATA_FETCHES fetches are ever in librats'
   hands (the loop of processMetadataQueue against the worker threads that give
   the slots back). *)
FetchBound == Cardinality(InFlight) <= MaxFetches

(* As long as the crawler runs, activeFetches_ is exactly the number of fetches
   in librats' hands, although it is incremented on the loop and decremented on
   the workers: a slot is neither leaked nor given back twice. *)
CounterExact == running => active = Cardinality(InFlight)

PendingIn(s, a) == {i \in 1..Len(s) : s[i].ann = a}
Results(a) == {i \in 1..Len(inbox) : inbox[i].kind = "received" /\ inbox[i].req.ann = a}
Carriers(a) == Cardinality(PendingIn(queue, a)) + Cardinality(Results(a))
                 + Cardinality({f \in fetches : f.req.ann = a})

(* An accepted announce is in exactly one place until it is settled -- in the
   metadata queue, in a fetch, or in the closure that reports it -- and in none
   before and after: requests are neither lost nor duplicated between the pump,
   the callback's re-queue and the loop. *)
OneCarrier == \A a \in Announce : Carriers(a) = IF ledger[a] = "pending" THEN 1 ELSE 0

(* "Each announce is retried at most once by construction" (the comment in
   fetchMetadata): a request is tried twice at most, the second time through the
   DHT. *)
RetriedOnce ==
    \A r \in {f.req : f \in fetches} \cup {queue[i] : i \in 1..Len(queue)} :
        r.attempt <= 2 /\ (r.attempt = 2 => ~r.fast)

(* Together: an accepted announce is in one place, takes at most one slot, and is
   retried at most once. *)
HandledOnce == TypeOK /\ CounterExact /\ OneCarrier /\ RetriedOnce

(* Every accepted announce is eventually discovered or dropped, unless the loop
   ends: no request is stuck behind a slot nobody gives back. *)
Settles(a) == ledger[a] = "pending" ~> (ledger[a] # "pending" \/ ~loopAlive)

PendingSettles == \A a \in Announce : Settles(a)

(* The crawler implements the ledger: at most MaxFetches announces being fetched
   at a time, each settled at most once and only when its fetch is over. *)
Ledger == INSTANCE AnnounceLedger
            WITH Cap <- MaxFetches, fetching <- {f.req.ann : f \in InFlight}

ImplementsLedger == Ledger!LSpec

=============================================================================
