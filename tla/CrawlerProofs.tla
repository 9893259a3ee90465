--------------------------- MODULE CrawlerProofs ---------------------------
(***************************************************************************)
(* For every set of announces and every bound: the crawler's types, and    *)
(* that librats never holds more fetches than the bound. Then that a       *)
(* request is in one place at a time, so that an announce is handled at    *)
(* most once; and from both, that the crawler implements AnnounceLedger.   *)
(***************************************************************************)
EXTENDS Crawler, FiniteSetTheorems, TLAPS

-----------------------------------------------------------------------------

(* The crawler is constructed in a well-typed state. *)
LEMMA InitTyped == Init => TypeOK
<1> SUFFICES ASSUME Init PROVE TypeOK
  OBVIOUS
<1>1. inbox \in Seq(Closure) /\ queue \in Seq(Request)
  BY DEF Init
<1>2. ledger \in [Announce -> Fate]
  BY DEF Init, Fate
<1>3. {loopAlive, running, ignoring, pumping} \subseteq BOOLEAN
  BY Zenon DEF Init
<1>4. recent \subseteq Hash /\ active \in Int /\ fetches \subseteq Fetch
  BY DEF Init
<1> QED
  BY <1>1, <1>2, <1>3, <1>4, Zenon DEF TypeOK

(* Only the peer and the attempt of a request change when it is retried. *)
LEMMA RetryTyped ==
  ASSUME NEW r \in Request
  PROVE  RetryOf(r) \in Request
BY DEF RetryOf, Request

(* Type correctness of the crawler: every step of loop and workers keeps
   TypeOK. *)
THEOREM TypeCorrect == Spec => []TypeOK
<1>1. Init => TypeOK
  BY InitTyped
<1>2. TypeOK /\ [Next]_vars => TypeOK'
  <2> SUFFICES ASSUME TypeOK, [Next]_vars PROVE TypeOK'
    OBVIOUS
  <2>1. CASE Start \/ LoopEnds \/ Stop \/ OnIgnoreToggle
    <3>1. {loopAlive', running', ignoring', pumping'} \subseteq BOOLEAN
      BY <2>1, Zenon DEF Start, LoopEnds, Stop, OnIgnoreToggle, TypeOK
    <3>2. active' \in Int
      BY <2>1 DEF Start, LoopEnds, Stop, OnIgnoreToggle, TypeOK
    <3>3. UNCHANGED <<inbox, recent, queue, fetches, ledger>>
      BY <2>1 DEF Start, LoopEnds, Stop, OnIgnoreToggle
    <3> QED
      BY <3>1, <3>2, <3>3 DEF TypeOK
  <2>2. ASSUME NEW a \in Announce, NEW h \in Hash, NEW fast \in BOOLEAN,
               AnnounceArrives(a, h, fast)
        PROVE  TypeOK'
    <3> DEFINE c == [kind |-> "announce",
                     req  |-> [ann |-> a, hash |-> h, fast |-> fast, attempt |-> 1]]
    <3>1. c \in Closure
      BY DEF Closure, Request
    <3>2. inbox' = Append(inbox, c)
      BY <2>2 DEF AnnounceArrives
    <3> HIDE DEF c
    <3>3. inbox' \in Seq(Closure)
      BY <3>1, <3>2 DEF TypeOK
    <3>4. ledger' \in [Announce -> Fate]
      BY <2>2 DEF AnnounceArrives, Settle, TypeOK, Fate
    <3> QED
      BY <2>2, <3>3, <3>4 DEF AnnounceArrives, TypeOK
  <2>3. CASE OnAnnounce
    <3>1. /\ Head(inbox) \in Closure
          /\ inbox' \in Seq(Closure)
      BY <2>3 DEF OnAnnounce, TypeOK
    <3>2. Head(inbox).req \in Request
      BY <3>1 DEF Closure
    <3>3. Head(inbox).req.hash \in Hash
      BY <3>2 DEF Request
    <3>4. recent' \subseteq Hash
      BY <2>3, <3>3 DEF OnAnnounce, Remembered, TypeOK
    <3>5. queue' \in Seq(Request)
      <4>1. queue' = queue \/ queue' = Append(queue, Head(inbox).req)
        BY <2>3, Zenon DEF OnAnnounce
      <4> QED
        BY <3>2, <4>1 DEF TypeOK
    <3>6. ledger' \in [Announce -> Fate]
      BY <2>3 DEF OnAnnounce, Settle, TypeOK, Fate
    <3> QED
      BY <2>3, <3>1, <3>4, <3>5, <3>6 DEF OnAnnounce, TypeOK
  <2>4. CASE OnMetadataReceived
    <3>1. inbox' \in Seq(Closure)
      BY <2>4 DEF OnMetadataReceived, TypeOK
    <3>2. ledger' \in [Announce -> Fate]
      BY <2>4 DEF OnMetadataReceived, Settle, TypeOK, Fate
    <3> QED
      BY <2>4, <3>1, <3>2 DEF OnMetadataReceived, TypeOK
  <2>5. CASE PumpBegins \/ PumpEnds
    BY <2>5 DEF PumpBegins, PumpEnds, TypeOK
  <2>6. CASE PumpFetches
    <3>1. Head(queue) \in Request /\ queue' \in Seq(Request)
      BY <2>6 DEF PumpFetches, TypeOK
    <3>2. [req |-> Head(queue), phase |-> "inflight"] \in Fetch
      BY <3>1 DEF Fetch, Phase
    <3>3. fetches' \subseteq Fetch /\ active' \in Int
      BY <2>6, <3>2 DEF PumpFetches, FetchMetadata, TypeOK
    <3> QED
      BY <2>6, <3>1, <3>3 DEF PumpFetches, TypeOK
  <2>7. ASSUME NEW f \in fetches, Callback(f)
        PROVE  TypeOK'
    <3>0. f \in Fetch
      BY DEF TypeOK
    <3>1. ASSUME NEW result \in {"ok", "failed"}, FetchReturns(f, result)
          PROVE  TypeOK'
      <4>1. [f EXCEPT !.phase = result] \in Fetch
        BY <3>0 DEF Fetch, Phase
      <4>2. fetches' \subseteq Fetch /\ active' \in Int
        BY <3>1, <4>1 DEF FetchReturns, TypeOK
      <4> QED
        BY <3>1, <4>2 DEF FetchReturns, TypeOK
    <3>2. CASE ResultFailed(f)
      <4>1. f.req \in Request
        BY <3>0 DEF Fetch
      <4>2. RetryOf(f.req) \in Request
        BY <4>1, RetryTyped
      <4>3. queue' \in Seq(Request)
        BY <3>2, <4>2 DEF ResultFailed, TypeOK
      <4>4. ledger' \in [Announce -> Fate]
        BY <3>2 DEF ResultFailed, Settle, TypeOK, Fate
      <4>5. fetches' \subseteq Fetch
        BY <3>2 DEF ResultFailed, TypeOK
      <4> QED
        BY <3>2, <4>3, <4>4, <4>5 DEF ResultFailed, TypeOK
    <3>3. CASE ResultArrived(f)
      <4>1. f.req \in Request
        BY <3>0 DEF Fetch
      <4>2. [kind |-> "received", req |-> f.req] \in Closure
        BY <4>1 DEF Closure
      <4>3. inbox' \in Seq(Closure) /\ fetches' \subseteq Fetch
        BY <3>3, <4>2 DEF ResultArrived, TypeOK
      <4> QED
        BY <3>3, <4>3 DEF ResultArrived, TypeOK
    <3> QED
      BY <2>7, <3>1, <3>2, <3>3 DEF Callback
  <2>8. CASE UNCHANGED vars
    BY <2>8 DEF vars, TypeOK
  <2> QED
    BY <2>1, <2>2, <2>3, <2>4, <2>5, <2>6, <2>7, <2>8
    DEF Next, RunClosure, Pump
<1> QED
  BY <1>1, <1>2, PTL DEF Spec

-----------------------------------------------------------------------------

(* The bound is tested against activeFetches_, not against the fetches librats
   holds. The two are tied together while the crawler runs; Stop resets the
   counter with callbacks outstanding, and nothing is fetched after it because
   the loop, and with it the pump, has ended. *)
Tied == /\ pumping => running /\ loopAlive
        /\ running => Cardinality(InFlight) <= active
        /\ loopAlive /\ ~running => InFlight = {} /\ active = 0

IInv == TypeOK /\ IsFiniteSet(InFlight) /\ Tied /\ FetchBound

(* Only the worker callbacks and the pump change what librats holds. *)
LEMMA InFlightUnchanged ==
  ASSUME fetches' = fetches
  PROVE  InFlight' = InFlight
BY DEF InFlight

(* The counter covers the fetches librats holds, over all behaviours. *)
LEMMA InvariantHolds == Spec => []IInv
<1> USE CrawlerAssumption
<1>1. Init => IInv
  <2> SUFFICES ASSUME Init PROVE IInv
    OBVIOUS
  <2>1. InFlight = {}
    BY DEF Init, InFlight
  <2>2. IsFiniteSet(InFlight) /\ Cardinality(InFlight) = 0
    BY <2>1, FS_EmptySet
  <2>3. TypeOK
    BY InitTyped
  <2> QED
    BY <2>1, <2>2, <2>3 DEF Init, IInv, Tied, FetchBound
<1>2. IInv /\ TypeOK' /\ [Next]_vars => IInv'
  <2> SUFFICES ASSUME IInv, TypeOK', [Next]_vars
               PROVE  (IsFiniteSet(InFlight) /\ Tied /\ FetchBound)'
    BY DEF IInv
  <2> USE DEF IInv
  <2>0. active \in Int /\ running \in BOOLEAN /\ Cardinality(InFlight) \in Nat
    BY FS_CardinalityType DEF TypeOK
  <2>1. CASE \/ Start \/ LoopEnds \/ Stop \/ OnIgnoreToggle
             \/ OnAnnounce \/ OnMetadataReceived \/ PumpBegins \/ PumpEnds
             \/ (\E a \in Announce, h \in Hash, fast \in BOOLEAN :
                    AnnounceArrives(a, h, fast))
             \/ UNCHANGED vars
    <3>1. fetches' = fetches
      BY <2>1 DEF Start, LoopEnds, Stop, OnIgnoreToggle, OnAnnounce,
         OnMetadataReceived, PumpBegins, PumpEnds, AnnounceArrives, vars
    <3>2. InFlight' = InFlight
      BY <3>1, InFlightUnchanged
    <3>3. Cardinality(InFlight)' = Cardinality(InFlight)
      BY <3>2
    <3>4. FetchBound' /\ IsFiniteSet(InFlight)'
      BY <3>2, <3>3 DEF FetchBound
    <3>5. Cardinality({}) = 0
      BY FS_EmptySet
    <3>6. ASSUME Start PROVE Tied'
      <4>1. InFlight = {} /\ active = 0 /\ UNCHANGED <<active, pumping, loopAlive>>
        BY <3>6, Zenon DEF Tied, Start, LoopFree
      <4>2. Cardinality(InFlight') <= active'
        BY <3>2, <3>5, <4>1
      <4>3. running' /\ ~pumping'
        BY <3>6, <4>1 DEF Start, LoopFree
      <4> QED
        BY <4>2, <4>3, Zenon DEF Tied
    <3>7. ASSUME Stop PROVE Tied'
      BY <3>7, Zenon DEF Tied, Stop
    <3>8. ASSUME LoopEnds \/ PumpBegins \/ PumpEnds PROVE Tied'
      <4>1. UNCHANGED <<running, active>>
        BY <3>8 DEF LoopEnds, PumpBegins, PumpEnds
      <4>2. pumping' => running' /\ loopAlive'
        BY <3>8, Zenon DEF Tied, LoopEnds, PumpBegins, PumpEnds, LoopFree
      <4>3. loopAlive' => loopAlive
        BY <3>8, Zenon DEF LoopEnds, PumpBegins, PumpEnds
      <4> QED
        BY <3>2, <4>1, <4>2, <4>3, Zenon DEF Tied
    <3>9. ASSUME UNCHANGED <<running, pumping, loopAlive, active>>
          PROVE  Tied'
      BY <3>2, <3>9 DEF Tied
    <3>10. ASSUME \/ OnIgnoreToggle \/ OnAnnounce \/ OnMetadataReceived
                  \/ \E a \in Announce, h \in Hash, fast \in BOOLEAN :
                        AnnounceArrives(a, h, fast)
                  \/ UNCHANGED vars
           PROVE  Tied'
      <4>1. UNCHANGED <<running, pumping, loopAlive, active>>
        BY <3>10 DEF OnIgnoreToggle, OnAnnounce, OnMetadataReceived,
            AnnounceArrives, vars
      <4> QED
        BY <3>9, <4>1
    <3> QED
      BY <2>1, <3>4, <3>6, <3>7, <3>8, <3>10
  <2>2. CASE PumpFetches
    <3> DEFINE new == [req |-> Head(queue), phase |-> "inflight"]
    <3>1. InFlight' = InFlight \cup {new}
      BY <2>2 DEF PumpFetches, FetchMetadata, InFlight
    <3> HIDE DEF new
    <3>2. /\ IsFiniteSet(InFlight \cup {new})
          /\ Cardinality(InFlight \cup {new}) <= Cardinality(InFlight) + 1
      <4>1. IsFiniteSet(InFlight)
        OBVIOUS
      <4>2. /\ IsFiniteSet(InFlight \cup {new})
            /\ Cardinality(InFlight \cup {new}) =
                  IF new \in InFlight THEN Cardinality(InFlight)
                                     ELSE Cardinality(InFlight) + 1
        BY <4>1, FS_AddElement
      <4> QED
        BY <2>0, <4>2
    <3>3. active' = active + 1 /\ active < MaxFetches
      BY <2>2 DEF PumpFetches, FetchMetadata, MaySpawn
    <3>4. running /\ loopAlive /\ Cardinality(InFlight) <= active
      BY <2>2 DEF Tied, PumpFetches
    <3>5. running' = running /\ loopAlive' = loopAlive /\ pumping' = pumping
      BY <2>2 DEF PumpFetches
    <3>6. Cardinality(InFlight \cup {new}) \in Nat
      BY <3>2, FS_CardinalityType
    <3> QED
      BY <2>0, <3>1, <3>2, <3>3, <3>4, <3>5, <3>6 DEF Tied, FetchBound
  <2>3. ASSUME NEW f \in fetches, Callback(f)
        PROVE  (IsFiniteSet(InFlight) /\ Tied /\ FetchBound)'
    <3>1. ASSUME NEW result \in {"ok", "failed"}, FetchReturns(f, result)
          PROVE  (IsFiniteSet(InFlight) /\ Tied /\ FetchBound)'
      <4>1. f \in InFlight
        BY <3>1 DEF FetchReturns, InFlight
      <4>2. f \in Fetch
        BY DEF TypeOK
      <4>3. InFlight' = InFlight \ {f}
        BY <3>1, <4>2 DEF FetchReturns, InFlight, Fetch
      <4>4. /\ IsFiniteSet(InFlight')
            /\ Cardinality(InFlight') = Cardinality(InFlight) - 1
        BY <4>1, <4>3, FS_RemoveElement
      <4>5. active' = active - 1 /\ running' = running /\ loopAlive' = loopAlive
            /\ pumping' = pumping
        BY <3>1 DEF FetchReturns
      <4>6. ~(loopAlive /\ ~running)
        BY <4>1 DEF Tied
      <4> QED
        BY <2>0, <4>4, <4>5, <4>6 DEF Tied, FetchBound
    <3>2. CASE ResultFailed(f) \/ ResultArrived(f)
      <4>1. f \notin InFlight
        BY <3>2 DEF ResultFailed, ResultArrived, InFlight
      <4>2. fetches' = fetches \ {f}
        BY <3>2 DEF ResultFailed, ResultArrived
      <4>3. InFlight' = InFlight
        BY <4>1, <4>2 DEF InFlight
      <4>4. /\ active' = active /\ running' = running /\ loopAlive' = loopAlive
            /\ pumping' = pumping
        BY <3>2 DEF ResultFailed, ResultArrived
      <4> QED
        BY <4>3, <4>4 DEF Tied, FetchBound
    <3> QED
      BY <2>3, <3>1, <3>2 DEF Callback
  <2> QED
    BY <2>1, <2>2, <2>3 DEF Next, RunClosure, Pump
<1> QED
  BY <1>1, <1>2, TypeCorrect, PTL DEF Spec

(* The bound MAX_CONCURRENT_METADATA_FETCHES holds of the fetches librats really
   holds, for every number of announces and whatever the workers interleave. *)
THEOREM FetchBoundHolds == Spec => []FetchBound
<1>1. IInv => FetchBound
  BY DEF IInv
<1> QED
  BY <1>1, InvariantHolds, PTL


-----------------------------------------------------------------------------
(***************************************************************************)
(* Where a request is: the facts about queues and sets it takes to follow  *)
(* one announce through the crawler.                                       *)
(***************************************************************************)

\* The places of s that hold an element of S.
Where(s, S) == {i \in 1..Len(s) : s[i] \in S}

(* There are finitely many such places. *)
LEMMA WhereFinite ==
  ASSUME NEW T, NEW s \in Seq(T), NEW S
  PROVE  IsFiniteSet(Where(s, S)) /\ Cardinality(Where(s, S)) \in Nat
<1>1. Len(s) \in Nat /\ IsFiniteSet(1..Len(s))
  BY FS_Interval
<1>2. Where(s, S) \in SUBSET (1..Len(s))
  BY DEF Where
<1>3. IsFiniteSet(Where(s, S))
  BY <1>1, <1>2, FS_Subset
<1> QED
  BY <1>3, FS_CardinalityType

(* And none in an empty queue. *)
LEMMA WhereNone == ASSUME NEW S PROVE Cardinality(Where(<<>>, S)) = 0
<1>1. Where(<<>>, S) = {}
  BY DEF Where
<1> QED
  BY <1>1, FS_EmptySet

(* Pushing an element adds a place if it is one of S. *)
LEMMA WhereAppend ==
  ASSUME NEW T, NEW s \in Seq(T), NEW e \in T, NEW S
  PROVE  Cardinality(Where(Append(s, e), S)) =
            Cardinality(Where(s, S)) + (IF e \in S THEN 1 ELSE 0)
<1> DEFINE n == Len(s) + 1
<1>1. /\ n \in Nat /\ Len(Append(s, e)) = n /\ n \notin Where(s, S)
      /\ \A i \in 1..Len(s) : Append(s, e)[i] = s[i]
      /\ Append(s, e)[n] = e
  BY DEF Where
<1>2. CASE e \in S
  <2>1. Where(Append(s, e), S) = Where(s, S) \cup {n}
    BY <1>1, <1>2 DEF Where
  <2> QED
    BY <1>1, <1>2, <2>1, WhereFinite, FS_AddElement
<1>3. CASE e \notin S
  <2>1. Where(Append(s, e), S) = Where(s, S)
    BY <1>1, <1>3 DEF Where
  <2> QED
    BY <1>3, <2>1, WhereFinite
<1> QED
  BY <1>2, <1>3

(* Popping the head takes a place away if it is one of S. *)
LEMMA WhereTail ==
  ASSUME NEW T, NEW s \in Seq(T), s # <<>>, NEW S
  PROVE  Cardinality(Where(s, S)) =
            Cardinality(Where(Tail(s), S)) + (IF Head(s) \in S THEN 1 ELSE 0)
<1> DEFINE rest == Where(s, S) \ {1}
           shift == [i \in Where(Tail(s), S) |-> i + 1]
<1>1. /\ Len(s) \in Nat \ {0} /\ Tail(s) \in Seq(T) /\ Len(Tail(s)) = Len(s) - 1
      /\ \A i \in 1..Len(Tail(s)) : Tail(s)[i] = s[i + 1]
      /\ Head(s) = s[1]
  OBVIOUS
<1>2. IsFiniteSet(rest) /\ Cardinality(rest) =
         IF Head(s) \in S THEN Cardinality(Where(s, S)) - 1 ELSE Cardinality(Where(s, S))
  <2>1. 1 \in Where(s, S) <=> Head(s) \in S
    BY <1>1 DEF Where
  <2> QED
    BY <2>1, WhereFinite, FS_RemoveElement
<1>3. ExistsBijection(Where(Tail(s), S), rest)
  <2>1. shift \in [Where(Tail(s), S) -> rest]
    BY <1>1 DEF Where
  <2>2. \A i, j \in Where(Tail(s), S) : shift[i] = shift[j] => i = j
    BY <1>1 DEF Where
  <2>3. ASSUME NEW k \in rest PROVE \E i \in Where(Tail(s), S) : shift[i] = k
    <3>1. k - 1 \in Where(Tail(s), S) /\ (k - 1) + 1 = k
      BY <1>1 DEF Where
    <3> QED
      BY <3>1
  <2> QED
    <3> HIDE DEF shift, rest
    <3>1. DOMAIN shift = Where(Tail(s), S)
      BY <2>1
    <3>2. shift \in Bijection(Where(Tail(s), S), rest)
      BY <2>1, <2>2, <2>3, <3>1 DEF Bijection, Injection, Surjection, IsInjective
    <3> QED
      BY <3>2 DEF ExistsBijection
<1>4. Cardinality(rest) = Cardinality(Where(Tail(s), S))
  BY <1>1, <1>3, WhereFinite, FS_Bijection
<1> QED
  BY <1>1, <1>2, <1>4, WhereFinite
-----------------------------------------------------------------------------
(* Each announce is in one place. What OneCarrier counts is said once more  *)
(* with Where, and the closures that announce are counted beside it: the    *)
(* step that makes an announce pending must find nothing of it yet.         *)

RequestsOf(a) == {r \in Request : r.ann = a}
ReportsOf(a) == {c \in Closure : c.kind = "received" /\ c.req.ann = a}
AnnouncesOf(a) == {c \in Closure : c.kind = "announce" /\ c.req.ann = a}
FetchesOf(a) == {f \in fetches : f.req.ann = a}

Queued(a) == Cardinality(Where(queue, RequestsOf(a)))
Reported(a) == Cardinality(Where(inbox, ReportsOf(a)))
Fetched(a) == Cardinality(FetchesOf(a))
Posted(a) == Cardinality(Where(inbox, AnnouncesOf(a)))

Placed(a) ==
    /\ Queued(a) + Reported(a) + Fetched(a) = IF ledger[a] = "pending" THEN 1 ELSE 0
    /\ Posted(a) = IF ledger[a] = "posted" THEN 1 ELSE 0

\* A request that was not retried was announced just now.
FirstTry == \A i \in 1..Len(inbox) : inbox[i].kind = "announce" => inbox[i].req.attempt = 1

CountInv == /\ IsFiniteSet(fetches)
            /\ \A a \in Announce : Placed(a)
            /\ FirstTry /\ RetriedOnce

(* The counts are natural numbers. *)
LEMMA CountsType ==
  ASSUME TypeOK, IsFiniteSet(fetches), NEW a \in Announce
  PROVE  /\ Queued(a) \in Nat /\ Reported(a) \in Nat /\ Posted(a) \in Nat
         /\ Fetched(a) \in Nat /\ IsFiniteSet(FetchesOf(a))
<1>1. FetchesOf(a) \in SUBSET fetches
  BY DEF FetchesOf
<1>2. IsFiniteSet(FetchesOf(a))
  BY <1>1, FS_Subset
<1>3. Fetched(a) \in Nat
  BY <1>2, FS_CardinalityType DEF Fetched
<1>4. queue \in Seq(Request) /\ inbox \in Seq(Closure)
  BY DEF TypeOK
<1> QED
  BY <1>2, <1>3, <1>4, WhereFinite DEF Queued, Reported, Posted

(* What OneCarrier says of an announce is what Placed says of it. *)
LEMMA PlacedIsOneCarrier ==
  ASSUME TypeOK, \A a \in Announce : Placed(a)
  PROVE  OneCarrier
<1> SUFFICES ASSUME NEW a \in Announce
             PROVE  Carriers(a) = IF ledger[a] = "pending" THEN 1 ELSE 0
  BY DEF OneCarrier
<1>1. PendingIn(queue, a) = Where(queue, RequestsOf(a))
  <2>1. \A i \in 1..Len(queue) : queue[i] \in Request
    BY DEF TypeOK
  <2> QED
    BY <2>1 DEF PendingIn, Where, RequestsOf
<1>2. Results(a) = Where(inbox, ReportsOf(a))
  <2>1. \A i \in 1..Len(inbox) : inbox[i] \in Closure
    BY DEF TypeOK
  <2> QED
    BY <2>1 DEF Results, Where, ReportsOf
<1> QED
  BY <1>1, <1>2 DEF Placed, Carriers, Queued, Reported, Fetched, FetchesOf

(* A request that is in a fetch is nowhere else, and in no other fetch. *)
LEMMA OneFetch ==
  ASSUME TypeOK, CountInv, NEW f \in fetches
  PROVE  /\ f.req.ann \in Announce
         /\ ledger[f.req.ann] = "pending"
         /\ FetchesOf(f.req.ann) = {f}
         /\ Queued(f.req.ann) = 0 /\ Reported(f.req.ann) = 0 /\ Fetched(f.req.ann) = 1
<1> DEFINE a == f.req.ann
<1>1. a \in Announce
  BY DEF TypeOK, Fetch, Request
<1> HIDE DEF a
<1>2. f \in FetchesOf(a)
  BY DEF FetchesOf, a
<1>3. Placed(a) /\ IsFiniteSet(fetches)
  BY <1>1 DEF CountInv
<1>4. /\ Queued(a) \in Nat /\ Reported(a) \in Nat /\ Fetched(a) \in Nat
      /\ IsFiniteSet(FetchesOf(a))
  BY <1>1, <1>3, CountsType
<1>5. Fetched(a) # 0
  BY <1>2, <1>4, FS_EmptySet DEF Fetched
<1>6. /\ ledger[a] = "pending" /\ Queued(a) = 0 /\ Reported(a) = 0 /\ Fetched(a) = 1
  BY <1>3, <1>4, <1>5 DEF Placed
<1>7. FetchesOf(a) = {f}
  <2>1. PICK x : FetchesOf(a) = {x}
    BY <1>4, <1>6, FS_Singleton DEF Fetched
  <2> QED
    BY <1>2, <2>1
<1> QED
  BY <1>1, <1>6, <1>7 DEF a

(* A request at the head of the queue is in no fetch. *)
LEMMA HeadIsQueued ==
  ASSUME TypeOK, CountInv, queue # <<>>
  PROVE  /\ Head(queue) \in Request /\ Head(queue).ann \in Announce
         /\ ledger[Head(queue).ann] = "pending"
         /\ FetchesOf(Head(queue).ann) = {}
<1>1. Head(queue) \in Request /\ queue \in Seq(Request)
  BY DEF TypeOK
<1> DEFINE a == Head(queue).ann
<1>2. a \in Announce /\ Head(queue) \in RequestsOf(a)
  BY <1>1 DEF Request, RequestsOf
<1> HIDE DEF a
<1>3. Placed(a) /\ IsFiniteSet(fetches)
  BY <1>2 DEF CountInv
<1>4. /\ Queued(a) \in Nat /\ Reported(a) \in Nat /\ Fetched(a) \in Nat
      /\ IsFiniteSet(FetchesOf(a))
  BY <1>2, <1>3, CountsType
<1>5. Queued(a) = Cardinality(Where(Tail(queue), RequestsOf(a))) + 1
  BY <1>1, <1>2, WhereTail DEF Queued
<1>6. Tail(queue) \in Seq(Request)
  BY <1>1
<1>9. Cardinality(Where(Tail(queue), RequestsOf(a))) \in Nat
  BY <1>6, WhereFinite
<1>7. ledger[a] = "pending" /\ Fetched(a) = 0
  BY <1>3, <1>4, <1>5, <1>9 DEF Placed
<1>8. FetchesOf(a) = {}
  BY <1>4, <1>7, FS_EmptySet DEF Fetched
<1> QED
  BY <1>1, <1>2, <1>7, <1>8 DEF a

(* An announce whose counts and whose fate a step leaves alone stays placed. *)
LEMMA PlacedKept ==
  ASSUME NEW a, Placed(a), ledger'[a] = ledger[a], Queued(a)' = Queued(a),
         Reported(a)' = Reported(a), Fetched(a)' = Fetched(a), Posted(a)' = Posted(a)
  PROVE  Placed(a)'
BY DEF Placed

(* A step that touches neither the closures, the queue, the fetches nor the
   fates keeps everything said of them. *)
LEMMA QuietCounts ==
  ASSUME CountInv, UNCHANGED <<inbox, queue, fetches, ledger>>
  PROVE  CountInv'
BY DEF CountInv, Placed, Queued, Reported, Fetched, Posted, FetchesOf, FirstTry, RetriedOnce

(* librats announces: a closure of an announce that was unheard of. *)
LEMMA AnnounceArrivesCounts ==
  ASSUME TypeOK, CountInv, NEW b \in Announce, NEW h \in Hash, NEW fast \in BOOLEAN,
         AnnounceArrives(b, h, fast)
  PROVE  CountInv'
<1> DEFINE r == [ann |-> b, hash |-> h, fast |-> fast, attempt |-> 1]
           c == [kind |-> "announce", req |-> r]
<1>1. c \in Closure /\ c.kind = "announce" /\ c.req.ann = b /\ c.req.attempt = 1
  BY DEF Closure, Request
<1>2. /\ inbox' = Append(inbox, c) /\ ledger' = [ledger EXCEPT ![b] = "posted"]
      /\ ledger[b] = "unheard" /\ UNCHANGED <<queue, fetches>>
  BY DEF AnnounceArrives, Settle
<1> HIDE DEF c, r
<1>3. inbox \in Seq(Closure)
  BY DEF TypeOK
<1>4. ASSUME NEW a \in Announce PROVE Placed(a)'
  <2>1. Queued(a)' = Queued(a) /\ Fetched(a)' = Fetched(a)
    BY <1>2 DEF Queued, Fetched, FetchesOf
  <2>2. c \notin ReportsOf(a) /\ (c \in AnnouncesOf(a) <=> a = b)
    BY <1>1 DEF ReportsOf, AnnouncesOf
  <2>3. Reported(a) \in Nat /\ Posted(a) \in Nat /\ Queued(a) \in Nat /\ Fetched(a) \in Nat
    BY CountsType DEF CountInv
  <2>4. Cardinality(Where(inbox', ReportsOf(a))) = Cardinality(Where(inbox, ReportsOf(a)))
    BY <1>1, <1>2, <1>3, <2>2, <2>3, WhereAppend DEF Reported
  <2>5. Cardinality(Where(inbox', AnnouncesOf(a))) =
          Cardinality(Where(inbox, AnnouncesOf(a))) + IF a = b THEN 1 ELSE 0
    BY <1>1, <1>2, <1>3, <2>2, WhereAppend
  <2>6. Reported(a)' = Reported(a) /\ Posted(a)' = Posted(a) + IF a = b THEN 1 ELSE 0
    BY <2>4, <2>5 DEF Reported, Posted, ReportsOf, AnnouncesOf
  <2>7. ledger'[a] = IF a = b THEN "posted" ELSE ledger[a]
    BY <1>2 DEF TypeOK
  <2>8. Placed(a)
    BY DEF CountInv
  <2> QED
    BY <1>2, <2>1, <2>3, <2>6, <2>7, <2>8 DEF Placed
<1>5. FirstTry'
  <2>1. \A i \in 1..Len(inbox') : inbox'[i] = c \/ (i \in 1..Len(inbox) /\ inbox'[i] = inbox[i])
    BY <1>1, <1>2, <1>3
  <2> QED
    BY <1>1, <2>1 DEF FirstTry, CountInv
<1>6. RetriedOnce'
  BY <1>2 DEF RetriedOnce, CountInv
<1> QED
  BY <1>2, <1>4, <1>5, <1>6 DEF CountInv

(* The closure at the head of the inbox goes: what is counted of it goes with it. *)
LEMMA ClosureTaken ==
  ASSUME TypeOK, inbox # <<>>, inbox' = Tail(inbox), NEW a \in Announce
  PROVE  LET c == Head(inbox) IN
         /\ c \in Closure /\ c.req \in Request /\ c.req.ann \in Announce
         /\ Reported(a) = Reported(a)' +
              (IF c.kind = "received" /\ c.req.ann = a THEN 1 ELSE 0)
         /\ Posted(a) = Posted(a)' +
              (IF c.kind = "announce" /\ c.req.ann = a THEN 1 ELSE 0)
         /\ Reported(a)' \in Nat /\ Posted(a)' \in Nat
<1> DEFINE c == Head(inbox)
<1>1. inbox \in Seq(Closure) /\ c \in Closure /\ inbox' \in Seq(Closure)
  BY DEF TypeOK
<1>2. c.req \in Request /\ c.req.ann \in Announce
  BY <1>1 DEF Closure, Request
<1>3. /\ c \in ReportsOf(a) <=> c.kind = "received" /\ c.req.ann = a
      /\ c \in AnnouncesOf(a) <=> c.kind = "announce" /\ c.req.ann = a
  BY <1>1 DEF ReportsOf, AnnouncesOf
<1> HIDE DEF c
<1>4. /\ Cardinality(Where(inbox, ReportsOf(a))) = Cardinality(Where(inbox', ReportsOf(a)))
           + (IF c.kind = "received" /\ c.req.ann = a THEN 1 ELSE 0)
      /\ Cardinality(Where(inbox, AnnouncesOf(a))) = Cardinality(Where(inbox', AnnouncesOf(a)))
           + (IF c.kind = "announce" /\ c.req.ann = a THEN 1 ELSE 0)
  BY <1>1, <1>3, WhereTail DEF c
<1>5. /\ Cardinality(Where(inbox', ReportsOf(a))) \in Nat
      /\ Cardinality(Where(inbox', AnnouncesOf(a))) \in Nat
  BY <1>1, WhereFinite
<1>6. /\ Reported(a) = Cardinality(Where(inbox, ReportsOf(a)))
      /\ Posted(a) = Cardinality(Where(inbox, AnnouncesOf(a)))
      /\ Reported(a)' = Cardinality(Where(inbox', ReportsOf(a)))
      /\ Posted(a)' = Cardinality(Where(inbox', AnnouncesOf(a)))
  BY DEF Reported, Posted, ReportsOf, AnnouncesOf
<1> QED
  BY <1>1, <1>2, <1>4, <1>5, <1>6 DEF c

(* What is left of the inbox was there before. *)
LEMMA FirstTryKept ==
  ASSUME TypeOK, FirstTry, inbox # <<>>, inbox' = Tail(inbox)
  PROVE  FirstTry'
<1>1. \A i \in 1..Len(inbox') : i + 1 \in 1..Len(inbox) /\ inbox'[i] = inbox[i + 1]
  BY DEF TypeOK
<1> QED
  BY <1>1 DEF FirstTry

(* onAnnounce: what was posted is skipped, or queued for its first try. *)
LEMMA OnAnnounceCounts ==
  ASSUME TypeOK, CountInv, OnAnnounce
  PROVE  CountInv'
<1> DEFINE c == Head(inbox)
           b == c.req.ann
<1>1. /\ inbox # <<>> /\ inbox' = Tail(inbox) /\ c.kind = "announce" /\ fetches' = fetches
      /\ \/ ledger' = [ledger EXCEPT ![b] = "skipped"] /\ queue' = queue
         \/ ledger' = [ledger EXCEPT ![b] = "pending"] /\ queue' = Append(queue, c.req)
  BY Zenon DEF OnAnnounce, Settle
<1>2. c \in Closure /\ c.req \in Request /\ b \in Announce
  <2>1. c \in Closure
    BY <1>1 DEF TypeOK
  <2> QED
    BY <2>1 DEF Closure, Request
<1>3. c.req.attempt = 1
  <2>1. 1 \in 1..Len(inbox) /\ c = inbox[1]
    BY <1>1 DEF TypeOK
  <2> QED
    BY <1>1, <2>1 DEF CountInv, FirstTry
<1> HIDE DEF c, b
<1>4. ASSUME NEW a \in Announce PROVE Placed(a)'
  <2>1. /\ Reported(a) = Reported(a)'
        /\ Posted(a) = Posted(a)' + (IF b = a THEN 1 ELSE 0)
        /\ Reported(a)' \in Nat /\ Posted(a)' \in Nat
    BY <1>1, ClosureTaken DEF c, b
  <2>2. Fetched(a)' = Fetched(a)
    BY <1>1 DEF Fetched, FetchesOf
  <2>3. Placed(a) /\ Queued(a) \in Nat /\ Fetched(a) \in Nat
    BY CountsType DEF CountInv
  <2>4. queue \in Seq(Request) /\ (c.req \in RequestsOf(a) <=> b = a)
    BY <1>2 DEF TypeOK, RequestsOf, b
  <2>5. Queued(a)' = Cardinality(Where(queue', RequestsOf(a)))
    BY DEF Queued, RequestsOf
  <2>6. Queued(a)' = Queued(a) + IF queue' # queue /\ b = a THEN 1 ELSE 0
    <3>1. CASE queue' = queue
      BY <3>1, <2>3, <2>5 DEF Queued
    <3>2. CASE queue' = Append(queue, c.req)
      <4>1. queue' # queue
        BY <3>2, <2>4
      <4> QED
        BY <1>2, <2>4, <2>5, <3>2, <4>1, WhereAppend DEF Queued
    <3> QED
      BY <1>1, <3>1, <3>2
  <2>7. CASE a # b
    <3>1. ledger'[a] = ledger[a]
      BY <1>1, <2>7 DEF TypeOK
    <3> QED
      BY <2>1, <2>2, <2>3, <2>6, <2>7, <3>1, PlacedKept
  <2>8. CASE a = b
    <3>1. ledger[a] = "posted" /\ Posted(a)' = 0
      BY <2>1, <2>3, <2>8 DEF Placed
    <3>2. Queued(a) + Reported(a) + Fetched(a) = 0
      BY <2>3, <3>1 DEF Placed
    <3>3. Append(queue, c.req) # queue
      BY <2>4
    <3>4. \/ ledger'[a] = "skipped" /\ Queued(a)' = Queued(a)
          \/ ledger'[a] = "pending" /\ Queued(a)' = Queued(a) + 1
      BY <1>1, <2>3, <2>6, <2>8, <3>3 DEF TypeOK
    <3>5. Queued(a)' + Reported(a)' + Fetched(a)' = IF ledger'[a] = "pending" THEN 1 ELSE 0
      BY <2>1, <2>2, <2>3, <3>2, <3>4
    <3>6. Posted(a)' = IF ledger'[a] = "posted" THEN 1 ELSE 0
      BY <3>1, <3>4
    <3> QED
      BY <3>5, <3>6 DEF Placed
  <2> QED
    BY <2>7, <2>8
<1>5. FirstTry'
  BY <1>1, FirstTryKept DEF CountInv
<1>6. RetriedOnce'
  <2>1. \A i \in 1..Len(queue') : queue'[i] = c.req \/ (i \in 1..Len(queue) /\ queue'[i] = queue[i])
    <3>1. queue \in Seq(Request)
      BY DEF TypeOK
    <3>2. CASE queue' = queue
      BY <3>2
    <3>3. CASE queue' = Append(queue, c.req)
      BY <1>2, <3>1, <3>3
    <3> QED
      BY <1>1, <3>2, <3>3
  <2> QED
    BY <1>1, <1>3, <2>1 DEF RetriedOnce, CountInv
<1> QED
  BY <1>1, <1>4, <1>5, <1>6 DEF CountInv

(* onMetadataReceived: the announce that was reported is discovered. *)
LEMMA OnMetadataReceivedCounts ==
  ASSUME TypeOK, CountInv, OnMetadataReceived
  PROVE  CountInv'
<1> DEFINE b == Head(inbox).req.ann
<1>1. /\ inbox # <<>> /\ inbox' = Tail(inbox) /\ Head(inbox).kind = "received"
      /\ ledger' = [ledger EXCEPT ![b] = "discovered"] /\ UNCHANGED <<queue, fetches>>
  BY DEF OnMetadataReceived, Settle
<1>2. ASSUME NEW a \in Announce PROVE Placed(a)'
  <2>1. /\ Reported(a) = Reported(a)' + (IF b = a THEN 1 ELSE 0)
        /\ Posted(a) = Posted(a)'
        /\ Reported(a)' \in Nat /\ Posted(a)' \in Nat
    BY <1>1, ClosureTaken
  <2>2. Fetched(a)' = Fetched(a) /\ Queued(a)' = Queued(a)
    BY <1>1 DEF Fetched, FetchesOf, Queued
  <2>3. Placed(a) /\ Queued(a) \in Nat /\ Fetched(a) \in Nat
    BY CountsType DEF CountInv
  <2>4. ledger'[a] = IF a = b THEN "discovered" ELSE ledger[a]
    BY <1>1 DEF TypeOK
  <2> QED
    BY <2>1, <2>2, <2>3, <2>4 DEF Placed
<1>3. FirstTry'
  BY <1>1, FirstTryKept DEF CountInv
<1>4. RetriedOnce'
  BY <1>1 DEF RetriedOnce, CountInv
<1> QED
  BY <1>1, <1>2, <1>3, <1>4 DEF CountInv

(* The pump: a request goes from the head of the queue into a fetch. *)
LEMMA PumpFetchesCounts ==
  ASSUME TypeOK, CountInv, PumpFetches
  PROVE  CountInv'
<1> DEFINE r == Head(queue)
           new == [req |-> r, phase |-> "inflight"]
<1>1. /\ queue # <<>> /\ queue' = Tail(queue) /\ fetches' = fetches \cup {new}
      /\ UNCHANGED <<inbox, ledger>>
  BY DEF PumpFetches, FetchMetadata
<1>2. r \in Request /\ r.ann \in Announce /\ FetchesOf(r.ann) = {}
  BY <1>1, HeadIsQueued
<1>3. queue \in Seq(Request) /\ new.req = r
  BY DEF TypeOK
<1> HIDE DEF new, r
<1>4. ASSUME NEW a \in Announce PROVE Placed(a)'
  <2>1. Placed(a) /\ Queued(a) \in Nat /\ Fetched(a) \in Nat /\ Reported(a) \in Nat
    BY CountsType DEF CountInv
  <2>2. Reported(a)' = Reported(a) /\ Posted(a)' = Posted(a) /\ ledger'[a] = ledger[a]
    BY <1>1 DEF Reported, Posted
  <2>3. Queued(a)' = Cardinality(Where(Tail(queue), RequestsOf(a)))
    BY <1>1 DEF Queued, RequestsOf
  <2>4. r \in RequestsOf(a) <=> r.ann = a
    BY <1>2 DEF RequestsOf
  <2>5. Queued(a) = Queued(a)' + (IF r.ann = a THEN 1 ELSE 0)
    BY <1>1, <1>3, <2>3, <2>4, WhereTail DEF Queued, r
  <2>6. Tail(queue) \in Seq(Request)
    BY <1>1, <1>3
  <2>7. Queued(a)' \in Nat
    BY <2>3, <2>6, WhereFinite
  <2>8. Fetched(a)' = Fetched(a) + (IF r.ann = a THEN 1 ELSE 0)
    <3>1. CASE r.ann = a
      <4>1. FetchesOf(a) = {} /\ FetchesOf(a)' = {new}
        BY <1>1, <1>2, <1>3, <3>1 DEF FetchesOf
      <4>2. Fetched(a) = 0 /\ Fetched(a)' = 1
        BY <4>1, FS_EmptySet, FS_Singleton DEF Fetched
      <4> QED
        BY <3>1, <4>2
    <3>2. CASE r.ann # a
      <4>1. FetchesOf(a)' = FetchesOf(a)
        BY <1>1, <1>3, <3>2 DEF FetchesOf
      <4> QED
        BY <2>1, <3>2, <4>1 DEF Fetched
    <3> QED
      BY <3>1, <3>2
  <2> QED
    BY <2>1, <2>2, <2>5, <2>7, <2>8 DEF Placed
<1>5. FirstTry'
  BY <1>1 DEF FirstTry, CountInv
<1>6. RetriedOnce'
  <2>1. 1 \in 1..Len(queue) /\ r = queue[1]
    BY <1>1, <1>3 DEF r
  <2>2. \A i \in 1..Len(queue') : i + 1 \in 1..Len(queue) /\ queue'[i] = queue[i + 1]
    BY <1>1, <1>3
  <2>3. \A f \in fetches' : f \in fetches \/ f.req = r
    BY <1>1, <1>3
  <2> QED
    BY <2>1, <2>2, <2>3 DEF RetriedOnce, CountInv
<1>7. IsFiniteSet(fetches')
  BY <1>1, FS_AddElement DEF CountInv
<1> QED
  BY <1>4, <1>5, <1>6, <1>7 DEF CountInv

(* The callback gives the slot back: the request stays in its fetch. *)
LEMMA FetchReturnsCounts ==
  ASSUME TypeOK, CountInv, NEW f \in fetches, NEW result \in {"ok", "failed"},
         FetchReturns(f, result)
  PROVE  CountInv'
<1> DEFINE g == [f EXCEPT !.phase = result]
<1>1. fetches' = (fetches \ {f}) \cup {g} /\ UNCHANGED <<inbox, queue, ledger>>
  BY DEF FetchReturns
<1>2. g.req = f.req
  BY DEF TypeOK, Fetch
<1> HIDE DEF g
<1>3. ASSUME NEW a \in Announce PROVE Placed(a)'
  <2>1. Placed(a)
    BY DEF CountInv
  <2>2. /\ Queued(a)' = Queued(a) /\ Reported(a)' = Reported(a) /\ Posted(a)' = Posted(a)
        /\ ledger'[a] = ledger[a]
    BY <1>1 DEF Queued, Reported, Posted
  <2>3. Fetched(a)' = Fetched(a)
    <3>1. CASE f.req.ann = a
      <4>1. FetchesOf(a) = {f}
        BY <3>1, OneFetch
      <4>2. FetchesOf(a)' = {g}
        BY <1>1, <1>2, <3>1, <4>1 DEF FetchesOf
      <4> QED
        BY <4>1, <4>2, FS_Singleton DEF Fetched
    <3>2. CASE f.req.ann # a
      <4>1. FetchesOf(a)' = FetchesOf(a)
        BY <1>1, <1>2, <3>2 DEF FetchesOf
      <4> QED
        BY <4>1 DEF Fetched
    <3> QED
      BY <3>1, <3>2
  <2> QED
    BY <2>1, <2>2, <2>3, PlacedKept
<1>4. FirstTry'
  BY <1>1 DEF FirstTry, CountInv
<1>5. RetriedOnce'
  <2>1. \A e \in fetches' : \E d \in fetches : e.req = d.req
    BY <1>1, <1>2
  <2> QED
    BY <1>1, <2>1 DEF RetriedOnce, CountInv
<1>6. IsFiniteSet(fetches')
  BY <1>1, FS_AddElement, FS_RemoveElement DEF CountInv
<1> QED
  BY <1>3, <1>4, <1>5, <1>6 DEF CountInv

(* A fetch that is over is gone with its last callback, and was the only one
   of its announce. *)
LEMMA FetchGone ==
  ASSUME TypeOK, CountInv, NEW f \in fetches, fetches' = fetches \ {f}, NEW a \in Announce
  PROVE  /\ Fetched(a) = Fetched(a)' + (IF f.req.ann = a THEN 1 ELSE 0)
         /\ Fetched(a)' \in Nat
         /\ IsFiniteSet(fetches')
<1>0. Fetched(a) \in Nat
  BY CountsType DEF CountInv
<1>1. CASE f.req.ann = a
  <2>1. FetchesOf(a) = {f} /\ FetchesOf(a)' = {}
    BY <1>1, OneFetch DEF FetchesOf
  <2>2. Fetched(a) = 1 /\ Fetched(a)' = 0
    BY <2>1, FS_EmptySet, FS_Singleton DEF Fetched
  <2> QED
    BY <1>1, <2>2, FS_RemoveElement DEF CountInv
<1>2. CASE f.req.ann # a
  <2>1. FetchesOf(a)' = FetchesOf(a)
    BY <1>2 DEF FetchesOf
  <2> QED
    BY <1>0, <1>2, <2>1, FS_RemoveElement DEF Fetched, CountInv
<1> QED
  BY <1>1, <1>2

(* A failed fetch: its request is queued for the second and last try, or the
   announce is dropped. *)
LEMMA ResultFailedCounts ==
  ASSUME TypeOK, CountInv, NEW f \in fetches, ResultFailed(f)
  PROVE  CountInv'
<1> DEFINE r == f.req
           b == r.ann
           again == RetryOf(r)
<1>1. /\ fetches' = fetches \ {f} /\ inbox' = inbox
      /\ \/ MayRetry(r) /\ queue' = Append(queue, again) /\ ledger' = ledger
         \/ queue' = queue /\ ledger' = [ledger EXCEPT ![b] = "dropped"]
  BY Zenon DEF ResultFailed, Settle
<1>2. r \in Request /\ again \in Request /\ again.ann = b /\ b \in Announce
  BY RetryTyped DEF TypeOK, Fetch, Request, RetryOf
<1>3. queue \in Seq(Request)
  BY DEF TypeOK
<1>4. MayRetry(r) => again.attempt <= 2 /\ ~again.fast
  BY <1>2 DEF MayRetry, RetryOf, CountInv, RetriedOnce, Request
<1>5. ledger[b] = "pending" /\ Queued(b) = 0 /\ Reported(b) = 0
  BY OneFetch
<1> HIDE DEF r, b, again
<1>6. ASSUME NEW a \in Announce PROVE Placed(a)'
  <2>1. /\ Placed(a) /\ Queued(a) \in Nat /\ Reported(a) \in Nat
    BY CountsType DEF CountInv
  <2>2. Fetched(a) = Fetched(a)' + (IF b = a THEN 1 ELSE 0) /\ Fetched(a)' \in Nat
    BY <1>1, FetchGone DEF b, r
  <2>3. Reported(a)' = Reported(a) /\ Posted(a)' = Posted(a)
    BY <1>1 DEF Reported, Posted
  <2>4. Queued(a)' = Cardinality(Where(queue', RequestsOf(a)))
    BY DEF Queued, RequestsOf
  <2>5. again \in RequestsOf(a) <=> b = a
    BY <1>2 DEF RequestsOf
  <2>6. CASE queue' = Append(queue, again) /\ ledger' = ledger
    <3>1. Queued(a)' = Queued(a) + (IF b = a THEN 1 ELSE 0)
      BY <1>2, <1>3, <2>4, <2>5, <2>6, WhereAppend DEF Queued
    <3> QED
      BY <2>1, <2>2, <2>3, <2>6, <3>1 DEF Placed
  <2>7. CASE queue' = queue /\ ledger' = [ledger EXCEPT ![b] = "dropped"]
    <3>1. Queued(a)' = Queued(a)
      BY <2>4, <2>7 DEF Queued
    <3>2. ledger'[a] = IF a = b THEN "dropped" ELSE ledger[a]
      BY <2>7 DEF TypeOK
    <3>3. CASE a = b
      BY <1>5, <2>1, <2>2, <2>3, <3>1, <3>2, <3>3 DEF Placed
    <3>4. CASE a # b
      BY <2>1, <2>2, <2>3, <3>1, <3>2, <3>4 DEF Placed
    <3> QED
      BY <3>3, <3>4
  <2> QED
    BY <1>1, <2>6, <2>7
<1>7. FirstTry'
  BY <1>1 DEF FirstTry, CountInv
<1>8. RetriedOnce'
  <2>1. \A i \in 1..Len(queue') : \/ i \in 1..Len(queue) /\ queue'[i] = queue[i]
                                  \/ MayRetry(r) /\ queue'[i] = again
    <3>1. CASE queue' = queue
      BY <3>1
    <3>2. CASE queue' = Append(queue, again) /\ MayRetry(r)
      BY <1>2, <1>3, <3>2
    <3> QED
      BY <1>1, <3>1, <3>2
  <2> QED
    BY <1>1, <1>4, <2>1 DEF RetriedOnce, CountInv
<1>9. IsFiniteSet(fetches')
  BY <1>1, FS_RemoveElement DEF CountInv
<1> QED
  BY <1>6, <1>7, <1>8, <1>9 DEF CountInv

(* A fetch with a result: the closure that reports it takes its place. *)
LEMMA ResultArrivedCounts ==
  ASSUME TypeOK, CountInv, NEW f \in fetches, ResultArrived(f)
  PROVE  CountInv'
<1> DEFINE b == f.req.ann
           c == [kind |-> "received", req |-> f.req]
<1>1. /\ fetches' = fetches \ {f} /\ inbox' = Append(inbox, c)
      /\ UNCHANGED <<queue, ledger>>
  BY DEF ResultArrived
<1>2. c \in Closure /\ c.kind = "received" /\ c.req.ann = b
  BY DEF TypeOK, Fetch, Closure
<1>3. inbox \in Seq(Closure)
  BY DEF TypeOK
<1> HIDE DEF b, c
<1>4. ASSUME NEW a \in Announce PROVE Placed(a)'
  <2>1. /\ Placed(a) /\ Queued(a) \in Nat /\ Reported(a) \in Nat /\ Posted(a) \in Nat
    BY CountsType DEF CountInv
  <2>2. Fetched(a) = Fetched(a)' + (IF b = a THEN 1 ELSE 0) /\ Fetched(a)' \in Nat
    BY <1>1, FetchGone DEF b
  <2>3. Queued(a)' = Queued(a) /\ ledger'[a] = ledger[a]
    BY <1>1 DEF Queued
  <2>4. /\ Reported(a)' = Cardinality(Where(inbox', ReportsOf(a)))
        /\ Posted(a)' = Cardinality(Where(inbox', AnnouncesOf(a)))
    BY DEF Reported, Posted, ReportsOf, AnnouncesOf
  <2>5. (c \in ReportsOf(a) <=> b = a) /\ c \notin AnnouncesOf(a)
    BY <1>2 DEF ReportsOf, AnnouncesOf
  <2>6. /\ Reported(a)' = Reported(a) + (IF b = a THEN 1 ELSE 0)
        /\ Posted(a)' = Posted(a)
    BY <1>1, <1>2, <1>3, <2>1, <2>4, <2>5, WhereAppend DEF Reported, Posted
  <2> QED
    BY <2>1, <2>2, <2>3, <2>6 DEF Placed
<1>5. FirstTry'
  <2>1. \A i \in 1..Len(inbox') : inbox'[i] = c \/ (i \in 1..Len(inbox) /\ inbox'[i] = inbox[i])
    BY <1>1, <1>2, <1>3
  <2> QED
    BY <1>2, <2>1 DEF FirstTry, CountInv
<1>6. RetriedOnce'
  BY <1>1 DEF RetriedOnce, CountInv
<1>7. IsFiniteSet(fetches')
  BY <1>1, FS_RemoveElement DEF CountInv
<1> QED
  BY <1>4, <1>5, <1>6, <1>7 DEF CountInv

(* Every step of loop and workers keeps the counts. *)
LEMMA NextCounts == ASSUME TypeOK, CountInv, [Next]_vars PROVE CountInv'
<1>1. CASE \/ Start \/ LoopEnds \/ Stop \/ OnIgnoreToggle \/ PumpBegins \/ PumpEnds
           \/ UNCHANGED vars
  <2>1. UNCHANGED <<inbox, queue, fetches, ledger>>
    BY <1>1 DEF Start, LoopEnds, Stop, OnIgnoreToggle, PumpBegins, PumpEnds, vars
  <2> QED
    BY <2>1, QuietCounts
<1>2. ASSUME NEW f \in fetches, Callback(f) PROVE CountInv'
  BY <1>2, FetchReturnsCounts, ResultFailedCounts, ResultArrivedCounts DEF Callback
<1> QED
  BY <1>1, <1>2, AnnounceArrivesCounts, OnAnnounceCounts, OnMetadataReceivedCounts,
     PumpFetchesCounts DEF Next, RunClosure, Pump

(* No announce is anywhere when the crawler is constructed. *)
LEMMA InitCounts == Init => CountInv
<1> SUFFICES ASSUME Init PROVE CountInv
  OBVIOUS
<1>1. IsFiniteSet(fetches)
  BY FS_EmptySet DEF Init
<1>2. ASSUME NEW a \in Announce PROVE Placed(a)
  <2>1. Queued(a) = 0 /\ Reported(a) = 0 /\ Posted(a) = 0
    BY WhereNone DEF Init, Queued, Reported, Posted
  <2>2. FetchesOf(a) = {}
    BY DEF Init, FetchesOf
  <2>3. Fetched(a) = 0
    BY <2>2, FS_EmptySet DEF Fetched
  <2>4. ledger[a] = "unheard"
    BY DEF Init
  <2> QED
    BY <2>1, <2>3, <2>4 DEF Placed
<1> QED
  BY <1>1, <1>2 DEF Init, CountInv, FirstTry, RetriedOnce

(* Where every announce is, over all behaviours. *)
LEMMA CountsHold == Spec => []CountInv
<1>1. TypeOK /\ CountInv /\ [Next]_vars => CountInv'
  BY NextCounts
<1> QED
  BY <1>1, InitCounts, TypeCorrect, PTL DEF Spec

-----------------------------------------------------------------------------
(* The counter. While the crawler runs it is not only no smaller than the   *)
(* number of fetches, as Tied says, but equal to it: a request that is      *)
(* handed to librats was in no fetch before, so the set grows with the      *)
(* counter.                                                                 *)

LEMMA NextCounter ==
  ASSUME IInv, CountInv, CounterExact, [Next]_vars
  PROVE  CounterExact'
<1>0. TypeOK /\ Tied /\ IsFiniteSet(InFlight) /\ active \in Int /\ Cardinality(InFlight) \in Nat
  BY FS_CardinalityType DEF IInv, TypeOK
<1>1. CASE Start
  <2>1. InFlight = {} /\ active = 0 /\ InFlight' = InFlight /\ active' = active
    BY <1>0, <1>1, InFlightUnchanged DEF Start, LoopFree, Tied
  <2> QED
    BY <2>1, FS_EmptySet DEF CounterExact
<1>2. CASE Stop
  BY <1>2 DEF Stop, CounterExact
<1>3. CASE \/ LoopEnds \/ OnIgnoreToggle \/ PumpBegins \/ PumpEnds \/ RunClosure
           \/ (\E a \in Announce, h \in Hash, fast \in BOOLEAN : AnnounceArrives(a, h, fast))
           \/ UNCHANGED vars
  <2>1. UNCHANGED <<running, active, fetches>>
    BY <1>3 DEF LoopEnds, OnIgnoreToggle, PumpBegins, PumpEnds, RunClosure, OnAnnounce,
       OnMetadataReceived, AnnounceArrives, vars
  <2> QED
    BY <2>1, InFlightUnchanged DEF CounterExact
<1>4. CASE PumpFetches
  <2> DEFINE new == [req |-> Head(queue), phase |-> "inflight"]
  <2>1. InFlight' = InFlight \cup {new} /\ active' = active + 1 /\ queue # <<>>
    BY <1>4 DEF PumpFetches, FetchMetadata, InFlight
  <2>2. new \notin InFlight
    <3>1. new \notin FetchesOf(Head(queue).ann) /\ new.req = Head(queue)
      BY <1>0, <2>1, HeadIsQueued
    <3> QED
      BY <3>1 DEF InFlight, FetchesOf
  <2> HIDE DEF new
  <2>3. Cardinality(InFlight') = Cardinality(InFlight) + 1
    BY <1>0, <2>1, <2>2, FS_AddElement
  <2>4. running' = running
    BY <1>4 DEF PumpFetches
  <2> QED
    BY <1>0, <2>1, <2>3, <2>4 DEF CounterExact
<1>5. ASSUME NEW f \in fetches, Callback(f) PROVE CounterExact'
  <2>0. f \in Fetch
    BY <1>0 DEF TypeOK
  <2>1. ASSUME NEW result \in {"ok", "failed"}, FetchReturns(f, result) PROVE CounterExact'
    <3>1. f \in InFlight /\ InFlight' = InFlight \ {f}
      BY <2>0, <2>1 DEF FetchReturns, InFlight, Fetch
    <3>2. Cardinality(InFlight') = Cardinality(InFlight) - 1
      BY <1>0, <3>1, FS_RemoveElement
    <3> QED
      BY <1>0, <2>1, <3>2 DEF FetchReturns, CounterExact
  <2>2. CASE ResultFailed(f) \/ ResultArrived(f)
    <3>1. InFlight' = InFlight /\ UNCHANGED <<running, active>>
      BY <2>2 DEF ResultFailed, ResultArrived, InFlight
    <3> QED
      BY <3>1 DEF CounterExact
  <2> QED
    BY <1>5, <2>1, <2>2 DEF Callback
<1> QED
  BY <1>1, <1>2, <1>3, <1>4, <1>5 DEF Next, Pump

(* An accepted announce is in one place, takes at most one slot of an exact
   counter, and is retried at most once: for every number of announces and
   whatever callbacks, pump, loop and shutdown interleave. *)
THEOREM HandledOnceHolds == Spec => []HandledOnce
<1>1. Init => CounterExact
  BY DEF Init, CounterExact
<1>2. IInv /\ CountInv /\ CounterExact /\ [Next]_vars => CounterExact'
  BY NextCounter
<1>3. TypeOK /\ CountInv /\ CounterExact => HandledOnce
  BY PlacedIsOneCarrier DEF CountInv, HandledOnce
<1> QED
  BY <1>1, <1>2, <1>3, TypeCorrect, InvariantHolds, CountsHold, PTL DEF Spec

-----------------------------------------------------------------------------
(* The refinement of AnnounceLedger. What is being fetched, there, are the  *)
(* announces of the fetches in flight.                                      *)

Fetching == {f.req.ann : f \in InFlight}

(* Not more announces are being fetched than there are fetches in flight. *)
LEMMA FetchingBound ==
  ASSUME IsFiniteSet(InFlight)
  PROVE  IsFiniteSet(Fetching) /\ Cardinality(Fetching) <= Cardinality(InFlight)
<1> DEFINE annOf == [f \in InFlight |-> f.req.ann]
<1>1. annOf \in Surjection(InFlight, Fetching)
  BY DEF Surjection, Fetching
<1> QED
  BY <1>1, FS_Surjection

(* A fetch in flight is the only fetch of its announce: without it the announce
   is not being fetched. *)
LEMMA FetchingWithout ==
  ASSUME TypeOK, CountInv, NEW f \in fetches
  PROVE  /\ f \in InFlight => Fetching = {g.req.ann : g \in InFlight \ {f}} \cup {f.req.ann}
         /\ f.req.ann \notin {g.req.ann : g \in InFlight \ {f}}
<1>1. FetchesOf(f.req.ann) = {f}
  BY OneFetch
<1> QED
  BY <1>1 DEF Fetching, InFlight, FetchesOf

(* The ledger counts with the same operator. *)
LEMMA SameCardinality == \A S : Ledger!Cardinality(S) = Cardinality(S)
BY DEF Cardinality, Ledger!Cardinality

(* Every step of the crawler is a step of the ledger or leaves it alone. *)
LEMMA StepRefines ==
  ASSUME IInv, CountInv, CounterExact, [Next]_vars
  PROVE  [Ledger!LNext]_(Ledger!lvars)
<1> USE DEF Ledger!LNext, Ledger!lvars, Ledger!Become
<1>0. TypeOK /\ Tied /\ IsFiniteSet(InFlight)
  BY DEF IInv
<1>1. CASE \/ Start \/ LoopEnds \/ Stop \/ OnIgnoreToggle \/ PumpBegins \/ PumpEnds
           \/ UNCHANGED vars
  <2>1. ledger' = ledger /\ InFlight' = InFlight
    BY <1>1, InFlightUnchanged DEF Start, LoopEnds, Stop, OnIgnoreToggle, PumpBegins,
       PumpEnds, vars
  <2> QED
    BY <2>1
<1>2. ASSUME NEW a \in Announce, NEW h \in Hash, NEW fast \in BOOLEAN, AnnounceArrives(a, h, fast)
      PROVE  [Ledger!LNext]_(Ledger!lvars)
  <2>1. Ledger!Hear(a)
    BY <1>2, InFlightUnchanged DEF AnnounceArrives, Settle, Ledger!Hear
  <2> QED
    BY <2>1
<1>3. CASE OnAnnounce
  <2>0. Head(inbox) \in Closure
    BY <1>0, <1>3 DEF OnAnnounce, TypeOK
  <2> PICK b \in Announce : b = Head(inbox).req.ann
    BY <2>0 DEF Closure, Request
  <2>1. /\ inbox # <<>> /\ inbox' = Tail(inbox) /\ Head(inbox).kind = "announce"
        /\ InFlight' = InFlight
        /\ \/ ledger' = [ledger EXCEPT ![b] = "skipped"]
           \/ ledger' = [ledger EXCEPT ![b] = "pending"]
    BY <1>3, InFlightUnchanged, Zenon DEF OnAnnounce, Settle
  <2>2. ledger[b] = "posted"
    <3>1. Posted(b) = Posted(b)' + 1 /\ Posted(b)' \in Nat
      BY <1>0, <2>1, ClosureTaken
    <3>2. Placed(b)
      BY DEF CountInv
    <3> QED
      BY <3>1, <3>2 DEF Placed
  <2>3. Ledger!Skip(b) \/ Ledger!Accept(b)
    BY <2>1, <2>2 DEF Ledger!Skip, Ledger!Accept
  <2> QED
    BY <2>2, <2>3
<1>4. CASE OnMetadataReceived
  <2>0. Head(inbox) \in Closure
    BY <1>0, <1>4 DEF OnMetadataReceived, TypeOK
  <2> PICK b \in Announce : b = Head(inbox).req.ann
    BY <2>0 DEF Closure, Request
  <2>1. /\ inbox # <<>> /\ inbox' = Tail(inbox) /\ Head(inbox).kind = "received"
        /\ InFlight' = InFlight /\ ledger' = [ledger EXCEPT ![b] = "discovered"]
    BY <1>4, InFlightUnchanged DEF OnMetadataReceived, Settle
  <2>2. ledger[b] = "pending" /\ FetchesOf(b) = {}
    <3>1. Reported(b) = Reported(b)' + 1 /\ Reported(b)' \in Nat
      BY <1>0, <2>1, ClosureTaken
    <3>2. Placed(b) /\ Queued(b) \in Nat /\ Fetched(b) \in Nat /\ IsFiniteSet(FetchesOf(b))
      BY <1>0, CountsType DEF CountInv
    <3>3. ledger[b] = "pending" /\ Fetched(b) = 0
      BY <3>1, <3>2 DEF Placed
    <3> QED
      BY <3>2, <3>3, FS_EmptySet DEF Fetched
  <2>3. b \notin Fetching
    BY <2>2 DEF Fetching, InFlight, FetchesOf
  <2>4. Ledger!Discover(b)
    BY <2>1, <2>2, <2>3 DEF Ledger!Discover, Fetching
  <2> QED
    BY <2>2, <2>4
<1>5. CASE PumpFetches
  <2> DEFINE new == [req |-> Head(queue), phase |-> "inflight"]
  <2>0. Head(queue) \in Request
    BY <1>0, <1>5 DEF PumpFetches, TypeOK
  <2> PICK b \in Announce : b = Head(queue).ann
    BY <2>0 DEF Request
  <2>1. /\ InFlight' = InFlight \cup {new} /\ new.req.ann = b /\ ledger' = ledger
        /\ active < MaxFetches /\ pumping /\ queue # <<>>
    BY <1>5 DEF PumpFetches, FetchMetadata, MaySpawn, InFlight
  <2>2. ledger[b] = "pending" /\ FetchesOf(b) = {}
    BY <1>0, <2>1, HeadIsQueued
  <2>3. b \notin Fetching
    BY <2>2 DEF Fetching, InFlight, FetchesOf
  <2> HIDE DEF new
  <2>4. Fetching' = Fetching \cup {b}
    BY <2>1 DEF Fetching
  <2>5. Cardinality(Fetching) < MaxFetches
    <3>1. Cardinality(InFlight) = active
      BY <1>0, <2>1 DEF Tied, CounterExact
    <3>2. /\ Cardinality(InFlight) \in Nat /\ Cardinality(Fetching) \in Nat
          /\ Cardinality(Fetching) <= Cardinality(InFlight)
      BY <1>0, FetchingBound, FS_CardinalityType
    <3> QED
      BY <2>1, <3>1, <3>2, CrawlerAssumption
  <2>6. Ledger!BeginFetch(b)
    <3>1. /\ b \notin {f.req.ann : f \in InFlight}
          /\ Cardinality({f.req.ann : f \in InFlight}) < MaxFetches
          /\ {f.req.ann : f \in InFlight}' = {f.req.ann : f \in InFlight} \cup {b}
      BY <2>3, <2>4, <2>5 DEF Fetching
    <3> QED
      BY <2>1, <2>2, <3>1, SameCardinality, Zenon DEF Ledger!BeginFetch
  <2> QED
    BY <2>2, <2>6
<1>6. ASSUME NEW f \in fetches, Callback(f) PROVE [Ledger!LNext]_(Ledger!lvars)
  <2> DEFINE b == f.req.ann
  <2>0. f \in Fetch /\ b \in Announce /\ ledger[b] = "pending"
    BY <1>0, OneFetch DEF TypeOK
  <2>1. /\ f \in InFlight => Fetching = {g.req.ann : g \in InFlight \ {f}} \cup {b}
        /\ b \notin {g.req.ann : g \in InFlight \ {f}}
    BY <1>0, FetchingWithout
  <2>2. ASSUME NEW result \in {"ok", "failed"}, FetchReturns(f, result)
        PROVE  [Ledger!LNext]_(Ledger!lvars)
    <3>1. f \in InFlight /\ InFlight' = InFlight \ {f} /\ ledger' = ledger
      BY <2>0, <2>2 DEF FetchReturns, InFlight, Fetch
    <3>2. b \in Fetching /\ Fetching' = Fetching \ {b}
      BY <2>1, <3>1 DEF Fetching
    <3>3. Ledger!EndFetch(b)
      BY <3>1, <3>2 DEF Ledger!EndFetch, Fetching
    <3> QED
      BY <2>0, <3>3
  <2>3. CASE ResultFailed(f)
    <3>1. f \notin InFlight /\ InFlight' = InFlight
      BY <2>3 DEF ResultFailed, InFlight
    <3>2. b \notin Fetching
      <4>1. InFlight \ {f} = InFlight
        BY <3>1
      <4> QED
        BY <2>1, <4>1 DEF Fetching
    <3>3. \/ ledger' = ledger
          \/ ledger' = [ledger EXCEPT ![b] = "dropped"]
      BY <2>3, Zenon DEF ResultFailed, Settle
    <3>4. CASE ledger' = ledger
      BY <3>1, <3>4
    <3>5. CASE ledger' = [ledger EXCEPT ![b] = "dropped"]
      <4>1. Ledger!Drop(b)
        BY <2>0, <3>1, <3>2, <3>5 DEF Ledger!Drop, Fetching
      <4> QED
        BY <2>0, <4>1
    <3> QED
      BY <3>3, <3>4, <3>5
  <2>4. CASE ResultArrived(f)
    <3>1. InFlight' = InFlight /\ ledger' = ledger
      BY <2>4 DEF ResultArrived, InFlight
    <3> QED
      BY <3>1
  <2> QED
    BY <1>6, <2>2, <2>3, <2>4 DEF Callback
<1> QED
  BY <1>1, <1>2, <1>3, <1>4, <1>5, <1>6 DEF Next, RunClosure, Pump

(* The crawler, with its queue, its pump and its two kinds of threads, implements
   the ledger of announces: each is settled at most once and only when its fetch
   is over, and no more than MaxFetches are fetched at a time. *)
THEOREM Refinement == Spec => ImplementsLedger
<1>1. Init => Ledger!LInit /\ CounterExact
  BY DEF Init, Ledger!LInit, InFlight, CounterExact
<1>2. IInv /\ CountInv /\ CounterExact /\ [Next]_vars => [Ledger!LNext]_(Ledger!lvars)
  BY StepRefines
<1>3. HandledOnce => CounterExact
  BY DEF HandledOnce
<1> QED
  BY <1>1, <1>2, <1>3, InvariantHolds, CountsHold, HandledOnceHolds, PTL
  DEF Spec, ImplementsLedger, Ledger!LSpec

=============================================================================
