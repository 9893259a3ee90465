-------------------------- MODULE SiteScraperProofs --------------------------
(***************************************************************************)
(* Proofs about SiteScraper, for any hashes and any number of slots: while *)
(* no scrape waits longer than the cooldown of its hash, the slots are     *)
(* those of the scrapes that run, none waits beside a free one, and an     *)
(* entry is closed by the two results of its own scrape.                   *)
(*                                                                         *)
(* The argument is one of keys. An entry of pendingScrapes_ stands for a   *)
(* slot, so two scrapes of a hash must never be under way together; the    *)
(* cooldown keeps them apart: a hash that runs or waits was checked        *)
(* recently, it does so once, and never both. Hence what is under way for  *)
(* a hash belongs to the scrape its entry was made for.                    *)
(***************************************************************************)
EXTENDS SiteScraper, FiniteSetTheorems, SequenceTheorems, TLAPS

\* An entry is closed when its count reaches zero, and its hash is cooling down.
Counting == \A h \in Present : pending[h].count > 0 /\ h \in recent

\* What waits is cooling down, does not run and waits once.
Queued == \A i \in 1..Len(waiting) :
             /\ waiting[i].hash \in recent
             /\ waiting[i].hash \notin Present
             /\ \A j \in 1..Len(waiting) : waiting[j].hash = waiting[i].hash => j = i

IInv == /\ TypeOK
        /\ IsFiniteSet(Present)
        /\ SlotsExact
        /\ NoneWaitsForNothing
        /\ Counting
        /\ Queued
-----------------------------------------------------------------------------
(* About the operators *)

\* There are two sites.
LEMMA TwoSites == Cardinality(Site) = 2
<1>1. Cardinality({"rutracker"}) = 1 /\ IsFiniteSet({"rutracker"})
  BY FS_Singleton
<1>2. {"rutracker"} \cup {"nyaa"} = Site
  BY DEF Site
<1>3. QED
  BY <1>1, <1>2, FS_AddElement

\* An entry that was just made is not None, and well formed.
LEMMA FreshEntry ==
    LET fresh == [count |-> Cardinality(Site), joined |-> {}]
    IN  fresh \in Pending /\ fresh # None /\ fresh.count = 2
BY TwoSites DEF Pending, None

\* Starting scrapes adds entries for their hashes and leaves the others alone.
LEMMA EnteredEntries ==
    ASSUME NEW p \in [Hash -> Pending], NEW scrapes \in SUBSET Scrape
    PROVE  /\ Entered(p, scrapes) \in [Hash -> Pending]
           /\ \A h \in Hash :
                 \/ /\ \E s \in scrapes : s.hash = h
                    /\ Entered(p, scrapes)[h] # None
                    /\ Entered(p, scrapes)[h].count = 2
                 \/ /\ \A s \in scrapes : s.hash # h
                    /\ Entered(p, scrapes)[h] = p[h]
BY FreshEntry DEF Entered

\* As many hashes start as scrapes are taken from the queue.
LEMMA StartedCount ==
    ASSUME NEW n \in Nat, NEW w \in Seq(Scrape), n <= Len(w),
           \A i, j \in 1..Len(w) : w[j].hash = w[i].hash => j = i
    PROVE  LET S == {w[i].hash : i \in 1..n}
           IN  IsFiniteSet(S) /\ Cardinality(S) = n
<1> DEFINE S == {w[i].hash : i \in 1..n}
           f == [i \in 1..n |-> w[i].hash]
<1>1. 1..n \subseteq 1..Len(w)
  BY LenProperties
<1>2. f \in [1..n -> S] /\ \A i, j \in 1..n : f[i] = f[j] => i = j
  BY <1>1
<1>3. \A t \in S : \E i \in 1..n : f[i] = t
  OBVIOUS
<1>4. f \in Bijection(1..n, S)
  BY <1>2, <1>3 DEF Bijection, Injection, Surjection, IsInjective
<1>5. ExistsBijection(1..n, S)
  BY <1>4 DEF ExistsBijection
<1>6. IsFiniteSet(1..n)
  BY FS_Interval
<1>7. QED
  BY <1>5, <1>6, FS_Bijection, FS_CountingElements

-----------------------------------------------------------------------------
(* The invariant *)

LEMMA InitIInv == Init => IInv
<1> SUFFICES ASSUME Init PROVE IInv
  OBVIOUS
<1>1. Present = {}
  BY DEF Init, Present
<1>2. None \in Pending
  BY TwoSites DEF None, Pending
<1>3. TypeOK
  <2>1. waiting \in Seq(Scrape) /\ inbox \in Seq(Result)
    BY DEF Init
  <2>2. active \in 0..MaxConcurrent /\ requested \in 0..MaxScrapes
    BY SiteScraperAssumption DEF Init
  <2>3. pending \in [Hash -> Pending]
    BY <1>2 DEF Init
  <2>4. QED
    BY <2>1, <2>2, <2>3 DEF Init, TypeOK
<1>4. QED
  BY <1>1, <1>3, FS_EmptySet DEF Init, IInv, SlotsExact, NoneWaitsForNothing, Counting, Queued

LEMMA RequestScrapeKeeps ==
    ASSUME IInv, NEW h \in Hash, RequestScrape(h)
    PROVE  IInv'
<1> DEFINE new == [number |-> requested + 1, hash |-> h]
<1>0. /\ TypeOK /\ IsFiniteSet(Present) /\ SlotsExact /\ NoneWaitsForNothing
      /\ Counting /\ Queued
  BY DEF IInv
<1>1. new \in Scrape
  BY <1>0, SiteScraperAssumption DEF RequestScrape, TypeOK, Scrape, Number
<1>2. h \notin Present /\ \A i \in 1..Len(waiting) : waiting[i].hash # h
  BY <1>0 DEF Counting, Queued, RequestScrape
<1>3. CASE Full
  <2>1. waiting' = Append(waiting, new) /\ pending' = pending /\ active' = active
        /\ recent' = recent \cup {h} /\ fetches' = fetches
    BY <1>3 DEF RequestScrape
  <2>2. /\ waiting' \in Seq(Scrape)
        /\ Len(waiting') = Len(waiting) + 1
        /\ \A i \in 1..Len(waiting) : waiting'[i] = waiting[i]
        /\ waiting'[Len(waiting) + 1] = new
    BY <2>1, <1>1, <1>0, AppendProperties DEF TypeOK
  <2>3. TypeOK'
    BY <2>1, <2>2, <1>0, SiteScraperAssumption DEF TypeOK, RequestScrape
  <2>4. Present' = Present
    BY <2>1 DEF Present
  <2>5. NoneWaitsForNothing'
    BY <2>1, <1>3, <1>0, SiteScraperAssumption DEF NoneWaitsForNothing, TypeOK, Full
  <2>6. Counting'
    BY <2>1, <2>4, <1>0 DEF Counting
  <2>7. Queued'
    <3> SUFFICES ASSUME NEW i \in 1..Len(waiting')
                 PROVE  /\ waiting'[i].hash \in recent'
                        /\ waiting'[i].hash \notin Present
                        /\ \A j \in 1..Len(waiting') :
                              waiting'[j].hash = waiting'[i].hash => j = i
      BY <2>4 DEF Queued
    <3>1. Len(waiting) \in Nat
      BY <1>0, LenProperties DEF TypeOK
    <3>2. CASE i = Len(waiting) + 1
      BY <3>1, <3>2, <2>1, <2>2, <1>2, <1>0
    <3>3. CASE i \in 1..Len(waiting)
      BY <3>1, <3>3, <2>1, <2>2, <1>2, <1>0 DEF Queued
    <3>4. QED
      BY <3>1, <3>2, <3>3, <2>2
  <2>8. QED
    BY <2>1, <2>3, <2>4, <2>5, <2>6, <2>7, <1>0 DEF IInv, SlotsExact
<1>4. CASE ~Full
  <2>1. waiting' = waiting /\ pending' = Entered(pending, {new}) /\ active' = active + 1
        /\ recent' = recent \cup {h} /\ fetches' = fetches \cup Requests({new})
    BY <1>4 DEF RequestScrape
  <2>2. /\ pending' \in [Hash -> Pending]
        /\ pending'[h] # None /\ pending'[h].count = 2
        /\ \A k \in Hash \ {h} : pending'[k] = pending[k]
    BY <2>1, <1>1, <1>0, EnteredEntries DEF TypeOK
  <2>3. TypeOK'
    <3>1. Requests({new}) \subseteq Fetch
      BY <1>1 DEF Requests, Fetch
    <3>2. active' \in 0..MaxConcurrent
      BY <2>1, <1>4, <1>0, SiteScraperAssumption DEF TypeOK, Full
    <3>3. requested' \in 0..MaxScrapes /\ recent' \subseteq Hash
      BY <2>1, <1>0, SiteScraperAssumption DEF TypeOK, RequestScrape
    <3>4. UNCHANGED <<alive, stopping, waiting, inbox, finished>>
      BY <2>1 DEF RequestScrape
    <3>5. fetches' \subseteq Fetch
      BY <2>1, <3>1, <1>0 DEF TypeOK
    <3>6. QED
      BY <2>2, <3>2, <3>3, <3>4, <3>5, <1>0 DEF TypeOK
  <2>4. Present' = Present \cup {h}
    BY <2>2 DEF Present
  <2>5. IsFiniteSet(Present') /\ SlotsExact'
    BY <2>4, <2>1, <1>2, <1>0, FS_AddElement DEF SlotsExact
  <2>6. waiting = <<>>
    BY <1>4, <1>0, SiteScraperAssumption DEF NoneWaitsForNothing, Full, TypeOK
  <2>7. Counting'
    <3> SUFFICES ASSUME NEW k \in Present'
                 PROVE  pending'[k].count > 0 /\ k \in recent'
      BY DEF Counting
    <3>1. CASE k = h
      BY <3>1, <2>1, <2>2
    <3>2. CASE k # h
      BY <3>2, <2>1, <2>2, <2>4, <1>0 DEF Counting, Present
    <3>3. QED
      BY <3>1, <3>2
  <2>8. QED
    BY <2>1, <2>3, <2>5, <2>6, <2>7, <1>0 DEF IInv, NoneWaitsForNothing, Queued
<1>5. QED
  BY <1>3, <1>4
LEMMA CooldownKeeps ==
    ASSUME IInv, ~Outlast, NEW h \in Hash, CooldownEnds(h)
    PROVE  IInv'
<1>1. Present' = Present
  BY DEF CooldownEnds, Present
<1>2. QED
  BY <1>1 DEF CooldownEnds, IInv, TypeOK, SlotsExact, NoneWaitsForNothing, Counting,
              Queued, Waits

LEMMA FetchEndsKeeps ==
    ASSUME IInv, NEW f \in fetches, NEW more \in BOOLEAN, FetchEnds(f, more)
    PROVE  IInv'
<1>1. Present' = Present
  BY DEF FetchEnds, Present
<1>2. [fetch |-> f, more |-> more] \in Result
  BY DEF IInv, TypeOK, Result
<1>3. inbox' \in Seq(Result)
  BY <1>2, AppendProperties DEF IInv, TypeOK, FetchEnds
<1>4. TypeOK'
  BY <1>3 DEF IInv, TypeOK, FetchEnds
<1>5. QED
  BY <1>1, <1>4 DEF FetchEnds, IInv, SlotsExact, NoneWaitsForNothing, Counting, Queued

\* What the last result of a scrape does to the slots and to the queue.
LEMMA CompleteKeeps ==
    ASSUME IInv, NEW h \in Present, NEW p,
           p.joined \in SUBSET (Number \X Site),
           CheckAllComplete(h, p),
           UNCHANGED <<alive, stopping, recent, requested>>,
           inbox' \in Seq(Result)
    PROVE  IInv'
<1> DEFINE free == Freed(active)
           n == Drained(MaxConcurrent - free)
           started == {waiting[i] : i \in 1..n}
           S == {waiting[i].hash : i \in 1..n}
           rest == [pending EXCEPT ![h] = None]
           m == Len(waiting)
<1>0. /\ TypeOK /\ IsFiniteSet(Present) /\ SlotsExact /\ NoneWaitsForNothing
      /\ Counting /\ Queued
  BY DEF IInv
<1>1. /\ active' = free + n
      /\ waiting' = SubSeq(waiting, n + 1, m)
      /\ pending' = Entered(rest, started)
      /\ fetches' = fetches \cup Requests(started)
      /\ finished' = finished \cup {p.joined}
  BY DEF CheckAllComplete
<1>2. m \in Nat /\ \A i \in 1..m : waiting[i] \in Scrape
  BY <1>0, LenProperties, ElementOfSeq DEF TypeOK
<1>3. h \in Hash
  BY DEF Present
<1>4. /\ IsFiniteSet(Present \ {h})
      /\ Cardinality(Present \ {h}) = active - 1
      /\ active > 0
  <2>1. Cardinality(Present \ {h}) = active - 1 /\ IsFiniteSet(Present \ {h})
    BY <1>0, FS_RemoveElement DEF SlotsExact
  <2>2. Cardinality(Present \ {h}) \in Nat
    BY <2>1, FS_CardinalityType
  <2>3. QED
    BY <2>1, <2>2, <1>0, SiteScraperAssumption DEF TypeOK
<1>5. free = active - 1 /\ free \in 0..MaxConcurrent - 1
  BY <1>4, <1>0, SiteScraperAssumption DEF Freed, TypeOK
<1>6. /\ n \in Nat /\ n <= m /\ n <= MaxConcurrent - free
      /\ n = m \/ n = MaxConcurrent - free
  BY <1>2, <1>5, SiteScraperAssumption DEF Drained, Least
<1> HIDE DEF n, free
<1>7. started \in SUBSET Scrape
  BY <1>2, <1>6
<1>8. IsFiniteSet(S) /\ Cardinality(S) = n
  BY <1>0, <1>6, StartedCount DEF Queued, TypeOK
<1>9. rest \in [Hash -> Pending] /\ rest[h] = None /\ \A k \in Hash \ {h} : rest[k] = pending[k]
  <2>1. None \in Pending
    BY TwoSites DEF None, Pending
  <2>2. QED
    BY <2>1, <1>0, <1>3 DEF TypeOK
<1> HIDE DEF rest
<1>10. \A k \in Hash : (\E s \in started : s.hash = k) <=> k \in S
  OBVIOUS
<1>11. S \subseteq Hash /\ S \cap Present = {}
  BY <1>2, <1>6, <1>0 DEF Queued, Scrape
<1> HIDE DEF started, S
<1>12. /\ pending' \in [Hash -> Pending]
       /\ \A k \in S : pending'[k] # None /\ pending'[k].count = 2
       /\ \A k \in Hash \ S : pending'[k] = rest[k]
  BY <1>1, <1>7, <1>9, <1>10, <1>11, EnteredEntries
<1>13. Present' = (Present \ {h}) \cup S
  BY <1>3, <1>9, <1>11, <1>12 DEF Present
<1>14. IsFiniteSet(Present') /\ SlotsExact'
  <2>1. (Present \ {h}) \cap S = {}
    BY <1>11
  <2>2. /\ IsFiniteSet(Present')
        /\ Cardinality(Present') = Cardinality(Present \ {h}) + Cardinality(S) - Cardinality({})
    <3> DEFINE X == Present \ {h}
    <3>1. IsFiniteSet(X) /\ IsFiniteSet(S)
      BY <1>4, <1>8
    <3>2. X \cap S = {} /\ Present' = X \cup S
      BY <2>1, <1>13
    <3> HIDE DEF X
    <3>3. IsFiniteSet(X \cup S)
          /\ Cardinality(X \cup S) = Cardinality(X) + Cardinality(S) - Cardinality(X \cap S)
      BY <3>1, FS_Union
    <3>4. QED
      BY <3>2, <3>3 DEF X
  <2>3. QED
    BY <2>2, <1>1, <1>4, <1>5, <1>6, <1>8, FS_EmptySet DEF SlotsExact
<1>15. /\ waiting' \in Seq(Scrape)
       /\ Len(waiting') = m - n
       /\ \A i \in 1..m - n : waiting'[i] = waiting[n + i]
  <2>1. \A i \in n + 1..m : waiting[i] \in Scrape
    BY <1>2, <1>6
  <2>2. /\ SubSeq(waiting, n + 1, m) \in Seq(Scrape)
        /\ Len(SubSeq(waiting, n + 1, m)) = IF n + 1 <= m THEN m - (n + 1) + 1 ELSE 0
        /\ \A i \in 1..m - (n + 1) + 1 :
              SubSeq(waiting, n + 1, m)[i] = waiting[n + 1 + i - 1]
    BY <2>1, <1>2, <1>6, SubSeqProperties
  <2> HIDE DEF m
  <2>3. QED
    BY <2>2, <1>1, <1>2, <1>6
<1>16. TypeOK'
  <2>1. active' \in 0..MaxConcurrent
    BY <1>1, <1>5, <1>6, SiteScraperAssumption
  <2>2. fetches' \subseteq Fetch
    BY <1>1, <1>7, <1>0 DEF Requests, Fetch, TypeOK
  <2>3. finished' \subseteq SUBSET (Number \X Site)
    BY <1>1, <1>0 DEF TypeOK
  <2>4. QED
    BY <2>1, <2>2, <2>3, <1>12, <1>15, <1>0 DEF TypeOK
<1>17. NoneWaitsForNothing'
  <2>1. waiting' # <<>> => m - n # 0
    BY <1>15, EmptySeq
  <2>2. QED
    BY <2>1, <1>1, <1>5, <1>6, SiteScraperAssumption DEF NoneWaitsForNothing
<1>18. Counting'
  <2> SUFFICES ASSUME NEW k \in Present'
               PROVE  pending'[k].count > 0 /\ k \in recent
    BY DEF Counting
  <2>1. CASE k \in S
    <3>1. k \in recent
      BY <2>1, <1>0, <1>6, <1>2 DEF S, Queued
    <3>2. QED
      BY <2>1, <3>1, <1>12
  <2>2. CASE k \in Present \ {h} /\ k \notin S
    BY <2>2, <1>0, <1>9, <1>12 DEF Counting, Present
  <2>3. QED
    BY <2>1, <2>2, <1>13
<1>19. Queued'
  <2> SUFFICES ASSUME NEW i \in 1..Len(waiting')
               PROVE  /\ waiting'[i].hash \in recent
                      /\ waiting'[i].hash \notin Present'
                      /\ \A j \in 1..Len(waiting') :
                            waiting'[j].hash = waiting'[i].hash => j = i
    BY DEF Queued
  <2>1. n + i \in 1..m /\ waiting'[i] = waiting[n + i]
    BY <1>2, <1>6, <1>15
  <2>2. waiting[n + i].hash \notin S
    <3>1. ASSUME NEW j \in 1..n PROVE waiting[j].hash # waiting[n + i].hash
      <4>1. j \in 1..m /\ j # n + i
        BY <1>2, <1>6, <1>15
      <4>2. QED
        BY <4>1, <2>1, <1>0 DEF Queued
    <3>2. QED
      BY <3>1 DEF S
  <2>3. \A j \in 1..Len(waiting') : n + j \in 1..m /\ waiting'[j] = waiting[n + j]
    BY <1>2, <1>6, <1>15
  <2>4. \A j \in 1..Len(waiting') : waiting'[j].hash = waiting'[i].hash => n + j = n + i
    BY <2>1, <2>3, <1>0 DEF Queued
  <2>5. QED
    BY <2>1, <2>2, <2>4, <1>6, <1>13, <1>15, <1>2, <1>0 DEF Queued
<1>20. QED
  BY <1>14, <1>16, <1>17, <1>18, <1>19 DEF IInv
LEMMA ApplyResultKeeps ==
    ASSUME IInv, ApplyResult
    PROVE  IInv'
<1> DEFINE r == Head(inbox)
           h == r.fetch.scrape.hash
           p == Joined(pending[h], r)
<1>1. r \in Result /\ inbox' \in Seq(Result)
  BY HeadTailProperties DEF ApplyResult, IInv, TypeOK
<1>2. UNCHANGED <<alive, stopping, recent, requested>>
  BY DEF ApplyResult
<1>3. CASE r.more
  <2>1. UNCHANGED <<active, waiting, pending, finished>> /\ fetches' = fetches \cup ViewPage(r.fetch)
    BY <1>3 DEF ApplyResult
  <2>2. ViewPage(r.fetch) \subseteq Fetch
    BY <1>1 DEF Result, Fetch, ViewPage
  <2>3. Present' = Present
    BY <2>1 DEF Present
  <2>4. QED
    BY <1>1, <1>2, <2>1, <2>2, <2>3
    DEF IInv, TypeOK, SlotsExact, NoneWaitsForNothing, Counting, Queued
<1>4. CASE ~r.more /\ h \notin Present
  <2>1. UNCHANGED <<active, waiting, pending, fetches, finished>>
    BY <1>4 DEF ApplyResult, OnStrategyComplete
  <2>2. Present' = Present
    BY <2>1 DEF Present
  <2>3. QED
    BY <1>1, <1>2, <2>1, <2>2
    DEF IInv, TypeOK, SlotsExact, NoneWaitsForNothing, Counting, Queued
<1>5. CASE ~r.more /\ h \in Present
  <2>1. /\ pending[h] \in Pending /\ pending[h].count > 0 /\ h \in Hash
        /\ pending \in [Hash -> Pending]
    BY <1>5 DEF IInv, TypeOK, Counting, Present
  <2>2. p.count = pending[h].count - 1 /\ p.joined \in SUBSET (Number \X Site)
    BY <2>1, <1>1 DEF Joined, Pending, Result, Fetch, Scrape
  <2>3. CASE p.count > 0
    <3>1. pending' = [pending EXCEPT ![h] = p] /\ UNCHANGED <<active, waiting, fetches, finished>>
      BY <1>5, <2>3 DEF ApplyResult, OnStrategyComplete
    <3>2. p \in Pending /\ p # None
      BY <2>1, <2>2, <2>3, TwoSites DEF Joined, Pending, None
    <3> HIDE DEF p
    <3>3. pending' \in [Hash -> Pending] /\ pending'[h] = p /\ \A k \in Hash \ {h} : pending'[k] = pending[k]
      BY <3>1, <3>2, <2>1
    <3>4. Present' = Present
      BY <3>2, <3>3, <1>5, <2>1 DEF Present
    <3>5. Counting'
      <4> SUFFICES ASSUME NEW k \in Present
                   PROVE  pending'[k].count > 0 /\ k \in recent'
        BY <3>4 DEF Counting
      <4>1. k \in recent'
        BY <1>2 DEF IInv, Counting
      <4>2. pending'[k].count > 0
        <5>1. CASE k = h
          BY <5>1, <3>3, <2>3
        <5>2. CASE k # h
          BY <5>2, <3>3 DEF IInv, Counting, Present
        <5>3. QED
          BY <5>1, <5>2
      <4>3. QED
        BY <4>1, <4>2
    <3>6. QED
      BY <1>1, <1>2, <3>1, <3>3, <3>4, <3>5
      DEF IInv, TypeOK, SlotsExact, NoneWaitsForNothing, Queued
  <2>4. CASE ~(p.count > 0)
    <3>1. CheckAllComplete(h, p)
      BY <1>5, <2>4 DEF ApplyResult, OnStrategyComplete
    <3> HIDE DEF p, h
    <3>2. QED
      BY <3>1, <1>1, <1>2, <1>5, <2>2, CompleteKeeps
  <2>5. QED
    BY <2>3, <2>4
<1>6. QED
  BY <1>3, <1>4, <1>5

LEMMA EndKeeps ==
    ASSUME IInv, LoopEnds \/ Stop \/ UNCHANGED vars
    PROVE  IInv'
<1>1. Present' = Present
  BY DEF LoopEnds, Stop, vars, Present
<1>2. CASE LoopEnds
  BY <1>1, <1>2 DEF LoopEnds, IInv, TypeOK, SlotsExact, NoneWaitsForNothing, Counting, Queued
<1>3. CASE Stop
  <2>1. TypeOK'
    <3>1. waiting' \in Seq(Scrape)
      BY <1>3 DEF Stop
    <3>2. QED
      BY <1>3, <3>1 DEF Stop, IInv, TypeOK
  <2>2. waiting' = <<>> /\ Len(waiting') = 0
    BY <1>3 DEF Stop
  <2>3. NoneWaitsForNothing' /\ Queued'
    BY <2>2 DEF NoneWaitsForNothing, Queued
  <2>4. QED
    BY <1>1, <1>3, <2>1, <2>3 DEF Stop, IInv, SlotsExact, Counting
<1>4. CASE UNCHANGED vars
  BY <1>1, <1>4 DEF vars, IInv, TypeOK, SlotsExact, NoneWaitsForNothing, Counting, Queued
<1>5. QED
  BY <1>2, <1>3, <1>4

\* No scrape is still waiting when its hash has cooled down (Outlast = FALSE). With such
\* scrapes the theorems do not hold: see the finding of SiteScraperLeak.cfg.
LEMMA NextKeeps == ASSUME ~Outlast, IInv, [Next]_vars PROVE IInv'
<1>1. CASE \E h \in Hash : RequestScrape(h)
  BY <1>1, RequestScrapeKeeps
<1>2. CASE \E h \in Hash : CooldownEnds(h)
  BY <1>2, CooldownKeeps
<1>3. CASE AnyFetchEnds
  BY <1>3, FetchEndsKeeps DEF AnyFetchEnds
<1>4. CASE ApplyResult
  BY <1>4, ApplyResultKeeps
<1>5. CASE LoopEnds \/ Stop \/ UNCHANGED vars
  BY <1>5, EndKeeps
<1>6. QED
  BY <1>1, <1>2, <1>3, <1>4, <1>5 DEF Next

THEOREM InvariantHolds == ASSUME ~Outlast PROVE Spec => []IInv
BY InitIInv, NextKeeps, PTL DEF Spec

\* The state of the scraper is well typed, and at most MaxConcurrent slots are taken.
THEOREM TypeCorrect == ASSUME ~Outlast PROVE Spec => []TypeOK
<1>1. IInv => TypeOK
  BY DEF IInv
<1>2. QED
  BY <1>1, InvariantHolds, PTL

\* As many slots are taken as there are entries in pendingScrapes_.
THEOREM SlotsExactHolds == ASSUME ~Outlast PROVE Spec => []SlotsExact
<1>1. IInv => SlotsExact
  BY DEF IInv
<1>2. QED
  BY <1>1, InvariantHolds, PTL

\* Whatever waits, waits because every slot is taken.
THEOREM NoneWaitsForNothingHolds == ASSUME ~Outlast PROVE Spec => []NoneWaitsForNothing
<1>1. IInv => NoneWaitsForNothing
  BY DEF IInv
<1>2. QED
  BY <1>1, InvariantHolds, PTL

\* Both: no slot is leaked or given back twice, and none is free while a scrape waits
\* (site_scraper.cpp).
THEOREM SlotsRightHolds == ASSUME ~Outlast PROVE Spec => []SlotsRight
<1>1. QED
  BY SlotsExactHolds, NoneWaitsForNothingHolds, PTL DEF SlotsRight
-----------------------------------------------------------------------------
(* Results and entries. What is under way for a hash, asked for or answered *)
(* and not applied, belongs to the scrape its entry was made for, once for  *)
(* each site that has not been joined yet: so the last result leaves none   *)
(* behind, and the entry is closed with both sites of that scrape.          *)

\* Requests in the pool, and those whose result has not been applied.
UnderWay(F, box) == F \cup {box[i].fetch : i \in 1..Len(box)}

SameSite(f, g) == f.scrape.hash = g.scrape.hash /\ f.site = g.site

\* A site of a scrape is under way at most once.
Once(F, box) ==
    /\ \A f, g \in F : SameSite(f, g) => f = g
    /\ \A f \in F, i \in 1..Len(box) : ~SameSite(f, box[i].fetch)
    /\ \A i, j \in 1..Len(box) : SameSite(box[i].fetch, box[j].fetch) => i = j

\* Entry e is that of scrape n: what it was given is scrape n's, and what is under
\* way for its hash is scrape n's and of another site.
Own(e, n, U, h) ==
    /\ \/ e.count = 2 /\ e.joined = {}
       \/ e.count = 1 /\ \E s \in Site : e.joined = {<<n, s>>}
    /\ \A f \in U : f.scrape.hash = h => f.scrape.number = n /\ <<n, f.site>> \notin e.joined

Joins(p, U) ==
    /\ \A f \in U : p[f.scrape.hash] # None
    /\ \A h \in Hash : p[h] # None => \E n \in Number : Own(p[h], n, U, h)

JoinInv == /\ Once(fetches, inbox)
           /\ Joins(pending, UnderWay(fetches, inbox))
           /\ ClosedByItsOwn

\* Starting scrapes of hashes that have no entry: their requests are the only ones.
LEMMA StartJoins ==
    ASSUME NEW p \in [Hash -> Pending], NEW F \in SUBSET Fetch, NEW box \in Seq(Result),
           NEW S \in SUBSET Scrape, \A s \in S : p[s.hash] = None,
           \A s, t \in S : s.hash = t.hash => s = t,
           Once(F, box), Joins(p, UnderWay(F, box))
    PROVE  /\ Once(F \cup Requests(S), box)
           /\ Joins(Entered(p, S), UnderWay(F \cup Requests(S), box))
<1> DEFINE R == Requests(S)
           U == UnderWay(F, box)
           q == Entered(p, S)
<1>1. \A f \in R : f \in Fetch /\ f.scrape \in S /\ f.view = FALSE
  BY DEF Requests, Fetch
<1>2. \A f, g \in R : SameSite(f, g) => f = g
  <2> SUFFICES ASSUME NEW f \in R, NEW g \in R, SameSite(f, g) PROVE f = g
    OBVIOUS
  <2>1. f.scrape = g.scrape /\ f.site = g.site /\ f.view = g.view
    BY <1>1 DEF SameSite
  <2>2. f \in Fetch /\ g \in Fetch
    BY <1>1
  <2> QED
    BY <2>1, <2>2 DEF Fetch
<1>3. \A f \in U, g \in R : f.scrape.hash # g.scrape.hash
  BY <1>1 DEF Joins
<1>4. \A i \in 1..Len(box) : box[i].fetch \in U
  BY DEF UnderWay
<1>5. Once(F \cup R, box)
  BY <1>2, <1>3, <1>4 DEF Once, SameSite, UnderWay
<1>6. UnderWay(F \cup R, box) = U \cup R
  BY DEF UnderWay
<1>7. \A i \in 1..Len(box) : box[i] \in Result
  BY ElementOfSeq, LenProperties
<1>8. \A f \in U \cup R : f \in Fetch /\ f.scrape.hash \in Hash
  BY <1>1, <1>7 DEF UnderWay, Result, Fetch, Scrape
<1>9. \A h \in Hash :
         \/ \E s \in S : s.hash = h /\ q[h].count = 2 /\ q[h].joined = {} /\ q[h] # None
         \/ (\A s \in S : s.hash # h) /\ q[h] = p[h]
  BY FreshEntry, TwoSites DEF Entered
<1> HIDE DEF R, U, q
<1>10. Joins(q, U \cup R)
  <2>1. \A f \in U \cup R : q[f.scrape.hash] # None
    <3> SUFFICES ASSUME NEW f \in U \cup R, q[f.scrape.hash] = None PROVE FALSE
      OBVIOUS
    <3>1. f.scrape.hash \in Hash
      BY <1>8
    <3>2. (\A s \in S : s.hash # f.scrape.hash) /\ p[f.scrape.hash] = None
      BY <1>9, <3>1
    <3>3. f \in U
      BY <1>1, <3>2
    <3> QED
      BY <3>2, <3>3 DEF Joins, U
  <2>2. ASSUME NEW h \in Hash, q[h] # None PROVE \E n \in Number : Own(q[h], n, U \cup R, h)
    <3>1. CASE \E s \in S : s.hash = h /\ q[h].count = 2 /\ q[h].joined = {}
      <4>1. PICK s \in S : s.hash = h /\ q[h].count = 2 /\ q[h].joined = {}
        BY <3>1
      <4>2. s.number \in Number
        BY DEF Scrape
      <4>3. \A f \in U \cup R : f.scrape.hash = h => f.scrape.number = s.number
        <5> SUFFICES ASSUME NEW f \in U \cup R, f.scrape.hash = h PROVE f.scrape = s
          OBVIOUS
        <5>1. f \in R
          BY <4>1 DEF Joins, U
        <5> QED
          BY <1>1, <4>1, <5>1
      <4> QED
        BY <4>1, <4>2, <4>3 DEF Own
    <3>2. CASE (\A s \in S : s.hash # h) /\ q[h] = p[h]
      <4>1. PICK n \in Number : Own(p[h], n, U, h)
        BY <2>2, <3>2 DEF Joins, U
      <4>2. \A f \in R : f.scrape.hash # h
        BY <1>1, <3>2
      <4> QED
        BY <3>2, <4>1, <4>2 DEF Own
    <3> QED
      BY <1>9, <3>1, <3>2
  <2> QED
    BY <2>1, <2>2 DEF Joins
<1> QED
  BY <1>5, <1>6, <1>10 DEF R, q

\* A result that is taken from the loop's queue is no more under way; nothing else of
\* its site is.
LEMMA TakenOnce ==
    ASSUME NEW F \in SUBSET Fetch, NEW box \in Seq(Result), box # <<>>, Once(F, box)
    PROVE  /\ Once(F, Tail(box))
           /\ Head(box).fetch \in UnderWay(F, box)
           /\ UnderWay(F, Tail(box)) \subseteq UnderWay(F, box)
           /\ \A f \in UnderWay(F, Tail(box)) : ~SameSite(f, Head(box).fetch)
<1> DEFINE rest == Tail(box)
<1>1. /\ Len(box) \in Nat /\ Len(box) >= 1 /\ Len(rest) = Len(box) - 1
      /\ \A i \in 1..Len(rest) : rest[i] = box[i + 1]
      /\ Head(box) = box[1]
  BY HeadTailProperties, LenProperties, EmptySeq
<1> HIDE DEF rest
<1>2. \A i \in 1..Len(rest) : i + 1 \in 1..Len(box) /\ i + 1 # 1
  BY <1>1
<1>3. 1 \in 1..Len(box)
  BY <1>1
<1>4. UnderWay(F, rest) \subseteq UnderWay(F, box)
  BY <1>1, <1>2 DEF UnderWay
<1>5. \A f \in UnderWay(F, rest) : ~SameSite(f, box[1].fetch)
  <2> SUFFICES ASSUME NEW f \in UnderWay(F, rest) PROVE ~SameSite(f, box[1].fetch)
    OBVIOUS
  <2>1. CASE f \in F
    BY <1>3, <2>1 DEF Once
  <2>2. CASE \E i \in 1..Len(rest) : f = rest[i].fetch
    BY <1>1, <1>2, <1>3, <2>2 DEF Once
  <2> QED
    BY <2>1, <2>2 DEF UnderWay
<1>6. Once(F, rest)
  <2>1. \A i, j \in 1..Len(rest) : SameSite(rest[i].fetch, rest[j].fetch) => i = j
    <3> SUFFICES ASSUME NEW i \in 1..Len(rest), NEW j \in 1..Len(rest),
                        SameSite(rest[i].fetch, rest[j].fetch)
                 PROVE  i = j
      OBVIOUS
    <3>1. i + 1 = j + 1
      BY <1>1, <1>2 DEF Once
    <3> QED
      BY <3>1
  <2>2. \A f \in F, i \in 1..Len(rest) : ~SameSite(f, rest[i].fetch)
    BY <1>1, <1>2 DEF Once
  <2> QED
    BY <2>1, <2>2 DEF Once
<1> QED
  BY <1>1, <1>3, <1>4, <1>5, <1>6 DEF UnderWay, rest

\* The result of a search that leads to a page: the page takes its place.
LEMMA ViewJoins ==
    ASSUME NEW p, NEW F \in SUBSET Fetch, NEW box \in Seq(Result), box # <<>>,
           Once(F, box), Joins(p, UnderWay(F, box))
    PROVE  /\ Once(F \cup ViewPage(Head(box).fetch), Tail(box))
           /\ Joins(p, UnderWay(F \cup ViewPage(Head(box).fetch), Tail(box)))
<1> DEFINE f == Head(box).fetch
           v == [f EXCEPT !.view = TRUE]
           rest == Tail(box)
<1>1. f \in Fetch
  <2>1. Head(box) \in Result
    BY HeadTailProperties
  <2> QED
    BY <2>1 DEF Result
<1>2. v.scrape = f.scrape /\ v.site = f.site
  BY <1>1 DEF Fetch
<1>3. /\ Once(F, rest) /\ f \in UnderWay(F, box)
      /\ UnderWay(F, rest) \subseteq UnderWay(F, box)
      /\ \A g \in UnderWay(F, rest) : ~SameSite(g, f)
  BY TakenOnce
<1>4. ViewPage(f) = {v}
  BY DEF ViewPage
<1> HIDE DEF v, rest, f
<1>5. UnderWay(F \cup {v}, rest) = UnderWay(F, rest) \cup {v}
  BY DEF UnderWay
<1>6. \A i \in 1..Len(rest) : rest[i].fetch \in UnderWay(F, rest)
  BY DEF UnderWay
<1>7. Once(F \cup {v}, rest)
  <2>1. \A g \in F : g \in UnderWay(F, rest)
    BY DEF UnderWay
  <2>2. \A g \in UnderWay(F, rest) : ~SameSite(g, v) /\ ~SameSite(v, g)
    BY <1>2, <1>3 DEF SameSite
  <2> QED
    BY <1>3, <1>6, <2>1, <2>2 DEF Once
<1>8. Joins(p, UnderWay(F, rest) \cup {v})
  <2>1. \A g \in UnderWay(F, rest) \cup {v} : p[g.scrape.hash] # None
    BY <1>2, <1>3 DEF Joins
  <2>2. ASSUME NEW h \in Hash, p[h] # None
        PROVE  \E n \in Number : Own(p[h], n, UnderWay(F, rest) \cup {v}, h)
    <3>1. PICK n \in Number : Own(p[h], n, UnderWay(F, box), h)
      BY <2>2 DEF Joins
    <3>2. Own(p[h], n, UnderWay(F, rest) \cup {v}, h)
      BY <1>2, <1>3, <3>1 DEF Own
    <3> QED
      BY <3>2
  <2> QED
    BY <2>1, <2>2 DEF Joins
<1> QED
  BY <1>4, <1>5, <1>7, <1>8 DEF f, rest

\* Entry e of h in p, given one more result, stays, or has both and is erased.
Closes(p, U, h, e) ==
    /\ e.count > 0 => Joins([p EXCEPT ![h] = e], U)
    /\ ~(e.count > 0) => /\ \E n \in Number : e.joined = {n} \X Site
                         /\ Joins([p EXCEPT ![h] = None], U)

\* A last result of a site: it joins its own scrape's entry, and when both sites have,
\* nothing of that hash is under way.
LEMMA JoinedJoins ==
    ASSUME NEW p \in [Hash -> Pending], NEW F \in SUBSET Fetch, NEW box \in Seq(Result),
           box # <<>>, Once(F, box), Joins(p, UnderWay(F, box)),
           NEW r, NEW h, NEW e,
           r = Head(box), h = r.fetch.scrape.hash, e = Joined(p[h], r)
    PROVE  /\ h \in Hash /\ p[h] # None /\ Once(F, Tail(box))
           /\ Closes(p, UnderWay(F, Tail(box)), h, e)
<1> DEFINE U == UnderWay(F, Tail(box))
           f == r.fetch
<1>1. r \in Result /\ f \in Fetch /\ f.scrape \in Scrape /\ h \in Hash /\ f.site \in Site
  <2>1. r \in Result
    BY HeadTailProperties
  <2>2. f \in Fetch
    BY <2>1 DEF Result
  <2> QED
    BY <2>1, <2>2 DEF Fetch, Scrape
<1>2. /\ Once(F, Tail(box)) /\ f \in UnderWay(F, box)
      /\ U \subseteq UnderWay(F, box)
      /\ \A g \in U : ~SameSite(g, f)
  BY TakenOnce
<1>3. p[h] # None
  BY <1>2 DEF Joins
<1>4. PICK n \in Number : Own(p[h], n, UnderWay(F, box), h)
  BY <1>1, <1>3 DEF Joins
<1>5. f.scrape.number = n /\ <<n, f.site>> \notin p[h].joined
  BY <1>2, <1>4 DEF Own
<1>6. e.count = p[h].count - 1 /\ e.joined = p[h].joined \cup {<<n, f.site>>}
  BY <1>5 DEF Joined
<1>7. \A g \in U : p[g.scrape.hash] # None
  BY <1>2 DEF Joins
<1>8. \A k \in Hash \ {h} : p[k] # None => \E m \in Number : Own(p[k], m, U, k)
  <2> SUFFICES ASSUME NEW k \in Hash \ {h}, p[k] # None
               PROVE  \E m \in Number : Own(p[k], m, U, k)
    OBVIOUS
  <2>1. PICK m \in Number : Own(p[k], m, UnderWay(F, box), k)
    BY DEF Joins
  <2>2. Own(p[k], m, U, k)
    BY <1>2, <2>1 DEF Own
  <2> QED
    BY <2>2
<1>9. \A g \in U : g \in Fetch /\ g.scrape.hash \in Hash /\ g.site \in Site
  <2>1. \A i \in 1..Len(box) : box[i] \in Result
    BY ElementOfSeq, LenProperties
  <2>2. UnderWay(F, box) \subseteq Fetch
    BY <2>1 DEF UnderWay, Result
  <2> QED
    BY <1>2, <2>2 DEF Fetch, Scrape
<1>10. \A g \in U : g.scrape.hash = h => /\ g.scrape.number = n /\ g.site # f.site
                                         /\ <<n, g.site>> \notin p[h].joined
  BY <1>2, <1>4 DEF Own, SameSite
<1> HIDE DEF U, f
<1>11. ASSUME NEW w, w # None, Own(w, n, U, h) PROVE Joins([p EXCEPT ![h] = w], U)
  <2>1. \A k \in Hash : [p EXCEPT ![h] = w][k] = IF k = h THEN w ELSE p[k]
    BY <1>1
  <2> QED
    BY <1>7, <1>8, <1>9, <1>11, <2>1 DEF Joins
<1>12. CASE p[h].count = 2 /\ p[h].joined = {}
  <2>1. e.count = 1 /\ e.joined = {<<n, f.site>>}
    BY <1>6, <1>12
  <2>2. \A g \in U : g.scrape.hash = h => <<n, g.site>> \notin e.joined
    BY <1>10, <2>1
  <2>3. Own(e, n, U, h)
    BY <1>1, <1>10, <2>1, <2>2 DEF Own
  <2>4. e # None
    BY <2>1 DEF None
  <2> QED
    <3>1. e.count > 0
      BY <2>1
    <3>2. Joins([p EXCEPT ![h] = e], U)
      BY <1>11, <2>3, <2>4
    <3> QED
      BY <1>1, <1>2, <1>3, <3>1, <3>2 DEF U, Closes
<1>13. CASE p[h].count = 1 /\ \E s \in Site : p[h].joined = {<<n, s>>}
  <2>1. PICK s \in Site : p[h].joined = {<<n, s>>}
    BY <1>13
  <2>2. s # f.site
    BY <1>5, <2>1
  <2>3. Site = {s, f.site}
    BY <1>1, <2>2 DEF Site
  <2>4. e.count = 0 /\ e.joined = {<<n, s>>, <<n, f.site>>}
    <3>1. e.count = 0
      BY <1>6, <1>13
    <3>2. e.joined = {<<n, s>>} \cup {<<n, f.site>>}
      BY <1>6, <2>1
    <3> QED
      BY <3>1, <3>2
  <2>5. e.joined = {n} \X Site
    BY <2>3, <2>4
  <2>6. \A g \in U : g.scrape.hash # h
    BY <1>9, <1>10, <2>1, <2>3
  <2>7. Joins([p EXCEPT ![h] = None], U)
    <3>1. \A k \in Hash : [p EXCEPT ![h] = None][k] = IF k = h THEN None ELSE p[k]
      BY <1>1
    <3> QED
      BY <1>7, <1>8, <1>9, <2>6, <3>1 DEF Joins
  <2> QED
    <3>1. ~(e.count > 0)
      BY <2>4
    <3> QED
      BY <1>1, <1>2, <1>3, <3>1, <2>5, <2>7 DEF U, Closes
<1> QED
  BY <1>4, <1>12, <1>13 DEF Own
\* A request that ends: it is under way as a result.
LEMMA EndedJoins ==
    ASSUME NEW F \in SUBSET Fetch, NEW box \in Seq(Result), NEW f \in F,
           NEW r \in Result, r.fetch = f, Once(F, box)
    PROVE  /\ Once(F \ {f}, Append(box, r))
           /\ UnderWay(F \ {f}, Append(box, r)) = UnderWay(F, box)
<1> DEFINE more == Append(box, r)
<1>1. /\ Len(box) \in Nat /\ Len(more) = Len(box) + 1
      /\ \A i \in 1..Len(box) : more[i] = box[i]
      /\ more[Len(box) + 1] = r
  BY AppendProperties, LenProperties
<1> HIDE DEF more
<1>2. \A i \in 1..Len(more) : i \in 1..Len(box) \/ i = Len(box) + 1
  BY <1>1
<1>3. UnderWay(F \ {f}, more) = UnderWay(F, box)
  <2>1. ASSUME NEW g \in UnderWay(F \ {f}, more) PROVE g \in UnderWay(F, box)
    <3>1. CASE \E i \in 1..Len(more) : g = more[i].fetch
      <4>1. PICK i \in 1..Len(more) : g = more[i].fetch
        BY <3>1
      <4>2. CASE i \in 1..Len(box)
        BY <1>1, <4>1, <4>2 DEF UnderWay
      <4>3. CASE i = Len(box) + 1
        BY <1>1, <4>1, <4>3 DEF UnderWay
      <4> QED
        BY <1>2, <4>2, <4>3
    <3>2. CASE g \in F
      BY <3>2 DEF UnderWay
    <3> QED
      BY <2>1, <3>1, <3>2 DEF UnderWay
  <2>2. ASSUME NEW g \in UnderWay(F, box) PROVE g \in UnderWay(F \ {f}, more)
    <3>1. CASE g \in F \ {f}
      BY <3>1 DEF UnderWay
    <3>2. CASE g = f
      <4>1. Len(box) + 1 \in 1..Len(more) /\ g = more[Len(box) + 1].fetch
        BY <1>1, <3>2
      <4> QED
        BY <4>1 DEF UnderWay
    <3>3. CASE \E i \in 1..Len(box) : g = box[i].fetch
      <4>1. PICK i \in 1..Len(box) : g = box[i].fetch
        BY <3>3
      <4>2. i \in 1..Len(more) /\ g = more[i].fetch
        BY <1>1, <4>1
      <4> QED
        BY <4>2 DEF UnderWay
    <3> QED
      BY <2>2, <3>1, <3>2, <3>3 DEF UnderWay
  <2> QED
    BY <2>1, <2>2
<1>4. Once(F \ {f}, more)
  <2>1. \A g \in F \ {f}, i \in 1..Len(more) : ~SameSite(g, more[i].fetch)
    <3> SUFFICES ASSUME NEW g \in F \ {f}, NEW i \in 1..Len(more), SameSite(g, more[i].fetch)
                 PROVE  FALSE
      OBVIOUS
    <3>1. CASE i \in 1..Len(box)
      BY <1>1, <3>1 DEF Once
    <3>2. CASE i = Len(box) + 1
      BY <1>1, <3>2 DEF Once
    <3> QED
      BY <1>2, <3>1, <3>2
  <2>2. ASSUME NEW i \in 1..Len(more), NEW j \in 1..Len(more),
               SameSite(more[i].fetch, more[j].fetch)
        PROVE  i = j
    <3>1. CASE i \in 1..Len(box) /\ j \in 1..Len(box)
      BY <1>1, <2>2, <3>1 DEF Once
    <3>2. CASE i \in 1..Len(box) /\ j = Len(box) + 1
      BY <1>1, <2>2, <3>2 DEF Once, SameSite
    <3>3. CASE i = Len(box) + 1 /\ j \in 1..Len(box)
      BY <1>1, <2>2, <3>3 DEF Once
    <3> QED
      BY <1>2, <3>1, <3>2, <3>3
  <2> QED
    BY <2>1, <2>2 DEF Once
<1> QED
  BY <1>3, <1>4 DEF more

LEMMA InitJoins == Init => JoinInv
<1> SUFFICES ASSUME Init PROVE JoinInv
  OBVIOUS
<1>1. fetches = {} /\ Len(inbox) = 0 /\ UnderWay(fetches, inbox) = {}
  BY DEF Init, UnderWay
<1>2. \A h \in Hash : pending[h] = None
  BY DEF Init
<1> QED
  BY <1>1, <1>2 DEF Init, JoinInv, Once, Joins, ClosedByItsOwn

\* scrape(): a hash that was not checked recently has no entry.
LEMMA RequestJoins ==
    ASSUME IInv, JoinInv, NEW h \in Hash, RequestScrape(h)
    PROVE  JoinInv'
<1> DEFINE new == [number |-> requested + 1, hash |-> h]
<1>1. new \in Scrape /\ new.hash = h
  BY SiteScraperAssumption DEF IInv, RequestScrape, TypeOK, Scrape, Number
<1>2. UNCHANGED <<inbox, finished>>
  BY DEF RequestScrape
<1>3. CASE Full
  <2>1. UNCHANGED <<pending, fetches>>
    BY <1>3 DEF RequestScrape
  <2> QED
    BY <1>2, <2>1 DEF JoinInv, ClosedByItsOwn
<1>4. CASE ~Full
  <2>1. pending' = Entered(pending, {new}) /\ fetches' = fetches \cup Requests({new})
    BY <1>4 DEF RequestScrape
  <2>2. pending[h] = None
    BY DEF IInv, Counting, Present, RequestScrape
  <2>3. pending \in [Hash -> Pending] /\ fetches \in SUBSET Fetch /\ inbox \in Seq(Result)
    BY DEF IInv, TypeOK
  <2> HIDE DEF new
  <2>4. {new} \in SUBSET Scrape /\ \A s \in {new} : pending[s.hash] = None
    BY <1>1, <2>2
  <2>5. \A s, t \in {new} : s.hash = t.hash => s = t
    OBVIOUS
  <2>6. Once(fetches, inbox) /\ Joins(pending, UnderWay(fetches, inbox))
    BY DEF JoinInv
  <2>7. Once(fetches', inbox) /\ Joins(pending', UnderWay(fetches', inbox))
    BY <2>1, <2>3, <2>4, <2>5, <2>6, StartJoins
  <2> QED
    BY <1>2, <2>7 DEF JoinInv, ClosedByItsOwn
<1> QED
  BY <1>3, <1>4

LEMMA FetchEndsJoins ==
    ASSUME IInv, JoinInv, NEW f \in fetches, NEW more \in BOOLEAN, FetchEnds(f, more)
    PROVE  JoinInv'
<1>1. PICK r : r = [fetch |-> f, more |-> more]
  OBVIOUS
<1>2. fetches \in SUBSET Fetch /\ inbox \in Seq(Result)
  BY DEF IInv, TypeOK
<1>3. r \in Result /\ r.fetch = f
  BY <1>1, <1>2 DEF Result
<1>4. fetches' = fetches \ {f} /\ inbox' = Append(inbox, r) /\ UNCHANGED <<pending, finished>>
  BY <1>1 DEF FetchEnds
<1>5. Once(fetches, inbox)
  BY DEF JoinInv
<1>6. Once(fetches', inbox') /\ UnderWay(fetches', inbox') = UnderWay(fetches, inbox)
  BY <1>2, <1>3, <1>4, <1>5, EndedJoins
<1> QED
  BY <1>4, <1>6 DEF JoinInv, ClosedByItsOwn

\* The scrapes that processQueue() starts have no entry, and are of different hashes.
LEMMA DrainJoins ==
    ASSUME IInv, NEW p \in [Hash -> Pending], \A h \in Hash \ Present : p[h] = None,
           NEW n \in Nat, n <= Len(waiting), NEW S, S = {waiting[i] : i \in 1..n},
           NEW F \in SUBSET Fetch, NEW box \in Seq(Result),
           Once(F, box), Joins(p, UnderWay(F, box))
    PROVE  /\ Once(F \cup Requests(S), box)
           /\ Joins(Entered(p, S), UnderWay(F \cup Requests(S), box))
<1>1. Len(waiting) \in Nat /\ \A i \in 1..Len(waiting) : waiting[i] \in Scrape
  BY LenProperties, ElementOfSeq DEF IInv, TypeOK
<1>2. \A s \in S : \E i \in 1..Len(waiting) : s = waiting[i]
  BY <1>1
<1>3. S \in SUBSET Scrape
  BY <1>1, <1>2
<1>4. ASSUME NEW s \in S PROVE p[s.hash] = None
  <2>1. PICK i \in 1..Len(waiting) : s = waiting[i]
    BY <1>2
  <2>2. s.hash \in Hash \ Present
    BY <1>1, <2>1 DEF IInv, Queued, Scrape
  <2> QED
    BY <2>2
<1>5. ASSUME NEW s \in S, NEW t \in S, s.hash = t.hash PROVE s = t
  <2>1. PICK i \in 1..Len(waiting) : s = waiting[i]
    BY <1>2
  <2>2. PICK j \in 1..Len(waiting) : t = waiting[j]
    BY <1>2
  <2>3. i = j
    BY <1>5, <2>1, <2>2 DEF IInv, Queued
  <2> QED
    BY <2>1, <2>2, <2>3
<1> QED
  BY <1>3, <1>4, <1>5, StartJoins

\* A result: it joins the entry of its own scrape, which is there.
LEMMA ApplyJoins ==
    ASSUME IInv, JoinInv, ApplyResult
    PROVE  JoinInv'
<1>1. PICK r : r = Head(inbox)
  OBVIOUS
<1>2. PICK h : h = r.fetch.scrape.hash
  OBVIOUS
<1>3. PICK e : e = Joined(pending[h], r)
  OBVIOUS
<1>4. inbox # <<>> /\ inbox' = Tail(inbox) /\ inbox' \in Seq(Result)
  BY HeadTailProperties DEF ApplyResult, IInv, TypeOK
<1>5. pending \in [Hash -> Pending] /\ fetches \in SUBSET Fetch /\ inbox \in Seq(Result)
  BY DEF IInv, TypeOK
<1>6. Once(fetches, inbox) /\ Joins(pending, UnderWay(fetches, inbox)) /\ ClosedByItsOwn
  BY DEF JoinInv
<1>7. CASE r.more
  <2>1. UNCHANGED <<pending, finished>> /\ fetches' = fetches \cup ViewPage(Head(inbox).fetch)
    BY <1>1, <1>7 DEF ApplyResult
  <2>2. Once(fetches', inbox') /\ Joins(pending, UnderWay(fetches', inbox'))
    BY <1>4, <1>5, <1>6, <2>1, ViewJoins
  <2> QED
    BY <1>6, <2>1, <2>2 DEF JoinInv, ClosedByItsOwn
<1>8. CASE ~r.more
  <2>0. /\ h \in Hash /\ pending[h] # None /\ Once(fetches, Tail(inbox))
        /\ Closes(pending, UnderWay(fetches, Tail(inbox)), h, e)
    BY <1>1, <1>2, <1>3, <1>4, <1>5, <1>6, JoinedJoins
  <2>1. /\ h \in Hash /\ pending[h] # None /\ Once(fetches, inbox')
        /\ e.count > 0 =>
              Joins([pending EXCEPT ![h] = e], UnderWay(fetches, inbox'))
        /\ ~(e.count > 0) => /\ \E n \in Number : e.joined = {n} \X Site
                             /\ Joins([pending EXCEPT ![h] = None], UnderWay(fetches, inbox'))
    BY <1>4, <2>0 DEF Closes
  <2>2. h \in Present /\ OnStrategyComplete(h, r)
    BY <1>1, <1>2, <1>8, <2>1 DEF ApplyResult, Present
  <2>3. CASE e.count > 0
    <3>1. pending' = [pending EXCEPT ![h] = e] /\ UNCHANGED <<fetches, finished>>
      BY <1>3, <2>2, <2>3 DEF OnStrategyComplete
    <3> QED
      BY <1>6, <2>1, <2>3, <3>1 DEF JoinInv, ClosedByItsOwn
  <2>4. CASE ~(e.count > 0)
    <3>1. CheckAllComplete(h, e)
      BY <1>3, <2>2, <2>4 DEF OnStrategyComplete
    <3>2. PICK free : free = Freed(active)
      OBVIOUS
    <3>3. PICK n : n = Drained(MaxConcurrent - free)
      OBVIOUS
    <3>4. PICK S : S = {waiting[i] : i \in 1..n}
      OBVIOUS
    <3>5. PICK q : q = [pending EXCEPT ![h] = None]
      OBVIOUS
    <3>6. /\ pending' = Entered(q, S) /\ fetches' = fetches \cup Requests(S)
          /\ finished' = finished \cup {e.joined}
      BY <3>1, <3>2, <3>3, <3>4, <3>5 DEF CheckAllComplete
    <3>7. Len(waiting) \in Nat /\ active \in Nat /\ active <= MaxConcurrent
      BY LenProperties, SiteScraperAssumption DEF IInv, TypeOK
    <3>8. n \in Nat /\ n <= Len(waiting)
      BY <3>2, <3>3, <3>7, SiteScraperAssumption DEF Freed, Drained, Least
    <3>9. q \in [Hash -> Pending] /\ \A k \in Hash \ Present : q[k] = None
      <4>1. None \in Pending
        BY TwoSites DEF None, Pending
      <4>2. \A k \in Hash : q[k] = IF k = h THEN None ELSE pending[k]
        BY <1>5, <2>1, <3>5
      <4>3. q \in [Hash -> Pending]
        BY <1>5, <3>5, <4>1
      <4> QED
        BY <4>2, <4>3 DEF Present
    <3>10. Joins(q, UnderWay(fetches, inbox'))
      BY <2>1, <2>4, <3>5
    <3>11. Once(fetches', inbox') /\ Joins(pending', UnderWay(fetches', inbox'))
      BY <1>4, <1>5, <2>1, <3>4, <3>6, <3>8, <3>9, <3>10, DrainJoins
    <3>12. ClosedByItsOwn'
      BY <1>6, <2>1, <2>4, <3>6 DEF ClosedByItsOwn
    <3> QED
      BY <3>11, <3>12 DEF JoinInv
  <2> QED
    BY <2>3, <2>4
<1> QED
  BY <1>7, <1>8

\* The end takes requests away.
LEMMA StopJoins ==
    ASSUME JoinInv, LoopEnds \/ Stop \/ UNCHANGED vars \/ \E h \in Hash : CooldownEnds(h)
    PROVE  JoinInv'
<1>1. CASE Stop
  <2>1. fetches' = {} /\ UNCHANGED <<pending, inbox, finished>>
    BY <1>1 DEF Stop
  <2>2. UnderWay(fetches', inbox) \subseteq UnderWay(fetches, inbox)
    BY <2>1 DEF UnderWay
  <2>3. Once(fetches', inbox)
    BY <2>1 DEF JoinInv, Once
  <2>4. Joins(pending, UnderWay(fetches', inbox))
    <3>1. ASSUME NEW h \in Hash, pending[h] # None
          PROVE  \E n \in Number : Own(pending[h], n, UnderWay(fetches', inbox), h)
      <4>1. PICK n \in Number : Own(pending[h], n, UnderWay(fetches, inbox), h)
        BY <3>1 DEF JoinInv, Joins
      <4>2. Own(pending[h], n, UnderWay(fetches', inbox), h)
        BY <2>2, <4>1 DEF Own
      <4> QED
        BY <4>2
    <3> QED
      BY <2>2, <3>1 DEF JoinInv, Joins
  <2> QED
    BY <2>1, <2>3, <2>4 DEF JoinInv, ClosedByItsOwn
<1>2. CASE LoopEnds \/ UNCHANGED vars \/ \E h \in Hash : CooldownEnds(h)
  <2>1. UNCHANGED <<pending, fetches, inbox, finished>>
    BY <1>2 DEF LoopEnds, vars, CooldownEnds
  <2> QED
    BY <2>1 DEF JoinInv, ClosedByItsOwn
<1> QED
  BY <1>1, <1>2

LEMMA NextJoins == ASSUME IInv, JoinInv, [Next]_vars PROVE JoinInv'
<1>1. CASE \E h \in Hash : RequestScrape(h)
  BY <1>1, RequestJoins
<1>2. CASE AnyFetchEnds
  BY <1>2, FetchEndsJoins DEF AnyFetchEnds
<1>3. CASE ApplyResult
  BY <1>3, ApplyJoins
<1>4. CASE LoopEnds \/ Stop \/ UNCHANGED vars \/ \E h \in Hash : CooldownEnds(h)
  BY <1>4, StopJoins
<1> QED
  BY <1>1, <1>2, <1>3, <1>4 DEF Next

\* Every entry that is erased had been given the results of both sites of one scrape:
\* none was left out, counted twice, or taken from another scrape of the hash.
THEOREM EntriesClosedHolds == ASSUME ~Outlast PROVE Spec => []EntriesClosed
<1>1. Spec => []JoinInv
  BY InitJoins, NextJoins, InvariantHolds, PTL DEF Spec
<1>2. IInv /\ JoinInv => EntriesClosed
  BY DEF IInv, JoinInv, EntriesClosed
<1> QED
  BY <1>1, <1>2, InvariantHolds, PTL

=============================================================================
