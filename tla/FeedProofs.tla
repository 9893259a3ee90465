----------------------------- MODULE FeedProofs -----------------------------
(***************************************************************************)
(* What Feed guarantees for any nodes, torrents and bounds: its state is   *)
(* well typed, nothing dirty is without a timer, and no feed is dated      *)
(* after the vote that changed it. It keeps within its capacity and lists  *)
(* nothing blocked, a feed that is up gets smaller only by an overstated   *)
(* answer of another program, and while writes of the file succeed a clean *)
(* feed is the one on disk.                                                *)
(***************************************************************************)
EXTENDS Feed, FiniteSetTheorems, TLAPS

-----------------------------------------------------------------------------
(* The inductive invariant. *)

\* The flag and the closure it stands for come and go together.
FlagIsTimer == \A n \in Node : flushScheduled[n] <=> timer[n]

FeedsDated ==
    \A n \in Node : /\ Dated(feed[n], feedDate[n])
                    /\ feedDate[n] <= modified[n] /\ modified[n] <= clock

FilesDated ==
    \A n \in Node : /\ Dated(file[n].items, file[n].modified)
                    /\ file[n].modified <= clock

AnswersDated ==
    \A m, n \in Node : answers[m][n] # None =>
        /\ Dated(answers[m][n].items, answers[m][n].date)
        /\ answers[m][n].date <= answers[m][n].modified
        /\ answers[m][n].modified <= clock

DatesInv == clock >= 1 /\ FeedsDated /\ FilesDated /\ AnswersDated

-----------------------------------------------------------------------------
(* Types *)

\* The empty feed is a feed.
LEMMA EmptyType == Empty \in Items /\ Listed(Empty) = {}
BY DEF Empty, Items, Listed

\* A feed is finite, and has as many entries as torrents listed.
LEMMA SizeIs ==
    ASSUME NEW items \in Items
    PROVE  IsFiniteSet(Listed(items)) /\ Size(items) \in Nat
<1>1. IsFiniteSet(Listed(items))
  BY FeedAssumption, FS_Subset DEF Listed
<1> QED
  BY <1>1, FS_CardinalityType DEF Size

\* What is taken over of a list is some of its acceptable entries, as many as fit.
LEMMA TakenEntries ==
    ASSUME NEW items \in Items, NEW new \in Taken(items)
    PROVE  /\ new \in Items
           /\ Listed(new) \subseteq Acceptable(items)
           /\ \A h \in Listed(new) : h \in Listed(items) /\ new[h] = items[h]
           /\ Size(new) = Room(items)
<1>1. PICK first \in SUBSET Acceptable(items) :
         /\ Cardinality(first) = Room(items)
         /\ new = [h \in Hash |-> IF h \in first THEN items[h] ELSE None]
  BY DEF Taken
<1>2. new \in Items
  BY <1>1 DEF Items
<1>3. Listed(new) = first
  BY <1>1 DEF Listed, Acceptable
<1> QED
  BY <1>1, <1>2, <1>3 DEF Size, Acceptable, Listed

\* There is room for what is acceptable, up to maxSize_.
LEMMA RoomIs ==
    ASSUME NEW items \in Items
    PROVE  /\ IsFiniteSet(Acceptable(items)) /\ Cardinality(Acceptable(items)) \in Nat
           /\ Room(items) \in Nat /\ Room(items) <= MaxSize
           /\ Proper(items) => Room(items) = Size(items)
<1>1. IsFiniteSet(Acceptable(items))
  BY SizeIs, FS_Subset DEF Acceptable
<1>2. Cardinality(Acceptable(items)) \in Nat
  BY <1>1, FS_CardinalityType
<1>3. Proper(items) => Cardinality(Acceptable(items)) = Size(items) /\ Size(items) <= MaxSize
  <2> SUFFICES ASSUME Proper(items)
               PROVE  Cardinality(Acceptable(items)) = Size(items) /\ Size(items) <= MaxSize
    OBVIOUS
  <2>1. Acceptable(items) = Listed(items)
    BY DEF Proper, Acceptable
  <2> QED
    BY <2>1 DEF Proper, Size
<1> QED
  BY <1>1, <1>2, <1>3, FeedAssumption DEF Room

\* What is taken over keeps within maxSize_ and lists nothing that is refused.
LEMMA TakenProper ==
    ASSUME NEW items \in Items, NEW new \in Taken(items) PROVE Proper(new)
<1>1. Size(new) <= MaxSize
  BY TakenEntries, RoomIs
<1>2. Listed(new) \cap Refused = {}
  BY TakenEntries DEF Acceptable
<1> QED
  BY <1>1, <1>2 DEF Proper

\* A list that keeps within maxSize_ and lists nothing refused is taken over whole.
LEMMA TakenWhole ==
    ASSUME NEW items \in Items, Proper(items), NEW new \in Taken(items) PROVE new = items
<1>1. PICK first \in SUBSET Acceptable(items) :
         /\ Cardinality(first) = Room(items)
         /\ new = [h \in Hash |-> IF h \in first THEN items[h] ELSE None]
  BY DEF Taken
<1>2. Acceptable(items) = Listed(items)
  BY DEF Proper, Acceptable
<1>3. first = Listed(items)
  <2>1. IsFiniteSet(Listed(items)) /\ Cardinality(first) = Cardinality(Listed(items))
    BY <1>1, SizeIs, RoomIs DEF Size
  <2> QED
    BY <1>1, <1>2, <2>1, FS_Subset
<1> QED
  BY <1>1, <1>3 DEF Items, Listed

\* What a full or a growing feed becomes is a feed.
LEMMA AddedType ==
    ASSUME NEW items \in Items, NEW h \in Hash, NEW item \in Item,
           NEW new \in Added(items, h, item)
    PROVE  new \in Items
BY DEF Added, Items, Listed

\* Added() puts the new entry in and invents no other.
LEMMA AddedEntries ==
    ASSUME NEW items \in Items, NEW h \in Hash, NEW item \in Item,
           NEW new \in Added(items, h, item), NEW k \in Listed(new)
    PROVE  IF k = h THEN new[k] = item ELSE k \in Listed(items) /\ new[k] = items[k]
BY FeedAssumption DEF Added, Items, Listed

\* The date load() computes is one of the dates of the items, or zero.
LEMMA NewestType ==
    ASSUME NEW items \in Items, NEW d \in Newest(items)
    PROVE  /\ d \in Time
           /\ \A h \in Listed(items) : items[h].feedDate <= d
           /\ d = 0 \/ \E h \in Listed(items) : d = items[h].feedDate
BY FeedAssumption DEF Newest, Listed, Items, Item, Time

\* The initial state is well typed.
LEMMA InitTypeOK == ASSUME Init PROVE TypeOK
BY EmptyType, FeedAssumption DEF Init, TypeOK, Time

\* MarkDirty() keeps the flags Boolean.
LEMMA MarkDirtyType ==
    ASSUME TypeOK, NEW n \in Node, MarkDirty(n)
    PROVE  /\ dirty' \in [Node -> BOOLEAN]
           /\ flushScheduled' \in [Node -> BOOLEAN]
           /\ timer' \in [Node -> BOOLEAN]
BY DEF MarkDirty, TypeOK

\* A vote keeps the state well typed.
LEMMA AddByHashType ==
    ASSUME TypeOK, NEW n \in Node, NEW h \in Hash, NEW votes \in Votes,
           AddByHash(n, h, votes)
    PROVE  TypeOK'
<1>1. feed' \in [Node -> Items]
  <2>1. CASE h \in Listed(feed[n])
    <3>1. feed[n][h] \in Item /\ feed[n] \in Items
      BY <2>1 DEF TypeOK, Items, Listed
    <3>2. Refreshed(feed[n][h], votes) \in Item
      BY <3>1 DEF Refreshed, Item
    <3>3. [feed[n] EXCEPT ![h] = Refreshed(feed[n][h], votes)] \in Items
      BY <3>1, <3>2 DEF Items
    <3> QED
      BY <2>1, <3>3 DEF AddByHash, Add, TypeOK
  <2>2. CASE h \notin Listed(feed[n])
    <3> DEFINE new == [votes |-> votes, feedDate |-> clock]
    <3>1. new \in Item
      BY DEF Item, TypeOK
    <3>2. PICK items \in Added(feed[n], h, new) : feed' = [feed EXCEPT ![n] = items]
      BY <2>2 DEF AddByHash, Add
    <3>3. items \in Items
      BY <3>1, <3>2, AddedType DEF TypeOK
    <3> QED
      BY <3>2, <3>3 DEF TypeOK
  <2> QED
    BY <2>1, <2>2
<1>2. /\ feedDate' \in [Node -> Time]
      /\ modified' \in [Node -> Time]
  BY DEF AddByHash, TypeOK
<1>3. voted' \in 0..MaxVotes
  BY FeedAssumption DEF AddByHash, TypeOK
<1>4. UNCHANGED <<clock, up, file, answers, starts>> /\ MarkDirty(n)
  BY DEF AddByHash
<1> QED
  BY <1>1, <1>2, <1>3, <1>4, MarkDirtyType DEF TypeOK

\* Writing the file keeps it a file.
LEMMA PersistType ==
    ASSUME TypeOK, NEW n \in Node, NEW ok, PersistNow(n, ok)
    PROVE  /\ dirty' \in [Node -> BOOLEAN]
           /\ file' \in [Node -> [items : Items, modified : Time]]
<1>1. dirty' \in [Node -> BOOLEAN]
  BY DEF PersistNow, TypeOK
<1>2. [items |-> feed[n], modified |-> modified[n]] \in [items : Items, modified : Time]
  BY DEF TypeOK
<1>3. file' \in [Node -> [items : Items, modified : Time]]
  BY <1>2 DEF PersistNow, TypeOK
<1> QED
  BY <1>1, <1>3

\* A flush keeps the state well typed.
LEMMA FlushType ==
    ASSUME TypeOK, NEW n \in Node, NEW ok, Flush(n, ok) PROVE TypeOK'
<1>1. /\ dirty' \in [Node -> BOOLEAN]
      /\ file' \in [Node -> [items : Items, modified : Time]]
  BY PersistType DEF Flush, TypeOK
<1> QED
  BY <1>1 DEF Flush, ScheduledAfter, TypeOK

\* What a node leaves behind is well typed.
LEMMA LeaveType ==
    ASSUME TypeOK, NEW n \in Node, Leave(n),
           dirty' \in [Node -> BOOLEAN],
           file' \in [Node -> [items : Items, modified : Time]]
    PROVE  TypeOK'
<1>1. answers' \in [Node -> [Node -> Answer \cup {None}]]
  BY DEF Leave, TypeOK
<1>2. feed' \in [Node -> Items]
  BY EmptyType DEF Leave, TypeOK
<1>3. feedDate' \in [Node -> Time] /\ modified' \in [Node -> Time]
  BY FeedAssumption DEF Leave, TypeOK, Time
<1> QED
  BY <1>1, <1>2, <1>3 DEF Leave, TypeOK

\* A shutdown or a crash keeps the state well typed.
LEMMA StopType ==
    ASSUME TypeOK, NEW n \in Node, NEW ok, Shutdown(n, ok) \/ Crash(n) PROVE TypeOK'
<1>1. CASE Shutdown(n, ok)
  <2>1. /\ dirty' \in [Node -> BOOLEAN]
        /\ file' \in [Node -> [items : Items, modified : Time]]
    BY <1>1, PersistType DEF Shutdown, Save, TypeOK
  <2> QED
    BY <1>1, <2>1, LeaveType DEF Shutdown
<1>2. CASE Crash(n)
  <2>1. /\ dirty' \in [Node -> BOOLEAN]
        /\ file' \in [Node -> [items : Items, modified : Time]]
    BY <1>2 DEF Crash, TypeOK
  <2> QED
    BY <1>2, <2>1, LeaveType DEF Crash
<1> QED
  BY <1>1, <1>2

\* Loading keeps the state well typed.
LEMMA LoadType ==
    ASSUME TypeOK, NEW n \in Node, Load(n) PROVE TypeOK'
<1>1. file[n].items \in Items /\ file[n].modified \in Time
  BY DEF TypeOK
<1>2. PICK items \in Taken(file[n].items) : \E d \in Newest(items) :
         /\ feed' = [feed EXCEPT ![n] = items]
         /\ feedDate' = [feedDate EXCEPT ![n] = d]
  BY DEF Load
<1>3. items \in Items
  BY <1>1, TakenEntries
<1>4. PICK d \in Time : feedDate' = [feedDate EXCEPT ![n] = d]
  BY <1>2, <1>3, NewestType
<1>5. starts' \in 0..MaxStarts
  BY FeedAssumption DEF Load, TypeOK
<1> QED
  BY <1>1, <1>2, <1>3, <1>4, <1>5 DEF Load, TypeOK, flushing

\* Answering keeps the state well typed.
LEMMA RequestType ==
    ASSUME TypeOK, NEW m \in Node, NEW n \in Node, HandleFeedRequest(m, n)
    PROVE  TypeOK'
<1>1. [items |-> feed[m], size |-> Size(feed[m]), date |-> feedDate[m],
       modified |-> modified[m]] \in Answer
  BY SizeIs DEF TypeOK, Answer
<1>2. answers' \in [Node -> [Node -> Answer \cup {None}]]
  BY <1>1 DEF HandleFeedRequest, TypeOK
<1> QED
  BY <1>2 DEF HandleFeedRequest, TypeOK, flushing

\* Taking a list over, or not, keeps the feeds well typed.
LEMMA ConsiderType ==
    ASSUME TypeOK, NEW n \in Node, NEW a, a.items \in Items, a.date \in Time,
           NEW last \in Time, Consider(n, a, last)
    PROVE  /\ feed' \in [Node -> Items]
           /\ feedDate' \in [Node -> Time] /\ modified' \in [Node -> Time]
           /\ dirty' \in [Node -> BOOLEAN]
           /\ flushScheduled' \in [Node -> BOOLEAN] /\ timer' \in [Node -> BOOLEAN]
<1>1. CASE MayReplace(n, a)
  <2>1. Replace(n, a, last) /\ MarkDirty(n)
    BY <1>1 DEF Consider, Replace
  <2>2. PICK items \in Taken(a.items) : feed' = [feed EXCEPT ![n] = items]
    BY <2>1 DEF Replace
  <2>3. items \in Items /\ DateTaken(a) \in Time
    BY <2>2, TakenEntries DEF DateTaken, TypeOK
  <2> QED
    BY <2>1, <2>2, <2>3, MarkDirtyType DEF Replace, TypeOK
<1>2. CASE ~MayReplace(n, a)
  BY <1>2 DEF Consider, TypeOK, flushing
<1> QED
  BY <1>1, <1>2

\* Applying an answer keeps the state well typed.
LEMMA ResponseType ==
    ASSUME TypeOK, NEW m \in Node, NEW n \in Node, HandleFeedResponse(m, n)
    PROVE  TypeOK'
<1>1. answers[m][n] \in Answer
  BY DEF HandleFeedResponse, TypeOK
<1>2. answers' \in [Node -> [Node -> Answer \cup {None}]]
  BY DEF HandleFeedResponse, TypeOK
<1>3. /\ answers[m][n].items \in Items /\ answers[m][n].date \in Time
      /\ answers[m][n].modified \in Time
  BY <1>1 DEF Answer
<1>4. Consider(n, answers[m][n], answers[m][n].modified)
  BY DEF HandleFeedResponse
<1> QED
  BY <1>2, <1>3, <1>4, ConsiderType DEF HandleFeedResponse, TypeOK

\* What another program may answer.
LEMMA ForeignIs ==
    ASSUME NEW n \in Node, NEW a, HandleForeignResponse(n, a)
    PROVE  /\ a.items \in Items /\ a.size \in Nat /\ a.date \in Time
           /\ Dated(a.items, a.date)
<1>1. <<n, a>> \in Foreign
  BY DEF HandleForeignResponse
<1>2. <<n, a>> \in Node \X [items : Items, size : Nat, date : Time]
  BY <1>1, FeedAssumption
<1>3. Dated(a.items, a.date)
  BY <1>1, FeedAssumption
<1> QED
  BY <1>2, <1>3

\* So does applying the answer of another program.
LEMMA ForeignType ==
    ASSUME TypeOK, NEW n \in Node, NEW a, HandleForeignResponse(n, a)
    PROVE  TypeOK'
<1>1. a.items \in Items /\ a.date \in Time
  BY ForeignIs
<1>2. DateTaken(a) \in Time
  BY <1>1 DEF DateTaken, TypeOK
<1>3. Consider(n, a, DateTaken(a))
  BY DEF HandleForeignResponse
<1>4. voted' \in 0..MaxVotes
  BY FeedAssumption DEF HandleForeignResponse, TypeOK
<1> QED
  BY <1>1, <1>2, <1>3, <1>4, ConsiderType DEF HandleForeignResponse, TypeOK

\* Every step keeps the state well typed.
LEMMA NextTypeOK == ASSUME TypeOK, [Next]_vars PROVE TypeOK'
<1>1. CASE Tick
  BY <1>1, FeedAssumption DEF Tick, TypeOK, flushing, Time
<1>2. CASE UNCHANGED vars
  BY <1>2 DEF TypeOK, vars, flushing
<1>3. ASSUME NEW n \in Node, NEW ok \in WriteOutcomes, Flush(n, ok) \/ Shutdown(n, ok)
      PROVE  TypeOK'
  BY <1>3, FlushType, StopType
<1>4. ASSUME NEW n \in Node, Crash(n) \/ Load(n)
      PROVE  TypeOK'
  BY <1>4, StopType, LoadType
<1>5. ASSUME NEW n \in Node, NEW h \in Hash, NEW votes \in Votes, AddByHash(n, h, votes)
      PROVE  TypeOK'
  BY <1>5, AddByHashType
<1>6. ASSUME NEW n \in Node, NEW m \in Node,
             HandleFeedRequest(m, n) \/ HandleFeedResponse(m, n)
      PROVE  TypeOK'
  BY <1>6, RequestType, ResponseType
<1>7. ASSUME NEW n \in Node, NEW a, HandleForeignResponse(n, a)
      PROVE  TypeOK'
  BY <1>7, ForeignType
<1> QED
  BY <1>1, <1>2, <1>3, <1>4, <1>5, <1>6, <1>7 DEF Next

\* Every reachable state of the nodes is well typed.
THEOREM TypeCorrect == Spec => []TypeOK
<1>1. Init => TypeOK
  BY InitTypeOK
<1>2. TypeOK /\ [Next]_vars => TypeOK'
  BY NextTypeOK
<1> QED
  BY <1>1, <1>2, PTL DEF Spec

-----------------------------------------------------------------------------
(* Timers *)

\* What one step does to the flags.
LEMMA NextFlags ==
    ASSUME TypeOK, FlagIsTimer, DebtScheduled, [Next]_vars
    PROVE  FlagIsTimer' /\ DebtScheduled'
<1> USE DEF FlagIsTimer, DebtScheduled
<1>1. CASE UNCHANGED flushing
  BY <1>1 DEF flushing
<1>2. ASSUME NEW n \in Node, MarkDirty(n)
      PROVE  FlagIsTimer' /\ DebtScheduled'
  BY <1>2 DEF MarkDirty, TypeOK
<1>3. ASSUME NEW n \in Node, NEW ok, Flush(n, ok)
      PROVE  FlagIsTimer' /\ DebtScheduled'
  <2>1. dirty' = [dirty EXCEPT ![n] = FALSE]
    BY <1>3 DEF Flush, PersistNow, TypeOK
  <2> QED
    BY <1>3, <2>1 DEF Flush, ScheduledAfter, TypeOK
<1>4. ASSUME NEW n \in Node, NEW ok, Shutdown(n, ok) \/ Crash(n)
      PROVE  FlagIsTimer' /\ DebtScheduled'
  <2>1. dirty' = [dirty EXCEPT ![n] = FALSE]
    BY <1>4 DEF Shutdown, Save, Crash, PersistNow, TypeOK
  <2> QED
    BY <1>4, <2>1 DEF Shutdown, Crash, Leave, TypeOK
<1>5. ASSUME NEW n \in Node, NEW a, NEW last, Consider(n, a, last)
      PROVE  UNCHANGED flushing \/ MarkDirty(n)
  BY <1>5 DEF Consider, Replace
<1>6. ASSUME NEW n \in Node, NEW h \in Hash, NEW votes \in Votes, AddByHash(n, h, votes)
      PROVE  MarkDirty(n)
  BY <1>6 DEF AddByHash
<1>7. ASSUME NEW n \in Node, NEW m \in Node, HandleFeedResponse(m, n)
      PROVE  FlagIsTimer' /\ DebtScheduled'
  BY <1>1, <1>2, <1>5, <1>7 DEF HandleFeedResponse
<1>8. ASSUME NEW n \in Node, NEW a, HandleForeignResponse(n, a)
      PROVE  FlagIsTimer' /\ DebtScheduled'
  BY <1>1, <1>2, <1>5, <1>8 DEF HandleForeignResponse
<1> QED
  BY <1>1, <1>2, <1>3, <1>4, <1>6, <1>7, <1>8
     DEF Next, Tick, Load, HandleFeedRequest, vars

\* For any nodes and any failures of writing, a dirty feed always has a timer.
THEOREM DebtScheduledHolds == Spec => []DebtScheduled
<1>1. Init => FlagIsTimer /\ DebtScheduled
  BY DEF Init, FlagIsTimer, DebtScheduled
<1>2. TypeOK /\ FlagIsTimer /\ DebtScheduled /\ [Next]_vars => FlagIsTimer' /\ DebtScheduled'
  BY NextFlags
<1> QED
  BY <1>1, <1>2, TypeCorrect, PTL DEF Spec

-----------------------------------------------------------------------------
(* Sizes *)

\* A new entry makes a feed larger by one until it is full; then it takes the
\* place of the last one.
LEMMA AddedSize ==
    ASSUME NEW items \in Items, NEW h \in Hash \ Listed(items), NEW item \in Item,
           NEW new \in Added(items, h, item), Proper(items), h \notin Refused
    PROVE  Proper(new) /\ Size(items) <= Size(new)
<1>1. /\ IsFiniteSet(Listed(items)) /\ Size(items) \in Nat /\ MaxSize \in Nat \ {0}
      /\ Size(items) <= MaxSize /\ Listed(items) \cap Refused = {}
  BY SizeIs, FeedAssumption DEF Proper
<1>2. item # None /\ new \in Items
  BY AddedType, FeedAssumption
<1>3. CASE Size(items) < MaxSize
  <2>1. new = [items EXCEPT ![h] = item]
    BY <1>3 DEF Added
  <2>2. Listed(new) = Listed(items) \cup {h}
    BY <1>2, <2>1 DEF Listed, Items
  <2>3. Size(new) = Size(items) + 1
    BY <1>1, <2>2, FS_AddElement DEF Size
  <2> QED
    BY <1>1, <1>3, <2>2, <2>3 DEF Proper
<1>4. CASE ~(Size(items) < MaxSize)
  <2>1. PICK last \in Listed(items) : new = [items EXCEPT ![last] = None, ![h] = item]
    BY <1>4 DEF Added
  <2> DEFINE rest == Listed(items) \ {last}
  <2>2. Listed(new) = rest \cup {h} /\ h \notin rest
    BY <1>2, <2>1 DEF Listed, Items
  <2>3. IsFiniteSet(rest) /\ Cardinality(rest) = Size(items) - 1
    BY <1>1, FS_RemoveElement DEF Size
  <2>4. Listed(new) \cap Refused = {}
    BY <1>1, <2>2
  <2> HIDE DEF rest
  <2>5. Size(new) = Cardinality(rest) + 1
    BY <2>2, <2>3, FS_AddElement DEF Size
  <2> QED
    BY <1>1, <2>3, <2>4, <2>5 DEF Proper
<1> QED
  BY <1>3, <1>4

\* A vote never makes a feed smaller, nor larger than it may be.
LEMMA AddByHashSize ==
    ASSUME TypeOK, Bounded, NEW n \in Node, NEW h \in Hash, NEW votes \in Votes,
           AddByHash(n, h, votes)
    PROVE  /\ \A k \in Node : Proper(feed'[k]) /\ Size(feed[k]) <= Size(feed'[k])
           /\ UNCHANGED <<file, answers, up>>
<1>1. feed[n] \in Items /\ clock \in Time /\ Proper(feed[n]) /\ h \notin Refused
  BY DEF TypeOK, Bounded, AddByHash
<1>2. Proper(feed'[n]) /\ Size(feed[n]) <= Size(feed'[n])
  <2>1. CASE h \in Listed(feed[n])
    <3>1. feed'[n] = [feed[n] EXCEPT ![h] = Refreshed(feed[n][h], votes)]
      BY <2>1 DEF AddByHash, Add, TypeOK
    <3>2. Refreshed(feed[n][h], votes) \in Item
      BY <1>1, <2>1 DEF Refreshed, Item, Items, Listed
    <3>3. Listed(feed'[n]) = Listed(feed[n])
      BY <1>1, <2>1, <3>1, <3>2, FeedAssumption DEF Listed, Items
    <3>4. Size(feed'[n]) = Size(feed[n]) /\ Size(feed[n]) \in Nat
      BY <1>1, <3>3, SizeIs DEF Size
    <3> QED
      BY <1>1, <3>3, <3>4 DEF Proper
  <2>2. CASE h \notin Listed(feed[n])
    <3> DEFINE item == [votes |-> votes, feedDate |-> clock]
    <3>1. item \in Item
      BY <1>1 DEF Item
    <3>2. PICK items \in Added(feed[n], h, item) : feed' = [feed EXCEPT ![n] = items]
      BY <2>2 DEF AddByHash, Add
    <3>3. feed'[n] = items
      BY <3>2 DEF TypeOK
    <3> HIDE DEF item
    <3> QED
      BY <1>1, <2>2, <3>1, <3>2, <3>3, AddedSize
  <2> QED
    BY <2>1, <2>2
<1>3. \A k \in Node : k # n => feed'[k] = feed[k]
  BY DEF AddByHash, Add, TypeOK
<1>4. \A k \in Node : Size(feed[k]) \in Nat /\ Proper(feed[k])
  BY SizeIs DEF TypeOK, Bounded
<1>5. UNCHANGED <<file, answers, up>>
  BY DEF AddByHash
<1> QED
  BY <1>2, <1>3, <1>4, <1>5

\* What is taken over is proper, and no smaller unless the answer overstates its size.
LEMMA ConsiderSize ==
    ASSUME TypeOK, Bounded, NEW n \in Node, NEW a, a.items \in Items, a.size \in Nat,
           NEW last, Consider(n, a, last)
    PROVE  /\ \A k \in Node : Proper(feed'[k])
           /\ ~Overstated(a) => \A k \in Node : Size(feed[k]) <= Size(feed'[k])
           /\ \A k \in Node : k # n => feed'[k] = feed[k]
<1>1. \A k \in Node : Size(feed[k]) \in Nat /\ Proper(feed[k])
  BY SizeIs DEF TypeOK, Bounded
<1>2. CASE ~MayReplace(n, a)
  <2>1. feed' = feed
    BY <1>2 DEF Consider
  <2> QED
    BY <1>1, <2>1
<1>3. CASE MayReplace(n, a)
  <2>1. PICK items \in Taken(a.items) : feed' = [feed EXCEPT ![n] = items]
    BY <1>3 DEF Consider, Replace
  <2>2. Proper(items) /\ Size(items) = Room(a.items) /\ Room(a.items) \in Nat
    BY <2>1, TakenProper, TakenEntries, RoomIs
  <2>3. feed'[n] = items /\ \A k \in Node : k # n => feed'[k] = feed[k]
    BY <2>1 DEF TypeOK
  <2>4. ~Overstated(a) => Size(feed[n]) <= Size(items)
    BY <1>1, <1>3, <2>2 DEF MayReplace, Overstated
  <2> QED
    BY <1>1, <2>2, <2>3, <2>4
<1> QED
  BY <1>2, <1>3

\* A node of this program never overstates its size.
LEMMA ResponseSize ==
    ASSUME TypeOK, Bounded, NEW m \in Node, NEW n \in Node, HandleFeedResponse(m, n)
    PROVE  /\ \A k \in Node : Proper(feed'[k]) /\ Size(feed[k]) <= Size(feed'[k])
           /\ \A k \in Node : k # n => feed'[k] = feed[k]
           /\ \A k, l \in Node : answers'[k][l] # None => answers'[k][l] = answers[k][l]
           /\ UNCHANGED <<file, up>>
<1> DEFINE a == answers[m][n]
<1>1. a # None /\ answers' = [answers EXCEPT ![m][n] = None] /\ UNCHANGED <<file, up>>
  BY DEF HandleFeedResponse
<1>2. \A k, l \in Node : answers'[k][l] # None => answers'[k][l] = answers[k][l]
  BY <1>1 DEF TypeOK
<1>3. a \in Answer /\ Proper(a.items) /\ a.size = Size(a.items)
  BY <1>1 DEF TypeOK, Bounded
<1>4. Consider(n, a, a.modified)
  BY DEF HandleFeedResponse
<1> HIDE DEF a
<1>5. a.items \in Items /\ a.size \in Nat
  BY <1>3 DEF Answer
<1>6. ~Overstated(a)
  BY <1>3, <1>5, RoomIs DEF Overstated
<1> QED
  BY <1>1, <1>2, <1>4, <1>5, <1>6, ConsiderSize

\* The empty feed is proper.
LEMMA EmptyProper == Proper(Empty)
BY EmptyType, FS_EmptySet, FeedAssumption DEF Proper, Size

\* What a node of this program answers.
OwnAnswer(a) == Proper(a.items) /\ a.size = Size(a.items)

\* The other steps copy feeds, or empty them.
LEMMA NextBounded == ASSUME TypeOK, Bounded, [Next]_vars PROVE Bounded'
<1>1. \A n \in Node : Proper(feed[n]) /\ Proper(file[n].items)
  BY DEF Bounded
<1>2. \A m, n \in Node : answers[m][n] # None => OwnAnswer(answers[m][n])
  BY DEF Bounded, OwnAnswer
<1>3. Proper(Empty)
  BY EmptyProper
<1>4. ASSUME \A n \in Node : \/ feed'[n] = Empty \/ feed'[n] = feed[n] \/ feed'[n] = file[n].items
                             \/ Proper(feed'[n]),
             \A n \in Node : file'[n] = file[n] \/ file'[n].items = feed[n],
             \A m, n \in Node : \/ answers'[m][n] = None \/ answers'[m][n] = answers[m][n]
                                \/ /\ answers'[m][n].items = feed[m]
                                   /\ answers'[m][n].size = Size(feed[m])
      PROVE  Bounded'
  <2>1. \A n \in Node : Proper(feed'[n])
    BY <1>1, <1>3, <1>4
  <2>2. \A n \in Node : Proper(file'[n].items)
    BY <1>1, <1>4
  <2>3. \A m, n \in Node : answers'[m][n] # None => OwnAnswer(answers'[m][n])
    BY <1>1, <1>2, <1>4 DEF OwnAnswer
  <2> QED
    BY <2>1, <2>2, <2>3 DEF Bounded, OwnAnswer, Proper, Size, Listed
<1>5. ASSUME NEW n \in Node, NEW ok, Flush(n, ok) \/ Shutdown(n, ok) \/ Crash(n)
      PROVE  Bounded'
  <2>1. \A k \in Node : file'[k] = file[k] \/ file'[k].items = feed[k]
    BY <1>5 DEF Flush, Shutdown, Crash, Save, PersistNow, TypeOK
  <2>2. \A k \in Node : feed'[k] = Empty \/ feed'[k] = feed[k]
    BY <1>5 DEF Flush, Shutdown, Crash, Leave, TypeOK
  <2>3. \A k, l \in Node : answers'[k][l] = None \/ answers'[k][l] = answers[k][l]
    BY <1>5 DEF Flush, Shutdown, Crash, Leave
  <2> QED
    BY <1>4, <2>1, <2>2, <2>3
<1>6. ASSUME NEW n \in Node, Load(n) PROVE Bounded'
  <2>1. PICK items \in Taken(file[n].items) : feed' = [feed EXCEPT ![n] = items]
    BY <1>6 DEF Load
  <2>2. Proper(items)
    BY <2>1, TakenProper DEF TypeOK
  <2> QED
    BY <1>4, <1>6, <2>1, <2>2 DEF Load, TypeOK
<1>7. ASSUME NEW n \in Node, NEW m \in Node, HandleFeedRequest(m, n) PROVE Bounded'
  <2> DEFINE new == [items |-> feed[m], size |-> Size(feed[m]), date |-> feedDate[m],
                     modified |-> modified[m]]
  <2>1. new.items = feed[m] /\ new.size = Size(feed[m]) /\ answers' = [answers EXCEPT ![m][n] = new]
        /\ UNCHANGED <<feed, file>>
    BY <1>7 DEF HandleFeedRequest
  <2> HIDE DEF new
  <2>2. \A k, l \in Node : \/ answers'[k][l] = answers[k][l]
                         \/ /\ answers'[k][l].items = feed[k]
                            /\ answers'[k][l].size = Size(feed[k])
    BY <2>1 DEF TypeOK
  <2> QED
    BY <1>4, <2>1, <2>2
<1>8. ASSUME NEW n \in Node, NEW h \in Hash, NEW votes \in Votes, AddByHash(n, h, votes)
      PROVE  Bounded'
  <2>1. /\ \A k \in Node : Proper(feed'[k])
        /\ UNCHANGED <<file, answers>>
    BY <1>8, AddByHashSize
  <2> QED
    BY <1>4, <2>1
<1>9. ASSUME NEW n \in Node, NEW m \in Node, HandleFeedResponse(m, n) PROVE Bounded'
  <2>1. /\ \A k \in Node : Proper(feed'[k])
        /\ \A k, l \in Node : answers'[k][l] # None => answers'[k][l] = answers[k][l]
        /\ file' = file
    BY <1>9, ResponseSize
  <2> QED
    BY <1>4, <2>1
<1>10. CASE Tick \/ UNCHANGED vars
  BY <1>4, <1>10 DEF Tick, vars
<1>11. ASSUME NEW n \in Node, NEW a, HandleForeignResponse(n, a) PROVE Bounded'
  <2>1. /\ \A k \in Node : Proper(feed'[k])
        /\ UNCHANGED <<file, answers>>
    BY <1>11, ForeignIs, ConsiderSize DEF HandleForeignResponse
  <2> QED
    BY <1>4, <2>1
<1> QED
  BY <1>5, <1>6, <1>7, <1>8, <1>9, <1>10, <1>11 DEF Next

\* Votes, reloads and the feeds of peers, of whatever program, never make a feed larger
\* than maxSize_ or list what is blocked, in memory, on disk or in what is sent
\* (Feed::add, load, fromJsonArray).
THEOREM BoundedHolds == Spec => []Bounded
<1>1. Init => Bounded
  BY EmptyProper DEF Init, Bounded
<1>2. TypeOK /\ Bounded /\ [Next]_vars => Bounded'
  BY NextBounded
<1> QED
  BY <1>1, <1>2, TypeCorrect, PTL DEF Spec

\* A running node loses no entry to a vote on a full feed or to an answer of a node of
\* this program, however old the state it was computed against; only the answer of
\* another program that overstates its size can cost it some (Feed::add,
\* handleFeedResponse, fromJsonArray).
THEOREM NeverShrinksHolds == Spec => NeverShrinks
<1> DEFINE Overstatement(n) == \E f \in Foreign : Overstated(f[2]) /\ HandleForeignResponse(n, f[2])
           Grows == \A n \in Node : up[n] /\ up'[n] =>
                       Size(feed'[n]) >= Size(feed[n]) \/ Overstatement(n)
<1>1. ASSUME TypeOK, Bounded, [Next]_vars PROVE Grows
  <2>1. \A k \in Node : Size(feed[k]) \in Nat
    BY <1>1, SizeIs DEF TypeOK
  <2>2. CASE UNCHANGED feed
    BY <2>1, <2>2
  <2>3. ASSUME NEW n \in Node, NEW ok, Shutdown(n, ok) \/ Crash(n) PROVE Grows
    <3>1. /\ up'[n] = FALSE
          /\ \A k \in Node : k # n => feed'[k] = feed[k]
      BY <1>1, <2>3 DEF Shutdown, Crash, Leave, TypeOK
    <3> QED
      BY <2>1, <3>1
  <2>4. ASSUME NEW n \in Node, Load(n) PROVE Grows
    <3>1. ~up[n] /\ \A k \in Node : k # n => feed'[k] = feed[k]
      BY <1>1, <2>4 DEF Load, TypeOK
    <3> QED
      BY <2>1, <3>1
  <2>5. ASSUME NEW n \in Node, NEW h \in Hash, NEW votes \in Votes, AddByHash(n, h, votes)
        PROVE  Grows
    <3>1. \A k \in Node : Size(feed[k]) <= Size(feed'[k])
      BY <1>1, <2>5, AddByHashSize
    <3>2. \A k \in Node : Size(feed'[k]) \in Nat
      BY <1>1, NextTypeOK, SizeIs DEF TypeOK
    <3> QED
      BY <2>1, <3>1, <3>2
  <2>6. ASSUME NEW n \in Node, NEW m \in Node, HandleFeedResponse(m, n) PROVE Grows
    <3>1. \A k \in Node : Size(feed[k]) <= Size(feed'[k])
      BY <1>1, <2>6, ResponseSize
    <3>2. \A k \in Node : Size(feed'[k]) \in Nat
      BY <1>1, NextTypeOK, SizeIs DEF TypeOK
    <3> QED
      BY <2>1, <3>1, <3>2
  <2>7. ASSUME NEW n \in Node, NEW f \in Foreign, HandleForeignResponse(n, f[2]) PROVE Grows
    <3> DEFINE a == f[2]
    <3>1. a.items \in Items /\ a.size \in Nat /\ Consider(n, a, DateTaken(a))
      BY <2>7, ForeignIs DEF HandleForeignResponse
    <3>2. /\ ~Overstated(a) => \A k \in Node : Size(feed[k]) <= Size(feed'[k])
          /\ \A k \in Node : k # n => feed'[k] = feed[k]
      <4> HIDE DEF a
      <4> QED
        BY <1>1, <3>1, ConsiderSize
    <3>3. \A k \in Node : Size(feed'[k]) \in Nat
      BY <1>1, NextTypeOK, SizeIs DEF TypeOK
    <3>4. Overstated(a) => Overstatement(n)
      BY <2>7
    <3> HIDE DEF a, Overstatement
    <3> QED
      BY <2>1, <3>2, <3>3, <3>4
  <2> QED
    BY <1>1, <2>2, <2>3, <2>4, <2>5, <2>6, <2>7
       DEF Next, Tick, Flush, HandleFeedRequest, vars
<1>2. TypeOK /\ Bounded /\ [Next]_vars =>
         [\A n \in Node : up[n] /\ up'[n] =>
             \/ Size(feed'[n]) >= Size(feed[n])
             \/ \E f \in Foreign : Overstated(f[2]) /\ HandleForeignResponse(n, f[2])]_vars
  BY <1>1
<1> HIDE DEF Grows, Overstatement
<1> QED
  BY <1>2, TypeCorrect, BoundedHolds, PTL DEF Spec, NeverShrinks

-----------------------------------------------------------------------------
(* Dates *)

\* Nothing is entered in the empty feed.
LEMMA EmptyDated == ASSUME NEW d PROVE Dated(Empty, d)
BY EmptyType DEF Dated

\* A feed of positive size has an entry.
LEMMA SomeEntry ==
    ASSUME NEW items \in Items, NEW other \in Items, Size(items) > Size(other)
    PROVE  \E h \in Hash : h \in Listed(items)
<1>1. IsFiniteSet(Listed(other))
  BY FeedAssumption, FS_Subset DEF Listed
<1>2. Size(other) \in Nat
  BY <1>1, FS_CardinalityType DEF Size
<1>3. Listed(items) # {}
  BY <1>2, FS_EmptySet DEF Size
<1> QED
  BY <1>3 DEF Listed

\* An answer that may replace a feed is dated.
LEMMA ReplacementDated ==
    ASSUME TypeOK, Bounded, DatesInv, NEW m \in Node, NEW n \in Node, answers[m][n] # None,
           MayReplace(n, answers[m][n])
    PROVE  answers[m][n].date > 0
<1> DEFINE a == answers[m][n]
<1>1. /\ a \in Answer /\ a.items \in Items /\ a.date \in Time
      /\ feed[n] \in Items /\ feedDate[n] \in Time
  BY DEF TypeOK, Answer
<1>2. CASE a.size > Size(feed[n])
  <2>1. PICK h \in Hash : h \in Listed(a.items)
    BY <1>1, <1>2, SomeEntry DEF Bounded
  <2>2. 1 <= a.items[h].feedDate /\ a.items[h].feedDate <= a.date
    BY <2>1 DEF DatesInv, AnswersDated, Dated
  <2>3. a.items[h].feedDate \in Int /\ a.date \in Int
    BY <1>1, <2>1 DEF Items, Item, Listed, Time
  <2> QED
    BY <2>2, <2>3
<1>3. CASE a.date > feedDate[n]
  BY <1>1, <1>3 DEF Time
<1> QED
  BY <1>2, <1>3 DEF MayReplace

\* A vote is dated now, and no entry later.
LEMMA AddByHashDates ==
    ASSUME TypeOK, DatesInv, NEW n \in Node, NEW h \in Hash, NEW votes \in Votes,
           AddByHash(n, h, votes)
    PROVE  DatesInv'
<1>1. /\ clock' = clock /\ clock \in Int /\ clock >= 1
      /\ UNCHANGED <<file, answers>>
      /\ feedDate' = [feedDate EXCEPT ![n] = clock]
      /\ modified' = [modified EXCEPT ![n] = clock]
  BY DEF AddByHash, TypeOK, DatesInv, Time
<1>2. FilesDated' /\ AnswersDated'
  BY <1>1 DEF DatesInv, FilesDated, AnswersDated, Dated, Listed
<1>3. \A k \in Listed(feed[n]) : /\ feed[n][k] \in Item
                                 /\ 1 <= feed[n][k].feedDate
                                 /\ feed[n][k].feedDate <= clock
  <2>1. \A k \in Listed(feed[n]) : feed[n][k] \in Item
    BY DEF Listed, TypeOK, Items
  <2>2. feedDate[n] <= modified[n] /\ modified[n] <= clock /\ Dated(feed[n], feedDate[n])
    BY DEF DatesInv, FeedsDated
  <2>3. feedDate[n] \in Int /\ modified[n] \in Int
    BY DEF TypeOK, Time
  <2> QED
    BY <1>1, <2>1, <2>2, <2>3 DEF Dated, Item, Time
<1>4. Dated(feed'[n], clock)
  <2>1. CASE h \in Listed(feed[n])
    <3>1. feed'[n] = [feed[n] EXCEPT ![h] = Refreshed(feed[n][h], votes)]
      BY <2>1 DEF AddByHash, Add, TypeOK
    <3>2. feed[n] \in Items
      BY DEF TypeOK
    <3>3. \A k \in Hash : k # h => feed'[n][k] = feed[n][k]
      BY <3>1, <3>2 DEF Items
    <3>4. feed'[n][h].feedDate = feed[n][h].feedDate
      BY <3>1, <3>2 DEF Items, Refreshed
    <3> QED
      BY <1>3, <2>1, <3>3, <3>4 DEF Dated, Listed
  <2>2. CASE h \notin Listed(feed[n])
    <3> DEFINE new == [votes |-> votes, feedDate |-> clock]
    <3>1. new \in Item /\ new.feedDate = clock /\ feed[n] \in Items
      BY DEF Item, TypeOK
    <3>2. PICK items \in Added(feed[n], h, new) : feed' = [feed EXCEPT ![n] = items]
      BY <2>2 DEF AddByHash, Add
    <3>3. feed'[n] = items
      BY <3>2 DEF TypeOK
    <3> HIDE DEF new
    <3>4. \A k \in Listed(items) :
             IF k = h THEN items[k] = new ELSE k \in Listed(feed[n]) /\ items[k] = feed[n][k]
      BY <3>1, <3>2, AddedEntries
    <3> QED
      BY <1>1, <1>3, <3>1, <3>3, <3>4 DEF Dated
  <2> QED
    BY <2>1, <2>2
<1>5. \A k \in Node : k # n => feed'[k] = feed[k]
  BY DEF AddByHash, Add, TypeOK
<1>6. FeedsDated'
  <2> SUFFICES ASSUME NEW k \in Node
               PROVE  /\ Dated(feed'[k], feedDate'[k])
                      /\ feedDate'[k] <= modified'[k] /\ modified'[k] <= clock'
    BY DEF FeedsDated, Dated, Listed
  <2>1. CASE k = n
    BY <1>1, <1>4, <2>1 DEF TypeOK
  <2>2. CASE k # n
    BY <1>1, <1>5, <2>2 DEF DatesInv, FeedsDated, TypeOK
  <2> QED
    BY <2>1, <2>2
<1> QED
  BY <1>1, <1>2, <1>6 DEF DatesInv

\* Writing a file leaves it dated.
LEMMA PersistDates ==
    ASSUME TypeOK, DatesInv, clock' = clock, NEW n \in Node, NEW ok,
           PersistNow(n, ok) \/ UNCHANGED file
    PROVE  FilesDated'
<1>1. CASE UNCHANGED file
  BY <1>1 DEF DatesInv, FilesDated, Dated, Listed
<1>2. CASE file' = [file EXCEPT ![n] = [items |-> feed[n], modified |-> modified[n]]]
  <2>1. Dated(feed[n], modified[n]) /\ modified[n] <= clock
    <3>1. /\ Dated(feed[n], feedDate[n])
          /\ feedDate[n] <= modified[n] /\ modified[n] <= clock
      BY DEF DatesInv, FeedsDated
    <3>2. /\ feedDate[n] \in Int /\ modified[n] \in Int
          /\ \A h \in Listed(feed[n]) : feed[n][h].feedDate \in Int
      BY DEF TypeOK, Items, Item, Listed, Time
    <3> QED
      BY <3>1, <3>2 DEF Dated
  <2> SUFFICES ASSUME NEW k \in Node
               PROVE  Dated(file'[k].items, file'[k].modified) /\ file'[k].modified <= clock
    BY DEF FilesDated, Dated, Listed
  <2>2. CASE k = n
    BY <1>2, <2>1, <2>2 DEF TypeOK
  <2>3. CASE k # n
    BY <1>2, <2>3 DEF DatesInv, FilesDated, TypeOK
  <2> QED
    BY <2>2, <2>3
<1> QED
  BY <1>1, <1>2 DEF PersistNow

\* A node that stops has no feed and no answers under way.
LEMMA LeaveDates ==
    ASSUME TypeOK, DatesInv, NEW n \in Node, Leave(n), FilesDated' PROVE DatesInv'
<1>1. clock' = clock /\ clock \in Int /\ clock >= 1
  BY DEF Leave, TypeOK, DatesInv, Time
<1>2. FeedsDated'
  <2> SUFFICES ASSUME NEW k \in Node
               PROVE  /\ Dated(feed'[k], feedDate'[k])
                      /\ feedDate'[k] <= modified'[k] /\ modified'[k] <= clock'
    BY DEF FeedsDated, Dated, Listed
  <2>1. CASE k = n
    <3>1. feed'[k] = Empty /\ feedDate'[k] = 0 /\ modified'[k] = 0
      BY <2>1 DEF Leave, TypeOK
    <3> QED
      BY <1>1, <3>1, EmptyDated
  <2>2. CASE k # n
    BY <1>1, <2>2 DEF Leave, TypeOK, DatesInv, FeedsDated
  <2> QED
    BY <2>1, <2>2
<1>3. \A m, k \in Node : answers'[m][k] # None => answers'[m][k] = answers[m][k]
  BY DEF Leave
<1>4. AnswersDated'
  BY <1>1, <1>3 DEF DatesInv, AnswersDated, Dated, Listed
<1> QED
  BY <1>1, <1>2, <1>4 DEF DatesInv

\* Of a dated list dated entries are taken.
LEMMA TakenDated ==
    ASSUME NEW items \in Items, NEW new \in Taken(items), NEW d, Dated(items, d)
    PROVE  Dated(new, d)
BY TakenEntries DEF Dated

\* A feed that is loaded is dated by its newest entry.
LEMMA LoadDates ==
    ASSUME TypeOK, DatesInv, NEW n \in Node, Load(n) PROVE DatesInv'
<1>1. /\ clock' = clock /\ clock \in Int /\ clock >= 1
      /\ UNCHANGED <<file, answers>>
      /\ modified' = [modified EXCEPT ![n] = file[n].modified]
  BY DEF Load, TypeOK, DatesInv, Time
<1>0. PICK items \in Taken(file[n].items) : \E e \in Newest(items) :
         /\ feed' = [feed EXCEPT ![n] = items]
         /\ feedDate' = [feedDate EXCEPT ![n] = e]
  BY DEF Load
<1>2. PICK d \in Newest(items) : /\ feed' = [feed EXCEPT ![n] = items]
                                 /\ feedDate' = [feedDate EXCEPT ![n] = d]
  BY <1>0
<1>3. file[n].items \in Items /\ file[n].modified \in Time /\ items \in Items
  BY <1>0, TakenEntries DEF TypeOK
<1>4. /\ d \in Time
      /\ \A h \in Listed(items) : items[h].feedDate <= d
      /\ d = 0 \/ \E h \in Listed(items) : d = items[h].feedDate
  BY <1>2, <1>3, NewestType
<1>5. Dated(items, file[n].modified) /\ file[n].modified <= clock
  BY <1>0, <1>3, TakenDated DEF DatesInv, FilesDated
<1>6. Dated(items, d) /\ d <= file[n].modified
  BY <1>3, <1>4, <1>5 DEF Dated, Time
<1>7. FeedsDated'
  <2> SUFFICES ASSUME NEW k \in Node
               PROVE  /\ Dated(feed'[k], feedDate'[k])
                      /\ feedDate'[k] <= modified'[k] /\ modified'[k] <= clock'
    BY DEF FeedsDated, Dated, Listed
  <2>1. CASE k = n
    BY <1>1, <1>2, <1>5, <1>6, <2>1 DEF TypeOK
  <2>2. CASE k # n
    BY <1>1, <1>2, <2>2 DEF TypeOK, DatesInv, FeedsDated
  <2> QED
    BY <2>1, <2>2
<1>8. FilesDated' /\ AnswersDated'
  BY <1>1 DEF DatesInv, FilesDated, AnswersDated, Dated, Listed
<1> QED
  BY <1>1, <1>7, <1>8 DEF DatesInv

\* An answer is dated as the feed it copies.
LEMMA RequestDates ==
    ASSUME TypeOK, DatesInv, NEW m \in Node, NEW n \in Node, HandleFeedRequest(m, n)
    PROVE  DatesInv'
<1> DEFINE new == [items |-> feed[m], size |-> Size(feed[m]), date |-> feedDate[m],
                   modified |-> modified[m]]
<1>1. /\ UNCHANGED <<clock, feed, feedDate, modified, file>>
      /\ answers' = [answers EXCEPT ![m][n] = new]
  BY DEF HandleFeedRequest
<1>2. /\ Dated(new.items, new.date)
      /\ new.date <= new.modified /\ new.modified <= clock
  BY DEF DatesInv, FeedsDated
<1> HIDE DEF new
<1>3. AnswersDated'
  <2> SUFFICES ASSUME NEW k \in Node, NEW l \in Node, answers'[k][l] # None
               PROVE  /\ Dated(answers'[k][l].items, answers'[k][l].date)
                      /\ answers'[k][l].date <= answers'[k][l].modified
                      /\ answers'[k][l].modified <= clock'
    BY DEF AnswersDated, Dated, Listed
  <2>1. CASE k = m /\ l = n
    BY <1>1, <1>2, <2>1 DEF TypeOK
  <2>2. CASE ~(k = m /\ l = n)
    <3>1. answers'[k][l] = answers[k][l]
      BY <1>1, <2>2 DEF TypeOK
    <3> QED
      BY <1>1, <3>1 DEF DatesInv, AnswersDated
  <2> QED
    BY <2>1, <2>2
<1>4. FeedsDated' /\ FilesDated' /\ clock' >= 1
  BY <1>1 DEF DatesInv, FeedsDated, FilesDated, Dated, Listed
<1> QED
  BY <1>3, <1>4 DEF DatesInv

\* A list taken over is dated as it was, or now.
LEMMA ConsiderDates ==
    ASSUME TypeOK, DatesInv, UNCHANGED clock, NEW n \in Node, NEW a, a.items \in Items,
           a.date \in Time, NEW last \in Time,
           MayReplace(n, a) => /\ Dated(a.items, DateTaken(a))
                               /\ DateTaken(a) <= last /\ last <= clock,
           Consider(n, a, last)
    PROVE  FeedsDated'
<1>1. CASE ~MayReplace(n, a)
  <2>1. UNCHANGED <<feed, feedDate, modified>>
    BY <1>1 DEF Consider
  <2> QED
    BY <2>1 DEF DatesInv, FeedsDated, Dated, Listed
<1>2. CASE MayReplace(n, a)
  <2>1. /\ feedDate' = [feedDate EXCEPT ![n] = DateTaken(a)]
        /\ modified' = [modified EXCEPT ![n] = last]
    BY <1>2 DEF Consider, Replace
  <2>2. PICK items \in Taken(a.items) : feed' = [feed EXCEPT ![n] = items]
    BY <1>2 DEF Consider, Replace
  <2>3. Dated(items, DateTaken(a))
    BY <1>2, <2>2, TakenDated
  <2> SUFFICES ASSUME NEW k \in Node
               PROVE  /\ Dated(feed'[k], feedDate'[k])
                      /\ feedDate'[k] <= modified'[k] /\ modified'[k] <= clock'
    BY DEF FeedsDated, Dated, Listed
  <2>4. CASE k = n
    BY <1>2, <2>1, <2>2, <2>3, <2>4 DEF TypeOK
  <2>5. CASE k # n
    BY <2>1, <2>2, <2>5 DEF TypeOK, DatesInv, FeedsDated
  <2> QED
    BY <2>4, <2>5
<1> QED
  BY <1>1, <1>2

\* A feed taken over keeps the date it came with.
LEMMA ResponseDates ==
    ASSUME TypeOK, Bounded, DatesInv, NEW m \in Node, NEW n \in Node,
           HandleFeedResponse(m, n)
    PROVE  DatesInv'
<1> DEFINE a == answers[m][n]
<1>1. /\ UNCHANGED <<clock, file>> /\ a # None /\ a \in Answer
      /\ answers' = [answers EXCEPT ![m][n] = None]
  BY DEF HandleFeedResponse, TypeOK
<1>2. \A k, l \in Node : answers'[k][l] # None => answers'[k][l] = answers[k][l]
  BY <1>1 DEF TypeOK
<1>3. AnswersDated' /\ FilesDated' /\ clock' >= 1
  BY <1>1, <1>2 DEF DatesInv, AnswersDated, FilesDated, Dated, Listed
<1>4. MayReplace(n, a) => DateTaken(a) = a.date
  BY <1>1, ReplacementDated DEF DateTaken
<1>5. Dated(a.items, a.date) /\ a.date <= a.modified /\ a.modified <= clock
  BY <1>1 DEF DatesInv, AnswersDated
<1>6. a.items \in Items /\ a.date \in Time /\ a.modified \in Time
  BY <1>1 DEF Answer
<1>7. Consider(n, a, a.modified)
  BY DEF HandleFeedResponse
<1> HIDE DEF a
<1>8. FeedsDated'
  BY <1>1, <1>4, <1>5, <1>6, <1>7, ConsiderDates
<1> QED
  BY <1>3, <1>8 DEF DatesInv

\* What another program sends is dated as it says, or now.
LEMMA ForeignDates ==
    ASSUME TypeOK, DatesInv, NEW n \in Node, NEW a, HandleForeignResponse(n, a)
    PROVE  DatesInv'
<1>1. UNCHANGED <<clock, file, answers>> /\ a.date <= clock /\ Consider(n, a, DateTaken(a))
  BY DEF HandleForeignResponse
<1>2. a.items \in Items /\ a.date \in Time /\ Dated(a.items, a.date)
  BY ForeignIs
<1>3. clock \in Time /\ clock >= 1
  BY DEF TypeOK, DatesInv
<1>4. DateTaken(a) \in Time /\ DateTaken(a) <= clock
  BY <1>1, <1>2, <1>3, FeedAssumption DEF DateTaken, Time
<1>5. Dated(a.items, DateTaken(a))
  <2>1. \A h \in Listed(a.items) : a.items[h].feedDate \in Int
    BY <1>2 DEF Items, Item, Listed, Time
  <2>2. a.date \in Int /\ a.date >= 0
    BY <1>2, FeedAssumption DEF Time
  <2> QED
    BY <1>2, <2>1, <2>2 DEF Dated, DateTaken
<1>6. FeedsDated'
  BY <1>1, <1>2, <1>4, <1>5, ConsiderDates DEF Time
<1>7. AnswersDated' /\ FilesDated' /\ clock' >= 1
  BY <1>1, <1>3 DEF DatesInv, AnswersDated, FilesDated, Dated, Listed
<1> QED
  BY <1>6, <1>7 DEF DatesInv

\* Every step keeps all dates in order.
LEMMA NextDates == ASSUME TypeOK, Bounded, DatesInv, [Next]_vars PROVE DatesInv'
<1>1. CASE Tick
  <2>1. clock' = clock + 1 /\ clock \in Int /\ UNCHANGED <<feed, feedDate, modified, file, answers>>
    BY <1>1 DEF Tick, TypeOK, Time
  <2>2. \A n \in Node : /\ modified[n] \in Int /\ file[n].modified \in Int
    BY DEF TypeOK, Time
  <2>3. \A m, n \in Node : answers[m][n] # None => answers[m][n].modified \in Int
    BY DEF TypeOK, Time, Answer
  <2>4. FeedsDated'
    BY <2>1, <2>2 DEF DatesInv, FeedsDated, Dated, Listed
  <2>5. FilesDated'
    BY <2>1, <2>2 DEF DatesInv, FilesDated, Dated, Listed
  <2>6. AnswersDated'
    BY <2>1, <2>3 DEF DatesInv, AnswersDated, Dated, Listed
  <2> QED
    BY <2>1, <2>4, <2>5, <2>6 DEF DatesInv
<1>2. CASE UNCHANGED vars
  BY <1>2 DEF vars, DatesInv, FeedsDated, FilesDated, AnswersDated, Dated, Listed
<1>3. ASSUME NEW n \in Node, NEW ok \in WriteOutcomes, Flush(n, ok)
      PROVE  DatesInv'
  <2>1. UNCHANGED <<clock, feed, feedDate, modified, answers>>
    BY <1>3 DEF Flush
  <2>2. FilesDated'
    BY <1>3, <2>1, PersistDates DEF Flush
  <2> QED
    BY <2>1, <2>2 DEF DatesInv, FeedsDated, AnswersDated, Dated, Listed
<1>4. ASSUME NEW n \in Node, NEW ok, Shutdown(n, ok) \/ Crash(n)
      PROVE  DatesInv'
  <2>1. Leave(n) /\ clock' = clock
    BY <1>4 DEF Shutdown, Crash, Leave
  <2>2. FilesDated'
    BY <1>4, <2>1, PersistDates DEF Shutdown, Crash, Save
  <2> QED
    BY <2>1, <2>2, LeaveDates
<1>5. ASSUME NEW n \in Node, NEW h \in Hash, NEW votes \in Votes, AddByHash(n, h, votes)
      PROVE  DatesInv'
  BY <1>5, AddByHashDates
<1>6. ASSUME NEW n \in Node, NEW m \in Node,
             HandleFeedRequest(m, n) \/ HandleFeedResponse(m, n)
      PROVE  DatesInv'
  BY <1>6, RequestDates, ResponseDates
<1> QED
  BY <1>1, <1>2, <1>3, <1>4, <1>5, <1>6, LoadDates, ForeignDates DEF Next

\* For any number of nodes, however often feeds are handed on, reloaded or lost, none
\* is dated after the last vote that went into it.
THEOREM NeverPredatedHolds == Spec => []NeverPredated
<1>1. Init => DatesInv
  BY EmptyDated DEF Init, DatesInv, FeedsDated, FilesDated, AnswersDated
<1>2. TypeOK /\ Bounded /\ DatesInv /\ [Next]_vars => DatesInv'
  BY NextDates
<1>3. DatesInv => NeverPredated
  BY DEF DatesInv, FeedsDated, NeverPredated
<1> QED
  BY <1>1, <1>2, <1>3, TypeCorrect, BoundedHolds, PTL DEF Spec

-----------------------------------------------------------------------------
(* The file *)

\* A vote or a feed taken over makes the feed dirty; a flush that finds it dirty
\* writes all of it.
LEMMA NextSaved ==
    ASSUME WriteOutcomes \subseteq {TRUE}, TypeOK, Bounded, CleanIsSaved, [Next]_vars
    PROVE  CleanIsSaved'
<1>1. ASSUME NEW n \in Node,
             \A k \in Node : k # n => /\ up'[k] = up[k] /\ dirty'[k] = dirty[k]
                                      /\ file'[k] = file[k] /\ feed'[k] = feed[k],
             up'[n] /\ ~dirty'[n] => file'[n].items = feed'[n]
      PROVE  CleanIsSaved'
  BY <1>1 DEF CleanIsSaved
<1>2. CASE UNCHANGED <<up, dirty, file, feed>>
  BY <1>2 DEF CleanIsSaved
<1>3. ASSUME NEW n \in Node, NEW ok \in WriteOutcomes, Flush(n, ok) PROVE CleanIsSaved'
  <2>1. ok = TRUE /\ UNCHANGED <<up, feed>>
    BY <1>3 DEF Flush
  <2>2. CASE dirty[n]
    <3>1. /\ dirty' = [dirty EXCEPT ![n] = FALSE]
          /\ file' = [file EXCEPT ![n] = [items |-> feed[n], modified |-> modified[n]]]
      BY <1>3, <2>1, <2>2 DEF Flush, PersistNow
    <3>2. file'[n].items = feed'[n]
      BY <2>1, <3>1 DEF TypeOK
    <3> QED
      BY <1>1, <2>1, <3>1, <3>2 DEF TypeOK
  <2>3. CASE ~dirty[n]
    BY <1>2, <1>3, <2>1, <2>3 DEF Flush
  <2> QED
    BY <2>2, <2>3
<1>4. ASSUME NEW n \in Node, NEW ok, Shutdown(n, ok) \/ Crash(n) PROVE CleanIsSaved'
  <2>1. up'[n] = FALSE
    BY <1>4 DEF Shutdown, Crash, Leave, TypeOK
  <2>2. \A k \in Node : k # n => /\ up'[k] = up[k] /\ dirty'[k] = dirty[k]
                                 /\ file'[k] = file[k] /\ feed'[k] = feed[k]
    BY <1>4 DEF Shutdown, Crash, Leave, Save, PersistNow, TypeOK
  <2> QED
    BY <1>1, <2>1, <2>2
<1>5. ASSUME NEW n \in Node, Load(n) PROVE CleanIsSaved'
  <2>1. PICK items \in Taken(file[n].items) : feed' = [feed EXCEPT ![n] = items]
    BY <1>5 DEF Load
  <2>2. items = file[n].items
    BY <2>1, TakenWhole DEF TypeOK, Bounded
  <2> QED
    BY <1>1, <1>5, <2>1, <2>2 DEF Load, flushing, TypeOK
<1>6. ASSUME NEW n \in Node, MarkDirty(n), UNCHANGED <<up, file>>,
             \A k \in Node : k # n => feed'[k] = feed[k]
      PROVE  CleanIsSaved'
  BY <1>1, <1>6 DEF MarkDirty, TypeOK
<1>7. ASSUME NEW n \in Node, NEW h \in Hash, NEW votes \in Votes, AddByHash(n, h, votes)
      PROVE  CleanIsSaved'
  <2>1. \A k \in Node : k # n => feed'[k] = feed[k]
    BY <1>7 DEF AddByHash, Add, TypeOK
  <2> QED
    BY <1>6, <1>7, <2>1 DEF AddByHash
<1>8. ASSUME NEW n \in Node, NEW a, NEW last, Consider(n, a, last), UNCHANGED <<up, file>>
      PROVE  CleanIsSaved'
  <2>1. CASE Replace(n, a, last)
    BY <1>6, <1>8, <2>1 DEF Replace, TypeOK
  <2>2. CASE UNCHANGED <<feed, flushing>>
    BY <1>2, <1>8, <2>2 DEF flushing
  <2> QED
    BY <1>8, <2>1, <2>2 DEF Consider
<1>9. CASE \/ Tick \/ UNCHANGED vars
           \/ \E n \in Node, m \in Node : HandleFeedRequest(m, n)
  BY <1>2, <1>9 DEF Tick, HandleFeedRequest, vars, flushing
<1> QED
  BY <1>3, <1>4, <1>5, <1>7, <1>8, <1>9 DEF Next, HandleFeedResponse, HandleForeignResponse

\* While writing the file succeeds: what a running node holds is a feed of no more
\* than maxSize_, and the one on disk unless a flush is owed (Feed::save).
THEOREM FeedKeptHolds == ASSUME WriteOutcomes \subseteq {TRUE} PROVE Spec => []FeedKept
<1>1. Init => CleanIsSaved
  BY DEF Init, CleanIsSaved
<1>2. TypeOK /\ Bounded /\ CleanIsSaved /\ [Next]_vars => CleanIsSaved'
  BY NextSaved
<1>3. TypeOK /\ Bounded /\ CleanIsSaved => FeedKept
  BY DEF FeedKept
<1> QED
  BY <1>1, <1>2, <1>3, TypeCorrect, BoundedHolds, PTL DEF Spec

=============================================================================
