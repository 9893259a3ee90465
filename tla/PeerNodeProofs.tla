---------------------------- MODULE PeerNodeProofs ----------------------------
(***************************************************************************)
(* For any peers, hashes and votes, and any order in which librats, the    *)
(* delayed tasks and the stops come: replication goes on with one closure  *)
(* and counts no torrent twice, the table of peers is that of the links as *)
(* soon as the loop has caught up, and a vote of this node counts once.    *)
(*                                                                         *)
(* The batch that runs and the queue behind it are one line: whatever is   *)
(* posted goes to its end, a batch is taken without a change to it, and a  *)
(* task that is done leaves it at its head.                                *)
(***************************************************************************)
EXTENDS PeerNode, FiniteSetTheorems, SequenceTheorems, TLAPS

Jobs == due \o queue

OfLink == [kind : {"connected", "disconnected"}, peer : Peer]
OfPeer == [kind : Request \cup Response \cup {"client_info", "record"},
           peer : Peer, hash : Hash, good : Nat]
OfUs == [kind : {"vote"}, peer : {Us}, hash : Hash, good : {0, 1}]
Message == [kind : Closure] \cup OfLink \cup OfPeer \cup OfUs

\* Where a closure of kind c stands in s, and how many there are.
Marks(s, c) == {k \in 1..Len(s) : s[k].kind = c}
Held(s, c) == Cardinality(Marks(s, c))

\* Closures of kind c, come due or not.
Pending(c) == delayed[c] + Held(Jobs, c)

Says(m, p) == m.kind = "disconnected" /\ m.peer = p
Gone(s, p) == \E j \in 1..Len(s) : Says(s[j], p)

\* A client_info of a peer that is not linked any more is followed by its end.
Followed(s, L) ==
    \A i \in 1..Len(s) : s[i].kind = "client_info" =>
        s[i].peer \in L \/ \E j \in 1..Len(s) : j > i /\ Says(s[j], s[i].peer)

-----------------------------------------------------------------------------
(* The inductive invariant *)

Typed == /\ queue \in Seq(Message) /\ due \in Seq(Message)
         /\ rows \in [Hash -> Int] /\ \A h \in Hash : rows[h] >= Absent
         /\ links \subseteq Peer /\ table \subseteq Peer /\ feed \subseteq Hash
         /\ delayed \in [Closure -> Nat]
         /\ running \in BOOLEAN
         /\ received \in Nat /\ total \in Nat /\ replicated \in Nat
         /\ counted \in [Hash -> Nat]

\* One closure goes on with replication, and none when it does not run.
OneClosure == Pending("cycle") + Pending("settle") = IF running THEN 1 ELSE 0

\* While a settle is to come, what it will add has not been added yet.
CountedOnce == /\ total <= replicated
               /\ Pending("settle") # 0 => total + received <= replicated

TableFollows == node => /\ Followed(Jobs, links)
                        /\ \A p \in table : p \in links \/ Gone(Jobs, p)

VotesOnce == \A h \in Hash : counted[h] <= 1 /\ (h \notin selfVoted => counted[h] = 0)

IInv == Typed /\ OneClosure /\ CountedOnce /\ TableFollows /\ VotesOnce
-----------------------------------------------------------------------------
(* Messages *)

\* What each kind of task carries.
LEMMA MessageFields ==
    ASSUME NEW m \in Message
    PROVE  /\ m.kind \in Request \cup Response \cup {"client_info", "record", "vote"} =>
                 m.hash \in Hash /\ m.good \in Nat
           /\ m.kind \in {"connected", "disconnected", "client_info"} => m.peer \in Peer
<1>1. CASE m \in [kind : Closure]
  BY <1>1 DEF Closure, Request, Response
<1>2. CASE m \in OfLink
  BY <1>2 DEF OfLink, Request, Response
<1>3. CASE m \in OfPeer
  BY <1>3 DEF OfPeer, Request, Response
<1>4. CASE m \in OfUs
  BY <1>4 DEF OfUs, Request, Response
<1> QED
  BY <1>1, <1>2, <1>3, <1>4 DEF Message

\* The marks in a sequence are finite.
LEMMA MarksFinite ==
    ASSUME NEW s \in Seq(Message), NEW c
    PROVE  IsFiniteSet(Marks(s, c)) /\ Held(s, c) \in Nat
<1>1. Len(s) \in Nat
  BY LenProperties
<1>2. IsFiniteSet(1..Len(s))
  BY <1>1, FS_Interval
<1>3. Marks(s, c) \in SUBSET (1..Len(s))
  BY DEF Marks
<1>4. IsFiniteSet(Marks(s, c))
  BY <1>2, <1>3, FS_Subset
<1> QED
  BY <1>4, FS_CardinalityType DEF Held

\* A closure is added at the end.
LEMMA AppendMarks ==
    ASSUME NEW s \in Seq(Message), NEW m \in Message, NEW c
    PROVE  Held(Append(s, m), c) = Held(s, c) + (IF m.kind = c THEN 1 ELSE 0)
<1> DEFINE t == Append(s, m)
<1>1. /\ Len(s) \in Nat /\ Len(t) = Len(s) + 1 /\ t[Len(s) + 1] = m
      /\ \A i \in 1..Len(s) : t[i] = s[i]
  BY AppendProperties, LenProperties
<1> HIDE DEF t
<1>2. IsFiniteSet(Marks(s, c)) /\ Held(s, c) \in Nat
  BY MarksFinite
<1>3. CASE m.kind = c
  <2>1. Marks(t, c) = Marks(s, c) \cup {Len(s) + 1}
    BY <1>1, <1>3 DEF Marks
  <2>2. Len(s) + 1 \notin Marks(s, c)
    BY <1>1 DEF Marks
  <2> QED
    BY <1>2, <1>3, <2>1, <2>2, FS_AddElement, ZenonT(40) DEF Held, t
<1>4. CASE m.kind # c
  <2>1. Marks(t, c) = Marks(s, c)
    BY <1>1, <1>4 DEF Marks
  <2> QED
    BY <1>2, <1>4, <2>1 DEF Held, t
<1> QED
  BY <1>3, <1>4

\* Marks that are moved are as many.
LEMMA MovedMarks ==
    ASSUME NEW S \in SUBSET Int, IsFiniteSet(S), NEW d \in Int
    PROVE  /\ IsFiniteSet({k + d : k \in S})
           /\ Cardinality({k + d : k \in S}) = Cardinality(S)
<1> DEFINE T == {k + d : k \in S}
           f == [k \in S |-> k + d]
<1>0. \A k \in S : k \in Int /\ f[k] = k + d
  OBVIOUS
<1>1. f \in [S -> T] /\ \A j, k \in S : f[j] = f[k] => j = k
  <2>1. f \in [S -> T]
    OBVIOUS
  <2>2. ASSUME NEW j \in S, NEW k \in S, f[j] = f[k] PROVE j = k
    <3>1. j \in Int /\ k \in Int /\ j + d = k + d
      BY <1>0, <2>2
    <3> QED
      BY <3>1
  <2> QED
    BY <2>1, <2>2
<1>2. \A t \in T : \E k \in S : f[k] = t
  OBVIOUS
<1>3. f \in Bijection(S, T)
  BY <1>1, <1>2 DEF Bijection, Injection, Surjection, IsInjective
<1>4. ExistsBijection(S, T)
  BY <1>3 DEF ExistsBijection
<1> QED
  BY <1>4, FS_Bijection

\* The head goes.
LEMMA TailMarks ==
    ASSUME NEW s \in Seq(Message), s # <<>>, NEW c
    PROVE  Held(Tail(s), c) = Held(s, c) - (IF Head(s).kind = c THEN 1 ELSE 0)
<1> DEFINE t == Tail(s)
<1>1. /\ Len(s) \in Nat /\ Len(s) >= 1 /\ Len(t) = Len(s) - 1 /\ t \in Seq(Message)
      /\ \A i \in 1..Len(t) : t[i] = s[i + 1]
      /\ Head(s) = s[1]
  BY HeadTailProperties, LenProperties, EmptySeq
<1> HIDE DEF t
<1>2. IsFiniteSet(Marks(s, c)) /\ Held(s, c) \in Nat /\ IsFiniteSet(Marks(t, c))
  BY <1>1, MarksFinite
<1>3. {k + 1 : k \in Marks(t, c)} = Marks(s, c) \ {1}
  <2>1. ASSUME NEW k \in Marks(t, c) PROVE k + 1 \in Marks(s, c) \ {1}
    BY <1>1 DEF Marks
  <2>2. ASSUME NEW k \in Marks(s, c) \ {1} PROVE k \in {j + 1 : j \in Marks(t, c)}
    <3>1. k - 1 \in 1..Len(t) /\ k = (k - 1) + 1
      BY <1>1 DEF Marks
    <3>2. k - 1 \in Marks(t, c)
      BY <1>1, <3>1 DEF Marks
    <3> QED
      BY <3>1, <3>2
  <2> QED
    BY <2>1, <2>2
<1>4. Held(t, c) = Cardinality(Marks(s, c) \ {1})
  <2>1. Marks(t, c) \in SUBSET Int /\ 1 \in Int
    BY <1>1 DEF Marks
  <2>2. Cardinality({k + 1 : k \in Marks(t, c)}) = Cardinality(Marks(t, c))
    BY <1>2, <2>1, MovedMarks
  <2> QED
    BY <1>3, <2>2 DEF Held
<1>5. 1 \in Marks(s, c) <=> Head(s).kind = c
  BY <1>1 DEF Marks
<1>6. Cardinality(Marks(s, c) \ {1}) = IF 1 \in Marks(s, c) THEN Held(s, c) - 1 ELSE Held(s, c)
  BY <1>2, FS_RemoveElement DEF Held
<1> QED
  BY <1>2, <1>4, <1>5, <1>6 DEF t

\* The order of two parts does not matter.
LEMMA ConcatMarks ==
    ASSUME NEW s \in Seq(Message), NEW t \in Seq(Message), NEW c
    PROVE  Held(s \o t, c) = Held(s, c) + Held(t, c)
<1> DEFINE u == s \o t
<1>1. /\ Len(s) \in Nat /\ Len(t) \in Nat /\ Len(u) = Len(s) + Len(t)
      /\ \A i \in 1..Len(s) + Len(t) : u[i] = IF i <= Len(s) THEN s[i] ELSE t[i - Len(s)]
  BY ConcatProperties, LenProperties
<1> HIDE DEF u
<1> DEFINE M == {k + Len(s) : k \in Marks(t, c)}
<1>2. /\ IsFiniteSet(Marks(s, c)) /\ IsFiniteSet(Marks(t, c))
      /\ Held(s, c) \in Nat /\ Held(t, c) \in Nat
  BY MarksFinite
<1>3. IsFiniteSet(M) /\ Cardinality(M) = Held(t, c)
  <2>1. Marks(t, c) \in SUBSET Int /\ Len(s) \in Int
    BY <1>1 DEF Marks
  <2> QED
    BY <1>2, <2>1, MovedMarks DEF Held
<1>4. Marks(u, c) = Marks(s, c) \cup M
  <2>1. ASSUME NEW k \in Marks(u, c) PROVE k \in Marks(s, c) \cup M
    <3>1. k \in 1..Len(s) + Len(t) /\ u[k].kind = c
      BY <1>1 DEF Marks
    <3>2. CASE k <= Len(s)
      BY <1>1, <3>1, <3>2 DEF Marks
    <3>3. CASE k > Len(s)
      <4>1. k - Len(s) \in 1..Len(t) /\ t[k - Len(s)].kind = c
        BY <1>1, <3>1, <3>3
      <4>2. k - Len(s) \in Marks(t, c) /\ k = (k - Len(s)) + Len(s)
        BY <1>1, <3>1, <4>1 DEF Marks
      <4> QED
        BY <4>2
    <3> QED
      BY <1>1, <3>1, <3>2, <3>3
  <2>2. ASSUME NEW k \in Marks(s, c) PROVE k \in Marks(u, c)
    BY <1>1 DEF Marks
  <2>3. ASSUME NEW k \in Marks(t, c) PROVE k + Len(s) \in Marks(u, c)
    <3>1. k \in 1..Len(t) /\ t[k].kind = c
      BY DEF Marks
    <3>2. k + Len(s) \in 1..Len(u) /\ ~(k + Len(s) <= Len(s)) /\ (k + Len(s)) - Len(s) = k
      BY <1>1, <3>1
    <3>3. u[k + Len(s)] = t[k]
      BY <1>1, <3>2
    <3> QED
      BY <3>1, <3>2, <3>3 DEF Marks
  <2> QED
    BY <2>1, <2>2, <2>3
<1>5. Marks(s, c) \cap M = {}
  BY <1>1 DEF Marks
<1> HIDE DEF M
<1>6. Cardinality(Marks(s, c) \cup M) = Cardinality(Marks(s, c)) + Cardinality(M) - Cardinality({})
  BY <1>2, <1>3, <1>5, FS_Union
<1> QED
  BY <1>2, <1>3, <1>4, <1>6, FS_EmptySet DEF Held, u
-----------------------------------------------------------------------------
(* The line *)

\* A post goes to its end.
LEMMA ConcatAppend ==
    ASSUME NEW s \in Seq(Message), NEW t \in Seq(Message), NEW m \in Message
    PROVE  s \o Append(t, m) = Append(s \o t, m)
<1>1. PICK w : w = Append(t, m)
  OBVIOUS
<1>2. /\ w \in Seq(Message) /\ Len(w) = Len(t) + 1
      /\ Len(t) \in Nat /\ Len(s) \in Nat
      /\ \A i \in 1..Len(t) : w[i] = t[i]
      /\ w[Len(t) + 1] = m
  BY <1>1, AppendProperties, LenProperties
<1>3. PICK u : u = s \o w
  OBVIOUS
<1>4. /\ u \in Seq(Message) /\ Len(u) = Len(s) + Len(w)
      /\ \A i \in 1..Len(s) + Len(w) : u[i] = IF i <= Len(s) THEN s[i] ELSE w[i - Len(s)]
  <2>1. w \in Seq(Message)
    BY <1>2
  <2> QED
    BY <1>3, <2>1, ConcatProperties
<1>5. PICK r : r = s \o t
  OBVIOUS
<1>6. /\ r \in Seq(Message) /\ Len(r) = Len(s) + Len(t)
      /\ \A i \in 1..Len(s) + Len(t) : r[i] = IF i <= Len(s) THEN s[i] ELSE t[i - Len(s)]
  BY <1>5, ConcatProperties
<1>7. PICK v : v = Append(r, m)
  OBVIOUS
<1>8. /\ v \in Seq(Message) /\ Len(v) = Len(r) + 1
      /\ \A i \in 1..Len(r) : v[i] = r[i]
      /\ v[Len(r) + 1] = m
  <2>1. r \in Seq(Message)
    BY <1>6
  <2> QED
    BY <1>7, <2>1, AppendProperties
<1>9. ASSUME NEW i \in 1..Len(u) PROVE u[i] = v[i]
  <2>1. i \in 1..Len(s) + Len(w)
    BY <1>4
  <2>2. CASE i <= Len(s)
    <3>1. i \in 1..Len(s) + Len(t) /\ i \in 1..Len(r)
      BY <1>2, <1>6, <2>1, <2>2
    <3> QED
      BY <1>4, <1>6, <1>8, <2>1, <2>2, <3>1
  <2>3. CASE i > Len(s) /\ i <= Len(s) + Len(t)
    <3>1. i - Len(s) \in 1..Len(t) /\ i \in 1..Len(s) + Len(t) /\ i \in 1..Len(r)
          /\ ~(i <= Len(s))
      BY <1>2, <1>6, <2>1, <2>3
    <3>2. u[i] = w[i - Len(s)]
      BY <1>4, <2>1, <3>1
    <3>3. w[i - Len(s)] = t[i - Len(s)]
      BY <1>2, <3>1
    <3>4. v[i] = t[i - Len(s)]
      BY <1>6, <1>8, <3>1
    <3> QED
      BY <3>2, <3>3, <3>4
  <2>4. CASE i = Len(s) + Len(t) + 1
    <3>1. i - Len(s) = Len(t) + 1 /\ ~(i <= Len(s)) /\ i = Len(r) + 1
      BY <1>2, <1>6, <2>4
    <3>2. u[i] = w[i - Len(s)]
      BY <1>4, <2>1, <3>1
    <3>3. u[i] = m
      BY <1>2, <3>1, <3>2
    <3>4. v[i] = m
      BY <1>8, <3>1
    <3> QED
      BY <3>3, <3>4
  <2>5. i <= Len(s) \/ (i > Len(s) /\ i <= Len(s) + Len(t)) \/ i = Len(s) + Len(t) + 1
    <3>1. Len(s) \in Nat /\ Len(t) \in Nat /\ Len(w) = Len(t) + 1 /\ i \in Int
          /\ i <= Len(s) + Len(w)
      BY <1>2, <2>1
    <3> QED
      BY <3>1
  <2> QED
    BY <2>2, <2>3, <2>4, <2>5
<1>10. u = v
  <2>1. Len(u) = Len(v)
    BY <1>2, <1>4, <1>6, <1>8
  <2> QED
    BY <1>4, <1>8, <1>9, <2>1, SeqEqual
<1> QED
  BY <1>1, <1>3, <1>5, <1>7, <1>10

\* What is done was its head.
LEMMA ConcatTail ==
    ASSUME NEW s \in Seq(Message), NEW t \in Seq(Message), s # <<>>
    PROVE  s \o t # <<>> /\ Head(s \o t) = Head(s) /\ Tail(s) \o t = Tail(s \o t)
<1>1. PICK r : r = Tail(s)
  OBVIOUS
<1>2. PICK w : w = s \o t
  OBVIOUS
<1>3. /\ r \in Seq(Message) /\ Len(r) = Len(s) - 1
      /\ Len(s) \in Nat /\ Len(s) >= 1 /\ Len(t) \in Nat
      /\ \A i \in 1..Len(r) : r[i] = s[i + 1]
      /\ Head(s) = s[1]
  BY <1>1, HeadTailProperties, LenProperties, EmptySeq
<1>4. /\ w \in Seq(Message) /\ Len(w) = Len(s) + Len(t)
      /\ \A i \in 1..Len(s) + Len(t) : w[i] = IF i <= Len(s) THEN s[i] ELSE t[i - Len(s)]
  BY <1>2, ConcatProperties
<1>5. w # <<>> /\ Head(w) = w[1] /\ w[1] = s[1]
  BY <1>3, <1>4, EmptySeq
<1>6. PICK u : u = r \o t
  OBVIOUS
<1>7. /\ u \in Seq(Message) /\ Len(u) = Len(r) + Len(t)
      /\ \A i \in 1..Len(r) + Len(t) : u[i] = IF i <= Len(r) THEN r[i] ELSE t[i - Len(r)]
  BY <1>3, <1>6, ConcatProperties
<1>8. PICK v : v = Tail(w)
  OBVIOUS
<1>9. /\ v \in Seq(Message) /\ Len(v) = Len(s) + Len(t) - 1
      /\ \A i \in 1..Len(v) : v[i] = w[i + 1]
  BY <1>4, <1>5, <1>8, HeadTailProperties
<1>10. ASSUME NEW i \in 1..Len(u) PROVE u[i] = v[i]
  <2>1. i \in 1..Len(v) /\ i + 1 \in 1..Len(s) + Len(t)
    BY <1>3, <1>7, <1>9
  <2>2. CASE i <= Len(r)
    <3>1. i \in 1..Len(r) /\ i + 1 <= Len(s)
      BY <1>3, <2>2
    <3> QED
      BY <1>3, <1>4, <1>7, <1>9, <2>1, <3>1
  <2>3. CASE i > Len(r)
    <3>1. ~(i <= Len(r)) /\ ~(i + 1 <= Len(s)) /\ i - Len(r) = (i + 1) - Len(s)
      BY <1>3, <2>3
    <3> QED
      BY <1>4, <1>7, <1>9, <2>1, <3>1
  <2> QED
    BY <1>3, <2>2, <2>3
<1>11. u = v
  <2>1. Len(u) = Len(v)
    BY <1>3, <1>7, <1>9
  <2> QED
    BY <1>7, <1>9, <1>10, <2>1, SeqEqual
<1> QED
  BY <1>1, <1>2, <1>3, <1>5, <1>6, <1>8, <1>11

\* A post does not take a word of a peer's end back, and may be one.
LEMMA GoneAppend ==
    ASSUME NEW s \in Seq(Message), NEW m \in Message, NEW p,
           Gone(s, p) \/ Says(m, p)
    PROVE  Gone(Append(s, m), p)
<1>1. PICK t : t = Append(s, m)
  OBVIOUS
<1>2. /\ Len(s) \in Nat /\ Len(t) = Len(s) + 1 /\ t[Len(s) + 1] = m
      /\ \A i \in 1..Len(s) : t[i] = s[i]
  BY <1>1, AppendProperties, LenProperties
<1>3. CASE Gone(s, p)
  <2>1. PICK j \in 1..Len(s) : Says(s[j], p)
    BY <1>3 DEF Gone
  <2>2. j \in 1..Len(t) /\ Says(t[j], p)
    BY <1>2, <2>1
  <2> QED
    BY <1>1, <2>2 DEF Gone
<1>4. CASE Says(m, p)
  <2>1. Len(s) + 1 \in 1..Len(t) /\ Says(t[Len(s) + 1], p)
    BY <1>2, <1>4
  <2> QED
    BY <1>1, <2>1 DEF Gone
<1> QED
  BY <1>3, <1>4

\* A post to a line that is followed, while the links stay, grow, or lose the peer it is
\* about.
LEMMA FollowedAppend ==
    ASSUME NEW s \in Seq(Message), NEW m \in Message, NEW L, NEW M, Followed(s, L),
           m.kind = "client_info" => m.peer \in M,
           \A p \in L : p \in M \/ Says(m, p)
    PROVE  Followed(Append(s, m), M)
<1>1. PICK t : t = Append(s, m)
  OBVIOUS
<1>2. /\ Len(s) \in Nat /\ Len(t) = Len(s) + 1 /\ t[Len(s) + 1] = m
      /\ \A i \in 1..Len(s) : t[i] = s[i]
  BY <1>1, AppendProperties, LenProperties
<1>3. ASSUME NEW i \in 1..Len(t), t[i].kind = "client_info", t[i].peer \notin M
      PROVE  \E j \in 1..Len(t) : j > i /\ Says(t[j], t[i].peer)
  <2>1. i # Len(s) + 1
    BY <1>2, <1>3
  <2>2. i \in 1..Len(s) /\ t[i] = s[i]
    BY <1>2, <2>1
  <2>3. CASE t[i].peer \in L
    <3>1. Says(m, t[i].peer)
      BY <1>3, <2>3
    <3>2. Len(s) + 1 \in 1..Len(t) /\ Len(s) + 1 > i
      BY <1>2, <2>2
    <3> QED
      BY <1>2, <3>1, <3>2
  <2>4. CASE t[i].peer \notin L
    <3>1. PICK j \in 1..Len(s) : j > i /\ Says(s[j], s[i].peer)
      BY <1>3, <2>2, <2>4 DEF Followed
    <3>2. j \in 1..Len(t) /\ t[j] = s[j]
      BY <1>2
    <3> QED
      BY <2>2, <3>1, <3>2
  <2> QED
    BY <2>3, <2>4
<1> QED
  BY <1>1, <1>3 DEF Followed

\* The head of a line goes: what is left is followed still, and so was a client_info that
\* was the head.
LEMMA FollowedTail ==
    ASSUME NEW s \in Seq(Message), s # <<>>, NEW L, Followed(s, L)
    PROVE  /\ Followed(Tail(s), L)
           /\ \A p : Gone(s, p) => Says(Head(s), p) \/ Gone(Tail(s), p)
           /\ Head(s).kind = "client_info" => Head(s).peer \in L \/ Gone(Tail(s), Head(s).peer)
<1>1. PICK t : t = Tail(s)
  OBVIOUS
<1>2. /\ Len(s) \in Nat /\ Len(s) >= 1 /\ Len(t) = Len(s) - 1
      /\ \A i \in 1..Len(t) : t[i] = s[i + 1]
      /\ Head(s) = s[1]
  BY <1>1, HeadTailProperties, LenProperties, EmptySeq
<1>3. ASSUME NEW i \in 1..Len(t), t[i].kind = "client_info", t[i].peer \notin L
      PROVE  \E j \in 1..Len(t) : j > i /\ Says(t[j], t[i].peer)
  <2>1. i + 1 \in 1..Len(s) /\ t[i] = s[i + 1]
    BY <1>2
  <2>2. PICK j \in 1..Len(s) : j > i + 1 /\ Says(s[j], s[i + 1].peer)
    BY <1>3, <2>1 DEF Followed
  <2>3. j - 1 \in 1..Len(t) /\ j - 1 > i /\ (j - 1) + 1 = j
    BY <1>2, <2>1, <2>2
  <2>4. t[j - 1] = s[j]
    BY <1>2, <2>3
  <2> QED
    BY <2>1, <2>2, <2>3, <2>4
<1>4. ASSUME NEW p, NEW j \in 1..Len(s), j > 1, Says(s[j], p) PROVE Gone(t, p)
  <2>1. j - 1 \in 1..Len(t) /\ (j - 1) + 1 = j
    BY <1>2, <1>4
  <2>2. t[j - 1] = s[j]
    BY <1>2, <2>1
  <2> QED
    BY <1>4, <2>1, <2>2 DEF Gone
<1>5. ASSUME NEW p, Gone(s, p) PROVE Says(Head(s), p) \/ Gone(t, p)
  <2>1. PICK j \in 1..Len(s) : Says(s[j], p)
    BY <1>5 DEF Gone
  <2>2. CASE j = 1
    BY <1>2, <2>1, <2>2
  <2>3. CASE j > 1
    BY <1>4, <2>1, <2>3
  <2> QED
    BY <1>2, <2>2, <2>3
<1>6. ASSUME s[1].kind = "client_info", s[1].peer \notin L PROVE Gone(t, s[1].peer)
  <2>1. 1 \in 1..Len(s)
    BY <1>2
  <2>2. PICK j \in 1..Len(s) : j > 1 /\ Says(s[j], s[1].peer)
    BY <1>6, <2>1 DEF Followed
  <2> QED
    BY <1>4, <2>2
<1> QED
  BY <1>1, <1>2, <1>3, <1>5, <1>6 DEF Followed
-----------------------------------------------------------------------------
(* Steps *)

LEMMA JobsTyped == Typed => Jobs \in Seq(Message)
BY ConcatProperties DEF Typed, Jobs

\* A task that is done was the head of the line; if it was no closure of replication,
\* those that are pending stay.
LEMMA HeadDone ==
    ASSUME Typed, due # <<>>, Done
    PROVE  /\ Task \in Message /\ Jobs # <<>> /\ Head(Jobs) = Task /\ Jobs' = Tail(Jobs)
           /\ queue' \in Seq(Message) /\ due' \in Seq(Message)
           /\ UNCHANGED <<node, links>>
<1>1. due \in Seq(Message) /\ queue \in Seq(Message)
  BY DEF Typed
<1>2. Task \in Message /\ Tail(due) \in Seq(Message)
  BY <1>1, HeadTailProperties DEF Task
<1>3. due' = Tail(due) /\ UNCHANGED <<queue, node, links>>
  BY DEF Done
<1>4. Jobs # <<>> /\ Head(Jobs) = Head(due) /\ Tail(due) \o queue = Tail(Jobs)
  BY <1>1, ConcatTail DEF Jobs
<1>5. Jobs' = Tail(due) \o queue
  BY <1>3 DEF Jobs
<1> QED
  BY <1>1, <1>2, <1>3, <1>4, <1>5 DEF Task

\* How many closures wait, as numbers.
LEMMA HeldNat == ASSUME Typed, NEW c \in Closure PROVE Held(Jobs, c) \in Nat /\ delayed[c] \in Nat
BY JobsTyped, MarksFinite DEF Typed

\* What is posted from outside: no closure of replication, and the end of a link if a
\* link ends.
LEMMA PostKeeps ==
    ASSUME IInv, NEW m \in Message, m.kind \notin Closure,
           queue' = Append(queue, m), due' = due,
           UNCHANGED <<delayed, rows, feed, table, selfVoted, counted>>,
           UNCHANGED <<running, received, total, replicated, node>>,
           links' \subseteq Peer, m.kind = "client_info" => m.peer \in links',
           \A p \in links : p \in links' \/ Says(m, p)
    PROVE  IInv'
<1>1. Typed
  BY DEF IInv
<1>2. queue \in Seq(Message) /\ due \in Seq(Message) /\ Jobs \in Seq(Message)
  BY <1>1, JobsTyped DEF Typed
<1>3. queue' \in Seq(Message)
  BY <1>2, AppendProperties
<1>4. Typed'
  BY <1>1, <1>3 DEF Typed
<1>5. Jobs' = Append(Jobs, m)
  BY <1>2, ConcatAppend DEF Jobs
<1>6. \A c \in Closure : Held(Append(Jobs, m), c) = Held(Jobs, c)
  <2> SUFFICES ASSUME NEW c \in Closure PROVE Held(Append(Jobs, m), c) = Held(Jobs, c)
    OBVIOUS
  <2>1. Held(Jobs, c) \in Nat
    BY <1>1, HeldNat
  <2>2. Held(Append(Jobs, m), c) = Held(Jobs, c) + (IF m.kind = c THEN 1 ELSE 0)
    BY <1>2, AppendMarks
  <2> QED
    BY <2>1, <2>2
<1>7. "cycle" \in Closure /\ "settle" \in Closure
  BY DEF Closure
<1>8. Pending("cycle")' = Pending("cycle") /\ Pending("settle")' = Pending("settle")
  BY <1>5, <1>6, <1>7 DEF Pending
<1>9. OneClosure' /\ CountedOnce'
  BY <1>8 DEF IInv, OneClosure, CountedOnce
<1>10. TableFollows'
  <2> SUFFICES ASSUME node
               PROVE  /\ Followed(Append(Jobs, m), links')
                      /\ \A p \in table : p \in links' \/ Gone(Append(Jobs, m), p)
    BY <1>5 DEF TableFollows
  <2>1. Followed(Jobs, links) /\ \A p \in table : p \in links \/ Gone(Jobs, p)
    BY DEF IInv, TableFollows
  <2>2. Followed(Append(Jobs, m), links')
    BY <1>2, <2>1, FollowedAppend
  <2>3. ASSUME NEW p \in table, p \notin links' PROVE Gone(Append(Jobs, m), p)
    <3>1. Gone(Jobs, p) \/ Says(m, p)
      BY <2>1, <2>3
    <3> QED
      BY <1>2, <3>1, GoneAppend
  <2> QED
    BY <2>2, <2>3
<1>11. VotesOnce'
  BY DEF IInv, VotesOnce
<1> QED
  BY <1>4, <1>9, <1>10, <1>11 DEF IInv

\* The loop takes a batch: what is due now joins the line behind what was posted.
LEMMA CollectKeeps ==
    ASSUME IInv, NEW ripe \in SUBSET Closure, CollectDueTasks(ripe)
    PROVE  IInv'
<1>1. Typed
  BY DEF IInv
<1>2. queue \in Seq(Message) /\ due = <<>>
  BY <1>1 DEF Typed, CollectDueTasks
<1>3. Jobs = queue
  BY <1>2, ConcatEmptySeq DEF Jobs
<1>4. UNCHANGED <<node, links, table, rows, feed, votingVars, replicationVars>> /\ queue' = <<>>
  BY DEF CollectDueTasks
<1>5. CASE ripe = {}
  <2>1. due' = queue
    BY <1>5 DEF CollectDueTasks
  <2>2. Jobs' = queue
    BY <1>2, <1>4, <2>1, ConcatEmptySeq DEF Jobs
  <2>3. delayed' = delayed
    BY <1>1, <1>5 DEF CollectDueTasks, Typed
  <2>4. Typed'
    <3>1. queue' \in Seq(Message) /\ due' \in Seq(Message)
      BY <1>2, <1>4, <2>1, EmptySeq
    <3> QED
      BY <1>1, <1>4, <2>3, <3>1 DEF Typed, votingVars, replicationVars
  <2>5. Jobs' = Jobs
    BY <1>3, <2>2
  <2> QED
    BY <1>4, <2>3, <2>4, <2>5
    DEF IInv, OneClosure, CountedOnce, TableFollows, VotesOnce, Pending, votingVars, replicationVars
<1>6. CASE ripe # {}
  <2>1. PICK c \in Closure : ripe = {c}
    <3>1. IsFiniteSet(ripe) /\ Cardinality(ripe) \in Nat
      <4>1. IsFiniteSet({"cycle"}) /\ IsFiniteSet({"cycle"} \cup {"settle"})
        BY FS_Singleton, FS_AddElement
      <4>2. Closure = {"cycle"} \cup {"settle"}
        BY DEF Closure
      <4> QED
        BY <4>1, <4>2, FS_Subset, FS_CardinalityType
    <3>2. Cardinality(ripe) <= 1 /\ Cardinality(ripe) # 0
      BY <1>6, <3>1, FS_EmptySet DEF CollectDueTasks
    <3>3. Cardinality(ripe) = 1
      BY <3>1, <3>2
    <3>4. \E c : ripe = {c}
      BY <3>1, <3>3, FS_Singleton
    <3> QED
      BY <3>4
  <2>2. PICK m : m = [kind |-> c]
    OBVIOUS
  <2>3. m \in Message /\ m.kind = c
    BY <2>2 DEF Message
  <2>4. due' = Append(queue, m)
    <3>1. (CHOOSE d \in ripe : TRUE) = c
      BY <2>1
    <3> QED
      BY <1>6, <2>2, <3>1 DEF CollectDueTasks
  <2>5. due' \in Seq(Message)
    BY <1>2, <2>3, <2>4, AppendProperties
  <2>6. Jobs' = Append(Jobs, m)
    BY <1>3, <1>4, <2>4, <2>5, ConcatEmptySeq DEF Jobs
  <2>7. /\ delayed' \in [Closure -> Nat] /\ delayed'[c] = delayed[c] - 1
        /\ \A d \in Closure \ {c} : delayed'[d] = delayed[d]
    BY <1>1, <2>1 DEF CollectDueTasks, Typed
  <2>8. Typed'
    <3>1. queue' \in Seq(Message)
      BY <1>4, EmptySeq
    <3> QED
      BY <1>1, <1>4, <2>5, <2>7, <3>1 DEF Typed, votingVars, replicationVars
  <2>9. ASSUME NEW d \in Closure PROVE Pending(d)' = Pending(d)
    <3>1. Held(Append(Jobs, m), d) = Held(Jobs, d) + (IF c = d THEN 1 ELSE 0)
      BY <1>1, <2>3, JobsTyped, AppendMarks
    <3>2. Held(Jobs, d) \in Nat /\ delayed[d] \in Nat
      BY <1>1, HeldNat
    <3>3. delayed'[d] + Held(Append(Jobs, m), d) = delayed[d] + Held(Jobs, d)
      BY <2>7, <3>1, <3>2
    <3> QED
      BY <2>6, <3>3 DEF Pending
  <2>10. OneClosure' /\ CountedOnce'
    <3>1. Pending("cycle")' = Pending("cycle") /\ Pending("settle")' = Pending("settle")
      BY <2>9 DEF Closure
    <3> QED
      BY <1>4, <3>1 DEF IInv, OneClosure, CountedOnce, replicationVars
  <2>11. TableFollows'
    <3> SUFFICES ASSUME node
                 PROVE  /\ Followed(Append(Jobs, m), links)
                        /\ \A p \in table : p \in links \/ Gone(Append(Jobs, m), p)
      BY <1>4, <2>6 DEF TableFollows
    <3>1. Followed(Jobs, links) /\ \A p \in table : p \in links \/ Gone(Jobs, p)
      BY DEF IInv, TableFollows
    <3>2. m.kind # "client_info"
      BY <2>3 DEF Closure
    <3>3. Jobs \in Seq(Message)
      BY <1>1, JobsTyped
    <3> QED
      BY <2>3, <3>1, <3>2, <3>3, FollowedAppend, GoneAppend
  <2>12. VotesOnce'
    BY <1>4 DEF IInv, VotesOnce, votingVars
  <2> QED
    BY <2>8, <2>10, <2>11, <2>12 DEF IInv
<1> QED
  BY <1>5, <1>6

\* A stop, the end of the loop, and of the node after it.
LEMMA EndKeeps ==
    ASSUME IInv, Stop \/ RunReturns \/ NodeStops \/ UNCHANGED nodeVars
    PROVE  IInv'
<1>1. UNCHANGED <<queue, due, delayed, table, rows, feed, votingVars, replicationVars>>
  BY DEF Stop, RunReturns, NodeStops, nodeVars, loopVars
<1>2. Jobs' = Jobs
  BY <1>1 DEF Jobs
<1>3. (links' = links /\ node' = node) \/ (links' = {} /\ node' = FALSE)
  BY DEF Stop, RunReturns, NodeStops, nodeVars
<1>4. Typed'
  BY <1>1, <1>3 DEF IInv, Typed, votingVars, replicationVars
<1>5. OneClosure' /\ CountedOnce' /\ VotesOnce'
  BY <1>1, <1>2 DEF IInv, OneClosure, CountedOnce, VotesOnce, Pending, votingVars, replicationVars
<1>6. TableFollows'
  BY <1>1, <1>2, <1>3 DEF IInv, TableFollows
<1> QED
  BY <1>4, <1>5, <1>6 DEF IInv
-----------------------------------------------------------------------------
(* Tasks *)

\* The table, after a task: a peer whose link ended goes, one that told about itself
\* comes.
TableAfter == \/ table' = table /\ Task.kind # "disconnected"
              \/ Task.kind = "disconnected" /\ table' = table \ {Task.peer}
              \/ Task.kind = "client_info" /\ table' = table \cup {Task.peer}

\* What every task that is no closure of replication leaves as it is, but for n new
\* torrents that are reported.
Plainly(n) ==
    /\ UNCHANGED <<delayed, running, total>>
    /\ received' = received + n /\ replicated' = replicated + n

RowsTyped == rows \in [Hash -> Int] /\ \A h \in Hash : rows[h] >= Absent

LEMMA TableTask ==
    ASSUME IInv, due # <<>>, Done, TableAfter
    PROVE  TableFollows' /\ table' \subseteq Peer
<1>1. Typed
  BY DEF IInv
<1>2. /\ Task \in Message /\ Jobs # <<>> /\ Head(Jobs) = Task /\ Jobs' = Tail(Jobs)
      /\ UNCHANGED <<node, links>>
  BY <1>1, HeadDone
<1>3. Jobs \in Seq(Message)
  BY <1>1, JobsTyped
<1>4. TableFollows'
  <2> SUFFICES ASSUME node
               PROVE  /\ Followed(Tail(Jobs), links)
                      /\ \A p \in table' : p \in links \/ Gone(Tail(Jobs), p)
    BY <1>2 DEF TableFollows
  <2>1. Followed(Jobs, links) /\ \A p \in table : p \in links \/ Gone(Jobs, p)
    BY DEF IInv, TableFollows
  <2>2. /\ Followed(Tail(Jobs), links)
        /\ \A p : Gone(Jobs, p) => Says(Head(Jobs), p) \/ Gone(Tail(Jobs), p)
        /\ Head(Jobs).kind = "client_info" =>
              Head(Jobs).peer \in links \/ Gone(Tail(Jobs), Head(Jobs).peer)
    BY <1>2, <1>3, <2>1, FollowedTail
  <2>3. ASSUME NEW p \in table', p \notin links PROVE Gone(Tail(Jobs), p)
    <3>1. CASE p \in table
      <4>1. ~Says(Task, p)
        BY <2>3, <3>1 DEF TableAfter, Says
      <4> QED
        BY <1>2, <2>1, <2>2, <2>3, <3>1, <4>1
    <3>2. CASE p \notin table
      <4>1. Task.kind = "client_info" /\ p = Task.peer
        BY <2>3, <3>2 DEF TableAfter
      <4> QED
        BY <1>2, <2>2, <2>3, <4>1
    <3> QED
      BY <3>1, <3>2
  <2> QED
    BY <2>2, <2>3
<1>5. table' \subseteq Peer
  <2>1. Task.kind = "client_info" => Task.peer \in Peer
    BY <1>2, MessageFields
  <2> QED
    BY <1>1, <2>1 DEF TableAfter, Typed
<1> QED
  BY <1>4, <1>5

LEMMA PlainKeeps ==
    ASSUME IInv, due # <<>>, Done, Task.kind \notin Closure, TableAfter,
           NEW n \in Nat, Plainly(n), RowsTyped', feed' \subseteq Hash,
           counted' \in [Hash -> Nat], VotesOnce'
    PROVE  IInv'
<1>1. Typed
  BY DEF IInv
<1>2. /\ Task \in Message /\ Jobs # <<>> /\ Head(Jobs) = Task /\ Jobs' = Tail(Jobs)
      /\ queue' \in Seq(Message) /\ due' \in Seq(Message)
      /\ UNCHANGED <<node, links>>
  BY <1>1, HeadDone
<1>3. TableFollows' /\ table' \subseteq Peer
  BY TableTask
<1>4. received' \in Nat /\ replicated' \in Nat /\ UNCHANGED <<delayed, running, total>>
  BY <1>1 DEF Typed, Plainly
<1>5. Typed'
  BY <1>1, <1>2, <1>3, <1>4 DEF Typed, RowsTyped
<1>6. ASSUME NEW c \in Closure PROVE Pending(c)' = Pending(c)
  <2>1. Jobs \in Seq(Message) /\ Held(Jobs, c) \in Nat
    BY <1>1, JobsTyped, HeldNat
  <2>2. Held(Tail(Jobs), c) = Held(Jobs, c) - (IF Head(Jobs).kind = c THEN 1 ELSE 0)
    BY <1>2, <2>1, TailMarks
  <2>3. Held(Tail(Jobs), c) = Held(Jobs, c)
    BY <1>2, <2>1, <2>2
  <2> QED
    BY <1>2, <1>4, <2>3 DEF Pending
<1>7. Pending("cycle")' = Pending("cycle") /\ Pending("settle")' = Pending("settle")
  BY <1>6 DEF Closure
<1>8. OneClosure' /\ CountedOnce'
  <2>1. total <= replicated /\ (Pending("settle") # 0 => total + received <= replicated)
    BY DEF IInv, CountedOnce
  <2>2. total' <= replicated'
    BY <1>1, <2>1 DEF Plainly, Typed
  <2>3. Pending("settle")' # 0 => total' + received' <= replicated'
    BY <1>1, <1>7, <2>1 DEF Plainly, Typed
  <2> QED
    BY <1>4, <1>7, <2>2, <2>3 DEF IInv, OneClosure, CountedOnce
<1> QED
  BY <1>3, <1>5, <1>8 DEF IInv

\* A closure of replication: it runs only while replication does, and posts the next.
LEMMA ClosureLine ==
    ASSUME IInv, due # <<>>, Done, NEW c \in Closure, Task.kind = c,
           UNCHANGED <<table, rows, feed, votingVars, enabled, running, replicated>>
    PROVE  /\ running = TRUE /\ Pending(c) = 1 /\ \A d \in Closure \ {c} : Pending(d) = 0
           /\ \A d \in Closure : Held(Jobs', d) = Held(Jobs, d) - (IF d = c THEN 1 ELSE 0)
           /\ \A d \in Closure : Held(Jobs, d) \in Nat /\ delayed[d] \in Nat
           /\ queue' \in Seq(Message) /\ due' \in Seq(Message)
           /\ TableFollows' /\ VotesOnce'
           /\ UNCHANGED links
<1>1. Typed
  BY DEF IInv
<1>2. /\ Task \in Message /\ Jobs # <<>> /\ Head(Jobs) = Task /\ Jobs' = Tail(Jobs)
      /\ queue' \in Seq(Message) /\ due' \in Seq(Message)
      /\ UNCHANGED <<node, links>>
  BY <1>1, HeadDone
<1>3. \A d \in Closure : Held(Jobs, d) \in Nat /\ delayed[d] \in Nat
  BY <1>1, HeldNat
<1>4. ASSUME NEW d \in Closure
      PROVE  Held(Tail(Jobs), d) = Held(Jobs, d) - (IF d = c THEN 1 ELSE 0)
             /\ Held(Tail(Jobs), d) \in Nat
  <2>1. Jobs \in Seq(Message) /\ Tail(Jobs) \in Seq(Message)
    BY <1>1, <1>2, JobsTyped, HeadTailProperties
  <2>2. Held(Tail(Jobs), d) \in Nat
    BY <2>1, MarksFinite
  <2>3. Held(Tail(Jobs), d) = Held(Jobs, d) - (IF Head(Jobs).kind = d THEN 1 ELSE 0)
    BY <1>2, <2>1, TailMarks
  <2> QED
    BY <1>2, <2>2, <2>3
<1>5. Held(Jobs, c) >= 1
  <2>1. Held(Jobs, c) \in Nat /\ Held(Tail(Jobs), c) = Held(Jobs, c) - 1 /\ Held(Tail(Jobs), c) \in Nat
    BY <1>3, <1>4
  <2> QED
    BY <2>1
<1>6. \A d \in Closure : Pending(d) \in Nat
  BY <1>3 DEF Pending
<1>7. Pending(c) >= 1
  <2>1. Held(Jobs, c) \in Nat /\ delayed[c] \in Nat
    BY <1>3
  <2> QED
    BY <1>5, <2>1 DEF Pending
<1>8. Pending("cycle") + Pending("settle") = IF running THEN 1 ELSE 0
  BY DEF IInv, OneClosure
<1>9. "cycle" \in Closure /\ "settle" \in Closure /\ (c = "cycle" \/ c = "settle")
  BY DEF Closure
<1>10. running = TRUE
  <2>1. CASE running = FALSE
    BY <1>6, <1>7, <1>8, <1>9, <2>1
  <2> QED
    BY <1>1, <2>1 DEF Typed
<1>11. Pending("cycle") + Pending("settle") = 1
  BY <1>8, <1>10
<1>12. Pending(c) = 1 /\ \A d \in Closure \ {c} : Pending(d) = 0
  <2>1. CASE c = "cycle"
    <3>1. Pending("cycle") = 1 /\ Pending("settle") = 0
      BY <1>6, <1>7, <1>9, <1>11, <2>1
    <3> QED
      BY <2>1, <3>1 DEF Closure
  <2>2. CASE c = "settle"
    <3>1. Pending("settle") = 1 /\ Pending("cycle") = 0
      BY <1>6, <1>7, <1>9, <1>11, <2>2
    <3> QED
      BY <2>2, <3>1 DEF Closure
  <2> QED
    BY <1>9, <2>1, <2>2
<1>13. TableFollows'
  <2>1. TableAfter
    BY DEF TableAfter, Closure
  <2> QED
    BY <2>1, TableTask
<1>14. VotesOnce'
  BY DEF IInv, VotesOnce, votingVars
<1> QED
  BY <1>2, <1>3, <1>4, <1>10, <1>12, <1>13, <1>14

LEMMA PerformCycleKeeps == ASSUME IInv, PerformCycle PROVE IInv'
<1>1. Typed /\ total <= replicated
  BY DEF IInv, CountedOnce
<1>2. /\ due # <<>> /\ Done /\ Task.kind = "cycle"
      /\ UNCHANGED <<table, rows, feed, votingVars, enabled, running, total, replicated>>
  BY DEF PerformCycle, Is, Task
<1>3. "cycle" \in Closure /\ "settle" \in Closure /\ "cycle" # "settle"
  BY DEF Closure
<1>4. /\ running = TRUE /\ Pending("cycle") = 1 /\ Pending("settle") = 0
      /\ Held(Jobs', "cycle") = Held(Jobs, "cycle") - 1
      /\ Held(Jobs', "settle") = Held(Jobs, "settle")
      /\ Held(Jobs, "cycle") \in Nat /\ delayed["cycle"] \in Nat
      /\ Held(Jobs, "settle") \in Nat /\ delayed["settle"] \in Nat
      /\ queue' \in Seq(Message) /\ due' \in Seq(Message)
      /\ TableFollows' /\ VotesOnce' /\ UNCHANGED links
  <2>1. due # <<>> /\ Done
    BY <1>2
  <2>2. Task.kind = "cycle"
    BY <1>2
  <2>3. UNCHANGED <<table, rows, feed, votingVars, enabled, running, replicated>>
    BY <1>2
  <2>4. "cycle" \in Closure /\ "settle" \in Closure \ {"cycle"}
    BY <1>3
  <2>5. /\ running = TRUE /\ Pending("cycle") = 1
        /\ \A d \in Closure \ {"cycle"} : Pending(d) = 0
        /\ \A d \in Closure :
              Held(Jobs', d) = Held(Jobs, d) - (IF d = "cycle" THEN 1 ELSE 0)
        /\ \A d \in Closure : Held(Jobs, d) \in Nat /\ delayed[d] \in Nat
        /\ queue' \in Seq(Message) /\ due' \in Seq(Message)
        /\ TableFollows' /\ VotesOnce'
        /\ UNCHANGED links
    BY <2>1, <2>2, <2>3, <2>4, ClosureLine
  <2>6. Held(Jobs', "cycle") = Held(Jobs, "cycle") - 1
    BY <2>4, <2>5
  <2>7. Held(Jobs', "settle") = Held(Jobs, "settle")
    <3>1. Held(Jobs, "settle") \in Nat
      BY <2>4, <2>5
    <3>2. Held(Jobs', "settle") = Held(Jobs, "settle") - 0
      BY <1>3, <2>5
    <3> QED
      BY <3>1, <3>2
  <2> QED
    BY <1>3, <2>5, <2>6, <2>7
<1>5. CASE links = {}
  <2>1. delayed' = [delayed EXCEPT !["cycle"] = @ + 1] /\ received' = received
    BY <1>4, <1>5 DEF PerformCycle, PostDelayed
  <2>2. delayed' \in [Closure -> Nat] /\ delayed'["cycle"] = delayed["cycle"] + 1
        /\ delayed'["settle"] = delayed["settle"]
    BY <1>1, <1>3, <2>1 DEF Typed
  <2>3. Typed'
    BY <1>1, <1>2, <1>4, <2>1, <2>2 DEF Typed, votingVars
  <2>4. Pending("cycle")' = 1 /\ Pending("settle")' = 0
    <3>1. delayed["cycle"] + Held(Jobs, "cycle") = 1 /\ delayed["settle"] + Held(Jobs, "settle") = 0
      BY <1>4 DEF Pending
    <3>2. delayed'["cycle"] + Held(Jobs', "cycle") = 1
      BY <1>4, <2>2, <3>1
    <3>3. delayed'["settle"] + Held(Jobs', "settle") = 0
      BY <1>4, <2>2, <3>1
    <3> QED
      BY <3>2, <3>3 DEF Pending
  <2> QED
    BY <1>1, <1>2, <1>4, <2>3, <2>4 DEF IInv, OneClosure, CountedOnce
<1>6. CASE links # {}
  <2>1. delayed' = [delayed EXCEPT !["settle"] = @ + 1] /\ received' = 0
    BY <1>4, <1>6 DEF PerformCycle, PostDelayed
  <2>2. delayed' \in [Closure -> Nat] /\ delayed'["settle"] = delayed["settle"] + 1
        /\ delayed'["cycle"] = delayed["cycle"]
    BY <1>1, <1>3, <2>1 DEF Typed
  <2>3. Typed'
    BY <1>1, <1>2, <1>4, <2>1, <2>2 DEF Typed, votingVars
  <2>4. Pending("cycle")' = 0 /\ Pending("settle")' = 1
    BY <1>4, <2>2 DEF Pending
  <2>5. CountedOnce'
    BY <1>1, <1>2, <2>1 DEF CountedOnce, Typed
  <2>6. OneClosure'
    BY <1>2, <1>4, <2>4 DEF OneClosure
  <2> QED
    BY <1>4, <2>3, <2>5, <2>6 DEF IInv
<1> QED
  BY <1>5, <1>6

\* What a settle adds, it adds once: the next one comes after a cycle, which starts the
\* count anew.
LEMMA SettleKeeps == ASSUME IInv, Settle PROVE IInv'
<1>1. Typed /\ CountedOnce
  BY DEF IInv
<1>2. /\ due # <<>> /\ Done /\ Task.kind = "settle"
      /\ UNCHANGED <<table, rows, feed, votingVars, enabled, running, received, replicated>>
  BY DEF Settle, Is, Task
<1>3. "cycle" \in Closure /\ "settle" \in Closure /\ "cycle" # "settle"
  BY DEF Closure
<1>4. /\ running = TRUE /\ Pending("settle") = 1 /\ Pending("cycle") = 0
      /\ Held(Jobs', "settle") = Held(Jobs, "settle") - 1
      /\ Held(Jobs', "cycle") = Held(Jobs, "cycle")
      /\ Held(Jobs, "cycle") \in Nat /\ delayed["cycle"] \in Nat
      /\ Held(Jobs, "settle") \in Nat /\ delayed["settle"] \in Nat
      /\ queue' \in Seq(Message) /\ due' \in Seq(Message)
      /\ TableFollows' /\ VotesOnce' /\ UNCHANGED links
  <2>1. due # <<>> /\ Done
    BY <1>2
  <2>2. Task.kind = "settle"
    BY <1>2
  <2>3. UNCHANGED <<table, rows, feed, votingVars, enabled, running, replicated>>
    BY <1>2
  <2>4. "settle" \in Closure /\ "cycle" \in Closure \ {"settle"}
    BY <1>3
  <2>5. /\ running = TRUE /\ Pending("settle") = 1
        /\ \A d \in Closure \ {"settle"} : Pending(d) = 0
        /\ \A d \in Closure :
              Held(Jobs', d) = Held(Jobs, d) - (IF d = "settle" THEN 1 ELSE 0)
        /\ \A d \in Closure : Held(Jobs, d) \in Nat /\ delayed[d] \in Nat
        /\ queue' \in Seq(Message) /\ due' \in Seq(Message)
        /\ TableFollows' /\ VotesOnce'
        /\ UNCHANGED links
    BY <2>1, <2>2, <2>3, <2>4, ClosureLine
  <2>6. Held(Jobs', "settle") = Held(Jobs, "settle") - 1
    BY <2>4, <2>5
  <2>7. Held(Jobs', "cycle") = Held(Jobs, "cycle")
    <3>1. Held(Jobs, "cycle") \in Nat
      BY <2>4, <2>5
    <3>2. Held(Jobs', "cycle") = Held(Jobs, "cycle") - 0
      BY <1>3, <2>5
    <3> QED
      BY <3>1, <3>2
  <2> QED
    BY <1>3, <2>5, <2>6, <2>7
<1>5. delayed' = [delayed EXCEPT !["cycle"] = @ + 1] /\ total' = total + received
  BY <1>4 DEF Settle, PostDelayed
<1>6. delayed' \in [Closure -> Nat] /\ delayed'["cycle"] = delayed["cycle"] + 1
      /\ delayed'["settle"] = delayed["settle"]
  BY <1>1, <1>3, <1>5 DEF Typed
<1>7. Typed'
  <2>1. total' \in Nat
    BY <1>1, <1>5 DEF Typed
  <2> QED
    BY <1>1, <1>2, <1>4, <1>6, <2>1 DEF Typed, votingVars
<1>8. Pending("cycle")' = 1 /\ Pending("settle")' = 0
  BY <1>4, <1>6 DEF Pending
<1>9. CountedOnce'
  BY <1>1, <1>2, <1>4, <1>5, <1>8 DEF CountedOnce
<1>10. OneClosure'
  BY <1>2, <1>4, <1>8 DEF OneClosure
<1> QED
  BY <1>4, <1>7, <1>9, <1>10 DEF IInv
-----------------------------------------------------------------------------
(* The handlers *)

\* Tasks that only answer.
LEMMA QuietKeeps ==
    ASSUME IInv, due # <<>>, Done, Task.kind \notin Closure, Task.kind # "disconnected",
           Quiet
    PROVE  IInv'
<1>1. Typed /\ VotesOnce
  BY DEF IInv
<1>2. Plainly(0)
  BY <1>1 DEF Plainly, Quiet, replicationVars, Typed
<1>3. TableAfter
  BY DEF TableAfter, Quiet
<1>4. RowsTyped' /\ feed' \subseteq Hash /\ counted' \in [Hash -> Nat] /\ VotesOnce'
  BY <1>1 DEF RowsTyped, Typed, VotesOnce, Quiet, votingVars
<1> QED
  BY <1>2, <1>3, <1>4, PlainKeeps

LEMMA AnswersKeep ==
    ASSUME IInv,
           \/ OnPeerConnected
           \/ \E yes \in BOOLEAN : HandleSearchRequest(yes) \/ HandleSearchFilesRequest(yes)
                                   \/ HandleRandomTorrentsRequest(yes)
           \/ HandleTopTorrentsRequest \/ HandleTorrentRequest \/ HandleFeedRequest
           \/ HandleSearchResult \/ HandleSearchFilesResult
    PROVE  IInv'
<1>1. due # <<>> /\ Done
  BY DEF OnPeerConnected, HandleSearchRequest, HandleSearchFilesRequest,
         HandleRandomTorrentsRequest, HandleTopTorrentsRequest, HandleTorrentRequest,
         HandleFeedRequest, HandleSearchResult, HandleSearchFilesResult, Is
<1>2. Task.kind \notin Closure /\ Task.kind # "disconnected"
  BY DEF OnPeerConnected, HandleSearchRequest, HandleSearchFilesRequest,
         HandleRandomTorrentsRequest, HandleTopTorrentsRequest, HandleTorrentRequest,
         HandleFeedRequest, HandleSearchResult, HandleSearchFilesResult, Is, Task, Closure
<1>3. Quiet
  BY DEF OnPeerConnected, HandleSearchRequest, HandleSearchFilesRequest,
         HandleRandomTorrentsRequest, HandleTopTorrentsRequest, HandleTorrentRequest,
         HandleFeedRequest, HandleSearchResult, HandleSearchFilesResult, Quiet
<1> QED
  BY <1>1, <1>2, <1>3, QuietKeeps

LEMMA LinkKeeps == ASSUME IInv, OnPeerDisconnected \/ OnClientInfo PROVE IInv'
<1>1. Typed /\ VotesOnce
  BY DEF IInv
<1>2. due # <<>> /\ Done /\ Task.kind \notin Closure
  BY DEF OnPeerDisconnected, OnClientInfo, Is, Task, Closure
<1>3. TableAfter
  BY DEF OnPeerDisconnected, OnClientInfo, Is, Task, TableAfter
<1>4. UNCHANGED <<delayed, rows, feed, votingVars, replicationVars>>
  BY DEF OnPeerDisconnected, OnClientInfo
<1>5. Plainly(0)
  BY <1>1, <1>4 DEF Plainly, replicationVars, Typed
<1>6. RowsTyped' /\ feed' \subseteq Hash /\ counted' \in [Hash -> Nat] /\ VotesOnce'
  BY <1>1, <1>4 DEF RowsTyped, Typed, VotesOnce, votingVars
<1> QED
  BY <1>2, <1>3, <1>5, <1>6, PlainKeeps

\* A row that is inserted is one of the index; when it is new it is reported once.
LEMMA InsertsKeep ==
    ASSUME IInv, NEW track \in BOOLEAN, NEW ok \in BOOLEAN, due # <<>>,
           Task.kind \in Response, Inserts(track, ok), feed' \subseteq Hash
    PROVE  IInv'
<1>1. Typed /\ VotesOnce
  BY DEF IInv
<1>2. Done /\ UNCHANGED <<delayed, table, votingVars, enabled, running, total>>
  BY DEF Inserts
<1>3. Task.hash \in Hash /\ Task.good \in Nat
  BY <1>1, <1>2, HeadDone, MessageFields
<1>4. RowsTyped'
  <2>1. rows' = rows \/ rows' = [rows EXCEPT ![Task.hash] = Task.good]
    BY DEF Inserts, InsertFromPeer
  <2>2. CASE rows' = rows
    BY <1>1, <2>2 DEF RowsTyped, Typed
  <2>3. CASE rows' = [rows EXCEPT ![Task.hash] = Task.good]
    BY <1>1, <1>3, <2>3 DEF RowsTyped, Typed, Absent
  <2> QED
    BY <2>1, <2>2, <2>3
<1>5. \E n \in {0, 1} : received' = received + n /\ replicated' = replicated + n
  BY DEF Inserts, InsertFromPeer
<1>6. PICK n \in {0, 1} : Plainly(n)
  BY <1>2, <1>5 DEF Plainly
<1>7. n \in Nat
  BY <1>6
<1>8. Task.kind \notin Closure /\ Task.kind # "disconnected"
  BY DEF Response, Closure
<1>9. TableAfter
  BY <1>2, <1>8 DEF TableAfter
<1>10. counted' \in [Hash -> Nat] /\ VotesOnce'
  BY <1>1, <1>2 DEF Typed, VotesOnce, votingVars
<1> QED
  BY <1>2, <1>4, <1>6, <1>7, <1>8, <1>9, <1>10, PlainKeeps

LEMMA ResponsesKeep ==
    ASSUME IInv, NEW ok \in BOOLEAN,
           HandleTorrentResponse(ok) \/ HandleRandomTorrentsResponse(ok)
           \/ HandleTorrentAnnounce(ok) \/ HandleFeedResponse(ok)
    PROVE  IInv'
<1>1. Typed
  BY DEF IInv
<1>2. due # <<>> /\ Task.kind \in Response
  BY DEF HandleTorrentResponse, HandleRandomTorrentsResponse, HandleTorrentAnnounce,
         HandleFeedResponse, Is, Task, Response
<1>3. CASE \E track \in BOOLEAN : Inserts(track, ok) /\ UNCHANGED feed
  <2>1. feed' \subseteq Hash
    BY <1>1, <1>3 DEF Typed
  <2> QED
    BY <1>2, <1>3, <2>1, InsertsKeep
<1>4. CASE feed' = {Task.hash} /\ Inserts(FALSE, ok)
  <2>1. Done
    BY <1>4 DEF Inserts
  <2>2. Task.hash \in Hash
    BY <1>1, <1>2, <2>1, HeadDone, MessageFields
  <2>3. feed' \subseteq Hash /\ FALSE \in BOOLEAN
    BY <1>4, <2>2
  <2> QED
    BY <1>2, <1>4, <2>3, InsertsKeep
<1>5. CASE Done /\ Quiet
  <2>1. Task.kind \notin Closure /\ Task.kind # "disconnected"
    BY <1>2 DEF Response, Closure
  <2> QED
    BY <1>2, <1>5, <2>1, QuietKeeps
<1> QED
  BY <1>3, <1>4, <1>5 DEF HandleTorrentResponse, HandleRandomTorrentsResponse,
                          HandleTorrentAnnounce, HandleFeedResponse

\* A vote of this node: whatever the store says, one that was counted is remembered.
LEMMA VoteKeeps == ASSUME IInv, Vote PROVE IInv'
<1>1. Typed /\ VotesOnce
  BY DEF IInv
<1>2. /\ due # <<>> /\ Done /\ Task.kind \notin Closure /\ Task.kind = "vote"
      /\ UNCHANGED <<delayed, table, replicationVars>>
  BY DEF Vote, Is, Task, Closure
<1>3. Task.hash \in Hash
  BY <1>1, <1>2, HeadDone, MessageFields
<1>4. PICK h \in Hash : h = Task.hash
  BY <1>3
<1>5. Plainly(0) /\ TableAfter
  BY <1>1, <1>2 DEF Plainly, TableAfter, replicationVars, Typed
<1>6. CASE rows[h] = Absent \/ AlreadyVoted(h)
  <2>1. UNCHANGED <<rows, feed, votingVars>>
    BY <1>4, <1>6 DEF Vote
  <2>2. RowsTyped' /\ feed' \subseteq Hash /\ counted' \in [Hash -> Nat] /\ VotesOnce'
    BY <1>1, <2>1 DEF RowsTyped, Typed, VotesOnce, votingVars
  <2> QED
    BY <1>2, <1>5, <2>2, PlainKeeps
<1>7. CASE ~(rows[h] = Absent \/ AlreadyVoted(h))
  <2>1. /\ rows' = [rows EXCEPT ![h] = @ + 1] /\ counted' = [counted EXCEPT ![h] = @ + 1]
        /\ selfVoted' = selfVoted \cup {h} /\ feed' = feed \cup {h}
    BY <1>4, <1>7 DEF Vote
  <2>2. RowsTyped'
    BY <1>1, <2>1 DEF RowsTyped, Typed, Absent
  <2>3. counted[h] = 0
    BY <1>1, <1>7 DEF VotesOnce, AlreadyVoted
  <2>4. counted' \in [Hash -> Nat] /\ \A k \in Hash : counted'[k] = IF k = h THEN 1 ELSE counted[k]
    BY <1>1, <2>1, <2>3 DEF Typed
  <2>5. VotesOnce'
    BY <1>1, <2>1, <2>4 DEF VotesOnce
  <2>6. feed' \subseteq Hash
    BY <1>1, <2>1 DEF Typed
  <2> QED
    BY <1>2, <1>5, <2>2, <2>4, <2>5, <2>6, PlainKeeps
<1> QED
  BY <1>6, <1>7

\* A vote of a peer: the sum of finitely many records.
LEMMA RecordKeeps == ASSUME PeerNodeAssumptions, IInv, OnRecordStored PROVE IInv'
<1>1. Typed /\ VotesOnce
  BY DEF IInv
<1>2. /\ due # <<>> /\ Done /\ Task.kind \notin Closure /\ Task.kind = "record"
      /\ UNCHANGED <<delayed, table, votingVars, replicationVars>>
  BY DEF OnRecordStored, Is, Task, Closure
<1>3. Task.hash \in Hash
  BY <1>1, <1>2, HeadDone, MessageFields
<1>4. PICK h \in Hash : h = Task.hash
  BY <1>3
<1>5. Plainly(0) /\ TableAfter
  BY <1>1, <1>2 DEF Plainly, TableAfter, replicationVars, Typed
<1>6. Aggregate(h) \in Nat
  <2> DEFINE Voters == {p \in Peer \cup {Us} : records[h][p] = "good"}
  <2>1. IsFiniteSet(Peer \cup {Us})
    BY FS_AddElement DEF PeerNodeAssumptions
  <2>2. Voters \in SUBSET (Peer \cup {Us})
    OBVIOUS
  <2>3. IsFiniteSet(Voters)
    BY <2>1, <2>2, FS_Subset
  <2> QED
    BY <2>3, FS_CardinalityType DEF Aggregate
<1>7. (UNCHANGED <<rows, feed>>) \/ (rows' = [rows EXCEPT ![h] = Aggregate(h)] /\ feed' = feed \cup {h})
  BY <1>4 DEF OnRecordStored
<1>8. RowsTyped' /\ feed' \subseteq Hash
  <2>1. CASE UNCHANGED <<rows, feed>>
    BY <1>1, <2>1 DEF RowsTyped, Typed
  <2>2. CASE rows' = [rows EXCEPT ![h] = Aggregate(h)] /\ feed' = feed \cup {h}
    BY <1>1, <1>6, <2>2 DEF RowsTyped, Typed, Absent
  <2> QED
    BY <1>7, <2>1, <2>2
<1>9. counted' \in [Hash -> Nat] /\ VotesOnce'
  BY <1>1, <1>2 DEF Typed, VotesOnce, votingVars
<1> QED
  BY <1>2, <1>5, <1>8, <1>9, PlainKeeps

-----------------------------------------------------------------------------
(* What is posted from outside *)

LEMMA LinksKeep ==
    ASSUME IInv, NEW p \in Peer, PeerConnects(p) \/ PeerDisconnects(p)
    PROVE  IInv'
<1>1. Typed
  BY DEF IInv
<1>2. CASE PeerConnects(p)
  <2>1. PICK m : m = [kind |-> "connected", peer |-> p]
    OBVIOUS
  <2>2. m \in Message /\ m.kind \notin Closure /\ m.kind # "client_info"
    BY <2>1 DEF Message, OfLink, Closure
  <2>3. queue' = Append(queue, m) /\ due' = due
    BY <1>2, <2>1 DEF PeerConnects, Outside, Post
  <2>4. UNCHANGED <<delayed, rows, feed, table, selfVoted, counted>>
    BY <1>2 DEF PeerConnects, Outside
  <2>5. UNCHANGED <<running, received, total, replicated, node>>
    BY <1>2 DEF PeerConnects, Outside, replicationVars
  <2>6. links' = links \cup {p} /\ links' \subseteq Peer
    BY <1>1, <1>2 DEF PeerConnects, Typed
  <2>7. \A q \in links : q \in links' \/ Says(m, q)
    BY <2>6
  <2> QED
    BY <2>2, <2>3, <2>4, <2>5, <2>6, <2>7, PostKeeps
<1>3. CASE PeerDisconnects(p)
  <2>1. PICK m : m = [kind |-> "disconnected", peer |-> p]
    OBVIOUS
  <2>2. m \in Message /\ m.kind \notin Closure /\ m.kind # "client_info" /\ Says(m, p)
    BY <2>1 DEF Message, OfLink, Closure, Says
  <2>3. queue' = Append(queue, m) /\ due' = due
    BY <1>3, <2>1 DEF PeerDisconnects, Outside, Post
  <2>4. UNCHANGED <<delayed, rows, feed, table, selfVoted, counted>>
    BY <1>3 DEF PeerDisconnects, Outside
  <2>5. UNCHANGED <<running, received, total, replicated, node>>
    BY <1>3 DEF PeerDisconnects, Outside, replicationVars
  <2>6. links' = links \ {p} /\ links' \subseteq Peer
    BY <1>1, <1>3 DEF PeerDisconnects, Typed
  <2>7. \A q \in links : q \in links' \/ Says(m, q)
    BY <2>2, <2>6
  <2> QED
    BY <2>2, <2>3, <2>4, <2>5, <2>6, <2>7, PostKeeps
<1> QED
  BY <1>2, <1>3

\* A post while the links stay as they are.
LEMMA OutsideKeeps ==
    ASSUME IInv, NEW m \in Message, m.kind \notin Closure, Outside(m),
           m.kind = "client_info" => m.peer \in links, UNCHANGED <<node, links>>
    PROVE  IInv'
<1>1. queue' = Append(queue, m) /\ due' = due
  BY DEF Outside, Post
<1>2. UNCHANGED <<delayed, rows, feed, table, selfVoted, counted>>
  BY DEF Outside
<1>3. UNCHANGED <<running, received, total, replicated, node>>
  BY DEF Outside, replicationVars
<1>4. links' \subseteq Peer /\ links' = links
  BY DEF IInv, Typed
<1> QED
  BY <1>1, <1>2, <1>3, <1>4, PostKeeps

LEMMA MessagesKeep ==
    ASSUME PeerNodeAssumptions, IInv, NEW p \in Peer, NEW h \in Hash,
           NEW type \in Request \cup Response \cup {"client_info"}, NEW good \in 0..MaxGood,
           On(p, type, h, good)
    PROVE  IInv'
<1>1. PICK m : m = [kind |-> type, peer |-> p, hash |-> h, good |-> good]
  OBVIOUS
<1>2. good \in Nat
  BY DEF PeerNodeAssumptions
<1>3. m \in Message
  BY <1>1, <1>2 DEF Message, OfPeer
<1>4. m.kind \notin Closure
  BY <1>1 DEF Closure, Request, Response
<1>5. Outside(m) /\ UNCHANGED <<node, links>> /\ m.peer \in links
  BY <1>1 DEF On
<1> QED
  BY <1>3, <1>4, <1>5, OutsideKeeps

LEMMA VotesPostedKeep ==
    ASSUME IInv, NEW h \in Hash,
           \/ \E p \in Peer, v \in {"good", "bad"} : ChangeCallback(p, h, v)
           \/ \E ok \in BOOLEAN : PostVote(h, ok)
    PROVE  IInv'
<1>1. CASE \E p \in Peer, v \in {"good", "bad"} : ChangeCallback(p, h, v)
  <2>1. PICK p \in Peer, v \in {"good", "bad"} : ChangeCallback(p, h, v)
    BY <1>1
  <2>2. PICK m : m = [kind |-> "record", peer |-> p, hash |-> h, good |-> 0]
    OBVIOUS
  <2>3. m \in Message /\ m.kind \notin Closure /\ m.kind # "client_info"
    BY <2>2 DEF Message, OfPeer, Closure
  <2>4. Outside(m) /\ UNCHANGED <<node, links>>
    BY <2>1, <2>2 DEF ChangeCallback
  <2> QED
    BY <2>3, <2>4, OutsideKeeps
<1>2. CASE \E ok \in BOOLEAN : PostVote(h, ok)
  <2>1. PICK ok \in BOOLEAN : PostVote(h, ok)
    BY <1>2
  <2>2. PICK m : m = [kind |-> "vote", peer |-> Us, hash |-> h, good |-> IF ok THEN 1 ELSE 0]
    OBVIOUS
  <2>3. m \in Message /\ m.kind \notin Closure /\ m.kind # "client_info"
    BY <2>2 DEF Message, OfUs, Closure
  <2>4. Outside(m) /\ UNCHANGED <<node, links>>
    BY <2>1, <2>2 DEF PostVote
  <2> QED
    BY <2>3, <2>4, OutsideKeeps
<1> QED
  BY <1>1, <1>2

-----------------------------------------------------------------------------
(* The theorems *)

LEMMA InitIInv == ASSUME PeerNodeAssumptions, Init PROVE IInv
<1>1. Typed
  <2>1. queue \in Seq(Message) /\ due \in Seq(Message)
    BY EmptySeq DEF Init
  <2>2. delayed \in [Closure -> Nat]
    BY DEF Init
  <2>3. running \in BOOLEAN
    BY DEF Init
  <2>4. rows \in [Hash -> Int] /\ \A h \in Hash : rows[h] >= Absent
    BY DEF Init, Absent
  <2>5. counted \in [Hash -> Nat]
    BY DEF Init
  <2> QED
    BY <2>1, <2>2, <2>3, <2>4, <2>5 DEF Init, Typed
<1>2. Jobs = <<>>
  <2>1. queue \in Seq(Message) /\ due = <<>> /\ queue = <<>>
    BY <1>1 DEF Typed, Init
  <2> QED
    BY <2>1, ConcatEmptySeq DEF Jobs
<1>3. Len(Jobs) = 0
  BY <1>2, EmptySeq
<1>4. ASSUME NEW c PROVE Held(Jobs, c) = 0
  <2>1. Marks(Jobs, c) = {}
    BY <1>3 DEF Marks
  <2> QED
    BY <2>1, FS_EmptySet DEF Held
<1>5. delayed["cycle"] = (IF running THEN 1 ELSE 0) /\ delayed["settle"] = 0
  BY DEF Init, Closure
<1>6. OneClosure
  <2>1. Held(Jobs, "cycle") = 0 /\ Held(Jobs, "settle") = 0
    BY <1>4
  <2>2. (IF running THEN 1 ELSE 0) \in Nat
    OBVIOUS
  <2> QED
    BY <1>5, <2>1, <2>2 DEF OneClosure, Pending
<1>7. CountedOnce
  BY DEF Init, CountedOnce
<1>8. TableFollows
  BY <1>3 DEF Init, TableFollows, Followed
<1>9. VotesOnce
  BY DEF Init, VotesOnce
<1> QED
  BY <1>1, <1>6, <1>7, <1>8, <1>9 DEF IInv

LEMMA NextKeeps == ASSUME PeerNodeAssumptions, IInv, [Next]_nodeVars PROVE IInv'
<1>1. CASE \E ripe \in SUBSET Closure : CollectDueTasks(ripe)
  BY <1>1, CollectKeeps
<1>2. CASE Stop \/ RunReturns \/ NodeStops \/ UNCHANGED nodeVars
  BY <1>2, EndKeeps
<1>3. CASE \E p \in Peer : PeerConnects(p) \/ PeerDisconnects(p)
  BY <1>3, LinksKeep
<1>4. CASE \E p \in Peer, h \in Hash :
              \/ \E type \in Request \cup {"client_info"} : On(p, type, h, 0)
              \/ \E type \in Response, good \in 0..MaxGood : On(p, type, h, good)
  <2>1. PICK p \in Peer, h \in Hash :
              \/ \E type \in Request \cup {"client_info"} : On(p, type, h, 0)
              \/ \E type \in Response, good \in 0..MaxGood : On(p, type, h, good)
    BY <1>4
  <2>2. 0 \in 0..MaxGood
    BY DEF PeerNodeAssumptions
  <2>3. \E type \in Request \cup Response \cup {"client_info"}, good \in 0..MaxGood :
              On(p, type, h, good)
    BY <2>1, <2>2
  <2> QED
    BY <2>3, MessagesKeep
<1>5. CASE \E h \in Hash : \/ \E p \in Peer, v \in {"good", "bad"} : ChangeCallback(p, h, v)
                           \/ \E ok \in BOOLEAN : PostVote(h, ok)
  BY <1>5, VotesPostedKeep
<1>6. CASE \/ OnPeerConnected
           \/ \E yes \in BOOLEAN : HandleSearchRequest(yes) \/ HandleSearchFilesRequest(yes)
                                   \/ HandleRandomTorrentsRequest(yes)
           \/ HandleTopTorrentsRequest \/ HandleTorrentRequest \/ HandleFeedRequest
           \/ HandleSearchResult \/ HandleSearchFilesResult
  BY <1>6, AnswersKeep
<1>7. CASE OnPeerDisconnected \/ OnClientInfo
  BY <1>7, LinkKeeps
<1>8. CASE \E ok \in BOOLEAN : HandleTorrentResponse(ok) \/ HandleRandomTorrentsResponse(ok)
                               \/ HandleTorrentAnnounce(ok) \/ HandleFeedResponse(ok)
  BY <1>8, ResponsesKeep
<1>9. CASE Vote \/ OnRecordStored
  BY <1>9, VoteKeeps, RecordKeeps
<1>10. CASE PerformCycle \/ Settle
  BY <1>10, PerformCycleKeeps, SettleKeeps
<1> QED
  BY <1>1, <1>2, <1>3, <1>4, <1>5, <1>6, <1>7, <1>8, <1>9, <1>10 DEF Next

THEOREM InvariantHolds == ASSUME PeerNodeAssumptions PROVE Spec => []IInv
BY InitIInv, NextKeeps, PTL DEF Spec

\* The node's state is well typed: what it counts is a number, and the index, the feed
\* and the table hold hashes and peers.
THEOREM TypeCorrect == ASSUME PeerNodeAssumptions PROVE Spec => []TypeOK
<1>1. IInv => TypeOK
  BY DEF IInv, Typed, TypeOK
<1> QED
  BY <1>1, InvariantHolds, PTL

\* Replication has exactly one closure that will go on with it while it runs and counts
\* no torrent twice; the table holds no peer that is gone but for a task that says so;
\* and this node's vote is added to a column at most once.
THEOREM NodeAgreesHolds == ASSUME PeerNodeAssumptions PROVE Spec => []NodeAgrees
<1>1. ASSUME IInv PROVE NodeAgrees
  <2>1. queue \in Seq(Message) /\ due \in Seq(Message) /\ Typed
    BY <1>1 DEF IInv, Typed
  <2>2. Tasks \in Seq(Message) /\ DOMAIN Tasks = 1..Len(Tasks)
    BY <2>1, ConcatProperties, LenProperties DEF Tasks
  <2>3. ASSUME NEW c \in Closure PROVE Waits(c) = Held(Jobs, c) /\ Held(Jobs, c) \in Nat
                                        /\ delayed[c] \in Nat
    <3>1. Waits(c) = Held(queue \o due, c)
      BY <2>2 DEF Waits, Held, Marks, Tasks
    <3>2. /\ Held(queue \o due, c) = Held(queue, c) + Held(due, c)
          /\ Held(due \o queue, c) = Held(due, c) + Held(queue, c)
          /\ Held(queue, c) \in Nat /\ Held(due, c) \in Nat
      BY <2>1, ConcatMarks, MarksFinite
    <3> QED
      BY <2>1, <3>1, <3>2, HeldNat DEF Jobs
  <2>4. delayed["cycle"] + delayed["settle"] + Waits("cycle") + Waits("settle")
            = IF running THEN 1 ELSE 0
    <3>1. "cycle" \in Closure /\ "settle" \in Closure
      BY DEF Closure
    <3>2. /\ Waits("cycle") = Held(Jobs, "cycle") /\ Waits("settle") = Held(Jobs, "settle")
          /\ Held(Jobs, "cycle") \in Nat /\ Held(Jobs, "settle") \in Nat
          /\ delayed["cycle"] \in Nat /\ delayed["settle"] \in Nat
      BY <2>3, <3>1
    <3>3. (delayed["cycle"] + Held(Jobs, "cycle")) + (delayed["settle"] + Held(Jobs, "settle"))
              = IF running THEN 1 ELSE 0
      BY <1>1 DEF IInv, OneClosure, Pending
    <3> QED
      BY <3>2, <3>3
  <2>5. ASSUME NEW p, Gone(Jobs, p) PROVE Leaves(p)
    <3>1. PICK w : w = Jobs
      OBVIOUS
    <3>2. PICK j \in 1..Len(w) : Says(w[j], p)
      BY <2>5, <3>1 DEF Gone
    <3>3. /\ Len(due) \in Nat /\ Len(queue) \in Nat /\ Len(w) = Len(due) + Len(queue)
          /\ \A i \in 1..Len(due) + Len(queue) :
                w[i] = IF i <= Len(due) THEN due[i] ELSE queue[i - Len(due)]
      BY <2>1, <3>1, ConcatProperties, LenProperties DEF Jobs
    <3>4. PICK t : t = Tasks
      OBVIOUS
    <3>5. /\ Len(t) = Len(queue) + Len(due)
          /\ \A i \in 1..Len(queue) + Len(due) :
                t[i] = IF i <= Len(queue) THEN queue[i] ELSE due[i - Len(queue)]
      BY <2>1, <3>4, ConcatProperties DEF Tasks
    <3>6. CASE j <= Len(due)
      <4>1. /\ j + Len(queue) \in 1..Len(queue) + Len(due) /\ ~(j + Len(queue) <= Len(queue))
            /\ (j + Len(queue)) - Len(queue) = j
        BY <3>2, <3>3, <3>6
      <4>2. t[j + Len(queue)] = due[j]
        BY <3>5, <4>1
      <4>3. w[j] = due[j]
        BY <3>2, <3>3, <3>6
      <4>4. j + Len(queue) \in DOMAIN t /\ Says(t[j + Len(queue)], p)
        BY <2>2, <3>2, <3>4, <3>5, <4>1, <4>2, <4>3
      <4> QED
        BY <3>4, <4>4 DEF Leaves, Says
    <3>7. CASE j > Len(due)
      <4>1. j - Len(due) \in 1..Len(queue) + Len(due) /\ j - Len(due) <= Len(queue)
        BY <3>2, <3>3, <3>7
      <4>2. t[j - Len(due)] = queue[j - Len(due)]
        BY <3>5, <4>1
      <4>3. w[j] = queue[j - Len(due)]
        BY <3>2, <3>3, <3>7
      <4>4. j - Len(due) \in DOMAIN t /\ Says(t[j - Len(due)], p)
        BY <2>2, <3>2, <3>4, <3>5, <4>1, <4>2, <4>3
      <4> QED
        BY <3>4, <4>4 DEF Leaves, Says
    <3> QED
      BY <3>2, <3>3, <3>6, <3>7
  <2>6. node => \A p \in table : p \in links \/ Leaves(p)
    BY <1>1, <2>5 DEF IInv, TableFollows
  <2>7. total <= replicated /\ \A h \in Hash : counted[h] <= 1
    BY <1>1 DEF IInv, CountedOnce, VotesOnce
  <2> QED
    BY <2>4, <2>6, <2>7 DEF NodeAgrees
<1> QED
  BY <1>1, InvariantHolds, PTL

=============================================================================
