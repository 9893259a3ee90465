---------------------------- MODULE QtDataProofs ----------------------------
(***************************************************************************)
(* The parts of the Qt program that move its data, for every value of their*)
(* constants.  The database sync, for any number of peers that pull:       *)
(* however requests, cancels, broken connections, restarts and the user's  *)
(* own rebuilds mix, every file that is being sent is on disk, and every   *)
(* peer that was told to wait waits for a job.  The dumps: what is exported*)
(* is whole, and a resume skips nothing.  The migrations: re-keying loses  *)
(* no torrent, the clean-up nothing that is recognised.  Manticore, the    *)
(* updater and the crawler: no daemon is left behind, the script has its   *)
(* files, and the counter of fetches is off by the stops.  The repository: *)
(* its counters are those of its tables, and no insert takes from a row.   *)
(***************************************************************************)
EXTENDS QtServices, SequenceTheorems, FiniteSetTheorems, WellFoundedInduction, TLAPS

-----------------------------------------------------------------------------
(* Types. Sessions and generations stay in their bounds because a pull is   *)
(* only begun, and a snapshot only written, below the bound of the plan.    *)

PullerTyped == /\ pull \in [Puller -> LocalOperation]
               /\ lastSession \in [Puller -> Session]
ServerTyped == /\ serves \in [Puller -> Serve] /\ job \in SnapshotJob
               /\ limited \subseteq Puller
               /\ fresh \in BOOLEAN /\ sharing \in BOOLEAN
FilesTyped == /\ snapshot \in [live : Generation, generation : Generation, recorded : Generation]
              /\ onDisk \subseteq Generation
              /\ snapshot.generation <= plan.generations
              /\ snapshot.recorded <= plan.generations
              /\ job.worker = "ok" => snapshot.generation < plan.generations
Wired == toServer \in [Puller -> Seq(Message)] /\ toPuller \in [Puller -> Seq(Message)]

Typed == plan \in Plans /\ PullerTyped /\ ServerTyped /\ FilesTyped /\ Wired

(* The numbers a plan allows, 0 among them. *)
LEMMA PlanTyped ==
  ASSUME SyncAssumptions, NEW q \in Plans
  PROVE  /\ q.generations \in Nat /\ 0..q.generations \subseteq Generation
         /\ Generation \subseteq Nat /\ Session \subseteq Nat
         /\ \A p \in Puller : /\ q.pulls[p] \in Nat /\ 0..q.pulls[p] \subseteq Session
                              /\ 0 \in Session
         /\ 0 \in Generation
<1>1. q \in [pulls : [Puller -> Nat], generations : Nat, disturbed : BOOLEAN, serves : Nat]
  BY DEF SyncAssumptions
<1>2. q.generations \in Nat /\ q.pulls \in [Puller -> Nat]
  BY <1>1
<1>3. 0..q.generations \subseteq Generation /\ Generation \subseteq Nat /\ Session \subseteq Nat
  <2>1. 0..q.generations \subseteq Generation /\ Generation \subseteq Nat
    BY DEF Generation
  <2>2. \A x \in Session : \E r \in Plans, p \in Puller : x \in 0..r.pulls[p]
    BY DEF Session
  <2> QED
    BY <2>1, <2>2
<1>4. \A p \in Puller : q.pulls[p] \in Nat /\ 0..q.pulls[p] \subseteq Session
  <2> TAKE p \in Puller
  <2>1. q.pulls[p] \in Nat
    BY <1>2
  <2>2. 0..q.pulls[p] \subseteq UNION {0..q.pulls[x] : x \in Puller}
    OBVIOUS
  <2>3. 0..q.pulls[p] \subseteq Session
    BY <2>2 DEF Session
  <2> QED
    BY <2>1, <2>3
<1>5. 0 \in 0..q.generations /\ \A p \in Puller : 0 \in 0..q.pulls[p]
  BY <1>2, <1>4
<1> QED
  BY <1>2, <1>3, <1>4, <1>5

LEMMA MessageTyped ==
  ASSUME NEW id \in Session, NEW ready \in BOOLEAN
  PROVE  /\ \A type \in {"request", "cancel", "fileStopped", "progress", "offer",
                         "fileFailed", "fileDone"} : Msg(type, id) \in Message
         /\ Accepted(id, ready) \in Message /\ Refused(id) \in Message
BY DEF Msg, Accepted, Refused, Message

(* What arrives at either end. *)
LEMMA Incoming ==
  ASSUME Wired, NEW p \in Puller
  PROVE  /\ toServer[p] # <<>> =>
              /\ Head(toServer[p]) \in Message /\ Head(toServer[p]).id \in Session
              /\ [toServer EXCEPT ![p] = Tail(@)] \in [Puller -> Seq(Message)]
         /\ toPuller[p] # <<>> =>
              /\ Head(toPuller[p]) \in Message /\ Head(toPuller[p]).id \in Session
              /\ [toPuller EXCEPT ![p] = Tail(@)] \in [Puller -> Seq(Message)]
<1>1. toServer[p] \in Seq(Message) /\ toPuller[p] \in Seq(Message)
  BY DEF Wired
<1>2. \A m \in Message : m.id \in Session
  BY DEF Message
<1>3. toServer[p] # <<>> => Head(toServer[p]) \in Message /\ Tail(toServer[p]) \in Seq(Message)
  BY <1>1
<1>4. toPuller[p] # <<>> => Head(toPuller[p]) \in Message /\ Tail(toPuller[p]) \in Seq(Message)
  BY <1>1
<1> QED
  BY <1>2, <1>3, <1>4 DEF Wired

(* A server that begins holds nothing and waits for nothing. *)
LEMMA InitTyped == ASSUME SyncAssumptions, Init PROVE Typed
<1>1. plan \in Plans
  BY DEF Init
<1>2. PullerTyped
  BY <1>1, PlanTyped DEF Init, PullerTyped, LocalOperation, Idle
<1>3. ServerTyped
  BY <1>1, PlanTyped DEF Init, ServerTyped, Serve, NoServe, SnapshotJob, NoJob
<1>4. FilesTyped
  BY <1>1, PlanTyped DEF Init, FilesTyped, NoJob
<1>5. Wired
  BY DEF Init, Wired
<1> QED
  BY <1>1, <1>2, <1>3, <1>4, <1>5 DEF Typed

-----------------------------------------------------------------------------
(* The user's lane changes the operation and what is sent to the server.    *)

ServerKept == UNCHANGED <<plan, serves, job, snapshot, onDisk, fresh, limited, sharing>>

LEMMA ServerKeptTyped ==
  ASSUME Typed, ServerKept, PullerTyped', Wired'
  PROVE  Typed'
BY DEF Typed, ServerKept, ServerTyped, FilesTyped

(* finishLocal leaves an idle operation and at most two messages. *)
LEMMA FinishLocalTyped ==
  ASSUME SyncAssumptions, Typed, NEW p \in Puller, NEW success \in BOOLEAN,
         NEW t \in Session, FinishLocal(p, success, t)
  PROVE  pull' \in [Puller -> LocalOperation] /\ toServer' \in [Puller -> Seq(Message)]
<1>1. Idle \in LocalOperation
  BY PlanTyped DEF Typed, Idle, LocalOperation
<1>2. pull[p].session \in Session
  BY DEF Typed, PullerTyped, LocalOperation
<1> DEFINE stopped == IF t # 0 THEN <<Msg("fileStopped", t)>> ELSE <<>>
           cancels == IF pull[p].peerEngaged /\ ~success
                        THEN <<Msg("cancel", pull[p].session)>> ELSE <<>>
<1>3. stopped \in Seq(Message) /\ cancels \in Seq(Message)
  BY <1>2, MessageTyped
<1>4. toServer[p] \in Seq(Message)
  BY DEF Typed, Wired
<1>5. toServer' = [toServer EXCEPT ![p] = @ \o stopped \o cancels]
  BY DEF FinishLocal
<1> HIDE DEF stopped, cancels
<1>6. toServer[p] \o stopped \o cancels \in Seq(Message)
  BY <1>3, <1>4, ConcatProperties
<1>7. toServer' \in [Puller -> Seq(Message)]
  BY <1>5, <1>6 DEF Typed, Wired
<1>8. pull' \in [Puller -> LocalOperation]
  BY <1>1 DEF FinishLocal, Typed, PullerTyped
<1> QED
  BY <1>7, <1>8

LEMMA PullerStepTyped ==
  ASSUME SyncAssumptions, Typed, NEW p \in Puller,
         \/ RequestFromPeer(p) \/ CancelPull(p) \/ Deadline(p)
         \/ HandlePeerResponse(p) \/ HandlePeerProgress(p) \/ OnFileReceived(p)
         \/ \E ok \in BOOLEAN : ImportEnds(p, ok) \/ OnFileOffered(p, ok)
  PROVE  Typed'
<1>1. /\ pull[p] \in LocalOperation /\ pull[p].transfer \in Session /\ pull[p].session \in Session
      /\ 0 \in Session /\ Wired /\ PullerTyped
      /\ pull \in [Puller -> LocalOperation] /\ lastSession \in [Puller -> Session]
      /\ toServer \in [Puller -> Seq(Message)] /\ toPuller \in [Puller -> Seq(Message)]
  BY PlanTyped DEF Typed, PullerTyped, LocalOperation, Wired
<1>2. CASE RequestFromPeer(p)
  <2> DEFINE s == lastSession[p] + 1
  <2>1. s \in Session
    <3>1. plan \in Plans /\ lastSession[p] \in Session /\ lastSession[p] < plan.pulls[p]
      BY <1>1, <1>2 DEF RequestFromPeer, Typed
    <3>2. lastSession[p] \in Nat /\ plan.pulls[p] \in Nat /\ 0..plan.pulls[p] \subseteq Session
      BY <3>1, PlanTyped
    <3> QED
      BY <3>1, <3>2
  <2>2. Msg("request", s) \in Message
    BY <2>1, MessageTyped
  <2>3. toServer' = [toServer EXCEPT ![p] = Append(@, Msg("request", s))] /\ toPuller' = toPuller
    BY <1>2 DEF RequestFromPeer
  <2>4. Wired'
    BY <1>1, <2>2, <2>3 DEF Wired
  <2>5. [Idle EXCEPT !.stage = "waiting", !.session = s] \in LocalOperation
    BY <1>1, <2>1 DEF Idle, LocalOperation, Pulling, Awaiting
  <2>6. PullerTyped'
    BY <1>1, <1>2, <2>1, <2>5 DEF RequestFromPeer, BeginLocal, PullerTyped
  <2> QED
    BY <1>2, <2>4, <2>6, ServerKeptTyped DEF RequestFromPeer, ServerSide, ServerKept
<1>3. ASSUME NEW success \in BOOLEAN, NEW t \in Session, FinishLocal(p, success, t),
             toPuller' = toPuller \/ Consume(p), toPuller[p] # <<>> \/ toPuller' = toPuller,
             ServerKept, lastSession' = lastSession
      PROVE  Typed'
  <2>1. pull' \in [Puller -> LocalOperation] /\ toServer' \in [Puller -> Seq(Message)]
    BY <1>3, FinishLocalTyped
  <2>2. toPuller' \in [Puller -> Seq(Message)]
    BY <1>1, <1>3, Incoming DEF Consume
  <2> QED
    BY <1>1, <1>3, <2>1, <2>2, ServerKeptTyped DEF PullerTyped, Wired
<1>4. ASSUME NEW lane \in LocalOperation, pull' = [pull EXCEPT ![p] = lane] \/ pull' = pull,
             toPuller[p] # <<>>, Consume(p), toServer' \in [Puller -> Seq(Message)],
             ServerKept, lastSession' = lastSession
      PROVE  Typed'
  <2>1. pull' \in [Puller -> LocalOperation]
    BY <1>1, <1>4
  <2>2. toPuller' \in [Puller -> Seq(Message)]
    BY <1>1, <1>4, Incoming DEF Consume
  <2> QED
    BY <1>1, <1>4, <2>1, <2>2, ServerKeptTyped DEF PullerTyped, Wired
<1>5. CASE CancelPull(p) \/ Deadline(p)
  BY <1>1, <1>3, <1>5 DEF CancelPull, Deadline, ServerKept, ServerSide
<1>6. ASSUME NEW ok \in BOOLEAN, ImportEnds(p, ok) PROVE Typed'
  BY <1>1, <1>3, <1>6 DEF ImportEnds, ServerKept, ServerSide
<1>7. CASE HandlePeerResponse(p)
  <2> DEFINE m == Head(toPuller[p])
             lane == [pull[p] EXCEPT !.peerEngaged = TRUE, !.stage =
                       IF m.ready THEN "awaitingOffer" ELSE "preparing"]
  <2>1. toPuller[p] # <<>> /\ Consume(p) /\ ServerKept /\ lastSession' = lastSession
    BY <1>7 DEF HandlePeerResponse, Received, ServerKept, ServerSide
  <2>2. lane \in LocalOperation
    BY <1>1 DEF LocalOperation, Pulling, Awaiting
  <2>3. \/ pull' = pull /\ toServer' = toServer
        \/ FinishLocal(p, FALSE, pull[p].transfer)
        \/ pull' = [pull EXCEPT ![p] = lane] /\ toServer' = toServer
    BY <1>1, <1>7 DEF HandlePeerResponse
  <2> HIDE DEF lane
  <2> QED
    BY <1>1, <1>3, <1>4, <2>1, <2>2, <2>3
<1>8. CASE HandlePeerProgress(p)
  <2> DEFINE lane == [pull[p] EXCEPT !.stage = "preparing"]
  <2>1. /\ toPuller[p] # <<>> /\ Consume(p) /\ ServerKept /\ lastSession' = lastSession
        /\ toServer' = toServer
    BY <1>8 DEF HandlePeerProgress, Received, ServerKept, ServerSide
  <2>2. lane \in LocalOperation
    BY <1>1 DEF LocalOperation, Pulling, Awaiting
  <2>3. pull' = pull \/ pull' = [pull EXCEPT ![p] = lane]
    BY <1>1, <1>8 DEF HandlePeerProgress
  <2> HIDE DEF lane
  <2> QED
    BY <1>1, <1>4, <2>1, <2>2, <2>3
<1>9. ASSUME NEW room \in BOOLEAN, OnFileOffered(p, room) PROVE Typed'
  <2> DEFINE t == Head(toPuller[p]).id
             lane == [pull[p] EXCEPT !.transfer = t, !.stage = "transferring"]
             refused == [toServer EXCEPT ![p] = Append(@, Msg("fileStopped", t))]
  <2>1. toPuller[p] # <<>> /\ Consume(p) /\ ServerKept /\ lastSession' = lastSession
    BY <1>9 DEF OnFileOffered, Received, ServerKept, ServerSide
  <2>2. t \in Session
    BY <1>1, <2>1, Incoming
  <2>3. lane \in LocalOperation
    BY <1>1, <2>2 DEF LocalOperation, Pulling
  <2>4. refused \in [Puller -> Seq(Message)]
    BY <1>1, <2>2, MessageTyped
  <2>5. \/ pull' = [pull EXCEPT ![p] = lane] /\ toServer' = toServer
        \/ FinishLocal(p, FALSE, t)
        \/ pull' = pull /\ toServer' = refused
    BY <1>1, <1>9 DEF OnFileOffered
  <2> HIDE DEF lane, refused, t
  <2> QED
    BY <1>1, <1>3, <1>4, <2>1, <2>2, <2>3, <2>4, <2>5
<1>10. CASE OnFileReceived(p)
  <2> DEFINE lane == [pull[p] EXCEPT !.transfer = 0, !.stage = "importing"]
  <2>1. toPuller[p] # <<>> /\ Consume(p) /\ ServerKept /\ lastSession' = lastSession
    BY <1>10 DEF OnFileReceived, FromServer, ServerKept, ServerSide
  <2>2. lane \in LocalOperation
    BY <1>1 DEF LocalOperation
  <2>3. \/ pull' = pull /\ toServer' = toServer
        \/ FinishLocal(p, FALSE, 0)
        \/ pull' = [pull EXCEPT ![p] = lane] /\ toServer' = toServer
    BY <1>1, <1>10 DEF OnFileReceived, StartPullImport
  <2> HIDE DEF lane
  <2> QED
    BY <1>1, <1>3, <1>4, <2>1, <2>2, <2>3
<1> QED
  BY <1>2, <1>5, <1>6, <1>7, <1>8, <1>9, <1>10
-----------------------------------------------------------------------------
(* The serving lane. pruneSuperseded removes files and adds none: the live  *)
(* one stays, and so does what a serve that is held reads.                  *)

LEMMA PruneKeeps ==
  ASSUME NEW disk, NEW sv, NEW live
  PROVE  /\ PruneSnapshots(disk, sv, live) \subseteq disk
         /\ live \in disk => live \in PruneSnapshots(disk, sv, live)
         /\ \A q \in Puller : sv[q].held /\ sv[q].file \in disk
                                => sv[q].file \in PruneSnapshots(disk, sv, live)
BY DEF PruneSnapshots, Held

LEMMA CancelKeepsWorker ==
  ASSUME NEW j \in SnapshotJob, NEW sv
  PROVE  CancelIfUnwanted(j, sv) \in SnapshotJob /\ CancelIfUnwanted(j, sv).worker = j.worker
BY DEF CancelIfUnwanted, SnapshotJob

LEMMA NoServeTyped ==
  ASSUME SyncAssumptions, Typed
  PROVE  /\ \A p \in Puller : NoServe \in Serve /\ 0 \in Session
         /\ 0 \in Generation
<1>1. plan \in Plans
  BY DEF Typed
<1> QED
  BY <1>1, PlanTyped DEF NoServe, Serve

LEMMA NoticeTyped ==
  ASSUME Typed, NEW q \in Puller
  PROVE  Notice(serves, q) \in Seq(Message)
<1>1. serves[q].transfer \in Session
  BY DEF Typed, ServerTyped, Serve
<1>2. Msg("fileFailed", serves[q].transfer) \in Message
  BY <1>1, MessageTyped
<1> QED
  BY <1>2 DEF Notice

(* A step of the serving lane that publishes no snapshot. *)
LEMMA QuietServerStep ==
  ASSUME Typed, UNCHANGED <<plan, pull, lastSession, snapshot>>,
         serves' \in [Puller -> Serve], job' \in SnapshotJob,
         job'.worker = "ok" => job.worker = "ok" \/ snapshot.generation < plan.generations,
         onDisk' \subseteq onDisk, limited' \subseteq Puller,
         fresh' \in BOOLEAN, sharing' \in BOOLEAN, Wired'
  PROVE  Typed'
BY DEF Typed, PullerTyped, ServerTyped, FilesTyped

LEMMA DropServesTyped ==
  ASSUME SyncAssumptions, Typed, NEW P \in SUBSET Puller, DropServes(P, FALSE)
  PROVE  /\ serves' \in [Puller -> Serve] /\ job' \in SnapshotJob /\ job'.worker = job.worker
         /\ onDisk' \subseteq onDisk /\ toPuller' \in [Puller -> Seq(Message)]
<1> DEFINE rest == [q \in Puller |-> IF q \in P THEN NoServe ELSE serves[q]]
<1>1. /\ serves \in [Puller -> Serve] /\ job \in SnapshotJob
      /\ toPuller \in [Puller -> Seq(Message)]
  BY DEF Typed, ServerTyped, Wired
<1>2. rest \in [Puller -> Serve]
  BY <1>1, NoServeTyped
<1>3. /\ serves' = rest /\ job' = CancelIfUnwanted(job, rest)
      /\ onDisk' = PruneSnapshots(onDisk, rest, snapshot.live)
      /\ toPuller' = [q \in Puller |-> IF q \in P THEN toPuller[q] \o Notice(serves, q)
                                                  ELSE toPuller[q]]
  BY DEF DropServes
<1> HIDE DEF rest
<1>4. \A q \in Puller : toPuller[q] \o Notice(serves, q) \in Seq(Message)
  BY <1>1, NoticeTyped, ConcatProperties
<1>5. toPuller' \in [Puller -> Seq(Message)]
  BY <1>1, <1>3, <1>4
<1> QED
  BY <1>1, <1>2, <1>3, <1>5, PruneKeeps, CancelKeepsWorker

LEMMA HandlePeerRequestTyped ==
  ASSUME SyncAssumptions, Typed, NEW p \in Puller, NEW usable \in BOOLEAN, NEW room \in BOOLEAN,
         HandlePeerRequest(p, usable, room)
  PROVE  Typed'
<1> DEFINE s == Head(toServer[p]).id
           old == IF serves[p].held THEN Notice(serves, p) ELSE <<>>
           rest == [serves EXCEPT ![p] = NoServe]
           offered == [rest EXCEPT ![p] = OfferSnapshot(s, snapshot.live)]
           waits == [rest EXCEPT ![p] = [NoServe EXCEPT
                        !.held = TRUE, !.session = s, !.waitingForSnapshot = TRUE]]
           pruned == PruneSnapshots(onDisk, rest, snapshot.live)
           Answered(msgs) == toPuller' = [toPuller EXCEPT ![p] = @ \o msgs]
<1>1. /\ serves \in [Puller -> Serve] /\ job \in SnapshotJob /\ limited \subseteq Puller
      /\ toPuller \in [Puller -> Seq(Message)] /\ snapshot.live \in Generation
      /\ fresh \in BOOLEAN /\ sharing \in BOOLEAN /\ Wired
  BY DEF Typed, ServerTyped, FilesTyped, Wired
<1>2. toServer[p] # <<>> /\ Took(p)
  BY DEF HandlePeerRequest, Arrived
<1>3. s \in Session /\ toServer' \in [Puller -> Seq(Message)]
  BY <1>1, <1>2, Incoming DEF Took
<1>4. /\ UNCHANGED <<plan, pull, lastSession, snapshot>>
      /\ fresh' = fresh /\ sharing' = sharing
      /\ limited' = limited \/ limited' = limited \cup {p}
      /\ onDisk' = onDisk \/ onDisk' = pruned
      /\ job' = job \/ job' = EnsureSnapshotJob \/ job' = CancelIfUnwanted(job, rest)
      /\ serves' = serves \/ serves' = rest \/ serves' = offered \/ serves' = waits
      /\ \/ Answered(<<Refused(s)>>) \/ Answered(old \o <<Refused(s)>>)
         \/ Answered(old \o <<Accepted(s, TRUE), Msg("offer", s)>>)
         \/ Answered(old \o <<Accepted(s, TRUE)>>) \/ Answered(old \o <<Accepted(s, FALSE)>>)
  BY DEF HandlePeerRequest, PullerSide
<1>5. old \in Seq(Message)
  BY NoticeTyped
<1>6. /\ <<Refused(s)>> \in Seq(Message) /\ <<Accepted(s, FALSE)>> \in Seq(Message)
      /\ <<Accepted(s, TRUE)>> \in Seq(Message)
      /\ <<Accepted(s, TRUE), Msg("offer", s)>> \in Seq(Message)
  <2>1. /\ Refused(s) \in Message /\ Accepted(s, FALSE) \in Message
        /\ Accepted(s, TRUE) \in Message /\ Msg("offer", s) \in Message
    BY <1>3, MessageTyped
  <2>2. \A a, b \in Message : <<a>> \in Seq(Message) /\ <<a, b>> \in Seq(Message)
    OBVIOUS
  <2> QED
    BY <2>1, <2>2, Zenon
<1>7. rest \in [Puller -> Serve]
  BY <1>1, NoServeTyped
<1>8. offered \in [Puller -> Serve]
  BY <1>1, <1>3, <1>7, NoServeTyped DEF OfferSnapshot, NoServe, Serve
<1>9. waits \in [Puller -> Serve]
  BY <1>1, <1>3, <1>7, NoServeTyped DEF NoServe, Serve
<1>10. pruned \subseteq onDisk
  BY PruneKeeps
<1>11. /\ EnsureSnapshotJob \in SnapshotJob /\ (EnsureSnapshotJob.worker = "ok" => job.worker = "ok")
       /\ CancelIfUnwanted(job, rest) \in SnapshotJob
       /\ CancelIfUnwanted(job, rest).worker = job.worker
  BY <1>1, CancelKeepsWorker DEF EnsureSnapshotJob, SnapshotJob
<1> HIDE DEF s, old, rest, offered, waits, pruned
<1>12. ASSUME NEW msgs \in Seq(Message), toPuller' = [toPuller EXCEPT ![p] = @ \o msgs]
       PROVE  toPuller' \in [Puller -> Seq(Message)]
  <2>1. toPuller[p] \o msgs \in Seq(Message)
    BY <1>1, <1>12, ConcatProperties
  <2> QED
    BY <1>1, <1>12, <2>1
<1>13. /\ old \o <<Refused(s)>> \in Seq(Message) /\ old \o <<Accepted(s, FALSE)>> \in Seq(Message)
       /\ old \o <<Accepted(s, TRUE), Msg("offer", s)>> \in Seq(Message)
       /\ old \o <<Accepted(s, TRUE)>> \in Seq(Message)
  BY <1>5, <1>6, ConcatProperties
<1>14. toPuller' \in [Puller -> Seq(Message)]
  BY <1>4, <1>6, <1>12, <1>13
<1>15. Wired'
  BY <1>3, <1>14 DEF Wired
<1>16. serves' \in [Puller -> Serve] /\ job' \in SnapshotJob /\ onDisk' \subseteq onDisk
  BY <1>1, <1>4, <1>7, <1>8, <1>9, <1>10, <1>11
<1>17. limited' \subseteq Puller /\ (job'.worker = "ok" => job.worker = "ok")
  BY <1>1, <1>4, <1>11
<1> QED
  BY <1>1, <1>4, <1>15, <1>16, <1>17, QuietServerStep
LEMMA ServerStepTyped ==
  ASSUME SyncAssumptions, Typed, NEW p \in Puller,
         HandlePeerCancel(p) \/ OnFileStopped(p) \/ IntervalPasses(p) \/ Disconnect(p)
           \/ \E ok \in BOOLEAN : TransferEnds(p, ok)
  PROVE  Typed'
<1> DEFINE rest == [serves EXCEPT ![p] = NoServe]
           pruned == PruneSnapshots(onDisk, rest, snapshot.live)
<1>1. /\ serves \in [Puller -> Serve] /\ job \in SnapshotJob /\ limited \subseteq Puller
      /\ toPuller \in [Puller -> Seq(Message)] /\ toServer \in [Puller -> Seq(Message)]
      /\ fresh \in BOOLEAN /\ sharing \in BOOLEAN /\ Wired
  BY DEF Typed, ServerTyped, Wired
<1>2. rest \in [Puller -> Serve]
  BY <1>1, NoServeTyped
<1>3. /\ pruned \subseteq onDisk
      /\ CancelIfUnwanted(job, rest) \in SnapshotJob
      /\ CancelIfUnwanted(job, rest).worker = job.worker
  BY <1>1, PruneKeeps, CancelKeepsWorker
<1>4. CASE HandlePeerCancel(p) \/ OnFileStopped(p)
  <2>1. /\ toServer[p] # <<>> /\ Took(p) /\ UNCHANGED <<plan, pull, lastSession, snapshot>>
        /\ fresh' = fresh /\ limited' = limited /\ sharing' = sharing
        /\ \/ DropServes({p}, FALSE)
           \/ serves' = serves /\ job' = job /\ onDisk' = onDisk /\ toPuller' = toPuller
    BY <1>4 DEF HandlePeerCancel, OnFileStopped, Arrived, PullerSide
  <2>2. toServer' \in [Puller -> Seq(Message)]
    BY <1>1, <2>1, Incoming DEF Took
  <2>3. /\ serves' \in [Puller -> Serve] /\ job' \in SnapshotJob /\ job'.worker = job.worker
        /\ onDisk' \subseteq onDisk /\ toPuller' \in [Puller -> Seq(Message)]
    BY <1>1, <2>1, DropServesTyped
  <2>4. Wired'
    BY <2>2, <2>3 DEF Wired
  <2> QED
    BY <1>1, <2>1, <2>3, <2>4, QuietServerStep
<1>5. CASE IntervalPasses(p)
  <2>1. UNCHANGED <<plan, pull, lastSession, serves, job, snapshot, onDisk, fresh, sharing,
                    toServer, toPuller>> /\ limited' \subseteq Puller
    BY <1>1, <1>5 DEF IntervalPasses, PullerSide
  <2> QED
    BY <1>1, <2>1, QuietServerStep DEF Wired
<1>6. ASSUME NEW ok \in BOOLEAN, TransferEnds(p, ok) PROVE Typed'
  <2> DEFINE m == Msg(IF ok THEN "fileDone" ELSE "fileFailed", serves[p].transfer)
  <2>1. serves[p].transfer \in Session
    BY <1>1 DEF Serve
  <2>2. m \in Message
    BY <2>1, MessageTyped
  <2>3. /\ UNCHANGED <<plan, pull, lastSession, snapshot, fresh, limited, sharing, toServer>>
        /\ serves' = rest /\ job' = CancelIfUnwanted(job, rest) /\ onDisk' = pruned
        /\ toPuller' = [toPuller EXCEPT ![p] = Append(@, m)]
    BY <1>6 DEF TransferEnds, PullerSide
  <2> HIDE DEF m, rest, pruned
  <2>4. Wired'
    BY <1>1, <2>2, <2>3 DEF Wired
  <2> QED
    BY <1>1, <1>2, <1>3, <2>3, <2>4, QuietServerStep
<1>7. CASE Disconnect(p)
  <2>1. /\ UNCHANGED <<plan, lastSession, snapshot, fresh, limited, sharing>>
        /\ serves' = rest
        /\ job' = CancelIfUnwanted(job, rest) \/ job' = job
        /\ onDisk' = pruned \/ onDisk' = onDisk
        /\ pull' = pull \/ pull' = [pull EXCEPT ![p] = Idle]
        /\ toPuller' = [toPuller EXCEPT ![p] = <<>>]
        /\ toServer' = [toServer EXCEPT ![p] = <<>>]
    BY <1>7 DEF Disconnect
  <2> HIDE DEF rest, pruned
  <2>2. Wired'
    BY <1>1, <2>1 DEF Wired
  <2>3. Idle \in LocalOperation
    BY NoServeTyped DEF Idle, LocalOperation
  <2>4. PullerTyped'
    BY <2>1, <2>3 DEF Typed, PullerTyped
  <2>5. job' \in SnapshotJob /\ job'.worker = job.worker
    BY <1>1, <1>3, <2>1
  <2>6. ServerTyped'
    BY <1>2, <2>1, <2>5 DEF Typed, ServerTyped
  <2>7. FilesTyped'
    BY <1>3, <2>1, <2>5 DEF Typed, FilesTyped
  <2> QED
    BY <2>1, <2>2, <2>4, <2>6, <2>7 DEF Typed
<1> QED
  BY <1>4, <1>5, <1>6, <1>7

(* The steps of the snapshot's own life, of the user's switch and of a      *)
(* restart.                                                                 *)
LEMMA SnapshotStepTyped ==
  ASSUME SyncAssumptions, Typed,
         \/ RebuildSnapshot \/ OnSnapshotFailed \/ Heartbeat \/ Drift
         \/ \E reached \in SUBSET Puller : OnSnapshotFinished(reached)
         \/ \E b \in BOOLEAN : RunSnapshot(b) \/ SetSharing(b) \/ Restart(b)
  PROVE  Typed'
<1>1. /\ serves \in [Puller -> Serve] /\ job \in SnapshotJob /\ limited \subseteq Puller
      /\ toPuller \in [Puller -> Seq(Message)] /\ toServer \in [Puller -> Seq(Message)]
      /\ fresh \in BOOLEAN /\ sharing \in BOOLEAN /\ Wired
      /\ snapshot \in [live : Generation, generation : Generation, recorded : Generation]
      /\ onDisk \subseteq Generation /\ plan \in Plans
  BY DEF Typed, ServerTyped, FilesTyped, Wired
<1>2. NoJob \in SnapshotJob /\ NoJob.worker = "none"
  BY DEF NoJob, SnapshotJob
<1>3. /\ snapshot.generation \in Nat /\ plan.generations \in Nat
      /\ 0..plan.generations \subseteq Generation /\ 0 \in Generation
      /\ snapshot.generation \in Generation /\ snapshot.recorded \in Generation
      /\ snapshot.live \in Generation
      /\ snapshot.recorded \in Nat
  BY <1>1, PlanTyped
<1>4. job.worker = "ok" => NextName \in Generation /\ NextName <= plan.generations
  BY <1>3 DEF Typed, FilesTyped, NextName
<1>5. CASE RebuildSnapshot \/ Drift \/ \E b \in BOOLEAN : RunSnapshot(b)
  <2>1. UNCHANGED <<plan, pull, lastSession, snapshot, serves, onDisk, limited, sharing,
                    toServer, toPuller>>
    BY <1>5 DEF RebuildSnapshot, Drift, RunSnapshot, PullerSide
  <2>2. fresh' \in BOOLEAN
    BY <1>1, <1>5 DEF RebuildSnapshot, Drift, RunSnapshot
  <2>3. job' \in SnapshotJob
    <3>1. \A w \in {"ok", "failed"} : [job EXCEPT !.worker = w] \in SnapshotJob
      BY <1>1 DEF SnapshotJob
    <3>2. EnsureSnapshotJob \in SnapshotJob
      BY <1>1 DEF EnsureSnapshotJob, SnapshotJob
    <3> QED
      BY <1>1, <1>5, <3>1, <3>2 DEF RebuildSnapshot, Drift, RunSnapshot
  <2>4. job'.worker = "ok" => job.worker = "ok" \/ snapshot.generation < plan.generations
    BY <1>1, <1>5 DEF RebuildSnapshot, Drift, RunSnapshot, EnsureSnapshotJob, SnapshotJob
  <2> QED
    BY <1>1, <2>1, <2>2, <2>3, <2>4, QuietServerStep DEF Wired
<1>6. CASE OnSnapshotFailed
  <2> DEFINE rest == [q \in Puller |-> IF q \in Waiting(serves) THEN NoServe ELSE serves[q]]
  <2>1. rest \in [Puller -> Serve]
    BY <1>1, NoServeTyped
  <2>2. /\ UNCHANGED <<plan, pull, lastSession, fresh, limited, sharing, toServer, toPuller>>
        /\ serves' = rest /\ job' = NoJob
        /\ onDisk' = onDisk \/ onDisk' = PruneSnapshots(onDisk, rest, snapshot.live)
        /\ \/ snapshot' = snapshot
           \/ job.worker = "ok" /\ snapshot' = [snapshot EXCEPT !.generation = NextName]
    BY <1>6 DEF OnSnapshotFailed, DropWaiters, PullerSide
  <2> HIDE DEF rest
  <2>3. onDisk' \subseteq onDisk
    BY <2>2, PruneKeeps
  <2>4. FilesTyped'
    BY <1>1, <1>2, <1>4, <2>2, <2>3 DEF Typed, FilesTyped
  <2>5. PullerTyped' /\ Wired'
    BY <1>1, <2>2 DEF Typed, PullerTyped, Wired
  <2>6. ServerTyped'
    BY <1>1, <1>2, <2>1, <2>2 DEF ServerTyped
  <2> QED
    BY <1>1, <2>2, <2>4, <2>5, <2>6 DEF Typed
<1>7. CASE Heartbeat
  <2>1. \A q \in Puller : Append(toPuller[q], Msg("progress", serves[q].session)) \in Seq(Message)
    <3> TAKE q \in Puller
    <3>1. serves[q].session \in Session
      BY <1>1 DEF Serve
    <3> QED
      BY <1>1, <3>1, MessageTyped
  <2>2. UNCHANGED <<plan, pull, lastSession, serves, job, snapshot, onDisk, fresh, limited,
                    sharing, toServer>>
    BY <1>7 DEF Heartbeat, PullerSide, ServerSide
  <2>3. PICK told \in SUBSET Puller : toPuller' = [q \in Puller |-> IF q \in told
           THEN Append(toPuller[q], Msg("progress", serves[q].session)) ELSE toPuller[q]]
    BY <1>7 DEF Heartbeat, Waiting
  <2>4. toPuller' \in [Puller -> Seq(Message)]
    BY <1>1, <2>1, <2>3
  <2> QED
    BY <1>1, <2>2, <2>4, QuietServerStep DEF Wired
<1>8. ASSUME NEW reached \in SUBSET Puller, OnSnapshotFinished(reached) PROVE Typed'
  <2>1. /\ UNCHANGED <<plan, pull, lastSession, limited, sharing, toServer>>
        /\ job' = NoJob /\ snapshot' = Commit /\ fresh' = TRUE /\ job.worker = "ok"
        /\ onDisk' = PruneSnapshots(onDisk \cup {NextName}, serves, NextName)
        /\ serves' = [q \in Puller |->
               CASE q \in reached -> OfferSnapshot(serves[q].session, NextName)
                 [] q \in Waiting(serves) \ reached -> NoServe
                 [] OTHER -> serves[q]]
        /\ toPuller' = [q \in Puller |-> IF q \in reached
               THEN Append(toPuller[q], Msg("offer", serves[q].session)) ELSE toPuller[q]]
    BY <1>8 DEF OnSnapshotFinished, PullerSide
  <2>2. \A q \in Puller : serves[q].session \in Session
    BY <1>1 DEF Serve
  <2>3. \A q \in Puller : Append(toPuller[q], Msg("offer", serves[q].session)) \in Seq(Message)
    BY <1>1, <2>2, MessageTyped
  <2>4. \A q \in Puller : OfferSnapshot(serves[q].session, NextName) \in Serve
    BY <1>4, <2>1, <2>2 DEF OfferSnapshot, NoServe, Serve
  <2>5. serves' \in [Puller -> Serve]
    BY <1>1, <2>1, <2>4, NoServeTyped
  <2>6. Wired'
    <3>1. toPuller' \in [Puller -> Seq(Message)]
      BY <1>1, <2>1, <2>3
    <3> QED
      BY <1>1, <2>1, <3>1 DEF Wired
  <2>7. onDisk' \subseteq Generation
    <3>1. PruneSnapshots(onDisk \cup {NextName}, serves, NextName) \subseteq onDisk \cup {NextName}
      BY PruneKeeps
    <3> QED
      BY <1>1, <1>4, <2>1, <3>1
  <2>8. FilesTyped'
    BY <1>2, <1>4, <2>1, <2>7 DEF FilesTyped, Commit
  <2>9. ServerTyped' /\ PullerTyped'
    BY <1>1, <1>2, <2>1, <2>5 DEF Typed, ServerTyped, PullerTyped
  <2> QED
    BY <1>1, <2>1, <2>6, <2>8, <2>9 DEF Typed
<1>9. ASSUME NEW on \in BOOLEAN, SetSharing(on) PROVE Typed'
  <2>1. /\ UNCHANGED <<plan, pull, lastSession, snapshot, fresh, limited, toServer>>
        /\ sharing' = on
        /\ \/ DropServes(Held(serves), FALSE)
           \/ serves' = serves /\ job' = job /\ onDisk' = onDisk /\ toPuller' = toPuller
    BY <1>9 DEF SetSharing, PullerSide
  <2>2. Held(serves) \in SUBSET Puller
    BY DEF Held
  <2>3. /\ serves' \in [Puller -> Serve] /\ job' \in SnapshotJob /\ job'.worker = job.worker
        /\ onDisk' \subseteq onDisk /\ toPuller' \in [Puller -> Seq(Message)]
    BY <1>1, <2>1, <2>2, DropServesTyped
  <2>4. Wired'
    BY <1>1, <2>1, <2>3 DEF Wired
  <2> QED
    BY <1>1, <2>1, <2>3, <2>4, QuietServerStep
<1>10. ASSUME NEW renamed \in BOOLEAN, Restart(renamed) PROVE Typed'
  <2>1. /\ serves' = [q \in Puller |-> NoServe] /\ job' = NoJob /\ limited' = {}
        /\ \/ onDisk' = onDisk
           \/ job.worker = "ok" /\ onDisk' = onDisk \cup {NextName}
        /\ snapshot' = Load /\ fresh' \in {FALSE, fresh /\ Load.live # 0}
        /\ UNCHANGED <<plan, lastSession, sharing>>
        /\ pull' = [q \in Puller |-> IF pull[q].stage \in Pulling THEN Idle ELSE pull[q]]
        /\ toServer' = [q \in Puller |-> <<>>] /\ toPuller' = [q \in Puller |-> <<>>]
    BY <1>10 DEF Restart
  <2>2. \A q \in Puller : Idle \in LocalOperation
    BY NoServeTyped DEF Idle, LocalOperation
  <2>3. PullerTyped'
    BY <2>1, <2>2 DEF Typed, PullerTyped
  <2>4. ServerTyped'
    BY <1>1, <1>2, <2>1, NoServeTyped DEF ServerTyped
  <2>5. Wired'
    BY <2>1 DEF Wired
  <2>6. Load \in [live : Generation, generation : Generation, recorded : Generation]
    BY <1>3 DEF Load
  <2>7. onDisk' \subseteq Generation
    BY <1>1, <1>4, <2>1
  <2>8. Load.generation = snapshot.recorded /\ Load.recorded = snapshot.recorded
    BY DEF Load
  <2>9. FilesTyped'
    BY <1>2, <2>1, <2>6, <2>7, <2>8 DEF Typed, FilesTyped
  <2> QED
    BY <1>1, <2>1, <2>3, <2>4, <2>5, <2>9 DEF Typed
<1> QED
  BY <1>5, <1>6, <1>7, <1>8, <1>9, <1>10
LEMMA TypedKept == ASSUME SyncAssumptions, Typed, [Next]_syncVars PROVE Typed'
<1>1. ASSUME NEW p \in Puller,
             \/ RequestFromPeer(p) \/ CancelPull(p) \/ Deadline(p)
             \/ HandlePeerResponse(p) \/ HandlePeerProgress(p) \/ OnFileReceived(p)
             \/ \E ok \in BOOLEAN : ImportEnds(p, ok) \/ OnFileOffered(p, ok)
      PROVE  Typed'
  BY <1>1, PullerStepTyped
<1>2. ASSUME NEW p \in Puller,
             HandlePeerCancel(p) \/ OnFileStopped(p) \/ IntervalPasses(p) \/ Disconnect(p)
               \/ \E ok \in BOOLEAN : TransferEnds(p, ok)
      PROVE  Typed'
  BY <1>2, ServerStepTyped
<1>3. ASSUME NEW p \in Puller, NEW usable \in BOOLEAN, NEW room \in BOOLEAN,
             HandlePeerRequest(p, usable, room)
      PROVE  Typed'
  BY <1>3, HandlePeerRequestTyped
<1>4. ASSUME \/ RebuildSnapshot \/ OnSnapshotFailed \/ Heartbeat \/ Drift
             \/ \E reached \in SUBSET Puller : OnSnapshotFinished(reached)
             \/ \E b \in BOOLEAN : RunSnapshot(b) \/ SetSharing(b) \/ Restart(b)
      PROVE  Typed'
  BY <1>4, SnapshotStepTyped
<1>5. CASE UNCHANGED syncVars
  BY <1>5 DEF syncVars, Typed, PullerTyped, ServerTyped, FilesTyped, Wired
<1> QED
  BY <1>1, <1>2, <1>3, <1>4, <1>5 DEF Next

LEMMA TypedGivesTypeOK == Typed => TypeOK
<1> SUFFICES ASSUME Typed PROVE TypeOK
  OBVIOUS
<1>1. \A p \in Puller : /\ \A i \in DOMAIN toServer[p] : toServer[p][i] \in Message
                        /\ \A i \in DOMAIN toPuller[p] : toPuller[p][i] \in Message
  BY DEF Typed, Wired
<1> QED
  BY <1>1 DEF Typed, PullerTyped, ServerTyped, FilesTyped, TypeOK

(* Every reachable state of both lanes is well typed, whatever the peers    *)
(* ask, stop and lose: a session is one the peer opened, a generation one   *)
(* the server wrote (database_sync_service.cpp, database_snapshot.cpp).     *)
THEOREM TypeCorrect == ASSUME SyncAssumptions PROVE Spec => []TypeOK
<1>1. Init => Typed
  BY InitTyped
<1>2. Typed /\ [Next]_syncVars => Typed'
  BY TypedKept
<1> QED
  BY <1>1, <1>2, TypedGivesTypeOK, PTL DEF Spec

-----------------------------------------------------------------------------
(* Safety. What keeps a file on disk is the serve that is held while it is  *)
(* sent, and what is offered is live: a snapshot is only fresh when there   *)
(* is one.                                                                  *)

HeldWhileSent == \A p \in Puller : serves[p].transfer # 0 => serves[p].held
FreshIsLive == fresh => snapshot.live # 0

Safe == FilesHeld /\ WaitersHaveJob /\ HeldWhileSent /\ FreshIsLive
IInv == Typed /\ Safe

(* A step that drops the serves of a set of peers, prunes what they read at *)
(* most, and leaves the job and the snapshot where they are.                *)
LEMMA DroppedServesSafe ==
  ASSUME IInv, NEW P \in SUBSET Puller,
         serves' = [q \in Puller |-> IF q \in P THEN NoServe ELSE serves[q]],
         onDisk' = onDisk \/ onDisk' = PruneSnapshots(onDisk, serves', snapshot.live),
         job'.worker = job.worker \/ Waiting(serves') = {},
         snapshot'.live = snapshot.live, fresh' => fresh
  PROVE  Safe'
<1>1. \A q \in Puller : /\ serves'[q] = NoServe \/ serves'[q] = serves[q]
                        /\ serves'[q].held => serves'[q] = serves[q]
  BY DEF NoServe
<1>2. \A q \in Puller : serves'[q].transfer # 0 => serves'[q].held /\ serves'[q] = serves[q]
  BY <1>1 DEF NoServe, IInv, Safe, HeldWhileSent
<1>3. \A q \in Puller : serves'[q].transfer # 0 => serves'[q].file \in onDisk'
  <2> TAKE q \in Puller
  <2> HAVE serves'[q].transfer # 0
  <2>1. serves'[q].held /\ serves'[q].file \in onDisk
    BY <1>2 DEF IInv, Safe, FilesHeld
  <2>2. CASE onDisk' = onDisk
    BY <2>1, <2>2
  <2>3. CASE onDisk' = PruneSnapshots(onDisk, serves', snapshot.live)
    <3>1. PICK sv : sv = serves'
      OBVIOUS
    <3>2. sv[q].file \in PruneSnapshots(onDisk, sv, snapshot.live)
      BY <2>1, <3>1, PruneKeeps
    <3> QED
      BY <2>3, <3>1, <3>2
  <2> QED
    BY <2>2, <2>3
<1>4. snapshot'.live # 0 => snapshot'.live \in onDisk'
  BY PruneKeeps DEF IInv, Safe, FilesHeld
<1>5. FilesHeld' /\ HeldWhileSent'
  BY <1>2, <1>3, <1>4 DEF FilesHeld, HeldWhileSent
<1>6. WaitersHaveJob'
  <2>1. Waiting(serves') \subseteq Waiting(serves)
    BY <1>1 DEF Waiting, NoServe
  <2> QED
    BY <2>1 DEF WaitersHaveJob, Waiting, IInv, Safe
<1>7. FreshIsLive'
  BY DEF FreshIsLive, IInv, Safe
<1> QED
  BY <1>5, <1>6, <1>7 DEF Safe
(* An answer to a request: the serve the peer had is dropped, and it is     *)
(* refused, offered the live file, or told to wait for a job that runs.     *)
LEMMA HandlePeerRequestSafe ==
  ASSUME IInv, NEW p \in Puller, NEW usable \in BOOLEAN, NEW room \in BOOLEAN,
         HandlePeerRequest(p, usable, room)
  PROVE  Safe'
<1> DEFINE s == Head(toServer[p]).id
           rest == [serves EXCEPT ![p] = NoServe]
           pruned == PruneSnapshots(onDisk, rest, snapshot.live)
           offer == OfferSnapshot(s, snapshot.live)
           wait == [NoServe EXCEPT !.held = TRUE, !.session = s, !.waitingForSnapshot = TRUE]
<1>1. serves \in [Puller -> Serve] /\ job \in SnapshotJob
  BY DEF IInv, Typed, ServerTyped
<1>2. /\ snapshot' = snapshot /\ fresh' = fresh
      /\ \/ serves' = serves /\ job' = job /\ onDisk' = onDisk
         \/ /\ onDisk' = pruned \/ onDisk' = onDisk
            /\ \/ serves' = rest /\ (job' = job \/ job' = CancelIfUnwanted(job, rest))
               \/ serves' = [rest EXCEPT ![p] = offer] /\ job' = job /\ fresh
               \/ serves' = [rest EXCEPT ![p] = wait] /\ job' = EnsureSnapshotJob
  BY DEF HandlePeerRequest
<1>3. CASE serves' = serves /\ job' = job /\ onDisk' = onDisk
  BY <1>2, <1>3 DEF IInv, Safe, FilesHeld, WaitersHaveJob, Waiting, HeldWhileSent, FreshIsLive
<1>4. CASE /\ onDisk' = pruned \/ onDisk' = onDisk
           /\ \/ serves' = rest /\ (job' = job \/ job' = CancelIfUnwanted(job, rest))
              \/ serves' = [rest EXCEPT ![p] = offer] /\ job' = job /\ fresh
              \/ serves' = [rest EXCEPT ![p] = wait] /\ job' = EnsureSnapshotJob
  <2>1. /\ offer.held /\ offer.file = snapshot.live /\ ~offer.waitingForSnapshot
        /\ wait.transfer = 0 /\ NoServe.transfer = 0 /\ ~NoServe.waitingForSnapshot
        /\ ~NoServe.held /\ wait.waitingForSnapshot = TRUE /\ offer.waitingForSnapshot = FALSE
    BY DEF OfferSnapshot, NoServe
  <2>2. serves'[p] \in {NoServe, offer, wait} /\ \A q \in Puller \ {p} : serves'[q] = serves[q]
    BY <1>1, <1>4
  <2>3. serves'[p] = offer => fresh
    BY <1>1, <1>4, <2>1
  <2>4. \A q \in Puller \ {p} : rest[q] = serves[q]
    BY <1>1
  <2> HIDE DEF offer, wait, rest
  <2>5. \A q \in Puller \ {p} : serves[q].transfer # 0 => serves[q].file \in onDisk'
    <3> TAKE q \in Puller \ {p}
    <3> HAVE serves[q].transfer # 0
    <3>1. rest[q].held /\ rest[q].file = serves[q].file /\ serves[q].file \in onDisk
      BY <2>4 DEF IInv, Safe, HeldWhileSent, FilesHeld
    <3>2. serves[q].file \in pruned
      BY <3>1, PruneKeeps
    <3> QED
      BY <1>4, <3>1, <3>2
  <2>6. snapshot.live # 0 => snapshot.live \in onDisk'
    <3>1. snapshot.live # 0 => snapshot.live \in pruned
      BY PruneKeeps DEF IInv, Safe, FilesHeld
    <3> QED
      BY <1>4, <3>1 DEF IInv, Safe, FilesHeld
  <2>7. FreshIsLive'
    BY <1>2 DEF FreshIsLive, IInv, Safe
  <2>8. serves'[p].transfer # 0 => serves'[p].held /\ serves'[p].file \in onDisk'
    BY <2>1, <2>2, <2>3, <2>6 DEF FreshIsLive, IInv, Safe
  <2>9. FilesHeld' /\ HeldWhileSent'
    BY <1>2, <2>2, <2>5, <2>6, <2>8 DEF FilesHeld, HeldWhileSent, IInv, Safe
  <2>10. WaitersHaveJob'
    <3>1. CASE job' = EnsureSnapshotJob
      BY <1>1, <3>1 DEF WaitersHaveJob, EnsureSnapshotJob, SnapshotJob
    <3>2. CASE /\ job' = job \/ job' = CancelIfUnwanted(job, rest)
               /\ serves' = rest \/ serves' = [rest EXCEPT ![p] = offer]
      <4>1. serves'[p] = NoServe \/ serves'[p] = offer
        BY <1>1, <3>2 DEF rest
      <4>2. Waiting(serves') \subseteq Waiting(serves)
        BY <2>1, <2>2, <4>1 DEF Waiting
      <4>3. job'.worker = job.worker
        BY <1>1, <3>2, CancelKeepsWorker
      <4> QED
        BY <4>2, <4>3 DEF WaitersHaveJob, Waiting, IInv, Safe
    <3> QED
      BY <1>4, <3>1, <3>2
  <2> QED
    BY <2>7, <2>9, <2>10 DEF Safe
<1> QED
  BY <1>2, <1>3, <1>4

LEMMA UnservedSafe ==
  ASSUME IInv, UNCHANGED <<serves, onDisk, snapshot>>,
         job'.worker = "none" => job.worker = "none", fresh' => fresh
  PROVE  Safe'
BY DEF IInv, Safe, FilesHeld, WaitersHaveJob, Waiting, HeldWhileSent, FreshIsLive

(* The new generation is offered to the waiters; no serve waits any more,   *)
(* and no file of a transfer under way is pruned.                           *)
LEMMA OnSnapshotFinishedSafe ==
  ASSUME IInv, SyncAssumptions, NEW reached \in SUBSET Puller, OnSnapshotFinished(reached)
  PROVE  Safe'
<1> DEFINE disk == onDisk \cup {NextName}
<1>1. serves \in [Puller -> Serve] /\ snapshot.generation \in Nat
  BY PlanTyped DEF IInv, Typed, ServerTyped, FilesTyped
<1>2. /\ job' = NoJob /\ snapshot' = Commit /\ fresh' = TRUE /\ reached \subseteq Waiting(serves)
      /\ onDisk' = PruneSnapshots(disk, serves, NextName)
      /\ serves' = [q \in Puller |->
             CASE q \in reached -> OfferSnapshot(serves[q].session, NextName)
               [] q \in Waiting(serves) \ reached -> NoServe
               [] OTHER -> serves[q]]
  BY DEF OnSnapshotFinished
<1>3. snapshot'.live = NextName /\ NextName # 0
  BY <1>1, <1>2 DEF Commit, NextName
<1>4. NextName \in onDisk'
  BY <1>2, PruneKeeps
<1>5. \A q \in Puller : \/ serves'[q] = NoServe
                        \/ serves'[q] = OfferSnapshot(serves[q].session, NextName)
                        \/ serves'[q] = serves[q] /\ q \notin Waiting(serves)
  BY <1>2
<1>6. \A q \in Puller : ~serves'[q].waitingForSnapshot
  <2> TAKE q \in Puller
  <2>1. CASE serves'[q] = NoServe \/ serves'[q] = OfferSnapshot(serves[q].session, NextName)
    <3>1. /\ NoServe.waitingForSnapshot = FALSE
          /\ OfferSnapshot(serves[q].session, NextName).waitingForSnapshot = FALSE
      BY DEF NoServe, OfferSnapshot
    <3> QED
      BY <2>1, <3>1
  <2>2. CASE serves'[q] = serves[q] /\ q \notin Waiting(serves)
    BY <2>2 DEF Waiting
  <2> QED
    BY <1>5, <2>1, <2>2
<1>7. \A q \in Puller : serves'[q].transfer # 0 => serves'[q].held /\ serves'[q].file \in onDisk'
  <2> TAKE q \in Puller
  <2>1. CASE serves'[q] = NoServe
    BY <2>1 DEF NoServe
  <2>2. CASE serves'[q] = OfferSnapshot(serves[q].session, NextName)
    BY <2>2, <1>4 DEF OfferSnapshot, NoServe
  <2>3. CASE serves'[q] = serves[q]
    <3> HAVE serves'[q].transfer # 0
    <3>1. serves[q].held /\ serves[q].file \in disk
      BY <2>3 DEF IInv, Safe, HeldWhileSent, FilesHeld
    <3>2. serves[q].file \in PruneSnapshots(disk, serves, NextName)
      BY <3>1, PruneKeeps
    <3> QED
      BY <1>2, <2>3, <3>1, <3>2
  <2> QED
    BY <1>5, <2>1, <2>2, <2>3
<1> QED
  BY <1>3, <1>4, <1>6, <1>7 DEF Safe, FilesHeld, HeldWhileSent, WaitersHaveJob, Waiting, FreshIsLive

LEMMA SafeKept == ASSUME SyncAssumptions, IInv, [Next]_syncVars PROVE Safe'
<1>1. serves \in [Puller -> Serve] /\ job \in SnapshotJob
  BY DEF IInv, Typed, ServerTyped
<1>2. \A sv : CancelIfUnwanted(job, sv).worker = job.worker
  BY <1>1, CancelKeepsWorker
<1>3. ASSUME NEW P \in SUBSET Puller, DropServes(P, FALSE), UNCHANGED <<snapshot, fresh>>
      PROVE  Safe'
  <2>1. /\ serves' = [q \in Puller |-> IF q \in P THEN NoServe ELSE serves[q]]
        /\ onDisk' = PruneSnapshots(onDisk, serves', snapshot.live)
        /\ job' = CancelIfUnwanted(job, serves')
    BY <1>3 DEF DropServes
  <2>2. job'.worker = job.worker
    BY <1>2, <2>1
  <2> QED
    BY <1>3, <2>1, <2>2, DroppedServesSafe
<1>4. ASSUME NEW p \in Puller, serves' = [serves EXCEPT ![p] = NoServe],
             onDisk' = onDisk \/ onDisk' = PruneSnapshots(onDisk, serves', snapshot.live),
             job' = job \/ job' = CancelIfUnwanted(job, serves'), UNCHANGED <<snapshot, fresh>>
      PROVE  Safe'
  <2>1. serves' = [q \in Puller |-> IF q \in {p} THEN NoServe ELSE serves[q]]
    BY <1>1, <1>4
  <2>2. job'.worker = job.worker /\ {p} \in SUBSET Puller
    BY <1>2, <1>4
  <2> QED
    BY <1>4, <2>1, <2>2, DroppedServesSafe
<1>5. ASSUME NEW p \in Puller,
             \/ RequestFromPeer(p) \/ CancelPull(p) \/ Deadline(p) \/ HandlePeerResponse(p)
             \/ HandlePeerProgress(p) \/ OnFileReceived(p) \/ IntervalPasses(p)
             \/ \E ok \in BOOLEAN : ImportEnds(p, ok) \/ OnFileOffered(p, ok)
      PROVE  Safe'
  <2>1. UNCHANGED <<serves, onDisk, snapshot, job, fresh>>
    BY <1>5 DEF RequestFromPeer, CancelPull, Deadline, HandlePeerResponse, HandlePeerProgress,
                OnFileReceived, IntervalPasses, ImportEnds, OnFileOffered, ServerSide
  <2> QED
    BY <2>1, UnservedSafe
<1>6. ASSUME NEW p \in Puller, HandlePeerCancel(p) \/ OnFileStopped(p) PROVE Safe'
  <2>1. /\ UNCHANGED <<snapshot, fresh>>
        /\ DropServes({p}, FALSE) \/ UNCHANGED <<serves, job, onDisk>>
    BY <1>6 DEF HandlePeerCancel, OnFileStopped
  <2> QED
    BY <1>3, <2>1, UnservedSafe
<1>7. ASSUME NEW p \in Puller, Disconnect(p) \/ \E ok \in BOOLEAN : TransferEnds(p, ok)
      PROVE  Safe'
  <2>1. /\ serves' = [serves EXCEPT ![p] = NoServe] /\ UNCHANGED <<snapshot, fresh>>
        /\ onDisk' = onDisk \/ onDisk' = PruneSnapshots(onDisk, serves', snapshot.live)
        /\ job' = job \/ job' = CancelIfUnwanted(job, serves')
    BY <1>7 DEF Disconnect, TransferEnds
  <2> QED
    BY <1>4, <2>1
<1>8. ASSUME NEW p \in Puller, NEW usable \in BOOLEAN, NEW room \in BOOLEAN,
             HandlePeerRequest(p, usable, room)
      PROVE  Safe'
  BY <1>8, HandlePeerRequestSafe
<1>9. CASE RebuildSnapshot \/ Heartbeat \/ Drift \/ \E b \in BOOLEAN : RunSnapshot(b)
  <2>1. UNCHANGED <<serves, onDisk, snapshot>> /\ (fresh' => fresh)
    BY <1>9 DEF RebuildSnapshot, Heartbeat, Drift, RunSnapshot, ServerSide
  <2>2. job'.worker = "none" => job.worker = "none"
    BY <1>1, <1>9 DEF RebuildSnapshot, Heartbeat, Drift, RunSnapshot, ServerSide,
                      EnsureSnapshotJob, SnapshotJob
  <2> QED
    BY <2>1, <2>2, UnservedSafe
<1>10. CASE OnSnapshotFailed
  <2> DEFINE P == Waiting(serves)
  <2>1. /\ serves' = [q \in Puller |-> IF q \in P THEN NoServe ELSE serves[q]]
        /\ onDisk' = onDisk \/ onDisk' = PruneSnapshots(onDisk, serves', snapshot.live)
        /\ P \in SUBSET Puller /\ fresh' = fresh
    BY <1>10 DEF OnSnapshotFailed, DropWaiters, Waiting
  <2>2. snapshot'.live = snapshot.live
    BY <1>10 DEF OnSnapshotFailed, IInv, Typed, FilesTyped
  <2>3. Waiting(serves') = {}
    BY <2>1 DEF Waiting, NoServe
  <2> HIDE DEF P
  <2> QED
    BY <2>1, <2>2, <2>3, DroppedServesSafe
<1>11. ASSUME NEW reached \in SUBSET Puller, OnSnapshotFinished(reached) PROVE Safe'
  BY <1>11, OnSnapshotFinishedSafe
<1>12. ASSUME NEW on \in BOOLEAN, SetSharing(on) PROVE Safe'
  <2>1. /\ UNCHANGED <<snapshot, fresh>>
        /\ DropServes(Held(serves), FALSE) \/ UNCHANGED <<serves, job, onDisk>>
    BY <1>12 DEF SetSharing
  <2>2. Held(serves) \in SUBSET Puller
    BY DEF Held
  <2> QED
    BY <1>3, <2>1, <2>2, UnservedSafe
<1>13. ASSUME NEW renamed \in BOOLEAN, Restart(renamed) PROVE Safe'
  <2>1. /\ serves' = [q \in Puller |-> NoServe] /\ snapshot' = Load
        /\ fresh' \in {FALSE, fresh /\ Load.live # 0}
        /\ onDisk \subseteq onDisk'
    BY <1>13 DEF Restart
  <2>2. \A q \in Puller : serves'[q].transfer = 0 /\ ~serves'[q].waitingForSnapshot
    BY <2>1 DEF NoServe
  <2>3. snapshot'.live # 0 => snapshot'.live \in onDisk'
    BY <2>1 DEF Load
  <2> QED
    BY <2>1, <2>2, <2>3 DEF Safe, FilesHeld, HeldWhileSent, WaitersHaveJob, Waiting, FreshIsLive
<1>14. CASE UNCHANGED syncVars
  BY <1>14, UnservedSafe DEF syncVars
<1> QED
  BY <1>5, <1>6, <1>7, <1>8, <1>9, <1>10, <1>11, <1>12, <1>13, <1>14 DEF Next

(* For any number of peers and any mix of requests, cancels, lost peers,    *)
(* rebuilds and restarts: the file of every transfer under way exists, the  *)
(* live snapshot exists, and a peer told to wait waits for a job            *)
(* (pruneSnapshots, dropServe, onSnapshotFinished, handlePeerRequest).      *)
THEOREM PullsSafeHolds == ASSUME SyncAssumptions PROVE Spec => []PullsSafe
<1>1. Init => IInv
  <2> SUFFICES ASSUME Init PROVE IInv
    OBVIOUS
  <2>1. \A q \in Puller : serves[q].transfer = 0 /\ ~serves[q].waitingForSnapshot
    BY DEF Init, NoServe
  <2>2. Safe
    BY <2>1 DEF Init, Safe, FilesHeld, HeldWhileSent, WaitersHaveJob, Waiting, FreshIsLive
  <2> QED
    BY <2>2, InitTyped DEF IInv
<1>2. IInv /\ [Next]_syncVars => IInv'
  BY TypedKept, SafeKept DEF IInv
<1>3. IInv => PullsSafe
  BY DEF IInv, Safe, PullsSafe
<1> QED
  BY <1>1, <1>2, <1>3, PTL DEF Spec

-----------------------------------------------------------------------------
(* The export of a dump                                                     *)

Row == 1..exportRows
Threads == {"opening", "reading", "pushing", "finishing", "joining", "returned"}

ExportKinds ==
    /\ exportRows \in Nat
    /\ afterId \in 0..exportRows /\ page \in 0..exportRows
    /\ reader \in Threads
    /\ serialiser \in [at : {"none", "popping", "writing", "done"}, page : 0..exportRows]
    /\ pageQueue \in PageQueue /\ Len(pageQueue.pages) <= kReadAhead
    /\ writeFailed \in BOOLEAN /\ cancelled \in BOOLEAN
    /\ file \in DumpWriter /\ exported \in Result

\* Where the threads are when.
Steps ==
    /\ reader = "opening" <=> serialiser.at = "none" /\ exported = "none"
    /\ reader = "pushing" => page # 0
    /\ reader \notin {"opening", "returned"} => file.exists /\ exported = "none"
    /\ reader = "returned" => serialiser.at \in {"none", "done"} /\ exported # "none"
    /\ serialiser.at = "writing" => serialiser.page # 0
    /\ reader = "opening" =>
          /\ file = [exists |-> FALSE, frames |-> <<>>, pending |-> <<>>, footer |-> -1]
          /\ pageQueue.pages = <<>> /\ afterId = 0
    /\ pageQueue.finished => reader \in {"joining", "returned"}
    /\ pageQueue.closed => writeFailed \/ cancelled

\* No page has been dropped, by a write that failed or a queue that was closed.
Intact == ~writeFailed /\ ~pageQueue.closed /\ exported = "none"

Flushed == Len(file.frames)
Framed == Len(file.pending)
Writing == IF serialiser.at = "writing" THEN 1 ELSE 0
Queued == Len(pageQueue.pages)
Pushing == IF reader = "pushing" THEN 1 ELSE 0

\* The pages are in order, on the disk, in the frame, in the serialiser's hands, in
\* the queue and in the reader's.
InOrder ==
    /\ \A i \in 1..Flushed : file.frames[i] = i
    /\ \A i \in 1..Framed : file.pending[i] = Flushed + i
    /\ Writing = 1 => serialiser.page = Flushed + Framed + 1
    /\ \A i \in 1..Queued : pageQueue.pages[i] = Flushed + Framed + Writing + i
    /\ Pushing = 1 => page = Flushed + Framed + Writing + Queued + 1
    /\ afterId = Flushed + Framed + Writing + Queued + Pushing
    /\ serialiser.at = "done" => pageQueue.finished /\ Queued = 0

ExportInv == ExportKinds /\ Steps /\ (Intact => InOrder) /\ DumpIsWhole

LEMMA EmptyFile == ExportKinds => Aborted \in DumpWriter
  BY EmptySeq DEF Aborted, DumpWriter, ExportKinds

LEMMA ExportStarts == ExportInit => ExportInv
<1> SUFFICES ASSUME ExportInit PROVE ExportInv
  OBVIOUS
<1>1. ExportKinds
  <2>1. pageQueue \in PageQueue /\ Len(pageQueue.pages) = 0
    BY EmptySeq DEF ExportInit, PageQueue
  <2>2. file \in DumpWriter
    BY EmptySeq DEF ExportInit, DumpWriter
  <2>3. exportRows \in Nat /\ 0 <= kReadAhead
    BY ExportAssumption DEF ExportInit
  <2>4. /\ serialiser \in [at : {"none", "popping", "writing", "done"}, page : 0..exportRows]
        /\ afterId \in 0..exportRows /\ page \in 0..exportRows
    BY <2>3 DEF ExportInit
  <2>5. writeFailed \in BOOLEAN /\ cancelled \in BOOLEAN
    BY Zenon DEF ExportInit
  <2>6. reader \in Threads /\ exported \in Result
    BY DEF ExportInit, Threads, Result
  <2> QED
    BY <2>1, <2>2, <2>3, <2>4, <2>5, <2>6 DEF ExportKinds
<1>2. Steps
  BY DEF ExportInit, Steps
<1>3. InOrder
  BY EmptySeq DEF ExportInit, InOrder, Flushed, Framed, Writing, Queued, Pushing
<1>4. DumpIsWhole
  BY DEF ExportInit, DumpIsWhole
<1> QED
  BY <1>1, <1>2, <1>3, <1>4 DEF ExportInv

\* Lengths are numbers, and the parts have their types.
LEMMA PartsAre ==
  ASSUME ExportKinds
  PROVE  /\ Flushed \in Nat /\ Framed \in Nat /\ Queued \in Nat
         /\ Writing \in {0, 1} /\ Pushing \in {0, 1}
         /\ file.frames \in Seq(Row) /\ file.pending \in Seq(Row) /\ pageQueue.pages \in Seq(Row)
         /\ file.exists \in BOOLEAN
         /\ pageQueue.finished \in BOOLEAN /\ pageQueue.closed \in BOOLEAN
         /\ serialiser.page \in 0..exportRows
<1>1. /\ file.frames \in Seq(Row) /\ file.pending \in Seq(Row) /\ pageQueue.pages \in Seq(Row)
      /\ file.exists \in BOOLEAN
      /\ pageQueue.finished \in BOOLEAN /\ pageQueue.closed \in BOOLEAN
      /\ serialiser.page \in 0..exportRows
  BY DEF ExportKinds, DumpWriter, PageQueue, Row
<1> QED
  BY <1>1, LenProperties DEF Flushed, Framed, Queued, Writing, Pushing

LEMMA OpenFileKeeps == ASSUME ExportInv, NEW ok \in BOOLEAN, Open(ok) PROVE ExportInv'
<1>1. /\ reader = "opening"
      /\ UNCHANGED <<exportRows, afterId, page, pageQueue, writeFailed, cancelled>>
      /\ ExportKinds /\ Steps
  BY DEF Open, ExportInv
<1>2. CASE ok
  <2>1. /\ reader' = "reading" /\ serialiser' = [serialiser EXCEPT !.at = "popping"]
        /\ file' = [file EXCEPT !.exists = TRUE] /\ exported' = exported
    BY <1>2 DEF Open
  <2>2. /\ file' \in DumpWriter /\ file'.exists
        /\ file'.frames = file.frames /\ file'.pending = file.pending /\ file'.footer = file.footer
    BY <1>1, <2>1 DEF ExportKinds, DumpWriter
  <2>3. /\ serialiser' \in [at : {"none", "popping", "writing", "done"}, page : 0..exportRows]
        /\ serialiser'.at = "popping"
    BY <1>1, <2>1 DEF ExportKinds
  <2>4. ExportKinds'
    BY <1>1, <2>1, <2>2, <2>3 DEF ExportKinds, Threads, PageQueue, DumpWriter
  <2>5. Steps'
    BY <1>1, <2>1, <2>2, <2>3 DEF Steps
  <2>6. Intact' => InOrder'
    <3>1. /\ Flushed' = Flushed /\ Framed' = Framed /\ Writing' = Writing /\ Queued' = Queued
          /\ Pushing' = Pushing /\ Writing = 0 /\ Pushing = 0
      BY <1>1, <2>1, <2>2, <2>3 DEF Steps, Flushed, Framed, Writing, Queued, Pushing
    <3>2. Intact' => InOrder
      BY <1>1, <2>1 DEF ExportInv, Intact
    <3> QED
      BY <1>1, <2>1, <2>2, <2>3, <3>1, <3>2 DEF InOrder
  <2>7. DumpIsWhole'
    BY <1>1, <2>1 DEF Steps, DumpIsWhole
  <2> QED
    BY <2>4, <2>5, <2>6, <2>7 DEF ExportInv
<1>3. CASE ~ok
  <2>1. reader' = "returned" /\ exported' = "failed" /\ file' = Aborted /\ serialiser' = serialiser
    BY <1>3 DEF Open
  <2>2. ExportKinds'
    BY <1>1, <2>1, EmptyFile DEF ExportKinds, Threads, PageQueue, DumpWriter, Result
  <2>3. Steps'
    BY <1>1, <2>1 DEF Steps
  <2>4. DumpIsWhole'
    BY <1>1, <2>1 DEF DumpIsWhole, Aborted
  <2> QED
    BY <2>1, <2>2, <2>3, <2>4 DEF ExportInv, Intact
<1> QED
  BY <1>2, <1>3

LEMMA CancelExportKeeps == ASSUME ExportInv, CancelExport PROVE ExportInv'
<1>1. /\ cancelled' = TRUE
      /\ UNCHANGED <<exportRows, afterId, page, reader, serialiser, pageQueue, writeFailed, file,
                      exported>>
  BY DEF CancelExport
<1>2. ExportKinds' /\ Steps' /\ DumpIsWhole'
  BY <1>1 DEF ExportInv, ExportKinds, Steps, DumpIsWhole, PageQueue, DumpWriter
<1>3. Intact' => InOrder'
  BY <1>1 DEF ExportInv, Intact, InOrder, Flushed, Framed, Writing, Queued, Pushing
<1> QED
  BY <1>2, <1>3 DEF ExportInv

LEMMA ReadPageKeeps ==
  ASSUME ExportInv, NEW answered \in BOOLEAN, ReadPage(answered)
  PROVE  ExportInv'
<1>1. /\ reader = "reading" /\ ExportKinds /\ Steps
      /\ UNCHANGED <<exportRows, serialiser, pageQueue, writeFailed, cancelled, file, exported>>
  BY DEF ReadPage, ExportInv
<1>2. \/ reader' = "finishing" /\ UNCHANGED <<afterId, page>>
      \/ /\ afterId # exportRows /\ reader' = "pushing"
         /\ afterId' = afterId + 1 /\ page' = afterId + 1
  BY DEF ReadPage
<1>3. ExportKinds'
  BY <1>1, <1>2 DEF ExportKinds, Threads, PageQueue, DumpWriter
<1>4. Steps'
  BY <1>1, <1>2 DEF Steps, ExportKinds
<1>5. Intact' => InOrder'
  <2>1. /\ Flushed' = Flushed /\ Framed' = Framed /\ Writing' = Writing /\ Queued' = Queued
        /\ Pushing = 0
    BY <1>1 DEF Flushed, Framed, Writing, Queued, Pushing
  <2>2. Intact' => InOrder
    BY <1>1 DEF ExportInv, Intact
  <2>3. CASE reader' = "finishing" /\ UNCHANGED <<afterId, page>>
    <3>1. Pushing' = 0
      BY <2>3 DEF Pushing
    <3> QED
      BY <1>1, <2>1, <2>2, <2>3, <3>1 DEF InOrder
  <2>4. CASE reader' = "pushing" /\ afterId' = afterId + 1 /\ page' = afterId + 1
    <3>1. Pushing' = 1
      BY <2>4 DEF Pushing
    <3> QED
      <4> SUFFICES ASSUME Intact' PROVE InOrder'
        OBVIOUS
      <4>1. /\ afterId \in Nat /\ Flushed \in Nat /\ Framed \in Nat
            /\ Writing \in Nat /\ Queued \in Nat
        BY <1>1, PartsAre DEF ExportKinds
      <4>2. InOrder
        BY <2>2
      <4>3. afterId = Flushed + Framed + Writing + Queued
        BY <2>1, <4>1, <4>2 DEF InOrder
      <4>4. page' = Flushed + Framed + Writing + Queued + 1 /\ afterId' = page'
        BY <2>4, <4>3
      <4>5. /\ \A i \in 1..Flushed' : file'.frames[i] = i
            /\ \A i \in 1..Framed' : file'.pending[i] = Flushed' + i
            /\ Writing' = 1 => serialiser'.page = Flushed' + Framed' + 1
            /\ \A i \in 1..Queued' : pageQueue'.pages[i] = Flushed' + Framed' + Writing' + i
            /\ serialiser'.at = "done" => pageQueue'.finished /\ Queued' = 0
        BY <1>1, <2>1, <4>2 DEF InOrder
      <4> QED
        BY <2>1, <3>1, <4>4, <4>5 DEF InOrder
  <2> QED
    BY <1>2, <2>3, <2>4
<1>6. DumpIsWhole'
  BY <1>1 DEF DumpIsWhole, Steps
<1> QED
  BY <1>3, <1>4, <1>5, <1>6 DEF ExportInv

LEMMA PushKeeps == ASSUME ExportInv, Push PROVE ExportInv'
<1>1. /\ reader = "pushing" /\ ExportKinds /\ Steps /\ page' = 0 /\ page \in Row
      /\ UNCHANGED <<exportRows, afterId, serialiser, writeFailed, cancelled, file, exported>>
  BY DEF Push, ExportInv, ExportKinds, Steps, Row
<1>2. CASE pageQueue.closed
  <2>1. reader' = "finishing" /\ UNCHANGED pageQueue
    BY <1>2 DEF Push
  <2>2. ExportKinds' /\ Steps' /\ DumpIsWhole'
    BY <1>1, <2>1 DEF ExportKinds, Steps, DumpIsWhole, Threads, PageQueue, DumpWriter
  <2> QED
    BY <1>2, <2>1, <2>2 DEF ExportInv, Intact
<1>3. CASE ~pageQueue.closed
  <2>1. /\ reader' = "reading" /\ pageQueue' = [pageQueue EXCEPT !.pages = Append(@, page)]
        /\ Len(pageQueue.pages) < kReadAhead
    BY <1>3 DEF Push
  <2>2. /\ Append(pageQueue.pages, page) \in Seq(Row)
        /\ Len(Append(pageQueue.pages, page)) = Queued + 1
        /\ \A i \in 1..Queued : Append(pageQueue.pages, page)[i] = pageQueue.pages[i]
        /\ Append(pageQueue.pages, page)[Queued + 1] = page
    BY <1>1, PartsAre, AppendProperties DEF Queued
  <2>3. /\ pageQueue' \in PageQueue /\ pageQueue'.pages = Append(pageQueue.pages, page)
        /\ pageQueue'.finished = pageQueue.finished /\ pageQueue'.closed = pageQueue.closed
    BY <1>1, <2>1, <2>2 DEF ExportKinds, PageQueue, Row
  <2>4. ExportKinds'
    BY <1>1, <2>1, <2>2, <2>3, PartsAre, ExportAssumption
       DEF ExportKinds, Threads, PageQueue, DumpWriter, Queued
  <2>5. Steps'
    BY <1>1, <2>1, <2>3 DEF Steps
  <2>6. Intact' => InOrder'
    <3> SUFFICES ASSUME Intact' PROVE InOrder'
      OBVIOUS
    <3>1. InOrder
      BY <1>1, <2>3 DEF Intact, ExportInv
    <3>2. /\ Flushed' = Flushed /\ Framed' = Framed /\ Writing' = Writing
          /\ Queued' = Queued + 1 /\ Pushing' = 0 /\ Pushing = 1
      BY <1>1, <2>1, <2>2, <2>3 DEF Flushed, Framed, Writing, Queued, Pushing
    <3>3. \A i \in 1..Queued + 1 : pageQueue'.pages[i] = Flushed + Framed + Writing + i
      <4>1. page = Flushed + Framed + Writing + Queued + 1
        BY <3>1, <3>2 DEF InOrder
      <4>2. \A i \in 1..Queued : pageQueue.pages[i] = Flushed + Framed + Writing + i
        BY <3>1 DEF InOrder
      <4>3. \A i \in 1..Queued + 1 : i \in 1..Queued \/ i = Queued + 1
        BY <1>1, PartsAre
      <4>4. Flushed \in Nat /\ Framed \in Nat /\ Writing \in Nat /\ Queued \in Nat
        BY <1>1, PartsAre
      <4> SUFFICES ASSUME NEW i \in 1..Queued + 1
                   PROVE  pageQueue'.pages[i] = Flushed + Framed + Writing + i
        OBVIOUS
      <4>5. CASE i \in 1..Queued
        <5>1. pageQueue'.pages[i] = Append(pageQueue.pages, page)[i]
          BY <2>3
        <5>2. Append(pageQueue.pages, page)[i] = pageQueue.pages[i]
          BY <2>2, <4>5
        <5> QED
          BY <5>1, <5>2, <4>2, <4>5
      <4>6. CASE i = Queued + 1
        <5>1. pageQueue'.pages[Queued + 1] = page
          BY <2>2, <2>3
        <5>2. page = Flushed + Framed + Writing + (Queued + 1)
          BY <4>1, <4>4
        <5> QED
          BY <5>1, <5>2, <4>6, Zenon
      <4> QED
        BY <4>3, <4>5, <4>6
    <3>4. serialiser.at # "done"
      BY <1>1, <3>1 DEF InOrder, Steps
    <3>5. afterId = Flushed + Framed + Writing + (Queued + 1) + 0
      <4>1. afterId = Flushed + Framed + Writing + Queued + 1
        BY <3>1, <3>2 DEF InOrder
      <4>2. Flushed \in Int /\ Framed \in Int /\ Writing \in Int /\ Queued \in Int
        BY <1>1, PartsAre
      <4> QED
        BY <4>1, <4>2
    <3>6. /\ \A i \in 1..Flushed : file.frames[i] = i
          /\ \A i \in 1..Framed : file.pending[i] = Flushed + i
          /\ Writing = 1 => serialiser.page = Flushed + Framed + 1
      BY <3>1 DEF InOrder
    <3> QED
      BY <1>1, <3>2, <3>3, <3>4, <3>5, <3>6 DEF InOrder
  <2>7. DumpIsWhole'
    BY <1>1 DEF DumpIsWhole, Steps
  <2> QED
    BY <2>4, <2>5, <2>6, <2>7 DEF ExportInv
<1> QED
  BY <1>2, <1>3

LEMMA FinishKeeps == ASSUME ExportInv, FinishQueue PROVE ExportInv'
<1>1. /\ reader = "finishing" /\ reader' = "joining" /\ ExportKinds /\ Steps
      /\ UNCHANGED <<exportRows, afterId, page, serialiser, writeFailed, cancelled, file, exported>>
  BY DEF FinishQueue, ExportInv
<1>2. /\ pageQueue' \in PageQueue /\ pageQueue'.finished
      /\ pageQueue'.closed = (pageQueue.closed \/ cancelled)
      /\ pageQueue'.pages = IF cancelled THEN <<>> ELSE pageQueue.pages
  BY <1>1, EmptySeq DEF FinishQueue, Closed, ExportKinds, PageQueue
<1>3. Len(pageQueue'.pages) <= kReadAhead
  BY <1>1, <1>2, EmptySeq, ExportAssumption DEF ExportKinds
<1>4. ExportKinds'
  BY <1>1, <1>2, <1>3 DEF ExportKinds, Threads, PageQueue, DumpWriter
<1>5. Steps'
  BY <1>1, <1>2 DEF Steps
<1>6. Intact' => InOrder'
  BY <1>1, <1>2 DEF ExportInv, Intact, InOrder, Flushed, Framed, Writing, Queued, Pushing
<1>7. DumpIsWhole'
  BY <1>1 DEF DumpIsWhole, Steps
<1> QED
  BY <1>4, <1>5, <1>6, <1>7 DEF ExportInv

\* The serialiser takes the first page of the queue, or leaves.
LEMMA PopKeeps == ASSUME ExportInv, Pop PROVE ExportInv'
<1>1. /\ serialiser.at = "popping" /\ ExportKinds /\ Steps
      /\ UNCHANGED <<exportRows, afterId, page, reader, writeFailed, cancelled, file, exported>>
  BY DEF Pop, ExportInv
<1>2. Intact => InOrder
  BY DEF ExportInv
<1>3. CASE pageQueue.pages = <<>>
  <2>1. serialiser' = [at |-> "done", page |-> 0] /\ UNCHANGED pageQueue
        /\ (pageQueue.closed \/ pageQueue.finished)
    BY <1>3 DEF Pop
  <2>2. ExportKinds' /\ Steps' /\ DumpIsWhole'
    BY <1>1, <2>1 DEF ExportKinds, Steps, DumpIsWhole, PageQueue, DumpWriter, ExportInv
  <2>3. Intact' => InOrder'
    <3>1. /\ Flushed' = Flushed /\ Framed' = Framed /\ Queued' = Queued /\ Pushing' = Pushing
          /\ Writing = 0 /\ Writing' = 0 /\ Queued = 0
      BY <1>1, <1>3, <2>1, EmptySeq DEF Flushed, Framed, Writing, Queued, Pushing
    <3> QED
      BY <1>1, <1>2, <2>1, <3>1 DEF InOrder, Intact
  <2> QED
    BY <2>2, <2>3 DEF ExportInv
<1>4. CASE pageQueue.pages # <<>>
  <2> DEFINE pages == pageQueue.pages
  <2>1. /\ serialiser' = [at |-> "writing", page |-> Head(pages)]
        /\ pageQueue' = [pageQueue EXCEPT !.pages = Tail(@)]
    BY <1>4 DEF Pop
  <2>2. pages \in Seq(Row) /\ pages # <<>> /\ Len(pages) \in Nat
    BY <1>1, <1>4, PartsAre DEF Queued
  <2>3. /\ Head(pages) \in Row /\ Tail(pages) \in Seq(Row) /\ Len(Tail(pages)) = Len(pages) - 1
        /\ \A i \in 1..Len(Tail(pages)) : Tail(pages)[i] = pages[i + 1]
        /\ Head(pages) = pages[1] /\ Len(pages) >= 1
    BY <2>2, HeadTailProperties, EmptySeq
  <2>4. /\ pageQueue' \in PageQueue /\ pageQueue'.pages = Tail(pages)
        /\ pageQueue'.finished = pageQueue.finished /\ pageQueue'.closed = pageQueue.closed
    BY <1>1, <2>1, <2>3 DEF ExportKinds, PageQueue, Row
  <2>5. serialiser' \in [at : {"none", "popping", "writing", "done"}, page : 0..exportRows]
    BY <1>1, <2>1, <2>3 DEF Row
  <2>6. ExportKinds'
    BY <1>1, <2>2, <2>3, <2>4, <2>5, ExportAssumption DEF ExportKinds, PageQueue, DumpWriter
  <2>7. Steps'
    BY <1>1, <2>1, <2>3, <2>4 DEF Steps, Row
  <2>8. Intact' => InOrder'
    <3> SUFFICES ASSUME Intact' PROVE InOrder'
      OBVIOUS
    <3>1. InOrder
      BY <1>1, <1>2, <2>4 DEF Intact
    <3>2. /\ Flushed' = Flushed /\ Framed' = Framed /\ Queued' = Queued - 1 /\ Pushing' = Pushing
          /\ Writing = 0 /\ Writing' = 1
      BY <1>1, <2>1, <2>3, <2>4 DEF Flushed, Framed, Writing, Queued, Pushing
    <3>3. Flushed \in Int /\ Framed \in Int /\ Queued \in Int /\ Pushing \in Int /\ Queued >= 1
      BY <1>1, <2>3, PartsAre DEF Queued
    <3>4. \A i \in 1..Queued : pages[i] = Flushed + Framed + i
      BY <3>1, <3>2, <3>3 DEF InOrder
    <3>5. serialiser'.page = Flushed + Framed + 1
      <4>1. pages[1] = Flushed + Framed + 1
        BY <3>3, <3>4
      <4>2. serialiser'.page = Head(pages) /\ Head(pages) = pages[1]
        BY <2>1, <2>3
      <4> QED
        BY <4>1, <4>2
    <3>6. \A i \in 1..Queued - 1 : pageQueue'.pages[i] = Flushed + Framed + 1 + i
      <4>1. SUFFICES ASSUME NEW i \in 1..Queued - 1
                     PROVE  pageQueue'.pages[i] = Flushed + Framed + 1 + i
        OBVIOUS
      <4>2. i + 1 \in 1..Queued /\ i \in 1..Len(Tail(pages))
        BY <2>3, <3>3 DEF Queued
      <4>3. pageQueue'.pages[i] = pages[i + 1]
        BY <2>3, <2>4, <4>2
      <4> QED
        BY <3>3, <3>4, <4>2, <4>3
    <3>7. /\ Pushing = 1 => page = Flushed + Framed + 1 + (Queued - 1) + 1
          /\ afterId = Flushed + Framed + 1 + (Queued - 1) + Pushing
      BY <3>1, <3>2, <3>3 DEF InOrder
    <3>8. /\ \A i \in 1..Flushed : file.frames[i] = i
          /\ \A i \in 1..Framed : file.pending[i] = Flushed + i
      BY <3>1 DEF InOrder
    <3> QED
      BY <1>1, <2>1, <3>2, <3>5, <3>6, <3>7, <3>8 DEF InOrder
  <2>9. DumpIsWhole'
    BY <1>1 DEF DumpIsWhole, ExportInv
  <2> QED
    BY <2>6, <2>7, <2>8, <2>9 DEF ExportInv
<1> QED
  BY <1>3, <1>4

\* Two sequences that count on from one another count on as one.
LEMMA CountsOn ==
  ASSUME NEW S, NEW s \in Seq(S), NEW t \in Seq(S),
         \A i \in 1..Len(s) : s[i] = i,
         \A i \in 1..Len(t) : t[i] = Len(s) + i
  PROVE  /\ s \o t \in Seq(S) /\ Len(s \o t) = Len(s) + Len(t)
         /\ \A i \in 1..Len(s) + Len(t) : (s \o t)[i] = i
<1>1. Len(s) \in Nat /\ Len(t) \in Nat
  BY LenProperties
<1>2. /\ s \o t \in Seq(S) /\ Len(s \o t) = Len(s) + Len(t)
      /\ \A i \in 1..Len(s) + Len(t) : (s \o t)[i] = IF i <= Len(s) THEN s[i] ELSE t[i - Len(s)]
  BY ConcatProperties
<1>3. ASSUME NEW i \in 1..Len(s) + Len(t)
      PROVE  (s \o t)[i] = i
  <2>1. CASE i <= Len(s)
    BY <1>1, <1>2, <2>1
  <2>2. CASE ~(i <= Len(s))
    <3>1. i - Len(s) \in 1..Len(t)
      BY <1>1, <2>2
    <3>2. t[i - Len(s)] = Len(s) + (i - Len(s))
      BY <3>1
    <3> QED
      BY <1>1, <1>2, <2>2, <3>2
  <2> QED
    BY <2>1, <2>2
<1> QED
  BY <1>2, <1>3

\* The page goes into the frame; a full frame goes to the disk, or the run is lost.
LEMMA WriteKeeps == ASSUME ExportInv, NEW ok \in BOOLEAN, Write(ok) PROVE ExportInv'
<1> DEFINE pending == Append(file.pending, serialiser.page)
           full == Len(pending) >= kFrameTorrents
<1>1. /\ serialiser.at = "writing" /\ ExportKinds /\ Steps
      /\ UNCHANGED <<exportRows, afterId, page, reader, cancelled, exported>>
      /\ file' = IF full THEN FlushFrame(pending, ok) ELSE [file EXCEPT !.pending = pending]
      /\ serialiser' = [at |-> IF ok THEN "popping" ELSE "done", page |-> 0]
      /\ writeFailed' = (writeFailed \/ ~ok)
      /\ pageQueue' = IF ok THEN pageQueue ELSE Closed(pageQueue)
  BY DEF Write, ExportInv
<1>2. /\ file.frames \in Seq(Row) /\ file.pending \in Seq(Row)
      /\ serialiser.page \in Row /\ Flushed \in Nat /\ Framed \in Nat
  BY <1>1, PartsAre DEF Steps, Row
<1>3. /\ pending \in Seq(Row) /\ Len(pending) = Framed + 1
      /\ \A i \in 1..Framed : pending[i] = file.pending[i]
      /\ pending[Framed + 1] = serialiser.page
  BY <1>2, AppendProperties DEF Framed
<1> HIDE DEF pending
<1>4. file.frames \o pending \in Seq(Row)
  BY <1>2, <1>3, ConcatProperties
<1>5. /\ file' \in DumpWriter /\ file'.exists = file.exists /\ file'.footer = file.footer
  BY <1>1, <1>3, <1>4, EmptySeq DEF FlushFrame, ExportKinds, DumpWriter, Row
<1>6. /\ pageQueue' \in PageQueue /\ Len(pageQueue'.pages) <= kReadAhead
      /\ pageQueue'.finished = pageQueue.finished
      /\ pageQueue'.closed => pageQueue.closed \/ ~ok
  <2>1. CASE ok
    BY <1>1, <2>1 DEF ExportKinds
  <2>2. CASE ~ok
    <3>1. pageQueue' = [pageQueue EXCEPT !.closed = TRUE, !.pages = <<>>] /\ pageQueue \in PageQueue
      BY <1>1, <2>2 DEF Closed, ExportKinds
    <3>2. <<>> \in Seq(1..exportRows) /\ Len(<<>>) <= kReadAhead
      BY EmptySeq, ExportAssumption
    <3> QED
      BY <2>2, <3>1, <3>2 DEF PageQueue
  <2> QED
    BY <2>1, <2>2
<1>7. serialiser' \in [at : {"none", "popping", "writing", "done"}, page : 0..exportRows]
  BY <1>1 DEF ExportKinds
<1>8. writeFailed' \in BOOLEAN
  BY <1>1, Zenon
<1>9. ExportKinds'
  BY <1>1, <1>5, <1>6, <1>7, <1>8 DEF ExportKinds, PageQueue, DumpWriter
<1>10. Steps'
  BY <1>1, <1>5, <1>6 DEF Steps
<1>11. Intact' => InOrder'
  <2> SUFFICES ASSUME Intact' PROVE InOrder'
    OBVIOUS
  <2>1. ok /\ ~writeFailed /\ pageQueue' = pageQueue
    BY <1>1 DEF Intact
  <2>2. InOrder
    BY <1>1, <2>1 DEF Intact, ExportInv
  <2>3. Writing = 1 /\ Writing' = 0 /\ Queued' = Queued /\ Pushing' = Pushing
    BY <1>1, <2>1 DEF Writing, Queued, Pushing
  <2>4. Queued \in Int /\ Pushing \in Int
    BY <1>1, PartsAre
  <2>5. /\ serialiser.page = Flushed + Framed + 1
        /\ \A i \in 1..Flushed : file.frames[i] = i
        /\ \A i \in 1..Framed : file.pending[i] = Flushed + i
    BY <2>2, <2>3 DEF InOrder
  <2>6. \A i \in 1..Framed + 1 : pending[i] = Flushed + i
    <3>1. \A i \in 1..Framed + 1 : i \in 1..Framed \/ i = Framed + 1
      BY <1>2
    <3>2. pending[Framed + 1] = Flushed + (Framed + 1)
      BY <1>2, <1>3, <2>5
    <3> QED
      BY <1>3, <2>5, <3>1, <3>2
  <2>7. /\ Flushed' \in Int /\ Framed' \in Int /\ Flushed' + Framed' = Flushed + Framed + 1
        /\ \A i \in 1..Flushed' : file'.frames[i] = i
        /\ \A i \in 1..Framed' : file'.pending[i] = Flushed' + i
    <3>1. CASE full
      <4>1. file'.frames = file.frames \o pending /\ file'.pending = <<>>
        BY <1>1, <2>1, <3>1 DEF FlushFrame, ExportKinds, DumpWriter
      <4>2. /\ Len(file.frames \o pending) = Flushed + (Framed + 1)
            /\ \A i \in 1..Flushed + (Framed + 1) : (file.frames \o pending)[i] = i
        <5>1. \A i \in 1..Len(file.frames) : file.frames[i] = i
          BY <2>5 DEF Flushed
        <5>2. \A i \in 1..Len(pending) : pending[i] = Len(file.frames) + i
          BY <1>3, <2>6 DEF Flushed
        <5>3. /\ Len(file.frames \o pending) = Len(file.frames) + Len(pending)
              /\ \A i \in 1..Len(file.frames) + Len(pending) : (file.frames \o pending)[i] = i
          BY <1>2, <1>3, <5>1, <5>2, CountsOn, ZenonT(40)
        <5> QED
          BY <1>3, <5>3 DEF Flushed
      <4>3. Flushed' = Flushed + (Framed + 1) /\ Framed' = 0
        BY <4>1, <4>2, EmptySeq DEF Flushed, Framed
      <4> QED
        BY <1>2, <4>1, <4>2, <4>3
    <3>2. CASE ~full
      <4>1. file'.frames = file.frames /\ file'.pending = pending
        BY <1>1, <3>2 DEF ExportKinds, DumpWriter
      <4>2. Flushed' = Flushed /\ Framed' = Framed + 1
        BY <1>3, <4>1 DEF Flushed, Framed
      <4> QED
        BY <1>2, <2>5, <2>6, <4>1, <4>2
    <3> QED
      BY <3>1, <3>2
  <2>8. Flushed' + Framed' + Writing' = Flushed + Framed + Writing
    <3>1. Flushed' \in Int /\ Framed' \in Int /\ Flushed' + Framed' = Flushed + Framed + 1
      BY <2>7, Zenon
    <3>2. Flushed \in Int /\ Framed \in Int
      BY <1>2
    <3>3. Writing \in Int /\ Writing' \in Int /\ Writing' = Writing - 1
      BY <2>3
    <3>4. PICK f \in Int, h \in Int, w \in Int : f = Flushed' /\ h = Framed' /\ w = Writing'
      BY <3>1, <3>3
    <3>5. f + h = Flushed + Framed + 1 /\ w = Writing - 1
      BY <3>1, <3>3, <3>4
    <3>6. f + h + w = Flushed + Framed + Writing
      BY <3>2, <3>3, <3>5
    <3> QED
      BY <3>4, <3>6, Zenon
  <2>9. \A i \in 1..Queued : pageQueue.pages[i] = Flushed' + Framed' + Writing' + i
    BY <2>2, <2>8 DEF InOrder
  <2>10. /\ Pushing = 1 => page = Flushed' + Framed' + Writing' + Queued + 1
         /\ afterId = Flushed' + Framed' + Writing' + Queued + Pushing
    BY <2>2, <2>8 DEF InOrder
  <2>11. serialiser'.at # "done"
    BY <1>1, <2>1
  <2>12. pageQueue'.pages = pageQueue.pages
    BY <2>1
  <2> QED
    BY <1>1, <2>3, <2>7, <2>9, <2>10, <2>11, <2>12 DEF InOrder
<1>12. DumpIsWhole'
  BY <1>1 DEF DumpIsWhole, Steps
<1> QED
  BY <1>9, <1>10, <1>11, <1>12 DEF ExportInv

\* The file is kept only when every page the reader took is in it.
LEMMA ReturnKeeps == ASSUME ExportInv, NEW written \in BOOLEAN, Return(written) PROVE ExportInv'
<1>1. /\ reader = "joining" /\ serialiser.at = "done" /\ reader' = "returned"
      /\ ExportKinds /\ Steps /\ exported = "none" /\ file.exists
      /\ UNCHANGED <<exportRows, afterId, page, serialiser, pageQueue, writeFailed, cancelled>>
  BY DEF Return, ExportInv, Steps
<1>2. \/ exported' \in {"cancelled", "failed"} /\ file' = Aborted
      \/ ~cancelled /\ ~writeFailed /\ exported' = "ok" /\ file' = Finished
  BY DEF Return
<1>3. exported' # "none" /\ exported' \in Result
  BY <1>2 DEF Result
<1>4. file' \in DumpWriter /\ DumpIsWhole'
  <2>1. CASE exported' \in {"cancelled", "failed"} /\ file' = Aborted
    BY <1>1, <2>1, EmptyFile DEF DumpIsWhole, Aborted
  <2>2. CASE ~cancelled /\ ~writeFailed /\ exported' = "ok" /\ file' = Finished
    <3>1. InOrder
      BY <1>1, <2>2 DEF Steps, Intact, ExportInv
    <3>2. Queued = 0 /\ Writing = 0 /\ Pushing = 0
      BY <1>1, <3>1 DEF InOrder, Writing, Pushing
    <3>3. /\ Flushed \in Int /\ Framed \in Int
          /\ file.frames \in Seq(Row) /\ file.pending \in Seq(Row)
      BY <1>1, PartsAre
    <3>4. afterId = Flushed + Framed
      BY <3>1, <3>2, <3>3 DEF InOrder
    <3> DEFINE whole == file.frames \o file.pending
    <3>5. /\ whole \in Seq(Row) /\ Len(whole) = afterId
          /\ \A i \in 1..afterId : whole[i] = i
      <4>1. /\ \A i \in 1..Len(file.frames) : file.frames[i] = i
            /\ \A i \in 1..Len(file.pending) : file.pending[i] = Len(file.frames) + i
        BY <3>1 DEF InOrder, Flushed, Framed
      <4>2. /\ whole \in Seq(Row) /\ Len(whole) = Len(file.frames) + Len(file.pending)
            /\ \A i \in 1..Len(file.frames) + Len(file.pending) : whole[i] = i
        BY <3>3, <4>1, CountsOn
      <4> QED
        BY <3>4, <4>2 DEF Flushed, Framed
    <3>6. whole = [i \in 1..afterId |-> i]
      <4>1. DOMAIN whole = 1..afterId /\ whole \in [1..afterId -> Row]
        BY <3>5, LenProperties
      <4> QED
        BY <3>5, <4>1
    <3>7. /\ file'.frames = whole /\ file'.pending = <<>> /\ file'.footer = afterId /\ file'.exists
          /\ file' \in DumpWriter
      <4>1. file' = [file EXCEPT !.frames = whole, !.pending = <<>>, !.footer = afterId]
        BY <2>2, <3>4 DEF Finished, Flushed, Framed
      <4>2. afterId \in 0..exportRows /\ <<>> \in Seq(Row) /\ file \in DumpWriter
        BY <1>1, EmptySeq DEF ExportKinds
      <4> HIDE DEF whole
      <4> QED
        BY <1>1, <3>5, <4>1, <4>2 DEF DumpWriter, Row
    <3> QED
      BY <1>1, <2>2, <3>6, <3>7 DEF DumpIsWhole
  <2> QED
    BY <1>2, <2>1, <2>2
<1>5. ExportKinds'
  BY <1>1, <1>3, <1>4 DEF ExportKinds, Threads, PageQueue, DumpWriter
<1>6. Steps'
  BY <1>1, <1>3 DEF Steps
<1> QED
  BY <1>3, <1>4, <1>5, <1>6 DEF ExportInv, Intact

LEMMA ReportExportKeeps == ASSUME ExportInv, ReportExport PROVE ExportInv'
<1>1. /\ reader = "returned" /\ exported \in {"ok", "cancelled", "failed"}
      /\ UNCHANGED <<exportRows, afterId, page, reader, serialiser, pageQueue, writeFailed,
                      cancelled, file>>
      /\ \/ exported' = "toldCancelled"
         \/ exported = "ok" /\ exported' = "toldOk"
         \/ exported # "ok" /\ exported' = "toldFailed"
  BY DEF ReportExport
<1>2. ExportKinds' /\ Steps'
  BY <1>1 DEF ExportInv, ExportKinds, Steps, PageQueue, DumpWriter, Result
<1>3. DumpIsWhole'
  BY <1>1 DEF ExportInv, DumpIsWhole
<1>4. ~Intact'
  BY <1>1 DEF Intact
<1> QED
  BY <1>2, <1>3, <1>4 DEF ExportInv

LEMMA ExportKeeps == ExportInv /\ [ExportNext]_exportVars => ExportInv'
<1> SUFFICES ASSUME ExportInv, [ExportNext]_exportVars PROVE ExportInv'
  OBVIOUS
<1>1. CASE UNCHANGED exportVars
  BY <1>1 DEF ExportInv, ExportKinds, Steps, DumpIsWhole, Intact, InOrder, Flushed, Framed, Writing,
              Queued, Pushing, PageQueue, DumpWriter, exportVars
<1> QED
  BY <1>1, CancelExportKeeps, PushKeeps, FinishKeeps, ReportExportKeeps, PopKeeps, OpenFileKeeps,
     ReadPageKeeps, WriteKeeps, ReturnKeeps DEF ExportNext

\* The file of an export that is reported good holds every row of the index once, in
\* the order it was read, and its footer counts them: cancel(), a failed write and the
\* end of the reader close the queue in any order (database_exporter.cpp).
THEOREM DumpIsWholeHolds == ExportSpec => []DumpIsWhole
<1>1. ExportInv => DumpIsWhole
  BY DEF ExportInv
<1> QED
  BY <1>1, ExportStarts, ExportKeeps, PTL DEF ExportSpec

-----------------------------------------------------------------------------
(* The import of a dump                                                     *)

\* The frames up to n are in the index, or were refused.
Covered(n) == \A f \in Frame : f <= n => f \in indexed \cup lost

ImportKinds ==
    /\ dump \in Dumps /\ dumpOnDisk \in BOOLEAN
    /\ resume \in {-1} \cup {0} \cup Frame
    /\ worker \in DumpReader /\ op \in ImportOptions
    /\ indexed \subseteq Frame /\ lost \subseteq Frame /\ imports \in 0..MaxImports
    /\ imported \in {"none", "unreadable"} \cup DOMAIN Told
                    \cup {"toldCancelled", "toldFailed", "toldDone"}

\* What has been read is behind the resume point and in the index; an import that
\* ended well left no resume point.
ImportInv ==
    /\ ImportKinds
    /\ Covered(resume)
    /\ worker.at \in {"reading", "saving"} => Covered(worker.frames)
    /\ worker.at = "inserting" => worker.frames > 0 /\ Covered(worker.frames - 1)
    /\ worker.at # "none" => imported \notin DOMAIN Told
    /\ imported = "ok" => resume = -1

LEMMA ToldIs == /\ DOMAIN Told = {"cancelled", "failed", "ok"}
                /\ \A r \in DOMAIN Told : Told[r] \in {"toldCancelled", "toldFailed", "toldDone"}
  BY DEF Told

LEMMA FramesAre ==
  /\ Frame \subseteq Nat \ {0}
  /\ \A d \in Dumps : \A f \in 1..d.frames : f \in Frame
  BY ImportAssumption DEF Frame

\* The index only grows.
LEMMA CoveredStays ==
  ASSUME NEW n, Covered(n), indexed \subseteq indexed', lost \subseteq lost'
  PROVE  Covered(n)'
  BY DEF Covered, Frame

LEMMA ImportStarts == ImportInit => ImportInv
<1> SUFFICES ASSUME ImportInit PROVE ImportInv
  OBVIOUS
<1>1. ImportKinds
  BY ImportAssumption DEF ImportInit, ImportKinds, NoWorker, NoOperation, DumpReader, ImportOptions
<1> QED
  BY <1>1, FramesAre, ToldIs DEF ImportInit, ImportInv, Covered, NoWorker

LEMMA FromFileKeeps ==
  ASSUME ImportInv, NEW a \in BOOLEAN, NEW b \in BOOLEAN, ImportFromFile(a, b)
  PROVE  ImportInv'
<1>1. /\ worker' = [at |-> "opening", frames |-> 0, end |-> "no"] /\ imported' = "none"
      /\ UNCHANGED <<dump, dumpOnDisk, resume, indexed, lost>>
      /\ imports' = imports + 1 /\ imports < MaxImports
      /\ op' = [running |-> TRUE, resume |-> a, removeWhenDone |-> b, cancelled |-> FALSE]
  BY DEF ImportFromFile, NoWorker
<1>2. ImportKinds'
  BY <1>1, ImportAssumption DEF ImportInv, ImportKinds, DumpReader, ImportOptions
<1> QED
  BY <1>1, <1>2, ToldIs DEF ImportInv, Covered, Frame

LEMMA CancelKeeps == ASSUME ImportInv, CancelImport PROVE ImportInv'
<1>1. /\ op' \in ImportOptions
      /\ UNCHANGED <<dump, dumpOnDisk, resume, worker, imported, indexed, lost, imports>>
  <2>1. op \in ImportOptions /\ NoOperation \in ImportOptions
    BY DEF ImportInv, ImportKinds, NoOperation, ImportOptions
  <2>2. [op EXCEPT !.cancelled = TRUE] \in ImportOptions
    BY <2>1 DEF ImportOptions
  <2> QED
    BY <2>1, <2>2 DEF CancelImport
<1> QED
  BY <1>1 DEF ImportInv, ImportKinds, Covered, Told, DumpReader, Frame

LEMMA OpenKeeps == ASSUME ImportInv, NEW ok \in BOOLEAN, OpenReader(ok) PROVE ImportInv'
<1>1. /\ worker.at = "opening" /\ worker \in DumpReader
      /\ UNCHANGED <<dump, dumpOnDisk, resume, op, indexed, lost, imports>>
  BY DEF OpenReader, ImportInv, ImportKinds
<1>2. LoadResumeOffset \in {0} \cup Frame /\ LoadResumeOffset \in {0, resume}
  BY DEF LoadResumeOffset, ImportInv, ImportKinds
<1>3. Covered(LoadResumeOffset)
  BY <1>2, FramesAre DEF ImportInv, Covered
<1>4. CASE ok
  <2>1. /\ worker' = [worker EXCEPT !.at = "reading", !.frames = LoadResumeOffset]
        /\ imported' = imported
    BY <1>4 DEF OpenReader
  <2>2. worker' \in DumpReader /\ worker'.at = "reading" /\ worker'.frames = LoadResumeOffset
    BY <1>1, <1>2, <2>1 DEF DumpReader
  <2>3. Covered(worker.frames)'
    BY <1>1, <1>3, <2>2 DEF Covered
  <2> QED
    BY <1>1, <2>1, <2>2, <2>3 DEF ImportInv, ImportKinds, Covered
<1>5. CASE ~ok
  <2>1. worker' = [worker EXCEPT !.at = "ending"] /\ imported' = "unreadable"
    BY <1>5 DEF OpenReader
  <2>2. worker' \in DumpReader /\ worker'.at = "ending"
    BY <1>1, <2>1 DEF DumpReader
  <2> QED
    BY <1>1, <2>1, <2>2, ToldIs DEF ImportInv, ImportKinds, Covered
<1> QED
  BY <1>4, <1>5

LEMMA ReadBatchKeeps == ASSUME ImportInv, ReadBatch \/ StopReading PROVE ImportInv'
<1>1. /\ worker.at = "reading" /\ worker \in DumpReader /\ dump \in Dumps
      /\ UNCHANGED <<dump, dumpOnDisk, resume, op, imported, indexed, lost, imports>>
  BY DEF ReadBatch, StopReading, ImportInv, ImportKinds
<1>2. worker.frames \in Nat /\ dump.frames \in Nat
  <2>1. worker.frames = 0 \/ worker.frames \in Frame
    BY <1>1 DEF DumpReader
  <2>2. dump.frames \in Nat
    BY <1>1, ImportAssumption
  <2>3. Frame \subseteq Nat
    BY FramesAre
  <2>4. worker.frames \in Nat
    <3>1. CASE worker.frames = 0
      BY <3>1, SMT
    <3>2. CASE worker.frames \in Frame
      BY <2>3, <3>2, Zenon
    <3> QED
      BY <2>1, <3>1, <3>2
  <2> QED
    BY <2>2, <2>4
<1>3. CASE ReadBatch /\ worker.frames < dump.frames
  <2>1. worker' = [worker EXCEPT !.at = "inserting", !.frames = @ + 1]
    BY <1>3 DEF ReadBatch
  <2>2. worker.frames + 1 \in Frame
    BY <1>1, <1>2, <1>3, FramesAre
  <2>3. worker' \in DumpReader /\ worker'.at = "inserting" /\ worker'.frames = worker.frames + 1
    BY <1>1, <2>1, <2>2 DEF DumpReader
  <2>4. worker'.frames - 1 = worker.frames
    BY <1>2, <2>3
  <2>5. Covered(worker.frames - 1)'
    BY <1>1, <2>4 DEF Covered, ImportInv
  <2>6. worker'.frames > 0
    BY <1>2, <2>3
  <2> QED
    BY <1>1, <2>3, <2>5, <2>6 DEF ImportInv, ImportKinds, Covered
<1>4. CASE ~(ReadBatch /\ worker.frames < dump.frames)
  <2>1. worker' \in DumpReader /\ worker'.at = "ending"
    BY <1>1, <1>4, ImportAssumption DEF ReadBatch, StopReading, DumpReader
  <2> QED
    BY <1>1, <2>1 DEF ImportInv, ImportKinds, Covered
<1> QED
  BY <1>3, <1>4

LEMMA InsertKeeps == ASSUME ImportInv, NEW ok \in BOOLEAN, InsertBatch(ok) PROVE ImportInv'
<1>1. /\ worker.at = "inserting" /\ worker \in DumpReader /\ worker.frames > 0
      /\ worker' = [worker EXCEPT !.at = "saving"]
      /\ UNCHANGED <<dump, dumpOnDisk, resume, op, imported, imports>>
  BY DEF InsertBatch, ImportInv, ImportKinds
<1>2. worker' \in DumpReader /\ worker'.at = "saving" /\ worker'.frames = worker.frames
  BY <1>1 DEF DumpReader
<1>3. worker.frames \in Frame /\ worker.frames \in Nat
  BY <1>1, FramesAre DEF DumpReader
<1>4. /\ indexed \subseteq indexed' /\ lost \subseteq lost'
      /\ indexed' \subseteq Frame /\ lost' \subseteq Frame
      /\ worker.frames \in indexed' \cup lost'
  BY <1>3 DEF InsertBatch, ImportInv, ImportKinds
<1>5. Covered(resume)'
  BY <1>1, <1>4, CoveredStays DEF ImportInv, Covered
<1>6. Covered(worker.frames)'
  <2>1. \A f \in Frame : f <= worker.frames => f = worker.frames \/ f <= worker.frames - 1
    BY <1>3, FramesAre
  <2>2. Covered(worker.frames - 1)
    BY <1>1 DEF ImportInv
  <2> QED
    BY <1>1, <1>2, <1>4, <2>1, <2>2 DEF Covered, Frame
<1> QED
  BY <1>1, <1>2, <1>4, <1>5, <1>6 DEF ImportInv, ImportKinds, Covered

LEMMA SaveKeeps == ASSUME ImportInv, NEW ok \in BOOLEAN, SaveResumeState(ok) PROVE ImportInv'
<1>1. /\ worker.at = "saving" /\ worker \in DumpReader
      /\ worker' = [worker EXCEPT !.at = "reading"]
      /\ resume' = IF ok THEN worker.frames ELSE resume
      /\ UNCHANGED <<dump, dumpOnDisk, op, imported, indexed, lost, imports>>
  BY DEF SaveResumeState, ImportInv, ImportKinds
<1>2. worker' \in DumpReader /\ worker'.at = "reading" /\ worker'.frames = worker.frames
  BY <1>1 DEF DumpReader
<1>3. resume' \in {-1} \cup {0} \cup Frame
  BY <1>1 DEF DumpReader, ImportInv, ImportKinds
<1>4. Covered(resume)' /\ Covered(worker.frames)'
  BY <1>1, <1>2 DEF ImportInv, Covered
<1>5. imported # "ok"
  BY <1>1, ToldIs DEF ImportInv
<1> QED
  BY <1>1, <1>2, <1>3, <1>4, <1>5 DEF ImportInv, ImportKinds, Covered

LEMMA EndKeeps == ASSUME ImportInv, EndImport PROVE ImportInv'
<1>1. /\ worker \in DumpReader /\ worker' = [worker EXCEPT !.at = "none"]
      /\ imported' = Verdict
      /\ resume' = IF Verdict = "cancelled" THEN resume ELSE -1
      /\ UNCHANGED <<dump, dumpOnDisk, op, indexed, lost, imports>>
  BY DEF EndImport, ImportInv, ImportKinds
<1>2. worker' \in DumpReader /\ worker'.at = "none"
  BY <1>1 DEF DumpReader
<1>3. Verdict \in {"failed", "cancelled", "ok"}
  BY DEF Verdict
<1>4. Covered(resume)'
  BY <1>1, FramesAre DEF ImportInv, Covered
<1> QED
  BY <1>1, <1>2, <1>3, <1>4, ToldIs DEF ImportInv, ImportKinds, Covered

LEMMA ReportKeeps == ASSUME ImportInv, ReportImport PROVE ImportInv'
<1>1. /\ worker.at = "none" /\ imported \in DOMAIN Told /\ imported' = Told[imported]
      /\ dumpOnDisk' \in BOOLEAN /\ op' = NoOperation
      /\ UNCHANGED <<dump, resume, worker, indexed, lost, imports>>
  BY DEF ReportImport, ImportInv, ImportKinds
<1>2. NoOperation \in ImportOptions
  BY DEF NoOperation, ImportOptions
<1> QED
  BY <1>1, <1>2, ToldIs DEF ImportInv, ImportKinds, Covered

LEMMA RestartKeeps ==
  ASSUME ImportInv, NEW old \in BOOLEAN, NEW torn \in BOOLEAN, RestartImport(old, torn)
  PROVE  ImportInv'
<1>1. /\ worker' = NoWorker /\ op' = NoOperation /\ imported' = "none"
      /\ resume' = IF torn THEN -1 ELSE resume
      /\ dumpOnDisk' \in BOOLEAN
      /\ UNCHANGED <<dump, indexed, lost, imports>>
  BY DEF RestartImport, Sweep, PendingImport, ImportInv, ImportKinds
<1>2. NoOperation \in ImportOptions /\ NoWorker \in DumpReader /\ NoWorker.at = "none"
  BY DEF NoOperation, ImportOptions, NoWorker, DumpReader
<1>3. Covered(resume)'
  BY <1>1, FramesAre DEF ImportInv, Covered
<1> QED
  BY <1>1, <1>2, <1>3 DEF ImportInv, ImportKinds, Covered

LEMMA ImportKeeps == ImportInv /\ [ImportNext]_importVars => ImportInv'
<1> SUFFICES ASSUME ImportInv, [ImportNext]_importVars PROVE ImportInv'
  OBVIOUS
<1>1. CASE UNCHANGED importVars
  BY <1>1 DEF ImportInv, ImportKinds, Covered, importVars, Told, DumpReader, Frame
<1> QED
  BY <1>1, FromFileKeeps, CancelKeeps, OpenKeeps, ReadBatchKeeps, InsertKeeps, SaveKeeps,
     EndKeeps, ReportKeeps, RestartKeeps DEF ImportNext

\* The offset an import saved is never past what was inserted, so that no resume of a
\* later run of the program leaves a torrent out (database_importer.cpp,
\* database_sync_service.cpp).
THEOREM ResumeNeverSkipsHolds == ImportSpec => []ResumeNeverSkips
<1>1. ImportInv => ResumeNeverSkips
  BY DEF ImportInv, Covered, ResumeNeverSkips
<1> QED
  BY <1>1, ImportStarts, ImportKeeps, PTL DEF ImportSpec

\* Only the end of an import and a start of the program remove the file.
THEOREM ResumeKeepsFileHolds == ImportSpec => ResumeKeepsFile
<1> DEFINE Keeps == resume >= 0 /\ resume' >= 0 => (dumpOnDisk => dumpOnDisk')
<1>1. ImportInv /\ [ImportNext]_importVars => [Keeps]_importVars
  <2> SUFFICES ASSUME ImportInv, ImportNext, resume >= 0, resume' >= 0, dumpOnDisk PROVE dumpOnDisk'
    OBVIOUS
  <2>1. CASE ReportImport
    <3>1. imported # "ok"
      BY DEF ImportInv
    <3> QED
      BY <2>1, <3>1, Zenon DEF ReportImport
  <2>2. ASSUME NEW old \in BOOLEAN, NEW torn \in BOOLEAN, RestartImport(old, torn)
        PROVE  dumpOnDisk'
    <3>1. ~torn
      BY <2>2 DEF RestartImport
    <3> QED
      BY <2>2, <3>1, Zenon DEF RestartImport, Sweep, PendingImport
  <2>3. CASE UNCHANGED dumpOnDisk
    BY <2>3, Zenon
  <2>4. \/ UNCHANGED dumpOnDisk
        \/ ReportImport
        \/ \E old, torn \in BOOLEAN : RestartImport(old, torn)
    BY DEF ImportNext, ImportFromFile, CancelImport, OpenReader, ReadBatch, StopReading,
           InsertBatch, SaveResumeState, EndImport
  <2> QED
    BY <2>1, <2>2, <2>3, <2>4, Zenon
<1> QED
  BY <1>1, ImportStarts, ImportKeeps, PTL DEF ImportSpec, ResumeKeepsFile

-----------------------------------------------------------------------------
(* The supervision of Manticore                                             *)

\* What one run of the program and its daemon keep: no child without a run that
\* can still stop it, whoever holds the pid file lives, and a child that was
\* blamed has the torn log to itself.
SupervisedInv ==
    /\ at \in {"off", "starting"} => process = "none"
    /\ external => /\ process = "none"
                   /\ at \notin {"starting", "waiting", "recovering", "stopping"}
    /\ status = "Stopped" /\ at # "stopping" => process = "none"
    /\ foreign # "none" => pidFile = "foreign"
    /\ pidFile = "child" => process # "none"
    /\ blamed => binlog = "torn" /\ foreign = "none" /\ process # "serving"
    /\ at = "recovering" => blamed /\ ~resetDone

ManticoreInv == ManticoreTypeOK /\ SupervisedInv

LEMMA ManticoreStarts == ManticoreInit => ManticoreInv
  BY DEF ManticoreInit, ManticoreInv, ManticoreTypeOK, SupervisedInv, Status

LEMMA ManticoreDaemonKeeps == ManticoreInv /\ Daemon => ManticoreInv'
<1> SUFFICES ASSUME ManticoreInv, Daemon PROVE ManticoreInv'
  OBVIOUS
<1> USE DEF ManticoreInv, ManticoreTypeOK, SupervisedInv, Status
<1>1. CASE WritesPid
  BY <1>1 DEF WritesPid
<1>2. CASE Serves
  BY <1>2 DEF Serves
<1>3. CASE BlamesBinlog
  BY <1>3 DEF BlamesBinlog, survivors
<1>4. CASE ChildDies
  BY <1>4 DEF ChildDies, ChildSignals, OnProcessFinished, OnProcessError, Dead
<1>5. CASE ForeignDies
  BY <1>5 DEF ForeignDies, Dead
<1> QED
  BY <1>1, <1>2, <1>3, <1>4, <1>5 DEF Daemon

LEMMA ManticoreProgramKeeps == ManticoreInv /\ Program => ManticoreInv'
<1> SUFFICES ASSUME ManticoreInv, Program PROVE ManticoreInv'
  OBVIOUS
<1> USE DEF ManticoreInv, ManticoreTypeOK, SupervisedInv, Status
<1>1. CASE Attaches
  BY <1>1 DEF Attaches, survivors
<1>2. CASE Launches
  BY <1>2 DEF Launches, LaunchSearchdProcess, survivors
<1>3. CASE CannotLaunch
  BY <1>3 DEF CannotLaunch, survivors
<1>4. CASE Ready
  BY <1>4 DEF Ready, WaitsForReady, survivors
<1>5. CASE NotReady
  BY <1>5 DEF NotReady, WaitsForReady, GivesUp, survivors
<1>6. CASE ChildIsShut
  BY <1>6 DEF ChildIsShut, Dead
<1>7. ASSUME NEW removed \in BOOLEAN, Recover(removed)
      PROVE  ManticoreInv'
  <2>1. CASE ResetBinlog(removed)
    BY <1>7, <2>1 DEF Recover, ShutdownProcess, LaunchSearchdProcess
  <2>2. CASE ~ResetBinlog(removed)
    BY <1>7, <2>2 DEF Recover, ShutdownProcess
  <2> QED
    BY <2>1, <2>2
<1>8. CASE CheckConnection
  BY <1>8 DEF CheckConnection, survivors
<1>9. CASE Stopped
  BY <1>9 DEF Stopped, ShutdownProcess, survivors
<1> QED
  BY <1>1, <1>2, <1>3, <1>4, <1>5, <1>6, <1>7, <1>8, <1>9 DEF Program

LEMMA ManticoreKeeps == ManticoreInv /\ [ManticoreNext]_manticoreVars => ManticoreInv'
<1> SUFFICES ASSUME ManticoreInv, [ManticoreNext]_manticoreVars PROVE ManticoreInv'
  OBVIOUS
<1>1. CASE ProgramStarts
  BY <1>1 DEF ManticoreInv, ManticoreTypeOK, SupervisedInv, Status, ProgramStarts, Fresh, survivors
<1>2. CASE StopManticore
  BY <1>2 DEF ManticoreInv, ManticoreTypeOK, SupervisedInv, Status, StopManticore, survivors
<1>3. CASE ProgramKilled
  BY <1>3 DEF ManticoreInv, ManticoreTypeOK, SupervisedInv, Status, ProgramKilled, Fresh
<1>4. CASE UNCHANGED manticoreVars
  BY <1>4 DEF ManticoreInv, ManticoreTypeOK, SupervisedInv, Status, manticoreVars
<1> QED
  BY <1>1, <1>2, <1>3, <1>4, ManticoreDaemonKeeps, ManticoreProgramKeeps DEF ManticoreNext

\* A program that stopped by itself leaves no daemon it launched, whichever error the
\* daemon was in when stop() came (manticore.cpp).
THEOREM NoneLeftBehindHolds == ManticoreSpec => []NoneLeftBehind
<1>1. ManticoreInv => NoneLeftBehind
  BY DEF ManticoreInv, SupervisedInv, NoneLeftBehind
<1> QED
  BY <1>1, ManticoreStarts, ManticoreKeeps, PTL DEF ManticoreSpec

\* Only the recovery of start() drops a log.
THEOREM ResetOnlyTornHolds == ManticoreSpec => ResetOnlyTorn
<1> DEFINE Reset == binlog # "none" /\ binlog' = "none" =>
                       binlog = "torn" /\ process = "none" /\ foreign = "none" /\ ~resetDone
<1>1. ManticoreInv /\ [ManticoreNext]_manticoreVars => [Reset]_manticoreVars
  <2> SUFFICES ASSUME ManticoreInv, ManticoreNext, binlog # "none", binlog' = "none"
               PROVE Reset
    OBVIOUS
  <2>1. ~Daemon
    BY DEF Daemon, WritesPid, Serves, BlamesBinlog, ChildDies, ForeignDies, survivors
  <2>2. ~(ProgramStarts \/ StopManticore \/ ProgramKilled)
    BY DEF ProgramStarts, StopManticore, ProgramKilled, survivors
  <2>3. PICK r \in BOOLEAN : Recover(r)
    BY <2>1, <2>2 DEF ManticoreNext, Program, Attaches, Launches, CannotLaunch, Ready, NotReady,
                      ChildIsShut, CheckConnection, Stopped, survivors
  <2> QED
    BY <2>3 DEF Recover, ShutdownProcess, ManticoreInv, SupervisedInv
<1> QED
  BY <1>1, ManticoreStarts, ManticoreKeeps, PTL DEF ManticoreSpec, ResetOnlyTorn

-----------------------------------------------------------------------------
(* The updater                                                              *)

Dialog == {"ask", "busy", "retry"}
Installable(d) == d.exists /\ d.extracted /\ d.script

\* The directory of the program is there, and complete when the service says so;
\* that of the script is complete, and no longer the program's.
InstallInv ==
    /\ state \in UpdateState /\ info \in BOOLEAN /\ checks \in Nat /\ downloads \in Nat
    /\ dirs \in Seq(Dir) /\ tempDir \in 0..Len(dirs) /\ prompt \in BOOLEAN
    /\ dialogs \in Seq(Dialog)
    /\ program \in {"up", "quitting", "gone", "crashed"}
    /\ updater \in [at : {"none", "waiting", "swapped", "failed"}, dir : 0..Len(dirs)]
    /\ tempDir # 0 => dirs[tempDir].exists
    /\ state = "ReadyToInstall" /\ program \in {"up", "quitting"} =>
          tempDir # 0 /\ Installable(dirs[tempDir])
    /\ updater.at # "none" =>
          /\ updater.dir # 0 /\ updater.dir # tempDir
          /\ Installable(dirs[updater.dir])

LEMMA UpdaterStarts == UpdaterInit => InstallInv
<1> SUFFICES ASSUME UpdaterInit PROVE InstallInv
  OBVIOUS
<1>1. /\ dirs \in Seq(Dir) /\ Len(dirs) = 0
      /\ dialogs \in Seq(Dialog)
  BY EmptySeq DEF UpdaterInit
<1>2. state \in UpdateState /\ info = FALSE /\ prompt = FALSE /\ checks = 0 /\ downloads = 0
      /\ program = "up" /\ tempDir = 0 /\ state # "ReadyToInstall"
      /\ updater = [at |-> "none", dir |-> 0]
  BY DEF UpdaterInit, UpdateState
<1>3. updater \in [at : {"none", "waiting", "swapped", "failed"}, dir : 0..Len(dirs)]
  BY <1>1, <1>2
<1> QED
  BY <1>1, <1>2, <1>3 DEF InstallInv

\* An action that leaves the directories and the script alone.
LEMMA DirsAlone ==
  ASSUME InstallInv, UNCHANGED <<dirs, tempDir, updater>>,
         state' \in UpdateState, info' \in BOOLEAN, checks' \in Nat, downloads' \in Nat,
         prompt' \in BOOLEAN, dialogs' \in Seq(Dialog),
         program' = program \/ (program = "up" /\ program' \in {"quitting", "crashed"}),
         state' = "ReadyToInstall" => state = "ReadyToInstall"
  PROVE  InstallInv'
  BY DEF InstallInv

LEMMA RetryEverywhere ==
  ASSUME dialogs \in Seq(Dialog)
  PROVE  [k \in DOMAIN dialogs |-> "retry"] \in Seq(Dialog)
<1>1. Len(dialogs) \in Nat /\ DOMAIN dialogs = 1..Len(dialogs)
  BY LenProperties
<1> QED
  BY <1>1 DEF Dialog

\* The directory of the download before is removed, that of the script is not.
LEMMA ReplacedIs ==
  ASSUME InstallInv
  PROVE  /\ Replaced \in Seq(Dir) /\ Len(Replaced) = Len(dirs)
         /\ \A k \in 1..Len(dirs) : k # tempDir => Replaced[k] = dirs[k]
<1>1. Len(dirs) \in Nat /\ DOMAIN dirs = 1..Len(dirs) /\ \A k \in 1..Len(dirs) : dirs[k] \in Dir
  BY LenProperties, ElementOfSeq DEF InstallInv
<1>2. \A k \in 1..Len(dirs) : Replaced[k] \in Dir
  BY <1>1 DEF Replaced, Dir
<1>3. Replaced \in Seq(Dir)
  BY <1>1, <1>2 DEF Replaced
<1>4. DOMAIN Replaced = 1..Len(dirs)
  BY <1>1 DEF Replaced
<1>5. Len(Replaced) = Len(dirs)
  BY <1>1, <1>3, <1>4, LenProperties
<1> QED
  BY <1>1, <1>3, <1>5 DEF Replaced

LEMMA CheckKeeps ==
  ASSUME InstallInv, TimerChecks \/ UserChecks PROVE InstallInv'
<1>1. UNCHANGED <<downloads, dirs, tempDir, dialogs, prompt, program, updater>>
  BY DEF TimerChecks, UserChecks
<1>2. CheckForUpdates
  BY DEF TimerChecks, UserChecks
<1>3. /\ state' \in {state, "CheckingForUpdates"} /\ (info' = info \/ info' = FALSE)
      /\ checks' \in {checks, checks + 1}
  BY <1>2 DEF CheckForUpdates
<1>4. state' \in UpdateState
  BY <1>3 DEF InstallInv, UpdateState
<1>5. info' \in BOOLEAN
  BY <1>3, Zenon DEF InstallInv
<1>6. checks' \in Nat
  BY <1>3 DEF InstallInv
<1> QED
  BY <1>1, <1>3, <1>4, <1>5, <1>6, DirsAlone DEF InstallInv

LEMMA CheckReplyKeeps ==
  ASSUME InstallInv, NEW found \in {"error", "older", "newer"}, OnCheckReplyFinished(found)
  PROVE  InstallInv'
<1>1. UNCHANGED <<downloads, dirs, tempDir, prompt, program, updater>> /\ checks' \in Nat
  BY DEF OnCheckReplyFinished, InstallInv
<1>2. state' \in {"Error", "Idle", "UpdateAvailable"} /\ info' \in BOOLEAN
  BY DEF OnCheckReplyFinished, SetError, InstallInv
<1>3. dialogs' \in {dialogs, Append(dialogs, "ask"), [k \in DOMAIN dialogs |-> "retry"]}
  BY DEF OnCheckReplyFinished, SetError
<1>4. dialogs' \in Seq(Dialog)
  <2>1. dialogs \in Seq(Dialog)
    BY DEF InstallInv
  <2>2. "ask" \in Dialog
    BY DEF Dialog
  <2>3. Append(dialogs, "ask") \in Seq(Dialog)
    BY <2>1, <2>2, AppendProperties
  <2>4. [k \in DOMAIN dialogs |-> "retry"] \in Seq(Dialog)
    BY <2>1, RetryEverywhere
  <2> QED
    BY <1>3, <2>1, <2>3, <2>4, Zenon
<1> QED
  BY <1>1, <1>2, <1>4, DirsAlone DEF InstallInv, UpdateState

LEMMA DownloadClickedKeeps ==
  ASSUME InstallInv, DownloadClicked
  PROVE  InstallInv'
<1>1. UNCHANGED <<info, checks, prompt, program, updater>> /\ DownloadUpdate
      /\ dialogs # <<>>
  BY DEF DownloadClicked
<1>2. [dialogs EXCEPT ![Len(dialogs)] = "busy"] \in Seq(Dialog)
  BY ExceptSeq, <1>1 DEF InstallInv, Dialog
<1>3. CASE ~info
  BY <1>1, <1>3, DirsAlone, RetryEverywhere DEF DownloadUpdate, SetError, InstallInv, UpdateState
<1>4. CASE info /\ state = "Downloading"
  BY <1>1, <1>2, <1>4, DirsAlone DEF DownloadUpdate, InstallInv
<1>5. CASE info /\ state # "Downloading"
  <2> DEFINE new == [exists |-> TRUE, whole |-> FALSE, extracted |-> FALSE, script |-> FALSE]
  <2>1. /\ dialogs' \in Seq(Dialog) /\ state' = "Downloading" /\ downloads' = downloads + 1
        /\ dirs' = Append(Replaced, new) /\ tempDir' = Len(dirs) + 1
    BY <1>1, <1>2, <1>5 DEF DownloadUpdate
  <2>2. new \in Dir
    BY DEF Dir
  <2>3. /\ dirs' \in Seq(Dir) /\ Len(dirs') = Len(dirs) + 1
        /\ dirs'[Len(dirs) + 1] = new
        /\ \A k \in 1..Len(dirs) : k # tempDir => dirs'[k] = dirs[k]
    BY <2>1, <2>2, ReplacedIs, AppendProperties
  <2>4. Len(dirs) \in Nat
    BY LenProperties DEF InstallInv
  <2> QED
    BY <1>1, <2>1, <2>3, <2>4 DEF InstallInv, UpdateState, Installable
<1> QED
  BY <1>3, <1>4, <1>5 DEF InstallInv

LEMMA DownloadFailsKeeps ==
  ASSUME InstallInv, DownloadFails
  PROVE  InstallInv'
  BY DirsAlone, RetryEverywhere DEF DownloadFails, SetError, InstallInv, UpdateState

LEMMA ApplyKeeps ==
  ASSUME InstallInv, NEW whole \in BOOLEAN, NEW failed \in {"none", "extract", "script"},
         ApplyUpdate(whole, failed)
  PROVE  InstallInv'
<1>1. UNCHANGED <<info, checks, tempDir, updater>> /\ downloads' \in Nat /\ program = "up"
  BY DEF ApplyUpdate, InstallInv
<1>2. CASE tempDir = 0
  BY <1>1, <1>2, DirsAlone DEF ApplyUpdate, InstallInv
<1>3. CASE tempDir # 0
  <2> DEFINE d == CreateUpdateScript(
                      ExtractZipFile([dirs[tempDir] EXCEPT !.whole = whole], failed # "extract"),
                      failed # "script")
  <2>1. dirs' = [dirs EXCEPT ![tempDir] = d] /\ program' = program
    BY <1>3 DEF ApplyUpdate
  <2>2. tempDir \in 1..Len(dirs) /\ dirs[tempDir] \in Dir
    BY <1>3, ElementOfSeq, LenProperties DEF InstallInv
  <2>3. d \in Dir /\ d.exists = dirs[tempDir].exists /\ d.extracted = (failed # "extract")
        /\ d.script = (failed # "extract" /\ failed # "script")
    BY <2>2 DEF CreateUpdateScript, ExtractZipFile, Dir
  <2> HIDE DEF d
  <2>4. /\ dirs' \in Seq(Dir) /\ Len(dirs') = Len(dirs) /\ dirs'[tempDir] = d
        /\ \A k \in 1..Len(dirs) : k # tempDir => dirs'[k] = dirs[k]
    BY <2>1, <2>2, <2>3, ExceptSeq DEF InstallInv
  <2>5. CASE failed # "none"
    BY <1>1, <1>3, <2>1, <2>2, <2>3, <2>4, <2>5, RetryEverywhere
       DEF ApplyUpdate, SetError, InstallInv, Installable, UpdateState
  <2>6. CASE failed = "none"
    <3>1. state' = "ReadyToInstall" /\ prompt' = TRUE /\ dialogs' = dialogs
      BY <1>3, <2>6 DEF ApplyUpdate
    <3>2. Installable(dirs'[tempDir'])
      BY <1>1, <1>3, <2>3, <2>4, <2>6 DEF Installable, InstallInv
    <3>3. updater.at # "none" => Installable(dirs'[updater.dir]) /\ updater.dir # tempDir
      BY <1>3, <2>4 DEF InstallInv
    <3> QED
      BY <1>1, <1>3, <2>1, <2>4, <3>1, <3>2, <3>3 DEF InstallInv, Installable, UpdateState
  <2> QED
    BY <2>5, <2>6
<1> QED
  BY <1>2, <1>3

LEMMA CloseEventEnds ==
  ASSUME NEW installing, CloseEvent(installing)
  PROVE  program' = program \/ program' = "quitting"
  BY DEF CloseEvent

LEMMA AcceptKeeps ==
  ASSUME InstallInv, NEW started \in BOOLEAN, InstallAccepted(started)
  PROVE  InstallInv'
<1>1. UNCHANGED <<info, checks, downloads, dirs>> /\ prompt' = FALSE /\ program = "up"
      /\ ExecuteUpdateScript(started)
  BY DEF InstallAccepted
<1>2. CASE state # "ReadyToInstall" \/ ~started
  <2>1. /\ state' = "Error" /\ dialogs' = [k \in DOMAIN dialogs |-> "retry"]
        /\ UNCHANGED <<tempDir, updater, program>>
    BY <1>1, <1>2 DEF ExecuteUpdateScript, SetError
  <2>2. dialogs' \in Seq(Dialog)
    BY <2>1, RetryEverywhere DEF InstallInv
  <2> QED
    BY <1>1, <2>1, <2>2, DirsAlone DEF InstallInv, UpdateState
<1>3. CASE state = "ReadyToInstall" /\ started
  <2>1. /\ state' = "Installing" /\ dialogs' = <<>>
        /\ updater' = [at |-> "waiting", dir |-> tempDir] /\ tempDir' = 0
        /\ CloseAllWindows
    BY <1>1, <1>3 DEF ExecuteUpdateScript
  <2>2. program' = program \/ program' = "quitting"
    BY <2>1, CloseEventEnds DEF CloseAllWindows
  <2>3. tempDir # 0 /\ Installable(dirs[tempDir])
    BY <1>1, <1>3 DEF InstallInv
  <2>4. updater' \in [at : {"none", "waiting", "swapped", "failed"}, dir : 0..Len(dirs)]
    BY <2>1 DEF InstallInv
  <2>5. updater'.dir = tempDir /\ Installable(dirs'[updater'.dir])
    BY <1>1, <2>1, <2>3 DEF Installable
  <2>6. dialogs' \in Seq(Dialog) /\ program' \in {"up", "quitting"} /\ Len(dirs) \in Nat
    BY <1>1, <2>1, <2>2, EmptySeq, LenProperties DEF InstallInv
  <2>7. info' \in BOOLEAN /\ prompt' \in BOOLEAN
    BY <1>1, Zenon DEF InstallInv
  <2>8. state' \in UpdateState /\ state' # "ReadyToInstall" /\ tempDir' = 0 /\ tempDir # 0
    BY <2>1, <2>3 DEF UpdateState
  <2>9. checks' \in Nat /\ downloads' \in Nat /\ dirs' \in Seq(Dir) /\ dirs' = dirs
    BY <1>1 DEF InstallInv
  <2> QED
    BY <2>4, <2>5, <2>6, <2>7, <2>8, <2>9 DEF InstallInv
<1> QED
  BY <1>2, <1>3

LEMMA WindowKeeps ==
  ASSUME InstallInv, LaterClicked \/ InstallDeclined \/ UserCloses \/ BringToFront
  PROVE  InstallInv'
<1>1. UNCHANGED <<state, info, checks, downloads, dirs, tempDir, updater>>
  BY DEF LaterClicked, InstallDeclined, UserCloses, BringToFront
<1>2. prompt' \in BOOLEAN
  BY DEF LaterClicked, InstallDeclined, UserCloses, BringToFront, InstallInv
<1>3. program = "up" /\ (program' = program \/ program' = "quitting")
  BY CloseEventEnds DEF LaterClicked, InstallDeclined, UserCloses, BringToFront
<1>4. CASE LaterClicked
  <2>1. dialogs \in Seq(Dialog) /\ dialogs # <<>>
    BY <1>4 DEF LaterClicked, InstallInv
  <2>2. SubSeq(dialogs, 1, Len(dialogs) - 1) \in Seq(Dialog)
    BY <2>1, SubSeqProperties, LenProperties, ElementOfSeq, EmptySeq
  <2> QED
    BY <1>1, <1>2, <1>3, <1>4, <2>2, DirsAlone DEF LaterClicked, InstallInv
<1>5. CASE ~LaterClicked
  <2>1. dialogs' \in {dialogs, <<>>}
    BY <1>5 DEF InstallDeclined, UserCloses, BringToFront
  <2>2. dialogs' \in Seq(Dialog)
    BY <2>1, EmptySeq DEF InstallInv
  <2>3. state' \in UpdateState /\ info' \in BOOLEAN /\ checks' \in Nat /\ downloads' \in Nat
    BY <1>1 DEF InstallInv
  <2>4. program' = program \/ (program = "up" /\ program' \in {"quitting", "crashed"})
    BY <1>3
  <2>5. /\ UNCHANGED <<dirs, tempDir, updater>>
        /\ state' = "ReadyToInstall" => state = "ReadyToInstall"
    BY <1>1
  <2> QED
    BY <1>2, <2>2, <2>3, <2>4, <2>5, DirsAlone, Zenon
<1> QED
  BY <1>4, <1>5

LEMMA ExitKeeps ==
  ASSUME InstallInv, ProgramExits
  PROVE  InstallInv'
<1>1. /\ program' = "gone" /\ dirs' = Replaced /\ tempDir' = 0
      /\ UNCHANGED <<state, info, checks, downloads, dialogs, prompt, updater>>
  BY DEF ProgramExits
<1> QED
  BY <1>1, ReplacedIs, LenProperties DEF InstallInv, Installable

LEMMA ScriptKeeps ==
  ASSUME InstallInv, ScriptRuns
  PROVE  InstallInv'
  BY DEF ScriptRuns, InstallInv, Installable

LEMMA UpdaterKeeps == InstallInv /\ [UpdaterNext]_updaterVars => InstallInv'
<1> SUFFICES ASSUME InstallInv, [UpdaterNext]_updaterVars PROVE InstallInv'
  OBVIOUS
<1>1. CASE UNCHANGED updaterVars
  BY <1>1 DEF InstallInv, updaterVars
<1> QED
  BY <1>1, CheckKeeps, CheckReplyKeeps, DownloadClickedKeeps, DownloadFailsKeeps, ApplyKeeps,
     AcceptKeeps, WindowKeeps, ExitKeeps, ScriptKeeps DEF UpdaterNext

\* While the updater script waits and copies, the directory it copies from is there:
\* neither a second download nor a closed dialog removes it (update_service.cpp).
THEOREM UpdaterHasFilesHolds == UpdaterSpec => []UpdaterHasFiles
<1>1. InstallInv => UpdaterHasFiles
  BY DEF InstallInv, Installable, UpdaterHasFiles
<1> QED
  BY <1>1, UpdaterStarts, UpdaterKeeps, PTL DEF UpdaterSpec

-----------------------------------------------------------------------------
(* The crawler                                                              *)

LEMMA MaxIs ==
  ASSUME NEW S \in SUBSET Int, NEW x \in S, \A y \in S : x >= y
  PROVE  Max(S) = x
<1> DEFINE m == CHOOSE z \in S : \A y \in S : z >= y
<1>1. m \in S /\ \A y \in S : m >= y
  OBVIOUS
<1>2. m \in Int /\ x \in Int /\ m >= x /\ x >= m
  BY <1>1
<1>3. m = x
  BY <1>2
<1> QED
  BY <1>3 DEF Max

LEMMA MinOfTwo ==
  ASSUME NEW a \in Int, NEW b \in Int
  PROVE  Min({a, b}) \in {a, b} /\ Min({a, b}) <= a /\ Min({a, b}) <= b
<1> DEFINE m == CHOOSE z \in {a, b} : \A y \in {a, b} : z <= y
<1>1. \E z \in {a, b} : \A y \in {a, b} : z <= y
  <2>1. a <= b \/ b <= a
    OBVIOUS
  <2> QED
    BY <2>1
<1>2. m \in {a, b} /\ \A y \in {a, b} : m <= y
  BY <1>1
<1> QED
  BY <1>2 DEF Min

\* A free slot is one the counter leaves.
LEMMA MaxOfZero == ASSUME NEW a \in Int PROVE Max({0, a}) = IF a > 0 THEN a ELSE 0
<1> DEFINE S == {0, a}
<1>1. CASE a > 0
  <2>1. S \in SUBSET Int /\ a \in S /\ \A y \in S : a >= y
    BY <1>1
  <2> HIDE DEF S
  <2>2. Max(S) = a
    BY <2>1, MaxIs
  <2> QED
    BY <1>1, <2>2 DEF S
<1>2. CASE ~(a > 0)
  <2>1. S \in SUBSET Int /\ 0 \in S /\ \A y \in S : 0 >= y
    BY <1>2
  <2> HIDE DEF S
  <2>2. Max(S) = 0
    BY <2>1, MaxIs
  <2> QED
    BY <1>2, <2>2 DEF S
<1> QED
  BY <1>1, <1>2

\* A set of numbers has a least one.
LEMMA LeastOf ==
  ASSUME NEW S \in SUBSET Nat, S # {}
  PROVE  \E x \in S : \A y \in S : ~(y < x)
<1>1. \E x \in S : \A y \in S : <<y, x>> \notin OpToRel(<, Nat)
  BY NatLessThanWellFounded, WFMin
<1> QED
  BY <1>1 DEF OpToRel

\* Dropping the lower half of a set that is one too large makes it small enough.
LEMMA BoundedIs ==
  ASSUME NEW S \in SUBSET CrawlHash, IsFiniteSet(S),
         Cardinality(S) <= MAX_RECENT_HASHES + 1
  PROVE  Bounded(S) \subseteq S /\ Cardinality(Bounded(S)) <= MAX_RECENT_HASHES
<1>1. Bounded(S) \subseteq S
  BY DEF Bounded
<1>2. Cardinality(S) \in Nat
  BY FS_CardinalityType
<1>3. CASE Cardinality(S) > MAX_RECENT_HASHES
  <2>1. S # {} /\ Cardinality(S) \div 2 >= 1
    BY <1>2, <1>3, FS_EmptySet, CrawlAssumption

  <2>2. PICK x \in S : \A y \in S : ~(y < x)
    BY <2>1, LeastOf, CrawlAssumption

  <2>3. {g \in S : g < x} = {}
    BY <2>2
  <2>4. x \notin Bounded(S)
    <3>1. Cardinality({g \in S : g < x}) = 0
      BY <2>3, FS_EmptySet
    <3>2. Bounded(S) = {h \in S : Cardinality({g \in S : g < h}) >= Cardinality(S) \div 2}
      BY <1>3 DEF Bounded
    <3>3. ~(0 >= Cardinality(S) \div 2)
      BY <1>2, <2>1
    <3> QED
      BY <3>1, <3>2, <3>3
  <2>5. Cardinality(Bounded(S)) < Cardinality(S)
    BY <1>1, <1>2, <2>2, <2>4, FS_Subset, FS_CardinalityType
  <2> QED
    BY <1>1, <1>2, <2>5, FS_Subset, FS_CardinalityType, CrawlAssumption

<1>4. CASE ~(Cardinality(S) > MAX_RECENT_HASHES)
  BY <1>2, <1>4, CrawlAssumption DEF Bounded
<1> QED
  BY <1>1, <1>3, <1>4

\* The counter is what the fetches under way are, short of those of the stops.
CrawlInv ==
    /\ running \in BOOLEAN /\ spider \in {"off", "on", "ignoring"}
    /\ recent \subseteq CrawlHash /\ IsFiniteSet(recent)
    /\ Cardinality(recent) <= MAX_RECENT_HASHES
    /\ metadataQueue \in Seq(CrawlHash \ InDatabase) /\ flight \in Seq(CrawlHash) /\ calls \in Seq(Call)
    /\ orphaned \in Nat
    /\ OffByTheStops

LEMMA CrawlStarts == CrawlInit => CrawlInv
<1> SUFFICES ASSUME CrawlInit PROVE CrawlInv
  OBVIOUS
<1>1. /\ metadataQueue \in Seq(CrawlHash \ InDatabase) /\ flight \in Seq(CrawlHash)
      /\ calls \in Seq(Call) /\ Len(flight) = 0
  BY EmptySeq DEF CrawlInit
<1>2. IsFiniteSet(recent) /\ Cardinality(recent) = 0
  BY FS_EmptySet DEF CrawlInit
<1>3. OffByTheStops
  BY <1>1, CrawlAssumption DEF CrawlInit, OffByTheStops
<1>4. Cardinality(recent) <= MAX_RECENT_HASHES
  BY <1>2, CrawlAssumption
<1> QED
  BY <1>1, <1>2, <1>3, <1>4 DEF CrawlInit, CrawlInv

LEMMA AnnounceKeeps ==
  ASSUME CrawlInv, NEW h \in CrawlHash, SpiderAnnounce(h)
  PROVE  CrawlInv'
<1>1. Append(calls, [kind |-> "announce", hash |-> h]) \in Seq(Call)
  BY AppendProperties DEF CrawlInv, Call
<1> QED
  BY <1>1 DEF SpiderAnnounce, CrawlInv, OffByTheStops

\* A fetch leaves the line, wherever it stands in it.
LEMMA ResultKeeps ==
  ASSUME CrawlInv, NEW k, NEW ok \in BOOLEAN, OnResult(k, ok)
  PROVE  CrawlInv'
<1>1. /\ Len(flight) \in Nat /\ k \in 1..Len(flight)
      /\ \A i \in 1..Len(flight) : flight[i] \in CrawlHash
  BY LenProperties, ElementOfSeq DEF CrawlInv, OnResult
<1> DEFINE before == SubSeq(flight, 1, k - 1)
           after == SubSeq(flight, k + 1, Len(flight))
<1>2. before \in Seq(CrawlHash) /\ Len(before) = k - 1
  BY <1>1, SubSeqProperties
<1>3. after \in Seq(CrawlHash) /\ Len(after) = Len(flight) - k
  BY <1>1, SubSeqProperties
<1>4. flight' = before \o after
  BY DEF OnResult
<1> HIDE DEF before, after
<1>5. flight' \in Seq(CrawlHash) /\ Len(flight') = Len(flight) - 1
  <2>1. before \o after \in Seq(CrawlHash) /\ Len(before \o after) = Len(before) + Len(after)
    BY <1>2, <1>3, ConcatProperties
  <2> QED
    BY <1>1, <1>2, <1>3, <1>4, <2>1
<1>6. calls' \in Seq(Call)
  <2>1. Append(calls, [kind |-> "metadata", hash |-> flight[k]]) \in Seq(Call)
    BY <1>1, AppendProperties DEF CrawlInv, Call
  <2> QED
    BY <2>1 DEF OnResult, CrawlInv
<1>7. /\ active' = active - 1
      /\ UNCHANGED <<running, spider, recent, metadataQueue, orphaned>>
  BY DEF OnResult
<1>8. OffByTheStops'
  BY <1>1, <1>5, <1>7, CrawlAssumption DEF CrawlInv, OffByTheStops
<1> QED
  BY <1>5, <1>6, <1>7, <1>8 DEF CrawlInv

LEMMA SwitchKeeps ==
  ASSUME CrawlInv, StartCrawler \/ StopCrawler \/ OnIgnoreToggle
  PROVE  CrawlInv'
<1>1. /\ UNCHANGED <<recent, metadataQueue, flight, calls>>
      /\ running' \in BOOLEAN /\ spider' \in {"off", "on", "ignoring"}
  BY DEF CrawlInv, StartCrawler, StopCrawler, OnIgnoreToggle
<1>2. Len(flight) \in Nat
  BY LenProperties DEF CrawlInv
<1>3. orphaned' \in Nat /\ OffByTheStops'
  <2>1. CASE StopCrawler
    <3>1. active' = 0 /\ orphaned' = orphaned + active /\ active = Len(flight) - orphaned
      BY <2>1 DEF StopCrawler, CrawlInv, OffByTheStops
    <3>2. orphaned' = Len(flight)
      BY <1>2, <3>1 DEF CrawlInv
    <3> QED
      BY <1>1, <1>2, <3>1, <3>2, CrawlAssumption DEF OffByTheStops
  <2>2. CASE ~StopCrawler
    BY <1>1, <2>2 DEF StartCrawler, OnIgnoreToggle, CrawlInv, OffByTheStops
  <2> QED
    BY <2>1, <2>2
<1> QED
  BY <1>1, <1>3 DEF CrawlInv

LEMMA OnAnnounceKeeps ==
  ASSUME CrawlInv, OnAnnounce
  PROVE  CrawlInv'
<1> DEFINE h == Head(calls).hash
<1>1. calls # <<>> /\ h \in CrawlHash /\ calls' \in Seq(Call)
  <2>1. calls # <<>> /\ calls \in Seq(Call) /\ calls' = Tail(calls)
    BY DEF OnAnnounce, CrawlInv
  <2>2. Head(calls) \in Call /\ Tail(calls) \in Seq(Call)
    BY <2>1, HeadTailProperties
  <2> QED
    BY <2>1, <2>2 DEF Call
<1>2. UNCHANGED <<running, spider, active, flight, orphaned>>
  BY DEF OnAnnounce
<1>3. metadataQueue' \in Seq(CrawlHash \ InDatabase)
  <2>1. \/ metadataQueue' = metadataQueue
        \/ h \notin InDatabase /\ metadataQueue' = Append(metadataQueue, h)
    BY DEF OnAnnounce
  <2>2. h \notin InDatabase => Append(metadataQueue, h) \in Seq(CrawlHash \ InDatabase)
    BY <1>1, AppendProperties DEF CrawlInv
  <2> QED
    BY <2>1, <2>2 DEF CrawlInv
<1>4. /\ recent' \subseteq CrawlHash /\ IsFiniteSet(recent')
      /\ Cardinality(recent') <= MAX_RECENT_HASHES
  <2>1. CASE h \in recent
    BY <2>1 DEF OnAnnounce, CrawlInv
  <2>2. CASE h \notin recent
    <3> DEFINE S == recent \cup {h}
    <3>1. recent' = Bounded(S)
      BY <2>2 DEF OnAnnounce
    <3>2. /\ S \in SUBSET CrawlHash /\ IsFiniteSet(S)
          /\ Cardinality(S) <= MAX_RECENT_HASHES + 1
      <4>1. /\ Cardinality(recent) \in Nat /\ IsFiniteSet(S)
            /\ Cardinality(S) = Cardinality(recent) + 1
        BY <2>2, FS_AddElement, FS_CardinalityType DEF CrawlInv
      <4>2. Cardinality(recent) <= MAX_RECENT_HASHES /\ recent \subseteq CrawlHash
        BY DEF CrawlInv
      <4>3. Cardinality(S) <= MAX_RECENT_HASHES + 1
        BY <4>1, <4>2, CrawlAssumption
      <4> QED
        BY <1>1, <4>1, <4>2, <4>3
    <3> HIDE DEF S
    <3>3. recent' \subseteq S /\ Cardinality(recent') <= MAX_RECENT_HASHES
      BY <3>1, <3>2, BoundedIs
    <3> QED
      BY <3>2, <3>3, FS_Subset
  <2> QED
    BY <2>1, <2>2
<1> QED
  BY <1>1, <1>2, <1>3, <1>4 DEF CrawlInv, OffByTheStops

\* The timer takes as many as the counter says are free, from the head of the queue.
LEMMA ProcessKeeps ==
  ASSUME CrawlInv, ProcessMetadataQueue
  PROVE  CrawlInv'
<1> DEFINE free == MAX_CONCURRENT_METADATA_FETCHES - active
           n == Min({Len(metadataQueue), Max({0, free})})
           taken == SubSeq(metadataQueue, 1, n)
<1>1. /\ Len(flight) \in Nat /\ Len(metadataQueue) \in Nat /\ active \in Int
      /\ \A i \in 1..Len(metadataQueue) : metadataQueue[i] \in CrawlHash \ InDatabase
  BY LenProperties, ElementOfSeq DEF CrawlInv, OffByTheStops
<1>2. /\ n > 0 /\ active' = active + n /\ flight' = flight \o taken
      /\ metadataQueue' = SubSeq(metadataQueue, n + 1, Len(metadataQueue))
      /\ UNCHANGED <<running, spider, recent, calls, orphaned>>
  BY DEF ProcessMetadataQueue
<1>3. n \in Nat /\ n <= Len(metadataQueue) /\ n <= free
  <2> DEFINE room == Max({0, free})
  <2>1. free \in Int /\ room = IF free > 0 THEN free ELSE 0
    BY <1>1, MaxOfZero, CrawlAssumption
  <2> HIDE DEF free, room
  <2>2. room \in Int /\ Len(metadataQueue) \in Int
    BY <1>1, <2>1
  <2>3. n = Min({Len(metadataQueue), room})
    BY DEF room
  <2> HIDE DEF n
  <2>4. n \in {Len(metadataQueue), room} /\ n <= Len(metadataQueue) /\ n <= room
    BY <2>2, <2>3, MinOfTwo
  <2> QED
    BY <1>1, <1>2, <2>1, <2>2, <2>4
<1> HIDE DEF n
<1>4. taken \in Seq(CrawlHash) /\ Len(taken) = n
  BY <1>1, <1>2, <1>3, SubSeqProperties
<1>5. metadataQueue' \in Seq(CrawlHash \ InDatabase)
  BY <1>1, <1>2, <1>3, SubSeqProperties
<1> HIDE DEF taken
<1>6. flight' \in Seq(CrawlHash) /\ Len(flight') = Len(flight) + n
  BY <1>2, <1>4, ConcatProperties DEF CrawlInv
<1>7. OffByTheStops'
  BY <1>1, <1>2, <1>3, <1>6, CrawlAssumption DEF CrawlInv, OffByTheStops
<1> QED
  BY <1>2, <1>5, <1>6, <1>7 DEF CrawlInv

LEMMA CrawlKeeps == CrawlInv /\ [CrawlNext]_crawlVars => CrawlInv'
<1> SUFFICES ASSUME CrawlInv, [CrawlNext]_crawlVars PROVE CrawlInv'
  OBVIOUS
<1>1. CASE UNCHANGED crawlVars
  BY <1>1 DEF CrawlInv, crawlVars, OffByTheStops
<1>2. CASE OnMetadataReceived
  <2>1. calls' \in Seq(Call)
    BY <1>2, HeadTailProperties DEF CrawlInv, OnMetadataReceived
  <2> QED
    BY <1>2, <2>1 DEF OnMetadataReceived, CrawlInv, OffByTheStops
<1> QED
  BY <1>1, <1>2, AnnounceKeeps, ResultKeeps, SwitchKeeps, OnAnnounceKeeps, ProcessKeeps
     DEF CrawlNext

\* The crawler's count of fetches under way is the fetches that will report, and off
\* by what stop() forgot and no more (crawler.cpp).
THEOREM OffByTheStopsHolds == CrawlSpec => []OffByTheStops
<1>1. CrawlInv => OffByTheStops
  BY DEF CrawlInv
<1> QED
  BY <1>1, CrawlStarts, CrawlKeeps, CrawlAssumption, PTL DEF CrawlSpec

-----------------------------------------------------------------------------
(* Migration: pages of a table. The numbers of a page are the smallest      *)
(* after the cursor, so that what a page leaves out lies beyond it.         *)

\* A set of numbers has a smallest one.
LEMMA SmallestOf ==
  ASSUME NEW S, S \subseteq Nat, S # {}
  PROVE  \E x \in S : \A y \in S : x <= y
<1> DEFINE R == OpToRel(<, Nat)
<1>1. IsWellFoundedOn(R, Nat)
  BY NatLessThanWellFounded
<1> HIDE DEF R
<1>2. \E x \in S : \A y \in S : ~(<<y, x>> \in R)
  BY <1>1, WFMin
<1>3. \A x, y \in Nat : y < x => <<y, x>> \in R
  BY DEF R, OpToRel
<1>4. PICK x \in S : \A y \in S : ~(<<y, x>> \in R)
  BY <1>2
<1>5. \A y \in S : x <= y
  <2>1. TAKE y \in S
  <2>2. x \in Nat /\ y \in Nat /\ ~(y < x)
    BY <1>3, <1>4
  <2> QED
    BY <2>2
<1> QED
  BY <1>5

\* The image of a finite set is finite.
LEMMA ImageFinite ==
  ASSUME NEW S, IsFiniteSet(S), NEW f, f = [x \in S |-> f[x]]
  PROVE  IsFiniteSet({f[x] : x \in S})
<1> DEFINE T == {f[x] : x \in S}
<1>1. f \in Surjection(S, T)
  BY DEF Surjection
<1> QED
  BY <1>1, FS_Surjection

LEMMA IdsFinite ==
  ASSUME NEW rows, IsFiniteSet(rows)
  PROVE  IsFiniteSet(Ids(rows))
<1> DEFINE f == [r \in rows |-> r.id]
<1>1. IsFiniteSet({f[r] : r \in rows})
  BY ImageFinite
<1> QED
  BY <1>1 DEF Ids

\* The numbers after the cursor, and those of them up to one of them.
Later(rows, cursor) == {i \in Ids(rows) : i > cursor}
UpTo(rows, cursor, i) == {j \in Later(rows, cursor) : j <= i}

LEMMA LaterFinite ==
  ASSUME NEW rows, IsFiniteSet(rows), NEW c, NEW i
  PROVE  /\ IsFiniteSet(Later(rows, c)) /\ IsFiniteSet(UpTo(rows, c, i))
         /\ Cardinality(Later(rows, c)) \in Nat /\ Cardinality(UpTo(rows, c, i)) \in Nat
<1>1. IsFiniteSet(Ids(rows))
  BY IdsFinite
<1>2. IsFiniteSet(Later(rows, c))
  BY <1>1, FS_Subset DEF Later
<1>3. IsFiniteSet(UpTo(rows, c, i))
  BY <1>2, FS_Subset DEF UpTo
<1> QED
  BY <1>2, <1>3, FS_CardinalityType

\* A page, said with them.
LEMMA PageIs ==
  ASSUME NEW rows, NEW c
  PROVE  PageAfter(rows, c) = {i \in Later(rows, c) : Cardinality(UpTo(rows, c, i)) <= kPageSize}
BY DEF PageAfter, Later, UpTo

\* The order of the numbers is that of how many there are up to them.
LEMMA RankGrows ==
  ASSUME NEW rows, IsFiniteSet(rows), Ids(rows) \subseteq Nat, NEW c \in Nat,
         NEW i \in Later(rows, c), NEW j \in Later(rows, c)
  PROVE  /\ i <= j => Cardinality(UpTo(rows, c, i)) <= Cardinality(UpTo(rows, c, j))
         /\ i < j => Cardinality(UpTo(rows, c, i)) < Cardinality(UpTo(rows, c, j))
<1> DEFINE A == UpTo(rows, c, i)
           B == UpTo(rows, c, j)
<1>1. /\ i \in Nat /\ j \in Nat /\ Later(rows, c) \subseteq Nat
      /\ j \in B /\ (i < j => j \notin A) /\ (i <= j => A \subseteq B)
  BY DEF Later, UpTo
<1>2. /\ IsFiniteSet(A) /\ IsFiniteSet(B) /\ Cardinality(A) \in Nat /\ Cardinality(B) \in Nat
  BY LaterFinite
<1> HIDE DEF A, B
<1>3. i <= j => Cardinality(A) <= Cardinality(B)
  BY <1>1, <1>2, FS_Subset
<1>4. ASSUME i < j PROVE Cardinality(A) # Cardinality(B)
  <2>1. A \subseteq B /\ A # B
    BY <1>1, <1>4
  <2> QED
    BY <1>2, <2>1, FS_Subset
<1>5. i < j => Cardinality(A) < Cardinality(B)
  BY <1>1, <1>2, <1>3, <1>4
<1> QED
  BY <1>3, <1>5 DEF A, B

\* An empty page is the end of the table.
LEMMA PageEmpty ==
  ASSUME MigrationAssumption, NEW rows, IsFiniteSet(rows), Ids(rows) \subseteq Nat, NEW c \in Nat,
         PageAfter(rows, c) = {}
  PROVE  Later(rows, c) = {}
<1> SUFFICES ASSUME Later(rows, c) # {} PROVE FALSE
  OBVIOUS
<1>1. Later(rows, c) \subseteq Nat
  BY DEF Later
<1>2. PICK x \in Later(rows, c) : \A y \in Later(rows, c) : x <= y
  BY <1>1, SmallestOf
<1>3. UpTo(rows, c, x) = {x}
  BY <1>1, <1>2 DEF UpTo
<1>4. Cardinality(UpTo(rows, c, x)) = 1
  BY <1>3, FS_Singleton
<1>5. kPageSize \in Nat \ {0}
  BY DEF MigrationAssumption
<1>6. x \in PageAfter(rows, c)
  BY <1>4, <1>5, PageIs
<1> QED
  BY <1>6

\* What lies between the cursor and a number of the page is of the page.
LEMMA PageDense ==
  ASSUME MigrationAssumption, NEW rows, IsFiniteSet(rows), Ids(rows) \subseteq Nat, NEW c \in Nat,
         NEW m \in PageAfter(rows, c), NEW i \in Later(rows, c), i <= m
  PROVE  i \in PageAfter(rows, c)
<1>1. m \in Later(rows, c) /\ Cardinality(UpTo(rows, c, m)) <= kPageSize
  BY PageIs
<1>2. Cardinality(UpTo(rows, c, i)) <= Cardinality(UpTo(rows, c, m))
  BY <1>1, RankGrows
<1>3. Cardinality(UpTo(rows, c, i)) \in Nat /\ Cardinality(UpTo(rows, c, m)) \in Nat /\ kPageSize \in Nat
  BY LaterFinite DEF MigrationAssumption
<1>4. Cardinality(UpTo(rows, c, i)) <= kPageSize
  BY <1>1, <1>2, <1>3
<1> QED
  BY <1>4, PageIs

\* A page has a last number.
LEMMA PageMax ==
  ASSUME MigrationAssumption, NEW rows, IsFiniteSet(rows), Ids(rows) \subseteq Nat, NEW c \in Nat,
         PageAfter(rows, c) # {}
  PROVE  /\ Max(PageAfter(rows, c)) \in PageAfter(rows, c)
         /\ \A i \in PageAfter(rows, c) : i <= Max(PageAfter(rows, c))
<1> DEFINE P == PageAfter(rows, c)
           room(i) == kPageSize - Cardinality(UpTo(rows, c, i))
           S == {room(i) : i \in P}
<1>1. kPageSize \in Nat
  BY DEF MigrationAssumption
<1>2. ASSUME NEW i \in P
      PROVE  i \in Later(rows, c) /\ Cardinality(UpTo(rows, c, i)) \in 0..kPageSize
  <2>1. i \in Later(rows, c) /\ Cardinality(UpTo(rows, c, i)) <= kPageSize
    BY PageIs
  <2>2. Cardinality(UpTo(rows, c, i)) \in Nat
    BY LaterFinite
  <2> QED
    BY <1>1, <2>1, <2>2
<1> HIDE DEF P
<1>3. S \subseteq Nat /\ S # {}
  BY <1>1, <1>2 DEF P
<1>4. PICK n \in S : \A k \in S : n <= k
  BY <1>3, SmallestOf
<1>5. PICK m \in P : n = room(m)
  BY <1>4
<1>6. \A i \in P : i <= m
  <2>1. TAKE i \in P
  <2>2. room(m) <= room(i)
    BY <1>4, <1>5
  <2>3. Cardinality(UpTo(rows, c, i)) <= Cardinality(UpTo(rows, c, m))
    BY <1>1, <1>2, <2>2
  <2>4. i \in Nat /\ m \in Nat
    BY <1>2 DEF Later
  <2>5. m < i => Cardinality(UpTo(rows, c, m)) < Cardinality(UpTo(rows, c, i))
    BY <1>2, RankGrows
  <2>6. Cardinality(UpTo(rows, c, m)) \in Nat /\ Cardinality(UpTo(rows, c, i)) \in Nat
    BY <1>1, <1>2
  <2> QED
    BY <2>3, <2>4, <2>5, <2>6
<1>7. P \subseteq Nat
  BY <1>2 DEF Later
<1>8. m \in P /\ \A i \in P : m >= i
  BY <1>6, <1>7
<1>9. Max(P) \in P /\ \A i \in P : Max(P) >= i
  BY <1>8 DEF Max
<1> QED
  BY <1>7, <1>9 DEF P

\* A page shorter than the limit is the last one.
LEMMA PageShort ==
  ASSUME MigrationAssumption, NEW rows, IsFiniteSet(rows), Ids(rows) \subseteq Nat, NEW c \in Nat,
         Cardinality(PageAfter(rows, c)) < kPageSize
  PROVE  Later(rows, c) = PageAfter(rows, c)
<1> DEFINE P == PageAfter(rows, c)
<1> SUFFICES ASSUME Later(rows, c) \ P # {} PROVE FALSE
  BY PageIs
<1>1. Later(rows, c) \subseteq Nat /\ kPageSize \in Nat
  BY DEF Later, MigrationAssumption
<1>2. PICK x \in Later(rows, c) \ P : \A y \in Later(rows, c) \ P : x <= y
  BY <1>1, SmallestOf
<1>3. UpTo(rows, c, x) \subseteq P \cup {x} /\ x \notin P
  BY <1>1, <1>2 DEF UpTo
<1>4. IsFiniteSet(P)
  BY LaterFinite, FS_Subset, PageIs
<1>5. Cardinality(P \cup {x}) = Cardinality(P) + 1 /\ IsFiniteSet(P \cup {x})
  BY <1>3, <1>4, FS_AddElement
<1>6. Cardinality(UpTo(rows, c, x)) <= Cardinality(P) + 1
  BY <1>3, <1>5, FS_Subset
<1>7. Cardinality(P) \in Nat /\ Cardinality(UpTo(rows, c, x)) \in Nat
  BY <1>4, LaterFinite, FS_CardinalityType
<1>8. Cardinality(UpTo(rows, c, x)) <= kPageSize
  BY <1>1, <1>6, <1>7
<1>9. x \in P
  BY <1>2, <1>8, PageIs
<1> QED
  BY <1>3, <1>9

-----------------------------------------------------------------------------
(* Migration: the rewriting of a page, of torrents or of files.             *)

Numbered(rows) ==
    /\ IsFiniteSet(rows) /\ rows \subseteq TorrentRow \cup FileRow
    /\ Keyed(rows) /\ NoSquatters(rows)
Moved(rows, i) == [At(rows, i) EXCEPT !.id = RowId[At(rows, i).hash]]
Replacements(rows, ids) == {Moved(rows, i) : i \in Moves(rows, ids)}

\* A row of such a table, found by its number, and under another one.
LEMMA NumberedRow ==
  ASSUME MigrationAssumption, NEW rows, Numbered(rows), NEW r \in rows
  PROVE  /\ r.id \in Nat \ {0} /\ r.hash \in Hash /\ RowId[r.hash] \in Nat
         /\ At(rows, r.id) = r
         /\ \A n : /\ [r EXCEPT !.id = n].id = n /\ [r EXCEPT !.id = n].hash = r.hash
                   /\ r \in TorrentRow => [r EXCEPT !.id = n].type = r.type
         /\ \A n \in Nat \ {0} :
               /\ r \in TorrentRow => [r EXCEPT !.id = n] \in TorrentRow
               /\ r \in FileRow => [r EXCEPT !.id = n] \in FileRow
<1>1. r \in TorrentRow \/ r \in FileRow
  BY DEF Numbered
<1>2. r.id \in Nat \ {0} /\ r.hash \in Hash
  BY <1>1 DEF TorrentRow, FileRow
<1>3. RowId[r.hash] \in Nat
  BY <1>2 DEF MigrationAssumption
<1>4. At(rows, r.id) \in rows /\ At(rows, r.id).id = r.id
  BY DEF At
<1>5. At(rows, r.id) = r
  BY <1>4 DEF Numbered, Keyed
<1>6. \A n : /\ [r EXCEPT !.id = n].id = n /\ [r EXCEPT !.id = n].hash = r.hash
             /\ r \in TorrentRow => [r EXCEPT !.id = n].type = r.type
  BY <1>1 DEF TorrentRow, FileRow
<1>7. \A n \in Nat \ {0} : /\ r \in TorrentRow => [r EXCEPT !.id = n] \in TorrentRow
                           /\ r \in FileRow => [r EXCEPT !.id = n] \in FileRow
  BY DEF TorrentRow, FileRow
<1> QED
  BY <1>2, <1>3, <1>5, <1>6, <1>7

\* A row of the table after the rewriting is one that was left alone, or a moved one.
LEMMA RewrittenIs ==
  ASSUME NEW rows, NEW ids
  PROVE  Rewritten(rows, ids) =
            {r \in rows : r.id \notin Ids(Replacements(rows, ids))} \cup Replacements(rows, ids)
BY DEF Rewritten, Replacements, Moved

\* A moved row has the id of its hash, which no row of another hash has.
LEMMA ReplacementIs ==
  ASSUME MigrationAssumption, NEW rows, Numbered(rows), NEW ids, ids \subseteq Ids(rows),
         NEW n \in Replacements(rows, ids)
  PROVE  \E r \in rows :
            /\ r.id \in Moves(rows, ids) /\ n = Moved(rows, r.id)
            /\ n = [r EXCEPT !.id = RowId[r.hash]] /\ n.hash = r.hash
            /\ n.id = RowId[r.hash] /\ n.id \in Nat \ {0} /\ Free(rows, n.hash)
<1>1. PICK i \in Moves(rows, ids) : n = Moved(rows, i)
  BY DEF Replacements
<1>2. i \in Movable(rows, ids) /\ i \in ids
  BY DEF Moves, Movable
<1>3. PICK r \in rows : r.id = i
  BY <1>2 DEF Ids
<1>4. At(rows, i) = r /\ RowId[r.hash] \in Nat
  BY <1>3, NumberedRow
<1>5. RowId[r.hash] # 0 /\ Free(rows, r.hash)
  BY <1>2, <1>4 DEF Movable
<1>6. n = [r EXCEPT !.id = RowId[r.hash]]
  BY <1>1, <1>4 DEF Moved
<1>7. n.hash = r.hash /\ n.id = RowId[r.hash]
  BY <1>6, NumberedRow
<1> QED
  BY <1>1, <1>3, <1>4, <1>5, <1>6, <1>7

\* One row moves for each id.
LEMMA OneMove ==
  ASSUME MigrationAssumption, NEW rows, Numbered(rows), NEW ids, ids \subseteq Ids(rows),
         NEW m \in Replacements(rows, ids), NEW n \in Replacements(rows, ids), m.id = n.id
  PROVE  m = n
<1>1. PICK r \in rows : /\ r.id \in Moves(rows, ids) /\ m = Moved(rows, r.id)
                        /\ m.id = RowId[r.hash]
  BY ReplacementIs
<1>2. PICK s \in rows : /\ s.id \in Moves(rows, ids) /\ n = Moved(rows, s.id)
                        /\ n.id = RowId[s.hash]
  BY ReplacementIs
<1>3. At(rows, r.id) = r /\ At(rows, s.id) = s /\ r.id \in Nat /\ s.id \in Nat
  BY NumberedRow
<1>4. r.id \in Movable(rows, ids) /\ s.id \in Movable(rows, ids)
  BY <1>1, <1>2 DEF Moves
<1>5. r.id <= s.id /\ s.id <= r.id
  BY <1>1, <1>2, <1>3, <1>4 DEF Moves
<1> QED
  BY <1>1, <1>2, <1>3, <1>5

LEMMA ReplacementsFinite ==
  ASSUME NEW rows, IsFiniteSet(rows), NEW ids, ids \subseteq Ids(rows)
  PROVE  IsFiniteSet(Replacements(rows, ids))
<1> DEFINE M == Moves(rows, ids)
           f == [i \in M |-> Moved(rows, i)]
<1>1. M \subseteq Ids(rows)
  BY DEF Moves, Movable
<1>2. IsFiniteSet(M)
  BY <1>1, IdsFinite, FS_Subset
<1>3. IsFiniteSet({f[i] : i \in M})
  <2> HIDE DEF M
  <2> QED
    BY <1>2, ImageFinite
<1>4. {f[i] : i \in M} = Replacements(rows, ids)
  BY DEF Replacements
<1> QED
  BY <1>3, <1>4

\* The hashes of a table are those it had, each with the type of a row it had.
LEMMA RewrittenHashes ==
  ASSUME MigrationAssumption, NEW rows, Numbered(rows), NEW ids, ids \subseteq Ids(rows)
  PROVE  /\ \A s \in Rewritten(rows, ids) : \E r \in rows :
               /\ s.hash = r.hash /\ s \in {r, [r EXCEPT !.id = s.id]} /\ s.id \in Nat \ {0}
               /\ s = r \/ s.id = RowId[s.hash]
         /\ \A r \in rows : \E s \in Rewritten(rows, ids) : s.hash = r.hash
<1>1. ASSUME NEW s \in Rewritten(rows, ids)
      PROVE  \E r \in rows :
               /\ s.hash = r.hash /\ s \in {r, [r EXCEPT !.id = s.id]} /\ s.id \in Nat \ {0}
               /\ s = r \/ s.id = RowId[s.hash]
  <2>1. CASE s \in rows
    BY <2>1, NumberedRow
  <2>2. CASE s \in Replacements(rows, ids)
    <3>1. PICK r \in rows : /\ s = [r EXCEPT !.id = RowId[r.hash]] /\ s.hash = r.hash
                            /\ s.id = RowId[r.hash] /\ s.id \in Nat \ {0}
      BY <2>2, ReplacementIs
    <3> QED
      BY <3>1
  <2> QED
    BY <2>1, <2>2, RewrittenIs
<1>2. ASSUME NEW r \in rows
      PROVE  \E s \in Rewritten(rows, ids) : s.hash = r.hash
  <2>1. CASE r.id \notin Ids(Replacements(rows, ids))
    BY <2>1, RewrittenIs
  <2>2. CASE r.id \in Ids(Replacements(rows, ids))
    <3>1. PICK n \in Replacements(rows, ids) : n.id = r.id
      BY <2>2 DEF Ids
    <3>2. n.id = RowId[n.hash] /\ Free(rows, n.hash)
      BY ReplacementIs
    <3>3. r.hash = n.hash
      BY <3>1, <3>2 DEF Free
    <3> QED
      BY <3>3, RewrittenIs
  <2> QED
    BY <2>1, <2>2
<1> QED
  BY <1>1, <1>2

\* The rewritten table is such a table again, of the same kind of rows.
LEMMA RewrittenNumbered ==
  ASSUME MigrationAssumption, NEW rows, Numbered(rows), NEW ids, ids \subseteq Ids(rows)
  PROVE  /\ Numbered(Rewritten(rows, ids))
         /\ rows \subseteq TorrentRow => Rewritten(rows, ids) \subseteq TorrentRow
         /\ rows \subseteq FileRow => Rewritten(rows, ids) \subseteq FileRow
         /\ AllDerived(rows) => AllDerived(Rewritten(rows, ids))
<1> DEFINE new == Replacements(rows, ids)
           now == Rewritten(rows, ids)
<1>1. IsFiniteSet(now)
  <2>1. IsFiniteSet(new)
    BY ReplacementsFinite DEF Numbered
  <2>2. IsFiniteSet({r \in rows : r.id \notin Ids(new)})
    BY FS_Subset DEF Numbered
  <2> QED
    BY <2>1, <2>2, FS_Union, RewrittenIs
<1>2. ASSUME NEW s \in now
      PROVE  /\ rows \subseteq TorrentRow => s \in TorrentRow
             /\ rows \subseteq FileRow => s \in FileRow
             /\ s \in TorrentRow \cup FileRow
             /\ AllDerived(rows) => s.id = RowId[s.hash]
  <2>1. PICK r \in rows :
           /\ s \in {r, [r EXCEPT !.id = s.id]} /\ s.id \in Nat \ {0}
           /\ s = r \/ s.id = RowId[s.hash]
    BY RewrittenHashes
  <2>2. /\ r \in TorrentRow => s \in TorrentRow
        /\ r \in FileRow => s \in FileRow
    BY <2>1, NumberedRow
  <2> QED
    BY <2>1, <2>2 DEF Numbered, AllDerived
<1>3. Keyed(now)
  <2> SUFFICES ASSUME NEW r \in now, NEW s \in now, r.id = s.id
               PROVE  r = s
    BY DEF Keyed
  <2>1. CASE r \in new /\ s \in new
    BY <2>1, OneMove
  <2>2. CASE r \notin new /\ s \notin new
    BY <2>2, RewrittenIs DEF Numbered, Keyed
  <2>3. \A x \in new : x.id \in Ids(new)
    BY DEF Ids
  <2> QED
    BY <2>1, <2>2, <2>3, RewrittenIs
<1>4. NoSquatters(now)
  <2> SUFFICES ASSUME NEW r \in now, NEW s \in now, r.id = RowId[s.hash]
               PROVE  r.id = RowId[r.hash]
    BY DEF NoSquatters
  <2>1. PICK x \in rows : x.hash = s.hash
    BY RewrittenHashes
  <2>2. r \in rows \/ r.id = RowId[r.hash]
    BY RewrittenHashes
  <2> QED
    BY <2>1, <2>2 DEF Numbered, NoSquatters
<1> QED
  BY <1>1, <1>2, <1>3, <1>4 DEF Numbered, AllDerived

-----------------------------------------------------------------------------
(* Migration: what a page leaves to be retired.                             *)

\* The rows with these ids are not under their hash's id, and a torrent alone on
\* its id has another row, which is.
Retirable(rows, ids) == \A r \in rows : r.id \in ids =>
    /\ r.id # RowId[r.hash]
    /\ Sole(rows, r.hash) => \E s \in rows : s.hash = r.hash /\ s.id = RowId[s.hash]
\* Up to the cursor every row but these is under its hash's id.
Swept(rows, ids, cursor) == \A r \in rows :
    r.id <= cursor => r.id = RowId[r.hash] \/ r.id \in ids

\* What a rewriting leaves to be retired has been replaced.
LEMMA RewrittenRetirable ==
  ASSUME MigrationAssumption, NEW rows, Numbered(rows), NEW ids, ids \subseteq Ids(rows)
  PROVE  Retirable(Rewritten(rows, ids), Retired(rows, ids))
<1> DEFINE now == Rewritten(rows, ids)
<1> SUFFICES ASSUME NEW r \in now, r.id \in Retired(rows, ids)
             PROVE  /\ r.id # RowId[r.hash]
                    /\ Sole(now, r.hash) => \E s \in now : s.hash = r.hash /\ s.id = RowId[s.hash]
  BY DEF Retirable
<1>1. r.id \in ids /\ r.id # RowId[At(rows, r.id).hash]
  BY DEF Retired
<1>2. PICK x \in rows : x.id = r.id
  BY <1>1 DEF Ids
<1>3. At(rows, r.id) = x /\ x.id # RowId[x.hash]
  BY <1>1, <1>2, NumberedRow
<1>4. \A s \in rows : r.id # RowId[s.hash]
  BY <1>2, <1>3 DEF Numbered, NoSquatters
<1>5. PICK y \in rows : y.hash = r.hash /\ (r = y \/ r.id = RowId[r.hash])
  BY RewrittenHashes
<1>6. r.id # RowId[r.hash] /\ r = y /\ r = x
  BY <1>2, <1>4, <1>5 DEF Numbered, Keyed
<1>7. ASSUME Sole(now, r.hash)
      PROVE  \E s \in now : s.hash = r.hash /\ s.id = RowId[s.hash]
  <2> DEFINE h == r.hash
             T == {j \in Movable(rows, ids) : RowId[At(rows, j).hash] = RowId[h]}
  <2>1. RowId[h] # 0 /\ \A o \in rows : RowId[o.hash] = RowId[h] => o.hash = h
    <3>1. ASSUME NEW o \in rows, RowId[o.hash] = RowId[h] PROVE o.hash = h
      <4>1. PICK s \in now : s.hash = o.hash
        BY RewrittenHashes
      <4> QED
        BY <1>7, <3>1, <4>1 DEF Sole
    <3> QED
      BY <1>7, <3>1 DEF Sole
  <2>2. Free(rows, h)
    BY <1>2, <1>6, <2>1 DEF Free, Numbered, NoSquatters
  <2>3. r.id \in T
    BY <1>1, <1>3, <1>6, <2>1, <2>2 DEF Movable
  <2>4. T \subseteq Nat
    <3>1. \A i \in Ids(rows) : i \in Nat
      BY NumberedRow DEF Ids
    <3> QED
      BY <3>1 DEF Movable
  <2> HIDE DEF T
  <2>5. PICK m \in T : \A j \in T : m <= j
    BY <2>3, <2>4, SmallestOf
  <2> USE DEF T
  <2>6. m \in Moves(rows, ids)
    BY <2>5 DEF Moves
  <2>7. Moved(rows, m) \in Replacements(rows, ids)
    BY <2>6 DEF Replacements
  <2>8. PICK z \in rows : z.id = m
    BY <2>5 DEF Movable, Ids
  <2>9. At(rows, m) = z /\ RowId[z.hash] = RowId[h]
    BY <2>5, <2>8, NumberedRow
  <2>10. Moved(rows, m).hash = z.hash /\ Moved(rows, m).id = RowId[z.hash]
    BY <2>9, NumberedRow DEF Moved
  <2>11. z.hash = h
    BY <2>1, <2>9
  <2> QED
    BY <2>7, <2>10, <2>11, RewrittenIs
<1> QED
  BY <1>6, <1>7

\* Up to the end of the page nothing else is left under an old number.
LEMMA RewrittenSwept ==
  ASSUME MigrationAssumption, NEW rows, Numbered(rows), NEW c \in Nat, Swept(rows, {}, c),
         NEW ids, ids = PageAfter(rows, c), ids # {}
  PROVE  /\ ids \subseteq Ids(rows) /\ Max(ids) \in Nat
         /\ Swept(Rewritten(rows, ids), Retired(rows, ids), Max(ids))
<1>1. /\ ids \subseteq Ids(rows) /\ ids \subseteq Later(rows, c) /\ Ids(rows) \subseteq Nat
      /\ IsFiniteSet(rows)
  <2>1. Ids(rows) \subseteq Nat
    BY NumberedRow DEF Ids
  <2> QED
    BY <2>1, PageIs DEF Later, Numbered
<1>2. Max(ids) \in ids /\ Max(ids) \in Nat
  BY <1>1, PageMax
<1>3. ASSUME NEW s \in Rewritten(rows, ids), s.id <= Max(ids)
      PROVE  s.id = RowId[s.hash] \/ s.id \in Retired(rows, ids)
  <2>1. PICK r \in rows : s = r \/ s.id = RowId[s.hash]
    BY RewrittenHashes, <1>1
  <2>2. CASE s = r /\ r.id <= c
    BY <2>2 DEF Swept
  <2>3. CASE s = r /\ ~(r.id <= c)
    <3>1. r.id \in Nat /\ At(rows, r.id) = r
      BY NumberedRow
    <3>2. r.id \in Later(rows, c)
      BY <2>3, <3>1 DEF Later, Ids
    <3>3. r.id \in ids
      BY <1>1, <1>2, <1>3, <2>3, <3>2, PageDense
    <3> QED
      BY <2>3, <3>1, <3>3 DEF Retired
  <2> QED
    BY <2>1, <2>2, <2>3
<1> QED
  BY <1>1, <1>2, <1>3 DEF Swept

\* Taking such rows away keeps the table, and every hash that is alone on its id.
LEMMA RetiredRows ==
  ASSUME MigrationAssumption, NEW rows, Numbered(rows), NEW ids, Retirable(rows, ids),
         NEW now, now = {r \in rows : r.id \notin ids}
  PROVE  /\ Numbered(now) /\ now \subseteq rows
         /\ \A r \in rows : Sole(rows, r.hash) => \E s \in now : s.hash = r.hash
         /\ \A c : Swept(rows, ids, c) => Swept(now, {}, c)
<1>1. IsFiniteSet(now)
  BY FS_Subset DEF Numbered
<1>2. Numbered(now)
  BY <1>1 DEF Numbered, Keyed, NoSquatters
<1>3. \A r \in rows : Sole(rows, r.hash) => \E s \in now : s.hash = r.hash
  BY DEF Retirable
<1>4. \A c : Swept(rows, ids, c) => Swept(now, {}, c)
  BY DEF Swept
<1> QED
  BY <1>2, <1>3, <1>4

\* A hash of a table that no other one shares its id with is alone there.
LEMMA KeptIsSole ==
  ASSUME NEW rows, rows \subseteq TorrentRow, NEW h \in Kept
  PROVE  Sole(rows, h)
BY DEF Kept, Contended, Sole, TorrentRow

\* Past its last page a table is derived.
LEMMA PageOver ==
  ASSUME MigrationAssumption, NEW rows, Numbered(rows), NEW c \in Nat, Swept(rows, {}, c),
         PageAfter(rows, c) = {}
  PROVE  AllDerived(rows)
<1>1. Ids(rows) \subseteq Nat
  BY NumberedRow DEF Ids
<1>2. Later(rows, c) = {}
  BY <1>1, PageEmpty DEF Numbered
<1>3. \A r \in rows : r.id \in Nat /\ r.id \in Ids(rows)
  BY NumberedRow DEF Ids
<1>4. \A r \in rows : r.id <= c
  BY <1>2, <1>3 DEF Later
<1> QED
  BY <1>4 DEF AllDerived, Swept

-----------------------------------------------------------------------------
(* Migration: the invariant.                                                *)

TablesNumbered == Numbered(torrents) /\ Numbered(files)
\* The re-keying under way: what is behind its cursor.
PageSwept == phase = "sync" =>
    /\ Swept(Table, rekey.doomed, rekey.cursor) /\ Retirable(Table, rekey.doomed)
    /\ ~rekey.rewritten => rekey.doomed = {}
    /\ rekey.table = "files" => AllDerived(torrents)
DoneIsDerived ==
    "derive" \in mem.completed \cup stateFile.completed \/ ~stateFile.exists =>
        AllDerived(torrents) /\ AllDerived(files)
HadIsKept == \A h \in had \cap Kept : h \in dropped \/ \E r \in torrents : r.hash = h
\* While no command failed: what can be recognised lies ahead of every record of
\* the recategorisation, in memory and on the disk, and has its files.
Passed(rows, m) ==
    /\ "recategorize" \in m.completed => Missed(rows) = {}
    /\ m.inProgress.id = "recategorize" =>
          \A r \in Missed(rows) : RowId[r.hash] > m.inProgress.lastId
MissedAhead == faults = 0 =>
    /\ Passed(torrents, mem) /\ Passed(torrents, stateFile)
    /\ ~stateFile.exists => Missed(torrents) = {}
    /\ \A r \in Missed(torrents) : Sole(files, r.hash) /\ \E f \in files : f.hash = r.hash
    /\ \A h \in dropped : BestType[h] = "unknown"
\* The worker runs beside the services, on the migration that is in progress.
WorkerBeside ==
    /\ async.at \notin {"idle", "ended"} => phase = "services"
    /\ phase = "services" /\ faults = 0 => "derive" \in mem.completed
    /\ async.at \in {"counting", "batch", "rows", "done"} =>
          /\ async.id = mem.inProgress.id /\ async.lastId = mem.inProgress.lastId
          /\ async.id # "none"
          /\ async.id = "removeUnknown" => "recategorize" \in mem.completed
\* A batch holds what can be recognised, or it lies beyond the batch.
BatchAhead == faults = 0 =>
    /\ async.at = "rows" /\ async.id = "recategorize" =>
          /\ async.batch \subseteq torrents
          /\ \A r \in Missed(torrents) :
                r \in async.batch \/ (~async.last /\ \A b \in async.batch : b.id < r.id)
    /\ async.at = "rows" /\ async.id = "removeUnknown" =>
          \A b \in async.batch : BestType[b.hash] = "unknown"
    /\ async.at = "done" /\ async.id = "recategorize" /\ ~stop => Missed(torrents) = {}

MigrationInv ==
    /\ MigrationTypeOK /\ TablesNumbered /\ PageSwept /\ DoneIsDerived /\ HadIsKept
    /\ MissedAhead /\ WorkerBeside /\ BatchAhead

\* The names of the migrations.
LEMMA MigrationNames ==
  /\ Range(AsyncMigrations) = {"recategorize", "removeUnknown"}
  /\ Range(SyncMigrations) = {"cleanup", "derive", "interval"}
  /\ Migrations = {"cleanup", "derive", "interval", "recategorize", "removeUnknown"}
<1>1. Range(AsyncMigrations) = {"recategorize", "removeUnknown"}
  BY DEF AsyncMigrations, Range
<1>2. Range(SyncMigrations) = {"cleanup", "derive", "interval"}
  BY DEF SyncMigrations, Range
<1> QED
  BY <1>1, <1>2 DEF Migrations

\* Which migration is the next one, and when none is left.
LEMMA NextOne ==
  /\ Pending(SyncMigrations) = {} => "derive" \in mem.completed
  /\ IsNext(AsyncMigrations, "removeUnknown") => "recategorize" \in mem.completed
<1>1. DOMAIN SyncMigrations = 1..3 /\ SyncMigrations[2] = "derive"
  BY DEF SyncMigrations
<1>2. /\ DOMAIN AsyncMigrations = 1..2 /\ AsyncMigrations[1] = "recategorize"
      /\ AsyncMigrations[2] = "removeUnknown"
  BY DEF AsyncMigrations
<1>3. Pending(SyncMigrations) = {} => "derive" \in mem.completed
  BY <1>1 DEF Pending
<1>4. ASSUME IsNext(AsyncMigrations, "removeUnknown"), "recategorize" \notin mem.completed
      PROVE  FALSE
  <2>1. PICK k \in Pending(AsyncMigrations) :
           AsyncMigrations[k] = "removeUnknown" /\ \A j \in Pending(AsyncMigrations) : k <= j
    BY <1>4 DEF IsNext
  <2>2. 1 \in Pending(AsyncMigrations)
    BY <1>2, <1>4 DEF Pending
  <2>3. k \in 1..2 /\ k <= 1
    BY <1>2, <2>1, <2>2 DEF Pending
  <2>4. k = 1
    BY <2>3
  <2> QED
    BY <1>2, <2>1, <2>4
<1> QED
  BY <1>3, <1>4

-----------------------------------------------------------------------------
(* Migration: what its steps do to the tables.                              *)

Footprint ==
    \/ RekeyPage \/ RetirePage \/ ProcessRow \/ \E h \in Hash : ServicesAdd(h)
    \/ UNCHANGED <<torrents, files, had, dropped>>

LEMMA WhoWritesRows ==
  ASSUME [MigrationNext]_migrationVars
  PROVE  Footprint
<1>1. CASE Start \/ SyncDone \/ CleanupFeedStorage \/ UpdateWalkInterval \/ RekeyFails
           \/ RekeyTableDone
  BY <1>1 DEF Start, SyncDone, CleanupFeedStorage, UpdateWalkInterval, RekeyFails,
              RekeyTableDone, SyncFails, Data, Bounds, Tables, Footprint
<1>2. CASE StartAsync \/ NextMigration \/ BatchDone \/ BodyDone \/ SaveState \/ RequestStop
           \/ Quit \/ UNCHANGED migrationVars
  BY <1>2 DEF StartAsync, NextMigration, BatchDone, BodyDone, SaveState, RequestStop, Quit,
              Data, Bounds, Tables, Footprint, migrationVars
<1>3. CASE \E b \in BOOLEAN : CountItems(b) \/ QueryBatch(b) \/ Crash(b)
  BY <1>3 DEF CountItems, QueryBatch, Crash, Data, Bounds, Tables, Footprint
<1> QED
  BY <1>1, <1>2, <1>3 DEF MigrationNext, Footprint

\* A row's type changes; its number and its hash do not.
WithType(rows, id, h, new) ==
    {IF t.id = id /\ t.hash = h THEN [t EXCEPT !.type = new] ELSE t : t \in rows}

LEMMA Retyped ==
  ASSUME NEW rows, Numbered(rows), rows \subseteq TorrentRow, NEW id, NEW h, NEW new \in Type,
         NEW now, now = WithType(rows, id, h, new)
  PROVE  /\ Numbered(now) /\ now \subseteq TorrentRow
         /\ \A s \in now : \E t \in rows :
               /\ s.id = t.id /\ s.hash = t.hash
               /\ s.type = IF t.id = id /\ t.hash = h THEN new ELSE t.type
         /\ \A t \in rows : \E s \in now : s.id = t.id /\ s.hash = t.hash
<1> DEFINE f == [t \in rows |-> IF t.id = id /\ t.hash = h THEN [t EXCEPT !.type = new] ELSE t]
<1>1. now = {f[t] : t \in rows}
  BY DEF WithType
<1>2. IsFiniteSet(now)
  <2>1. f = [t \in rows |-> f[t]] /\ IsFiniteSet(rows)
    BY DEF Numbered
  <2> HIDE DEF f
  <2>2. IsFiniteSet({f[t] : t \in rows})
    BY <2>1, ImageFinite
  <2> QED
    BY <1>1, <2>2
<1>3. \A t \in rows : /\ f[t] \in TorrentRow /\ f[t].id = t.id /\ f[t].hash = t.hash
                      /\ f[t].type = IF t.id = id /\ t.hash = h THEN new ELSE t.type
  BY DEF TorrentRow
<1> HIDE DEF f
<1>4. \A s \in now : \E t \in rows : s = f[t]
  BY <1>1
<1>5. Keyed(now)
  BY <1>3, <1>4 DEF Numbered, Keyed
<1>6. NoSquatters(now)
  BY <1>3, <1>4 DEF Numbered, NoSquatters
<1>7. now \subseteq TorrentRow
  BY <1>1, <1>3
<1>8. Numbered(now)
  BY <1>2, <1>5, <1>6, <1>7 DEF Numbered
<1>9. \A s \in now : \E t \in rows :
         /\ s.id = t.id /\ s.hash = t.hash
         /\ s.type = IF t.id = id /\ t.hash = h THEN new ELSE t.type
  BY <1>3, <1>4
<1>10. \A t \in rows : \E s \in now : s.id = t.id /\ s.hash = t.hash
  BY <1>1, <1>3
<1> QED
  BY <1>7, <1>8, <1>9, <1>10

\* The body of a row, of either migration, on the tables.
LEMMA BodyOfRow ==
  ASSUME MigrationAssumption, MigrationTypeOK, TablesNumbered, ProcessRow
  PROVE  /\ Numbered(torrents') /\ torrents' \subseteq TorrentRow
         /\ Numbered(files') /\ files' \subseteq files
         /\ \A s \in torrents' : \E t \in torrents :
               s.id = t.id /\ s.hash = t.hash /\ s.type \in {t.type, BestType[t.hash]}
         /\ \A t \in torrents : t.hash \in dropped' \/ \E s \in torrents' : s.hash = t.hash
         /\ dropped \subseteq dropped' /\ dropped' \subseteq Hash
<1>1. PICK r \in async.batch :
         IF async.id = "recategorize" THEN Recategorize(r) ELSE RemoveUnknown(r)
  BY DEF ProcessRow
<1>2. /\ r \in TorrentRow /\ r.hash \in Hash /\ r.type \in Type /\ BestType[r.hash] \in Type
      /\ dropped \subseteq Hash
  BY DEF MigrationTypeOK, TorrentRow, MigrationAssumption
<1>3. torrents \subseteq TorrentRow /\ Numbered(torrents) /\ Numbered(files)
  BY DEF MigrationTypeOK, TablesNumbered
<1>4. CASE Recategorize(r)
  <2> DEFINE new == IF HasFiles(r.hash) THEN BestType[r.hash] ELSE r.type
  <2>1. files' = files /\ dropped' = dropped
    BY <1>4 DEF Recategorize
  <2>2. CASE new = r.type
    <3>1. torrents' = torrents
      BY <1>4, <2>2 DEF Recategorize
    <3> QED
      BY <1>2, <1>3, <2>1, <3>1
  <2>3. CASE new # r.type
    <3>1. /\ new = BestType[r.hash]
          /\ torrents' = WithType(torrents, RowId[r.hash], r.hash, new)
      BY <1>4, <2>3 DEF Recategorize, WithType
    <3>2. new \in Type
      BY <1>2, <3>1
    <3> HIDE DEF new
    <3>3. /\ Numbered(torrents') /\ torrents' \subseteq TorrentRow
          /\ \A s \in torrents' : \E t \in torrents :
               /\ s.id = t.id /\ s.hash = t.hash
               /\ s.type = IF t.id = RowId[r.hash] /\ t.hash = r.hash THEN new ELSE t.type
          /\ \A t \in torrents : \E s \in torrents' : s.id = t.id /\ s.hash = t.hash
      BY <1>3, <3>1, <3>2, Retyped
    <3>4. \A s \in torrents' : \E t \in torrents :
             s.id = t.id /\ s.hash = t.hash /\ s.type \in {t.type, BestType[t.hash]}
      <4>1. TAKE s \in torrents'
      <4>2. PICK t \in torrents :
               /\ s.id = t.id /\ s.hash = t.hash
               /\ s.type = IF t.id = RowId[r.hash] /\ t.hash = r.hash THEN new ELSE t.type
        BY <3>3
      <4>3. s.type \in {t.type, BestType[t.hash]}
        BY <3>1, <4>2
      <4> QED
        BY <4>2, <4>3
    <3> QED
      BY <1>2, <1>3, <2>1, <3>3, <3>4
  <2> QED
    BY <2>2, <2>3
<1>5. CASE RemoveUnknown(r)
  <2> DEFINE id == RowId[r.hash]
             other == \E t \in torrents : t.id = id /\ t.hash # r.hash
  <2>1. CASE id = 0 \/ other
    <3>1. UNCHANGED <<torrents, files, dropped>>
      BY <1>5, <2>1 DEF RemoveUnknown
    <3> QED
      BY <1>2, <1>3, <3>1
  <2>2. CASE ~(id = 0 \/ other)
    <3>1. /\ torrents' = {t \in torrents : t.id # id} /\ files' = {f \in files : f.id # id}
          /\ dropped' = IF torrents' = torrents THEN dropped ELSE dropped \cup {r.hash}
      BY <1>5, <2>2 DEF RemoveUnknown
    <3>2. IsFiniteSet(torrents') /\ IsFiniteSet(files')
      BY <1>3, <3>1, FS_Subset DEF Numbered
    <3>3. Numbered(torrents') /\ Numbered(files')
      BY <1>3, <3>1, <3>2 DEF Numbered, Keyed, NoSquatters
    <3>4. \A t \in torrents : t \notin torrents' => t.hash = r.hash /\ r.hash \in dropped'
      BY <2>2, <3>1
    <3> QED
      BY <1>2, <1>3, <3>1, <3>3, <3>4
  <2> QED
    BY <2>1, <2>2
<1> QED
  BY <1>1, <1>4, <1>5

\* A torrent the services add, on the tables.
LEMMA AddOfServices ==
  ASSUME MigrationAssumption, MigrationTypeOK, TablesNumbered, NEW h \in Hash, ServicesAdd(h)
  PROVE  /\ Numbered(torrents') /\ torrents' \subseteq TorrentRow
         /\ Numbered(files') /\ files' \subseteq FileRow
         /\ RowId[h] \in Nat \ {0} /\ RowId[h] \notin Ids(torrents)
         /\ \A s \in torrents' : s \in torrents \/ (/\ s.id = RowId[h] /\ s.hash = h
                                                    /\ s.type = BestType[h])
         /\ \A s \in files' : (s \in files /\ s.id # RowId[h]) \/ (s.id = RowId[h] /\ s.hash = h)
         /\ torrents \subseteq torrents' /\ \A f \in files : f \in files' \/ f.id = RowId[h]
<1> DEFINE t == [id |-> RowId[h], hash |-> h, type |-> BestType[h]]
           g == [id |-> RowId[h], hash |-> h]
           rest == {f \in files : f.id # RowId[h]}
<1>1. /\ torrents' = torrents \cup {t} /\ files' = rest \cup {g}
      /\ RowId[h] # 0 /\ RowId[h] \notin Ids(torrents)
  BY DEF ServicesAdd
<1>2. RowId[h] \in Nat \ {0} /\ BestType[h] \in Type
  BY <1>1 DEF MigrationAssumption
<1>3. t \in TorrentRow /\ g \in FileRow
  BY <1>2 DEF TorrentRow, FileRow
<1>4. torrents \subseteq TorrentRow /\ files \subseteq FileRow /\ Numbered(torrents) /\ Numbered(files)
  BY DEF MigrationTypeOK, TablesNumbered
<1>5. IsFiniteSet(torrents') /\ IsFiniteSet(files')
  <2>1. IsFiniteSet(rest)
    BY <1>4, FS_Subset DEF Numbered
  <2>2. IsFiniteSet(rest \cup {g})
    BY <2>1, FS_AddElement
  <2>3. IsFiniteSet(torrents \cup {t})
    BY <1>4, FS_AddElement DEF Numbered
  <2> QED
    BY <1>1, <2>2, <2>3
<1>6. \A r \in torrents : r.id # RowId[h]
  BY <1>1 DEF Ids
<1>7. Keyed(torrents') /\ NoSquatters(torrents')
  BY <1>1, <1>4, <1>6 DEF Numbered, Keyed, NoSquatters
<1>8. Keyed(files') /\ NoSquatters(files')
  BY <1>1, <1>4 DEF Numbered, Keyed, NoSquatters
<1> QED
  BY <1>1, <1>2, <1>3, <1>4, <1>5, <1>7, <1>8 DEF Numbered

\* What a page does to its table: its torrents stay, with their types.
PageResult(rows, now) ==
    /\ Numbered(now)
    /\ rows \subseteq TorrentRow => now \subseteq TorrentRow
    /\ rows \subseteq FileRow => now \subseteq FileRow
    /\ AllDerived(rows) => AllDerived(now)
    /\ \A s \in now : \E r \in rows : s.hash = r.hash /\ (r \in TorrentRow => s.type = r.type)
    /\ \A r \in rows : Sole(rows, r.hash) => \E s \in now : s.hash = r.hash

LEMMA RewrittenResult ==
  ASSUME MigrationAssumption, NEW rows, Numbered(rows), NEW ids, ids \subseteq Ids(rows)
  PROVE  PageResult(rows, Rewritten(rows, ids))
<1>1. ASSUME NEW s \in Rewritten(rows, ids)
      PROVE  \E r \in rows : s.hash = r.hash /\ (r \in TorrentRow => s.type = r.type)
  <2>1. PICK r \in rows : s.hash = r.hash /\ s \in {r, [r EXCEPT !.id = s.id]}
    BY RewrittenHashes
  <2>2. r \in TorrentRow => [r EXCEPT !.id = s.id].type = r.type
    BY NumberedRow
  <2>3. r \in TorrentRow => s.type = r.type
    BY <2>1, <2>2
  <2> QED
    BY <2>1, <2>3
<1> QED
  BY <1>1, RewrittenNumbered, RewrittenHashes DEF PageResult

LEMMA RetiredResult ==
  ASSUME MigrationAssumption, NEW rows, Numbered(rows), NEW ids, Retirable(rows, ids)
  PROVE  PageResult(rows, {r \in rows : r.id \notin ids})
BY RetiredRows DEF PageResult, AllDerived

PageDoomed(rows) ==
    /\ Swept(rows, rekey'.doomed, rekey'.cursor) /\ Retirable(rows, rekey'.doomed)
    /\ ~rekey'.rewritten => rekey'.doomed = {}

\* Either half of a page: its table, the other one, and the cursor.
LEMMA PageOfTable ==
  ASSUME MigrationAssumption, MigrationTypeOK, TablesNumbered, PageSwept,
         RekeyPage \/ RetirePage
  PROVE  /\ phase = "sync"
         /\ UNCHANGED <<stateFile, mem, phase, async, stop, feed, walkInterval, dropped,
                        faults, crashes, adds, had>>
         /\ rekey' \in [table : {rekey.table}, cursor : Nat, doomed : SUBSET Nat,
                        rewritten : BOOLEAN]
         /\ \/ /\ rekey.table = "torrents" /\ UNCHANGED files
               /\ PageResult(torrents, torrents') /\ PageDoomed(torrents')
            \/ /\ rekey.table = "files" /\ UNCHANGED torrents
               /\ PageResult(files, files') /\ PageDoomed(files')
<1> DEFINE rows == Table
<1>1. /\ Running("derive") /\ phase = "sync"
      /\ UNCHANGED <<stateFile, mem, phase, async, stop, feed, walkInterval, dropped,
                     faults, crashes, adds, had>>
  BY DEF RekeyPage, RetirePage, Running, Bounds
<1>2. /\ rekey \in [table : {"torrents", "files"}, cursor : Nat, doomed : SUBSET Nat,
                    rewritten : BOOLEAN]
      /\ Numbered(rows)
  BY DEF MigrationTypeOK, TablesNumbered, Table
<1>3. /\ Swept(rows, rekey.doomed, rekey.cursor) /\ Retirable(rows, rekey.doomed)
      /\ ~rekey.rewritten => rekey.doomed = {}
  BY <1>1 DEF PageSwept
<1>4. \E now : /\ SetTable(now) /\ PageResult(rows, now) /\ PageDoomed(now)
               /\ rekey' \in [table : {rekey.table}, cursor : Nat, doomed : SUBSET Nat,
                              rewritten : BOOLEAN]
  <2>1. CASE RekeyPage
    <3> DEFINE ids == PageAfter(Table, rekey.cursor)
               now == Rewritten(rows, ids)
    <3>1. /\ ~rekey.rewritten /\ ids # {} /\ SetTable(now)
          /\ rekey' = [rekey EXCEPT !.cursor = Max(ids), !.doomed = Retired(rows, ids),
                                    !.rewritten = Retired(rows, ids) # {}]
      BY <2>1 DEF RekeyPage
    <3>2. rekey.cursor \in Nat /\ Swept(rows, {}, rekey.cursor)
      BY <1>2, <1>3, <3>1
    <3>3. rekey'.cursor = Max(ids) /\ rekey'.doomed = Retired(rows, ids)
          /\ rekey'.rewritten = (Retired(rows, ids) # {}) /\ rekey'.table = rekey.table
      BY <1>2, <3>1
    <3> HIDE DEF rows
    <3>4. ids = PageAfter(rows, rekey.cursor)
      BY DEF rows
    <3> HIDE DEF ids
    <3>5. /\ ids \subseteq Ids(rows) /\ Max(ids) \in Nat
          /\ Swept(now, Retired(rows, ids), Max(ids))
      BY <1>2, <3>1, <3>2, <3>4, RewrittenSwept
    <3>6. Retirable(now, Retired(rows, ids)) /\ PageResult(rows, now)
      BY <1>2, <3>5, RewrittenRetirable, RewrittenResult
    <3>7. PageDoomed(now)
      BY <3>3, <3>5, <3>6 DEF PageDoomed
    <3>8. Retired(rows, ids) \subseteq Nat
      <4>1. \A i \in Ids(rows) : i \in Nat
        BY <1>2, NumberedRow DEF Ids
      <4> QED
        BY <3>5, <4>1 DEF Retired
    <3>9. rekey' \in [table : {rekey.table}, cursor : Nat, doomed : SUBSET Nat,
                      rewritten : BOOLEAN]
      BY <1>2, <3>1, <3>5, <3>8
    <3> HIDE DEF now
    <3>10. SetTable(now)
      BY <3>1
    <3> QED
      BY <3>6, <3>7, <3>9, <3>10
  <2>2. CASE RetirePage
    <3> DEFINE now == {r \in rows : r.id \notin rekey.doomed}
    <3>1. SetTable(now) /\ rekey' = [rekey EXCEPT !.rewritten = FALSE, !.doomed = {}]
      BY <2>2 DEF RetirePage
    <3>2. rekey'.doomed = {} /\ rekey'.cursor = rekey.cursor
      BY <1>2, <3>1
    <3> HIDE DEF rows
    <3>3. PageResult(rows, now)
      BY <1>2, <1>3, RetiredResult
    <3>4. Swept(now, {}, rekey.cursor)
      BY <1>2, <1>3, RetiredRows
    <3>5. PageDoomed(now)
      BY <3>2, <3>4 DEF PageDoomed, Retirable
    <3>6. rekey' \in [table : {rekey.table}, cursor : Nat, doomed : SUBSET Nat,
                      rewritten : BOOLEAN]
      BY <1>2, <3>1
    <3> HIDE DEF now
    <3> QED
      BY <3>1, <3>3, <3>5, <3>6
  <2> QED
    BY <2>1, <2>2
<1>5. PICK now : /\ SetTable(now) /\ PageResult(rows, now) /\ PageDoomed(now)
                 /\ rekey' \in [table : {rekey.table}, cursor : Nat, doomed : SUBSET Nat,
                                rewritten : BOOLEAN]
  BY <1>4
<1>6. rekey.table \in {"torrents", "files"}
  BY <1>2
<1>7. \/ /\ rekey.table = "torrents" /\ UNCHANGED files
         /\ PageResult(torrents, torrents') /\ PageDoomed(torrents')
      \/ /\ rekey.table = "files" /\ UNCHANGED torrents
         /\ PageResult(files, files') /\ PageDoomed(files')
  BY <1>5, <1>6 DEF SetTable, Table
<1> QED
  BY <1>1, <1>5, <1>7

-----------------------------------------------------------------------------
(* Migration: the parts of the invariant that are about the tables.         *)

LEMMA MigrationInitial ==
  ASSUME MigrationAssumption, MigrationInit
  PROVE  MigrationInv
<1>1. PICK i \in Installs : stateFile = i.disk /\ torrents = i.torrents /\ files = i.files
  BY DEF MigrationInit
<1>2. /\ stateFile \in StateFile /\ torrents \subseteq TorrentRow /\ files \subseteq FileRow
      /\ IsFiniteSet(torrents) /\ Keyed(torrents) /\ NoSquatters(torrents)
      /\ IsFiniteSet(files) /\ Keyed(files) /\ NoSquatters(files)
      /\ ~stateFile.exists \/ "derive" \in stateFile.completed =>
            AllDerived(torrents) /\ AllDerived(files)
      /\ \A r \in Missed(torrents) :
            /\ Sole(files, r.hash) /\ \E f \in files : f.hash = r.hash
            /\ stateFile.exists /\ "recategorize" \notin stateFile.completed
            /\ stateFile.inProgress.id = "recategorize" =>
                  RowId[r.hash] > stateFile.inProgress.lastId
  BY <1>1 DEF MigrationAssumption
<1>3. /\ mem = [completed |-> {}, inProgress |-> NoMigration]
      /\ phase = "off" /\ rekey = NoPage /\ async = IdleWorker /\ stop = FALSE
      /\ feed = "old" /\ walkInterval \in {5, 250}
      /\ had = {r.hash : r \in torrents}
      /\ dropped = {} /\ faults = 0
  BY DEF MigrationInit
<1>4. had \subseteq Hash
  BY <1>2, <1>3 DEF TorrentRow
<1>5. MigrationTypeOK
  <2>1. mem \in [completed : SUBSET Migrations, inProgress : MigrationState]
    BY <1>3 DEF NoMigration, MigrationState
  <2>2. rekey \in [table : {"torrents", "files"}, cursor : Nat, doomed : SUBSET Nat,
                   rewritten : BOOLEAN]
    BY <1>3 DEF NoPage
  <2>3. async \in [at : {"idle", "next", "counting", "batch", "rows", "done", "ended"},
                   id : {"none"} \cup Range(AsyncMigrations), lastId : Nat,
                   batch : SUBSET TorrentRow, last : BOOLEAN]
    BY <1>3 DEF IdleWorker
  <2>4. walkInterval \in Nat
    BY <1>3
  <2> QED
    BY <1>2, <1>3, <1>4, <2>1, <2>2, <2>3, <2>4 DEF MigrationTypeOK
<1>6. TablesNumbered
  BY <1>2 DEF TablesNumbered, Numbered
<1>7. PageSwept /\ WorkerBeside /\ BatchAhead
  BY <1>3 DEF PageSwept, WorkerBeside, BatchAhead, IdleWorker
<1>8. DoneIsDerived /\ HadIsKept
  BY <1>2, <1>3 DEF DoneIsDerived, HadIsKept
<1>9. MissedAhead
  <2>1. Passed(torrents, mem)
    BY <1>3 DEF Passed, NoMigration
  <2>2. Passed(torrents, stateFile)
    BY <1>2 DEF Passed
  <2> QED
    BY <1>2, <1>3, <2>1, <2>2 DEF MissedAhead
<1> QED
  BY <1>5, <1>6, <1>7, <1>8, <1>9 DEF MigrationInv

LEMMA TablesStay ==
  ASSUME MigrationAssumption, MigrationInv, [MigrationNext]_migrationVars
  PROVE  /\ TablesNumbered' /\ torrents' \subseteq TorrentRow /\ files' \subseteq FileRow
         /\ dropped' \subseteq Hash /\ had' \subseteq Hash
<1>1. /\ MigrationTypeOK /\ TablesNumbered /\ PageSwept
      /\ torrents \subseteq TorrentRow /\ files \subseteq FileRow /\ dropped \subseteq Hash
      /\ had \subseteq Hash
  BY DEF MigrationInv, MigrationTypeOK
<1>2. CASE RekeyPage \/ RetirePage
  <2>1. UNCHANGED <<dropped, had>>
    BY <1>1, <1>2, PageOfTable
  <2>2. \/ UNCHANGED files /\ PageResult(torrents, torrents')
        \/ UNCHANGED torrents /\ PageResult(files, files')
    BY <1>1, <1>2, PageOfTable
  <2> QED
    BY <1>1, <2>1, <2>2 DEF TablesNumbered, PageResult
<1>3. CASE ProcessRow
  <2>1. UNCHANGED had
    BY <1>3 DEF ProcessRow, Bounds
  <2> QED
    BY <1>1, <1>3, <2>1, BodyOfRow DEF TablesNumbered
<1>4. ASSUME NEW h \in Hash, ServicesAdd(h)
      PROVE  /\ TablesNumbered' /\ torrents' \subseteq TorrentRow /\ files' \subseteq FileRow
             /\ dropped' \subseteq Hash /\ had' \subseteq Hash
  <2>1. UNCHANGED <<dropped, had>>
    BY <1>4 DEF ServicesAdd
  <2> QED
    BY <1>1, <1>4, <2>1, AddOfServices DEF TablesNumbered
<1>5. CASE UNCHANGED <<torrents, files, had, dropped>>
  BY <1>1, <1>5 DEF TablesNumbered
<1> QED
  BY <1>2, <1>3, <1>4, <1>5, WhoWritesRows DEF Footprint

MemType == [completed : SUBSET Migrations, inProgress : MigrationState]

LEMMA MarkedTypes ==
  ASSUME mem \in MemType, NEW m \in Migrations, MarkCompleted(m)
  PROVE  mem' \in MemType /\ stateFile' \in StateFile
<1>1. mem.completed \subseteq Migrations /\ mem.inProgress \in MigrationState
  BY DEF MemType
<1>2. NoMigration \in MigrationState
  BY DEF NoMigration, MigrationState
<1>3. mem' \in MemType
  BY <1>1, <1>2 DEF MarkCompleted, MemType
<1>4. stateFile' = Saved(mem')
  BY DEF MarkCompleted
<1> QED
  BY <1>3, <1>4 DEF Saved, StateFile, MemType

LEMMA SavedType ==
  ASSUME mem \in MemType
  PROVE  Saved(mem) \in StateFile
BY DEF Saved, StateFile, MemType

\* Every step keeps the types.
LEMMA MigrationTypes ==
  ASSUME MigrationAssumption, MigrationInv, [MigrationNext]_migrationVars
  PROVE  MigrationTypeOK'
<1> DEFINE Rekeys == [table : {"torrents", "files"}, cursor : Nat, doomed : SUBSET Nat,
                      rewritten : BOOLEAN]
           Workers == [at : {"idle", "next", "counting", "batch", "rows", "done", "ended"},
                       id : {"none"} \cup Range(AsyncMigrations), lastId : Nat,
                       batch : SUBSET TorrentRow, last : BOOLEAN]
           Small == /\ phase' \in {"off", "sync", "services"} /\ stop' \in BOOLEAN
                    /\ feed' \in {"old", "clean"} /\ walkInterval' \in Nat
                    /\ faults' \in Nat
<1>1. /\ stateFile \in StateFile /\ mem \in MemType /\ rekey \in Rekeys /\ async \in Workers
      /\ phase \in {"off", "sync", "services"} /\ stop \in BOOLEAN /\ faults \in Nat
      /\ feed \in {"old", "clean"} /\ walkInterval \in Nat /\ torrents \subseteq TorrentRow
      /\ stateFile.completed \subseteq Migrations /\ stateFile.inProgress \in MigrationState
      /\ mem.completed \subseteq Migrations /\ mem.inProgress \in MigrationState
  BY DEF MigrationInv, MigrationTypeOK, MemType, StateFile
<1>2. NoMigration \in MigrationState /\ NoPage \in Rekeys /\ IdleWorker \in Workers
  BY DEF NoMigration, MigrationState, NoPage, IdleWorker
<1>3. /\ "cleanup" \in Migrations /\ "interval" \in Migrations /\ "derive" \in Migrations
      /\ Range(AsyncMigrations) = {"recategorize", "removeUnknown"}
      /\ Range(AsyncMigrations) \subseteq Migrations
  BY MigrationNames
<1> HIDE DEF Rekeys, Workers, Small
<1>4. /\ stateFile' \in StateFile /\ mem' \in MemType /\ rekey' \in Rekeys
      /\ async' \in Workers /\ Small
  <2>1. CASE Start
    <3>1. Loaded \in MemType /\ [completed |-> Migrations, inProgress |-> NoMigration] \in MemType
      BY <1>1, <1>2 DEF Loaded, MemType
    <3>2. mem' \in MemType
      BY <2>1, <3>1 DEF Start
    <3>3. stateFile' \in StateFile
      BY <1>1, <2>1, <3>2 DEF Start, Saved, StateFile, MemType
    <3> QED
      BY <1>1, <1>2, <2>1, <3>2, <3>3 DEF Start, Data, Bounds, Small
  <2>2. CASE SyncDone \/ RekeyFails
    BY <1>1, <1>2, <2>2 DEF SyncDone, RekeyFails, SyncFails, Data, Bounds, Fault, Small
  <2>3. CASE CleanupFeedStorage \/ UpdateWalkInterval
    <3>1. mem' \in MemType /\ stateFile' \in StateFile
      BY <1>1, <1>3, <2>3, MarkedTypes DEF CleanupFeedStorage, UpdateWalkInterval
    <3> QED
      BY <1>1, <2>3, <3>1 DEF CleanupFeedStorage, UpdateWalkInterval, Bounds, Small
  <2>4. CASE RekeyPage \/ RetirePage
    <3>1. /\ UNCHANGED <<stateFile, mem, phase, async, stop, feed, walkInterval, faults>>
          /\ rekey' \in [table : {rekey.table}, cursor : Nat, doomed : SUBSET Nat,
                         rewritten : BOOLEAN]
      BY <2>4, PageOfTable DEF MigrationInv
    <3> QED
      BY <1>1, <3>1 DEF Rekeys, Small
  <2>5. CASE RekeyTableDone
    <3>1. [NoPage EXCEPT !.table = "files"] \in Rekeys
      BY <1>2 DEF Rekeys
    <3>2. UNCHANGED <<phase, async, stop, feed, walkInterval, faults>>
      BY <2>5 DEF RekeyTableDone, Data, Bounds
    <3>3. \/ rekey' = [NoPage EXCEPT !.table = "files"] /\ UNCHANGED <<mem, stateFile>>
          \/ rekey' = NoPage /\ MarkCompleted("derive")
      BY <2>5 DEF RekeyTableDone
    <3>4. mem' \in MemType /\ stateFile' \in StateFile
      BY <1>1, <1>3, <3>3, MarkedTypes
    <3> QED
      BY <1>1, <1>2, <3>1, <3>2, <3>3, <3>4 DEF Small
  <2>6. CASE StartAsync
    <3>1. [IdleWorker EXCEPT !.at = "next"] \in Workers
      BY <1>2 DEF Workers
    <3> QED
      BY <1>1, <2>6, <3>1 DEF StartAsync, Data, Bounds, Small
  <2>7. CASE NextMigration
    <3>1. UNCHANGED <<stateFile, rekey, phase, stop, feed, walkInterval, faults>>
      BY <2>7 DEF NextMigration, Data, Bounds
    <3>2. CASE async' = [IdleWorker EXCEPT !.at = "ended"] /\ UNCHANGED mem
      BY <1>1, <1>2, <3>1, <3>2 DEF Small, Workers
    <3>3. ASSUME NEW m \in Range(AsyncMigrations),
                 mem' = IF mem.inProgress.id = m THEN mem
                        ELSE [mem EXCEPT !.inProgress = [NoMigration EXCEPT !.id = m]],
                 async' = [IdleWorker EXCEPT !.at = "counting", !.id = m,
                                             !.lastId = mem'.inProgress.lastId]
          PROVE  mem' \in MemType /\ async' \in Workers
      <4>1. [NoMigration EXCEPT !.id = m] \in MigrationState
        BY <1>2 DEF MigrationState
      <4>2. mem' \in MemType
        BY <1>1, <3>3, <4>1 DEF MemType
      <4>3. mem'.inProgress.lastId \in Nat
        BY <4>2 DEF MemType, MigrationState
      <4> QED
        BY <1>2, <3>3, <4>2, <4>3 DEF Workers
    <3> QED
      BY <1>1, <2>7, <3>1, <3>2, <3>3 DEF NextMigration, Small
  <2>8. ASSUME NEW b \in BOOLEAN, CountItems(b)
        PROVE  /\ stateFile' \in StateFile /\ mem' \in MemType /\ rekey' \in Rekeys
               /\ async' \in Workers /\ Small
    <3>1. UNCHANGED <<stateFile, rekey, phase, stop, feed, walkInterval>> /\ faults' \in Nat
      BY <1>1, <2>8 DEF CountItems, Data, Bounds, Fault
    <3>2. mem.inProgress.counted \in BOOLEAN
      BY <1>1 DEF MigrationState
    <3>3. \E found \in BOOLEAN, stage \in {"done", "batch"} :
             /\ mem' = [mem EXCEPT !.inProgress.counted = found]
             /\ async' = [async EXCEPT !.at = stage]
      BY <2>8, <3>2 DEF CountItems
    <3>4. mem' \in MemType
      BY <1>1, <3>3 DEF MemType, MigrationState
    <3>5. async' \in Workers
      BY <1>1, <3>3 DEF Workers
    <3> QED
      BY <1>1, <3>1, <3>4, <3>5 DEF Small
  <2>9. ASSUME NEW b \in BOOLEAN, QueryBatch(b)
        PROVE  /\ stateFile' \in StateFile /\ mem' \in MemType /\ rekey' \in Rekeys
               /\ async' \in Workers /\ Small
    <3>1. /\ UNCHANGED <<stateFile, mem, rekey, phase, stop, feed, walkInterval>>
          /\ faults' \in Nat
      BY <1>1, <2>9 DEF QueryBatch, Data, Bounds, Fault
    <3> DEFINE rows == IF async.id = "removeUnknown" THEN Unknown ELSE torrents
               batch == {r \in rows : r.id \in PageAfter(rows, async.lastId)}
    <3>2. batch \subseteq TorrentRow
      BY <1>1 DEF Unknown
    <3>3. \/ async' = [async EXCEPT !.at = "done"]
          \/ \E last \in BOOLEAN : async' = [async EXCEPT !.at = "rows", !.batch = batch,
                                                          !.last = last]
      BY <2>9 DEF QueryBatch
    <3>4. async' \in Workers
      BY <1>1, <3>2, <3>3 DEF Workers
    <3> QED
      BY <1>1, <3>1, <3>4 DEF Small
  <2>10. CASE ProcessRow
    <3>1. PICK r \in async.batch :
             /\ async' = [async EXCEPT !.lastId = r.id, !.batch = @ \ {r}]
             /\ mem' = [mem EXCEPT !.inProgress.lastId = r.id]
      BY <2>10 DEF ProcessRow
    <3>2. r.id \in Nat
      BY <1>1 DEF Workers, TorrentRow
    <3>3. async' \in Workers
      BY <1>1, <3>1, <3>2 DEF Workers
    <3>4. mem' \in MemType
      BY <1>1, <3>1, <3>2 DEF MemType, MigrationState
    <3> QED
      BY <1>1, <2>10, <3>3, <3>4 DEF ProcessRow, Bounds, Small
  <2>11. CASE BatchDone
    <3>1. \E stage \in {"done", "batch"} : async' = [async EXCEPT !.at = stage, !.batch = {}]
      BY <2>11 DEF BatchDone
    <3>2. async' \in Workers
      BY <1>1, <3>1 DEF Workers
    <3> QED
      BY <1>1, <2>11, <3>2 DEF BatchDone, Data, Bounds, Small
  <2>12. CASE BodyDone
    <3>1. [IdleWorker EXCEPT !.at = "next"] \in Workers
      BY <1>2 DEF Workers
    <3>2. /\ async' = [IdleWorker EXCEPT !.at = "next"]
          /\ UNCHANGED <<phase, rekey, stop, feed, walkInterval, faults>>
          /\ UNCHANGED <<mem, stateFile>> \/ MarkCompleted(async.id)
          /\ async.at = "done"
      BY <2>12 DEF BodyDone, Data, Bounds
    <3>3. async.id \in Migrations
      <4>1. async.id # "none" /\ async.id \in {"none"} \cup Range(AsyncMigrations)
        BY <1>1, <3>2 DEF MigrationInv, WorkerBeside, Workers
      <4> QED
        BY <1>3, <4>1
    <3>4. mem' \in MemType /\ stateFile' \in StateFile
      BY <1>1, <3>2, <3>3, MarkedTypes
    <3> QED
      BY <1>1, <3>1, <3>2, <3>4 DEF Small
  <2>13. CASE SaveState \/ RequestStop \/ Quit
    <3>1. stateFile' = Saved(mem)
      BY <2>13 DEF SaveState, RequestStop, Quit
    <3>2. stateFile' \in StateFile
      BY <1>1, <3>1, SavedType
    <3> QED
      BY <1>1, <2>13, <3>2 DEF SaveState, RequestStop, Quit, Data, Bounds, Small
  <2>14. ASSUME NEW b \in BOOLEAN, Crash(b)
         PROVE  /\ stateFile' \in StateFile /\ mem' \in MemType /\ rekey' \in Rekeys
                /\ async' \in Workers /\ Small
    <3>1. [stateFile EXCEPT !.readable = FALSE] \in StateFile
      BY <1>1 DEF StateFile
    <3> QED
      BY <1>1, <1>2, <2>14, <3>1 DEF Crash, Data, Small
  <2>15. ASSUME NEW h \in Hash, ServicesAdd(h)
         PROVE  /\ stateFile' \in StateFile /\ mem' \in MemType /\ rekey' \in Rekeys
                /\ async' \in Workers /\ Small
    BY <1>1, <2>15 DEF ServicesAdd, Small
  <2>16. CASE UNCHANGED migrationVars
    BY <1>1, <2>16 DEF migrationVars, Small
  <2> QED
    BY <2>1, <2>2, <2>3, <2>4, <2>5, <2>6, <2>7, <2>8, <2>9, <2>10, <2>11, <2>12, <2>13,
       <2>14, <2>15, <2>16 DEF MigrationNext
<1> QED
  BY <1>4, TablesStay DEF MigrationTypeOK, MemType, Rekeys, Workers, Small

LEMMA DerivedStays ==
  ASSUME MigrationAssumption, MigrationInv, [MigrationNext]_migrationVars
  PROVE  DoneIsDerived'
<1> DEFINE Derived == AllDerived(torrents) /\ AllDerived(files)
<1>1. /\ DoneIsDerived /\ MigrationTypeOK /\ TablesNumbered /\ PageSwept
      /\ torrents \subseteq TorrentRow /\ rekey.table \in {"torrents", "files"}
      /\ rekey.cursor \in Nat
  BY DEF MigrationInv, MigrationTypeOK
<1>2. ASSUME Derived PROVE Derived'
  <2>1. CASE RekeyPage \/ RetirePage
    <3>1. \/ UNCHANGED files /\ PageResult(torrents, torrents')
          \/ UNCHANGED torrents /\ PageResult(files, files')
      BY <1>1, <2>1, PageOfTable
    <3> QED
      BY <1>2, <3>1 DEF PageResult
  <2>2. CASE ProcessRow
    BY <1>1, <1>2, <2>2, BodyOfRow DEF AllDerived
  <2>3. ASSUME NEW h \in Hash, ServicesAdd(h) PROVE Derived'
    <3>1. /\ \A s \in torrents' : s \in torrents \/ (s.id = RowId[h] /\ s.hash = h)
          /\ \A s \in files' : s \in files \/ (s.id = RowId[h] /\ s.hash = h)
      BY <1>1, <2>3, AddOfServices
    <3> QED
      BY <1>2, <3>1 DEF AllDerived
  <2>4. CASE UNCHANGED <<torrents, files, had, dropped>>
    BY <1>2, <2>4
  <2> QED
    BY <2>1, <2>2, <2>3, <2>4, WhoWritesRows DEF Footprint
<1>3. ASSUME "derive" \in mem'.completed \cup stateFile'.completed \/ ~stateFile'.exists
      PROVE  Derived \/ Derived'
  <2> DEFINE Done(m, f) == "derive" \in m.completed \cup f.completed \/ ~f.exists
  <2>1. Done(mem, stateFile) => Derived
    BY <1>1 DEF DoneIsDerived
  <2>2. CASE Start
    <3>1. stateFile.exists => mem' = Loaded /\ stateFile' = stateFile
      BY <2>2 DEF Start
    <3>2. stateFile.exists => Done(mem, stateFile)
      BY <1>3, <3>1 DEF Loaded
    <3> QED
      BY <2>1, <3>2
  <2>3. CASE CleanupFeedStorage \/ UpdateWalkInterval
    <3>1. \E m \in {"cleanup", "interval"} : MarkCompleted(m)
      BY <2>3 DEF CleanupFeedStorage, UpdateWalkInterval
    <3> QED
      BY <1>3, <2>1, <3>1 DEF MarkCompleted, Saved
  <2>4. CASE RekeyTableDone
    <3>1. CASE rekey.table = "torrents"
      BY <1>3, <2>1, <2>4, <3>1 DEF RekeyTableDone
    <3>2. CASE rekey.table = "files"
      <4>1. /\ phase = "sync" /\ ~rekey.rewritten /\ Table = files
            /\ PageAfter(files, rekey.cursor) = {}
        BY <2>4, <3>2 DEF RekeyTableDone, Running, Table
      <4>2. Swept(files, {}, rekey.cursor) /\ AllDerived(torrents)
        BY <1>1, <3>2, <4>1 DEF PageSwept
      <4>3. AllDerived(files)
        BY <1>1, <4>1, <4>2, PageOver DEF TablesNumbered
      <4> QED
        BY <4>2, <4>3
    <3> QED
      BY <1>1, <3>1, <3>2
  <2>5. CASE NextMigration
    <3>1. stateFile' = stateFile /\ mem'.completed = mem.completed
      <4>1. mem' = mem \/ \E p : mem' = [mem EXCEPT !.inProgress = p]
        BY <2>5 DEF NextMigration
      <4>2. mem \in [completed : SUBSET Migrations, inProgress : MigrationState]
        BY <1>1 DEF MigrationTypeOK
      <4> QED
        BY <2>5, <4>1, <4>2 DEF NextMigration
    <3> QED
      BY <1>3, <2>1, <3>1
  <2>6. CASE ProcessRow \/ \E b \in BOOLEAN : CountItems(b)
    <3>1. stateFile' = stateFile /\ mem'.completed = mem.completed
      <4>1. \E p : mem' = [mem EXCEPT !.inProgress = p]
        BY <2>6 DEF ProcessRow, CountItems
      <4>2. mem \in [completed : SUBSET Migrations, inProgress : MigrationState]
        BY <1>1 DEF MigrationTypeOK
      <4> QED
        BY <2>6, <4>1, <4>2 DEF ProcessRow, CountItems
    <3> QED
      BY <1>3, <2>1, <3>1
  <2>7. CASE BodyDone
    <3>1. CASE UNCHANGED <<mem, stateFile>>
      BY <1>3, <2>1, <3>1
    <3>2. CASE MarkCompleted(async.id)
      <4>1. async.id # "derive"
        <5>1. async.id \in {"none"} \cup Range(AsyncMigrations)
          BY <1>1 DEF MigrationTypeOK
        <5> QED
          BY <5>1, MigrationNames
      <4> QED
        BY <1>3, <2>1, <3>2, <4>1 DEF MarkCompleted, Saved
    <3> QED
      BY <2>7, <3>1, <3>2 DEF BodyDone
  <2>8. CASE SaveState \/ RequestStop \/ Quit
    <3>1. stateFile' = Saved(mem) /\ mem' = mem
      BY <2>8 DEF SaveState, RequestStop, Quit
    <3> QED
      BY <1>3, <2>1, <3>1 DEF Saved
  <2>9. ASSUME NEW b \in BOOLEAN, Crash(b) PROVE Derived
    <3>1. mem' = mem /\ stateFile' \in {stateFile, [stateFile EXCEPT !.readable = FALSE]}
      BY <2>9 DEF Crash
    <3>2. stateFile \in StateFile
      BY <1>1 DEF MigrationTypeOK
    <3>3. stateFile'.completed = stateFile.completed /\ stateFile'.exists = stateFile.exists
      BY <3>1, <3>2 DEF StateFile
    <3> QED
      BY <1>3, <2>1, <3>1, <3>3
  <2>10. CASE UNCHANGED <<mem, stateFile>>
    BY <1>3, <2>1, <2>10
  <2>11. ASSUME NEW b \in BOOLEAN, QueryBatch(b) PROVE UNCHANGED <<mem, stateFile>>
    BY <2>11 DEF QueryBatch
  <2>12. ASSUME NEW h \in Hash, ServicesAdd(h) PROVE UNCHANGED <<mem, stateFile>>
    BY <2>12 DEF ServicesAdd
  <2>13. ASSUME \/ SyncDone \/ RekeyFails \/ RekeyPage \/ RetirePage \/ StartAsync \/ BatchDone
                \/ UNCHANGED migrationVars
         PROVE  UNCHANGED <<mem, stateFile>>
    BY <2>13 DEF SyncDone, RekeyFails, SyncFails, RekeyPage, RetirePage, StartAsync, BatchDone,
                 migrationVars
  <2> QED
    BY <2>2, <2>3, <2>4, <2>5, <2>6, <2>7, <2>8, <2>9, <2>10, <2>11, <2>12, <2>13
       DEF MigrationNext
<1> QED
  BY <1>2, <1>3 DEF DoneIsDerived

LEMMA HadStays ==
  ASSUME MigrationAssumption, MigrationInv, [MigrationNext]_migrationVars
  PROVE  HadIsKept'
<1>1. /\ HadIsKept /\ MigrationTypeOK /\ TablesNumbered /\ PageSwept
      /\ torrents \subseteq TorrentRow
  BY DEF MigrationInv, MigrationTypeOK
<1>2. had' = had /\ dropped \subseteq dropped'
  <2>1. CASE RekeyPage \/ RetirePage
    BY <1>1, <2>1, PageOfTable
  <2>2. CASE ProcessRow
    <3>1. had' = had
      BY <2>2 DEF ProcessRow, Bounds
    <3> QED
      BY <1>1, <2>2, <3>1, BodyOfRow
  <2>3. ASSUME NEW h \in Hash, ServicesAdd(h) PROVE had' = had /\ dropped \subseteq dropped'
    BY <2>3 DEF ServicesAdd
  <2> QED
    BY <2>1, <2>2, <2>3, WhoWritesRows DEF Footprint
<1>3. ASSUME NEW h \in Kept, NEW r \in torrents, r.hash = h
      PROVE  h \in dropped' \/ \E s \in torrents' : s.hash = h
  <2>1. CASE RekeyPage \/ RetirePage
    <3>1. torrents' = torrents \/ PageResult(torrents, torrents')
      BY <1>1, <2>1, PageOfTable
    <3>2. Sole(torrents, h)
      BY <1>1, KeptIsSole
    <3> QED
      BY <1>3, <3>1, <3>2 DEF PageResult
  <2>2. CASE ProcessRow
    BY <1>1, <1>3, <2>2, BodyOfRow
  <2>3. ASSUME NEW g \in Hash, ServicesAdd(g) PROVE r \in torrents'
    BY <2>3 DEF ServicesAdd
  <2>4. CASE UNCHANGED <<torrents, files, had, dropped>>
    BY <1>3, <2>4
  <2> QED
    BY <1>3, <2>1, <2>2, <2>3, <2>4, WhoWritesRows DEF Footprint
<1> SUFFICES ASSUME NEW h \in had' \cap Kept
             PROVE  h \in dropped' \/ \E r \in torrents' : r.hash = h
  BY DEF HadIsKept, Kept, Contended
<1>4. h \in dropped \/ \E r \in torrents : r.hash = h
  BY <1>1, <1>2 DEF HadIsKept
<1> QED
  BY <1>2, <1>3, <1>4

LEMMA SweptStays ==
  ASSUME MigrationAssumption, MigrationInv, [MigrationNext]_migrationVars
  PROVE  PageSwept'
<1>1. /\ PageSwept /\ MigrationTypeOK /\ TablesNumbered /\ WorkerBeside
      /\ rekey.table \in {"torrents", "files"} /\ rekey.cursor \in Nat
      /\ rekey \in [table : {"torrents", "files"}, cursor : Nat, doomed : SUBSET Nat,
                    rewritten : BOOLEAN]
      /\ TablesNumbered'
  BY TablesStay DEF MigrationInv, MigrationTypeOK
<1>2. \A rows : Numbered(rows) => Swept(rows, {}, 0) /\ Retirable(rows, {})
  <2>1. ASSUME NEW rows, Numbered(rows), NEW r \in rows PROVE ~(r.id <= 0)
    <3>1. r.id \in Nat \ {0}
      BY <2>1, NumberedRow
    <3> QED
      BY <3>1
  <2> QED
    BY <2>1 DEF Swept, Retirable
<1>3. CASE Start
  <2>1. rekey' = NoPage /\ Table' = torrents'
    BY <1>3 DEF Start, Table, NoPage
  <2>2. Numbered(torrents')
    BY <1>1 DEF TablesNumbered
  <2> QED
    BY <1>2, <2>1, <2>2 DEF PageSwept, NoPage
<1>4. CASE phase' # "sync"
  BY <1>4 DEF PageSwept
<1>5. CASE phase = "sync" /\ UNCHANGED <<rekey, torrents, files>>
  BY <1>1, <1>5 DEF PageSwept, Table
<1>6. CASE RekeyPage \/ RetirePage
  <2>1. /\ phase = "sync" /\ rekey'.table = rekey.table
        /\ \/ /\ rekey.table = "torrents" /\ UNCHANGED files
              /\ PageResult(torrents, torrents') /\ PageDoomed(torrents')
           \/ /\ rekey.table = "files" /\ UNCHANGED torrents
              /\ PageResult(files, files') /\ PageDoomed(files')
    BY <1>1, <1>6, PageOfTable
  <2> QED
    BY <1>1, <2>1 DEF PageSwept, Table, PageDoomed
<1>7. CASE RekeyTableDone
  <2>1. /\ phase = "sync" /\ ~rekey.rewritten /\ PageAfter(Table, rekey.cursor) = {}
        /\ UNCHANGED <<torrents, files>>
    BY <1>7 DEF RekeyTableDone, Running, Data
  <2>2. Numbered(torrents) /\ Numbered(files)
    BY <1>1 DEF TablesNumbered
  <2>3. CASE rekey.table = "torrents"
    <3>1. rekey' = [NoPage EXCEPT !.table = "files"] /\ Table' = files'
      BY <1>7, <2>3 DEF RekeyTableDone, Table, NoPage
    <3>2. Table = torrents
      BY <2>3 DEF Table
    <3>3. Swept(torrents, {}, rekey.cursor)
      BY <1>1, <2>1, <3>2 DEF PageSwept
    <3>4. AllDerived(torrents)
      BY <1>1, <2>1, <2>2, <3>2, <3>3, PageOver
    <3> QED
      BY <1>2, <2>1, <2>2, <3>1, <3>4 DEF PageSwept, NoPage
  <2>4. CASE rekey.table = "files"
    <3>1. rekey' = NoPage /\ Table' = torrents'
      BY <1>7, <2>4 DEF RekeyTableDone, Table, NoPage
    <3> QED
      BY <1>2, <2>1, <2>2, <3>1 DEF PageSwept, NoPage
  <2> QED
    BY <1>1, <2>3, <2>4
<1>8. ASSUME CleanupFeedStorage \/ UpdateWalkInterval \/ SyncDone \/ RekeyFails
      PROVE  phase' # "sync" \/ (phase = "sync" /\ UNCHANGED <<rekey, torrents, files>>)
  BY <1>8 DEF CleanupFeedStorage, UpdateWalkInterval, SyncDone, RekeyFails, SyncFails, Running,
              Tables
<1>9. ASSUME \/ StartAsync \/ NextMigration \/ ProcessRow \/ BatchDone \/ BodyDone
             \/ SaveState \/ RequestStop \/ Quit
      PROVE  phase' # "sync"
  <2>1. CASE StartAsync \/ RequestStop \/ Quit
    BY <2>1 DEF StartAsync, RequestStop, Quit
  <2>2. CASE NextMigration \/ ProcessRow \/ BatchDone \/ BodyDone \/ SaveState
    <3>1. async.at \notin {"idle", "ended"} /\ phase' = phase
      BY <2>2 DEF NextMigration, ProcessRow, BatchDone, BodyDone, SaveState
    <3> QED
      BY <1>1, <3>1 DEF WorkerBeside
  <2> QED
    BY <1>9, <2>1, <2>2
<1>10. ASSUME NEW b \in BOOLEAN, CountItems(b) \/ QueryBatch(b) \/ Crash(b)
       PROVE  phase' # "sync"
  <2>1. CASE CountItems(b) \/ QueryBatch(b)
    <3>1. async.at \notin {"idle", "ended"} /\ phase' = phase
      BY <2>1 DEF CountItems, QueryBatch
    <3> QED
      BY <1>1, <3>1 DEF WorkerBeside
  <2>2. CASE Crash(b)
    BY <2>2 DEF Crash
  <2> QED
    BY <1>10, <2>1, <2>2
<1>11. ASSUME NEW h \in Hash, ServicesAdd(h)
       PROVE  phase' # "sync"
  BY <1>11 DEF ServicesAdd
<1>12. ASSUME UNCHANGED migrationVars
       PROVE  phase' # "sync" \/ (phase = "sync" /\ UNCHANGED <<rekey, torrents, files>>)
  BY <1>12 DEF migrationVars
<1> QED
  BY <1>3, <1>4, <1>5, <1>6, <1>7, <1>8, <1>9, <1>10, <1>11, <1>12 DEF MigrationNext

LEMMA WorkerStays ==
  ASSUME MigrationAssumption, MigrationInv, [MigrationNext]_migrationVars
  PROVE  WorkerBeside'
<1> DEFINE Busy == {"counting", "batch", "rows", "done"}
           Workers == [at : {"idle", "next", "counting", "batch", "rows", "done", "ended"},
                       id : {"none"} \cup Range(AsyncMigrations), lastId : Nat,
                       batch : SUBSET TorrentRow, last : BOOLEAN]
<1>1. /\ WorkerBeside /\ async \in Workers /\ mem \in MemType /\ faults \in Nat
      /\ mem.inProgress \in MigrationState
  BY DEF MigrationInv, MigrationTypeOK, MemType
<1> HIDE DEF Workers
<1>2. CASE Start \/ CleanupFeedStorage \/ UpdateWalkInterval
  <2>1. CASE Start
    BY <2>1 DEF Start, WorkerBeside, IdleWorker
  <2>2. CASE CleanupFeedStorage \/ UpdateWalkInterval
    <3>1. phase = "sync" /\ phase' = phase /\ async' = async
      BY <2>2 DEF CleanupFeedStorage, UpdateWalkInterval, Running
    <3> QED
      BY <1>1, <3>1 DEF WorkerBeside
  <2> QED
    BY <1>2, <2>1, <2>2
<1>3. CASE SyncDone \/ RekeyFails
  <2>1. phase = "sync" /\ async' = async /\ mem' = mem
    BY <1>3 DEF SyncDone, RekeyFails, SyncFails, Running
  <2>2. phase' = "services" /\ (faults' = 0 => "derive" \in mem.completed)
    BY <1>1, <1>3, NextOne DEF SyncDone, RekeyFails, SyncFails, Fault
  <2> QED
    BY <1>1, <2>1, <2>2 DEF WorkerBeside
<1>4. CASE RekeyPage \/ RetirePage \/ RekeyTableDone
  <2>1. phase = "sync" /\ phase' = phase /\ async' = async
    BY <1>4 DEF RekeyPage, RetirePage, RekeyTableDone, Running
  <2> QED
    BY <1>1, <2>1 DEF WorkerBeside
<1>5. CASE StartAsync
  <2>1. async'.at = "next" /\ phase' = "services" /\ phase = "services" /\ mem' = mem /\ faults' = faults
    BY <1>5 DEF StartAsync, IdleWorker, Bounds
  <2> QED
    BY <1>1, <2>1 DEF WorkerBeside
<1>6. CASE NextMigration
  <2>1. /\ async.at = "next" /\ phase' = phase /\ faults' = faults /\ phase = "services"
    BY <1>1, <1>6 DEF NextMigration, WorkerBeside, Bounds
  <2>2. CASE async' = [IdleWorker EXCEPT !.at = "ended"] /\ UNCHANGED mem
    <3>1. async'.at = "ended"
      BY <2>2 DEF IdleWorker
    <3> QED
      BY <1>1, <2>1, <2>2, <3>1 DEF WorkerBeside
  <2>3. ASSUME NEW m \in Range(AsyncMigrations), IsNext(AsyncMigrations, m),
               mem' = IF mem.inProgress.id = m THEN mem
                      ELSE [mem EXCEPT !.inProgress = [NoMigration EXCEPT !.id = m]],
               async' = [IdleWorker EXCEPT !.at = "counting", !.id = m,
                                           !.lastId = mem'.inProgress.lastId]
        PROVE  WorkerBeside'
    <3>1. async'.at = "counting" /\ async'.id = m /\ async'.lastId = mem'.inProgress.lastId
      BY <2>3 DEF IdleWorker
    <3>2. mem'.inProgress.id = m /\ mem'.completed = mem.completed
      BY <1>1, <2>3 DEF NoMigration, MemType
    <3>3. m # "none"
      BY MigrationNames
    <3>4. m = "removeUnknown" => "recategorize" \in mem.completed
      BY <2>3, NextOne
    <3> QED
      BY <1>1, <2>1, <3>1, <3>2, <3>3, <3>4 DEF WorkerBeside
  <2> QED
    BY <1>6, <2>2, <2>3 DEF NextMigration
<1>7. ASSUME NEW b \in BOOLEAN, CountItems(b)
      PROVE  WorkerBeside'
  <2>1. /\ async.at = "counting" /\ phase' = phase /\ phase = "services"
        /\ \E p : mem' = [mem EXCEPT !.inProgress.counted = p]
        /\ \E stage \in Busy : async' = [async EXCEPT !.at = stage]
        /\ faults' = 0 => faults = 0
    <3>1. faults' = 0 => faults = 0
      BY <1>1, <1>7 DEF CountItems, Fault
    <3> QED
      BY <1>1, <1>7, <3>1 DEF CountItems, WorkerBeside
  <2>2. /\ async'.id = async.id /\ async'.lastId = async.lastId
        /\ mem'.inProgress.id = mem.inProgress.id /\ mem'.inProgress.lastId = mem.inProgress.lastId
        /\ mem'.completed = mem.completed
    BY <1>1, <2>1 DEF Workers, MemType, MigrationState
  <2> QED
    BY <1>1, <2>1, <2>2 DEF WorkerBeside
<1>8. ASSUME NEW b \in BOOLEAN, QueryBatch(b)
      PROVE  WorkerBeside'
  <2>1. /\ async.at = "batch" /\ phase' = phase /\ phase = "services" /\ mem' = mem
        /\ \/ async' = [async EXCEPT !.at = "done"]
           \/ \E p, q : async' = [async EXCEPT !.at = "rows", !.batch = p, !.last = q]
        /\ faults' = 0 => faults = 0
    <3>1. faults' = 0 => faults = 0
      BY <1>1, <1>8 DEF QueryBatch, Fault
    <3> QED
      BY <1>1, <1>8, <3>1 DEF QueryBatch, WorkerBeside
  <2>2. async'.id = async.id /\ async'.lastId = async.lastId
    BY <1>1, <2>1 DEF Workers
  <2> QED
    BY <1>1, <2>1, <2>2 DEF WorkerBeside
<1>9. CASE ProcessRow
  <2>1. PICK r \in async.batch :
           /\ async' = [async EXCEPT !.lastId = r.id, !.batch = @ \ {r}]
           /\ mem' = [mem EXCEPT !.inProgress.lastId = r.id]
    BY <1>9 DEF ProcessRow
  <2>2. /\ async'.at = async.at /\ async'.id = async.id /\ async'.lastId = r.id
        /\ mem'.inProgress.id = mem.inProgress.id /\ mem'.inProgress.lastId = r.id
        /\ mem'.completed = mem.completed
    BY <1>1, <2>1 DEF Workers, MemType, MigrationState
  <2>3. phase' = phase /\ faults' = faults
    BY <1>9 DEF ProcessRow, Bounds
  <2> QED
    BY <1>1, <2>2, <2>3 DEF WorkerBeside
<1>10. CASE BatchDone
  <2>1. /\ async.at = "rows" /\ phase' = phase /\ mem' = mem /\ faults' = faults
        /\ \E stage \in Busy : async' = [async EXCEPT !.at = stage, !.batch = {}]
    BY <1>10 DEF BatchDone, Bounds
  <2>2. async'.id = async.id /\ async'.lastId = async.lastId
    BY <1>1, <2>1 DEF Workers
  <2>3. phase = "services"
    BY <1>1, <2>1 DEF WorkerBeside
  <2> QED
    BY <1>1, <2>1, <2>2, <2>3 DEF WorkerBeside
<1>11. CASE BodyDone
  <2>1. /\ async.at = "done" /\ phase' = phase /\ faults' = faults /\ async'.at = "next"
        /\ mem.completed \subseteq mem'.completed
    BY <1>11 DEF BodyDone, Bounds, IdleWorker, MarkCompleted
  <2> QED
    BY <1>1, <2>1 DEF WorkerBeside
<1>12. CASE SaveState \/ RequestStop \/ UNCHANGED migrationVars
  BY <1>1, <1>12 DEF SaveState, RequestStop, Bounds, WorkerBeside, migrationVars
<1>13. CASE Quit
  BY <1>1, <1>13 DEF Quit, WorkerBeside
<1>14. ASSUME NEW b \in BOOLEAN, Crash(b)
       PROVE  WorkerBeside'
  BY <1>14 DEF Crash, WorkerBeside, IdleWorker
<1>15. ASSUME NEW h \in Hash, ServicesAdd(h)
       PROVE  WorkerBeside'
  BY <1>1, <1>15 DEF ServicesAdd, WorkerBeside
<1> QED
  BY <1>2, <1>3, <1>4, <1>5, <1>6, <1>7, <1>8, <1>9, <1>10, <1>11, <1>12, <1>13, <1>14, <1>15
     DEF MigrationNext

\* The failures that are counted only grow.
LEMMA FaultsGrow ==
  ASSUME MigrationInv, [MigrationNext]_migrationVars, faults' = 0
  PROVE  faults = 0
<1>1. faults \in Nat
  BY DEF MigrationInv, MigrationTypeOK
<1>2. CASE faults' = faults
  BY <1>2
<1>3. CASE Fault
  BY <1>1, <1>3 DEF Fault
<1>4. ASSUME \/ Start \/ SyncDone \/ CleanupFeedStorage \/ UpdateWalkInterval \/ RekeyPage
             \/ RetirePage \/ RekeyTableDone
      PROVE  faults' = faults
  BY <1>4 DEF Start, SyncDone, CleanupFeedStorage, UpdateWalkInterval, RekeyPage, RetirePage,
              RekeyTableDone, Bounds
<1>5. ASSUME \/ StartAsync \/ NextMigration \/ ProcessRow \/ BatchDone \/ BodyDone
             \/ SaveState \/ RequestStop \/ Quit \/ UNCHANGED migrationVars
      PROVE  faults' = faults
  BY <1>5 DEF StartAsync, NextMigration, ProcessRow, BatchDone, BodyDone, SaveState,
              RequestStop, Quit, Bounds, migrationVars
<1>6. ASSUME NEW b \in BOOLEAN, CountItems(b) \/ QueryBatch(b) \/ Crash(b)
      PROVE  faults' = faults \/ Fault
  BY <1>6 DEF CountItems, QueryBatch, Crash
<1>7. ASSUME NEW h \in Hash, ServicesAdd(h) PROVE faults' = faults
  BY <1>7 DEF ServicesAdd
<1>8. RekeyFails => Fault
  BY DEF RekeyFails
<1> QED
  BY <1>2, <1>3, <1>4, <1>5, <1>6, <1>7, <1>8 DEF MigrationNext

\* Beside the services the tables are derived, and the worker knows what is passed.
LEMMA ServicesDerived ==
  ASSUME MigrationInv, faults = 0
  PROVE  /\ phase = "services" => AllDerived(torrents) /\ AllDerived(files)
         /\ async.at \notin {"idle", "ended"} => phase = "services"
         /\ async.at \in {"counting", "batch", "rows", "done"} =>
               async.id = "recategorize" \/ (async.id = "removeUnknown" /\ Missed(torrents) = {})
<1>1. /\ WorkerBeside /\ DoneIsDerived /\ MissedAhead
      /\ async.id \in {"none", "recategorize", "removeUnknown"}
  BY MigrationNames DEF MigrationInv, MigrationTypeOK
<1>2. phase = "services" => AllDerived(torrents) /\ AllDerived(files)
  BY <1>1 DEF WorkerBeside, DoneIsDerived
<1>3. async.at \notin {"idle", "ended"} => phase = "services"
  BY <1>1 DEF WorkerBeside
<1>4. ASSUME async.at \in {"counting", "batch", "rows", "done"}
      PROVE  async.id = "recategorize" \/ (async.id = "removeUnknown" /\ Missed(torrents) = {})
  BY <1>1, <1>4 DEF WorkerBeside, MissedAhead, Passed
<1> QED
  BY <1>2, <1>3, <1>4

LEMMA MissedRow ==
  ASSUME NEW rows, NEW r
  PROVE  r \in Missed(rows) <=> r \in rows /\ r.type = "unknown" /\ BestType[r.hash] # "unknown"
BY DEF Missed

\* What can be recognised was there before, and keeps its files.
LEMMA MissedShrinks ==
  ASSUME MigrationAssumption, MigrationInv, [MigrationNext]_migrationVars, faults = 0
  PROVE  \A s \in Missed(torrents') :
            /\ \E r \in Missed(torrents) : s.hash = r.hash
            /\ Sole(files', s.hash) /\ \E f \in files' : f.hash = s.hash
<1>1. /\ MissedAhead /\ MigrationTypeOK /\ TablesNumbered /\ PageSwept
      /\ torrents \subseteq TorrentRow /\ files \subseteq FileRow
      /\ \A r \in Missed(torrents) : Sole(files, r.hash) /\ \E f \in files : f.hash = r.hash
  BY DEF MigrationInv, MigrationTypeOK, MissedAhead
<1> SUFFICES ASSUME NEW s \in Missed(torrents')
             PROVE  /\ \E r \in Missed(torrents) : s.hash = r.hash
                    /\ Sole(files', s.hash) /\ \E f \in files' : f.hash = s.hash
  OBVIOUS
<1>2. s \in torrents' /\ s.type = "unknown" /\ BestType[s.hash] # "unknown"
  BY MissedRow
<1>3. CASE RekeyPage \/ RetirePage
  <2>1. \/ UNCHANGED files /\ PageResult(torrents, torrents')
        \/ UNCHANGED torrents /\ PageResult(files, files')
    BY <1>1, <1>3, PageOfTable
  <2>2. \E r \in Missed(torrents) : s.hash = r.hash
    BY <1>1, <1>2, <2>1, MissedRow DEF PageResult
  <2>3. Sole(files, s.hash) /\ \E f \in files : f.hash = s.hash
    BY <1>1, <2>2
  <2>4. CASE files' = files
    BY <2>2, <2>3, <2>4
  <2>5. CASE PageResult(files, files')
    <3>1. Sole(files', s.hash)
      BY <2>3, <2>5 DEF PageResult, Sole
    <3>2. \E f \in files' : f.hash = s.hash
      BY <2>3, <2>5 DEF PageResult
    <3> QED
      BY <2>2, <3>1, <3>2
  <2> QED
    BY <2>1, <2>4, <2>5
<1>4. CASE ProcessRow
  <2>1. PICK t \in torrents :
           s.id = t.id /\ s.hash = t.hash /\ s.type \in {t.type, BestType[t.hash]}
    BY <1>1, <1>2, <1>4, BodyOfRow
  <2>2. t \in Missed(torrents)
    BY <1>2, <2>1, MissedRow
  <2>3. async.at = "rows"
    BY <1>4 DEF ProcessRow
  <2>4. async.id = "recategorize"
    BY <2>2, <2>3, ServicesDerived
  <2>5. files' = files
    BY <1>4, <2>4 DEF ProcessRow, Recategorize
  <2> QED
    BY <1>1, <2>1, <2>2, <2>5
<1>5. ASSUME NEW h \in Hash, ServicesAdd(h)
      PROVE  /\ \E r \in Missed(torrents) : s.hash = r.hash
             /\ Sole(files', s.hash) /\ \E f \in files' : f.hash = s.hash
  <2>1. /\ s \in torrents \/ (s.type = BestType[h] /\ s.hash = h)
        /\ RowId[h] \notin Ids(torrents)
        /\ \A g \in files' : (g \in files /\ g.id # RowId[h]) \/ (g.id = RowId[h] /\ g.hash = h)
        /\ \A f \in files : f \in files' \/ f.id = RowId[h]
    BY <1>1, <1>2, <1>5, AddOfServices
  <2>2. s \in Missed(torrents)
    BY <1>2, <2>1, MissedRow
  <2>3. AllDerived(torrents) /\ AllDerived(files)
    BY <1>5, ServicesDerived DEF ServicesAdd
  <2>4. RowId[s.hash] # RowId[h]
    BY <2>1, <2>2, <2>3, MissedRow DEF AllDerived, Ids
  <2>5. Sole(files, s.hash) /\ \E f \in files : f.hash = s.hash
    BY <1>1, <2>2
  <2>6. Sole(files', s.hash)
    BY <2>1, <2>4, <2>5 DEF Sole
  <2>7. \E f \in files' : f.hash = s.hash
    BY <2>1, <2>3, <2>4, <2>5 DEF AllDerived
  <2> QED
    BY <2>2, <2>6, <2>7
<1>6. CASE UNCHANGED <<torrents, files, had, dropped>>
  BY <1>1, <1>6
<1> QED
  BY <1>3, <1>4, <1>5, <1>6, WhoWritesRows DEF Footprint

\* What is passed stays so as long as what is missed only shrinks.
LEMMA PassedKept ==
  ASSUME NEW rows, NEW now, \A s \in Missed(now) : \E r \in Missed(rows) : s.hash = r.hash,
         NEW m, Passed(rows, m)
  PROVE  Passed(now, m)
BY DEF Passed

\* In the batch under way: beside the services a row of the table is the same one.
LEMMA MissedSame ==
  ASSUME MigrationAssumption, MigrationInv, [MigrationNext]_migrationVars, faults' = 0,
         async.at \in {"rows", "done"}, async' = async \/ ProcessRow
  PROVE  /\ phase = "services" /\ Missed(torrents') \subseteq Missed(torrents)
         /\ ProcessRow \/ torrents \subseteq torrents'
<1>1. faults = 0
  BY FaultsGrow
<1>2. phase = "services" /\ AllDerived(torrents)
  BY <1>1, ServicesDerived
<1>3. ~RekeyPage /\ ~RetirePage
  BY <1>2 DEF RekeyPage, RetirePage, Running
<1>4. AllDerived(torrents') /\ torrents \subseteq TorrentRow /\ torrents' \subseteq TorrentRow
      /\ MigrationTypeOK /\ TablesNumbered
  <2>1. torrents \subseteq TorrentRow /\ MigrationTypeOK /\ TablesNumbered
    BY DEF MigrationInv, MigrationTypeOK
  <2>2. CASE ProcessRow
    BY <1>2, <2>1, <2>2, BodyOfRow, TablesStay DEF AllDerived
  <2>3. ASSUME NEW h \in Hash, ServicesAdd(h) PROVE AllDerived(torrents')
    BY <1>2, <2>1, <2>3, AddOfServices DEF AllDerived
  <2>4. CASE UNCHANGED <<torrents, files, had, dropped>>
    BY <1>2, <2>1, <2>4
  <2> QED
    BY <1>3, <2>1, <2>2, <2>3, <2>4, WhoWritesRows, TablesStay DEF Footprint
<1>5. ASSUME NEW s \in Missed(torrents') PROVE s \in Missed(torrents)
  <2>1. PICK r \in Missed(torrents) : s.hash = r.hash
    BY <1>1, MissedShrinks
  <2>2. /\ s \in TorrentRow /\ r \in TorrentRow /\ s.type = r.type
        /\ s.id = RowId[s.hash] /\ r.id = RowId[r.hash]
    BY <1>2, <1>4, MissedRow DEF AllDerived
  <2>3. s = r
    BY <2>1, <2>2 DEF TorrentRow
  <2> QED
    BY <2>3
<1>6. ProcessRow \/ torrents \subseteq torrents'
  BY <1>3, WhoWritesRows DEF Footprint, ServicesAdd
<1> QED
  BY <1>2, <1>5, <1>6

\* The body of a row of the recategorisation: no other row changes, and a row that
\* can be recognised is not left as it was.
LEMMA RecategorizedRow ==
  ASSUME MigrationAssumption, MigrationInv, faults = 0, async.at = "rows",
         async.id = "recategorize", NEW r \in async.batch, Recategorize(r)
  PROVE  /\ r \in torrents /\ r.id = RowId[r.hash]
         /\ \A t \in torrents : t # r => t \in torrents'
         /\ r \in Missed(torrents) => r \notin Missed(torrents')
<1>1. /\ torrents \subseteq TorrentRow /\ Numbered(torrents) /\ async.batch \subseteq torrents
      /\ AllDerived(torrents) /\ AllDerived(files)
      /\ \A m \in Missed(torrents) : \E f \in files : f.hash = m.hash
  BY ServicesDerived DEF MigrationInv, MigrationTypeOK, TablesNumbered, BatchAhead, MissedAhead
<1> DEFINE new == IF HasFiles(r.hash) THEN BestType[r.hash] ELSE r.type
<1>2. r \in torrents /\ r.id = RowId[r.hash] /\ r.type \in Type
  BY <1>1 DEF AllDerived, TorrentRow
<1>3. \/ new = r.type /\ torrents' = torrents
      \/ new # r.type /\ torrents' = WithType(torrents, RowId[r.hash], r.hash, new)
  BY DEF Recategorize, WithType
<1>4. r \in Missed(torrents) => new # "unknown"
  <2>1. ASSUME r \in Missed(torrents) PROVE HasFiles(r.hash)
    BY <1>1, <2>1 DEF HasFiles, AllDerived
  <2> QED
    BY <2>1, MissedRow
<1>5. \A t \in torrents : t # r => t.id # r.id
  BY <1>1, <1>2 DEF Numbered, Keyed
<1>6. CASE torrents' = torrents /\ new = r.type
  BY <1>2, <1>4, <1>6, MissedRow
<1>7. CASE new # r.type /\ torrents' = WithType(torrents, RowId[r.hash], r.hash, new)
  <2>1. new \in Type
    <3>1. new = BestType[r.hash] /\ r.hash \in Hash
      BY <1>1, <1>2, <1>7 DEF TorrentRow
    <3> QED
      BY <3>1 DEF MigrationAssumption
  <2> HIDE DEF new
  <2>2. \A s \in torrents' : \E t \in torrents :
           /\ s.id = t.id /\ s.hash = t.hash
           /\ s.type = IF t.id = RowId[r.hash] /\ t.hash = r.hash THEN new ELSE t.type
    BY <1>1, <1>7, <2>1, Retyped
  <2>3. \A t \in torrents : t # r => t \in torrents'
    BY <1>2, <1>5, <1>7 DEF WithType
  <2>4. ASSUME r \in Missed(torrents), r \in Missed(torrents') PROVE FALSE
    <3>1. r \in torrents' /\ r.type = "unknown"
      BY <2>4, MissedRow
    <3>2. PICK t \in torrents :
             /\ r.id = t.id /\ r.hash = t.hash
             /\ r.type = IF t.id = RowId[r.hash] /\ t.hash = r.hash THEN new ELSE t.type
      BY <2>2, <3>1
    <3>3. r.type = new
      BY <1>2, <3>2
    <3> QED
      BY <1>4, <2>4, <3>1, <3>3
  <2> QED
    BY <1>2, <2>3, <2>4
<1> QED
  BY <1>3, <1>6, <1>7

\* The body of a row moves the record past it, and past nothing that is missed.
LEMMA BodyPasses ==
  ASSUME MigrationAssumption, MigrationInv, [MigrationNext]_migrationVars, faults' = 0, ProcessRow
  PROVE  Passed(torrents', mem') /\ \A h \in dropped' : BestType[h] = "unknown"
<1>1. /\ faults = 0 /\ async.at = "rows"
      /\ MissedAhead /\ BatchAhead /\ WorkerBeside /\ Numbered(torrents)
      /\ mem \in MemType
  BY FaultsGrow DEF ProcessRow, MigrationInv, MigrationTypeOK, TablesNumbered, MemType
<1>2. PICK r \in async.batch :
         /\ \A s \in async.batch : r.id <= s.id
         /\ IF async.id = "recategorize" THEN Recategorize(r) ELSE RemoveUnknown(r)
         /\ mem' = [mem EXCEPT !.inProgress.lastId = r.id]
  BY DEF ProcessRow
<1>3. /\ mem'.completed = mem.completed /\ mem'.inProgress.id = mem.inProgress.id
      /\ mem'.inProgress.lastId = r.id
  BY <1>1, <1>2 DEF MemType, MigrationState
<1>4. Missed(torrents') \subseteq Missed(torrents)
  BY <1>1, MissedSame
<1>5. async.id = mem.inProgress.id /\ Passed(torrents, mem)
  BY <1>1 DEF WorkerBeside, MissedAhead
<1>6. CASE async.id = "recategorize"
  <2>1. ASSUME NEW s \in Missed(torrents') PROVE RowId[s.hash] > r.id
    <3>1. /\ r \in torrents /\ r.id = RowId[r.hash]
          /\ r \in Missed(torrents) => r \notin Missed(torrents')
      BY <1>1, <1>2, <1>6, RecategorizedRow
    <3>2. s \in Missed(torrents) /\ s # r /\ s \in torrents
      BY <1>4, <2>1, <3>1, MissedRow
    <3>3. s.id = RowId[s.hash] /\ s.id # r.id /\ s.id \in Nat /\ r.id \in Nat
      <4>1. AllDerived(torrents)
        BY <1>1, ServicesDerived
      <4> QED
        BY <1>1, <3>1, <3>2, <4>1, NumberedRow DEF AllDerived, Numbered, Keyed
    <3>4. s \in async.batch \/ \A b \in async.batch : b.id < s.id
      BY <1>1, <1>6, <3>2 DEF BatchAhead
    <3>5. r.id <= s.id
      BY <1>2, <3>3, <3>4
    <3> QED
      BY <3>3, <3>5
  <2>2. "recategorize" \in mem.completed => Missed(torrents') = {}
    BY <1>4, <1>5 DEF Passed
  <2>3. dropped' = dropped
    BY <1>2, <1>6 DEF Recategorize
  <2> QED
    BY <1>1, <1>3, <2>1, <2>2, <2>3 DEF Passed, MissedAhead
<1>7. CASE async.id # "recategorize"
  <2>1. async.id = "removeUnknown" /\ Missed(torrents') = {}
    BY <1>1, <1>4, <1>7, ServicesDerived
  <2>2. BestType[r.hash] = "unknown"
    BY <1>1, <2>1 DEF BatchAhead
  <2>3. dropped' \subseteq dropped \cup {r.hash}
    BY <1>2, <1>7 DEF RemoveUnknown
  <2> QED
    BY <1>1, <1>3, <2>1, <2>2, <2>3 DEF Passed, MissedAhead
<1> QED
  BY <1>6, <1>7

LEMMA MissedStays ==
  ASSUME MigrationAssumption, MigrationInv, [MigrationNext]_migrationVars
  PROVE  MissedAhead'
<1> SUFFICES ASSUME faults' = 0
             PROVE  /\ Passed(torrents', mem') /\ Passed(torrents', stateFile')
                    /\ ~stateFile'.exists => Missed(torrents') = {}
                    /\ \A r \in Missed(torrents') :
                          Sole(files', r.hash) /\ \E f \in files' : f.hash = r.hash
                    /\ \A h \in dropped' : BestType[h] = "unknown"
  BY DEF MissedAhead, Missed
<1> DEFINE Good == /\ Passed(torrents', mem') /\ Passed(torrents', stateFile')
                   /\ ~stateFile'.exists => Missed(torrents') = {}
<1>1. /\ faults = 0 /\ MissedAhead /\ mem \in MemType /\ stateFile \in StateFile
      /\ stateFile.exists \in BOOLEAN
  BY FaultsGrow DEF MigrationInv, MigrationTypeOK, MemType, StateFile
<1>2. \A s \in Missed(torrents') :
         /\ \E r \in Missed(torrents) : s.hash = r.hash
         /\ Sole(files', s.hash) /\ \E f \in files' : f.hash = s.hash
  BY <1>1, MissedShrinks
<1>3. /\ Passed(torrents', mem) /\ Passed(torrents', stateFile)
      /\ ~stateFile.exists => Missed(torrents') = {}
  BY <1>1, <1>2, PassedKept DEF MissedAhead
<1>4. \A h \in dropped' : BestType[h] = "unknown"
  <2>1. dropped' = dropped \/ ProcessRow
    <3>1. RekeyPage \/ RetirePage => dropped' = dropped
      BY DEF RekeyPage, RetirePage
    <3>2. \A h \in Hash : ServicesAdd(h) => dropped' = dropped
      BY DEF ServicesAdd
    <3> QED
      BY <3>1, <3>2, WhoWritesRows DEF Footprint
  <2> QED
    BY <1>1, <2>1, BodyPasses DEF MissedAhead
<1>5. Good
  <2>1. CASE UNCHANGED <<mem, stateFile>>
    BY <1>3, <2>1
  <2>2. ASSUME NEW m, MarkCompleted(m), m = "recategorize" => Missed(torrents') = {}
        PROVE  Good
    <3>1. Passed(torrents', mem')
      <4>1. mem' = [completed |-> mem.completed \cup {m},
               inProgress |-> IF mem.inProgress.id = m THEN NoMigration ELSE mem.inProgress]
        BY <2>2 DEF MarkCompleted
      <4>2. /\ mem'.completed = mem.completed \cup {m}
            /\ mem'.inProgress \in {NoMigration, mem.inProgress}
        BY <4>1
      <4>3. NoMigration.id = "none"
        BY DEF NoMigration
      <4>4. "recategorize" \in mem'.completed => Missed(torrents') = {}
        BY <1>3, <2>2, <4>2 DEF Passed
      <4>5. mem'.inProgress.id = "recategorize" =>
               \A s \in Missed(torrents') : RowId[s.hash] > mem'.inProgress.lastId
        BY <1>3, <4>2, <4>3 DEF Passed
      <4> QED
        BY <4>4, <4>5 DEF Passed
    <3>2. stateFile' = Saved(mem')
      BY <2>2 DEF MarkCompleted
    <3> QED
      BY <3>1, <3>2 DEF Saved, Passed
  <2>3. CASE Start
    <3>1. CASE stateFile.exists
      <4>1. stateFile' = stateFile /\ mem' = Loaded
        BY <2>3, <3>1 DEF Start
      <4> QED
        BY <1>3, <3>1, <4>1 DEF Loaded, Passed, NoMigration
    <3>2. CASE ~stateFile.exists
      <4>1. mem' = [completed |-> Migrations, inProgress |-> NoMigration] /\ stateFile' = Saved(mem')
        BY <2>3, <3>2 DEF Start
      <4> QED
        BY <1>3, <3>2, <4>1 DEF Saved, Passed, NoMigration
    <3> QED
      BY <3>1, <3>2
  <2>4. CASE CleanupFeedStorage \/ UpdateWalkInterval \/ RekeyTableDone
    <3>1. UNCHANGED <<mem, stateFile>> \/ \E m \in {"cleanup", "interval", "derive"} : MarkCompleted(m)
      BY <2>4 DEF CleanupFeedStorage, UpdateWalkInterval, RekeyTableDone
    <3> HIDE DEF Good
    <3> QED
      BY <2>1, <2>2, <3>1
  <2>5. CASE NextMigration
    <3>1. CASE mem' = mem
      BY <1>3, <2>5, <3>1 DEF NextMigration
    <3>2. ASSUME NEW m, mem' = [mem EXCEPT !.inProgress = [NoMigration EXCEPT !.id = m]]
          PROVE  Good
      <4>1. mem'.completed = mem.completed /\ mem'.inProgress.lastId = 0
        BY <1>1, <3>2 DEF MemType, NoMigration
      <4>2. \A s \in Missed(torrents') : RowId[s.hash] > 0
        <5>1. \A s \in Missed(torrents') : s.hash \in Hash
          BY TablesStay, MissedRow DEF TorrentRow
        <5>2. \A s \in Missed(torrents') : RowId[s.hash] # 0
          BY <1>2 DEF Sole
        <5> QED
          BY <5>1, <5>2 DEF MigrationAssumption
      <4>3. Passed(torrents', mem')
        BY <1>3, <4>1, <4>2 DEF Passed
      <4> QED
        BY <1>3, <2>5, <4>3 DEF NextMigration
    <3> QED
      BY <2>5, <3>1, <3>2 DEF NextMigration
  <2>6. ASSUME NEW b \in BOOLEAN, CountItems(b) PROVE Good
    <3>1. stateFile' = stateFile /\ \E p : mem' = [mem EXCEPT !.inProgress.counted = p]
      BY <2>6 DEF CountItems
    <3>2. /\ mem'.completed = mem.completed /\ mem'.inProgress.id = mem.inProgress.id
          /\ mem'.inProgress.lastId = mem.inProgress.lastId
      BY <1>1, <3>1 DEF MemType, MigrationState
    <3> QED
      BY <1>3, <3>1, <3>2 DEF Passed
  <2>7. CASE ProcessRow
    BY <1>3, <2>7, BodyPasses DEF ProcessRow
  <2>8. CASE BodyDone
    <3>1. CASE UNCHANGED <<mem, stateFile>>
      BY <2>1, <3>1
    <3>2. CASE ~stop /\ MarkCompleted(async.id)
      <4>1. async.at = "done" /\ UNCHANGED <<torrents, files, had, dropped>>
        BY <2>8 DEF BodyDone, Data, Bounds
      <4>2. Missed(torrents) = {}
        <5>1. BatchAhead
          BY DEF MigrationInv
        <5> QED
          BY <1>1, <3>2, <4>1, <5>1, ServicesDerived DEF BatchAhead
      <4>3. Missed(torrents') = {}
        BY <4>1, <4>2
      <4> QED
        BY <2>2, <3>2, <4>3
    <3> QED
      BY <2>8, <3>1, <3>2 DEF BodyDone
  <2>9. CASE SaveState \/ RequestStop \/ Quit
    <3>1. stateFile' = Saved(mem) /\ mem' = mem
      BY <2>9 DEF SaveState, RequestStop, Quit
    <3> QED
      BY <1>3, <3>1 DEF Saved, Passed
  <2>10. ASSUME NEW b \in BOOLEAN, Crash(b) PROVE Good
    <3>1. mem' = mem /\ stateFile' \in {stateFile, [stateFile EXCEPT !.readable = FALSE]}
      BY <2>10 DEF Crash
    <3>2. /\ stateFile'.completed = stateFile.completed /\ stateFile'.exists = stateFile.exists
          /\ stateFile'.inProgress = stateFile.inProgress
      BY <1>1, <3>1 DEF StateFile
    <3> QED
      BY <1>3, <3>1, <3>2 DEF Passed
  <2>11. ASSUME NEW b \in BOOLEAN, QueryBatch(b) PROVE UNCHANGED <<mem, stateFile>>
    BY <2>11 DEF QueryBatch
  <2>12. ASSUME NEW h \in Hash, ServicesAdd(h) PROVE UNCHANGED <<mem, stateFile>>
    BY <2>12 DEF ServicesAdd
  <2>13. ASSUME \/ SyncDone \/ RekeyFails \/ RekeyPage \/ RetirePage \/ StartAsync \/ BatchDone
                \/ UNCHANGED migrationVars
         PROVE  UNCHANGED <<mem, stateFile>>
    BY <2>13 DEF SyncDone, RekeyFails, SyncFails, RekeyPage, RetirePage, StartAsync, BatchDone,
                 migrationVars
  <2> HIDE DEF Good
  <2> QED
    BY <2>1, <2>3, <2>4, <2>5, <2>6, <2>7, <2>8, <2>9, <2>10, <2>11, <2>12, <2>13
       DEF MigrationNext
<1> QED
  BY <1>2, <1>4, <1>5

LEMMA BatchStays ==
  ASSUME MigrationAssumption, MigrationInv, [MigrationNext]_migrationVars
  PROVE  BatchAhead'
<1> SUFFICES ASSUME faults' = 0
             PROVE  /\ async'.at = "rows" /\ async'.id = "recategorize" =>
                          /\ async'.batch \subseteq torrents'
                          /\ \A r \in Missed(torrents') :
                                r \in async'.batch
                                \/ (~async'.last /\ \A b \in async'.batch : b.id < r.id)
                    /\ async'.at = "rows" /\ async'.id = "removeUnknown" =>
                          \A b \in async'.batch : BestType[b.hash] = "unknown"
                    /\ async'.at = "done" /\ async'.id = "recategorize" /\ ~stop' =>
                          Missed(torrents') = {}
  BY DEF BatchAhead, Missed
<1> DEFINE Ahead == \A r \in Missed(torrents') :
                       r \in async'.batch
                       \/ (~async'.last /\ \A b \in async'.batch : b.id < r.id)
           Good == /\ async'.at = "rows" /\ async'.id = "recategorize" =>
                         async'.batch \subseteq torrents' /\ Ahead
                   /\ async'.at = "rows" /\ async'.id = "removeUnknown" =>
                         \A b \in async'.batch : BestType[b.hash] = "unknown"
                   /\ async'.at = "done" /\ async'.id = "recategorize" /\ ~stop' =>
                         Missed(torrents') = {}
<1> SUFFICES Good
  OBVIOUS
<1> DEFINE Workers == [at : {"idle", "next", "counting", "batch", "rows", "done", "ended"},
                       id : {"none"} \cup Range(AsyncMigrations), lastId : Nat,
                       batch : SUBSET TorrentRow, last : BOOLEAN]
<1>1. /\ faults = 0 /\ BatchAhead /\ MissedAhead /\ WorkerBeside /\ async \in Workers
      /\ torrents \subseteq TorrentRow /\ Numbered(torrents)
  BY FaultsGrow DEF MigrationInv, MigrationTypeOK, TablesNumbered
<1> HIDE DEF Workers
<1>2. CASE async'.at \notin {"rows", "done"}
  BY <1>2
<1>3. CASE async' = async /\ ~ProcessRow /\ (stop => stop')
  <2>1. CASE async.at \in {"rows", "done"}
    <3>1. Missed(torrents') \subseteq Missed(torrents) /\ torrents \subseteq torrents'
      BY <1>3, <2>1, MissedSame
    <3>2. Missed(torrents) = {} => Missed(torrents') = {}
      BY <3>1
    <3> QED
      BY <1>1, <1>3, <3>1, <3>2 DEF BatchAhead
  <2> QED
    BY <1>2, <1>3, <2>1
<1>4. CASE ProcessRow
  <2>1. PICK r \in async.batch :
           /\ IF async.id = "recategorize" THEN Recategorize(r) ELSE RemoveUnknown(r)
           /\ async' = [async EXCEPT !.lastId = r.id, !.batch = @ \ {r}]
    BY <1>4 DEF ProcessRow
  <2>2. /\ async.at = "rows" /\ async'.at = "rows" /\ async'.id = async.id
        /\ async'.batch = async.batch \ {r} /\ async'.last = async.last
    BY <1>1, <1>4, <2>1 DEF ProcessRow, Workers
  <2>3. Missed(torrents') \subseteq Missed(torrents)
    BY <1>4, <2>2, MissedSame
  <2>4. CASE async.id = "recategorize"
    <3>1. /\ \A t \in torrents : t # r => t \in torrents'
          /\ r \in Missed(torrents) => r \notin Missed(torrents')
      BY <1>1, <2>1, <2>2, <2>4, RecategorizedRow
    <3>2. async'.batch \subseteq torrents'
      BY <1>1, <2>2, <2>4, <3>1 DEF BatchAhead
    <3>3. Ahead
      <4>1. TAKE s \in Missed(torrents')
      <4>2. s \in Missed(torrents) /\ s # r
        BY <2>3, <3>1
      <4>3. s \in async.batch \/ (~async.last /\ \A b \in async.batch : b.id < s.id)
        BY <1>1, <2>2, <2>4, <4>2 DEF BatchAhead
      <4> QED
        BY <2>2, <4>2, <4>3
    <3> HIDE DEF Ahead
    <3> QED
      BY <2>2, <2>4, <3>2, <3>3
  <2>5. CASE async.id # "recategorize"
    BY <1>1, <2>2, <2>5 DEF BatchAhead
  <2> QED
    BY <2>4, <2>5
<1>5. ASSUME NEW b \in BOOLEAN, CountItems(b) PROVE Good
  <2>1. CASE async'.at = "done"
    <3>1. async'.at # "done" \/ async.id = "removeUnknown"
      BY <1>1, <1>5 DEF CountItems, Workers
    <3>2. async'.id = async.id
      BY <1>1, <1>5 DEF CountItems, Workers
    <3> QED
      BY <2>1, <3>1, <3>2
  <2>2. CASE async'.at # "done"
    <3>1. async'.at \in {"done", "batch"}
      BY <1>1, <1>5 DEF CountItems, Workers
    <3> QED
      BY <2>2, <3>1
  <2> QED
    BY <2>1, <2>2
<1>6. ASSUME NEW ok \in BOOLEAN, QueryBatch(ok) PROVE Good
  <2> DEFINE rows == IF async.id = "removeUnknown" THEN Unknown ELSE torrents
             ids == PageAfter(rows, async.lastId)
             batch == {r \in rows : r.id \in ids}
             last == async.id = "recategorize" /\ Cardinality(ids) < kPageSize
  <2>1. /\ async.at = "batch" /\ torrents' = torrents /\ stop' = stop
        /\ async' = IF stop \/ ~ok \/ ids = {} THEN [async EXCEPT !.at = "done"]
                    ELSE [async EXCEPT !.at = "rows", !.batch = batch, !.last = last]
    BY <1>6 DEF QueryBatch, Data
  <2>2. ok
    <3>1. Fault => faults' # 0
      BY <1>1 DEF Fault
    <3> QED
      BY <1>6, <3>1 DEF QueryBatch
  <2>3. /\ async.lastId \in Nat /\ async.lastId = mem.inProgress.lastId
        /\ async.id = mem.inProgress.id
        /\ AllDerived(torrents)
    BY <1>1, <2>1, ServicesDerived DEF WorkerBeside, Workers
  <2>4. CASE async.id = "recategorize"
    <3>1. rows = torrents /\ batch = {r \in torrents : r.id \in ids}
      BY <2>4
    <3>2. Ids(torrents) \subseteq Nat /\ IsFiniteSet(torrents)
      BY <1>1, NumberedRow DEF Ids, Numbered
    <3>3. ASSUME NEW r \in Missed(torrents)
          PROVE  r \in torrents /\ r.id \in Nat /\ r.id \in Later(torrents, async.lastId)
      <4>1. r \in torrents /\ r.id = RowId[r.hash]
        BY <2>3, MissedRow DEF AllDerived
      <4>2. RowId[r.hash] > async.lastId
        BY <1>1, <2>3, <2>4 DEF MissedAhead, Passed
      <4> QED
        BY <3>2, <4>1, <4>2 DEF Later, Ids
    <3>4. ASSUME ids = {} PROVE Missed(torrents) = {}
      BY <2>3, <3>1, <3>2, <3>3, <3>4, PageEmpty
    <3>5. ASSUME NEW r \in Missed(torrents), r \notin batch
          PROVE  ~last /\ \A b \in batch : b.id < r.id
      <4>1. r \notin {x \in torrents : x.id \in ids} /\ r.id \notin ids
        BY <3>1, <3>3, <3>5
      <4>2. ~last
        <5>1. ASSUME Cardinality(ids) < kPageSize PROVE FALSE
          BY <2>3, <3>1, <3>2, <3>3, <4>1, <5>1, PageShort
        <5> QED
          BY <5>1
      <4>3. ASSUME NEW b \in batch PROVE b.id < r.id
        <5>1. b \in torrents /\ b.id \in ids
          BY <3>1
        <5>2. b.id \in Nat
          BY <3>2, <5>1 DEF Ids
        <5>3. ~(r.id <= b.id)
          <6>1. ASSUME r.id <= b.id PROVE r.id \in PageAfter(torrents, async.lastId)
            BY <2>3, <3>1, <3>2, <3>3, <5>1, <6>1, PageDense
          <6> QED
            BY <3>1, <4>1, <6>1
        <5> QED
          BY <3>3, <5>2, <5>3
      <4> QED
        BY <4>2, <4>3
    <3>6. CASE stop
      <4>1. async'.at = "done" /\ stop'
        BY <1>1, <2>1, <3>6 DEF Workers
      <4> QED
        BY <4>1
    <3>7. CASE ~stop /\ ids = {}
      <4>1. async'.at = "done" /\ Missed(torrents') = {}
        BY <1>1, <2>1, <3>4, <3>7 DEF Workers
      <4> QED
        BY <4>1
    <3>8. CASE ~stop /\ ids # {}
      <4> HIDE DEF batch, last, ids
      <4>1. async'.at = "rows" /\ async'.id = "recategorize" /\ async'.batch = batch
            /\ async'.last = last
        BY <1>1, <2>1, <2>2, <2>4, <3>8 DEF Workers
      <4>2. batch \subseteq torrents'
        BY <2>1, <3>1
      <4>3. Ahead
        BY <2>1, <3>5, <4>1
      <4> HIDE DEF Ahead
      <4> QED
        BY <4>1, <4>2, <4>3
    <3> QED
      BY <3>6, <3>7, <3>8
  <2>5. CASE async.id # "recategorize"
    <3>1. async.id = "removeUnknown" /\ Missed(torrents) = {}
      BY <1>1, <2>1, <2>5, ServicesDerived
    <3>2. \A b \in batch : BestType[b.hash] = "unknown"
      BY <3>1, MissedRow DEF Unknown
    <3> HIDE DEF batch, last, ids
    <3>3. async'.id = async.id /\ (async'.at = "done" \/ async'.batch = batch)
      BY <1>1, <2>1 DEF Workers
    <3> QED
      BY <3>1, <3>2, <3>3
  <2> QED
    BY <2>4, <2>5
<1>7. CASE BatchDone
  <2>1. /\ async.at = "rows" /\ (async.batch = {} \/ stop) /\ stop' = stop /\ torrents' = torrents
        /\ async' = [async EXCEPT !.at = IF async.last THEN "done" ELSE "batch", !.batch = {}]
    BY <1>7 DEF BatchDone, Data
  <2>2. async'.at = (IF async.last THEN "done" ELSE "batch") /\ async'.id = async.id
    BY <1>1, <2>1 DEF Workers
  <2>3. ASSUME async.last, ~stop, async.id = "recategorize" PROVE Missed(torrents') = {}
    BY <1>1, <2>1, <2>3 DEF BatchAhead
  <2> QED
    BY <2>1, <2>2, <2>3
<1>8. ASSUME \/ Start \/ StartAsync \/ NextMigration \/ BodyDone \/ \E b \in BOOLEAN : Crash(b)
      PROVE  async'.at \notin {"rows", "done"}
  <2>1. async' = IdleWorker \/ \E stage \in {"next", "ended", "counting"} : \E id, lastId :
           async' \in {[IdleWorker EXCEPT !.at = stage],
                      [IdleWorker EXCEPT !.at = stage, !.id = id, !.lastId = lastId]}
    <3>1. CASE Start \/ StartAsync \/ BodyDone \/ \E b \in BOOLEAN : Crash(b)
      BY <3>1 DEF Start, StartAsync, BodyDone, Crash
    <3>2. CASE NextMigration
      BY <3>2 DEF NextMigration
    <3> QED
      BY <1>8, <3>1, <3>2
  <2>2. CASE async' = IdleWorker
    BY <2>2 DEF IdleWorker
  <2>3. ASSUME NEW stage \in {"next", "ended", "counting"}, async' = [IdleWorker EXCEPT !.at = stage]
        PROVE  async'.at \notin {"rows", "done"}
    BY <2>3 DEF IdleWorker
  <2>4. ASSUME NEW stage \in {"next", "ended", "counting"}, NEW id, NEW lastId,
               async' = [IdleWorker EXCEPT !.at = stage, !.id = id, !.lastId = lastId]
        PROVE  async'.at \notin {"rows", "done"}
    BY <2>4 DEF IdleWorker
  <2> QED
    BY <2>1, <2>2, <2>3, <2>4
<1>9. ASSUME \/ SyncDone \/ CleanupFeedStorage \/ UpdateWalkInterval \/ RekeyPage \/ RetirePage
             \/ RekeyFails \/ RekeyTableDone
      PROVE  async' = async /\ (stop => stop')
  BY <1>9 DEF SyncDone, CleanupFeedStorage, UpdateWalkInterval, RekeyPage, RetirePage,
              RekeyFails, SyncFails, RekeyTableDone
<1>10. ASSUME \/ SaveState \/ RequestStop \/ Quit \/ UNCHANGED migrationVars
              \/ \E h \in Hash : ServicesAdd(h)
       PROVE  async' = async /\ (stop => stop')
  BY <1>10 DEF SaveState, RequestStop, Quit, ServicesAdd, migrationVars
<1> HIDE DEF Good
<1> QED
  BY <1>2, <1>3, <1>4, <1>5, <1>6, <1>7, <1>8, <1>9, <1>10 DEF MigrationNext

-----------------------------------------------------------------------------
(* Migration: the theorems.                                                 *)

LEMMA MigrationSteps ==
  ASSUME MigrationAssumption, MigrationInv, [MigrationNext]_migrationVars
  PROVE  MigrationInv'
<1>1. MigrationTypeOK' /\ TablesNumbered' /\ PageSwept' /\ DoneIsDerived' /\ HadIsKept'
  BY MigrationTypes, TablesStay, SweptStays, DerivedStays, HadStays
<1>2. MissedAhead' /\ WorkerBeside' /\ BatchAhead'
  BY MissedStays, WorkerStays, BatchStays
<1> QED
  BY <1>1, <1>2 DEF MigrationInv

LEMMA MigrationInvariant ==
  MigrationSpec => []MigrationInv
<1>1. MigrationInit => MigrationInv
  BY MigrationAssumption, MigrationInitial
<1>2. MigrationInv /\ [MigrationNext]_migrationVars => MigrationInv'
  BY MigrationAssumption, MigrationSteps
<1> QED
  BY <1>1, <1>2, PTL DEF MigrationSpec

\* The types of the migrations' state hold in every behaviour.
THEOREM MigrationTypeCorrect ==
  MigrationSpec => []MigrationTypeOK
<1>1. MigrationInv => MigrationTypeOK
  BY DEF MigrationInv
<1> QED
  BY <1>1, MigrationInvariant, PTL

\* Re-keying, interrupted between any two writes and run again, loses no torrent,
\* and once it is recorded as done every row is under its hash's id.
THEOREM RekeyedWholeHolds ==
  MigrationSpec => []RekeyedWhole
<1>1. MigrationInv => RekeyedWhole
  BY DEF MigrationInv, HadIsKept, DoneIsDerived, RekeyedWhole
<1> QED
  BY <1>1, MigrationInvariant, PTL

\* While no command fails, the clean-up only removes what the classifier does not
\* recognise, however often it and the recategorisation were stopped and resumed.
THEOREM RemovedWasUnknownHolds ==
  MigrationSpec => []RemovedWasUnknown
<1>1. MigrationInv => RemovedWasUnknown
  BY DEF MigrationInv, MissedAhead, RemovedWasUnknown
<1> QED
  BY <1>1, MigrationInvariant, PTL

-----------------------------------------------------------------------------
(* Sums over a set: what the counters of the repository are made of.       *)

\* Without one of its members a set is smaller by one.
LEMMA OneLess ==
  ASSUME NEW T, IsFiniteSet(T), NEW x \in T
  PROVE  /\ IsFiniteSet(T \ {x}) /\ Cardinality(T) \in Nat
         /\ Cardinality(T \ {x}) = Cardinality(T) - 1
         /\ Cardinality(T \ {x}) < Cardinality(T)
<1>1. IsFiniteSet(T \ {x}) /\ Cardinality(T \ {x}) = Cardinality(T) - 1
  BY FS_RemoveElement
<1>2. Cardinality(T) \in Nat
  BY FS_CardinalityType
<1> QED  BY <1>1, <1>2

\* Total is the fold that MapThenSumSet chooses: a function on the subsets that adds
\* the numbers one by one.
Folded(g, f, D) ==
    g = [s \in D |-> IF s = {} THEN 0 ELSE f[CHOOSE x \in s : TRUE] + g[s \ {CHOOSE x \in s : TRUE}]]

LEMMA TotalIs ==
  ASSUME NEW f, NEW S
  PROVE  Total(f, S) = (CHOOSE g : Folded(g, f, SUBSET S))[S]
  BY DEF Total, MapThenSumSet, MapThenFoldSet, Folded

(* What holds of a set once it holds of all smaller ones, holds of all.     *)
LEMMA SmallerFirst ==
  ASSUME NEW S, IsFiniteSet(S), NEW P,
         \A T \in SUBSET S :
            (\A U \in SUBSET S : Cardinality(U) < Cardinality(T) => U \in P) => T \in P
  PROVE  \A T \in SUBSET S : T \in P
<1> DEFINE Bad == {Cardinality(T) : T \in {U \in SUBSET S : U \notin P}}
<1>1. \A T \in SUBSET S : Cardinality(T) \in Nat
  BY FS_Subset, FS_CardinalityType
<1>2. Bad \in SUBSET Nat
  BY <1>1
<1>3. CASE Bad = {}
  BY <1>3
<1>4. CASE Bad # {}
  <2>1. PICK m \in Bad : \A n \in Bad : m <= n
    BY <1>2, <1>4, SmallestOf
  <2>2. PICK T \in SUBSET S : T \notin P /\ Cardinality(T) = m
    BY <2>1
  <2>3. ASSUME NEW U \in SUBSET S, Cardinality(U) < m PROVE U \in P
    BY <2>1, <2>3, <1>1, <1>2
  <2> QED  BY <2>2, <2>3
<1> QED  BY <1>3, <1>4

(* The fold exists: level by level of the sizes of the subsets.             *)
LEMMA FoldExists ==
  ASSUME NEW f, NEW S, IsFiniteSet(S)
  PROVE  \E g : Folded(g, f, SUBSET S)
<1> DEFINE Upto(n) == {s \in SUBSET S : Cardinality(s) <= n}
           Bad == {n \in Nat : ~ \E g : Folded(g, f, Upto(n))}
<1>1. \A T \in SUBSET S : IsFiniteSet(T) /\ Cardinality(T) \in Nat
  BY FS_Subset, FS_CardinalityType
<1>2. 0 \notin Bad
  <2>1. Upto(0) = {{}}
    BY <1>1, FS_EmptySet
  <2> DEFINE g == [s \in Upto(0) |-> 0]
  <2>2. g = [s \in Upto(0) |-> IF s = {} THEN 0 ELSE f[CHOOSE x \in s : TRUE] + g[s \ {CHOOSE x \in s : TRUE}]]
    BY <2>1
  <2> HIDE DEF g
  <2> QED  BY <2>2 DEF Folded
<1>3. ASSUME NEW m \in Nat, m # 0, m - 1 \notin Bad PROVE m \notin Bad
  <2>1. PICK g : Folded(g, f, Upto(m - 1))
    BY <1>3
  <2> DEFINE Step(q, s) == IF s = {} THEN 0
                           ELSE f[CHOOSE x \in s : TRUE] + q[s \ {CHOOSE x \in s : TRUE}]
             h == [s \in Upto(m) |-> Step(g, s)]
  <2>2. ASSUME NEW s \in Upto(m), s # {} PROVE s \ {CHOOSE x \in s : TRUE} \in Upto(m - 1)
    <3> DEFINE x == CHOOSE y \in s : TRUE
    <3>1. x \in s
      BY <2>2
    <3>2. Cardinality(s \ {x}) = Cardinality(s) - 1
      BY <3>1, <1>1, FS_RemoveElement
    <3> HIDE DEF x
    <3>3. s \ {x} \in Upto(m - 1)
      BY <3>2, <1>1
    <3> QED  BY <3>3 DEF x
  <2>3. \A s \in Upto(m - 1) : s \in Upto(m)
    BY <1>1
  <2>4. \A s \in Upto(m - 1) : h[s] = g[s]
    <3> HIDE DEF Upto
    <3>1. \A s \in Upto(m - 1) : g[s] = Step(g, s)
      BY <2>1 DEF Folded
    <3> HIDE DEF Step
    <3> QED  BY <3>1, <2>3
  <2>5. ASSUME NEW s \in Upto(m) PROVE Step(g, s) = Step(h, s)
    <3>1. CASE s = {}
      BY <3>1
    <3>2. CASE s # {}
      <4>1. s \ {CHOOSE x \in s : TRUE} \in Upto(m - 1)
        BY <2>2, <3>2
      <4> DEFINE u == s \ {CHOOSE x \in s : TRUE}
      <4>2. h[u] = g[u]
        BY <4>1, <2>4
      <4> HIDE DEF h, Upto
      <4> QED  BY <4>2
    <3> QED  BY <3>1, <3>2
  <2>6. h = [s \in Upto(m) |-> Step(h, s)]
    <3> HIDE DEF Step
    <3>1. h = [s \in Upto(m) |-> Step(g, s)]
      OBVIOUS
    <3> HIDE DEF h
    <3> QED  BY <3>1, <2>5
  <2> HIDE DEF h
  <2>7. Folded(h, f, Upto(m))
    BY <2>6 DEF Folded
  <2> QED  BY <2>7
<1>4. Bad = {}
  <2>1. SUFFICES ASSUME Bad # {} PROVE FALSE
    OBVIOUS
  <2>2. PICK m \in Bad : \A n \in Bad : m <= n
    BY <2>1, SmallestOf
  <2>3. m \in Nat /\ m # 0
    BY <2>2, <1>2
  <2> HIDE DEF Bad
  <2>4. m - 1 \in Nat /\ m - 1 \notin Bad
    BY <2>2, <2>3
  <2> QED  BY <2>2, <2>3, <2>4, <1>3
<1>5. Upto(Cardinality(S)) = SUBSET S
  BY FS_Subset
<1> HIDE DEF Upto
<1>6. \E g : Folded(g, f, Upto(Cardinality(S)))
  BY <1>4, <1>1
<1> QED  BY <1>5, <1>6

(* All folds of one function agree where they are defined.                  *)
FoldOver(g, f, S) == Folded(g, f, SUBSET S)

LEMMA FoldsAgree ==
  ASSUME NEW f, NEW S, IsFiniteSet(S), NEW T, T \subseteq S,
         NEW g, FoldOver(g, f, S), NEW h, FoldOver(h, f, T)
  PROVE  g[T] = h[T]
<1> DEFINE P == {s \in SUBSET T : g[s] = h[s]}
<1>1. IsFiniteSet(T)
  BY FS_Subset
<1>2. ASSUME NEW s \in SUBSET T, \A u \in SUBSET T : Cardinality(u) < Cardinality(s) => u \in P
      PROVE  s \in P
  <2>1. CASE s = {}
    BY <2>1 DEF Folded, FoldOver
  <2>2. CASE s # {}
    <3> DEFINE x == CHOOSE y \in s : TRUE
    <3>1. x \in s
      BY <2>2
    <3>2. Cardinality(s \ {x}) < Cardinality(s)
      BY <3>1, <1>1, FS_Subset, FS_RemoveElement, FS_CardinalityType
    <3>3. g[s] = f[x] + g[s \ {x}] /\ h[s] = f[x] + h[s \ {x}]
      BY <2>2 DEF Folded, FoldOver
    <3> HIDE DEF x
    <3>4. s \ {x} \in P
      BY <3>2, <1>2
    <3> QED  BY <3>3, <3>4
  <2> QED  BY <2>1, <2>2
<1>3. \A s \in SUBSET T : s \in P
  <2> HIDE DEF P
  <2> QED  BY <1>1, <1>2, SmallerFirst
<1> QED  BY <1>3

\* The total of nothing, and of one number more.
LEMMA TotalEmpty == ASSUME NEW f PROVE Total(f, {}) = 0
<1> DEFINE g == CHOOSE h : Folded(h, f, SUBSET {})
<1>1. Folded(g, f, SUBSET {})
  BY FoldExists, FS_EmptySet
<1>2. g[{}] = 0
  BY <1>1 DEF Folded
<1> QED  BY <1>2, TotalIs

LEMMA TotalStep ==
  ASSUME NEW f, NEW S, IsFiniteSet(S), S # {}
  PROVE  \E x \in S : Total(f, S) = f[x] + Total(f, S \ {x})
<1> DEFINE x == CHOOSE y \in S : TRUE
           g == CHOOSE q : Folded(q, f, SUBSET S)
           h == CHOOSE q : Folded(q, f, SUBSET (S \ {x}))
<1>1. x \in S
  OBVIOUS
<1>2. IsFiniteSet(S \ {x})
  BY FS_RemoveElement
<1>3. Folded(g, f, SUBSET S)
  BY FoldExists
<1>4. Folded(h, f, SUBSET (S \ {x}))
  BY <1>2, FoldExists
<1>5. Total(f, S) = g[S] /\ Total(f, S \ {x}) = h[S \ {x}]
  BY TotalIs
<1>6. g[S] = f[x] + g[S \ {x}]
  BY <1>3 DEF Folded
<1> HIDE DEF g, h, x
<1>7. g[S \ {x}] = h[S \ {x}]
  <2> DEFINE R == S \ {x}
  <2>1. R \subseteq S /\ FoldOver(h, f, R) /\ FoldOver(g, f, S)
    BY <1>3, <1>4 DEF FoldOver
  <2> HIDE DEF R
  <2>2. g[R] = h[R]
    BY <2>1, FoldsAgree
  <2> QED  BY <2>2 DEF R
<1> QED  BY <1>1, <1>5, <1>6, <1>7

\* The total of numbers is a number.
LEMMA TotalInt ==
  ASSUME NEW f, NEW S, IsFiniteSet(S), \A i \in S : f[i] \in Int
  PROVE  Total(f, S) \in Int
<1> DEFINE P == {T \in SUBSET S : Total(f, T) \in Int}
<1>1. ASSUME NEW T \in SUBSET S, \A U \in SUBSET S : Cardinality(U) < Cardinality(T) => U \in P
      PROVE  T \in P
  <2>1. CASE T = {}
    BY <2>1, TotalEmpty
  <2>2. CASE T # {}
    <3>1. IsFiniteSet(T)
      BY FS_Subset
    <3>2. PICK x \in T : Total(f, T) = f[x] + Total(f, T \ {x})
      BY <2>2, <3>1, TotalStep
    <3>3. Cardinality(T \ {x}) < Cardinality(T)
      BY <3>1, OneLess
    <3> QED  BY <3>2, <3>3, <1>1
  <2> QED  BY <2>1, <2>2
<1>2. \A T \in SUBSET S : T \in P
  <2> HIDE DEF P
  <2> QED  BY <1>1, SmallerFirst
<1> QED  BY <1>2

LEMMA TotalNat ==
  ASSUME NEW f, NEW S, IsFiniteSet(S), \A i \in S : f[i] \in Nat
  PROVE  Total(f, S) \in Nat
<1> DEFINE P == {T \in SUBSET S : Total(f, T) \in Nat}
<1>1. ASSUME NEW T \in SUBSET S, \A U \in SUBSET S : Cardinality(U) < Cardinality(T) => U \in P
      PROVE  T \in P
  <2>1. CASE T = {}
    BY <2>1, TotalEmpty
  <2>2. CASE T # {}
    <3>1. IsFiniteSet(T)
      BY FS_Subset
    <3>2. PICK x \in T : Total(f, T) = f[x] + Total(f, T \ {x})
      BY <2>2, <3>1, TotalStep
    <3>3. Cardinality(T \ {x}) < Cardinality(T)
      BY <3>1, OneLess
    <3> QED  BY <3>2, <3>3, <1>1
  <2> QED  BY <2>1, <2>2
<1>2. \A T \in SUBSET S : T \in P
  <2> HIDE DEF P
  <2> QED  BY <1>1, SmallerFirst
<1> QED  BY <1>2

(* The order in which the numbers are added does not matter.                *)
LEMMA TotalWithout ==
  ASSUME NEW f, NEW S, IsFiniteSet(S), \A i \in S : f[i] \in Int, NEW x \in S
  PROVE  Total(f, S) = f[x] + Total(f, S \ {x})
<1> DEFINE P == {T \in SUBSET S : \A y \in T : Total(f, T) = f[y] + Total(f, T \ {y})}
<1>1. ASSUME NEW T \in SUBSET S, \A U \in SUBSET S : Cardinality(U) < Cardinality(T) => U \in P
      PROVE  T \in P
  <2> SUFFICES ASSUME NEW y \in T PROVE Total(f, T) = f[y] + Total(f, T \ {y})
    OBVIOUS
  <2>1. IsFiniteSet(T)
    BY FS_Subset
  <2>2. PICK z \in T : Total(f, T) = f[z] + Total(f, T \ {z})
    BY <2>1, TotalStep
  <2>3. CASE z = y
    BY <2>2, <2>3
  <2>4. CASE z # y
    <3>1. Cardinality(T \ {z}) < Cardinality(T) /\ Cardinality(T \ {y}) < Cardinality(T)
      BY <2>1, OneLess
    <3>2. Total(f, T \ {z}) = f[y] + Total(f, (T \ {z}) \ {y})
      BY <3>1, <1>1, <2>4
    <3>3. Total(f, T \ {y}) = f[z] + Total(f, (T \ {y}) \ {z})
      BY <3>1, <1>1, <2>4
    <3>4. (T \ {z}) \ {y} = (T \ {y}) \ {z}
      OBVIOUS
    <3>5. Total(f, (T \ {y}) \ {z}) \in Int
      BY TotalInt, FS_Subset
    <3>6. f[y] \in Int /\ f[z] \in Int
      OBVIOUS
    <3> DEFINE rest == Total(f, (T \ {y}) \ {z})
    <3>7. Total(f, T) = f[z] + (f[y] + rest) /\ Total(f, T \ {y}) = f[z] + rest
      BY <2>2, <3>2, <3>3, <3>4
    <3>8. rest \in Int
      BY <3>5
    <3> HIDE DEF rest
    <3> QED  BY <3>6, <3>7, <3>8
  <2> QED  BY <2>3, <2>4
<1>2. \A T \in SUBSET S : T \in P
  <2> HIDE DEF P
  <2> QED  BY <1>1, SmallerFirst
<1> QED  BY <1>2

\* Two functions that agree on a set have one total there.
LEMMA TotalSame ==
  ASSUME NEW f, NEW g, NEW S, IsFiniteSet(S), \A i \in S : f[i] = g[i] /\ f[i] \in Int
  PROVE  Total(f, S) = Total(g, S)
<1> DEFINE P == {T \in SUBSET S : Total(f, T) = Total(g, T)}
<1>1. ASSUME NEW T \in SUBSET S, \A U \in SUBSET S : Cardinality(U) < Cardinality(T) => U \in P
      PROVE  T \in P
  <2>1. CASE T = {}
    BY <2>1, TotalEmpty
  <2>2. CASE T # {}
    <3>1. IsFiniteSet(T)
      BY FS_Subset
    <3>2. PICK x \in T : Total(f, T) = f[x] + Total(f, T \ {x})
      BY <2>2, <3>1, TotalStep
    <3>3. Total(g, T) = g[x] + Total(g, T \ {x})
      BY <3>1, TotalWithout
    <3>4. Cardinality(T \ {x}) < Cardinality(T)
      BY <3>1, OneLess
    <3> QED  BY <3>2, <3>3, <3>4, <1>1
  <2> QED  BY <2>1, <2>2
<1>2. \A T \in SUBSET S : T \in P
  <2> HIDE DEF P
  <2> QED  BY <1>1, SmallerFirst
<1> QED  BY <1>2

(* Numbers that are added at some places are added to the total.            *)
LEMMA TotalPlus ==
  ASSUME NEW S, IsFiniteSet(S), NEW D \in SUBSET S, NEW f, NEW g, NEW d,
         \A i \in S : f[i] \in Int, \A i \in D : d[i] \in Int,
         \A i \in S : g[i] = IF i \in D THEN f[i] + d[i] ELSE f[i]
  PROVE  Total(g, S) = Total(f, S) + Total(d, D)
<1> DEFINE Upon(T) == [i \in S |-> IF i \in T THEN f[i] + d[i] ELSE f[i]]
           P == {T \in SUBSET D : Total(Upon(T), S) = Total(f, S) + Total(d, T)}
<1>1. IsFiniteSet(D)
  BY FS_Subset
<1>2. ASSUME NEW T \in SUBSET D, \A U \in SUBSET D : Cardinality(U) < Cardinality(T) => U \in P
      PROVE  T \in P
  <2>1. CASE T = {}
    <3>1. \A i \in S : Upon(T)[i] = f[i]
      BY <2>1
    <3>2. Total(Upon(T), S) = Total(f, S)
      BY <3>1, TotalSame
    <3> QED  BY <2>1, <3>2, TotalEmpty, TotalInt
  <2>2. CASE T # {}
    <3>1. IsFiniteSet(T) /\ IsFiniteSet(S)
      BY <1>1, FS_Subset
    <3>2. PICK x \in T : Total(d, T) = d[x] + Total(d, T \ {x})
      BY <2>2, <3>1, TotalStep
    <3> DEFINE R == S \ {x}
               Old == Upon(T \ {x})
    <3>3. IsFiniteSet(R) /\ x \in S
      BY FS_RemoveElement
    <3>4. /\ \A i \in S : Upon(T)[i] \in Int /\ Old[i] \in Int
          /\ \A i \in R : Upon(T)[i] = Old[i]
          /\ Upon(T)[x] = f[x] + d[x] /\ Old[x] = f[x]
          /\ f[x] \in Int /\ d[x] \in Int
      BY <3>3
    <3>5. Cardinality(T \ {x}) < Cardinality(T)
      BY <3>1, OneLess
    <3>6. Total(Old, S) = Total(f, S) + Total(d, T \ {x})
      BY <3>5, <1>2
    <3> HIDE DEF Upon, Old
    <3>7. Total(Upon(T), S) = Upon(T)[x] + Total(Upon(T), R) /\ Total(Old, S) = Old[x] + Total(Old, R)
      BY <3>3, <3>4, TotalWithout
    <3>8. Total(Upon(T), R) = Total(Old, R) /\ Total(Old, R) \in Int
      BY <3>3, <3>4, TotalSame, TotalInt
    <3>9. Total(d, T \ {x}) \in Int /\ Total(f, S) \in Int
      BY <3>1, FS_Subset, TotalInt
    <3> QED  BY <3>2, <3>4, <3>6, <3>7, <3>8, <3>9
  <2> QED  BY <2>1, <2>2
<1>3. D \in P
  <2>1. \A T \in SUBSET D : T \in P
    <3> HIDE DEF P
    <3> QED  BY <1>1, <1>2, SmallerFirst
  <2> QED  BY <2>1
<1>4. \A i \in S : Upon(D)[i] = g[i] /\ g[i] \in Int
  OBVIOUS
<1> HIDE DEF Upon
<1>5. Total(Upon(D), S) = Total(g, S)
  BY <1>4, TotalSame
<1> QED  BY <1>3, <1>5

-----------------------------------------------------------------------------
(* The repository.  An operation is a sequence of commands, and between two *)
(* of them the tables are ahead of the counters, or behind: so the          *)
(* invariant says of every operation what it has read and what it owes, and *)
(* that there is a table f that the counters are those of: the rows without *)
(* those that are written and not counted, and with those that are gone and *)
(* still counted.  Operations of others leave the rows of a client alone.   *)

Stages == {"idle", "readCount", "saveFiles", "setFiles", "checkSlot", "rewrite", "write",
           "writeFiles", "count", "delete", "deleteFiles", "uncount"}
Merging == {"readCount", "saveFiles", "setFiles", "checkSlot", "rewrite"}
Removing == {"delete", "deleteFiles", "uncount"}

\* An operation of a client is about rows that the client may reach.
JobOf(c, j) ==
    /\ j = [at |-> j.at, ts |-> j.ts, found |-> j.found, new |-> j.new, oldCount |-> j.oldCount]
    /\ j.at \in Stages /\ j.ts \in Seq(Torrent) /\ j.oldCount \in Nat
    /\ j.found \in [DOMAIN j.found -> Torrent] /\ DOMAIN j.found \subseteq DOMAIN j.ts
    /\ j.new \in [DOMAIN j.new -> Torrent] /\ DOMAIN j.new \subseteq Reach(c)
    /\ \A k \in DOMAIN j.ts : IdOf(j.ts[k]) # 0 => IdOf(j.ts[k]) \in Reach(c)
    /\ \A i \in DOMAIN j.new : IdOf(j.new[i]) = i

\* The copies to merge are what the rows still are, each with something to take; the
\* ids of those that are new are free.
FreshCopy(j, st, k) ==
    /\ IdOf(j.ts[k]) # 0 /\ j.found[k].hash = j.ts[k].hash /\ st[IdOf(j.ts[k])] = j.found[k]
    /\ \A n \in DOMAIN j.found : j.ts[n].hash = j.ts[k].hash => n = k
Wanted(j, k) == Backfills(j.ts[k], j.found[k]) \/ Outvotes(j.ts[k], j.found[k])
ToMerge(j, st) == \A k \in DOMAIN j.found : FreshCopy(j, st, k) /\ Wanted(j, k)
ToAdd(j, st) == \A i \in DOMAIN j.new : st[i] = NoRow

\* What an operation rests on at its next command.
Sound(c, j, st, fs) ==
    /\ JobOf(c, j)
    /\ j.at \in Merging => DOMAIN j.found # {} /\ ToMerge(j, st)
    /\ j.at \in Merging \cup {"write"} => ToAdd(j, st)
    /\ j.at \in {"readCount", "saveFiles", "setFiles"} => Backfills(Offered(j), Copy(j))
    /\ j.at \in {"checkSlot", "rewrite"} => Outvotes(Offered(j), Copy(j))
    /\ j.at \in {"saveFiles", "setFiles"} => j.oldCount = 0
    /\ j.at = "setFiles" => fs[IdOf(Offered(j))] = Offered(j).hash
    /\ j.at \in {"writeFiles", "count"} => \A i \in DOMAIN j.new : st[i] = j.new[i]
    /\ j.at = "writeFiles" => \A i \in DOMAIN j.new : fs[i] = "none"
    /\ j.at \in Removing => 1 \in DOMAIN j.ts /\ IdOf(j.ts[1]) # 0 /\ DOMAIN j.found \subseteq {1}
                          /\ j.ts[1].hash \notin Sizeless
    /\ j.at = "delete" => st[IdOf(j.ts[1])] = IF 1 \in DOMAIN j.found THEN j.found[1] ELSE NoRow
    /\ j.at \in {"deleteFiles", "uncount"} => st[IdOf(j.ts[1])] = NoRow
    /\ j.at = "uncount" => 1 \in DOMAIN j.found

\* The row of files is on its way; the row is one that is not counted yet, or still is.
FilesOpen(j, i) == \/ j.at = "setFiles" /\ i = IdOf(Offered(j))
                   \/ j.at = "writeFiles" /\ i \in DOMAIN j.new
                   \/ j.at = "deleteFiles" /\ i = IdOf(j.ts[1])
FilesRow(r) == IF r.files > 0 THEN r.hash ELSE "none"
Adds(j, i) == j.at \in {"writeFiles", "count"} /\ i \in DOMAIN j.new
Removes(j, i) == j.at \in {"deleteFiles", "uncount"} /\ 1 \in DOMAIN j.found /\ i = IdOf(j.ts[1])
Account(j, i, r) ==
    IF Adds(j, i) THEN NoRow ELSE IF Removes(j, i) THEN j.found[1] ELSE r

\* What holds of the rows of one client.
Local(c, j, st, fs, f) ==
    /\ Sound(c, j, st, fs)
    /\ \A i \in Reach(c) : /\ FilesOpen(j, i) \/ fs[i] = FilesRow(st[i])
                           /\ f[i] = Account(j, i, st[i])
StatsAre(f) == stats.torrents = Cardinality(Stored(f)) /\ stats.files = Total(FileCounts(f), Slots)
Rows == [Slots -> Torrent \cup {NoRow}]
\* All of it, for the table that is counted.
RepositoryHeld(f) ==
    /\ RepositoryTypeOK /\ doing = [c \in Client |-> doing[c]]
    /\ f \in Rows /\ StatsAre(f)
    /\ \A c \in Client : Local(c, doing[c], store, fileStore, f)
    /\ \A i \in Slots : (\A d \in Client : i \notin Reach(d)) =>
          fileStore[i] = FilesRow(store[i]) /\ f[i] = store[i]

RepositoryInv == \E f \in Rows : RepositoryHeld(f)

\* The smallest of a set of numbers.
LEMMA SmallestIs ==
  ASSUME NEW S, S \subseteq Nat, S # {}
  PROVE  Min(S) \in S
<1>1. \E x \in S : \A y \in S : x <= y
  BY SmallestOf
<1> QED  BY <1>1 DEF Min

\* The table has finitely many places.
LEMMA SlotsFinite == IsFiniteSet(Slots)
<1>1. Range(rowIdFromHash) = {rowIdFromHash[h] : h \in Infohash}
  BY RepositoryAssumption DEF Range
<1>2. IsFiniteSet({rowIdFromHash[h] : h \in Infohash})
  <2>1. IsFiniteSet(Infohash)
    BY RepositoryAssumption
  <2> DEFINE f == rowIdFromHash
  <2>2. f \in [Infohash -> Nat]
    BY RepositoryAssumption
  <2>3. IsFiniteSet({f[x] : x \in Infohash})
    <3> HIDE DEF f
    <3>1. Range(f) = {f[x] : x \in DOMAIN f}
      BY DEF Range
    <3> DEFINE T == {f[x] : x \in Infohash}
    <3>2. f \in Surjection(Infohash, T)
      BY <2>2 DEF Surjection
    <3> QED  BY <2>1, <3>2, FS_Surjection
  <2> QED  BY <2>3
<1> QED  BY <1>1, <1>2, FS_Subset DEF Slots

\* A torrent's id, unless it is 0, is a place of the table; no torrent is NoRow.
LEMMA IdIsSlot ==
  ASSUME NEW t \in Torrent
  PROVE  /\ IdOf(t) \in Nat /\ (IdOf(t) # 0 => IdOf(t) \in Slots)
         /\ t # NoRow /\ t.hash # "none" /\ t.hash \in Infohash /\ t.files \in Nat /\ t.votes \in Nat
         /\ t = [hash |-> t.hash, files |-> t.files, votes |-> t.votes]
<1>1. t.hash \in Infohash /\ t.files \in Nat /\ t.votes \in Nat
      /\ t = [hash |-> t.hash, files |-> t.files, votes |-> t.votes]
  BY DEF Torrent
<1>2. t.hash # "none"
  BY <1>1, RepositoryAssumption
<1>3. t # NoRow
  BY <1>2 DEF NoRow
<1>4. IdOf(t) \in Nat /\ IdOf(t) \in Range(rowIdFromHash)
  BY <1>1, RepositoryAssumption DEF IdOf, Range
<1> QED  BY <1>1, <1>2, <1>3, <1>4 DEF Slots

LEMMA RowIs ==
  ASSUME NEW r \in Torrent \cup {NoRow}
  PROVE  /\ r.files \in Nat /\ r.votes \in Nat
         /\ (r.hash = "none" <=> r = NoRow)
         /\ (r # NoRow => r \in Torrent)
         /\ FilesRow(NoRow) = "none"
BY IdIsSlot DEF NoRow, FilesRow

\* An operation that is over, and one that goes on to its next command.
LEMMA IdleIsJob ==
  ASSUME NEW c
  PROVE  /\ JobOf(c, IdleJob) /\ DOMAIN IdleJob.found = {} /\ DOMAIN IdleJob.new = {}
         /\ IdleJob.at = "idle"
<1>1. DOMAIN IdleJob.found = {} /\ DOMAIN IdleJob.new = {} /\ DOMAIN IdleJob.ts = {}
  BY DEF IdleJob
<1>2. IdleJob.found \in [{} -> Torrent] /\ IdleJob.new \in [{} -> Torrent]
  BY DEF IdleJob
<1>3. IdleJob.ts \in Seq(Torrent) /\ IdleJob.at \in Stages /\ IdleJob.oldCount \in Nat
  BY DEF IdleJob, Stages
<1>4. IdleJob = [at |-> IdleJob.at, ts |-> IdleJob.ts, found |-> IdleJob.found,
                 new |-> IdleJob.new, oldCount |-> IdleJob.oldCount]
  BY DEF IdleJob
<1>5. IdleJob.at = "idle"
  BY DEF IdleJob
<1> QED  BY <1>1, <1>2, <1>3, <1>4, <1>5 DEF JobOf

\* While something is to merge, the position is one of those.
LEMMA PositionIn ==
  ASSUME NEW c, NEW j, JobOf(c, j), DOMAIN j.found # {}
  PROVE  /\ Position(j) \in DOMAIN j.found /\ Position(j) \in DOMAIN j.ts
         /\ Offered(j) = j.ts[Position(j)] /\ Offered(j) \in Torrent
         /\ Copy(j) = j.found[Position(j)] /\ Copy(j) \in Torrent
<1>1. DOMAIN j.ts \subseteq Nat
  BY DEF JobOf
<1>2. Position(j) \in DOMAIN j.found
  BY <1>1, SmallestIs DEF JobOf, Position
<1>3. Position(j) \in DOMAIN j.ts
  BY <1>2 DEF JobOf
<1>4. j.ts[Position(j)] \in Torrent
  BY <1>3, ElementOfSeq DEF JobOf
<1>5. j.found[Position(j)] \in Torrent
  BY <1>2 DEF JobOf
<1> QED  BY <1>2, <1>3, <1>4, <1>5 DEF Offered, Copy

\* What a lookup and a finished merge leave: a job whose next command opens nothing.
Calm == {"idle", "readCount", "checkSlot", "write"}

LEMMA CalmRows ==
  ASSUME NEW j, j.at \in Calm, NEW i, NEW r
  PROVE  ~FilesOpen(j, i) /\ Account(j, i, r) = r
BY DEF Calm, FilesOpen, Account, Adds, Removes

LEMMA ProceedSound ==
  ASSUME NEW c, NEW j, NEW st, NEW fs, JobOf(c, j), ToMerge(j, st), ToAdd(j, st)
  PROVE  Sound(c, Proceed(j), st, fs) /\ Proceed(j).at \in Calm
<1>1. CASE DOMAIN j.found # {}
  <2> DEFINE k == [j EXCEPT !.at = IF Backfills(Offered(j), Copy(j)) THEN "readCount" ELSE "checkSlot"]
  <2>1. Proceed(j) = k
    BY <1>1 DEF Proceed
  <2>2. /\ k.ts = j.ts /\ k.found = j.found /\ k.new = j.new /\ k.oldCount = j.oldCount
        /\ k.at = (IF Backfills(Offered(j), Copy(j)) THEN "readCount" ELSE "checkSlot")
        /\ k = [at |-> k.at, ts |-> k.ts, found |-> k.found, new |-> k.new, oldCount |-> k.oldCount]
    BY DEF JobOf
  <2> HIDE DEF k
  <2>3. JobOf(c, k)
    BY <2>2 DEF JobOf, Stages
  <2>4. ToMerge(k, st) /\ ToAdd(k, st)
    BY <2>2 DEF ToMerge, ToAdd, FreshCopy, Wanted
  <2>5. Position(k) = Position(j) /\ Offered(k) = Offered(j) /\ Copy(k) = Copy(j)
    BY <2>2 DEF Position, Offered, Copy
  <2>6. Backfills(Offered(j), Copy(j)) \/ Outvotes(Offered(j), Copy(j))
    BY <1>1, PositionIn DEF ToMerge, Wanted
  <2> QED  BY <1>1, <2>1, <2>2, <2>3, <2>4, <2>5, <2>6 DEF Sound, Calm, Merging, Removing
<1>2. CASE DOMAIN j.found = {} /\ DOMAIN j.new # {}
  <2> DEFINE k == [j EXCEPT !.at = "write"]
  <2>1. Proceed(j) = k
    BY <1>2 DEF Proceed
  <2>2. /\ k.ts = j.ts /\ k.found = j.found /\ k.new = j.new /\ k.oldCount = j.oldCount
        /\ k.at = "write"
        /\ k = [at |-> k.at, ts |-> k.ts, found |-> k.found, new |-> k.new, oldCount |-> k.oldCount]
    BY DEF JobOf
  <2> HIDE DEF k
  <2>3. JobOf(c, k)
    BY <2>2 DEF JobOf, Stages
  <2>4. ToAdd(k, st)
    BY <2>2 DEF ToAdd
  <2> QED  BY <2>1, <2>2, <2>3, <2>4 DEF Sound, Calm, Merging, Removing
<1>3. CASE DOMAIN j.found = {} /\ DOMAIN j.new = {}
  <2>1. Proceed(j) = IdleJob
    BY <1>3 DEF Proceed
  <2> QED  BY <2>1, IdleIsJob DEF Sound, Calm, Merging, Removing
<1> QED  BY <1>1, <1>2, <1>3

LEMMA IdleSound ==
  ASSUME NEW c, NEW st, NEW fs
  PROVE  Sound(c, IdleJob, st, fs) /\ IdleJob.at \in Calm
BY IdleIsJob DEF Sound, Calm, Merging, Removing

\* The merge at the position is over; the others are as they were read.
LEMMA MergedSound ==
  ASSUME NEW c, NEW j, NEW st, NEW fs, JobOf(c, j), DOMAIN j.found # {}, ToAdd(j, st),
         \A k \in DOMAIN j.found \ {Position(j)} : FreshCopy(j, st, k) /\ Wanted(j, k)
  PROVE  Sound(c, Merged(j), st, fs) /\ Merged(j).at \in Calm
<1> DEFINE D == DOMAIN j.found \ {Position(j)}
           m == [j EXCEPT !.found = Restrict(@, DOMAIN @ \ {Position(j)})]
<1>1. /\ m.ts = j.ts /\ m.new = j.new /\ m.oldCount = j.oldCount /\ m.at = j.at
      /\ m.found = [k \in D |-> j.found[k]]
      /\ m = [at |-> m.at, ts |-> m.ts, found |-> m.found, new |-> m.new, oldCount |-> m.oldCount]
  <2> DEFINE g == [k \in D |-> j.found[k]]
  <2>1. m = [j EXCEPT !.found = g]
    BY DEF Restrict
  <2>2. g = [k \in D |-> j.found[k]]
    OBVIOUS
  <2>3. j = [at |-> j.at, ts |-> j.ts, found |-> j.found, new |-> j.new, oldCount |-> j.oldCount]
    BY DEF JobOf
  <2> HIDE DEF g, m
  <2>4. m = [at |-> j.at, ts |-> j.ts, found |-> g, new |-> j.new, oldCount |-> j.oldCount]
    BY <2>1, <2>3
  <2> QED  BY <2>2, <2>4
<1>2. Merged(j) = Proceed(m)
  BY DEF Merged
<1> HIDE DEF m
<1>3. DOMAIN m.found = D /\ m.found \in [D -> Torrent] /\ D \subseteq DOMAIN j.ts
  BY <1>1 DEF JobOf
<1>4. JobOf(c, m)
  BY <1>1, <1>3 DEF JobOf
<1>5. ToAdd(m, st)
  BY <1>1 DEF ToAdd
<1>6. ToMerge(m, st)
  BY <1>1, <1>3 DEF ToMerge, FreshCopy, Wanted
<1> QED  BY <1>2, <1>4, <1>5, <1>6, ProceedSound

\* The files are dealt with, or could not be: higher votes are left.
LEMMA AfterFilesSound ==
  ASSUME NEW c, NEW j, NEW st, NEW fs, JobOf(c, j), DOMAIN j.found # {}, ToAdd(j, st),
         \A k \in DOMAIN j.found : FreshCopy(j, st, k),
         \A k \in DOMAIN j.found \ {Position(j)} : Wanted(j, k)
  PROVE  Sound(c, AfterFiles(j), st, fs) /\ AfterFiles(j).at \in Calm
<1>1. CASE Outvotes(Offered(j), Copy(j))
  <2> DEFINE k == [j EXCEPT !.at = "checkSlot"]
  <2>1. AfterFiles(j) = k
    BY <1>1 DEF AfterFiles
  <2>2. /\ k.ts = j.ts /\ k.found = j.found /\ k.new = j.new /\ k.oldCount = j.oldCount
        /\ k.at = "checkSlot"
        /\ k = [at |-> k.at, ts |-> k.ts, found |-> k.found, new |-> k.new, oldCount |-> k.oldCount]
    BY DEF JobOf
  <2> HIDE DEF k
  <2>3. JobOf(c, k)
    BY <2>2 DEF JobOf, Stages
  <2>4. Wanted(j, Position(j))
    BY <1>1 DEF Wanted, Offered, Copy
  <2>5. ToMerge(k, st) /\ ToAdd(k, st)
    BY <2>2, <2>4 DEF ToMerge, ToAdd, FreshCopy, Wanted
  <2>6. Position(k) = Position(j) /\ Offered(k) = Offered(j) /\ Copy(k) = Copy(j)
    BY <2>2 DEF Position, Offered, Copy
  <2> QED  BY <1>1, <2>1, <2>2, <2>3, <2>5, <2>6 DEF Sound, Calm, Merging, Removing
<1>2. CASE ~Outvotes(Offered(j), Copy(j))
  <2>1. AfterFiles(j) = Merged(j)
    BY <1>2 DEF AfterFiles
  <2> QED  BY <2>1, MergedSound
<1> QED  BY <1>1, <1>2

\* addMany lets an id leave once, for a torrent that wants it.
LEMMA ClaimedIs ==
  ASSUME NEW ts \in Seq(Torrent), NEW added, added \subseteq DOMAIN ts
  PROVE  /\ Claimed(ts, added) \in [DOMAIN Claimed(ts, added) -> Torrent]
         /\ \A i \in DOMAIN Claimed(ts, added) :
               \E k \in added : IdOf(ts[k]) = i /\ Claimed(ts, added)[i] = ts[k]
<1> DEFINE D == {IdOf(ts[k]) : k \in added}
           m(i) == Min({k \in added : IdOf(ts[k]) = i})
<1>1. Claimed(ts, added) = [i \in D |-> ts[m(i)]]
  BY DEF Claimed
<1>2. ASSUME NEW i \in D
      PROVE  m(i) \in added /\ IdOf(ts[m(i)]) = i
  <2> DEFINE S == {k \in added : IdOf(ts[k]) = i}
  <2>1. S \subseteq Nat /\ S # {}
    OBVIOUS
  <2> HIDE DEF S
  <2>2. Min(S) \in S
    BY <2>1, SmallestIs
  <2> QED  BY <2>2 DEF S
<1>3. \A k \in added : ts[k] \in Torrent
  BY ElementOfSeq
<1> HIDE DEF m, D
<1> QED  BY <1>1, <1>2, <1>3

\* What a lookup is the beginning of.
LEMMA JobWith ==
  ASSUME NEW a, NEW b, NEW e
  PROVE  [IdleJob EXCEPT !.ts = a, !.found = b, !.new = e]
           = [at |-> "idle", ts |-> a, found |-> b, new |-> e, oldCount |-> 0]
<1> DEFINE z == IdleJob
<1>1. z = [at |-> z.at, ts |-> z.ts, found |-> z.found, new |-> z.new, oldCount |-> z.oldCount]
  BY IdleIsJob DEF JobOf
<1>2. z.at = "idle" /\ z.oldCount = 0
  BY DEF IdleJob
<1> HIDE DEF z
<1>5. PICK y : y = [z EXCEPT !.ts = a, !.found = b, !.new = e]
  OBVIOUS
<1>3. /\ y = [at |-> y.at, ts |-> y.ts, found |-> y.found, new |-> y.new, oldCount |-> y.oldCount]
      /\ y.at = "idle" /\ y.ts = a /\ y.found = b /\ y.new = e /\ y.oldCount = 0
  BY <1>1, <1>2, <1>5
<1>4. y = [at |-> "idle", ts |-> a, found |-> b, new |-> e, oldCount |-> 0]
  BY <1>3
<1> QED  BY <1>4, <1>5 DEF z

LEMMA LookupSound ==
  ASSUME RepositoryTypeOK, NEW c, NEW ts \in Seq(Torrent),
         \A k \in DOMAIN ts : IdOf(ts[k]) # 0 => IdOf(ts[k]) \in Reach(c)
  PROVE  Sound(c, Lookup(ts, TRUE), store, fileStore) /\ Lookup(ts, TRUE).at \in Calm
<1> DEFINE old == [k \in {n \in DOMAIN ts : IdOf(ts[n]) # 0} |-> store[IdOf(ts[k])]]
           first == {k \in DOMAIN old : \A n \in DOMAIN old : ts[n].hash = ts[k].hash => k <= n}
           found == {k \in first : /\ old[k].hash = ts[k].hash
                                   /\ Backfills(ts[k], old[k]) \/ Outvotes(ts[k], old[k])}
           added == {k \in first : old[k] = NoRow /\ ts[k].hash \notin Filtered}
           f == Restrict(old, found)
           n == Claimed(ts, added)
           j == [at |-> "idle", ts |-> ts, found |-> f, new |-> n, oldCount |-> 0]
<1>1. Lookup(ts, TRUE) = Proceed([IdleJob EXCEPT !.ts = ts, !.found = f, !.new = n])
  BY DEF Lookup, Resolve
<1>2. DOMAIN old \subseteq DOMAIN ts /\ DOMAIN ts \subseteq Nat
      /\ \A k \in DOMAIN old : /\ old[k] = store[IdOf(ts[k])] /\ IdOf(ts[k]) # 0 /\ ts[k] \in Torrent
                               /\ IdOf(ts[k]) \in Slots /\ IdOf(ts[k]) \in Reach(c)
                               /\ old[k] \in Torrent \cup {NoRow}
  <2>1. \A k \in DOMAIN ts : ts[k] \in Torrent
    BY ElementOfSeq
  <2> QED  BY <2>1, IdIsSlot DEF RepositoryTypeOK
<1> HIDE DEF old
<1>3. first \subseteq DOMAIN old /\ found \subseteq first /\ added \subseteq first
      /\ \A k, m \in first : ts[k].hash = ts[m].hash => k = m
  BY <1>2
<1>4. \A k \in found : /\ k \in DOMAIN old /\ old[k].hash = ts[k].hash
                       /\ Backfills(ts[k], old[k]) \/ Outvotes(ts[k], old[k])
  OBVIOUS
<1>5. \A k \in added : k \in DOMAIN old /\ old[k] = NoRow
  OBVIOUS
<1> HIDE DEF first, found, added
<1>6. \A k \in found : old[k] \in Torrent
  BY <1>2, <1>4, IdIsSlot, RowIs
<1>7. f = [k \in found |-> old[k]]
  BY DEF Restrict
<1>8. /\ n \in [DOMAIN n -> Torrent]
      /\ \A i \in DOMAIN n : \E k \in added : IdOf(ts[k]) = i /\ n[i] = ts[k]
  <2>1. added \subseteq DOMAIN ts
    BY <1>2, <1>3
  <2> QED  BY <2>1, ClaimedIs
<1> HIDE DEF f, n
<1>9. /\ j.at = "idle" /\ j.ts = ts /\ j.found = f /\ j.new = n /\ j.oldCount = 0
      /\ j = [at |-> j.at, ts |-> j.ts, found |-> j.found, new |-> j.new, oldCount |-> j.oldCount]
  OBVIOUS
<1>15. [IdleJob EXCEPT !.ts = ts, !.found = f, !.new = n] = j
  BY JobWith
<1> HIDE DEF j
<1>10. DOMAIN f = found /\ f \in [DOMAIN f -> Torrent] /\ DOMAIN f \subseteq DOMAIN ts
  BY <1>2, <1>3, <1>6, <1>7
<1>11. \A i \in DOMAIN n : i \in Reach(c) /\ IdOf(n[i]) = i /\ store[i] = NoRow
  BY <1>2, <1>5, <1>8
<1>12. JobOf(c, j)
  BY <1>8, <1>9, <1>10, <1>11 DEF JobOf, Stages
<1>13. ToAdd(j, store)
  BY <1>9, <1>11 DEF ToAdd
<1>14. ToMerge(j, store)
  BY <1>2, <1>3, <1>4, <1>7, <1>9, <1>10 DEF ToMerge, FreshCopy, Wanted
<1> QED  BY <1>1, <1>12, <1>13, <1>14, <1>15, ProceedSound

\* remove() has read what the row counted for.
RemovalJob(t, old) ==
    [IdleJob EXCEPT !.at = "delete", !.ts = <<t>>, !.found = IF old = NoRow THEN <<>> ELSE <<old>>]
LEMMA RemovalSound ==
  ASSUME RepositoryTypeOK, NEW c, NEW t, <<t>> \in Seq(Torrent), IdOf(t) # 0, IdOf(t) \in Reach(c),
         t.hash \notin Sizeless,
         NEW old, old = store[IdOf(t)]
  PROVE  Sound(c, RemovalJob(t, old), store, fileStore) /\ RemovalJob(t, old).at = "delete"
<1>10. PICK j : j = RemovalJob(t, old)
  OBVIOUS
<1> DEFINE f == IF old = NoRow THEN <<>> ELSE <<old>>
<1>1. IdOf(t) \in Slots /\ old \in Torrent \cup {NoRow}
  BY DEF RepositoryTypeOK, Reach
<1>2. j = [IdleJob EXCEPT !.at = "delete", !.ts = <<t>>, !.found = f]
  BY <1>10 DEF RemovalJob
<1>3. f \in [DOMAIN f -> Torrent] /\ DOMAIN f = (IF old = NoRow THEN {} ELSE {1})
      /\ (old # NoRow => f[1] = old)
  <2>1. CASE old = NoRow
    BY <2>1
  <2>2. CASE old # NoRow
    BY <1>1, <2>2
  <2> QED  BY <2>1, <2>2
<1> HIDE DEF f
<1>4. /\ j.at = "delete" /\ j.ts = <<t>> /\ j.found = f /\ j.new = IdleJob.new /\ j.oldCount \in Nat
      /\ j = [at |-> j.at, ts |-> j.ts, found |-> j.found, new |-> j.new, oldCount |-> j.oldCount]
  <2>1. /\ IdleJob = [at |-> IdleJob.at, ts |-> IdleJob.ts, found |-> IdleJob.found,
                      new |-> IdleJob.new, oldCount |-> IdleJob.oldCount]
        /\ IdleJob.oldCount \in Nat
    BY IdleIsJob DEF JobOf
  <2> QED  BY <1>2, <2>1
<1>5. DOMAIN <<t>> = {1} /\ <<t>>[1] = t
  OBVIOUS
<1>6. DOMAIN j.new = {} /\ j.new \in [{} -> Torrent]
  BY <1>4, IdleIsJob DEF JobOf
<1>7. JobOf(c, j)
  BY <1>3, <1>4, <1>5, <1>6 DEF JobOf, Stages
<1> QED  BY <1>3, <1>4, <1>5, <1>7, <1>10 DEF Sound, Merging, Removing

\* A counter that is not below zero is not clamped.
LEMMA MaxOfNat ==
  ASSUME NEW n \in Nat
  PROVE  Max({0, n}) = n
BY DEF Max

\* The counts of a table are numbers, and its stored rows are finitely many.
LEMMA CountsOf ==
  ASSUME NEW f \in Rows
  PROVE  /\ DOMAIN FileCounts(f) = Slots /\ \A i \in Slots : FileCounts(f)[i] = f[i].files /\ f[i].files \in Nat
         /\ Total(FileCounts(f), Slots) \in Nat
         /\ IsFiniteSet(Stored(f)) /\ Cardinality(Stored(f)) \in Nat /\ Stored(f) = {i \in Slots : f[i] # NoRow}
<1>1. DOMAIN f = Slots /\ \A i \in Slots : f[i] \in Torrent \cup {NoRow}
  BY DEF Rows
<1>2. \A i \in Slots : f[i].files \in Nat
  BY <1>1, RowIs
<1>3. DOMAIN FileCounts(f) = Slots /\ \A i \in Slots : FileCounts(f)[i] = f[i].files
  BY <1>1 DEF FileCounts
<1>4. Total(FileCounts(f), Slots) \in Nat
  BY <1>2, <1>3, SlotsFinite, TotalNat
<1>5. Stored(f) = {i \in Slots : f[i] # NoRow}
  BY <1>1 DEF Stored
<1>6. IsFiniteSet(Stored(f))
  BY <1>5, SlotsFinite, FS_Subset
<1> QED  BY <1>2, <1>3, <1>4, <1>5, <1>6, FS_CardinalityType

\* A table with one row changed, and with some rows more.
LEMMA OneRow ==
  ASSUME NEW f \in Rows, NEW i \in Slots, NEW r \in Torrent \cup {NoRow}, NEW g \in Rows,
         g[i] = r, \A k \in Slots : k # i => g[k] = f[k]
  PROVE  /\ Total(FileCounts(g), Slots) = (Total(FileCounts(f), Slots) - f[i].files) + r.files
         /\ (f[i] # NoRow /\ r # NoRow) => Cardinality(Stored(g)) = Cardinality(Stored(f))
         /\ (f[i] # NoRow /\ r = NoRow) => Cardinality(Stored(g)) = Cardinality(Stored(f)) - 1
<1>1. g \in Rows /\ g[i] = r /\ \A k \in Slots : k # i => g[k] = f[k]
  OBVIOUS
<1>2. Total(FileCounts(g), Slots) = (Total(FileCounts(f), Slots) - f[i].files) + r.files
  <2> DEFINE ff == FileCounts(f)
             gg == FileCounts(g)
  <2>1. /\ \A k \in Slots : ff[k] = f[k].files /\ ff[k] \in Int
        /\ \A k \in Slots : gg[k] = g[k].files /\ gg[k] \in Int
    <3>1. \A k \in Slots : ff[k] = f[k].files /\ f[k].files \in Nat
      BY CountsOf
    <3>2. \A k \in Slots : gg[k] = g[k].files /\ g[k].files \in Nat
      BY <1>1, CountsOf
    <3> HIDE DEF ff, gg
    <3> QED  BY <3>1, <3>2
  <2> HIDE DEF ff, gg
  <2>2. Total(ff, Slots) = ff[i] + Total(ff, Slots \ {i})
    BY <2>1, SlotsFinite, TotalWithout
  <2>3. Total(gg, Slots) = gg[i] + Total(gg, Slots \ {i})
    BY <2>1, SlotsFinite, TotalWithout
  <2>4. IsFiniteSet(Slots \ {i})
    BY SlotsFinite, FS_RemoveElement
  <2>5. \A k \in Slots \ {i} : ff[k] = gg[k] /\ ff[k] \in Int
    BY <1>1, <2>1
  <2>6. Total(ff, Slots \ {i}) = Total(gg, Slots \ {i})
    BY <2>4, <2>5, TotalSame
  <2>7. Total(ff, Slots \ {i}) \in Int
    BY <2>4, <2>5, TotalInt
  <2>8. ff[i] = f[i].files /\ gg[i] = r.files /\ ff[i] \in Int /\ gg[i] \in Int
    BY <1>1, <2>1
  <2>9. Total(gg, Slots) = (Total(ff, Slots) - f[i].files) + r.files
    BY <2>2, <2>3, <2>6, <2>7, <2>8
  <2> QED  BY <2>9 DEF ff, gg
<1>3. /\ Stored(f) = {k \in Slots : f[k] # NoRow} /\ IsFiniteSet(Stored(f))
      /\ Stored(g) = {k \in Slots : g[k] # NoRow}
  BY <1>1, CountsOf
<1>4. CASE f[i] # NoRow /\ r # NoRow
  <2>1. Stored(g) = Stored(f)
    BY <1>1, <1>3, <1>4
  <2> QED  BY <1>1, <1>2, <1>4, <2>1
<1>5. CASE f[i] # NoRow /\ r = NoRow
  <2>1. Stored(g) = Stored(f) \ {i} /\ i \in Stored(f)
    BY <1>1, <1>3, <1>5
  <2> QED  BY <1>1, <1>2, <1>3, <1>5, <2>1, OneLess
<1> QED  BY <1>1, <1>2, <1>4, <1>5

LEMMA MoreRows ==
  ASSUME NEW f \in Rows, NEW new, DOMAIN new \subseteq Slots, new \in [DOMAIN new -> Torrent],
         \A i \in DOMAIN new : f[i] = NoRow,
         NEW g, g = [i \in Slots |-> IF i \in DOMAIN new THEN new[i] ELSE f[i]]
  PROVE  /\ g \in Rows
         /\ Total(FileCounts(g), Slots) = Total(FileCounts(f), Slots) + Total(FileCounts(new), DOMAIN new)
         /\ Cardinality(Stored(g)) = Cardinality(Stored(f)) + Cardinality(DOMAIN new)
         /\ Cardinality(DOMAIN new) \in Nat /\ Total(FileCounts(new), DOMAIN new) \in Nat
<1> DEFINE D == DOMAIN new
<1>1. g \in Rows /\ (\A i \in D : g[i] = new[i] /\ new[i] \in Torrent) /\ (\A i \in Slots \ D : g[i] = f[i])
  BY DEF Rows
<1>2. IsFiniteSet(D) /\ Cardinality(D) \in Nat
  BY SlotsFinite, FS_Subset, FS_CardinalityType
<1>3. \A i \in D : FileCounts(new)[i] = new[i].files /\ FileCounts(new)[i] \in Nat
  BY <1>1, IdIsSlot DEF FileCounts
<1>4. Total(FileCounts(new), D) \in Nat
  BY <1>2, <1>3, TotalNat
<1>5. Total(FileCounts(g), Slots) = Total(FileCounts(f), Slots) + Total(FileCounts(new), D)
  <2>1. \A k \in Slots : /\ FileCounts(f)[k] = f[k].files /\ FileCounts(f)[k] \in Int
                         /\ FileCounts(g)[k] = g[k].files /\ FileCounts(g)[k] \in Int
    BY <1>1, CountsOf
  <2>2. NoRow.files = 0
    BY DEF NoRow
  <2>3. \A i \in Slots : FileCounts(g)[i] =
           IF i \in D THEN FileCounts(f)[i] + FileCounts(new)[i] ELSE FileCounts(f)[i]
    BY <1>1, <1>3, <2>1, <2>2
  <2>4. \A i \in D : FileCounts(new)[i] \in Int
    BY <1>3
  <2>5. \A i \in Slots : FileCounts(f)[i] \in Int
    BY <2>1
  <2> DEFINE ff == FileCounts(f)
             gg == FileCounts(g)
             dd == FileCounts(new)
  <2>6. D \in SUBSET Slots
    OBVIOUS
  <2> HIDE DEF ff, gg, dd, D
  <2>7. /\ \A i \in Slots : ff[i] \in Int
        /\ \A i \in D : dd[i] \in Int
        /\ \A i \in Slots : gg[i] = IF i \in D THEN ff[i] + dd[i] ELSE ff[i]
    BY <2>3, <2>4, <2>5 DEF ff, gg, dd
  <2>8. Total(gg, Slots) = Total(ff, Slots) + Total(dd, D)
    BY <2>6, <2>7, SlotsFinite, TotalPlus
  <2> QED  BY <2>8 DEF ff, gg, dd
<1>6. Cardinality(Stored(g)) = Cardinality(Stored(f)) + Cardinality(D)
  <2>1. /\ Stored(f) = {k \in Slots : f[k] # NoRow} /\ IsFiniteSet(Stored(f)) /\ Cardinality(Stored(f)) \in Nat
        /\ Stored(g) = {k \in Slots : g[k] # NoRow}
    BY <1>1, CountsOf
  <2>2. \A i \in D : new[i] # NoRow
    BY <1>1, IdIsSlot
  <2>3. Stored(g) = Stored(f) \cup D /\ Stored(f) \cap D = {}
    BY <1>1, <2>1, <2>2
  <2>4. Cardinality(Stored(f) \cup D)
          = Cardinality(Stored(f)) + Cardinality(D) - Cardinality(Stored(f) \cap D)
    BY <1>2, <2>1, FS_Union
  <2>5. Cardinality({}) = 0
    BY FS_EmptySet
  <2>6. Cardinality(Stored(f) \cap D) = 0 /\ Cardinality(Stored(f)) \in Nat /\ Cardinality(D) \in Nat
    BY <1>2, <2>1, <2>3, <2>5
  <2>7. Cardinality(Stored(g)) = Cardinality(Stored(f) \cup D)
    BY <2>3
  <2> HIDE DEF D
  <2> QED  BY <2>4, <2>6, <2>7
<1> QED  BY <1>1, <1>2, <1>4, <1>5, <1>6

\* Steps at which an operation has no row open and nothing to count yet.
Still == {"idle", "readCount", "saveFiles", "checkSlot", "rewrite", "write", "delete"}

LEMMA StillRows ==
  ASSUME NEW j, j.at \in Still
  PROVE  \A i : ~FilesOpen(j, i) /\ \A r : Account(j, i, r) = r
BY DEF Still, FilesOpen, Account, Adds, Removes

\* What a client holds to, is about the rows it reaches.
LEMMA LocalFrame ==
  ASSUME NEW c, NEW j, NEW st, NEW fs, NEW f, NEW st2, NEW fs2, NEW f2, Local(c, j, st, fs, f),
         \A i \in Reach(c) : st2[i] = st[i] /\ fs2[i] = fs[i] /\ f2[i] = f[i]
  PROVE  Local(c, j, st2, fs2, f2)
<1>1. Sound(c, j, st, fs) /\ JobOf(c, j)
  BY DEF Local, Sound
<1>2. \A k \in DOMAIN j.ts : IdOf(j.ts[k]) # 0 => IdOf(j.ts[k]) \in Reach(c)
  BY <1>1 DEF JobOf
<1>3. DOMAIN j.new \subseteq Reach(c) /\ DOMAIN j.found \subseteq DOMAIN j.ts
  BY <1>1 DEF JobOf
<1>4. ToAdd(j, st) => ToAdd(j, st2)
  BY <1>3 DEF ToAdd
<1>5. ToMerge(j, st) => ToMerge(j, st2)
  BY <1>2, <1>3 DEF ToMerge, FreshCopy
<1>6. j.at = "setFiles" => fs2[IdOf(Offered(j))] = Offered(j).hash
  <2> SUFFICES ASSUME j.at = "setFiles" PROVE fs2[IdOf(Offered(j))] = Offered(j).hash
    OBVIOUS
  <2>1. DOMAIN j.found # {} /\ ToMerge(j, st) /\ fs[IdOf(Offered(j))] = Offered(j).hash
    BY <1>1 DEF Sound, Merging
  <2>2. Position(j) \in DOMAIN j.found /\ Position(j) \in DOMAIN j.ts /\ Offered(j) = j.ts[Position(j)]
    BY <1>1, <2>1, PositionIn
  <2>3. IdOf(Offered(j)) \in Reach(c)
    BY <1>2, <2>1, <2>2 DEF ToMerge, FreshCopy
  <2> QED  BY <2>1, <2>3
<1>7. j.at \in Removing => 1 \in DOMAIN j.ts /\ IdOf(j.ts[1]) \in Reach(c)
  BY <1>1, <1>2 DEF Sound
<1>8. Sound(c, j, st2, fs2)
  BY <1>1, <1>3, <1>4, <1>5, <1>6, <1>7 DEF Sound, Removing
<1> QED  BY <1>8 DEF Local

\* A step of one client, seen from its own rows, keeps everybody's.
LEMMA StepKeeps ==
  ASSUME Apart, NEW f, RepositoryHeld(f), NEW c \in Client, NEW j, doing' = [doing EXCEPT ![c] = j],
         RepositoryTypeOK', NEW g \in Rows, StatsAre(g)', Local(c, j, store', fileStore', g),
         \A i \in Slots \ Reach(c) : store'[i] = store[i] /\ fileStore'[i] = fileStore[i] /\ g[i] = f[i]
  PROVE  RepositoryInv'
<1>1. doing' = [d \in Client |-> IF d = c THEN j ELSE doing[d]]
  BY DEF RepositoryHeld
<1>2. ASSUME NEW d \in Client
      PROVE  Local(d, doing'[d], store', fileStore', g)
  <2>1. CASE d = c
    BY <1>1, <2>1
  <2>2. CASE d # c
    <3>1. doing'[d] = doing[d] /\ Local(d, doing[d], store, fileStore, f)
      BY <1>1, <2>2 DEF RepositoryHeld
    <3>2. \A i \in Reach(d) : i \in Slots \ Reach(c)
      BY <2>2 DEF Apart, Reach
    <3> QED  BY <3>1, <3>2, LocalFrame
  <2> QED  BY <2>1, <2>2
<1>3. \A i \in Slots : (\A d \in Client : i \notin Reach(d)) =>
          fileStore'[i] = FilesRow(store'[i]) /\ g[i] = store'[i]
  BY DEF RepositoryHeld
<1>4. doing' = [d \in Client |-> doing'[d]]
  BY <1>1
<1>5. RepositoryHeld(g)'
  BY <1>2, <1>3, <1>4 DEF RepositoryHeld
<1> QED  BY <1>5 DEF RepositoryInv

\* No torrent that is stored is overwritten, and none loses votes or files.
Untouched(st, st2) ==
    \A i \in Stored(st) : st2[i] = NoRow \/
       (st2[i].hash = st[i].hash /\ st2[i].votes >= st[i].votes /\ st2[i].files >= st[i].files)

LEMMA SameUntouched ==
  ASSUME RepositoryTypeOK
  PROVE  Untouched(store, store)
<1>1. \A i \in Stored(store) : store[i].votes \in Nat /\ store[i].files \in Nat
  BY RowIs DEF Stored, RepositoryTypeOK
<1> QED  BY <1>1 DEF Untouched

\* A step that only takes the client to its next command.
LEMMA OnlyTheJob ==
  ASSUME Apart, NEW f, RepositoryHeld(f), NEW c \in Client, NEW j, doing' = [doing EXCEPT ![c] = j],
         UNCHANGED <<store, fileStore, stats>>,
         doing[c].at \in Still, j.at \in Still, Sound(c, j, store, fileStore)
  PROVE  RepositoryInv' /\ Untouched(store, store')
<1>1. RepositoryTypeOK' /\ StatsAre(f)' /\ f \in Rows
  BY DEF RepositoryHeld, RepositoryTypeOK, StatsAre
<1>2. Local(c, doing[c], store, fileStore, f)
  BY DEF RepositoryHeld
<1>3. Local(c, j, store', fileStore', f)
  BY <1>2, StillRows DEF Local
<1>4. RepositoryInv'
  BY <1>1, <1>3, StepKeeps
<1>5. Untouched(store, store')
  BY SameUntouched DEF RepositoryHeld
<1> QED  BY <1>4, <1>5

LEMMA NoTotal ==
  ASSUME NEW f, \A i \in Slots : f[i] = 0
  PROVE  Total(f, Slots) = 0
<1> DEFINE n == Total(f, Slots)
<1>1. n \in Int
  BY SlotsFinite, TotalInt
<1>2. n = n + n
  <2>1. \A i \in Slots : f[i] \in Int /\ f[i] = IF i \in Slots THEN f[i] + f[i] ELSE f[i]
    OBVIOUS
  <2> QED  BY <2>1, SlotsFinite, TotalPlus
<1> HIDE DEF n
<1>3. n = 0
  BY <1>1, <1>2
<1> QED  BY <1>3 DEF n

\* The start; every command of an insert or a batch.
LEMMA InitHeld ==
  ASSUME RepositoryInit
  PROVE  RepositoryInv
<1>1. store \in Rows /\ \A i \in Slots : store[i] = NoRow /\ fileStore[i] = "none"
  BY DEF RepositoryInit, Rows
<1>2. NoRow.files = 0 /\ FilesRow(NoRow) = "none" /\ NoRow \notin Torrent
  BY IdIsSlot DEF NoRow, FilesRow
<1>3. RepositoryTypeOK
  BY <1>1 DEF RepositoryTypeOK, RepositoryInit, Rows
<1>4. StatsAre(store)
  <2>1. \A i \in Slots : FileCounts(store)[i] = 0
    BY <1>1, <1>2, CountsOf
  <2>2. Total(FileCounts(store), Slots) = 0
    BY <2>1, NoTotal
  <2>3. Stored(store) = {}
    BY <1>1, CountsOf
  <2>4. Cardinality(Stored(store)) = 0
    BY <2>3, FS_EmptySet
  <2> QED  BY <2>2, <2>4 DEF StatsAre, RepositoryInit
<1>5. ASSUME NEW c \in Client PROVE Local(c, doing[c], store, fileStore, store)
  <2>1. doing[c] = IdleJob
    BY DEF RepositoryInit
  <2>2. IdleJob.at \in Still
    BY IdleIsJob DEF Still
  <2>3. \A i \in Reach(c) : i \in Slots
    BY DEF Reach
  <2> QED  BY <1>1, <1>2, <2>1, <2>2, <2>3, IdleSound, StillRows DEF Local
<1>6. doing = [c \in Client |-> doing[c]]
  BY DEF RepositoryInit
<1>7. RepositoryHeld(store)
  BY <1>1, <1>2, <1>3, <1>4, <1>5, <1>6 DEF RepositoryHeld
<1> QED  BY <1>1, <1>7 DEF RepositoryInv

\* What a client that merges knows of the torrent at its position.
LEMMA AtPosition ==
  ASSUME NEW f, RepositoryHeld(f), NEW c \in Client, doing[c].at \in Merging
  PROVE  LET j == doing[c] IN
         /\ Sound(c, j, store, fileStore) /\ JobOf(c, j) /\ DOMAIN j.found # {}
         /\ ToMerge(j, store) /\ ToAdd(j, store)
         /\ Position(j) \in DOMAIN j.found /\ Position(j) \in DOMAIN j.ts
         /\ Offered(j) = j.ts[Position(j)] /\ Copy(j) = j.found[Position(j)]
         /\ Offered(j) \in Torrent /\ Copy(j) \in Torrent
         /\ Slot(c) = IdOf(Offered(j)) /\ Slot(c) # 0
         /\ Slot(c) \in Reach(c) /\ Slot(c) \in Slots /\ Slot(c) \notin DOMAIN j.new
         /\ store[Slot(c)] = Copy(j) /\ Copy(j).hash = Offered(j).hash
         /\ \A k \in DOMAIN j.found \ {Position(j)} : IdOf(j.ts[k]) # Slot(c)
<1> DEFINE j == doing[c]
<1>1. Sound(c, j, store, fileStore) /\ JobOf(c, j) /\ DOMAIN j.found # {}
      /\ ToMerge(j, store) /\ ToAdd(j, store)
  BY DEF RepositoryHeld, Local, Sound
<1>2. /\ Position(j) \in DOMAIN j.found /\ Position(j) \in DOMAIN j.ts
      /\ Offered(j) = j.ts[Position(j)] /\ Copy(j) = j.found[Position(j)]
      /\ Offered(j) \in Torrent /\ Copy(j) \in Torrent
  BY <1>1, PositionIn
<1>3. Slot(c) = IdOf(Offered(j))
  BY DEF Slot
<1>4. IdOf(Offered(j)) # 0 /\ store[IdOf(Offered(j))] = Copy(j) /\ Copy(j).hash = Offered(j).hash
      /\ FreshCopy(j, store, Position(j))
  BY <1>1, <1>2 DEF ToMerge, FreshCopy
<1>5. IdOf(Offered(j)) \in Reach(c) /\ IdOf(Offered(j)) \in Slots
  BY <1>1, <1>2, <1>4 DEF JobOf, Reach
<1>6. IdOf(Offered(j)) \notin DOMAIN j.new
  BY <1>1, <1>2, <1>4, IdIsSlot DEF ToAdd
<1>7. ASSUME NEW k \in DOMAIN j.found, k # Position(j) PROVE IdOf(j.ts[k]) # IdOf(Offered(j))
  <2>1. FreshCopy(j, store, k)
    BY <1>1 DEF ToMerge
  <2>2. store[IdOf(j.ts[k])] = j.found[k] /\ j.found[k].hash = j.ts[k].hash
    BY <2>1 DEF FreshCopy
  <2>3. j.ts[k].hash # Offered(j).hash
    BY <1>2, <1>4, <1>7 DEF FreshCopy
  <2> QED  BY <1>4, <2>2, <2>3
<1> QED  BY <1>1, <1>2, <1>3, <1>4, <1>5, <1>6, <1>7

\* The client's job at another step.
LEMMA JobAt ==
  ASSUME NEW c, NEW j, JobOf(c, j), NEW s \in Stages, NEW k, k = [j EXCEPT !.at = s]
  PROVE  /\ JobOf(c, k) /\ k.at = s /\ k.ts = j.ts /\ k.found = j.found /\ k.new = j.new
         /\ k.oldCount = j.oldCount
         /\ Position(k) = Position(j) /\ Offered(k) = Offered(j) /\ Copy(k) = Copy(j)
         /\ \A st : (ToMerge(j, st) => ToMerge(k, st)) /\ (ToAdd(j, st) => ToAdd(k, st))
<1>1. /\ k.ts = j.ts /\ k.found = j.found /\ k.new = j.new /\ k.oldCount = j.oldCount /\ k.at = s
      /\ k = [at |-> k.at, ts |-> k.ts, found |-> k.found, new |-> k.new, oldCount |-> k.oldCount]
  BY DEF JobOf
<1>2. JobOf(c, k)
  BY <1>1 DEF JobOf
<1>3. Position(k) = Position(j) /\ Offered(k) = Offered(j) /\ Copy(k) = Copy(j)
  BY <1>1 DEF Position, Offered, Copy
<1>4. \A st : (ToMerge(j, st) => ToMerge(k, st)) /\ (ToAdd(j, st) => ToAdd(k, st))
  BY <1>1 DEF ToMerge, ToAdd, FreshCopy, Wanted
<1> QED  BY <1>1, <1>2, <1>3, <1>4

LEMMA GoneTo ==
  ASSUME NEW c \in Client, NEW s, doing = [d \in Client |-> doing[d]], Goto(c, s)
  PROVE  doing' = [doing EXCEPT ![c] = [doing[c] EXCEPT !.at = s]]
BY DEF Goto

LEMMA WorkReaches ==
  ASSUME NEW c \in Client, NEW w \in Work[c]
  PROVE  w.ts \in Seq(Torrent) /\ \A k \in DOMAIN w.ts : IdOf(w.ts[k]) # 0 => IdOf(w.ts[k]) \in Reach(c)
<1>1. w.ts \in Seq(Torrent)
  BY RepositoryAssumption
<1>2. \A k \in DOMAIN w.ts : w.ts[k] \in Torrent
  BY <1>1, ElementOfSeq
<1> QED  BY <1>1, <1>2, IdIsSlot DEF Reach

LEMMA BeginKeeps ==
  ASSUME Apart, NEW f, RepositoryHeld(f), NEW c \in Client, NEW j, Begin(c, j),
         j.at \in Still, Sound(c, j, store, fileStore)
  PROVE  RepositoryInv' /\ Untouched(store, store')
<1>1. doing[c].at \in Still
  BY DEF Begin, Still
<1> QED  BY <1>1, OnlyTheJob DEF Begin

LEMMA InsertRowKeeps ==
  ASSUME Apart, NEW f, RepositoryHeld(f), NEW c \in Client, NEW t, Insert(c, t, TRUE)
  PROVE  RepositoryInv' /\ Untouched(store, store')
<1> DEFINE w == [kind |-> "insert", ts |-> <<t>>]
<1>1. w \in Work[c] /\ w.ts = <<t>> /\ Begin(c, Lookup(<<t>>, TRUE))
  BY DEF Insert
<1> HIDE DEF w
<1>2. <<t>> \in Seq(Torrent) /\ \A k \in DOMAIN <<t>> : IdOf(<<t>>[k]) # 0 => IdOf(<<t>>[k]) \in Reach(c)
  BY <1>1, WorkReaches
<1> DEFINE ts == <<t>>
<1>3. ts \in Seq(Torrent) /\ \A k \in DOMAIN ts : IdOf(ts[k]) # 0 => IdOf(ts[k]) \in Reach(c)
  BY <1>2
<1>4. Begin(c, Lookup(ts, TRUE)) /\ RepositoryTypeOK
  BY <1>1 DEF RepositoryHeld
<1> HIDE DEF ts
<1>5. Sound(c, Lookup(ts, TRUE), store, fileStore) /\ Lookup(ts, TRUE).at \in Calm
  BY <1>3, <1>4, LookupSound
<1>6. Lookup(ts, TRUE).at \in Still
  BY <1>5 DEF Calm, Still
<1> QED  BY <1>4, <1>5, <1>6, BeginKeeps

LEMMA InsertManyKeeps ==
  ASSUME Apart, NEW f, RepositoryHeld(f), NEW c \in Client, NEW ts, InsertMany(c, ts, TRUE)
  PROVE  RepositoryInv' /\ Untouched(store, store')
<1> DEFINE w == [kind |-> "batch", ts |-> ts]
<1>1. w \in Work[c] /\ w.ts = ts /\ Begin(c, Lookup(ts, TRUE))
  BY DEF InsertMany
<1> HIDE DEF w
<1>3. ts \in Seq(Torrent) /\ \A k \in DOMAIN ts : IdOf(ts[k]) # 0 => IdOf(ts[k]) \in Reach(c)
  BY <1>1, WorkReaches
<1>5. Sound(c, Lookup(ts, TRUE), store, fileStore) /\ Lookup(ts, TRUE).at \in Calm
  BY <1>3, LookupSound DEF RepositoryHeld
<1>6. Lookup(ts, TRUE).at \in Still
  BY <1>5 DEF Calm, Still
<1> QED  BY <1>1, <1>5, <1>6, BeginKeeps

LEMMA RemoveRowKeeps ==
  ASSUME Apart, RemovedWeigh, NEW f, RepositoryHeld(f), NEW c \in Client, NEW t,
         RemoveRow(c, t, TRUE)
  PROVE  RepositoryInv' /\ Untouched(store, store')
<1> DEFINE w == [kind |-> "remove", ts |-> <<t>>]
           old == store[IdOf(t)]
           j == [IdleJob EXCEPT !.at = "delete", !.ts = <<t>>,
                                !.found = IF old = NoRow THEN <<>> ELSE <<old>>]
<1>1. w \in Work[c] /\ w.ts = <<t>> /\ IdOf(t) # 0
  BY DEF RemoveRow
<1>8. t.hash \notin Sizeless
  BY <1>1 DEF RemovedWeigh
<1>2. Begin(c, j) \/ Begin(c, IdleJob)
  <2>1. Resolve(t, TRUE) = old
    BY DEF Resolve
  <2>2. Begin(c, IF old.hash \in {"none", t.hash} THEN j ELSE IdleJob)
    BY <2>1 DEF RemoveRow
  <2> HIDE DEF j
  <2> QED  BY <2>2
<1> HIDE DEF w
<1>3. <<t>> \in Seq(Torrent) /\ \A k \in DOMAIN <<t>> : IdOf(<<t>>[k]) # 0 => IdOf(<<t>>[k]) \in Reach(c)
  BY <1>1, WorkReaches
<1>4. 1 \in DOMAIN <<t>> /\ <<t>>[1] = t
  OBVIOUS
<1>5. IdOf(t) \in Reach(c)
  BY <1>1, <1>3, <1>4
<1>6. CASE Begin(c, j)
  <2>1. Sound(c, j, store, fileStore) /\ j.at = "delete"
    <3>1. RepositoryTypeOK
      BY DEF RepositoryHeld
    <3>2. j = RemovalJob(t, old)
      BY DEF RemovalJob
    <3> HIDE DEF j
    <3>3. t.hash \notin Sizeless
      BY <1>8
    <3> QED  BY <1>1, <1>3, <1>5, <3>1, <3>2, <3>3, RemovalSound
  <2> HIDE DEF j
  <2>2. j.at \in Still
    BY <2>1 DEF Still
  <2> QED  BY <1>6, <2>1, <2>2, BeginKeeps
<1>7. CASE Begin(c, IdleJob)
  <2>1. Sound(c, IdleJob, store, fileStore) /\ IdleJob.at \in Still
    BY IdleSound DEF Calm, Still
  <2> QED  BY <1>7, <2>1, BeginKeeps
<1> QED  BY <1>2, <1>6, <1>7

LEMMA ReadCountKeeps ==
  ASSUME Apart, NEW f, RepositoryHeld(f), NEW c \in Client, ReadCount(c, TRUE)
  PROVE  RepositoryInv' /\ Untouched(store, store')
<1> DEFINE j == doing[c]
           k == [j EXCEPT !.at = "saveFiles", !.oldCount = store[Slot(c)].files]
<1>1. j.at = "readCount" /\ j.at \in Merging /\ j.at \in Still
  BY DEF ReadCount, Now, Merging, Still
<1>2. /\ Sound(c, j, store, fileStore) /\ JobOf(c, j) /\ DOMAIN j.found # {}
      /\ ToMerge(j, store) /\ ToAdd(j, store)
      /\ store[Slot(c)] = Copy(j) /\ Copy(j).hash = Offered(j).hash /\ Slot(c) = IdOf(Offered(j))
      /\ Copy(j) \in Torrent
  BY <1>1, AtPosition
<1>3. doing' = [doing EXCEPT ![c] = k]
  BY <1>2 DEF ReadCount, Resolve
<1>4. /\ k.ts = j.ts /\ k.found = j.found /\ k.new = j.new /\ k.at = "saveFiles" /\ k.oldCount = Copy(j).files
      /\ k = [at |-> k.at, ts |-> k.ts, found |-> k.found, new |-> k.new, oldCount |-> k.oldCount]
  <2>1. PICK q : q = k
    OBVIOUS
  <2> HIDE DEF k
  <2>2. /\ q.ts = j.ts /\ q.found = j.found /\ q.new = j.new /\ q.at = "saveFiles" /\ q.oldCount = Copy(j).files
        /\ q = [at |-> q.at, ts |-> q.ts, found |-> q.found, new |-> q.new, oldCount |-> q.oldCount]
    BY <1>2, <2>1 DEF JobOf, k
  <2> QED  BY <2>1, <2>2
<1> HIDE DEF k
<1>5. Copy(j).files = 0 /\ Backfills(Offered(j), Copy(j))
  BY <1>1, <1>2 DEF Sound, Backfills
<1>6. JobOf(c, k)
  BY <1>2, <1>4, <1>5 DEF JobOf, Stages
<1>7. Offered(k) = Offered(j) /\ Copy(k) = Copy(j) /\ ToMerge(k, store) /\ ToAdd(k, store)
  BY <1>2, <1>4 DEF Position, Offered, Copy, ToMerge, ToAdd, FreshCopy, Wanted
<1>8. Sound(c, k, store, fileStore) /\ k.at \in Still
  BY <1>2, <1>4, <1>5, <1>6, <1>7 DEF Sound, Merging, Removing, Still
<1> QED  BY <1>1, <1>3, <1>8, OnlyTheJob DEF ReadCount

LEMMA CheckSlotKeeps ==
  ASSUME Apart, NEW f, RepositoryHeld(f), NEW c \in Client, CheckSlot(c, TRUE)
  PROVE  RepositoryInv' /\ Untouched(store, store')
<1> DEFINE j == doing[c]
           k == [j EXCEPT !.at = "rewrite"]
<1>1. j.at = "checkSlot" /\ j.at \in Merging /\ j.at \in Still
  BY DEF CheckSlot, Now, Merging, Still
<1>2. /\ Sound(c, j, store, fileStore) /\ JobOf(c, j) /\ DOMAIN j.found # {}
      /\ ToMerge(j, store) /\ ToAdd(j, store)
      /\ store[Slot(c)].hash = Offered(j).hash
  BY <1>1, AtPosition
<1>3. Goto(c, "rewrite")
  BY <1>2 DEF CheckSlot, Resolve, Slot
<1>4. doing' = [doing EXCEPT ![c] = k]
  BY <1>3, GoneTo DEF RepositoryHeld
<1>5. /\ JobOf(c, k) /\ k.at = "rewrite" /\ k.found = j.found /\ Offered(k) = Offered(j) /\ Copy(k) = Copy(j)
      /\ ToMerge(k, store) /\ ToAdd(k, store)
  BY <1>2, JobAt DEF Stages
<1> HIDE DEF k
<1>6. Sound(c, k, store, fileStore) /\ k.at \in Still
  BY <1>1, <1>2, <1>5 DEF Sound, Merging, Removing, Still
<1> QED  BY <1>1, <1>4, <1>6, OnlyTheJob DEF CheckSlot

\* The tables are of their kinds; the counters follow the table that is counted.
LEMMA TypedTables ==
  ASSUME RepositoryTypeOK
  PROVE  /\ store \in Rows /\ fileStore \in [Slots -> Infohash \cup {"none"}]
         /\ stats = [torrents |-> stats.torrents, files |-> stats.files]
         /\ stats.torrents \in Nat /\ stats.files \in Nat
         /\ \A i \in Slots : store[i] # NoRow => IdOf(store[i]) = i
BY DEF RepositoryTypeOK, Rows

LEMMA Bumped ==
  ASSUME NEW d \in Int, NEW e \in Int, stats.torrents + d \in Nat, stats.files + e \in Nat, Bump(d, e)
  PROVE  /\ stats' \in [torrents : Nat, files : Nat]
         /\ stats'.torrents = stats.torrents + d /\ stats'.files = stats.files + e
<1>1. Max({0, stats.torrents + d}) = stats.torrents + d /\ Max({0, stats.files + e}) = stats.files + e
  BY MaxOfNat
<1> QED  BY <1>1 DEF Bump

LEMMA SaveFilesKeeps ==
  ASSUME Apart, NEW f, RepositoryHeld(f), NEW c \in Client, SaveFiles(c, TRUE)
  PROVE  RepositoryInv' /\ Untouched(store, store')
<1> DEFINE j == doing[c]
           k == [j EXCEPT !.at = "setFiles"]
           i == IdOf(Offered(j))
<1>1. j.at = "saveFiles" /\ j.at \in Merging /\ j.at \in Still
  BY DEF SaveFiles, Now, Merging, Still
<1>2. /\ Sound(c, j, store, fileStore) /\ JobOf(c, j) /\ DOMAIN j.found # {}
      /\ ToMerge(j, store) /\ ToAdd(j, store) /\ i \in Reach(c) /\ i \in Slots /\ Slot(c) = i
      /\ Offered(j) \in Torrent
  BY <1>1, AtPosition
<1>3. doing' = [doing EXCEPT ![c] = k]
  BY GoneTo DEF SaveFiles, RepositoryHeld
<1>4. /\ JobOf(c, k) /\ k.at = "setFiles" /\ k.found = j.found /\ Offered(k) = Offered(j) /\ Copy(k) = Copy(j)
      /\ ToMerge(k, store) /\ ToAdd(k, store) /\ k.oldCount = j.oldCount
  BY <1>2, JobAt DEF Stages
<1>5. /\ fileStore' = [fileStore EXCEPT ![i] = Offered(j).hash]
      /\ store' = store /\ stats' = stats
  BY <1>2 DEF SaveFiles
<1>6. /\ RepositoryTypeOK /\ f \in Rows /\ StatsAre(f) /\ Local(c, j, store, fileStore, f)
  BY DEF RepositoryHeld
<1> HIDE DEF k, j, i
<1>7. fileStore'[i] = Offered(j).hash /\ (\A n \in Slots : n # i => fileStore'[n] = fileStore[n])
      /\ fileStore' \in [Slots -> Infohash \cup {"none"}]
  BY <1>2, <1>5, <1>6, IdIsSlot DEF RepositoryTypeOK
<1>8. RepositoryTypeOK'
  BY <1>5, <1>6, <1>7 DEF RepositoryTypeOK
<1>9. StatsAre(f)'
  BY <1>5, <1>6 DEF StatsAre
<1>10. Sound(c, k, store', fileStore')
  BY <1>1, <1>2, <1>4, <1>5, <1>7 DEF Sound, Merging, Removing, i
<1>11. ASSUME NEW n \in Reach(c)
       PROVE  /\ FilesOpen(k, n) \/ fileStore'[n] = FilesRow(store'[n])
              /\ f[n] = Account(k, n, store'[n])
  <2>1. n \in Slots
    BY DEF Reach
  <2>2. f[n] = store[n] /\ fileStore[n] = FilesRow(store[n])
    BY <1>1, <1>6, StillRows DEF Local
  <2>3. n = i => FilesOpen(k, n)
    BY <1>4 DEF FilesOpen, i
  <2>4. Account(k, n, store'[n]) = store'[n]
    BY <1>4 DEF Account, Adds, Removes
  <2> QED  BY <1>5, <1>7, <2>1, <2>2, <2>3, <2>4
<1>12. Local(c, k, store', fileStore', f)
  BY <1>10, <1>11 DEF Local
<1>13. \A n \in Slots \ Reach(c) : store'[n] = store[n] /\ fileStore'[n] = fileStore[n] /\ f[n] = f[n]
  BY <1>2, <1>5, <1>7
<1>14. RepositoryInv'
  BY <1>3, <1>6, <1>8, <1>9, <1>12, <1>13, StepKeeps
<1> QED  BY <1>5, <1>6, <1>14, SameUntouched

LEMMA SetFilesKeeps ==
  ASSUME Apart, NEW f, RepositoryHeld(f), NEW c \in Client, SetFiles(c, TRUE)
  PROVE  RepositoryInv' /\ Untouched(store, store')
<1> DEFINE j == doing[c]
           b == Backfilled(j)
           i == IdOf(Offered(j))
           p == Position(j)
           row == [Copy(j) EXCEPT !.files = Offered(j).files]
<1>1. j.at = "setFiles" /\ j.at \in Merging
  BY DEF SetFiles, Now, Merging
<1>2. /\ Sound(c, j, store, fileStore) /\ JobOf(c, j) /\ DOMAIN j.found # {}
      /\ ToMerge(j, store) /\ ToAdd(j, store) /\ i \in Reach(c) /\ i \in Slots /\ Slot(c) = i
      /\ Offered(j) \in Torrent /\ Copy(j) \in Torrent /\ i \notin DOMAIN j.new
      /\ store[i] = Copy(j) /\ Copy(j).hash = Offered(j).hash
      /\ p \in DOMAIN j.found /\ Copy(j) = j.found[p] /\ Offered(j) = j.ts[p] /\ p \in DOMAIN j.ts
      /\ \A n \in DOMAIN j.found \ {p} : IdOf(j.ts[n]) # i
  BY <1>1, AtPosition
<1>3. /\ j.oldCount = 0 /\ Copy(j).files = 0 /\ fileStore[i] = Offered(j).hash
      /\ Offered(j).files > 0 /\ Offered(j).files \in Nat
  BY <1>1, <1>2, IdIsSlot DEF Sound, Backfills
<1>4. /\ RepositoryTypeOK /\ f \in Rows /\ StatsAre(f) /\ Local(c, j, store, fileStore, f)
  BY DEF RepositoryHeld
<1>5. row \in Torrent /\ row.files = Offered(j).files /\ row.hash = Copy(j).hash /\ row.votes = Copy(j).votes
      /\ IdOf(row) = i
  BY <1>2, <1>3 DEF Torrent, IdOf
<1>6. /\ store' = [store EXCEPT ![i] = row] /\ fileStore' = fileStore
      /\ doing' = [doing EXCEPT ![c] = AfterFiles(b)]
      /\ Bump(0, Offered(j).files - j.oldCount)
  <2>1. store[Slot(c)] # NoRow
    BY <1>2, IdIsSlot
  <2>2. store' = [store EXCEPT ![i].files = Offered(j).files]
    BY <1>2, <2>1 DEF SetFiles
  <2>3. [store EXCEPT ![i].files = Offered(j).files] = [store EXCEPT ![i] = [store[i] EXCEPT !.files = Offered(j).files]]
    BY <1>4, TypedTables DEF Rows
  <2>4. fileStore' = fileStore /\ doing' = [doing EXCEPT ![c] = AfterFiles(b)]
        /\ Bump(0, Offered(j).files - j.oldCount)
    BY DEF SetFiles
  <2> QED  BY <1>2, <2>2, <2>3, <2>4
<1>7. /\ b.ts = j.ts /\ b.new = j.new /\ b.at = j.at /\ b.oldCount = j.oldCount
      /\ DOMAIN b.found = DOMAIN j.found /\ b.found[p] = row
      /\ (\A n \in DOMAIN j.found : n # p => b.found[n] = j.found[n])
      /\ b.found \in [DOMAIN j.found -> Torrent]
      /\ b = [at |-> b.at, ts |-> b.ts, found |-> b.found, new |-> b.new, oldCount |-> b.oldCount]
  <2> DEFINE h == [j.found EXCEPT ![p] = row]
  <2>1. PICK q : q = [j EXCEPT !.found = h]
    OBVIOUS
  <2>2. b = q
    BY <1>2, <2>1 DEF Backfilled, JobOf
  <2>3. /\ DOMAIN h = DOMAIN j.found /\ h[p] = row /\ h \in [DOMAIN j.found -> Torrent]
        /\ (\A n \in DOMAIN j.found : n # p => h[n] = j.found[n])
    <3>1. j.found \in [DOMAIN j.found -> Torrent]
      BY <1>2 DEF JobOf
    <3> HIDE DEF row, j, p
    <3> QED  BY <1>2, <1>5, <3>1
  <2>4. j = [at |-> j.at, ts |-> j.ts, found |-> j.found, new |-> j.new, oldCount |-> j.oldCount]
    BY <1>2 DEF JobOf
  <2> HIDE DEF h, b, row, j, p
  <2>5. /\ q.ts = j.ts /\ q.new = j.new /\ q.at = j.at /\ q.oldCount = j.oldCount /\ q.found = h
        /\ q = [at |-> q.at, ts |-> q.ts, found |-> q.found, new |-> q.new, oldCount |-> q.oldCount]
    BY <2>1, <2>4
  <2> QED  BY <2>2, <2>3, <2>5
<1>20. PICK g : g = [f EXCEPT ![i] = row]
  OBVIOUS
<1>21. g \in Rows /\ g[i] = row /\ \A n \in Slots : n # i => g[n] = f[n]
  BY <1>2, <1>4, <1>5, <1>20 DEF Rows
<1>8. /\ g \in Rows /\ f[i] = Copy(j)
      /\ Total(FileCounts(g), Slots) = Total(FileCounts(f), Slots) + Offered(j).files
      /\ Cardinality(Stored(g)) = Cardinality(Stored(f))
  <2>1. f[i] = store[i]
    <3>1. Account(j, i, store[i]) = store[i]
      BY <1>1 DEF Account, Adds, Removes
    <3> QED  BY <1>2, <1>4, <3>1 DEF Local
  <2>2. f[i] # NoRow /\ row # NoRow
    BY <1>2, <1>5, <2>1, IdIsSlot
  <2>4. /\ g \in Rows /\ Cardinality(Stored(g)) = Cardinality(Stored(f))
        /\ Total(FileCounts(g), Slots) = (Total(FileCounts(f), Slots) - f[i].files) + row.files
    <3>1. f \in Rows /\ i \in Slots /\ row \in Torrent \cup {NoRow} /\ f[i] # NoRow /\ row # NoRow
      BY <1>2, <1>4, <1>5, <2>2
    <3> HIDE DEF i, row, j
    <3> QED  BY <1>21, <3>1, OneRow
  <2>5. Total(FileCounts(f), Slots) \in Nat
    BY <1>4, CountsOf
  <2> QED  BY <1>2, <1>3, <1>5, <2>1, <2>4, <2>5
<1> HIDE DEF j, b, i, p, row
<1>9. g[i] = row /\ \A n \in Slots : n # i => g[n] = f[n]
  BY <1>21
<1>10. store'[i] = row /\ \A n \in Slots : n # i => store'[n] = store[n]
  BY <1>2, <1>4, <1>6, TypedTables DEF Rows
<1>11. /\ stats' \in [torrents : Nat, files : Nat]
       /\ stats'.torrents = stats.torrents /\ stats'.files = stats.files + Offered(j).files
  <2> DEFINE n == Offered(j).files
  <2>1. n \in Nat /\ Bump(0, n)
    BY <1>3, <1>6
  <2>2. stats.torrents \in Nat /\ stats.files \in Nat
    BY <1>4, TypedTables
  <2> HIDE DEF n
  <2>3. stats.torrents + 0 \in Nat /\ stats.files + n \in Nat /\ 0 \in Int /\ n \in Int
    BY <2>1, <2>2
  <2>4. /\ stats' \in [torrents : Nat, files : Nat]
        /\ stats'.torrents = stats.torrents + 0 /\ stats'.files = stats.files + n
    BY <2>1, <2>3, Bumped
  <2> QED  BY <2>2, <2>4 DEF n
<1>12. StatsAre(g)'
  BY <1>4, <1>8, <1>11 DEF StatsAre
<1>13. RepositoryTypeOK'
  <2>1. store' \in [Slots -> Torrent \cup {NoRow}]
    BY <1>4, <1>5, <1>6 DEF RepositoryTypeOK
  <2>2. \A n \in Slots : store'[n] # NoRow => IdOf(store'[n]) = n
    BY <1>4, <1>5, <1>10 DEF RepositoryTypeOK
  <2> QED  BY <1>4, <1>6, <1>11, <2>1, <2>2 DEF RepositoryTypeOK
<1>14. Sound(c, AfterFiles(b), store', fileStore') /\ AfterFiles(b).at \in Still
  <2>1. JobOf(c, b) /\ DOMAIN b.found # {}
    BY <1>2, <1>7 DEF JobOf
  <2>2. ToAdd(b, store')
    <3>1. \A n \in DOMAIN j.new : n \in Slots
      BY <1>2 DEF JobOf, Reach
    <3> QED  BY <1>2, <1>7, <1>10, <3>1 DEF ToAdd
  <2>3. Position(b) = p
    BY <1>7 DEF Position, p
  <2>4. \A n \in DOMAIN j.found : FreshCopy(j, store, n) /\ Wanted(j, n)
    BY <1>2 DEF ToMerge
  <2>5. ASSUME NEW n \in DOMAIN b.found PROVE FreshCopy(b, store', n)
    <3>1. IdOf(j.ts[n]) # 0 /\ j.found[n].hash = j.ts[n].hash /\ store[IdOf(j.ts[n])] = j.found[n]
      BY <1>7, <2>4, <2>5 DEF FreshCopy
    <3>2. IdOf(j.ts[n]) \in Slots
      BY <1>2, <1>7, <3>1 DEF JobOf, Reach
    <3>3. \A m \in DOMAIN b.found : b.ts[m].hash = b.ts[n].hash => m = n
      BY <1>7, <2>4, <2>5 DEF FreshCopy
    <3>4. CASE n = p
      <4>1. IdOf(b.ts[n]) = i /\ b.found[n] = row
        BY <1>2, <1>7, <3>4 DEF i
      <4> QED  BY <1>2, <1>5, <1>7, <1>10, <3>1, <3>3, <3>4, <4>1 DEF FreshCopy
    <3>5. CASE n # p
      <4>1. IdOf(j.ts[n]) # i
        BY <1>2, <1>7, <3>5
      <4> QED  BY <1>7, <1>10, <3>1, <3>2, <3>3, <3>5, <4>1 DEF FreshCopy
    <3> QED  BY <3>4, <3>5
  <2>6. \A n \in DOMAIN b.found \ {Position(b)} : Wanted(b, n)
    BY <1>7, <2>3, <2>4 DEF Wanted
  <2>7. Sound(c, AfterFiles(b), store', fileStore') /\ AfterFiles(b).at \in Calm
    BY <2>1, <2>2, <2>5, <2>6, AfterFilesSound
  <2> QED  BY <2>7 DEF Calm, Still
<1>15. ASSUME NEW n \in Reach(c)
       PROVE  fileStore'[n] = FilesRow(store'[n]) /\ g[n] = store'[n]
  <2>1. n \in Slots
    BY DEF Reach
  <2>2. CASE n = i
    BY <1>2, <1>3, <1>5, <1>6, <1>9, <1>10, <2>2 DEF FilesRow
  <2>3. CASE n # i
    <3>1. ~FilesOpen(j, n) /\ Account(j, n, store[n]) = store[n]
      BY <1>1, <2>3 DEF FilesOpen, Account, Adds, Removes, i
    <3>2. fileStore[n] = FilesRow(store[n]) /\ f[n] = store[n]
      BY <1>4, <3>1 DEF Local
    <3> QED  BY <1>6, <1>9, <1>10, <2>1, <2>3, <3>2
  <2> QED  BY <2>2, <2>3
<1>16. Local(c, AfterFiles(b), store', fileStore', g)
  BY <1>14, <1>15, StillRows DEF Local
<1>19. \A n \in Slots \ Reach(c) : store'[n] = store[n] /\ fileStore'[n] = fileStore[n] /\ g[n] = f[n]
  BY <1>2, <1>6, <1>9, <1>10
<1>17. RepositoryInv'
  BY <1>6, <1>8, <1>12, <1>13, <1>16, <1>19, StepKeeps
<1>18. Untouched(store, store')
  <2>1. \A n \in Slots : store[n].votes \in Nat /\ store[n].files \in Nat
    BY <1>4, RowIs, TypedTables DEF Rows
  <2>2. Stored(store) \subseteq Slots
    BY <1>4, TypedTables DEF Stored, Rows
  <2> QED  BY <1>2, <1>3, <1>5, <1>10, <2>1, <2>2 DEF Untouched
<1> QED  BY <1>17, <1>18

LEMMA RewriteKeeps ==
  ASSUME Apart, NEW f, RepositoryHeld(f), NEW c \in Client, NEW ok \in BOOLEAN, Rewrite(c, ok)
  PROVE  RepositoryInv' /\ Untouched(store, store')
<1> DEFINE j == doing[c]
           i == IdOf(Offered(j))
           p == Position(j)
           row == [Copy(j) EXCEPT !.votes = Offered(j).votes]
<1>1. j.at = "rewrite" /\ j.at \in Merging /\ j.at \in Still
  BY DEF Rewrite, Now, Merging, Still
<1>2. /\ Sound(c, j, store, fileStore) /\ JobOf(c, j) /\ DOMAIN j.found # {}
      /\ ToMerge(j, store) /\ ToAdd(j, store) /\ i \in Reach(c) /\ i \in Slots /\ Slot(c) = i
      /\ Offered(j) \in Torrent /\ Copy(j) \in Torrent /\ i \notin DOMAIN j.new
      /\ store[i] = Copy(j) /\ Copy(j).hash = Offered(j).hash
      /\ p \in DOMAIN j.found
      /\ \A n \in DOMAIN j.found \ {p} : IdOf(j.ts[n]) # i
  BY <1>1, AtPosition
<1>3. Offered(j).votes > Copy(j).votes /\ Offered(j).votes \in Nat /\ Copy(j).votes \in Nat
  BY <1>1, <1>2, IdIsSlot DEF Sound, Outvotes
<1>4. /\ RepositoryTypeOK /\ f \in Rows /\ StatsAre(f) /\ Local(c, j, store, fileStore, f)
  BY DEF RepositoryHeld
<1>5. row \in Torrent /\ row.files = Copy(j).files /\ row.hash = Copy(j).hash /\ row.votes = Offered(j).votes
      /\ IdOf(row) = i
  BY <1>2, <1>3 DEF Torrent, IdOf
<1>6. /\ store' = (IF ok THEN [store EXCEPT ![i] = row] ELSE store)
      /\ fileStore' = fileStore /\ stats' = stats /\ doing' = [doing EXCEPT ![c] = Merged(j)]
  BY <1>2 DEF Rewrite
<1>7. ASSUME NEW st, \A n \in Slots : n # i => st[n] = store[n], st[i] # NoRow \/ st = store
      PROVE  Sound(c, Merged(j), st, fileStore) /\ Merged(j).at \in Still
  <2>1. ToAdd(j, st)
    <3>1. \A n \in DOMAIN j.new : n \in Slots /\ n # i
      BY <1>2 DEF JobOf, Reach
    <3> QED  BY <1>2, <1>7, <3>1 DEF ToAdd
  <2>2. ASSUME NEW n \in DOMAIN j.found \ {p} PROVE FreshCopy(j, st, n) /\ Wanted(j, n)
    <3>1. FreshCopy(j, store, n) /\ Wanted(j, n) /\ IdOf(j.ts[n]) # i
      BY <1>2 DEF ToMerge
    <3>2. IdOf(j.ts[n]) \in Slots
      BY <1>2, <3>1 DEF JobOf, Reach, FreshCopy
    <3> QED  BY <1>7, <3>1, <3>2 DEF FreshCopy
  <2>3. Sound(c, Merged(j), st, fileStore) /\ Merged(j).at \in Calm
    BY <1>2, <2>1, <2>2, MergedSound
  <2> QED  BY <2>3 DEF Calm, Still
<1>8. ASSUME NEW n \in Reach(c)
      PROVE  n \in Slots /\ f[n] = store[n] /\ fileStore[n] = FilesRow(store[n])
  BY <1>1, <1>4, StillRows DEF Local, Reach
<1>9. CASE ~ok
  <2>1. store' = store
    BY <1>6, <1>9
  <2>2. Sound(c, Merged(j), store, fileStore) /\ Merged(j).at \in Still
    BY <1>7
  <2> HIDE DEF p, row, i
  <2> QED  BY <1>1, <1>6, <2>1, <2>2, OnlyTheJob
<1>10. CASE ok
  <2> HIDE DEF j, i, p, row
  <2>1. PICK g : g = [f EXCEPT ![i] = row]
    OBVIOUS
  <2>2. g \in Rows /\ g[i] = row /\ \A n \in Slots : n # i => g[n] = f[n]
    BY <1>2, <1>4, <1>5, <2>1 DEF Rows
  <2>3. store' \in Rows /\ store'[i] = row /\ \A n \in Slots : n # i => store'[n] = store[n]
    BY <1>2, <1>4, <1>5, <1>6, <1>10, TypedTables DEF Rows
  <2>4. f[i] = store[i] /\ f[i] # NoRow /\ row # NoRow /\ f[i].files = row.files
    BY <1>2, <1>5, <1>8, IdIsSlot
  <2>5. /\ Cardinality(Stored(g)) = Cardinality(Stored(f))
        /\ Total(FileCounts(g), Slots) = (Total(FileCounts(f), Slots) - f[i].files) + row.files
    <3>1. row \in Torrent \cup {NoRow}
      BY <1>5
    <3> QED  BY <1>2, <1>4, <2>2, <2>4, <3>1, OneRow
  <2>6. Total(FileCounts(f), Slots) \in Nat /\ row.files \in Nat
    BY <1>4, <1>5, CountsOf, IdIsSlot
  <2>7. Total(FileCounts(g), Slots) = Total(FileCounts(f), Slots)
    BY <2>4, <2>5, <2>6
  <2>8. StatsAre(g)'
    BY <1>4, <1>6, <2>5, <2>7 DEF StatsAre
  <2>9. RepositoryTypeOK'
    <3>1. \A n \in Slots : store'[n] # NoRow => IdOf(store'[n]) = n
      BY <1>4, <1>5, <2>3 DEF RepositoryTypeOK
    <3> QED  BY <1>4, <1>6, <2>3, <3>1 DEF RepositoryTypeOK, Rows
  <2>10. Sound(c, Merged(j), store', fileStore') /\ Merged(j).at \in Still
    BY <1>6, <1>7, <2>3, <2>4
  <2>11. ASSUME NEW n \in Reach(c)
         PROVE  fileStore'[n] = FilesRow(store'[n]) /\ g[n] = store'[n]
    BY <1>2, <1>5, <1>6, <1>8, <2>2, <2>3 DEF FilesRow
  <2>12. Local(c, Merged(j), store', fileStore', g)
    BY <2>10, <2>11, StillRows DEF Local
  <2>13. \A n \in Slots \ Reach(c) : store'[n] = store[n] /\ fileStore'[n] = fileStore[n] /\ g[n] = f[n]
    BY <1>2, <1>6, <2>2, <2>3
  <2>14. RepositoryInv'
    BY <1>6, <2>2, <2>8, <2>9, <2>12, <2>13, StepKeeps
  <2>15. Untouched(store, store')
    <3>1. \A n \in Slots : store[n].votes \in Nat /\ store[n].files \in Nat
      BY <1>4, RowIs, TypedTables DEF Rows
    <3>2. Stored(store) \subseteq Slots
      BY <1>4, TypedTables DEF Stored, Rows
    <3> QED  BY <1>2, <1>3, <1>5, <2>3, <3>1, <3>2 DEF Untouched
  <2> QED  BY <2>14, <2>15
<1> QED  BY <1>9, <1>10

LEMMA WriteRowsKeeps ==
  ASSUME Apart, NEW f, RepositoryHeld(f), NEW c \in Client, NEW ok \in BOOLEAN, WriteRows(c, ok)
  PROVE  RepositoryInv' /\ Untouched(store, store')
<1> DEFINE j == doing[c]
           k == [j EXCEPT !.at = "writeFiles"]
           D == DOMAIN j.new
<1>1. j.at = "write" /\ j.at \in Still
  BY DEF WriteRows, Now, Still
<1>2. Sound(c, j, store, fileStore) /\ JobOf(c, j) /\ ToAdd(j, store)
  BY <1>1 DEF RepositoryHeld, Local, Sound
<1>3. /\ RepositoryTypeOK /\ f \in Rows /\ StatsAre(f) /\ Local(c, j, store, fileStore, f)
  BY DEF RepositoryHeld
<1>4. ASSUME NEW n \in Reach(c)
      PROVE  n \in Slots /\ f[n] = store[n] /\ fileStore[n] = FilesRow(store[n])
  BY <1>1, <1>3, StillRows DEF Local, Reach
<1>5. CASE ~ok
  <2>1. UNCHANGED <<store, fileStore, stats>> /\ doing' = [doing EXCEPT ![c] = IdleJob]
    BY <1>5 DEF WriteRows
  <2>2. Sound(c, IdleJob, store, fileStore) /\ IdleJob.at \in Still
    BY IdleSound DEF Calm, Still
  <2> QED  BY <1>1, <2>1, <2>2, OnlyTheJob
<1>6. CASE ok
  <2>1. /\ store' = [n \in Slots |-> IF n \in D THEN j.new[n] ELSE store[n]]
        /\ fileStore' = fileStore /\ stats' = stats /\ Goto(c, "writeFiles")
    BY <1>6 DEF WriteRows
  <2>2. doing' = [doing EXCEPT ![c] = k]
    BY <2>1, GoneTo DEF RepositoryHeld
  <2>3. JobOf(c, k) /\ k.at = "writeFiles" /\ k.new = j.new
    BY <1>2, JobAt DEF Stages
  <2>4. D \subseteq Reach(c) /\ \A n \in D : j.new[n] \in Torrent /\ IdOf(j.new[n]) = n
    BY <1>2 DEF JobOf
  <2> HIDE DEF j, k
  <2>5. /\ (\A n \in D : store'[n] = j.new[n] /\ store[n] = NoRow)
        /\ (\A n \in Slots \ D : store'[n] = store[n])
    BY <1>2, <1>4, <2>1, <2>4 DEF ToAdd
  <2>6. store' \in Rows
    BY <1>3, <2>1, <2>4, TypedTables DEF Rows
  <2>7. RepositoryTypeOK'
    <3>1. \A n \in Slots : store'[n] # NoRow => IdOf(store'[n]) = n
      BY <1>3, <2>4, <2>5 DEF RepositoryTypeOK
    <3> QED  BY <1>3, <2>1, <2>6, <3>1 DEF RepositoryTypeOK, Rows
  <2>8. StatsAre(f)'
    BY <1>3, <2>1 DEF StatsAre
  <2>9. \A n \in D : fileStore'[n] = "none"
    BY <1>4, <2>1, <2>4, <2>5 DEF FilesRow, NoRow
  <2>10. Sound(c, k, store', fileStore')
    BY <2>3, <2>5, <2>9 DEF Sound, Merging, Removing
  <2>11. ASSUME NEW n \in Reach(c)
         PROVE  /\ FilesOpen(k, n) \/ fileStore'[n] = FilesRow(store'[n])
                /\ f[n] = Account(k, n, store'[n])
    <3>1. CASE n \in D
      <4>1. FilesOpen(k, n) /\ Account(k, n, store'[n]) = NoRow
        BY <2>3, <3>1 DEF FilesOpen, Account, Adds
      <4> QED  BY <1>4, <2>5, <3>1, <4>1
    <3>2. CASE n \notin D
      <4>1. Account(k, n, store'[n]) = store'[n]
        BY <2>3, <3>2 DEF Account, Adds, Removes
      <4> QED  BY <1>4, <2>1, <2>5, <3>2, <4>1
    <3> QED  BY <3>1, <3>2
  <2>12. Local(c, k, store', fileStore', f)
    BY <2>10, <2>11 DEF Local
  <2>13. \A n \in Slots \ Reach(c) : store'[n] = store[n] /\ fileStore'[n] = fileStore[n] /\ f[n] = f[n]
    BY <2>1, <2>4, <2>5
  <2>14. RepositoryInv'
    BY <1>3, <2>2, <2>7, <2>8, <2>12, <2>13, StepKeeps
  <2>15. Untouched(store, store')
    <3>1. \A n \in Stored(store) : n \in Slots \ D
      BY <1>3, <2>5, TypedTables DEF Stored, Rows
    <3>2. \A n \in Slots : store[n].votes \in Nat /\ store[n].files \in Nat
      BY <1>3, RowIs, TypedTables DEF Rows
    <3> QED  BY <2>5, <3>1, <3>2 DEF Untouched
  <2> QED  BY <2>14, <2>15
<1> QED  BY <1>5, <1>6

LEMMA WriteFilesKeeps ==
  ASSUME Apart, NEW f, RepositoryHeld(f), NEW c \in Client, WriteFiles(c, TRUE)
  PROVE  RepositoryInv' /\ Untouched(store, store')
<1> DEFINE j == doing[c]
           k == [j EXCEPT !.at = "count"]
           D == DOMAIN j.new
<1>1. j.at = "writeFiles"
  BY DEF WriteFiles, Now
<1>2. Sound(c, j, store, fileStore) /\ JobOf(c, j)
  BY DEF RepositoryHeld, Local, Sound
<1>3. /\ RepositoryTypeOK /\ f \in Rows /\ StatsAre(f) /\ Local(c, j, store, fileStore, f)
  BY DEF RepositoryHeld
<1>4. /\ D \subseteq Reach(c) /\ D \subseteq Slots
      /\ \A n \in D : j.new[n] \in Torrent /\ store[n] = j.new[n] /\ fileStore[n] = "none"
  BY <1>1, <1>2 DEF JobOf, Sound, Reach
<1>5. /\ fileStore' = [n \in Slots |-> IF n \in D /\ j.new[n].files > 0 THEN j.new[n].hash
                                       ELSE fileStore[n]]
      /\ store' = store /\ stats' = stats /\ Goto(c, "count")
  BY DEF WriteFiles
<1>6. doing' = [doing EXCEPT ![c] = k]
  BY <1>5, GoneTo DEF RepositoryHeld
<1>7. JobOf(c, k) /\ k.at = "count" /\ k.new = j.new
  BY <1>2, JobAt DEF Stages
<1> HIDE DEF j, k
<1>8. /\ \A n \in D : fileStore'[n] = FilesRow(store'[n])
      /\ \A n \in Slots \ D : fileStore'[n] = fileStore[n]
  BY <1>4, <1>5 DEF FilesRow
<1>9. RepositoryTypeOK'
  <2>1. \A n \in D : j.new[n].hash \in Infohash
    BY <1>4, IdIsSlot
  <2>2. fileStore' \in [Slots -> Infohash \cup {"none"}]
    BY <1>3, <1>5, <2>1, TypedTables
  <2> QED  BY <1>3, <1>5, <2>2 DEF RepositoryTypeOK
<1>10. StatsAre(f)'
  BY <1>3, <1>5 DEF StatsAre
<1>11. Sound(c, k, store', fileStore')
  BY <1>4, <1>5, <1>7 DEF Sound, Merging, Removing
<1>12. ASSUME NEW n \in Reach(c)
       PROVE  /\ fileStore'[n] = FilesRow(store'[n])
              /\ f[n] = Account(k, n, store'[n])
  <2>1. n \in Slots
    BY DEF Reach
  <2>2. f[n] = Account(j, n, store[n]) /\ (FilesOpen(j, n) \/ fileStore[n] = FilesRow(store[n]))
    BY <1>3 DEF Local
  <2>3. Account(k, n, store'[n]) = Account(j, n, store[n])
    BY <1>1, <1>5, <1>7 DEF Account, Adds, Removes
  <2>4. n \notin D => ~FilesOpen(j, n)
    BY <1>1 DEF FilesOpen
  <2> QED  BY <1>5, <1>8, <2>1, <2>2, <2>3, <2>4
<1>13. Local(c, k, store', fileStore', f)
  BY <1>11, <1>12 DEF Local
<1>14. \A n \in Slots \ Reach(c) : store'[n] = store[n] /\ fileStore'[n] = fileStore[n] /\ f[n] = f[n]
  BY <1>4, <1>5, <1>8
<1>15. RepositoryInv'
  BY <1>3, <1>6, <1>9, <1>10, <1>13, <1>14, StepKeeps
<1> QED  BY <1>3, <1>5, <1>15, SameUntouched

LEMMA CountKeeps ==
  ASSUME Apart, NEW f, RepositoryHeld(f), NEW c \in Client, Count(c)
  PROVE  RepositoryInv' /\ Untouched(store, store')
<1> DEFINE j == doing[c]
           new == j.new
           D == DOMAIN new
<1>1. j.at = "count"
  BY DEF Count, Now
<1>2. Sound(c, j, store, fileStore) /\ JobOf(c, j)
  BY DEF RepositoryHeld, Local, Sound
<1>3. /\ RepositoryTypeOK /\ f \in Rows /\ StatsAre(f) /\ Local(c, j, store, fileStore, f)
  BY DEF RepositoryHeld
<1>4. /\ D \subseteq Reach(c) /\ D \subseteq Slots /\ new \in [D -> Torrent]
      /\ \A n \in D : store[n] = new[n]
  BY <1>1, <1>2 DEF JobOf, Sound, Reach
<1>5. /\ store' = store /\ fileStore' = fileStore /\ doing' = [doing EXCEPT ![c] = IdleJob]
      /\ Bump(Cardinality(D), Total(FileCounts(new), D))
  BY DEF Count
<1>6. ASSUME NEW n \in Reach(c)
      PROVE  /\ n \in Slots /\ fileStore[n] = FilesRow(store[n])
             /\ f[n] = IF n \in D THEN NoRow ELSE store[n]
  <2>1. ~FilesOpen(j, n) /\ Account(j, n, store[n]) = IF n \in D THEN NoRow ELSE store[n]
    BY <1>1 DEF FilesOpen, Account, Adds, Removes
  <2> QED  BY <1>3, <2>1 DEF Local, Reach
<1>20. \A n \in D : f[n] = NoRow
  BY <1>4, <1>6
<1> HIDE DEF new, j
<1>7. PICK g : g = [n \in Slots |-> IF n \in D THEN new[n] ELSE f[n]]
  OBVIOUS
<1>8. /\ g \in Rows
      /\ Total(FileCounts(g), Slots) = Total(FileCounts(f), Slots) + Total(FileCounts(new), D)
      /\ Cardinality(Stored(g)) = Cardinality(Stored(f)) + Cardinality(D)
      /\ Cardinality(D) \in Nat /\ Total(FileCounts(new), D) \in Nat
  BY <1>3, <1>4, <1>7, <1>20, MoreRows
<1>9. /\ stats' \in [torrents : Nat, files : Nat]
      /\ stats'.torrents = stats.torrents + Cardinality(D)
      /\ stats'.files = stats.files + Total(FileCounts(new), D)
  <2> DEFINE d == Cardinality(D)
             e == Total(FileCounts(new), D)
  <2>1. d \in Nat /\ e \in Nat /\ stats.torrents \in Nat /\ stats.files \in Nat /\ Bump(d, e)
    BY <1>3, <1>5, <1>8, TypedTables
  <2> HIDE DEF d, e
  <2>2. d \in Int /\ e \in Int /\ stats.torrents + d \in Nat /\ stats.files + e \in Nat
    BY <2>1
  <2>3. /\ stats' \in [torrents : Nat, files : Nat]
        /\ stats'.torrents = stats.torrents + d /\ stats'.files = stats.files + e
    BY <2>1, <2>2, Bumped
  <2> QED  BY <2>3 DEF d, e
<1>10. StatsAre(g)'
  BY <1>3, <1>8, <1>9 DEF StatsAre
<1>11. RepositoryTypeOK'
  BY <1>3, <1>5, <1>9 DEF RepositoryTypeOK
<1>12. Sound(c, IdleJob, store', fileStore') /\ IdleJob.at \in Still
  BY IdleSound DEF Calm, Still
<1>13. ASSUME NEW n \in Reach(c)
       PROVE  fileStore'[n] = FilesRow(store'[n]) /\ g[n] = store'[n]
  BY <1>4, <1>5, <1>6, <1>7
<1>14. Local(c, IdleJob, store', fileStore', g)
  BY <1>12, <1>13, StillRows DEF Local
<1>15. \A n \in Slots \ Reach(c) : store'[n] = store[n] /\ fileStore'[n] = fileStore[n] /\ g[n] = f[n]
  BY <1>4, <1>5, <1>7
<1>16. RepositoryInv'
  BY <1>5, <1>8, <1>10, <1>11, <1>14, <1>15, StepKeeps
<1> QED  BY <1>3, <1>5, <1>16, SameUntouched

\* What a removal is about.
LEMMA InRemoval ==
  ASSUME NEW f, RepositoryHeld(f), NEW c \in Client, doing[c].at \in Removing
  PROVE  LET j == doing[c]
             i == IdOf(j.ts[1])
         IN /\ Sound(c, j, store, fileStore) /\ JobOf(c, j) /\ Local(c, j, store, fileStore, f)
            /\ i \in Reach(c) /\ i \in Slots /\ DOMAIN j.found \subseteq {1}
            /\ (1 \in DOMAIN j.found => j.found[1] \in Torrent)
            /\ RepositoryTypeOK /\ f \in Rows /\ StatsAre(f)
<1> DEFINE j == doing[c]
           i == IdOf(j.ts[1])
<1>1. Sound(c, j, store, fileStore) /\ JobOf(c, j) /\ Local(c, j, store, fileStore, f)
      /\ RepositoryTypeOK /\ f \in Rows /\ StatsAre(f)
  BY DEF RepositoryHeld, Local, Sound
<1>2. 1 \in DOMAIN j.ts /\ i # 0 /\ DOMAIN j.found \subseteq {1}
  BY <1>1 DEF Sound
<1>3. i \in Reach(c) /\ i \in Slots
  BY <1>1, <1>2 DEF JobOf, Reach
<1>4. 1 \in DOMAIN j.found => j.found[1] \in Torrent
  BY <1>1 DEF JobOf
<1> QED  BY <1>1, <1>2, <1>3, <1>4

LEMMA DeleteKeeps ==
  ASSUME Apart, NEW f, RepositoryHeld(f), NEW c \in Client, Delete(c, TRUE)
  PROVE  RepositoryInv' /\ Untouched(store, store')
<1> DEFINE j == doing[c]
           k == [j EXCEPT !.at = "deleteFiles"]
           i == IdOf(j.ts[1])
<1>1. j.at = "delete" /\ j.at \in Still /\ j.at \in Removing
  BY DEF Delete, Now, Still, Removing
<1>2. /\ Sound(c, j, store, fileStore) /\ JobOf(c, j) /\ Local(c, j, store, fileStore, f)
      /\ i \in Reach(c) /\ i \in Slots /\ DOMAIN j.found \subseteq {1}
      /\ RepositoryTypeOK /\ f \in Rows /\ StatsAre(f)
  BY <1>1, InRemoval
<1>3. store[i] = IF 1 \in DOMAIN j.found THEN j.found[1] ELSE NoRow
  BY <1>1, <1>2 DEF Sound
<1>4. ASSUME NEW n \in Reach(c)
      PROVE  n \in Slots /\ f[n] = store[n] /\ fileStore[n] = FilesRow(store[n])
  BY <1>1, <1>2, StillRows DEF Local, Reach
<1>5. /\ store' = [store EXCEPT ![i] = NoRow] /\ fileStore' = fileStore /\ stats' = stats
      /\ doing' = [doing EXCEPT ![c] = k]
  BY GoneTo DEF Delete, RepositoryHeld
<1>6. JobOf(c, k) /\ k.at = "deleteFiles" /\ k.ts = j.ts /\ k.found = j.found
  BY <1>2, JobAt DEF Stages
<1>7. 1 \in DOMAIN j.ts /\ i # 0 /\ j.ts[1].hash \notin Sizeless
  BY <1>1, <1>2 DEF Sound
<1> HIDE DEF k
<1>8. store'[i] = NoRow /\ (\A n \in Slots : n # i => store'[n] = store[n]) /\ store' \in Rows
  BY <1>2, <1>5, TypedTables DEF Rows
<1>9. RepositoryTypeOK'
  <2>1. \A n \in Slots : store'[n] # NoRow => IdOf(store'[n]) = n
    BY <1>2, <1>8 DEF RepositoryTypeOK
  <2> QED  BY <1>2, <1>5, <1>8, <2>1 DEF RepositoryTypeOK, Rows
<1>10. StatsAre(f)'
  BY <1>2, <1>5 DEF StatsAre
<1>11. Sound(c, k, store', fileStore')
  BY <1>2, <1>6, <1>7, <1>8 DEF Sound, Merging, Removing
<1>12. ASSUME NEW n \in Reach(c)
       PROVE  /\ FilesOpen(k, n) \/ fileStore'[n] = FilesRow(store'[n])
              /\ f[n] = Account(k, n, store'[n])
  <2>1. CASE n = i
    <3>1. FilesOpen(k, n)
      BY <1>6, <2>1 DEF FilesOpen
    <3>2. Account(k, n, NoRow) = IF 1 \in DOMAIN j.found THEN j.found[1] ELSE NoRow
      BY <1>6, <2>1 DEF Account, Adds, Removes
    <3> QED  BY <1>3, <1>4, <1>8, <2>1, <3>1, <3>2
  <2>2. CASE n # i
    <3>1. Account(k, n, store'[n]) = store'[n]
      BY <1>6, <2>2 DEF Account, Adds, Removes
    <3> QED  BY <1>4, <1>5, <1>8, <2>2, <3>1
  <2> QED  BY <2>1, <2>2
<1>13. Local(c, k, store', fileStore', f)
  BY <1>11, <1>12 DEF Local
<1>14. \A n \in Slots \ Reach(c) : store'[n] = store[n] /\ fileStore'[n] = fileStore[n] /\ f[n] = f[n]
  BY <1>2, <1>5, <1>8
<1>15. RepositoryInv'
  BY <1>2, <1>5, <1>9, <1>10, <1>13, <1>14, StepKeeps
<1>16. Untouched(store, store')
  <2>1. \A n \in Slots : store[n].votes \in Nat /\ store[n].files \in Nat
    BY <1>2, RowIs, TypedTables DEF Rows
  <2>2. Stored(store) \subseteq Slots
    BY <1>2, TypedTables DEF Stored, Rows
  <2> QED  BY <1>8, <2>1, <2>2 DEF Untouched
<1> QED  BY <1>15, <1>16

LEMMA DeleteFilesKeeps ==
  ASSUME Apart, NEW f, RepositoryHeld(f), NEW c \in Client, DeleteFiles(c, TRUE)
  PROVE  RepositoryInv' /\ Untouched(store, store')
<1> DEFINE j == doing[c]
           k == IF DOMAIN j.found = {} THEN IdleJob ELSE [j EXCEPT !.at = "uncount"]
           i == IdOf(j.ts[1])
<1>1. j.at = "deleteFiles" /\ j.at \in Removing
  BY DEF DeleteFiles, Now, Removing
<1>2. /\ Sound(c, j, store, fileStore) /\ JobOf(c, j) /\ Local(c, j, store, fileStore, f)
      /\ i \in Reach(c) /\ i \in Slots /\ DOMAIN j.found \subseteq {1}
      /\ RepositoryTypeOK /\ f \in Rows /\ StatsAre(f)
  BY <1>1, InRemoval
<1>3. store[i] = NoRow /\ 1 \in DOMAIN j.ts /\ i # 0 /\ j.ts[1].hash \notin Sizeless
  BY <1>1, <1>2 DEF Sound
<1>4. /\ fileStore' = [fileStore EXCEPT ![i] = "none"] /\ store' = store /\ stats' = stats
      /\ doing' = [doing EXCEPT ![c] = k]
  <2>1. Weighs(j.ts[1], j.found[1])
    BY <1>1, <1>2 DEF Sound, Weighs
  <2> QED  BY <2>1 DEF DeleteFiles, RepositoryHeld
<1>5. /\ JobOf(c, k) /\ k.at = (IF DOMAIN j.found = {} THEN "idle" ELSE "uncount")
      /\ (k.at = "uncount" => k.ts = j.ts /\ k.found = j.found /\ 1 \in DOMAIN j.found)
  <2>1. CASE DOMAIN j.found = {}
    BY <2>1, IdleIsJob
  <2>2. CASE DOMAIN j.found # {}
    <3>1. PICK q : q = [j EXCEPT !.at = "uncount"]
      OBVIOUS
    <3>2. k = q /\ 1 \in DOMAIN j.found
      BY <1>2, <2>2, <3>1
    <3>3. JobOf(c, q) /\ q.at = "uncount" /\ q.ts = j.ts /\ q.found = j.found
      BY <1>2, <3>1, JobAt DEF Stages
    <3> HIDE DEF k
    <3> QED  BY <2>2, <3>2, <3>3
  <2> QED  BY <2>1, <2>2
<1> HIDE DEF k
<1>6. fileStore'[i] = "none" /\ (\A n \in Slots : n # i => fileStore'[n] = fileStore[n])
      /\ fileStore' \in [Slots -> Infohash \cup {"none"}]
  BY <1>2, <1>4, TypedTables
<1>7. RepositoryTypeOK'
  BY <1>2, <1>4, <1>6 DEF RepositoryTypeOK
<1>8. StatsAre(f)'
  BY <1>2, <1>4 DEF StatsAre
<1>9. Sound(c, k, store', fileStore')
  BY <1>2, <1>3, <1>4, <1>5 DEF Sound, Merging, Removing
<1>10. ASSUME NEW n \in Reach(c)
       PROVE  /\ fileStore'[n] = FilesRow(store'[n])
              /\ f[n] = Account(k, n, store'[n])
  <2>1. n \in Slots
    BY DEF Reach
  <2>2. f[n] = Account(j, n, store[n]) /\ (FilesOpen(j, n) \/ fileStore[n] = FilesRow(store[n]))
    BY <1>2 DEF Local
  <2>3. Account(k, n, store'[n]) = Account(j, n, store[n])
    BY <1>1, <1>2, <1>4, <1>5 DEF Account, Adds, Removes
  <2>4. n # i => ~FilesOpen(j, n)
    BY <1>1 DEF FilesOpen
  <2>5. FilesRow(NoRow) = "none"
    BY RowIs
  <2> QED  BY <1>3, <1>4, <1>6, <2>1, <2>2, <2>3, <2>4, <2>5
<1>11. Local(c, k, store', fileStore', f)
  BY <1>9, <1>10 DEF Local
<1>12. \A n \in Slots \ Reach(c) : store'[n] = store[n] /\ fileStore'[n] = fileStore[n] /\ f[n] = f[n]
  BY <1>2, <1>4, <1>6
<1>13. RepositoryInv'
  BY <1>2, <1>4, <1>7, <1>8, <1>11, <1>12, StepKeeps
<1> QED  BY <1>2, <1>4, <1>13, SameUntouched

LEMMA UncountKeeps ==
  ASSUME Apart, NEW f, RepositoryHeld(f), NEW c \in Client, Uncount(c)
  PROVE  RepositoryInv' /\ Untouched(store, store')
<1> DEFINE j == doing[c]
           i == IdOf(j.ts[1])
           t == j.found[1]
<1>1. j.at = "uncount" /\ j.at \in Removing
  BY DEF Uncount, Now, Removing
<1>2. /\ Sound(c, j, store, fileStore) /\ JobOf(c, j) /\ Local(c, j, store, fileStore, f)
      /\ i \in Reach(c) /\ i \in Slots
      /\ RepositoryTypeOK /\ f \in Rows /\ StatsAre(f)
  BY <1>1, InRemoval
<1>3. store[i] = NoRow /\ 1 \in DOMAIN j.found /\ t \in Torrent
  BY <1>1, <1>2 DEF Sound, JobOf
<1>4. /\ store' = store /\ fileStore' = fileStore /\ doing' = [doing EXCEPT ![c] = IdleJob]
      /\ Bump(-1, -t.files)
  BY DEF Uncount
<1>5. ASSUME NEW n \in Reach(c)
      PROVE  /\ n \in Slots /\ fileStore[n] = FilesRow(store[n])
             /\ f[n] = IF n = i THEN t ELSE store[n]
  <2>1. ~FilesOpen(j, n) /\ Account(j, n, store[n]) = IF n = i THEN t ELSE store[n]
    BY <1>1, <1>3 DEF FilesOpen, Account, Adds, Removes
  <2> QED  BY <1>2, <2>1 DEF Local, Reach
<1> HIDE DEF i, t, j
<1>6. PICK g : g = [f EXCEPT ![i] = NoRow]
  OBVIOUS
<1>7. g \in Rows /\ g[i] = NoRow /\ \A n \in Slots : n # i => g[n] = f[n]
  BY <1>2, <1>6 DEF Rows
<1>8. f[i] = t /\ f[i] # NoRow /\ t.files \in Nat /\ NoRow.files = 0
  BY <1>2, <1>3, <1>5, IdIsSlot DEF NoRow
<1>9. /\ Cardinality(Stored(g)) = Cardinality(Stored(f)) - 1
      /\ Total(FileCounts(g), Slots) = (Total(FileCounts(f), Slots) - f[i].files) + NoRow.files
  BY <1>2, <1>7, <1>8, OneRow
<1>10. /\ Cardinality(Stored(f)) \in Nat /\ Total(FileCounts(f), Slots) \in Nat
       /\ Cardinality(Stored(g)) \in Nat /\ Total(FileCounts(g), Slots) \in Nat
  BY <1>2, <1>7, CountsOf
<1>11. /\ stats' \in [torrents : Nat, files : Nat]
       /\ stats'.torrents = stats.torrents + -1
       /\ stats'.files = stats.files + -t.files
  <2>1. stats.torrents + -1 \in Nat /\ stats.files + -t.files \in Nat /\ -1 \in Int /\ -t.files \in Int
    BY <1>2, <1>8, <1>9, <1>10 DEF StatsAre
  <2> QED  BY <1>4, <2>1, Bumped
<1>12. StatsAre(g)'
  BY <1>2, <1>8, <1>9, <1>10, <1>11 DEF StatsAre
<1>13. RepositoryTypeOK'
  BY <1>2, <1>4, <1>11 DEF RepositoryTypeOK
<1>14. Sound(c, IdleJob, store', fileStore') /\ IdleJob.at \in Still
  BY IdleSound DEF Calm, Still
<1>15. ASSUME NEW n \in Reach(c)
       PROVE  fileStore'[n] = FilesRow(store'[n]) /\ g[n] = store'[n]
  BY <1>3, <1>4, <1>5, <1>7
<1>16. Local(c, IdleJob, store', fileStore', g)
  BY <1>14, <1>15, StillRows DEF Local
<1>17. \A n \in Slots \ Reach(c) : store'[n] = store[n] /\ fileStore'[n] = fileStore[n] /\ g[n] = f[n]
  BY <1>2, <1>4, <1>7
<1>18. RepositoryInv'
  BY <1>4, <1>7, <1>12, <1>13, <1>16, <1>17, StepKeeps
<1> QED  BY <1>2, <1>4, <1>18, SameUntouched

\* Every step keeps the invariant, which says what the counters are.
LEMMA RepositoryStep ==
  ASSUME Apart, RemovedWeigh, Outcomes \subseteq {TRUE}, RepositoryInv, [RepositoryNext]_repositoryVars
  PROVE  RepositoryInv' /\ Untouched(store, store')
<1>1. PICK f \in Rows : RepositoryHeld(f)
  BY DEF RepositoryInv
<1>2. CASE UNCHANGED repositoryVars
  <2>1. UNCHANGED <<store, fileStore, stats, doing>>
    BY <1>2 DEF repositoryVars
  <2>2. RepositoryHeld(f)'
    BY <1>1, <2>1 DEF RepositoryHeld, RepositoryTypeOK, StatsAre
  <2> QED  BY <1>1, <2>1, <2>2, SameUntouched DEF RepositoryInv, RepositoryHeld
<1>3. CASE RepositoryNext
  <2>1. PICK c \in Client :
       \/ \E w \in Work[c], a \in Outcomes :
             Insert(c, w.ts[1], a) \/ InsertMany(c, w.ts, a) \/ RemoveRow(c, w.ts[1], a)
       \/ \E a \in Outcomes :
             \/ ReadCount(c, a) \/ SaveFiles(c, a) \/ SetFiles(c, a) \/ CheckSlot(c, a)
             \/ WriteFiles(c, a) \/ Delete(c, a) \/ DeleteFiles(c, a)
       \/ Count(c) \/ Uncount(c)
       \/ \E ok \in BOOLEAN : Rewrite(c, ok) \/ WriteRows(c, ok)
    BY <1>3 DEF RepositoryNext
  <2>2. ASSUME NEW w \in Work[c], NEW a \in Outcomes,
               Insert(c, w.ts[1], a) \/ InsertMany(c, w.ts, a) \/ RemoveRow(c, w.ts[1], a)
        PROVE  RepositoryInv' /\ Untouched(store, store')
    <3>1. a = TRUE
      OBVIOUS
    <3> QED  BY <1>1, <2>2, <3>1, InsertRowKeeps, InsertManyKeeps, RemoveRowKeeps
  <2>3. ASSUME NEW a \in Outcomes,
               \/ ReadCount(c, a) \/ SaveFiles(c, a) \/ SetFiles(c, a) \/ CheckSlot(c, a)
               \/ WriteFiles(c, a) \/ Delete(c, a) \/ DeleteFiles(c, a)
        PROVE  RepositoryInv' /\ Untouched(store, store')
    <3>1. a = TRUE
      OBVIOUS
    <3>2. CASE ReadCount(c, a) \/ SaveFiles(c, a) \/ SetFiles(c, a) \/ CheckSlot(c, a)
      BY <1>1, <3>1, <3>2, ReadCountKeeps, SaveFilesKeeps, SetFilesKeeps, CheckSlotKeeps
    <3>3. CASE WriteFiles(c, a) \/ Delete(c, a) \/ DeleteFiles(c, a)
      BY <1>1, <3>1, <3>3, WriteFilesKeeps, DeleteKeeps, DeleteFilesKeeps
    <3> QED  BY <2>3, <3>2, <3>3
  <2>4. CASE Count(c) \/ Uncount(c)
    BY <1>1, <2>4, CountKeeps, UncountKeeps
  <2>5. ASSUME NEW ok \in BOOLEAN, Rewrite(c, ok) \/ WriteRows(c, ok)
        PROVE  RepositoryInv' /\ Untouched(store, store')
    BY <1>1, <2>5, RewriteKeeps, WriteRowsKeeps
  <2> QED  BY <2>1, <2>2, <2>3, <2>4, <2>5
<1> QED  BY <1>2, <1>3

LEMMA RepositoryHolds ==
  ASSUME RepositoryInv
  PROVE  RepositoryTypeOK /\ CountersExact
<1>1. PICK f \in Rows : RepositoryHeld(f)
  BY DEF RepositoryInv
<1>2. RepositoryTypeOK /\ store \in Rows
  BY <1>1, TypedTables DEF RepositoryHeld
<1>3. SUFFICES ASSUME Quiet
               PROVE  /\ stats.torrents = Cardinality(Stored(store))
                      /\ stats.files = Total(FileCounts(store), Slots)
                      /\ \A i \in Slots : fileStore[i] = FilesRow(store[i])
  BY <1>2 DEF CountersExact, FilesRow
<1>4. ASSUME NEW i \in Slots
      PROVE  fileStore[i] = FilesRow(store[i]) /\ f[i] = store[i]
  <2>1. CASE \A d \in Client : i \notin Reach(d)
    BY <1>1, <2>1 DEF RepositoryHeld
  <2>2. ASSUME NEW c \in Client, i \in Reach(c)
        PROVE  fileStore[i] = FilesRow(store[i]) /\ f[i] = store[i]
    <3>1. doing[c].at \in Still
      BY <1>3 DEF Quiet, Now, Still
    <3> QED  BY <1>1, <2>2, <3>1, StillRows DEF RepositoryHeld, Local
  <2> QED  BY <2>1, <2>2
<1>5. f = store
  BY <1>2, <1>4 DEF Rows
<1> QED  BY <1>1, <1>4, <1>5 DEF RepositoryHeld, StatsAre

-----------------------------------------------------------------------------
(* The services together                                                    *)

\* What the services keep stays of its kind: the exporter's queue within kReadAhead,
\* the offset of an import within the file, and the hashes the crawler has seen
\* within MAX_RECENT_HASHES.
THEOREM ServicesTypeCorrect ==
  ASSUME SyncAssumptions
  PROVE  ServicesSpec => []DataTypeOK
<1>1. ExportInv => ExportTypeOK
  BY DEF ExportInv, ExportKinds, ExportTypeOK, Threads
<1>2. ImportInv => ImportTypeOK
  BY DEF ImportInv, ImportKinds, ImportTypeOK
<1>3. ManticoreInv => ManticoreTypeOK
  BY DEF ManticoreInv
<1>4. InstallInv => UpdaterTypeOK
  BY LenProperties, ElementOfSeq DEF InstallInv, UpdaterTypeOK, Dialog
<1>5. CrawlInv => CrawlTypeOK
  BY LenProperties, ElementOfSeq DEF CrawlInv, CrawlTypeOK
<1>6. ServicesSpec => [](/\ ExportTypeOK /\ ImportTypeOK /\ ManticoreTypeOK
                        /\ UpdaterTypeOK /\ CrawlTypeOK)
  BY <1>1, <1>2, <1>3, <1>4, <1>5, ExportStarts, ExportKeeps, ImportStarts, ImportKeeps,
     ManticoreStarts, ManticoreKeeps, UpdaterStarts, UpdaterKeeps, CrawlStarts, CrawlKeeps, PTL
     DEF ServicesSpec, ExportSpec, ImportSpec, ManticoreSpec, UpdaterSpec, CrawlSpec
<1> QED
  BY <1>6, TypeCorrect, MigrationTypeCorrect, PTL DEF ServicesSpec, DataTypeOK

\* An export that is reported good wrote every row it read, whichever of the two
\* threads, the disk and the user was faster (database_exporter.cpp); an import that
\* goes on where an earlier one ended skips no frame, whatever crashed
\* (database_importer.cpp, database_sync_service.cpp).
THEOREM DumpsRightHolds == ServicesSpec => []DumpsRight
<1> QED
  BY DumpIsWholeHolds, ResumeNeverSkipsHolds, PTL DEF ServicesSpec, DumpsRight

\* A program that stopped by itself leaves no daemon it launched, the update script
\* has what it installs, and the crawler's count of fetches is off by what its stops
\* left behind and no more (manticore.cpp, update_service.cpp,
\* crawler.cpp).
THEOREM ProcessesRightHolds == ServicesSpec => []ProcessesRight
<1> QED
  BY NoneLeftBehindHolds, UpdaterHasFilesHolds, OffByTheStopsHolds, PTL
     DEF ServicesSpec, ProcessesRight

\* Re-keying loses no torrent, and while no command fails the clean-up removes only
\* what the classifier does not recognise (migration_service.cpp,
\* torrent_repository.cpp).
THEOREM RowsRightHolds == ServicesSpec => []RowsRight
<1> QED
  BY RekeyedWholeHolds, RemovedWasUnknownHolds, PTL DEF ServicesSpec, RowsRight

\* An import that can be resumed keeps its file, and a binlog is dropped only when it
\* is torn and no daemon has it open (database_importer.cpp, manticore.cpp).
THEOREM NoStepBackHolds == ServicesSpec => NoStepBack
<1> QED
  BY ResumeKeepsFileHolds, ResetOnlyTornHolds DEF ServicesSpec, NoStepBack

\* Counters and rows of files follow the rows, and no row is lost, whatever the writers
\* do, where no two of them work on one row, what is removed has a size, and the
\* commands whose failure nothing makes up for succeed (src/src/data/torrent_repository.cpp, indexing_service.cpp).
THEOREM RepositoryExactHolds ==
  ASSUME Apart, RemovedWeigh, Outcomes \subseteq {TRUE}
  PROVE  ServicesSpec => RepositoryExact
<1>1. RepositoryInit => RepositoryInv
  BY InitHeld
<1>2. RepositoryInv /\ [RepositoryNext]_repositoryVars => RepositoryInv'
  BY RepositoryStep
<1>3. RepositoryInv => RepositoryTypeOK /\ CountersExact
  BY RepositoryHolds
<1>4. RepositoryInv /\ [RepositoryNext]_repositoryVars =>
        [\A i \in Stored(store) : store'[i] = NoRow \/
          /\ store'[i].hash = store[i].hash
          /\ store'[i].votes >= store[i].votes /\ store'[i].files >= store[i].files]_repositoryVars
  BY RepositoryStep DEF Untouched
<1> QED
  BY <1>1, <1>2, <1>3, <1>4, PTL DEF ServicesSpec, RepositorySpec, StoredUntouched, RepositoryExact
=============================================================================
