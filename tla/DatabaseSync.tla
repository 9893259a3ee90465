---------------------------- MODULE DatabaseSync ----------------------------
(***************************************************************************)
(* Whole-database replication of the Qt program                            *)
(* (src/src/services/database_sync_service, database_snapshot): the        *)
(* user's lane of every node of Puller, and the serving lane of the one    *)
(* node they all ask.  The server shares one generated snapshot among all  *)
(* the peers that wait for it, keeps the generations that a transfer still *)
(* reads, and answers with messages that carry the asker's session id.     *)
(*                                                                         *)
(* librats delivers the messages and file events of a pair of peers in     *)
(* order (one sequence per direction).  A file transfer is identified by   *)
(* the session of the serve that offered it: a serve offers one file.      *)
(* Wall clocks are left out: a deadline that is armed may pass.            *)
(***************************************************************************)
EXTENDS Integers, Sequences, FiniteSets

CONSTANTS
    Puller,        \* the peers that ask this node for its index
    Plans          \* bounds: the pulls each user starts, the snapshot generations
                   \* written, whether connections break, the server
                   \* restarts and its user acts too;
                   \* and kMaxConcurrentServes

SyncAssumptions ==
    Plans \subseteq [pulls : [Puller -> Nat], generations : Nat, disturbed : BOOLEAN, serves : Nat]

VARIABLES
    plan,        \* the member of Plans of this behaviour: [pulls, generations, disturbed, serves]
    pull,        \* local_ of each puller
    lastSession, \* nextSessionId_ of each puller
    serves,      \* serves_: what the server does for each puller
    job,         \* snapshotJob_ and where its worker is
    snapshot,    \* info_.fileName, generation_ and the generation in the metadata file
    onDisk,      \* generations whose file exists
    fresh,       \* what isFresh() answers of the live snapshot
    limited,     \* peers whose last accepted request is within kMinRequestIntervalMs
    sharing,     \* sharingEnabled_
    toServer, toPuller  \* messages on their way

syncVars == <<plan, pull, lastSession, serves, job, snapshot, onDisk, fresh, limited,
              sharing, toServer, toPuller>>

Session == UNION {UNION {0..q.pulls[p] : p \in Puller} : q \in Plans}
Generation == UNION {0..q.generations : q \in Plans}
\* An operation that waits for its peer; each has a deadline but the transfer,
\* which librats times out itself.
Awaiting == {"waiting", "preparing", "awaitingOffer"}
Pulling  == Awaiting \cup {"transferring"}

LocalOperation == [stage : {"idle", "importing"} \cup Pulling, session : Session,
                   transfer : Session, peerEngaged : BOOLEAN]
Idle == [stage |-> "idle", session |-> 0, transfer |-> 0, peerEngaged |-> FALSE]

Serve == [held : BOOLEAN, session : Session, transfer : Session, file : Generation,
          waitingForSnapshot : BOOLEAN]
NoServe == [held |-> FALSE, session |-> 0, transfer |-> 0, file |-> 0,
            waitingForSnapshot |-> FALSE]

SnapshotJob == [worker : {"none", "running", "ok", "failed"}, cancelled : BOOLEAN]
NoJob == [worker |-> "none", cancelled |-> FALSE]

Message == [type : {"request", "cancel", "fileStopped", "response", "progress", "offer",
                    "fileFailed", "fileDone"},
            id : Session, accepted : BOOLEAN, ready : BOOLEAN]
Msg(type, id) == [type |-> type, id |-> id, accepted |-> FALSE, ready |-> FALSE]
Accepted(id, ready) == [type |-> "response", id |-> id, accepted |-> TRUE, ready |-> ready]
Refused(id) == Msg("response", id)

Init ==
    /\ plan \in Plans
    /\ pull = [p \in Puller |-> Idle]
    /\ lastSession = [p \in Puller |-> 0]
    /\ serves = [p \in Puller |-> NoServe]
    /\ job = NoJob
    /\ snapshot = [live |-> 0, generation |-> 0, recorded |-> 0]
    /\ onDisk = {} /\ fresh = FALSE
    /\ limited = {} /\ sharing = TRUE
    /\ toServer = [p \in Puller |-> <<>>]
    /\ toPuller = [p \in Puller |-> <<>>]

ServerSide == <<plan, serves, job, snapshot, onDisk, fresh, limited, sharing>>
FromServer(p) == toPuller[p] # <<>>
Received(p, type) == toPuller[p] # <<>> /\ Head(toPuller[p]).type = type
Arrived(p, type) == toServer[p] # <<>> /\ Head(toServer[p]).type = type

-----------------------------------------------------------------------------
(* The user's lane                                                          *)

\* finishLocal: stop the transfer, tell a peer that may be working for us, and
\* forget the operation.
FinishLocal(p, success, transfer) ==
    LET op == pull[p] IN
    /\ pull' = [pull EXCEPT ![p] = Idle]
    /\ toServer' = [toServer EXCEPT ![p] = @
           \o (IF transfer # 0 THEN <<Msg("fileStopped", transfer)>> ELSE <<>>)
           \o (IF op.peerEngaged /\ ~success THEN <<Msg("cancel", op.session)>> ELSE <<>>)]

\* beginLocal: refused while an operation runs.
BeginLocal(p, stage, s) ==
    /\ pull[p].stage = "idle"
    /\ pull' = [pull EXCEPT ![p] = [Idle EXCEPT !.stage = stage, !.session = s]]

RequestFromPeer(p) ==
    /\ lastSession[p] < plan.pulls[p]
    /\ LET s == lastSession[p] + 1 IN
       /\ BeginLocal(p, "waiting", s)
       /\ lastSession' = [lastSession EXCEPT ![p] = s]
       /\ toServer' = [toServer EXCEPT ![p] = Append(@, Msg("request", s))]
    /\ UNCHANGED <<ServerSide, toPuller>>

\* cancel(): an operation without a worker is finished here.
CancelPull(p) ==
    /\ pull[p].stage \in Pulling
    /\ FinishLocal(p, FALSE, pull[p].transfer)
    /\ UNCHANGED <<lastSession, ServerSide, toPuller>>

\* The worker of the merge ends: done, failed, or cancelled by the user.
ImportEnds(p, success) ==
    /\ pull[p].stage = "importing"
    /\ FinishLocal(p, success, 0)
    /\ UNCHANGED <<lastSession, ServerSide, toPuller>>

\* onWatchdog: the deadline of the stage has passed.
Deadline(p) ==
    /\ pull[p].stage \in Awaiting
    /\ FinishLocal(p, FALSE, pull[p].transfer)
    /\ UNCHANGED <<lastSession, ServerSide, toPuller>>

Consume(p) == toPuller' = [toPuller EXCEPT ![p] = Tail(@)]

\* An answer counts while the operation is a pull and the session is its own.
Current(p, m) == pull[p].stage \in Pulling /\ m.id = pull[p].session

HandlePeerResponse(p) ==
    /\ Received(p, "response") /\ Consume(p)
    /\ LET m == Head(toPuller[p]) IN
       CASE ~Current(p, m) -> UNCHANGED <<pull, toServer>>
         [] Current(p, m) /\ ~m.accepted -> FinishLocal(p, FALSE, pull[p].transfer)
         [] OTHER ->
              /\ pull' = [pull EXCEPT ![p].peerEngaged = TRUE, ![p].stage =
                              IF m.ready THEN "awaitingOffer" ELSE "preparing"]
              /\ UNCHANGED toServer
    /\ UNCHANGED <<lastSession, ServerSide>>

HandlePeerProgress(p) ==
    /\ Received(p, "progress") /\ Consume(p)
    /\ pull' = IF Current(p, Head(toPuller[p]))
               THEN [pull EXCEPT ![p].stage = "preparing"] ELSE pull
    /\ UNCHANGED <<lastSession, toServer, ServerSide>>

\* onFileOffered: accepted from the peer that was asked while no transfer runs;
\* `room` is whether the volume has space for it.
OnFileOffered(p, room) ==
    /\ Received(p, "offer") /\ Consume(p)
    /\ LET t == Head(toPuller[p]).id
           wanted == pull[p].stage \in Pulling /\ pull[p].transfer = 0
       IN CASE wanted /\ room ->
                 /\ pull' = [pull EXCEPT ![p].transfer = t, ![p].stage = "transferring"]
                 /\ UNCHANGED toServer
            [] wanted /\ ~room -> FinishLocal(p, FALSE, t)
            [] OTHER -> /\ toServer' = [toServer EXCEPT ![p] = Append(@, Msg("fileStopped", t))]
                        /\ UNCHANGED pull
    /\ UNCHANGED <<lastSession, ServerSide>>

\* startPullImport: the pull goes on as an import, with a worker and no deadline.
StartPullImport(p) ==
    pull' = [pull EXCEPT ![p].transfer = 0, ![p].stage = "importing"]

\* onTransferFinished at the receiver.
OnFileReceived(p) ==
    /\ FromServer(p) /\ Head(toPuller[p]).type \in {"fileDone", "fileFailed"} /\ Consume(p)
    /\ LET m == Head(toPuller[p]) IN
       CASE m.id # pull[p].transfer -> UNCHANGED <<pull, toServer>>
         [] m.id = pull[p].transfer /\ m.type = "fileFailed" -> FinishLocal(p, FALSE, 0)
         [] OTHER -> StartPullImport(p) /\ UNCHANGED toServer
    /\ UNCHANGED <<lastSession, ServerSide>>

-----------------------------------------------------------------------------
(* The serving lane                                                         *)

PullerSide == <<plan, pull, lastSession>>
Held(sv) == {q \in Puller : sv[q].held}
Waiting(sv) == {q \in Puller : sv[q].waitingForSnapshot}

\* pruneSuperseded: the live file and those a serve reads are kept.
\* Plausible bug: the serves are not asked what they read.
PruneAllButLive(disk, sv, live) == disk \cap {live}
PruneSnapshots(disk, sv, live) ==
    disk \cap ({live} \cup {sv[q].file : q \in Held(sv)})

CancelIfUnwanted(j, sv) ==
    IF j.worker # "none" /\ Waiting(sv) = {} THEN [j EXCEPT !.cancelled = TRUE] ELSE j

\* What a puller is told when its serve is dropped: a transfer that was offered
\* fails, a serve that waits for the snapshot is told nothing.
Notice(sv, p) == IF sv[p].transfer # 0 THEN <<Msg("fileFailed", sv[p].transfer)>> ELSE <<>>

\* dropServe(releaseSnapshot = true) of the peers of set P.
DropServes(P, success) ==
    LET rest == [q \in Puller |-> IF q \in P THEN NoServe ELSE serves[q]] IN
    /\ serves' = rest
    /\ job' = CancelIfUnwanted(job, rest)
    /\ onDisk' = PruneSnapshots(onDisk, rest, snapshot.live)
    /\ toPuller' = [q \in Puller |-> IF q \in P /\ ~success
                                     THEN toPuller[q] \o Notice(serves, q) ELSE toPuller[q]]

Took(p) == toServer' = [toServer EXCEPT ![p] = Tail(@)]

\* offerSnapshot, once sendFile has an id: the serve remembers the generation.
OfferSnapshot(s, file) == [NoServe EXCEPT !.held = TRUE, !.session = s, !.transfer = s,
                                          !.file = file]

\* ensureSnapshotJob: the job that exists, even one that was stopped, or a new one.
EnsureSnapshotJob ==
    IF job.worker = "none" THEN [worker |-> "running", cancelled |-> FALSE] ELSE job

\* handlePeerRequest.  `usable`: file transfers work and the index has rows;
\* `room`: the offer leaves, or ensureSnapshotJob finds space for a new dump.  A serve
\* whose offer does not leave is dropped again, its peer told that the file is ready.
HandlePeerRequest(p, usable, room) ==
    /\ Arrived(p, "request") /\ Took(p)
    /\ LET s == Head(toServer[p]).id
           old == IF serves[p].held THEN Notice(serves, p) ELSE <<>>
           rest == [serves EXCEPT ![p] = NoServe]
           Reply(msgs) == toPuller' = [toPuller EXCEPT ![p] = @ \o msgs]
           pruned == PruneSnapshots(onDisk, rest, snapshot.live)
       IN
       \/ /\ ~sharing \/ ~usable \/ (p \in limited /\ ~serves[p].held)
          /\ Reply(<<Refused(s)>>)
          /\ UNCHANGED <<serves, job, onDisk, limited>>
       \/ /\ sharing /\ usable /\ (p \in limited => serves[p].held)
          /\ onDisk' = IF serves[p].held \/ (fresh /\ ~room /\ Cardinality(Held(rest)) < plan.serves)
                       THEN pruned ELSE onDisk
          /\ \/ /\ Cardinality(Held(rest)) >= plan.serves
                /\ Reply(old \o <<Refused(s)>>)
                /\ serves' = rest
                /\ UNCHANGED <<job, limited>>
             \/ /\ Cardinality(Held(rest)) < plan.serves
                /\ limited' = limited \cup {p}
                /\ \/ /\ fresh /\ room
                      /\ serves' = [rest EXCEPT ![p] = OfferSnapshot(s, snapshot.live)]
                      /\ Reply(old \o <<Accepted(s, TRUE), Msg("offer", s)>>)
                      /\ UNCHANGED job
                   \/ /\ fresh /\ ~room
                      /\ serves' = rest /\ job' = CancelIfUnwanted(job, rest)
                      /\ Reply(old \o <<Accepted(s, TRUE)>>)
                   \/ /\ ~fresh /\ job.worker = "none" /\ ~room
                      /\ serves' = rest
                      /\ Reply(old \o <<Refused(s)>>)
                      /\ UNCHANGED job
                   \/ /\ ~fresh /\ (job.worker # "none" \/ room)
                      /\ job' = EnsureSnapshotJob
                      /\ serves' = [rest EXCEPT ![p] = [NoServe EXCEPT
                             !.held = TRUE, !.session = s, !.waitingForSnapshot = TRUE]]
                      /\ Reply(old \o <<Accepted(s, FALSE)>>)
    /\ UNCHANGED <<PullerSide, snapshot, fresh, sharing>>

HandlePeerCancel(p) ==
    /\ Arrived(p, "cancel") /\ Took(p)
    /\ IF serves[p].held /\ Head(toServer[p]).id = serves[p].session
       THEN DropServes({p}, FALSE) ELSE UNCHANGED <<serves, job, onDisk, toPuller>>
    /\ UNCHANGED <<PullerSide, snapshot, fresh, limited, sharing>>

\* The receiver refused or stopped the file: onTransferFinished(false).
OnFileStopped(p) ==
    /\ Arrived(p, "fileStopped") /\ Took(p)
    /\ IF serves[p].transfer = Head(toServer[p]).id
       THEN DropServes({p}, FALSE) ELSE UNCHANGED <<serves, job, onDisk, toPuller>>
    /\ UNCHANGED <<PullerSide, snapshot, fresh, limited, sharing>>

\* librats ends a transfer that both sides hold; both are told.
TransferEnds(p, ok) ==
    /\ serves[p].transfer # 0 /\ serves[p].transfer = pull[p].transfer
    /\ LET t == serves[p].transfer
           rest == [serves EXCEPT ![p] = NoServe]
       IN /\ serves' = rest
          /\ job' = CancelIfUnwanted(job, rest)
          /\ onDisk' = PruneSnapshots(onDisk, rest, snapshot.live)
          /\ toPuller' = [toPuller EXCEPT
                 ![p] = Append(@, Msg(IF ok THEN "fileDone" ELSE "fileFailed", t))]
    /\ UNCHANGED <<PullerSide, snapshot, fresh, limited, sharing, toServer>>

\* rebuildSnapshot, asked for by this node's user.
RebuildSnapshot ==
    /\ plan.disturbed /\ job.worker = "none" /\ snapshot.generation < plan.generations
    /\ job' = EnsureSnapshotJob
    /\ UNCHANGED <<PullerSide, serves, snapshot, onDisk, fresh, limited, sharing,
                   toServer, toPuller>>

\* The export worker returns: it sees its own token, or writes the file, or fails.
RunSnapshot(ok) ==
    /\ job.worker = "running" /\ (ok => snapshot.generation < plan.generations)
    /\ job' = [job EXCEPT !.worker = IF ok /\ ~job.cancelled THEN "ok" ELSE "failed"]
    /\ UNCHANGED <<PullerSide, serves, snapshot, onDisk, fresh, limited, sharing,
                   toServer, toPuller>>

\* onSnapshotFinished without a file (or one that cannot be renamed because the
\* name exists): the waiters are dropped.
DropWaiters ==
    LET rest == [q \in Puller |-> IF q \in Waiting(serves) THEN NoServe ELSE serves[q]] IN
    /\ serves' = rest
    /\ job' = NoJob
    /\ onDisk' = IF Waiting(serves) = {} THEN onDisk
                 ELSE PruneSnapshots(onDisk, rest, snapshot.live)
    /\ UNCHANGED toPuller

\* commit() names the file after the next generation; load() trusts the metadata
\* file, and a snapshot whose file is gone is none.
NextName == snapshot.generation + 1
Commit == [live |-> NextName, generation |-> NextName, recorded |-> NextName]
Load == [live |-> IF snapshot.recorded \in onDisk THEN snapshot.recorded ELSE 0,
         generation |-> snapshot.recorded, recorded |-> snapshot.recorded]

OnSnapshotFailed ==
    /\ \/ /\ job.worker = "failed"
          /\ UNCHANGED snapshot
       \/ /\ job.worker = "ok" /\ NextName \in onDisk
          /\ snapshot' = [snapshot EXCEPT !.generation = NextName]
    /\ DropWaiters
    /\ UNCHANGED <<PullerSide, fresh, limited, sharing, toServer>>

\* onSnapshotFinished with a file: commit, prune, offer it to every waiter; one
\* that cannot be offered the file is dropped.
OnSnapshotFinished(reached) ==
    /\ reached \subseteq Waiting(serves)
    /\ job.worker = "ok" /\ NextName \notin onDisk
    /\ job' = NoJob
    /\ snapshot' = Commit
    /\ fresh' = TRUE
    /\ onDisk' = PruneSnapshots(onDisk \cup {NextName}, serves, NextName)
    /\ serves' = [q \in Puller |->
           CASE q \in reached -> OfferSnapshot(serves[q].session, NextName)
             [] q \in Waiting(serves) \ reached -> NoServe
             [] OTHER -> serves[q]]
    /\ toPuller' = [q \in Puller |-> IF q \in reached
           THEN Append(toPuller[q], Msg("offer", serves[q].session)) ELSE toPuller[q]]
    /\ UNCHANGED <<PullerSide, limited, sharing, toServer>>

\* onWatchdog: a heartbeat to every waiter (bound: one under way per waiter).
Heartbeat ==
    /\ job.worker # "none"
    /\ LET told == {q \in Waiting(serves) : ~\E i \in DOMAIN toPuller[q] :
                                                toPuller[q][i].type = "progress"}
       IN /\ told # {}
          /\ toPuller' = [q \in Puller |-> IF q \in told
                THEN Append(toPuller[q], Msg("progress", serves[q].session)) ELSE toPuller[q]]
    /\ UNCHANGED <<PullerSide, ServerSide, toServer>>

\* setSharingEnabled.
SetSharing(on) ==
    /\ plan.disturbed /\ sharing # on /\ sharing' = on
    /\ IF on THEN UNCHANGED <<serves, job, onDisk, toPuller>>
             ELSE DropServes(Held(serves), FALSE)
    /\ UNCHANGED <<PullerSide, snapshot, fresh, limited, toServer>>

\* The index moves on, or the snapshot ages: it is not fresh any more.
Drift ==
    /\ fresh /\ fresh' = FALSE
    /\ UNCHANGED <<PullerSide, serves, job, snapshot, onDisk, limited, sharing,
                   toServer, toPuller>>

\* kMinRequestIntervalMs passes.
IntervalPasses(p) ==
    /\ p \in limited /\ limited' = limited \ {p}
    /\ UNCHANGED <<PullerSide, serves, job, snapshot, onDisk, fresh, sharing,
                   toServer, toPuller>>

\* onPeerDisconnected on both sides; what was under way is lost.
Disconnect(p) ==
    /\ plan.disturbed /\ (pull[p].stage \in Pulling \/ serves[p].held)
    /\ pull' = IF pull[p].stage \in Pulling THEN [pull EXCEPT ![p] = Idle] ELSE pull
    /\ LET rest == [serves EXCEPT ![p] = NoServe] IN
       /\ serves' = rest
       /\ job' = IF serves[p].held THEN CancelIfUnwanted(job, rest) ELSE job
       /\ onDisk' = IF serves[p].held THEN PruneSnapshots(onDisk, rest, snapshot.live)
                    ELSE onDisk
    /\ toPuller' = [toPuller EXCEPT ![p] = <<>>]
    /\ toServer' = [toServer EXCEPT ![p] = <<>>]
    /\ UNCHANGED <<plan, lastSession, snapshot, fresh, limited, sharing>>

\* The server's process ends and starts again: load() trusts the metadata, whose
\* file may be that of an earlier generation when the process ended between the
\* rename of commit() and writeMetadata(); it may still be fresh.  Every peer is
\* disconnected.
Restart(renamed) ==
    /\ plan.disturbed /\ (renamed => job.worker = "ok" /\ NextName \notin onDisk)
    /\ serves' = [p \in Puller |-> NoServe]
    /\ job' = NoJob /\ limited' = {}
    /\ onDisk' = IF renamed THEN onDisk \cup {NextName} ELSE onDisk
    /\ snapshot' = Load
    /\ fresh' \in {FALSE, fresh /\ Load.live # 0}
    /\ pull' = [p \in Puller |-> IF pull[p].stage \in Pulling THEN Idle ELSE pull[p]]
    /\ toServer' = [p \in Puller |-> <<>>] /\ toPuller' = [p \in Puller |-> <<>>]
    /\ UNCHANGED <<plan, lastSession, sharing>>

-----------------------------------------------------------------------------
Next ==
    \/ \E p \in Puller :
          \/ RequestFromPeer(p) \/ CancelPull(p) \/ Deadline(p)
          \/ HandlePeerResponse(p) \/ HandlePeerProgress(p) \/ OnFileReceived(p)
          \/ HandlePeerCancel(p) \/ OnFileStopped(p)
          \/ IntervalPasses(p) \/ Disconnect(p)
          \/ \E ok \in BOOLEAN : ImportEnds(p, ok) \/ OnFileOffered(p, ok) \/ TransferEnds(p, ok)
          \/ \E usable, room \in BOOLEAN : HandlePeerRequest(p, usable, room)
    \/ RebuildSnapshot \/ OnSnapshotFailed \/ Heartbeat \/ Drift
    \/ \E reached \in SUBSET Puller : OnSnapshotFinished(reached)
    \/ \E b \in BOOLEAN : RunSnapshot(b) \/ SetSharing(b) \/ Restart(b)

Spec == Init /\ [][Next]_syncVars

-----------------------------------------------------------------------------
TypeOK ==
    /\ pull \in [Puller -> LocalOperation] /\ lastSession \in [Puller -> Session]
    /\ serves \in [Puller -> Serve] /\ job \in SnapshotJob
    /\ snapshot \in [live : Generation, generation : Generation, recorded : Generation]
    /\ onDisk \subseteq Generation /\ fresh \in BOOLEAN /\ sharing \in BOOLEAN
    /\ limited \subseteq Puller
    /\ \A p \in Puller : /\ \A i \in DOMAIN toServer[p] : toServer[p][i] \in Message
                         /\ \A i \in DOMAIN toPuller[p] : toPuller[p][i] \in Message

(* Every file a peer is being sent still exists, and so does the live one,  *)
(* whatever was published, superseded, dropped or restarted meanwhile       *)
(* (pruneSnapshots and the generations of DatabaseSnapshot).                *)
FilesHeld ==
    /\ \A p \in Puller : serves[p].transfer # 0 => serves[p].file \in onDisk
    /\ snapshot.live # 0 => snapshot.live \in onDisk

(* A peer that was told to wait is waiting for a generation that will end:  *)
(* no path of onSnapshotFinished forgets one.                               *)
WaitersHaveJob == Waiting(serves) # {} => job.worker # "none"

(* Together: a pull that the server accepted can come to its end.           *)
PullsSafe == FilesHeld /\ WaitersHaveJob

(* A pull that has not ended. Every one does: it is refused, imported,      *)
(* cancelled, or its deadline passes, whatever the server does to its serve.*)
PullUnderWay == \E p \in Puller : pull[p].stage # "idle"
=============================================================================
