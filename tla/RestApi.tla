-------------------------------- MODULE RestApi --------------------------------
(***************************************************************************)
(* The HTTP and WebSocket front-end of the Qt program (src/src/rest): a    *)
(* request is routed to a handler that answers at once, or hands its       *)
(* `respond` to whatever will answer later: a peer's reply racing a 15 s   *)
(* timer, librats fetching metadata on a thread of its own, the signals of *)
(* the update service.  Headers, JSON and events are left out.             *)
(***************************************************************************)
EXTENDS Integers, Sequences, FiniteSets

CONSTANTS
    Conn, Http,                         \* connections; those of the HTTP server: one request each
    ApiHash, Rejected,                  \* torrents; those the filter policy refuses
    Questions,                          \* what clients ask: a subset of Request
    MaxCalls, MaxDownloads, MaxServers  \* bounds

VARIABLES
    server,      \* [running, http, ws]: running_, and which of the two listens
    conns,       \* "none", "open", "reading": header there, body not; "asked"; "gone"
    calls,       \* the calls so far: who asked, who holds `respond`, how often it ran
    indexed,     \* the index: "absent", "bare": without file list, "full"
    bittorrent,  \* the engine runs
    update,      \* UpdateService::state_
    serverStarts, updateDownloads

restVars == <<server, conns, calls, indexed, bittorrent, update, serverStarts, updateDownloads>>

Method == {"search.torrents", "torrent.get", "torrent.import", "torrent.remove", "torrent.cleanup",
           "update.check", "unknown"}
Request == [method : Method, hash : ApiHash, files : BOOLEAN, peer : BOOLEAN, dryRun : BOOLEAN]
\* Who can still invoke `respond`.
Holder == {"reply", "timer", "fetch", "posted", "signals"}
Call == [conn : Conn, request : Request, owes : SUBSET Holder, answers : Nat, found : BOOLEAN]

\* What clients ask are requests, and a HTTP connection is one.
ASSUME RestAssumption == Http \subseteq Conn /\ Questions \subseteq Request

RestInit ==
    /\ server = [running |-> FALSE, http |-> FALSE, ws |-> FALSE]
    /\ conns = [c \in Conn |-> "none"] /\ calls = <<>>
    /\ indexed \in [ApiHash -> {"absent", "bare"}] /\ bittorrent \in BOOLEAN
    /\ update \in {"Idle", "UpdateAvailable"} /\ serverStarts = 0 /\ updateDownloads = 0

-----------------------------------------------------------------------------
(* The server                                                               *)

ConnsClosed(those) == [c \in Conn |-> IF c \in those /\ conns[c] # "none" THEN "gone" ELSE conns[c]]

\* A port may be taken: the HTTP server of a start that failed for the other port
\* listens until the next start replaces it.
StartServer(http, ws) ==
    /\ ~server.running /\ serverStarts < MaxServers
    /\ server' = [running |-> http /\ ws, http |-> http, ws |-> http /\ ws]
    /\ conns' = ConnsClosed(Http) /\ serverStarts' = serverStarts + 1
    /\ UNCHANGED <<calls, indexed, bittorrent, update, updateDownloads>>

StopServer ==
    /\ server.running
    /\ server' = [running |-> FALSE, http |-> FALSE, ws |-> FALSE]
    /\ conns' = ConnsClosed(Conn)
    /\ UNCHANGED <<calls, indexed, bittorrent, update, serverStarts, updateDownloads>>

Connects(c) ==
    /\ conns[c] = "none" /\ IF c \in Http THEN server.http ELSE server.ws
    /\ conns' = [conns EXCEPT ![c] = "open"]
    /\ UNCHANGED <<server, calls, indexed, bittorrent, update, serverStarts, updateDownloads>>

\* The buffer of the connection goes with it; a `respond` that names it stays.
Disconnected(c) ==
    /\ conns[c] \notin {"none", "gone"}
    /\ conns' = [conns EXCEPT ![c] = "gone"]
    /\ UNCHANGED <<server, calls, indexed, bittorrent, update, serverStarts, updateDownloads>>

-----------------------------------------------------------------------------
(* Handlers                                                                 *)

\* What a handler leaves: `respond` has run, or these hold it.
Routed(owes, found) == [owes |-> owes, answers |-> IF owes = {} THEN 1 ELSE 0, found |-> found]

DhtLookup == IF bittorrent THEN Routed({"fetch"}, FALSE) ELSE Routed({}, FALSE)
PeerLookup == Routed({"reply", "timer"}, FALSE)

SearchTorrents(q) == IF indexed[q.hash] = "absent" THEN DhtLookup ELSE Routed({}, TRUE)

TorrentGet(q) ==
    IF q.files /\ indexed[q.hash] # "full" /\ q.peer THEN PeerLookup
    ELSE IF indexed[q.hash] = "absent" THEN DhtLookup
    ELSE Routed({}, TRUE)

\* IndexingService::insert: a row that exists keeps the list it has.
Insert(h, kind) ==
    IF indexed[h] = "absent" /\ h \notin Rejected THEN [indexed EXCEPT ![h] = kind] ELSE indexed

\* checkForUpdates does nothing while one runs.
UpdateCheck ==
    update' = IF update \in {"CheckingForUpdates", "Downloading"} THEN update
              ELSE "CheckingForUpdates"

Present == {h \in ApiHash : indexed[h] # "absent"}
RowsWithout(gone) == [h \in ApiHash |-> IF h \in gone THEN "absent" ELSE indexed[h]]
TorrentRemove(q) == RowsWithout({q.hash})
\* Every row, a page at a time, against the filters.
TorrentCleanup(q) == IF q.dryRun THEN indexed ELSE RowsWithout(Rejected)
TorrentImport(q) == Insert(q.hash, "full")

Handled(q) ==
    CASE q.method = "search.torrents" -> SearchTorrents(q)
      [] q.method = "torrent.get" -> TorrentGet(q)
      [] q.method = "torrent.import" -> Routed({}, q.hash \in Present \/ q.hash \notin Rejected)
      [] q.method = "torrent.remove" -> Routed({}, q.hash \in Present)
      [] q.method = "torrent.cleanup" -> Routed({}, Present \cap Rejected # {})
      [] q.method = "update.check" -> Routed({"signals"}, FALSE)
      [] q.method = "unknown" -> Routed({}, FALSE)

\* A HTTP connection is closed with its answer.
Answering(c) == IF conns[c] # "gone" /\ c \in Http THEN "gone" ELSE conns[c]

\* ApiRouter::call, from dispatchHttp or onWsMessage.
RouterCall(c, q) ==
    LET handled == Handled(q) IN
    /\ Len(calls) < MaxCalls
    /\ calls' = Append(calls, [conn |-> c, request |-> q, owes |-> handled.owes,
                               answers |-> handled.answers, found |-> handled.found])
    /\ conns' = [conns EXCEPT ![c] = IF c \notin Http THEN @
                                     ELSE IF handled.answers = 1 THEN "gone" ELSE "asked"]
    /\ indexed' = CASE q.method = "torrent.import" -> TorrentImport(q)
                 [] q.method = "torrent.remove" -> TorrentRemove(q)
                 [] q.method = "torrent.cleanup" -> TorrentCleanup(q)
                 [] OTHER -> indexed
    /\ IF q.method = "update.check" THEN UpdateCheck ELSE UNCHANGED update

\* A request comes in pieces: the header first, its body later or with it.
HeaderArrives(c) ==
    /\ c \in Http /\ conns[c] = "open"
    /\ conns' = [conns EXCEPT ![c] = "reading"]
    /\ UNCHANGED <<server, calls, indexed, bittorrent, update, serverStarts, updateDownloads>>
OnHttpReadyRead(c, q) ==
    /\ c \in Http /\ conns[c] \in {"open", "reading"}
    /\ RouterCall(c, q)
    /\ UNCHANGED <<server, bittorrent, serverStarts, updateDownloads>>
OnWsMessage(c, q) ==
    /\ c \notin Http /\ conns[c] = "open"
    /\ RouterCall(c, q)
    /\ UNCHANGED <<server, bittorrent, serverStarts, updateDownloads>>

-----------------------------------------------------------------------------
(* Answers                                                                  *)

\* `respond` runs for the calls in K; `who` lets go of it.
Respond(K, who, found) ==
    /\ calls' = [k \in DOMAIN calls |->
           IF k \in K THEN [calls[k] EXCEPT !.owes = @ \ who, !.answers = @ + 1, !.found = found]
           ELSE calls[k]]
    /\ conns' = [c \in Conn |-> IF \E k \in K : calls[k].conn = c THEN Answering(c) ELSE conns[c]]

Holding(who) == {k \in DOMAIN calls : who \in calls[k].owes}

\* remoteTorrentReceived: every lookup of the hash is answered, then the torrent is cloned.
TorrentResponse(h, kind) ==
    /\ \E k \in DOMAIN calls : calls[k].request.hash = h /\ calls[k].request.peer
    /\ Respond({k \in Holding("reply") : calls[k].request.hash = h}, {"reply", "timer"}, TRUE)
    /\ indexed' = Insert(h, kind)
    /\ UNCHANGED <<server, bittorrent, update, serverStarts, updateDownloads>>

\* Plausible bug: the connection to the peer's reply outlives the timeout.
StillListening == {"reply"}
\* Who holds `respond` when finish(false) is through with the lookup itself.
AfterTimeout == {}

\* finish(false): the DHT is asked instead, or the miss answered at once.
Timeout(k) ==
    /\ k \in Holding("timer")
    /\ IF bittorrent
       THEN calls' = [calls EXCEPT ![k].owes = AfterTimeout \cup {"fetch"}] /\ UNCHANGED conns
       ELSE Respond({k}, {"reply", "timer"}, FALSE)
    /\ UNCHANGED <<server, indexed, bittorrent, update, serverStarts, updateDownloads>>

\* The callback of get_torrent_metadata, on a thread of librats.
MetadataFetched(k, ok) ==
    /\ k \in Holding("fetch")
    /\ calls' = [calls EXCEPT ![k].owes = (@ \ {"fetch"}) \cup {"posted"}, ![k].found = ok]
    /\ UNCHANGED <<server, conns, indexed, bittorrent, update, serverStarts, updateDownloads>>
PostedRuns(k) ==
    /\ k \in Holding("posted")
    /\ indexed' = IF calls[k].found THEN Insert(calls[k].request.hash, "full") ELSE indexed
    /\ Respond({k}, {"posted"}, calls[k].found)
    /\ UNCHANGED <<server, bittorrent, update, serverStarts, updateDownloads>>

\* updateAvailable, noUpdateAvailable, errorOccurred.
CheckReplies(to) ==
    /\ update = "CheckingForUpdates"
    /\ update' = to
    /\ Respond(Holding("signals"), {"signals"}, to # "Error")
    /\ UNCHANGED <<server, indexed, bittorrent, serverStarts, updateDownloads>>
\* The user downloads the update; its end is none of the three, unless it fails.
DownloadUpdate ==
    /\ update = "UpdateAvailable" /\ updateDownloads < MaxDownloads
    /\ update' = "Downloading" /\ updateDownloads' = updateDownloads + 1
    /\ UNCHANGED <<server, conns, calls, indexed, bittorrent, serverStarts>>
DownloadEnds(ok) ==
    /\ update = "Downloading"
    /\ update' = IF ok THEN "ReadyToInstall" ELSE "Error"
    /\ IF ok THEN UNCHANGED <<calls, conns>> ELSE Respond(Holding("signals"), {"signals"}, FALSE)
    /\ UNCHANGED <<server, indexed, bittorrent, serverStarts, updateDownloads>>

-----------------------------------------------------------------------------
RestNext ==
    \/ \E http, ws \in BOOLEAN : StartServer(http, ws)
    \/ StopServer \/ DownloadUpdate
    \/ \E c \in Conn : \/ Connects(c) \/ Disconnected(c) \/ HeaderArrives(c)
                       \/ \E q \in Questions : OnHttpReadyRead(c, q) \/ OnWsMessage(c, q)
    \/ \E h \in ApiHash, kind \in {"bare", "full"} : TorrentResponse(h, kind)
    \/ \E k \in DOMAIN calls :
          Timeout(k) \/ PostedRuns(k) \/ \E ok \in BOOLEAN : MetadataFetched(k, ok)
    \/ \E to \in {"Idle", "UpdateAvailable", "Error"} : CheckReplies(to)
    \/ \E ok \in BOOLEAN : DownloadEnds(ok)

RestSpec == RestInit /\ [][RestNext]_restVars

RestTypeOK ==
    /\ server \in [running : BOOLEAN, http : BOOLEAN, ws : BOOLEAN]
    /\ conns \in [Conn -> {"none", "open", "reading", "asked", "gone"}]
    /\ \A k \in DOMAIN calls : calls[k] \in Call
    /\ indexed \in [ApiHash -> {"absent", "bare", "full"}]

(* Whatever a reply, a timeout, a fetch, a signal and a disconnect do to    *)
(* each other, `respond` has run once or somebody holds it, never both, and *)
(* a HTTP connection waits exactly as long as its call does.                *)
RespondOnce ==
    /\ \A k \in DOMAIN calls : calls[k].answers = IF calls[k].owes = {} THEN 1 ELSE 0
    /\ \A c \in Http : conns[c] = "asked" =>
          \E k \in DOMAIN calls : calls[k].conn = c /\ calls[k].answers = 0

-----------------------------------------------------------------------------
(* A client that asks for updates                                           *)

UpdateChecks == {q \in Request : q.method = "update.check" /\ ~q.files /\ ~q.peer /\ ~q.dryRun}

\* Timers fire, posted calls run, librats and the update server answer, a download ends.
FairRestSpec ==
    /\ RestSpec
    /\ \A k \in 1..MaxCalls :
          /\ WF_restVars(k \in DOMAIN calls /\ Timeout(k))
          /\ WF_restVars(k \in DOMAIN calls /\ PostedRuns(k))
          /\ WF_restVars(k \in DOMAIN calls /\ \E ok \in BOOLEAN : MetadataFetched(k, ok))
    /\ WF_restVars(\E to \in {"Idle", "UpdateAvailable", "Error"} : CheckReplies(to))
    /\ WF_restVars(\E ok \in BOOLEAN : DownloadEnds(ok))

(* "`respond` is always invoked exactly once" (src/src/rest/api_router.h:33):*)
(* no call is left without its answer.                                      *)
AlwaysResponds == \A k \in 1..MaxCalls :
    (k \in DOMAIN calls /\ calls[k].answers = 0) ~> (k \in DOMAIN calls /\ calls[k].answers = 1)
=============================================================================
