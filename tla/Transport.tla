------------------------------ MODULE Transport ------------------------------
(***************************************************************************)
(* The P2P transport of the Qt program, the table of peers and replication *)
(* (src/src/net/p2p_transport, src/src/services/peer_registry and          *)
(* replication_service, the message handlers of src/src/peer/peer_api).    *)
(* librats calls back on its reactor thread; everything is queued for the  *)
(* Qt thread, in order.                                                    *)
(***************************************************************************)
EXTENDS Integers, Sequences, FiniteSets

CONSTANTS
    Peer,
    Type,                                                    \* message types with a handler
    MaxTransports, MaxLinks, MaxMessages, MaxSharingToggles  \* bounds

\* Peers are counted.
ASSUME TransportAssumption == IsFiniteSet(Peer)

VARIABLES
    running,     \* running; the poll timer runs with it
    handlers,    \* messageHandlers
    registered,  \* registeredDispatchers
    wired,       \* per type, dispatchers set on the MessageJson of this node
    links,       \* librats: connected peers
    events,      \* queued for the Qt thread
    lastCount,   \* lastPeerCount; -1: none
    peerCount,   \* what peerCountChanged said last
    peers,       \* peers_: peers that introduced themselves
    sharing,     \* ourDatabaseSharing_
    told,        \* per peer: what our last client_info of this link said ("no": none)
    transportStarts, linkings, messages, sharingToggles

transportVars == <<running, handlers, registered, wired, links, events, lastCount, peerCount, peers,
                   sharing, told, transportStarts, linkings, messages, sharingToggles>>

Event == [kind : {"connected", "disconnected", "client_info"}, peer : Peer] \cup [kind : {"count"}]

TransportInit ==
    /\ running = FALSE /\ handlers = {} /\ registered = {} /\ wired = [t \in Type |-> 0]
    /\ links = {} /\ events = <<>> /\ lastCount = -1 /\ peerCount = 0
    /\ peers = {} /\ sharing \in BOOLEAN /\ told = [p \in Peer |-> "no"]
    /\ transportStarts = 0 /\ linkings = 0 /\ messages = 0 /\ sharingToggles = 0

-----------------------------------------------------------------------------
(* Handlers                                                                 *)

\* A type is wired once per node, when there is a node.
RegisterHandler(t) ==
    /\ handlers' = handlers \cup {t}
    /\ IF running /\ t \notin registered
       THEN registered' = registered \cup {t} /\ wired' = [wired EXCEPT ![t] = @ + 1]
       ELSE UNCHANGED <<registered, wired>>
    /\ t \notin handlers
    /\ UNCHANGED <<running, links, events, lastCount, peerCount, peers, sharing, told,
                   transportStarts, linkings, messages, sharingToggles>>

\* The handlers that were registered before the node was there.
Dispatchers ==
    /\ registered' = registered \cup handlers
    /\ wired' = [t \in Type |-> IF t \in handlers \ registered THEN 1 ELSE 0]

-----------------------------------------------------------------------------
(* start() and stop()                                                       *)

\* The node comes up with everything attached, or not at all.
StartTransport(ok) ==
    /\ ~running /\ transportStarts < MaxTransports /\ transportStarts' = transportStarts + 1
    /\ IF ok THEN running' = TRUE /\ lastCount' = -1 /\ Dispatchers
             ELSE UNCHANGED <<running, lastCount, registered, wired>>
    /\ UNCHANGED <<handlers, links, events, peerCount, peers, sharing, told, linkings, messages,
                   sharingToggles>>

PeerGone(p) == [kind |-> "disconnected", peer |-> p]
Count == [kind |-> "count"]

\* The links in any order, and the two callbacks of each that closes.
Orders == {q \in [1..Cardinality(links) -> links] : {q[k] : k \in DOMAIN q} = links}
Closing(order) ==
    [k \in 1..2 * Len(order) |-> IF k % 2 = 1 THEN PeerGone(order[(k + 1) \div 2]) ELSE Count]

\* node->stop() closes the links; the node and all that was set on it goes.
StopTransport ==
    /\ running /\ running' = FALSE
    /\ registered' = {} /\ wired' = [t \in Type |-> 0]
    /\ links' = {} /\ told' = [p \in Peer |-> "no"]
    /\ \E order \in Orders : events' = events \o Closing(order)
    /\ lastCount' = -1 /\ peerCount' = 0
    /\ UNCHANGED <<handlers, peers, sharing, transportStarts, linkings, messages, sharingToggles>>

-----------------------------------------------------------------------------
(* The reactor thread of librats                                            *)

PeerConnects(p) ==
    /\ running /\ p \notin links /\ linkings < MaxLinks /\ linkings' = linkings + 1
    /\ links' = links \cup {p}
    /\ events' = events \o <<[kind |-> "connected", peer |-> p], Count>>
    /\ UNCHANGED <<running, handlers, registered, wired, lastCount, peerCount, peers, sharing, told,
                   transportStarts, messages, sharingToggles>>

PeerDisconnects(p) ==
    /\ p \in links
    /\ links' = links \ {p} /\ told' = [told EXCEPT ![p] = "no"]
    /\ events' = events \o <<PeerGone(p), Count>>
    /\ UNCHANGED <<running, handlers, registered, wired, lastCount, peerCount, peers, sharing,
                   transportStarts, linkings, messages, sharingToggles>>

\* dispatchMessage: a client_info of a peer that is connected.
ClientInfoArrives(p) ==
    /\ p \in links /\ messages < MaxMessages /\ messages' = messages + 1
    /\ events' = Append(events, [kind |-> "client_info", peer |-> p])
    /\ UNCHANGED <<running, handlers, registered, wired, links, lastCount, peerCount, peers, sharing,
                   told, transportStarts, linkings, sharingToggles>>

-----------------------------------------------------------------------------
(* The Qt thread                                                            *)

Is(kind) == events # <<>> /\ Head(events).kind = kind

\* sendMessage: nothing is sent where there is no node, and nothing arrives at a
\* peer that is gone.
SendMessage(p) ==
    IF running /\ p \in links THEN [told EXCEPT ![p] = IF sharing THEN "yes" ELSE "off"] ELSE told

OnPeerConnected ==
    /\ Is("connected")
    /\ told' = SendMessage(Head(events).peer)
    /\ events' = Tail(events)
    /\ UNCHANGED <<running, handlers, registered, wired, links, lastCount, peerCount, peers, sharing,
                   transportStarts, linkings, messages, sharingToggles>>

OnPeerDisconnected ==
    /\ Is("disconnected")
    /\ peers' = peers \ {Head(events).peer} /\ events' = Tail(events)
    /\ UNCHANGED <<running, handlers, registered, wired, links, lastCount, peerCount, sharing, told,
                   transportStarts, linkings, messages, sharingToggles>>

OnClientInfo ==
    /\ Is("client_info")
    /\ peers' = peers \cup {Head(events).peer} /\ events' = Tail(events)
    /\ UNCHANGED <<running, handlers, registered, wired, links, lastCount, peerCount, sharing, told,
                   transportStarts, linkings, messages, sharingToggles>>

\* updatePeerCount, from the queue or the timer.
Counted ==
    IF running /\ Cardinality(links) # lastCount
    THEN lastCount' = Cardinality(links) /\ peerCount' = Cardinality(links)
    ELSE UNCHANGED <<lastCount, peerCount>>
UpdatePeerCount ==
    /\ Is("count") /\ Counted /\ events' = Tail(events)
    /\ UNCHANGED <<running, handlers, registered, wired, links, peers, sharing, told,
                   transportStarts, linkings, messages, sharingToggles>>
TimerCounts ==
    /\ running /\ Counted
    /\ UNCHANGED <<running, handlers, registered, wired, links, events, peers, sharing, told,
                   transportStarts, linkings, messages, sharingToggles>>

\* Plausible bug: those who were introduced before are not told.
AnnounceToNobody == told
\* broadcastMessage reaches every link.
Announced == [p \in Peer |-> IF p \in links THEN IF sharing' THEN "yes" ELSE "off" ELSE told[p]]
SetDatabaseSharing ==
    /\ sharingToggles < MaxSharingToggles /\ sharingToggles' = sharingToggles + 1
    /\ sharing' = ~sharing
    /\ told' = IF running THEN Announced ELSE told
    /\ UNCHANGED <<running, handlers, registered, wired, links, events, lastCount, peerCount, peers,
                   transportStarts, linkings, messages>>

TransportNext ==
    \/ \E t \in Type : RegisterHandler(t)
    \/ \E ok \in BOOLEAN : StartTransport(ok)
    \/ StopTransport
    \/ \E p \in Peer : PeerConnects(p) \/ PeerDisconnects(p) \/ ClientInfoArrives(p)
    \/ OnPeerConnected \/ OnPeerDisconnected \/ OnClientInfo \/ UpdatePeerCount \/ TimerCounts
    \/ SetDatabaseSharing

TransportSpec == TransportInit /\ [][TransportNext]_transportVars

-----------------------------------------------------------------------------
Pending(kind, p) == \E k \in DOMAIN events : events[k].kind = kind /\ events[k].peer = p

TransportTypeOK ==
    /\ running \in BOOLEAN /\ sharing \in BOOLEAN
    /\ handlers \subseteq Type /\ registered \subseteq Type
    /\ links \subseteq Peer /\ peers \subseteq Peer
    /\ lastCount \in -1..Cardinality(Peer) /\ peerCount \in 0..Cardinality(Peer)
    /\ \A k \in DOMAIN events : events[k] \in Event
    /\ told \in [Peer -> {"no", "yes", "off"}]

(* On every node each handler is wired once, restarts or not; the table has *)
(* no peer whose link is gone, every peer was told last whether this node   *)
(* shares its database as it is now, and the count that is shown is that of *)
(* the links, each but for what is still queued.                            *)
PeersAgree ==
    /\ running => \A t \in Type : wired[t] = (IF t \in handlers THEN 1 ELSE 0)
    /\ \A p \in peers : p \in links \/ Pending("disconnected", p)
    /\ running => \A p \in links :
          told[p] = (IF sharing THEN "yes" ELSE "off") \/ Pending("connected", p)
    /\ \/ peerCount = (IF running THEN Cardinality(links) ELSE 0)
       \/ \E k \in DOMAIN events : events[k].kind = "count"
=============================================================================
