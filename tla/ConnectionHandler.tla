---- MODULE ConnectionHandler ----
(* The threads that turn a socket into a connection: the listener, which      *)
(* accepts, and the client's own thread inside Manager::add_torrent, which    *)
(* connects to the addresses of the tracker's response one after the other.   *)
EXTENDS SwarmState

\* Everything a connector leaves alone, the mutex and the counter apart.
handlerRest == <<up, down, ctlVars, commands>>

At(c, pc) == connector[c].pc = pc

Goto(c, pc) == connector' = [connector EXCEPT ![c].pc = pc]

\* A handshake refused or failed: the socket is shut down, nothing else kept.
Refuse(c) ==
    connector' = [connector EXCEPT ![c] = [pc |-> "idle", id |-> NoHash, hash |-> NoHash]]

----------------------------------------------------------------------------
(* Manager *)

\* add_torrent and add_completed_torrent up to query_tracker; a torrent already
\* there is replaced by a fresh one.
AddTorrent(h, downloaded) ==
    /\ At(Caller, "idle") /\ announcing = NoHash
    /\ left.adds > 0
    /\ left' = [left EXCEPT !.adds = @ - 1]
    /\ \/ /\ Locks
          /\ torrents' = [g \in DOMAIN torrents \cup {h} |->
                             IF g = h THEN NewTorrent(downloaded) ELSE torrents[g]]
          /\ completions' = [completions EXCEPT ![h] = 0]
          /\ announcing' = h
          /\ UNCHANGED connector
       \/ /\ LockPanics
          /\ Goto(Caller, "dead")
          /\ UNCHANGED <<torrents, completions, announcing>>
    /\ UNCHANGED <<poisoned, npeers, newPeers, up, down, crashed, conn, ctl, tick, registry,
                   batch, current, todo, commands>>

\* The tracker stream ends: add_torrent returns.
EndAnnounce ==
    /\ At(Caller, "idle") /\ announcing # NoHash
    /\ announcing' = NoHash
    /\ UNCHANGED <<lockVars, npeers, newPeers, crashed, connector, conn, left, handlerRest>>

----------------------------------------------------------------------------
(* ConnectionHandler::connect *)

\* Faulty PeersBelowLimit, for the mutant runs.
PassesAlways(c) == TRUE

\* do_connect's check of the peer count, with a socket at hand; when it fails
\* the socket is shut down and nothing changes.
PeersBelowLimit(c) == npeers <= MaxPeers

\* A slot is kept for every connection being set up (Conn is a bound).
SlotLeft ==
    Cardinality({c \in Connector : connector[c].pc \notin {"idle", "dead"}})
        < Cardinality({k \in Conn : conn[k].pc = "free"})

Connect(c) ==
    /\ At(c, "idle")
    /\ c = Caller => announcing # NoHash
    /\ PeersBelowLimit(c)
    /\ SlotLeft
    /\ Goto(c, "handshake")
    /\ UNCHANGED <<lockVars, npeers, newPeers, crashed, announcing, conn, left, handlerRest>>

\* The socket fails or what it sends is no handshake; a protocol name that is not
\* UTF-8, and a socket without an address, make the thread panic, with no lock held.
HandshakeFails(c) ==
    /\ At(c, "handshake")
    /\ \/ Refuse(c) /\ UNCHANGED crashed
       \/ Goto(c, "dead") /\ crashed' = crashed \cup {"handshake"}
    /\ UNCHANGED <<lockVars, npeers, newPeers, announcing, conn, left, handlerRest>>

\* handle_client reads the peer's handshake and compares the info hash with the
\* one announced, or looks it up (match_torrent, which lets the lock go again).
HandshakeRead(c, id, h) ==
    /\ At(c, "handshake")
    /\ \/ c = Caller /\ h = announcing
       \/ c = Listener /\ Locks /\ h \in DOMAIN torrents
    /\ connector' = [connector EXCEPT ![c] = [pc |-> "create", id |-> id, hash |-> h]]
    /\ UNCHANGED <<lockVars, npeers, newPeers, crashed, announcing, conn, left, handlerRest>>

HandshakeUnknown(c, h) ==
    /\ At(c, "handshake")
    /\ \/ c = Caller /\ h # announcing
       \/ c = Listener /\ Locks /\ h \notin DOMAIN torrents
    /\ Refuse(c)
    /\ UNCHANGED <<lockVars, npeers, newPeers, crashed, announcing, conn, left, handlerRest>>

\* The end of handle_client: torrents.get(&info_hash).unwrap() under a new lock.
Create(c) ==
    /\ At(c, "create") /\ Locks
    /\ IF connector[c].hash \in DOMAIN torrents
       THEN Goto(c, "count") /\ UNCHANGED <<poisoned, crashed>>
       ELSE /\ poisoned' = TRUE
            /\ crashed' = crashed \cup {"handle_client"}
            /\ Goto(c, "dead")
    /\ UNCHANGED <<torrents, npeers, newPeers, announcing, conn, left, handlerRest>>

\* register_peer: the count first, ...
Count(c) ==
    /\ At(c, "count")
    /\ npeers' = npeers + 1
    /\ Goto(c, "register")
    /\ UNCHANGED <<lockVars, newPeers, crashed, announcing, conn, left, handlerRest>>

\* ... then the message to the controller, whose failure is only logged; the
\* thread of the connection is spawned either way.
Register(c) ==
    /\ At(c, "register")
    /\ \E k \in Conn :
        LET me == connector[c]
        IN  /\ conn[k].pc = "free"
            /\ conn' = [conn EXCEPT ![k] = NewConn("start", me.id, me.hash)]
            /\ newPeers' = IF ControllerGone THEN newPeers
                           ELSE Append(newPeers, [id |-> me.id, hash |-> me.hash, conn |-> k])
    /\ Refuse(c)
    /\ UNCHANGED <<lockVars, npeers, crashed, announcing, left, handlerRest>>

\* A connector takes the poisoned lock (match_torrent or handle_client).
ConnectorDies(c) ==
    /\ LockPanics
    /\ At(c, "create") \/ (c = Listener /\ At(c, "handshake"))
    /\ Goto(c, "dead")
    /\ UNCHANGED <<lockVars, npeers, newPeers, crashed, announcing, conn, left, handlerRest>>

ConnectorProceeds(c) == Create(c) \/ Count(c) \/ Register(c) \/ ConnectorDies(c)

ConnectorNext(c) ==
    \/ Connect(c)
    \/ HandshakeFails(c)
    \/ \E id \in PeerId, h \in Hash : HandshakeRead(c, id, h)
    \/ \E h \in Hash : HandshakeUnknown(c, h)
    \/ ConnectorProceeds(c)

ManagerNext ==
    \/ \E h \in Hash, downloaded \in BOOLEAN : AddTorrent(h, downloaded)
    \/ EndAnnounce
====
