---- MODULE SwarmState ----
(* What the threads of manager.rs share: the torrents behind their mutex, the *)
(* peer count, the queue of new peers and the pair of channels of each peer;  *)
(* then what each thread keeps for itself.                                    *)
EXTENDS TorrentOps

CONSTANTS
    Hash,         \* info hashes of torrents
    NoHash,       \* no info hash, or no peer id, yet
    PeerId,       \* the ids remote peers present
    Conn,         \* connections, each used once (a bound)
    Listener,     \* the thread that accepts connections
    Caller,       \* the client's thread, inside Manager::add_torrent
    MaxUnchoked,  \* max_uploaders of Controller::choke
    Period,       \* ticks of the controller between two chokes: 5 in run_loop
    MaxReads,     \* bound: the messages the peers send, requests and disconnections apart
    MaxAdds,      \* bound: the torrents the client adds
    MaxCommands,  \* bound: the messages the client sends
    MaxDown       \* bound: the ManagerUpdates waiting on one connection

ASSUME HashAssumption == NoHash \notin Hash \cup PeerId /\ IsFiniteSet(Hash)
ASSUME PeerIdAssumption == IsFiniteSet(PeerId)
ASSUME ConnAssumption == IsFiniteSet(Conn)
ASSUME ConnectorAssumption == Listener # Caller
ASSUME MaxUnchokedAssumption == MaxUnchoked \in Nat
ASSUME BoundsAssumption ==
    MaxReads \in Nat /\ MaxAdds \in Nat /\ MaxCommands \in Nat /\ MaxDown \in Nat \ {0}
ASSUME PeriodAssumption == Period \in Nat \ {0} /\ Timeout <= Period

VARIABLES
    torrents,    \* TorrentState.torrents: info hash -> TorrentRuntime
    poisoned,    \* a thread panicked while it held the mutex of torrents
    npeers,      \* TorrentState.npeers
    newPeers,    \* the queue of NewPeerMsg, to the controller
    up,          \* per connection, the PeerUpdates the controller has to take
    down,        \* per connection, the ManagerUpdates the connection has to take
    crashed,     \* the calls a thread panicked in, lock poisoning apart
    connector,   \* the threads that run ConnectionHandler::connect
    announcing,  \* the torrent whose tracker response Caller is going through
    conn,        \* the thread of each connection, with its Peer
    ctl,         \* what the controller does next
    tick,        \* ticks since its timers of Period last fired
    peers,       \* Controller.peers: peer id -> channel, named by its connection
    priority,    \* Controller.peer_priority: peer id -> PeerPriority
    bitfields,   \* Controller.bitfields: peer id -> pieces
    batch,       \* check_messages: per peer, the messages taken and not yet processed
    current,     \* the peer whose messages of the batch are being processed
    todo,        \* make_requests: the running torrents still to go through
    commands,    \* the queue of ClientMsg, to the controller
    completions, \* per torrent added, the InfoMsg::One sent for it
    left         \* what peers and client may still send, within the bounds

lockVars == <<torrents, poisoned>>
connectorVars == <<connector, announcing>>
registry == <<peers, priority, bitfields>>
ctlVars == <<ctl, tick, registry, batch, current, todo,
             completions>>
vars == <<lockVars, npeers, newPeers, up, down, crashed, connectorVars, conn, ctlVars,
          commands, left>>

----------------------------------------------------------------------------

Connector == {Listener, Caller}

Site == {"handshake", "handle_client", "parse_port", "update_priority", "map_files",
         "send_disconnect", "recv_client", "try_recv_new_peer", "process", "choke",
         "make_requests", "send_request"}

ConnectorPC == {"idle", "handshake", "create", "count", "register", "dead"}
ConnPC == {"free", "start", "running", "ended"}
CtlPC == {"sleep", "recv_client", "recv_new_peer", "send_update", "check", "process",
          "choke", "lock_requests", "requesting", "stopped", "panicked"}

NewPeer == [id : PeerId, hash : Hash, conn : Conn]
PeerPriority == [hash : Hash, interested : BOOLEAN, choking : BOOLEAN]

PeerUpdate ==
    [type : {"InterestedChange", "ChokingChange", "Disconnect"}]
        \cup [type : {"Have", "Downloaded"}, piece : Piece]
        \cup [type : {"Bitfield"}, bits : SUBSET Piece]

ManagerUpdate ==
    [type : {"Choke", "Unchoke", "Disconnect"}]
        \cup [type : {"Request", "Have"}, piece : Piece]

ClientMsg == [type : {"Pause", "Resume", "Remove"}, hash : Hash] \cup [type : {"Disconnect"}]

\* Peer::new, and a connection slot not used yet.
NewConn(pc, id, hash) ==
    [pc |-> pc, id |-> id, hash |-> hash, peerChoking |-> TRUE,
     peerInterested |-> FALSE, amChoking |-> TRUE, bits |-> {}]

----------------------------------------------------------------------------
(* The mutex.  Only make_requests lets others run while it holds the lock;    *)
(* every other section is one step, enabled when the lock is free.            *)

LockFree == ctl # "requesting"

\* lock().expect("Torrents mutex poisoned") succeeds.
Locks == LockFree /\ ~poisoned
LockPanics == LockFree /\ poisoned

ControllerGone == ctl \in {"stopped", "panicked"}

----------------------------------------------------------------------------
(* The channels.  A send fails once the other side has dropped its receiver:  *)
(* the controller drops it with the peer, a connection when its thread ends.  *)

ToController(k) == \/ \E id \in DOMAIN peers : peers[id] = k
                   \/ \E n \in DOMAIN newPeers : newPeers[n].conn = k

\* comm.send(update), its result ignored.
SendUp(k, m) == up' = IF ToController(k) THEN [up EXCEPT ![k] = Append(@, m)] ELSE up

Receives(k) == conn[k].pc \in {"start", "running"}

\* The down queues after comm.send(m) to every connection of K.
SentDown(K, m) ==
    [k \in Conn |-> IF k \in K /\ Receives(k) THEN Append(down[k], m) ELSE down[k]]

\* What is left of the up queues when the controller drops the channels of K.
Dropping(K) == [k \in Conn |-> IF k \in K THEN <<>> ELSE up[k]]

SwarmInit ==
    /\ torrents = <<>>
    /\ poisoned = FALSE
    /\ npeers = 0
    /\ newPeers = <<>>
    /\ up = [k \in Conn |-> <<>>]
    /\ down = [k \in Conn |-> <<>>]
    /\ crashed = {}
    /\ connector = [c \in Connector |-> [pc |-> "idle", id |-> NoHash, hash |-> NoHash]]
    /\ announcing = NoHash
    /\ conn = [k \in Conn |-> NewConn("free", NoHash, NoHash)]
    /\ ctl = "sleep"
    /\ tick = 0
    /\ peers = <<>>
    /\ priority = <<>>
    /\ bitfields = <<>>
    /\ batch = <<>>
    /\ current = NoHash
    /\ todo = <<>>
    /\ commands = <<>>
    /\ completions = [h \in Hash |-> 0]
    /\ left = [reads |-> MaxReads, adds |-> MaxAdds, commands |-> MaxCommands]
====
