---- MODULE Swarm ----
(* The whole client: Manager and listener, the controller and a thread per    *)
(* connection, run by an arbitrary scheduler.                                 *)
EXTENDS ConnectionHandler, Connection, Controller

Init == SwarmInit

ClientNext == \E m \in ClientMsg : ClientSends(m)

Next ==
    \/ ManagerNext
    \/ \E c \in Connector : ConnectorNext(c)
    \/ \E k \in Conn : ConnectionNext(k)
    \/ ControllerNext
    \/ ClientNext

Spec == Init /\ [][Next]_vars

\* The scheduler lets every thread run: the controller takes its steps, and a
\* connection and a connector those that wait for nobody.  What peers and the
\* client send, and whether a handshake ever comes (its read has no timeout),
\* is theirs to decide.
Fairness ==
    /\ WF_vars(ControllerNext)
    /\ \A k \in Conn : WF_vars(Begin(k)) /\ WF_vars(TakeManagerUpdate(k))
    /\ \A c \in Connector : WF_vars(ConnectorProceeds(c))

FairSpec == Spec /\ Fairness

----------------------------------------------------------------------------

\* What the variables hold; npeers, an AtomicUsize, is never taken below zero.
TypeOK ==
    /\ DOMAIN torrents \subseteq Hash /\ \A h \in DOMAIN torrents : IsTorrent(torrents[h])
    /\ poisoned \in BOOLEAN
    /\ npeers \in Nat
    /\ newPeers \in Seq(NewPeer)
    /\ \A k \in Conn : up[k] \in Seq(PeerUpdate) /\ down[k] \in Seq(ManagerUpdate)
    /\ crashed \subseteq Site
    /\ \A c \in Connector : connector[c].pc \in ConnectorPC
    /\ announcing \in Hash \cup {NoHash}
    /\ \A k \in Conn : conn[k].pc \in ConnPC /\ conn[k].bits \subseteq Piece
    /\ ctl \in CtlPC
    /\ tick \in 0..Period
    /\ peers \in [DOMAIN peers -> Conn] /\ DOMAIN peers \subseteq PeerId
    /\ priority \in [DOMAIN priority -> PeerPriority] /\ DOMAIN priority \subseteq PeerId
    /\ \A id \in DOMAIN batch : batch[id] \in Seq(PeerUpdate)
    /\ todo \in Seq(Hash)
    /\ commands \in Seq(ClientMsg)

\* The three maps of the controller name the same peers, whatever Removes,
\* disconnections and reused peer ids come between: every `expect("Peer in
\* priority queue but not ...")` and `expect("Peer should be in peers list")`.
KeysAgree == DOMAIN peers = DOMAIN priority /\ DOMAIN peers = DOMAIN bitfields

\* What process unwraps is there: a message check_messages has taken is of a
\* peer still registered when its turn comes, and a registered peer's torrent is
\* in the shared map, although the client may remove the torrent at any time.
ProcessLooksUp ==
    /\ DOMAIN batch \subseteq DOMAIN peers
    /\ \A id \in DOMAIN priority : poisoned \/ priority[id].hash \in DOMAIN torrents

\* The threads past the peer-count check of do_connect but not yet counted.
Connecting == {c \in Connector : connector[c].pc \in {"handshake", "create", "count"}}

\* The check and the increment of npeers are apart, and the check lets one peer
\* too many through: MAX_PEERS is exceeded by the two connecting threads, and
\* never by more.
PeerCountBound == npeers + Cardinality(Connecting) <= MaxPeers + Cardinality(Connector)

\* npeers counts every peer the controller has or will take up, so its
\* fetch_sub never wraps below zero.
CountCoversPeers ==
    npeers >= Cardinality(DOMAIN peers) + Len(newPeers)
                + Cardinality({c \in Connector : connector[c].pc = "register"})

----------------------------------------------------------------------------
(* What the controller believes of a peer, and what its connection knows.     *)

Live(k) == conn[k].pc \in {"start", "running"}

\* The updates of peer id that the controller has not processed yet.
Pending(id) == (IF id \in DOMAIN batch THEN batch[id] ELSE <<>>) \o up[peers[id]]

Positions(s, type) == {n \in DOMAIN s : s[n].type = type}

\* The controller learns of choking by flips alone, so one lost or repeated
\* message would invert its view for good.  Its view, flipped once for every
\* ChokingChange under way, is the connection's.
ChokeViewExact ==
    \A id \in DOMAIN peers : Live(peers[id]) =>
        (priority[id].choking = conn[peers[id]].peerChoking)
            <=> (Cardinality(Positions(Pending(id), "ChokingChange")) % 2 = 0)

InterestViewExact ==
    \A id \in DOMAIN peers : Live(peers[id]) =>
        (priority[id].interested = conn[peers[id]].peerInterested)
            <=> (Cardinality(Positions(Pending(id), "InterestedChange")) % 2 = 0)

\* The controller's bitfield of a peer, with the updates under way, is the one
\* the connection has.
BitfieldViewExact ==
    \A id \in DOMAIN peers : Live(peers[id]) =>
        LET p == Pending(id)
        IN  conn[peers[id]].bits =
                bitfields[id]
                \cup {p[n].piece : n \in Positions(p, "Have")}
                \cup UNION {p[n].bits : n \in Positions(p, "Bitfield")}

\* A request goes to a peer that announced the piece: the controller decides from
\* its own copies, some messages old, and a peer id may have come back since over
\* another connection.
RequestsServable ==
    \A k \in Conn : \A n \in DOMAIN down[k] :
        down[k][n].type = "Request" => down[k][n].piece \in conn[k].bits

\* The last word on choking the connection has had or will take.
WillUnchoke(k) ==
    LET words == Positions(down[k], "Choke") \cup Positions(down[k], "Unchoke")
    IN  IF words = {} THEN ~conn[k].amChoking
        ELSE down[k][CHOOSE n \in words : \A m \in words : m <= n].type = "Unchoke"

\* No more than max_uploaders of the registered peers are, once the messages
\* under way are taken, unchoked.
UploadSlots ==
    Cardinality({id \in DOMAIN peers : Live(peers[id]) /\ WillUnchoke(peers[id])})
        <= MaxUnchoked

\* A torrent is reported complete to the client at most once after it is added,
\* and only with every piece there, however the last blocks, pauses and resumes
\* interleave with the controller.
CompletedOnce ==
    \A h \in Hash :
        /\ completions[h] <= 1
        /\ h \in DOMAIN torrents /\ completions[h] = 1 => Finished(torrents[h])

\* No lookup of the controller panics (recv_client, process, choke and the
\* lookups of make_requests).
LookupsSucceed == crashed \cap {"recv_client", "process", "choke", "make_requests"} = {}

----------------------------------------------------------------------------

\* Whatever else the controller has to do, a connection handed to it is taken
\* up, or dropped with the controller.
NewPeersTakenUp ==
    \A k \in Conn :
        (\E n \in DOMAIN newPeers : newPeers[n].conn = k)
            ~> (\A n \in DOMAIN newPeers : newPeers[n].conn # k)

\* A peer that has hung up leaves the controller's maps, so it takes no upload
\* slot and is sent no request for ever after.
HungUpIsForgotten ==
    \A k \in Conn :
        (\E n \in DOMAIN up[k] : up[k][n].type = "Disconnect") ~> ~ToController(k)

\* The client's Disconnect stops the controller.
DisconnectStops ==
    (\E n \in DOMAIN commands : commands[n].type = "Disconnect") ~> ControllerGone

----------------------------------------------------------------------------
(* What the source says of the program and the program does not keep.         *)

\* "Priority can't be above 0" (torrent_runtime.rs:85).
PrioritiesStayLegal == "update_priority" \notin crashed

\* A peer's message that arrives between check_messages and make_requests is
\* "probably not critical" (manager.rs:1265): where no other thread has panicked,
\* sending a request does not panic the controller either.
LateMessageNotCritical == crashed # {"send_request"}
====
