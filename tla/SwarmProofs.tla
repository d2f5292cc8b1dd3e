---- MODULE SwarmProofs ----
(* Proofs about Swarm, for any torrents, peers, connections and bounds.       *)
EXTENDS Swarm, SequenceTheorems, FiniteSetTheorems, TLAPS

----------------------------------------------------------------------------
(* The inductive invariant *)

\* What the variables of the invariant hold.
ConnRecord ==
    [pc : ConnPC, id : PeerId \cup {NoHash}, hash : Hash \cup {NoHash}, peerChoking : BOOLEAN,
     peerInterested : BOOLEAN, amChoking : BOOLEAN, bits : SUBSET Piece]

ConnectorRecord ==
    {r \in [pc : ConnectorPC, id : PeerId \cup {NoHash}, hash : Hash \cup {NoHash}] :
        r.pc \in {"create", "count", "register"} => r.id \in PeerId /\ r.hash \in Hash}

Typed ==
    /\ npeers \in Nat
    /\ newPeers \in Seq(NewPeer)
    /\ up \in [Conn -> Seq(PeerUpdate)]
    /\ connector \in [Connector -> ConnectorRecord]
    /\ conn \in [Conn -> ConnRecord]
    /\ peers \in [DOMAIN peers -> Conn] /\ DOMAIN peers \subseteq PeerId
    /\ priority \in [DOMAIN priority -> PeerPriority]
    /\ \A id \in DOMAIN batch : batch[id] \in Seq(PeerUpdate) \ {<<>>}

\* A peer's Disconnect is the last thing it says.
NoDisconnect(s) == \A n \in DOMAIN s : s[n].type # "Disconnect"
DisconnectLast(s) == \A n \in DOMAIN s : n < Len(s) => s[n].type # "Disconnect"

LastWords ==
    /\ \A k \in Conn : /\ DisconnectLast(up[k])
                       /\ conn[k].pc # "ended" => NoDisconnect(up[k])
    /\ \A id \in DOMAIN batch : DisconnectLast(batch[id])

\* Messages are kept only while check_messages goes through them.
BatchInHand == ctl # "process" => DOMAIN batch = {}

IInv ==
    /\ Typed
    /\ KeysAgree
    /\ ProcessLooksUp
    /\ LastWords
    /\ BatchInHand
    /\ LookupsSucceed
    /\ CountCoversPeers
    /\ PeerCountBound

----------------------------------------------------------------------------
(* What the threads leave alone *)

\* The client changes nothing the invariant is about.
LEMMA ClientFrame ==
  ASSUME NEW m, ClientSends(m)
  PROVE  UNCHANGED <<lockVars, npeers, newPeers, up, crashed, connector, conn, ctl, registry, batch>>
BY DEF ClientSends, controllerRest, connectorVars, ctlVars

\* A torrent may come, and Caller may die.
LEMMA ManagerFrame ==
  ASSUME ManagerNext
  PROVE  /\ UNCHANGED <<poisoned, npeers, newPeers, up, crashed, conn, ctl, registry, batch>>
         /\ DOMAIN torrents \subseteq DOMAIN torrents'
         /\ \/ UNCHANGED connector
            \/ connector[Caller].pc = "idle" /\ connector' = [connector EXCEPT ![Caller].pc = "dead"]
<1>1. ASSUME NEW h, NEW d, AddTorrent(h, d)
      PROVE  /\ UNCHANGED <<poisoned, npeers, newPeers, up, crashed, conn, ctl, registry, batch>>
             /\ DOMAIN torrents \subseteq DOMAIN torrents'
             /\ \/ UNCHANGED connector
                \/ /\ connector[Caller].pc = "idle"
                   /\ connector' = [connector EXCEPT ![Caller].pc = "dead"]
  BY <1>1 DEF AddTorrent, Goto, At
<1>2. CASE EndAnnounce
  BY <1>2 DEF EndAnnounce, lockVars, handlerRest, ctlVars
<1> QED
  BY <1>1, <1>2 DEF ManagerNext

\* A connector touches neither the torrents nor what the controller keeps.
LEMMA ConnectorFrame ==
  ASSUME NEW c, ConnectorNext(c)
  PROVE  /\ UNCHANGED <<torrents, up, ctl, registry, batch>>
         /\ poisoned => poisoned'
         /\ crashed' \subseteq crashed \cup {"handshake", "handle_client"}
<1> USE DEF lockVars, handlerRest, ctlVars
<1>1. CASE Connect(c)
  BY <1>1 DEF Connect
<1>2. CASE HandshakeFails(c)
  BY <1>2 DEF HandshakeFails
<1>3. ASSUME NEW id, NEW h, HandshakeRead(c, id, h) PROVE UNCHANGED <<lockVars, up, crashed, ctlVars>>
  BY <1>3 DEF HandshakeRead
<1>4. ASSUME NEW h, HandshakeUnknown(c, h) PROVE UNCHANGED <<lockVars, up, crashed, ctlVars>>
  BY <1>4 DEF HandshakeUnknown
<1>5. CASE Create(c)
  BY <1>5 DEF Create
<1>6. CASE Count(c)
  BY <1>6 DEF Count
<1>7. CASE Register(c)
  BY <1>7 DEF Register
<1>8. CASE ConnectorDies(c)
  BY <1>8 DEF ConnectorDies
<1> QED
  BY <1>1, <1>2, <1>3, <1>4, <1>5, <1>6, <1>7, <1>8 DEF ConnectorNext, ConnectorProceeds

\* A connection changes torrents, never which there are.
LEMMA ConnectionFrame ==
  ASSUME NEW k, ConnectionNext(k)
  PROVE  /\ UNCHANGED <<npeers, newPeers, connector, ctl, registry, batch>>
         /\ DOMAIN torrents' = DOMAIN torrents
         /\ poisoned => poisoned'
         /\ crashed' \subseteq crashed
                        \cup {"update_priority", "map_files", "send_disconnect", "parse_port"}
<1> USE DEF connRest, lockVars, connectorVars, ctlVars
<1> DEFINE Quiet == /\ DOMAIN torrents' = DOMAIN torrents
                    /\ poisoned => poisoned'
                    /\ crashed' \subseteq crashed
                                   \cup {"update_priority", "map_files", "send_disconnect",
                                         "parse_port"}
<1>a. ASSUME NEW peer, LockOrEnd(k, peer) PROVE Quiet
  BY <1>a DEF LockOrEnd
<1>b. ASSUME NEW peer, NEW site \in {"update_priority", "map_files"}, PanicLocked(k, peer, site)
      PROVE Quiet
  BY <1>b DEF PanicLocked
<1>c. ASSUME NEW next, UpdateTorrent(k, next) PROVE Quiet
  BY <1>c DEF UpdateTorrent
<1>d. ASSUME NEW peer, NEW S, NEW d, NEW m, ShiftAndSend(k, peer, S, d, m) PROVE Quiet
  BY <1>a, <1>b, <1>c, <1>d DEF ShiftAndSend
<1>e. ASSUME NEW peer, NEW m, JustSend(k, peer, m) PROVE Quiet
  BY <1>e DEF JustSend
<1>f. ASSUME HangUp(k) PROVE crashed' \subseteq crashed \cup {"send_disconnect"}
  BY <1>f DEF HangUp
<1> HIDE DEF Quiet
<1>1. CASE Begin(k)
  <2>1. CASE LockOrEnd(k, conn[k])
    BY <1>1, <2>1, <1>a DEF Begin, Quiet
  <2>2. CASE UNCHANGED <<lockVars, crashed>>
    BY <1>1, <2>2 DEF Begin
  <2> QED
    BY <1>1, <2>1, <2>2 DEF Begin
<1>2. CASE ReadChoke(k)
  BY <1>2, <1>d DEF ReadChoke, Quiet
<1>3. CASE ReadInterested(k)
  BY <1>3, <1>e DEF ReadInterested, Quiet
<1>4. ASSUME NEW i, ReadHave(k, i) PROVE Quiet /\ UNCHANGED connRest
  BY <1>4, <1>d, <1>e DEF ReadHave
<1>5. ASSUME NEW i, NEW whole, NEW valid, ReadPiece(k, i, whole, valid) PROVE Quiet /\ UNCHANGED connRest
  BY <1>5, <1>a, <1>b, <1>c DEF ReadPiece
<1>6. ASSUME NEW bits, ReadBitfield(k, bits) PROVE Quiet /\ UNCHANGED connRest
  BY <1>6, <1>d, <1>e DEF ReadBitfield
<1>7. CASE ReadRequest(k)
  BY <1>7, <1>a, <1>b DEF ReadRequest, Quiet
<1>8. CASE ReadPort(k)
  BY <1>8 DEF ReadPort
<1>9. CASE ReadEOF(k)
  <2>0. UNCHANGED connRest
    BY <1>9 DEF ReadEOF
  <2>1. CASE LockOrEnd(k, conn[k])
    BY <2>0, <2>1, <1>a DEF Quiet
  <2>2. CASE PanicLocked(k, conn[k], "update_priority")
    BY <2>0, <2>2, <1>b DEF Quiet
  <2>3. CASE DOMAIN torrents' = DOMAIN torrents /\ UNCHANGED poisoned /\ HangUp(k)
    BY <2>0, <2>3, <1>f
  <2> QED
    BY <1>9, <2>1, <2>2, <2>3 DEF ReadEOF
<1>10. CASE TakeManagerUpdate(k)
  BY <1>10 DEF TakeManagerUpdate
<1> QED
  BY <1>1, <1>2, <1>3, <1>4, <1>5, <1>6, <1>7, <1>8, <1>9, <1>10
     DEF ConnectionNext, ReadMessage, Quiet

\* A flag of a connection set.
LEMMA ChokeTyped ==
  ASSUME NEW c \in ConnRecord
  PROVE  /\ [c EXCEPT !.peerChoking = ~c.peerChoking] \in ConnRecord
         /\ [c EXCEPT !.peerChoking = ~c.peerChoking].pc = c.pc
BY DEF ConnRecord

\* ... its interest, ...
LEMMA InterestTyped ==
  ASSUME NEW c \in ConnRecord
  PROVE  /\ [c EXCEPT !.peerInterested = ~@] \in ConnRecord
         /\ [c EXCEPT !.peerInterested = ~@].pc = c.pc
BY DEF ConnRecord

\* ... and our choke of it.
LEMMA AmChokingTyped ==
  ASSUME NEW c \in ConnRecord, NEW type
  PROVE  LET told == IF type \in {"Choke", "Unchoke"} THEN type = "Choke" ELSE c.amChoking
         IN  /\ [c EXCEPT !.amChoking = told] \in ConnRecord
             /\ [c EXCEPT !.amChoking = told].pc = c.pc
BY DEF ConnRecord

----------------------------------------------------------------------------
(* What a connection says *)

\* A peer's messages, one more or none; after a Disconnect the thread has ended.
Says(k) ==
    /\ conn' \in [Conn -> ConnRecord]
    /\ up' \in [Conn -> Seq(PeerUpdate)]
    /\ \A j \in Conn \ {k} : up'[j] = up[j] /\ conn'[j].pc = conn[j].pc
    /\ conn[k].pc \in {"start", "running"}
    /\ conn'[k].pc \in {"running", "ended"}
    /\ \/ up'[k] = up[k]
       \/ \E m \in PeerUpdate : /\ up'[k] = Append(up[k], m)
                                /\ m.type = "Disconnect" => conn'[k].pc = "ended"

\* An update of connection k alone.
LEMMA ConnUpdated ==
  ASSUME Typed, NEW k \in Conn, NEW r \in ConnRecord, conn' = [conn EXCEPT ![k] = r]
  PROVE  /\ conn' \in [Conn -> ConnRecord]
         /\ conn'[k] = r
         /\ \A j \in Conn \ {k} : conn'[j].pc = conn[j].pc
BY DEF Typed

\* Nothing is said, or m is.
LEMMA UpSent ==
  ASSUME Typed, NEW k \in Conn, NEW m \in PeerUpdate, SendUp(k, m)
  PROVE  /\ up' \in [Conn -> Seq(PeerUpdate)]
         /\ \A j \in Conn \ {k} : up'[j] = up[j]
         /\ up'[k] = up[k] \/ up'[k] = Append(up[k], m)
<1>1. Append(up[k], m) \in Seq(PeerUpdate)
  BY DEF Typed
<1> QED
  BY <1>1 DEF SendUp, Typed

\* The thread of k ends without a word.
LEMMA EndsSilently ==
  ASSUME Typed, NEW k \in Conn, conn[k].pc \in {"start", "running"}, NEW peer \in ConnRecord,
         conn' = Ended([conn EXCEPT ![k] = peer], k), UNCHANGED up
  PROVE  Says(k)
<1>1. [peer EXCEPT !.pc = "ended"] \in ConnRecord
  BY DEF ConnRecord, ConnPC
<1>2. [peer EXCEPT !.pc = "ended"].pc = "ended"
  BY DEF ConnRecord
<1>3. conn' = [conn EXCEPT ![k] = [peer EXCEPT !.pc = "ended"]]
  BY DEF Ended, Typed
<1> QED
  BY <1>1, <1>2, <1>3, ConnUpdated DEF Says, Typed

\* A poisoned lock ends the thread without a word, ...
LEMMA LockOrEndSays ==
  ASSUME Typed, NEW k \in Conn, conn[k].pc \in {"start", "running"}, NEW peer \in ConnRecord,
         LockOrEnd(k, peer)
  PROVE  Says(k)
BY EndsSilently DEF LockOrEnd

\* ... and so does a panic.
LEMMA PanicSays ==
  ASSUME Typed, NEW k \in Conn, conn[k].pc = "running", NEW peer \in ConnRecord,
         NEW site, PanicLocked(k, peer, site)
  PROVE  Says(k)
BY EndsSilently DEF PanicLocked

\* A step that changes flags and passes a message on says what it passes on, ...
LEMMA JustSendSays ==
  ASSUME Typed, NEW k \in Conn, conn[k].pc = "running",
         NEW peer \in ConnRecord, peer.pc = "running",
         NEW m \in PeerUpdate, m.type # "Disconnect",
         conn' = [conn EXCEPT ![k] = peer], SendUp(k, m)
  PROVE  Says(k)
<1>1. /\ conn' \in [Conn -> ConnRecord] /\ conn'[k] = peer
      /\ \A j \in Conn \ {k} : conn'[j].pc = conn[j].pc
  BY ConnUpdated
<1>2. /\ up' \in [Conn -> Seq(PeerUpdate)]
      /\ \A j \in Conn \ {k} : up'[j] = up[j]
      /\ up'[k] = up[k] \/ up'[k] = Append(up[k], m)
  BY UpSent
<1> QED
  BY <1>1, <1>2 DEF Says

\* ... and the same with other flags.
LEMMA ShiftSays ==
  ASSUME Typed, NEW k \in Conn, conn[k].pc = "running",
         NEW peer \in ConnRecord, peer.pc = "running",
         NEW m \in PeerUpdate, m.type # "Disconnect",
         NEW S, NEW d, ShiftAndSend(k, peer, S, d, m)
  PROVE  Says(k)
<1>1. CASE LockOrEnd(k, peer)
  BY <1>1, LockOrEndSays
<1>2. CASE PanicLocked(k, peer, "update_priority")
  BY <1>2, PanicSays
<1>3. CASE conn' = [conn EXCEPT ![k] = peer] /\ SendUp(k, m)
  BY <1>3, JustSendSays
<1> QED
  BY <1>1, <1>2, <1>3 DEF ShiftAndSend

\* A connection that ends in order says Disconnect, and no more.
LEMMA HangUpSays ==
  ASSUME Typed, NEW k \in Conn, conn[k].pc = "running", HangUp(k)
  PROVE  Says(k)
<1> DEFINE r == [conn[k] EXCEPT !.pc = "ended"]
           m == [type |-> "Disconnect"]
<1>1. r \in ConnRecord /\ r.pc = "ended" /\ conn' = [conn EXCEPT ![k] = r]
  BY DEF Typed, ConnRecord, ConnPC, HangUp, Ended
<1>2. m \in PeerUpdate
  BY DEF PeerUpdate
<1>3. SendUp(k, m)
  BY DEF HangUp
<1>4. /\ up' \in [Conn -> Seq(PeerUpdate)]
      /\ \A j \in Conn \ {k} : up'[j] = up[j]
      /\ up'[k] = up[k] \/ up'[k] = Append(up[k], m)
  BY <1>2, <1>3, UpSent
<1>5. /\ conn' \in [Conn -> ConnRecord] /\ conn'[k] = r
      /\ \A j \in Conn \ {k} : conn'[j].pc = conn[j].pc
  BY <1>1, ConnUpdated
<1> QED
  BY <1>1, <1>2, <1>4, <1>5 DEF Says

\* A step of a connection says at most one thing, a Disconnect only as it ends.
LEMMA ConnectionSays ==
  ASSUME Typed, NEW k \in Conn, ConnectionNext(k)
  PROVE  Says(k)
<1> DEFINE c == conn[k]
<1>0. c \in ConnRecord
  BY DEF Typed
<1> HIDE DEF c
<1>1. CASE Begin(k)
  <2>1. CASE LockOrEnd(k, conn[k])
    BY <1>0, <1>1, <2>1, LockOrEndSays DEF Begin, c
  <2>2. CASE conn' = [conn EXCEPT ![k].pc = "running"] /\ UNCHANGED up
    <3>1. [c EXCEPT !.pc = "running"] \in ConnRecord
      BY <1>0 DEF ConnRecord, ConnPC
    <3>2. [c EXCEPT !.pc = "running"].pc = "running"
      BY <1>0 DEF ConnRecord
    <3>3. conn' = [conn EXCEPT ![k] = [c EXCEPT !.pc = "running"]]
      BY <2>2 DEF c
    <3> QED
      BY <1>1, <2>2, <3>1, <3>2, <3>3, ConnUpdated DEF Begin, Says, Typed
  <2> QED
    BY <1>1, <2>1, <2>2 DEF Begin
<1>2. CASE ReadChoke(k)
  <2> DEFINE choke == ~c.peerChoking
             peer  == [c EXCEPT !.peerChoking = choke]
             m     == [type |-> "ChokingChange"]
  <2>1. c.pc = "running" /\ ShiftAndSend(k, peer, c.bits, IF choke THEN -1 ELSE 1, m)
    BY <1>2 DEF ReadChoke, Reads, c
  <2>2. peer \in ConnRecord /\ peer.pc = c.pc
    BY <1>0, ChokeTyped
  <2>3. m \in PeerUpdate
    BY DEF PeerUpdate
  <2> HIDE DEF peer, m, choke
  <2> QED
    BY <2>1, <2>2, <2>3, ShiftSays DEF c, m
<1>3. CASE ReadInterested(k)
  <2> DEFINE peer == [c EXCEPT !.peerInterested = ~@]
             m    == [type |-> "InterestedChange"]
  <2>1. c.pc = "running" /\ JustSend(k, peer, m)
    BY <1>3 DEF ReadInterested, Reads, c
  <2>2. peer \in ConnRecord /\ peer.pc = c.pc
    BY <1>0, InterestTyped
  <2>3. m \in PeerUpdate
    BY DEF PeerUpdate
  <2> HIDE DEF peer, m
  <2> QED
    BY <2>1, <2>2, <2>3, JustSendSays DEF JustSend, c, m
<1>4. ASSUME NEW i \in Piece, ReadHave(k, i) PROVE Says(k)
  <2> DEFINE peer == [c EXCEPT !.bits = @ \cup {i}]
             m    == [type |-> "Have", piece |-> i]
  <2>1. c.pc = "running" /\ (ShiftAndSend(k, peer, {i}, 1, m) \/ JustSend(k, peer, m))
    BY <1>4 DEF ReadHave, Reads, c
  <2>2. peer \in ConnRecord /\ peer.pc = c.pc
    BY <1>0 DEF ConnRecord
  <2>3. m \in PeerUpdate
    BY DEF PeerUpdate
  <2> HIDE DEF peer, m
  <2> QED
    BY <2>1, <2>2, <2>3, ShiftSays, JustSendSays DEF JustSend, c, m
<1>5. ASSUME NEW i \in Piece, NEW whole, NEW valid, ReadPiece(k, i, whole, valid) PROVE Says(k)
  <2> DEFINE m == [type |-> "Downloaded", piece |-> i]
  <2>1. c.pc = "running"
    BY <1>5 DEF ReadPiece, Reads, c
  <2>2. m \in PeerUpdate
    BY DEF PeerUpdate
  <2>3. CASE LockOrEnd(k, conn[k])
    BY <1>0, <2>1, <2>3, LockOrEndSays DEF c
  <2>4. CASE UNCHANGED conn /\ SendUp(k, m)
    BY <2>1, <2>2, <2>4, UpSent DEF Says, Typed, c
  <2>5. CASE UNCHANGED <<conn, up>>
    BY <2>1, <2>5 DEF Says, Typed, c
  <2>6. CASE PanicLocked(k, conn[k], "map_files")
    BY <1>0, <2>1, <2>6, PanicSays DEF c
  <2> QED
    BY <1>5, <2>3, <2>4, <2>5, <2>6 DEF ReadPiece
<1>6. ASSUME NEW bits \in SUBSET Piece, ReadBitfield(k, bits) PROVE Says(k)
  <2> DEFINE all  == c.bits \cup bits
             peer == [c EXCEPT !.bits = all]
             m    == [type |-> "Bitfield", bits |-> all]
  <2>1. c.pc = "running" /\ (ShiftAndSend(k, peer, all, 1, m) \/ JustSend(k, peer, m))
    BY <1>6 DEF ReadBitfield, Reads, c
  <2>2. peer \in ConnRecord /\ peer.pc = c.pc
    BY <1>0 DEF ConnRecord
  <2>3. m \in PeerUpdate
    BY <1>0 DEF PeerUpdate, ConnRecord
  <2> HIDE DEF peer, m
  <2> QED
    BY <2>1, <2>2, <2>3, ShiftSays, JustSendSays DEF JustSend, c, m
<1>7. CASE ReadRequest(k)
  BY <1>0, <1>7, LockOrEndSays, PanicSays DEF ReadRequest, c
<1>8. CASE ReadPort(k)
  BY <1>0, <1>8, EndsSilently DEF ReadPort, c, Typed
<1>9. CASE ReadEOF(k)
  <2>1. c.pc = "running"
    BY <1>9 DEF ReadEOF, c
  <2>2. LockOrEnd(k, conn[k]) \/ PanicLocked(k, conn[k], "update_priority") \/ HangUp(k)
    BY <1>9 DEF ReadEOF
  <2> QED
    BY <1>0, <2>1, <2>2, LockOrEndSays, PanicSays, HangUpSays DEF c
<1>10. CASE TakeManagerUpdate(k)
  <2> DEFINE told == IF Head(down[k]).type \in {"Choke", "Unchoke"}
                     THEN Head(down[k]).type = "Choke" ELSE c.amChoking
             peer == [c EXCEPT !.amChoking = told]
  <2>1. c.pc = "running" /\ UNCHANGED up /\ conn' = [conn EXCEPT ![k] = peer]
    BY <1>10 DEF TakeManagerUpdate, c
  <2>2. peer \in ConnRecord /\ peer.pc = c.pc
    BY <1>0, AmChokingTyped
  <2> HIDE DEF peer
  <2> QED
    BY <2>1, <2>2, ConnUpdated DEF Says, Typed, c
<1> QED
  BY <1>1, <1>2, <1>3, <1>4, <1>5, <1>6, <1>7, <1>8, <1>9, <1>10 DEF ConnectionNext, ReadMessage

----------------------------------------------------------------------------
(* The steps of the client, the Manager and the connections *)

Registering == {c \in Connector : connector[c].pc = "register"}

\* The counts of the invariant are numbers.
LEMMA Counts ==
  ASSUME IInv
  PROVE  /\ IsFiniteSet(Connector) /\ Cardinality(Connector) \in Nat
         /\ IsFiniteSet(Connecting) /\ Cardinality(Connecting) \in Nat
         /\ IsFiniteSet(Registering) /\ Cardinality(Registering) \in Nat
         /\ IsFiniteSet(DOMAIN peers) /\ Cardinality(DOMAIN peers) \in Nat
         /\ Len(newPeers) \in Nat /\ npeers \in Nat /\ MaxPeers \in Nat
<1>1. IsFiniteSet(Connector)
  <2>1. IsFiniteSet({Listener} \cup {Caller})
    BY FS_Singleton, FS_AddElement
  <2>2. Connector = {Listener} \cup {Caller}
    BY DEF Connector
  <2> QED
    BY <2>1, <2>2
<1>2. Connecting \subseteq Connector /\ Registering \subseteq Connector
  BY DEF Connecting, Registering
<1>3. DOMAIN peers \subseteq PeerId
  BY DEF IInv, Typed
<1> QED
  BY <1>1, <1>2, <1>3, FS_Subset, FS_CardinalityType, PeerIdAssumption, MaxPeersAssumption
     DEF IInv, Typed

\* A step after which all that the invariant is about is as before, but for
\* torrents added, a lock poisoned and panics outside the controller's lookups.
LEMMA Unaffected ==
  ASSUME IInv, UNCHANGED <<npeers, newPeers, up, connector, conn, ctl, registry, batch>>,
         DOMAIN torrents \subseteq DOMAIN torrents', poisoned => poisoned',
         crashed' \subseteq crashed \cup {"handshake", "handle_client", "update_priority",
                                          "map_files", "send_disconnect", "parse_port"}
  PROVE  IInv'
<1> USE DEF registry
<1>1. Typed' /\ KeysAgree' /\ LastWords' /\ BatchInHand'
  BY DEF IInv, Typed, KeysAgree, LastWords, BatchInHand
<1>2. ProcessLooksUp'
  BY DEF IInv, ProcessLooksUp
<1>3. LookupsSucceed'
  BY DEF IInv, LookupsSucceed
<1>4. CountCoversPeers' /\ PeerCountBound'
  BY DEF IInv, CountCoversPeers, PeerCountBound, Connecting
<1> QED
  BY <1>1, <1>2, <1>3, <1>4 DEF IInv

\* The client's steps preserve the invariant.
LEMMA ClientStep ==
  ASSUME IInv, ClientNext
  PROVE  IInv'
BY ClientFrame, Unaffected DEF ClientNext, lockVars

\* A connector set to r is among those connecting, or registering, by r.pc.
LEMMA ConnectorSet ==
  ASSUME Typed, NEW c \in Connector, NEW r \in ConnectorRecord,
         connector' = [connector EXCEPT ![c] = r]
  PROVE  /\ connector' \in [Connector -> ConnectorRecord]
         /\ Connecting' = IF r.pc \in {"handshake", "create", "count"} THEN Connecting \cup {c}
                          ELSE Connecting \ {c}
         /\ Registering' = IF r.pc = "register" THEN Registering \cup {c}
                           ELSE Registering \ {c}
<1>1. connector' \in [Connector -> ConnectorRecord] /\ connector'[c] = r
      /\ \A d \in Connector : d # c => connector'[d] = connector[d]
  BY DEF Typed
<1> QED
  BY <1>1 DEF Connecting, Registering

\* A connector that goes on with what it has.
LEMMA Gone ==
  ASSUME Typed, NEW c \in Connector, NEW pc \in ConnectorPC, Goto(c, pc),
         pc \in {"create", "count", "register"} =>
             connector[c].id \in PeerId /\ connector[c].hash \in Hash
  PROVE  \E r \in ConnectorRecord : r.pc = pc /\ connector' = [connector EXCEPT ![c] = r]
<1> DEFINE r == [connector[c] EXCEPT !.pc = pc]
<1>1. connector[c] \in ConnectorRecord
  BY DEF Typed
<1>2. r \in ConnectorRecord /\ r.pc = pc
  BY <1>1 DEF ConnectorRecord
<1>3. connector' = [connector EXCEPT ![c] = r]
  BY DEF Goto
<1> HIDE DEF r
<1> QED
  BY <1>2, <1>3

\* A connector that gives up, or has done its work.
LEMMA Refused ==
  ASSUME NEW c, Refuse(c)
  PROVE  \E r \in ConnectorRecord : r.pc = "idle" /\ connector' = [connector EXCEPT ![c] = r]
<1> DEFINE r == [pc |-> "idle", id |-> NoHash, hash |-> NoHash]
<1>1. r \in ConnectorRecord /\ r.pc = "idle"
  BY DEF ConnectorRecord, ConnectorPC
<1> HIDE DEF r
<1>2. connector' = [connector EXCEPT ![c] = r]
  BY DEF Refuse, r
<1> QED
  BY <1>1, <1>2

\* What a step of connector c alone keeps of the invariant.
LEMMA ConnectorKeeps ==
  ASSUME IInv, NEW c, ConnectorNext(c)
  PROVE  KeysAgree' /\ ProcessLooksUp' /\ BatchInHand' /\ LookupsSucceed'
<1> USE ConnectorFrame DEF registry
<1>1. KeysAgree' /\ BatchInHand'
  BY DEF IInv, KeysAgree, BatchInHand
<1>2. ProcessLooksUp'
  BY DEF IInv, ProcessLooksUp
<1>3. LookupsSucceed'
  BY DEF IInv, LookupsSucceed
<1> QED
  BY <1>1, <1>2, <1>3

\* The manager's own steps leave the peers alone. Caller may die of a poisoned
\* lock, but only while it is idle, with no peer in hand.
LEMMA ManagerStep ==
  ASSUME IInv, ManagerNext
  PROVE  IInv'
<1>1. CASE UNCHANGED connector
  BY <1>1, ManagerFrame, Unaffected
<1>2. CASE connector[Caller].pc = "idle" /\ connector' = [connector EXCEPT ![Caller].pc = "dead"]
  <2> USE DEF registry
  <2>0. Caller \in Connector
    BY DEF Connector
  <2>1. PICK r \in ConnectorRecord : r.pc = "dead" /\ connector' = [connector EXCEPT ![Caller] = r]
    BY <1>2, <2>0, Gone DEF Goto, ConnectorPC, IInv
  <2>2. /\ connector' \in [Connector -> ConnectorRecord]
        /\ Connecting' = Connecting \ {Caller}
        /\ Registering' = Registering \ {Caller}
    BY <2>0, <2>1, ConnectorSet DEF IInv
  <2>3. Connecting' = Connecting /\ Registering' = Registering
    BY <1>2, <2>2 DEF Connecting, Registering
  <2>4. Typed' /\ KeysAgree' /\ LastWords' /\ BatchInHand' /\ LookupsSucceed'
    BY <2>2, ManagerFrame DEF IInv, Typed, KeysAgree, LastWords, BatchInHand, LookupsSucceed
  <2>5. ProcessLooksUp'
    BY ManagerFrame DEF IInv, ProcessLooksUp
  <2>6. CountCoversPeers' /\ PeerCountBound'
    BY <2>3, ManagerFrame DEF IInv, CountCoversPeers, PeerCountBound, Registering
  <2> QED
    BY <2>4, <2>5, <2>6 DEF IInv
<1> QED
  BY <1>1, <1>2, ManagerFrame

\* A Disconnect is said last, whatever else is.
LEMMA ConnectionStep ==
  ASSUME IInv, NEW k \in Conn, ConnectionNext(k)
  PROVE  IInv'
<1>1. Says(k)
  BY ConnectionSays DEF IInv
<1>2. Typed'
  BY <1>1, ConnectionFrame DEF IInv, Typed, Says, registry
<1>3. KeysAgree' /\ BatchInHand'
  BY ConnectionFrame DEF IInv, KeysAgree, BatchInHand, registry
<1>4. ProcessLooksUp'
  BY ConnectionFrame DEF IInv, ProcessLooksUp, registry
<1>5. LookupsSucceed'
  BY ConnectionFrame DEF IInv, LookupsSucceed
<1>6. CountCoversPeers' /\ PeerCountBound'
  BY ConnectionFrame DEF IInv, CountCoversPeers, PeerCountBound, Connecting, registry
<1>7. DisconnectLast(up'[k]) /\ (conn'[k].pc # "ended" => NoDisconnect(up'[k]))
  <2>1. NoDisconnect(up[k]) /\ up[k] \in Seq(PeerUpdate)
    BY <1>1 DEF Says, IInv, LastWords, Typed
  <2>2. CASE up'[k] = up[k]
    BY <2>1, <2>2 DEF NoDisconnect, DisconnectLast
  <2>3. ASSUME NEW m \in PeerUpdate, up'[k] = Append(up[k], m),
               m.type = "Disconnect" => conn'[k].pc = "ended"
        PROVE  DisconnectLast(up'[k]) /\ (conn'[k].pc # "ended" => NoDisconnect(up'[k]))
    BY <2>1, <2>3 DEF NoDisconnect, DisconnectLast
  <2> QED
    BY <1>1, <2>2, <2>3 DEF Says
<1>8. LastWords'
  <2>1. \A j \in Conn \ {k} : DisconnectLast(up'[j]) /\ (conn'[j].pc # "ended" => NoDisconnect(up'[j]))
    BY <1>1 DEF Says, IInv, LastWords
  <2> QED
    BY <1>7, <2>1, ConnectionFrame DEF LastWords, IInv
<1> QED
  BY <1>2, <1>3, <1>4, <1>5, <1>6, <1>8 DEF IInv

\* A connector that moves from one place to another and changes nothing else.
LEMMA ConnectorMoves ==
  ASSUME IInv, NEW c \in Connector, ConnectorNext(c), UNCHANGED <<npeers, newPeers, conn>>,
         NEW r \in ConnectorRecord, connector' = [connector EXCEPT ![c] = r],
         connector[c].pc # "register", r.pc # "register",
         \/ r.pc \notin {"handshake", "create", "count"}
         \/ c \in Connecting
         \/ npeers <= MaxPeers
  PROVE  IInv'
<1>1. Typed' /\ LastWords'
  BY ConnectorSet, ConnectorFrame DEF IInv, Typed, LastWords, registry
<1>2. Registering' = Registering
  BY ConnectorSet DEF IInv, Registering
<1>3. CountCoversPeers'
  BY <1>2, ConnectorFrame DEF IInv, CountCoversPeers, Registering, registry
<1>4. PeerCountBound'
  <2>1. Connecting' \subseteq Connector
    BY DEF Connecting
  <2>2. Cardinality(Connecting') \in Nat /\ Cardinality(Connecting') <= Cardinality(Connector)
    BY <2>1, Counts, FS_Subset, FS_CardinalityType
  <2>3. CASE npeers <= MaxPeers
    BY <2>2, <2>3, Counts DEF PeerCountBound
  <2>4. CASE Connecting' \subseteq Connecting
    <3>1. Cardinality(Connecting') <= Cardinality(Connecting)
      BY <2>4, Counts, FS_Subset
    <3> QED
      BY <2>2, <3>1, Counts DEF PeerCountBound, IInv
  <2>5. Connecting' \subseteq Connecting \/ npeers <= MaxPeers
    BY ConnectorSet DEF IInv
  <2> QED
    BY <2>3, <2>4, <2>5
<1> QED
  BY <1>1, <1>3, <1>4, ConnectorKeeps DEF IInv

\* register_peer counts the peer, ...
LEMMA CountStep ==
  ASSUME IInv, NEW c \in Connector, Count(c)
  PROVE  IInv'
<1>0. ConnectorNext(c) /\ connector[c].pc = "count"
  BY DEF ConnectorNext, ConnectorProceeds, Count, At
<1>1. PICK r \in ConnectorRecord : r.pc = "register" /\ connector' = [connector EXCEPT ![c] = r]
  <2>1. connector[c] \in ConnectorRecord
    BY DEF IInv, Typed
  <2> QED
    BY <1>0, <2>1, Gone DEF Count, ConnectorPC, ConnectorRecord, IInv
<1>2. /\ connector' \in [Connector -> ConnectorRecord]
      /\ Connecting' = Connecting \ {c}
      /\ Registering' = Registering \cup {c}
  BY <1>1, ConnectorSet DEF IInv
<1>3. c \in Connecting /\ c \notin Registering
  BY <1>0 DEF Connecting, Registering
<1>4. /\ Cardinality(Connecting') = Cardinality(Connecting) - 1
      /\ Cardinality(Registering') = Cardinality(Registering) + 1
  BY <1>2, <1>3, Counts, FS_AddElement, FS_RemoveElement
<1>5. npeers' = npeers + 1 /\ UNCHANGED <<newPeers, conn>>
  BY DEF Count
<1>6. Typed' /\ LastWords'
  BY <1>0, <1>2, <1>5, ConnectorFrame DEF IInv, Typed, LastWords, registry
<1>7. CountCoversPeers'
  <2>1. UNCHANGED <<peers, newPeers>>
    BY <1>0, <1>5, ConnectorFrame DEF registry
  <2> QED
    BY <1>4, <1>5, <2>1, Counts DEF IInv, CountCoversPeers, Registering
<1>8. PeerCountBound'
  BY <1>4, <1>5, Counts DEF IInv, PeerCountBound
<1> QED
  BY <1>0, <1>6, <1>7, <1>8, ConnectorKeeps DEF IInv

\* ... and hands it to the controller, if there is one.
LEMMA RegisterStep ==
  ASSUME IInv, NEW c \in Connector, Register(c)
  PROVE  IInv'
<1>0. ConnectorNext(c) /\ connector[c].pc = "register" /\ UNCHANGED npeers
  BY DEF ConnectorNext, ConnectorProceeds, Register, At
<1>1. PICK r \in ConnectorRecord : r.pc = "idle" /\ connector' = [connector EXCEPT ![c] = r]
  BY Refused DEF Register
<1>2. /\ connector' \in [Connector -> ConnectorRecord]
      /\ Connecting' = Connecting \ {c}
      /\ Registering' = Registering \ {c}
  BY <1>1, ConnectorSet DEF IInv
<1>3. c \notin Connecting /\ c \in Registering
  BY <1>0 DEF Connecting, Registering
<1>4. /\ Connecting' = Connecting
      /\ Cardinality(Registering') = Cardinality(Registering) - 1
  <2>1. Connecting' = Connecting
    BY <1>2, <1>3
  <2>2. Cardinality(Registering \ {c}) = Cardinality(Registering) - 1
    BY <1>3, Counts, FS_RemoveElement
  <2> QED
    BY <1>2, <2>1, <2>2
<1> DEFINE me == connector[c]
<1>5. me \in ConnectorRecord /\ me.id \in PeerId /\ me.hash \in Hash
  BY <1>0 DEF IInv, Typed, ConnectorRecord
<1>6. PICK k \in Conn :
        /\ conn[k].pc = "free"
        /\ conn' = [conn EXCEPT ![k] = NewConn("start", me.id, me.hash)]
        /\ newPeers' = IF ControllerGone THEN newPeers
                       ELSE Append(newPeers, [id |-> me.id, hash |-> me.hash, conn |-> k])
  BY DEF Register
<1>7. NewConn("start", me.id, me.hash) \in ConnRecord
  BY <1>5 DEF NewConn, ConnRecord, ConnPC
<1>8. conn' \in [Conn -> ConnRecord] /\ \A j \in Conn : conn'[j].pc # "ended" => conn[j].pc # "ended"
  BY <1>6, <1>7 DEF IInv, Typed
<1>9. newPeers' \in Seq(NewPeer) /\ Len(newPeers') <= Len(newPeers) + 1 /\ Len(newPeers') \in Nat
  <2>1. [id |-> me.id, hash |-> me.hash, conn |-> k] \in NewPeer
    BY <1>5 DEF NewPeer
  <2> HIDE DEF me
  <2> QED
    BY <1>6, <2>1 DEF IInv, Typed
<1>10. Typed' /\ LastWords'
  BY <1>0, <1>2, <1>8, <1>9, ConnectorFrame DEF IInv, Typed, LastWords, registry
<1>11. CountCoversPeers'
  <2>1. UNCHANGED peers
    BY <1>0, ConnectorFrame DEF registry
  <2> QED
    BY <1>0, <1>4, <1>9, <2>1, Counts DEF IInv, CountCoversPeers, Registering
<1>12. PeerCountBound'
  BY <1>0, <1>4 DEF IInv, PeerCountBound
<1> QED
  BY <1>0, <1>10, <1>11, <1>12, ConnectorKeeps DEF IInv

\* Where a connector is, and where it goes.
LEMMA ConnectorStep ==
  ASSUME IInv, NEW c \in Connector, ConnectorNext(c)
  PROVE  IInv'
<1>0. connector[c] \in ConnectorRecord
  BY DEF IInv, Typed
<1> DEFINE Moves == \E r \in ConnectorRecord :
                /\ connector' = [connector EXCEPT ![c] = r]
                /\ r.pc # "register"
                /\ \/ r.pc \notin {"handshake", "create", "count"}
                   \/ c \in Connecting
                   \/ npeers <= MaxPeers
           Still == connector[c].pc # "register" /\ UNCHANGED <<npeers, newPeers, conn>>
<1>1. ASSUME Moves, Still PROVE IInv'
  BY <1>1, ConnectorMoves
<1>2. CASE Connect(c)
  <2>1. Still /\ Goto(c, "handshake") /\ npeers <= MaxPeers
    BY <1>2 DEF Connect, At, PeersBelowLimit
  <2>2. PICK r \in ConnectorRecord : r.pc = "handshake" /\ connector' = [connector EXCEPT ![c] = r]
    BY <2>1, Gone DEF IInv, ConnectorPC
  <2> QED
    BY <1>1, <2>1, <2>2
<1>3. ASSUME Refuse(c), Still PROVE IInv'
  <2>1. PICK r \in ConnectorRecord : r.pc = "idle" /\ connector' = [connector EXCEPT ![c] = r]
    BY <1>3, Refused
  <2> QED
    BY <1>1, <1>3, <2>1
<1>4. CASE HandshakeFails(c)
  <2>1. Still /\ (Refuse(c) \/ Goto(c, "dead"))
    BY <1>4 DEF HandshakeFails, At
  <2>2. CASE Goto(c, "dead")
    <3>1. PICK r \in ConnectorRecord : r.pc = "dead" /\ connector' = [connector EXCEPT ![c] = r]
      BY <2>2, Gone DEF IInv, ConnectorPC
    <3> QED
      BY <1>1, <2>1, <3>1
  <2> QED
    BY <1>3, <2>1, <2>2
<1>5. ASSUME NEW h \in Hash, HandshakeUnknown(c, h) PROVE IInv'
  BY <1>3, <1>5 DEF HandshakeUnknown, At
<1>6. ASSUME NEW id \in PeerId, NEW h \in Hash, HandshakeRead(c, id, h) PROVE IInv'
  <2> DEFINE r == [pc |-> "create", id |-> id, hash |-> h]
  <2>1. r \in ConnectorRecord
    BY DEF ConnectorRecord, ConnectorPC
  <2>2. c \in Connecting /\ Still /\ connector' = [connector EXCEPT ![c] = r]
    BY <1>6 DEF HandshakeRead, At, Connecting
  <2> QED
    BY <1>1, <2>1, <2>2
<1>7. CASE Create(c) \/ ConnectorDies(c)
  <2>1. Still /\ connector[c].pc \in {"create", "handshake"} /\ c \in Connecting
    BY <1>7 DEF Create, ConnectorDies, At, Connecting
  <2>2. CASE Goto(c, "count") /\ connector[c].pc = "create"
    <3>1. connector[c].id \in PeerId /\ connector[c].hash \in Hash
      BY <1>0, <2>2 DEF ConnectorRecord
    <3>2. PICK r \in ConnectorRecord : r.pc = "count" /\ connector' = [connector EXCEPT ![c] = r]
      BY <2>2, <3>1, Gone DEF IInv, ConnectorPC
    <3> QED
      BY <1>1, <2>1, <3>2
  <2>3. CASE Goto(c, "dead")
    <3>1. PICK r \in ConnectorRecord : r.pc = "dead" /\ connector' = [connector EXCEPT ![c] = r]
      BY <2>3, Gone DEF IInv, ConnectorPC
    <3> QED
      BY <1>1, <2>1, <3>1
  <2> QED
    BY <1>7, <2>2, <2>3 DEF Create, ConnectorDies, At
<1> QED
  BY <1>2, <1>4, <1>5, <1>6, <1>7, CountStep, RegisterStep DEF ConnectorNext, ConnectorProceeds

----------------------------------------------------------------------------
(* The steps of the controller *)

\* A step of the controller within a place: the registry, the count and the
\* queues are as before.
LEMMA ControllerWithin ==
  ASSUME IInv, UNCHANGED <<npeers, newPeers, up, connector, conn, registry, batch, crashed>>,
         DOMAIN torrents' = DOMAIN torrents, UNCHANGED poisoned,
         ctl' # "process" => DOMAIN batch = {}
  PROVE  IInv'
<1> USE DEF registry
<1>1. Typed' /\ KeysAgree' /\ LastWords' /\ BatchInHand'
  BY DEF IInv, Typed, KeysAgree, LastWords, BatchInHand
<1>2. ProcessLooksUp' /\ LookupsSucceed'
  BY DEF IInv, ProcessLooksUp, LookupsSucceed
<1>3. CountCoversPeers' /\ PeerCountBound'
  BY DEF IInv, CountCoversPeers, PeerCountBound, Connecting
<1> QED
  BY <1>1, <1>2, <1>3 DEF IInv

\* The controller ends: nothing it kept is left.
LEMMA LeaveStep ==
  ASSUME IInv, NEW pc, pc # "process", Leave(pc), UNCHANGED <<npeers, connector, conn>>,
         crashed' \subseteq crashed \cup {"try_recv_new_peer", "send_request"}
  PROVE  IInv'
<1>1. /\ DOMAIN peers' = {} /\ DOMAIN priority' = {} /\ DOMAIN bitfields' = {}
      /\ DOMAIN batch' = {}
  BY DEF Leave
<1>2. newPeers' \in Seq(NewPeer) /\ Len(newPeers') = 0 /\ up' = [k \in Conn |-> <<>>]
  BY DEF Leave
<1>3. Typed'
  BY <1>1, <1>2 DEF IInv, Typed, Leave
<1>4. KeysAgree' /\ ProcessLooksUp' /\ BatchInHand'
  BY <1>1 DEF KeysAgree, ProcessLooksUp, BatchInHand
<1>5. LastWords'
  BY <1>1, <1>2 DEF LastWords, NoDisconnect, DisconnectLast
<1>6. LookupsSucceed'
  BY DEF IInv, LookupsSucceed
<1>7. CountCoversPeers'
  <2>1. Cardinality(DOMAIN peers') = 0
    BY <1>1, FS_EmptySet
  <2>2. UNCHANGED Registering
    BY DEF Registering
  <2> QED
    BY <1>2, <2>1, <2>2, Counts DEF IInv, CountCoversPeers, Registering
<1>8. PeerCountBound'
  BY DEF IInv, PeerCountBound, Connecting
<1> QED
  BY <1>3, <1>4, <1>5, <1>6, <1>7, <1>8 DEF IInv

\* A queue emptied or cut from the front keeps what holds of all its messages.
LEMMA Emptied ==
  ASSUME Typed, LastWords, NEW K, up' = Dropping(K), UNCHANGED conn
  PROVE  /\ up' \in [Conn -> Seq(PeerUpdate)]
         /\ \A k \in Conn : /\ DisconnectLast(up'[k])
                            /\ conn'[k].pc # "ended" => NoDisconnect(up'[k])
BY DEF Dropping, Typed, LastWords, DisconnectLast, NoDisconnect

\* Peers leave: the count goes down by as many.
LEMMA RemovePeersKeeps ==
  ASSUME IInv, NEW ids \in SUBSET DOMAIN peers, RemovePeers(ids, ids),
         UNCHANGED <<newPeers, connector, conn>>
  PROVE  /\ KeysAgree' /\ CountCoversPeers' /\ PeerCountBound'
         /\ npeers' \in Nat
         /\ peers' \in [DOMAIN peers' -> Conn] /\ DOMAIN peers' = DOMAIN peers \ ids
         /\ priority' \in [DOMAIN priority' -> PeerPriority]
         /\ DOMAIN priority' = DOMAIN priority \ ids
         /\ \A id \in DOMAIN priority' : priority'[id] = priority[id]
         /\ up' \in [Conn -> Seq(PeerUpdate)]
         /\ \A k \in Conn : /\ DisconnectLast(up'[k])
                            /\ conn'[k].pc # "ended" => NoDisconnect(up'[k])
<1>1. KeysAgree'
  BY DEF IInv, KeysAgree, RemovePeers, Without
<1>2. /\ peers' \in [DOMAIN peers' -> Conn] /\ DOMAIN peers' = DOMAIN peers \ ids
      /\ priority' \in [DOMAIN priority' -> PeerPriority]
      /\ DOMAIN priority' = DOMAIN priority \ ids
      /\ \A id \in DOMAIN priority' : priority'[id] = priority[id]
  BY DEF IInv, Typed, RemovePeers, Without
<1>3. /\ Cardinality(DOMAIN peers') = Cardinality(DOMAIN peers) - Cardinality(ids)
      /\ Cardinality(ids) \in Nat /\ Cardinality(ids) <= Cardinality(DOMAIN peers)
  <2>1. ids = DOMAIN peers \cap ids
    OBVIOUS
  <2>2. Cardinality(DOMAIN peers \ ids) = Cardinality(DOMAIN peers) - Cardinality(DOMAIN peers \cap ids)
    BY Counts, FS_Difference
  <2>3. Cardinality(ids) \in Nat /\ Cardinality(ids) <= Cardinality(DOMAIN peers)
    BY Counts, FS_Subset, FS_CardinalityType
  <2> QED
    BY <1>2, <2>1, <2>2, <2>3
<1>4. npeers' = npeers - Cardinality(ids)
  BY DEF RemovePeers
<1>5. Registering' = Registering /\ Connecting' = Connecting
  BY DEF Registering, Connecting
<1>6. npeers >= Cardinality(DOMAIN peers) + Len(newPeers) + Cardinality(Registering)
  BY DEF IInv, CountCoversPeers, Registering
<1>7. CountCoversPeers'
  <2>1. npeers' >= Cardinality(DOMAIN peers') + Len(newPeers') + Cardinality(Registering')
    BY <1>3, <1>4, <1>5, <1>6, Counts
  <2> QED
    BY <2>1 DEF CountCoversPeers, Registering
<1>8. npeers' \in Nat
  BY <1>3, <1>4, <1>6, Counts
<1>9. PeerCountBound'
  BY <1>3, <1>4, <1>5, Counts DEF IInv, PeerCountBound
<1>10. up' = Dropping(ConnsOf(ids))
  BY DEF RemovePeers
<1> QED
  BY <1>1, <1>2, <1>7, <1>8, <1>9, <1>10, Emptied DEF IInv

\* The next message of a peer: there is one, and a Disconnect is the last.
LEMMA NextMessageKeeps ==
  ASSUME IInv, NEW id \in DOMAIN batch, NextMessage(id)
  PROVE  /\ DOMAIN batch' \subseteq DOMAIN batch
         /\ \A p \in DOMAIN batch' : batch'[p] \in Seq(PeerUpdate) \ {<<>>} /\ DisconnectLast(batch'[p])
         /\ Head(batch[id]).type = "Disconnect" => id \notin DOMAIN batch'
<1>1. batch[id] \in Seq(PeerUpdate) /\ batch[id] # <<>> /\ DisconnectLast(batch[id])
  BY DEF IInv, Typed, LastWords
<1>2. Head(batch[id]) = batch[id][1] /\ Len(batch[id]) \in Nat \ {0}
  BY <1>1
<1>3. CASE Len(batch[id]) = 1
  <2>1. batch' = Without(batch, {id})
    BY <1>3 DEF NextMessage
  <2> QED
    BY <2>1 DEF Without, IInv, Typed, LastWords
<1>4. CASE Len(batch[id]) # 1
  <2>1. batch' = [batch EXCEPT ![id] = Tail(@)]
    BY <1>4 DEF NextMessage
  <2>2. Head(batch[id]).type # "Disconnect"
    <3>1. DOMAIN batch[id] = 1..Len(batch[id])
      BY <1>1, LenProperties
    <3>2. 1 \in 1..Len(batch[id]) /\ 1 < Len(batch[id])
      BY <1>2, <1>4
    <3> QED
      BY <1>1, <1>2, <3>1, <3>2 DEF DisconnectLast
  <2>3. Tail(batch[id]) \in Seq(PeerUpdate) \ {<<>>} /\ DisconnectLast(Tail(batch[id]))
    <3>1. /\ Tail(batch[id]) \in Seq(PeerUpdate) /\ Len(Tail(batch[id])) = Len(batch[id]) - 1
          /\ \A i \in 1..Len(Tail(batch[id])) : Tail(batch[id])[i] = batch[id][i + 1]
      BY <1>1, HeadTailProperties
    <3> QED
      BY <1>1, <1>2, <1>4, <3>1 DEF DisconnectLast
  <2> QED
    BY <2>1, <2>2, <2>3 DEF IInv, Typed, LastWords
<1> QED
  BY <1>3, <1>4

\* The peers of a torrent leave with it.
LEMMA RemoveTorrentStep ==
  ASSUME IInv, RemoveTorrent
  PROVE  IInv'
<1> DEFINE h   == Head(commands).hash
           ids == PeersOf(h)
<1>1. ctl = "recv_client" /\ ~poisoned /\ UNCHANGED <<connector, conn>>
  BY DEF RemoveTorrent, Command, ControllerAt, controllerRest, connectorVars
<1>2. ids \subseteq DOMAIN peers
  BY DEF PeersOf, IInv, KeysAgree
<1>3. CASE h \notin DOMAIN torrents
  BY <1>1, <1>3, ControllerWithin DEF RemoveTorrent, lockVars, registry, IInv, BatchInHand
<1>4. CASE h \in DOMAIN torrents
  <2>1. /\ torrents' = Without(torrents, {h})
        /\ RemovePeers(ids, ids)
        /\ UNCHANGED <<poisoned, newPeers, crashed, ctl, batch>>
    BY <1>2, <1>4 DEF RemoveTorrent
  <2>2. DOMAIN batch = {}
    BY <1>1 DEF IInv, BatchInHand
  <2>3. /\ KeysAgree' /\ CountCoversPeers' /\ PeerCountBound'
        /\ npeers' \in Nat
        /\ peers' \in [DOMAIN peers' -> Conn] /\ DOMAIN peers' = DOMAIN peers \ ids
        /\ priority' \in [DOMAIN priority' -> PeerPriority]
        /\ DOMAIN priority' = DOMAIN priority \ ids
        /\ \A id \in DOMAIN priority' : priority'[id] = priority[id]
        /\ up' \in [Conn -> Seq(PeerUpdate)]
        /\ \A k \in Conn : /\ DisconnectLast(up'[k])
                           /\ conn'[k].pc # "ended" => NoDisconnect(up'[k])
    BY <1>1, <1>2, <2>1, RemovePeersKeeps
  <2>4. Typed' /\ LastWords' /\ BatchInHand' /\ LookupsSucceed'
    BY <1>1, <2>1, <2>2, <2>3 DEF IInv, Typed, LastWords, BatchInHand, LookupsSucceed
  <2>5. ProcessLooksUp'
    <3>1. \A id \in DOMAIN priority' : priority'[id].hash \in DOMAIN torrents'
      BY <1>1, <2>1, <2>3 DEF IInv, ProcessLooksUp, PeersOf, Without
    <3> QED
      BY <2>1, <2>2, <3>1 DEF ProcessLooksUp
  <2> QED
    BY <2>3, <2>4, <2>5 DEF IInv
<1> QED
  BY <1>3, <1>4

\* A peer is taken up, in the place of one with the same id if there is one.
LEMMA RecvNewPeerStep ==
  ASSUME IInv, RecvNewPeer
  PROVE  IInv'
<1> DEFINE m == Head(newPeers)
<1>0. UNCHANGED <<torrents, npeers, connector, conn>>
  BY DEF RecvNewPeer, controllerRest, connectorVars
<1>1. ctl = "recv_new_peer" /\ DOMAIN batch = {} /\ newPeers # <<>>
  BY DEF RecvNewPeer, ControllerAt, IInv, BatchInHand
<1>2. m \in NewPeer /\ Tail(newPeers) \in Seq(NewPeer) /\ Len(Tail(newPeers)) = Len(newPeers) - 1
  BY <1>1, HeadTailProperties DEF IInv, Typed
<1>3. CASE m.hash \notin DOMAIN torrents
  <2>1. Leave("panicked") /\ crashed' = crashed \cup {"try_recv_new_peer"}
    BY <1>3 DEF RecvNewPeer, Panic
  <2> QED
    BY <1>0, <2>1, LeaveStep
<1>4. CASE m.hash \in DOMAIN torrents
  <2> DEFINE p == [hash |-> m.hash, interested |-> FALSE, choking |-> TRUE]
  <2>1. /\ newPeers' = Tail(newPeers)
        /\ priority' = Inserted(priority, m.id, p)
        /\ peers' = Inserted(peers, m.id, m.conn)
        /\ bitfields' = Inserted(bitfields, m.id, {})
        /\ up' = Dropping(ConnsOf({m.id}))
        /\ UNCHANGED <<poisoned, crashed, ctl, batch>>
    BY <1>4 DEF RecvNewPeer
  <2>2. m.id \in PeerId /\ m.hash \in Hash /\ m.conn \in Conn /\ p \in PeerPriority /\ p.hash = m.hash
    BY <1>2 DEF NewPeer, PeerPriority
  <2> HIDE DEF m, p
  <2>3. /\ DOMAIN peers' = DOMAIN peers \cup {m.id} /\ DOMAIN priority' = DOMAIN priority \cup {m.id}
        /\ DOMAIN bitfields' = DOMAIN bitfields \cup {m.id}
        /\ peers' \in [DOMAIN peers' -> Conn]
        /\ priority' \in [DOMAIN priority' -> PeerPriority]
        /\ \A id \in DOMAIN priority' : priority'[id] = IF id = m.id THEN p ELSE priority[id]
    BY <2>1, <2>2 DEF Inserted, IInv, Typed
  <2>4. /\ up' \in [Conn -> Seq(PeerUpdate)]
        /\ \A k \in Conn : /\ DisconnectLast(up'[k])
                           /\ conn'[k].pc # "ended" => NoDisconnect(up'[k])
    BY <1>0, <2>1, Emptied DEF IInv
  <2>5. Typed'
    BY <1>0, <1>1, <1>2, <2>1, <2>2, <2>3, <2>4 DEF IInv, Typed, m
  <2>6. KeysAgree' /\ BatchInHand' /\ LookupsSucceed' /\ LastWords'
    BY <1>1, <2>1, <2>3, <2>4 DEF IInv, KeysAgree, BatchInHand, LookupsSucceed, LastWords
  <2>7. ProcessLooksUp'
    BY <1>0, <1>1, <1>4, <2>1, <2>2, <2>3 DEF IInv, ProcessLooksUp
  <2>8. UNCHANGED Registering
    BY <1>0 DEF Registering
  <2>9. Cardinality(DOMAIN peers') \in Nat /\ Cardinality(DOMAIN peers') <= Cardinality(DOMAIN peers) + 1
    <3>1. IsFiniteSet(DOMAIN peers \cup {m.id})
          /\ Cardinality(DOMAIN peers \cup {m.id})
                = IF m.id \in DOMAIN peers THEN Cardinality(DOMAIN peers)
                  ELSE Cardinality(DOMAIN peers) + 1
      BY Counts, FS_AddElement
    <3> QED
      BY <2>3, <3>1, Counts
  <2>10. CountCoversPeers'
    BY <1>0, <1>2, <2>1, <2>8, <2>9, Counts DEF IInv, CountCoversPeers, Registering, m
  <2>11. PeerCountBound'
    BY <1>0 DEF IInv, PeerCountBound, Connecting
  <2> QED
    BY <2>5, <2>6, <2>7, <2>10, <2>11 DEF IInv
<1> QED
  BY <1>3, <1>4

\* check_messages takes each registered peer's messages.
LEMMA TakeMessagesStep ==
  ASSUME IInv, TakeMessages
  PROVE  IInv'
<1>1. /\ batch' = [id \in {p \in DOMAIN peers : up[peers[p]] # <<>>} |-> up[peers[id]]]
      /\ up' = Dropping(ConnsOf(DOMAIN peers))
      /\ ctl' = "process"
      /\ UNCHANGED <<torrents, poisoned, npeers, newPeers, crashed, connector, conn, registry>>
  BY DEF TakeMessages, lockVars, controllerRest, connectorVars
<1>2. \A id \in DOMAIN peers : peers[id] \in Conn
  BY DEF IInv, Typed
<1>3. \A id \in DOMAIN batch' : batch'[id] \in Seq(PeerUpdate) \ {<<>>} /\ DisconnectLast(batch'[id])
  BY <1>1, <1>2 DEF IInv, Typed, LastWords
<1>4. /\ up' \in [Conn -> Seq(PeerUpdate)]
      /\ \A k \in Conn : /\ DisconnectLast(up'[k])
                         /\ conn'[k].pc # "ended" => NoDisconnect(up'[k])
  BY <1>1, Emptied DEF IInv
<1>5. Typed' /\ LastWords'
  BY <1>1, <1>3, <1>4 DEF IInv, Typed, LastWords, registry
<1>6. KeysAgree' /\ BatchInHand' /\ LookupsSucceed' /\ ProcessLooksUp'
  BY <1>1 DEF IInv, KeysAgree, BatchInHand, LookupsSucceed, ProcessLooksUp, registry
<1>7. CountCoversPeers' /\ PeerCountBound'
  BY <1>1 DEF IInv, CountCoversPeers, PeerCountBound, Connecting, registry
<1> QED
  BY <1>5, <1>6, <1>7 DEF IInv

\* The next message is dealt with; the peers stay.
LEMMA ProcessedStep ==
  ASSUME IInv, NEW id \in DOMAIN batch, NextMessage(id), ctl = "process",
         UNCHANGED <<poisoned, npeers, newPeers, up, crashed, connector, conn, ctl, peers>>,
         DOMAIN torrents' = DOMAIN torrents,
         DOMAIN bitfields' = DOMAIN bitfields,
         priority' \in [DOMAIN priority -> PeerPriority],
         \A p \in DOMAIN priority : priority'[p].hash = priority[p].hash
  PROVE  IInv'
<1>1. /\ DOMAIN batch' \subseteq DOMAIN batch
      /\ \A p \in DOMAIN batch' : batch'[p] \in Seq(PeerUpdate) \ {<<>>} /\ DisconnectLast(batch'[p])
  BY NextMessageKeeps
<1>2. DOMAIN priority' = DOMAIN priority
  OBVIOUS
<1>3. Typed' /\ LastWords'
  BY <1>1, <1>2 DEF IInv, Typed, LastWords
<1>4. KeysAgree' /\ BatchInHand' /\ LookupsSucceed' /\ ProcessLooksUp'
  BY <1>1, <1>2 DEF IInv, KeysAgree, BatchInHand, LookupsSucceed, ProcessLooksUp
<1>5. CountCoversPeers' /\ PeerCountBound'
  BY DEF IInv, CountCoversPeers, PeerCountBound, Connecting
<1> QED
  BY <1>3, <1>4, <1>5 DEF IInv

\* A flag of a peer flipped.
LEMMA FlipTyped ==
  ASSUME NEW r \in PeerPriority
  PROVE  /\ [r EXCEPT !.choking = ~@] \in PeerPriority /\ [r EXCEPT !.choking = ~@].hash = r.hash
         /\ [r EXCEPT !.interested = ~@] \in PeerPriority /\ [r EXCEPT !.interested = ~@].hash = r.hash
BY DEF PeerPriority

\* Process's choke, unchoke, interested and not interested.
LEMMA FlipStep ==
  ASSUME IInv, NEW id, ProcessFlip(id)
  PROVE  IInv'
<1>1. /\ id \in DOMAIN batch /\ NextMessage(id) /\ ctl = "process"
      /\ UNCHANGED <<torrents, poisoned, npeers, newPeers, up, crashed, connector, conn, ctl, peers,
                     bitfields>>
  BY DEF ProcessFlip, Turn, ControllerAt, lockVars, controllerRest, connectorVars
<1>2. id \in DOMAIN priority
  BY <1>1 DEF IInv, ProcessLooksUp, KeysAgree
<1>3. priority[id] \in PeerPriority /\ priority \in [DOMAIN priority -> PeerPriority]
  BY <1>2 DEF IInv, Typed
<1>4. \E r \in PeerPriority : r.hash = priority[id].hash /\ priority' = [priority EXCEPT ![id] = r]
  <2>1. CASE priority' = [priority EXCEPT ![id].choking = ~@]
    <3>1. priority' = [priority EXCEPT ![id] = [priority[id] EXCEPT !.choking = ~@]]
      BY <2>1
    <3> QED
      BY <1>3, <3>1, FlipTyped
  <2>2. CASE priority' = [priority EXCEPT ![id].interested = ~@]
    <3>1. priority' = [priority EXCEPT ![id] = [priority[id] EXCEPT !.interested = ~@]]
      BY <2>2
    <3> QED
      BY <1>3, <3>1, FlipTyped
  <2> QED
    BY <2>1, <2>2 DEF ProcessFlip
<1>5. /\ priority' \in [DOMAIN priority -> PeerPriority]
      /\ \A p \in DOMAIN priority : priority'[p].hash = priority[p].hash
  BY <1>3, <1>4
<1> QED
  BY <1>1, <1>5, ProcessedStep

\* Process's have and bitfield.
LEMMA PiecesStep ==
  ASSUME IInv, NEW id, ProcessPieces(id)
  PROVE  IInv'
<1>1. id \in DOMAIN batch /\ ctl = "process"
  BY DEF ProcessPieces, Turn, ControllerAt
<1>2. id \in DOMAIN bitfields
  BY <1>1 DEF IInv, ProcessLooksUp, KeysAgree
<1>3. /\ NextMessage(id) /\ DOMAIN bitfields' = DOMAIN bitfields
      /\ UNCHANGED <<torrents, poisoned, npeers, newPeers, up, crashed, connector, conn, ctl, peers,
                     priority>>
  BY <1>2 DEF ProcessPieces, lockVars, controllerRest, connectorVars
<1>4. /\ priority' \in [DOMAIN priority -> PeerPriority]
      /\ \A p \in DOMAIN priority : priority'[p].hash = priority[p].hash
  BY <1>3 DEF IInv, Typed
<1> QED
  BY <1>1, <1>3, <1>4, ProcessedStep

\* A peer that hung up leaves; its Disconnect was the last of its messages, and
\* what pops off the priorities is the peer itself.
LEMMA DisconnectStep ==
  ASSUME IInv, NEW id, ProcessDisconnect(id)
  PROVE  IInv'
<1>1. /\ id \in DOMAIN batch /\ ctl = "process" /\ Head(batch[id]).type = "Disconnect"
      /\ NextMessage(id)
      /\ UNCHANGED <<torrents, poisoned, newPeers, crashed, connector, conn, ctl>>
  BY DEF ProcessDisconnect, Turn, ControllerAt, lockVars, controllerRest, connectorVars
<1>2. id \in DOMAIN priority /\ id \in DOMAIN peers
  BY <1>1 DEF IInv, ProcessLooksUp, KeysAgree
<1>3. RemovePeers({id}, {id})
  BY <1>2 DEF ProcessDisconnect, Popping
<1>4. /\ KeysAgree' /\ CountCoversPeers' /\ PeerCountBound'
      /\ npeers' \in Nat
      /\ peers' \in [DOMAIN peers' -> Conn] /\ DOMAIN peers' = DOMAIN peers \ {id}
      /\ priority' \in [DOMAIN priority' -> PeerPriority]
      /\ DOMAIN priority' = DOMAIN priority \ {id}
      /\ \A p \in DOMAIN priority' : priority'[p] = priority[p]
      /\ up' \in [Conn -> Seq(PeerUpdate)]
      /\ \A k \in Conn : /\ DisconnectLast(up'[k])
                         /\ conn'[k].pc # "ended" => NoDisconnect(up'[k])
  <2>1. {id} \in SUBSET DOMAIN peers
    BY <1>2
  <2> QED
    BY <1>1, <1>3, <2>1, RemovePeersKeeps
<1>5. /\ DOMAIN batch' \subseteq DOMAIN batch \ {id}
      /\ \A p \in DOMAIN batch' : batch'[p] \in Seq(PeerUpdate) \ {<<>>} /\ DisconnectLast(batch'[p])
  BY <1>1, NextMessageKeeps
<1>6. Typed' /\ LastWords'
  BY <1>1, <1>4, <1>5 DEF IInv, Typed, LastWords
<1>7. BatchInHand' /\ LookupsSucceed' /\ ProcessLooksUp'
  BY <1>1, <1>4, <1>5 DEF IInv, BatchInHand, LookupsSucceed, ProcessLooksUp
<1> QED
  BY <1>4, <1>6, <1>7 DEF IInv

\* Process's downloaded piece.
LEMMA DownloadedStep ==
  ASSUME IInv, NEW id, ProcessDownloaded(id)
  PROVE  IInv'
<1>1. id \in DOMAIN batch /\ ctl = "process" /\ UNCHANGED <<npeers, connector, conn>>
  BY DEF ProcessDownloaded, Turn, ControllerAt, controllerRest, connectorVars
<1>2. CASE poisoned
  BY <1>1, <1>2, LeaveStep DEF ProcessDownloaded
<1>3. CASE ~poisoned
  <2>1. id \in DOMAIN priority /\ priority[id].hash \in DOMAIN torrents
    BY <1>1, <1>3 DEF IInv, ProcessLooksUp, KeysAgree
  <2>2. /\ NextMessage(id) /\ DOMAIN torrents' = DOMAIN torrents
        /\ UNCHANGED <<poisoned, newPeers, up, crashed, ctl, registry>>
    BY <1>3, <2>1 DEF ProcessDownloaded
  <2>3. /\ priority' \in [DOMAIN priority -> PeerPriority]
        /\ \A p \in DOMAIN priority : priority'[p].hash = priority[p].hash
    BY <2>2 DEF IInv, Typed, registry
  <2> QED
    BY <1>1, <2>2, <2>3, ProcessedStep DEF registry
<1> QED
  BY <1>2, <1>3

\* Every peer in the priorities has a channel, so choke finds them all.
LEMMA ChokeStep ==
  ASSUME IInv, Choke
  PROVE  IInv'
<1>1. DOMAIN priority \subseteq DOMAIN peers
  BY DEF IInv, KeysAgree
<1>2. ctl = "choke"
  BY DEF Choke, ControllerAt
<1> QED
  BY <1>1, <1>2, ControllerWithin
     DEF Choke, controllerRest, connectorVars, lockVars, IInv, BatchInHand

\* Every peer asked has a bitfield and a channel; the connection at its end may
\* have gone.
LEMMA RequestPieceStep ==
  ASSUME IInv, RequestPiece
  PROVE  IInv'
<1>1. /\ ctl = "requesting" /\ DOMAIN batch = {}
      /\ UNCHANGED <<npeers, connector, conn>>
  BY DEF RequestPiece, ControllerAt, IInv, BatchInHand, controllerRest, connectorVars
<1>2. DOMAIN torrents' = DOMAIN torrents
  BY DEF RequestPiece
<1>3. Eligible(Head(todo)) \subseteq DOMAIN bitfields \cap DOMAIN peers
  BY DEF Eligible, PeersOf, IInv, KeysAgree
<1>4. CASE UNCHANGED <<poisoned, newPeers, up, crashed, ctl, registry, batch>>
  BY <1>1, <1>2, <1>4, ControllerWithin
<1>5. CASE Panic("send_request")
  BY <1>1, <1>5, LeaveStep DEF Panic
<1>6. UNCHANGED <<poisoned, newPeers, up, crashed, ctl, registry, batch>> \/ Panic("send_request")
  BY <1>3 DEF RequestPiece
<1> QED
  BY <1>4, <1>5, <1>6

\* The steps that only lead on, change a torrent, or end the controller.
LEMMA ProceedStep ==
  ASSUME IInv, NEW from, NEW to, from # "process", to # "process", Proceed(from, to)
  PROVE  IInv'
BY ControllerWithin DEF Proceed, ControllerAt, lockVars, controllerRest, connectorVars, IInv,
   BatchInHand

\* Every step of the controller preserves the invariant.
LEMMA ControllerStep ==
  ASSUME IInv, ControllerNext
  PROVE  IInv'
<1> USE DEF lockVars, controllerRest, connectorVars, ControllerAt
<1>0. ctl # "process" => DOMAIN batch = {}
  BY DEF IInv, BatchInHand
<1>1. CASE Sleep
  BY <1>0, <1>1, ControllerWithin DEF Sleep
<1>2. CASE LockFails
  BY <1>2, LeaveStep DEF LockFails
<1>3. ASSUME NEW type, PauseOrResume(type) PROVE IInv'
  <2>1. DOMAIN torrents' = DOMAIN torrents
    BY <1>3 DEF PauseOrResume
  <2> QED
    BY <1>0, <1>3, <2>1, ControllerWithin DEF PauseOrResume, Command
<1>4. CASE Disconnect
  BY <1>4, LeaveStep DEF Disconnect
<1>5. CASE CommandsDone \/ NewPeersDone \/ SendUpdate
  <2>1. PICK from \in {"recv_client", "recv_new_peer", "send_update"},
             to \in {"recv_new_peer", "send_update", "check"} : Proceed(from, to)
    BY <1>5 DEF CommandsDone, NewPeersDone, SendUpdate
  <2> QED
    BY <2>1, ProceedStep
<1>6. CASE RequestsDone
  BY <1>6, ProceedStep DEF RequestsDone
<1>7. CASE MessagesDone
  BY <1>7, ControllerWithin DEF MessagesDone
<1>8. CASE LockRequests
  BY <1>0, <1>8, ControllerWithin DEF LockRequests
<1>9. CASE TorrentDone
  BY <1>0, <1>9, ControllerWithin DEF TorrentDone
<1>10. ASSUME NEW id, Process(id) PROVE IInv'
  BY <1>10, FlipStep, PiecesStep, DisconnectStep, DownloadedStep DEF Process
<1> QED
  BY <1>1, <1>2, <1>3, <1>4, <1>5, <1>6, <1>7, <1>8, <1>9, <1>10, RemoveTorrentStep,
     RecvNewPeerStep, TakeMessagesStep, ChokeStep, RequestPieceStep DEF ControllerNext

----------------------------------------------------------------------------
(* The theorems *)

\* Nobody has connected and nothing is queued.
LEMMA InitInvariant == Init => IInv
<1> SUFFICES ASSUME Init PROVE IInv
  OBVIOUS
<1> USE DEF Init, SwarmInit
<1>1. DOMAIN peers = {} /\ DOMAIN priority = {} /\ DOMAIN bitfields = {} /\ DOMAIN batch = {}
  OBVIOUS
<1>2. connector \in [Connector -> ConnectorRecord] /\ conn \in [Conn -> ConnRecord]
  BY DEF ConnectorRecord, ConnectorPC, ConnRecord, ConnPC, NewConn
<1>3. Typed
  BY <1>1, <1>2 DEF Typed
<1>4. KeysAgree /\ ProcessLooksUp /\ LastWords /\ BatchInHand /\ LookupsSucceed
  BY <1>1 DEF KeysAgree, ProcessLooksUp, LastWords, BatchInHand, LookupsSucceed, NoDisconnect,
     DisconnectLast
<1>5. Connecting = {} /\ {c \in Connector : connector[c].pc = "register"} = {}
  BY DEF Connecting
<1>6. CountCoversPeers
  <2>1. Cardinality(DOMAIN peers) = 0
    BY <1>1, FS_EmptySet
  <2>2. Cardinality({c \in Connector : connector[c].pc = "register"}) = 0
    BY <1>5, FS_EmptySet
  <2>3. Len(newPeers) = 0 /\ npeers = 0
    OBVIOUS
  <2> QED
    BY <2>1, <2>2, <2>3 DEF CountCoversPeers
<1>7. PeerCountBound
  <2>1. Cardinality(Connector) \in Nat
    BY FS_Singleton, FS_AddElement, FS_CardinalityType, Connector = {Listener} \cup {Caller}
       DEF Connector
  <2> QED
    BY <1>5, <2>1, FS_EmptySet, MaxPeersAssumption DEF PeerCountBound
<1> QED
  BY <1>3, <1>4, <1>6, <1>7 DEF IInv

\* So does a step that changes nothing.
LEMMA StutterInvariant ==
  ASSUME IInv, UNCHANGED vars
  PROVE  IInv'
BY Unaffected DEF vars, lockVars, connectorVars, ctlVars

\* The invariant holds throughout, whatever the number of torrents, peers and
\* connections and whatever order their threads run in.
THEOREM Invariant == Spec => []IInv
<1>1. IInv /\ [Next]_vars => IInv'
  <2> SUFFICES ASSUME IInv, [Next]_vars PROVE IInv'
    OBVIOUS
  <2> QED
    BY ManagerStep, ConnectorStep, ConnectionStep, ControllerStep, ClientStep, StutterInvariant
       DEF Next
<1> QED
  BY <1>1, InitInvariant, PTL DEF Spec

\* The controller's three maps always name the same peers, so that none of the
\* `expect`s that look a peer of one up in another can fail.
THEOREM KeysCorrect == Spec => []KeysAgree
BY Invariant, PTL DEF IInv

\* When a message is processed its peer is still registered, and its torrent there.
THEOREM MessagesArePeers == Spec => []ProcessLooksUp
BY Invariant, PTL DEF IInv

\* No lookup of recv_client, process, choke or make_requests panics.
THEOREM NoLookupPanics == Spec => []LookupsSucceed
BY Invariant, PTL DEF IInv

\* The peer count is at least the number of peers: fetch_sub never wraps.
THEOREM CountNeverWraps == Spec => []CountCoversPeers
BY Invariant, PTL DEF IInv

\* MAX_PEERS is exceeded by no more than the threads that connect.
THEOREM PeersBounded == Spec => []PeerCountBound
BY Invariant, PTL DEF IInv
====
