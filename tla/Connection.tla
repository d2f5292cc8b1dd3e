---- MODULE Connection ----
(* The thread of one connection (Connection::receive): it reads what the peer *)
(* sends, updates the torrent under the mutex, tells the controller, and      *)
(* carries out what the controller asks.  A message that changes nothing      *)
(* (keep-alive, one that fails to parse, a repeated choke or have) is a       *)
(* stutter, and what is written to the socket is not kept.                    *)
EXTENDS SwarmState

\* What no step of a connection thread touches.
connRest == <<npeers, newPeers, connectorVars, ctlVars, commands>>

\* The thread of k returns or panics: its ends of the channels are dropped, and
\* what it had already sent stays for the controller to take.
Ended(c, k) == [c EXCEPT ![k].pc = "ended"]
DropDown(k) == down' = [down EXCEPT ![k] = <<>>]

\* A message is read from the socket of k.
Reads(k) ==
    /\ conn[k].pc = "running"
    /\ left.reads > 0
    /\ left' = [left EXCEPT !.reads = @ - 1]

\* torrent_lock_return!: a poisoned lock panics and a removed torrent ends the
\* thread, neither with a word to the controller.  `peer` is the connection as
\* the message has already changed it.
LockOrEnd(k, peer) ==
    /\ LockFree
    /\ poisoned \/ conn[k].hash \notin DOMAIN torrents
    /\ conn' = Ended([conn EXCEPT ![k] = peer], k)
    /\ DropDown(k)
    /\ UNCHANGED <<lockVars, up, crashed>>

Mine(k) == Locks /\ conn[k].hash \in DOMAIN torrents

\* The thread panics in a call on the torrent, with the lock held.
PanicLocked(k, peer, site) ==
    /\ poisoned' = TRUE
    /\ crashed' = crashed \cup {site}
    /\ conn' = Ended([conn EXCEPT ![k] = peer], k)
    /\ DropDown(k)
    /\ UNCHANGED <<torrents, up>>

\* The torrent of k after f; the mutex stays sound.
UpdateTorrent(k, next) ==
    /\ torrents' = [torrents EXCEPT ![conn[k].hash] = next]
    /\ UNCHANGED <<poisoned, crashed>>

\* One branch of handle_read that moves the priorities of the pieces of S by d
\* and then tells the controller m.
ShiftAndSend(k, peer, S, d, m) ==
    \/ LockOrEnd(k, peer)
    \/ /\ Mine(k)
       /\ LET t == torrents[conn[k].hash]
          IN  IF ChangePanics(t.pq, S, d)
              THEN PanicLocked(k, peer, "update_priority")
              ELSE /\ UpdateTorrent(k, UpdatePriority(t, S, d))
                   /\ conn' = [conn EXCEPT ![k] = peer]
                   /\ SendUp(k, m)
                   /\ UNCHANGED down

JustSend(k, peer, m) ==
    /\ conn' = [conn EXCEPT ![k] = peer]
    /\ SendUp(k, m)
    /\ UNCHANGED <<lockVars, down, crashed>>

----------------------------------------------------------------------------

\* receive begins with our bitfield, read under the lock; a removed torrent
\* ends the thread with an error that is only logged.
Begin(k) ==
    /\ conn[k].pc = "start"
    /\ \/ LockOrEnd(k, conn[k])
       \/ /\ Mine(k)
          /\ conn' = [conn EXCEPT ![k].pc = "running"]
          /\ UNCHANGED <<lockVars, up, down, crashed>>
    /\ UNCHANGED <<connRest, left>>

ReadChoke(k) ==
    /\ Reads(k)
    /\ LET choke == ~conn[k].peerChoking
       IN  ShiftAndSend(k, [conn[k] EXCEPT !.peerChoking = choke], conn[k].bits,
                        IF choke THEN -1 ELSE 1, [type |-> "ChokingChange"])
    /\ UNCHANGED connRest

ReadInterested(k) ==
    /\ Reads(k)
    /\ JustSend(k, [conn[k] EXCEPT !.peerInterested = ~@], [type |-> "InterestedChange"])
    /\ UNCHANGED connRest

\* A piece not announced before; the priority moves only while the peer chokes.
ReadHave(k, i) ==
    /\ Reads(k)
    /\ i \notin conn[k].bits
    /\ LET peer == [conn[k] EXCEPT !.bits = @ \cup {i}]
           told == [type |-> "Have", piece |-> i]
       IN  IF conn[k].peerChoking
           THEN ShiftAndSend(k, peer, {i}, 1, told)
           ELSE JustSend(k, peer, told)
    /\ UNCHANGED connRest

\* The bitfield joins what the peer announced before, repeated or not.
ReadBitfield(k, bits) ==
    /\ Reads(k)
    /\ LET all  == conn[k].bits \cup bits
           peer == [conn[k] EXCEPT !.bits = all]
           told == [type |-> "Bitfield", bits |-> all]
       IN  IF conn[k].peerChoking
           THEN JustSend(k, peer, told)
           ELSE ShiftAndSend(k, peer, all, 1, told)
    /\ UNCHANGED connRest

\* A block; an invalid one is logged.  A valid one is a whole piece wherever it is
\* to begin: beginning late it may run past the end of the torrent, and does if it
\* is the last, where map_files panics.
ReadPiece(k, i, whole, valid) ==
    /\ Reads(k)
    /\ \/ LockOrEnd(k, conn[k])
       \/ /\ Mine(k)
          /\ valid /\ ~whole /\ i >= NPieces - 2
          /\ PanicLocked(k, conn[k], "map_files")
       \/ /\ Mine(k)
          /\ valid /\ ~whole => i # NPieces - 1
          /\ UpdateTorrent(k, WriteBlock(torrents[conn[k].hash], i, whole, valid))
          /\ IF valid THEN SendUp(k, [type |-> "Downloaded", piece |-> i]) ELSE UNCHANGED up
          /\ UNCHANGED <<conn, down>>
    /\ UNCHANGED connRest

\* A request is answered from the torrent, choked or not: only the lock shows, and
\* the panic of map_files when the block, of a piece we have, would run past the end.
ReadRequest(k) ==
    /\ conn[k].pc = "running"
    /\ \/ LockOrEnd(k, conn[k])
       \/ /\ Mine(k)
          /\ torrents[conn[k].hash].have # {}
          /\ PanicLocked(k, conn[k], "map_files")
    /\ UNCHANGED <<connRest, left>>

\* parse_port is unimplemented!(): the thread panics, holding no lock, and the
\* controller is not told.
ReadPort(k) ==
    /\ conn[k].pc = "running"
    /\ conn' = Ended(conn, k)
    /\ DropDown(k)
    /\ crashed' = crashed \cup {"parse_port"}
    /\ UNCHANGED <<lockVars, up, connRest, left>>

\* The peer closes: while it chokes us its pieces are taken off the priorities,
\* then the controller is told; send(Disconnect).unwrap() panics, outside the
\* lock, if the controller has already dropped the peer.
HangUp(k) ==
    /\ conn' = Ended(conn, k)
    /\ DropDown(k)
    /\ SendUp(k, [type |-> "Disconnect"])
    /\ crashed' = IF ToController(k) THEN crashed ELSE crashed \cup {"send_disconnect"}

ReadEOF(k) ==
    /\ conn[k].pc = "running"
    /\ IF conn[k].peerChoking
       THEN \/ LockOrEnd(k, conn[k])
            \/ /\ Mine(k)
               /\ LET t == torrents[conn[k].hash]
                  IN  IF ChangePanics(t.pq, conn[k].bits, -1)
                      THEN PanicLocked(k, conn[k], "update_priority")
                      ELSE /\ torrents' = [torrents EXCEPT ![conn[k].hash] =
                                              UpdatePriority(t, conn[k].bits, -1)]
                           /\ UNCHANGED poisoned
                           /\ HangUp(k)
       ELSE HangUp(k) /\ UNCHANGED lockVars
    /\ UNCHANGED <<connRest, left>>

\* handle_manager_update takes one message; of the peer's state only am_choking
\* changes, and Disconnect, whose StreamResult::End receive ignores, does nothing.
TakeManagerUpdate(k) ==
    /\ conn[k].pc = "running"
    /\ down[k] # <<>>
    /\ LET type == Head(down[k]).type
       IN  conn' = [conn EXCEPT ![k].amChoking =
                       IF type \in {"Choke", "Unchoke"} THEN type = "Choke" ELSE @]
    /\ down' = [down EXCEPT ![k] = Tail(@)]
    /\ UNCHANGED <<lockVars, up, crashed, connRest, left>>

ReadMessage(k) ==
    \/ ReadChoke(k)
    \/ ReadInterested(k)
    \/ \E i \in Piece :
        \/ ReadHave(k, i)
        \/ \E whole, valid \in BOOLEAN : ReadPiece(k, i, whole, valid)
    \/ \E bits \in SUBSET Piece : ReadBitfield(k, bits)
    \/ ReadRequest(k)
    \/ ReadPort(k)

ConnectionNext(k) ==
    Begin(k) \/ ReadMessage(k) \/ ReadEOF(k) \/ TakeManagerUpdate(k)
====
