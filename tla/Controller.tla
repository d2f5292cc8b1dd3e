---- MODULE Controller ----
(* The controller thread: Controller::run_loop on the timers it adds.  Every  *)
(* tick it takes the client's messages, the new peers and the peers'          *)
(* messages; every Period ticks it also chokes and makes requests.            *)
EXTENDS SwarmState

SeqExt == INSTANCE SequencesExt

controllerRest == <<connectorVars, conn>>

ControllerAt(pc) == ctl = pc

\* Faulty PeersOf, for the mutant runs.
PeersOfOthers(h) == {id \in DOMAIN priority : priority[id].hash # h}

\* The peers of torrent h in the controller's view.
PeersOf(h) == {id \in DOMAIN priority : priority[id].hash = h}

ConnsOf(ids) == {peers[id] : id \in ids \cap DOMAIN peers}

\* Every connection of K has room for one more message (the bound MaxDown).
RoomFor(K) == \A k \in K : Len(down[k]) < MaxDown

\* The thread ends: the Controller and all the receivers it owns are dropped.
Leave(pc) ==
    /\ ctl' = pc
    /\ peers' = <<>> /\ priority' = <<>> /\ bitfields' = <<>>
    /\ batch' = <<>> /\ current' = NoHash /\ todo' = <<>>
    /\ newPeers' = <<>> /\ commands' = <<>>
    /\ up' = [k \in Conn |-> <<>>]

Panic(site) == Leave("panicked") /\ crashed' = crashed \cup {site}

\* Nothing to do at `from`: the next thing is at `to`.
Proceed(from, to) ==
    /\ ControllerAt(from)
    /\ ctl' = to
    /\ UNCHANGED <<lockVars, npeers, newPeers, up, down, crashed, controllerRest, tick,
                   registry, batch, current, todo, completions, commands, left>>

\* lock().expect(...) on a poisoned mutex.
LockFails ==
    /\ ctl \in {"recv_client", "recv_new_peer", "send_update", "lock_requests"}
    /\ ctl = "recv_client" => commands # <<>> /\ Head(commands).type # "Disconnect"
    /\ ctl = "recv_new_peer" => newPeers # <<>>
    /\ poisoned
    /\ Leave("panicked")
    /\ UNCHANGED <<lockVars, npeers, down, crashed, controllerRest, tick, completions,
                   left>>

----------------------------------------------------------------------------
(* Timers *)

\* The wheel sleeps for a tick; then the timers run in the order they were added.
Sleep ==
    /\ ControllerAt("sleep")
    /\ ctl' = "recv_client"
    /\ tick' = (tick % Period) + 1
    /\ torrents' = [h \in DOMAIN torrents |-> Aged(torrents[h])]
    /\ UNCHANGED <<poisoned, npeers, newPeers, up, down, crashed, controllerRest, registry,
                   batch, current, todo, completions, commands, left>>

----------------------------------------------------------------------------
(* recv_client *)

ClientSends(m) ==
    /\ left.commands > 0
    /\ left' = [left EXCEPT !.commands = @ - 1]
    /\ commands' = IF ControllerGone THEN commands ELSE Append(commands, m)
    /\ UNCHANGED <<lockVars, npeers, newPeers, up, down, crashed, controllerRest, ctlVars>>

Command(type) ==
    ControllerAt("recv_client") /\ commands # <<>> /\ Head(commands).type = type

PauseOrResume(type) ==
    /\ Command(type) /\ ~poisoned
    /\ commands' = Tail(commands)
    /\ LET h == Head(commands).hash
       IN  torrents' = IF h \in DOMAIN torrents
                       THEN [torrents EXCEPT ![h] = Pause(@, type = "Pause")]
                       ELSE torrents
    /\ UNCHANGED <<poisoned, npeers, newPeers, up, down, crashed, controllerRest, ctl, tick,
                   registry, batch, current, todo, completions, left>>

\* The peers a sorted walk of peer_priority may reach first: interested ones
\* before others (their download speeds are all 0), equals in any order.
Favoured(n) ==
    {S \in SUBSET DOMAIN priority :
        /\ Cardinality(S) = n
        /\ \A a \in S, b \in DOMAIN priority \ S :
               priority[b].interested => priority[a].interested}

\* What remove pops once it has put id on top: whoever is on top if id is not
\* queued.
Popping(id) == IF id \in DOMAIN priority THEN {{id}}
               ELSE Favoured(IF DOMAIN priority = {} THEN 0 ELSE 1)

\* Faulty RemovePeers, for the mutant runs.
RemoveKeepsPriority(ids, popped) ==
    /\ npeers' = npeers - Cardinality(ids)
    /\ peers' = Without(peers, ids)
    /\ bitfields' = Without(bitfields, ids)
    /\ up' = Dropping(ConnsOf(ids))
    /\ UNCHANGED priority

\* Faulty RemovePeers, for the mutant runs.
RemoveCountsTwice(ids, popped) ==
    /\ npeers' = npeers - 2 * Cardinality(ids)
    /\ priority' = Without(priority, popped)
    /\ peers' = Without(peers, ids)
    /\ bitfields' = Without(bitfields, ids)
    /\ up' = Dropping(ConnsOf(ids))

\* remove_peer! for every peer of ids; `popped` leave the priority queue.
RemovePeers(ids, popped) ==
    /\ npeers' = npeers - Cardinality(ids)
    /\ priority' = Without(priority, popped)
    /\ peers' = Without(peers, ids)
    /\ bitfields' = Without(bitfields, ids)
    /\ up' = Dropping(ConnsOf(ids))

\* Remove: the torrent and, under the same lock, all its peers, each of which is
\* sent Disconnect; `expect` panics if a peer of the queue has no channel.
RemoveTorrent ==
    /\ Command("Remove") /\ ~poisoned
    /\ LET h   == Head(commands).hash
           ids == PeersOf(h)
       IN  IF h \notin DOMAIN torrents
           THEN /\ commands' = Tail(commands)
                /\ UNCHANGED <<lockVars, npeers, newPeers, up, down, crashed, ctl,
                               registry, batch, current, todo>>
           ELSE /\ torrents' = Without(torrents, {h})
                /\ IF ids \subseteq DOMAIN peers
                   THEN /\ RoomFor(ConnsOf(ids))
                        /\ down' = SentDown(ConnsOf(ids), [type |-> "Disconnect"])
                        /\ RemovePeers(ids, ids)
                        /\ commands' = Tail(commands)
                        /\ UNCHANGED <<poisoned, newPeers, crashed, ctl, batch, current, todo>>
                   ELSE Panic("recv_client") /\ poisoned' = TRUE /\ UNCHANGED <<npeers, down>>
    /\ UNCHANGED <<controllerRest, tick, completions, left>>

\* Faulty Disconnect, for the mutant runs.
DisconnectForgotten ==
    /\ Command("Disconnect")
    /\ commands' = Tail(commands)
    /\ UNCHANGED <<lockVars, npeers, newPeers, up, down, crashed, controllerRest, ctlVars, left>>

\* Disconnect: run_loop returns; the messages behind it are never read.
Disconnect ==
    /\ Command("Disconnect")
    /\ Leave("stopped")
    /\ UNCHANGED <<lockVars, npeers, down, crashed, controllerRest, tick, completions, left>>

CommandsDone == commands = <<>> /\ Proceed("recv_client", "recv_new_peer")

----------------------------------------------------------------------------
(* try_recv_new_peer.  Its senders live as long as the Manager does, so an    *)
(* empty queue is all that ends the loop.                                     *)

\* The map after insert(key, value).
Inserted(f, key, value) == [x \in DOMAIN f \cup {key} |-> IF x = key THEN value ELSE f[x]]

\* The torrent is looked up with unwrap() under the lock.  A peer id that is
\* already there gets the new channel; the old one is dropped.
RecvNewPeer ==
    /\ ControllerAt("recv_new_peer") /\ newPeers # <<>> /\ ~poisoned
    /\ LET m == Head(newPeers)
       IN  IF m.hash \in DOMAIN torrents
           THEN /\ newPeers' = Tail(newPeers)
                /\ priority' = Inserted(priority, m.id,
                                [hash |-> m.hash, interested |-> FALSE, choking |-> TRUE])
                /\ peers' = Inserted(peers, m.id, m.conn)
                /\ bitfields' = Inserted(bitfields, m.id, {})
                /\ up' = Dropping(ConnsOf({m.id}))
                /\ UNCHANGED <<poisoned, crashed, ctl, batch, current, todo, commands>>
           ELSE Panic("try_recv_new_peer") /\ poisoned' = TRUE
    /\ UNCHANGED <<torrents, npeers, down, controllerRest, tick, completions, left>>

\* Faulty NewPeersDone, for the mutant runs.
NewPeersSkipped == Proceed("recv_new_peer", "send_update")

NewPeersDone == newPeers = <<>> /\ Proceed("recv_new_peer", "send_update")

----------------------------------------------------------------------------
(* send_update and check_messages *)

\* InfoMsg::All to the client, from under the lock.
SendUpdate == ~poisoned /\ Proceed("send_update", "check")

\* check_messages empties every peer's queue before it processes anything.
TakeMessages ==
    /\ ControllerAt("check")
    /\ batch' = [id \in {p \in DOMAIN peers : up[peers[p]] # <<>>} |-> up[peers[id]]]
    /\ up' = Dropping(ConnsOf(DOMAIN peers))
    /\ ctl' = "process"
    /\ UNCHANGED <<lockVars, npeers, newPeers, down, crashed, controllerRest, tick,
                   registry, current, todo, completions, commands, left>>

\* The next message is of peer id: the peers come in the order of the map, which
\* is any, but one peer's messages come together.
Turn(id, types) ==
    /\ ControllerAt("process")
    /\ id \in DOMAIN batch
    /\ current \in DOMAIN batch => current = id
    /\ Head(batch[id]).type \in types

NextMessage(id) ==
    /\ batch' = IF Len(batch[id]) = 1 THEN Without(batch, {id})
                ELSE [batch EXCEPT ![id] = Tail(@)]
    /\ current' = id

\* Faulty ProcessFlip, for the mutant runs.
ProcessFlipSwapped(id) ==
    /\ Turn(id, {"InterestedChange", "ChokingChange"})
    /\ priority' = IF Head(batch[id]).type = "InterestedChange"
                   THEN [priority EXCEPT ![id].choking = ~@]
                   ELSE [priority EXCEPT ![id].interested = ~@]
    /\ NextMessage(id)
    /\ UNCHANGED <<lockVars, npeers, newPeers, up, down, crashed, controllerRest, ctl, tick,
                   peers, bitfields, todo, completions, commands, left>>

ProcessFlip(id) ==
    /\ Turn(id, {"InterestedChange", "ChokingChange"})
    /\ priority' = IF Head(batch[id]).type = "ChokingChange"
                   THEN [priority EXCEPT ![id].choking = ~@]
                   ELSE [priority EXCEPT ![id].interested = ~@]
    /\ NextMessage(id)
    /\ UNCHANGED <<lockVars, npeers, newPeers, up, down, crashed, controllerRest, ctl, tick,
                   peers, bitfields, todo, completions, commands, left>>

\* Faulty Learned, for the mutant runs.
HaveOnly(bits, m) == IF m.type = "Have" THEN bits \cup {m.piece} ELSE bits

\* What a Have or a Bitfield makes of the controller's bitfield.
Learned(bits, m) == bits \cup (IF m.type = "Have" THEN {m.piece} ELSE m.bits)

\* bitfields.get_mut(peer_id).unwrap()
ProcessPieces(id) ==
    /\ Turn(id, {"Have", "Bitfield"})
    /\ IF id \in DOMAIN bitfields
       THEN /\ bitfields' = [bitfields EXCEPT ![id] = Learned(@, Head(batch[id]))]
            /\ NextMessage(id)
            /\ UNCHANGED <<newPeers, up, crashed, ctl, peers, priority, todo, commands>>
       ELSE Panic("process")
    /\ UNCHANGED <<lockVars, npeers, down, controllerRest, tick, completions, left>>

\* Faulty ProcessDisconnect, for the mutant runs.
ProcessDisconnectKeeps(id) ==
    /\ Turn(id, {"Disconnect"})
    /\ NextMessage(id)
    /\ UNCHANGED <<lockVars, npeers, newPeers, up, down, crashed, controllerRest, ctl, tick,
                   registry, todo, completions, commands, left>>

ProcessDisconnect(id) ==
    /\ Turn(id, {"Disconnect"})
    /\ \E popped \in Popping(id) : RemovePeers({id}, popped)
    /\ NextMessage(id)
    /\ UNCHANGED <<lockVars, newPeers, down, crashed, controllerRest, ctl, tick, todo,
                   completions, commands, left>>

\* Downloaded: every peer, of whatever torrent, is sent Have; then, under the
\* lock, a torrent with nothing remaining is set complete and the client told.
\* Both lookups are unwrapped.
ProcessDownloaded(id) ==
    /\ Turn(id, {"Downloaded"})
    /\ RoomFor(ConnsOf(DOMAIN peers))
    /\ down' = SentDown(ConnsOf(DOMAIN peers),
                        [type |-> "Have", piece |-> Head(batch[id]).piece])
    /\ IF poisoned
       THEN Leave("panicked") /\ UNCHANGED <<lockVars, crashed, completions>>
       ELSE IF id \in DOMAIN priority /\ priority[id].hash \in DOMAIN torrents
       THEN LET h == priority[id].hash
            IN  /\ torrents' = [torrents EXCEPT ![h] = SetComplete(@)]
                /\ completions' = [completions EXCEPT ![h] =
                                     IF MayComplete(torrents[h]) THEN @ + 1 ELSE @]
                /\ NextMessage(id)
                /\ UNCHANGED <<poisoned, newPeers, up, crashed, ctl, registry, todo, commands>>
       ELSE Panic("process") /\ poisoned' = TRUE /\ UNCHANGED <<torrents, completions>>
    /\ UNCHANGED <<npeers, controllerRest, tick, left>>

\* check_messages returns; the timers of Period follow when they are due.
MessagesDone ==
    /\ ControllerAt("process") /\ DOMAIN batch = {}
    /\ current' = NoHash
    /\ ctl' = IF tick = Period THEN "choke" ELSE "sleep"
    /\ UNCHANGED <<lockVars, npeers, newPeers, up, down, crashed, controllerRest, tick,
                   registry, batch, todo, completions, commands, left>>

----------------------------------------------------------------------------
(* choke *)

\* Faulty Uploaders, for the mutant runs.
UploadersUncapped == Cardinality(DOMAIN priority)

Uploaders == IF Cardinality(DOMAIN priority) < MaxUnchoked
             THEN Cardinality(DOMAIN priority) ELSE MaxUnchoked

Choke ==
    /\ ControllerAt("choke")
    /\ IF DOMAIN priority \subseteq DOMAIN peers
       THEN /\ RoomFor(ConnsOf(DOMAIN priority))
            /\ \E S \in Favoured(Uploaders) :
                down' = [k \in Conn |->
                    IF ~Receives(k) \/ k \notin ConnsOf(DOMAIN priority) THEN down[k]
                    ELSE Append(down[k],
                            [type |-> IF k \in ConnsOf(S) THEN "Unchoke" ELSE "Choke"])]
            /\ ctl' = "lock_requests"
            /\ UNCHANGED <<newPeers, up, crashed, registry, batch, current, todo, commands>>
       ELSE Panic("choke") /\ UNCHANGED down
    /\ UNCHANGED <<lockVars, npeers, controllerRest, tick, completions, left>>

----------------------------------------------------------------------------
(* make_requests *)

\* The lock is taken; the running torrents come in the order of the map.
LockRequests ==
    /\ ControllerAt("lock_requests") /\ ~poisoned
    /\ todo' \in SeqExt!SetToSeqs({h \in DOMAIN torrents : torrents[h].status = "Running"})
    /\ ctl' = "requesting"
    /\ UNCHANGED <<lockVars, npeers, newPeers, up, down, crashed, controllerRest, tick,
                   registry, batch, current, completions, commands, left>>

\* The peers of torrent h that do not choke us, as far as the controller knows.
Eligible(h) == {id \in PeersOf(h) : ~priority[id].choking}

\* Faulty Servers, for the mutant runs.
AnyEligible(h, i) == Eligible(h)

\* Those of them that have piece i, as far as it knows.
Servers(h, i) == {id \in Eligible(h) \cap DOMAIN bitfields : i \in bitfields[id]}

Asking(h) == MayRequest(torrents[h]) /\ SelectPiece(torrents[h]) # {}

\* One turn of the `while`: a piece is selected and the first eligible peer that
\* has it is asked.  No such peer: the piece stays selected, nobody is asked.
\* The lookups are expected, and send().unwrap() panics if that connection has
\* ended; either way the lock is held.
RequestPiece ==
    /\ ControllerAt("requesting") /\ todo # <<>> /\ Asking(Head(todo))
    /\ \E s \in SelectPiece(torrents[Head(todo)]) :
        LET h   == Head(todo)
            has == Servers(h, s.piece)
        IN  /\ torrents' = [torrents EXCEPT ![h] = s.next]
            /\ IF ~(Eligible(h) \subseteq DOMAIN bitfields \cap DOMAIN peers)
               THEN Panic("make_requests") /\ poisoned' = TRUE /\ UNCHANGED down
               ELSE \/ /\ has = {}
                       /\ UNCHANGED <<poisoned, newPeers, up, down, crashed, ctl, registry,
                                      batch, current, todo, commands>>
                    \/ \E id \in has :
                       IF Receives(peers[id])
                       THEN /\ RoomFor({peers[id]})
                            /\ down' = SentDown({peers[id]},
                                          [type |-> "Request", piece |-> s.piece])
                            /\ UNCHANGED <<poisoned, newPeers, up, crashed, ctl, registry,
                                           batch, current, todo, commands>>
                       ELSE Panic("send_request") /\ poisoned' = TRUE /\ UNCHANGED down
    /\ UNCHANGED <<npeers, controllerRest, tick, completions, left>>

TorrentDone ==
    /\ ControllerAt("requesting") /\ todo # <<>>
    /\ ~Asking(Head(todo))
    /\ todo' = Tail(todo)
    /\ UNCHANGED <<lockVars, npeers, newPeers, up, down, crashed, controllerRest, ctl, tick,
                   registry, batch, current, completions, commands, left>>

\* The lock is released and the wheel sleeps again.
RequestsDone == todo = <<>> /\ Proceed("requesting", "sleep")

----------------------------------------------------------------------------

Process(id) ==
    \/ ProcessFlip(id)
    \/ ProcessPieces(id)
    \/ ProcessDisconnect(id)
    \/ ProcessDownloaded(id)

ControllerNext ==
    \/ Sleep
    \/ LockFails
    \/ PauseOrResume("Pause") \/ PauseOrResume("Resume")
    \/ RemoveTorrent
    \/ Disconnect
    \/ CommandsDone
    \/ RecvNewPeer \/ NewPeersDone
    \/ SendUpdate
    \/ TakeMessages
    \/ (\E id \in PeerId : Process(id)) \/ MessagesDone
    \/ Choke
    \/ LockRequests \/ RequestPiece \/ TorrentDone \/ RequestsDone
====
