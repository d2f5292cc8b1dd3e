---- MODULE TorrentRuntime ----
(* One torrent behind the torrents mutex, called in any order the connection  *)
(* threads, the controller and the client may produce: each action is one     *)
(* call made with the lock held.                                              *)
EXTENDS TorrentOps

CONSTANT MaxHolders  \* bound: the most peers counted as having one piece

ASSUME MaxHoldersAssumption == MaxHolders \in Nat

VARIABLES
    torrent,    \* the TorrentRuntime
    poisoned    \* a call panicked: the mutex is poisoned, no call is made again

vars == <<torrent, poisoned>>

----------------------------------------------------------------------------

Init ==
    /\ \E downloaded \in BOOLEAN : torrent = NewTorrent(downloaded)
    /\ poisoned = FALSE

Call(next) == ~poisoned /\ torrent' = next /\ UNCHANGED poisoned

\* A connection tells that one peer more, or one less, can send piece i.
PeerGains(i) ==
    /\ i \in DOMAIN torrent.pq.queue => torrent.pq.queue[i] # -MaxHolders
    /\ Call(UpdatePriority(torrent, {i}, 1))

PeerLoses(i) ==
    IF ChangePanics(torrent.pq, {i}, -1)
    THEN ~poisoned /\ poisoned' = TRUE /\ UNCHANGED torrent
    ELSE Call(UpdatePriority(torrent, {i}, -1))

\* The controller asks for one more piece of a running torrent.
Ask ==
    /\ torrent.status = "Running"
    /\ MayRequest(torrent)
    /\ \E s \in SelectPiece(torrent) : Call(s.next)

\* A block of piece i arrives, asked for or not.
Receive(i) ==
    \E whole, valid \in BOOLEAN : Call(WriteBlock(torrent, i, whole, valid))

ClientPauses == \E pause \in BOOLEAN : Call(Pause(torrent, pause))

Complete == Call(SetComplete(torrent))

\* Time passes with or without a call.
Tick == Call(Aged(torrent))

Next ==
    \/ \E i \in Piece : PeerGains(i) \/ PeerLoses(i) \/ Receive(i)
    \/ Ask
    \/ ClientPauses
    \/ Complete
    \/ Tick

Spec == Init /\ [][Next]_vars

----------------------------------------------------------------------------

\* What the fields of the runtime hold.
TypeOK == IsTorrent(torrent) /\ poisoned \in BOOLEAN

\* The two tiers of the queue agree: a piece among the zeros is still queued,
\* at the lowest priority, and any other queued piece counts at least one peer
\* (change_priority_by moves it between the tiers as its count passes zero).
TiersAgree ==
    /\ torrent.pq.zeros \subseteq DOMAIN torrent.pq.queue
    /\ \A i \in torrent.pq.zeros : torrent.pq.queue[i] = MinPriority
    /\ \A i \in DOMAIN torrent.pq.queue : torrent.pq.queue[i] < 0

\* A piece is in flight at most once, and not while it waits in the queue:
\* select_piece never puts a piece on the wire that it still holds queued.
RequestedOnce ==
    LET reqs == torrent.outstanding
    IN  /\ \A n \in DOMAIN reqs : reqs[n].piece \notin DOMAIN torrent.pq.queue
        /\ \A m, n \in DOMAIN reqs : reqs[m].piece = reqs[n].piece => m = n

\* The front of outstanding_requests is always the oldest request, so the one
\* comparison select_piece makes finds an expired request whenever there is one.
OldestFirst ==
    \A m, n \in DOMAIN torrent.outstanding :
        m <= n => torrent.outstanding[n].age <= torrent.outstanding[m].age

\* However pauses, resumes and writes interleave with set_complete, a torrent
\* shown as complete has every piece.
CompleteMeansAll == torrent.status = "Complete" => Finished(torrent)

\* A finished torrent, paused or not, never goes back to downloading.
NeverReopened ==
    [][Finished(torrent) /\ torrent.status # "Running"
           => torrent'.status # "Running"]_vars

\* Where piece i is: in the queue, in outstanding_requests, or in neither.
StageOf(i) ==
    IF i \in DOMAIN torrent.pq.queue THEN "queued"
    ELSE IF \E n \in DOMAIN torrent.outstanding : torrent.outstanding[n].piece = i
    THEN "asked" ELSE "out"

Lifecycle == INSTANCE PieceLifecycle
                 WITH stage <- [i \in Piece |-> StageOf(i)], have <- torrent.have

\* Every call moves at most one piece, one stage on, and takes none off the disk:
\* the torrent implements PieceLifecycle, so a piece whose requests came to
\* nothing is out for good (select_piece, remove_request, write_block).
PieceByPiece == Lifecycle!Spec
====
