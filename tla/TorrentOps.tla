---- MODULE TorrentOps ----
(* The data of one torrent and the calls that change it: PieceQueue and       *)
(* TorrentRuntime of torrent_runtime.rs, as operators on a value.  Every call *)
(* is made with the torrents mutex held, so each is one indivisible step of   *)
(* the modules that use it.                                                   *)
EXTENDS Integers, Sequences, FiniteSets

CONSTANTS
    NPieces,        \* the number of pieces of the torrent
    MaxPeers,       \* MAX_PEERS of lib.rs
    RequestsLimit,  \* REQUESTS_LIMIT of lib.rs
    Timeout         \* READ_TIMEOUT of lib.rs, in ticks of the clock

ASSUME NPiecesAssumption == NPieces \in Nat \ {0}
ASSUME MaxPeersAssumption == MaxPeers \in Nat
ASSUME RequestsLimitAssumption == RequestsLimit \in Nat \ {0}
ASSUME TimeoutAssumption == Timeout \in Nat \ {0}

Piece == 0..NPieces - 1
Status == {"Running", "Paused", "Complete"}
Request == [piece : Piece, age : 0..Timeout]

IsPieceQueue(q) ==
    /\ q = [zeros |-> q.zeros, queue |-> q.queue]
    /\ q.zeros \subseteq Piece
    /\ q.queue \in [DOMAIN q.queue -> Int] /\ DOMAIN q.queue \subseteq Piece

IsTorrent(t) ==
    /\ t = [pq |-> t.pq, outstanding |-> t.outstanding, have |-> t.have, status |-> t.status]
    /\ IsPieceQueue(t.pq)
    /\ t.outstanding \in Seq(Request)
    /\ t.have \subseteq Piece
    /\ t.status \in Status

\* f without the index i: how an element leaves a queue or a map.
Without(f, S) == [j \in DOMAIN f \ S |-> f[j]]

----------------------------------------------------------------------------
(* PieceQueue: `zeros` holds the pieces no unchoking peer has; `queue` gives  *)
(* each piece not yet requested a priority, the peers that have it negated.   *)

MinPriority == -MaxPeers - 1

\* Faulty NewQueue, for the mutant runs.
NewQueueOneTooMany ==
    [zeros |-> 0..NPieces, queue |-> [i \in 0..NPieces |-> MinPriority]]

NewQueue == [zeros |-> Piece, queue |-> [i \in Piece |-> MinPriority]]

\* The elements peek may show: the queue does not order equal priorities.
Peeks(q) == {i \in DOMAIN q.queue :
                \A j \in DOMAIN q.queue : q.queue[j] <= q.queue[i]}

\* The elements pop may take; none when the top priority is MinPriority.
Pops(q) == {i \in Peeks(q) : q.queue[i] # MinPriority}

\* Faulty Popped, for the mutant runs.
PoppedNotRemoved(q, i) == q

Popped(q, i) == [q EXCEPT !.queue = Without(@, {i})]

\* change_priority_by(index, |n| n - d), for every index of S in turn, as
\* update_priority_all calls it; the indexes are independent of each other.
Changed(q, i, d) == (IF i \in q.zeros THEN 0 ELSE q.queue[i]) - d

\* A piece at zero would get a priority above zero: the call panics.
ChangePanics(q, S, d) == \E i \in S \cap q.zeros : Changed(q, i, d) > 0

\* Faulty ChangePriorityBy, for the mutant runs.
ChangePriorityKeepsZeros(q, S, d) ==
    LET toZero == {i \in S \cap DOMAIN q.queue : Changed(q, i, d) = 0}
    IN  [zeros |-> q.zeros \cup toZero,
         queue |-> [i \in DOMAIN q.queue |->
                        IF i \notin S THEN q.queue[i]
                        ELSE IF i \in toZero THEN MinPriority
                        ELSE Changed(q, i, d)]]

\* Faulty ChangePriorityBy, for the mutant runs.
ChangePriorityInserts(q, S, d) ==
    LET toZero == {i \in S \cap DOMAIN q.queue : Changed(q, i, d) = 0}
    IN  [zeros |-> (q.zeros \ S) \cup toZero,
         queue |-> [i \in DOMAIN q.queue \cup S |->
                        IF i \notin S THEN q.queue[i]
                        ELSE IF i \in toZero THEN MinPriority
                        ELSE IF i \notin DOMAIN q.queue THEN -1
                        ELSE Changed(q, i, d)]]

ChangePriorityBy(q, S, d) ==
    LET toZero == {i \in S \cap DOMAIN q.queue : Changed(q, i, d) = 0}
    IN  [zeros |-> (q.zeros \ S) \cup toZero,
         queue |-> [i \in DOMAIN q.queue |->
                        IF i \notin S THEN q.queue[i]
                        ELSE IF i \in toZero THEN MinPriority
                        ELSE Changed(q, i, d)]]

----------------------------------------------------------------------------
(* TorrentRuntime: the queue, the requests in flight (oldest first), the      *)
(* pieces verified on disk, and the status.                                   *)

NewTorrent(downloaded) ==
    [pq          |-> NewQueue,
     outstanding |-> <<>>,
     have        |-> IF downloaded THEN Piece ELSE {},
     status      |-> IF downloaded THEN "Complete" ELSE "Running"]

\* remaining() = 0
Finished(t) == t.have = Piece

UpdatePriority(t, S, d) == [t EXCEPT !.pq = ChangePriorityBy(@, S, d)]

Expired(t) == t.outstanding # <<>> /\ Head(t.outstanding).age >= Timeout

\* Faulty SelectPiece, for the mutant runs.
SelectPieceAtFront(t) ==
    IF Expired(t)
    THEN {[piece |-> Head(t.outstanding).piece,
           next  |-> [t EXCEPT !.outstanding = Tail(@)]]}
    ELSE {[piece |-> i,
           next  |-> [t EXCEPT !.pq = Popped(@, i),
                               !.outstanding = <<[piece |-> i, age |-> 0]>> \o @]] :
             i \in Pops(t.pq)}

\* select_piece: the outcomes of the call, {} when it returns None.  A request
\* that has expired is handed out again and leaves outstanding_requests.
SelectPiece(t) ==
    IF Expired(t)
    THEN {[piece |-> Head(t.outstanding).piece,
           next  |-> [t EXCEPT !.outstanding = Tail(@)]]}
    ELSE {[piece |-> i,
           next  |-> [t EXCEPT !.pq = Popped(@, i),
                               !.outstanding = Append(@, [piece |-> i, age |-> 0])]] :
             i \in Pops(t.pq)}

\* make_requests asks for another piece only below the limit.
MayRequest(t) == Len(t.outstanding) < RequestsLimit

\* remove_request keeps the requests for other pieces.  A piece is never in
\* flight twice (RequestedOnce in TorrentRuntime), so at most one request goes.
Dropped(reqs, i) ==
    IF \E n \in DOMAIN reqs : reqs[n].piece = i
    THEN LET n == CHOOSE m \in DOMAIN reqs : reqs[m].piece = i
         IN  SubSeq(reqs, 1, n - 1) \o SubSeq(reqs, n + 1, Len(reqs))
    ELSE reqs

\* write_block of a block of piece i.  `whole`: the block is the piece as
\* requested, from offset 0 and full length; `valid`: its hash is the piece's
\* and the file takes it.  The request goes whatever the outcome; the bit is
\* set for a whole valid piece.  The call is Ok exactly when valid.
WriteBlock(t, i, whole, valid) ==
    [t EXCEPT !.outstanding = IF whole THEN Dropped(@, i) ELSE @,
              !.have = IF whole /\ valid THEN @ \cup {i} ELSE @]

\* Faulty Pause, for the mutant runs.
PauseAlwaysRuns(t, pause) ==
    [t EXCEPT !.status = IF pause THEN "Paused"
                         ELSE IF @ # "Paused" THEN @ ELSE "Running"]

\* Faulty Pause, for the mutant runs.
PauseUnchecked(t, pause) ==
    [t EXCEPT !.status = IF pause THEN "Paused"
                         ELSE IF @ = "Paused" THEN "Complete"
                         ELSE @]

Pause(t, pause) ==
    [t EXCEPT !.status = IF pause THEN "Paused"
                         ELSE IF @ # "Paused" THEN @
                         ELSE IF Finished(t) THEN "Complete" ELSE "Running"]

\* Faulty MayComplete, for the mutant runs.
MayCompleteAgain(t) == Finished(t)

\* set_complete returns Ok, and changes the status, only when this holds.
MayComplete(t) == Finished(t) /\ t.status = "Running"
SetComplete(t) == IF MayComplete(t) THEN [t EXCEPT !.status = "Complete"] ELSE t

\* A tick of the clock ages every request (beyond Timeout ages are not told apart).
Older(r) == [piece |-> r.piece, age |-> IF r.age < Timeout THEN r.age + 1 ELSE r.age]
Aged(t) == [t EXCEPT !.outstanding = [n \in DOMAIN @ |-> Older(@[n])]]
====
