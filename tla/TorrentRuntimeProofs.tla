---- MODULE TorrentRuntimeProofs ----
(* Proofs about TorrentRuntime, for any number of pieces, peers, requests and *)
(* any timeout.                                                               *)
EXTENDS TorrentRuntime, TorrentOpsProofs

USE NPiecesAssumption, MaxPeersAssumption, RequestsLimitAssumption, TimeoutAssumption,
    MaxHoldersAssumption

----------------------------------------------------------------------------
(* The specification keeps the invariant. *)

Inv == Good(torrent) /\ poisoned \in BOOLEAN

\* A new torrent, downloaded or not, is in order.
LEMMA InitInv == Init => Inv
  BY NewGood DEF Init, Inv

\* Every call keeps the invariant.
LEMMA NextInv == Inv /\ [Next]_vars => Inv'
<1> SUFFICES ASSUME Inv, [Next]_vars PROVE Inv'
  OBVIOUS
<1> USE DEF Inv
<1>1. ASSUME NEW i \in Piece, PeerGains(i) PROVE Inv'
  <2>1. ~ChangePanics(torrent.pq, {i}, 1)
    BY GainsNeverPanic DEF Good
  <2>2. Good(UpdatePriority(torrent, {i}, 1))
    BY <2>1, UpdateGood
  <2> QED
    BY <1>1, <2>2 DEF PeerGains, Call
<1>2. ASSUME NEW i \in Piece, PeerLoses(i) PROVE Inv'
  <2>1. CASE ChangePanics(torrent.pq, {i}, -1)
    BY <1>2, <2>1 DEF PeerLoses
  <2>2. CASE ~ChangePanics(torrent.pq, {i}, -1)
    <3>1. Good(UpdatePriority(torrent, {i}, -1))
      BY <2>2, UpdateGood
    <3> QED
      BY <1>2, <2>2, <3>1 DEF PeerLoses, Call
  <2> QED
    BY <2>1, <2>2
<1>3. ASSUME NEW i \in Piece, Receive(i) PROVE Inv'
  BY <1>3, WriteGood DEF Receive, Call
<1>4. CASE Ask
  BY <1>4, SelectGood DEF Ask, Call
<1>5. CASE ClientPauses
  BY <1>5, PauseGood DEF ClientPauses, Call
<1>6. CASE Complete
  BY <1>6, CompleteGood DEF Complete, Call
<1>7. CASE Tick
  BY <1>7, AgedGood DEF Tick, Call
<1>8. CASE UNCHANGED vars
  BY <1>8 DEF vars
<1> QED
  BY <1>1, <1>2, <1>3, <1>4, <1>5, <1>6, <1>7, <1>8 DEF Next

\* After any sequence of calls the runtime is Good: its tiers agree, its requests
\* are each for a piece of its own, in order and within the limit, and a complete
\* torrent is finished.
THEOREM Invariant == Spec => []Inv
  BY InitInv, NextInv, PTL DEF Spec

\* Whatever is called in whatever order, the fields of the runtime keep their
\* types: no piece index outside the torrent, no unknown status.
THEOREM TypeCorrect == Spec => []TypeOK
<1>1. Inv => TypeOK
  BY DEF Inv, Good, TypeOK
<1> QED
  BY <1>1, Invariant, PTL

\* change_priority_by never lets the two tiers of the queue disagree.
THEOREM TiersCorrect == Spec => []TiersAgree
<1>1. Inv => TiersAgree
  BY DEF Inv, Good, Tiers, TiersAgree
<1> QED
  BY <1>1, Invariant, PTL

\* select_piece never has a piece in flight twice, nor in flight and queued.
THEOREM RequestsUnique == Spec => []RequestedOnce
<1>1. Inv => RequestedOnce
  BY DEF Inv, Good, Once, RequestedOnce
<1> QED
  BY <1>1, Invariant, PTL

\* The one comparison of select_piece with the front is enough.
THEOREM RequestsInOrder == Spec => []OldestFirst
<1>1. Inv => OldestFirst
  BY DEF Inv, Good, Ordered, OldestFirst
<1> QED
  BY <1>1, Invariant, PTL

\* set_complete and pause never show as complete a torrent with missing pieces.
THEOREM CompleteIsComplete == Spec => []CompleteMeansAll
<1>1. Inv => CompleteMeansAll
  BY DEF Inv, Good, CompleteMeansAll
<1> QED
  BY <1>1, Invariant, PTL

\* No call makes a finished torrent that does not run running: the Running of
\* pause is chosen only while pieces are missing.
LEMMA StaysFinished ==
  Inv /\ Next => (Finished(torrent) /\ torrent.status # "Running"
                    => torrent'.status # "Running")
<1> SUFFICES ASSUME Inv, Next, Finished(torrent), torrent.status # "Running"
             PROVE  torrent'.status # "Running"
  OBVIOUS
<1> DEFINE Same == torrent'.status = torrent.status
<1>0. IsTorrent(torrent)
  BY DEF Inv, Good
<1>1. ASSUME NEW i \in Piece, PeerGains(i) PROVE Same
  BY <1>0, <1>1, UpdateStatus DEF PeerGains, Call
<1>2. ASSUME NEW i \in Piece, PeerLoses(i) PROVE Same
  BY <1>0, <1>2, UpdateStatus DEF PeerLoses, Call
<1>3. ASSUME NEW i \in Piece, Receive(i) PROVE Same
  BY <1>0, <1>3, WriteStatus DEF Receive, Call
<1>4. ASSUME Ask PROVE Same
  BY <1>0, <1>4, SelectStatus DEF Ask, Call
<1>5. ASSUME ClientPauses PROVE torrent'.status # "Running"
  BY <1>0, <1>5, PauseStatus DEF ClientPauses, Call, Settled
<1>6. ASSUME Complete PROVE torrent'.status # "Running"
  BY <1>0, <1>6, CompleteStatus DEF Complete, Call, Settled
<1>7. ASSUME Tick PROVE Same
  BY <1>0, <1>7, AgedStatus DEF Tick, Call
<1> QED
  BY <1>1, <1>2, <1>3, <1>4, <1>5, <1>6, <1>7 DEF Next

\* However the client pauses and resumes, and whatever arrives meanwhile, a
\* finished torrent never shows as downloading again.
THEOREM FinishedStays == Spec => NeverReopened
<1>1. Inv /\ [Next]_vars =>
        [Finished(torrent) /\ torrent.status # "Running"
           => torrent'.status # "Running"]_vars
  BY StaysFinished
<1> QED
  BY <1>1, Invariant, PTL DEF Spec, NeverReopened

----------------------------------------------------------------------------
(* TorrentRuntime implements PieceLifecycle: every call moves at most one      *)
(* piece, and that one on to its next stage, for any number of pieces, peers,  *)
(* requests and any timeout.                                                   *)

----------------------------------------------------------------------------
(* What the operations on outstanding_requests do to the pieces in flight *)

\* The oldest request goes, and its piece is in flight no more.
LEMMA InFlightTail ==
  ASSUME NEW reqs \in Seq(Request), reqs # <<>>, NEW queued, Once(reqs, queued)
  PROVE  /\ Head(reqs).piece \in InFlight(reqs)
         /\ InFlight(Tail(reqs)) = InFlight(reqs) \ {Head(reqs).piece}
<1> DEFINE d == Tail(reqs)
<1>1. /\ Len(reqs) \in Nat \ {0} /\ DOMAIN reqs = 1..Len(reqs) /\ Head(reqs) = reqs[1]
      /\ d \in Seq(Request) /\ Len(d) = Len(reqs) - 1
      /\ \A n \in 1..Len(d) : d[n] = reqs[n + 1]
  BY HeadTailProperties
<1>2. DOMAIN d = 1..Len(reqs) - 1
  BY <1>1
<1> HIDE DEF d
<1>3. ASSUME NEW n \in 1..Len(reqs), reqs[n].piece # reqs[1].piece
      PROVE  reqs[n].piece \in InFlight(d)
  <2>1. n - 1 \in 1..Len(reqs) - 1 /\ (n - 1) + 1 = n
    BY <1>1, <1>3
  <2>2. d[n - 1] = reqs[n]
    BY <1>1, <2>1
  <2> QED
    BY <1>2, <2>1, <2>2 DEF InFlight
<1>4. ASSUME NEW n \in 1..Len(reqs) - 1
      PROVE  d[n].piece \in InFlight(reqs) /\ d[n].piece # reqs[1].piece
  <2>1. n + 1 \in 1..Len(reqs) /\ n + 1 # 1 /\ 1 \in 1..Len(reqs)
    BY <1>1
  <2>2. d[n] = reqs[n + 1]
    BY <1>1
  <2> QED
    BY <1>1, <2>1, <2>2 DEF InFlight, Once
<1>5. 1 \in DOMAIN reqs
  BY <1>1
<1>6. Head(reqs).piece \in InFlight(reqs)
  BY <1>1, <1>5 DEF InFlight
<1>7. InFlight(d) = InFlight(reqs) \ {Head(reqs).piece}
  <2>1. ASSUME NEW p \in InFlight(d) PROVE p \in InFlight(reqs) \ {Head(reqs).piece}
    BY <1>1, <1>2, <1>4 DEF InFlight
  <2>2. ASSUME NEW p \in InFlight(reqs), p # Head(reqs).piece PROVE p \in InFlight(d)
    <3>1. PICK n \in 1..Len(reqs) : p = reqs[n].piece
      BY <1>1 DEF InFlight
    <3> QED
      BY <1>1, <1>3, <2>2, <3>1
  <2> QED
    BY <2>1, <2>2
<1> QED
  BY <1>6, <1>7 DEF d

\* remove_request takes piece i out of flight and no other.
LEMMA InFlightDropped ==
  ASSUME NEW reqs \in Seq(Request), NEW queued, Once(reqs, queued), NEW i
  PROVE  InFlight(Dropped(reqs, i)) = InFlight(reqs) \ {i}
<1>1. CASE \E n \in DOMAIN reqs : reqs[n].piece = i
  <2> DEFINE k == CHOOSE m \in DOMAIN reqs : reqs[m].piece = i
             a == SubSeq(reqs, 1, k - 1)
             b == SubSeq(reqs, k + 1, Len(reqs))
             d == Dropped(reqs, i)
  <2>1. k \in 1..Len(reqs) /\ Len(reqs) \in Nat
    BY <1>1
  <2>2. reqs[k].piece = i /\ DOMAIN reqs = 1..Len(reqs)
    BY <1>1
  <2>3. d = a \o b
    BY <1>1 DEF Dropped
  <2> HIDE DEF k, d
  <2>4. /\ a \in Seq(Request) /\ Len(a) = k - 1
        /\ \A n \in 1..k - 1 : a[n] = reqs[n]
    <3>1. \A n \in 1..k - 1 : reqs[n] \in Request
      BY <2>1
    <3> QED
      BY <2>1, <3>1, SubSeqProperties
  <2>5. /\ b \in Seq(Request) /\ Len(b) = Len(reqs) - k
        /\ \A n \in 1..Len(reqs) - k : b[n] = reqs[n + k]
    <3>1. \A n \in k + 1..Len(reqs) : reqs[n] \in Request
      BY <2>1
    <3> QED
      BY <2>1, <3>1, SubSeqProperties
  <2> HIDE DEF a, b
  <2>6. /\ DOMAIN d = 1..Len(reqs) - 1
        /\ \A n \in 1..k - 1 : d[n] = reqs[n]
        /\ \A n \in k + 1..Len(reqs) : d[n - 1] = reqs[n]
    <3>1. /\ d \in Seq(Request) /\ Len(d) = Len(a) + Len(b)
          /\ \A n \in 1..Len(a) + Len(b) : d[n] = IF n <= Len(a) THEN a[n] ELSE b[n - Len(a)]
      BY <2>3, <2>4, <2>5, ConcatProperties
    <3>2. Len(d) = Len(reqs) - 1 /\ Len(a) = k - 1 /\ Len(a) + Len(b) = Len(reqs) - 1
      BY <2>1, <2>4, <2>5, <3>1
    <3>3. DOMAIN d = 1..Len(reqs) - 1
      BY <3>1, <3>2
    <3>4. ASSUME NEW n \in 1..k - 1 PROVE d[n] = reqs[n]
      <4>1. n \in 1..Len(a) + Len(b) /\ n <= Len(a)
        BY <2>1, <3>2
      <4> QED
        BY <2>4, <3>1, <4>1
    <3>5. ASSUME NEW n \in k + 1..Len(reqs) PROVE d[n - 1] = reqs[n]
      <4>1. n - 1 \in 1..Len(a) + Len(b) /\ ~(n - 1 <= Len(a)) /\ (n - 1) - Len(a) = n - k
        BY <2>1, <3>2
      <4>2. n - k \in 1..Len(reqs) - k /\ (n - k) + k = n
        BY <2>1
      <4> QED
        BY <2>5, <3>1, <4>1, <4>2
    <3> QED
      BY <3>3, <3>4, <3>5
  <2>7. ASSUME NEW n \in 1..Len(reqs), reqs[n].piece # i PROVE reqs[n].piece \in InFlight(d)
    <3>1. n # k
      BY <2>2, <2>7
    <3>2. CASE n \in 1..k - 1
      <4>1. n \in 1..Len(reqs) - 1
        BY <2>1, <3>2
      <4> QED
        BY <2>6, <3>2, <4>1 DEF InFlight
    <3>3. CASE n \in k + 1..Len(reqs)
      <4>1. n - 1 \in 1..Len(reqs) - 1
        BY <2>1, <3>3
      <4>2. d[n - 1].piece \in InFlight(d)
        BY <2>6, <4>1 DEF InFlight
      <4> QED
        BY <2>6, <3>3, <4>2
    <3> QED
      BY <2>1, <3>1, <3>2, <3>3
  <2>8. ASSUME NEW n \in 1..Len(reqs), n # k
        PROVE  reqs[n].piece \in InFlight(reqs) /\ reqs[n].piece # i
    BY <2>1, <2>2, <2>8 DEF InFlight, Once
  <2>9. ASSUME NEW n \in 1..Len(reqs) - 1
        PROVE  d[n].piece \in InFlight(reqs) /\ d[n].piece # i
    <3>1. CASE n \in 1..k - 1
      <4>1. n \in 1..Len(reqs) /\ n # k
        BY <2>1, <3>1
      <4> QED
        BY <2>6, <2>8, <3>1, <4>1
    <3>2. CASE n \in k..Len(reqs) - 1
      <4>1. n + 1 \in k + 1..Len(reqs) /\ (n + 1) - 1 = n
        BY <2>1, <3>2
      <4>2. n + 1 \in 1..Len(reqs) /\ n + 1 # k
        BY <2>1, <3>2
      <4> QED
        BY <2>6, <2>8, <4>1, <4>2
    <3> QED
      BY <2>1, <3>1, <3>2
  <2>10. ASSUME NEW p \in InFlight(d) PROVE p \in InFlight(reqs) \ {i}
    BY <2>6, <2>9 DEF InFlight
  <2>11. ASSUME NEW p \in InFlight(reqs), p # i PROVE p \in InFlight(d)
    <3>1. PICK n \in 1..Len(reqs) : p = reqs[n].piece
      BY <2>2 DEF InFlight
    <3> QED
      BY <2>7, <2>11, <3>1
  <2>12. InFlight(d) = InFlight(reqs) \ {i}
    BY <2>10, <2>11
  <2> QED
    BY <2>12 DEF d
<1>2. CASE ~\E n \in DOMAIN reqs : reqs[n].piece = i
  BY <1>2 DEF Dropped, InFlight
<1> QED
  BY <1>1, <1>2

\* A request made puts its piece in flight.
LEMMA InFlightAppend ==
  ASSUME NEW reqs \in Seq(Request), NEW e \in Request
  PROVE  InFlight(Append(reqs, e)) = InFlight(reqs) \cup {e.piece}
<1>1. /\ Len(reqs) \in Nat /\ DOMAIN reqs = 1..Len(reqs)
      /\ DOMAIN Append(reqs, e) = 1..Len(reqs) + 1
      /\ \A n \in 1..Len(reqs) : Append(reqs, e)[n] = reqs[n]
      /\ Append(reqs, e)[Len(reqs) + 1] = e
  BY AppendProperties
<1>2. \A n \in 1..Len(reqs) + 1 : n \in 1..Len(reqs) \/ n = Len(reqs) + 1
  BY <1>1
<1>3. \A n \in 1..Len(reqs) : n \in 1..Len(reqs) + 1
  BY <1>1
<1>4. Len(reqs) + 1 \in 1..Len(reqs) + 1
  BY <1>1
<1> QED
  BY <1>1, <1>2, <1>3, <1>4 DEF InFlight

\* Time takes nothing out of flight.
LEMMA InFlightOlder ==
  ASSUME NEW reqs \in Seq(Request)
  PROVE  InFlight([n \in DOMAIN reqs |-> Older(reqs[n])]) = InFlight(reqs)
<1>1. \A n \in DOMAIN reqs : reqs[n] \in Request
  OBVIOUS
<1>2. \A n \in DOMAIN reqs : Older(reqs[n]).piece = reqs[n].piece
  BY <1>1, OlderTyped
<1> QED
  BY <1>2 DEF InFlight

----------------------------------------------------------------------------
(* The stages of the pieces of a torrent, and what one call does to them *)

Stage(t) ==
    [i \in Piece |-> IF i \in DOMAIN t.pq.queue THEN "queued"
                     ELSE IF i \in InFlight(t.outstanding) THEN "asked" ELSE "out"]

\* A step of PieceLifecycle, or none, on the stages and pieces of two torrents.
Asks(t, r, i) ==
    Stage(t)[i] = "queued" /\ Stage(r) = [Stage(t) EXCEPT ![i] = "asked"] /\ r.have = t.have
Releases(t, r, i) ==
    /\ Stage(t)[i] = "asked" /\ Stage(r) = [Stage(t) EXCEPT ![i] = "out"]
    /\ r.have \in {t.have, t.have \cup {i}}
TakesUnasked(t, r, i) ==
    Stage(t)[i] # "asked" /\ Stage(r) = Stage(t) /\ r.have = t.have \cup {i}
Stutters(t, r) == Stage(r) = Stage(t) /\ r.have = t.have

Moves(t, r) ==
    \/ Stutters(t, r)
    \/ \E i \in Piece : Asks(t, r, i) \/ Releases(t, r, i) \/ TakesUnasked(t, r, i)

\* Where neither queue nor requests change in their pieces, no stage does.
LEMMA StageSame ==
  ASSUME NEW t, NEW r, DOMAIN r.pq.queue = DOMAIN t.pq.queue,
         InFlight(r.outstanding) = InFlight(t.outstanding)
  PROVE  Stage(r) = Stage(t)
  BY DEF Stage

\* A piece leaving flight is out.
LEMMA StageReleased ==
  ASSUME NEW t, NEW r, NEW i \in Piece, DOMAIN r.pq.queue = DOMAIN t.pq.queue,
         i \in InFlight(t.outstanding), i \notin DOMAIN t.pq.queue,
         InFlight(r.outstanding) = InFlight(t.outstanding) \ {i}
  PROVE  Stage(t)[i] = "asked" /\ Stage(r) = [Stage(t) EXCEPT ![i] = "out"]
  BY DEF Stage

\* A piece leaving the queue for the requests is asked for.
LEMMA StageAsked ==
  ASSUME NEW t, NEW r, NEW i \in Piece, DOMAIN r.pq.queue = DOMAIN t.pq.queue \ {i},
         i \in DOMAIN t.pq.queue,
         InFlight(r.outstanding) = InFlight(t.outstanding) \cup {i}
  PROVE  Stage(t)[i] = "queued" /\ Stage(r) = [Stage(t) EXCEPT ![i] = "asked"]
  BY DEF Stage

\* update_priority moves counts, not pieces.
LEMMA UpdateMoves ==
  ASSUME NEW t, Good(t), NEW S \in SUBSET Piece, NEW d \in {-1, 1},
         ~ChangePanics(t.pq, S, d)
  PROVE  Moves(t, UpdatePriority(t, S, d))
<1> DEFINE r == UpdatePriority(t, S, d)
           p == ChangePriorityBy(t.pq, S, d)
<1>1. r = [pq |-> p, outstanding |-> t.outstanding, have |-> t.have, status |-> t.status]
  BY DEF UpdatePriority, Good, IsTorrent
<1>2. DOMAIN p.queue = DOMAIN t.pq.queue
  BY ChangeTyped DEF Good, IsTorrent
<1> HIDE DEF p, r
<1>3. DOMAIN r.pq.queue = DOMAIN t.pq.queue /\ r.outstanding = t.outstanding /\ r.have = t.have
  BY <1>1, <1>2
<1>4. Moves(t, r)
  BY <1>3, StageSame DEF Moves, Stutters
<1> QED
  BY <1>4 DEF r

\* select_piece takes a piece from the queue into flight, or an expired one out.
LEMMA SelectMoves ==
  ASSUME NEW t, Good(t), NEW s \in SelectPiece(t)
  PROVE  Moves(t, s.next)
<1> DEFINE reqs == t.outstanding
<1>1. reqs \in Seq(Request) /\ Once(reqs, DOMAIN t.pq.queue) /\ IsTorrent(t)
  BY DEF Good, IsTorrent
<1>2. CASE Expired(t)
  <2> DEFINE i == Head(reqs).piece
             r == s.next
  <2>1. r = [pq |-> t.pq, outstanding |-> Tail(reqs), have |-> t.have,
         status |-> t.status]
    BY <1>2 DEF SelectPiece, Good, IsTorrent
  <2>2. reqs # <<>>
    BY <1>2 DEF Expired
  <2>3. i \in InFlight(reqs) /\ InFlight(Tail(reqs)) = InFlight(reqs) \ {i}
    BY <1>1, <2>2, InFlightTail
  <2>4. i \in Piece /\ i \notin DOMAIN t.pq.queue
    <3>1. PICK n \in DOMAIN reqs : i = reqs[n].piece
      BY <2>3 DEF InFlight
    <3>2. reqs[n] \in Request
      BY <1>1
    <3> QED
      BY <1>1, <3>1, <3>2 DEF Once, Request
  <2> HIDE DEF i, r
  <2>5. /\ DOMAIN r.pq.queue = DOMAIN t.pq.queue /\ r.have = t.have
        /\ InFlight(r.outstanding) = InFlight(reqs) \ {i}
    BY <2>1, <2>3
  <2>6. Releases(t, r, i)
    BY <2>3, <2>4, <2>5, StageReleased DEF Releases
  <2> QED
    BY <2>4, <2>6 DEF Moves, r
<1>3. CASE ~Expired(t)
  <2>1. PICK i \in Pops(t.pq) :
           s = [piece |-> i,
                next  |-> [t EXCEPT !.pq = Popped(@, i),
                                    !.outstanding = Append(@, [piece |-> i, age |-> 0])]]
    BY <1>3, Zenon DEF SelectPiece
  <2> DEFINE p == Popped(t.pq, i)
             e == [piece |-> i, age |-> 0]
             next == Append(reqs, e)
  <2>2. s.next = SetQueue(t, p, next)
    BY <2>1, Zenon DEF SetQueue
  <2>3. /\ i \in DOMAIN t.pq.queue
        /\ DOMAIN p.queue = DOMAIN t.pq.queue \ {i}
    BY PoppedTyped DEF Good, IsTorrent
  <2>4. i \in Piece
    <3> HIDE DEF p, e, next
    <3>1. DOMAIN t.pq.queue \subseteq Piece
      BY DEF Good, IsTorrent, IsPieceQueue
    <3> QED
      BY <2>3, <3>1
  <2>5. e \in Request /\ e.piece = i
    BY <2>4, TimeoutAssumption DEF Request
  <2> DEFINE r == s.next
  <2> HIDE DEF e
  <2>6. InFlight(next) = InFlight(reqs) \cup {i}
    BY <1>1, <2>5, InFlightAppend
  <2> HIDE DEF p, next, r
  <2>7. r = [pq |-> p, outstanding |-> next, have |-> t.have, status |-> t.status]
    BY <1>1, <2>2, TwoFields DEF r
  <2>8. /\ DOMAIN r.pq.queue = DOMAIN t.pq.queue \ {i} /\ r.have = t.have
        /\ InFlight(r.outstanding) = InFlight(reqs) \cup {i}
    BY <2>3, <2>6, <2>7
  <2>9. Asks(t, r, i)
    BY <2>3, <2>4, <2>8, StageAsked DEF Asks
  <2> QED
    BY <2>4, <2>9 DEF Moves, r
<1> QED
  BY <1>2, <1>3

\* write_block takes its piece out of flight, or stores one not asked for.
LEMMA WriteMoves ==
  ASSUME NEW t, Good(t), NEW i \in Piece, NEW whole \in BOOLEAN, NEW valid \in BOOLEAN
  PROVE  Moves(t, WriteBlock(t, i, whole, valid))
<1> DEFINE reqs == t.outstanding
           d == IF whole THEN Dropped(reqs, i) ELSE reqs
           h == IF whole /\ valid THEN t.have \cup {i} ELSE t.have
           r == WriteBlock(t, i, whole, valid)
<1>1. r = [pq |-> t.pq, outstanding |-> d, have |-> h, status |-> t.status]
  <2>1. r = SetHave(t, d, h)
    BY DEF WriteBlock, SetHave
  <2> HIDE DEF r, d, h
  <2> QED
    BY <2>1, TwoFields DEF Good
<1>2. reqs \in Seq(Request) /\ Once(reqs, DOMAIN t.pq.queue)
  BY DEF Good, IsTorrent
<1>3. InFlight(d) = IF whole THEN InFlight(reqs) \ {i} ELSE InFlight(reqs)
  BY <1>2, InFlightDropped
<1>4. h \in {t.have, t.have \cup {i}} /\ (~whole => h = t.have)
  OBVIOUS
<1>5. i \in InFlight(reqs) => i \notin DOMAIN t.pq.queue
  BY <1>2 DEF Once, InFlight
<1> HIDE DEF d, h, r
<1>6. /\ DOMAIN r.pq.queue = DOMAIN t.pq.queue /\ r.have = h
      /\ InFlight(r.outstanding) = IF whole THEN InFlight(reqs) \ {i} ELSE InFlight(reqs)
  BY <1>1, <1>3
<1>7. CASE whole /\ i \in InFlight(reqs)
  <2>1. Releases(t, r, i)
    BY <1>4, <1>5, <1>6, <1>7, StageReleased DEF Releases
  <2> QED
    BY <2>1 DEF Moves, r
<1>8. CASE ~(whole /\ i \in InFlight(reqs))
  <2>1. InFlight(r.outstanding) = InFlight(t.outstanding)
    BY <1>6, <1>8
  <2>2. Stage(r) = Stage(t)
    BY <1>6, <2>1, StageSame
  <2>3. CASE h = t.have
    BY <1>6, <2>2, <2>3 DEF Moves, Stutters, r
  <2>4. CASE h # t.have
    <3>1. h = t.have \cup {i} /\ whole
      BY <1>4, <2>4
    <3>2. Stage(t)[i] # "asked"
      BY <1>8, <3>1 DEF Stage
    <3>3. TakesUnasked(t, r, i)
      BY <1>6, <2>2, <3>1, <3>2 DEF TakesUnasked
    <3> QED
      BY <3>3 DEF Moves, r
  <2> QED
    BY <2>3, <2>4
<1> QED
  BY <1>7, <1>8

\* pause, set_complete and the clock move no piece.
LEMMA OthersMove ==
  ASSUME NEW t, Good(t), NEW pause \in BOOLEAN
  PROVE  Moves(t, Pause(t, pause)) /\ Moves(t, SetComplete(t)) /\ Moves(t, Aged(t))
<1> DEFINE Same(r) == r.pq = t.pq /\ r.have = t.have
                      /\ InFlight(r.outstanding) = InFlight(t.outstanding)
<1>1. ASSUME NEW r, Same(r) PROVE Moves(t, r)
  BY <1>1, StageSame DEF Moves, Stutters
<1>2. Same(Pause(t, pause)) /\ Same(SetComplete(t))
  BY DEF Pause, SetComplete, Good, IsTorrent
<1>3. Same(Aged(t))
  <2> DEFINE a == [n \in DOMAIN t.outstanding |-> Older(t.outstanding[n])]
  <2>1. Aged(t) = [pq |-> t.pq, outstanding |-> a, have |-> t.have, status |-> t.status]
    BY DEF Aged, Good, IsTorrent
  <2>2. InFlight(a) = InFlight(t.outstanding)
    BY InFlightOlder DEF Good, IsTorrent
  <2> HIDE DEF a
  <2> QED
    BY <2>1, <2>2
<1> HIDE DEF Same
<1> QED
  BY <1>1, <1>2, <1>3

----------------------------------------------------------------------------
(* The refinement *)

\* Every step of the torrent moves its pieces as PieceLifecycle allows.
LEMMA NextMoves == Inv /\ [Next]_vars => Moves(torrent, torrent')
<1> SUFFICES ASSUME Inv, [Next]_vars PROVE Moves(torrent, torrent')
  OBVIOUS
<1> USE DEF Inv
<1>1. ASSUME torrent' = torrent PROVE Moves(torrent, torrent')
  BY <1>1 DEF Moves, Stutters
<1>2. ASSUME NEW i \in Piece, PeerGains(i) PROVE Moves(torrent, torrent')
  <2>1. ~ChangePanics(torrent.pq, {i}, 1)
    BY GainsNeverPanic DEF Good
  <2>2. Moves(torrent, UpdatePriority(torrent, {i}, 1))
    BY <2>1, UpdateMoves
  <2> QED
    BY <1>2, <2>2 DEF PeerGains, Call
<1>3. ASSUME NEW i \in Piece, PeerLoses(i) PROVE Moves(torrent, torrent')
  <2>1. CASE ChangePanics(torrent.pq, {i}, -1)
    BY <1>1, <1>3, <2>1 DEF PeerLoses
  <2>2. CASE ~ChangePanics(torrent.pq, {i}, -1)
    <3>1. Moves(torrent, UpdatePriority(torrent, {i}, -1))
      BY <2>2, UpdateMoves
    <3> QED
      BY <1>3, <2>2, <3>1 DEF PeerLoses, Call
  <2> QED
    BY <2>1, <2>2
<1>4. ASSUME NEW i \in Piece, Receive(i) PROVE Moves(torrent, torrent')
  BY <1>4, WriteMoves DEF Receive, Call
<1>5. CASE Ask
  BY <1>5, SelectMoves DEF Ask, Call
<1>6. CASE ClientPauses
  BY <1>6, OthersMove DEF ClientPauses, Call
<1>7. CASE Complete
  BY <1>7, OthersMove DEF Complete, Call
<1>8. CASE Tick
  BY <1>8, OthersMove DEF Tick, Call
<1>9. CASE UNCHANGED vars
  BY <1>1, <1>9 DEF vars
<1> QED
  BY <1>2, <1>3, <1>4, <1>5, <1>6, <1>7, <1>8, <1>9 DEF Next

\* The stages of the proof are those the refinement mapping names.
LEMMA StageMapped ==
  /\ Stage(torrent) = [i \in Piece |-> StageOf(i)]
  /\ Stage(torrent') = [i \in Piece |-> StageOf(i)]'
  BY DEF Stage, StageOf, InFlight

\* A new torrent has every piece queued, and all or none of them on disk.
LEMMA InitStage == Init => Lifecycle!Init
<1> SUFFICES ASSUME Init PROVE Lifecycle!Init
  OBVIOUS
<1>1. PICK downloaded \in BOOLEAN : torrent = NewTorrent(downloaded)
  BY DEF Init
<1>2. DOMAIN torrent.pq.queue = Piece /\ (torrent.have = {} \/ torrent.have = Piece)
  BY <1>1 DEF NewTorrent, NewQueue
<1> QED
  BY <1>2 DEF Lifecycle!Init, StageOf

\* Every step of the torrent is a step of PieceLifecycle, or none.
LEMMA StepMapped ==
  Inv /\ [Next]_vars => [Lifecycle!Next]_<<[i \in Piece |-> StageOf(i)], torrent.have>>
<1> DEFINE st == [i \in Piece |-> StageOf(i)]
           Goal == [Lifecycle!Next]_<<st, torrent.have>>
<1> SUFFICES ASSUME Inv, [Next]_vars PROVE Goal
  OBVIOUS
<1>1. Moves(torrent, torrent')
  BY NextMoves
<1>2. Stage(torrent) = st /\ Stage(torrent') = st'
  BY StageMapped
<1>3. CASE Stutters(torrent, torrent')
  BY <1>2, <1>3 DEF Stutters
<1>4. ASSUME NEW i \in Piece,
             \/ Asks(torrent, torrent', i)
             \/ Releases(torrent, torrent', i)
             \/ TakesUnasked(torrent, torrent', i)
      PROVE  Lifecycle!Next
  BY <1>2, <1>4 DEF Asks, Releases, TakesUnasked,
                    Lifecycle!Next, Lifecycle!Ask, Lifecycle!Release, Lifecycle!Unasked
<1> QED
  BY <1>1, <1>3, <1>4 DEF Moves

\* TorrentRuntime implements PieceLifecycle: whatever is called in whatever
\* order, a call moves at most one piece and that one stage on, and no piece
\* leaves the disk.
THEOREM Refinement == Spec => PieceByPiece
  BY InitStage, StepMapped, Invariant, PTL DEF Spec, PieceByPiece, Lifecycle!Spec
====
