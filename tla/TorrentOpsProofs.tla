---- MODULE TorrentOpsProofs ----
(* What the calls of one torrent do to its value, for any number of pieces,   *)
(* peers, requests and any timeout: the lemmas that the proofs about          *)
(* TorrentRuntime and about Swarm share.                                      *)
EXTENDS TorrentOps, SequenceTheorems, TLAPS

USE NPiecesAssumption, MaxPeersAssumption, RequestsLimitAssumption, TimeoutAssumption

----------------------------------------------------------------------------
(* Lemmas about the operations *)

Tiers(q) ==
    /\ q.zeros \subseteq DOMAIN q.queue
    /\ \A i \in q.zeros : q.queue[i] = MinPriority
    /\ \A i \in DOMAIN q.queue : q.queue[i] < 0

\* Every piece starts among the zeros.
LEMMA NewQueueTyped == IsPieceQueue(NewQueue) /\ Tiers(NewQueue)
  BY DEF IsPieceQueue, Tiers, NewQueue, MinPriority, Piece

\* A call of change_priority_by that does not panic keeps the two tiers apart and
\* neither adds a piece to the queue nor takes one out.
LEMMA ChangeTyped ==
  ASSUME NEW q, IsPieceQueue(q), Tiers(q), NEW S \in SUBSET Piece, NEW d \in {-1, 1},
         ~ChangePanics(q, S, d)
  PROVE  /\ IsPieceQueue(ChangePriorityBy(q, S, d))
         /\ Tiers(ChangePriorityBy(q, S, d))
         /\ DOMAIN ChangePriorityBy(q, S, d).queue = DOMAIN q.queue
<1> DEFINE toZero == {i \in S \cap DOMAIN q.queue : Changed(q, i, d) = 0}
           r == ChangePriorityBy(q, S, d)
<1>1. /\ r.zeros = (q.zeros \ S) \cup toZero
      /\ r.queue = [i \in DOMAIN q.queue |->
                        IF i \notin S THEN q.queue[i]
                        ELSE IF i \in toZero THEN MinPriority
                        ELSE Changed(q, i, d)]
      /\ r = [zeros |-> r.zeros, queue |-> r.queue]
  BY DEF ChangePriorityBy
<1>2. DOMAIN r.queue = DOMAIN q.queue
  BY <1>1
<1>3. MinPriority \in Int /\ MinPriority < 0
  BY DEF MinPriority
<1>4. \A i \in DOMAIN q.queue : Changed(q, i, d) \in Int
  BY DEF Changed, IsPieceQueue
<1>5. \A i \in S \cap DOMAIN q.queue : i \notin toZero => Changed(q, i, d) < 0
  <2> SUFFICES ASSUME NEW i \in S \cap DOMAIN q.queue, Changed(q, i, d) # 0
               PROVE  Changed(q, i, d) < 0
    OBVIOUS
  <2>1. CASE i \in q.zeros
    BY <2>1, <1>4 DEF ChangePanics
  <2>2. CASE i \notin q.zeros
    <3>1. q.queue[i] \in Int /\ q.queue[i] < 0
      BY DEF IsPieceQueue, Tiers
    <3>2. Changed(q, i, d) = q.queue[i] - d
      BY <2>2 DEF Changed
    <3> QED
      BY <3>1, <3>2
  <2> QED
    BY <2>1, <2>2
<1>6. IsPieceQueue(r)
  BY <1>1, <1>2, <1>3, <1>4 DEF IsPieceQueue
<1>7. Tiers(r)
  BY <1>1, <1>2, <1>3, <1>5 DEF Tiers, IsPieceQueue
<1> QED
  BY <1>2, <1>6, <1>7

\* pop takes a piece out of the queue, never one of the zeros.
LEMMA PoppedTyped ==
  ASSUME NEW q, IsPieceQueue(q), Tiers(q), NEW i \in Pops(q)
  PROVE  /\ i \in DOMAIN q.queue
         /\ IsPieceQueue(Popped(q, i)) /\ Tiers(Popped(q, i))
         /\ DOMAIN Popped(q, i).queue = DOMAIN q.queue \ {i}
<1> DEFINE r == Popped(q, i)
<1>1. i \in DOMAIN q.queue /\ i \notin q.zeros
  BY DEF Pops, Peeks, Tiers
<1>2. /\ r.zeros = q.zeros
      /\ r.queue = [j \in DOMAIN q.queue \ {i} |-> q.queue[j]]
      /\ r = [zeros |-> r.zeros, queue |-> r.queue]
  BY DEF Popped, Without, IsPieceQueue
<1>3. DOMAIN r.queue = DOMAIN q.queue \ {i}
  BY <1>2
<1> QED
  BY <1>1, <1>2, <1>3 DEF IsPieceQueue, Tiers

Once(reqs, queued) ==
    /\ \A n \in DOMAIN reqs : reqs[n].piece \notin queued
    /\ \A m, n \in DOMAIN reqs : reqs[m].piece = reqs[n].piece => m = n

Ordered(reqs) ==
    \A m, n \in DOMAIN reqs : m <= n => reqs[n].age <= reqs[m].age

\* d keeps some of the requests of reqs, in their order.
Part(d, reqs) ==
    /\ d \in Seq(Request)
    /\ Len(d) <= Len(reqs)
    /\ \E f \in [1..Len(d) -> 1..Len(reqs)] :
          /\ \A m, n \in 1..Len(d) : m < n => f[m] < f[n]
          /\ \A n \in 1..Len(d) : d[n] = reqs[f[n]]

\* The map of positions shows that d is a part of reqs.
LEMMA PartFrom ==
  ASSUME NEW reqs, NEW d \in Seq(Request), Len(d) <= Len(reqs),
         NEW f \in [1..Len(d) -> 1..Len(reqs)],
         \A m, n \in 1..Len(d) : m < n => f[m] < f[n],
         \A n \in 1..Len(d) : d[n] = reqs[f[n]]
  PROVE  Part(d, reqs)
  BY DEF Part

\* What is left of requests in order, each for a piece of its own, is the same.
LEMMA PartKeeps ==
  ASSUME NEW reqs \in Seq(Request), NEW d, Part(d, reqs),
         NEW queued, Once(reqs, queued), Ordered(reqs)
  PROVE  Once(d, queued) /\ Ordered(d)
<1>1. PICK f \in [1..Len(d) -> 1..Len(reqs)] :
          /\ \A m, n \in 1..Len(d) : m < n => f[m] < f[n]
          /\ \A n \in 1..Len(d) : d[n] = reqs[f[n]]
  BY DEF Part
<1>2. DOMAIN d = 1..Len(d) /\ Len(d) \in Nat /\ DOMAIN reqs = 1..Len(reqs) /\ Len(reqs) \in Nat
  BY DEF Part
<1>3. \A n \in 1..Len(d) : f[n] \in 1..Len(reqs)
  BY <1>1
<1>4. \A m, n \in 1..Len(d) : f[m] = f[n] => m = n
  <2> SUFFICES ASSUME NEW m \in 1..Len(d), NEW n \in 1..Len(d), f[m] = f[n]
               PROVE  m = n
    OBVIOUS
  <2>1. ~(f[m] < f[n]) /\ ~(f[n] < f[m])
    BY <1>2, <1>3
  <2>2. ~(m < n) /\ ~(n < m)
    BY <1>1, <2>1
  <2> QED
    BY <1>2, <2>2
<1>5. Once(d, queued)
  BY <1>1, <1>2, <1>3, <1>4 DEF Once
<1>6. Ordered(d)
  <2> SUFFICES ASSUME NEW m \in 1..Len(d), NEW n \in 1..Len(d), m <= n
               PROVE  d[n].age <= d[m].age
    BY <1>2 DEF Ordered
  <2>1. f[m] <= f[n]
    BY <1>1, <1>2, <1>3
  <2>2. reqs[f[n]].age <= reqs[f[m]].age
    BY <1>2, <1>3, <2>1 DEF Ordered
  <2> QED
    BY <1>1, <2>2
<1> QED
  BY <1>5, <1>6

\* Taking the oldest request away.
LEMMA TailIsPart ==
  ASSUME NEW reqs \in Seq(Request), reqs # <<>>
  PROVE  Part(Tail(reqs), reqs)
<1> DEFINE d == Tail(reqs)
           f == [n \in 1..Len(d) |-> n + 1]
<1>1. /\ d \in Seq(Request) /\ Len(d) = Len(reqs) - 1 /\ Len(reqs) \in Nat
      /\ \A n \in 1..Len(d) : d[n] = reqs[n + 1]
  BY HeadTailProperties
<1> HIDE DEF d
<1>2. f \in [1..Len(d) -> 1..Len(reqs)]
  BY <1>1
<1>3. (\A m, n \in 1..Len(d) : m < n => f[m] < f[n]) /\ (\A n \in 1..Len(d) : d[n] = reqs[f[n]])
  BY <1>1
<1> HIDE DEF f
<1>4. d \in Seq(Request) /\ Len(d) <= Len(reqs)
  BY <1>1
<1>5. Part(d, reqs)
  BY <1>2, <1>3, <1>4, PartFrom, Zenon
<1> QED
  BY <1>5 DEF d

\* remove_request takes one request away, or none.
LEMMA DroppedIsPart ==
  ASSUME NEW reqs \in Seq(Request), NEW i
  PROVE  Part(Dropped(reqs, i), reqs)
<1> DEFINE d == Dropped(reqs, i)
<1>1. CASE \E n \in DOMAIN reqs : reqs[n].piece = i
  <2> DEFINE k == CHOOSE m \in DOMAIN reqs : reqs[m].piece = i
             a == SubSeq(reqs, 1, k - 1)
             b == SubSeq(reqs, k + 1, Len(reqs))
             f == [n \in 1..Len(d) |-> IF n < k THEN n ELSE n + 1]
  <2>1. k \in 1..Len(reqs) /\ Len(reqs) \in Nat
    BY <1>1
  <2>2. d = a \o b
    BY <1>1 DEF Dropped
  <2> HIDE DEF k, d
  <2>3. /\ a \in Seq(Request) /\ Len(a) = k - 1
        /\ \A n \in 1..k - 1 : a[n] = reqs[n]
    <3>1. \A n \in 1..k - 1 : reqs[n] \in Request
      BY <2>1
    <3> QED
      BY <2>1, <3>1, SubSeqProperties
  <2>4. /\ b \in Seq(Request) /\ Len(b) = Len(reqs) - k
        /\ \A n \in 1..Len(reqs) - k : b[n] = reqs[n + k]
    <3>1. \A n \in k + 1..Len(reqs) : reqs[n] \in Request
      BY <2>1
    <3> QED
      BY <2>1, <3>1, SubSeqProperties
  <2> HIDE DEF a, b
  <2>5. /\ d \in Seq(Request) /\ Len(d) = Len(reqs) - 1
        /\ \A n \in 1..Len(d) : d[n] = IF n < k THEN reqs[n] ELSE reqs[n + 1]
    <3>1. /\ d \in Seq(Request) /\ Len(d) = Len(a) + Len(b)
          /\ \A n \in 1..Len(a) + Len(b) :
                d[n] = IF n <= Len(a) THEN a[n] ELSE b[n - Len(a)]
      BY <2>2, <2>3, <2>4, ConcatProperties
    <3>2. Len(d) = Len(reqs) - 1
      BY <2>1, <2>3, <2>4, <3>1
    <3>3. ASSUME NEW n \in 1..Len(d) PROVE d[n] = IF n < k THEN reqs[n] ELSE reqs[n + 1]
      <4>1. CASE n < k
        <5>1. n \in 1..k - 1 /\ n <= Len(a) /\ n \in 1..Len(a) + Len(b)
          BY <4>1, <2>1, <2>3, <2>4
        <5> QED
          BY <4>1, <5>1, <2>3, <3>1
      <4>2. CASE ~(n < k)
        <5>1. d[n] = b[n - (k - 1)] /\ n - (k - 1) \in 1..Len(reqs) - k
          BY <4>2, <2>1, <2>3, <2>4, <3>1, <3>2
        <5>2. (n - (k - 1)) + k = n + 1
          BY <2>1
        <5> QED
          BY <4>2, <5>1, <5>2, <2>4
      <4> QED
        BY <4>1, <4>2
    <3> QED
      BY <3>1, <3>2, <3>3
  <2>6. f \in [1..Len(d) -> 1..Len(reqs)]
    BY <2>1, <2>5
  <2>7. \A m, n \in 1..Len(d) : m < n => f[m] < f[n]
    BY <2>1, <2>5
  <2>8. \A n \in 1..Len(d) : d[n] = reqs[f[n]]
    BY <2>1, <2>5
  <2> HIDE DEF f
  <2>9. d \in Seq(Request) /\ Len(d) <= Len(reqs)
    BY <2>1, <2>5
  <2>10. Part(d, reqs)
    BY <2>6, <2>7, <2>8, <2>9, PartFrom, Zenon
  <2> QED
    BY <2>10 DEF d
<1>2. CASE ~\E n \in DOMAIN reqs : reqs[n].piece = i
  <2> DEFINE f == [n \in 1..Len(reqs) |-> n]
  <2>1. d = reqs
    BY <1>2 DEF Dropped
  <2>2. /\ f \in [1..Len(reqs) -> 1..Len(reqs)] /\ Len(reqs) \in Nat
        /\ \A m, n \in 1..Len(reqs) : m < n => f[m] < f[n]
        /\ \A n \in 1..Len(reqs) : reqs[n] = reqs[f[n]]
    OBVIOUS
  <2> HIDE DEF f
  <2>3. Part(reqs, reqs)
    BY <2>2, PartFrom
  <2> QED
    BY <2>1, <2>3
<1> QED
  BY <1>1, <1>2

----------------------------------------------------------------------------
(* The inductive invariant, of one torrent value, and the calls that keep it.  *)
(* OldestFirst needs the age of a request to be at least that of a new one,   *)
(* hence the type; RequestedOnce needs pop to take the piece out of the queue, *)
(* hence the tiers; the limit and CompleteMeansAll stand by themselves.       *)

Good(t) ==
    /\ IsTorrent(t)
    /\ Tiers(t.pq)
    /\ Once(t.outstanding, DOMAIN t.pq.queue)
    /\ Ordered(t.outstanding)
    /\ Len(t.outstanding) <= RequestsLimit
    /\ t.status = "Complete" => Finished(t)

\* The pieces in flight.
InFlight(reqs) == {reqs[n].piece : n \in DOMAIN reqs}

\* Two fields replaced at once.
SetQueue(t, p, o) == [t EXCEPT !.pq = p, !.outstanding = o]
SetHave(t, o, h) == [t EXCEPT !.outstanding = o, !.have = h]

\* A call that sets two fields of the runtime leaves the other two alone.
LEMMA TwoFields ==
  ASSUME NEW t, IsTorrent(t), NEW p, NEW o, NEW h
  PROVE  /\ SetQueue(t, p, o)
              = [pq |-> p, outstanding |-> o, have |-> t.have, status |-> t.status]
         /\ SetHave(t, o, h)
              = [pq |-> t.pq, outstanding |-> o, have |-> h, status |-> t.status]
<1> DEFINE u == [t EXCEPT !.pq = p]
           v == [t EXCEPT !.outstanding = o]
<1>1. u = [pq |-> p, outstanding |-> t.outstanding, have |-> t.have, status |-> t.status]
  BY DEF IsTorrent
<1>2. v = [pq |-> t.pq, outstanding |-> o, have |-> t.have, status |-> t.status]
  BY DEF IsTorrent
<1>3. /\ SetQueue(t, p, o) = [u EXCEPT !.outstanding = o]
      /\ SetHave(t, o, h) = [v EXCEPT !.have = h]
  BY DEF SetQueue, SetHave
<1> HIDE DEF u, v
<1>4. [u EXCEPT !.outstanding = o]
        = [pq |-> p, outstanding |-> o, have |-> t.have, status |-> t.status]
  BY <1>1
<1>5. [v EXCEPT !.have = h]
        = [pq |-> t.pq, outstanding |-> o, have |-> h, status |-> t.status]
  BY <1>2
<1> QED
  BY <1>3, <1>4, <1>5

\* A request keeps its piece as it grows older.
LEMMA OlderTyped ==
  ASSUME NEW r \in Request
  PROVE  /\ Older(r) \in Request /\ Older(r).piece = r.piece
         /\ Older(r).age = IF r.age < Timeout THEN r.age + 1 ELSE r.age
  BY DEF Older, Request

\* TorrentRuntime::new
LEMMA NewGood ==
  ASSUME NEW downloaded \in BOOLEAN
  PROVE  Good(NewTorrent(downloaded))
<1> DEFINE t == NewTorrent(downloaded)
<1>1. /\ t.pq = NewQueue /\ t.outstanding = <<>>
      /\ t.have = IF downloaded THEN Piece ELSE {}
      /\ t.status = IF downloaded THEN "Complete" ELSE "Running"
      /\ t = [pq |-> t.pq, outstanding |-> t.outstanding, have |-> t.have, status |-> t.status]
  BY DEF NewTorrent
<1> HIDE DEF t
<1>2. /\ t.outstanding \in Seq(Request) /\ Len(t.outstanding) = 0
      /\ DOMAIN t.outstanding = {}
  BY <1>1
<1>3. IsTorrent(t) /\ Tiers(t.pq)
  BY <1>1, <1>2, NewQueueTyped DEF IsTorrent, Status
<1>4. Once(t.outstanding, DOMAIN t.pq.queue) /\ Ordered(t.outstanding)
  BY <1>2 DEF Once, Ordered
<1>5. Good(t)
  BY <1>1, <1>2, <1>3, <1>4 DEF Good, Finished
<1> QED
  BY <1>5 DEF t

\* update_priority, unless it panics.
LEMMA UpdateGood ==
  ASSUME NEW t, Good(t), NEW S \in SUBSET Piece, NEW d \in {-1, 1},
         ~ChangePanics(t.pq, S, d)
  PROVE  Good(UpdatePriority(t, S, d))
<1> DEFINE r == UpdatePriority(t, S, d)
           p == ChangePriorityBy(t.pq, S, d)
<1>1. r = [pq |-> p, outstanding |-> t.outstanding, have |-> t.have, status |-> t.status]
  BY DEF UpdatePriority, Good, IsTorrent
<1>2. IsPieceQueue(p) /\ Tiers(p) /\ DOMAIN p.queue = DOMAIN t.pq.queue
  BY ChangeTyped DEF Good, IsTorrent
<1> HIDE DEF p, r
<1>3. Good(r)
  BY <1>1, <1>2 DEF Good, IsTorrent, Finished
<1> QED
  BY <1>3 DEF r

\* select_piece, called below the limit.
LEMMA SelectGood ==
  ASSUME NEW t, Good(t), MayRequest(t), NEW s \in SelectPiece(t)
  PROVE  Good(s.next)
<1> DEFINE reqs == t.outstanding
<1>1. reqs \in Seq(Request) /\ Len(reqs) \in Nat /\ DOMAIN reqs = 1..Len(reqs)
  BY DEF Good, IsTorrent
<1>2. CASE Expired(t)
  <2>1. s.next = [pq |-> t.pq, outstanding |-> Tail(reqs), have |-> t.have,
                  status |-> t.status]
    BY <1>2 DEF SelectPiece, Good, IsTorrent
  <2>2. reqs # <<>>
    BY <1>2 DEF Expired
  <2>3. Part(Tail(reqs), reqs)
    BY <1>1, <2>2, TailIsPart
  <2>4. Once(Tail(reqs), DOMAIN t.pq.queue) /\ Ordered(Tail(reqs))
    BY <1>1, <2>3, PartKeeps DEF Good
  <2>5. Tail(reqs) \in Seq(Request) /\ Len(Tail(reqs)) <= RequestsLimit
    BY <1>1, <2>3 DEF Part, Good
  <2> QED
    BY <2>1, <2>4, <2>5 DEF Good, IsTorrent, Finished
<1>3. CASE ~Expired(t)
  <2>1. PICK i \in Pops(t.pq) :
           s = [piece |-> i,
                next  |-> [t EXCEPT !.pq = Popped(@, i),
                                    !.outstanding = Append(@, [piece |-> i, age |-> 0])]]
    BY <1>3, Zenon DEF SelectPiece
  <2> DEFINE p == Popped(t.pq, i)
             e == [piece |-> i, age |-> 0]
             next == Append(reqs, e)
  <2>2. s.next = [pq |-> p, outstanding |-> next, have |-> t.have, status |-> t.status]
    <3>1. s.next = SetQueue(t, p, next)
      BY <2>1, Zenon DEF SetQueue
    <3>2. IsTorrent(t)
      BY DEF Good
    <3> HIDE DEF p, next
    <3> QED
      BY <3>1, <3>2, TwoFields
  <2>3. /\ i \in DOMAIN t.pq.queue /\ IsPieceQueue(p) /\ Tiers(p)
        /\ DOMAIN p.queue = DOMAIN t.pq.queue \ {i}
    BY PoppedTyped DEF Good, IsTorrent
  <2>4. e \in Request /\ e.piece = i /\ e.age = 0
    BY <2>3 DEF Good, IsTorrent, IsPieceQueue, Request
  <2> HIDE DEF p, e
  <2>5. /\ next \in Seq(Request) /\ Len(next) = Len(reqs) + 1
        /\ \A n \in 1..Len(reqs) : next[n] = reqs[n]
        /\ next[Len(reqs) + 1] = e
    BY <1>1, <2>4, AppendProperties
  <2>6. \A n \in 1..Len(reqs) : reqs[n] \in Request
    BY <1>1
  <2>7. DOMAIN next = 1..Len(reqs) + 1
    BY <1>1, <2>5
  <2> HIDE DEF next
  <2>8. Once(next, DOMAIN p.queue)
    <3>1. Once(reqs, DOMAIN t.pq.queue)
      BY DEF Good
    <3>2. \A n \in 1..Len(reqs) : next[n].piece # i /\ next[n].piece \notin DOMAIN p.queue
      BY <1>1, <2>3, <2>5, <3>1 DEF Once
    <3>3. next[Len(reqs) + 1].piece = i /\ i \notin DOMAIN p.queue
      BY <2>3, <2>4, <2>5
    <3>4. \A m, n \in 1..Len(reqs) : next[m].piece = next[n].piece => m = n
      BY <1>1, <2>5, <3>1 DEF Once
    <3>5. \A n \in 1..Len(reqs) + 1 : n \in 1..Len(reqs) \/ n = Len(reqs) + 1
      BY <1>1
    <3> QED
      BY <2>7, <3>2, <3>3, <3>4, <3>5 DEF Once
  <2>9. Ordered(next)
    <3> SUFFICES ASSUME NEW m \in 1..Len(reqs) + 1, NEW n \in 1..Len(reqs) + 1, m <= n
                 PROVE  next[n].age <= next[m].age
      BY <2>7 DEF Ordered
    <3>1. CASE n \in 1..Len(reqs)
      <4>1. m \in 1..Len(reqs)
        BY <1>1, <3>1
      <4>2. reqs[n].age <= reqs[m].age
        BY <1>1, <3>1, <4>1 DEF Ordered, Good
      <4> QED
        BY <2>5, <3>1, <4>1, <4>2
    <3>2. CASE n = Len(reqs) + 1
      <4>1. next[n].age = 0
        BY <3>2, <2>4, <2>5
      <4>2. next[m] \in Request
        BY <1>1, <2>4, <2>5, <2>6
      <4>3. next[m].age \in 0..Timeout
        BY <4>2 DEF Request
      <4> QED
        BY <4>1, <4>3
    <3> QED
      BY <1>1, <3>1, <3>2
  <2>10. Len(next) <= RequestsLimit
    BY <1>1, <2>5 DEF MayRequest
  <2>11. t.have \subseteq Piece /\ t.status \in Status /\ (t.status = "Complete" => Finished(t))
    BY DEF Good, IsTorrent
  <2>12. /\ s.next.pq = p /\ s.next.outstanding = next
         /\ s.next.have = t.have /\ s.next.status = t.status
    BY <2>2
  <2>13. s.next = [pq |-> s.next.pq, outstanding |-> s.next.outstanding,
                   have |-> s.next.have, status |-> s.next.status]
    BY <2>2, <2>12
  <2>14. IsTorrent(s.next)
    BY <2>3, <2>5, <2>11, <2>12, <2>13 DEF IsTorrent
  <2> QED
    BY <2>3, <2>8, <2>9, <2>10, <2>11, <2>12, <2>14 DEF Good, Finished
<1> QED
  BY <1>2, <1>3

\* write_block, whatever becomes of the block.
LEMMA WriteGood ==
  ASSUME NEW t, Good(t), NEW i \in Piece, NEW whole \in BOOLEAN, NEW valid \in BOOLEAN
  PROVE  Good(WriteBlock(t, i, whole, valid))
<1> DEFINE reqs == t.outstanding
           d == IF whole THEN Dropped(reqs, i) ELSE reqs
           h == IF whole /\ valid THEN t.have \cup {i} ELSE t.have
           r == WriteBlock(t, i, whole, valid)
<1>1. r = [pq |-> t.pq, outstanding |-> d, have |-> h, status |-> t.status]
  <2>1. r = SetHave(t, d, h)
    BY DEF WriteBlock, SetHave
  <2> HIDE DEF r, d, h
  <2> QED
    BY <2>1, TwoFields DEF Good
<1>2. Part(Dropped(reqs, i), reqs)
  BY DroppedIsPart DEF Good, IsTorrent
<1>3. Once(d, DOMAIN t.pq.queue) /\ Ordered(d)
  BY <1>2, PartKeeps DEF Good, IsTorrent
<1>4. d \in Seq(Request) /\ Len(d) <= RequestsLimit
  BY <1>2 DEF Part, Good, IsTorrent
<1>5. h \subseteq Piece /\ t.have \subseteq h
  BY DEF Good, IsTorrent
<1> HIDE DEF d, h, r
<1>6. Good(r)
  BY <1>1, <1>3, <1>4, <1>5 DEF Good, IsTorrent, Finished
<1> QED
  BY <1>6 DEF r

\* pause, with either argument.
LEMMA PauseGood ==
  ASSUME NEW t, Good(t), NEW pause \in BOOLEAN
  PROVE  Good(Pause(t, pause))
<1> DEFINE s == IF pause THEN "Paused"
                ELSE IF t.status # "Paused" THEN t.status
                ELSE IF Finished(t) THEN "Complete" ELSE "Running"
           r == Pause(t, pause)
<1>1. r = [pq |-> t.pq, outstanding |-> t.outstanding, have |-> t.have, status |-> s]
  BY DEF Pause, Good, IsTorrent
<1>2. s \in Status /\ (s = "Complete" => Finished(t))
  BY DEF Good, IsTorrent, Status
<1> HIDE DEF s, r
<1>3. Good(r)
  BY <1>1, <1>2 DEF Good, IsTorrent, Finished
<1> QED
  BY <1>3 DEF r

\* set_complete, granted or refused.
LEMMA CompleteGood ==
  ASSUME NEW t, Good(t)
  PROVE  Good(SetComplete(t))
<1>1. CASE MayComplete(t)
  <2>1. SetComplete(t) = [pq |-> t.pq, outstanding |-> t.outstanding, have |-> t.have,
                          status |-> "Complete"]
    BY <1>1 DEF SetComplete, Good, IsTorrent
  <2> QED
    BY <1>1, <2>1 DEF Good, IsTorrent, Finished, MayComplete, Status
<1>2. CASE ~MayComplete(t)
  BY <1>2 DEF SetComplete
<1> QED
  BY <1>1, <1>2

\* A tick of the clock.
LEMMA AgedGood ==
  ASSUME NEW t, Good(t)
  PROVE  Good(Aged(t))
<1> DEFINE reqs == t.outstanding
           a == [n \in DOMAIN reqs |-> Older(reqs[n])]
<1>1. Aged(t) = [pq |-> t.pq, outstanding |-> a, have |-> t.have, status |-> t.status]
  BY DEF Aged, Good, IsTorrent
<1>2. reqs \in Seq(Request) /\ Len(reqs) \in Nat /\ DOMAIN reqs = 1..Len(reqs)
  BY DEF Good, IsTorrent
<1>3. \A n \in 1..Len(reqs) : reqs[n] \in Request
  BY <1>2
<1>4. \A n \in 1..Len(reqs) :
          /\ a[n] \in Request /\ a[n].piece = reqs[n].piece
          /\ a[n].age = IF reqs[n].age < Timeout THEN reqs[n].age + 1 ELSE reqs[n].age
  BY <1>2, <1>3, OlderTyped
<1>5. a \in [1..Len(reqs) -> Request]
  BY <1>2, <1>4
<1>6. a \in Seq(Request) /\ Len(a) = Len(reqs) /\ DOMAIN a = 1..Len(reqs)
  BY <1>2, <1>5
<1> HIDE DEF a
<1>7. Once(a, DOMAIN t.pq.queue)
  BY <1>2, <1>4, <1>6 DEF Once, Good
<1>8. Ordered(a)
  <2> SUFFICES ASSUME NEW m \in 1..Len(reqs), NEW n \in 1..Len(reqs), m <= n
               PROVE  a[n].age <= a[m].age
    BY <1>6 DEF Ordered
  <2>1. reqs[n].age <= reqs[m].age
    BY <1>2 DEF Ordered, Good
  <2>2. reqs[m].age \in 0..Timeout /\ reqs[n].age \in 0..Timeout
    BY <1>3 DEF Request
  <2>3. /\ a[m].age = IF reqs[m].age < Timeout THEN reqs[m].age + 1 ELSE reqs[m].age
        /\ a[n].age = IF reqs[n].age < Timeout THEN reqs[n].age + 1 ELSE reqs[n].age
    BY <1>4
  <2>4. CASE reqs[m].age < Timeout
    BY <2>1, <2>2, <2>3, <2>4
  <2>5. CASE ~(reqs[m].age < Timeout)
    BY <2>1, <2>2, <2>3, <2>5
  <2> QED
    BY <2>4, <2>5
<1> QED
  BY <1>1, <1>6, <1>7, <1>8 DEF Good, IsTorrent, Finished

\* A gain never panics: the count of a piece only moves away from zero.
LEMMA GainsNeverPanic ==
  ASSUME NEW q, NEW S, Tiers(q)
  PROVE  ~ChangePanics(q, S, 1)
  BY DEF ChangePanics, Changed

----------------------------------------------------------------------------
(* What the calls do to the pieces on disk and to the status.                 *)

\* A torrent with every piece on disk that does not run.
Settled(t) == Finished(t) /\ t.status # "Running"

\* update_priority touches neither.
LEMMA UpdateStatus ==
  ASSUME NEW t, IsTorrent(t), NEW S, NEW d
  PROVE  UpdatePriority(t, S, d).have = t.have /\ UpdatePriority(t, S, d).status = t.status
  BY DEF UpdatePriority, IsTorrent

\* Neither does select_piece.
LEMMA SelectStatus ==
  ASSUME NEW t, IsTorrent(t), NEW s \in SelectPiece(t)
  PROVE  s.next.have = t.have /\ s.next.status = t.status
<1>1. CASE Expired(t)
  <2>1. s.next = [t EXCEPT !.outstanding = Tail(@)]
    BY <1>1 DEF SelectPiece
  <2> QED
    BY <2>1 DEF IsTorrent
<1>2. CASE ~Expired(t)
  <2>1. PICK i \in Pops(t.pq) :
           s = [piece |-> i,
                next  |-> [t EXCEPT !.pq = Popped(@, i),
                                    !.outstanding = Append(@, [piece |-> i, age |-> 0])]]
    BY <1>2, Zenon DEF SelectPiece
  <2> DEFINE p == Popped(t.pq, i)
             o == Append(t.outstanding, [piece |-> i, age |-> 0])
  <2>2. s.next = SetQueue(t, p, o)
    BY <2>1, Zenon DEF SetQueue
  <2> HIDE DEF p, o
  <2>3. SetQueue(t, p, o)
          = [pq |-> p, outstanding |-> o, have |-> t.have, status |-> t.status]
    BY TwoFields
  <2> QED
    BY <2>2, <2>3
<1> QED
  BY <1>1, <1>2

\* write_block may set a bit of the pieces on disk.
LEMMA WriteStatus ==
  ASSUME NEW t, IsTorrent(t), NEW i \in Piece, NEW whole, NEW valid
  PROVE  LET r == WriteBlock(t, i, whole, valid)
         IN  t.have \subseteq r.have /\ r.have \subseteq Piece /\ r.status = t.status
  BY DEF WriteBlock, IsTorrent

\* pause and resume never make a finished torrent run, ...
LEMMA PauseStatus ==
  ASSUME NEW t, IsTorrent(t), NEW pause
  PROVE  /\ Pause(t, pause).have = t.have
         /\ Settled(t) => Settled(Pause(t, pause))
  BY DEF Pause, IsTorrent, Settled, Finished

\* ... set_complete settles the torrent it completes, ...
LEMMA CompleteStatus ==
  ASSUME NEW t, IsTorrent(t)
  PROVE  /\ SetComplete(t).have = t.have
         /\ Settled(t) => Settled(SetComplete(t)) /\ ~MayComplete(t)
         /\ MayComplete(t) => Settled(SetComplete(t))
  BY DEF SetComplete, MayComplete, IsTorrent, Settled, Finished

\* ... and a tick of the clock touches neither.
LEMMA AgedStatus ==
  ASSUME NEW t, IsTorrent(t)
  PROVE  Aged(t).have = t.have /\ Aged(t).status = t.status
  BY DEF Aged, IsTorrent
====
