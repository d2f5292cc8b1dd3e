---- MODULE SwarmViewProofs ----
(* Swarm's controller, with the messages under way, knows of every peer what  *)
(* its connection knows, asks a peer only for pieces it announced and keeps   *)
(* its upload slots; every torrent's runtime stays in order and is reported   *)
(* complete at most once: for any torrents, peers, connections and bounds.    *)
EXTENDS SwarmProofs, TorrentOpsProofs, WellFoundedInduction

----------------------------------------------------------------------------
(* Counting the messages of a queue *)

Even(s, type) == Cardinality(Positions(s, type)) % 2 = 0

\* One message more at the end of a queue.
LEMMA PositionsAppend ==
  ASSUME NEW S, NEW s \in Seq(S), NEW m \in S, NEW type
  PROVE  /\ m.type = type => Positions(Append(s, m), type) = Positions(s, type) \cup {Len(s) + 1}
         /\ m.type # type => Positions(Append(s, m), type) = Positions(s, type)
         /\ Len(s) + 1 \notin Positions(s, type)
<1> DEFINE r == Append(s, m)
<1>1. /\ DOMAIN r = 1..Len(s) + 1 /\ DOMAIN s = 1..Len(s) /\ Len(s) \in Nat
      /\ \A n \in 1..Len(s) : r[n] = s[n]
      /\ r[Len(s) + 1] = m
  BY AppendProperties, LenProperties
<1> HIDE DEF r
<1> QED
  BY <1>1 DEF Positions, r

\* The positions of a queue are finitely many.
LEMMA PositionsFinite ==
  ASSUME NEW S, NEW s \in Seq(S), NEW type
  PROVE  IsFiniteSet(Positions(s, type)) /\ Cardinality(Positions(s, type)) \in Nat
<1>1. DOMAIN s = 1..Len(s) /\ Len(s) \in Int /\ 1 \in Int
  BY LenProperties
<1>2. IsFiniteSet(1..Len(s))
  BY <1>1, FS_Interval
<1>3. Positions(s, type) \in SUBSET (1..Len(s))
  BY <1>1 DEF Positions
<1> QED
  BY <1>2, <1>3, FS_Subset, FS_CardinalityType

\* ... changes the parity of its own kind alone.
LEMMA EvenAppend ==
  ASSUME NEW S, NEW s \in Seq(S), NEW m \in S, NEW type
  PROVE  Even(Append(s, m), type) <=> (IF m.type = type THEN ~Even(s, type) ELSE Even(s, type))
<1>0. IsFiniteSet(Positions(s, type)) /\ Cardinality(Positions(s, type)) \in Nat
  BY PositionsFinite
<1> DEFINE A == Positions(Append(s, m), type)
           B == Positions(s, type) \cup {Len(s) + 1}
<1>a. /\ m.type = type => A = B
      /\ m.type # type => A = Positions(s, type)
      /\ Len(s) + 1 \notin Positions(s, type)
  BY PositionsAppend
<1>1. CASE m.type = type
  <2>1. A = B
    <3> HIDE DEF A, B
    <3> QED
      BY <1>a, <1>1
  <2>2. Cardinality(Positions(Append(s, m), type)) = Cardinality(Positions(s, type)) + 1
    BY <1>0, <1>a, <2>1, FS_AddElement
  <2> DEFINE c == Cardinality(Positions(s, type))
  <2>3. (c + 1) % 2 = 0 <=> ~(c % 2 = 0)
    BY <1>0
  <2> QED
    BY <1>0, <1>1, <2>2, <2>3 DEF Even
<1>2. CASE m.type # type
  <2>1. Positions(Append(s, m), type) = Positions(s, type)
    BY <1>2, <1>a
  <2> QED
    BY <1>2, <2>1 DEF Even
<1> QED
  BY <1>1, <1>2

\* The messages behind the first one, counted in the whole queue.
LEMMA PositionsTail ==
  ASSUME NEW S, NEW s \in Seq(S), s # <<>>, NEW type
  PROVE  Cardinality(Positions(s, type))
            = Cardinality(Positions(Tail(s), type)) + (IF Head(s).type = type THEN 1 ELSE 0)
<1> DEFINE A == Positions(Tail(s), type)
           B == Positions(s, type)
           f == [n \in A |-> n + 1]
<1>1. /\ DOMAIN s = 1..Len(s) /\ Len(s) \in Nat \ {0} /\ Head(s) = s[1]
      /\ DOMAIN Tail(s) = 1..Len(s) - 1
      /\ \A n \in 1..Len(s) - 1 : Tail(s)[n] = s[n + 1]
  BY HeadTailProperties, LenProperties
<1>2. IsFiniteSet(A) /\ Cardinality(A) \in Nat /\ IsFiniteSet(B) /\ Cardinality(B) \in Nat
  BY HeadTailProperties, PositionsFinite
<1>3. A \subseteq Nat /\ B \subseteq Nat
  BY <1>1 DEF Positions
<1>4. \A n \in A : n + 1 \in B \ {1}
  BY <1>1 DEF Positions
<1>5. \A n \in B \ {1} : n - 1 \in A
  <2> SUFFICES ASSUME NEW n \in B \ {1} PROVE n - 1 \in A
    OBVIOUS
  <2>1. n \in 1..Len(s) /\ n # 1 /\ s[n].type = type
    BY <1>1 DEF Positions
  <2>2. n - 1 \in 1..Len(s) - 1 /\ (n - 1) + 1 = n
    BY <1>1, <2>1
  <2>3. Tail(s)[n - 1] = s[n]
    BY <1>1, <2>2
  <2> QED
    BY <1>1, <2>1, <2>2, <2>3 DEF Positions
<1>6. 1 \in B <=> Head(s).type = type
  BY <1>1 DEF Positions
<1> HIDE DEF A, B
<1>7. f \in Bijection(A, B \ {1})
  <2>1. f \in [A -> B \ {1}]
    BY <1>4
  <2>2. \A m, n \in A : f[m] = f[n] => m = n
    BY <1>3
  <2>3. \A n \in B \ {1} : \E m \in A : f[m] = n
    <3> SUFFICES ASSUME NEW n \in B \ {1} PROVE f[n - 1] = n /\ n - 1 \in A
      OBVIOUS
    <3> QED
      BY <1>3, <1>5
  <2> HIDE DEF f
  <2> QED
    BY <2>1, <2>2, <2>3 DEF Bijection, Injection, Surjection, IsInjective
<1> HIDE DEF f
<1>8. Cardinality(B \ {1}) = Cardinality(A)
  BY <1>2, <1>7, FS_Bijection DEF ExistsBijection
<1>9. Cardinality(B \ {1}) = IF 1 \in B THEN Cardinality(B) - 1 ELSE Cardinality(B)
  BY <1>2, FS_RemoveElement
<1> QED
  BY <1>2, <1>6, <1>8, <1>9 DEF A, B

\* Taking the first message changes the parity of its own kind alone.
LEMMA EvenTail ==
  ASSUME NEW S, NEW s \in Seq(S), s # <<>>, NEW type
  PROVE  Even(Tail(s), type) <=> (IF Head(s).type = type THEN ~Even(s, type) ELSE Even(s, type))
<1>1. Cardinality(Positions(Tail(s), type)) \in Nat
  BY HeadTailProperties, PositionsFinite
<1>2. CASE Head(s).type = type
  BY <1>1, <1>2, PositionsTail DEF Even
<1>3. CASE Head(s).type # type
  BY <1>1, <1>3, PositionsTail DEF Even
<1> QED
  BY <1>2, <1>3

\* An empty queue has an even number of everything.
LEMMA EvenEmpty ==
  ASSUME NEW type
  PROVE  Even(<<>>, type)
<1>1. Positions(<<>>, type) = {}
  BY DEF Positions
<1> QED
  BY <1>1, FS_EmptySet DEF Even

----------------------------------------------------------------------------
(* What a queue of messages says of a peer *)

\* The pieces it announces.
Told(s) ==
    {s[n].piece : n \in Positions(s, "Have")} \cup UNION {s[n].bits : n \in Positions(s, "Bitfield")}

\* The pieces one message announces.
Says1(m) == IF m.type = "Have" THEN {m.piece} ELSE IF m.type = "Bitfield" THEN m.bits ELSE {}

\* A piece is told of in one of the messages.
LEMMA ToldBy ==
  ASSUME NEW s, NEW i
  PROVE  i \in Told(s) <=> \E n \in DOMAIN s : i \in Says1(s[n])
BY DEF Told, Says1, Positions

\* A message more tells what it says, ...
LEMMA ToldAppend ==
  ASSUME NEW S, NEW s \in Seq(S), NEW m \in S
  PROVE  Told(Append(s, m)) = Told(s) \cup Says1(m)
<1> DEFINE r == Append(s, m)
<1>1. /\ DOMAIN r = 1..Len(s) + 1 /\ DOMAIN s = 1..Len(s) /\ Len(s) \in Nat
      /\ \A n \in 1..Len(s) : r[n] = s[n]
      /\ r[Len(s) + 1] = m
  BY AppendProperties, LenProperties
<1> HIDE DEF r
<1>2. \A n \in 1..Len(s) + 1 : n \in 1..Len(s) \/ n = Len(s) + 1
  BY <1>1
<1>3. \A i : (\E n \in DOMAIN r : i \in Says1(r[n])) <=> (\E n \in DOMAIN s : i \in Says1(s[n])) \/ i \in Says1(m)
  BY <1>1, <1>2
<1>4. \A i : i \in Told(r) <=> i \in Told(s) \/ i \in Says1(m)
  BY <1>3, ToldBy
<1> QED
  BY <1>4 DEF r

\* ... the first one taken leaves what the others say, ...
LEMMA ToldTail ==
  ASSUME NEW S, NEW s \in Seq(S), s # <<>>
  PROVE  Told(s) = Says1(Head(s)) \cup Told(Tail(s))
<1> DEFINE r == Tail(s)
           m == Head(s)
<1>1. /\ DOMAIN s = 1..Len(s) /\ Len(s) \in Nat \ {0} /\ m = s[1]
      /\ DOMAIN r = 1..Len(s) - 1
      /\ \A n \in 1..Len(s) - 1 : r[n] = s[n + 1]
  BY HeadTailProperties, LenProperties
<1> HIDE DEF r, m
<1>2. ASSUME NEW i, NEW n \in DOMAIN s, i \in Says1(s[n])
      PROVE  i \in Says1(m) \/ \E k \in DOMAIN r : i \in Says1(r[k])
  <2>1. CASE n = 1
    BY <1>1, <1>2, <2>1
  <2>2. CASE n # 1
    <3>1. n - 1 \in 1..Len(s) - 1 /\ (n - 1) + 1 = n
      BY <1>1, <2>2
    <3>2. r[n - 1] = s[n]
      BY <1>1, <3>1
    <3> QED
      BY <1>1, <1>2, <3>1, <3>2
  <2> QED
    BY <2>1, <2>2
<1>3. ASSUME NEW i, NEW k \in DOMAIN r, i \in Says1(r[k])
      PROVE  \E n \in DOMAIN s : i \in Says1(s[n])
  <2>1. k + 1 \in DOMAIN s /\ r[k] = s[k + 1]
    BY <1>1
  <2> QED
    BY <1>3, <2>1
<1>4. 1 \in DOMAIN s
  BY <1>1
<1>5. \A i : i \in Told(s) <=> i \in Says1(m) \/ i \in Told(r)
  BY <1>1, <1>2, <1>3, <1>4, ToldBy
<1> QED
  BY <1>5 DEF r, m

\* ... and an empty queue says nothing.
LEMMA ToldEmpty == Told(<<>>) = {}
BY DEF Told, Positions

\* A peer as the controller knows it, the messages s once processed, is the peer c
\* the connection knows.
Follows(s, c, choking, interested, bits) ==
    /\ (choking = c.peerChoking) <=> Even(s, "ChokingChange")
    /\ (interested = c.peerInterested) <=> Even(s, "InterestedChange")
    /\ c.bits = bits \cup Told(s)

\* The flag after a message of its kind, or another.
Flipped(flag, m, type) == IF m.type = type THEN ~flag ELSE flag

\* The peer d is the peer c once it has sent m.
Sent(c, m, d) ==
    /\ d.peerChoking = Flipped(c.peerChoking, m, "ChokingChange")
    /\ d.peerInterested = Flipped(c.peerInterested, m, "InterestedChange")
    /\ d.bits = c.bits \cup Says1(m)

\* A peer that says what changes in it is followed, ...
LEMMA FollowsSent ==
  ASSUME NEW s \in Seq(PeerUpdate), NEW m \in PeerUpdate, NEW c \in ConnRecord, NEW d \in ConnRecord,
         NEW choking \in BOOLEAN, NEW interested \in BOOLEAN, NEW bits,
         Sent(c, m, d), Follows(s, c, choking, interested, bits)
  PROVE  Follows(Append(s, m), d, choking, interested, bits)
<1>1. /\ c.peerChoking \in BOOLEAN /\ d.peerChoking \in BOOLEAN
      /\ c.peerInterested \in BOOLEAN /\ d.peerInterested \in BOOLEAN
  BY DEF ConnRecord
<1>2. /\ (choking = c.peerChoking) <=> Even(s, "ChokingChange")
      /\ (interested = c.peerInterested) <=> Even(s, "InterestedChange")
      /\ d.peerChoking = Flipped(c.peerChoking, m, "ChokingChange")
      /\ d.peerInterested = Flipped(c.peerInterested, m, "InterestedChange")
  BY DEF Follows, Sent
<1>3. /\ Even(Append(s, m), "ChokingChange")
           <=> (IF m.type = "ChokingChange" THEN ~Even(s, "ChokingChange") ELSE Even(s, "ChokingChange"))
      /\ Even(Append(s, m), "InterestedChange")
           <=> (IF m.type = "InterestedChange" THEN ~Even(s, "InterestedChange")
                ELSE Even(s, "InterestedChange"))
  BY EvenAppend
<1>4. (choking = d.peerChoking) <=> Even(Append(s, m), "ChokingChange")
  BY <1>1, <1>2, <1>3 DEF Flipped
<1>5. (interested = d.peerInterested) <=> Even(Append(s, m), "InterestedChange")
  BY <1>1, <1>2, <1>3 DEF Flipped
<1>6. d.bits = bits \cup Told(Append(s, m))
  <2>1. Told(Append(s, m)) = Told(s) \cup Says1(m)
    BY ToldAppend
  <2> QED
    BY <2>1 DEF Follows, Sent
<1> QED
  BY <1>4, <1>5, <1>6 DEF Follows

\* ... the controller follows it as it processes a message, ...
LEMMA FollowsProcessed ==
  ASSUME NEW s \in Seq(PeerUpdate), s # <<>>, NEW c \in ConnRecord,
         NEW choking \in BOOLEAN, NEW interested \in BOOLEAN, NEW bits,
         Follows(s, c, choking, interested, bits)
  PROVE  Follows(Tail(s), c, Flipped(choking, Head(s), "ChokingChange"),
                 Flipped(interested, Head(s), "InterestedChange"), bits \cup Says1(Head(s)))
<1> DEFINE m == Head(s)
<1>1. c.peerChoking \in BOOLEAN /\ c.peerInterested \in BOOLEAN
  BY DEF ConnRecord
<1>2. /\ (choking = c.peerChoking) <=> Even(s, "ChokingChange")
      /\ (interested = c.peerInterested) <=> Even(s, "InterestedChange")
  BY DEF Follows
<1>3. /\ Even(Tail(s), "ChokingChange")
           <=> (IF m.type = "ChokingChange" THEN ~Even(s, "ChokingChange") ELSE Even(s, "ChokingChange"))
      /\ Even(Tail(s), "InterestedChange")
           <=> (IF m.type = "InterestedChange" THEN ~Even(s, "InterestedChange")
                ELSE Even(s, "InterestedChange"))
  BY EvenTail
<1> HIDE DEF m
<1>4. (Flipped(choking, m, "ChokingChange") = c.peerChoking) <=> Even(Tail(s), "ChokingChange")
  BY <1>1, <1>2, <1>3 DEF Flipped
<1>5. (Flipped(interested, m, "InterestedChange") = c.peerInterested)
          <=> Even(Tail(s), "InterestedChange")
  BY <1>1, <1>2, <1>3 DEF Flipped
<1>6. c.bits = (bits \cup Says1(m)) \cup Told(Tail(s))
  <2>1. Told(s) = Says1(m) \cup Told(Tail(s))
    BY ToldTail DEF m
  <2> QED
    BY <2>1 DEF Follows
<1> QED
  BY <1>4, <1>5, <1>6 DEF Follows, m

\* ... and a new peer is as the controller first takes it to be.
LEMMA FollowsNew ==
  ASSUME NEW pc, NEW id, NEW h
  PROVE  Follows(<<>>, NewConn(pc, id, h), TRUE, FALSE, {})
<1>1. /\ NewConn(pc, id, h).peerChoking = TRUE /\ NewConn(pc, id, h).peerInterested = FALSE
      /\ NewConn(pc, id, h).bits = {}
  BY DEF NewConn
<1> QED
  BY <1>1, EvenEmpty, ToldEmpty DEF Follows

----------------------------------------------------------------------------
(* What a step of a connection does: nobody else's channels or peer change,   *)
(* and of its own, one of these.                                              *)

\* Its thread ends.
Ends(k) == conn'[k].pc = "ended" /\ down'[k] = <<>>

\* It tells the controller what it has just learned.
Tells(k) ==
    /\ conn'[k].pc = "running" /\ conn'[k].amChoking = conn[k].amChoking
    /\ \E m \in PeerUpdate : Sent(conn[k], m, conn'[k]) /\ SendUp(k, m)
    /\ down'[k] = down[k]

\* It takes a message of the controller.
Obeys(k) ==
    /\ conn'[k].pc = "running"
    /\ conn'[k].peerChoking = conn[k].peerChoking /\ conn'[k].bits = conn[k].bits
    /\ conn'[k].peerInterested = conn[k].peerInterested
    /\ up'[k] = up[k] /\ down[k] # <<>> /\ down'[k] = Tail(down[k])
    /\ conn'[k].amChoking = IF Head(down[k]).type \in {"Choke", "Unchoke"}
                            THEN Head(down[k]).type = "Choke" ELSE conn[k].amChoking

\* It goes on, with nothing to tell.
GoesOn(k) ==
    /\ conn'[k].pc = "running"
    /\ conn'[k].peerChoking = conn[k].peerChoking /\ conn'[k].bits = conn[k].bits
    /\ conn'[k].peerInterested = conn[k].peerInterested
    /\ conn'[k].amChoking = conn[k].amChoking
    /\ up'[k] = up[k] /\ down'[k] = down[k]

Acts(k) ==
    /\ down' \in [Conn -> Seq(ManagerUpdate)]
    /\ \A j \in Conn \ {k} : conn'[j] = conn[j] /\ down'[j] = down[j]
    /\ Ends(k) \/ Tells(k) \/ Obeys(k) \/ GoesOn(k)

DownTyped == down \in [Conn -> Seq(ManagerUpdate)]

\* A thread that ends, whatever its peer has become.
LEMMA EndsActs ==
  ASSUME Typed, DownTyped, NEW k \in Conn, NEW peer \in ConnRecord,
         conn' = Ended([conn EXCEPT ![k] = peer], k), DropDown(k)
  PROVE  Acts(k)
<1> DEFINE r == [peer EXCEPT !.pc = "ended"]
<1>1. r.pc = "ended"
  BY DEF ConnRecord
<1>2. conn' = [conn EXCEPT ![k] = r]
  BY DEF Ended, Typed
<1> HIDE DEF r
<1>3. conn'[k] = r /\ \A j \in Conn \ {k} : conn'[j] = conn[j]
  BY <1>2 DEF Typed
<1>4. /\ down' \in [Conn -> Seq(ManagerUpdate)]
      /\ down'[k] = <<>> /\ \A j \in Conn \ {k} : down'[j] = down[j]
  BY DEF DropDown, DownTyped
<1> QED
  BY <1>1, <1>3, <1>4 DEF Acts, Ends

\* A peer changed as the message told says.
LEMMA SendActs ==
  ASSUME Typed, DownTyped, NEW k \in Conn, NEW peer \in ConnRecord, peer.pc = "running",
         peer.amChoking = conn[k].amChoking, NEW m \in PeerUpdate, Sent(conn[k], m, peer),
         conn' = [conn EXCEPT ![k] = peer], SendUp(k, m), UNCHANGED down
  PROVE  Acts(k)
<1>1. conn'[k] = peer /\ \A j \in Conn \ {k} : conn'[j] = conn[j]
  BY DEF Typed
<1> QED
  BY <1>1 DEF Acts, Tells, DownTyped

\* The same, once the priorities have moved.
LEMMA ShiftActs ==
  ASSUME Typed, DownTyped, NEW k \in Conn, NEW peer \in ConnRecord, peer.pc = "running",
         peer.amChoking = conn[k].amChoking, NEW m \in PeerUpdate, Sent(conn[k], m, peer),
         NEW S, NEW d, ShiftAndSend(k, peer, S, d, m)
  PROVE  Acts(k)
<1>1. CASE LockOrEnd(k, peer)
  BY <1>1, EndsActs DEF LockOrEnd
<1>2. CASE PanicLocked(k, peer, "update_priority")
  BY <1>2, EndsActs DEF PanicLocked
<1>3. CASE conn' = [conn EXCEPT ![k] = peer] /\ SendUp(k, m) /\ UNCHANGED down
  BY <1>3, SendActs
<1> QED
  BY <1>1, <1>2, <1>3 DEF ShiftAndSend

\* Every step of a connection.
LEMMA ConnectionActs ==
  ASSUME Typed, DownTyped, NEW k \in Conn, ConnectionNext(k)
  PROVE  Acts(k)
<1> DEFINE c == conn[k]
<1>0. c \in ConnRecord
  BY DEF Typed
<1> HIDE DEF c
<1>e. ASSUME conn' = Ended(conn, k), DropDown(k) PROVE Acts(k)
  <2>1. conn = [conn EXCEPT ![k] = c]
    BY DEF c, Typed
  <2> QED
    BY <1>0, <1>e, <2>1, EndsActs
<1>l. ASSUME LockOrEnd(k, conn[k]) PROVE Acts(k)
  BY <1>0, <1>l, EndsActs DEF LockOrEnd, c
<1>1. CASE Begin(k)
  <2>1. CASE conn' = [conn EXCEPT ![k].pc = "running"] /\ UNCHANGED <<up, down>>
    <3> DEFINE r == [c EXCEPT !.pc = "running"]
    <3>1. /\ r.pc = "running" /\ r.peerChoking = c.peerChoking /\ r.bits = c.bits
          /\ r.peerInterested = c.peerInterested /\ r.amChoking = c.amChoking
      BY <1>0 DEF ConnRecord
    <3>2. conn' = [conn EXCEPT ![k] = r]
      BY <2>1 DEF c
    <3> HIDE DEF r
    <3>3. conn'[k] = r /\ \A j \in Conn \ {k} : conn'[j] = conn[j]
      BY <3>2 DEF Typed
    <3> QED
      BY <2>1, <3>1, <3>3 DEF Acts, GoesOn, DownTyped, c
  <2> QED
    BY <1>1, <2>1, <1>l DEF Begin
<1>2. CASE ReadChoke(k)
  <2> DEFINE choke == ~c.peerChoking
             peer  == [c EXCEPT !.peerChoking = choke]
             m     == [type |-> "ChokingChange"]
  <2>1. c.pc = "running" /\ ShiftAndSend(k, peer, c.bits, IF choke THEN -1 ELSE 1, m)
    BY <1>2 DEF ReadChoke, Reads, c
  <2>2. peer \in ConnRecord /\ peer.pc = c.pc /\ peer.amChoking = c.amChoking
    BY <1>0 DEF ConnRecord
  <2>3. m \in PeerUpdate
    BY DEF PeerUpdate
  <2>4. Sent(c, m, peer)
    BY <1>0 DEF ConnRecord, Sent, Flipped, Says1
  <2> HIDE DEF peer, m, choke
  <2> QED
    BY <2>1, <2>2, <2>3, <2>4, ShiftActs DEF c
<1>3. CASE ReadInterested(k)
  <2> DEFINE peer == [c EXCEPT !.peerInterested = ~@]
             m    == [type |-> "InterestedChange"]
  <2>1. c.pc = "running" /\ JustSend(k, peer, m)
    BY <1>3 DEF ReadInterested, Reads, c
  <2>2. peer \in ConnRecord /\ peer.pc = c.pc /\ peer.amChoking = c.amChoking
    BY <1>0 DEF ConnRecord
  <2>3. m \in PeerUpdate
    BY DEF PeerUpdate
  <2>4. Sent(c, m, peer)
    BY <1>0 DEF ConnRecord, Sent, Flipped, Says1
  <2> HIDE DEF peer, m
  <2> QED
    BY <2>1, <2>2, <2>3, <2>4, SendActs DEF JustSend, c
<1>4. ASSUME NEW i \in Piece, ReadHave(k, i) PROVE Acts(k)
  <2> DEFINE peer == [c EXCEPT !.bits = @ \cup {i}]
             m    == [type |-> "Have", piece |-> i]
  <2>1. c.pc = "running" /\ (ShiftAndSend(k, peer, {i}, 1, m) \/ JustSend(k, peer, m))
    BY <1>4 DEF ReadHave, Reads, c
  <2>2. peer \in ConnRecord /\ peer.pc = c.pc /\ peer.amChoking = c.amChoking
    BY <1>0 DEF ConnRecord
  <2>3. m \in PeerUpdate
    BY DEF PeerUpdate
  <2>4. Sent(c, m, peer)
    BY <1>0 DEF ConnRecord, Sent, Flipped, Says1
  <2> HIDE DEF peer, m
  <2> QED
    BY <2>1, <2>2, <2>3, <2>4, ShiftActs, SendActs DEF JustSend, c
<1>5. ASSUME NEW i \in Piece, NEW whole, NEW valid, ReadPiece(k, i, whole, valid) PROVE Acts(k)
  <2> DEFINE m == [type |-> "Downloaded", piece |-> i]
  <2>1. c.pc = "running"
    BY <1>5 DEF ReadPiece, Reads, c
  <2>2. m \in PeerUpdate
    BY DEF PeerUpdate
  <2>3. Sent(c, m, c)
    BY DEF Sent, Flipped, Says1
  <2>4. CASE UNCHANGED <<conn, down>> /\ SendUp(k, m)
    BY <2>1, <2>2, <2>3, <2>4 DEF Acts, Tells, DownTyped, c
  <2>5. CASE UNCHANGED <<conn, down, up>>
    BY <2>1, <2>5 DEF Acts, GoesOn, DownTyped, c
  <2>6. CASE PanicLocked(k, conn[k], "map_files")
    BY <1>0, <2>6, EndsActs DEF PanicLocked, c
  <2> QED
    BY <1>5, <2>4, <2>5, <2>6, <1>l DEF ReadPiece
<1>6. ASSUME NEW bits \in SUBSET Piece, ReadBitfield(k, bits) PROVE Acts(k)
  <2> DEFINE all  == c.bits \cup bits
             peer == [c EXCEPT !.bits = all]
             m    == [type |-> "Bitfield", bits |-> all]
  <2>1. c.pc = "running" /\ (ShiftAndSend(k, peer, all, 1, m) \/ JustSend(k, peer, m))
    BY <1>6 DEF ReadBitfield, Reads, c
  <2>2. peer \in ConnRecord /\ peer.pc = c.pc /\ peer.amChoking = c.amChoking
    BY <1>0 DEF ConnRecord
  <2>3. m \in PeerUpdate
    BY <1>0 DEF PeerUpdate, ConnRecord
  <2>4. Sent(c, m, peer)
    BY <1>0 DEF ConnRecord, Sent, Flipped, Says1
  <2> HIDE DEF peer, m
  <2> QED
    BY <2>1, <2>2, <2>3, <2>4, ShiftActs, SendActs DEF JustSend, c
<1>7. CASE ReadRequest(k)
  <2>1. CASE PanicLocked(k, conn[k], "map_files")
    BY <1>0, <2>1, EndsActs DEF PanicLocked, c
  <2> QED
    BY <1>7, <2>1, <1>l DEF ReadRequest
<1>8. CASE ReadPort(k)
  BY <1>8, <1>e DEF ReadPort
<1>9. CASE ReadEOF(k)
  <2>1. LockOrEnd(k, conn[k]) \/ PanicLocked(k, conn[k], "update_priority") \/ HangUp(k)
    BY <1>9 DEF ReadEOF
  <2>2. CASE PanicLocked(k, conn[k], "update_priority")
    BY <1>0, <2>2, EndsActs DEF PanicLocked, c
  <2> QED
    BY <2>1, <2>2, <1>e, <1>l DEF HangUp
<1>10. CASE TakeManagerUpdate(k)
  <2> DEFINE told == IF Head(down[k]).type \in {"Choke", "Unchoke"}
                     THEN Head(down[k]).type = "Choke" ELSE c.amChoking
             peer == [c EXCEPT !.amChoking = told]
  <2>1. /\ c.pc = "running" /\ UNCHANGED up /\ conn' = [conn EXCEPT ![k] = peer]
        /\ down[k] # <<>> /\ down' = [down EXCEPT ![k] = Tail(@)]
    BY <1>10 DEF TakeManagerUpdate, c
  <2>2. /\ peer.pc = c.pc /\ peer.peerChoking = c.peerChoking /\ peer.bits = c.bits
        /\ peer.peerInterested = c.peerInterested /\ peer.amChoking = told
    BY <1>0 DEF ConnRecord
  <2> HIDE DEF peer
  <2>3. conn'[k] = peer /\ \A j \in Conn \ {k} : conn'[j] = conn[j]
    BY <2>1 DEF Typed
  <2>4. /\ down' \in [Conn -> Seq(ManagerUpdate)]
        /\ down'[k] = Tail(down[k]) /\ \A j \in Conn \ {k} : down'[j] = down[j]
    <3>1. Tail(down[k]) \in Seq(ManagerUpdate)
      BY <2>1, HeadTailProperties DEF DownTyped
    <3> QED
      BY <2>1, <3>1 DEF DownTyped
  <2> QED
    BY <2>1, <2>2, <2>3, <2>4 DEF Acts, Obeys, c
<1> QED
  BY <1>1, <1>2, <1>3, <1>4, <1>5, <1>6, <1>7, <1>8, <1>9, <1>10 DEF ConnectionNext, ReadMessage

----------------------------------------------------------------------------
(* The inductive invariant *)

\* A pair of channels belongs to one peer, registered or about to be.
OwnChannels ==
    /\ \A a, b \in DOMAIN peers : peers[a] = peers[b] => a = b
    /\ \A m, n \in DOMAIN newPeers : newPeers[m].conn = newPeers[n].conn => m = n
    /\ \A id \in DOMAIN peers, n \in DOMAIN newPeers : peers[id] # newPeers[n].conn

\* Nothing has been sent over a connection not made yet, nor by the controller
\* to a peer it has not taken up.
Unused ==
    /\ \A k \in Conn : conn[k].pc = "free" => ~ToController(k) /\ up[k] = <<>> /\ down[k] = <<>>
    /\ \A n \in DOMAIN newPeers :
          LET k == newPeers[n].conn IN down[k] = <<>> /\ (Live(k) => conn[k].amChoking)

\* Every peer is followed; one about to be registered, from what a new peer is.
Followed ==
    /\ \A id \in DOMAIN peers : Live(peers[id]) =>
          Follows(Pending(id), conn[peers[id]], priority[id].choking, priority[id].interested,
                  bitfields[id])
    /\ \A n \in DOMAIN newPeers : Live(newPeers[n].conn) =>
          Follows(up[newPeers[n].conn], conn[newPeers[n].conn], TRUE, FALSE, {})

ViewInv ==
    /\ DownTyped
    /\ OwnChannels
    /\ Unused
    /\ Followed
    /\ RequestsServable

----------------------------------------------------------------------------
(* Queues cut in two *)

\* A message at the end of the second part, ...
LEMMA AppendConcat ==
  ASSUME NEW S, NEW b \in Seq(S), NEW u \in Seq(S), NEW m \in S
  PROVE  b \o Append(u, m) = Append(b \o u, m)
<1>1. <<m>> \in Seq(S) /\ b \o u \in Seq(S)
  OBVIOUS
<1> QED
  BY <1>1, AppendIsConcat, ConcatAssociative

\* ... and the one at the head of the first.
LEMMA TailConcat ==
  ASSUME NEW S, NEW b \in Seq(S), b # <<>>, NEW u \in Seq(S)
  PROVE  /\ b \o u \in Seq(S) /\ b \o u # <<>>
         /\ Head(b \o u) = Head(b) /\ Tail(b \o u) = Tail(b) \o u
<1> DEFINE s == b \o u
           r == Tail(b) \o u
<1>1. /\ s \in Seq(S) /\ Len(s) = Len(b) + Len(u)
      /\ \A i \in 1..Len(b) + Len(u) : s[i] = IF i <= Len(b) THEN b[i] ELSE u[i - Len(b)]
  BY ConcatProperties
<1>2. /\ Len(b) \in Nat \ {0} /\ Len(u) \in Nat /\ Head(b) = b[1]
      /\ Tail(b) \in Seq(S) /\ Len(Tail(b)) = Len(b) - 1
      /\ \A i \in 1..Len(b) - 1 : Tail(b)[i] = b[i + 1]
  BY HeadTailProperties, LenProperties
<1>3. /\ r \in Seq(S) /\ Len(r) = Len(b) - 1 + Len(u)
      /\ \A i \in 1..Len(b) - 1 + Len(u) :
            r[i] = IF i <= Len(b) - 1 THEN Tail(b)[i] ELSE u[i - (Len(b) - 1)]
  BY <1>2, ConcatProperties
<1> HIDE DEF s, r
<1>4. s # <<>> /\ Head(s) = s[1] /\ s[1] = b[1]
  BY <1>1, <1>2
<1>5. /\ Tail(s) \in Seq(S) /\ Len(Tail(s)) = Len(s) - 1
      /\ \A i \in 1..Len(s) - 1 : Tail(s)[i] = s[i + 1]
  BY <1>1, <1>4, HeadTailProperties
<1>6. ASSUME NEW i \in 1..Len(r) PROVE Tail(s)[i] = r[i]
  <2>1. /\ i \in 1..Len(b) - 1 + Len(u) /\ i \in 1..Len(s) - 1
        /\ i + 1 \in 1..Len(b) + Len(u)
    BY <1>1, <1>2, <1>3, <1>6
  <2>2. Tail(s)[i] = s[i + 1]
    BY <1>5, <2>1
  <2>3. CASE i <= Len(b) - 1
    <3>1. i + 1 <= Len(b) /\ i \in 1..Len(b) - 1
      BY <1>2, <2>1, <2>3
    <3>2. s[i + 1] = b[i + 1]
      BY <1>1, <2>1, <3>1
    <3>3. r[i] = b[i + 1]
      BY <1>2, <1>3, <2>1, <2>3, <3>1
    <3> QED
      BY <2>2, <3>2, <3>3
  <2>4. CASE ~(i <= Len(b) - 1)
    <3>1. ~(i + 1 <= Len(b)) /\ i + 1 - Len(b) = i - (Len(b) - 1)
      BY <1>2, <2>1, <2>4
    <3>2. s[i + 1] = u[i + 1 - Len(b)]
      BY <1>1, <2>1, <3>1
    <3>3. r[i] = u[i - (Len(b) - 1)]
      BY <1>3, <2>1, <2>4
    <3> QED
      BY <2>2, <3>1, <3>2, <3>3
  <2> QED
    BY <2>3, <2>4
<1>7. Len(Tail(s)) = Len(r)
  BY <1>1, <1>2, <1>3, <1>5
<1>8. Tail(s) = r
  BY <1>3, <1>5, <1>6, <1>7, SeqEqual
<1> QED
  BY <1>1, <1>4, <1>8, <1>2 DEF s, r

\* The updates of a peer under way are updates.
LEMMA PendingTyped ==
  ASSUME Typed, NEW id \in DOMAIN peers
  PROVE  /\ Pending(id) \in Seq(PeerUpdate)
         /\ peers[id] \in Conn /\ up[peers[id]] \in Seq(PeerUpdate)
         /\ id \in DOMAIN batch => /\ batch[id] \in Seq(PeerUpdate) /\ batch[id] # <<>>
                                   /\ Pending(id) = batch[id] \o up[peers[id]]
         /\ id \notin DOMAIN batch => Pending(id) = up[peers[id]]
<1>1. peers[id] \in Conn /\ up[peers[id]] \in Seq(PeerUpdate)
  BY DEF Typed
<1>2. CASE id \in DOMAIN batch
  <2>1. batch[id] \in Seq(PeerUpdate) /\ batch[id] # <<>>
    BY <1>2 DEF Typed
  <2> QED
    BY <1>1, <1>2, <2>1, ConcatProperties DEF Pending
<1>3. CASE id \notin DOMAIN batch
  <2>1. <<>> \o up[peers[id]] = up[peers[id]]
    BY <1>1, ConcatEmptySeq
  <2> QED
    BY <1>1, <1>3, <2>1 DEF Pending
<1> QED
  BY <1>2, <1>3

\* The peers on their way to the controller.
LEMMA NewPeersTyped ==
  ASSUME Typed
  PROVE  /\ newPeers \in Seq(NewPeer) /\ DOMAIN newPeers = 1..Len(newPeers) /\ Len(newPeers) \in Nat
         /\ \A n \in DOMAIN newPeers : newPeers[n] \in NewPeer /\ newPeers[n].conn \in Conn
<1>1. newPeers \in Seq(NewPeer)
  BY DEF Typed
<1>2. DOMAIN newPeers = 1..Len(newPeers) /\ Len(newPeers) \in Nat
  BY <1>1, LenProperties
<1>3. \A n \in DOMAIN newPeers : newPeers[n] \in NewPeer
  BY <1>1, <1>2
<1>4. \A m \in NewPeer : m.conn \in Conn
  BY DEF NewPeer
<1> QED
  BY <1>1, <1>2, <1>3, <1>4

----------------------------------------------------------------------------
(* Steps that leave the views alone *)

\* The controller sends at most one message to each registered peer, and a request
\* only for a piece announced.
DownGrows ==
    /\ down' \in [Conn -> Seq(ManagerUpdate)]
    /\ \A k \in Conn :
          \/ down'[k] = down[k]
          \/ /\ \E id \in DOMAIN peers : peers[id] = k
             /\ Live(k)
             /\ \E m \in ManagerUpdate : /\ down'[k] = Append(down[k], m)
                                         /\ m.type = "Request" => m.piece \in conn[k].bits

\* Sending nothing is a case of it.
LEMMA SendsNothing ==
  ASSUME DownTyped, UNCHANGED down
  PROVE  DownGrows
BY DEF DownTyped, DownGrows

\* Messages added at the end keep the requests servable.
LEMMA GrowsServable ==
  ASSUME DownTyped, RequestsServable, DownGrows, UNCHANGED conn
  PROVE  RequestsServable'
<1> SUFFICES ASSUME NEW k \in Conn, NEW n \in DOMAIN down'[k], down'[k][n].type = "Request"
             PROVE  down'[k][n].piece \in conn[k].bits
  BY DEF RequestsServable
<1>1. CASE down'[k] = down[k]
  BY <1>1 DEF RequestsServable
<1>2. ASSUME NEW m \in ManagerUpdate, down'[k] = Append(down[k], m),
             m.type = "Request" => m.piece \in conn[k].bits
      PROVE  down'[k][n].piece \in conn[k].bits
  <2> DEFINE s == down[k]
             r == Append(s, m)
  <2>1. s \in Seq(ManagerUpdate)
    BY DEF DownTyped
  <2>2. /\ DOMAIN r = 1..Len(s) + 1 /\ DOMAIN s = 1..Len(s) /\ Len(s) \in Nat
        /\ \A i \in 1..Len(s) : r[i] = s[i]
        /\ r[Len(s) + 1] = m
    BY <2>1, AppendProperties, LenProperties
  <2>3. n \in 1..Len(s) + 1
    BY <1>2, <2>2
  <2>4. CASE n \in 1..Len(s)
    BY <1>2, <2>2, <2>4 DEF RequestsServable
  <2>5. CASE n = Len(s) + 1
    BY <1>2, <2>2, <2>5
  <2> QED
    BY <2>2, <2>3, <2>4, <2>5
<1> QED
  BY <1>1, <1>2 DEF DownGrows

\* A step of the controller after which every channel still in use was in use, and
\* what is under way on it is the same or dropped.
LEMMA QueuesKept ==
  ASSUME ViewInv, DownGrows, UNCHANGED conn,
         \A k \in Conn : ToController(k)' => ToController(k),
         \A k \in Conn : up'[k] = up[k] \/ up'[k] = <<>>,
         \A n \in DOMAIN newPeers' : newPeers'[n].conn \in Conn
                /\ \E m \in DOMAIN newPeers : newPeers'[n].conn = newPeers[m].conn,
         OwnChannels', Followed'
  PROVE  ViewInv'
<1>1. ASSUME NEW k \in Conn, \A id \in DOMAIN peers : peers[id] # k PROVE down'[k] = down[k]
  BY <1>1 DEF DownGrows
<1>2. Unused'
  <2>1. ASSUME NEW k \in Conn, conn[k].pc = "free"
        PROVE  ~ToController(k)' /\ up'[k] = <<>> /\ down'[k] = <<>>
    <3>1. ~ToController(k) /\ up[k] = <<>> /\ down[k] = <<>>
      BY <2>1 DEF ViewInv, Unused
    <3> QED
      BY <1>1, <3>1 DEF ToController
  <2>2. ASSUME NEW n \in DOMAIN newPeers', NEW k, k = newPeers'[n].conn
        PROVE  down'[k] = <<>> /\ (Live(k) => conn[k].amChoking)
    <3>1. PICK m \in DOMAIN newPeers : k = newPeers[m].conn
      BY <2>2
    <3>2. down[k] = <<>> /\ (Live(k) => conn[k].amChoking)
      BY <3>1 DEF ViewInv, Unused
    <3>3. \A id \in DOMAIN peers : peers[id] # k
      BY <3>1 DEF ViewInv, OwnChannels
    <3> QED
      BY <1>1, <2>2, <3>2, <3>3
  <2> QED
    BY <2>1, <2>2 DEF Unused, Live
<1>3. DownTyped' /\ RequestsServable'
  BY GrowsServable DEF ViewInv, DownTyped, DownGrows
<1> QED
  BY <1>2, <1>3 DEF ViewInv

\* A step that changes neither the peers nor what they have under way.
LEMMA ViewsKept ==
  ASSUME Typed, ViewInv, DownGrows, UNCHANGED <<up, conn, registry, batch, newPeers>>
  PROVE  ViewInv'
<1>1. UNCHANGED <<up, conn, peers, priority, bitfields, batch, newPeers>>
  BY DEF registry
<1>2. OwnChannels'
  BY <1>1 DEF ViewInv, OwnChannels
<1>3. Followed'
  <2>1. \A id : Pending(id)' = Pending(id)
    BY <1>1 DEF Pending
  <2> QED
    BY <1>1, <2>1 DEF ViewInv, Followed, Live
<1>4. \A k \in Conn : ToController(k)' => ToController(k)
  BY <1>1 DEF ToController
<1>5. \A n \in DOMAIN newPeers' : newPeers'[n].conn \in Conn
                /\ \E m \in DOMAIN newPeers : newPeers'[n].conn = newPeers[m].conn
  BY <1>1, NewPeersTyped
<1> QED
  BY <1>1, <1>2, <1>3, <1>4, <1>5, QueuesKept

\* A message to some of the registered peers.
LEMMA SentGrows ==
  ASSUME Typed, DownTyped, NEW m \in ManagerUpdate, NEW K \in SUBSET Conn,
         \A k \in K : \E id \in DOMAIN peers : peers[id] = k,
         m.type = "Request" => \A k \in K : Live(k) => m.piece \in conn[k].bits,
         down' = SentDown(K, m)
  PROVE  DownGrows
<1>1. \A k \in Conn : Append(down[k], m) \in Seq(ManagerUpdate)
  BY DEF DownTyped
<1>2. \A k \in Conn : down'[k] = IF k \in K /\ Receives(k) THEN Append(down[k], m) ELSE down[k]
  BY DEF SentDown
<1>3. down' \in [Conn -> Seq(ManagerUpdate)]
  BY <1>1 DEF SentDown, DownTyped
<1>4. \A k \in Conn : Receives(k) => Live(k)
  BY DEF Receives, Live
<1> QED
  BY <1>2, <1>3, <1>4 DEF DownGrows

\* The registered peers' connections.
LEMMA ConnsRegistered ==
  ASSUME Typed, NEW ids
  PROVE  /\ ConnsOf(ids) \in SUBSET Conn
         /\ \A k \in ConnsOf(ids) : \E id \in DOMAIN peers : peers[id] = k
BY DEF ConnsOf, Typed

----------------------------------------------------------------------------
(* The steps of the client, the Manager and the connectors *)

\* A connector registers a peer over a connection not used before.
LEMMA RegisterKeepsViews ==
  ASSUME Typed, ViewInv, NEW c \in Connector, Register(c)
  PROVE  ViewInv'
<1> DEFINE me == connector[c]
<1>1. PICK k \in Conn :
        /\ conn[k].pc = "free"
        /\ conn' = [conn EXCEPT ![k] = NewConn("start", me.id, me.hash)]
        /\ newPeers' = IF ControllerGone THEN newPeers
                       ELSE Append(newPeers, [id |-> me.id, hash |-> me.hash, conn |-> k])
  BY DEF Register
<1>2. UNCHANGED <<up, down, peers, priority, bitfields, batch>>
  BY DEF Register, handlerRest, ctlVars, registry
<1> DEFINE new == NewConn("start", me.id, me.hash)
           msg == [id |-> me.id, hash |-> me.hash, conn |-> k]
<1>3. conn'[k] = new /\ \A j \in Conn \ {k} : conn'[j] = conn[j]
  BY <1>1 DEF Typed
<1>4. new.pc = "start" /\ new.amChoking = TRUE
  BY DEF NewConn
<1>5. ~ToController(k) /\ up[k] = <<>> /\ down[k] = <<>>
  BY <1>1 DEF ViewInv, Unused
<1>6. /\ \A n \in DOMAIN newPeers : newPeers[n].conn \in Conn \ {k}
      /\ \A id \in DOMAIN peers : peers[id] \in Conn \ {k}
  BY <1>5, NewPeersTyped DEF ToController, Typed
<1>7. /\ \A n \in DOMAIN newPeers : n \in DOMAIN newPeers' /\ newPeers'[n] = newPeers[n]
      /\ \A n \in DOMAIN newPeers' : n \in DOMAIN newPeers
                \/ (n = Len(newPeers) + 1 /\ newPeers'[n].conn = k)
  <2>1. CASE newPeers' = newPeers
    BY <2>1
  <2>2. CASE newPeers' = Append(newPeers, msg)
    <3>1. msg.conn = k
      OBVIOUS
    <3>2. msg \in NewPeer
      <4>1. me \in ConnectorRecord /\ me.pc = "register"
        BY DEF Register, At, Typed
      <4>2. me.id \in PeerId /\ me.hash \in Hash
        BY <4>1 DEF ConnectorRecord
      <4> QED
        BY <4>2 DEF NewPeer
    <3> HIDE DEF msg
    <3>3. /\ DOMAIN newPeers' = 1..Len(newPeers) + 1
          /\ newPeers'[Len(newPeers) + 1] = msg
          /\ \A n \in 1..Len(newPeers) : newPeers'[n] = newPeers[n]
      BY <2>2, <3>2, NewPeersTyped, AppendProperties, LenProperties
    <3>4. DOMAIN newPeers = 1..Len(newPeers) /\ Len(newPeers) \in Nat
      BY NewPeersTyped
    <3>5. \A n \in 1..Len(newPeers) + 1 : n \in 1..Len(newPeers) \/ n = Len(newPeers) + 1
      BY <3>4
    <3>6. \A n \in 1..Len(newPeers) : n \in 1..Len(newPeers) + 1
      BY <3>4
    <3> QED
      BY <3>1, <3>3, <3>4, <3>5, <3>6
  <2> QED
    BY <1>1, <2>1, <2>2
<1> HIDE DEF new, msg
<1>8. OwnChannels'
  BY <1>2, <1>6, <1>7 DEF ViewInv, OwnChannels
<1>9. Unused'
  <2>1. ASSUME NEW j \in Conn, conn'[j].pc = "free"
        PROVE  ~ToController(j)' /\ up'[j] = <<>> /\ down'[j] = <<>>
    <3>1. j # k /\ conn[j].pc = "free"
      BY <1>3, <1>4, <2>1
    <3>2. ~ToController(j) /\ up[j] = <<>> /\ down[j] = <<>>
      BY <3>1 DEF ViewInv, Unused
    <3> QED
      BY <1>2, <1>7, <3>1, <3>2 DEF ToController
  <2>2. ASSUME NEW n \in DOMAIN newPeers'
        PROVE  down'[newPeers'[n].conn] = <<>>
               /\ (Live(newPeers[n].conn)' => conn'[newPeers'[n].conn].amChoking)
    <3>1. CASE n \in DOMAIN newPeers
      BY <1>2, <1>3, <1>6, <1>7, <3>1 DEF ViewInv, Unused, Live
    <3>2. CASE newPeers'[n].conn = k
      <4>1. down'[k] = <<>> /\ conn'[k].amChoking
        BY <1>2, <1>3, <1>4, <1>5
      <4> QED
        BY <3>2, <4>1
    <3> QED
      BY <1>7, <3>1, <3>2
  <2> QED
    BY <2>1, <2>2 DEF Unused
<1>10. Followed'
  <2>1. \A id \in DOMAIN peers : Pending(id)' = Pending(id)
    BY <1>2 DEF Pending
  <2>2. ASSUME NEW n \in DOMAIN newPeers', Live(newPeers[n].conn)'
        PROVE  Follows(up'[newPeers'[n].conn], conn'[newPeers'[n].conn], TRUE, FALSE, {})
    <3>1. CASE n \in DOMAIN newPeers
      BY <1>2, <1>3, <1>6, <1>7, <2>2, <3>1 DEF ViewInv, Followed, Live
    <3>2. CASE newPeers'[n].conn = k
      <4>1. up'[k] = <<>> /\ conn'[k] = new
        BY <1>2, <1>3, <1>5
      <4>2. Follows(<<>>, new, TRUE, FALSE, {})
        BY FollowsNew DEF new
      <4>3. Follows(up'[k], conn'[k], TRUE, FALSE, {})
        BY <4>1, <4>2
      <4> QED
        BY <3>2, <4>3
    <3> QED
      BY <1>7, <3>1, <3>2
  <2>3. ASSUME NEW id \in DOMAIN peers', Live(peers[id])'
        PROVE  Follows(Pending(id)', conn'[peers'[id]], priority'[id].choking, priority'[id].interested,
                       bitfields'[id])
    BY <1>2, <1>3, <1>6, <2>1, <2>3 DEF ViewInv, Followed, Live
  <2> QED
    BY <2>2, <2>3 DEF Followed
<1>11. RequestsServable'
  <2>1. \A n \in DOMAIN down[k] : FALSE
    BY <1>5
  <2> QED
    BY <1>2, <1>3, <2>1 DEF ViewInv, RequestsServable
<1> QED
  BY <1>2, <1>8, <1>9, <1>10, <1>11 DEF ViewInv, DownTyped

\* The others change no peer and no channel.
LEMMA OthersKeepViews ==
  ASSUME Typed, ViewInv,
         ManagerNext \/ ClientNext \/ (\E c \in Connector : ConnectorNext(c)) \/ UNCHANGED vars
  PROVE  ViewInv'
<1>0. ASSUME UNCHANGED <<up, down, conn, registry, batch, newPeers>> PROVE ViewInv'
  BY <1>0, SendsNothing, ViewsKept DEF ViewInv
<1>1. CASE ManagerNext
  BY <1>0, <1>1, ManagerFrame DEF ManagerNext, AddTorrent, EndAnnounce, handlerRest
<1>2. CASE ClientNext
  BY <1>0, <1>2 DEF ClientNext, ClientSends, controllerRest, connectorVars, ctlVars
<1>3. ASSUME NEW c \in Connector, ConnectorNext(c) PROVE ViewInv'
  <2>1. CASE Register(c)
    BY <2>1, RegisterKeepsViews
  <2>2. CASE ~Register(c)
    BY <1>0, <1>3, <2>2 DEF ConnectorNext, ConnectorProceeds, Connect, HandshakeFails, HandshakeRead,
       HandshakeUnknown, Create, Count, ConnectorDies, handlerRest, ctlVars
  <2> QED
    BY <2>1, <2>2
<1>4. CASE UNCHANGED vars
  BY <1>0, <1>4 DEF vars, ctlVars
<1> QED
  BY <1>1, <1>2, <1>3, <1>4

----------------------------------------------------------------------------
(* The steps of a connection *)

\* What a connection in use knows and what it says of it change together, whatever
\* the controller has taken before.
LEMMA ActsFollowed ==
  ASSUME Typed, NEW k \in Conn, Acts(k), Says(k), ToController(k), conn'[k].pc # "ended",
         NEW b \in Seq(PeerUpdate), NEW choking \in BOOLEAN, NEW interested \in BOOLEAN, NEW bits,
         Follows(b \o up[k], conn[k], choking, interested, bits)
  PROVE  Follows(b \o up'[k], conn'[k], choking, interested, bits)
<1>1. conn[k] \in ConnRecord /\ conn'[k] \in ConnRecord /\ up[k] \in Seq(PeerUpdate)
  BY DEF Typed, Says
<1>2. b \o up[k] \in Seq(PeerUpdate)
  BY <1>1, ConcatProperties
<1>3. CASE Tells(k)
  <2>1. PICK m \in PeerUpdate : Sent(conn[k], m, conn'[k]) /\ SendUp(k, m)
    BY <1>3 DEF Tells
  <2>2. up'[k] = Append(up[k], m)
    BY <2>1 DEF SendUp, Typed
  <2>3. b \o up'[k] = Append(b \o up[k], m)
    BY <1>1, <2>2, AppendConcat
  <2>4. Follows(Append(b \o up[k], m), conn'[k], choking, interested, bits)
    BY <1>1, <1>2, <2>1, FollowsSent
  <2> QED
    BY <2>3, <2>4
<1>4. CASE Obeys(k) \/ GoesOn(k)
  <2>1. /\ conn'[k].peerChoking = conn[k].peerChoking /\ conn'[k].bits = conn[k].bits
        /\ conn'[k].peerInterested = conn[k].peerInterested /\ up'[k] = up[k]
    BY <1>4 DEF Obeys, GoesOn
  <2> QED
    BY <2>1 DEF Follows
<1> QED
  BY <1>3, <1>4 DEF Acts, Ends

\* A connection's step keeps what every connection is known by.
LEMMA ConnectionKeepsViews ==
  ASSUME Typed, KeysAgree, ViewInv, NEW k \in Conn, ConnectionNext(k)
  PROVE  ViewInv'
<1>1. Acts(k) /\ Says(k)
  BY ConnectionActs, ConnectionSays DEF ViewInv
<1>2. UNCHANGED <<newPeers, peers, priority, bitfields, batch>>
  BY ConnectionFrame DEF registry
<1>3. \A j \in Conn \ {k} : conn'[j] = conn[j] /\ down'[j] = down[j] /\ up'[j] = up[j]
  BY <1>1 DEF Acts, Says
<1>4. conn'[k].pc \in {"running", "ended"} /\ Live(k)
  BY <1>1 DEF Says, Live
<1>5. Ends(k) \/ Tells(k) \/ Obeys(k) \/ GoesOn(k)
  BY <1>1 DEF Acts
<1>6. DownTyped' /\ OwnChannels'
  BY <1>1, <1>2 DEF Acts, DownTyped, ViewInv, OwnChannels
<1>7. Unused'
  <2>1. ASSUME NEW j \in Conn, conn'[j].pc = "free"
        PROVE  ~ToController(j)' /\ up'[j] = <<>> /\ down'[j] = <<>>
    <3>1. j # k
      BY <1>4, <2>1
    <3>2. conn[j].pc = "free" /\ up'[j] = up[j] /\ down'[j] = down[j]
      BY <1>3, <2>1, <3>1
    <3>3. ~ToController(j) /\ up[j] = <<>> /\ down[j] = <<>>
      BY <3>2 DEF ViewInv, Unused
    <3> QED
      BY <1>2, <3>2, <3>3 DEF ToController
  <2>2. ASSUME NEW n \in DOMAIN newPeers, NEW j \in Conn, j = newPeers[n].conn
        PROVE  down'[j] = <<>> /\ (conn'[j].pc # "ended" /\ Live(j) => conn'[j].amChoking)
    <3>1. down[j] = <<>> /\ (Live(j) => conn[j].amChoking)
      BY <2>2 DEF ViewInv, Unused
    <3>2. CASE j # k
      BY <1>3, <3>1, <3>2
    <3>3. CASE j = k
      BY <1>5, <3>1, <3>3 DEF Ends, Tells, Obeys, GoesOn
    <3> QED
      BY <3>2, <3>3
  <2>3. ASSUME NEW n \in DOMAIN newPeers', NEW j, j = newPeers'[n].conn
        PROVE  down'[j] = <<>> /\ (conn'[j].pc \in {"start", "running"} => conn'[j].amChoking)
    <3>1. j \in Conn /\ n \in DOMAIN newPeers /\ j = newPeers[n].conn
      BY <1>2, <2>3, NewPeersTyped
    <3>2. down'[j] = <<>> /\ (conn'[j].pc # "ended" /\ Live(j) => conn'[j].amChoking)
      BY <2>2, <3>1
    <3>3. conn'[j].pc \in {"start", "running"} => Live(j)
      BY <1>3, <1>4, <3>1 DEF Live
    <3> QED
      BY <3>2, <3>3
  <2> QED
    BY <2>1, <2>3 DEF Unused, Live
<1>8. Followed'
  <2>1. ASSUME NEW id \in DOMAIN peers, conn'[peers[id]].pc \in {"start", "running"}
        PROVE  Follows(Pending(id)', conn'[peers[id]], priority[id].choking, priority[id].interested,
                       bitfields[id])
    <3> DEFINE j == peers[id]
               b == IF id \in DOMAIN batch THEN batch[id] ELSE <<>>
    <3>1. Pending(id) = b \o up[j] /\ Pending(id)' = b \o up'[j]
      BY <1>2 DEF Pending
    <3>2. b \in Seq(PeerUpdate) /\ j \in Conn
      BY DEF Typed
    <3> HIDE DEF j, b
    <3>3. CASE j # k
      <4>1. conn'[j] = conn[j] /\ up'[j] = up[j]
        BY <1>3, <3>2, <3>3
      <4>2. Live(j)
        BY <2>1, <4>1 DEF Live, j
      <4> QED
        BY <3>1, <4>1, <4>2 DEF ViewInv, Followed, j
    <3>4. CASE j = k
      <4>1. Follows(b \o up[k], conn[k], priority[id].choking, priority[id].interested, bitfields[id])
        BY <1>4, <3>1, <3>4 DEF ViewInv, Followed, j
      <4>2. ToController(k) /\ conn'[k].pc # "ended"
        BY <2>1, <3>4 DEF ToController, j
      <4>3. priority[id].choking \in BOOLEAN /\ priority[id].interested \in BOOLEAN
        BY <2>1 DEF Typed, KeysAgree, PeerPriority
      <4> QED
        BY <1>1, <3>1, <3>2, <3>4, <4>1, <4>2, <4>3, ActsFollowed DEF j
    <3> QED
      BY <3>3, <3>4
  <2>2. ASSUME NEW n \in DOMAIN newPeers, conn'[newPeers[n].conn].pc \in {"start", "running"}
        PROVE  Follows(up'[newPeers[n].conn], conn'[newPeers[n].conn], TRUE, FALSE, {})
    <3> DEFINE j == newPeers[n].conn
    <3>1. j \in Conn
      BY NewPeersTyped
    <3>2. CASE j # k
      BY <1>3, <2>2, <3>1, <3>2 DEF ViewInv, Followed, Live
    <3>3. CASE j = k
      <4>1. Follows(up[k], conn[k], TRUE, FALSE, {})
        BY <1>4, <3>3 DEF ViewInv, Followed
      <4>2. ToController(k) /\ conn'[k].pc # "ended"
        BY <2>2, <3>3 DEF ToController
      <4>3. up[k] \in Seq(PeerUpdate) /\ up'[k] \in Seq(PeerUpdate) /\ <<>> \in Seq(PeerUpdate)
        BY <1>1 DEF Typed, Says
      <4>4. <<>> \o up[k] = up[k] /\ <<>> \o up'[k] = up'[k]
        BY <4>3, ConcatEmptySeq
      <4>5. Follows(<<>> \o up'[k], conn'[k], TRUE, FALSE, {})
        BY <1>1, <4>1, <4>2, <4>3, <4>4, ActsFollowed
      <4> QED
        BY <3>3, <4>4, <4>5
    <3> QED
      BY <3>2, <3>3
  <2> QED
    BY <1>2, <2>1, <2>2 DEF Followed, Live
<1>9. RequestsServable'
  <2>1. ASSUME NEW n \in DOMAIN down'[k], down'[k][n].type = "Request"
        PROVE  down'[k][n].piece \in conn'[k].bits
    <3>1. CASE Ends(k)
      BY <2>1, <3>1 DEF Ends
    <3>2. CASE Tells(k) \/ GoesOn(k)
      <4>1. down'[k] = down[k] /\ conn[k].bits \subseteq conn'[k].bits
        BY <3>2 DEF Tells, GoesOn, Sent
      <4> QED
        BY <2>1, <4>1 DEF ViewInv, RequestsServable
    <3>3. CASE Obeys(k)
      <4>1. /\ down[k] # <<>> /\ down'[k] = Tail(down[k]) /\ conn'[k].bits = conn[k].bits
            /\ down[k] \in Seq(ManagerUpdate)
        BY <3>3 DEF Obeys, ViewInv, DownTyped
      <4>2. /\ DOMAIN down[k] = 1..Len(down[k]) /\ Len(down[k]) \in Nat
            /\ DOMAIN Tail(down[k]) = 1..Len(down[k]) - 1
            /\ \A i \in 1..Len(down[k]) - 1 : Tail(down[k])[i] = down[k][i + 1]
        BY <4>1, HeadTailProperties, LenProperties
      <4>3. n \in 1..Len(down[k]) - 1
        BY <4>1, <4>2
      <4>4. n + 1 \in DOMAIN down[k] /\ down'[k][n] = down[k][n + 1]
        BY <4>1, <4>2, <4>3
      <4> QED
        BY <2>1, <4>1, <4>4 DEF ViewInv, RequestsServable
    <3> QED
      BY <1>5, <3>1, <3>2, <3>3
  <2> QED
    BY <1>3, <2>1 DEF ViewInv, RequestsServable
<1> QED
  BY <1>6, <1>7, <1>8, <1>9 DEF ViewInv

----------------------------------------------------------------------------
(* The steps of the controller *)

\* The controller ends: it knows nobody any more.
LEMMA LeaveKeepsViews ==
  ASSUME ViewInv, NEW pc, Leave(pc), UNCHANGED conn, DownGrows
  PROVE  ViewInv'
<1>1. DOMAIN peers' = {} /\ DOMAIN newPeers' = {} /\ \A k \in Conn : up'[k] = <<>>
  BY DEF Leave
<1>2. OwnChannels' /\ Followed'
  BY <1>1 DEF OwnChannels, Followed
<1>3. \A k \in Conn : ~ToController(k)'
  BY <1>1 DEF ToController
<1> QED
  BY <1>1, <1>2, <1>3, QueuesKept

\* Peers leave with what they had under way; of the others nothing is taken.
LEMMA PeersLeaveKeepViews ==
  ASSUME IInv, ViewInv, NEW ids \in SUBSET DOMAIN peers, RemovePeers(ids, ids),
         UNCHANGED <<newPeers, conn>>, DownGrows,
         \A id \in DOMAIN peers \ ids : /\ id \in DOMAIN batch' <=> id \in DOMAIN batch
                                        /\ id \in DOMAIN batch => batch'[id] = batch[id]
  PROVE  ViewInv'
<1>1. DOMAIN priority = DOMAIN peers /\ DOMAIN bitfields = DOMAIN peers
  BY DEF IInv, KeysAgree
<1>2. /\ DOMAIN peers' = DOMAIN peers \ ids
      /\ \A id \in DOMAIN peers \ ids : /\ peers'[id] = peers[id] /\ priority'[id] = priority[id]
                                        /\ bitfields'[id] = bitfields[id]
  BY <1>1 DEF RemovePeers, Without
<1>3. \A k \in Conn : up'[k] = IF k \in ConnsOf(ids) THEN <<>> ELSE up[k]
  BY DEF RemovePeers, Dropping
<1>4. \A id \in DOMAIN peers \ ids : peers[id] \in Conn /\ peers[id] \notin ConnsOf(ids)
  BY DEF ConnsOf, ViewInv, OwnChannels, IInv, Typed
<1>5. \A n \in DOMAIN newPeers : newPeers[n].conn \in Conn /\ newPeers[n].conn \notin ConnsOf(ids)
  BY NewPeersTyped DEF ConnsOf, ViewInv, OwnChannels, IInv
<1>6. OwnChannels'
  BY <1>2 DEF ViewInv, OwnChannels
<1>7. Followed'
  <2>1. ASSUME NEW id \in DOMAIN peers \ ids PROVE Pending(id)' = Pending(id)
    BY <1>2, <1>3, <1>4 DEF Pending
  <2>2. \A n \in DOMAIN newPeers : up'[newPeers[n].conn] = up[newPeers[n].conn]
    BY <1>3, <1>5
  <2> QED
    BY <1>2, <2>1, <2>2 DEF ViewInv, Followed, Live
<1>8. \A k \in Conn : ToController(k)' => ToController(k)
  BY <1>2 DEF ToController
<1> QED
  BY <1>3, <1>5, <1>6, <1>7, <1>8, QueuesKept

\* A torrent is removed, with its peers.
LEMMA RemoveKeepsViews ==
  ASSUME IInv, ViewInv, RemoveTorrent
  PROVE  ViewInv'
<1> DEFINE h   == Head(commands).hash
           ids == PeersOf(h)
<1>1. ctl = "recv_client" /\ UNCHANGED conn
  BY DEF RemoveTorrent, Command, ControllerAt, controllerRest
<1>2. ids \subseteq DOMAIN peers /\ DOMAIN batch = {}
  BY <1>1 DEF PeersOf, IInv, KeysAgree, BatchInHand
<1>3. CASE h \notin DOMAIN torrents
  <2>1. UNCHANGED <<up, down, registry, batch, newPeers>>
    BY <1>3 DEF RemoveTorrent
  <2> QED
    BY <1>1, <2>1, SendsNothing, ViewsKept DEF IInv, ViewInv
<1>4. CASE h \in DOMAIN torrents
  <2> DEFINE m == [type |-> "Disconnect"]
  <2>1. /\ RemovePeers(ids, ids) /\ down' = SentDown(ConnsOf(ids), m)
        /\ UNCHANGED <<newPeers, batch>>
    BY <1>2, <1>4 DEF RemoveTorrent
  <2>2. m \in ManagerUpdate /\ m.type # "Request"
    BY DEF ManagerUpdate
  <2> HIDE DEF m, ids
  <2>3. DownGrows
    BY <2>1, <2>2, ConnsRegistered, SentGrows DEF IInv, ViewInv
  <2> QED
    BY <1>1, <1>2, <2>1, <2>3, PeersLeaveKeepViews
<1> QED
  BY <1>3, <1>4

\* A peer that hung up leaves, all it said processed.
LEMMA DisconnectKeepsViews ==
  ASSUME IInv, ViewInv, NEW id, ProcessDisconnect(id)
  PROVE  ViewInv'
<1>1. /\ id \in DOMAIN batch /\ NextMessage(id) /\ UNCHANGED <<newPeers, conn, down>>
  BY DEF ProcessDisconnect, Turn, controllerRest
<1>2. id \in DOMAIN priority /\ id \in DOMAIN peers
  BY <1>1 DEF IInv, ProcessLooksUp, KeysAgree
<1>3. RemovePeers({id}, {id})
  BY <1>2 DEF ProcessDisconnect, Popping
<1>4. \A p \in DOMAIN peers \ {id} : /\ p \in DOMAIN batch' <=> p \in DOMAIN batch
                                     /\ p \in DOMAIN batch => batch'[p] = batch[p]
  BY <1>1 DEF NextMessage, Without
<1>5. DownGrows
  BY <1>1, SendsNothing DEF ViewInv
<1> QED
  BY <1>1, <1>2, <1>3, <1>4, <1>5, PeersLeaveKeepViews

\* A peer is taken up: what it has said so far follows what a new peer is.
LEMMA RecvNewPeerKeepsViews ==
  ASSUME IInv, ViewInv, RecvNewPeer
  PROVE  ViewInv'
<1> DEFINE m == Head(newPeers)
<1>0. /\ ctl = "recv_new_peer" /\ DOMAIN batch = {} /\ newPeers # <<>>
      /\ UNCHANGED <<conn, down>>
  BY DEF RecvNewPeer, ControllerAt, IInv, BatchInHand, controllerRest
<1>1. /\ DOMAIN newPeers = 1..Len(newPeers) /\ Len(newPeers) \in Nat \ {0} /\ m = newPeers[1]
      /\ DOMAIN Tail(newPeers) = 1..Len(newPeers) - 1
      /\ \A n \in 1..Len(newPeers) - 1 : Tail(newPeers)[n] = newPeers[n + 1]
  BY <1>0, NewPeersTyped, HeadTailProperties, LenProperties DEF IInv
<1>2. 1 \in DOMAIN newPeers /\ m.conn \in Conn
  BY <1>1, NewPeersTyped DEF IInv
<1>3. DownGrows
  BY <1>0, SendsNothing DEF ViewInv
<1>4. CASE m.hash \notin DOMAIN torrents
  <2>1. Leave("panicked")
    BY <1>4 DEF RecvNewPeer, Panic
  <2> QED
    BY <1>0, <1>3, <2>1, LeaveKeepsViews
<1>5. CASE m.hash \in DOMAIN torrents
  <2> DEFINE p == [hash |-> m.hash, interested |-> FALSE, choking |-> TRUE]
             x == m.id
             k == m.conn
  <2>1. /\ newPeers' = Tail(newPeers)
        /\ priority' = Inserted(priority, x, p)
        /\ peers' = Inserted(peers, x, k)
        /\ bitfields' = Inserted(bitfields, x, {})
        /\ up' = Dropping(ConnsOf({x}))
        /\ UNCHANGED batch
    BY <1>5 DEF RecvNewPeer
  <2>2. p.choking = TRUE /\ p.interested = FALSE
    OBVIOUS
  <2>3. k = newPeers[1].conn /\ k \in Conn
    BY <1>1, <1>2
  <2> HIDE DEF m, p, x, k
  <2>4. DOMAIN priority = DOMAIN peers /\ DOMAIN bitfields = DOMAIN peers
    BY DEF IInv, KeysAgree
  <2>5. /\ DOMAIN peers' = DOMAIN peers \cup {x}
        /\ peers'[x] = k /\ priority'[x] = p /\ bitfields'[x] = {}
        /\ \A id \in DOMAIN peers \ {x} : /\ peers'[id] = peers[id] /\ priority'[id] = priority[id]
                                          /\ bitfields'[id] = bitfields[id]
    BY <2>1, <2>4 DEF Inserted
  <2>6. /\ \A id \in DOMAIN peers : peers[id] \in Conn /\ peers[id] # k
        /\ \A n \in 1..Len(newPeers) - 1 : newPeers[n + 1].conn # k
    <3>1. \A id \in DOMAIN peers : peers[id] \in Conn /\ peers[id] # k
      BY <1>2, <2>3 DEF ViewInv, OwnChannels, IInv, Typed
    <3>2. ASSUME NEW n \in 1..Len(newPeers) - 1 PROVE newPeers[n + 1].conn # k
      <4>1. n + 1 \in DOMAIN newPeers /\ n + 1 # 1
        BY <1>1
      <4> QED
        BY <1>2, <2>3, <4>1 DEF ViewInv, OwnChannels
    <3> QED
      BY <3>1, <3>2
  <2>7. \A j \in Conn : up'[j] = IF j \in ConnsOf({x}) THEN <<>> ELSE up[j]
    BY <2>1 DEF Dropping
  <2>8. \A n \in DOMAIN newPeers' :
            /\ newPeers'[n] = newPeers[n + 1] /\ n + 1 \in DOMAIN newPeers /\ n \in 1..Len(newPeers) - 1
            /\ newPeers'[n].conn \in Conn
    <3>1. \A n \in 1..Len(newPeers) - 1 : n + 1 \in 1..Len(newPeers)
      BY <1>1
    <3> QED
      BY <1>1, <2>1, <3>1, NewPeersTyped DEF IInv
  <2>9. OwnChannels'
    <3>1. \A a, b \in DOMAIN peers' : peers'[a] = peers'[b] => a = b
      BY <2>5, <2>6 DEF ViewInv, OwnChannels
    <3>2. ASSUME NEW a \in DOMAIN newPeers', NEW b \in DOMAIN newPeers',
                 newPeers'[a].conn = newPeers'[b].conn
          PROVE  a = b
      <4>1. a + 1 = b + 1
        BY <2>8, <3>2 DEF ViewInv, OwnChannels
      <4> QED
        BY <1>1, <2>8, <4>1
    <3>3. \A id \in DOMAIN peers', n \in DOMAIN newPeers' : peers'[id] # newPeers'[n].conn
      BY <2>5, <2>6, <2>8 DEF ViewInv, OwnChannels
    <3> QED
      BY <3>1, <3>2, <3>3 DEF OwnChannels
  <2>10. Followed'
    <3>1. up'[k] = up[k]
      BY <2>3, <2>6, <2>7 DEF ConnsOf
    <3>2. \A id \in DOMAIN peers \ {x} : up'[peers[id]] = up[peers[id]]
      <4>1. \A id \in DOMAIN peers \ {x} : peers[id] \in Conn /\ peers[id] \notin ConnsOf({x})
        BY <2>6 DEF ConnsOf, ViewInv, OwnChannels
      <4> QED
        BY <2>7, <4>1
    <3>3. ASSUME NEW n \in DOMAIN newPeers' PROVE up'[newPeers'[n].conn] = up[newPeers'[n].conn]
      <4>1. newPeers'[n].conn \in Conn /\ newPeers'[n].conn \notin ConnsOf({x})
        BY <2>8 DEF ConnsOf, ViewInv, OwnChannels
      <4> QED
        BY <2>7, <4>1
    <3>4. \A id \in DOMAIN peers' : peers'[id] \in Conn /\ up'[peers'[id]] \in Seq(PeerUpdate)
      <4>1. up' \in [Conn -> Seq(PeerUpdate)]
        BY <2>1, Emptied, <1>0 DEF IInv
      <4> QED
        BY <2>3, <2>5, <2>6, <4>1
    <3>5. \A id \in DOMAIN peers' : Pending(id)' = up'[peers'[id]]
      <4>1. DOMAIN batch' = {}
        BY <1>0, <2>1
      <4>2. ASSUME NEW id \in DOMAIN peers' PROVE <<>> \o up'[peers'[id]] = up'[peers'[id]]
        BY <3>4, ConcatEmptySeq
      <4> QED
        BY <4>1, <4>2 DEF Pending
    <3>6. \A id \in DOMAIN peers : Pending(id) = up[peers[id]]
      BY <1>0, PendingTyped DEF IInv
    <3>7. ASSUME NEW id \in DOMAIN peers', conn[peers'[id]].pc \in {"start", "running"}
          PROVE  Follows(up'[peers'[id]], conn[peers'[id]], priority'[id].choking,
                         priority'[id].interested, bitfields'[id])
      <4>1. CASE id = x
        BY <1>2, <2>2, <2>3, <2>5, <3>1, <3>7, <4>1 DEF ViewInv, Followed, Live
      <4>2. CASE id # x
        BY <2>5, <3>2, <3>6, <3>7, <4>2 DEF ViewInv, Followed, Live
      <4> QED
        BY <4>1, <4>2
    <3>8. ASSUME NEW n \in DOMAIN newPeers', conn[newPeers'[n].conn].pc \in {"start", "running"}
          PROVE  Follows(up'[newPeers'[n].conn], conn[newPeers'[n].conn], TRUE, FALSE, {})
      BY <2>8, <3>3, <3>8 DEF ViewInv, Followed, Live
    <3> QED
      BY <1>0, <3>5, <3>7, <3>8 DEF Followed, Live
  <2>11. \A j \in Conn : ToController(j)' => ToController(j)
    BY <1>2, <2>3, <2>5, <2>8 DEF ToController
  <2>12. \A n \in DOMAIN newPeers' : newPeers'[n].conn \in Conn
                /\ \E i \in DOMAIN newPeers : newPeers'[n].conn = newPeers[i].conn
    BY <2>8
  <2> QED
    BY <1>0, <1>3, <2>7, <2>9, <2>10, <2>11, <2>12, QueuesKept
<1> QED
  BY <1>4, <1>5

\* check_messages takes what each peer has said: no less and no more.
LEMMA TakeKeepsViews ==
  ASSUME IInv, ViewInv, TakeMessages
  PROVE  ViewInv'
<1>1. /\ batch' = [id \in {p \in DOMAIN peers : up[peers[p]] # <<>>} |-> up[peers[id]]]
      /\ up' = Dropping(ConnsOf(DOMAIN peers))
      /\ ctl = "check"
      /\ UNCHANGED <<newPeers, conn, down, peers, priority, bitfields>>
  BY DEF TakeMessages, controllerRest, registry, ControllerAt
<1>2. DOMAIN batch = {}
  BY <1>1 DEF IInv, BatchInHand
<1>3. \A k \in Conn : up'[k] = IF k \in ConnsOf(DOMAIN peers) THEN <<>> ELSE up[k]
  BY <1>1 DEF Dropping
<1>4. \A id \in DOMAIN peers : Pending(id)' = Pending(id)
  <2> SUFFICES ASSUME NEW id \in DOMAIN peers PROVE Pending(id)' = Pending(id)
    OBVIOUS
  <2> DEFINE s == up[peers[id]]
  <2>1. s \in Seq(PeerUpdate) /\ Pending(id) = s /\ peers[id] \in Conn
    BY <1>2, PendingTyped DEF IInv
  <2>2. up'[peers'[id]] = <<>>
    BY <1>1, <1>3, <2>1 DEF ConnsOf
  <2>3. s \o <<>> = s /\ <<>> \o <<>> = <<>>
    BY <2>1, ConcatEmptySeq
  <2>4. CASE s = <<>>
    <3>1. id \notin DOMAIN batch'
      BY <1>1, <2>4
    <3> QED
      BY <2>1, <2>2, <2>3, <2>4, <3>1 DEF Pending
  <2>5. CASE s # <<>>
    <3>1. id \in DOMAIN batch' /\ batch'[id] = s
      BY <1>1, <2>5
    <3> HIDE DEF s
    <3> QED
      BY <2>1, <2>2, <2>3, <3>1 DEF Pending
  <2> QED
    BY <2>4, <2>5
<1>5. \A n \in DOMAIN newPeers : /\ newPeers[n].conn \in Conn
                                 /\ up'[newPeers[n].conn] = up[newPeers[n].conn]
  <2>1. \A n \in DOMAIN newPeers : newPeers[n].conn \in Conn
                                   /\ newPeers[n].conn \notin ConnsOf(DOMAIN peers)
    BY NewPeersTyped DEF ConnsOf, ViewInv, OwnChannels, IInv
  <2> QED
    BY <1>3, <2>1
<1>6. OwnChannels'
  BY <1>1 DEF ViewInv, OwnChannels
<1>7. Followed'
  BY <1>1, <1>4, <1>5 DEF ViewInv, Followed, Live
<1>8. \A k \in Conn : ToController(k)' => ToController(k)
  BY <1>1 DEF ToController
<1>9. DownGrows
  BY <1>1, SendsNothing DEF ViewInv
<1> QED
  BY <1>1, <1>3, <1>5, <1>6, <1>7, <1>8, <1>9, QueuesKept

\* The next message of a peer is off those under way.
LEMMA PendingNext ==
  ASSUME IInv, NEW id \in DOMAIN batch, NextMessage(id), UNCHANGED <<up, peers>>
  PROVE  /\ Pending(id) \in Seq(PeerUpdate) /\ Pending(id) # <<>>
         /\ Head(Pending(id)) = Head(batch[id]) /\ Pending(id)' = Tail(Pending(id))
         /\ \A p \in DOMAIN peers \ {id} : Pending(p)' = Pending(p)
<1> DEFINE b == batch[id]
           u == up[peers[id]]
<1>1. id \in DOMAIN peers
  BY DEF IInv, ProcessLooksUp
<1>2. /\ b \in Seq(PeerUpdate) /\ b # <<>> /\ u \in Seq(PeerUpdate) /\ Pending(id) = b \o u
  BY <1>1, PendingTyped DEF IInv
<1>3. /\ b \o u \in Seq(PeerUpdate) /\ b \o u # <<>>
      /\ Head(b \o u) = Head(b) /\ Tail(b \o u) = Tail(b) \o u
  BY <1>2, TailConcat
<1>4. Pending(id)' = Tail(b) \o u
  <2>1. CASE Len(b) = 1
    <3>1. id \notin DOMAIN batch'
      BY <2>1 DEF NextMessage, Without
    <3>2. Tail(b) = <<>>
      <4>1. Tail(b) \in Seq(PeerUpdate) /\ Len(Tail(b)) = 0
        BY <1>2, <2>1, HeadTailProperties
      <4> QED
        BY <4>1, EmptySeq
    <3> QED
      BY <3>1, <3>2 DEF Pending
  <2>2. CASE Len(b) # 1
    <3>1. id \in DOMAIN batch' /\ batch'[id] = Tail(b)
      BY <2>2 DEF NextMessage
    <3> QED
      BY <3>1 DEF Pending
  <2> QED
    BY <2>1, <2>2
<1>5. \A p \in DOMAIN peers \ {id} : Pending(p)' = Pending(p)
  <2>1. \A p \in DOMAIN peers \ {id} : /\ p \in DOMAIN batch' <=> p \in DOMAIN batch
                                       /\ p \in DOMAIN batch => batch'[p] = batch[p]
    BY DEF NextMessage, Without
  <2> QED
    BY <2>1 DEF Pending
<1> HIDE DEF b, u
<1> QED
  BY <1>2, <1>3, <1>4, <1>5 DEF b

\* A message processed as it says: the peer is followed still.
LEMMA ProcessedKeepsViews ==
  ASSUME IInv, ViewInv, NEW id \in DOMAIN batch, NextMessage(id),
         UNCHANGED <<newPeers, up, conn, peers>>, DownGrows,
         \A p \in DOMAIN peers \ {id} : priority'[p] = priority[p] /\ bitfields'[p] = bitfields[p],
         priority'[id].choking = Flipped(priority[id].choking, Head(batch[id]), "ChokingChange"),
         priority'[id].interested = Flipped(priority[id].interested, Head(batch[id]), "InterestedChange"),
         bitfields'[id] = bitfields[id] \cup Says1(Head(batch[id]))
  PROVE  ViewInv'
<1>1. /\ Pending(id) \in Seq(PeerUpdate) /\ Pending(id) # <<>>
      /\ Head(Pending(id)) = Head(batch[id]) /\ Pending(id)' = Tail(Pending(id))
      /\ \A p \in DOMAIN peers \ {id} : Pending(p)' = Pending(p)
  BY PendingNext
<1>2. id \in DOMAIN peers /\ peers[id] \in Conn /\ conn[peers[id]] \in ConnRecord
  BY DEF IInv, ProcessLooksUp, Typed
<1>3. priority[id].choking \in BOOLEAN /\ priority[id].interested \in BOOLEAN
  BY <1>2 DEF IInv, KeysAgree, Typed, PeerPriority
<1>4. OwnChannels'
  BY DEF ViewInv, OwnChannels
<1>5. Followed'
  <2>1. ASSUME Live(peers[id])
        PROVE  Follows(Pending(id)', conn[peers[id]], priority'[id].choking, priority'[id].interested,
                       bitfields'[id])
    <3>1. Follows(Pending(id), conn[peers[id]], priority[id].choking, priority[id].interested,
                  bitfields[id])
      BY <1>2, <2>1 DEF ViewInv, Followed
    <3>2. Follows(Tail(Pending(id)), conn[peers[id]],
                  Flipped(priority[id].choking, Head(Pending(id)), "ChokingChange"),
                  Flipped(priority[id].interested, Head(Pending(id)), "InterestedChange"),
                  bitfields[id] \cup Says1(Head(Pending(id))))
      BY <1>1, <1>2, <1>3, <3>1, FollowsProcessed
    <3> QED
      BY <1>1, <3>2
  <2>2. ASSUME NEW p \in DOMAIN peers \ {id}, Live(peers[p])
        PROVE  Follows(Pending(p)', conn[peers[p]], priority'[p].choking, priority'[p].interested,
                       bitfields'[p])
    BY <1>1, <2>2 DEF ViewInv, Followed
  <2>3. \A p \in DOMAIN peers : Live(peers[p]) =>
            Follows(Pending(p)', conn[peers[p]], priority'[p].choking, priority'[p].interested,
                    bitfields'[p])
    BY <2>1, <2>2
  <2> QED
    BY <2>3 DEF ViewInv, Followed, Live
<1>6. \A k \in Conn : ToController(k)' => ToController(k)
  BY DEF ToController
<1>7. \A n \in DOMAIN newPeers' : newPeers'[n].conn \in Conn
                /\ \E i \in DOMAIN newPeers : newPeers'[n].conn = newPeers[i].conn
  BY NewPeersTyped DEF IInv
<1> QED
  BY <1>4, <1>5, <1>6, <1>7, QueuesKept

\* A flip of a peer's flag, ...
LEMMA FlipKeepsViews ==
  ASSUME IInv, ViewInv, NEW id, ProcessFlip(id)
  PROVE  ViewInv'
<1> DEFINE m == Head(batch[id])
           p == priority[id]
<1>1. /\ id \in DOMAIN batch /\ NextMessage(id)
      /\ m.type \in {"InterestedChange", "ChokingChange"}
      /\ UNCHANGED <<newPeers, up, conn, peers, down, bitfields>>
  BY DEF ProcessFlip, Turn, controllerRest
<1>2. DownGrows
  BY <1>1, SendsNothing DEF ViewInv
<1>3. id \in DOMAIN priority /\ p \in PeerPriority
  BY <1>1 DEF IInv, ProcessLooksUp, KeysAgree, Typed
<1>4. Says1(m) = {}
  BY <1>1 DEF Says1
<1>5. /\ \A j \in DOMAIN priority \ {id} : priority'[j] = priority[j]
      /\ priority'[id].choking = Flipped(p.choking, m, "ChokingChange")
      /\ priority'[id].interested = Flipped(p.interested, m, "InterestedChange")
  <2>1. CASE m.type = "ChokingChange"
    <3> DEFINE r == [p EXCEPT !.choking = ~@]
    <3>1. r.choking = ~p.choking /\ r.interested = p.interested
      BY <1>3 DEF PeerPriority
    <3>2. priority' = [priority EXCEPT ![id] = r]
      BY <2>1 DEF ProcessFlip
    <3> HIDE DEF r, p, m
    <3> QED
      BY <1>3, <2>1, <3>1, <3>2 DEF Flipped
  <2>2. CASE m.type # "ChokingChange"
    <3> DEFINE r == [p EXCEPT !.interested = ~@]
    <3>1. r.interested = ~p.interested /\ r.choking = p.choking
      BY <1>3 DEF PeerPriority
    <3>2. priority' = [priority EXCEPT ![id] = r]
      BY <2>2 DEF ProcessFlip
    <3> HIDE DEF r, p, m
    <3> QED
      BY <1>1, <1>3, <2>2, <3>1, <3>2 DEF Flipped
  <2> QED
    BY <2>1, <2>2
<1>6. DOMAIN peers = DOMAIN priority
  BY DEF IInv, KeysAgree
<1> QED
  BY <1>1, <1>2, <1>4, <1>5, <1>6, ProcessedKeepsViews

\* ... pieces it has announced ...
LEMMA PiecesKeepViews ==
  ASSUME IInv, ViewInv, NEW id, ProcessPieces(id)
  PROVE  ViewInv'
<1> DEFINE m == Head(batch[id])
<1>1. id \in DOMAIN batch /\ m.type \in {"Have", "Bitfield"} /\ UNCHANGED <<conn, down>>
  BY DEF ProcessPieces, Turn, controllerRest
<1>2. id \in DOMAIN bitfields
  BY <1>1 DEF IInv, ProcessLooksUp, KeysAgree
<1>3. /\ bitfields' = [bitfields EXCEPT ![id] = Learned(@, m)] /\ NextMessage(id)
      /\ UNCHANGED <<newPeers, up, peers, priority>>
  BY <1>2 DEF ProcessPieces
<1> HIDE DEF m
<1>4. DownGrows
  BY <1>1, SendsNothing DEF ViewInv
<1>5. Learned(bitfields[id], m) = bitfields[id] \cup Says1(m)
  BY <1>1 DEF Learned, Says1
<1>6. /\ bitfields'[id] = bitfields[id] \cup Says1(m)
      /\ \A p \in DOMAIN bitfields \ {id} : bitfields'[p] = bitfields[p]
  BY <1>2, <1>3, <1>5
<1>7. DOMAIN peers = DOMAIN bitfields
  BY DEF IInv, KeysAgree
<1>8. /\ Flipped(priority[id].choking, m, "ChokingChange") = priority[id].choking
      /\ Flipped(priority[id].interested, m, "InterestedChange") = priority[id].interested
  BY <1>1 DEF Flipped
<1> QED
  BY <1>1, <1>3, <1>4, <1>6, <1>7, <1>8, ProcessedKeepsViews DEF m

\* ... and a piece it has sent us, of which every peer is told.
LEMMA DownloadedKeepsViews ==
  ASSUME IInv, ViewInv, NEW id, ProcessDownloaded(id)
  PROVE  ViewInv'
<1> DEFINE m == Head(batch[id])
           K == ConnsOf(DOMAIN peers)
           u == [type |-> "Have", piece |-> m.piece]
<1>1. /\ id \in DOMAIN batch /\ m.type = "Downloaded" /\ UNCHANGED conn /\ down' = SentDown(K, u)
  BY DEF ProcessDownloaded, Turn, controllerRest
<1>2. m \in PeerUpdate
  <2>1. batch[id] \in Seq(PeerUpdate) /\ batch[id] # <<>>
    BY <1>1 DEF IInv, Typed
  <2> QED
    BY <2>1, HeadTailProperties
<1>3. u \in ManagerUpdate /\ u.type # "Request"
  <2>1. m.piece \in Piece
    BY <1>1, <1>2 DEF PeerUpdate
  <2> QED
    BY <2>1 DEF ManagerUpdate
<1> HIDE DEF m, K, u
<1>4. DownGrows
  BY <1>1, <1>3, ConnsRegistered, SentGrows DEF IInv, ViewInv, K
<1>5. CASE poisoned
  BY <1>1, <1>4, <1>5, LeaveKeepsViews DEF ProcessDownloaded
<1>6. CASE ~poisoned
  <2>1. id \in DOMAIN priority /\ priority[id].hash \in DOMAIN torrents
    BY <1>1, <1>6 DEF IInv, ProcessLooksUp, KeysAgree
  <2>2. NextMessage(id) /\ UNCHANGED <<newPeers, up, registry>>
    BY <1>6, <2>1 DEF ProcessDownloaded
  <2>3. /\ Flipped(priority[id].choking, m, "ChokingChange") = priority[id].choking
        /\ Flipped(priority[id].interested, m, "InterestedChange") = priority[id].interested
        /\ bitfields[id] = bitfields[id] \cup Says1(m)
    BY <1>1 DEF Flipped, Says1
  <2> QED
    BY <1>1, <1>4, <2>2, <2>3, ProcessedKeepsViews DEF registry, m
<1> QED
  BY <1>5, <1>6

\* choke sends a word to every peer in the priorities.
LEMMA ChokeKeepsViews ==
  ASSUME IInv, ViewInv, Choke
  PROVE  ViewInv'
<1>1. DOMAIN priority \subseteq DOMAIN peers
  BY DEF IInv, KeysAgree
<1> DEFINE K == ConnsOf(DOMAIN priority)
<1>2. UNCHANGED <<up, conn, registry, batch, newPeers>>
  BY <1>1 DEF Choke, controllerRest
<1>3. PICK S : down' = [k \in Conn |-> IF ~Receives(k) \/ k \notin K THEN down[k]
                                       ELSE Append(down[k], [type |-> IF k \in ConnsOf(S)
                                                                      THEN "Unchoke" ELSE "Choke"])]
  BY <1>1 DEF Choke
<1> HIDE DEF K
<1> DEFINE w(k) == [type |-> IF k \in ConnsOf(S) THEN "Unchoke" ELSE "Choke"]
<1>4. \A k \in Conn : w(k) \in ManagerUpdate /\ w(k).type # "Request"
  BY DEF ManagerUpdate
<1>5. \A k \in Conn : down'[k] = IF ~Receives(k) \/ k \notin K THEN down[k] ELSE Append(down[k], w(k))
  BY <1>3
<1>6. down' \in [Conn -> Seq(ManagerUpdate)]
  <2>1. \A k \in Conn : Append(down[k], w(k)) \in Seq(ManagerUpdate) /\ down[k] \in Seq(ManagerUpdate)
    BY <1>4 DEF ViewInv, DownTyped
  <2> QED
    BY <1>3, <2>1
<1>7. \A k \in K : \E id \in DOMAIN peers : peers[id] = k
  BY ConnsRegistered DEF K, IInv
<1>8. \A k \in Conn : Receives(k) => Live(k)
  BY DEF Receives, Live
<1>9. DownGrows
  <2> HIDE DEF w
  <2> QED
    BY <1>4, <1>5, <1>6, <1>7, <1>8 DEF DownGrows
<1> QED
  BY <1>2, <1>9, ViewsKept DEF IInv

\* A request asks for a piece the controller's bitfield has, which the peer's then
\* has, whatever of it is still under way.
LEMMA RequestKeepsViews ==
  ASSUME IInv, ViewInv, RequestPiece
  PROVE  ViewInv'
<1>1. ctl = "requesting" /\ UNCHANGED conn
  BY DEF RequestPiece, ControllerAt, controllerRest
<1>2. \A h : Eligible(h) \subseteq DOMAIN bitfields \cap DOMAIN peers
  BY DEF Eligible, PeersOf, IInv, KeysAgree
<1>3. PICK s \in SelectPiece(torrents[Head(todo)]) :
        LET has == Servers(Head(todo), s.piece)
        IN  \/ UNCHANGED <<up, down, registry, batch, newPeers>>
            \/ \E id \in has :
                  IF Receives(peers[id])
                  THEN /\ down' = SentDown({peers[id]}, [type |-> "Request", piece |-> s.piece])
                       /\ UNCHANGED <<up, registry, batch, newPeers>>
                  ELSE Panic("send_request") /\ UNCHANGED down
  BY <1>2 DEF RequestPiece
<1> DEFINE has == Servers(Head(todo), s.piece)
           m == [type |-> "Request", piece |-> s.piece]
<1>4. CASE UNCHANGED <<up, down, registry, batch, newPeers>>
  BY <1>1, <1>4, SendsNothing, ViewsKept DEF IInv, ViewInv
<1>5. ASSUME NEW id \in has, ~Receives(peers[id]), Panic("send_request"), UNCHANGED down
      PROVE  ViewInv'
  BY <1>1, <1>5, SendsNothing, LeaveKeepsViews DEF Panic, ViewInv
<1>6. ASSUME NEW id \in has, Receives(peers[id]), down' = SentDown({peers[id]}, m),
             UNCHANGED <<up, registry, batch, newPeers>>
      PROVE  ViewInv'
  <2>1. id \in DOMAIN peers /\ s.piece \in bitfields[id]
    BY <1>2, <1>6 DEF Servers
  <2>2. peers[id] \in Conn
    BY <2>1 DEF IInv, Typed
  <2>3. Live(peers[id]) => s.piece \in conn[peers[id]].bits
    BY <2>1 DEF ViewInv, Followed, Follows
  <2>4. Live(peers[id])
    BY <1>6 DEF Receives, Live
  <2>5. m \in ManagerUpdate /\ m.piece = s.piece
    <3>1. s.piece \in Piece
      BY <2>2, <2>3, <2>4 DEF IInv, Typed, ConnRecord
    <3> QED
      BY <3>1 DEF ManagerUpdate
  <2> DEFINE K == {peers[id]}
  <2>6. /\ K \in SUBSET Conn /\ \A k \in K : \E p \in DOMAIN peers : peers[p] = k
        /\ \A k \in K : Live(k) => m.piece \in conn[k].bits
        /\ down' = SentDown(K, m)
    BY <1>6, <2>1, <2>2, <2>3, <2>5
  <2> HIDE DEF K, m
  <2>7. DownGrows
    BY <2>5, <2>6, SentGrows DEF IInv, ViewInv
  <2> QED
    BY <1>1, <1>6, <2>7, ViewsKept DEF IInv
<1> QED
  BY <1>3, <1>4, <1>5, <1>6

\* Every step of the controller.
LEMMA ControllerKeepsViews ==
  ASSUME IInv, ViewInv, ControllerNext
  PROVE  ViewInv'
<1> USE DEF lockVars, controllerRest
<1>0. ASSUME UNCHANGED <<up, conn, registry, batch, newPeers, down>> PROVE ViewInv'
  BY <1>0, SendsNothing, ViewsKept DEF IInv, ViewInv
<1>l. ASSUME NEW pc, Leave(pc), UNCHANGED <<conn, down>> PROVE ViewInv'
  BY <1>l, SendsNothing, LeaveKeepsViews DEF ViewInv
<1>1. CASE Sleep
  BY <1>0, <1>1 DEF Sleep
<1>2. CASE LockFails
  BY <1>2, <1>l DEF LockFails
<1>3. ASSUME NEW type, PauseOrResume(type) PROVE ViewInv'
  BY <1>0, <1>3 DEF PauseOrResume
<1>4. CASE Disconnect
  BY <1>4, <1>l DEF Disconnect
<1>5. CASE CommandsDone \/ NewPeersDone \/ SendUpdate \/ RequestsDone
  BY <1>0, <1>5 DEF CommandsDone, NewPeersDone, SendUpdate, RequestsDone, Proceed
<1>6. CASE MessagesDone
  BY <1>0, <1>6 DEF MessagesDone
<1>7. CASE LockRequests \/ TorrentDone
  BY <1>0, <1>7 DEF LockRequests, TorrentDone
<1>8. ASSUME NEW id, Process(id) PROVE ViewInv'
  BY <1>8, FlipKeepsViews, PiecesKeepViews, DisconnectKeepsViews, DownloadedKeepsViews DEF Process
<1> QED
  BY <1>1, <1>2, <1>3, <1>4, <1>5, <1>6, <1>7, <1>8, RemoveKeepsViews, RecvNewPeerKeepsViews,
     TakeKeepsViews, ChokeKeepsViews, RequestKeepsViews DEF ControllerNext

----------------------------------------------------------------------------
(* The theorems *)

\* At first no connection is in use.
LEMMA InitViews == Init => ViewInv
<1> SUFFICES ASSUME Init PROVE ViewInv
  OBVIOUS
<1> USE DEF Init, SwarmInit
<1>1. DOMAIN peers = {} /\ DOMAIN newPeers = {}
  OBVIOUS
<1>2. DownTyped /\ RequestsServable
  BY DEF DownTyped, RequestsServable
<1>3. OwnChannels /\ Unused /\ Followed
  BY <1>1 DEF OwnChannels, Unused, Followed, ToController
<1> QED
  BY <1>2, <1>3 DEF ViewInv

\* What the controller knows and has under way of a peer is what the connection
\* knows, throughout and for every peer, whichever ids are used again.
THEOREM ViewsCorrect == Spec => [](IInv /\ ViewInv)
<1>1. IInv /\ ViewInv /\ [Next]_vars => ViewInv'
  <2> SUFFICES ASSUME IInv, ViewInv, [Next]_vars PROVE ViewInv'
    OBVIOUS
  <2>1. Typed /\ KeysAgree
    BY DEF IInv
  <2> QED
    BY <2>1, OthersKeepViews, ConnectionKeepsViews, ControllerKeepsViews DEF Next
<1>2. Init => ViewInv
  BY InitViews
<1>3. Spec => []IInv
  BY Invariant
<1> QED
  BY <1>1, <1>2, <1>3, PTL DEF Spec

\* Counted and told as in a queue of messages.
LEMMA FollowedExact ==
  ASSUME IInv, ViewInv
  PROVE  ChokeViewExact /\ InterestViewExact /\ BitfieldViewExact
<1>1. \A id \in DOMAIN peers : Live(peers[id]) =>
        Follows(Pending(id), conn[peers[id]], priority[id].choking, priority[id].interested, bitfields[id])
  BY DEF ViewInv, Followed
<1>2. ChokeViewExact
  BY <1>1 DEF ChokeViewExact, Follows, Even
<1>3. InterestViewExact
  BY <1>1 DEF InterestViewExact, Follows, Even
<1>4. BitfieldViewExact
  BY <1>1 DEF BitfieldViewExact, Follows, Told
<1> QED
  BY <1>2, <1>3, <1>4

\* The controller's view of who chokes us, flipped once for each change under way,
\* is the connection's: no change is lost, repeated or taken for another peer's.
THEOREM ChokeViewCorrect == Spec => []ChokeViewExact
BY ViewsCorrect, FollowedExact, PTL

\* So is its view of who is interested.
THEOREM InterestViewCorrect == Spec => []InterestViewExact
BY ViewsCorrect, FollowedExact, PTL

\* And its bitfield of a peer, with the pieces under way, is the connection's.
THEOREM BitfieldViewCorrect == Spec => []BitfieldViewExact
BY ViewsCorrect, FollowedExact, PTL

\* A peer is asked only for pieces it announced, however old the bitfield the
\* controller decides from.
THEOREM RequestsAreServable == Spec => []RequestsServable
BY ViewsCorrect, PTL DEF ViewInv

----------------------------------------------------------------------------
(* Upload slots: never more peers are unchoked, or about to be, than there are *)
(* slots.  First the last word of a queue on choking.                          *)

Words(s) == Positions(s, "Choke") \cup Positions(s, "Unchoke")

\* What the queue s leaves of a connection that chokes, or not, as am says.
Word(s, am) ==
    IF Words(s) = {} THEN ~am
    ELSE s[CHOOSE n \in Words(s) : \A m \in Words(s) : m <= n].type = "Unchoke"

\* A choke or an unchoke.
OnChoking(m) == m.type \in {"Choke", "Unchoke"}

\* WillUnchoke is the last word.
LEMMA WillUnchokeIsWord ==
  ASSUME NEW k
  PROVE  WillUnchoke(k) <=> Word(down[k], conn[k].amChoking)
BY DEF WillUnchoke, Word, Words

\* Some numbers up to N have a last one, by well-founded induction on what is
\* left to N.
LEMMA LastOne ==
  ASSUME NEW N \in Nat, NEW T, T \subseteq 1..N, T # {}
  PROVE  \E n \in T : \A m \in T : m <= n
<1> DEFINE D == {N - n : n \in T}
           R == OpToRel(<, Nat)
<1>1. D \subseteq Nat /\ D # {}
  <2>1. \A n \in T : N - n \in Nat
    OBVIOUS
  <2>2. \E n \in T : N - n \in D
    OBVIOUS
  <2> QED
    BY <2>1, <2>2
<1>2. IsWellFoundedOn(R, Nat)
  BY NatLessThanWellFounded
<1>3. \A x, y \in Nat : y < x => <<y, x>> \in R
  BY DEF OpToRel
<1> HIDE DEF R
<1>4. PICK x \in D : \A y \in D : ~ (<<y, x>> \in R)
  <2> HIDE DEF D
  <2> QED
    BY <1>1, <1>2, WFMin
<1>5. PICK n \in T : x = N - n
  OBVIOUS
<1>6. ASSUME NEW m \in T PROVE m <= n
  <2>1. N - m \in D /\ N - m \in Nat /\ N - n \in Nat
    BY <1>1
  <2>2. ~(N - m < N - n)
    BY <1>3, <1>4, <1>5, <2>1
  <2> QED
    BY <2>2
<1> QED
  BY <1>6

\* The last word is the word at n, if that is the last.
LEMMA WordIs ==
  ASSUME NEW S, NEW s \in Seq(S), NEW am, NEW n \in Words(s), \A m \in Words(s) : m <= n
  PROVE  Word(s, am) <=> s[n].type = "Unchoke"
<1>1. Words(s) \subseteq Nat
  <2>1. DOMAIN s = 1..Len(s)
    BY LenProperties
  <2> QED
    BY <2>1 DEF Words, Positions
<1> DEFINE c == CHOOSE i \in Words(s) : \A m \in Words(s) : m <= i
<1>2. c \in Words(s) /\ \A m \in Words(s) : m <= c
  OBVIOUS
<1>3. c = n
  <2> HIDE DEF c
  <2> QED
    BY <1>1, <1>2
<1> HIDE DEF c
<1>4. Words(s) # {}
  OBVIOUS
<1> QED
  BY <1>3, <1>4 DEF Word, c

\* The words of a queue of one message more: the new one, if it is one.
LEMMA WordAppend ==
  ASSUME NEW S, NEW s \in Seq(S), NEW m \in S, NEW am
  PROVE  Word(Append(s, m), am) <=> IF OnChoking(m) THEN m.type = "Unchoke" ELSE Word(s, am)
<1> DEFINE r == Append(s, m)
<1>1. /\ DOMAIN s = 1..Len(s) /\ Len(s) \in Nat /\ r \in Seq(S)
      /\ \A n \in 1..Len(s) : r[n] = s[n]
      /\ r[Len(s) + 1] = m
  BY AppendProperties, LenProperties
<1>2. Words(s) \subseteq 1..Len(s)
  BY <1>1 DEF Words, Positions
<1>3. Words(r) = IF OnChoking(m) THEN Words(s) \cup {Len(s) + 1} ELSE Words(s)
  <2>1. /\ m.type = "Choke" => Positions(r, "Choke") = Positions(s, "Choke") \cup {Len(s) + 1}
        /\ m.type # "Choke" => Positions(r, "Choke") = Positions(s, "Choke")
    BY PositionsAppend
  <2>2. /\ m.type = "Unchoke" => Positions(r, "Unchoke") = Positions(s, "Unchoke") \cup {Len(s) + 1}
        /\ m.type # "Unchoke" => Positions(r, "Unchoke") = Positions(s, "Unchoke")
    BY PositionsAppend
  <2> HIDE DEF r
  <2> QED
    BY <2>1, <2>2 DEF Words, OnChoking
<1> HIDE DEF r
<1>4. CASE OnChoking(m)
  <2>1. Len(s) + 1 \in Words(r) /\ \A n \in Words(r) : n <= Len(s) + 1
    BY <1>1, <1>2, <1>3, <1>4
  <2>2. Word(r, am) <=> r[Len(s) + 1].type = "Unchoke"
    BY <1>1, <2>1, WordIs
  <2> QED
    BY <1>1, <1>4, <2>2 DEF r
<1>5. CASE ~OnChoking(m) /\ Words(s) = {}
  BY <1>3, <1>5 DEF Word, r
<1>6. CASE ~OnChoking(m) /\ Words(s) # {}
  <2>1. Words(r) = Words(s)
    BY <1>3, <1>6
  <2>2. PICK n \in Words(s) : \A i \in Words(s) : i <= n
    BY <1>1, <1>2, <1>6, LastOne
  <2>3. r[n] = s[n]
    BY <1>1, <1>2
  <2>4. Word(s, am) <=> s[n].type = "Unchoke"
    BY <2>2, WordIs
  <2>5. Word(r, am) <=> r[n].type = "Unchoke"
    BY <1>1, <2>1, <2>2, WordIs
  <2> QED
    BY <1>6, <2>3, <2>4, <2>5 DEF r
<1> QED
  BY <1>4, <1>5, <1>6

\* A connection that takes a message leaves the last word as it was.
LEMMA WordTail ==
  ASSUME NEW S, NEW s \in Seq(S), s # <<>>, NEW am, NEW told,
         told = IF OnChoking(Head(s)) THEN Head(s).type = "Choke" ELSE am
  PROVE  Word(Tail(s), told) <=> Word(s, am)
<1> DEFINE r == Tail(s)
<1>1. /\ DOMAIN s = 1..Len(s) /\ Len(s) \in Nat \ {0} /\ Head(s) = s[1]
      /\ r \in Seq(S) /\ DOMAIN r = 1..Len(s) - 1
      /\ \A n \in 1..Len(s) - 1 : r[n] = s[n + 1]
  BY HeadTailProperties, LenProperties
<1> HIDE DEF r
<1>2. /\ \A n : n \in Words(s) <=> n \in 1..Len(s) /\ OnChoking(s[n])
      /\ \A n : n \in Words(r) <=> n \in 1..Len(s) - 1 /\ OnChoking(r[n])
  BY <1>1 DEF Words, Positions, OnChoking
<1>3. \A n \in Words(r) : n \in Nat /\ n + 1 \in Words(s) /\ n + 1 > 1
  BY <1>1, <1>2
<1>4. \A n \in Words(s) : n # 1 => n - 1 \in Words(r) /\ r[n - 1] = s[n]
  <2> SUFFICES ASSUME NEW n \in Words(s), n # 1 PROVE n - 1 \in Words(r) /\ r[n - 1] = s[n]
    OBVIOUS
  <2>1. n \in 1..Len(s) /\ OnChoking(s[n])
    BY <1>2
  <2>2. n - 1 \in 1..Len(s) - 1 /\ (n - 1) + 1 = n
    BY <1>1, <2>1
  <2>3. r[n - 1] = s[n]
    BY <1>1, <2>2
  <2> QED
    BY <1>2, <2>1, <2>2, <2>3
<1>5. 1 \in Words(s) <=> OnChoking(Head(s))
  BY <1>1, <1>2
<1>6. CASE Words(s) = {}
  <2>1. Words(r) = {}
    BY <1>3, <1>6
  <2> QED
    BY <1>5, <1>6, <2>1 DEF Word, r
<1>7. CASE Words(s) # {}
  <2>1. PICK n \in Words(s) : \A m \in Words(s) : m <= n
    BY <1>1, <1>2, <1>7, LastOne
  <2>2. Word(s, am) <=> s[n].type = "Unchoke"
    BY <2>1, WordIs
  <2>3. CASE n = 1
    <3>1. Words(r) = {}
      <4>1. \A m \in Words(r) : m + 1 <= n
        BY <1>3, <2>1
      <4>2. \A m \in Words(r) : FALSE
        BY <1>3, <2>3, <4>1
      <4> QED
        BY <4>2
    <3>2. OnChoking(Head(s)) /\ s[n] = Head(s)
      BY <1>1, <1>5, <2>3
    <3>3. ~told <=> Head(s).type = "Unchoke"
      BY <3>2 DEF OnChoking
    <3>4. Word(r, told) <=> ~told
      BY <3>1 DEF Word
    <3> QED
      BY <2>2, <3>2, <3>3, <3>4 DEF r
  <2>4. CASE n # 1
    <3>1. n - 1 \in Words(r) /\ r[n - 1] = s[n]
      BY <1>4, <2>4
    <3>2. \A m \in Words(r) : m <= n - 1
      <4> SUFFICES ASSUME NEW m \in Words(r) PROVE m <= n - 1
        OBVIOUS
      <4>1. m \in Nat /\ m + 1 <= n /\ n \in Nat
        BY <1>2, <1>3, <2>1
      <4> QED
        BY <4>1
    <3>3. Word(r, told) <=> r[n - 1].type = "Unchoke"
      BY <1>1, <3>1, <3>2, WordIs
    <3> QED
      BY <2>2, <3>1, <3>3 DEF r
  <2> QED
    BY <2>3, <2>4
<1> QED
  BY <1>6, <1>7

\* Nothing said, it is as it was.
LEMMA WordEmpty ==
  ASSUME NEW am
  PROVE  Word(<<>>, am) <=> ~am
<1>1. Words(<<>>) = {}
  BY DEF Words, Positions
<1> QED
  BY <1>1 DEF Word

----------------------------------------------------------------------------
(* The slots *)

\* The peers unchoked, or about to be.
Slots == {id \in DOMAIN peers : Live(peers[id]) /\ WillUnchoke(peers[id])}

\* They are peers, and so finitely many.
LEMMA SlotsFinite ==
  ASSUME IInv
  PROVE  IsFiniteSet(Slots) /\ Cardinality(Slots) \in Nat
<1>1. Slots \in SUBSET DOMAIN peers
  BY DEF Slots
<1> QED
  BY <1>1, Counts, FS_Subset, FS_CardinalityType

\* A step after which every peer that takes a slot took it before.
LEMMA SlotsShrink ==
  ASSUME IInv, UploadSlots, Slots' \subseteq Slots
  PROVE  UploadSlots'
<1>1. Cardinality(Slots') <= Cardinality(Slots) /\ Cardinality(Slots') \in Nat
  BY SlotsFinite, FS_Subset, FS_CardinalityType
<1>2. Cardinality(Slots) <= MaxUnchoked
  BY DEF UploadSlots, Slots
<1>3. Cardinality(Slots') <= MaxUnchoked
  BY <1>1, <1>2, SlotsFinite, MaxUnchokedAssumption
<1> QED
  BY <1>3 DEF UploadSlots, Slots

\* Connection k, if it will be unchoked after the step, would have been before it.
Same(k) ==
    conn'[k].pc \in {"start", "running"} =>
        /\ Live(k)
        /\ Word(down'[k], conn'[k].amChoking) => Word(down[k], conn[k].amChoking)

\* Every peer is one there was, no more unchoked than before.
LEMMA SameShrinks ==
  ASSUME IInv, UploadSlots,
         \A id \in DOMAIN peers' : id \in DOMAIN peers /\ peers'[id] = peers[id] /\ Same(peers[id])
  PROVE  UploadSlots'
<1>1. ASSUME NEW id \in Slots' PROVE id \in Slots
  <2> DEFINE k == peers[id]
  <2>1. id \in DOMAIN peers' /\ Live(peers[id])' /\ WillUnchoke(peers[id])'
    BY <1>1 DEF Slots
  <2>2. id \in DOMAIN peers /\ peers'[id] = k /\ Same(k)
    BY <2>1
  <2>3. conn'[k].pc \in {"start", "running"} /\ Word(down'[k], conn'[k].amChoking)
    BY <2>1, <2>2, WillUnchokeIsWord DEF Live, WillUnchoke, Word, Words, Positions
  <2>4. Live(k) /\ Word(down[k], conn[k].amChoking)
    BY <2>2, <2>3 DEF Same, Live
  <2> QED
    BY <2>2, <2>4, WillUnchokeIsWord DEF Slots
<1> QED
  BY <1>1, SlotsShrink

\* A connection takes, or is dropped: it never adds a word.
LEMMA ConnectionKeepsSlots ==
  ASSUME IInv, ViewInv, UploadSlots, NEW k \in Conn, ConnectionNext(k)
  PROVE  UploadSlots'
<1>1. Acts(k) /\ Says(k) /\ UNCHANGED peers
  BY ConnectionActs, ConnectionSays, ConnectionFrame DEF IInv, ViewInv, registry
<1>2. \A j \in Conn \ {k} : Same(j)
  BY <1>1 DEF Acts, Same, Live
<1>3. Same(k)
  <2>1. Live(k)
    BY <1>1 DEF Says, Live
  <2>2. CASE Ends(k)
    BY <2>2 DEF Ends, Same, Live
  <2>3. CASE Tells(k) \/ GoesOn(k)
    BY <2>1, <2>3 DEF Tells, GoesOn, Same
  <2>4. CASE Obeys(k)
    <3> DEFINE s == down[k]
               told == conn'[k].amChoking
    <3>1. /\ s # <<>> /\ down'[k] = Tail(s)
          /\ told = IF OnChoking(Head(s)) THEN Head(s).type = "Choke" ELSE conn[k].amChoking
      BY <2>4 DEF Obeys, OnChoking
    <3>2. s \in Seq(ManagerUpdate)
      BY DEF ViewInv, DownTyped
    <3> HIDE DEF s, told
    <3>3. Word(Tail(s), told) <=> Word(s, conn[k].amChoking)
      BY <3>1, <3>2, WordTail
    <3> QED
      BY <2>1, <3>1, <3>3 DEF Same, s, told
  <2> QED
    BY <1>1, <2>2, <2>3, <2>4 DEF Acts
<1>4. \A id \in DOMAIN peers : peers[id] \in Conn
  BY DEF IInv, Typed
<1> QED
  BY <1>1, <1>2, <1>3, <1>4, SameShrinks

\* The controller says no word on choking.
NoWord ==
    \A k \in Conn : \/ down'[k] = down[k]
                    \/ \E m \in ManagerUpdate : down'[k] = Append(down[k], m) /\ ~OnChoking(m)

\* Then every connection is as before.
LEMMA NoWordSame ==
  ASSUME ViewInv, UNCHANGED conn, NoWord
  PROVE  \A k \in Conn : Same(k)
<1> SUFFICES ASSUME NEW k \in Conn PROVE Same(k)
  OBVIOUS
<1>1. CASE down'[k] = down[k]
  BY <1>1 DEF Same, Live
<1>2. ASSUME NEW m \in ManagerUpdate, down'[k] = Append(down[k], m), ~OnChoking(m) PROVE Same(k)
  <2>1. down[k] \in Seq(ManagerUpdate)
    BY DEF ViewInv, DownTyped
  <2>2. Word(Append(down[k], m), conn[k].amChoking) <=> Word(down[k], conn[k].amChoking)
    BY <1>2, <2>1, WordAppend
  <2> QED
    BY <1>2, <2>2 DEF Same, Live
<1> QED
  BY <1>1, <1>2 DEF NoWord

\* A message to some, not a word on choking.
LEMMA SentNoWord ==
  ASSUME NEW K, NEW m \in ManagerUpdate, ~OnChoking(m), down' = SentDown(K, m)
  PROVE  NoWord
BY DEF SentDown, NoWord

\* The controller's steps that say no word and take up nobody.
LEMMA NoWordKeepsSlots ==
  ASSUME IInv, ViewInv, UploadSlots, UNCHANGED conn, NoWord,
         \A id \in DOMAIN peers' : id \in DOMAIN peers /\ peers'[id] = peers[id]
  PROVE  UploadSlots'
<1>1. \A id \in DOMAIN peers : peers[id] \in Conn
  BY DEF IInv, Typed
<1> QED
  BY <1>1, NoWordSame, SameShrinks

\* A peer taken up is choked, and nothing has been said to it.
LEMMA RecvNewPeerKeepsSlots ==
  ASSUME IInv, ViewInv, UploadSlots, RecvNewPeer
  PROVE  UploadSlots'
<1> DEFINE m == Head(newPeers)
           k == m.conn
           x == m.id
<1>0. newPeers # <<>> /\ UNCHANGED <<conn, down>>
  BY DEF RecvNewPeer, controllerRest
<1>1. 1 \in DOMAIN newPeers /\ m = newPeers[1] /\ k \in Conn
  BY <1>0, NewPeersTyped DEF IInv
<1>2. CASE m.hash \notin DOMAIN torrents
  <2>1. DOMAIN peers' = {}
    BY <1>2 DEF RecvNewPeer, Panic, Leave
  <2>2. NoWord
    BY <1>0 DEF NoWord
  <2> QED
    BY <1>0, <2>1, <2>2, NoWordKeepsSlots
<1>3. CASE m.hash \in DOMAIN torrents
  <2>1. peers' = Inserted(peers, x, k)
    BY <1>3 DEF RecvNewPeer
  <2>2. down[k] = <<>> /\ (Live(k) => conn[k].amChoking)
    BY <1>1 DEF ViewInv, Unused
  <2> HIDE DEF k, x, m
  <2>3. /\ peers'[x] = k
        /\ \A id \in DOMAIN peers' \ {x} : id \in DOMAIN peers /\ peers'[id] = peers[id]
    BY <2>1 DEF Inserted
  <2>4. ASSUME NEW id \in Slots' PROVE id \in Slots
    <3>1. id \in DOMAIN peers' /\ Live(peers[id])' /\ WillUnchoke(peers[id])'
      BY <2>4 DEF Slots
    <3>2. conn[peers'[id]].pc \in {"start", "running"}
          /\ Word(down[peers'[id]], conn[peers'[id]].amChoking)
      BY <1>0, <3>1 DEF Live, WillUnchoke, Word, Words, Positions
    <3>3. id # x
      <4>1. ASSUME id = x PROVE FALSE
        <5>1. conn[k].pc \in {"start", "running"} /\ Word(<<>>, conn[k].amChoking)
          BY <2>2, <2>3, <3>2, <4>1
        <5>2. conn[k].amChoking
          BY <2>2, <5>1 DEF Live
        <5> QED
          BY <5>1, <5>2, WordEmpty
      <4> QED
        BY <4>1
    <3>4. id \in DOMAIN peers /\ peers'[id] = peers[id]
      BY <2>3, <3>1, <3>3
    <3> QED
      BY <3>2, <3>4, WillUnchokeIsWord DEF Slots, Live
  <2> QED
    BY <2>4, SlotsShrink
<1> QED
  BY <1>2, <1>3

\* choke gives the slots anew: the last word to every peer but the uploaders is
\* Choke.
LEMMA ChokeKeepsSlots ==
  ASSUME IInv, ViewInv, UploadSlots, Choke
  PROVE  UploadSlots'
<1>1. DOMAIN priority = DOMAIN peers /\ \A id \in DOMAIN peers : peers[id] \in Conn
  BY DEF IInv, KeysAgree, Typed
<1>2. UNCHANGED <<conn, peers>>
  BY <1>1 DEF Choke, controllerRest, registry
<1> DEFINE K == ConnsOf(DOMAIN priority)
<1>3. PICK S \in Favoured(Uploaders) :
          down' = [k \in Conn |-> IF ~Receives(k) \/ k \notin K THEN down[k]
                                  ELSE Append(down[k], [type |-> IF k \in ConnsOf(S)
                                                                 THEN "Unchoke" ELSE "Choke"])]
  BY <1>1 DEF Choke
<1>4. S \subseteq DOMAIN peers /\ Cardinality(S) = Uploaders
  BY <1>1 DEF Favoured
<1> DEFINE w(k) == [type |-> IF k \in ConnsOf(S) THEN "Unchoke" ELSE "Choke"]
<1>5. \A k \in Conn : /\ w(k) \in ManagerUpdate /\ OnChoking(w(k))
                      /\ w(k).type = "Unchoke" <=> k \in ConnsOf(S)
  BY DEF ManagerUpdate, OnChoking
<1>6. \A k \in Conn : down'[k] = IF ~Receives(k) \/ k \notin K THEN down[k] ELSE Append(down[k], w(k))
  BY <1>3
<1>7. ASSUME NEW id \in Slots' PROVE id \in S
  <2> DEFINE k == peers[id]
  <2>1. id \in DOMAIN peers /\ conn[k].pc \in {"start", "running"} /\ Word(down'[k], conn[k].amChoking)
    BY <1>2, <1>7 DEF Slots, Live, WillUnchoke, Word, Words, Positions
  <2>2. k \in Conn /\ k \in K /\ Receives(k)
    BY <1>1, <2>1 DEF ConnsOf, Receives
  <2> HIDE DEF K, k, w
  <2>3. down'[k] = Append(down[k], w(k))
    BY <1>6, <2>2
  <2>4. down[k] \in Seq(ManagerUpdate)
    BY <2>2 DEF ViewInv, DownTyped
  <2>5. Word(Append(down[k], w(k)), conn[k].amChoking) <=> w(k).type = "Unchoke"
    BY <1>5, <2>2, <2>4, WordAppend
  <2>6. k \in ConnsOf(S)
    BY <1>5, <2>1, <2>2, <2>3, <2>5
  <2> QED
    BY <2>1, <2>6 DEF ConnsOf, ViewInv, OwnChannels, k
<1>8. Cardinality(Slots') <= Cardinality(S) /\ Cardinality(S) \in Nat /\ Cardinality(Slots') \in Nat
  <2>1. IsFiniteSet(S)
    BY <1>4, Counts, FS_Subset
  <2> QED
    BY <1>7, <2>1, FS_Subset, FS_CardinalityType
<1>9. Uploaders <= MaxUnchoked
  <2>1. Cardinality(DOMAIN priority) \in Nat
    BY <1>1, Counts
  <2> QED
    BY <2>1, MaxUnchokedAssumption DEF Uploaders
<1>10. Cardinality(Slots') <= MaxUnchoked
  BY <1>4, <1>8, <1>9, MaxUnchokedAssumption
<1> QED
  BY <1>10 DEF UploadSlots, Slots

\* Every step of the controller.
LEMMA ControllerKeepsSlots ==
  ASSUME IInv, ViewInv, UploadSlots, ControllerNext
  PROVE  UploadSlots'
<1> USE DEF lockVars, controllerRest, registry
<1>0. ASSUME UNCHANGED <<conn, down>>,
             \A id \in DOMAIN peers' : id \in DOMAIN peers /\ peers'[id] = peers[id]
      PROVE  UploadSlots'
  BY <1>0, NoWordKeepsSlots DEF NoWord
<1>l. ASSUME NEW pc, Leave(pc) PROVE DOMAIN peers' = {}
  BY <1>l DEF Leave
<1>1. CASE Sleep
  BY <1>0, <1>1 DEF Sleep
<1>2. CASE LockFails
  BY <1>0, <1>2, <1>l DEF LockFails
<1>3. ASSUME NEW type, PauseOrResume(type) PROVE UploadSlots'
  BY <1>0, <1>3 DEF PauseOrResume
<1>4. CASE Disconnect
  BY <1>0, <1>4, <1>l DEF Disconnect
<1>5. CASE CommandsDone \/ NewPeersDone \/ SendUpdate \/ RequestsDone
  BY <1>0, <1>5 DEF CommandsDone, NewPeersDone, SendUpdate, RequestsDone, Proceed
<1>6. CASE MessagesDone \/ TakeMessages \/ LockRequests \/ TorrentDone
  BY <1>0, <1>6 DEF MessagesDone, TakeMessages, LockRequests, TorrentDone
<1>7. CASE RemoveTorrent
  <2> DEFINE h   == Head(commands).hash
             ids == PeersOf(h)
             m   == [type |-> "Disconnect"]
  <2>1. UNCHANGED conn
    BY <1>7 DEF RemoveTorrent
  <2>2. CASE h \notin DOMAIN torrents
    BY <1>0, <1>7, <2>1, <2>2 DEF RemoveTorrent
  <2>3. CASE h \in DOMAIN torrents
    <3>1. ids \subseteq DOMAIN peers
      BY DEF PeersOf, IInv, KeysAgree
    <3>2. peers' = Without(peers, ids) /\ down' = SentDown(ConnsOf(ids), m)
      BY <1>7, <2>3, <3>1 DEF RemoveTorrent, RemovePeers
    <3>3. m \in ManagerUpdate /\ ~OnChoking(m)
      BY DEF ManagerUpdate, OnChoking
    <3> HIDE DEF m, ids
    <3>4. NoWord
      BY <3>2, <3>3, SentNoWord
    <3> QED
      BY <2>1, <3>2, <3>4, NoWordKeepsSlots DEF Without
  <2> QED
    BY <2>2, <2>3
<1>8. ASSUME NEW id, ProcessFlip(id) \/ ProcessPieces(id) \/ ProcessDisconnect(id) PROVE UploadSlots'
  <2>1. CASE ProcessFlip(id)
    BY <1>0, <2>1 DEF ProcessFlip
  <2>2. CASE ProcessPieces(id)
    BY <1>0, <1>l, <2>2 DEF ProcessPieces, Panic
  <2>3. CASE ProcessDisconnect(id)
    BY <1>0, <2>3 DEF ProcessDisconnect, RemovePeers, Without
  <2> QED
    BY <1>8, <2>1, <2>2, <2>3
<1>9. ASSUME NEW id, ProcessDownloaded(id) PROVE UploadSlots'
  <2> DEFINE m == Head(batch[id])
             u == [type |-> "Have", piece |-> m.piece]
             K == ConnsOf(DOMAIN peers)
  <2>1. id \in DOMAIN batch /\ m.type = "Downloaded" /\ UNCHANGED conn /\ down' = SentDown(K, u)
    BY <1>9 DEF ProcessDownloaded, Turn
  <2>2. m \in PeerUpdate
    <3>1. batch[id] \in Seq(PeerUpdate) /\ batch[id] # <<>>
      BY <2>1 DEF IInv, Typed
    <3> QED
      BY <3>1, HeadTailProperties
  <2>3. u \in ManagerUpdate /\ ~OnChoking(u)
    <3>1. m.piece \in Piece
      BY <2>1, <2>2 DEF PeerUpdate
    <3> QED
      BY <3>1 DEF ManagerUpdate, OnChoking
  <2> HIDE DEF m, u, K
  <2>4. NoWord
    BY <2>1, <2>3, SentNoWord
  <2>5. UNCHANGED peers \/ DOMAIN peers' = {}
    BY <1>9, <1>l DEF ProcessDownloaded, Panic
  <2> QED
    BY <2>1, <2>4, <2>5, NoWordKeepsSlots
<1>10. CASE RequestPiece
  <2>1. UNCHANGED conn
    BY <1>10 DEF RequestPiece
  <2>2. PICK s \in SelectPiece(torrents[Head(todo)]) :
          \/ UNCHANGED <<down, peers>>
          \/ UNCHANGED down /\ DOMAIN peers' = {}
          \/ \E id \in Servers(Head(todo), s.piece) :
                /\ Receives(peers[id]) /\ UNCHANGED peers
                /\ down' = SentDown({peers[id]}, [type |-> "Request", piece |-> s.piece])
    BY <1>10, <1>l DEF RequestPiece, Panic
  <2> DEFINE m == [type |-> "Request", piece |-> s.piece]
  <2>3. CASE UNCHANGED <<down, peers>> \/ (UNCHANGED down /\ DOMAIN peers' = {})
    BY <1>0, <2>1, <2>3
  <2>4. ASSUME NEW id \in Servers(Head(todo), s.piece), Receives(peers[id]),
               down' = SentDown({peers[id]}, m), UNCHANGED peers
        PROVE  UploadSlots'
    <3>1. id \in DOMAIN peers /\ s.piece \in bitfields[id]
      BY <2>4 DEF Servers, Eligible, PeersOf, IInv, KeysAgree
    <3>2. peers[id] \in Conn /\ Live(peers[id])
      BY <2>4, <3>1 DEF IInv, Typed, Receives, Live
    <3>3. s.piece \in Piece
      BY <3>1, <3>2 DEF ViewInv, Followed, Follows, IInv, Typed, ConnRecord
    <3>4. m \in ManagerUpdate /\ ~OnChoking(m)
      BY <3>3 DEF ManagerUpdate, OnChoking
    <3> HIDE DEF m
    <3>5. NoWord
      BY <2>4, <3>4, SentNoWord
    <3> QED
      BY <2>1, <2>4, <3>5, NoWordKeepsSlots
  <2> QED
    BY <2>2, <2>3, <2>4
<1> QED
  BY <1>1, <1>2, <1>3, <1>4, <1>5, <1>6, <1>7, <1>8, <1>9, <1>10, RecvNewPeerKeepsSlots,
     ChokeKeepsSlots DEF ControllerNext, Process

\* A step of the others: a connection made is of no peer yet.
LEMMA OthersKeepSlots ==
  ASSUME IInv, ViewInv, UploadSlots,
         ManagerNext \/ ClientNext \/ (\E c \in Connector : ConnectorNext(c)) \/ UNCHANGED vars
  PROVE  UploadSlots'
<1>0. ASSUME UNCHANGED <<down, peers>>,
             \A k \in Conn : conn'[k] = conn[k] \/ conn[k].pc = "free"
      PROVE  UploadSlots'
  <2>1. \A id \in DOMAIN peers : peers[id] \in Conn /\ conn[peers[id]].pc # "free"
    BY DEF ViewInv, Unused, ToController, IInv, Typed
  <2>2. \A id \in DOMAIN peers : conn'[peers[id]] = conn[peers[id]]
    BY <1>0, <2>1
  <2> QED
    BY <1>0, <2>2, SameShrinks DEF Same, Live
<1>1. CASE ManagerNext
  BY <1>0, <1>1, ManagerFrame DEF ManagerNext, AddTorrent, EndAnnounce, handlerRest, registry
<1>2. CASE ClientNext
  BY <1>0, <1>2 DEF ClientNext, ClientSends, controllerRest, ctlVars, registry
<1>3. ASSUME NEW c \in Connector, ConnectorNext(c) PROVE UploadSlots'
  <2>1. UNCHANGED <<down, peers>>
    BY <1>3 DEF ConnectorNext, ConnectorProceeds, Connect, HandshakeFails, HandshakeRead,
       HandshakeUnknown, Create, Count, Register, ConnectorDies, handlerRest, ctlVars, registry
  <2>2. \A k \in Conn : conn'[k] = conn[k] \/ conn[k].pc = "free"
    <3>1. CASE Register(c)
      BY <3>1 DEF Register, IInv, Typed
    <3>2. CASE ~Register(c)
      BY <1>3, <3>2 DEF ConnectorNext, ConnectorProceeds, Connect, HandshakeFails, HandshakeRead,
         HandshakeUnknown, Create, Count, ConnectorDies
    <3> QED
      BY <3>1, <3>2
  <2> QED
    BY <1>0, <2>1, <2>2
<1>4. CASE UNCHANGED vars
  BY <1>0, <1>4 DEF vars, ctlVars, registry
<1> QED
  BY <1>1, <1>2, <1>3, <1>4

----------------------------------------------------------------------------
(* The theorem *)

\* Nobody is unchoked at first.
LEMMA InitSlots == Init => UploadSlots
<1> SUFFICES ASSUME Init PROVE UploadSlots
  OBVIOUS
<1>1. Slots = {}
  BY DEF Init, SwarmInit, Slots
<1>2. Cardinality(Slots) = 0
  BY <1>1, FS_EmptySet
<1> QED
  BY <1>2, MaxUnchokedAssumption DEF UploadSlots, Slots

\* No more than max_uploaders of the registered peers are, once the messages under
\* way are taken, unchoked: whatever peers come, hang up and come again with an id
\* in use between two chokes, and however far each connection is behind.
THEOREM UploadSlotsBounded == Spec => []UploadSlots
<1>1. IInv /\ ViewInv /\ UploadSlots /\ [Next]_vars => UploadSlots'
  <2> SUFFICES ASSUME IInv, ViewInv, UploadSlots, [Next]_vars PROVE UploadSlots'
    OBVIOUS
  <2> QED
    BY OthersKeepSlots, ConnectionKeepsSlots, ControllerKeepsSlots DEF Next
<1> QED
  BY <1>1, InitSlots, ViewsCorrect, PTL DEF Spec

----------------------------------------------------------------------------
(* The torrents.  The inductive invariant: one already reported is Settled,   *)
(* which every call keeps, so that set_complete cannot succeed again; that    *)
(* needs each torrent to be Good.                                             *)

TorrentsInv ==
    /\ DOMAIN torrents \subseteq Hash
    /\ completions \in [Hash -> 0..1]
    /\ \A h \in DOMAIN torrents :
          Good(torrents[h]) /\ (completions[h] = 1 => Settled(torrents[h]))

\* A call on torrent h that keeps it in order, whatever else happens.
LEMMA OneChanged ==
  ASSUME TorrentsInv, NEW h \in DOMAIN torrents, NEW t, Good(t),
         Settled(torrents[h]) => Settled(t),
         torrents' = [torrents EXCEPT ![h] = t], UNCHANGED completions
  PROVE  TorrentsInv'
BY DEF TorrentsInv

\* A step that changes no torrent, or takes some away.
LEMMA NoneChanged ==
  ASSUME TorrentsInv, DOMAIN torrents' \subseteq DOMAIN torrents, UNCHANGED completions,
         \A h \in DOMAIN torrents' : torrents'[h] = torrents[h]
  PROVE  TorrentsInv'
BY DEF TorrentsInv

----------------------------------------------------------------------------
(* The steps of a connection *)

\* A gain or a loss of the pieces S; a panic leaves the torrent as it was.
LEMMA ShiftKeepsTorrents ==
  ASSUME TorrentsInv, NEW k, NEW peer, NEW S \in SUBSET Piece, NEW d \in {-1, 1}, NEW m,
         ShiftAndSend(k, peer, S, d, m), UNCHANGED completions
  PROVE  TorrentsInv'
<1> DEFINE h == conn[k].hash
           t == torrents[h]
<1>1. CASE UNCHANGED torrents
  BY <1>1, NoneChanged
<1>2. CASE /\ h \in DOMAIN torrents /\ ~ChangePanics(t.pq, S, d)
           /\ torrents' = [torrents EXCEPT ![h] = UpdatePriority(t, S, d)]
  <2>1. Good(t)
    BY <1>2 DEF TorrentsInv
  <2>2. Good(UpdatePriority(t, S, d))
    BY <1>2, <2>1, UpdateGood
  <2>3. Settled(t) => Settled(UpdatePriority(t, S, d))
    BY <2>1, UpdateStatus DEF Good, Settled, Finished
  <2> HIDE DEF h
  <2> QED
    BY <1>2, <2>2, <2>3, OneChanged
<1> QED
  BY <1>1, <1>2 DEF ShiftAndSend, LockOrEnd, PanicLocked, UpdateTorrent, Mine, lockVars

\* A block, whole or not, valid or not.
LEMMA ReadPieceKeepsTorrents ==
  ASSUME TorrentsInv, NEW k, NEW i \in Piece, NEW whole \in BOOLEAN, NEW valid \in BOOLEAN,
         ReadPiece(k, i, whole, valid)
  PROVE  TorrentsInv'
<1> DEFINE h == conn[k].hash
           t == torrents[h]
           r == WriteBlock(t, i, whole, valid)
<1>0. UNCHANGED completions
  BY DEF ReadPiece, connRest, ctlVars
<1>1. CASE UNCHANGED torrents
  BY <1>0, <1>1, NoneChanged
<1>2. CASE h \in DOMAIN torrents /\ torrents' = [torrents EXCEPT ![h] = r]
  <2>1. Good(t)
    BY <1>2 DEF TorrentsInv
  <2>2. Good(r)
    BY <2>1, WriteGood
  <2>3. t.have \subseteq r.have /\ r.have \subseteq Piece /\ r.status = t.status
    BY <2>1, WriteStatus DEF Good
  <2>4. Settled(t) => Settled(r)
    BY <2>3 DEF Settled, Finished
  <2> HIDE DEF h, r
  <2> QED
    BY <1>0, <1>2, <2>2, <2>4, OneChanged
<1> QED
  BY <1>1, <1>2 DEF ReadPiece, LockOrEnd, PanicLocked, UpdateTorrent, Mine, lockVars

\* Every step of a connection.
LEMMA ConnectionKeepsTorrents ==
  ASSUME Typed, TorrentsInv, NEW k \in Conn, ConnectionNext(k)
  PROVE  TorrentsInv'
<1>0. conn[k].bits \in SUBSET Piece
  BY DEF Typed, ConnRecord
<1> DEFINE Quiet == UNCHANGED <<torrents, completions>>
<1>1. CASE Quiet
  BY <1>1, NoneChanged
<1>2. CASE Begin(k) \/ ReadInterested(k) \/ ReadRequest(k) \/ ReadPort(k) \/ TakeManagerUpdate(k)
  <2>1. Quiet
    BY <1>2 DEF Begin, ReadInterested, ReadRequest, ReadPort, TakeManagerUpdate, LockOrEnd, PanicLocked,
       JustSend, lockVars, connRest, ctlVars
  <2> QED
    BY <1>1, <2>1
<1>3. CASE ReadChoke(k)
  <2> DEFINE choke == ~conn[k].peerChoking
             d == IF choke THEN -1 ELSE 1
  <2>1. d \in {-1, 1}
    OBVIOUS
  <2>2. ShiftAndSend(k, [conn[k] EXCEPT !.peerChoking = choke], conn[k].bits, d,
                     [type |-> "ChokingChange"])
        /\ UNCHANGED completions
    BY <1>3 DEF ReadChoke, connRest, ctlVars
  <2> HIDE DEF choke, d
  <2> QED
    BY <1>0, <2>1, <2>2, ShiftKeepsTorrents
<1>4. ASSUME NEW i \in Piece, ReadHave(k, i) PROVE TorrentsInv'
  <2> DEFINE peer == [conn[k] EXCEPT !.bits = @ \cup {i}]
             told == [type |-> "Have", piece |-> i]
  <2>1. (ShiftAndSend(k, peer, {i}, 1, told) \/ JustSend(k, peer, told)) /\ UNCHANGED completions
    BY <1>4 DEF ReadHave, connRest, ctlVars
  <2> HIDE DEF peer, told
  <2> QED
    BY <1>1, <2>1, ShiftKeepsTorrents DEF JustSend, lockVars
<1>5. ASSUME NEW bits \in SUBSET Piece, ReadBitfield(k, bits) PROVE TorrentsInv'
  <2> DEFINE all  == conn[k].bits \cup bits
             peer == [conn[k] EXCEPT !.bits = all]
             told == [type |-> "Bitfield", bits |-> all]
  <2>1. (ShiftAndSend(k, peer, all, 1, told) \/ JustSend(k, peer, told)) /\ UNCHANGED completions
    BY <1>5 DEF ReadBitfield, connRest, ctlVars
  <2>2. all \in SUBSET Piece
    BY <1>0
  <2> HIDE DEF all, peer, told
  <2> QED
    BY <1>1, <2>1, <2>2, ShiftKeepsTorrents DEF JustSend, lockVars
<1>6. CASE ReadEOF(k)
  <2> DEFINE h == conn[k].hash
             t == torrents[h]
             r == UpdatePriority(t, conn[k].bits, -1)
  <2>1. \/ Quiet
        \/ /\ h \in DOMAIN torrents /\ ~ChangePanics(t.pq, conn[k].bits, -1)
           /\ torrents' = [torrents EXCEPT ![h] = r] /\ UNCHANGED completions
    BY <1>6 DEF ReadEOF, LockOrEnd, PanicLocked, Mine, lockVars, connRest, ctlVars
  <2>2. CASE /\ h \in DOMAIN torrents /\ ~ChangePanics(t.pq, conn[k].bits, -1)
             /\ torrents' = [torrents EXCEPT ![h] = r] /\ UNCHANGED completions
    <3>1. Good(t)
      BY <2>2 DEF TorrentsInv
    <3>2. Good(r)
      BY <1>0, <2>2, <3>1, UpdateGood
    <3>3. Settled(t) => Settled(r)
      BY <3>1, UpdateStatus DEF Good, Settled, Finished
    <3> HIDE DEF h, r
    <3> QED
      BY <2>2, <3>2, <3>3, OneChanged
  <2> QED
    BY <1>1, <2>1, <2>2
<1> QED
  BY <1>2, <1>3, <1>4, <1>5, <1>6, ReadPieceKeepsTorrents DEF ConnectionNext, ReadMessage

----------------------------------------------------------------------------
(* The steps of the Manager, the connectors and the client *)

\* A torrent added is new, and has not been reported.
LEMMA ManagerKeepsTorrents ==
  ASSUME TorrentsInv, ManagerNext
  PROVE  TorrentsInv'
<1>1. CASE EndAnnounce
  BY <1>1, NoneChanged DEF EndAnnounce, lockVars, handlerRest, ctlVars
<1>2. ASSUME NEW h \in Hash, NEW downloaded \in BOOLEAN, AddTorrent(h, downloaded) PROVE TorrentsInv'
  <2>1. CASE UNCHANGED <<torrents, completions>>
    BY <2>1, NoneChanged
  <2>2. CASE /\ torrents' = [g \in DOMAIN torrents \cup {h} |->
                                IF g = h THEN NewTorrent(downloaded) ELSE torrents[g]]
             /\ completions' = [completions EXCEPT ![h] = 0]
    <3>1. Good(NewTorrent(downloaded))
      BY NewGood
    <3>2. /\ DOMAIN torrents' = DOMAIN torrents \cup {h}
          /\ \A g \in DOMAIN torrents' :
                torrents'[g] = IF g = h THEN NewTorrent(downloaded) ELSE torrents[g]
      BY <2>2
    <3>3. completions' \in [Hash -> 0..1] /\ completions'[h] = 0
          /\ \A g \in Hash : g # h => completions'[g] = completions[g]
      BY <2>2 DEF TorrentsInv
    <3> QED
      BY <3>1, <3>2, <3>3 DEF TorrentsInv
  <2> QED
    BY <1>2, <2>1, <2>2 DEF AddTorrent
<1> QED
  BY <1>1, <1>2 DEF ManagerNext

\* The others leave the torrents alone.
LEMMA OthersKeepTorrents ==
  ASSUME TorrentsInv, ClientNext \/ (\E c \in Connector : ConnectorNext(c)) \/ UNCHANGED vars
  PROVE  TorrentsInv'
<1>1. CASE ClientNext
  BY <1>1, NoneChanged DEF ClientNext, ClientSends, lockVars, ctlVars
<1>2. ASSUME NEW c \in Connector, ConnectorNext(c) PROVE TorrentsInv'
  <2>1. UNCHANGED torrents
    BY <1>2, ConnectorFrame
  <2>2. UNCHANGED completions
    BY <1>2 DEF ConnectorNext, ConnectorProceeds, Connect, HandshakeFails, HandshakeRead,
       HandshakeUnknown, Create, Count, Register, ConnectorDies, handlerRest, ctlVars
  <2> QED
    BY <2>1, <2>2, NoneChanged
<1>3. CASE UNCHANGED vars
  BY <1>3, NoneChanged DEF vars, lockVars, ctlVars
<1> QED
  BY <1>1, <1>2, <1>3

----------------------------------------------------------------------------
(* The steps of the controller *)

\* process: SetComplete, counted when it completes the torrent.
LEMMA DownloadedKeepsTorrents ==
  ASSUME TorrentsInv, NEW id, ProcessDownloaded(id)
  PROVE  TorrentsInv'
<1> DEFINE h == priority[id].hash
           t == torrents[h]
<1>1. CASE UNCHANGED <<torrents, completions>>
  BY <1>1, NoneChanged
<1>2. CASE /\ h \in DOMAIN torrents
           /\ torrents' = [torrents EXCEPT ![h] = SetComplete(@)]
           /\ completions' = [completions EXCEPT ![h] = IF MayComplete(torrents[h])
                                                       THEN completions[h] + 1
                                                       ELSE completions[h]]
  <2>1. Good(t) /\ h \in Hash /\ completions[h] \in 0..1 /\ (completions[h] = 1 => Settled(t))
    BY <1>2 DEF TorrentsInv
  <2>2. Good(SetComplete(t))
    BY <2>1, CompleteGood
  <2>3. /\ Settled(t) => Settled(SetComplete(t)) /\ ~MayComplete(t)
        /\ MayComplete(t) => Settled(SetComplete(t))
    BY <2>1, CompleteStatus DEF Good
  <2>4. torrents' = [torrents EXCEPT ![h] = SetComplete(t)]
    BY <1>2
  <2>5. CASE ~MayComplete(t)
    <3>1. completions' = [completions EXCEPT ![h] = completions[h]]
      BY <1>2, <2>5
    <3>2. UNCHANGED completions
      BY <2>1, <3>1 DEF TorrentsInv
    <3> HIDE DEF h
    <3> QED
      BY <1>2, <2>2, <2>3, <2>4, <3>2, OneChanged
  <2>6. CASE MayComplete(t)
    <3>1. completions[h] = 0
      BY <2>1, <2>3, <2>6
    <3>2. completions' = [completions EXCEPT ![h] = 1]
      BY <1>2, <2>6, <3>1
    <3> HIDE DEF h
    <3>3. /\ completions' \in [Hash -> 0..1]
          /\ \A g \in Hash : g # h => completions'[g] = completions[g]
      <4>1. completions \in [Hash -> 0..1] /\ 1 \in 0..1
        BY DEF TorrentsInv
      <4> QED
        BY <3>2, <4>1
    <3>4. DOMAIN torrents' = DOMAIN torrents /\ torrents'[h] = SetComplete(t)
          /\ \A g \in DOMAIN torrents : g # h => torrents'[g] = torrents[g]
      BY <1>2, <2>4
    <3> QED
      BY <2>2, <2>3, <2>6, <3>3, <3>4 DEF TorrentsInv
  <2> QED
    BY <2>5, <2>6
<1> QED
  BY <1>1, <1>2 DEF ProcessDownloaded, lockVars

\* make_requests selects a piece of the torrent at hand, below the limit.
LEMMA RequestKeepsTorrents ==
  ASSUME TorrentsInv, RequestPiece
  PROVE  TorrentsInv'
<1> DEFINE h == Head(todo)
           t == torrents[h]
<1>1. PICK s \in SelectPiece(t) : torrents' = [torrents EXCEPT ![h] = s.next]
  BY DEF RequestPiece
<1>2. MayRequest(t) /\ UNCHANGED completions
  BY DEF RequestPiece, Asking
<1>3. CASE h \in DOMAIN torrents
  <2>1. Good(t)
    BY <1>3 DEF TorrentsInv
  <2>2. Good(s.next)
    BY <1>2, <2>1, SelectGood
  <2>3. Settled(t) => Settled(s.next)
    BY <2>1, SelectStatus DEF Good, Settled, Finished
  <2> HIDE DEF h
  <2> QED
    BY <1>1, <1>2, <1>3, <2>2, <2>3, OneChanged
<1>4. CASE h \notin DOMAIN torrents
  BY <1>1, <1>2, <1>4, NoneChanged
<1> QED
  BY <1>3, <1>4

\* Every step of the controller.
LEMMA ControllerKeepsTorrents ==
  ASSUME TorrentsInv, ControllerNext
  PROVE  TorrentsInv'
<1> DEFINE Quiet == UNCHANGED <<torrents, completions>>
<1>0. CASE Quiet
  BY <1>0, NoneChanged
<1>1. CASE Sleep
  <2>1. torrents' = [h \in DOMAIN torrents |-> Aged(torrents[h])] /\ UNCHANGED completions
    BY <1>1 DEF Sleep
  <2>2. ASSUME NEW h \in DOMAIN torrents
        PROVE  Good(Aged(torrents[h])) /\ (Settled(torrents[h]) => Settled(Aged(torrents[h])))
    <3>1. Good(torrents[h])
      BY DEF TorrentsInv
    <3> QED
      BY <3>1, AgedGood, AgedStatus DEF Good, Settled, Finished
  <2> QED
    BY <2>1, <2>2 DEF TorrentsInv
<1>2. ASSUME NEW type, PauseOrResume(type) PROVE TorrentsInv'
  <2> DEFINE h == Head(commands).hash
             t == torrents[h]
             b == type = "Pause"
  <2>1. CASE h \notin DOMAIN torrents
    BY <1>0, <1>2, <2>1 DEF PauseOrResume
  <2>2. CASE h \in DOMAIN torrents
    <3>1. torrents' = [torrents EXCEPT ![h] = Pause(t, b)] /\ UNCHANGED completions
      BY <1>2, <2>2 DEF PauseOrResume
    <3>2. Good(t) /\ b \in BOOLEAN
      BY <2>2 DEF TorrentsInv
    <3> HIDE DEF b
    <3>3. Good(Pause(t, b)) /\ (Settled(t) => Settled(Pause(t, b)))
      BY <3>2, PauseGood, PauseStatus DEF Good
    <3> HIDE DEF h
    <3> QED
      BY <2>2, <3>1, <3>3, OneChanged
  <2> QED
    BY <2>1, <2>2
<1>3. CASE RemoveTorrent
  <2>1. /\ UNCHANGED torrents \/ torrents' = Without(torrents, {Head(commands).hash})
        /\ UNCHANGED completions
    BY <1>3 DEF RemoveTorrent, Panic, lockVars
  <2> QED
    BY <2>1, NoneChanged DEF Without
<1>4. CASE \/ LockFails \/ Disconnect \/ CommandsDone \/ RecvNewPeer \/ NewPeersDone \/ SendUpdate
           \/ TakeMessages \/ MessagesDone \/ Choke \/ LockRequests \/ TorrentDone \/ RequestsDone
  <2>1. Quiet
    BY <1>4 DEF LockFails, Disconnect, CommandsDone, RecvNewPeer, NewPeersDone, SendUpdate,
       TakeMessages, MessagesDone, Choke, LockRequests, TorrentDone, RequestsDone, Proceed, lockVars
  <2> QED
    BY <1>0, <2>1
<1>5. ASSUME NEW id, Process(id) PROVE TorrentsInv'
  <2>1. CASE ProcessFlip(id) \/ ProcessPieces(id) \/ ProcessDisconnect(id)
    BY <1>0, <2>1 DEF ProcessFlip, ProcessPieces, ProcessDisconnect, lockVars
  <2> QED
    BY <1>5, <2>1, DownloadedKeepsTorrents DEF Process
<1> QED
  BY <1>1, <1>2, <1>3, <1>4, <1>5, RequestKeepsTorrents DEF ControllerNext

----------------------------------------------------------------------------
(* The theorems *)

\* Every torrent is in order and its completion is counted once, whatever the
\* threads do.
THEOREM TorrentsCorrect == Spec => []TorrentsInv
<1>1. Init => TorrentsInv
  BY DEF Init, SwarmInit, TorrentsInv
<1>2. IInv /\ TorrentsInv /\ [Next]_vars => TorrentsInv'
  <2> SUFFICES ASSUME IInv, TorrentsInv, [Next]_vars PROVE TorrentsInv'
    OBVIOUS
  <2>1. Typed
    BY DEF IInv
  <2> QED
    BY <2>1, ManagerKeepsTorrents, ConnectionKeepsTorrents, ControllerKeepsTorrents,
       OthersKeepTorrents DEF Next
<1> QED
  BY <1>1, <1>2, Invariant, PTL DEF Spec

\* A torrent is reported complete at most once after it is added, and only with
\* every piece there: once completed it stays finished and never runs again.
THEOREM CompletionReportedOnce == Spec => []CompletedOnce
<1>1. TorrentsInv => CompletedOnce
  BY DEF TorrentsInv, CompletedOnce, Settled
<1> QED
  BY <1>1, TorrentsCorrect, PTL

----------------------------------------------------------------------------
(* The other variables *)

\* What the variables of no other invariant hold.
RestTyped ==
    /\ poisoned \in BOOLEAN
    /\ crashed \subseteq Site
    /\ announcing \in Hash \cup {NoHash}
    /\ ctl \in CtlPC
    /\ tick \in 0..Period
    /\ todo \in Seq(Hash)
    /\ commands \in Seq(ClientMsg)

\* The controller ends.
LEMMA LeaveTyped ==
  ASSUME RestTyped, NEW pc \in {"stopped", "panicked"}, Leave(pc), UNCHANGED <<announcing, tick>>,
         poisoned' \in BOOLEAN, crashed' \subseteq Site
  PROVE  RestTyped'
BY DEF RestTyped, Leave, CtlPC

\* A connection sets at most the poison and the calls panicked in.
LEMMA ConnectionRestTyped ==
  ASSUME RestTyped, NEW k \in Conn, ConnectionNext(k)
  PROVE  RestTyped'
<1>1. UNCHANGED <<announcing, ctl, tick, todo, commands>>
  BY DEF ConnectionNext, ReadMessage, Begin, ReadChoke, ReadInterested, ReadHave, ReadPiece,
     ReadBitfield, ReadRequest, ReadPort, ReadEOF, TakeManagerUpdate, connRest, connectorVars, ctlVars
<1>2. crashed' \subseteq Site
  BY ConnectionFrame DEF RestTyped, Site
<1>3. poisoned' \in BOOLEAN
  BY DEF ConnectionNext, ReadMessage, Begin, ReadChoke, ReadInterested, ReadHave, ReadPiece,
     ReadBitfield, ReadRequest, ReadPort, ReadEOF, HangUp, TakeManagerUpdate, ShiftAndSend,
     JustSend, LockOrEnd, PanicLocked, UpdateTorrent, lockVars, RestTyped
<1> QED
  BY <1>1, <1>2, <1>3 DEF RestTyped

\* The Manager, its client and the connectors.
LEMMA OthersRestTyped ==
  ASSUME RestTyped,
         ManagerNext \/ ClientNext \/ (\E c \in Connector : ConnectorNext(c)) \/ UNCHANGED vars
  PROVE  RestTyped'
<1>1. CASE ManagerNext
  <2>1. announcing' \in Hash \cup {NoHash} /\ UNCHANGED <<ctl, tick, todo, commands>>
    BY <1>1 DEF ManagerNext, AddTorrent, EndAnnounce, handlerRest, ctlVars, RestTyped
  <2> QED
    BY <1>1, <2>1, ManagerFrame DEF RestTyped
<1>2. CASE ClientNext
  <2>1. PICK m \in ClientMsg : ClientSends(m)
    BY <1>2 DEF ClientNext
  <2>2. commands' \in Seq(ClientMsg)
    BY <2>1 DEF ClientSends, RestTyped
  <2> QED
    BY <2>1, <2>2 DEF ClientSends, RestTyped, lockVars, controllerRest, connectorVars, ctlVars
<1>3. ASSUME NEW c \in Connector, ConnectorNext(c) PROVE RestTyped'
  <2>1. poisoned' \in BOOLEAN /\ UNCHANGED <<announcing, ctl, tick, todo, commands>>
    BY <1>3 DEF ConnectorNext, ConnectorProceeds, Connect, HandshakeFails, HandshakeRead,
       HandshakeUnknown, Create, Count, Register, ConnectorDies, handlerRest, ctlVars, lockVars,
       RestTyped
  <2>2. crashed' \subseteq Site
    BY <1>3, ConnectorFrame DEF RestTyped, Site
  <2> QED
    BY <2>1, <2>2 DEF RestTyped
<1>4. CASE UNCHANGED vars
  BY <1>4 DEF vars, lockVars, connectorVars, ctlVars, RestTyped
<1> QED
  BY <1>1, <1>2, <1>3, <1>4

\* The torrents gone through are those of the map, in some order.
LEMMA TodoTyped ==
  ASSUME TorrentsInv, LockRequests
  PROVE  todo' \in Seq(Hash)
<1> DEFINE T == {h \in DOMAIN torrents : torrents[h].status = "Running"}
           n == Cardinality(T)
<1>1. T \subseteq Hash
  BY DEF TorrentsInv
<1>2. n \in Nat
  BY <1>1, HashAssumption, FS_Subset, FS_CardinalityType
<1>3. todo' \in [1..n -> T]
  <2>1. todo' \in [1..SeqExt!Cardinality(T) -> T]
    BY DEF LockRequests, SeqExt!SetToSeqs
  <2>2. SeqExt!Cardinality(T) = n
    BY DEF SeqExt!Cardinality, Cardinality
  <2> QED
    BY <2>1, <2>2
<1> HIDE DEF T, n
<1>4. todo' \in [1..n -> Hash]
  BY <1>1, <1>3
<1> HIDE DEF n
<1>5. \E j \in Nat : todo' \in [1..j -> Hash]
  BY <1>2, <1>4
<1> QED
  BY <1>5, SeqDef

\* The controller.
LEMMA ControllerRestTyped ==
  ASSUME RestTyped, TorrentsInv, ControllerNext
  PROVE  RestTyped'
<1> USE DEF lockVars, controllerRest, connectorVars, ControllerAt
<1> DEFINE Kept == UNCHANGED <<poisoned, crashed, announcing, tick, todo, commands>>
<1>0. ASSUME Kept, ctl' \in CtlPC PROVE RestTyped'
  BY <1>0 DEF RestTyped
<1>c. ctl \in CtlPC
  BY DEF RestTyped
<1>1. CASE Sleep
  <2>1. tick' \in 0..Period
    BY <1>1, PeriodAssumption DEF Sleep, RestTyped
  <2>2. ctl' = "recv_client" /\ UNCHANGED <<poisoned, crashed, announcing, todo, commands>>
    BY <1>1 DEF Sleep
  <2> QED
    BY <2>1, <2>2 DEF RestTyped, CtlPC
<1>2. CASE LockFails
  BY <1>2, LeaveTyped DEF LockFails, RestTyped
<1>3. ASSUME NEW type, PauseOrResume(type) PROVE RestTyped'
  <2>1. commands' = Tail(commands) /\ commands # <<>>
        /\ UNCHANGED <<poisoned, crashed, announcing, ctl, tick, todo>>
    BY <1>3 DEF PauseOrResume, Command
  <2>2. commands' \in Seq(ClientMsg)
    BY <2>1, HeadTailProperties DEF RestTyped
  <2> QED
    BY <2>1, <2>2 DEF RestTyped
<1>4. CASE Disconnect
  BY <1>4, LeaveTyped DEF Disconnect, RestTyped
<1>5. CASE CommandsDone \/ NewPeersDone \/ SendUpdate \/ RequestsDone
  <2>1. Kept /\ ctl' \in {"recv_new_peer", "send_update", "check", "sleep"}
    BY <1>5 DEF CommandsDone, NewPeersDone, SendUpdate, RequestsDone, Proceed
  <2> QED
    BY <1>0, <2>1 DEF CtlPC
<1>6. CASE MessagesDone \/ TakeMessages
  <2>1. Kept /\ ctl' \in {"process", "choke", "sleep"}
    BY <1>6 DEF MessagesDone, TakeMessages
  <2> QED
    BY <1>0, <2>1 DEF CtlPC
<1>7. CASE LockRequests
  BY <1>7, TodoTyped DEF LockRequests, RestTyped, CtlPC
<1>8. CASE TorrentDone
  <2>1. todo' \in Seq(Hash)
    BY <1>8, HeadTailProperties DEF TorrentDone, RestTyped
  <2> QED
    BY <1>8, <2>1 DEF TorrentDone, RestTyped
<1>9. CASE RemoveTorrent
  <2>1. \/ commands' = Tail(commands) /\ UNCHANGED <<poisoned, crashed, announcing, ctl, tick, todo>>
        \/ /\ Leave("panicked") /\ poisoned' = TRUE /\ crashed' = crashed \cup {"recv_client"}
           /\ UNCHANGED <<announcing, tick>>
    BY <1>9 DEF RemoveTorrent, Panic
  <2>2. commands # <<>>
    BY <1>9 DEF RemoveTorrent, Command
  <2>3. CASE commands' = Tail(commands) /\ UNCHANGED <<poisoned, crashed, announcing, ctl, tick, todo>>
    <3>1. commands' \in Seq(ClientMsg)
      BY <2>2, <2>3, HeadTailProperties DEF RestTyped
    <3> QED
      BY <2>3, <3>1 DEF RestTyped
  <2>4. CASE /\ Leave("panicked") /\ poisoned' = TRUE /\ crashed' = crashed \cup {"recv_client"}
             /\ UNCHANGED <<announcing, tick>>
    BY <2>4, LeaveTyped DEF RestTyped, Site
  <2> QED
    BY <2>1, <2>3, <2>4
<1>10. ASSUME Leave("panicked"), poisoned' \in BOOLEAN, UNCHANGED <<announcing, tick>>,
              crashed' \subseteq crashed \cup Site
       PROVE  RestTyped'
  <2>1. crashed' \subseteq Site
    BY <1>10 DEF RestTyped
  <2> QED
    BY <1>10, <2>1, LeaveTyped
<1>11. CASE RecvNewPeer
  <2>1. UNCHANGED <<announcing, tick>>
    BY <1>11 DEF RecvNewPeer
  <2>2. CASE UNCHANGED <<poisoned, crashed, ctl, todo, commands>>
    BY <1>0, <1>c, <2>1, <2>2
  <2>3. CASE Panic("try_recv_new_peer") /\ poisoned' = TRUE
    BY <1>10, <2>1, <2>3 DEF Panic, Site
  <2> QED
    BY <1>11, <2>2, <2>3 DEF RecvNewPeer
<1>12. ASSUME NEW id, Process(id) PROVE RestTyped'
  <2>1. UNCHANGED <<announcing, tick>>
    BY <1>12 DEF Process, ProcessFlip, ProcessPieces, ProcessDisconnect, ProcessDownloaded
  <2>2. CASE UNCHANGED <<poisoned, crashed, ctl, todo, commands>>
    BY <1>0, <1>c, <2>1, <2>2
  <2>3. CASE Panic("process") /\ poisoned' \in BOOLEAN
    BY <1>10, <2>1, <2>3 DEF Panic, Site
  <2>4. CASE Leave("panicked") /\ UNCHANGED <<poisoned, crashed>>
    BY <1>10, <2>1, <2>4 DEF RestTyped
  <2>5. poisoned \in BOOLEAN
    BY DEF RestTyped
  <2> QED
    BY <1>12, <2>2, <2>3, <2>4, <2>5
       DEF Process, ProcessFlip, ProcessPieces, ProcessDisconnect, ProcessDownloaded
<1>13. CASE Choke
  <2>1. UNCHANGED <<announcing, tick, poisoned>> /\ poisoned \in BOOLEAN
    BY <1>13 DEF Choke, RestTyped
  <2>2. CASE ctl' = "lock_requests" /\ UNCHANGED <<crashed, todo, commands>>
    BY <1>0, <2>1, <2>2 DEF CtlPC
  <2>3. CASE Panic("choke")
    BY <1>10, <2>1, <2>3 DEF Panic, Site
  <2> QED
    BY <1>13, <2>2, <2>3 DEF Choke
<1>14. CASE RequestPiece
  <2>1. UNCHANGED <<announcing, tick>>
    BY <1>14 DEF RequestPiece
  <2>2. CASE UNCHANGED <<poisoned, crashed, ctl, todo, commands>>
    BY <1>0, <1>c, <2>1, <2>2
  <2>3. ASSUME NEW site \in Site, Panic(site), poisoned' = TRUE PROVE RestTyped'
    BY <1>10, <2>1, <2>3 DEF Panic
  <2>4. "make_requests" \in Site /\ "send_request" \in Site
    BY DEF Site
  <2> QED
    BY <1>14, <2>2, <2>3, <2>4 DEF RequestPiece
<1> QED
  BY <1>1, <1>2, <1>3, <1>4, <1>5, <1>6, <1>7, <1>8, <1>9, <1>11, <1>12, <1>13, <1>14
     DEF ControllerNext

\* What all the variables of Swarm hold, whatever happens.
THEOREM TypeCorrect == Spec => []TypeOK
<1>1. Init => RestTyped
  <2> SUFFICES ASSUME Init PROVE RestTyped
    OBVIOUS
  <2>1. 0 \in 0..Period /\ <<>> \in Seq(Hash) /\ <<>> \in Seq(ClientMsg)
    BY PeriodAssumption
  <2>2. /\ poisoned = FALSE /\ crashed = {} /\ announcing = NoHash /\ ctl = "sleep"
        /\ tick = 0 /\ todo = <<>> /\ commands = <<>>
    BY DEF Init, SwarmInit
  <2>3. FALSE \in BOOLEAN /\ {} \subseteq Site /\ NoHash \in Hash \cup {NoHash} /\ "sleep" \in CtlPC
    BY DEF CtlPC
  <2> QED
    BY <2>1, <2>2, <2>3 DEF RestTyped
<1>2. TorrentsInv /\ RestTyped /\ [Next]_vars => RestTyped'
  BY ConnectionRestTyped, OthersRestTyped, ControllerRestTyped DEF Next
<1>3. IInv /\ ViewInv /\ TorrentsInv /\ RestTyped => TypeOK
  <2> SUFFICES ASSUME IInv, ViewInv, TorrentsInv, RestTyped PROVE TypeOK
    OBVIOUS
  <2>1. \A h \in DOMAIN torrents : IsTorrent(torrents[h])
    BY DEF TorrentsInv, Good
  <2>2. \A k \in Conn : /\ up[k] \in Seq(PeerUpdate) /\ down[k] \in Seq(ManagerUpdate)
                        /\ conn[k].pc \in ConnPC /\ conn[k].bits \subseteq Piece
    BY DEF IInv, Typed, ViewInv, DownTyped, ConnRecord
  <2>3. \A c \in Connector : connector[c].pc \in ConnectorPC
    BY DEF IInv, Typed, ConnectorRecord
  <2>4. DOMAIN priority \subseteq PeerId
    BY DEF IInv, Typed, KeysAgree
  <2> QED
    BY <2>1, <2>2, <2>3, <2>4 DEF IInv, Typed, TorrentsInv, RestTyped, TypeOK
<1> QED
  BY <1>1, <1>2, <1>3, ViewsCorrect, TorrentsCorrect, PTL DEF Spec
====
