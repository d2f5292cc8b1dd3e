---- MODULE UpdatesProofs ----
(* Theorems about Updates, for any torrents and bounds: what the webserver     *)
(* shows after it took a batch of messages is what taking them one by one      *)
(* would show, so that it implements Board; and the table of the terminal      *)
(* client takes out the row of the torrent that completed.                     *)
EXTENDS Updates, FoldLemmas, SequenceTheorems, FiniteSetTheorems, TLAPS

----------------------------------------------------------------------------
(* Messages, and the descriptions of torrents they leave. *)

TheInfo == [hash : Hash, status : Status]
List == {seq \in Seq(TheInfo) : \A m, n \in DOMAIN seq : seq[m].hash = seq[n].hash => m = n}
Message == [type : {"All"}, infos : List] \cup [type : {"One"}, info : TheInfo]

\* What may be known of the torrents: a status of some of them.
Maps == UNION {[S -> Status] : S \in SUBSET Hash}

\* A map is a function to statuses.
LEMMA MapsAre ==
  ASSUME NEW map
  PROVE  map \in Maps <=> /\ map = [h \in DOMAIN map |-> map[h]]
                          /\ DOMAIN map \subseteq Hash
                          /\ \A h \in DOMAIN map : map[h] \in Status
<1>1. ASSUME map \in Maps
      PROVE  /\ map = [h \in DOMAIN map |-> map[h]] /\ DOMAIN map \subseteq Hash
             /\ \A h \in DOMAIN map : map[h] \in Status
  <2>1. PICK S \in SUBSET Hash : map \in [S -> Status]
    BY <1>1 DEF Maps
  <2> QED
    BY <2>1
<1>2. ASSUME map = [h \in DOMAIN map |-> map[h]], DOMAIN map \subseteq Hash,
             \A h \in DOMAIN map : map[h] \in Status
      PROVE  map \in Maps
  <2>1. map \in [DOMAIN map -> Status]
    BY <1>2
  <2> QED
    BY <1>2, <2>1 DEF Maps
<1> QED
  BY <1>1, <1>2

\* A message lists torrents or tells one.
LEMMA MessageIs ==
  ASSUME NEW m \in Message
  PROVE  /\ m.type \in {"All", "One"}
         /\ m.type = "All" => m.infos \in List /\ m.infos \in Seq(TheInfo)
         /\ m.type # "All" => m.info \in TheInfo
  BY DEF Message, List

\* An All, as a map.
LEMMA AsMapIs ==
  ASSUME NEW seq \in Seq(TheInfo)
  PROVE  AsMap(seq) \in Maps
<1>1. ASSUME NEW h \in {seq[n].hash : n \in DOMAIN seq}
      PROVE  h \in Hash /\ (CHOOSE i \in ToSet(seq) : i.hash = h).status \in Status
  <2>1. PICK n \in DOMAIN seq : h = seq[n].hash
    OBVIOUS
  <2>2. seq[n] \in TheInfo /\ seq[n] \in ToSet(seq)
    BY DEF ToSet
  <2>3. h \in Hash
    BY <2>1, <2>2 DEF TheInfo
  <2>4. \E i \in ToSet(seq) : i.hash = h
    BY <2>1, <2>2
  <2>5. (CHOOSE i \in ToSet(seq) : i.hash = h) \in ToSet(seq)
    BY <2>4
  <2>6. \A i \in ToSet(seq) : i \in TheInfo
    BY DEF ToSet
  <2> QED
    BY <2>3, <2>5, <2>6 DEF TheInfo
<1>2. AsMap(seq) = [h \in {seq[n].hash : n \in DOMAIN seq} |->
                       (CHOOSE i \in ToSet(seq) : i.hash = h).status]
  BY Zenon DEF AsMap
<1>3. AsMap(seq) \in [{seq[n].hash : n \in DOMAIN seq} -> Status]
  BY <1>1, <1>2
<1>4. {seq[n].hash : n \in DOMAIN seq} \in SUBSET Hash
  BY <1>1
<1> QED
  BY <1>3, <1>4 DEF Maps

\* A completion put on top.
LEMMA OverlaidIs ==
  ASSUME NEW map \in Maps, NEW info \in TheInfo
  PROVE  Overlaid(map, info) \in Maps
<1>1. info.hash \in Hash /\ info.status \in Status
  BY DEF TheInfo
<1>2. DOMAIN map \subseteq Hash /\ \A h \in DOMAIN map : map[h] \in Status
  BY MapsAre
<1>3. Overlaid(map, info) \in [DOMAIN map \cup {info.hash} -> Status]
  BY <1>1, <1>2 DEF Overlaid
<1>4. DOMAIN map \cup {info.hash} \in SUBSET Hash
  BY <1>1, <1>2
<1> QED
  BY <1>3, <1>4 DEF Maps

----------------------------------------------------------------------------
(* Taking messages, one by one and as update_state does. *)

\* One message taken.
TakenBy(map, m) == IF m.type = "All" THEN AsMap(m.infos) ELSE Overlaid(map, m.info)

\* A message taken leaves a map.
LEMMA TakenIs ==
  ASSUME NEW map \in Maps, NEW m \in Message
  PROVE  TakenBy(map, m) \in Maps
  BY MessageIs, AsMapIs, OverlaidIs DEF TakenBy

\* InOrder takes the messages one after the other.
LEMMA InOrderIs ==
  ASSUME NEW s \in Seq(Message), NEW old \in Maps, NEW g \in [0..Len(s) -> Maps],
         g[0] = old, \A n \in 1..Len(s) : g[n] = TakenBy(g[n - 1], s[n])
  PROVE  InOrder(old, s) = g[Len(s)]
<1> DEFINE N == Len(s)
           step == [n \in 1..N |-> [x \in Maps |-> TakenBy(x, s[n])]]
           Body(f) == [t \in SUBSET (1..N) |->
                          IF t = {} THEN old
                          ELSE IF s[Max(t)].type = "All" THEN AsMap(s[Max(t)].infos)
                               ELSE Overlaid(f[t \ {Max(t)}], s[Max(t)].info)]
           k == CHOOSE f : f = Body(f)
<1>1. N \in Nat /\ DOMAIN s = 1..N /\ \A n \in 1..N : s[n] \in Message
  OBVIOUS
<1>2. InOrder(old, s) = k[1..N]
  BY <1>1, Zenon DEF InOrder, FoldLeft, MapThenFoldSet
<1> HIDE DEF N
<1>3. step \in [1..N -> [Maps -> Maps]]
  BY <1>1, TakenIs
<1>4. \A n \in 1..N, x \in Maps : step[n][x] = TakenBy(x, s[n])
  OBVIOUS
<1> HIDE DEF step
<1>5. PICK h : FoldsOver(h, Maps, old, step, N)
  BY <1>1, <1>3, FoldExists
<1>6. h = Body(h)
  <2>1. h \in [SUBSET (1..N) -> Maps] /\ h[{}] = old
    BY <1>5 DEF FoldsOver
  <2>2. ASSUME NEW t \in SUBSET (1..N), t # {}
        PROVE  h[t] = TakenBy(h[t \ {Max(t)}], s[Max(t)])
    <3>1. Max(t) \in 1..N
      BY <1>1, <2>2, MaxIs
    <3>2. t \ {Max(t)} \in SUBSET (1..N)
      OBVIOUS
    <3>3. h[t] = step[Max(t)][h[t \ {Max(t)}]]
      BY <1>5, <2>2 DEF FoldsOver
    <3> QED
      BY <1>4, <2>1, <3>1, <3>2, <3>3
  <2>3. \A t \in SUBSET (1..N) : h[t] = IF t = {} THEN old ELSE TakenBy(h[t \ {Max(t)}], s[Max(t)])
    BY <2>1, <2>2
  <2>4. h = [t \in SUBSET (1..N) |-> IF t = {} THEN old ELSE TakenBy(h[t \ {Max(t)}], s[Max(t)])]
    BY <2>1, <2>3
  <2> QED
    BY <2>4, Zenon DEF TakenBy
<1>7. k = Body(k)
  <2> HIDE DEF Body
  <2> QED
    BY <1>6, Zenon
<1> HIDE DEF k
<1>8. k[{}] = old /\ \A n \in 1..N : k[1..n] = TakenBy(k[1..n - 1], s[n])
  <2>1. {} \in SUBSET (1..N)
    OBVIOUS
  <2>2. ASSUME NEW n \in 1..N PROVE k[1..n] = TakenBy(k[1..n - 1], s[n])
    <3>1. Max(1..n) = n /\ 1..n \ {n} = 1..n - 1 /\ 1..n # {}
      <4>1. n \in Nat \ {0}
        BY <1>1
      <4> QED
        BY <4>1, LastOfFirst
    <3>2. 1..n \in SUBSET (1..N)
      BY <1>1
    <3>3. \A t \in SUBSET (1..N) : t # {} => k[t] = TakenBy(k[t \ {Max(t)}], s[Max(t)])
      BY <1>7, Zenon DEF TakenBy
    <3>4. k[1..n] = TakenBy(k[1..n \ {Max(1..n)}], s[Max(1..n)])
      BY <3>1, <3>2, <3>3, Zenon
    <3> HIDE DEF Body
    <3> QED
      BY <3>1, <3>4
  <2> QED
    BY <1>7, <2>1, <2>2
<1>9. Partial(g, Maps, old, step, N)
  <2>1. g \in [0..N -> Maps] /\ g[0] = old
    BY DEF N
  <2>2. ASSUME NEW n \in 1..N PROVE g[n] = step[n][g[n - 1]]
    <3>1. n - 1 \in 0..N
      BY <1>1
    <3>2. g[n] = TakenBy(g[n - 1], s[n])
      BY DEF N
    <3> QED
      BY <1>4, <2>1, <3>1, <3>2
  <2> QED
    BY <2>1, <2>2 DEF Partial
<1>10. k[1..N] = g[N]
  <2> HIDE DEF Body
  <2>1. Recurses(k, Maps, old, step, N)
    BY <1>4, <1>8 DEF Recurses
  <2> QED
    BY <1>1, <1>9, <2>1, FoldEnds
<1> QED
  BY <1>2, <1>10 DEF N

\* The completions at the end of a batch, put on top one after the other.
LEMMA OnTopIs ==
  ASSUME NEW s \in Seq(Message), NEW old \in Maps, NEW g \in [0..Len(s) -> Maps],
         \A n \in 1..Len(s) : s[n].type # "All",
         g[0] = old, \A n \in 1..Len(s) : g[n] = Overlaid(g[n - 1], s[n].info)
  PROVE  FoldLeft(LAMBDA map, m : Overlaid(map, m.info), old, s) = g[Len(s)]
<1> DEFINE N == Len(s)
           step == [n \in 1..N |-> [x \in Maps |-> Overlaid(x, s[n].info)]]
           Body(f) == [t \in SUBSET (1..N) |->
                          IF t = {} THEN old ELSE Overlaid(f[t \ {Max(t)}], s[Max(t)].info)]
           k == CHOOSE f : f = Body(f)
<1>1. N \in Nat /\ DOMAIN s = 1..N /\ \A n \in 1..N : s[n] \in Message /\ s[n].info \in TheInfo
  <2>1. \A n \in 1..N : s[n] \in Message
    OBVIOUS
  <2>2. \A n \in 1..N : s[n].info \in TheInfo
    BY <2>1, MessageIs
  <2> QED
    BY <2>1, <2>2
<1>2. FoldLeft(LAMBDA map, m : Overlaid(map, m.info), old, s) = k[1..N]
  BY <1>1, Zenon DEF FoldLeft, MapThenFoldSet
<1> HIDE DEF N
<1>3. step \in [1..N -> [Maps -> Maps]]
  BY <1>1, OverlaidIs
<1>4. \A n \in 1..N, x \in Maps : step[n][x] = Overlaid(x, s[n].info)
  OBVIOUS
<1> HIDE DEF step
<1>5. PICK h : FoldsOver(h, Maps, old, step, N)
  BY <1>1, <1>3, FoldExists
<1>6. h = Body(h)
  <2>1. h \in [SUBSET (1..N) -> Maps] /\ h[{}] = old
    BY <1>5 DEF FoldsOver
  <2>2. ASSUME NEW t \in SUBSET (1..N), t # {}
        PROVE  h[t] = Overlaid(h[t \ {Max(t)}], s[Max(t)].info)
    <3>1. Max(t) \in 1..N
      BY <1>1, <2>2, MaxIs
    <3>2. t \ {Max(t)} \in SUBSET (1..N)
      OBVIOUS
    <3>3. h[t] = step[Max(t)][h[t \ {Max(t)}]]
      BY <1>5, <2>2 DEF FoldsOver
    <3> QED
      BY <1>4, <2>1, <3>1, <3>2, <3>3
  <2>3. \A t \in SUBSET (1..N) :
            h[t] = IF t = {} THEN old ELSE Overlaid(h[t \ {Max(t)}], s[Max(t)].info)
    BY <2>1, <2>2
  <2> QED
    BY <2>1, <2>3
<1>7. k = Body(k)
  <2> HIDE DEF Body
  <2> QED
    BY <1>6, Zenon
<1> HIDE DEF k
<1>8. k[{}] = old /\ \A n \in 1..N : k[1..n] = Overlaid(k[1..n - 1], s[n].info)
  <2>1. {} \in SUBSET (1..N)
    OBVIOUS
  <2>2. ASSUME NEW n \in 1..N PROVE k[1..n] = Overlaid(k[1..n - 1], s[n].info)
    <3>1. Max(1..n) = n /\ 1..n \ {n} = 1..n - 1 /\ 1..n # {}
      <4>1. n \in Nat \ {0}
        BY <1>1
      <4> QED
        BY <4>1, LastOfFirst
    <3>2. 1..n \in SUBSET (1..N)
      BY <1>1
    <3>3. \A t \in SUBSET (1..N) : t # {} => k[t] = Overlaid(k[t \ {Max(t)}], s[Max(t)].info)
      BY <1>7, Zenon
    <3>4. k[1..n] = Overlaid(k[1..n \ {Max(1..n)}], s[Max(1..n)].info)
      BY <3>1, <3>2, <3>3, Zenon
    <3> HIDE DEF Body
    <3> QED
      BY <3>1, <3>4
  <2> QED
    BY <1>7, <2>1, <2>2
<1>9. Partial(g, Maps, old, step, N)
  <2>1. g \in [0..N -> Maps] /\ g[0] = old
    BY DEF N
  <2>2. ASSUME NEW n \in 1..N PROVE g[n] = step[n][g[n - 1]]
    <3>1. n - 1 \in 0..N
      BY <1>1
    <3>2. g[n] = Overlaid(g[n - 1], s[n].info)
      BY DEF N
    <3> QED
      BY <1>4, <2>1, <3>1, <3>2
  <2> QED
    BY <2>1, <2>2 DEF Partial
<1>10. k[1..N] = g[N]
  <2> HIDE DEF Body
  <2>1. Recurses(k, Maps, old, step, N)
    BY <1>4, <1>8 DEF Recurses
  <2> QED
    BY <1>1, <1>9, <2>1, FoldEnds
<1> QED
  BY <1>2, <1>10 DEF N

\* The maps that taking messages one by one goes through.
LEMMA Between ==
  ASSUME NEW s \in Seq(Message), NEW old \in Maps
  PROVE  \E g \in [0..Len(s) -> Maps] :
            g[0] = old /\ \A n \in 1..Len(s) : g[n] = TakenBy(g[n - 1], s[n])
<1> DEFINE N == Len(s)
           step == [n \in 1..N |-> [x \in Maps |-> TakenBy(x, s[n])]]
<1>1. N \in Nat /\ \A n \in 1..N : s[n] \in Message
  OBVIOUS
<1>2. step \in [1..N -> [Maps -> Maps]]
  BY <1>1, TakenIs
<1>3. \A n \in 1..N, x \in Maps : step[n][x] = TakenBy(x, s[n])
  OBVIOUS
<1> HIDE DEF step, N
<1>4. PICK g : Partial(g, Maps, old, step, N)
  BY <1>1, <1>2, PartialExists
<1>5. g \in [0..N -> Maps] /\ g[0] = old
  BY <1>4 DEF Partial
<1>6. ASSUME NEW n \in 1..N PROVE g[n] = TakenBy(g[n - 1], s[n])
  <2>1. n - 1 \in 0..N
    BY <1>1
  <2>2. g[n] = step[n][g[n - 1]]
    BY <1>4 DEF Partial
  <2> QED
    BY <1>3, <1>5, <2>1, <2>2
<1> QED
  BY <1>5, <1>6 DEF N

\* No message taken, nothing changes.
LEMMA NothingTaken ==
  ASSUME NEW old \in Maps
  PROVE  InOrder(old, <<>>) = old
<1> DEFINE g == [n \in 0..0 |-> old]
<1>1. <<>> \in Seq(Message) /\ Len(<<>>) = 0 /\ 1..0 = {}
  OBVIOUS
<1>2. g \in [0..0 -> Maps] /\ g[0] = old
  OBVIOUS
<1> HIDE DEF g
<1> QED
  BY <1>1, <1>2, InOrderIs

\* update_state agrees with it: what comes before the last All does not matter,
\* and all that comes after it are completions.
LEMMA BatchIsInOrder ==
  ASSUME NEW s \in Seq(Message), NEW old \in Maps
  PROVE  UpdatedBy(old, s) = InOrder(old, s)
<1> DEFINE N == Len(s)
           alls == {n \in DOMAIN s : s[n].type = "All"}
           last == IF alls = {} THEN 0 ELSE Max(alls)
           batch == IF alls = {} THEN old ELSE AsMap(s[last].infos)
           rest == SubSeq(s, last + 1, N)
<1>1. N \in Nat /\ DOMAIN s = 1..N /\ \A n \in 1..N : s[n] \in Message
  OBVIOUS
<1>2. UpdatedBy(old, s) = FoldLeft(LAMBDA map, m : Overlaid(map, m.info), batch, rest)
  BY Zenon DEF UpdatedBy
<1>3. PICK g \in [0..N -> Maps] : g[0] = old /\ \A n \in 1..N : g[n] = TakenBy(g[n - 1], s[n])
  BY Between
<1>4. InOrder(old, s) = g[N]
  BY <1>3, InOrderIs
<1> HIDE DEF N
<1>5. /\ last \in 0..N
      /\ last # 0 => s[last].type = "All" /\ batch = AsMap(s[last].infos)
      /\ last = 0 => batch = old
      /\ \A n \in 1..N : last < n => s[n].type # "All"
  <2>1. CASE alls = {}
    BY <1>1, <2>1
  <2>2. CASE alls # {}
    <3>1. alls \subseteq 1..N
      BY <1>1
    <3>2. last = Max(alls) /\ batch = AsMap(s[last].infos)
      BY <2>2
    <3> HIDE DEF last, batch
    <3>3. last \in alls /\ \A n \in alls : n <= last
      <4> HIDE DEF alls
      <4> QED
        BY <1>1, <2>2, <3>1, <3>2, MaxIs
    <3> QED
      BY <1>1, <3>2, <3>3
  <2> QED
    BY <2>1, <2>2
<1>6. batch = g[last]
  <2>1. CASE last = 0
    BY <1>3, <1>5, <2>1
  <2>2. CASE last # 0
    <3> HIDE DEF last, batch
    <3>1. last \in 1..N
      BY <1>1, <1>5, <2>2
    <3>2. g[last] = TakenBy(g[last - 1], s[last])
      BY <1>3, <3>1
    <3> QED
      BY <1>5, <2>2, <3>2 DEF TakenBy
  <2> QED
    BY <2>1, <2>2
<1> HIDE DEF last, batch
<1>7. /\ rest \in Seq(Message) /\ Len(rest) = N - last
      /\ \A n \in 1..N - last : rest[n] = s[last + n]
  <2>1. last + 1 \in Int /\ N \in Int /\ \A n \in last + 1..N : s[n] \in Message
    BY <1>1, <1>5
  <2>2. /\ rest \in Seq(Message)
        /\ Len(rest) = IF last + 1 <= N THEN N - (last + 1) + 1 ELSE 0
        /\ \A n \in 1..N - (last + 1) + 1 : rest[n] = s[(last + 1) + n - 1]
    BY <2>1, SubSeqProperties
  <2>3. Len(rest) = N - last /\ 1..N - (last + 1) + 1 = 1..N - last
    BY <1>1, <1>5, <2>2
  <2>4. \A n \in 1..N - last : (last + 1) + n - 1 = last + n
    BY <1>1, <1>5
  <2> HIDE DEF rest
  <2> QED
    BY <2>2, <2>3, <2>4
<1> HIDE DEF rest
<1> DEFINE j == [n \in 0..N - last |-> g[last + n]]
<1>8. N - last \in Nat /\ N - last \in 0..N - last /\ 0 \in 0..N - last
      /\ last + 0 = last /\ last + (N - last) = N
      /\ \A n \in 0..N - last : last + n \in 0..N
  BY <1>1, <1>5
<1>9. j \in [0..N - last -> Maps] /\ j[0] = batch /\ j[N - last] = g[N]
  BY <1>3, <1>6, <1>8
<1>10. ASSUME NEW n \in 1..N - last
       PROVE  rest[n].type # "All" /\ j[n] = Overlaid(j[n - 1], rest[n].info)
  <2> DEFINE m == last + n
  <2>1. m \in 1..N /\ last < m /\ m - 1 = last + (n - 1) /\ n \in 0..N - last /\ n - 1 \in 0..N - last
    BY <1>1, <1>5
  <2>2. j[n] = g[m] /\ j[n - 1] = g[m - 1]
    BY <2>1
  <2>3. rest[n] = s[m]
    BY <1>7
  <2> HIDE DEF m, j
  <2>4. s[m].type # "All" /\ g[m] = TakenBy(g[m - 1], s[m])
    BY <1>3, <1>5, <2>1
  <2> QED
    BY <2>2, <2>3, <2>4 DEF TakenBy
<1> HIDE DEF j
<1>11. batch \in Maps
  BY <1>3, <1>5, <1>6
<1>12. FoldLeft(LAMBDA map, m : Overlaid(map, m.info), batch, rest) = j[Len(rest)]
  BY <1>7, <1>9, <1>10, <1>11, OnTopIs
<1> QED
  BY <1>2, <1>4, <1>7, <1>9, <1>12

----------------------------------------------------------------------------
(* The types of what the controller sends and the webserver keeps. *)

TypeInv ==
    /\ torrents \in Maps /\ IsFiniteSet(DOMAIN torrents)
    /\ messages \in Seq(Message)
    /\ infos \in Maps

\* A torrent gets a status, or comes in with it.
LEMMA MapWith ==
  ASSUME NEW map \in Maps, IsFiniteSet(DOMAIN map), NEW h \in Hash, NEW new,
         DOMAIN new = DOMAIN map \cup {h}, new = [g \in DOMAIN new |-> new[g]],
         \A g \in DOMAIN new : new[g] \in Status
  PROVE  new \in Maps /\ IsFiniteSet(DOMAIN new)
<1>1. DOMAIN map \subseteq Hash
  BY MapsAre
<1>2. new \in Maps
  BY <1>1, MapsAre
<1>3. IsFiniteSet(DOMAIN map \cup {h})
  BY FS_AddElement
<1> QED
  BY <1>2, <1>3

\* A list of torrents as send_update makes it.
LEMMA ListIs ==
  ASSUME torrents \in Maps, IsFiniteSet(DOMAIN torrents), NEW order \in SetToSeqs(DOMAIN torrents)
  PROVE  /\ [n \in DOMAIN order |-> Info(order[n])] \in List
         /\ DOMAIN torrents = {order[n] : n \in DOMAIN order}
<1> DEFINE C == Cardinality(DOMAIN torrents)
           list == [n \in DOMAIN order |-> Info(order[n])]
<1>1. /\ order \in [1..C -> DOMAIN torrents]
      /\ \A m, n \in 1..C : m # n => order[m] # order[n]
  BY Zenon DEF SetToSeqs
<1>2. C \in Nat
  BY FS_CardinalityType
<1>3. DOMAIN torrents \subseteq Hash /\ \A h \in DOMAIN torrents : torrents[h] \in Status
  BY MapsAre
<1> HIDE DEF C
<1>4. \A n \in DOMAIN order : Info(order[n]) \in TheInfo /\ Info(order[n]).hash = order[n]
  BY <1>1, <1>3 DEF Info, TheInfo
<1>5. list \in List
  <2>1. DOMAIN list = 1..C /\ \A n \in 1..C : list[n] \in TheInfo /\ list[n].hash = order[n]
    BY <1>1, <1>4
  <2>2. list \in Seq(TheInfo)
    BY <1>1, <1>2, <1>4
  <2> HIDE DEF list
  <2> QED
    BY <1>1, <2>1, <2>2 DEF List
<1>6. DOMAIN torrents = {order[n] : n \in DOMAIN order}
  <2>1. order \in Injection(1..C, DOMAIN torrents)
    BY <1>1 DEF Injection, IsInjective
  <2>2. Cardinality(1..C) = C
    <3>1. Cardinality(1..C) = IF 1 > C THEN 0 ELSE C - 1 + 1
      BY <1>2, FS_Interval
    <3> QED
      BY <1>2, <3>1
  <2>3. order \in Surjection(1..C, DOMAIN torrents)
    BY <2>1, <2>2, FS_Injection DEF C
  <2> QED
    BY <1>1, <2>3 DEF Surjection
<1> QED
  BY <1>5, <1>6

\* A message more.
LEMMA Sent ==
  ASSUME messages \in Seq(Message), NEW m \in Message, messages' = Append(messages, m)
  PROVE  messages' \in Seq(Message)
  BY AppendProperties

\* A step of the controller that tells of a completion.
LEMMA CompletedType ==
  ASSUME TypeInv, NEW h \in DOMAIN torrents, Completed(h), UNCHANGED infos
  PROVE  TypeInv'
<1>1. DOMAIN torrents \subseteq Hash /\ \A g \in DOMAIN torrents : torrents[g] \in Status
  BY MapsAre DEF TypeInv
<1>2. "Complete" \in Status /\ h \in Hash
  BY <1>1 DEF Status
<1>3. torrents' = [torrents EXCEPT ![h] = "Complete"]
      /\ messages' = Append(messages, [type |-> "One", info |-> [hash |-> h, status |-> "Complete"]])
  BY DEF Completed
<1>4. [type |-> "One", info |-> [hash |-> h, status |-> "Complete"]] \in Message
  BY <1>2 DEF Message, TheInfo
<1>5. messages' \in Seq(Message)
  BY <1>3, <1>4, Sent DEF TypeInv
<1>6. torrents' \in Maps /\ IsFiniteSet(DOMAIN torrents')
  <2>1. /\ DOMAIN torrents' = DOMAIN torrents \cup {h} /\ torrents' = [g \in DOMAIN torrents' |-> torrents'[g]]
        /\ \A g \in DOMAIN torrents' : torrents'[g] \in Status
    BY <1>1, <1>2, <1>3
  <2> QED
    BY <1>2, <2>1, MapWith DEF TypeInv
<1> QED
  BY <1>5, <1>6 DEF TypeInv

\* A command of the user.
LEMMA CommandType ==
  ASSUME TypeInv, RecvClient
  PROVE  TypeInv'
<1> DEFINE c == Head(commands)
           to == IF c.type = "Pause" THEN "Paused"
                 ELSE IF torrents[c.hash] # "Paused" THEN torrents[c.hash]
                 ELSE IF c.hash \in finished THEN "Complete" ELSE "Running"
<1>1. /\ torrents' = IF c.hash \notin DOMAIN torrents THEN torrents
                     ELSE IF c.type = "Remove" THEN [h \in DOMAIN torrents \ {c.hash} |-> torrents[h]]
                     ELSE [torrents EXCEPT ![c.hash] = to]
      /\ UNCHANGED <<messages, infos>>
  BY DEF RecvClient, webVars
<1>2. DOMAIN torrents \subseteq Hash /\ (\A g \in DOMAIN torrents : torrents[g] \in Status)
      /\ IsFiniteSet(DOMAIN torrents)
  BY MapsAre DEF TypeInv
<1>3. c.hash \in DOMAIN torrents => to \in Status
  BY <1>2 DEF Status
<1> HIDE DEF c, to
<1>4. torrents' \in Maps /\ IsFiniteSet(DOMAIN torrents')
  <2>1. CASE c.hash \notin DOMAIN torrents
    BY <1>1, <2>1 DEF TypeInv
  <2>2. CASE c.hash \in DOMAIN torrents /\ c.type = "Remove"
    <3>1. torrents' = [h \in DOMAIN torrents \ {c.hash} |-> torrents[h]]
      BY <1>1, <2>2
    <3>2. torrents' \in Maps
      BY <1>2, <3>1, MapsAre
    <3>3. IsFiniteSet(DOMAIN torrents \ {c.hash})
      BY <1>2, FS_RemoveElement
    <3> QED
      BY <3>1, <3>2, <3>3
  <2>3. CASE c.hash \in DOMAIN torrents /\ c.type # "Remove"
    <3>1. torrents' = [torrents EXCEPT ![c.hash] = to]
      BY <1>1, <2>3
    <3>2. /\ DOMAIN torrents' = DOMAIN torrents /\ torrents' = [g \in DOMAIN torrents' |-> torrents'[g]]
          /\ \A g \in DOMAIN torrents' : torrents'[g] \in Status
      BY <1>2, <1>3, <2>3, <3>1
    <3> QED
      BY <1>2, <3>2, MapsAre
  <2> QED
    BY <2>1, <2>2, <2>3
<1> QED
  BY <1>1, <1>4 DEF TypeInv

\* Every step keeps the types.
LEMMA TypeNext == TypeInv /\ [Next]_vars => TypeInv'
<1> SUFFICES ASSUME TypeInv, [Next]_vars PROVE TypeInv'
  OBVIOUS
<1>0. ASSUME UNCHANGED <<torrents, messages, infos>> PROVE TypeInv'
  BY <1>0 DEF TypeInv
<1>1. CASE SendUpdate
  <2>1. PICK order \in SetToSeqs(DOMAIN torrents) :
           messages' = Append(messages, [type |-> "All", infos |-> [n \in DOMAIN order |-> Info(order[n])]])
    BY <1>1 DEF SendUpdate
  <2> DEFINE list == [n \in DOMAIN order |-> Info(order[n])]
  <2>2. list \in List
    BY ListIs DEF TypeInv
  <2> HIDE DEF list
  <2>3. [type |-> "All", infos |-> list] \in Message
    BY <2>2 DEF Message
  <2>4. messages' \in Seq(Message)
    BY <2>1, <2>3, Sent DEF TypeInv, list
  <2>5. UNCHANGED <<torrents, infos>>
    BY <1>1 DEF SendUpdate, webVars
  <2> QED
    BY <2>4, <2>5 DEF TypeInv
<1>2. ASSUME NEW h \in Hash, LastPiece(h) PROVE TypeInv'
  <2>1. h \in DOMAIN torrents /\ UNCHANGED infos
        /\ (Completed(h) \/ UNCHANGED <<torrents, messages>>)
    BY <1>2, Zenon DEF LastPiece, webVars
  <2> QED
    BY <1>0, <2>1, CompletedType
<1>3. CASE RecvClient
  BY <1>3, CommandType
<1>4. CASE Dies
  BY <1>0, <1>4 DEF Dies, webVars
<1>5. ASSUME NEW h \in Hash, Add(h) PROVE TypeInv'
  <2>1. /\ torrents' = [g \in DOMAIN torrents \cup {h} |-> IF g = h THEN "Running" ELSE torrents[g]]
        /\ UNCHANGED <<messages, infos>>
    BY <1>5 DEF Add, webVars
  <2>2. \A g \in DOMAIN torrents : torrents[g] \in Status
    BY MapsAre DEF TypeInv
  <2>3. /\ DOMAIN torrents' = DOMAIN torrents \cup {h} /\ torrents' = [g \in DOMAIN torrents' |-> torrents'[g]]
        /\ \A g \in DOMAIN torrents' : torrents'[g] \in Status
    BY <2>1, <2>2 DEF Status
  <2> QED
    BY <2>1, <2>3, MapWith DEF TypeInv
<1>6. ASSUME NEW h \in Hash, NEW type, Command(type, h) PROVE TypeInv'
  BY <1>0, <1>6 DEF Command, ctlVars, webVars
<1>7. CASE Announced \/ AddPanics
  BY <1>0, <1>7 DEF Announced, AddPanics, ctlVars, webVars
<1>8. CASE Get
  <2>1. infos' = UpdatedBy(infos, messages) /\ messages' = <<>> /\ UNCHANGED torrents
    BY <1>8 DEF Get
  <2>2. PICK g \in [0..Len(messages) -> Maps] :
           g[0] = infos /\ \A n \in 1..Len(messages) : g[n] = TakenBy(g[n - 1], messages[n])
    BY Between DEF TypeInv
  <2>3. infos' = g[Len(messages)]
    BY <2>1, <2>2, BatchIsInOrder, InOrderIs DEF TypeInv
  <2>4. Len(messages) \in 0..Len(messages)
    BY DEF TypeInv
  <2> QED
    BY <2>1, <2>2, <2>3, <2>4 DEF TypeInv
<1>9. CASE Layout
  <2>1. UNCHANGED <<torrents, infos>> /\ messages' = <<>>
    BY <1>9 DEF Layout, webVars
  <2> QED
    BY <2>1 DEF TypeInv
<1>10. CASE UNCHANGED vars
  BY <1>0, <1>10 DEF vars, ctlVars, webVars
<1> QED
  BY <1>1, <1>2, <1>3, <1>4, <1>5, <1>6, <1>7, <1>8, <1>9, <1>10 DEF Next, ControllerNext, FrontNext

\* Nothing sent, nothing shown.
LEMMA TypeInit == Init => TypeInv
<1> SUFFICES ASSUME Init PROVE TypeInv
  OBVIOUS
<1>1. torrents = <<>> /\ messages = <<>> /\ infos = <<>>
  BY DEF Init
<1>2. DOMAIN <<>> = {} /\ <<>> = [h \in DOMAIN <<>> |-> <<>>[h]]
  OBVIOUS
<1>3. <<>> \in Maps
  BY <1>2, MapsAre
<1>4. IsFiniteSet(DOMAIN <<>>)
  BY <1>2, FS_EmptySet
<1> QED
  BY <1>1, <1>3, <1>4 DEF TypeInv

\* What is sent and kept has its types.
THEOREM TypesCorrect == Spec => []TypeInv
BY TypeInit, TypeNext, PTL DEF Spec

\* The webserver implements Board: a look shows all that was sent, as if each
\* message had been taken when it came; any other step shows the same as before.
THEOREM BoardImplemented == Spec => ShowsWhatWasSent
<1>1. Init => TheBoard!Init
  <2> SUFFICES ASSUME Init PROVE TheBoard!Init
    OBVIOUS
  <2>1. infos = <<>> /\ messages = <<>> /\ infos \in Maps
    BY TypeInit DEF Init, TypeInv
  <2>2. InOrder(infos, messages) = <<>>
    BY <2>1, NothingTaken
  <2> QED
    BY <2>1, <2>2 DEF TheBoard!Init
<1>2. TypeInv /\ TypeInv' /\ [Next]_vars => [TheBoard!Next]_<<InOrder(infos, messages), infos>>
  <2> SUFFICES ASSUME TypeInv, TypeInv', [Next]_vars
               PROVE  TheBoard!Next
    OBVIOUS
  <2>1. ASSUME UNCHANGED infos PROVE TheBoard!Next
    BY <2>1 DEF TheBoard!Next, TheBoard!Post
  <2>2. CASE Get
    <3>1. infos' = UpdatedBy(infos, messages) /\ messages' = <<>>
      BY <2>2 DEF Get
    <3>2. infos' = InOrder(infos, messages)
      BY <3>1, BatchIsInOrder DEF TypeInv
    <3>3. InOrder(infos', messages') = infos'
      BY <3>1, NothingTaken DEF TypeInv
    <3>4. InOrder(infos, messages)' = InOrder(infos', messages')
      BY Zenon DEF InOrder, FoldLeft, MapThenFoldSet
    <3> QED
      BY <3>2, <3>3, <3>4 DEF TheBoard!Next, TheBoard!Look
  <2>3. CASE ControllerNext
    <3>1. ASSUME NEW h, LastPiece(h) PROVE UNCHANGED infos
      BY <3>1 DEF LastPiece, webVars
    <3>2. CASE SendUpdate \/ RecvClient \/ Dies
      BY <3>2, <2>1 DEF SendUpdate, RecvClient, Dies, webVars
    <3> QED
      BY <2>1, <2>3, <3>1, <3>2 DEF ControllerNext
  <2>4. ASSUME NEW h, Add(h) \/ \E type : Command(type, h) PROVE TheBoard!Next
    BY <2>1, <2>4 DEF Add, Command, webVars
  <2>5. CASE Announced \/ AddPanics \/ Layout \/ UNCHANGED vars
    BY <2>1, <2>5 DEF Announced, AddPanics, Layout, webVars, vars
  <2> QED
    BY <2>2, <2>3, <2>4, <2>5 DEF Next, FrontNext
<1> QED
  BY <1>1, <1>2, TypesCorrect, PTL DEF Spec, ShowsWhatWasSent, TheBoard!Spec

----------------------------------------------------------------------------
(* The table of the terminal client. *)

\* What index_map may be: a row, from 0, of some torrents.
Indexes == UNION {[S -> Nat] : S \in SUBSET Hash}

TableValue == [rows : Seq(TheInfo), index : Indexes, panicked : BOOLEAN, singles : Nat]

\* index_map names the row of each torrent the table shows, and no other.
Exact(t) ==
    /\ DOMAIN t.index = {t.rows[n].hash : n \in DOMAIN t.rows}
    /\ \A n \in DOMAIN t.rows : t.index[t.rows[n].hash] = n - 1

\* The rows without one of them.
LEMMA RowGoes ==
  ASSUME NEW seq \in Seq(TheInfo), NEW n \in 1..Len(seq)
  PROVE  RemoveAt(seq, n) \in Seq(TheInfo)
<1>1. SubSeq(seq, 1, n - 1) \in Seq(TheInfo)
  BY SubSeqProperties
<1>2. SubSeq(seq, n + 1, Len(seq)) \in Seq(TheInfo)
  BY SubSeqProperties
<1> QED
  BY <1>1, <1>2, ConcatProperties DEF RemoveAt

\* A list of torrents, taken.
LEMMA ListedIs ==
  ASSUME NEW t \in TableValue, NEW seq \in List
  PROVE  LET u == Listed(t, seq)
         IN  /\ u \in TableValue /\ Exact(u)
             /\ u.rows = seq /\ u.panicked = t.panicked /\ u.singles = 0
             /\ DOMAIN u.index = {seq[n].hash : n \in DOMAIN seq}
<1> DEFINE Hashes == {seq[n].hash : n \in DOMAIN seq}
           place(h) == CHOOSE n \in 1..Len(seq) : seq[n].hash = h
           index == [h \in Hashes |-> place(h) - 1]
           u == Listed(t, seq)
<1>1. /\ seq \in Seq(TheInfo) /\ DOMAIN seq = 1..Len(seq) /\ Len(seq) \in Nat
      /\ \A n \in DOMAIN seq : seq[n] \in TheInfo /\ seq[n].hash \in Hash
      /\ \A m, n \in DOMAIN seq : seq[m].hash = seq[n].hash => m = n
  <2>1. seq \in Seq(TheInfo) /\ \A m, n \in DOMAIN seq : seq[m].hash = seq[n].hash => m = n
    BY DEF List
  <2>2. \A n \in DOMAIN seq : seq[n] \in TheInfo
    BY <2>1
  <2>3. \A i \in TheInfo : i.hash \in Hash
    BY DEF TheInfo
  <2> QED
    BY <2>1, <2>2, <2>3
<1>2. {i.hash : i \in ToSet(seq)} = Hashes
  BY DEF ToSet
<1>3. \A h \in Hashes : place(h) \in 1..Len(seq) /\ seq[place(h)].hash = h
  BY <1>1
<1>4. \A n \in DOMAIN seq : place(seq[n].hash) = n
  <2> TAKE n \in DOMAIN seq
  <2>1. place(seq[n].hash) \in DOMAIN seq /\ seq[place(seq[n].hash)].hash = seq[n].hash
    BY <1>1, <1>3
  <2> HIDE DEF place
  <2> QED
    BY <1>1, <2>1
<1>5. \A h \in Hashes : place(h) - 1 \in Nat
  <2> HIDE DEF place
  <2> QED
    BY <1>1, <1>3
<1>6. u = [t EXCEPT !.rows = seq, !.singles = 0, !.index = index]
  <2>1. u = [t EXCEPT !.rows = seq, !.singles = 0,
                      !.index = [h \in {i.hash : i \in ToSet(seq)} |-> place(h) - 1]]
    BY Zenon DEF Listed
  <2> QED
    BY <1>2, <2>1
<1> HIDE DEF place, u
<1>7. index \in Indexes
  <2>1. Hashes \in SUBSET Hash
    BY <1>1
  <2>2. index \in [Hashes -> Nat]
    BY <1>5
  <2> QED
    BY <2>1, <2>2 DEF Indexes
<1>8. DOMAIN index = Hashes /\ \A n \in DOMAIN seq : index[seq[n].hash] = n - 1
  BY <1>4
<1> HIDE DEF index, Hashes
<1>9. u.rows = seq /\ u.index = index /\ u.panicked = t.panicked /\ u.singles = 0 /\ u \in TableValue
  BY <1>1, <1>6, <1>7 DEF TableValue
<1>10. Exact(u)
  <2>1. DOMAIN u.index = {u.rows[n].hash : n \in DOMAIN u.rows}
    BY <1>8, <1>9 DEF Hashes
  <2> QED
    BY <1>8, <1>9, <2>1 DEF Exact
<1> QED
  BY <1>8, <1>9, <1>10 DEF u, Hashes

\* A completion, taken: the first since a list takes out the row of its torrent.
LEMMA RowRemovedIs ==
  ASSUME NEW t \in TableValue, NEW h \in Hash
  PROVE  LET u == RowRemoved(t, h)
         IN  /\ u \in TableValue
             /\ t.panicked => u.panicked
             /\ h \in DOMAIN t.index =>
                    /\ u.panicked = t.panicked /\ u.singles = t.singles + 1
                    /\ DOMAIN u.index = DOMAIN t.index \ {h}
                    /\ Exact(t) => u.rows = Without(t.rows, h)
             /\ h \notin DOMAIN t.index => u.panicked
<1> DEFINE u == RowRemoved(t, h)
<1>1. /\ t.rows \in Seq(TheInfo) /\ t.index \in Indexes /\ t.panicked \in BOOLEAN /\ t.singles \in Nat
      /\ Len(t.rows) \in Nat /\ DOMAIN t.rows = 1..Len(t.rows)
  BY DEF TableValue
<1>2. CASE h \notin DOMAIN t.index
  <2>1. u = [t EXCEPT !.panicked = TRUE]
    BY <1>2 DEF RowRemoved
  <2> HIDE DEF u
  <2>2. u \in TableValue /\ u.panicked
    BY <2>1 DEF TableValue
  <2> QED
    BY <1>2, <2>2 DEF u
<1>3. CASE h \in DOMAIN t.index
  <2> DEFINE seq == IF t.index[h] < Len(t.rows) THEN RemoveAt(t.rows, t.index[h] + 1) ELSE t.rows
             index == [g \in DOMAIN t.index \ {h} |-> t.index[g]]
  <2>1. u = [t EXCEPT !.rows = seq, !.index = index, !.singles = t.singles + 1]
    BY <1>3 DEF RowRemoved
  <2>2. PICK S \in SUBSET Hash : t.index \in [S -> Nat]
    BY <1>1 DEF Indexes
  <2>3. index \in Indexes /\ DOMAIN index = DOMAIN t.index \ {h}
    <3>1. index \in [S \ {h} -> Nat] /\ S \ {h} \in SUBSET Hash
      BY <2>2
    <3> QED
      BY <3>1 DEF Indexes
  <2>4. seq \in Seq(TheInfo)
    <3>1. t.index[h] \in Nat
      BY <1>3, <2>2
    <3>2. t.index[h] < Len(t.rows) => t.index[h] + 1 \in 1..Len(t.rows)
      BY <1>1, <3>1
    <3> QED
      BY <1>1, <3>2, RowGoes
  <2>5. ASSUME Exact(t) PROVE seq = Without(t.rows, h)
    <3>1. PICK n \in DOMAIN t.rows : h = t.rows[n].hash
      BY <1>3, <2>5 DEF Exact
    <3>2. \A m \in DOMAIN t.rows : t.rows[m].hash = h => m = n
      BY <1>1, <2>5, <3>1 DEF Exact
    <3>3. (CHOOSE m \in DOMAIN t.rows : t.rows[m].hash = h) = n
      BY <3>1, <3>2
    <3>4. Without(t.rows, h) = RemoveAt(t.rows, n)
      BY <3>1, <3>3 DEF Without
    <3>5. t.index[h] = n - 1
      BY <2>5, <3>1 DEF Exact
    <3>6. t.index[h] < Len(t.rows) /\ t.index[h] + 1 = n
      BY <1>1, <3>5
    <3> QED
      BY <3>4, <3>6
  <2> DEFINE more == t.singles + 1
  <2>6. more \in Nat
    BY <1>1
  <2>7. u = [t EXCEPT !.rows = seq, !.index = index, !.singles = more]
    BY <2>1
  <2> HIDE DEF seq, index, u, more
  <2>8. /\ u \in TableValue /\ u.rows = seq /\ u.index = index /\ u.panicked = t.panicked
        /\ u.singles = more
    BY <1>1, <2>3, <2>4, <2>6, <2>7 DEF TableValue
  <2> QED
    BY <1>3, <2>3, <2>5, <2>8 DEF u, more
<1> QED
  BY <1>2, <1>3

\* A message taken leaves a table.
LEMMA MessageTaken ==
  ASSUME NEW t \in TableValue, NEW m \in Message
  PROVE  Taken(t, m) \in TableValue
<1>1. m.type = "All" => m.infos \in List
  BY MessageIs
<1>2. m.type # "All" => m.info.hash \in Hash
  BY MessageIs DEF TheInfo
<1>3. m.type = "All" => Listed(t, m.infos) \in TableValue
  BY <1>1, ListedIs
<1>4. m.type # "All" => RowRemoved(t, m.info.hash) \in TableValue
  BY <1>2, RowRemovedIs
<1> QED
  BY <1>3, <1>4 DEF Taken

\* And rows, if those of completed torrents go by name.
LEMMA WithoutIs ==
  ASSUME NEW seq \in Seq(TheInfo), NEW m \in Message
  PROVE  TakenByName(seq, m) \in Seq(TheInfo)
<1>1. m.type = "All" => m.infos \in Seq(TheInfo)
  BY MessageIs
<1>2. \A h : Without(seq, h) \in Seq(TheInfo)
  <2> TAKE h
  <2>1. CASE \E n \in DOMAIN seq : seq[n].hash = h
    <3> DEFINE n == CHOOSE n \in DOMAIN seq : seq[n].hash = h
    <3>1. n \in 1..Len(seq)
      BY <2>1
    <3>2. Without(seq, h) = RemoveAt(seq, n)
      BY <2>1 DEF Without
    <3> HIDE DEF n
    <3> QED
      BY <3>1, <3>2, RowGoes
  <2>2. CASE ~\E n \in DOMAIN seq : seq[n].hash = h
    BY <2>2 DEF Without
  <2> QED
    BY <2>1, <2>2
<1> QED
  BY <1>1, <1>2 DEF TakenByName

\* layout takes the messages one after the other.
LEMMA AllTakenIs ==
  ASSUME NEW s \in Seq(Message), NEW old \in TableValue, NEW g \in [0..Len(s) -> TableValue],
         g[0] = old, \A n \in 1..Len(s) : g[n] = Taken(g[n - 1], s[n])
  PROVE  FoldLeft(Taken, old, s) = g[Len(s)]
<1> DEFINE N == Len(s)
           step == [n \in 1..N |-> [x \in TableValue |-> Taken(x, s[n])]]
           Body(f) == [t \in SUBSET (1..N) |->
                          IF t = {} THEN old ELSE Taken(f[t \ {Max(t)}], s[Max(t)])]
           k == CHOOSE f : f = Body(f)
<1>1. N \in Nat /\ DOMAIN s = 1..N /\ \A n \in 1..N : s[n] \in Message
  OBVIOUS
<1>2. FoldLeft(Taken, old, s) = k[1..N]
  BY <1>1, Zenon DEF FoldLeft, MapThenFoldSet
<1> HIDE DEF N
<1>3. step \in [1..N -> [TableValue -> TableValue]]
  BY <1>1, MessageTaken
<1>4. \A n \in 1..N, x \in TableValue : step[n][x] = Taken(x, s[n])
  OBVIOUS
<1> HIDE DEF step
<1>5. PICK h : FoldsOver(h, TableValue, old, step, N)
  BY <1>1, <1>3, FoldExists
<1>6. h = Body(h)
  <2>1. h \in [SUBSET (1..N) -> TableValue] /\ h[{}] = old
    BY <1>5 DEF FoldsOver
  <2>2. ASSUME NEW t \in SUBSET (1..N), t # {}
        PROVE  h[t] = Taken(h[t \ {Max(t)}], s[Max(t)])
    <3>1. Max(t) \in 1..N
      BY <1>1, <2>2, MaxIs
    <3>2. t \ {Max(t)} \in SUBSET (1..N)
      OBVIOUS
    <3>3. h[t] = step[Max(t)][h[t \ {Max(t)}]]
      BY <1>5, <2>2 DEF FoldsOver
    <3> QED
      BY <1>4, <2>1, <3>1, <3>2, <3>3
  <2>3. \A t \in SUBSET (1..N) : h[t] = IF t = {} THEN old ELSE Taken(h[t \ {Max(t)}], s[Max(t)])
    BY <2>1, <2>2
  <2> QED
    BY <2>1, <2>3
<1>7. k = Body(k)
  <2> HIDE DEF Body
  <2> QED
    BY <1>6, Zenon
<1> HIDE DEF k
<1>8. k[{}] = old /\ \A n \in 1..N : k[1..n] = Taken(k[1..n - 1], s[n])
  <2>1. {} \in SUBSET (1..N)
    OBVIOUS
  <2>2. ASSUME NEW n \in 1..N PROVE k[1..n] = Taken(k[1..n - 1], s[n])
    <3>1. Max(1..n) = n /\ 1..n \ {n} = 1..n - 1 /\ 1..n # {}
      <4>1. n \in Nat \ {0}
        BY <1>1
      <4> QED
        BY <4>1, LastOfFirst
    <3>2. 1..n \in SUBSET (1..N)
      BY <1>1
    <3>3. \A t \in SUBSET (1..N) : t # {} => k[t] = Taken(k[t \ {Max(t)}], s[Max(t)])
      BY <1>7, Zenon
    <3>4. k[1..n] = Taken(k[1..n \ {Max(1..n)}], s[Max(1..n)])
      BY <3>1, <3>2, <3>3, Zenon
    <3> HIDE DEF Body
    <3> QED
      BY <3>1, <3>4
  <2> QED
    BY <1>7, <2>1, <2>2
<1>9. Partial(g, TableValue, old, step, N)
  <2>1. g \in [0..N -> TableValue] /\ g[0] = old
    BY DEF N
  <2>2. ASSUME NEW n \in 1..N PROVE g[n] = step[n][g[n - 1]]
    <3>1. n - 1 \in 0..N
      BY <1>1
    <3>2. g[n] = Taken(g[n - 1], s[n])
      BY DEF N
    <3> QED
      BY <1>4, <2>1, <3>1, <3>2
  <2> QED
    BY <2>1, <2>2 DEF Partial
<1>10. k[1..N] = g[N]
  <2> HIDE DEF Body
  <2>1. Recurses(k, TableValue, old, step, N)
    BY <1>4, <1>8 DEF Recurses
  <2> QED
    BY <1>1, <1>9, <2>1, FoldEnds
<1> QED
  BY <1>2, <1>10 DEF N

\* And so does RowsInOrder.
LEMMA RowsInOrderIs ==
  ASSUME NEW s \in Seq(Message), NEW old \in Seq(TheInfo), NEW g \in [0..Len(s) -> Seq(TheInfo)],
         g[0] = old, \A n \in 1..Len(s) : g[n] = TakenByName(g[n - 1], s[n])
  PROVE  RowsInOrder(old, s) = g[Len(s)]
<1> DEFINE N == Len(s)
           step == [n \in 1..N |-> [x \in Seq(TheInfo) |-> TakenByName(x, s[n])]]
           Body(f) == [t \in SUBSET (1..N) |->
                          IF t = {} THEN old ELSE TakenByName(f[t \ {Max(t)}], s[Max(t)])]
           k == CHOOSE f : f = Body(f)
<1>1. N \in Nat /\ DOMAIN s = 1..N /\ \A n \in 1..N : s[n] \in Message
  OBVIOUS
<1>2. RowsInOrder(old, s) = k[1..N]
  BY <1>1, Zenon DEF RowsInOrder, FoldLeft, MapThenFoldSet
<1> HIDE DEF N
<1>3. step \in [1..N -> [Seq(TheInfo) -> Seq(TheInfo)]]
  BY <1>1, WithoutIs
<1>4. \A n \in 1..N, x \in Seq(TheInfo) : step[n][x] = TakenByName(x, s[n])
  OBVIOUS
<1> HIDE DEF step
<1>5. PICK h : FoldsOver(h, Seq(TheInfo), old, step, N)
  BY <1>1, <1>3, FoldExists
<1>6. h = Body(h)
  <2>1. h \in [SUBSET (1..N) -> Seq(TheInfo)] /\ h[{}] = old
    BY <1>5 DEF FoldsOver
  <2>2. ASSUME NEW t \in SUBSET (1..N), t # {}
        PROVE  h[t] = TakenByName(h[t \ {Max(t)}], s[Max(t)])
    <3>1. Max(t) \in 1..N
      BY <1>1, <2>2, MaxIs
    <3>2. t \ {Max(t)} \in SUBSET (1..N)
      OBVIOUS
    <3>3. h[t] = step[Max(t)][h[t \ {Max(t)}]]
      BY <1>5, <2>2 DEF FoldsOver
    <3> QED
      BY <1>4, <2>1, <3>1, <3>2, <3>3
  <2>3. \A t \in SUBSET (1..N) : h[t] = IF t = {} THEN old ELSE TakenByName(h[t \ {Max(t)}], s[Max(t)])
    BY <2>1, <2>2
  <2> QED
    BY <2>1, <2>3
<1>7. k = Body(k)
  <2> HIDE DEF Body
  <2> QED
    BY <1>6, Zenon
<1> HIDE DEF k
<1>8. k[{}] = old /\ \A n \in 1..N : k[1..n] = TakenByName(k[1..n - 1], s[n])
  <2>1. {} \in SUBSET (1..N)
    OBVIOUS
  <2>2. ASSUME NEW n \in 1..N PROVE k[1..n] = TakenByName(k[1..n - 1], s[n])
    <3>1. Max(1..n) = n /\ 1..n \ {n} = 1..n - 1 /\ 1..n # {}
      <4>1. n \in Nat \ {0}
        BY <1>1
      <4> QED
        BY <4>1, LastOfFirst
    <3>2. 1..n \in SUBSET (1..N)
      BY <1>1
    <3>3. \A t \in SUBSET (1..N) : t # {} => k[t] = TakenByName(k[t \ {Max(t)}], s[Max(t)])
      BY <1>7, Zenon
    <3>4. k[1..n] = TakenByName(k[1..n \ {Max(1..n)}], s[Max(1..n)])
      BY <3>1, <3>2, <3>3, Zenon
    <3> HIDE DEF Body
    <3> QED
      BY <3>1, <3>4
  <2> QED
    BY <1>7, <2>1, <2>2
<1>9. Partial(g, Seq(TheInfo), old, step, N)
  <2>1. g \in [0..N -> Seq(TheInfo)] /\ g[0] = old
    BY DEF N
  <2>2. ASSUME NEW n \in 1..N PROVE g[n] = step[n][g[n - 1]]
    <3>1. n - 1 \in 0..N
      BY <1>1
    <3>2. g[n] = TakenByName(g[n - 1], s[n])
      BY DEF N
    <3> QED
      BY <1>4, <2>1, <3>1, <3>2
  <2> QED
    BY <2>1, <2>2 DEF Partial
<1>10. k[1..N] = g[N]
  <2> HIDE DEF Body
  <2>1. Recurses(k, Seq(TheInfo), old, step, N)
    BY <1>4, <1>8 DEF Recurses
  <2> QED
    BY <1>1, <1>9, <2>1, FoldEnds
<1> QED
  BY <1>2, <1>10 DEF N

\* The tables that taking messages one by one goes through.
LEMMA TablesBetween ==
  ASSUME NEW s \in Seq(Message), NEW old \in TableValue
  PROVE  \E g \in [0..Len(s) -> TableValue] :
            g[0] = old /\ \A n \in 1..Len(s) : g[n] = Taken(g[n - 1], s[n])
<1> DEFINE N == Len(s)
           step == [n \in 1..N |-> [x \in TableValue |-> Taken(x, s[n])]]
<1>1. N \in Nat /\ \A n \in 1..N : s[n] \in Message
  OBVIOUS
<1>2. step \in [1..N -> [TableValue -> TableValue]]
  BY <1>1, MessageTaken
<1>3. \A n \in 1..N, x \in TableValue : step[n][x] = Taken(x, s[n])
  OBVIOUS
<1> HIDE DEF step, N
<1>4. PICK g : Partial(g, TableValue, old, step, N)
  BY <1>1, <1>2, PartialExists
<1>5. g \in [0..N -> TableValue] /\ g[0] = old
  BY <1>4 DEF Partial
<1>6. ASSUME NEW n \in 1..N PROVE g[n] = Taken(g[n - 1], s[n])
  <2>1. n - 1 \in 0..N
    BY <1>1
  <2>2. g[n] = step[n][g[n - 1]]
    BY <1>4 DEF Partial
  <2> QED
    BY <1>3, <1>5, <2>1, <2>2
<1> QED
  BY <1>5, <1>6 DEF N

\* The rows, when completed torrents go by name.
LEMMA RowsBetween ==
  ASSUME NEW s \in Seq(Message), NEW old \in Seq(TheInfo)
  PROVE  \E g \in [0..Len(s) -> Seq(TheInfo)] :
            g[0] = old /\ \A n \in 1..Len(s) : g[n] = TakenByName(g[n - 1], s[n])
<1> DEFINE N == Len(s)
           step == [n \in 1..N |-> [x \in Seq(TheInfo) |-> TakenByName(x, s[n])]]
<1>1. N \in Nat /\ \A n \in 1..N : s[n] \in Message
  OBVIOUS
<1>2. step \in [1..N -> [Seq(TheInfo) -> Seq(TheInfo)]]
  BY <1>1, WithoutIs
<1>3. \A n \in 1..N, x \in Seq(TheInfo) : step[n][x] = TakenByName(x, s[n])
  OBVIOUS
<1> HIDE DEF step, N
<1>4. PICK g : Partial(g, Seq(TheInfo), old, step, N)
  BY <1>1, <1>2, PartialExists
<1>5. g \in [0..N -> Seq(TheInfo)] /\ g[0] = old
  BY <1>4 DEF Partial
<1>6. ASSUME NEW n \in 1..N PROVE g[n] = TakenByName(g[n - 1], s[n])
  <2>1. n - 1 \in 0..N
    BY <1>1
  <2>2. g[n] = step[n][g[n - 1]]
    BY <1>4 DEF Partial
  <2> QED
    BY <1>3, <1>5, <2>1, <2>2
<1> QED
  BY <1>5, <1>6 DEF N

\* No message taken, the table stays.
LEMMA TableNothing ==
  ASSUME NEW t \in TableValue
  PROVE  FoldLeft(Taken, t, <<>>) = t
<1> DEFINE g == [n \in 0..0 |-> t]
<1>1. <<>> \in Seq(Message) /\ Len(<<>>) = 0 /\ 1..0 = {}
  OBVIOUS
<1>2. g \in [0..0 -> TableValue] /\ g[0] = t
  OBVIOUS
<1> HIDE DEF g
<1> QED
  BY <1>1, <1>2, AllTakenIs

\* And a message more is taken last.
LEMMA TableAppend ==
  ASSUME NEW t \in TableValue, NEW s \in Seq(Message), NEW m \in Message
  PROVE  /\ FoldLeft(Taken, t, s) \in TableValue
         /\ FoldLeft(Taken, t, Append(s, m)) = Taken(FoldLeft(Taken, t, s), m)
<1> DEFINE N == Len(s)
           r == Append(s, m)
<1>1. N \in Nat /\ r \in Seq(Message) /\ Len(r) = N + 1 /\ r[N + 1] = m
      /\ \A n \in 1..N : r[n] = s[n]
  BY AppendProperties
<1> HIDE DEF r
<1>2. PICK g \in [0..Len(r) -> TableValue] :
         g[0] = t /\ \A n \in 1..Len(r) : g[n] = Taken(g[n - 1], r[n])
  BY <1>1, TablesBetween
<1> DEFINE j == [n \in 0..N |-> g[n]]
<1>3. 0 \in 0..N /\ N \in 0..N /\ N + 1 \in 1..Len(r) /\ (N + 1) - 1 = N
      /\ (\A n \in 0..N : n \in 0..Len(r)) /\ \A n \in 1..N : n \in 1..Len(r) /\ n \in 0..N /\ n - 1 \in 0..N
  BY <1>1
<1>4. j \in [0..N -> TableValue] /\ j[0] = t /\ j[N] = g[N]
  BY <1>2, <1>3
<1>5. ASSUME NEW n \in 1..N PROVE j[n] = Taken(j[n - 1], s[n])
  <2>1. g[n] = Taken(g[n - 1], r[n]) /\ r[n] = s[n]
    BY <1>1, <1>2, <1>3
  <2>2. j[n] = g[n] /\ j[n - 1] = g[n - 1]
    BY <1>3
  <2> QED
    BY <2>1, <2>2
<1> HIDE DEF j
<1>6. FoldLeft(Taken, t, s) = g[N]
  BY <1>4, <1>5, AllTakenIs
<1>7. FoldLeft(Taken, t, r) = g[Len(r)]
  BY <1>1, <1>2, AllTakenIs
<1>8. g[Len(r)] = Taken(g[N], m)
  <2>1. g[N + 1] = Taken(g[(N + 1) - 1], r[N + 1])
    BY <1>2, <1>3
  <2> QED
    BY <1>1, <1>3, <2>1
<1> QED
  BY <1>2, <1>3, <1>6, <1>7, <1>8 DEF r

\* The rows of a table are those of seq, up to one completion since the last list,
\* and while there was none index_map names them.
Follows(t, seq) ==
    \/ t.panicked
    \/ /\ t.singles <= 1 => t.rows = seq
       /\ t.singles = 0 => Exact(t)

\* A message taken by both keeps it so.
LEMMA FollowsOn ==
  ASSUME NEW t \in TableValue, NEW seq \in Seq(TheInfo), Follows(t, seq), NEW m \in Message
  PROVE  Follows(Taken(t, m), TakenByName(seq, m))
<1>1. CASE t.panicked
  BY <1>1 DEF Follows, Taken
<1>2. CASE ~t.panicked /\ m.type = "All"
  <2>1. m.infos \in List
    BY <1>2, MessageIs
  <2>2. /\ Listed(t, m.infos).rows = m.infos /\ Exact(Listed(t, m.infos))
    BY <2>1, ListedIs
  <2> QED
    BY <1>2, <2>2 DEF Follows, Taken, TakenByName
<1>3. CASE ~t.panicked /\ m.type # "All"
  <2> DEFINE h == m.info.hash
             u == RowRemoved(t, h)
  <2>1. h \in Hash
    BY <1>3, MessageIs DEF TheInfo
  <2>2. Taken(t, m) = u /\ TakenByName(seq, m) = Without(seq, h)
    BY <1>3 DEF Taken, TakenByName
  <2>3. CASE h \notin DOMAIN t.index
    <3>1. u.panicked
      BY <2>1, <2>3, RowRemovedIs
    <3> QED
      BY <2>2, <3>1 DEF Follows
  <2>4. CASE h \in DOMAIN t.index
    <3>1. u.singles = t.singles + 1 /\ (Exact(t) => u.rows = Without(t.rows, h))
      BY <2>1, <2>4, RowRemovedIs
    <3>2. t.singles \in Nat
      BY DEF TableValue
    <3>3. t.singles = 0 => t.rows = seq /\ Exact(t)
      BY <1>3, <3>2 DEF Follows
    <3>4. u.singles # 0 /\ (u.singles <= 1 => t.singles = 0)
      BY <3>1, <3>2
    <3> HIDE DEF u, h
    <3>5. Follows(u, Without(seq, h))
      BY <3>1, <3>3, <3>4 DEF Follows
    <3> QED
      BY <2>2, <3>5
  <2> QED
    BY <2>3, <2>4
<1> QED
  BY <1>1, <1>2, <1>3

\* So it is after all of them.
LEMMA FollowsToTheEnd ==
  ASSUME NEW t \in TableValue, Follows(t, t.rows), NEW s \in Seq(Message)
  PROVE  /\ FoldLeft(Taken, t, s) \in TableValue
         /\ Follows(FoldLeft(Taken, t, s), RowsInOrder(t.rows, s))
<1> DEFINE N == Len(s)
<1>1. t.rows \in Seq(TheInfo) /\ N \in Nat /\ \A n \in 1..N : s[n] \in Message
  BY DEF TableValue
<1>2. PICK g \in [0..N -> TableValue] :
         g[0] = t /\ \A n \in 1..N : g[n] = Taken(g[n - 1], s[n])
  BY TablesBetween
<1>3. PICK r \in [0..N -> Seq(TheInfo)] :
         r[0] = t.rows /\ \A n \in 1..N : r[n] = TakenByName(r[n - 1], s[n])
  BY <1>1, RowsBetween
<1>4. FoldLeft(Taken, t, s) = g[N] /\ RowsInOrder(t.rows, s) = r[N]
  BY <1>1, <1>2, <1>3, AllTakenIs, RowsInOrderIs
<1> HIDE DEF N
<1> DEFINE S == {n \in 0..N : Follows(g[n], r[n])}
<1>5. 0 \in S
  BY <1>1, <1>2, <1>3
<1>6. ASSUME NEW n \in 0..N - 1, n \in S PROVE n + 1 \in S
  <2>1. n \in 0..N /\ n + 1 \in 0..N /\ n + 1 \in 1..N /\ (n + 1) - 1 = n
    BY <1>1
  <2>2. g[n + 1] = Taken(g[n], s[n + 1]) /\ r[n + 1] = TakenByName(r[n], s[n + 1])
    BY <1>2, <1>3, <2>1
  <2>3. g[n] \in TableValue /\ r[n] \in Seq(TheInfo) /\ Follows(g[n], r[n]) /\ s[n + 1] \in Message
    BY <1>1, <1>2, <1>3, <1>6, <2>1
  <2>4. Follows(g[n + 1], r[n + 1])
    BY <2>2, <2>3, FollowsOn
  <2> QED
    BY <2>1, <2>4
<1> HIDE DEF S
<1>7. \A n \in 0..N - 1 : n \in S => n + 1 \in S
  BY <1>6
<1>8. \A n \in 0..N : n \in S
  BY <1>1, <1>5, <1>7, Counting
<1>9. N \in 0..N
  BY <1>1
<1> QED
  BY <1>2, <1>4, <1>8, <1>9 DEF S

----------------------------------------------------------------------------
(* The table that layout leaves.  Taking what is waiting will not panic unless *)
(* a completion was told too early: index_map will hold each torrent that is   *)
(* listed and has not completed.                                               *)

\* The table, were it laid out now.
Ahead == FoldLeft(Taken, Table, messages)
\* It does not panic and holds what may still complete.
Serves(t) == ~t.panicked /\ listed \ finished \subseteq DOMAIN t.index

TableInv ==
    /\ Table \in TableValue /\ early \in BOOLEAN
    /\ Follows(Table, rows)
    /\ ~early => ~panicked
    /\ front = "table" /\ ~early => Serves(Ahead)

\* The table after the next layout, when a step is done.
LEMMA AheadIs == Ahead' = FoldLeft(Taken, Table', messages')
BY Zenon DEF Ahead, FoldLeft, MapThenFoldSet, Table, Taken, Listed, RowRemoved

\* The parts of TableInv about the table alone stay with it.
LEMMA TableStays ==
  ASSUME TableInv, UNCHANGED tableVars, early' \in BOOLEAN, ~early' => ~early,
         front' = "table" /\ ~early' => Serves(Ahead)'
  PROVE  TableInv'
<1>1. Table' = Table /\ rows' = rows /\ panicked' = panicked
  BY DEF tableVars, Table
<1>2. Follows(Table, rows)'
  BY <1>1 DEF TableInv, Follows, Exact, tableVars, Table
<1>3. TableValue' = TableValue
  BY DEF TableValue, TheInfo, Status, Indexes
<1> QED
  BY <1>1, <1>2, <1>3, Zenon DEF TableInv

\* A step that sends the front end nothing.
LEMMA NothingSent ==
  ASSUME TableInv, UNCHANGED <<tableVars, front, messages, early>>,
         listed' \ finished' \subseteq listed \ finished
  PROVE  TableInv'
<1>1. Table' = Table /\ messages' = messages
  BY DEF tableVars, Table
<1>2. Ahead' = Ahead
  BY <1>1, AheadIs, Zenon DEF Ahead
<1>3. front' = "table" /\ ~early' => Serves(Ahead)'
  <2>1. early' \in BOOLEAN /\ early' = early /\ front' = front
    BY DEF TableInv
  <2>2. ASSUME Serves(Ahead) PROVE Serves(Ahead)'
    BY <1>2, <2>2 DEF Serves
  <2> QED
    BY <2>1, <2>2 DEF TableInv
<1>4. early' \in BOOLEAN /\ (~early' => ~early) /\ UNCHANGED tableVars
  BY DEF TableInv
<1> QED
  BY <1>3, <1>4, TableStays

\* A step that sends it a message.
LEMMA MessageSent ==
  ASSUME TableInv, TypeInv, UNCHANGED <<tableVars, front>>, early' \in BOOLEAN, ~early' => ~early,
         NEW m \in Message, messages' = Append(messages, m),
         ASSUME front = "table", ~early', Serves(Ahead), Ahead \in TableValue
         PROVE  ~Taken(Ahead, m).panicked /\ listed' \ finished' \subseteq DOMAIN Taken(Ahead, m).index
  PROVE  TableInv'
<1>1. Table' = Table
  BY DEF tableVars, Table
<1>2. Ahead' = Taken(Ahead, m) /\ Ahead \in TableValue
  BY <1>1, AheadIs, TableAppend DEF Ahead, TypeInv, TableInv
<1>3. front' = "table" /\ ~early' => Serves(Ahead)'
  <2> SUFFICES ASSUME front' = "table", ~early' PROVE Serves(Ahead)'
    OBVIOUS
  <2>1. front = "table" /\ ~early /\ Serves(Ahead)
    BY DEF TableInv
  <2>2. ~Taken(Ahead, m).panicked /\ listed' \ finished' \subseteq DOMAIN Taken(Ahead, m).index
    BY <1>2, <2>1
  <2> QED
    BY <1>2, <2>2 DEF Serves
<1> QED
  BY <1>3, TableStays

\* Every step keeps TableInv.
LEMMA TableNext == TypeInv /\ TableInv /\ [Next]_vars => TableInv'
<1> SUFFICES ASSUME TypeInv, TableInv, [Next]_vars PROVE TableInv'
  OBVIOUS
<1>1. CASE SendUpdate
  <2>1. PICK order \in SetToSeqs(DOMAIN torrents) :
           messages' = Append(messages, [type |-> "All", infos |-> [n \in DOMAIN order |-> Info(order[n])]])
    BY <1>1 DEF SendUpdate
  <2> DEFINE list == [n \in DOMAIN order |-> Info(order[n])]
             m == [type |-> "All", infos |-> list]
  <2>2. list \in List /\ DOMAIN torrents = {order[n] : n \in DOMAIN order}
    BY ListIs DEF TypeInv
  <2>3. {list[n].hash : n \in DOMAIN list} = DOMAIN torrents
    <3>1. DOMAIN list = DOMAIN order /\ \A n \in DOMAIN order : list[n].hash = order[n]
      BY DEF Info
    <3> HIDE DEF list
    <3> QED
      BY <2>2, <3>1
  <2> HIDE DEF list
  <2>4. m \in Message /\ m.type = "All" /\ m.infos = list
    BY <2>2 DEF Message
  <2>5. messages' = Append(messages, m)
    BY <2>1 DEF list
  <2> HIDE DEF m
  <2>6. UNCHANGED <<tableVars, front, early>> /\ listed' = DOMAIN torrents
    BY <1>1 DEF SendUpdate
  <2>7. ASSUME Serves(Ahead), Ahead \in TableValue
        PROVE  ~Taken(Ahead, m).panicked /\ listed' \ finished' \subseteq DOMAIN Taken(Ahead, m).index
    <3>1. ~Ahead.panicked
      BY <2>7 DEF Serves
    <3>2. Taken(Ahead, m) = Listed(Ahead, list)
      BY <2>4, <3>1 DEF Taken
    <3>3. /\ Listed(Ahead, list).panicked = Ahead.panicked
          /\ DOMAIN Listed(Ahead, list).index = {list[n].hash : n \in DOMAIN list}
      BY <2>2, <2>7, ListedIs
    <3> QED
      BY <2>3, <2>6, <3>1, <3>2, <3>3
  <2>8. early' \in BOOLEAN /\ (~early' => ~early)
    BY <2>6 DEF TableInv
  <2> QED
    BY <2>4, <2>5, <2>6, <2>7, <2>8, MessageSent
<1>2. ASSUME NEW h \in Hash, LastPiece(h) PROVE TableInv'
  <2>1. /\ h \in DOMAIN torrents \ finished /\ finished' = finished \cup {h}
        /\ listed' = listed /\ UNCHANGED <<tableVars, front>>
        /\ Completed(h) \/ UNCHANGED <<messages, early>>
    BY <1>2, Zenon DEF LastPiece
  <2>2. CASE UNCHANGED <<messages, early>>
    <3>1. listed' \ finished' \subseteq listed \ finished
      BY <2>1
    <3> QED
      BY <2>1, <2>2, <3>1, NothingSent
  <2>3. CASE Completed(h)
    <3> DEFINE m == [type |-> "One", info |-> [hash |-> h, status |-> "Complete"]]
    <3>1. m \in Message /\ m.type # "All" /\ m.info.hash = h
      BY DEF Message, TheInfo, Status
    <3>2. messages' = Append(messages, m)
      BY <2>3 DEF Completed
    <3> HIDE DEF m
    <3>3. early' \in BOOLEAN /\ (~early' => ~early /\ h \in listed)
      BY <2>3 DEF Completed, TableInv
    <3>4. ASSUME ~early', Serves(Ahead), Ahead \in TableValue
          PROVE  ~Taken(Ahead, m).panicked /\ listed' \ finished' \subseteq DOMAIN Taken(Ahead, m).index
      <4>1. ~Ahead.panicked /\ h \in DOMAIN Ahead.index
        BY <2>1, <3>3, <3>4 DEF Serves
      <4>2. Taken(Ahead, m) = RowRemoved(Ahead, h)
        BY <3>1, <4>1 DEF Taken
      <4>3. /\ RowRemoved(Ahead, h).panicked = Ahead.panicked
            /\ DOMAIN RowRemoved(Ahead, h).index = DOMAIN Ahead.index \ {h}
        BY <3>4, <4>1, RowRemovedIs
      <4>4. listed \ finished \subseteq DOMAIN Ahead.index
        BY <3>4 DEF Serves
      <4> QED
        BY <2>1, <4>1, <4>2, <4>3, <4>4
    <3> QED
      BY <2>1, <3>1, <3>2, <3>3, <3>4, MessageSent
  <2> QED
    BY <2>1, <2>2, <2>3
<1>3. CASE RecvClient \/ Dies
  <2>1. UNCHANGED <<tableVars, front, messages, early, listed, finished>>
    BY <1>3, Zenon DEF RecvClient, Dies
  <2> QED
    BY <2>1, NothingSent
<1>4. ASSUME NEW h \in Hash, Add(h) PROVE TableInv'
  <2>1. /\ UNCHANGED <<tableVars, front, messages, early>>
        /\ listed' = listed \ {h} /\ finished' = finished \ {h}
    BY <1>4, Zenon DEF Add
  <2>2. listed' \ finished' \subseteq listed \ finished
    BY <2>1
  <2> QED
    BY <2>1, <2>2, NothingSent
<1>5. ASSUME NEW h \in Hash, NEW type, Command(type, h) PROVE TableInv'
  <2>1. UNCHANGED <<tableVars, front, messages, early, listed, finished>>
    BY <1>5, Zenon DEF Command, ctlVars
  <2> QED
    BY <2>1, NothingSent
<1>6. CASE Announced \/ AddPanics \/ UNCHANGED vars
  <2>1. UNCHANGED <<tableVars, front, messages, early, listed, finished>>
    BY <1>6, Zenon DEF Announced, AddPanics, ctlVars, vars
  <2> QED
    BY <2>1, NothingSent
<1>7. CASE Get
  <2>1. front' # "table" /\ UNCHANGED <<tableVars, early>>
    BY <1>7 DEF Get
  <2>2. early' \in BOOLEAN /\ (~early' => ~early) /\ UNCHANGED tableVars
    BY <2>1 DEF TableInv
  <2> QED
    BY <2>1, <2>2, TableStays
<1>8. CASE Layout
  <2>1. /\ front = "table" /\ ~panicked
        /\ rows' = Ahead.rows /\ indexMap' = Ahead.index
        /\ panicked' = Ahead.panicked /\ singles' = Ahead.singles
        /\ messages' = <<>> /\ UNCHANGED <<front, early, listed, finished>>
    BY <1>8, Zenon DEF Layout, Ahead
  <2>2. Ahead \in TableValue /\ Follows(Ahead, RowsInOrder(rows, messages))
    <3>1. Table \in TableValue /\ Table.rows = rows /\ Follows(Table, rows) /\ messages \in Seq(Message)
      BY DEF TableInv, TypeInv, Table
    <3> HIDE DEF Table
    <3> QED
      BY <3>1, FollowsToTheEnd DEF Ahead
  <2>3. Table' = Ahead
    <3>1. Ahead = [rows |-> Ahead.rows, index |-> Ahead.index,
                   panicked |-> Ahead.panicked, singles |-> Ahead.singles]
      BY <2>2 DEF TableValue
    <3> QED
      BY <2>1, <3>1, Zenon DEF Table
  <2>4. Ahead' = Ahead
    <3>1. Ahead' = FoldLeft(Taken, Ahead, <<>>)
      BY <2>1, <2>3, AheadIs, Zenon
    <3> QED
      BY <2>2, <3>1, TableNothing
  <2>5. TableValue' = TableValue
    BY DEF TableValue, TheInfo, Status, Indexes
  <2>6. Follows(Ahead, Ahead.rows)
    BY <2>2 DEF Follows
  <2>7. Follows(Table, rows)'
    <3>1. Table'.panicked = Ahead.panicked /\ Table'.singles = Ahead.singles /\ Table'.rows = Ahead.rows
          /\ Table'.index = Ahead.index
      BY <2>3
    <3> QED
      BY <2>1, <2>6, <3>1 DEF Follows, Exact
  <2>8. ~early => Serves(Ahead) /\ ~Ahead.panicked
    BY <2>1 DEF TableInv, Serves
  <2>9. ASSUME ~early PROVE Serves(Ahead)'
    BY <2>1, <2>4, <2>8, <2>9 DEF Serves
  <2>10. Table' \in TableValue' /\ early' \in BOOLEAN /\ early' = early
    BY <2>1, <2>2, <2>3, <2>5 DEF TableInv
  <2> QED
    BY <2>1, <2>7, <2>8, <2>9, <2>10 DEF TableInv
<1> QED
  BY <1>1, <1>2, <1>3, <1>4, <1>5, <1>6, <1>7, <1>8 DEF Next, ControllerNext, FrontNext

\* The empty table is as it should be.
LEMMA TableInit == Init => TableInv
<1> SUFFICES ASSUME Init PROVE TableInv
  OBVIOUS
<1>1. /\ messages = <<>> /\ listed = {} /\ early = FALSE
      /\ rows = <<>> /\ indexMap = <<>> /\ panicked = FALSE /\ singles = 0
  BY DEF Init
<1>2. Table \in TableValue
  <2>1. <<>> \in [{} -> Nat] /\ {} \in SUBSET Hash
    OBVIOUS
  <2>2. <<>> \in Indexes
    BY <2>1, Zenon DEF Indexes
  <2>3. <<>> \in Seq(TheInfo) /\ 0 \in Nat /\ FALSE \in BOOLEAN
    OBVIOUS
  <2>4. Table = [rows |-> <<>>, index |-> <<>>, panicked |-> FALSE, singles |-> 0]
    BY <1>1 DEF Table
  <2> QED
    BY <2>2, <2>3, <2>4 DEF TableValue
<1>3. Follows(Table, rows)
  <2>1. DOMAIN <<>> = {}
    OBVIOUS
  <2>2. Table.rows = <<>> /\ Table.index = <<>>
    BY <1>1 DEF Table
  <2>3. Exact(Table)
    BY <2>1, <2>2 DEF Exact
  <2> QED
    BY <1>1, <2>2, <2>3 DEF Follows
<1>4. Ahead = Table
  BY <1>1, <1>2, TableNothing DEF Ahead
<1>5. Serves(Ahead)
  BY <1>1, <1>4 DEF Serves, Table
<1> QED
  BY <1>1, <1>2, <1>3, <1>5 DEF TableInv

\* Taking what was sent, the table's rows are right up to one completion since the last
\* All, whatever order the torrents are listed in, and it panics only over a completion
\* told before its torrent was listed.
THEOREM IndexMapCorrect == Spec => IndexMapFindsRows
<1>1. TypeInv /\ TableInv /\ TableInv' /\ [Next]_vars
      => [/\ panicked' => early
          /\ front = "table" /\ messages # <<>> /\ messages' = <<>> /\ ~panicked' /\ singles' <= 1
                => rows' = RowsInOrder(rows, messages)]_vars
  <2> SUFFICES ASSUME TypeInv, TableInv, TableInv', [Next]_vars, vars' # vars
               PROVE  /\ panicked' => early
                      /\ front = "table" /\ messages # <<>> /\ messages' = <<>> /\ ~panicked' /\ singles' <= 1
                            => rows' = RowsInOrder(rows, messages)
    OBVIOUS
  <2>1. CASE Layout
    <3>1. /\ rows' = Ahead.rows /\ panicked' = Ahead.panicked /\ singles' = Ahead.singles
          /\ early' = early
      BY <2>1, Zenon DEF Layout, Ahead
    <3>2. panicked' => early
      BY <3>1 DEF TableInv
    <3>3. Follows(Ahead, RowsInOrder(rows, messages))
      <4>1. Table \in TableValue /\ Table.rows = rows /\ Follows(Table, rows) /\ messages \in Seq(Message)
        BY DEF TableInv, TypeInv, Table
      <4> HIDE DEF Table
      <4> QED
        BY <4>1, FollowsToTheEnd DEF Ahead
    <3> QED
      BY <3>1, <3>2, <3>3 DEF Follows
  <2>2. ASSUME panicked' = panicked,
               front = "table" /\ messages # <<>> => messages' # <<>>
        PROVE  /\ panicked' => early
               /\ front = "table" /\ messages # <<>> /\ messages' = <<>> /\ ~panicked' /\ singles' <= 1
                     => rows' = RowsInOrder(rows, messages)
    BY <2>2 DEF TableInv
  <2>3. \A m : Append(messages, m) # <<>>
    BY DEF TypeInv
  <2>4. ASSUME NEW h, LastPiece(h) PROVE panicked' = panicked /\ (messages # <<>> => messages' # <<>>)
    <3>1. UNCHANGED tableVars /\ (Completed(h) \/ messages' = messages)
      BY <2>4, Zenon DEF LastPiece
    <3> QED
      BY <2>3, <3>1 DEF Completed, tableVars
  <2>5. CASE SendUpdate
    BY <2>2, <2>3, <2>5 DEF SendUpdate, tableVars
  <2>6. CASE Get
    BY <2>2, <2>6 DEF Get, tableVars
  <2>7. ASSUME \/ RecvClient \/ Dies \/ Announced \/ AddPanics \/ UNCHANGED vars
               \/ \E h : Add(h) \/ \E type : Command(type, h)
        PROVE  panicked' = panicked /\ messages' = messages
    BY <2>7 DEF RecvClient, Dies, Announced, AddPanics, vars, Add, Command, ctlVars, tableVars
  <2> QED
    BY <2>1, <2>2, <2>4, <2>5, <2>6, <2>7 DEF Next, ControllerNext, FrontNext
<1> QED
  BY <1>1, TypesCorrect, TableInit, TableNext, PTL DEF Spec, IndexMapFindsRows
====
