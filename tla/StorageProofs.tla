---- MODULE StorageProofs ----
(* Theorems about Storage.  First the download markers, whatever blocks come   *)
(* in whatever order; then the disk, for every layout in which no file ends    *)
(* inside a piece: what is marked as downloaded is in its place and is read    *)
(* back, and a torrent with nothing remaining is whole.                        *)
EXTENDS Storage, FoldLemmas, SequenceTheorems, FiniteSetTheorems, TLAPS

Marker == [kind : {"Begin", "End"}, val : Int]

\* In order, globally: what MarkersOrdered says of neighbours.
Ordered(ms) ==
    /\ ms \in Seq(Marker)
    /\ Len(ms) % 2 = 0
    /\ \A n \in 1..Len(ms) : ms[n].kind = IF n % 2 = 1 THEN "Begin" ELSE "End"
    /\ \A m, n \in 1..Len(ms) : m < n => ms[m].val < ms[n].val

\* The offsets in the stretches of ms.
Covered(ms) ==
    {o \in Int : \E n \in 1..Len(ms) :
        n % 2 = 1 /\ ms[n].val <= o /\ o < ms[n + 1].val}

\* Ordered, part by part, with the types of the markers.
LEMMA OrderedIs ==
  ASSUME NEW ms, Ordered(ms)
  PROVE  /\ ms \in Seq(Marker)
         /\ DOMAIN ms = 1..Len(ms) /\ Len(ms) \in Nat /\ Len(ms) % 2 = 0
         /\ \A n \in 1..Len(ms) : ms[n] \in Marker /\ ms[n].val \in Int
         /\ \A n \in 1..Len(ms) : ms[n].kind = IF n % 2 = 1 THEN "Begin" ELSE "End"
         /\ \A m, n \in 1..Len(ms) : m < n => ms[m].val < ms[n].val
<1>1. ms \in Seq(Marker)
  BY DEF Ordered
<1>2. DOMAIN ms = 1..Len(ms) /\ Len(ms) \in Nat /\ ms \in [1..Len(ms) -> Marker]
  BY <1>1, LenProperties
<1>3. \A x \in Marker : x.val \in Int
  BY DEF Marker
<1> QED
  BY <1>1, <1>2, <1>3 DEF Ordered

\* Begins stand at odd positions, ends at even ones.
LEMMA Parity ==
  /\ \A n \in Int : n % 2 \in {0, 1}
  /\ \A n \in Int : (n + 1) % 2 = 1 <=> n % 2 = 0
  /\ \A n \in Int : (n - 1) % 2 = 1 <=> n % 2 = 0
  /\ \A n, m \in Int : (n - m) % 2 = 0 <=> n % 2 = m % 2
<1>1. ASSUME NEW n \in Int
      PROVE  n % 2 \in {0, 1} /\ ((n + 1) % 2 = 1 <=> n % 2 = 0) /\ ((n - 1) % 2 = 1 <=> n % 2 = 0)
  OBVIOUS
<1>2. ASSUME NEW n \in Int, NEW m \in Int
      PROVE  (n - m) % 2 = 0 <=> n % 2 = m % 2
  OBVIOUS
<1> QED
  BY <1>1, <1>2

\* PositionOf parts markers that are in order.
LEMMA PositionIs ==
  ASSUME NEW ms, Ordered(ms), NEW v \in Int
  PROVE  /\ PositionOf(ms, v) \in 1..Len(ms) + 1
         /\ \A n \in 1..Len(ms) : ms[n].val < v <=> n < PositionOf(ms, v)
<1> DEFINE S == {n \in DOMAIN ms : ms[n].val >= v} \cup {Len(ms) + 1}
           p == PositionOf(ms, v)
<1>1. DOMAIN ms = 1..Len(ms) /\ Len(ms) \in Nat /\ \A n \in 1..Len(ms) : ms[n].val \in Int
  BY OrderedIs
<1>2. S \in SUBSET Nat /\ S # {}
  BY <1>1
<1>3. p \in S /\ \A x \in S : p <= x
  <2> HIDE DEF S
  <2>1. p = Min(S)
    BY DEF S, PositionOf
  <2> QED
    BY <1>2, <2>1, MinIs
<1> HIDE DEF p
<1>4. p \in 1..Len(ms) + 1
  BY <1>1, <1>3
<1>5. ASSUME NEW n \in 1..Len(ms) PROVE ms[n].val < v <=> n < p
  <2>1. CASE n < p
    BY <1>1, <1>3, <2>1
  <2>2. CASE n >= p
    <3>1. p \in 1..Len(ms) /\ ms[p].val >= v
      BY <1>1, <1>3, <2>2
    <3>2. p < n => ms[p].val < ms[n].val
      BY <3>1 DEF Ordered
    <3> QED
      BY <1>1, <1>4, <2>2, <3>1, <3>2
  <2> QED
    BY <1>4, <2>1, <2>2
<1> QED
  BY <1>4, <1>5 DEF p

\* What in_shaded says of an offset is told by the parity of its position.
LEMMA ShadedIs ==
  ASSUME NEW ms, Ordered(ms), NEW v \in Int, NEW begin \in BOOLEAN, NEW p,
         p = PositionOf(ms, IF begin THEN v ELSE v + 1)
  PROVE  InShaded(ms, v, begin) <=> p % 2 = 0
<1> DEFINE before == {n \in DOMAIN ms : \/ ms[n].val < v
                                        \/ ms[n].val = v /\ ~begin}
<1>1. /\ DOMAIN ms = 1..Len(ms) /\ Len(ms) \in Nat
      /\ \A n \in 1..Len(ms) : ms[n].val \in Int
      /\ \A n \in 1..Len(ms) : ms[n].kind = IF n % 2 = 1 THEN "Begin" ELSE "End"
  BY OrderedIs
<1>2. p \in 1..Len(ms) + 1
      /\ \A n \in 1..Len(ms) : ms[n].val < (IF begin THEN v ELSE v + 1) <=> n < p
  <2> DEFINE w == IF begin THEN v ELSE v + 1
  <2>1. w \in Int /\ p = PositionOf(ms, w)
    OBVIOUS
  <2> HIDE DEF w
  <2>2. p \in 1..Len(ms) + 1 /\ \A n \in 1..Len(ms) : ms[n].val < w <=> n < p
    BY <2>1, PositionIs
  <2> QED
    BY <2>2 DEF w
<1>3. before = 1..p - 1
  BY <1>1, <1>2
<1>4. InShaded(ms, v, begin) <=> before # {} /\ ms[Max(before)].kind = "Begin"
  BY DEF InShaded
<1> HIDE DEF before
<1>5. CASE p = 1
  BY <1>3, <1>4, <1>5
<1>6. CASE p > 1
  <2>1. Max(before) = p - 1 /\ p - 1 \in 1..Len(ms) /\ before # {}
    <3>1. p - 1 \in Nat \ {0} /\ p - 1 \in 1..Len(ms)
      BY <1>1, <1>2, <1>6
    <3>2. Max(1..p - 1) = p - 1 /\ 1..p - 1 # {}
      BY <3>1, LastOfFirst
    <3> QED
      BY <1>3, <3>1, <3>2
  <2>2. ms[p - 1].kind = IF (p - 1) % 2 = 1 THEN "Begin" ELSE "End"
    BY <1>1, <2>1
  <2>3. (p - 1) % 2 = 1 <=> p % 2 = 0
    <3>1. p \in Int
      BY <1>1, <1>2
    <3> QED
      BY <3>1, Parity
  <2> QED
    BY <1>4, <2>1, <2>2, <2>3
<1> QED
  BY <1>1, <1>2, <1>5, <1>6

\* Where the block's stretch begins in the markers with [begin, end] inserted,
\* and where those past it are; p and q are their positions before.
From(p) == IF p % 2 = 1 THEN p ELSE p - 1
Past(p, q) == IF q % 2 = 1 THEN From(p) + 2 ELSE From(p) + 1

\* Insert, marker by marker.
LEMMA InsertIs ==
  ASSUME NEW ms, Ordered(ms), NEW begin \in Int, NEW end \in Int
  PROVE  LET p == PositionOf(ms, begin)
             q == PositionOf(ms, end + 1)
             new == Insert(ms, begin, end)
         IN
         /\ new \in Seq(Marker)
         /\ Len(new) = Past(p, q) + Len(ms) - q
         /\ \A n \in 1..p - 1 : new[n] = ms[n]
         /\ p % 2 = 1 => new[p] = Begin(begin)
         /\ q % 2 = 1 => new[From(p) + 1] = End(end)
         /\ \A n \in q..Len(ms) : new[n - q + Past(p, q)] = ms[n]
<1> DEFINE p == PositionOf(ms, begin)
           q == PositionOf(ms, end + 1)
           new == Insert(ms, begin, end)
<1> DEFINE a == SubSeq(ms, 1, p - 1)
           b == IF InShaded(ms, begin, TRUE) THEN <<>> ELSE <<Begin(begin)>>
           c == IF InShaded(ms, end, FALSE) THEN <<>> ELSE <<End(end)>>
           d == SubSeq(ms, q, Len(ms))
<1>1. new = ((a \o b) \o c) \o d
  BY DEF Insert
<1>2. /\ p \in 1..Len(ms) + 1 /\ q \in 1..Len(ms) + 1 /\ Len(ms) \in Nat
      /\ \A n \in 1..Len(ms) : ms[n] \in Marker
  <2>1. p \in 1..Len(ms) + 1
    BY PositionIs
  <2>2. end + 1 \in Int
    OBVIOUS
  <2>3. q \in 1..Len(ms) + 1
    BY <2>2, PositionIs
  <2> HIDE DEF a, b, c, d
  <2> QED
    BY <2>1, <2>3, OrderedIs
<1>c. (InShaded(ms, begin, TRUE) <=> p % 2 = 0) /\ (InShaded(ms, end, FALSE) <=> q % 2 = 0)
  <2>1. p = PositionOf(ms, IF TRUE THEN begin ELSE begin + 1)
    OBVIOUS
  <2>2. q = PositionOf(ms, IF FALSE THEN end ELSE end + 1)
    OBVIOUS
  <2> HIDE DEF p, q
  <2>3. TRUE \in BOOLEAN /\ FALSE \in BOOLEAN
    OBVIOUS
  <2>4. InShaded(ms, begin, TRUE) <=> p % 2 = 0
    BY <2>1, <2>3, ShadedIs
  <2>5. InShaded(ms, end, FALSE) <=> q % 2 = 0
    BY <2>2, <2>3, ShadedIs
  <2> QED
    BY <2>4, <2>5
<1> HIDE DEF p, q, new
<1> DEFINE P == p % 2 = 1
           Q == q % 2 = 1
<1>a. (InShaded(ms, begin, TRUE) <=> ~P) /\ (InShaded(ms, end, FALSE) <=> ~Q)
  <2>3. p \in Int /\ q \in Int
    BY <1>2
  <2>4. (p % 2 = 0 <=> ~P) /\ (q % 2 = 0 <=> ~Q)
    BY <2>3, Parity
  <2> HIDE DEF P, Q
  <2> QED
    BY <1>c, <2>4
<1> HIDE DEF P, Q
<1>3. a \in Seq(Marker) /\ Len(a) = p - 1 /\ \A n \in 1..p - 1 : a[n] = ms[n]
  <2>1. \A n \in 1..p - 1 : ms[n] \in Marker
    BY <1>2
  <2>2. a \in Seq(Marker) /\ Len(a) = (IF 1 <= p - 1 THEN p - 1 - 1 + 1 ELSE 0)
        /\ \A n \in 1..p - 1 - 1 + 1 : a[n] = ms[1 + n - 1]
    BY <1>2, <2>1, SubSeqProperties
  <2> HIDE DEF a
  <2> QED
    BY <1>2, <2>2
<1>4. /\ d \in Seq(Marker) /\ Len(d) = Len(ms) - q + 1
      /\ \A n \in 1..Len(ms) - q + 1 : d[n] = ms[q + n - 1]
  <2>1. \A n \in q..Len(ms) : ms[n] \in Marker
    BY <1>2
  <2>2. d \in Seq(Marker) /\ Len(d) = (IF q <= Len(ms) THEN Len(ms) - q + 1 ELSE 0)
        /\ \A n \in 1..Len(ms) - q + 1 : d[n] = ms[q + n - 1]
    BY <1>2, <2>1, SubSeqProperties
  <2> HIDE DEF d
  <2> QED
    BY <1>2, <2>2
<1>5. /\ b \in Seq(Marker) /\ Len(b) = (IF P THEN 1 ELSE 0)
      /\ P => b[1] = Begin(begin)
  <2>1. Begin(begin) \in Marker
    BY DEF Begin, Marker
  <2>2. CASE P
    <3>1. b = <<Begin(begin)>>
      BY <1>a, <2>2
    <3> HIDE DEF b
    <3> QED
      BY <2>1, <2>2, <3>1
  <2>3. CASE ~P
    <3>1. b = <<>>
      BY <1>a, <2>3
    <3> HIDE DEF b
    <3> QED
      BY <2>3, <3>1
  <2> QED
    BY <2>2, <2>3
<1>6. /\ c \in Seq(Marker) /\ Len(c) = (IF Q THEN 1 ELSE 0)
      /\ Q => c[1] = End(end)
  <2>1. End(end) \in Marker
    BY DEF End, Marker
  <2>2. CASE Q
    <3>1. c = <<End(end)>>
      BY <1>a, <2>2
    <3> HIDE DEF c
    <3> QED
      BY <2>1, <2>2, <3>1
  <2>3. CASE ~Q
    <3>1. c = <<>>
      BY <1>a, <2>3
    <3> HIDE DEF c
    <3> QED
      BY <2>3, <3>1
  <2> QED
    BY <2>2, <2>3
<1> HIDE DEF a, b, c, d
<1> DEFINE l == From(p)
           r == Past(p, q)
<1>8. /\ l \in Int /\ l >= 0 /\ l <= p /\ p - 1 <= l
      /\ l = (IF P THEN p ELSE p - 1)
  BY <1>2 DEF From, P
<1>10. /\ r \in Int /\ l + 1 <= r
       /\ l + 1 <= r /\ (Q => r = l + 2) /\ (~Q => r = l + 1)
  BY <1>8 DEF Past, Q
<1> HIDE DEF l, r
<1> DEFINE ab == a \o b
           abc == ab \o c
<1>7. /\ ab \in Seq(Marker) /\ Len(ab) = l
      /\ \A n \in 1..p - 1 : ab[n] = ms[n]
      /\ P => ab[p] = Begin(begin)
  <2>1. /\ ab \in Seq(Marker) /\ Len(ab) = Len(a) + Len(b)
        /\ \A i \in 1..Len(a) + Len(b) : ab[i] = IF i <= Len(a) THEN a[i] ELSE b[i - Len(a)]
    BY <1>3, <1>5, ConcatProperties
  <2> HIDE DEF ab
  <2>2. Len(ab) = l
    BY <1>2, <1>3, <1>5, <1>8, <2>1
  <2>3. ASSUME NEW n \in 1..p - 1 PROVE ab[n] = ms[n]
    <3>1. n \in 1..Len(a) + Len(b) /\ n <= Len(a)
      BY <1>2, <1>3, <1>5
    <3> QED
      BY <1>3, <2>1, <3>1
  <2>4. ASSUME P PROVE ab[p] = Begin(begin)
    <3>1. p \in 1..Len(a) + Len(b) /\ ~ (p <= Len(a)) /\ p - Len(a) = 1
      BY <1>2, <1>3, <1>5, <2>4
    <3> QED
      BY <1>5, <2>1, <2>4, <3>1
  <2> QED
    BY <2>1, <2>2, <2>3, <2>4
<1> HIDE DEF ab
<1>9. /\ abc \in Seq(Marker) /\ Len(abc) = r - 1
      /\ \A n \in 1..l : abc[n] = ab[n]
      /\ Q => abc[l + 1] = End(end)
  <2>1. /\ abc \in Seq(Marker) /\ Len(abc) = Len(ab) + Len(c)
        /\ \A i \in 1..Len(ab) + Len(c) : abc[i] = IF i <= Len(ab) THEN ab[i] ELSE c[i - Len(ab)]
    BY <1>6, <1>7, ConcatProperties
  <2> HIDE DEF abc
  <2>2. Len(abc) = r - 1
    <3>1. CASE Q
      BY <1>6, <1>7, <1>8, <1>10, <2>1, <3>1
    <3>2. CASE ~Q
      BY <1>6, <1>7, <1>8, <1>10, <2>1, <3>2
    <3> QED
      BY <3>1, <3>2
  <2>3. ASSUME NEW n \in 1..l PROVE abc[n] = ab[n]
    <3>1. Len(c) \in Nat
      BY <1>6, LenProperties
    <3>2. n \in 1..Len(ab) + Len(c) /\ n <= Len(ab)
      BY <1>7, <1>8, <3>1
    <3> QED
      BY <2>1, <3>2
  <2>4. ASSUME Q PROVE abc[l + 1] = End(end)
    <3>1. l + 1 \in 1..Len(ab) + Len(c) /\ ~ (l + 1 <= Len(ab))
          /\ l + 1 - Len(ab) = 1
      BY <1>2, <1>6, <1>7, <1>8, <2>4
    <3> QED
      BY <1>6, <2>1, <2>4, <3>1
  <2> QED
    BY <2>1, <2>2, <2>3, <2>4
<1> HIDE DEF abc
<1>11. /\ new \in Seq(Marker) /\ Len(new) = Len(abc) + Len(d)
       /\ \A i \in 1..Len(abc) + Len(d) : new[i] = IF i <= Len(abc) THEN abc[i] ELSE d[i - Len(abc)]
  <2>1. new = abc \o d
    BY <1>1 DEF ab, abc
  <2>2. abc \in Seq(Marker) /\ d \in Seq(Marker)
    BY <1>4, <1>9
  <2> QED
    BY <2>1, <2>2, ConcatProperties
<1>b. /\ Len(d) = Len(ms) - q + 1 /\ Len(abc) = r - 1 /\ Len(ms) \in Nat
      /\ q \in Int /\ 1 <= q /\ q <= Len(ms) + 1
      /\ l \in Int /\ l >= 0 /\ r \in Int /\ l + 1 <= r
  BY <1>2, <1>4, <1>8, <1>9, <1>10
<1>12. Len(new) = r + Len(ms) - q
  BY <1>b, <1>11
<1>13. ASSUME NEW n \in 1..r - 1 PROVE new[n] = abc[n]
  BY <1>b, <1>11
<1>14. ASSUME NEW n \in q..Len(ms) PROVE new[n - q + r] = ms[n]
  <2> DEFINE i == n - q + r
  <2>1. n \in Int /\ q <= n /\ n <= Len(ms)
    BY <1>b
  <2>2. i \in 1..Len(abc) + Len(d) /\ ~ (i <= Len(abc))
    <3>1. i \in Int /\ r <= i /\ i <= r + Len(ms) - q
      BY <1>b, <2>1
    <3>2. Len(abc) + Len(d) = r + Len(ms) - q /\ Len(abc) = r - 1
      BY <1>b
    <3>3. r \in Int /\ 1 <= r /\ Len(ms) - q \in Int
      BY <1>b
    <3> HIDE DEF i
    <3> QED
      BY <3>1, <3>2, <3>3
  <2>3. i - Len(abc) = n - q + 1
    BY <1>b, <2>1
  <2>4. n - q + 1 \in 1..Len(ms) - q + 1 /\ q + (n - q + 1) - 1 = n
    BY <1>b, <2>1
  <2> HIDE DEF i
  <2>5. new[i] = d[n - q + 1]
    BY <1>11, <2>2, <2>3
  <2> QED
    BY <1>4, <2>4, <2>5 DEF i
<1>15. ASSUME NEW n \in 1..p - 1 PROVE new[n] = ms[n]
  <2>1. p \in Int /\ p - 1 <= l
    BY <1>2, <1>8
  <2>2. n \in Int /\ 1 <= n /\ n <= p - 1
    BY <2>1
  <2>3. n \in 1..l /\ n \in 1..r - 1
    BY <1>b, <2>1, <2>2
  <2> QED
    BY <1>7, <1>9, <1>13, <2>3
<1>16. ASSUME P PROVE new[p] = Begin(begin)
  <2>1. p \in 1..l /\ p \in 1..r - 1
    BY <1>2, <1>8, <1>10, <1>16
  <2> QED
    BY <1>7, <1>9, <1>13, <1>16, <2>1
<1>17. ASSUME Q PROVE new[l + 1] = End(end)
  <2>1. l + 1 \in 1..r - 1
    BY <1>b, <1>10, <1>17
  <2> QED
    BY <1>9, <1>13, <1>17, <2>1
<1> QED
  BY <1>11, <1>12, <1>14, <1>15, <1>16, <1>17 DEF l, r, P, Q, p, q, new

\* new has one stretch around [begin, end), from its marker l, in place of the
\* stretches of old that touch it; the markers past it have moved by an even d.
Merged(old, new, begin, end, l, d) ==
    /\ l \in Nat /\ l % 2 = 1 /\ d \in Int /\ d % 2 = 0
    /\ new \in Seq(Marker) /\ Len(new) = Len(old) + d /\ l + 1 <= Len(new)
    /\ new[l].kind = "Begin" /\ new[l].val <= begin
    /\ new[l + 1].kind = "End" /\ new[l + 1].val >= end
    /\ \A n \in 1..l - 1 : n <= Len(old) /\ new[n] = old[n] /\ new[n].val < new[l].val
    /\ \A n \in l + 2..Len(new) :
          n - d \in 1..Len(old) /\ new[n] = old[n - d] /\ new[l + 1].val < new[n].val
    /\ \A m \in 1..Len(old) :
          l <= m /\ m + d <= l + 1 => new[l].val <= old[m].val /\ old[m].val <= new[l + 1].val
    /\ \/ new[l].val = begin
       \/ l + 1 <= Len(old) /\ old[l] = new[l] /\ begin <= old[l + 1].val
    /\ \/ new[l + 1].val = end
       \/ /\ l - d \in Nat \ {0} /\ l + 1 - d <= Len(old)
          /\ old[l + 1 - d] = new[l + 1] /\ old[l - d].val <= end

\* Insert does that to markers in order.
LEMMA InsertMerges ==
  ASSUME NEW ms, Ordered(ms), NEW begin \in Int, NEW end \in Int, begin < end
  PROVE  \E l, d : Merged(ms, Insert(ms, begin, end), begin, end, l, d)
<1> DEFINE new == Insert(ms, begin, end)
           p == PositionOf(ms, begin)
           q == PositionOf(ms, end + 1)
           l == From(p)
           r == Past(p, q)
           d == r - q
           N == Len(ms)
           P == p % 2 = 1
           Q == q % 2 = 1
           Val(n) == ms[n].val
<1>1. /\ new \in Seq(Marker)
      /\ Len(new) = r + N - q
      /\ \A n \in 1..p - 1 : new[n] = ms[n]
      /\ P => new[p] = Begin(begin)
      /\ Q => new[l + 1] = End(end)
      /\ \A n \in q..N : new[n - q + r] = ms[n]
  BY InsertIs
<1>2. /\ N \in Nat /\ N % 2 = 0
      /\ \A n \in 1..N : Val(n) \in Int
      /\ \A n \in 1..N : ms[n].kind = IF n % 2 = 1 THEN "Begin" ELSE "End"
      /\ \A m, n \in 1..N : m < n => Val(m) < Val(n)
  BY OrderedIs
<1>3. p \in 1..N + 1 /\ \A n \in 1..N : Val(n) < begin <=> n < p
  BY PositionIs
<1>4. q \in 1..N + 1 /\ \A n \in 1..N : Val(n) < end + 1 <=> n < q
  <2>1. end + 1 \in Int
    OBVIOUS
  <2> QED
    BY <2>1, PositionIs
<1> HIDE DEF new, p, q, N, Val
<1>n. N \in Nat
  BY <1>2
<1>p. p \in Int /\ 1 <= p /\ p <= N + 1
  BY <1>3, <1>n
<1>q. q \in Int /\ 1 <= q /\ q <= N + 1
  BY <1>4, <1>n
<1>5. l \in Int /\ l >= 0 /\ l % 2 = 1 /\ (P => l = p) /\ (~P => l = p - 1)
  <2>1. p % 2 \in {0, 1} /\ ((p - 1) % 2 = 1 <=> p % 2 = 0)
    BY <1>p, Parity
  <2>2. CASE P
    BY <1>p, <2>2 DEF From
  <2>3. CASE ~P
    BY <1>p, <2>1, <2>3 DEF From
  <2> QED
    BY <2>2, <2>3
<1> HIDE DEF l
<1>6. r \in Int /\ (Q => r = l + 2) /\ (~Q => r = l + 1) /\ r % 2 = q % 2
  <2>1. q % 2 \in {0, 1}
    BY <1>q, Parity
  <2>2. (l + 1) % 2 = 0 /\ (l + 2) % 2 = 1
    BY <1>5
  <2>3. CASE Q
    BY <1>5, <2>1, <2>2, <2>3 DEF Past, l
  <2>4. CASE ~Q
    BY <1>5, <2>1, <2>2, <2>4 DEF Past, l
  <2> QED
    BY <2>3, <2>4
<1> HIDE DEF r
<1>7. d \in Int /\ d % 2 = 0 /\ d = r - q /\ r = q + d /\ Len(new) = N + d
      /\ (Q => d = l + 2 - q) /\ (~Q => d = l + 1 - q)
  <2>1. d \in Int /\ d = r - q /\ r = q + d /\ d % 2 = 0
    BY <1>q, <1>6, Parity
  <2>2. r + N - q = N + d
    BY <1>q, <1>6, <1>n
  <2>3. ASSUME Q PROVE d = l + 2 - q
    <3>1. r = l + 2
      BY <1>6, <2>3
    <3>2. l \in Int /\ q \in Int
      BY <1>5, <1>q
    <3> HIDE DEF Q
    <3> QED
      BY <3>1, <3>2
  <2>4. ASSUME ~Q PROVE d = l + 1 - q
    <3>1. r = l + 1
      BY <1>6, <2>4
    <3>2. l \in Int /\ q \in Int
      BY <1>5, <1>q
    <3> HIDE DEF Q
    <3> QED
      BY <3>1, <3>2
  <2> HIDE DEF d, Q
  <2> QED
    BY <1>1, <2>1, <2>2, <2>3, <2>4
<1> HIDE DEF d
\* An even position is not past the end, nor the first.
<1>8. (~P => p <= N /\ 2 <= p) /\ (~Q => q <= N /\ 2 <= q)
  <2>1. (N + 1) % 2 = 1 /\ 1 % 2 = 1
    <3>1. N \in Int /\ N % 2 = 0
      BY <1>2, <1>n
    <3> QED
      BY <3>1, Parity
  <2>2. ~P => p # N + 1 /\ p # 1
    BY <2>1
  <2>3. ~Q => q # N + 1 /\ q # 1
    BY <2>1
  <2> HIDE DEF P, Q
  <2> QED
    BY <1>n, <1>p, <1>q, <2>2, <2>3
<1>o. \A n \in 1..N : (n % 2 = 1 => ms[n].kind = "Begin") /\ (n % 2 = 0 => ms[n].kind = "End")
  BY <1>2
<1>e. ~Q => q % 2 = 0
  BY <1>q, Parity
<1> HIDE DEF P, Q
<1>9. /\ new[l].kind = "Begin" /\ new[l].val <= begin /\ new[l].val \in Int
      /\ \/ new[l].val = begin
         \/ l + 1 <= N /\ ms[l] = new[l] /\ begin <= Val(l + 1)
      /\ \A n \in 1..N : (n < l => Val(n) < new[l].val) /\ (l <= n => new[l].val <= Val(n))
  <2>1. CASE P
    <3>1. l = p /\ new[l] = Begin(begin)
      BY <1>1, <1>5, <2>1
    <3>2. new[l].kind = "Begin" /\ new[l].val = begin
      BY <3>1 DEF Begin
    <3>3. ASSUME NEW n \in 1..N
          PROVE  (n < l => Val(n) < begin) /\ (l <= n => begin <= Val(n))
      <4>1. n \in Int /\ Val(n) \in Int /\ (Val(n) < begin <=> n < p)
        BY <1>2, <1>3, <1>n
      <4> QED
        BY <1>p, <3>1, <4>1
    <3> QED
      BY <3>2, <3>3
  <2>2. CASE ~P
    <3>1. l = p - 1 /\ l + 1 = p /\ l \in 1..p - 1 /\ l \in 1..N /\ p \in 1..N /\ l < p /\ p <= N
      BY <1>p, <1>n, <1>5, <1>8, <2>2
    <3>2. new[l] = ms[l] /\ ms[l].kind = "Begin" /\ Val(l) \in Int /\ Val(l) < begin
      <4>1. new[l] = ms[l]
        BY <1>1, <3>1
      <4>2. ms[l].kind = "Begin"
        BY <1>o, <1>5, <3>1
      <4>3. Val(l) \in Int /\ Val(l) < begin
        BY <1>2, <1>3, <3>1
      <4> QED
        BY <4>1, <4>2, <4>3
    <3>3. begin <= Val(p)
      <4>1. Val(p) \in Int /\ (Val(p) < begin <=> p < p)
        BY <1>2, <1>3, <3>1
      <4> QED
        BY <1>p, <4>1
    <3>4. ASSUME NEW n \in 1..N
          PROVE  (n < l => Val(n) < Val(l)) /\ (l <= n => Val(l) <= Val(n))
      <4>1. n \in Int /\ Val(n) \in Int
        BY <1>2, <1>n
      <4>2. (n < l => Val(n) < Val(l)) /\ (l < n => Val(l) < Val(n))
        BY <1>2, <3>1
      <4>3. n = l => Val(n) = Val(l)
        OBVIOUS
      <4> QED
        BY <1>5, <3>2, <4>1, <4>2, <4>3
    <3>5. new[l].val = Val(l)
      BY <3>2 DEF Val
    <3> QED
      BY <3>1, <3>2, <3>3, <3>4, <3>5
  <2> QED
    BY <2>1, <2>2
<1> DEFINE w == new[l + 1]
<1>10. /\ w.kind = "End" /\ w.val >= end /\ w.val \in Int
       /\ \/ w.val = end
          \/ /\ l - d \in Nat \ {0} /\ l + 1 - d <= N
             /\ ms[l + 1 - d] = w /\ Val(l - d) <= end
       /\ \A n \in 1..N : (n + d <= l + 1 => Val(n) <= w.val) /\ (l + 2 <= n + d => w.val < Val(n))
  <2>1. CASE Q
    <3>1. d = l + 2 - q /\ w = End(end)
      BY <1>1, <1>7, <2>1
    <3> HIDE DEF w
    <3>2. w.kind = "End" /\ w.val = end
      BY <3>1 DEF End
    <3>3. ASSUME NEW n \in 1..N
          PROVE  (n + d <= l + 1 => Val(n) <= end) /\ (l + 2 <= n + d => end < Val(n))
      <4>1. n \in Int /\ Val(n) \in Int /\ (Val(n) < end + 1 <=> n < q)
        BY <1>2, <1>4, <1>n
      <4>2. (n + d <= l + 1 <=> n < q) /\ (l + 2 <= n + d <=> ~ (n < q))
        BY <1>5, <1>q, <3>1, <4>1
      <4>3. (Val(n) <= end <=> n < q) /\ (end < Val(n) <=> ~ (n < q))
        BY <4>1
      <4> QED
        BY <4>2, <4>3
    <3> QED
      BY <3>2, <3>3
  <2>2. CASE ~Q
    <3>1. d = l + 1 - q /\ r = l + 1 /\ q \in q..N /\ q \in 1..N /\ q - 1 \in 1..N /\ q - 1 \in Nat \ {0}
      BY <1>n, <1>q, <1>6, <1>7, <1>8, <2>2
    <3>2. q - q + r = l + 1 /\ l + 1 - d = q /\ l - d = q - 1 /\ l + 1 - d <= N
      BY <1>n, <1>q, <1>5, <3>1
    <3>3. w = ms[q] /\ ms[q].kind = "End" /\ Val(q) \in Int
      <4>1. new[q - q + r] = ms[q]
        BY <1>1, <3>1
      <4>2. q % 2 = 0
        BY <1>e, <2>2
      <4>3. w = ms[q]
        BY <3>2, <4>1
      <4> QED
        BY <1>2, <1>o, <3>1, <4>2, <4>3
    <3> HIDE DEF w
    <3>4. end < Val(q) /\ Val(q - 1) <= end
      <4>1. Val(q) < end + 1 <=> q < q
        BY <1>4, <3>1
      <4>2. DEFINE o == q - 1
      <4>3. o \in 1..N /\ o < q
        BY <1>q, <3>1
      <4> HIDE DEF o
      <4>4. Val(o) < end + 1 /\ Val(o) \in Int
        BY <1>2, <1>4, <4>3
      <4>5. end < Val(q) /\ Val(o) <= end
        BY <1>q, <3>3, <4>1, <4>4
      <4> QED
        BY <4>5 DEF o
    <3>5. ASSUME NEW n \in 1..N
          PROVE  (n + d <= l + 1 => Val(n) <= Val(q)) /\ (l + 2 <= n + d => Val(q) < Val(n))
      <4>1. n \in Int /\ Val(n) \in Int
        BY <1>2, <1>n
      <4>2. (n < q => Val(n) < Val(q)) /\ (q < n => Val(q) < Val(n)) /\ (n = q => Val(n) = Val(q))
        BY <1>2, <3>1
      <4>3. (n + d <= l + 1 => n < q \/ n = q) /\ (l + 2 <= n + d => q < n)
        BY <1>5, <1>q, <3>1, <4>1
      <4> QED
        BY <3>3, <4>1, <4>2, <4>3
    <3>6. w.val = Val(q)
      BY <3>3 DEF Val
    <3> QED
      BY <3>1, <3>2, <3>3, <3>4, <3>5, <3>6
  <2> QED
    BY <2>1, <2>2
<1> HIDE DEF w
<1>11. l + 1 <= N + d
  <2>1. CASE Q
    BY <1>n, <1>q, <1>5, <1>7, <2>1
  <2>2. CASE ~Q
    BY <1>n, <1>q, <1>5, <1>7, <1>8, <2>2
  <2> QED
    BY <2>1, <2>2
<1>12. ASSUME NEW n \in 1..l - 1
       PROVE  n <= N /\ new[n] = ms[n] /\ new[n].val < new[l].val
  <2>1. n \in Int /\ 1 <= n /\ n <= l - 1
    BY <1>5
  <2>2. l <= p
    BY <1>5, <1>p
  <2>3. n \in 1..p - 1 /\ n \in 1..N /\ n < l /\ n <= N
    BY <1>n, <1>p, <1>5, <2>1, <2>2
  <2>4. new[n] = ms[n]
    BY <1>1, <2>3
  <2>5. Val(n) < new[l].val
    BY <1>9, <2>3
  <2> QED
    BY <2>3, <2>4, <2>5 DEF Val
<1>13. ASSUME NEW n \in l + 2..N + d
       PROVE  n - d \in 1..N /\ new[n] = ms[n - d] /\ w.val < new[n].val
  <2> DEFINE m == n - d
  <2>1. n \in Int /\ l + 2 <= n /\ n <= N + d
    BY <1>n, <1>5, <1>7
  <2>2. q <= m /\ m \in Int /\ m <= N
    <3>1. CASE Q
      BY <1>n, <1>q, <1>5, <1>7, <2>1, <3>1
    <3>2. CASE ~Q
      BY <1>n, <1>q, <1>5, <1>7, <2>1, <3>2
    <3> QED
      BY <3>1, <3>2
  <2>3. m - q + r = n /\ l + 2 <= m + d
    BY <1>q, <1>7, <2>1
  <2> HIDE DEF m
  <2>4. m \in q..N /\ m \in 1..N
    BY <1>n, <1>q, <2>2
  <2>5. new[m - q + r] = ms[m]
    BY <1>1, <2>4
  <2>6. w.val < Val(m)
    BY <1>10, <2>3, <2>4
  <2>7. m \in 1..N /\ new[n] = ms[m] /\ w.val < new[n].val
    BY <2>3, <2>4, <2>5, <2>6 DEF Val
  <2> QED
    BY <2>7 DEF m
<1>14. ASSUME NEW m \in 1..N, l <= m, m + d <= l + 1
       PROVE  new[l].val <= Val(m) /\ Val(m) <= w.val
  <2>1. new[l].val <= Val(m)
    BY <1>9, <1>14
  <2>2. Val(m) <= w.val
    BY <1>10, <1>14
  <2> QED
    BY <2>1, <2>2
<1>15. l \in Nat
  BY <1>5
<1>16. Merged(ms, new, begin, end, l, d)
  <2>1. l \in Nat /\ l % 2 = 1 /\ d \in Int /\ d % 2 = 0
    BY <1>5, <1>7, <1>15
  <2>2. new \in Seq(Marker) /\ Len(new) = N + d /\ l + 1 <= Len(new)
    BY <1>1, <1>7, <1>11
  <2>3. \A n \in l + 2..Len(new) : n - d \in 1..N /\ new[n] = ms[n - d] /\ w.val < new[n].val
    <3>1. \A n \in l + 2..N + d : n - d \in 1..N /\ new[n] = ms[n - d] /\ w.val < new[n].val
      BY <1>13
    <3> QED
      BY <2>2, <3>1, Zenon
  <2> QED
    BY <2>1, <2>2, <2>3, <1>9, <1>10, <1>12, <1>14, Zenon DEF Merged, N, Val, w
<1> QED
  BY <1>16 DEF new

\* Then the markers stay in order ...
LEMMA MergedOrdered ==
  ASSUME NEW old, Ordered(old), NEW new, NEW begin \in Int, NEW end \in Int, begin < end,
         NEW l, NEW d, Merged(old, new, begin, end, l, d)
  PROVE  Ordered(new)
<1> DEFINE N == Len(old)
           N1 == Len(new)
<1>1. l \in Nat /\ l % 2 = 1 /\ d \in Int /\ d % 2 = 0 /\ N1 = N + d /\ l + 1 <= N1
  BY DEF Merged
<1>2. /\ N \in Nat /\ N % 2 = 0
      /\ \A n \in 1..N : old[n].kind = IF n % 2 = 1 THEN "Begin" ELSE "End"
      /\ \A m, n \in 1..N : m < n => old[m].val < old[n].val
  BY OrderedIs
<1>3. N1 \in Nat /\ new \in Seq(Marker) /\ \A n \in 1..N1 : new[n].val \in Int
  <2>1. new \in Seq(Marker)
    BY DEF Merged
  <2>2. N1 \in Nat /\ new \in [1..N1 -> Marker]
    BY <2>1, LenProperties
  <2> HIDE DEF N1
  <2> QED
    BY <2>1, <2>2 DEF Marker
<1>4. \A n \in 1..l - 1 : n <= N /\ new[n] = old[n] /\ new[n].val < new[l].val
  BY DEF Merged
<1>5. \A n \in l + 2..N1 : n - d \in 1..N /\ new[n] = old[n - d] /\ new[l + 1].val < new[n].val
  BY DEF Merged
<1>6. /\ new[l].kind = "Begin" /\ new[l].val <= begin
      /\ new[l + 1].kind = "End" /\ new[l + 1].val >= end
  BY DEF Merged
<1> HIDE DEF N, N1
<1>7. (N + d) % 2 = 0 /\ (l + 1) % 2 = 0
  <2>1. N \in Int /\ N - (0 - d) = N + d /\ (0 - d) % 2 = 0
    BY <1>1, <1>2
  <2>2. (N + d) % 2 = 0
    <3>1. N + d \in Int /\ (N + d) - d = N
      BY <1>1, <1>2
    <3>2. (N + d) % 2 = d % 2
      BY <1>1, <1>2, <3>1, Parity
    <3> QED
      BY <1>1, <3>2
  <2>3. (l + 1) % 2 = 0
    BY <1>1
  <2> QED
    BY <2>2, <2>3
<1>8. ASSUME NEW n \in 1..N1
      PROVE  new[n].kind = IF n % 2 = 1 THEN "Begin" ELSE "End"
  <2>0. n \in Int /\ 1 <= n /\ n <= N1
    BY <1>3
  <2>1. CASE n < l
    <3>1. n \in 1..l - 1
      BY <1>1, <2>0, <2>1
    <3>2. n \in 1..N /\ new[n] = old[n]
      BY <1>2, <1>4, <3>1
    <3> QED
      BY <1>2, <3>2
  <2>2. CASE n = l
    BY <1>1, <1>6, <2>2
  <2>3. CASE n = l + 1
    BY <1>6, <1>7, <2>3
  <2>4. CASE l + 2 <= n
    <3>1. n \in l + 2..N1
      BY <1>1, <1>3, <2>0, <2>4
    <3> DEFINE m == n - d
    <3>2. m \in 1..N /\ new[n] = old[m]
      BY <1>5, <3>1
    <3>3. m % 2 = n % 2
      <4>1. m \in Int /\ n - m = d
        BY <1>1, <2>0
      <4> QED
        BY <1>1, <2>0, <4>1, Parity
    <3> HIDE DEF m
    <3> QED
      BY <1>2, <3>2, <3>3
  <2> QED
    BY <1>1, <2>0, <2>1, <2>2, <2>3, <2>4
<1>9. ASSUME NEW m \in 1..N1, NEW n \in 1..N1, m < n
      PROVE  new[m].val < new[n].val
  <2>0. /\ m \in Int /\ n \in Int /\ 1 <= m /\ m < n /\ n <= N1 /\ l \in Int
        /\ new[m].val \in Int /\ new[n].val \in Int
    BY <1>1, <1>3, <1>9
  <2>b. new[l].val \in Int /\ new[l + 1].val \in Int /\ new[l].val < new[l + 1].val
    <3>0. l # 0
      <4>1. 0 % 2 # 1
        OBVIOUS
      <4> QED
        BY <1>1, <4>1
    <3>1. l \in 1..N1 /\ l + 1 \in 1..N1
      BY <1>1, <1>3, <3>0
    <3>2. new[l].val \in Int /\ new[l + 1].val \in Int
      BY <1>3, <3>1
    <3> QED
      BY <1>6, <3>2
  <2>1. CASE n < l
    <3>1. m \in 1..l - 1 /\ n \in 1..l - 1
      BY <2>0, <2>1
    <3>2. m \in 1..N /\ n \in 1..N /\ new[m] = old[m] /\ new[n] = old[n]
      BY <1>2, <1>4, <3>1
    <3> QED
      BY <1>2, <2>0, <3>2
  <2>2. CASE n = l
    <3>1. m \in 1..l - 1
      BY <2>0, <2>2
    <3> QED
      BY <1>4, <2>2, <3>1
  <2>3. CASE n = l + 1
    <3>1. CASE m = l
      BY <2>3, <2>b, <3>1
    <3>2. CASE m < l
      <4>1. m \in 1..l - 1
        BY <2>0, <3>2
      <4>2. new[m].val < new[l].val
        BY <1>4, <4>1
      <4> QED
        BY <2>0, <2>3, <2>b, <4>2
    <3> QED
      BY <2>0, <2>3, <3>1, <3>2
  <2>4. CASE l + 2 <= n
    <3>1. n \in l + 2..N1
      BY <1>3, <2>0, <2>4
    <3>2. new[l + 1].val < new[n].val
      BY <1>5, <3>1
    <3>3. CASE m < l
      <4>1. m \in 1..l - 1
        BY <2>0, <3>3
      <4>2. new[m].val < new[l].val
        BY <1>4, <4>1
      <4> QED
        BY <2>0, <2>b, <3>2, <4>2
    <3>4. CASE m = l
      BY <2>0, <2>b, <3>2, <3>4
    <3>5. CASE m = l + 1
      BY <3>2, <3>5
    <3>6. CASE l + 2 <= m
      <4>1. m \in l + 2..N1
        BY <1>3, <2>0, <3>6
      <4> DEFINE mo == m - d
                 no == n - d
      <4>2. mo \in 1..N /\ no \in 1..N /\ new[m] = old[mo] /\ new[n] = old[no]
        BY <1>5, <3>1, <4>1
      <4>3. mo < no
        BY <1>1, <2>0
      <4> HIDE DEF mo, no
      <4> QED
        BY <1>2, <4>2, <4>3
    <3> QED
      BY <2>0, <3>3, <3>4, <3>5, <3>6
  <2> QED
    BY <2>0, <2>1, <2>2, <2>3, <2>4
<1>10. N1 % 2 = 0
  BY <1>1, <1>7
<1> QED
  BY <1>3, <1>8, <1>9, <1>10 DEF Ordered, N1

\* ... and their stretches cover the block, and nothing else is new.
LEMMA MergedCovered ==
  ASSUME NEW old, Ordered(old), NEW new, NEW begin \in Int, NEW end \in Int, begin < end,
         NEW l, NEW d, Merged(old, new, begin, end, l, d)
  PROVE  Covered(new) = Covered(old) \cup begin..end - 1
<1> DEFINE N == Len(old)
           N1 == Len(new)
           Old(n) == old[n].val
           New(n) == new[n].val
           e == l + 1
<1>0. Ordered(new)
  BY MergedOrdered
<1>1. l \in Int /\ 1 <= l /\ l % 2 = 1 /\ d \in Int /\ d % 2 = 0 /\ N1 = N + d /\ l + 1 <= N1
  <2>1. l \in Nat /\ l % 2 = 1 /\ d \in Int /\ d % 2 = 0 /\ N1 = N + d /\ l + 1 <= N1
    BY DEF Merged
  <2>2. 0 % 2 # 1
    OBVIOUS
  <2> QED
    BY <2>1, <2>2
<1>2. N \in Nat /\ N % 2 = 0 /\ \A n \in 1..N : Old(n) \in Int
  BY OrderedIs
<1>3. N1 \in Nat /\ N1 % 2 = 0 /\ \A n \in 1..N1 : New(n) \in Int
  BY <1>0, OrderedIs
<1>4. \A n \in 1..l - 1 : n <= N /\ New(n) = Old(n)
  BY DEF Merged
<1>5. \A n \in l + 2..N1 : n - d \in 1..N /\ New(n) = Old(n - d)
  BY DEF Merged
<1>6. New(l) <= begin /\ New(e) >= end
  BY DEF Merged
<1>7. \A m \in 1..N : l <= m /\ m + d <= l + 1 => New(l) <= Old(m) /\ Old(m) <= New(e)
  BY DEF Merged
<1>8. New(l) = begin \/ (l + 1 <= N /\ Old(l) = New(l) /\ begin <= Old(l + 1))
  BY DEF Merged
<1>9. New(e) = end \/ (/\ l - d \in Nat \ {0} /\ l + 1 - d <= N
                       /\ Old(l + 1 - d) = New(e) /\ Old(l - d) <= end)
  BY DEF Merged
<1>10. \A o \in Int : o \in Covered(old) <=> \E n \in 1..N : n % 2 = 1 /\ Old(n) <= o /\ o < Old(n + 1)
  BY DEF Covered
<1>11. \A o \in Int : o \in Covered(new) <=> \E n \in 1..N1 : n % 2 = 1 /\ New(n) <= o /\ o < New(n + 1)
  BY DEF Covered
<1>12. Covered(old) \subseteq Int /\ Covered(new) \subseteq Int
  BY DEF Covered
<1> HIDE DEF N, N1, Old, New, e
<1>e. e \in Int /\ e = l + 1 /\ e \in 1..N1 /\ l \in 1..N1 /\ New(l) \in Int /\ New(e) \in Int
  <2>1. e \in Int /\ e = l + 1 /\ e \in 1..N1 /\ l \in 1..N1
    BY <1>1, <1>3 DEF e
  <2> QED
    BY <1>3, <2>1
\* An odd position has one after it.
<1>13. (\A n \in 1..N : n % 2 = 1 => n + 1 \in 1..N) /\ (\A n \in 1..N1 : n % 2 = 1 => n + 1 \in 1..N1)
  <2>1. ASSUME NEW n \in 1..N, n % 2 = 1 PROVE n + 1 \in 1..N
    <3>1. n # N /\ n \in Int
      BY <1>2, <2>1
    <3> QED
      BY <1>2, <3>1
  <2>2. ASSUME NEW n \in 1..N1, n % 2 = 1 PROVE n + 1 \in 1..N1
    <3>1. n # N1 /\ n \in Int
      BY <1>3, <2>2
    <3> QED
      BY <1>3, <3>1
  <2> QED
    BY <2>1, <2>2
\* Odd positions are apart by two.
<1>14. ASSUME NEW m \in Int, NEW n \in Int, m % 2 = 1, n % 2 = 1, m < n
       PROVE  m + 2 <= n
  <2>1. (m + 1) % 2 = 0
    BY <1>14
  <2>2. n # m + 1
    BY <1>14, <2>1
  <2> QED
    BY <1>14, <2>2
<1>15. \A n \in Int : n % 2 = 1 <=> (n - d) % 2 = 1
  <2>1. ASSUME NEW n \in Int PROVE n % 2 = (n - d) % 2
    <3>1. n - d \in Int /\ n - (n - d) = d
      BY <1>1
    <3> QED
      BY <1>1, <3>1, Parity
  <2> QED
    BY <2>1
<1>16. ASSUME NEW o \in Int, o \in Covered(new)
       PROVE  o \in Covered(old) \/ o \in begin..end - 1
  <2>1. PICK n \in 1..N1 : n % 2 = 1 /\ New(n) <= o /\ o < New(n + 1)
    BY <1>11, <1>16
  <2>2. n \in Int /\ 1 <= n /\ n <= N1
    BY <1>3
  <2>3. CASE n < l
    <3> DEFINE s == n + 1
    <3>1. n + 2 <= l
      BY <1>1, <1>14, <2>1, <2>2, <2>3
    <3>2. n \in 1..l - 1 /\ s \in 1..l - 1
      BY <1>1, <2>2, <3>1
    <3> HIDE DEF s
    <3>3. n \in 1..N /\ New(n) = Old(n) /\ New(s) = Old(s)
      BY <1>2, <1>4, <2>2, <3>2
    <3>4. Old(n) <= o /\ o < Old(n + 1)
      BY <2>1, <3>3 DEF s
    <3> QED
      BY <1>10, <2>1, <3>3, <3>4
  <2>4. CASE n = l
    <3>1. New(l) <= o /\ o < New(e)
      BY <2>1, <2>4 DEF e
    <3>2. CASE begin <= o /\ o < end
      BY <3>2
    <3>3. CASE o < begin
      <4>1. l + 1 <= N /\ Old(l) = New(l) /\ begin <= Old(l + 1)
        <5>1. New(l) # begin
          BY <1>e, <3>1, <3>3
        <5> QED
          BY <1>8, <5>1
      <4>2. l \in 1..N /\ l + 1 \in 1..N
        BY <1>1, <1>2, <4>1
      <4>3. Old(l + 1) \in Int
        BY <1>2, <4>2
      <4>4. Old(l) <= o /\ o < Old(l + 1)
        BY <3>1, <3>3, <4>1, <4>3
      <4> QED
        BY <1>1, <1>10, <4>2, <4>4
    <3>4. CASE end <= o
      <4> DEFINE m == l - d
      <4>1. New(e) # end
        BY <1>e, <3>1, <3>4
      <4>2. m \in Nat \ {0} /\ l + 1 - d <= N /\ Old(l + 1 - d) = New(e) /\ Old(m) <= end
        BY <1>9, <4>1
      <4>3. l + 1 - d = m + 1 /\ m \in Int
        BY <1>1
      <4>4. m % 2 = 1
        BY <1>1, <1>15
      <4> HIDE DEF m
      <4>5. m \in 1..N
        BY <1>2, <4>2, <4>3
      <4>6. Old(m) \in Int
        BY <1>2, <4>5
      <4>7. Old(m) <= o /\ o < Old(m + 1)
        BY <3>1, <3>4, <4>2, <4>3, <4>6
      <4> QED
        BY <1>10, <4>4, <4>5, <4>7
    <3> QED
      BY <3>2, <3>3, <3>4
  <2>5. CASE l < n
    <3> DEFINE m == n - d
               s == n + 1
    <3>1. l + 2 <= n
      BY <1>1, <1>14, <2>1, <2>2, <2>5
    <3>2. s \in 1..N1
      BY <1>13, <2>1
    <3>3. n \in l + 2..N1 /\ s \in l + 2..N1
      BY <1>1, <1>3, <2>2, <3>1, <3>2
    <3>4. s - d = m + 1
      BY <1>1, <2>2
    <3>5. m % 2 = 1
      BY <1>15, <2>1, <2>2
    <3> HIDE DEF s
    <3>6. m \in 1..N /\ New(n) = Old(m) /\ New(s) = Old(s - d)
      BY <1>5, <3>3
    <3> HIDE DEF m
    <3>7. Old(m) <= o /\ o < Old(m + 1)
      BY <2>1, <3>4, <3>6 DEF s
    <3> QED
      BY <1>10, <3>5, <3>6, <3>7
  <2> QED
    BY <1>1, <2>2, <2>3, <2>4, <2>5
<1>17. ASSUME NEW o \in Int, o \in Covered(old)
       PROVE  o \in Covered(new)
  <2>1. PICK m \in 1..N : m % 2 = 1 /\ Old(m) <= o /\ o < Old(m + 1)
    BY <1>10, <1>17
  <2>2. m \in Int /\ 1 <= m /\ m <= N /\ m + 1 \in 1..N /\ Old(m) \in Int /\ Old(m + 1) \in Int
    BY <1>2, <1>13, <2>1
  <2>3. CASE m < l
    <3> DEFINE s == m + 1
    <3>1. m + 2 <= l
      BY <1>1, <1>14, <2>1, <2>2, <2>3
    <3>2. m \in 1..l - 1 /\ s \in 1..l - 1 /\ m \in 1..N1
      BY <1>1, <1>3, <2>2, <3>1
    <3> HIDE DEF s
    <3>3. New(m) = Old(m) /\ New(s) = Old(s)
      BY <1>4, <3>2
    <3>4. New(m) <= o /\ o < New(m + 1)
      BY <2>1, <3>3 DEF s
    <3> QED
      BY <1>11, <2>1, <3>2, <3>4
  <2>4. CASE l <= m /\ m + d <= l
    <3> DEFINE s == m + 1
    <3>1. s \in 1..N /\ l <= s /\ s + d <= l + 1 /\ m + d <= l + 1
      BY <1>1, <2>2, <2>4
    <3> HIDE DEF s
    <3>2. New(l) <= Old(m) /\ Old(s) <= New(e)
      BY <1>7, <2>4, <3>1
    <3>3. New(l) <= o
      BY <1>e, <2>1, <2>2, <3>2
    <3>4. o < New(l + 1)
      BY <1>e, <2>1, <2>2, <3>2 DEF s
    <3> QED
      BY <1>1, <1>e, <1>11, <3>3, <3>4
  <2>5. CASE l <= m /\ l < m + d
    <3> DEFINE n == m + d
               s == n + 1
    <3>1. n \in Int /\ n - d = m /\ s - d = m + 1
      BY <1>1, <2>2
    <3>2. n % 2 = 1
      BY <1>15, <2>1, <3>1
    <3>3. l + 2 <= n
      BY <1>1, <1>14, <2>5, <3>1, <3>2
    <3>4. n <= N1 /\ s <= N1
      BY <1>1, <1>2, <2>2
    <3>5. n \in l + 2..N1 /\ s \in l + 2..N1 /\ n \in 1..N1
      BY <1>1, <1>3, <3>1, <3>3, <3>4
    <3> HIDE DEF n
    <3>6. New(n) = Old(m)
      BY <1>5, <3>1, <3>5
    <3>7. New(n + 1) = Old(m + 1)
      <4> HIDE DEF s
      <4>1. New(s) = Old(m + 1)
        BY <1>5, <3>1, <3>5
      <4> QED
        BY <4>1 DEF s
    <3> QED
      BY <1>11, <2>1, <3>2, <3>5, <3>6, <3>7
  <2> QED
    BY <1>1, <2>2, <2>3, <2>4, <2>5
<1>18. ASSUME NEW o \in begin..end - 1
       PROVE  o \in Covered(new)
  <2>1. New(l) <= o /\ o < New(e) /\ o \in Int
    BY <1>6, <1>e
  <2> QED
    BY <1>1, <1>e, <1>11, <2>1 DEF e
<1>19. \A o \in begin..end - 1 : o \in Int
  OBVIOUS
<1> QED
  BY <1>12, <1>16, <1>17, <1>18, <1>19

\* One stretch covers a block just when all its offsets are covered: stretches
\* do not touch.
LEMMA OneStretch ==
  ASSUME NEW ms, Ordered(ms), NEW begin \in Int, NEW end \in Int, begin < end
  PROVE  (\E n \in 1..Len(ms) - 1 :
             /\ ms[n].kind = "Begin" /\ ms[n].val <= begin
             /\ ms[n + 1].kind = "End" /\ ms[n + 1].val >= end)
         <=> begin..end - 1 \subseteq Covered(ms)
<1> DEFINE N == Len(ms)
           Val(n) == ms[n].val
           Stretch(n) == /\ ms[n].kind = "Begin" /\ Val(n) <= begin
                         /\ ms[n + 1].kind = "End" /\ Val(n + 1) >= end
<1>1. /\ N \in Nat /\ N % 2 = 0
      /\ \A n \in 1..N : ms[n].kind = IF n % 2 = 1 THEN "Begin" ELSE "End"
      /\ \A n \in 1..N : Val(n) \in Int
      /\ \A m, n \in 1..N : m < n => Val(m) < Val(n)
  BY OrderedIs
<1>2. \A o \in Int : o \in Covered(ms) <=> \E n \in 1..N : n % 2 = 1 /\ Val(n) <= o /\ o < Val(n + 1)
  BY DEF Covered
<1> HIDE DEF N, Val
<1>3. \A n \in 1..N : n % 2 = 1 => n + 1 \in 1..N /\ ms[n + 1].kind = "End" /\ n \in 1..N - 1
  <2>1. ASSUME NEW n \in 1..N, n % 2 = 1
        PROVE  n + 1 \in 1..N /\ ms[n + 1].kind = "End" /\ n \in 1..N - 1
    <3>1. n # N /\ n \in Int
      BY <1>1, <2>1
    <3>2. n + 1 \in 1..N /\ n \in 1..N - 1
      BY <1>1, <3>1
    <3>3. (n + 1) % 2 = 0
      BY <2>1, <3>1
    <3> DEFINE s == n + 1
    <3> HIDE DEF s
    <3>4. s \in 1..N /\ s % 2 = 0
      BY <3>2, <3>3 DEF s
    <3>5. ms[s].kind = "End"
      BY <1>1, <3>4
    <3> QED
      BY <3>2, <3>5 DEF s
  <2> QED
    BY <2>1
<1>4. ASSUME NEW n \in 1..N - 1, Stretch(n)
      PROVE  begin..end - 1 \subseteq Covered(ms)
  <2> DEFINE s == n + 1
  <2>1. n \in 1..N /\ s \in 1..N
    BY <1>1
  <2> HIDE DEF s
  <2>2. n % 2 = 1
    <3>1. n % 2 \in {0, 1}
      BY <1>1, <2>1, Parity
    <3>2. ms[n].kind = "Begin" /\ ms[n].kind = IF n % 2 = 1 THEN "Begin" ELSE "End"
      BY <1>1, <1>4, <2>1
    <3> QED
      BY <3>1, <3>2
  <2>3. Val(n) \in Int /\ Val(s) \in Int /\ Val(n) <= begin /\ Val(s) >= end
    BY <1>1, <1>4, <2>1 DEF s
  <2>4. ASSUME NEW o \in begin..end - 1 PROVE o \in Covered(ms)
    <3>1. o \in Int /\ Val(n) <= o /\ o < Val(s)
      BY <2>3
    <3>2. o < Val(n + 1)
      BY <3>1 DEF s
    <3> QED
      BY <1>2, <2>1, <2>2, <3>1, <3>2
  <2> QED
    BY <2>4
<1>5. ASSUME begin..end - 1 \subseteq Covered(ms)
      PROVE  \E n \in 1..N - 1 : Stretch(n)
  <2>1. begin \in Covered(ms)
    BY <1>5
  <2>2. PICK n \in 1..N : n % 2 = 1 /\ Val(n) <= begin /\ begin < Val(n + 1)
    BY <1>2, <2>1
  <2> DEFINE s == n + 1
  <2>3. s \in 1..N /\ ms[s].kind = "End" /\ n \in 1..N - 1 /\ n \in Int /\ s = n + 1
    BY <1>1, <1>3, <2>2
  <2> HIDE DEF s
  <2>4. ms[n].kind = "Begin" /\ begin < Val(s) /\ Val(s) \in Int
    BY <1>1, <2>2, <2>3
  <2>5. CASE Val(s) < end
    <3>1. Val(s) \in Covered(ms)
      BY <1>5, <2>4, <2>5
    <3>2. PICK m \in 1..N : m % 2 = 1 /\ Val(m) <= Val(s) /\ Val(s) < Val(m + 1)
      BY <1>2, <2>4, <3>1
    <3> DEFINE t == m + 1
    <3>3. t \in 1..N /\ m \in Int /\ t = m + 1
      BY <1>1, <1>3, <3>2
    <3> HIDE DEF t
    <3>4. Val(m) \in Int /\ Val(t) \in Int /\ Val(m) <= Val(s) /\ Val(s) < Val(t)
      BY <1>1, <3>2, <3>3
    <3>5. (s < m => Val(s) < Val(m)) /\ (t < s => Val(t) < Val(s)) /\ (t = s => Val(t) = Val(s))
      BY <1>1, <2>3, <3>3
    <3>6. m <= s /\ s < t
      BY <2>3, <2>4, <3>3, <3>4, <3>5
    <3>7. m = s
      BY <2>3, <3>3, <3>6
    <3>8. ms[m].kind = "Begin"
      BY <1>1, <3>2
    <3> QED
      BY <2>3, <3>7, <3>8
  <2>6. CASE end <= Val(s)
    <3>1. Val(n + 1) >= end /\ ms[n + 1].kind = "End"
      BY <2>3, <2>6, <2>4
    <3> QED
      BY <2>2, <2>3, <2>4, <3>1
  <2> QED
    BY <2>4, <2>5, <2>6
<1> QED
  BY <1>4, <1>5 DEF N, Val

----------------------------------------------------------------------------
(* The files one after the other, and the pieces over them. *)

\* The sum of a sequence of naturals.
LEMMA SumIs ==
  ASSUME NEW s \in Seq(Nat), NEW g \in [0..Len(s) -> Nat],
         g[0] = 0, \A n \in 1..Len(s) : g[n] = g[n - 1] + s[n]
  PROVE  FoldLeft(+, 0, s) = g[Len(s)]
<1> DEFINE N == Len(s)
           step == [n \in 1..N |-> [x \in Nat |-> x + s[n]]]
           Body(f) == [t \in SUBSET (1..N) |-> IF t = {} THEN 0 ELSE f[t \ {Max(t)}] + s[Max(t)]]
           k == CHOOSE f : f = Body(f)
<1>1. N \in Nat /\ DOMAIN s = 1..N /\ \A n \in 1..N : s[n] \in Nat
  OBVIOUS
<1>2. FoldLeft(+, 0, s) = k[1..N]
  BY <1>1, Zenon DEF FoldLeft, MapThenFoldSet
<1> HIDE DEF N
<1>3. step \in [1..N -> [Nat -> Nat]]
  BY <1>1
<1>4. \A n \in 1..N, x \in Nat : step[n][x] = x + s[n]
  OBVIOUS
<1> HIDE DEF step
<1>5. PICK h : FoldsOver(h, Nat, 0, step, N)
  BY <1>1, <1>3, FoldExists
<1>6. h = Body(h)
  <2>1. h \in [SUBSET (1..N) -> Nat] /\ h[{}] = 0
    BY <1>5 DEF FoldsOver
  <2>2. ASSUME NEW t \in SUBSET (1..N), t # {}
        PROVE  h[t] = h[t \ {Max(t)}] + s[Max(t)]
    <3>1. Max(t) \in 1..N
      BY <1>1, <2>2, MaxIs
    <3>2. t \ {Max(t)} \in SUBSET (1..N)
      OBVIOUS
    <3>3. h[t] = step[Max(t)][h[t \ {Max(t)}]]
      BY <1>5, <2>2 DEF FoldsOver
    <3> QED
      BY <1>4, <2>1, <3>1, <3>2, <3>3
  <2>3. \A t \in SUBSET (1..N) : h[t] = IF t = {} THEN 0 ELSE h[t \ {Max(t)}] + s[Max(t)]
    BY <2>1, <2>2
  <2> QED
    BY <2>1, <2>3
<1>7. k = Body(k)
  <2> HIDE DEF Body
  <2> QED
    BY <1>6, Zenon
<1> HIDE DEF k
<1>8. k[{}] = 0 /\ \A n \in 1..N : k[1..n] = k[1..n - 1] + s[n]
  <2>1. {} \in SUBSET (1..N)
    OBVIOUS
  <2>2. ASSUME NEW n \in 1..N PROVE k[1..n] = k[1..n - 1] + s[n]
    <3>1. Max(1..n) = n /\ 1..n \ {n} = 1..n - 1 /\ 1..n # {}
      <4>1. n \in Nat \ {0}
        BY <1>1
      <4> QED
        BY <4>1, LastOfFirst
    <3>2. 1..n \in SUBSET (1..N)
      BY <1>1
    <3> QED
      BY <1>7, <3>1, <3>2
  <2> QED
    BY <1>7, <2>1, <2>2
<1>9. Partial(g, Nat, 0, step, N)
  <2>1. g \in [0..N -> Nat] /\ g[0] = 0
    BY DEF N
  <2>2. ASSUME NEW n \in 1..N PROVE g[n] = step[n][g[n - 1]]
    <3>1. n - 1 \in 0..N
      BY <1>1
    <3>2. g[n] = g[n - 1] + s[n]
      BY DEF N
    <3> QED
      BY <1>4, <2>1, <3>1, <3>2
  <2> QED
    BY <2>1, <2>2 DEF Partial
<1>10. k[1..N] = g[N]
  <2> HIDE DEF Body
  <2>1. Recurses(k, Nat, 0, step, N)
    BY <1>4, <1>8 DEF Recurses
  <2> QED
    BY <1>1, <1>9, <2>1, FoldEnds
<1> QED
  BY <1>2, <1>10 DEF N

\* A number is its quotient times the divisor, and its remainder.
LEMMA Division ==
  ASSUME NEW a \in Nat, NEW p \in Nat \ {0}
  PROVE  /\ a \div p \in Nat /\ a % p \in 0..p - 1 /\ a = p * (a \div p) + (a % p)
  OBVIOUS

\* A multiple of p lies at no place inside the stretch from i * p to (i + 1) * p.
LEMMA Within ==
  ASSUME NEW p \in Nat \ {0}, NEW i \in Int, NEW q \in Int
  PROVE  ~(i * p < p * q /\ p * q < i * p + p)
<1>1. CASE q <= i
  BY <1>1
<1>2. CASE i + 1 <= q
  BY <1>2
<1> QED
  BY <1>1, <1>2

\* The pieces, rounded up, reach the end of the torrent, and the last one is needed.
LEMMA Pieces ==
  ASSUME NEW t \in Nat, t > 0, NEW p \in Nat \ {0}, NEW n, n = (t + p - 1) \div p
  PROVE  n \in Nat \ {0} /\ (n - 1) * p < t /\ t <= n * p
  OBVIOUS

\* Multiples of p grow.
LEMMA Mult ==
  ASSUME NEW p \in Nat \ {0}, NEW i \in Int, NEW q \in Int, i <= q
  PROVE  i * p <= q * p
  OBVIOUS

\* A torrent Torrent::new accepts: it has a byte.
Sized == files \in Seq(Nat) /\ TotalSize > 0

\* Where file f ends: the lengths up to it, added up.
LEMMA Lengths ==
  ASSUME files \in Seq(Nat)
  PROVE  /\ LengthUpTo(0) = 0
         /\ \A f \in 1..Len(files) : LengthUpTo(f) = LengthUpTo(f - 1) + files[f]
         /\ \A f \in 0..Len(files) : LengthUpTo(f) \in Nat
<1> DEFINE N == Len(files)
           step == [n \in 1..N |-> [x \in Nat |-> x + files[n]]]
<1>1. N \in Nat /\ DOMAIN files = 1..N /\ \A n \in 1..N : files[n] \in Nat
  OBVIOUS
<1>2. PICK g : Partial(g, Nat, 0, step, N)
  <2>1. step \in [1..N -> [Nat -> Nat]]
    BY <1>1
  <2> HIDE DEF step, N
  <2> QED
    BY <1>1, <2>1, PartialExists
<1>3. g \in [0..N -> Nat] /\ g[0] = 0 /\ \A n \in 1..N : g[n] = g[n - 1] + files[n]
  <2>1. g \in [0..N -> Nat] /\ g[0] = 0 /\ \A n \in 1..N : g[n] = step[n][g[n - 1]]
    BY <1>2 DEF Partial
  <2>2. ASSUME NEW n \in 1..N PROVE g[n] = g[n - 1] + files[n]
    <3>1. n - 1 \in 0..N
      BY <1>1
    <3>2. g[n - 1] \in Nat
      BY <2>1, <3>1
    <3> QED
      BY <2>1, <3>2
  <2> QED
    BY <2>1, <2>2
<1> HIDE DEF step
<1>4. ASSUME NEW f \in 0..N PROVE LengthUpTo(f) = g[f]
  <2> DEFINE s == SubSeq(files, 1, f)
             h == [n \in 0..f |-> g[n]]
  <2>1. s \in Seq(Nat) /\ Len(s) = f /\ \A n \in 1..f : s[n] = files[n]
    BY <1>1
  <2>2. h \in [0..f -> Nat] /\ h[0] = 0 /\ h[f] = g[f]
    BY <1>1, <1>3
  <2>3. ASSUME NEW n \in 1..f PROVE h[n] = h[n - 1] + s[n]
    <3>1. n \in 0..f /\ n - 1 \in 0..f /\ n \in 1..N
      BY <1>1
    <3> QED
      BY <1>3, <2>1, <3>1
  <2> HIDE DEF s, h
  <2>4. h \in [0..Len(s) -> Nat] /\ \A n \in 1..Len(s) : h[n] = h[n - 1] + s[n]
    BY <2>1, <2>2, <2>3
  <2>5. FoldLeft(+, 0, s) = h[Len(s)]
    BY <2>1, <2>2, <2>4, SumIs
  <2> QED
    BY <2>1, <2>2, <2>5 DEF LengthUpTo, s
<1> HIDE DEF N
<1>5. /\ 0 \in 0..N /\ \A f \in 1..N : f \in 0..N /\ f - 1 \in 0..N
  BY <1>1
<1> QED
  BY <1>3, <1>4, <1>5 DEF N

\* Later files end later.
LEMMA LengthsGrow ==
  ASSUME files \in Seq(Nat), NEW f \in 0..Len(files), NEW g \in 0..Len(files), f <= g
  PROVE  LengthUpTo(f) <= LengthUpTo(g)
<1> DEFINE N == Len(files)
           S == {n \in 0..N - f : LengthUpTo(f) <= LengthUpTo(f + n)}
<1>1. N \in Nat /\ N - f \in Nat /\ f \in Nat
  OBVIOUS
<1>2. \A n \in 0..N : LengthUpTo(n) \in Nat
  BY Lengths
<1>3. 0 \in S
  <2>1. f + 0 = f
    OBVIOUS
  <2> QED
    BY <1>1, <1>2, <2>1
<1>4. ASSUME NEW n \in 0..(N - f) - 1, n \in S PROVE n + 1 \in S
  <2> DEFINE m == f + (n + 1)
  <2>1. m \in 1..N /\ m - 1 = f + n /\ n + 1 \in 0..N - f /\ m - 1 \in 0..N
    BY <1>1
  <2>2. files[m] \in Nat
    BY <2>1
  <2> HIDE DEF m
  <2>3. LengthUpTo(m) = LengthUpTo(m - 1) + files[m]
    BY <2>1, Lengths
  <2>4. LengthUpTo(f) <= LengthUpTo(f + n)
    BY <1>4
  <2>5. LengthUpTo(f) <= LengthUpTo(m)
    BY <1>2, <2>1, <2>2, <2>3, <2>4
  <2> QED
    BY <2>1, <2>5 DEF m
<1> HIDE DEF S
<1>5. \A n \in 0..(N - f) - 1 : n \in S => n + 1 \in S
  BY <1>4
<1>6. g - f \in 0..N - f /\ f + (g - f) = g
  OBVIOUS
<1>7. g - f \in S
  BY <1>1, <1>3, <1>5, <1>6, Counting
<1> QED
  BY <1>6, <1>7 DEF S

\* An offset lies in one file.
LEMMA OneFile ==
  ASSUME files \in Seq(Nat), NEW f \in DOMAIN files, NEW g \in DOMAIN files, NEW o \in Int,
         LengthUpTo(f - 1) <= o, o < LengthUpTo(f),
         LengthUpTo(g - 1) <= o, o < LengthUpTo(g)
  PROVE  f = g
<1>1. /\ DOMAIN files = 1..Len(files) /\ Len(files) \in Nat
      /\ f \in 0..Len(files) /\ g \in 0..Len(files)
      /\ f - 1 \in 0..Len(files) /\ g - 1 \in 0..Len(files) /\ f \in Int /\ g \in Int
  OBVIOUS
<1>2. \A n \in 0..Len(files) : LengthUpTo(n) \in Nat
  BY Lengths
<1>3. CASE f < g
  <2>1. f <= g - 1
    BY <1>1, <1>3
  <2>2. LengthUpTo(f) <= LengthUpTo(g - 1)
    BY <1>1, <2>1, LengthsGrow
  <2> QED
    BY <1>1, <1>2, <2>2
<1>4. CASE g < f
  <2>1. g <= f - 1
    BY <1>1, <1>4
  <2>2. LengthUpTo(g) <= LengthUpTo(f - 1)
    BY <1>1, <2>1, LengthsGrow
  <2> QED
    BY <1>1, <1>2, <2>2
<1> QED
  BY <1>1, <1>3, <1>4

\* The pieces lie one after the other and end with the torrent.
LEMMA PiecesAre ==
  ASSUME Sized
  PROVE  /\ TotalSize \in Nat \ {0} /\ NPieces \in Nat \ {0}
         /\ Piece = 0..NPieces - 1
         /\ (NPieces - 1) * PieceLength + LengthOf(NPieces - 1) = TotalSize
         /\ \A i \in Piece : /\ i \in Nat /\ i * PieceLength \in Nat
                             /\ LengthOf(i) \in 1..PieceLength
                             /\ i * PieceLength + LengthOf(i) <= TotalSize
         /\ \A i \in Piece \ {NPieces - 1} : LengthOf(i) = PieceLength
<1> DEFINE T == TotalSize
           P == PieceLength
           N == NPieces
<1>1. P \in Nat \ {0}
  BY PieceLengthAssumption
<1>2. T \in Nat /\ T > 0
  <2>1. LengthUpTo(Len(files)) \in Nat
    <3>1. Len(files) \in 0..Len(files)
      BY DEF Sized
    <3> QED
      BY <3>1, Lengths DEF Sized
  <2> QED
    BY <2>1 DEF TotalSize, Sized
<1>3. N = (T + P - 1) \div P
  BY DEF NPieces
<1>4. Piece = 0..N - 1 /\ LengthOf(N - 1) = T - (N - 1) * P
      /\ \A i : i # N - 1 => LengthOf(i) = P
  BY Zenon DEF Piece, LengthOf, LastPieceLength
<1> HIDE DEF T, P, N
<1>5. N \in Nat \ {0} /\ (N - 1) * P < T /\ T <= N * P
  BY <1>1, <1>2, <1>3, Pieces
<1>6. (N - 1) * P \in Nat /\ N * P = (N - 1) * P + P
  BY <1>1, <1>5
<1>7. LengthOf(N - 1) \in 1..P /\ (N - 1) * P + LengthOf(N - 1) = T
  BY <1>1, <1>2, <1>4, <1>5, <1>6
<1>8. ASSUME NEW i \in Piece
      PROVE  i \in Nat /\ i * P \in Nat /\ LengthOf(i) \in 1..P /\ i * P + LengthOf(i) <= T
  <2>1. i \in Nat /\ i * P \in Nat /\ i \in 0..N - 1
    BY <1>1, <1>4
  <2>2. CASE i = N - 1
    BY <1>2, <1>6, <1>7, <2>1, <2>2
  <2>3. CASE i # N - 1
    <3>1. i + 1 <= N - 1 /\ i + 1 \in Int /\ N - 1 \in Int
      BY <1>5, <2>1, <2>3
    <3>2. (i + 1) * P <= (N - 1) * P
      BY <1>1, <3>1, Mult
    <3>3. (i + 1) * P = i * P + P
      BY <1>1, <2>1
    <3> QED
      BY <1>1, <1>2, <1>4, <1>5, <1>6, <2>1, <2>3, <3>2, <3>3
  <2> QED
    BY <2>2, <2>3
<1> QED
  BY <1>1, <1>2, <1>4, <1>5, <1>7, <1>8 DEF T, P, N

----------------------------------------------------------------------------
(* The inductive invariant: the markers of a piece cover what was received of *)
(* it, and nothing was received of a piece that has none.                     *)

MarkersInv ==
    /\ DOMAIN markers \subseteq Piece /\ DOMAIN received = Piece
    /\ \A i \in DOMAIN markers : Ordered(markers[i]) /\ received[i] = Covered(markers[i])
    /\ \A i \in Piece \ DOMAIN markers : received[i] = {}

\* No markers cover nothing.
LEMMA NoMarkers == Ordered(<<>>) /\ Covered(<<>>) = {}
<1>1. <<>> \in Seq(Marker) /\ Len(<<>>) = 0
  OBVIOUS
<1>2. 0 % 2 = 0 /\ 1..0 = {}
  OBVIOUS
<1> QED
  BY <1>1, <1>2 DEF Ordered, Covered

\* A torrent with nothing received in parts.
LEMMA Fresh ==
  ASSUME markers = <<>>, received = [i \in Piece |-> {}]
  PROVE  MarkersInv
<1>1. DOMAIN markers = {}
  OBVIOUS
<1> QED
  BY <1>1 DEF MarkersInv

\* The pieces are those of the files, whose lengths no step changes.
LEMMA PieceStays ==
  ASSUME UNCHANGED files
  PROVE  Piece' = Piece
<1>1. TotalSize' = TotalSize
  BY Zenon DEF TotalSize, LengthUpTo, FoldLeft, MapThenFoldSet
<1> QED
  BY <1>1, Zenon DEF Piece, NPieces

\* A piece that comes whole loses its markers, and is no longer received in parts.
LEMMA WholeInv ==
  ASSUME MarkersInv, NEW i \in Piece, InsertWhole(i), UNCHANGED files
  PROVE  MarkersInv'
<1>1. Piece' = Piece
  BY PieceStays
<1>2. DOMAIN markers' = DOMAIN markers \ {i} /\ \A j \in DOMAIN markers' : markers'[j] = markers[j]
  BY DEF InsertWhole
<1>3. DOMAIN received' = Piece /\ received'[i] = {} /\ \A j \in Piece \ {i} : received'[j] = received[j]
  BY DEF InsertWhole, MarkersInv
<1> QED
  BY <1>1, <1>2, <1>3 DEF MarkersInv

\* A part of a piece: by the lemmas on Insert.
LEMMA PartInv ==
  ASSUME MarkersInv, NEW i \in Piece, NEW begin \in Int, NEW end \in Int, begin < end,
         InsertPart(i, begin, end), UNCHANGED files
  PROVE  MarkersInv'
<1> DEFINE old == IF i \in DOMAIN markers THEN markers[i] ELSE <<>>
           new == Insert(old, begin, end)
<1>1. Ordered(old) /\ received[i] = Covered(old)
  BY NoMarkers DEF MarkersInv
<1>2. Piece' = Piece
  BY PieceStays
<1>3. /\ DOMAIN markers' = DOMAIN markers \cup {i} /\ markers'[i] = new
      /\ \A j \in DOMAIN markers' \ {i} : j \in DOMAIN markers /\ markers'[j] = markers[j]
  BY Zenon DEF InsertPart
<1>4. /\ DOMAIN received' = Piece /\ received'[i] = received[i] \cup begin..end - 1
      /\ \A j \in Piece \ {i} : received'[j] = received[j]
  BY DEF InsertPart, MarkersInv
<1> HIDE DEF old
<1>5. Ordered(new) /\ Covered(new) = Covered(old) \cup begin..end - 1
  <2>1. PICK l, d : Merged(old, new, begin, end, l, d)
    BY <1>1, InsertMerges
  <2> HIDE DEF new
  <2>2. Merged(old, new, begin, end, l, d)
    BY <2>1 DEF new
  <2>3. Ordered(new)
    BY <1>1, <2>2, MergedOrdered
  <2>4. Covered(new) = Covered(old) \cup begin..end - 1
    BY <1>1, <2>2, MergedCovered
  <2> QED
    BY <2>3, <2>4
<1> HIDE DEF new
<1> QED
  BY <1>1, <1>2, <1>3, <1>4, <1>5 DEF MarkersInv

\* No step changes the lengths of the files.
LEMMA FilesStay ==
  ASSUME [Next]_vars
  PROVE  UNCHANGED files
<1>1. ASSUME NEW i, NEW begin, NEW data, WriteBlock(i, begin, data) PROVE UNCHANGED files
  BY <1>1 DEF WriteBlock
<1>2. ASSUME NEW b, WritePart(b) PROVE UNCHANGED files
  BY <1>2 DEF WritePart
<1>3. CASE AddAgain \/ CreateFile \/ InsertTorrent \/ UNCHANGED vars
  BY <1>3 DEF AddAgain, CreateFile, InsertTorrent, vars
<1> QED
  BY <1>1, <1>2, <1>3 DEF Next

\* The torrent has a byte, as Torrent::new found it, for good.
THEOREM SizedCorrect == Spec => []Sized
<1>1. Init => Sized
  BY LayoutsAssumption DEF Init, Sized
<1>2. Sized /\ [Next]_vars => Sized'
  <2> SUFFICES ASSUME Sized, [Next]_vars PROVE Sized'
    OBVIOUS
  <2>1. UNCHANGED files
    BY FilesStay
  <2>2. TotalSize' = TotalSize
    BY <2>1, Zenon DEF TotalSize, LengthUpTo, FoldLeft, MapThenFoldSet
  <2> QED
    BY <2>1, <2>2 DEF Sized
<1> QED
  BY <1>1, <1>2, PTL DEF Spec

\* A whole piece, where it belongs or not, is at least a byte long.
Shifted(i, begin) == [DefaultPiece(i) EXCEPT !.begin = begin]

LEMMA ShiftedIs ==
  ASSUME Sized, NEW i \in Piece, NEW begin \in 0..TotalSize
  PROVE  LET b == Shifted(i, begin)
         IN  /\ b.index = i /\ b.begin = begin /\ b.length = LengthOf(i)
             /\ begin \in Nat /\ b.length \in Nat \ {0}
             /\ i * PieceLength \in Nat /\ FileIndex(b) = i * PieceLength + begin
             /\ (begin = 0 <=> b = DefaultPiece(i))
<1> DEFINE b == Shifted(i, begin)
<1>1. b.index = i /\ b.begin = begin /\ b.length = LengthOf(i)
      /\ DefaultPiece(i).begin = 0 /\ (begin = 0 => b = DefaultPiece(i))
  BY DEF Shifted, DefaultPiece
<1>2. TotalSize \in Nat /\ LengthOf(i) \in 1..PieceLength /\ i * PieceLength \in Nat
  BY PiecesAre
<1>3. begin \in Nat /\ LengthOf(i) \in Nat \ {0}
  BY <1>2
<1>4. FileIndex(b) = begin + i * PieceLength
  BY <1>1 DEF FileIndex
<1> HIDE DEF b
<1>5. FileIndex(b) = i * PieceLength + begin
  BY <1>2, <1>3, <1>4
<1> QED
  BY <1>1, <1>2, <1>3, <1>5 DEF b

\* The invariant holds of a new torrent and every step keeps it.
THEOREM MarkersCorrect == Spec => []MarkersInv
<1>1. Init => MarkersInv
  BY Fresh DEF Init
<1>2. Sized /\ MarkersInv /\ [Next]_vars => MarkersInv'
  <2> SUFFICES ASSUME Sized, MarkersInv, [Next]_vars PROVE MarkersInv'
    OBVIOUS
  <2>1. ASSUME UNCHANGED <<files, markers, received>> PROVE MarkersInv'
    <3>1. Piece' = Piece
      BY <2>1, PieceStays
    <3> QED
      BY <2>1, <3>1 DEF MarkersInv
  <2>2. ASSUME NEW b, b.index \in Piece, b.begin \in Int, b.length \in Nat \ {0},
               NEW data, WriteBlockRaw(b, data), UNCHANGED files
        PROVE  MarkersInv'
    <3>1. InsertPiece(b) \/ UNCHANGED ownVars
      BY <2>2 DEF WriteBlockRaw
    <3>2. CASE UNCHANGED ownVars
      BY <2>1, <2>2, <3>2 DEF ownVars
    <3>3. CASE InsertPiece(b) /\ b = DefaultPiece(b.index)
      <4>1. InsertWhole(b.index)
        BY <3>3 DEF InsertPiece
      <4> QED
        BY <2>2, <4>1, WholeInv
    <3>4. CASE InsertPiece(b) /\ b # DefaultPiece(b.index)
      <4> DEFINE begin == b.begin
                 end == b.begin + b.length
      <4>1. begin \in Int /\ end \in Int /\ begin < end
        BY <2>2
      <4>2. InsertPart(b.index, begin, end)
        BY <3>4 DEF InsertPiece
      <4> HIDE DEF begin, end
      <4> QED
        BY <2>2, <4>1, <4>2, PartInv
    <3> QED
      BY <3>1, <3>2, <3>3, <3>4
  <2>3. ASSUME NEW i \in Piece, NEW begin \in 0..TotalSize, NEW data, WriteBlock(i, begin, data)
        PROVE  MarkersInv'
    <3> DEFINE b == Shifted(i, begin)
    <3>1. UNCHANGED files /\ (UNCHANGED ownVars \/ WriteBlockRaw(b, data))
      BY <2>3 DEF WriteBlock, Shifted
    <3>2. b.index \in Piece /\ b.begin \in Int /\ b.length \in Nat \ {0}
      BY ShiftedIs
    <3> HIDE DEF b
    <3>3. CASE UNCHANGED ownVars
      BY <2>1, <3>1, <3>3 DEF ownVars
    <3> QED
      BY <2>2, <3>1, <3>2, <3>3
  <2>8. ASSUME NEW b \in Blocks, WritePart(b) PROVE MarkersInv'
    <3>1. b.index \in Piece /\ b.begin \in Int /\ b.length \in Nat \ {0}
      BY PieceLengthAssumption DEF Blocks
    <3>2. WriteBlockRaw(b, Data(b)) /\ UNCHANGED files
      BY <2>8 DEF WritePart
    <3> QED
      BY <2>2, <3>1, <3>2
  <2>4. CASE AddAgain
    BY <2>1, <2>4 DEF AddAgain, ownVars
  <2>5. CASE CreateFile
    BY <2>1, <2>5 DEF CreateFile, ownVars
  <2>6. CASE InsertTorrent
    <3>1. markers' = <<>> /\ received' = [i \in Piece |-> {}] /\ UNCHANGED files
      BY <2>6 DEF InsertTorrent
    <3>2. Piece' = Piece
      BY <3>1, PieceStays
    <3>3. DOMAIN markers' = {} /\ DOMAIN received' = Piece /\ \A i \in Piece : received'[i] = {}
      BY <3>1
    <3> QED
      BY <3>2, <3>3 DEF MarkersInv
  <2>7. CASE UNCHANGED vars
    BY <2>1, <2>7 DEF vars
  <2> QED
    BY <2>3, <2>4, <2>5, <2>6, <2>7, <2>8 DEF Next
<1> QED
  BY <1>1, <1>2, SizedCorrect, PTL DEF Spec

\* In whatever order parts of pieces come, touch and overlap, the markers stay in
\* order, for any layout of files and piece length (insert_piece, in_shaded).
THEOREM MarkersInOrder == Spec => []MarkersOrdered
<1>1. MarkersInv => MarkersOrdered
  <2> SUFFICES ASSUME MarkersInv, NEW i \in DOMAIN markers
               PROVE  LET ms == markers[i]
                      IN  /\ Len(ms) % 2 = 0
                          /\ \A n \in DOMAIN ms : ms[n].kind = IF n % 2 = 1 THEN "Begin" ELSE "End"
                          /\ \A n \in 1..Len(ms) - 1 : ms[n].val < ms[n + 1].val
    BY Zenon DEF MarkersOrdered
  <2> DEFINE ms == markers[i]
  <2>1. Ordered(ms)
    BY DEF MarkersInv
  <2> HIDE DEF ms
  <2>2. /\ DOMAIN ms = 1..Len(ms) /\ Len(ms) \in Nat /\ Len(ms) % 2 = 0
        /\ \A n \in 1..Len(ms) : ms[n].kind = IF n % 2 = 1 THEN "Begin" ELSE "End"
        /\ \A m, n \in 1..Len(ms) : m < n => ms[m].val < ms[n].val
    BY <2>1, OrderedIs
  <2>3. ASSUME NEW n \in 1..Len(ms) - 1 PROVE ms[n].val < ms[n + 1].val
    <3>1. n \in 1..Len(ms) /\ n + 1 \in 1..Len(ms) /\ n < n + 1
      BY <2>2
    <3> QED
      BY <2>2, <3>1
  <2> QED
    BY <2>2, <2>3 DEF ms
<1> QED
  BY <1>1, MarkersCorrect, PTL

\* have_block answers for exactly the blocks all of whose bytes were written,
\* since no two stretches touch.
THEOREM HaveBlockCorrect == Spec => []HaveBlockExact
<1>1. MarkersInv => HaveBlockExact
  <2> SUFFICES ASSUME MarkersInv, NEW b \in Blocks
               PROVE  HaveBlock(b) <=> b.begin..b.begin + b.length - 1 \subseteq received[b.index]
    BY Zenon DEF HaveBlockExact
  <2> DEFINE i == b.index
             begin == b.begin
             end == b.begin + b.length
  <2>1. i \in Piece /\ begin \in Int /\ end \in Int /\ begin < end
    BY PieceLengthAssumption DEF Blocks
  <2>0. b.begin + b.length - 1 = end - 1
    <3>1. b.begin \in Int /\ b.length \in Int
      BY PieceLengthAssumption DEF Blocks
    <3> QED
      BY <3>1
  <2> SUFFICES HaveBlock(b) <=> begin..end - 1 \subseteq received[i]
    BY <2>0, Zenon
  <2>2. CASE i \in DOMAIN markers
    <3> DEFINE ms == markers[i]
    <3>1. HaveBlock(b) <=> \E n \in 1..Len(ms) - 1 :
             /\ ms[n].kind = "Begin" /\ ms[n].val <= begin
             /\ ms[n + 1].kind = "End" /\ ms[n + 1].val >= end
      BY <2>2, Zenon DEF HaveBlock
    <3>2. Ordered(ms) /\ received[i] = Covered(ms)
      BY <2>2 DEF MarkersInv
    <3> HIDE DEF ms, i, begin, end
    <3>3. HaveBlock(b) <=> begin..end - 1 \subseteq Covered(ms)
      BY <2>1, <3>1, <3>2, OneStretch
    <3> QED
      BY <3>2, <3>3
  <2>3. CASE i \notin DOMAIN markers
    <3>1. ~HaveBlock(b)
      BY <2>3 DEF HaveBlock
    <3>2. received[i] = {}
      BY <2>1, <2>3 DEF MarkersInv
    <3>3. begin \in begin..end - 1
      BY <2>1
    <3> HIDE DEF i, begin, end
    <3> QED
      BY <3>1, <3>2, <3>3
  <2> QED
    BY <2>2, <2>3
<1> QED
  BY <1>1, MarkersCorrect, PTL

----------------------------------------------------------------------------
(* Where the blocks fall in the files, when no file ends inside a piece. *)

\* Every file but the last ones ends where a piece does.
Aligned ==
    \A f \in DOMAIN files : LengthUpTo(f) % PieceLength = 0 \/ LengthUpTo(f) = TotalSize

\* A block lies in its piece.
LEMMA BlockIs ==
  ASSUME Sized, NEW b \in Blocks
  PROVE  /\ b.index \in Piece /\ b.begin \in Nat /\ b.length \in Nat \ {0}
         /\ FileIndex(b) \in Nat /\ FileIndex(b) = b.index * PieceLength + b.begin
         /\ b.begin + b.length <= LengthOf(b.index)
         /\ FileIndex(b) + b.length <= TotalSize
<1> DEFINE i == b.index
<1>1. /\ i \in Piece /\ b.begin \in 0..PieceLength - 1 /\ b.length \in 1..PieceLength
      /\ b.begin + b.length <= LengthOf(i)
  BY DEF Blocks
<1>2. PieceLength \in Nat
  BY PieceLengthAssumption
<1>3. /\ i * PieceLength \in Nat /\ LengthOf(i) \in Int /\ TotalSize \in Int
      /\ i * PieceLength + LengthOf(i) <= TotalSize
  BY <1>1, <1>2, PiecesAre
<1>4. FileIndex(b) = b.begin + i * PieceLength
  BY DEF FileIndex
<1> HIDE DEF i
<1>5. b.begin \in Nat /\ b.length \in Nat \ {0}
  BY <1>1, <1>2
<1> QED
  BY <1>1, <1>3, <1>4, <1>5 DEF i

\* A piece whole is a block.
LEMMA DefaultIs ==
  ASSUME Sized, NEW i \in Piece
  PROVE  /\ DefaultPiece(i) \in Blocks
         /\ DefaultPiece(i).index = i /\ DefaultPiece(i).begin = 0
         /\ DefaultPiece(i).length = LengthOf(i)
         /\ FileIndex(DefaultPiece(i)) = i * PieceLength
<1>1. PieceLength \in Nat \ {0} /\ LengthOf(i) \in 1..PieceLength /\ i * PieceLength \in Nat
  BY PieceLengthAssumption, PiecesAre
<1>2. 0 \in 0..PieceLength - 1 /\ 0 + LengthOf(i) <= LengthOf(i)
  BY <1>1
<1> QED
  BY <1>1, <1>2 DEF DefaultPiece, Blocks, FileIndex

\* No file ends inside a block.
LEMMA NoBorderInside ==
  ASSUME Sized, Aligned, NEW b \in Blocks, NEW f \in 0..Len(files)
  PROVE  ~(FileIndex(b) < LengthUpTo(f) /\ LengthUpTo(f) < FileIndex(b) + b.length)
<1> DEFINE l == LengthUpTo(f)
           i == b.index
           P == PieceLength
<1>1. P \in Nat \ {0}
  BY PieceLengthAssumption
<1>2. /\ i \in Piece /\ b.begin \in Nat /\ b.length \in Nat \ {0}
      /\ FileIndex(b) \in Nat /\ FileIndex(b) = i * P + b.begin
      /\ b.begin + b.length <= LengthOf(i)
      /\ FileIndex(b) + b.length <= TotalSize
  BY BlockIs
<1>3. i \in Nat /\ i * P \in Nat /\ LengthOf(i) \in 1..P /\ TotalSize \in Nat
  BY <1>2, PiecesAre
<1>4. l \in Nat
  BY Lengths DEF Sized
<1>5. CASE f = 0
  <2>1. l = 0
    BY <1>5, Lengths DEF Sized
  <2> QED
    BY <1>2, <2>1
<1>6. CASE f # 0
  <2>1. f \in DOMAIN files
    BY <1>6 DEF Sized
  <2>2. CASE l = TotalSize
    BY <1>2, <1>3, <2>2
  <2>3. CASE l % P = 0
    <3> DEFINE q == l \div P
               a == i * P
    <3> HIDE DEF l, P, i
    <3>1. q \in Int /\ l = P * q
      BY <1>1, <1>4, <2>3, Division
    <3> HIDE DEF q
    <3>2. ~(a < l /\ l < a + P)
      BY <1>1, <1>3, <3>1, Within
    <3>3. /\ a \in Nat /\ FileIndex(b) = a + b.begin
          /\ b.begin + b.length <= P
      BY <1>1, <1>2, <1>3
    <3> HIDE DEF a
    <3>4. ~(FileIndex(b) < l /\ l < FileIndex(b) + b.length)
      BY <1>1, <1>2, <1>4, <3>2, <3>3
    <3> QED
      BY <3>4 DEF l
  <2> QED
    BY <2>1, <2>2, <2>3 DEF Aligned
<1> QED
  BY <1>5, <1>6

\* The smaller and the larger of two.
LEMMA OfTwo ==
  ASSUME NEW m \in Int, NEW n \in Int, m <= n
  PROVE  Min({m, n}) = m /\ Min({n, m}) = m /\ Max({m, n}) = n /\ Max({n, m}) = n
<1>1. {n, m} = {m, n} /\ m \in {m, n} /\ n \in {m, n}
      /\ \A y \in {m, n} : m <= y /\ n >= y
  OBVIOUS
<1>2. Min({m, n}) \in {m, n} /\ \A y \in {m, n} : Min({m, n}) <= y
  BY <1>1, Zenon DEF Min
<1>3. Max({m, n}) \in {m, n} /\ \A y \in {m, n} : Max({m, n}) >= y
  BY <1>1, Zenon DEF Max
<1> QED
  BY <1>1, <1>2, <1>3

\* A stretch of a file that begins where the block b does.
Placed(part, b) ==
    /\ part.file \in DOMAIN files
    /\ LengthUpTo(part.file - 1) <= FileIndex(b) /\ FileIndex(b) <= LengthUpTo(part.file)
    /\ part.begin = FileIndex(b) - LengthUpTo(part.file - 1)

\* All stretches of a block begin where it does, the last is the block whole, and
\* those before it are empty.
LEMMA PartsAre ==
  ASSUME Sized, Aligned, NEW b \in Blocks
  PROVE  LET parts == MapFiles(b)
         IN  /\ Len(parts) \in Nat \ {0} /\ DOMAIN parts = 1..Len(parts)
             /\ \A n \in 1..Len(parts) : Placed(parts[n], b)
             /\ \A n \in 1..Len(parts) - 1 : parts[n].length = 0
             /\ parts[Len(parts)].length = b.length
             /\ FileIndex(b) + b.length <= LengthUpTo(parts[Len(parts)].file)
<1> DEFINE M == Len(files)
           L(f) == LengthUpTo(f)
           start == FileIndex(b)
           end == start + b.length
           F == {f \in DOMAIN files : L(f) >= start}
           first == Min(F)
           E == {f \in first..M : L(f) >= end}
           last == Min(E)
           K == last - first + 1
           parts == MapFiles(b)
<1>1. M \in Nat \ {0} /\ DOMAIN files = 1..M /\ L(M) = TotalSize
  <2>1. M \in Nat /\ DOMAIN files = 1..M /\ L(M) = TotalSize
    BY DEF Sized, TotalSize
  <2>2. M # 0
    <3>1. LengthUpTo(0) = 0
      BY Lengths DEF Sized
    <3> QED
      BY <2>1, <3>1 DEF Sized
  <2> QED
    BY <2>1, <2>2
<1>2. start \in Nat /\ b.length \in Nat \ {0} /\ end <= TotalSize /\ end \in Nat /\ start < end
      /\ end - start = b.length
  BY BlockIs
<1>3. L(0) = 0 /\ \A f \in 0..M : L(f) \in Nat
  BY Lengths DEF Sized
<1>4. \A f, g \in 0..M : f <= g => L(f) <= L(g)
  BY LengthsGrow DEF Sized
<1>5. \A f \in 0..M : ~(start < L(f) /\ L(f) < end)
  BY NoBorderInside
<1>6. parts = [n \in 1..K |->
                  LET f == first + n - 1
                      from == Max({start, L(f - 1)})
                  IN  [file |-> f, begin |-> from - L(f - 1),
                       length |-> Min({end, L(f)}) - from]]
  BY Zenon DEF MapFiles
<1> HIDE DEF M, L, start, end, parts
<1>7. first \in 1..M /\ L(first) >= start /\ \A f \in 1..M : L(f) >= start => first <= f
  <2>1. F \in SUBSET Nat /\ M \in F
    BY <1>1, <1>2, <1>3
  <2>2. first \in F /\ \A f \in F : first <= f
    <3> HIDE DEF F
    <3> QED
      BY <2>1, MinIs
  <2> HIDE DEF first
  <2> QED
    BY <1>1, <2>2
<1> HIDE DEF first, F
<1>8. last \in first..M /\ L(last) >= end /\ \A f \in first..M : L(f) >= end => last <= f
  <2>1. E \in SUBSET Nat /\ M \in E
    BY <1>1, <1>2, <1>3, <1>7
  <2>2. last \in E /\ \A f \in E : last <= f
    <3> HIDE DEF E
    <3> QED
      BY <2>1, MinIs
  <2> HIDE DEF last
  <2> QED
    BY <1>1, <2>2
<1> HIDE DEF last, E
<1>9. K \in Nat \ {0} /\ first + K - 1 = last
  BY <1>1, <1>7, <1>8
<1>10. Len(parts) = K /\ DOMAIN parts = 1..K
  <2> HIDE DEF K
  <2> QED
    BY <1>6, <1>9
<1>11. ASSUME NEW n \in 1..K
       PROVE  /\ Placed(parts[n], b)
              /\ n < K => parts[n].length = 0
              /\ n = K => parts[n].length = b.length /\ end <= L(parts[n].file)
  <2> DEFINE f == first + n - 1
  <2>1. f \in first..last /\ f \in 1..M /\ f \in 0..M /\ f - 1 \in 0..M /\ (n < K <=> f < last)
        /\ (n = K <=> f = last)
    BY <1>1, <1>7, <1>8, <1>9
  <2>2. parts[n] = [file |-> f, begin |-> Max({start, L(f - 1)}) - L(f - 1),
                    length |-> Min({end, L(f)}) - Max({start, L(f - 1)})]
    BY <1>6
  <2> HIDE DEF f, K
  <2>3. L(f - 1) \in Nat /\ L(f) \in Nat
    BY <1>3, <2>1
  <2>4. L(f) >= start
    <3>1. first \in 0..M /\ first <= f
      BY <1>1, <1>7, <2>1
    <3>2. L(first) <= L(f) /\ L(first) \in Nat
      BY <1>3, <1>4, <2>1, <3>1
    <3> QED
      BY <1>2, <1>7, <2>3, <3>2
  <2>5. L(f - 1) <= start
    <3>1. CASE f = first
      <4>1. CASE f = 1
        <5>1. f - 1 = 0
          BY <4>1
        <5> QED
          BY <1>2, <1>3, <5>1
      <4>2. CASE f # 1
        <5>1. f - 1 \in 1..M /\ ~(first <= f - 1)
          BY <1>1, <2>1, <3>1, <4>2
        <5>2. ~(L(f - 1) >= start)
          BY <1>7, <5>1
        <5> QED
          BY <1>2, <2>3, <5>2
      <4> QED
        BY <4>1, <4>2
    <3>2. CASE f # first
      <4>1. f - 1 \in first..M /\ ~(last <= f - 1)
        BY <1>1, <1>7, <1>8, <2>1, <3>2
      <4>2. ~(L(f - 1) >= end)
        BY <1>8, <4>1
      <4>3. ~(start < L(f - 1))
        BY <1>2, <1>5, <2>1, <2>3, <4>2
      <4> QED
        BY <1>2, <2>3, <4>3
    <3> QED
      BY <3>1, <3>2
  <2>6. Max({start, L(f - 1)}) = start
    <3> DEFINE m == L(f - 1)
    <3>1. m \in Int /\ start \in Int /\ m <= start
      BY <1>2, <2>3, <2>5
    <3> HIDE DEF m
    <3>2. Max({start, m}) = start
      BY <3>1, OfTwo
    <3> QED
      BY <3>2 DEF m
  <2>7. Placed(parts[n], b)
    BY <1>1, <2>1, <2>2, <2>4, <2>5, <2>6 DEF Placed, start, L
  <2>8. ASSUME n < K PROVE parts[n].length = 0
    <3>1. f < last /\ f \in first..M
      BY <2>1, <2>8, <1>8
    <3>2. ~(L(f) >= end)
      BY <1>1, <1>7, <1>8, <2>1, <3>1
    <3>3. L(f) = start /\ L(f) <= end
      BY <1>2, <1>5, <2>1, <2>3, <2>4, <3>2
    <3>4. Min({end, L(f)}) = start
      BY <1>2, <2>3, <3>3, OfTwo
    <3> QED
      BY <1>2, <2>2, <2>6, <3>4
  <2>9. ASSUME n = K PROVE parts[n].length = b.length /\ end <= L(parts[n].file)
    <3>1. f = last
      BY <2>1, <2>9
    <3>2. end <= L(f)
      BY <1>2, <1>8, <2>3, <3>1
    <3>3. Min({end, L(f)}) = end
      BY <1>2, <2>3, <3>2, OfTwo
    <3> QED
      BY <1>2, <2>2, <2>6, <3>2, <3>3
  <2> QED
    BY <2>7, <2>8, <2>9
<1>12. K \in 1..K /\ \A n \in 1..K - 1 : n \in 1..K /\ n < K
  BY <1>9
<1> HIDE DEF K
<1> SUFFICES /\ Len(parts) \in Nat \ {0} /\ DOMAIN parts = 1..Len(parts)
             /\ \A n \in 1..Len(parts) : Placed(parts[n], b)
             /\ \A n \in 1..Len(parts) - 1 : parts[n].length = 0
             /\ parts[Len(parts)].length = b.length
             /\ end <= L(parts[Len(parts)].file)
  BY DEF parts, end, L, start
<1> QED
  BY <1>9, <1>10, <1>11, <1>12

----------------------------------------------------------------------------
(* What a read and a write of a block do to the files. *)

\* The files hold bytes.
Held(d) == DOMAIN d = DOMAIN files /\ \A f \in DOMAIN files : d[f] \in Seq(Int)

\* The byte at offset o of the torrent is in its place.
On(d, o) ==
    \A f \in DOMAIN files :
        LengthUpTo(f - 1) <= o /\ o < LengthUpTo(f) =>
            /\ o - LengthUpTo(f - 1) + 1 \in DOMAIN d[f]
            /\ d[f][o - LengthUpTo(f - 1) + 1] = o

\* A sequence after empty ones, put together with them, is itself.
LEMMA FlattenLast ==
  ASSUME NEW K \in Nat \ {0}, NEW seqs, seqs \in [1..K -> Seq(Int)],
         \A n \in 1..K - 1 : seqs[n] = <<>>
  PROVE  FlattenSeq(seqs) = seqs[K]
<1> DEFINE Body(f) == [i \in 1..K |-> IF i = 1 THEN seqs[i] ELSE f[i - 1] \o seqs[i]]
           k == CHOOSE f : f = Body(f)
           S == {n \in 0..K - 1 : k[n + 1] = seqs[n + 1]}
<1>1. Len(seqs) = K
  OBVIOUS
<1>2. FlattenSeq(seqs) = k[K]
  BY <1>1, Zenon DEF FlattenSeq
<1>3. seqs = Body(seqs)
  <2>1. \A i \in 1..K : i # 1 => i - 1 \in 1..K - 1
    OBVIOUS
  <2>2. \A i \in 1..K : i # 1 => seqs[i - 1] \o seqs[i] = seqs[i]
    BY <2>1, EmptySeq, ConcatEmptySeq
  <2>3. \A i \in 1..K : seqs[i] = IF i = 1 THEN seqs[i] ELSE seqs[i - 1] \o seqs[i]
    BY <2>2
  <2> QED
    BY <2>3
<1>4. k = Body(k)
  <2> HIDE DEF Body
  <2> QED
    BY <1>3, Zenon
<1> HIDE DEF k
<1>5. 0 \in S
  <2>1. k[1] = seqs[1]
    BY <1>4
  <2> QED
    BY <2>1
<1>6. ASSUME NEW n \in 0..(K - 1) - 1, n \in S PROVE n + 1 \in S
  <2> DEFINE i == n + 2
  <2>1. i \in 2..K /\ i \in 1..K /\ i - 1 = n + 1 /\ n + 1 \in 1..K - 1 /\ (n + 1) + 1 = i
        /\ n + 1 \in 0..K - 1
    OBVIOUS
  <2> HIDE DEF i
  <2>2. k[i] = k[n + 1] \o seqs[i]
    <3>1. \A j \in 1..K : k[j] = IF j = 1 THEN seqs[j] ELSE k[j - 1] \o seqs[j]
      BY <1>4, Zenon
    <3>2. i # 1
      BY <2>1
    <3>3. k[i] = k[i - 1] \o seqs[i]
      BY <2>1, <3>1, <3>2, Zenon
    <3> QED
      BY <2>1, <3>3
  <2>3. k[n + 1] = <<>>
    BY <1>6, <2>1
  <2>4. k[i] = seqs[i]
    BY <2>1, <2>2, <2>3, ConcatEmptySeq
  <2> QED
    BY <2>1, <2>4
<1> HIDE DEF S
<1>7. \A n \in 0..(K - 1) - 1 : n \in S => n + 1 \in S
  BY <1>6
<1>8. \A n \in 0..K - 1 : n \in S
  <2>1. K - 1 \in Nat
    OBVIOUS
  <2> QED
    BY <1>5, <1>7, <2>1, Counting
<1>9. K - 1 \in S /\ (K - 1) + 1 = K
  BY <1>8
<1> QED
  BY <1>2, <1>9 DEF S

\* What a write leaves in a file.
Overwrites(new, content, begin, data) ==
    /\ new \in Seq(Int)
    /\ Len(new) >= Len(content) /\ Len(new) >= begin + Len(data)
    /\ \A k \in 1..Len(new) :
           new[k] = IF k \in begin + 1..begin + Len(data) THEN data[k - begin]
                    ELSE IF k <= Len(content) THEN content[k] ELSE Zero

\* Overwritten leaves that.
LEMMA OverwrittenIs ==
  ASSUME NEW content \in Seq(Int), NEW begin \in Nat, NEW data \in Seq(Int)
  PROVE  Overwrites(Overwritten(content, begin, data), content, begin, data)
<1> DEFINE m == Len(content)
           n == begin + Len(data)
           x == Max({m, n})
           Val(k) == IF k \in begin + 1..n THEN data[k - begin]
                     ELSE IF k <= m THEN content[k] ELSE Zero
           new == Overwritten(content, begin, data)
<1>1. m \in Nat /\ n \in Nat
  OBVIOUS
<1>2. new = [k \in 1..x |-> Val(k)]
  BY Zenon DEF Overwritten
<1> HIDE DEF new
<1>3. \A k \in Nat \ {0} : Val(k) \in Int
  <2>1. Zero \in Int
    BY DEF Zero
  <2> QED
    BY <2>1
<1>4. x \in Nat /\ x >= m /\ x >= n
  <2>1. m \in Int /\ n \in Int
    BY <1>1
  <2> HIDE DEF m, n
  <2>2. CASE m <= n
    <3>1. x = n
      BY <2>1, <2>2, OfTwo
    <3> QED
      BY <1>1, <2>2, <3>1
  <2>3. CASE n <= m
    <3>1. x = m
      BY <2>1, <2>3, OfTwo
    <3> QED
      BY <1>1, <2>3, <3>1
  <2> QED
    BY <1>1, <2>2, <2>3
<1> HIDE DEF x, Val
<1>5. \A k \in 1..x : Val(k) \in Int
  BY <1>3, <1>4
<1>6. new \in Seq(Int) /\ Len(new) = x /\ \A k \in 1..x : new[k] = Val(k)
  BY <1>2, <1>4, <1>5
<1> QED
  BY <1>4, <1>6 DEF Overwrites, Val, new

\* The bytes of a block.
LEMMA DataIs ==
  ASSUME Sized, NEW b \in Blocks
  PROVE  /\ Data(b) \in Seq(Int) /\ Len(Data(b)) = b.length
         /\ \A k \in 1..b.length : Data(b)[k] = FileIndex(b) + k - 1
<1>1. FileIndex(b) \in Nat /\ b.length \in Nat
  BY BlockIs
<1> QED
  BY <1>1 DEF Data

\* The file a block lies in, and what comes before it there.
LEMMA BlockInFile ==
  ASSUME Sized, Aligned, NEW b \in Blocks
  PROVE  LET l == MapFiles(b)[Len(MapFiles(b))].file
         IN  /\ l \in DOMAIN files
             /\ LengthUpTo(l - 1) \in Nat /\ LengthUpTo(l) \in Nat
             /\ LengthUpTo(l - 1) <= FileIndex(b)
             /\ FileIndex(b) + b.length <= LengthUpTo(l)
             /\ \A o \in FileIndex(b)..FileIndex(b) + b.length - 1 :
                    \A f \in DOMAIN files :
                        LengthUpTo(f - 1) <= o /\ o < LengthUpTo(f) <=> f = l
<1> DEFINE parts == MapFiles(b)
           l == parts[Len(parts)].file
<1>1. Len(parts) \in Nat \ {0} /\ Len(parts) \in 1..Len(parts)
  BY PartsAre
<1>2. l \in DOMAIN files /\ LengthUpTo(l - 1) <= FileIndex(b) /\ FileIndex(b) + b.length <= LengthUpTo(l)
  <2> HIDE DEF parts
  <2>1. Placed(parts[Len(parts)], b) /\ FileIndex(b) + b.length <= LengthUpTo(parts[Len(parts)].file)
    BY <1>1, PartsAre DEF parts
  <2> QED
    BY <2>1 DEF Placed
<1>3. l \in 0..Len(files) /\ l - 1 \in 0..Len(files)
  BY <1>2 DEF Sized
<1> HIDE DEF l
<1>4. LengthUpTo(l - 1) \in Nat /\ LengthUpTo(l) \in Nat
  BY <1>3, Lengths DEF Sized
<1>5. FileIndex(b) \in Nat /\ b.length \in Nat
  BY BlockIs
<1>6. ASSUME NEW o \in FileIndex(b)..FileIndex(b) + b.length - 1, NEW f \in DOMAIN files
      PROVE  LengthUpTo(f - 1) <= o /\ o < LengthUpTo(f) <=> f = l
  <2>1. o \in Int /\ LengthUpTo(l - 1) <= o /\ o < LengthUpTo(l)
    BY <1>2, <1>4, <1>5
  <2>2. LengthUpTo(f - 1) <= o /\ o < LengthUpTo(f) => f = l
    BY <1>2, <2>1, OneFile DEF Sized
  <2> QED
    BY <2>1, <2>2
<1> QED
  BY <1>2, <1>4, <1>6 DEF l

\* No stretch of the block, but an empty one, goes past the end of its file.
Fits(b) ==
    \A n \in DOMAIN MapFiles(b) :
        \/ MapFiles(b)[n].length = 0
        \/ MapFiles(b)[n].begin + MapFiles(b)[n].length <= Len(disk[MapFiles(b)[n].file])

\* read_block_raw gives what one file holds, or nothing.
LEMMA ReadIs ==
  ASSUME Sized, Aligned, Held(disk), NEW b \in Blocks
  PROVE  LET l == MapFiles(b)[Len(MapFiles(b))].file
             from == FileIndex(b) - LengthUpTo(l - 1)
         IN  /\ from + b.length <= Len(disk[l]) => Fits(b)
             /\ Fits(b) => /\ from + b.length <= Len(disk[l])
                           /\ ReadBlockRaw(b) = SubSeq(disk[l], from + 1, from + b.length)
             /\ ~Fits(b) => ReadBlockRaw(b) = <<Unreadable>>
<1> DEFINE parts == MapFiles(b)
           K == Len(parts)
           l == parts[K].file
           from == FileIndex(b) - LengthUpTo(l - 1)
           Stretch(n) == SubSeq(disk[parts[n].file], parts[n].begin + 1, parts[n].begin + parts[n].length)
           seqs == [n \in DOMAIN parts |-> Stretch(n)]
<1>1. /\ K \in Nat \ {0} /\ DOMAIN parts = 1..K
      /\ \A n \in 1..K : Placed(parts[n], b)
      /\ \A n \in 1..K - 1 : parts[n].length = 0
      /\ parts[K].length = b.length
      /\ FileIndex(b) + b.length <= LengthUpTo(l)
  BY PartsAre
<1>2. FileIndex(b) \in Nat /\ b.length \in Nat \ {0}
  BY BlockIs
<1>3. Fits(b) <=> \A n \in 1..K : \/ parts[n].length = 0
                                  \/ parts[n].begin + parts[n].length <= Len(disk[parts[n].file])
  BY <1>1 DEF Fits
<1>4. ReadBlockRaw(b) = IF Fits(b) THEN FlattenSeq(seqs) ELSE <<Unreadable>>
  BY Zenon DEF ReadBlockRaw, Fits
<1> HIDE DEF parts, K
<1>5. ASSUME NEW n \in 1..K
      PROVE  LET f == parts[n].file
             IN  /\ f \in DOMAIN files /\ disk[f] \in Seq(Int)
                 /\ LengthUpTo(f - 1) \in Nat /\ LengthUpTo(f) \in Nat
                 /\ LengthUpTo(f) = LengthUpTo(f - 1) + files[f] /\ files[f] \in Nat
                 /\ LengthUpTo(f - 1) <= FileIndex(b) /\ FileIndex(b) <= LengthUpTo(f)
                 /\ parts[n].begin = FileIndex(b) - LengthUpTo(f - 1)
                 /\ parts[n].begin \in Nat
  <2> DEFINE f == parts[n].file
  <2>1. f \in DOMAIN files /\ parts[n].begin = FileIndex(b) - LengthUpTo(f - 1)
        /\ LengthUpTo(f - 1) <= FileIndex(b) /\ FileIndex(b) <= LengthUpTo(f)
    BY <1>1 DEF Placed
  <2> HIDE DEF f
  <2>2. f \in 1..Len(files) /\ f - 1 \in 0..Len(files) /\ f \in 0..Len(files) /\ files[f] \in Nat
    BY <2>1 DEF Sized
  <2>3. LengthUpTo(f - 1) \in Nat /\ LengthUpTo(f) \in Nat
        /\ LengthUpTo(f) = LengthUpTo(f - 1) + files[f]
    BY <2>2, Lengths DEF Sized
  <2>4. parts[n].begin \in Nat
    BY <1>2, <2>1, <2>3
  <2>5. disk[f] \in Seq(Int)
    BY <2>1 DEF Held
  <2> QED
    BY <2>1, <2>2, <2>3, <2>4, <2>5 DEF f
<1>6. \A n \in 1..K : n = K \/ n \in 1..K - 1
  BY <1>1
<1>7. K \in 1..K
  BY <1>1
<1>8. ASSUME from + b.length <= Len(disk[l]) PROVE Fits(b)
  <2>1. ASSUME NEW n \in 1..K
        PROVE  \/ parts[n].length = 0
               \/ parts[n].begin + parts[n].length <= Len(disk[parts[n].file])
    <3>1. CASE n = K
      <4>1. parts[n].begin = from /\ parts[n].length = b.length /\ parts[n].file = l
        BY <1>1, <1>5, <3>1
      <4> HIDE DEF from, l
      <4> QED
        BY <1>8, <4>1
    <3>2. CASE n \in 1..K - 1
      BY <1>1, <3>2
    <3> QED
      BY <1>6, <3>1, <3>2
  <2> QED
    BY <1>3, <2>1
<1>9. ASSUME Fits(b)
      PROVE  from + b.length <= Len(disk[l]) /\ FlattenSeq(seqs) = SubSeq(disk[l], from + 1, from + b.length)
  <2>1. ASSUME NEW n \in 1..K
        PROVE  seqs[n] \in Seq(Int) /\ seqs[n] = Stretch(n) /\ (n \in 1..K - 1 => seqs[n] = <<>>)
    <3> DEFINE s == disk[parts[n].file]
               begin == parts[n].begin
               end == begin + parts[n].length
    <3>1. s \in Seq(Int) /\ begin \in Nat
      BY <1>5
    <3>2. n = K => end <= Len(s)
      BY <1>1, <1>2, <1>3, <1>9
    <3>3. parts[n].length \in Nat
      BY <1>1, <1>2, <1>6
    <3>4. seqs[n] = SubSeq(s, begin + 1, end)
      BY <1>1
    <3>5. n \in 1..K - 1 => end = begin
      BY <1>1, <3>1
    <3>6. end \in Nat
      BY <3>1, <3>3
    <3> HIDE DEF s, begin, end, seqs
    <3>7. end <= Len(s) => SubSeq(s, begin + 1, end) \in Seq(Int)
      BY <3>1, <3>6
    <3>8. end = begin => SubSeq(s, begin + 1, end) = <<>>
      BY <3>1, SubSeqEmpty
    <3>9. <<>> \in Seq(Int)
      OBVIOUS
    <3> QED
      BY <1>6, <3>2, <3>4, <3>5, <3>7, <3>8, <3>9 DEF s, begin, end
  <2>2. seqs \in [1..K -> Seq(Int)]
    <3>1. DOMAIN seqs = 1..K
      BY <1>1
    <3>2. seqs = [n \in DOMAIN seqs |-> seqs[n]]
      OBVIOUS
    <3> HIDE DEF seqs
    <3> QED
      BY <2>1, <3>1, <3>2
  <2> HIDE DEF seqs
  <2>3. FlattenSeq(seqs) = seqs[K]
    <3>1. \A n \in 1..K - 1 : n \in 1..K
      BY <1>1
    <3>2. \A n \in 1..K - 1 : seqs[n] = <<>>
      BY <2>1, <3>1
    <3> QED
      BY <1>1, <2>2, <3>2, FlattenLast
  <2>4. seqs[K] = Stretch(K)
    BY <1>7, <2>1
  <2>5. parts[K].begin = from /\ parts[K].length = b.length
    BY <1>1, <1>5, <1>7
  <2>6. parts[K].begin + parts[K].length <= Len(disk[l])
    <3>1. parts[K].length # 0
      BY <1>1, <1>2
    <3> QED
      BY <1>3, <1>7, <1>9, <3>1
  <2> HIDE DEF from, l
  <2> QED
    BY <2>3, <2>4, <2>5, <2>6 DEF l
<1> HIDE DEF seqs
<1> SUFFICES /\ from + b.length <= Len(disk[l]) => Fits(b)
             /\ Fits(b) => /\ from + b.length <= Len(disk[l])
                           /\ ReadBlockRaw(b) = SubSeq(disk[l], from + 1, from + b.length)
             /\ ~Fits(b) => ReadBlockRaw(b) = <<Unreadable>>
  BY DEF parts, K
<1> QED
  BY <1>4, <1>8, <1>9

\* A stretch of n bytes of a file.
LEMMA StretchIs ==
  ASSUME NEW s \in Seq(Int), NEW from \in Nat, NEW n \in Nat, from + n <= Len(s)
  PROVE  LET x == SubSeq(s, from + 1, from + n)
         IN  /\ x \in Seq(Int) /\ Len(x) = n
             /\ \A k \in 1..n : x[k] = s[from + k] /\ from + k \in DOMAIN s
  OBVIOUS

\* A block whose bytes are all in their places is read back as it was.
LEMMA ReadsWhatIsOn ==
  ASSUME Sized, Aligned, Held(disk), NEW b \in Blocks,
         \A o \in Offsets(b) : On(disk, o)
  PROVE  ReadBlockRaw(b) = Data(b)
<1> DEFINE l == MapFiles(b)[Len(MapFiles(b))].file
           start == FileIndex(b)
           before == LengthUpTo(l - 1)
           from == start - before
           x == SubSeq(disk[l], from + 1, from + b.length)
<1>1. /\ l \in DOMAIN files /\ before \in Nat /\ before <= start
      /\ \A o \in start..start + b.length - 1 : before <= o /\ o < LengthUpTo(l)
  BY BlockInFile
<1>3. start \in Nat /\ b.length \in Nat \ {0}
  BY BlockIs
<1>4. disk[l] \in Seq(Int)
  BY <1>1 DEF Held
<1>10. \A o \in start..start + b.length - 1 : On(disk, o)
  BY DEF Offsets
<1>11. from + b.length <= Len(disk[l])
  <2> DEFINE o == start + b.length - 1
  <2> HIDE DEF l, start, before
  <2>1. o \in start..start + b.length - 1 /\ o - before + 1 = from + b.length
    BY <1>1, <1>3
  <2>2. before <= o /\ o < LengthUpTo(l) /\ On(disk, o)
    BY <1>1, <1>10, <2>1
  <2> HIDE DEF o
  <2>3. o - before + 1 \in DOMAIN disk[l]
    BY <1>1, <2>2 DEF On, before
  <2> QED
    BY <1>4, <2>1, <2>3
<1>2. from + b.length <= Len(disk[l]) /\ ReadBlockRaw(b) = x
  BY <1>11, ReadIs
<1> HIDE DEF l, start, before
<1>5. from \in Nat
  BY <1>1, <1>3
<1> HIDE DEF from
<1>12. b.length \in Nat
  BY <1>3
<1>0. /\ x \in Seq(Int) /\ Len(x) = b.length
      /\ \A k \in 1..b.length : x[k] = disk[l][from + k]
  BY <1>2, <1>4, <1>5, <1>12, StretchIs
<1>6. ASSUME NEW k \in 1..b.length PROVE x[k] = start + k - 1
  <2> DEFINE o == start + k - 1
  <2>1. o \in start..start + b.length - 1 /\ o - before + 1 = from + k
    BY <1>1, <1>3 DEF from
  <2> HIDE DEF o
  <2>2. disk[l][from + k] = o
    BY <1>1, <1>10, <2>1 DEF On, before
  <2> QED
    BY <1>0, <2>2 DEF o
<1>8. /\ Data(b) \in Seq(Int) /\ Len(Data(b)) = b.length
      /\ \A k \in 1..b.length : Data(b)[k] = start + k - 1
  BY DataIs DEF start
<1> HIDE DEF x
<1>9. x = Data(b)
  BY <1>0, <1>6, <1>8, SeqEqual
<1> QED
  BY <1>2, <1>9 DEF x

\* A block that is read back as it was has its bytes in their places.
LEMMA IsOnWhatReads ==
  ASSUME Sized, Aligned, Held(disk), NEW b \in Blocks, ReadBlockRaw(b) = Data(b)
  PROVE  \A o \in FileIndex(b)..FileIndex(b) + b.length - 1 : On(disk, o)
<1> DEFINE l == MapFiles(b)[Len(MapFiles(b))].file
           start == FileIndex(b)
           before == LengthUpTo(l - 1)
           from == start - before
           x == SubSeq(disk[l], from + 1, from + b.length)
<1>1. /\ l \in DOMAIN files /\ before \in Nat /\ before <= start
      /\ \A o \in start..start + b.length - 1 :
             \A f \in DOMAIN files : LengthUpTo(f - 1) <= o /\ o < LengthUpTo(f) <=> f = l
  BY BlockInFile
<1>2. start \in Nat /\ b.length \in Nat \ {0}
  BY BlockIs
<1>3. /\ Data(b) \in Seq(Int) /\ Len(Data(b)) = b.length
      /\ \A k \in 1..b.length : Data(b)[k] = start + k - 1
  BY DataIs
<1>4. Fits(b)
  <2>1. <<Unreadable>>[1] < 0
    BY DEF Unreadable
  <2>2. Data(b)[1] >= 0
    BY <1>2, <1>3
  <2>3. ~Fits(b) => Data(b) = <<Unreadable>>
    BY ReadIs
  <2> QED
    BY <1>2, <1>3, <2>1, <2>2, <2>3
<1>5. from + b.length <= Len(disk[l]) /\ Data(b) = x
  BY <1>4, ReadIs
<1>6. disk[l] \in Seq(Int)
  BY <1>1 DEF Held
<1> HIDE DEF l, start, before
<1>7. from \in Nat
  BY <1>1, <1>2
<1> HIDE DEF from
<1>0. \A k \in 1..b.length : x[k] = disk[l][from + k] /\ from + k \in DOMAIN disk[l]
  BY <1>2, <1>5, <1>6, <1>7, StretchIs
<1> HIDE DEF x
<1>8. ASSUME NEW o \in start..start + b.length - 1 PROVE On(disk, o)
  <2> DEFINE k == o - start + 1
  <2>1. k \in 1..b.length /\ start + k - 1 = o /\ from + k = o - before + 1
    BY <1>1, <1>2 DEF from
  <2> HIDE DEF k
  <2>2. x[k] = disk[l][from + k] /\ from + k \in DOMAIN disk[l]
    BY <1>0, <2>1
  <2>3. Data(b)[k] = o
    BY <1>3, <2>1
  <2>4. o - before + 1 \in DOMAIN disk[l] /\ disk[l][o - before + 1] = o
    BY <1>5, <2>1, <2>2, <2>3
  <2> QED
    BY <1>1, <2>4 DEF On, before
<1> QED
  BY <1>8 DEF start

\* A write, however far it comes, takes no byte out of its place; a whole one puts
\* the block's bytes in theirs.
LEMMA WritesKeep ==
  ASSUME Sized, Aligned, Held(disk), NEW b \in Blocks,
         NEW n \in 0..Len(MapFiles(b)), NEW d, d = AfterWrites(b, Data(b), n)
  PROVE  /\ Held(d) /\ \A f \in DOMAIN files : Len(d[f]) >= Len(disk[f])
         /\ \A o \in Int : On(disk, o) => On(d, o)
         /\ n = Len(MapFiles(b)) =>
                \A o \in FileIndex(b)..FileIndex(b) + b.length - 1 : On(d, o)
<1> DEFINE parts == MapFiles(b)
           K == Len(parts)
           start == FileIndex(b)
           Before(f) == LengthUpTo(f - 1)
           Written(f) == {m \in 1..n : parts[m].file = f}
           New(f) == Overwritten(disk[f], start - Before(f), Data(b))
<1>1. K \in Nat \ {0} /\ \A m \in 1..K : Placed(parts[m], b)
  BY PartsAre
<1>2. start \in Nat /\ b.length \in Nat \ {0}
  BY BlockIs
<1>3. /\ Data(b) \in Seq(Int) /\ Len(Data(b)) = b.length
      /\ \A k \in 1..b.length : Data(b)[k] = start + k - 1
  BY DataIs
<1>4. DOMAIN disk = DOMAIN files /\ \A f \in DOMAIN files : disk[f] \in Seq(Int) /\ Before(f) \in Nat
  <2>1. \A f \in DOMAIN files : f - 1 \in 0..Len(files)
    BY DEF Sized
  <2> QED
    BY <2>1, Lengths DEF Held, Sized
<1>5. d = [f \in DOMAIN disk |->
              IF Written(f) = {} THEN disk[f]
              ELSE Overwritten(disk[f], parts[Max(Written(f))].begin, Data(b))]
  BY Zenon DEF AfterWrites
<1> HIDE DEF parts, K
<1>6. ASSUME NEW f \in DOMAIN files, Written(f) # {}
      PROVE  Before(f) <= start /\ d[f] = New(f)
  <2> DEFINE m == Max(Written(f))
  <2>1. Written(f) \subseteq 1..n /\ n \in Nat
    OBVIOUS
  <2>2. m \in Written(f)
    <3> HIDE DEF Written
    <3> QED
      BY <1>6, <2>1, MaxIs
  <2>3. m \in 1..K /\ parts[m].file = f
    BY <2>2 DEF K, parts
  <2> HIDE DEF m
  <2>4. Placed(parts[m], b)
    BY <1>1, <2>3
  <2>5. Before(f) <= start /\ parts[m].begin = start - Before(f)
    BY <2>3, <2>4 DEF Placed
  <2>6. d[f] = Overwritten(disk[f], parts[m].begin, Data(b))
    BY <1>4, <1>5, <1>6 DEF m
  <2> QED
    BY <2>5, <2>6
<1>7. \A f \in DOMAIN files : Written(f) = {} => d[f] = disk[f]
  BY <1>4, <1>5
<1>8. DOMAIN d = DOMAIN files
  BY <1>4, <1>5
<1> HIDE DEF Written
<1>9. ASSUME NEW f \in DOMAIN files, Before(f) <= start
      PROVE  /\ New(f) \in Seq(Int) /\ Len(New(f)) >= Len(disk[f])
             /\ Len(New(f)) >= (start - Before(f)) + b.length
             /\ \A k \in 1..Len(New(f)) :
                    New(f)[k] = IF k \in (start - Before(f)) + 1..(start - Before(f)) + b.length
                                THEN Data(b)[k - (start - Before(f))]
                                ELSE IF k <= Len(disk[f]) THEN disk[f][k] ELSE Zero
  <2> DEFINE from == start - Before(f)
  <2>1. from \in Nat /\ disk[f] \in Seq(Int)
    BY <1>2, <1>4, <1>9
  <2> HIDE DEF from
  <2>2. Overwrites(Overwritten(disk[f], from, Data(b)), disk[f], from, Data(b))
    BY <1>3, <2>1, OverwrittenIs
  <2> QED
    BY <1>3, <2>2, Zenon DEF Overwrites, from
<1>10. Held(d) /\ \A f \in DOMAIN files : Len(d[f]) >= Len(disk[f])
  <2>1. ASSUME NEW f \in DOMAIN files PROVE d[f] \in Seq(Int) /\ Len(d[f]) >= Len(disk[f])
    <3>1. CASE Written(f) = {}
      BY <1>4, <1>7, <3>1
    <3>2. CASE Written(f) # {}
      BY <1>6, <1>9, <3>2
    <3> QED
      BY <3>1, <3>2
  <2> QED
    BY <1>8, <2>1 DEF Held
\* The byte that a write puts at offset o is o.
<1>11. ASSUME NEW f \in DOMAIN files, NEW o \in Int, Before(f) <= start, Before(f) <= o,
              \/ o \in start..start + b.length - 1
              \/ /\ o - Before(f) + 1 \in DOMAIN disk[f]
                 /\ disk[f][o - Before(f) + 1] = o
       PROVE  o - Before(f) + 1 \in DOMAIN New(f) /\ New(f)[o - Before(f) + 1] = o
  <2> DEFINE k == o - Before(f) + 1
             from == start - Before(f)
             new == New(f)
  <2>1. disk[f] \in Seq(Int) /\ Before(f) \in Nat
    BY <1>4
  <2>2. /\ new \in Seq(Int) /\ Len(new) >= Len(disk[f]) /\ Len(new) >= from + b.length
        /\ \A j \in 1..Len(new) :
               new[j] = IF j \in from + 1..from + b.length THEN Data(b)[j - from]
                        ELSE IF j <= Len(disk[f]) THEN disk[f][j] ELSE Zero
    BY <1>9, <1>11
  <2>3. /\ k \in Int /\ from \in Nat /\ k >= 1
        /\ k \in from + 1..from + b.length <=> o \in start..start + b.length - 1
        /\ o \in start..start + b.length - 1 =>
               k - from \in 1..b.length /\ start + (k - from) - 1 = o
    <3> DEFINE before == Before(f)
    <3>1. start \in Nat /\ b.length \in Nat /\ before \in Nat /\ before <= start /\ before <= o
      BY <1>2, <1>11, <2>1
    <3> DEFINE length == b.length
    <3> HIDE DEF before, start, length
    <3>2. LET kk == o - before + 1
              fr == start - before
          IN  /\ kk \in Int /\ fr \in Nat /\ kk >= 1
              /\ kk \in fr + 1..fr + length <=> o \in start..start + length - 1
              /\ o \in start..start + length - 1 =>
                     kk - fr \in 1..length /\ start + (kk - fr) - 1 = o
      BY <3>1 DEF length
    <3> QED
      BY <3>2, Zenon DEF before, length
  <2> HIDE DEF new
  <2>4. CASE o \in start..start + b.length - 1
    <3>1. k \in from + 1..from + b.length
      BY <2>3, <2>4
    <3>2. k - from \in 1..b.length /\ start + (k - from) - 1 = o
      BY <2>3, <2>4, Zenon
    <3>3. Data(b)[k - from] = o
      BY <1>3, <3>2
    <3> HIDE DEF k, from
    <3>4. k \in 1..Len(new)
      BY <1>2, <2>2, <2>3, <3>1
    <3>5. new[k] = o
      BY <2>2, <3>1, <3>3, <3>4
    <3>6. k \in DOMAIN new
      BY <2>2, <3>4
    <3> QED
      BY <3>5, <3>6 DEF k, new
  <2>5. CASE o \notin start..start + b.length - 1
    <3>1. k \notin from + 1..from + b.length
      BY <2>3, <2>5
    <3>2. k \in DOMAIN disk[f] /\ disk[f][k] = o
      BY <1>11, <2>5
    <3> HIDE DEF k, from
    <3>3. k \in 1..Len(new) /\ k <= Len(disk[f])
      BY <2>1, <2>2, <3>2
    <3>4. new[k] = o
      BY <2>2, <3>1, <3>2, <3>3
    <3>5. k \in DOMAIN new
      BY <2>2, <3>3
    <3> QED
      BY <3>4, <3>5 DEF k, new
  <2> QED
    BY <2>4, <2>5
<1>12. ASSUME NEW o \in Int, On(disk, o) PROVE On(d, o)
  <2>1. ASSUME NEW f \in DOMAIN files, Before(f) <= o, o < LengthUpTo(f)
        PROVE  o - Before(f) + 1 \in DOMAIN d[f] /\ d[f][o - Before(f) + 1] = o
    <3>1. o - Before(f) + 1 \in DOMAIN disk[f] /\ disk[f][o - Before(f) + 1] = o
      BY <1>12, <2>1 DEF On
    <3>2. CASE Written(f) = {}
      BY <1>7, <3>1, <3>2
    <3>3. CASE Written(f) # {}
      <4>1. Before(f) <= start /\ d[f] = New(f)
        BY <1>6, <3>3
      <4> HIDE DEF New, Before
      <4>2. o - Before(f) + 1 \in DOMAIN New(f) /\ New(f)[o - Before(f) + 1] = o
        BY <1>11, <2>1, <3>1, <4>1
      <4> QED
        BY <4>1, <4>2
    <3> QED
      BY <3>2, <3>3
  <2> QED
    BY <2>1 DEF On
<1>13. ASSUME n = K, NEW o \in start..start + b.length - 1 PROVE On(d, o)
  <2> DEFINE l == parts[K].file
  <2>1. l \in DOMAIN files /\ \A f \in DOMAIN files : Before(f) <= o /\ o < LengthUpTo(f) <=> f = l
    BY BlockInFile DEF parts, K
  <2>2. Written(l) # {}
    <3>1. K \in 1..n
      BY <1>1, <1>13
    <3> QED
      BY <3>1 DEF Written
  <2> HIDE DEF l
  <2>3. Before(l) <= start /\ d[l] = New(l)
    BY <1>6, <2>1, <2>2
  <2>4. o \in Int /\ Before(l) <= o
    BY <1>2, <2>1
  <2>5. o - Before(l) + 1 \in DOMAIN New(l) /\ New(l)[o - Before(l) + 1] = o
    <3> HIDE DEF New, Before
    <3> QED
      BY <1>11, <1>13, <2>1, <2>3, <2>4
  <2> HIDE DEF New
  <2>6. o - Before(l) + 1 \in DOMAIN d[l] /\ d[l][o - Before(l) + 1] = o
    BY <2>3, <2>5
  <2> QED
    BY <2>1, <2>6 DEF On
<1> QED
  BY <1>10, <1>12, <1>13 DEF K, parts, start

\* The stretches of any block of the torrent, which may begin anywhere in it: the
\* writes to them all go over every byte of the block's own.
LEMMA StretchesAre ==
  ASSUME Sized, NEW b, FileIndex(b) \in Nat, b.length \in Nat \ {0},
         FileIndex(b) + b.length <= TotalSize
  PROVE  LET parts == MapFiles(b)
         IN  /\ Len(parts) \in Nat \ {0}
             /\ \A m \in 1..Len(parts) : parts[m].file \in DOMAIN files /\ parts[m].begin \in Nat
             /\ Offsets(b) \subseteq Reach(b, Len(parts))
<1> DEFINE M == Len(files)
           L(f) == LengthUpTo(f)
           start == FileIndex(b)
           end == start + b.length
           F == {f \in DOMAIN files : L(f) >= start}
           first == Min(F)
           E == {f \in first..M : L(f) >= end}
           last == Min(E)
           K == last - first + 1
           parts == MapFiles(b)
<1>1. M \in Nat /\ DOMAIN files = 1..M /\ L(M) = TotalSize
  BY DEF Sized, TotalSize
<1>2. start \in Nat /\ b.length \in Nat /\ end \in Nat /\ start < end /\ end <= TotalSize
  OBVIOUS
<1>3. L(0) = 0 /\ \A f \in 0..M : L(f) \in Nat
  BY Lengths DEF Sized
<1>4. \A f, g \in 0..M : f <= g => L(f) <= L(g)
  BY LengthsGrow DEF Sized
<1>5. M \in 1..M
  <2>1. M # 0
    BY <1>1, <1>2, <1>3
  <2> QED
    BY <1>1, <2>1
<1>6. parts = [n \in 1..K |->
                  LET f == first + n - 1
                      from == Max({start, L(f - 1)})
                  IN  [file |-> f, begin |-> from - L(f - 1),
                       length |-> Min({end, L(f)}) - from]]
  BY Zenon DEF MapFiles
<1>16. Reach(b, Len(parts)) =
         UNION {(L(parts[m].file - 1) + parts[m].begin..
                    L(parts[m].file - 1) + parts[m].begin + b.length - 1)
                  \cap (L(parts[m].file - 1)..L(parts[m].file) - 1) : m \in 1..Len(parts)}
  BY Zenon DEF Reach, OffsetsIn
<1>17. Offsets(b) = start..end - 1
  BY DEF Offsets
<1> HIDE DEF M, L, start, end, parts
<1>7. first \in 1..M /\ \A f \in 1..M : L(f) >= start => first <= f
  <2>1. F \in SUBSET Nat /\ M \in F
    BY <1>1, <1>2, <1>3, <1>5
  <2>2. first \in F /\ \A f \in F : first <= f
    <3> HIDE DEF F
    <3> QED
      BY <2>1, MinIs
  <2> HIDE DEF first
  <2> QED
    BY <1>1, <2>2
<1> HIDE DEF first, F
<1>8. last \in first..M /\ L(last) >= end
  <2>1. E \in SUBSET Nat /\ M \in E
    BY <1>1, <1>2, <1>3, <1>5, <1>7
  <2>2. last \in E
    <3> HIDE DEF E
    <3> QED
      BY <2>1, MinIs
  <2> HIDE DEF last
  <2> QED
    BY <1>1, <2>2
<1> HIDE DEF last, E
<1>9. K \in Nat \ {0}
  BY <1>1, <1>7, <1>8
<1>10. Len(parts) = K /\ DOMAIN parts = 1..K
  <2> HIDE DEF K
  <2> QED
    BY <1>6, <1>9
<1>11. ASSUME NEW m \in 1..K
       PROVE  LET f == first + m - 1
              IN  /\ f \in 1..M /\ parts[m].file = f
                  /\ L(f - 1) \in Nat /\ parts[m].begin \in Nat
                  /\ start <= L(f - 1) + parts[m].begin
                  /\ L(f - 1) + parts[m].begin \in {start, L(f - 1)}
  <2> DEFINE f == first + m - 1
             l == L(f - 1)
             x == Max({start, l})
  <2>1. f \in 1..M /\ f - 1 \in 0..M
    BY <1>1, <1>7, <1>8
  <2>2. parts[m].file = f /\ parts[m].begin = x - l
    BY <1>6
  <2>3. l \in Nat
    BY <1>3, <2>1
  <2>4. x \in {start, l} /\ x >= start /\ x >= l
    <3>1. start \in Int /\ l \in Int
      BY <1>2, <2>3
    <3> HIDE DEF l
    <3>2. CASE start <= l
      <4>1. x = l
        BY <3>1, <3>2, OfTwo
      <4> QED
        BY <3>1, <3>2, <4>1
    <3>3. CASE l <= start
      <4>1. x = start
        BY <3>1, <3>3, OfTwo
      <4> QED
        BY <3>1, <3>3, <4>1
    <3> QED
      BY <3>1, <3>2, <3>3
  <2> HIDE DEF x
  <2>5. parts[m].begin \in Nat /\ l + parts[m].begin = x
    BY <1>2, <2>2, <2>3, <2>4
  <2> QED
    BY <2>1, <2>2, <2>3, <2>4, <2>5
<1>12. ASSUME NEW o \in start..end - 1 PROVE o \in Reach(b, Len(parts))
  <2> DEFINE G == {f \in 1..M : L(f) > o}
             g == Min(G)
  <2>1. o \in Nat /\ start <= o /\ o < end
    BY <1>2
  <2>2. G \in SUBSET Nat /\ M \in G
    BY <1>1, <1>2, <1>3, <1>5, <2>1
  <2>3. g \in G /\ \A f \in G : g <= f
    <3> HIDE DEF G
    <3> QED
      BY <2>2, MinIs
  <2> HIDE DEF g
  <2>4. g \in 1..M /\ g - 1 \in 0..M /\ L(g) > o /\ L(g) \in Nat /\ L(g - 1) \in Nat
    BY <1>1, <1>3, <2>3
  <2>5. L(g - 1) <= o
    <3>1. CASE g = 1
      <4>1. g - 1 = 0
        BY <3>1
      <4> QED
        BY <1>3, <2>1, <4>1
    <3>2. CASE g # 1
      <4>1. g - 1 \in 1..M /\ ~(g <= g - 1)
        BY <1>1, <2>4, <3>2
      <4>2. ~(L(g - 1) > o)
        BY <2>3, <4>1
      <4> QED
        BY <2>1, <2>4, <4>2
    <3> QED
      BY <3>1, <3>2
  <2>6. first <= g
    BY <1>2, <1>7, <2>1, <2>4
  <2>7. g <= last
    <3> SUFFICES ASSUME last < g PROVE FALSE
      BY <1>1, <1>7, <1>8, <2>4
    <3>1. last \in 0..M /\ last <= g - 1 /\ L(last) \in Nat
      BY <1>1, <1>3, <1>7, <1>8, <2>4
    <3>2. L(last) <= L(g - 1)
      BY <1>4, <2>4, <3>1
    <3> QED
      BY <1>2, <1>8, <2>1, <2>4, <2>5, <3>1, <3>2
  <2> DEFINE m == g - first + 1
  <2>8. m \in 1..K /\ first + m - 1 = g
    BY <1>1, <1>7, <1>8, <2>4, <2>6, <2>7
  <2> HIDE DEF m, G, K
  <2>9. /\ parts[m].file = g /\ parts[m].begin \in Nat
        /\ start <= L(g - 1) + parts[m].begin
        /\ L(g - 1) + parts[m].begin \in {start, L(g - 1)}
    BY <1>11, <2>8
  <2> DEFINE from == L(g - 1) + parts[m].begin
  <2>10. from \in Nat /\ start <= from /\ from <= o
    BY <1>2, <2>1, <2>4, <2>5, <2>9
  <2> HIDE DEF from
  <2>11. end = start + b.length
    BY DEF end
  <2>12. o \in from..from + b.length - 1 /\ o \in L(g - 1)..L(g) - 1
    BY <1>2, <2>1, <2>4, <2>5, <2>10, <2>11
  <2>13. o \in (L(parts[m].file - 1) + parts[m].begin..
                    L(parts[m].file - 1) + parts[m].begin + b.length - 1)
                  \cap (L(parts[m].file - 1)..L(parts[m].file) - 1)
    BY <2>9, <2>12 DEF from
  <2>14. m \in 1..Len(parts)
    BY <1>10, <2>8
  <2> QED
    BY <1>16, <2>13, <2>14
<1> HIDE DEF K
<1> SUFFICES /\ Len(parts) \in Nat \ {0}
             /\ \A m \in 1..Len(parts) : parts[m].file \in DOMAIN files /\ parts[m].begin \in Nat
             /\ Offsets(b) \subseteq Reach(b, Len(parts))
  BY DEF parts
<1> QED
  BY <1>1, <1>9, <1>10, <1>11, <1>12, <1>17

\* A write, however far it comes, takes no byte out of its place but those it goes
\* over, whatever the block and its bytes.
LEMMA UnreachedStays ==
  ASSUME Sized, Held(disk), NEW b, FileIndex(b) \in Nat, b.length \in Nat \ {0},
         FileIndex(b) + b.length <= TotalSize,
         NEW data \in Seq(Int), Len(data) = b.length,
         NEW n \in 0..Len(MapFiles(b)), NEW d, d = AfterWrites(b, data, n)
  PROVE  Held(d) /\ \A o \in Int : On(disk, o) /\ o \notin Reach(b, n) => On(d, o)
<1> DEFINE parts == MapFiles(b)
           Before(f) == LengthUpTo(f - 1)
           Written(f) == {m \in 1..n : parts[m].file = f}
<1>1. /\ Len(parts) \in Nat
      /\ \A m \in 1..Len(parts) : parts[m].file \in DOMAIN files /\ parts[m].begin \in Nat
  BY StretchesAre
<1>2. /\ DOMAIN disk = DOMAIN files
      /\ \A f \in DOMAIN files : disk[f] \in Seq(Int) /\ Before(f) \in Nat /\ LengthUpTo(f) \in Nat
  <2>1. \A f \in DOMAIN files : f - 1 \in 0..Len(files) /\ f \in 0..Len(files)
    BY DEF Sized
  <2> QED
    BY <2>1, Lengths DEF Held, Sized
<1>3. d = [f \in DOMAIN disk |->
              IF Written(f) = {} THEN disk[f]
              ELSE Overwritten(disk[f], parts[Max(Written(f))].begin, data)]
  BY Zenon DEF AfterWrites
<1>4. Reach(b, n) = UNION {(Before(parts[m].file) + parts[m].begin..
                               Before(parts[m].file) + parts[m].begin + b.length - 1)
                             \cap (Before(parts[m].file)..LengthUpTo(parts[m].file) - 1) : m \in 1..n}
  BY Zenon DEF Reach, OffsetsIn
<1> HIDE DEF parts
<1>5. n \in Nat /\ \A m \in 1..n : m \in 1..Len(parts)
  BY <1>1 DEF parts
<1>6. ASSUME NEW f \in DOMAIN files, Written(f) # {}
      PROVE  \E m \in 1..n : /\ parts[m].file = f
                             /\ Overwrites(d[f], disk[f], parts[m].begin, data)
  <2> DEFINE m == Max(Written(f))
  <2>1. m \in Written(f)
    <3>1. Written(f) \subseteq 1..n
      OBVIOUS
    <3> HIDE DEF Written
    <3> QED
      BY <1>5, <1>6, <3>1, MaxIs
  <2>2. m \in 1..n /\ parts[m].file = f
    BY <2>1
  <2>3. d[f] = Overwritten(disk[f], parts[m].begin, data)
    BY <1>2, <1>3, <1>6
  <2> HIDE DEF m
  <2>4. Overwrites(Overwritten(disk[f], parts[m].begin, data), disk[f], parts[m].begin, data)
    BY <1>1, <1>2, <1>5, <2>2, OverwrittenIs
  <2> QED
    BY <2>2, <2>3, <2>4
<1>7. DOMAIN d = DOMAIN files /\ \A f \in DOMAIN files : Written(f) = {} => d[f] = disk[f]
  BY <1>2, <1>3
<1> HIDE DEF Written
<1>8. Held(d)
  <2>1. ASSUME NEW f \in DOMAIN files PROVE d[f] \in Seq(Int)
    BY <1>2, <1>6, <1>7 DEF Overwrites
  <2> QED
    BY <1>7, <2>1 DEF Held
<1>9. ASSUME NEW o \in Int, On(disk, o), o \notin Reach(b, n), NEW f \in DOMAIN files,
             Before(f) <= o, o < LengthUpTo(f)
      PROVE  o - Before(f) + 1 \in DOMAIN d[f] /\ d[f][o - Before(f) + 1] = o
  <2> DEFINE k == o - Before(f) + 1
  <2>1. k \in DOMAIN disk[f] /\ disk[f][k] = o
    BY <1>9 DEF On
  <2>2. CASE Written(f) = {}
    BY <1>7, <2>1, <2>2
  <2>3. CASE Written(f) # {}
    <3>1. PICK m \in 1..n : parts[m].file = f /\ Overwrites(d[f], disk[f], parts[m].begin, data)
      BY <1>6, <2>3
    <3> DEFINE begin == parts[m].begin
               before == Before(f)
               length == b.length
               old == disk[f]
               new == d[f]
    <3>2. begin \in Nat /\ before \in Nat /\ old \in Seq(Int) /\ LengthUpTo(f) \in Nat /\ length \in Nat
      BY <1>1, <1>2, <1>5, <3>1
    <3>3. o \notin (before + begin..before + begin + length - 1) \cap (before..LengthUpTo(f) - 1)
      BY <1>4, <1>9, <3>1
    <3>4. /\ new \in Seq(Int) /\ Len(new) >= Len(old)
          /\ \A j \in 1..Len(new) :
                 new[j] = IF j \in begin + 1..begin + length THEN data[j - begin]
                           ELSE IF j <= Len(old) THEN old[j] ELSE Zero
      BY <3>1 DEF Overwrites
    <3>5. k = o - before + 1 /\ before <= o /\ o < LengthUpTo(f)
      BY <1>9
    <3>6. k \in DOMAIN old /\ old[k] = o
      BY <2>1
    <3> HIDE DEF begin, before, length, old, new, k
    <3>7. o \notin before + begin..before + begin + length - 1
      BY <3>2, <3>3, <3>5
    <3>8. k \in Int /\ k \notin begin + 1..begin + length
      BY <3>2, <3>5, <3>7
    <3>9. k \in 1..Len(new) /\ k <= Len(old)
      <4>1. Len(old) \in Nat /\ DOMAIN old = 1..Len(old) /\ Len(new) \in Nat
        BY <3>2, <3>4
      <4>2. k \in 1..Len(old) /\ Len(old) <= Len(new)
        BY <3>4, <3>6, <4>1
      <4> QED
        BY <4>1, <4>2
    <3>10. new[k] = o /\ k \in DOMAIN new
      BY <3>4, <3>6, <3>8, <3>9
    <3> QED
      BY <3>10 DEF k, new
  <2> QED
    BY <2>2, <2>3
<1>10. ASSUME NEW o \in Int, On(disk, o), o \notin Reach(b, n) PROVE On(d, o)
  <2> HIDE DEF Before
  <2>1. \A f \in DOMAIN files : Before(f) <= o /\ o < LengthUpTo(f) =>
            o - Before(f) + 1 \in DOMAIN d[f] /\ d[f][o - Before(f) + 1] = o
    BY <1>9, <1>10
  <2> QED
    BY <2>1, Zenon DEF On, Before
<1> QED
  BY <1>8, <1>10

----------------------------------------------------------------------------
(* The inductive invariant of the disk, for a torrent no file of which ends   *)
(* inside a piece.                                                            *)

\* The byte at offset o is in its place, or was lost as ReadsBack says.
Kept(o) == o \in overwritten \cup emptied \/ On(disk, o)

\* The same after a step, told by the files as they are and stay.
KeptAfter(o) == o \in overwritten' \cup emptied' \/ On(disk', o)

\* The files hold bytes, and those of the pieces in bitfield and of the blocks
\* received are kept.
DiskInv ==
    /\ Sized
    /\ bitfield \subseteq Piece
    /\ Held(disk)
    /\ \A i \in bitfield : \A o \in 0..LengthOf(i) - 1 : Kept(i * PieceLength + o)
    /\ \A i \in Piece : \A o \in received[i] : Kept(i * PieceLength + o)

\* Every offset of the torrent lies in a piece.
LEMMA PieceOf ==
  ASSUME Sized, NEW o \in 0..TotalSize - 1
  PROVE  \E i \in Piece : o - i * PieceLength \in 0..LengthOf(i) - 1
<1> DEFINE T == TotalSize
           P == PieceLength
           N == NPieces
           q == o \div P
           a == (N - 1) * P
<1>1. P \in Nat \ {0} /\ T \in Nat \ {0} /\ N \in Nat \ {0} /\ Piece = 0..N - 1
      /\ a + LengthOf(N - 1) = T
      /\ \A i \in Piece \ {N - 1} : LengthOf(i) = P
  BY PieceLengthAssumption, PiecesAre
<1>2. N - 1 \in Piece /\ LengthOf(N - 1) \in 1..P
  <2>1. N - 1 \in Piece
    BY <1>1
  <2> QED
    BY <2>1, PiecesAre
<1> HIDE DEF T, P, N
<1>3. o \in Nat /\ o <= T - 1
  BY <1>1 DEF T
<1>4. q \in Nat /\ o % P \in 0..P - 1 /\ o = P * q + (o % P)
  BY <1>1, <1>3, Division
<1> HIDE DEF q
<1>5. o - q * P \in 0..P - 1
  BY <1>1, <1>4
<1>6. q <= N - 1
  <2> SUFFICES ASSUME N - 1 < q PROVE FALSE
    BY <1>1, <1>4
  <2>1. N \in Int /\ q \in Int /\ N <= q
    BY <1>1, <1>4
  <2>2. N * P <= q * P
    BY <1>1, <2>1, Mult
  <2>3. N * P = a + P
    BY <1>1
  <2>4. a \in Int /\ q * P \in Int
    BY <1>1, <1>4
  <2> HIDE DEF a
  <2> QED
    BY <1>1, <1>2, <1>3, <1>5, <2>2, <2>3, <2>4
<1>7. q \in Piece
  BY <1>1, <1>4, <1>6
<1>8. o - q * P \in 0..LengthOf(q) - 1
  <2>1. CASE q = N - 1
    <3>1. q * P = a /\ a \in Int
      BY <1>1, <2>1
    <3> HIDE DEF a
    <3> QED
      BY <1>1, <1>2, <1>3, <1>5, <2>1, <3>1
  <2>2. CASE q # N - 1
    BY <1>1, <1>5, <1>7, <2>2
  <2> QED
    BY <2>1, <2>2
<1> QED
  BY <1>7, <1>8 DEF P

\* The lengths and the pieces are those of the files, which no step changes.
LEMMA LayoutStays ==
  ASSUME UNCHANGED files
  PROVE  /\ \A f : LengthUpTo(f)' = LengthUpTo(f)
         /\ TotalSize' = TotalSize /\ NPieces' = NPieces /\ Piece' = Piece
         /\ \A i : LengthOf(i)' = LengthOf(i)
         /\ Aligned' <=> Aligned
         /\ Sized' <=> Sized
         /\ Held(disk)' <=> Held(disk')
         /\ \A o : Kept(o)' <=> KeptAfter(o)
<1>1. \A f : LengthUpTo(f)' = LengthUpTo(f)
  BY Zenon DEF LengthUpTo, FoldLeft, MapThenFoldSet
<1>2. TotalSize' = TotalSize
  BY Zenon DEF TotalSize, LengthUpTo, FoldLeft, MapThenFoldSet
<1>3. NPieces' = NPieces
  BY <1>2, Zenon DEF NPieces
<1>4. Piece' = Piece
  BY <1>3, Zenon DEF Piece
<1>5. \A i : LengthOf(i)' = LengthOf(i)
  BY <1>2, <1>3, Zenon DEF LengthOf, LastPieceLength
<1>6. Aligned' <=> Aligned
  BY <1>1, <1>2, Zenon DEF Aligned
<1>7. (Sized' <=> Sized) /\ (Held(disk)' <=> Held(disk'))
  BY <1>2, Zenon DEF Sized, Held
<1>8. \A o : Kept(o)' <=> KeptAfter(o)
  <2>1. \A o : On(disk, o)' <=> On(disk', o)
    BY <1>1, Zenon DEF On
  <2> QED
    BY <2>1, Zenon DEF Kept, KeptAfter
<1> QED
  BY <1>1, <1>2, <1>3, <1>4, <1>5, <1>6, <1>7, <1>8

\* DiskInv after a step, told by the files as they are and stay.
LEMMA DiskAfter ==
  ASSUME Sized, UNCHANGED files, bitfield' \subseteq Piece, Held(disk'),
         \A i \in bitfield' : \A o \in 0..LengthOf(i) - 1 : KeptAfter(i * PieceLength + o),
         \A i \in Piece : \A o \in received'[i] : KeptAfter(i * PieceLength + o)
  PROVE  DiskInv'
<1>1. /\ Piece' = Piece /\ Sized' /\ Held(disk)'
      /\ \A i : LengthOf(i)' = LengthOf(i)
      /\ \A o : Kept(o)' <=> KeptAfter(o)
  BY LayoutStays
<1>2. \A i \in bitfield' : \A o \in 0..LengthOf(i)' - 1 : Kept(i * PieceLength + o)'
  BY <1>1, Zenon
<1>3. \A i \in Piece' : \A o \in received'[i] : Kept(i * PieceLength + o)'
  BY <1>1, Zenon
<1> QED
  BY <1>1, <1>2, <1>3, Zenon DEF DiskInv

\* A step that marks nothing and loses no byte it does not remember.
LEMMA NothingMarked ==
  ASSUME DiskInv, MarkersInv, UNCHANGED <<files, bitfield, received>>, Held(disk'),
         \A o \in Int : Kept(o) => KeptAfter(o)
  PROVE  DiskInv'
<1>1. Sized /\ bitfield \subseteq Piece
  BY DEF DiskInv
<1>2. \A j \in Piece : j * PieceLength \in Int /\ LengthOf(j) \in Int
  BY <1>1, PieceLengthAssumption, PiecesAre
<1>3. ASSUME NEW j \in Piece PROVE received[j] \subseteq Int
  BY DEF MarkersInv, Covered
<1>4. ASSUME NEW j \in bitfield', NEW o \in 0..LengthOf(j) - 1 PROVE KeptAfter(j * PieceLength + o)
  <2>1. j \in Piece /\ Kept(j * PieceLength + o)
    BY DEF DiskInv
  <2>2. j * PieceLength + o \in Int
    BY <1>2, <2>1
  <2> QED
    BY <2>1, <2>2
<1>5. ASSUME NEW j \in Piece, NEW o \in received'[j] PROVE KeptAfter(j * PieceLength + o)
  <2>1. Kept(j * PieceLength + o)
    BY DEF DiskInv
  <2>2. j * PieceLength + o \in Int
    BY <1>2, <1>3
  <2> QED
    BY <2>1, <2>2
<1> QED
  BY <1>1, <1>4, <1>5, DiskAfter

\* A file of zeros.
LEMMA ZerosIs ==
  ASSUME NEW n \in Nat
  PROVE  Zeros(n) \in Seq(Int) /\ Len(Zeros(n)) = n
  BY DEF Zeros, Zero

\* What a user supplies are files.
LEMMA SuppliedIs ==
  ASSUME Sized, NEW d \in Supplied
  PROVE  Held(d)
<1>1. \A f \in DOMAIN files : files[f] \in Nat /\ LengthUpTo(f - 1) \in Nat
  <2>1. \A f \in DOMAIN files : f - 1 \in 0..Len(files) /\ files[f] \in Nat
    BY DEF Sized
  <2> QED
    BY <2>1, Lengths DEF Sized
<1>2. ASSUME NEW f \in DOMAIN files
      PROVE  /\ Whole(f) \in Seq(Int) /\ Len(Whole(f)) = files[f]
             /\ \A k \in 1..files[f] : Whole(f)[k] = LengthUpTo(f - 1) + k - 1
  <2>1. Whole(f) = [k \in 1..files[f] |-> LengthUpTo(f - 1) + k - 1]
    BY DEF Whole
  <2>2. \A k \in 1..files[f] : LengthUpTo(f - 1) + k - 1 \in Int
    BY <1>1
  <2> QED
    BY <1>1, <2>1, <2>2
<1>3. CASE d = [f \in DOMAIN files |-> Whole(f)]
  BY <1>2, <1>3 DEF Held
<1>4. CASE d = [f \in DOMAIN files |-> Append(Whole(f), Zero)]
  <2>1. Zero \in Int
    BY DEF Zero
  <2>2. \A f \in DOMAIN files : Append(Whole(f), Zero) \in Seq(Int)
    BY <1>2, <2>1, AppendProperties
  <2> QED
    BY <1>4, <2>2 DEF Held
<1>5. ASSUME NEW g \in DOMAIN files,
             d = [f \in DOMAIN files |-> IF f = g THEN Zeros(0) ELSE Whole(f)]
      PROVE  Held(d)
  <2>1. Zeros(0) \in Seq(Int)
    BY ZerosIs
  <2> QED
    BY <1>2, <1>5, <2>1 DEF Held
<1>6. ASSUME NEW o \in 0..TotalSize - 1,
             d = [f \in DOMAIN files |-> [k \in 1..files[f] |->
                     IF LengthUpTo(f - 1) + k - 1 = o THEN Zero ELSE Whole(f)[k]]]
      PROVE  Held(d)
  <2>1. ASSUME NEW f \in DOMAIN files PROVE d[f] \in Seq(Int)
    <3>1. d[f] = [k \in 1..files[f] |-> IF LengthUpTo(f - 1) + k - 1 = o THEN Zero ELSE Whole(f)[k]]
      BY <1>6
    <3>2. \A k \in 1..files[f] : Whole(f)[k] \in Int
      BY <1>1, <1>2
    <3>3. \A k \in 1..files[f] :
             (IF LengthUpTo(f - 1) + k - 1 = o THEN Zero ELSE Whole(f)[k]) \in Int
      BY <3>2 DEF Zero
    <3>4. files[f] \in Nat
      BY <1>1
    <3> QED
      BY <3>1, <3>3, <3>4
  <2> QED
    BY <1>6, <2>1 DEF Held
<1> QED
  BY <1>3, <1>4, <1>5, <1>6, Zenon DEF Supplied

\* A new torrent: of one that is downloaded already, verify_files has read every
\* piece back.
LEMMA DiskInit ==
  ASSUME Init, Aligned
  PROVE  DiskInv
<1>1. Sized
  <2>1. files \in Seq(Nat) /\ TotalSize > 0
    BY LayoutsAssumption DEF Init
  <2> QED
    BY <2>1 DEF Sized
<1>2. received = [i \in Piece |-> {}]
  BY DEF Init
<1>4. \A i \in Piece : \A o \in received[i] : Kept(i * PieceLength + o)
  BY <1>2, Zenon
<1>5. CASE bitfield = {} /\ disk = [f \in DOMAIN files |-> Zeros(files[f])]
  <2>1. \A f \in DOMAIN files : files[f] \in Nat
    BY <1>1 DEF Sized
  <2>2. \A f \in DOMAIN files : disk[f] \in Seq(Int)
    BY <1>5, <2>1, ZerosIs
  <2>3. Held(disk)
    BY <1>5, <2>2 DEF Held
  <2> QED
    BY <1>1, <1>4, <1>5, <2>3 DEF DiskInv
<1>6. CASE bitfield = Piece /\ disk \in Supplied /\ VerifyFiles
  <2>1. Held(disk)
    BY <1>1, <1>6, SuppliedIs
  <2>2. ASSUME NEW i \in Piece, NEW o \in 0..LengthOf(i) - 1
        PROVE  On(disk, i * PieceLength + o)
    <3> DEFINE b == DefaultPiece(i)
    <3>1. b \in Blocks /\ b.index = i /\ b.length = LengthOf(i) /\ FileIndex(b) = i * PieceLength
      BY <1>1, DefaultIs
    <3>2. ReadBlockRaw(b) = Data(b)
      <4>1. ValidPiece(b, ReadBlockRaw(b))
        BY <1>6 DEF VerifyFiles
      <4> HIDE DEF b
      <4>2. ReadBlockRaw(b) = Data(DefaultPiece(b.index))
        BY <4>1 DEF ValidPiece
      <4> QED
        BY <3>1, <4>2 DEF b
    <3> HIDE DEF b
    <3>3. \A x \in FileIndex(b)..FileIndex(b) + b.length - 1 : On(disk, x)
      BY <1>1, <2>1, <3>1, <3>2, IsOnWhatReads
    <3>4. i * PieceLength \in Nat /\ LengthOf(i) \in Int
      BY <1>1, PieceLengthAssumption, PiecesAre
    <3>5. i * PieceLength + o \in FileIndex(b)..FileIndex(b) + b.length - 1
      BY <3>1, <3>4
    <3> QED
      BY <3>3, <3>5
  <2>3. \A i \in bitfield : \A o \in 0..LengthOf(i) - 1 : Kept(i * PieceLength + o)
    BY <1>6, <2>2 DEF Kept
  <2> QED
    BY <1>1, <1>4, <1>6, <2>1, <2>3 DEF DiskInv
<1> QED
  BY <1>5, <1>6 DEF Init

----------------------------------------------------------------------------

\* A block that is marked has its bytes kept by the write it is marked after, which
\* loses no byte it does not remember.
LEMMA BlockMarked ==
  ASSUME DiskInv, MarkersInv, UNCHANGED files, Held(disk'),
         NEW b, b.index \in Piece, b.begin \in Nat, b.length \in Nat \ {0},
         FileIndex(b) = b.index * PieceLength + b.begin,
         InsertPiece(b),
         \A o \in Int : Kept(o) => KeptAfter(o),
         \A o \in Offsets(b) : KeptAfter(o)
  PROVE  DiskInv'
<1> DEFINE i == b.index
           a == i * PieceLength
           new == b.begin..b.begin + b.length - 1
<1>1. Sized /\ bitfield \subseteq Piece
  BY DEF DiskInv
<1>2. \A j \in Piece : j * PieceLength \in Int /\ LengthOf(j) \in Int
  BY <1>1, PieceLengthAssumption, PiecesAre
<1>3. DOMAIN received = Piece /\ \A j \in Piece : received[j] \subseteq Int
  <2>1. ASSUME NEW j \in Piece PROVE received[j] \subseteq Int
    BY DEF MarkersInv, Covered
  <2> QED
    BY <2>1 DEF MarkersInv
<1>4. ASSUME NEW j \in bitfield, NEW o \in 0..LengthOf(j) - 1 PROVE KeptAfter(j * PieceLength + o)
  <2>1. j \in Piece /\ Kept(j * PieceLength + o)
    BY DEF DiskInv
  <2>2. j * PieceLength + o \in Int
    BY <1>2, <2>1
  <2> QED
    BY <2>1, <2>2
<1>5. ASSUME NEW j \in Piece, NEW o \in received[j] PROVE KeptAfter(j * PieceLength + o)
  <2>1. Kept(j * PieceLength + o)
    BY DEF DiskInv
  <2>2. j * PieceLength + o \in Int
    BY <1>2, <1>3
  <2> QED
    BY <2>1, <2>2
<1>6. ASSUME NEW o \in new PROVE KeptAfter(a + o)
  <2>1. a \in Int /\ b.begin \in Int /\ b.length \in Int /\ FileIndex(b) = a + b.begin
    BY <1>2
  <2>2. a + o \in FileIndex(b)..FileIndex(b) + b.length - 1
    BY <2>1
  <2> QED
    BY <2>2 DEF Offsets
<1> HIDE DEF new
<1>7. CASE b = DefaultPiece(i)
  <2>1. bitfield' = bitfield \cup {i} /\ received' = [received EXCEPT ![i] = {}]
    BY <1>7 DEF InsertPiece, InsertWhole
  <2>2. b.begin = 0 /\ b.length = LengthOf(i)
    BY <1>7 DEF DefaultPiece
  <2>3. new = 0..LengthOf(i) - 1
    BY <2>2 DEF new
  <2>4. bitfield' \subseteq Piece
    BY <1>1, <2>1
  <2>5. \A j \in bitfield' : \A o \in 0..LengthOf(j) - 1 : KeptAfter(j * PieceLength + o)
    BY <1>4, <1>6, <2>1, <2>3
  <2>6. \A j \in Piece : received'[j] = {} \/ received'[j] = received[j]
    BY <1>3, <2>1
  <2>7. \A j \in Piece : \A o \in received'[j] : KeptAfter(j * PieceLength + o)
    BY <1>5, <2>6
  <2> QED
    BY <1>1, <2>4, <2>5, <2>7, DiskAfter
<1>8. CASE b # DefaultPiece(i)
  <2>1. InsertPart(i, b.begin, b.begin + b.length)
    BY <1>8 DEF InsertPiece
  <2> DEFINE end == b.begin + b.length
  <2>2. new = b.begin..end - 1
    BY DEF new
  <2> HIDE DEF end
  <2>3. bitfield' = bitfield /\ received' = [received EXCEPT ![i] = @ \cup b.begin..end - 1]
    BY <2>1, Zenon DEF InsertPart, end
  <2>4. bitfield' \subseteq Piece
    BY <1>1, <2>3
  <2>5. \A j \in bitfield' : \A o \in 0..LengthOf(j) - 1 : KeptAfter(j * PieceLength + o)
    BY <1>4, <2>3
  <2> HIDE DEF i
  <2>6. \A j \in Piece : \A o \in received'[j] : o \in received[j] \/ (j = i /\ o \in new)
    BY <1>3, <2>2, <2>3
  <2>7. \A j \in Piece : \A o \in received'[j] : KeptAfter(j * PieceLength + o)
    BY <1>5, <1>6, <2>6
  <2> QED
    BY <1>1, <2>4, <2>5, <2>7, DiskAfter
<1> QED
  BY <1>7, <1>8

\* What write_block_raw does to a block that lies within the torrent, whether it
\* is where it belongs or not.
LEMMA WriteIs ==
  ASSUME DiskInv, MarkersInv, UNCHANGED files,
         NEW b, b.index \in Piece, b.begin \in Nat, b.length \in Nat \ {0},
         FileIndex(b) = b.index * PieceLength + b.begin,
         NEW data, WriteBlockRaw(b, data),
         ASSUME NEW n \in 0..Len(MapFiles(b)),
                disk' = AfterWrites(b, data, n), Remember(b, data, n)
         PROVE  /\ Held(disk') /\ \A o \in Int : Kept(o) => KeptAfter(o)
                /\ n = Len(MapFiles(b)) => \A o \in Offsets(b) : KeptAfter(o)
  PROVE  DiskInv'
<1>1. PICK n \in 0..Len(MapFiles(b)) :
          /\ disk' = AfterWrites(b, data, n) /\ Remember(b, data, n)
          /\ IF n = Len(MapFiles(b)) THEN InsertPiece(b) ELSE UNCHANGED ownVars
  BY Zenon DEF WriteBlockRaw
<1>2. /\ Held(disk') /\ \A o \in Int : Kept(o) => KeptAfter(o)
      /\ n = Len(MapFiles(b)) => \A o \in Offsets(b) : KeptAfter(o)
  BY <1>1
<1>3. CASE n = Len(MapFiles(b))
  BY <1>1, <1>2, <1>3, BlockMarked
<1>4. CASE n # Len(MapFiles(b))
  <2>1. UNCHANGED <<bitfield, received>>
    BY <1>1, <1>4 DEF ownVars
  <2> QED
    BY <1>2, <2>1, NothingMarked
<1> QED
  BY <1>3, <1>4

\* A block written where it belongs has its bytes in their places before it is
\* marked; one that fails takes none out of its place.
LEMMA ProperWrite ==
  ASSUME DiskInv, MarkersInv, Aligned, UNCHANGED files,
         NEW b \in Blocks, WriteBlockRaw(b, Data(b))
  PROVE  DiskInv'
<1>1. Sized /\ Held(disk)
  BY DEF DiskInv
<1>2. /\ b.index \in Piece /\ b.begin \in Nat /\ b.length \in Nat \ {0}
      /\ FileIndex(b) = b.index * PieceLength + b.begin
  BY <1>1, BlockIs
<1>3. ASSUME NEW n \in 0..Len(MapFiles(b)),
             disk' = AfterWrites(b, Data(b), n), Remember(b, Data(b), n)
      PROVE  /\ Held(disk') /\ \A o \in Int : Kept(o) => KeptAfter(o)
             /\ n = Len(MapFiles(b)) => \A o \in Offsets(b) : KeptAfter(o)
  <2>1. /\ Held(disk')
        /\ \A o \in Int : On(disk, o) => On(disk', o)
        /\ n = Len(MapFiles(b)) => \A o \in Offsets(b) : On(disk', o)
    BY <1>1, <1>3, WritesKeep DEF Offsets
  <2> DEFINE back == IF n = Len(MapFiles(b)) THEN Offsets(b) ELSE {}
  <2>2. overwritten' = overwritten \ back /\ emptied' = emptied \ back
    BY <1>3 DEF Remember
  <2>3. \A o \in back : On(disk', o)
    BY <2>1
  <2> HIDE DEF back
  <2>4. ASSUME NEW o \in Int, Kept(o) PROVE KeptAfter(o)
    BY <2>1, <2>2, <2>3, <2>4 DEF Kept, KeptAfter
  <2>5. n = Len(MapFiles(b)) => \A o \in Offsets(b) : KeptAfter(o)
    BY <2>1 DEF KeptAfter
  <2> QED
    BY <2>1, <2>4, <2>5
<1> QED
  BY <1>2, <1>3, WriteIs

\* A whole piece written where another offset was given: it is remembered what it
\* goes over, and nothing else is lost.
LEMMA ShiftedWrite ==
  ASSUME DiskInv, MarkersInv, UNCHANGED files,
         NEW i \in Piece, NEW begin \in 0..TotalSize, begin # 0,
         FileIndex(Shifted(i, begin)) + Shifted(i, begin).length <= TotalSize,
         WriteBlockRaw(Shifted(i, begin), Data(DefaultPiece(i)))
  PROVE  DiskInv'
<1> DEFINE b == Shifted(i, begin)
           data == Data(DefaultPiece(i))
<1>1. Sized /\ Held(disk)
  BY DEF DiskInv
<1>2. /\ b.index = i /\ b.begin = begin /\ b.length = LengthOf(i)
      /\ begin \in Nat /\ b.length \in Nat \ {0}
      /\ i * PieceLength \in Nat /\ FileIndex(b) = i * PieceLength + begin
  BY <1>1, ShiftedIs
<1>3. /\ data \in Seq(Int) /\ Len(data) = b.length
      /\ \A k \in 1..b.length : data[k] = i * PieceLength + k - 1
  <2> DEFINE p == DefaultPiece(i)
  <2>1. p \in Blocks /\ p.length = LengthOf(i) /\ FileIndex(p) = i * PieceLength
    BY <1>1, DefaultIs
  <2> HIDE DEF p, b
  <2>2. /\ Data(p) \in Seq(Int) /\ Len(Data(p)) = p.length
        /\ \A k \in 1..p.length : Data(p)[k] = FileIndex(p) + k - 1
    BY <1>1, <2>1, DataIs
  <2> QED
    BY <1>2, <2>1, <2>2 DEF p
<1>4. b.begin \in Nat /\ b.index \in Piece /\ FileIndex(b) = b.index * PieceLength + b.begin
      /\ FileIndex(b) \in Nat /\ FileIndex(b) + b.length <= TotalSize
      /\ WriteBlockRaw(b, data)
  BY <1>2
<1> HIDE DEF b, data
<1>5. data # Data(b)
  <2>1. Data(b) = [k \in 1..b.length |-> FileIndex(b) + k - 1] /\ 1 \in 1..b.length
    BY <1>2 DEF Data
  <2>2. Data(b)[1] = FileIndex(b) + 1 - 1
    BY <2>1
  <2>3. data[1] = i * PieceLength + 1 - 1
    BY <1>3, <2>1
  <2>4. begin # 0
    OBVIOUS
  <2> QED
    BY <1>2, <2>2, <2>3, <2>4
<1>6. ASSUME NEW n \in 0..Len(MapFiles(b)),
             disk' = AfterWrites(b, data, n), Remember(b, data, n)
      PROVE  /\ Held(disk') /\ \A o \in Int : Kept(o) => KeptAfter(o)
             /\ n = Len(MapFiles(b)) => \A o \in Offsets(b) : KeptAfter(o)
  <2>1. Held(disk') /\ \A o \in Int : On(disk, o) /\ o \notin Reach(b, n) => On(disk', o)
    BY <1>1, <1>2, <1>3, <1>4, <1>6, UnreachedStays
  <2>2. overwritten' = overwritten \cup Reach(b, n) /\ emptied' = emptied
    BY <1>5, <1>6 DEF Remember
  <2>3. ASSUME NEW o \in Int, Kept(o) PROVE KeptAfter(o)
    BY <2>1, <2>2, <2>3 DEF Kept, KeptAfter
  <2>4. Offsets(b) \subseteq Reach(b, Len(MapFiles(b)))
    BY <1>1, <1>2, <1>4, StretchesAre
  <2>5. n = Len(MapFiles(b)) => \A o \in Offsets(b) : KeptAfter(o)
    BY <2>2, <2>4 DEF KeptAfter
  <2> QED
    BY <2>1, <2>3, <2>5
<1> QED
  BY <1>2, <1>4, <1>6, WriteIs

\* A file created again loses its own bytes alone, and they are remembered.
LEMMA CreateInv ==
  ASSUME DiskInv, MarkersInv, CreateFile
  PROVE  DiskInv'
<1>1. Sized /\ Held(disk)
  BY DEF DiskInv
<1>2. /\ adding \in DOMAIN files /\ UNCHANGED <<files, bitfield, received, overwritten>>
      /\ \/ /\ \/ disk' = [disk EXCEPT ![adding] = Zeros(files[adding])]
               \/ disk' = [disk EXCEPT ![adding] = Zeros(0)]
            /\ emptied' = emptied \cup OffsetsIn(adding)
         \/ UNCHANGED <<disk, emptied>>
  BY DEF CreateFile, ownVars
<1>3. CASE UNCHANGED <<disk, emptied>>
  <2>1. \A o \in Int : Kept(o) => KeptAfter(o)
    BY <1>2, <1>3 DEF Kept, KeptAfter
  <2>2. Held(disk')
    BY <1>1, <1>3
  <2> QED
    BY <1>2, <2>1, <2>2, NothingMarked
<1>4. ASSUME NEW z \in Seq(Int), disk' = [disk EXCEPT ![adding] = z],
             emptied' = emptied \cup OffsetsIn(adding)
      PROVE  DiskInv'
  <2>1. /\ DOMAIN disk' = DOMAIN files
        /\ \A f \in DOMAIN files : disk'[f] \in Seq(Int) /\ (f # adding => disk'[f] = disk[f])
    BY <1>1, <1>2, <1>4 DEF Held
  <2>2. Held(disk')
    BY <2>1 DEF Held
  <2>3. LengthUpTo(adding - 1) \in Nat /\ LengthUpTo(adding) \in Nat
    <3>1. adding - 1 \in 0..Len(files) /\ adding \in 0..Len(files)
      BY <1>1, <1>2 DEF Sized
    <3> QED
      BY <1>1, <3>1, Lengths DEF Sized
  <2>4. ASSUME NEW o \in Int, On(disk, o), o \notin OffsetsIn(adding) PROVE On(disk', o)
    <3>1. ~(LengthUpTo(adding - 1) <= o /\ o < LengthUpTo(adding))
      BY <2>3, <2>4 DEF OffsetsIn
    <3> QED
      BY <2>1, <2>4, <3>1 DEF On
  <2>5. \A o \in Int : Kept(o) => KeptAfter(o)
    BY <1>2, <1>4, <2>4 DEF Kept, KeptAfter
  <2> QED
    BY <1>2, <2>2, <2>5, NothingMarked
<1>5. Zeros(files[adding]) \in Seq(Int) /\ Zeros(0) \in Seq(Int)
  <2>1. files[adding] \in Nat
    BY <1>1, <1>2 DEF Sized
  <2> QED
    BY <2>1, ZerosIs
<1> QED
  BY <1>2, <1>3, <1>4, <1>5

\* insert_torrent has nothing to keep.
LEMMA InsertInv ==
  ASSUME DiskInv, InsertTorrent
  PROVE  DiskInv'
<1>1. Sized /\ Held(disk)
  BY DEF DiskInv
<1>2. bitfield' = {} /\ received' = [i \in Piece |-> {}] /\ UNCHANGED <<files, disk>>
  BY DEF InsertTorrent
<1>3. Held(disk')
  BY <1>1, <1>2
<1>4. \A i \in bitfield' : \A o \in 0..LengthOf(i) - 1 : KeptAfter(i * PieceLength + o)
  BY <1>2
<1>5. \A i \in Piece : \A o \in received'[i] : KeptAfter(i * PieceLength + o)
  BY <1>2, Zenon
<1>6. bitfield' \subseteq Piece /\ UNCHANGED files
  BY <1>2
<1> QED
  BY <1>1, <1>3, <1>4, <1>5, <1>6, DiskAfter

\* Every step of the torrent keeps the disk in order.
LEMMA DiskNext ==
  ASSUME DiskInv, MarkersInv, Aligned, [Next]_vars
  PROVE  DiskInv'
<1>1. Sized /\ Held(disk)
  BY DEF DiskInv
<1>2. ASSUME UNCHANGED <<files, disk, bitfield, received, lostVars>> PROVE DiskInv'
  <2>1. \A o \in Int : Kept(o) => KeptAfter(o)
    BY <1>2 DEF Kept, KeptAfter, lostVars
  <2>2. Held(disk')
    BY <1>1, <1>2
  <2> QED
    BY <1>2, <2>1, <2>2, NothingMarked
<1>3. ASSUME NEW i \in Piece, NEW begin \in 0..TotalSize, NEW data, WriteBlock(i, begin, data)
      PROVE  DiskInv'
  <2> DEFINE b == Shifted(i, begin)
  <2>1. /\ UNCHANGED files /\ ValidPiece(b, data)
        /\ \/ UNCHANGED <<disk, ownVars, lostVars>>
           \/ ~(FileIndex(b) + b.length > TotalSize) /\ WriteBlockRaw(b, data)
    BY <1>3 DEF WriteBlock, Shifted
  <2>2. /\ b.index = i /\ FileIndex(b) \in Int /\ b.length \in Int
        /\ (begin = 0 => b = DefaultPiece(i))
    BY <1>1, ShiftedIs
  <2>3. data = Data(DefaultPiece(i))
    BY <2>1, <2>2 DEF ValidPiece
  <2>4. CASE UNCHANGED <<disk, ownVars, lostVars>>
    BY <1>2, <2>1, <2>4 DEF ownVars
  <2>5. CASE begin = 0 /\ WriteBlockRaw(b, data)
    <3>1. DefaultPiece(i) \in Blocks
      BY <1>1, DefaultIs
    <3>2. WriteBlockRaw(DefaultPiece(i), Data(DefaultPiece(i)))
      BY <2>2, <2>3, <2>5
    <3> QED
      BY <2>1, <3>1, <3>2, ProperWrite
  <2>6. CASE begin # 0 /\ ~(FileIndex(b) + b.length > TotalSize) /\ WriteBlockRaw(b, data)
    <3>1. TotalSize \in Int
      BY <1>1, PiecesAre
    <3>2. FileIndex(b) + b.length <= TotalSize /\ WriteBlockRaw(b, Data(DefaultPiece(i)))
      BY <2>2, <2>3, <2>6, <3>1
    <3> QED
      BY <2>1, <2>6, <3>2, ShiftedWrite
  <2> QED
    BY <2>1, <2>4, <2>5, <2>6
<1>4. ASSUME NEW b \in Blocks, WritePart(b) PROVE DiskInv'
  <2>1. WriteBlockRaw(b, Data(b)) /\ UNCHANGED files
    BY <1>4 DEF WritePart
  <2> QED
    BY <2>1, ProperWrite
<1>5. CASE AddAgain
  BY <1>2, <1>5 DEF AddAgain, ownVars
<1>6. CASE CreateFile
  BY <1>6, CreateInv
<1>7. CASE InsertTorrent
  BY <1>7, InsertInv
<1>8. CASE UNCHANGED vars
  BY <1>2, <1>8 DEF vars, lostVars
<1> QED
  BY <1>3, <1>4, <1>5, <1>6, <1>7, <1>8 DEF Next

\* The disk agrees with what the torrent says of it, but for the bytes a piece out
\* of place or a file created again took, for every layout in which no file ends
\* inside a piece, whatever writes fail and whenever it is added again.
THEOREM DiskCorrect == Spec => [](Aligned => DiskInv)
<1>1. Init => (Aligned => DiskInv)
  BY DiskInit
<1>2. MarkersInv /\ (Aligned => DiskInv) /\ [Next]_vars => (Aligned => DiskInv)'
  <2> SUFFICES ASSUME MarkersInv, Aligned => DiskInv, [Next]_vars PROVE (Aligned => DiskInv)'
    OBVIOUS
  <2>1. Aligned' <=> Aligned
    BY FilesStay, LayoutStays
  <2> QED
    BY <2>1, DiskNext
<1> QED
  BY <1>1, <1>2, MarkersCorrect, PTL DEF Spec

\* What read_block hands to a peer is the torrent's data, in every layout in which
\* no file ends inside a piece, if none of its bytes was lost to a piece out of
\* place or a file created again.
THEOREM ReadsBackAligned == Spec => [](Aligned => ReadsBack)
<1>1. HaveBlockExact /\ (Aligned => DiskInv) => (Aligned => ReadsBack)
  <2> SUFFICES ASSUME HaveBlockExact, Aligned, DiskInv, NEW b \in Blocks, MayRead(b),
                      Offsets(b) \cap (overwritten \cup emptied) = {}
               PROVE  ReadBlockRaw(b) = Data(b)
    BY Zenon DEF ReadsBack
  <2> DEFINE i == b.index
             a == i * PieceLength
  <2>1. Sized /\ Held(disk)
    BY DEF DiskInv
  <2>2. /\ i \in Piece /\ b.begin \in Nat /\ b.length \in Nat \ {0}
        /\ FileIndex(b) = a + b.begin /\ b.begin + b.length <= LengthOf(i)
    BY <2>1, BlockIs
  <2>3. a \in Nat /\ LengthOf(i) \in Int
    BY <2>1, <2>2, PieceLengthAssumption, PiecesAre
  <2>4. ASSUME NEW o \in b.begin..b.begin + b.length - 1 PROVE Kept(i * PieceLength + o)
    <3>1. CASE i \in bitfield
      <4>1. o \in 0..LengthOf(i) - 1
        BY <2>2, <2>3
      <4> QED
        BY <3>1, <4>1 DEF DiskInv
    <3>2. CASE HaveBlock(b)
      <4>1. o \in received[i]
        BY <3>2 DEF HaveBlockExact
      <4> QED
        BY <2>2, <4>1 DEF DiskInv
    <3> QED
      BY <3>1, <3>2 DEF MayRead
  <2> HIDE DEF i
  <2>5. ASSUME NEW x \in Offsets(b) PROVE On(disk, x)
    <3> DEFINE o == x - a
    <3>0. x \in FileIndex(b)..FileIndex(b) + b.length - 1
      BY DEF Offsets
    <3> HIDE DEF a
    <3>1. o \in b.begin..b.begin + b.length - 1 /\ a + o = x
      BY <2>2, <2>3, <3>0
    <3> HIDE DEF o
    <3>2. Kept(a + o)
      BY <2>4, <3>1 DEF a
    <3> QED
      BY <3>1, <3>2 DEF Kept
  <2> QED
    BY <2>1, <2>5, ReadsWhatIsOn
<1> QED
  BY <1>1, HaveBlockCorrect, DiskCorrect, PTL

\* downloaded() reaches the total only with every piece in bitfield.
LEMMA AllDownloaded ==
  ASSUME Sized, bitfield \subseteq Piece, TotalSize - Downloaded = 0
  PROVE  bitfield = Piece
<1> DEFINE N == NPieces
           P == PieceLength
           last == N - 1
           others == bitfield \ {last}
           c == Cardinality(others)
           a == last * P
<1>1. /\ N \in Nat \ {0} /\ P \in Nat \ {0} /\ Piece = 0..N - 1 /\ TotalSize \in Nat
      /\ a + LengthOf(last) = TotalSize
  BY PieceLengthAssumption, PiecesAre
<1>2. LengthOf(last) \in 1..P /\ LastPieceLength = LengthOf(last)
  <2>1. last \in Piece
    BY <1>1
  <2>2. LengthOf(last) \in 1..P
    BY <2>1, PiecesAre
  <2> QED
    BY <2>2 DEF LengthOf
<1>3. Downloaded = (IF last \in bitfield THEN LastPieceLength ELSE 0) + c * P
  BY Zenon DEF Downloaded
<1> HIDE DEF N, P
<1>4. last \in Nat /\ 0 \in Int /\ others \subseteq 0..last - 1 /\ Piece = 0..last
  BY <1>1
<1>5. IsFiniteSet(0..last - 1) /\ Cardinality(0..last - 1) = last
  <2>1. last - 1 \in Int
    BY <1>4
  <2>2. Cardinality(0..last - 1) = IF 0 > last - 1 THEN 0 ELSE last - 1 - 0 + 1
    BY <1>4, <2>1, FS_Interval
  <2>3. IsFiniteSet(0..last - 1)
    BY <1>4, <2>1, FS_Interval
  <2> QED
    BY <1>4, <2>2, <2>3
<1> HIDE DEF last, others
<1>6. IsFiniteSet(others) /\ c \in Nat /\ c <= last /\ (c = last => others = 0..last - 1)
  <2>1. IsFiniteSet(others) /\ c <= last /\ (c = last => others = 0..last - 1)
    <3>1. others \in SUBSET (0..last - 1)
      BY <1>4
    <3>2. /\ IsFiniteSet(others) /\ c <= Cardinality(0..last - 1)
          /\ Cardinality(0..last - 1) = c => 0..last - 1 = others
      BY <1>5, <3>1, FS_Subset, Zenon
    <3> QED
      BY <1>5, <3>2
  <2>2. c \in Nat
    BY <2>1, FS_CardinalityType
  <2> QED
    BY <2>1, <2>2
<1> HIDE DEF c
<1>7. c * P \in Nat /\ c * P <= a /\ a \in Nat
  BY <1>1, <1>4, <1>6, Mult
<1> HIDE DEF a
<1>8. last \in bitfield /\ c * P = a
  <2>1. Downloaded = TotalSize
    <3>1. Downloaded \in Int
      BY <1>2, <1>3, <1>7
    <3> QED
      BY <1>1, <3>1
  <2> QED
    BY <1>1, <1>2, <1>3, <1>7, <2>1
<1>9. c = last
  <2> SUFFICES ASSUME c < last PROVE FALSE
    BY <1>4, <1>6
  <2>1. c + 1 \in Int /\ last \in Int /\ c + 1 <= last
    BY <1>4, <1>6
  <2>2. (c + 1) * P <= last * P
    BY <1>1, <2>1, Mult
  <2>3. (c + 1) * P = c * P + P
    BY <1>1, <1>6
  <2> QED
    BY <1>1, <1>7, <1>8, <2>2, <2>3 DEF a
<1>10. ASSUME NEW i \in Piece PROVE i \in bitfield
  <2>1. CASE i = last
    BY <1>8, <2>1
  <2>2. CASE i # last
    <3>1. i \in 0..last - 1
      BY <1>4, <2>2
    <3> QED
      BY <1>6, <1>9, <3>1 DEF others
  <2> QED
    BY <2>1, <2>2
<1> QED
  BY <1>10

\* When remaining() is 0 every file holds its bytes, but for those lost, in every
\* layout in which no file ends inside a piece.
THEOREM FinishedAligned == Spec => [](Aligned => FinishedIsOnDisk)
<1>1. (Aligned => DiskInv) => (Aligned => FinishedIsOnDisk)
  <2> SUFFICES ASSUME DiskInv, TotalSize - Downloaded = 0,
                      NEW f \in DOMAIN files, NEW k \in 1..files[f],
                      LengthUpTo(f - 1) + k - 1 \notin overwritten \cup emptied
               PROVE  k <= Len(disk[f]) /\ disk[f][k] = LengthUpTo(f - 1) + k - 1
    BY Zenon DEF FinishedIsOnDisk
  <2> DEFINE before == LengthUpTo(f - 1)
             o == before + k - 1
             M == Len(files)
  <2>1. Sized /\ Held(disk) /\ bitfield \subseteq Piece
    BY DEF DiskInv
  <2>2. M \in Nat /\ f \in 1..M /\ f - 1 \in 0..M /\ f \in 0..M /\ M \in 0..M /\ files[f] \in Nat
        /\ f <= M
    BY <2>1 DEF Sized
  <2>3. before \in Nat /\ LengthUpTo(f) = before + files[f] /\ LengthUpTo(f) \in Nat
    BY <2>1, <2>2, Lengths DEF Sized
  <2>4. LengthUpTo(f) <= TotalSize /\ TotalSize \in Nat
    <3>1. LengthUpTo(f) <= LengthUpTo(M)
      BY <2>1, <2>2, LengthsGrow DEF Sized
    <3> QED
      BY <2>1, <3>1, PiecesAre DEF TotalSize
  <2>5. bitfield = Piece
    BY <2>1, AllDownloaded
  <2> HIDE DEF before, M
  <2>6. o \in 0..TotalSize - 1 /\ before <= o /\ o < LengthUpTo(f) /\ o - before + 1 = k
    BY <2>2, <2>3, <2>4
  <2>7. o \notin overwritten \cup emptied
    BY DEF before
  <2> HIDE DEF o
  <2>8. On(disk, o)
    <3>1. PICK i \in Piece : o - i * PieceLength \in 0..LengthOf(i) - 1
      BY <2>1, <2>6, PieceOf
    <3>2. Kept(i * PieceLength + (o - i * PieceLength))
      BY <2>5, <3>1 DEF DiskInv
    <3>3. i * PieceLength + (o - i * PieceLength) = o
      <4>1. i * PieceLength \in Nat /\ TotalSize \in Nat
        BY <2>1, PiecesAre
      <4> QED
        BY <2>6, <4>1
    <3> QED
      BY <2>7, <3>2, <3>3 DEF Kept
  <2>9. k \in DOMAIN disk[f] /\ disk[f][k] = o
    BY <2>6, <2>8 DEF On, before
  <2>10. disk[f] \in Seq(Int)
    BY <2>1 DEF Held
  <2>11. k <= Len(disk[f])
    BY <2>9, <2>10
  <2> QED
    BY <2>9, <2>11 DEF o, before
<1> QED
  BY <1>1, DiskCorrect, PTL
====
