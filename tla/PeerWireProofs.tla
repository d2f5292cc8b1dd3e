---- MODULE PeerWireProofs ----
(* Theorems about PeerWire: whatever messages are sent and however reads cut   *)
(* the bytes, what the encoders write is what the parsers read.                *)
EXTENDS PeerWire, FoldLemmas, SequenceTheorems, TLAPS

----------------------------------------------------------------------------
(* Numbers in bytes *)

\* Quotient and remainder.
LEMMA DivisionIs ==
  ASSUME NEW n \in Nat, NEW d \in Nat \ {0}
  PROVE  /\ n \div d \in Nat /\ n % d \in 0..d - 1
         /\ n = (n \div d) * d + (n % d)
  OBVIOUS

\* A quotient and remainder that fit are the only ones.
LEMMA QuotientIs ==
  ASSUME NEW n \in Nat, NEW d \in Nat \ {0}, NEW q \in Nat, NEW r \in 0..d - 1, n = q * d + r
  PROVE  n \div d = q /\ n % d = r
<1> DEFINE a == n \div d
           b == n % d
<1>1. a \in Nat /\ b \in 0..d - 1 /\ n = a * d + b
  BY DivisionIs
<1> HIDE DEF a, b
<1>2. ~(a < q)
  <2> SUFFICES ASSUME a < q PROVE FALSE
    OBVIOUS
  <2>1. a + 1 <= q
    BY <1>1
  <2>2. (a + 1) * d <= q * d
    BY <1>1, <2>1
  <2>3. (a + 1) * d = a * d + d
    BY <1>1
  <2> DEFINE x == a * d
             y == q * d
  <2>4. x \in Nat /\ y \in Nat
    BY <1>1
  <2>5. x + d <= y /\ x + b = y + r
    BY <1>1, <2>2, <2>3
  <2> HIDE DEF x, y
  <2> QED
    BY <1>1, <2>4, <2>5
<1>3. ~(q < a)
  <2> SUFFICES ASSUME q < a PROVE FALSE
    OBVIOUS
  <2>1. q + 1 <= a
    BY <1>1
  <2>2. (q + 1) * d <= a * d
    BY <1>1, <2>1
  <2>3. (q + 1) * d = q * d + d
    BY <1>1
  <2> DEFINE x == a * d
             y == q * d
  <2>4. x \in Nat /\ y \in Nat
    BY <1>1
  <2>5. y + d <= x /\ x + b = y + r
    BY <1>1, <2>2, <2>3
  <2> HIDE DEF x, y
  <2> QED
    BY <1>1, <2>4, <2>5
<1>4. a = q
  BY <1>1, <1>2, <1>3
<1>5. b = r
  BY <1>1, <1>4
<1> QED
  BY <1>4, <1>5 DEF a, b

\* Power is two to the power of n.
LEMMA PowerIs ==
  /\ Power \in [0..ByteBits -> Nat \ {0}] /\ Power[0] = 1
  /\ \A n \in 1..ByteBits : Power[n] = 2 * Power[n - 1]
<1> DEFINE D == Nat \ {0}
           step == [n \in 1..ByteBits |-> [x \in D |-> 2 * x]]
           Body(f) == [n \in 0..ByteBits |-> IF n = 0 THEN 1 ELSE 2 * f[n - 1]]
<1>1. ByteBits \in Nat /\ 1 \in D /\ step \in [1..ByteBits -> [D -> D]]
  BY WireAssumption
<1>2. PICK g : Partial(g, D, 1, step, ByteBits)
  <2> HIDE DEF D, step
  <2> QED
    BY <1>1, PartialExists
<1>3. g \in [0..ByteBits -> D] /\ g[0] = 1
  BY <1>2 DEF Partial
<1>4. \A n \in 1..ByteBits : g[n] = 2 * g[n - 1]
  <2> TAKE n \in 1..ByteBits
  <2>1. g[n] = step[n][g[n - 1]] /\ g[n - 1] \in D
    <3>1. n - 1 \in 0..ByteBits
      BY <1>1
    <3> QED
      BY <1>2, <1>3, <3>1 DEF Partial
  <2> QED
    BY <2>1
<1> HIDE DEF D, step
<1>5. \A n \in 0..ByteBits : n # 0 => n \in 1..ByteBits
  BY <1>1
<1>6. g = Body(g)
  BY <1>3, <1>4, <1>5
<1>7. Power = CHOOSE f : f = Body(f)
  BY Zenon DEF Power
<1>8. Power = Body(Power)
  <2> HIDE DEF Body
  <2> QED
    BY <1>6, <1>7, Zenon
<1>9. 0 \in 0..ByteBits
  BY <1>1
<1>10. Power[0] = 1 /\ \A n \in 1..ByteBits : Power[n] = 2 * Power[n - 1]
  <2>1. \A n \in 0..ByteBits : Power[n] = IF n = 0 THEN 1 ELSE 2 * Power[n - 1]
    BY <1>8, Zenon
  <2>2. \A n \in 1..ByteBits : n \in 0..ByteBits /\ n # 0
    BY <1>1
  <2> QED
    BY <1>9, <2>1, <2>2
<1>11. \A n \in 0..ByteBits : Power[n] \in D
  <2> DEFINE S == {n \in 0..ByteBits : Power[n] \in D}
  <2>1. 0 \in S
    BY <1>1, <1>9, <1>10
  <2>2. ASSUME NEW n \in 0..ByteBits - 1, n \in S PROVE n + 1 \in S
    <3>1. n + 1 \in 1..ByteBits /\ n + 1 \in 0..ByteBits /\ (n + 1) - 1 = n
      BY <1>1
    <3>2. Power[n + 1] = 2 * Power[n]
      BY <1>10, <3>1
    <3> QED
      BY <2>2, <3>1, <3>2 DEF D
  <2> HIDE DEF S
  <2>3. \A n \in 0..ByteBits - 1 : n \in S => n + 1 \in S
    BY <2>2
  <2> QED
    BY <1>1, <2>1, <2>3, Counting DEF S
<1>12. Power = [n \in 0..ByteBits |-> Power[n]]
  BY <1>8
<1> QED
  BY <1>10, <1>11, <1>12 DEF D

\* A byte has at least the values that name a message.
LEMMA BaseIs == Base \in Nat \ {0}
BY PowerIs, WireAssumption DEF Base

\* A u32 is read as it was written.
LEMMA U32Is ==
  ASSUME NEW n \in U32s
  PROVE  /\ U32(n) \in Seq(Nat) /\ Len(U32(n)) = 4
         /\ \A s : s \in Seq(Nat) /\ (\A k \in 1..4 : s[k] = U32(n)[k]) => ReadU32(s) = n
<1> DEFINE B == Base
           n1 == n \div B
           n2 == n1 \div B
           n3 == n2 \div B
<1>1. B \in Nat \ {0} /\ n \in Nat /\ n < B * B * B * B
  BY BaseIs DEF U32s
<1>2. U32(n) = <<n3 % B, n2 % B, n1 % B, n % B>>
  BY DEF U32
<1> HIDE DEF B
<1>3. n1 \in Nat /\ n % B \in 0..B - 1 /\ n = n1 * B + (n % B)
  BY <1>1, DivisionIs
<1> HIDE DEF n1
<1>4. n2 \in Nat /\ n1 % B \in 0..B - 1 /\ n1 = n2 * B + (n1 % B)
  BY <1>1, <1>3, DivisionIs
<1> HIDE DEF n2
<1>5. n3 \in Nat /\ n2 % B \in 0..B - 1 /\ n2 = n3 * B + (n2 % B)
  BY <1>1, <1>4, DivisionIs
<1> HIDE DEF n3
<1>6. n3 < B
  <2> DEFINE C == B * B * B
  <2>1. n3 * B <= n2 /\ n2 * B <= n1 /\ n1 * B <= n
    BY <1>1, <1>3, <1>4, <1>5
  <2>2. n2 * B >= (n3 * B) * B
    BY <1>1, <1>4, <1>5, <2>1
  <2>3. n1 * B >= ((n3 * B) * B) * B
    BY <1>1, <1>3, <1>4, <1>5, <2>1, <2>2
  <2>4. C \in Nat \ {0} /\ n3 * C <= n /\ n < B * C
    BY <1>1, <1>3, <1>5, <2>1, <2>3
  <2> HIDE DEF C
  <2>5. ASSUME n3 >= B PROVE FALSE
    <3>1. n3 * C >= B * C
      BY <1>1, <1>5, <2>4, <2>5
    <3> QED
      BY <1>1, <1>5, <2>4, <3>1
  <2> QED
    BY <1>1, <1>5, <2>5
<1>7. n3 % B = n3
  BY <1>1, <1>5, <1>6
<1>8. ASSUME NEW s \in Seq(Nat), \A k \in 1..4 : s[k] = U32(n)[k] PROVE ReadU32(s) = n
  <2>1. s[1] = n3 /\ s[2] = n2 % B /\ s[3] = n1 % B /\ s[4] = n % B
    BY <1>2, <1>7, <1>8
  <2>2. ReadU32(s) = ((n3 * B + (n2 % B)) * B + (n1 % B)) * B + (n % B)
    BY <2>1 DEF ReadU32, B
  <2> QED
    BY <1>3, <1>4, <1>5, <2>2
<1>9. U32(n) \in Seq(Nat) /\ Len(U32(n)) = 4
  BY <1>1, <1>2, <1>3, <1>4, <1>5
<1> QED
  BY <1>8, <1>9

----------------------------------------------------------------------------
(* Pieces in bits *)

\* Half of a quotient is the quotient by the double.
LEMMA HalfIs ==
  ASSUME NEW n \in Nat, NEW d \in Nat \ {0}
  PROVE  n \div (2 * d) = (n \div d) \div 2
<1> DEFINE a == n \div d
           r == n % d
           h == a \div 2
           b == a % 2
<1>1. a \in Nat /\ r \in 0..d - 1 /\ n = a * d + r
  BY DivisionIs
<1> HIDE DEF a, r
<1>2. h \in Nat /\ b \in 0..1 /\ a = h * 2 + b
  BY <1>1
<1> HIDE DEF h, b
<1>3. b * d + r \in 0..2 * d - 1
  <2>1. b = 0 \/ b = 1
    BY <1>2
  <2> QED
    BY <1>1, <2>1
<1>4. n = h * (2 * d) + (b * d + r)
  <2>1. a * d = h * (2 * d) + b * d
    BY <1>1, <1>2
  <2> QED
    BY <1>1, <1>2, <2>1
<1>5. 2 * d \in Nat \ {0}
  OBVIOUS
<1>6. n \div (2 * d) = h
  <2> DEFINE e == 2 * d
             s == b * d + r
  <2>1. e \in Nat \ {0} /\ s \in 0..e - 1 /\ n = h * e + s
    BY <1>3, <1>4, <1>5
  <2> HIDE DEF e, s
  <2>2. n \div e = h
    BY <1>2, <2>1, QuotientIs
  <2> QED
    BY <2>2 DEF e
<1> QED
  BY <1>6 DEF h, a

\* Bit j of a byte, from the highest, is set for the piece it stands for.
LEMMA BitIs ==
  ASSUME NEW S, NEW first \in Nat
  PROVE  /\ ByteOf(S, first) \in Nat
         /\ \A j \in 0..ByteBits - 1 :
                (ByteOf(S, first) \div Power[ByteBits - 1 - j]) % 2 = 1 <=> first + j \in S
<1> DEFINE N == ByteBits
           bit(n) == IF first + (n - 1) \in S THEN 1 ELSE 0
           step == [n \in 1..N |-> [x \in Nat |-> 2 * x + bit(n)]]
           Body(f) == [n \in 0..N |-> IF n = 0 THEN 0 ELSE 2 * f[n - 1] + bit(n)]
           h == CHOOSE f : f = Body(f)
           byte == h[N]
<1>1. N \in Nat /\ 0 \in Nat /\ (\A n : bit(n) \in 0..1) /\ step \in [1..N -> [Nat -> Nat]]
  <2>1. N \in Nat /\ 0 \in Nat /\ \A n : bit(n) \in 0..1
    BY WireAssumption
  <2> HIDE DEF bit
  <2> QED
    BY <2>1
<1>2. PICK g : Partial(g, Nat, 0, step, N)
  <2> HIDE DEF step, N
  <2> QED
    BY <1>1, PartialExists
<1>3. g \in [0..N -> Nat] /\ g[0] = 0
  BY <1>2 DEF Partial
<1>4. ASSUME NEW n \in 1..N PROVE g[n] = 2 * g[n - 1] + bit(n)
  <2>1. n - 1 \in 0..N
    BY <1>1
  <2>2. g[n] = step[n][g[n - 1]] /\ g[n - 1] \in Nat
    <3> HIDE DEF step
    <3> QED
      BY <1>2, <1>3, <2>1 DEF Partial
  <2> HIDE DEF bit
  <2> QED
    BY <2>2
<1> HIDE DEF step, bit
<1>5. \A n \in 0..N : n # 0 => n \in 1..N
  BY <1>1
<1>6. g = Body(g)
  BY <1>3, <1>4, <1>5
<1>7. h = Body(h)
  <2> HIDE DEF Body
  <2> QED
    BY <1>6, Zenon
<1>8. ByteOf(S, first) = byte
  BY Zenon DEF ByteOf, bit
<1> HIDE DEF h
<1>9. h[0] = 0 /\ \A n \in 1..N : h[n] = 2 * h[n - 1] + bit(n)
  <2>1. \A n \in 0..N : h[n] = IF n = 0 THEN 0 ELSE 2 * h[n - 1] + bit(n)
    BY <1>7, Zenon
  <2>2. 0 \in 0..N /\ \A n \in 1..N : n \in 0..N /\ n # 0
    BY <1>1
  <2> QED
    BY <2>1, <2>2
<1>10. \A n \in 0..N : h[n] \in Nat
  <2> DEFINE T == {n \in 0..N : h[n] \in Nat}
  <2>1. 0 \in T
    BY <1>1, <1>9
  <2>2. ASSUME NEW n \in 0..N - 1, n \in T PROVE n + 1 \in T
    <3>1. n + 1 \in 1..N /\ n + 1 \in 0..N /\ (n + 1) - 1 = n
      BY <1>1
    <3>2. h[n + 1] = 2 * h[n] + bit(n + 1) /\ h[n] \in Nat /\ bit(n + 1) \in 0..1
      BY <1>1, <1>9, <2>2, <3>1
    <3> QED
      BY <3>1, <3>2
  <2> HIDE DEF T
  <2>3. \A n \in 0..N - 1 : n \in T => n + 1 \in T
    BY <2>2
  <2> QED
    BY <1>1, <2>1, <2>3, Counting DEF T
<1>11. byte \in Nat
  BY <1>1, <1>10
<1> HIDE DEF byte
<1>12. \A m \in 0..N : byte \div Power[m] = h[N - m]
  <2> DEFINE T == {m \in 0..N : byte \div Power[m] = h[N - m]}
  <2>1. 0 \in T
    <3>1. byte \div 1 = byte
      BY <1>11
    <3> QED
      BY <1>1, <3>1, PowerIs DEF byte
  <2>2. ASSUME NEW m \in 0..N - 1, m \in T PROVE m + 1 \in T
    <3> DEFINE n == N - m
    <3>1. /\ m + 1 \in 1..N /\ m + 1 \in 0..N /\ m \in 0..N /\ (m + 1) - 1 = m
          /\ n \in 1..N /\ n - 1 = N - (m + 1) /\ n - 1 \in 0..N
      BY <1>1
    <3>2. Power[m + 1] = 2 * Power[m] /\ Power[m] \in Nat \ {0}
      BY <3>1, PowerIs
    <3>3. byte \div Power[m + 1] = (byte \div Power[m]) \div 2
      BY <1>11, <3>2, HalfIs
    <3>4. byte \div Power[m] = h[n]
      BY <2>2
    <3> HIDE DEF n
    <3>5. h[n] = 2 * h[n - 1] + bit(n) /\ h[n - 1] \in Nat /\ bit(n) \in 0..1
      BY <1>1, <1>9, <1>10, <3>1
    <3>6. h[n] \div 2 = h[n - 1]
      BY <3>5
    <3> QED
      BY <3>1, <3>3, <3>4, <3>6
  <2> HIDE DEF T
  <2>3. \A m \in 0..N - 1 : m \in T => m + 1 \in T
    BY <2>2
  <2> QED
    BY <1>1, <2>1, <2>3, Counting DEF T
<1>13. ASSUME NEW j \in 0..N - 1
       PROVE  (byte \div Power[N - 1 - j]) % 2 = 1 <=> first + j \in S
  <2>1. N - 1 - j \in 0..N /\ N - (N - 1 - j) = j + 1 /\ j + 1 \in 1..N /\ (j + 1) - 1 = j
        /\ j \in 0..N
    BY <1>1
  <2>2. byte \div Power[N - 1 - j] = h[j + 1]
    BY <1>12, <2>1
  <2>3. h[j + 1] = 2 * h[j] + bit(j + 1) /\ h[j] \in Nat /\ bit(j + 1) \in 0..1
    BY <1>1, <1>9, <1>10, <2>1
  <2>4. h[j + 1] % 2 = bit(j + 1)
    BY <2>3
  <2>5. bit(j + 1) = 1 <=> first + j \in S
    BY <2>1 DEF bit
  <2> QED
    BY <2>2, <2>4, <2>5
<1> QED
  BY <1>8, <1>11, <1>13

\* The bytes of a bitfield hold each piece and as many spare bits as are cut off.
LEMMA BytesFit ==
  /\ NBytes \in Nat \ {0} /\ NBytes <= NPieces
  /\ NBytes * ByteBits - SpareBits = NPieces
  /\ \A i \in Piece : /\ i \div ByteBits + 1 \in 1..NBytes
                      /\ i % ByteBits \in 0..ByteBits - 1
                      /\ (i \div ByteBits) * ByteBits + (i % ByteBits) = i
<1> DEFINE B == ByteBits
           T == NPieces
           q == T \div B
           r == T % B
<1>1. B \in Nat \ {0, 1} /\ T \in Nat \ {0}
  BY WireAssumption
<1>2. q \in Nat /\ r \in 0..B - 1 /\ T = q * B + r
  BY <1>1, DivisionIs
<1>3. NBytes = IF r = 0 THEN q ELSE q + 1
  <2> HIDE DEF q, r
  <2>1. CASE r = 0
    <3>1. T + B - 1 = q * B + (B - 1) /\ B - 1 \in 0..B - 1 /\ T + B - 1 \in Nat
      BY <1>1, <1>2, <2>1
    <3>2. (T + B - 1) \div B = q
      <4> DEFINE x == T + B - 1
      <4>1. x \in Nat /\ x = q * B + (B - 1)
        BY <3>1
      <4> HIDE DEF x
      <4>2. x \div B = q
        BY <1>1, <1>2, <3>1, <4>1, QuotientIs
      <4> QED
        BY <4>2 DEF x
    <3> QED
      BY <2>1, <3>2 DEF NBytes
  <2>2. CASE r # 0
    <3>1. T + B - 1 = (q + 1) * B + (r - 1) /\ r - 1 \in 0..B - 1 /\ T + B - 1 \in Nat /\ q + 1 \in Nat
      BY <1>1, <1>2, <2>2
    <3>2. (T + B - 1) \div B = q + 1
      <4> DEFINE x == T + B - 1
                 p == q + 1
                 s == r - 1
      <4>1. x \in Nat /\ p \in Nat /\ s \in 0..B - 1 /\ x = p * B + s
        BY <3>1
      <4> HIDE DEF x, p, s
      <4>2. x \div B = p
        BY <1>1, <4>1, QuotientIs
      <4> QED
        BY <4>2 DEF x, p
    <3> QED
      BY <2>2, <3>2 DEF NBytes
  <2> QED
    BY <2>1, <2>2
<1>4. SpareBits = IF r = 0 THEN 0 ELSE B - r
  <2>1. SpareBits = (B - r) % B
    BY DEF SpareBits
  <2> HIDE DEF r
  <2>2. CASE r = 0
    <3>1. B % B = 0
      BY <1>1
    <3> QED
      BY <1>1, <2>1, <2>2, <3>1
  <2>3. CASE r # 0
    BY <1>1, <1>2, <2>1, <2>3
  <2> QED
    BY <2>2, <2>3
<1> HIDE DEF q, r
<1>5. NBytes \in Nat \ {0} /\ NBytes * B - SpareBits = T
  <2>1. CASE r = 0
    BY <1>1, <1>2, <1>3, <1>4, <2>1
  <2>2. CASE r # 0
    BY <1>1, <1>2, <1>3, <1>4, <2>2
  <2> QED
    BY <2>1, <2>2
<1>6. NBytes <= T
  <2>1. q <= q * B
    BY <1>1, <1>2
  <2> QED
    BY <1>1, <1>2, <1>3, <2>1
<1>7. ASSUME NEW i \in 0..T - 1
      PROVE  /\ i \div B + 1 \in 1..NBytes /\ i % B \in 0..B - 1
             /\ (i \div B) * B + (i % B) = i
  <2> DEFINE a == i \div B
             b == i % B
  <2>1. a \in Nat /\ b \in 0..B - 1 /\ i = a * B + b
    <3>1. i \in Nat /\ B \in Nat \ {0}
      BY <1>1
    <3> QED
      BY <3>1, DivisionIs
  <2> HIDE DEF a, b
  <2>2. NBytes * B >= T
    <3>1. SpareBits >= 0 /\ SpareBits \in Int
      BY <1>1, <1>2, <1>4
    <3> DEFINE x == NBytes * B
    <3>2. x \in Int
      BY <1>1, <1>5
    <3> HIDE DEF x
    <3> QED
      BY <1>1, <1>5, <3>1, <3>2 DEF x
  <2>3. ~(NBytes <= a)
    <3> SUFFICES ASSUME NBytes <= a PROVE FALSE
      OBVIOUS
    <3>1. NBytes * B <= a * B
      BY <1>1, <1>5, <2>1
    <3> DEFINE x == NBytes * B
               y == a * B
    <3>2. x \in Nat /\ y \in Nat
      BY <1>1, <1>5, <2>1
    <3>3. x <= y /\ i = y + b /\ x >= T
      BY <2>1, <2>2, <3>1
    <3> HIDE DEF x, y
    <3> QED
      BY <1>1, <2>1, <3>2, <3>3
  <2>4. a + 1 \in 1..NBytes
    BY <1>5, <2>1, <2>3
  <2> QED
    BY <2>1, <2>4 DEF a, b
<1> QED
  BY <1>5, <1>6, <1>7 DEF Piece

\* A bitfield is read as it was written.
LEMMA BitfieldIs ==
  ASSUME NEW S \in SUBSET Piece
  PROVE  /\ BitfieldBytes(S) \in Seq(Nat) /\ Len(BitfieldBytes(S)) = NBytes
         /\ BitfieldBytes(S) # <<>>
         /\ CreateBitfield(BitfieldBytes(S)) = [len |-> NPieces, set |-> S]
<1> DEFINE bytes == BitfieldBytes(S)
           set == {i \in 0..NPieces - 1 :
                     (bytes[i \div ByteBits + 1] \div Power[ByteBits - 1 - (i % ByteBits)]) % 2 = 1}
<1>1. NBytes \in Nat \ {0} /\ ByteBits \in Nat
  BY BytesFit, WireAssumption
<1>2. \A k \in 1..NBytes : (k - 1) * ByteBits \in Nat
  BY <1>1
<1>3. bytes = [k \in 1..NBytes |-> ByteOf(S, (k - 1) * ByteBits)]
  BY DEF BitfieldBytes
<1>4. \A k \in 1..NBytes : ByteOf(S, (k - 1) * ByteBits) \in Nat
  BY <1>2, BitIs
<1> HIDE DEF bytes
<1>5. bytes \in Seq(Nat) /\ Len(bytes) = NBytes /\ bytes # <<>>
  <2>1. bytes \in [1..NBytes -> Nat]
    BY <1>3, <1>4
  <2>2. bytes \in Seq(Nat) /\ Len(bytes) = NBytes
    BY <1>1, <2>1
  <2> QED
    BY <1>1, <2>2
<1>6. CreateBitfield(bytes) = [len |-> NPieces, set |-> set]
  <2>1. Len(bytes) * ByteBits - SpareBits = NPieces
    BY <1>5, BytesFit
  <2> QED
    BY <2>1 DEF CreateBitfield
<1>7. ASSUME NEW i \in 0..NPieces - 1
      PROVE  (bytes[i \div ByteBits + 1] \div Power[ByteBits - 1 - (i % ByteBits)]) % 2 = 1 <=> i \in S
  <2> DEFINE a == i \div ByteBits
             b == i % ByteBits
  <2>1. a + 1 \in 1..NBytes /\ b \in 0..ByteBits - 1 /\ a * ByteBits + b = i
    BY BytesFit DEF Piece
  <2>2. (a + 1) - 1 = a /\ a \in Nat /\ a * ByteBits \in Nat
    <3>1. i \in Nat /\ ByteBits \in Nat \ {0}
      BY WireAssumption
    <3>2. a \in Nat
      BY <3>1, DivisionIs
    <3> HIDE DEF a
    <3> QED
      BY <3>1, <3>2
  <2> HIDE DEF a, b
  <2>3. bytes[a + 1] = ByteOf(S, a * ByteBits)
    BY <1>3, <2>1, <2>2
  <2>4. (ByteOf(S, a * ByteBits) \div Power[ByteBits - 1 - b]) % 2 = 1 <=> a * ByteBits + b \in S
    BY <2>1, <2>2, BitIs
  <2> QED
    BY <2>1, <2>3, <2>4 DEF a, b
<1>8. set = S
  BY <1>7 DEF Piece
<1> HIDE DEF set
<1> QED
  BY <1>5, <1>6, <1>8 DEF bytes

----------------------------------------------------------------------------
(* A message is parsed as it was encoded, whatever follows it. *)

PeerValue == [choking : BOOLEAN, interested : BOOLEAN, bits : SUBSET Piece]

\* The numbers the encoders write are u32s.
LEMMA SmallIs == 0..15 \subseteq U32s /\ Piece \subseteq U32s /\ 1 + NBytes \in U32s
<1> DEFINE B == Base
           top == B * B * B * B
<1>1. B \in Nat /\ B >= 2
  <2>1. ByteBits \in 1..ByteBits /\ ByteBits - 1 \in 0..ByteBits
    BY WireAssumption
  <2>2. Power[ByteBits] = 2 * Power[ByteBits - 1] /\ Power[ByteBits - 1] \in Nat \ {0}
    BY <2>1, PowerIs
  <2> QED
    BY <2>2 DEF Base
<1> HIDE DEF B
<1>2. top \in Nat /\ top >= 16
  <2>1. B * B \in Nat /\ B * B >= 4
    BY <1>1
  <2> DEFINE c == B * B
  <2>2. top = c * c
    BY <1>1
  <2>3. c \in Nat /\ c >= 4
    BY <2>1
  <2> HIDE DEF c, top
  <2>4. c * c \in Nat /\ c * c >= 16
    BY <2>3
  <2> QED
    BY <2>2, <2>4
<1>3. U32s = 0..top - 1
  BY DEF U32s, B
<1> HIDE DEF top
<1>4. NPieces \in Nat \ {0} /\ NPieces + 1 \in 0..top - 1
  BY <1>3, PayloadAssumption, WireAssumption
<1>5. NBytes \in Nat /\ NBytes <= NPieces
  BY BytesFit
<1>6. 1 + NBytes \in 0..top - 1
  BY <1>2, <1>4, <1>5
<1> QED
  BY <1>2, <1>3, <1>4, <1>6 DEF Piece

\* A number within a message.
LEMMA FieldIs ==
  ASSUME NEW n \in U32s, NEW msg \in Seq(Nat), NEW at \in Nat, at + 4 <= Len(msg),
         \A k \in 1..4 : msg[at + k] = U32(n)[k]
  PROVE  ReadU32(SubSeq(msg, at + 1, at + 4)) = n
<1> DEFINE s == SubSeq(msg, at + 1, at + 4)
<1>1. s \in Seq(Nat) /\ \A k \in 1..4 : s[k] = msg[at + k]
  <2>1. at + 1 \in Int /\ at + 4 \in Int /\ \A i \in at + 1..at + 4 : msg[i] \in Nat
    <3>1. \A i \in at + 1..at + 4 : i \in 1..Len(msg)
      OBVIOUS
    <3>2. \A i \in 1..Len(msg) : msg[i] \in Nat
      BY ElementOfSeq, Zenon
    <3>3. at + 1 \in Int /\ at + 4 \in Int
      OBVIOUS
    <3> QED
      BY <3>1, <3>2, <3>3, Zenon
  <2>2. s \in Seq(Nat) /\ \A k \in 1..(at + 4) - (at + 1) + 1 : s[k] = msg[(at + 1) + k - 1]
    BY <2>1, SubSeqProperties
  <2>3. (at + 4) - (at + 1) + 1 = 4 /\ \A k \in 1..4 : (at + 1) + k - 1 = at + k
    OBVIOUS
  <2> HIDE DEF s
  <2> QED
    BY <2>2, <2>3
<1> HIDE DEF s
<1>2. ReadU32(s) = n
  BY <1>1, U32Is
<1> QED
  BY <1>2 DEF s

\* What is put together, byte by byte.
LEMMA JoinedIs ==
  ASSUME NEW s \in Seq(Nat), NEW t \in Seq(Nat)
  PROVE  /\ s \o t \in Seq(Nat) /\ Len(s \o t) = Len(s) + Len(t)
         /\ \A k \in 1..Len(s) : (s \o t)[k] = s[k]
         /\ \A k \in 1..Len(t) : (s \o t)[Len(s) + k] = t[k]
  BY ConcatProperties

\* The parts of an encoded message, with the bytes of others behind it.
LEMMA FramedIs ==
  ASSUME NEW kind \in Nat, NEW body \in Seq(Nat), 1 + Len(body) \in U32s
  PROVE  /\ Framed(kind, body) \in Seq(Nat) /\ Len(Framed(kind, body)) = 5 + Len(body)
         /\ \A k \in 1..4 : Framed(kind, body)[k] = U32(1 + Len(body))[k]
         /\ Framed(kind, body)[5] = kind
         /\ \A k \in 1..Len(body) : Framed(kind, body)[5 + k] = body[k]
<1> DEFINE a == U32(1 + Len(body))
<1>1. a \in Seq(Nat) /\ Len(a) = 4
  BY U32Is
<1> HIDE DEF a
<1>2. <<kind>> \in Seq(Nat) /\ Len(<<kind>>) = 1 /\ <<kind>>[1] = kind
  OBVIOUS
<1> DEFINE b == a \o <<kind>>
<1>3. b \in Seq(Nat) /\ Len(b) = 5 /\ (\A k \in 1..4 : b[k] = a[k]) /\ b[5] = kind
  <2> DEFINE c == <<kind>>
  <2>1. c \in Seq(Nat) /\ Len(c) = 1 /\ c[1] = kind /\ b = a \o c
    BY <1>2
  <2> HIDE DEF b, c
  <2>2. /\ b \in Seq(Nat) /\ Len(b) = Len(a) + Len(c)
        /\ \A k \in 1..Len(a) : b[k] = a[k]
        /\ \A k \in 1..Len(c) : b[Len(a) + k] = c[k]
    BY <1>1, <2>1, JoinedIs
  <2>3. b[4 + 1] = c[1] /\ 4 + 1 = 5
    BY <1>1, <2>1, <2>2
  <2> QED
    BY <1>1, <2>1, <2>2, <2>3
<1> HIDE DEF b
<1>4. /\ b \o body \in Seq(Nat) /\ Len(b \o body) = 5 + Len(body)
      /\ \A k \in 1..5 : (b \o body)[k] = b[k]
      /\ \A k \in 1..Len(body) : (b \o body)[5 + k] = body[k]
  <2> DEFINE c == b \o body
  <2>1. /\ c \in Seq(Nat) /\ Len(c) = Len(b) + Len(body)
        /\ \A k \in 1..Len(b) : c[k] = b[k]
        /\ \A k \in 1..Len(body) : c[Len(b) + k] = body[k]
    BY <1>3, JoinedIs
  <2> HIDE DEF c
  <2>2. /\ c \in Seq(Nat) /\ Len(c) = 5 + Len(body)
        /\ \A k \in 1..5 : c[k] = b[k]
        /\ \A k \in 1..Len(body) : c[5 + k] = body[k]
    BY <1>3, <2>1
  <2> QED
    BY <2>2 DEF c
<1>5. Framed(kind, body) = b \o body
  BY DEF Framed, a, b
<1>6. \A k \in 1..4 : (b \o body)[k] = a[k]
  BY <1>3, <1>4
<1>7. (b \o body)[5] = kind
  BY <1>3, <1>4
<1> HIDE DEF b
<1> QED
  BY <1>4, <1>5, <1>6, <1>7 DEF a

\* What parse_message does with a message of len bytes once it knows its kind.
ParseKind(p, msg, kind, len) ==
    CASE kind \in {0, 1} -> ParseChoke(p, kind = 0)
      [] kind \in {2, 3} -> ParseInterested(p, kind = 2)
      [] kind = 4 -> IF Len(msg) < 9 THEN Result(p, Panic) ELSE ParseHave(p, Field(msg, 5))
      [] kind = 5 -> ParseBitfield(p, SubSeq(msg, 6, len))
      [] kind = 6 -> ParseRequest(p, msg)
      [] kind = 7 -> ParsePiece(p, msg, len)
      [] kind = 8 -> ParseCancel(p, msg)
      [] kind = 9 -> Result(p, Panic)
      [] OTHER -> Result(p, Error)

\* A message of this kind, parsed.
LEMMA FramedRead ==
  ASSUME NEW kind \in Nat, NEW body \in Seq(Nat), 1 + Len(body) \in U32s, NEW rest \in Seq(Nat),
         NEW p
  PROVE  LET msg == Framed(kind, body) \o rest IN
         /\ msg \in Seq(Nat) /\ Len(msg) >= 5 + Len(body)
         /\ \A k \in 1..Len(body) : msg[5 + k] = body[k]
         /\ ParseMessage(p, msg) = ParseKind(p, msg, kind, 5 + Len(body))
<1> DEFINE f == Framed(kind, body)
           len == 1 + Len(body)
           msg == f \o rest
<1>1. /\ f \in Seq(Nat) /\ Len(f) = 5 + Len(body) /\ Len(body) \in Nat
      /\ \A k \in 1..4 : f[k] = U32(len)[k]
      /\ f[5] = kind
      /\ \A k \in 1..Len(body) : f[5 + k] = body[k]
  <2>1. Len(body) \in Nat
    OBVIOUS
  <2> QED
    BY <2>1, FramedIs
<1> HIDE DEF f
<1>2. /\ msg \in Seq(Nat) /\ Len(msg) = Len(f) + Len(rest) /\ Len(rest) \in Nat
      /\ \A k \in 1..Len(f) : msg[k] = f[k]
  <2> DEFINE c == f \o rest
  <2>1. msg = c /\ Len(rest) \in Nat
    OBVIOUS
  <2>2. /\ c \in Seq(Nat) /\ Len(c) = Len(f) + Len(rest)
        /\ \A k \in 1..Len(f) : c[k] = f[k]
    BY <1>1, JoinedIs
  <2> HIDE DEF c
  <2> QED
    BY <2>1, <2>2
<1> HIDE DEF len, msg
<1>3. Len(msg) >= 5 + Len(body) /\ msg # <<>> /\ msg[5] = kind
      /\ \A k \in 1..4 : msg[k] = U32(len)[k]
  <2>1. Len(msg) >= 5 + Len(body) /\ Len(f) >= 5
    <3> DEFINE a == Len(msg)
               b == Len(f)
               c == Len(body)
               d == Len(rest)
    <3>1. a = b + d /\ b = 5 + c /\ c \in Nat /\ d \in Nat
      BY <1>1, <1>2
    <3> HIDE DEF a, b, c, d
    <3>2. a >= 5 + c /\ b >= 5
      BY <3>1
    <3> QED
      BY <3>2 DEF a, b, c
  <2>2. \A k \in 1..5 : msg[k] = f[k]
    <3>1. \A k \in 1..5 : k \in 1..Len(f)
      BY <1>2, <2>1
    <3> QED
      BY <1>2, <3>1, Zenon
  <2>3. msg # <<>>
    BY <1>1, <1>2, <2>1
  <2>4. \A k \in 1..4 : msg[k] = U32(len)[k]
    <3>1. 1..4 \subseteq 1..5
      OBVIOUS
    <3> QED
      BY <1>1, <2>2, <3>1, Zenon
  <2>5. 5 \in 1..5
    OBVIOUS
  <2> QED
    BY <1>1, <2>1, <2>2, <2>3, <2>4, <2>5, Zenon
<1>4. \A k \in 1..Len(body) : msg[5 + k] = body[k]
  <2> TAKE k \in 1..Len(body)
  <2>1. 5 + k \in 1..Len(f)
    BY <1>1
  <2> QED
    BY <1>1, <1>2, <2>1
<1>5. ReadU32(SubSeq(msg, 1, 4)) = len
  <2>1. 0 \in Nat /\ 0 + 4 <= Len(msg) /\ \A k \in 1..4 : msg[0 + k] = U32(len)[k]
    BY <1>1, <1>2, <1>3
  <2>2. ReadU32(SubSeq(msg, 0 + 1, 0 + 4)) = len
    <3>1. len \in U32s
      BY DEF len
    <3> QED
      BY <1>2, <2>1, <3>1, FieldIs
  <2> QED
    BY <2>2
<1>6. len # 0 /\ ~(Len(msg) < 4) /\ ~(Len(msg) < 4 + len) /\ 4 + len = 5 + Len(body) /\ len + 4 = 5 + Len(body)
  <2> DEFINE a == Len(msg)
             c == Len(body)
  <2>1. a \in Nat /\ c \in Nat /\ a >= 5 + c /\ len = 1 + c
    BY <1>1, <1>2, <1>3 DEF len
  <2> HIDE DEF a, c
  <2>2. len # 0 /\ ~(a < 4) /\ ~(a < 4 + len) /\ 4 + len = 5 + c /\ len + 4 = 5 + c
    BY <2>1
  <2> QED
    BY <2>2 DEF a, c
<1>7. ParseMessage(p, msg) =
          CASE msg[5] \in {0, 1} -> ParseChoke(p, msg[5] = 0)
            [] msg[5] \in {2, 3} -> ParseInterested(p, msg[5] = 2)
            [] msg[5] = 4 -> IF Len(msg) < 9 THEN Result(p, Panic)
                             ELSE ParseHave(p, Field(msg, 5))
            [] msg[5] = 5 -> ParseBitfield(p, SubSeq(msg, 6, 4 + len))
            [] msg[5] = 6 -> ParseRequest(p, msg)
            [] msg[5] = 7 -> ParsePiece(p, msg, len + 4)
            [] msg[5] = 8 -> ParseCancel(p, msg)
            [] msg[5] = 9 -> Result(p, Panic)
            [] OTHER -> Result(p, Error)
  BY <1>3, <1>5, <1>6, Zenon DEF ParseMessage
<1>8. 4 + len = 5 + Len(body) /\ len + 4 = 5 + Len(body)
  BY <1>6
<1>9. ParseMessage(p, msg) = ParseKind(p, msg, kind, 5 + Len(body))
  BY <1>3, <1>7, <1>8, Zenon DEF ParseKind
<1> QED
  BY <1>2, <1>3, <1>4, <1>9, Zenon DEF msg, f

\* Bytes have a length, and some if there are any.
LEMMA LengthIs == \A s \in Seq(Nat) : Len(s) \in Nat /\ (Len(s) # 0 => s # <<>>)
OBVIOUS

\* Two numbers, and what follows them.
LEMMA NumbersIs ==
  ASSUME NEW m \in U32s, NEW n \in U32s, NEW tail \in Seq(Nat)
  PROVE  LET body == U32(m) \o U32(n) \o tail IN
         /\ body \in Seq(Nat) /\ Len(body) = 8 + Len(tail)
         /\ \A k \in 1..4 : body[k] = U32(m)[k]
         /\ \A k \in 1..4 : body[4 + k] = U32(n)[k]
         /\ \A k \in 1..Len(tail) : body[8 + k] = tail[k]
<1> DEFINE a == U32(m)
           b == U32(n)
           c == a \o b
           body == U32(m) \o U32(n) \o tail
<1>1. a \in Seq(Nat) /\ Len(a) = 4 /\ b \in Seq(Nat) /\ Len(b) = 4
  BY U32Is
<1>2. body = c \o tail
  OBVIOUS
<1> HIDE DEF a, b, body
<1>3. /\ c \in Seq(Nat) /\ Len(c) = Len(a) + Len(b)
      /\ \A k \in 1..Len(a) : c[k] = a[k]
      /\ \A k \in 1..Len(b) : c[Len(a) + k] = b[k]
  BY <1>1, JoinedIs
<1> HIDE DEF c
<1> DEFINE d == c \o tail
<1>4. /\ d \in Seq(Nat) /\ Len(d) = Len(c) + Len(tail)
      /\ \A k \in 1..Len(c) : d[k] = c[k]
      /\ \A k \in 1..Len(tail) : d[Len(c) + k] = tail[k]
  BY <1>3, JoinedIs
<1>5. body = d
  BY <1>2
<1> HIDE DEF d
<1>6. Len(c) = 8 /\ Len(tail) \in Nat
  BY <1>1, <1>3
<1>7. \A k \in 1..4 : c[k] = a[k] /\ c[4 + k] = b[k]
  BY <1>1, <1>3
<1>8. \A k \in 1..8 : d[k] = c[k]
  BY <1>4, <1>6
<1>9. \A k \in 1..4 : k \in 1..8 /\ 4 + k \in 1..8
  OBVIOUS
<1>10. \A k \in 1..4 : d[k] = a[k] /\ d[4 + k] = b[k]
  BY <1>7, <1>8, <1>9, Zenon
<1>11. d \in Seq(Nat) /\ Len(d) = 8 + Len(tail) /\ \A k \in 1..Len(tail) : d[8 + k] = tail[k]
  BY <1>4, <1>6
<1> QED
  BY <1>5, <1>10, <1>11, Zenon DEF a, b, body

\* Where the bytes of a field lie.
LEMMA Shifted ==
  ASSUME NEW a \in Nat, NEW at \in Nat, at + 4 <= a
  PROVE  \A k \in 1..4 : at + k \in 1..a /\ 5 + (at + k) = (5 + at) + k
  OBVIOUS

\* A field of a message of this kind, told by where the number is in its body.
LEMMA FieldRead ==
  ASSUME NEW msg \in Seq(Nat), NEW body \in Seq(Nat), Len(msg) >= 5 + Len(body),
         \A k \in 1..Len(body) : msg[5 + k] = body[k],
         NEW n \in U32s, NEW at \in Nat, at + 4 <= Len(body),
         \A k \in 1..4 : body[at + k] = U32(n)[k]
  PROVE  Field(msg, 5 + at) = n
<1> DEFINE place == 5 + at
           u == U32(n)
<1> HIDE DEF u
<1>1. \A k \in 1..4 : at + k \in 1..Len(body) /\ 5 + (at + k) = place + k
  <2> DEFINE a == Len(body)
  <2>1. a \in Nat /\ at + 4 <= a
    BY LengthIs, Zenon
  <2> QED
    BY <2>1, Shifted, Zenon
<1>2. \A k \in 1..4 : msg[place + k] = u[k]
  <2>1. \A k \in 1..4 : msg[5 + (at + k)] = body[at + k]
    BY <1>1, Zenon
  <2> HIDE DEF place
  <2> QED
    BY <1>1, <2>1, Zenon DEF u
<1>3. place \in Nat /\ place + 4 <= Len(msg)
  <2> DEFINE a == Len(body)
             b == Len(msg)
  <2>1. a \in Nat /\ b \in Nat /\ b >= 5 + a /\ at + 4 <= a
    BY LengthIs, Zenon
  <2> HIDE DEF a, b
  <2>2. place + 4 <= b
    BY <2>1
  <2> QED
    BY <2>2 DEF b
<1> HIDE DEF place
<1>4. ReadU32(SubSeq(msg, place + 1, place + 4)) = n
  BY <1>2, <1>3, FieldIs DEF u
<1> QED
  BY <1>4 DEF Field, place

Outcome(r, p, m) ==
    /\ r.peer = Says(p, m)
    /\ m.type = "Choke" => (r.action = None <=> p.choking = m.on)
    /\ m.type = "Interested" => (r.action = None <=> p.interested = m.on)
    /\ m.type = "Have" => (r.action = None <=> m.piece \in p.bits)
    /\ r.action.type = "Write" =>
           /\ m.type = "Piece"
           /\ r.action.index = m.index /\ r.action.begin = m.begin /\ r.action.data = m.data
    /\ r.action.type = "Request" =>
           /\ m.type = "Request"
           /\ r.action.block.index = m.index /\ r.action.block.begin = m.begin
           /\ r.action.block.length = m.length

\* A keep-alive.
LEMMA KeepAliveRead ==
  ASSUME NEW m \in Message, m.type = "KeepAlive", NEW rest \in Seq(Nat), NEW p \in PeerValue
  PROVE  /\ Encode(m) \in Seq(Nat) /\ Encode(m) # <<>>
         /\ Outcome(ParseMessage(p, Encode(m) \o rest), p, m)
<1> DEFINE f == U32(0)
           msg == f \o rest
<1>1. Encode(m) = f
  BY DEF Encode
<1>2. f \in Seq(Nat) /\ Len(f) = 4 /\ 0 \in U32s
  BY U32Is, SmallIs
<1> HIDE DEF f
<1>3. /\ msg \in Seq(Nat) /\ Len(msg) = Len(f) + Len(rest)
      /\ \A k \in 1..Len(f) : msg[k] = f[k]
  BY <1>2, JoinedIs
<1> HIDE DEF msg
<1>4. Len(msg) >= 4 /\ msg # <<>> /\ Len(msg) \in Nat /\ f # <<>>
  <2> DEFINE a == Len(msg)
             b == Len(rest)
  <2>1. b \in Nat /\ a = 4 + b
    BY <1>2, <1>3, LengthIs
  <2> HIDE DEF a, b
  <2>2. a >= 4 /\ a \in Nat /\ a # 0
    BY <2>1
  <2>3. Len(f) # 0
    BY <1>2
  <2> QED
    BY <1>2, <1>3, <2>2, <2>3, LengthIs, Zenon DEF a
<1>5. ReadU32(SubSeq(msg, 1, 4)) = 0
  <2>1. 0 \in Nat /\ 0 + 4 <= Len(msg) /\ \A k \in 1..4 : msg[0 + k] = U32(0)[k]
    <3>1. \A k \in 1..4 : msg[k] = f[k]
      BY <1>2, <1>3
    <3>2. \A k \in 1..4 : 0 + k = k
      OBVIOUS
    <3>3. \A k \in 1..4 : msg[0 + k] = f[k]
      BY <3>1, <3>2, Zenon
    <3>4. 0 \in Nat /\ 0 + 4 <= Len(msg)
      BY <1>4
    <3> QED
      BY <3>3, <3>4, Zenon DEF f
  <2>2. ReadU32(SubSeq(msg, 0 + 1, 0 + 4)) = 0
    BY <1>2, <1>3, <2>1, FieldIs
  <2> QED
    BY <2>2
<1>6. ParseMessage(p, msg) = Result(p, None)
  BY <1>4, <1>5 DEF ParseMessage
<1>7. Outcome(ParseMessage(p, msg), p, m)
  BY <1>6 DEF Outcome, Result, None, Says
<1> QED
  BY <1>1, <1>2, <1>4, <1>7 DEF msg

\* A choke, an unchoke, an interest or its end.
LEMMA FlagRead ==
  ASSUME NEW m \in Message, m.type \in {"Choke", "Interested"}, NEW rest \in Seq(Nat), NEW p \in PeerValue
  PROVE  /\ Encode(m) \in Seq(Nat) /\ Encode(m) # <<>>
         /\ Outcome(ParseMessage(p, Encode(m) \o rest), p, m)
<1> DEFINE kind == IF m.type = "Choke" THEN (IF m.on THEN 0 ELSE 1) ELSE (IF m.on THEN 2 ELSE 3)
           body == <<>>
           f == Framed(kind, body)
           msg == f \o rest
<1>1. m.on \in BOOLEAN /\ kind \in Nat /\ body \in Seq(Nat) /\ 1 + Len(body) \in U32s
  <2>1. m.on \in BOOLEAN
    BY DEF Message
  <2>2. <<>> \in Seq(Nat) /\ 1 + Len(<<>>) = 1 /\ 1 \in 0..15
    OBVIOUS
  <2> QED
    BY <2>1, <2>2, SmallIs
<1>2. Encode(m) = f
  BY DEF Encode
<1>3. f \in Seq(Nat) /\ Len(f) = 5
  <2>1. f \in Seq(Nat) /\ Len(f) = 5 + Len(body)
    <3> HIDE DEF kind, body
    <3> QED
      BY <1>1, FramedIs
  <2> HIDE DEF f
  <2> QED
    BY <2>1
<1>4. ParseMessage(p, msg) = ParseKind(p, msg, kind, 5 + Len(body))
  <2> HIDE DEF kind, body
  <2> QED
    BY <1>1, FramedRead, Zenon
<1> HIDE DEF f, msg
<1>5. ParseMessage(p, msg) = IF m.type = "Choke" THEN ParseChoke(p, m.on) ELSE ParseInterested(p, m.on)
  BY <1>1, <1>4 DEF ParseKind
<1>6. Outcome(ParseMessage(p, msg), p, m)
  <2>1. CASE m.type = "Choke"
    BY <1>1, <1>5, <2>1 DEF ParseChoke, Outcome, Result, None, Says
  <2>2. CASE m.type = "Interested"
    BY <1>1, <1>5, <2>2 DEF ParseInterested, Outcome, Result, None, Says
  <2> QED
    BY <2>1, <2>2
<1>7. f # <<>>
  <2>1. Len(f) # 0
    BY <1>3
  <2> QED
    BY <1>3, <2>1, LengthIs, Zenon
<1> QED
  BY <1>2, <1>3, <1>6, <1>7 DEF msg

\* A stretch of a sequence that agrees with another is the other.
LEMMA StretchIs ==
  ASSUME NEW msg \in Seq(Nat), NEW tail \in Seq(Nat), NEW at \in Nat, at + Len(tail) <= Len(msg),
         \A k \in 1..Len(tail) : msg[at + k] = tail[k]
  PROVE  SubSeq(msg, at + 1, at + Len(tail)) = tail
<1> DEFINE n == Len(tail)
           a == Len(msg)
           s == SubSeq(msg, at + 1, at + n)
<1>1. n \in Nat /\ a \in Nat /\ at + n <= a
  BY LengthIs, Zenon
<1>2. \A i \in 1..a : msg[i] \in Nat
  BY ElementOfSeq, Zenon
<1> HIDE DEF n, a
<1>3. at + 1 \in Int /\ at + n \in Int /\ \A i \in at + 1..at + n : msg[i] \in Nat
  <2>1. \A i \in at + 1..at + n : i \in 1..a
    BY <1>1
  <2>2. at + 1 \in Int /\ at + n \in Int
    BY <1>1
  <2> QED
    BY <1>2, <2>1, <2>2, Zenon
<1>4. /\ s \in Seq(Nat)
      /\ Len(s) = IF at + 1 <= at + n THEN (at + n) - (at + 1) + 1 ELSE 0
      /\ \A k \in 1..(at + n) - (at + 1) + 1 : s[k] = msg[(at + 1) + k - 1]
  BY <1>3, SubSeqProperties
<1> HIDE DEF s
<1>5. Len(s) = n /\ \A k \in 1..n : s[k] = tail[k]
  <2>1. (at + n) - (at + 1) + 1 = n /\ (\A k \in 1..n : (at + 1) + k - 1 = at + k)
        /\ (at + 1 <= at + n <=> n # 0)
    BY <1>1
  <2>2. \A k \in 1..n : s[k] = msg[at + k]
    BY <1>4, <2>1
  <2>3. \A k \in 1..n : msg[at + k] = tail[k]
    BY DEF n
  <2>4. Len(s) = n
    BY <1>1, <1>4, <2>1
  <2> QED
    BY <2>2, <2>3, <2>4, Zenon
<1>6. s = tail
  <2>1. s \in Seq(Nat) /\ Len(s) = Len(tail) /\ \A i \in 1..Len(s) : s[i] = tail[i]
    BY <1>4, <1>5, Zenon DEF n
  <2> QED
    BY <2>1, SeqEqual, Zenon
<1> QED
  BY <1>6 DEF s, n

\* An encoded message is some bytes.
LEMMA FramedSome ==
  ASSUME NEW kind \in Nat, NEW body \in Seq(Nat), 1 + Len(body) \in U32s
  PROVE  Framed(kind, body) \in Seq(Nat) /\ Framed(kind, body) # <<>>
<1> DEFINE f == Framed(kind, body)
           n == Len(body)
<1>1. f \in Seq(Nat) /\ Len(f) = 5 + n /\ n \in Nat
  BY FramedIs, LengthIs, Zenon
<1> HIDE DEF f, n
<1>2. Len(f) # 0
  BY <1>1
<1> QED
  BY <1>1, <1>2, LengthIs, Zenon DEF f

\* What each kind from 4 on is parsed as.
LEMMA KindRead ==
  ASSUME NEW p, NEW msg, NEW len
  PROVE  /\ ~(Len(msg) < 9) => ParseKind(p, msg, 4, len) = ParseHave(p, Field(msg, 5))
         /\ ParseKind(p, msg, 5, len) = ParseBitfield(p, SubSeq(msg, 6, len))
         /\ ParseKind(p, msg, 6, len) = ParseRequest(p, msg)
         /\ ParseKind(p, msg, 7, len) = ParsePiece(p, msg, len)
         /\ ParseKind(p, msg, 8, len) = ParseCancel(p, msg)
         /\ ParseKind(p, msg, 9, len) = Result(p, Panic)
BY DEF ParseKind

\* A have.
LEMMA HaveRead ==
  ASSUME NEW m \in Message, m.type = "Have", NEW rest \in Seq(Nat), NEW p \in PeerValue
  PROVE  /\ Encode(m) \in Seq(Nat) /\ Encode(m) # <<>>
         /\ Outcome(ParseMessage(p, Encode(m) \o rest), p, m)
<1> DEFINE i == m.piece
           body == U32(i)
           f == Framed(4, body)
           msg == f \o rest
<1>1. i \in Piece /\ i \in U32s
  BY SmallIs DEF Message
<1>2. Encode(m) = f
  BY DEF Encode
<1> HIDE DEF i
<1>3. body \in Seq(Nat) /\ Len(body) = 4
  BY <1>1, U32Is
<1>4. \A k \in 1..4 : body[0 + k] = U32(i)[k]
  OBVIOUS
<1> HIDE DEF body
<1>5. 1 + Len(body) \in U32s /\ 4 \in Nat /\ 5 + Len(body) = 9 /\ 0 \in Nat /\ 0 + 4 <= Len(body)
  BY <1>3, SmallIs
<1>6. /\ msg \in Seq(Nat) /\ Len(msg) >= 5 + Len(body)
      /\ \A k \in 1..Len(body) : msg[5 + k] = body[k]
      /\ ParseMessage(p, msg) = ParseKind(p, msg, 4, 5 + Len(body))
  <2>1. body \in Seq(Nat) /\ 1 + Len(body) \in U32s /\ 4 \in Nat
    BY <1>3, <1>5
  <2> QED
    BY <2>1, FramedRead, Zenon
<1>7. f \in Seq(Nat) /\ f # <<>>
  BY <1>3, <1>5, FramedSome, Zenon
<1> HIDE DEF f, msg
<1>8. Field(msg, 5 + 0) = i
  BY <1>1, <1>3, <1>4, <1>5, <1>6, FieldRead, Zenon
<1>9. ParseMessage(p, msg) = ParseHave(p, i)
  <2>1. ~(Len(msg) < 9)
    <3> DEFINE a == Len(msg)
    <3>1. a \in Nat /\ a >= 9
      BY <1>5, <1>6, LengthIs
    <3> HIDE DEF a
    <3>2. ~(a < 9)
      BY <3>1
    <3> QED
      BY <3>2 DEF a
  <2>2. Field(msg, 5) = i
    BY <1>8
  <2> QED
    BY <1>6, <2>1, <2>2, KindRead
<1>10. Outcome(ParseHave(p, i), p, m)
  <2>1. ~(i >= NPieces)
    BY <1>1, WireAssumption DEF Piece
  <2> QED
    BY <1>1, <2>1 DEF ParseHave, Outcome, Result, None, Says, i
<1> QED
  BY <1>2, <1>7, <1>9, <1>10 DEF msg

\* A bitfield.
LEMMA BitfieldRead ==
  ASSUME NEW m \in Message, m.type = "Bitfield", NEW rest \in Seq(Nat), NEW p \in PeerValue
  PROVE  /\ Encode(m) \in Seq(Nat) /\ Encode(m) # <<>>
         /\ Outcome(ParseMessage(p, Encode(m) \o rest), p, m)
<1> DEFINE bits == m.bits
           body == BitfieldBytes(bits)
           f == Framed(5, body)
           msg == f \o rest
<1>1. bits \in SUBSET Piece
  BY DEF Message
<1>2. Encode(m) = f
  BY DEF Encode
<1> HIDE DEF bits
<1>3. body \in Seq(Nat) /\ Len(body) = NBytes /\ body # <<>>
      /\ CreateBitfield(body) = [len |-> NPieces, set |-> bits]
  BY <1>1, BitfieldIs
<1> HIDE DEF body
<1>4. 1 + Len(body) \in U32s /\ 5 \in Nat
  BY <1>3, SmallIs
<1>5. /\ msg \in Seq(Nat) /\ Len(msg) >= 5 + Len(body)
      /\ \A k \in 1..Len(body) : msg[5 + k] = body[k]
      /\ ParseMessage(p, msg) = ParseKind(p, msg, 5, 5 + Len(body))
  BY <1>3, <1>4, FramedRead, Zenon
<1>6. f \in Seq(Nat) /\ f # <<>>
  BY <1>3, <1>4, FramedSome, Zenon
<1> HIDE DEF f, msg
<1>7. SubSeq(msg, 6, 5 + Len(body)) = body
  <2>1. 5 + Len(body) <= Len(msg)
    <3> DEFINE a == Len(msg)
               b == Len(body)
    <3>1. a \in Nat /\ b \in Nat /\ a >= 5 + b
      BY <1>3, <1>5, LengthIs, Zenon
    <3> HIDE DEF a, b
    <3>2. 5 + b <= a
      BY <3>1
    <3> QED
      BY <3>2 DEF a, b
  <2>2. SubSeq(msg, 5 + 1, 5 + Len(body)) = body
    BY <1>3, <1>4, <1>5, <2>1, StretchIs, Zenon
  <2> QED
    BY <2>2
<1>8. ParseMessage(p, msg) = ParseBitfield(p, body)
  <2>1. ParseKind(p, msg, 5, 5 + Len(body)) = ParseBitfield(p, SubSeq(msg, 6, 5 + Len(body)))
    BY KindRead
  <2> QED
    BY <1>5, <1>7, <2>1
<1>9. Outcome(ParseBitfield(p, body), p, m)
  BY <1>1, <1>3 DEF ParseBitfield, Outcome, Result, None, Says, bits
<1> QED
  BY <1>2, <1>6, <1>8, <1>9 DEF msg

\* The bytes of the three that carry numbers: where these are read.
Numbers(kind, i, j, tail, rest, p) ==
    LET f == Framed(kind, U32(i) \o U32(j) \o tail)
        msg == f \o rest
    IN  /\ f \in Seq(Nat) /\ f # <<>>
        /\ ParseMessage(p, msg) = ParseKind(p, msg, kind, 13 + Len(tail))
        /\ Len(tail) \in Nat /\ Len(msg) \in Nat /\ Len(msg) >= 13 + Len(tail)
        /\ Field(msg, 5) = i /\ Field(msg, 9) = j
        /\ SubSeq(msg, 14, 13 + Len(tail)) = tail
        /\ \A n \in U32s : tail = U32(n) => Field(msg, 13) = n

\* They are read there.
LEMMA NumbersRead ==
  ASSUME NEW kind \in Nat, NEW i \in U32s, NEW j \in U32s, NEW tail \in Seq(Nat),
         9 + Len(tail) \in U32s, NEW rest \in Seq(Nat), NEW p
  PROVE  Numbers(kind, i, j, tail, rest, p)
<1> DEFINE body == U32(i) \o U32(j) \o tail
           f == Framed(kind, body)
           msg == f \o rest
<1>1. /\ body \in Seq(Nat) /\ Len(body) = 8 + Len(tail)
      /\ \A k \in 1..4 : body[k] = U32(i)[k]
      /\ \A k \in 1..4 : body[4 + k] = U32(j)[k]
      /\ \A k \in 1..Len(tail) : body[8 + k] = tail[k]
  BY NumbersIs
<1> HIDE DEF body
<1>2. Len(tail) \in Nat
  BY LengthIs
<1>3. 1 + Len(body) \in U32s /\ 5 + Len(body) = 13 + Len(tail)
  <2> DEFINE a == Len(body)
             b == Len(tail)
  <2>1. b \in Nat /\ a = 8 + b /\ 9 + b \in U32s
    BY <1>1, <1>2
  <2> HIDE DEF a, b
  <2>2. 1 + a = 9 + b /\ 5 + a = 13 + b
    BY <2>1
  <2>3. 1 + a \in U32s
    BY <2>1, <2>2
  <2> QED
    BY <2>2, <2>3 DEF a, b
<1>4. /\ msg \in Seq(Nat) /\ Len(msg) >= 5 + Len(body)
      /\ \A k \in 1..Len(body) : msg[5 + k] = body[k]
      /\ ParseMessage(p, msg) = ParseKind(p, msg, kind, 5 + Len(body))
  <2>1. body \in Seq(Nat) /\ 1 + Len(body) \in U32s
    BY <1>1, <1>3
  <2> QED
    BY <2>1, FramedRead, Zenon
<1>5. f \in Seq(Nat) /\ f # <<>>
  <2>1. body \in Seq(Nat) /\ 1 + Len(body) \in U32s
    BY <1>1, <1>3
  <2> QED
    BY <2>1, FramedSome, Zenon
<1> HIDE DEF f, msg
<1>6. Len(msg) \in Nat /\ Len(msg) >= 13 + Len(tail)
  <2>1. Len(msg) \in Nat
    BY <1>4, LengthIs, Zenon
  <2> QED
    BY <1>3, <1>4, <2>1
<1>7. 0 + 4 <= Len(body) /\ 4 + 4 <= Len(body) /\ 8 + Len(tail) <= Len(body)
  <2> DEFINE a == Len(body)
             b == Len(tail)
  <2>1. b \in Nat /\ a = 8 + b
    BY <1>1, <1>2
  <2> HIDE DEF a, b
  <2>2. 0 + 4 <= a /\ 4 + 4 <= a /\ 8 + b <= a
    BY <2>1
  <2> QED
    BY <2>2 DEF a, b
<1>8. /\ body \in Seq(Nat) /\ msg \in Seq(Nat) /\ Len(msg) >= 5 + Len(body)
       /\ \A k \in 1..Len(body) : msg[5 + k] = body[k]
  BY <1>1, <1>4
<1>9. Field(msg, 5) = i
  <2>1. \A k \in 1..4 : body[0 + k] = U32(i)[k]
    <3>1. \A k \in 1..4 : 0 + k = k
      OBVIOUS
    <3> QED
      BY <1>1, <3>1, Zenon
  <2>2. 0 \in Nat
    OBVIOUS
  <2>3. Field(msg, 5 + 0) = i
    BY <1>8, <1>7, <2>1, <2>2, FieldRead, Zenon
  <2> QED
    BY <2>3
<1>10. Field(msg, 9) = j
  <2>1. 4 \in Nat
    OBVIOUS
  <2>2. \A k \in 1..4 : body[4 + k] = U32(j)[k]
    BY <1>1
  <2>3. Field(msg, 5 + 4) = j
    BY <1>8, <1>7, <2>1, <2>2, FieldRead, Zenon
  <2> QED
    BY <2>3
<1>11. SubSeq(msg, 14, 13 + Len(tail)) = tail
  <2> DEFINE b == Len(tail)
  <2>1. \A k \in 1..b : 8 + k \in 1..Len(body) /\ 5 + (8 + k) = 13 + k
    <3> DEFINE a == Len(body)
    <3>1. b \in Nat /\ a = 8 + b
      BY <1>1, <1>2
    <3> HIDE DEF a, b
    <3>2. \A k \in 1..b : 8 + k \in 1..a /\ 5 + (8 + k) = 13 + k
      BY <3>1
    <3> QED
      BY <3>2 DEF a
  <2>2. \A k \in 1..b : msg[5 + (8 + k)] = body[8 + k] /\ body[8 + k] = tail[k]
    BY <1>1, <1>4, <2>1, Zenon
  <2>3. \A k \in 1..Len(tail) : msg[13 + k] = tail[k]
    BY <2>1, <2>2, Zenon
  <2>4. 13 \in Nat /\ 13 + Len(tail) <= Len(msg)
    <3> HIDE DEF b
    <3>1. b \in Nat /\ Len(msg) \in Nat /\ Len(msg) >= 13 + b
      BY <1>2, <1>6 DEF b
    <3>2. 13 + b <= Len(msg)
      BY <3>1
    <3> QED
      BY <3>2 DEF b
  <2>5. SubSeq(msg, 13 + 1, 13 + Len(tail)) = tail
    BY <1>4, <2>3, <2>4, StretchIs, Zenon
  <2> QED
    BY <2>5
<1>12. ASSUME NEW n \in U32s, tail = U32(n) PROVE Field(msg, 13) = n
  <2>1. Len(tail) = 4
    BY <1>12, U32Is
  <2>2. \A k \in 1..4 : body[8 + k] = U32(n)[k]
    BY <1>1, <1>12, <2>1
  <2>3. 8 \in Nat /\ 8 + 4 <= Len(body)
    BY <1>7, <2>1
  <2>4. Field(msg, 5 + 8) = n
    BY <1>8, <2>2, <2>3, FieldRead, Zenon
  <2> QED
    BY <2>4
<1> QED
  BY <1>2, <1>3, <1>4, <1>5, <1>6, <1>9, <1>10, <1>11, <1>12, Zenon DEF msg, f, body, Numbers

\* A request, or its cancel, which asks for nothing.
LEMMA RequestRead ==
  ASSUME NEW m \in Message, m.type \in {"Request", "Cancel"}, NEW rest \in Seq(Nat), NEW p \in PeerValue
  PROVE  /\ Encode(m) \in Seq(Nat) /\ Encode(m) # <<>>
         /\ Outcome(ParseMessage(p, Encode(m) \o rest), p, m)
<1> DEFINE i == m.index
           j == m.begin
           n == m.length
           tail == U32(n)
           kind == IF m.type = "Request" THEN 6 ELSE 8
           f == Framed(kind, U32(i) \o U32(j) \o tail)
           msg == f \o rest
<1>1. i \in U32s /\ j \in U32s /\ n \in U32s
  BY DEF Message
<1>2. Encode(m) = f
  BY DEF Encode
<1>3. tail \in Seq(Nat) /\ Len(tail) = 4 /\ kind \in Nat
  BY <1>1, U32Is
<1>4. 9 + Len(tail) \in U32s /\ 13 + Len(tail) = 17
  BY <1>3, SmallIs
<1>5. /\ f \in Seq(Nat) /\ f # <<>>
      /\ ParseMessage(p, msg) = ParseKind(p, msg, kind, 13 + Len(tail))
      /\ Len(msg) \in Nat /\ Len(msg) >= 13 + Len(tail)
      /\ Field(msg, 5) = i /\ Field(msg, 9) = j
      /\ \A q \in U32s : tail = U32(q) => Field(msg, 13) = q
  <2> HIDE DEF i, j, tail, kind
  <2>1. tail \in Seq(Nat) /\ kind \in Nat /\ 9 + Len(tail) \in U32s
    BY <1>3, <1>4, Zenon
  <2>2. Numbers(kind, i, j, tail, rest, p)
    BY <1>1, <2>1, NumbersRead, Zenon
  <2> QED
    BY <2>2, Zenon DEF Numbers
<1> HIDE DEF f, msg
<1>6. Field(msg, 13) = n
  BY <1>1, <1>5
<1> HIDE DEF tail
<1>7. ~(Len(msg) < 17)
  BY <1>4, <1>5
<1>8. Block(msg) = [index |-> i, begin |-> j, length |-> n]
  BY <1>5, <1>6 DEF Block
<1>9. CASE m.type = "Request"
  <2>1. ParseMessage(p, msg) = ParseRequest(p, msg)
    <3>1. kind = 6
      BY <1>9
    <3>2. ParseKind(p, msg, 6, 13 + Len(tail)) = ParseRequest(p, msg)
      BY KindRead
    <3> QED
      BY <1>5, <3>1, <3>2
  <2>2. ParseRequest(p, msg) = Result(p, [type |-> "Request", block |-> Block(msg)])
    BY <1>7 DEF ParseRequest
  <2>3. Outcome(ParseRequest(p, msg), p, m)
    BY <1>8, <1>9, <2>2 DEF Outcome, Result, None, Says
  <2> QED
    BY <1>2, <1>5, <2>1, <2>3 DEF msg
<1>10. CASE m.type = "Cancel"
  <2>1. ParseMessage(p, msg) = ParseCancel(p, msg)
    <3>1. kind = 8
      BY <1>10
    <3>2. ParseKind(p, msg, 8, 13 + Len(tail)) = ParseCancel(p, msg)
      BY KindRead
    <3> QED
      BY <1>5, <3>1, <3>2
  <2>2. Outcome(ParseCancel(p, msg), p, m)
    BY <1>10 DEF ParseCancel, Outcome, Result, None, Says, Error, Panic
  <2> QED
    BY <1>2, <1>5, <2>1, <2>2 DEF msg
<1> QED
  BY <1>9, <1>10

\* A sequence over a set is one over any larger set.
LEMMA Wider ==
  ASSUME NEW T, NEW S, S \subseteq T, NEW t \in Seq(S)
  PROVE  t \in Seq(T)
<1>1. Len(t) \in Nat /\ t = [i \in 1..Len(t) |-> t[i]]
  OBVIOUS
<1>2. \A i \in 1..Len(t) : t[i] \in T
  BY ElementOfSeq, Zenon
<1> DEFINE n == Len(t)
<1>3. t \in [1..n -> T]
  <2> HIDE DEF n
  <2> QED
    BY <1>1, <1>2 DEF n
<1> HIDE DEF n
<1> QED
  BY <1>1, <1>3 DEF n

\* A block.
LEMMA PieceRead ==
  ASSUME NEW m \in Message, m.type = "Piece", NEW rest \in Seq(Nat), NEW p \in PeerValue
  PROVE  /\ Encode(m) \in Seq(Nat) /\ Encode(m) # <<>>
         /\ Outcome(ParseMessage(p, Encode(m) \o rest), p, m)
<1> DEFINE i == m.index
           j == m.begin
           tail == m.data
           f == Framed(7, U32(i) \o U32(j) \o tail)
           msg == f \o rest
<1>1. i \in U32s /\ j \in U32s /\ tail \in Seq(0..Base - 1) /\ 9 + Len(tail) \in U32s
  BY DEF Message
<1>2. tail \in Seq(Nat)
  <2>1. 0..Base - 1 \subseteq Nat
    BY BaseIs
  <2> HIDE DEF tail
  <2> QED
    BY <1>1, <2>1, Wider, Zenon
<1>3. Encode(m) = f
  BY DEF Encode
<1> HIDE DEF i, j, tail
<1>4. /\ f \in Seq(Nat) /\ f # <<>>
      /\ ParseMessage(p, msg) = ParseKind(p, msg, 7, 13 + Len(tail))
      /\ Len(tail) \in Nat /\ Len(msg) \in Nat /\ Len(msg) >= 13 + Len(tail)
      /\ Field(msg, 5) = i /\ Field(msg, 9) = j
      /\ SubSeq(msg, 14, 13 + Len(tail)) = tail
  <2>1. 7 \in Nat
    OBVIOUS
  <2>2. Numbers(7, i, j, tail, rest, p)
    BY <1>1, <1>2, <2>1, NumbersRead, Zenon
  <2> QED
    BY <2>2, Zenon DEF Numbers
<1> HIDE DEF f, msg
<1>5. ParseMessage(p, msg) = ParsePiece(p, msg, 13 + Len(tail))
  <2>1. ParseKind(p, msg, 7, 13 + Len(tail)) = ParsePiece(p, msg, 13 + Len(tail))
    BY KindRead
  <2> QED
    BY <1>4, <2>1
<1>6. ~(13 + Len(tail) < 13) /\ ~(Len(msg) < 13)
  BY <1>4
<1>7. ParsePiece(p, msg, 13 + Len(tail)) = Result(p, [type |-> "Write", index |-> i, begin |-> j, data |-> tail])
  BY <1>4, <1>6, Zenon DEF ParsePiece
<1>8. Outcome(ParsePiece(p, msg, 13 + Len(tail)), p, m)
  BY <1>7 DEF Outcome, Result, None, Says, i, j, tail
<1> QED
  BY <1>3, <1>4, <1>5, <1>8 DEF msg

\* A port.
LEMMA PortRead ==
  ASSUME NEW m \in Message, m.type = "Port", NEW rest \in Seq(Nat), NEW p \in PeerValue
  PROVE  /\ Encode(m) \in Seq(Nat) /\ Encode(m) # <<>>
         /\ Outcome(ParseMessage(p, Encode(m) \o rest), p, m)
<1> DEFINE body == U32(m.port)
           f == Framed(9, body)
           msg == f \o rest
<1>1. Encode(m) = f
  BY DEF Encode
<1>2. body \in Seq(Nat) /\ Len(body) = 4
  <2>1. m.port \in U32s
    BY DEF Message
  <2> QED
    BY <2>1, U32Is
<1> HIDE DEF body
<1>3. 1 + Len(body) \in U32s /\ 9 \in Nat
  BY <1>2, SmallIs
<1>4. ParseMessage(p, msg) = ParseKind(p, msg, 9, 5 + Len(body)) /\ f \in Seq(Nat) /\ f # <<>>
  <2>1. body \in Seq(Nat)
    BY <1>2
  <2> QED
    BY <1>3, <2>1, FramedRead, FramedSome, Zenon
<1> HIDE DEF f, msg
<1>5. ParseMessage(p, msg) = Result(p, Panic)
  BY <1>4, KindRead
<1>6. Outcome(Result(p, Panic), p, m)
  BY DEF Outcome, Result, None, Says, Panic
<1> QED
  BY <1>1, <1>4, <1>5, <1>6 DEF msg

\* The first of the messages a read returned is carried out, whatever follows it.
LEMMA MessageRead ==
  ASSUME NEW m \in Message, NEW rest \in Seq(Nat), NEW p \in PeerValue
  PROVE  /\ Encode(m) \in Seq(Nat) /\ Encode(m) # <<>>
         /\ Outcome(ParseMessage(p, Encode(m) \o rest), p, m)
<1>1. m.type \in {"KeepAlive", "Choke", "Interested", "Have", "Bitfield", "Request", "Cancel",
                  "Piece", "Port"}
  BY DEF Message
<1> QED
  BY <1>1, KeepAliveRead, FlagRead, HaveRead, BitfieldRead, RequestRead, PieceRead, PortRead

----------------------------------------------------------------------------
(* The messages under way, and their bytes. *)

\* What is left of the bytes of some messages after each.
Chain(r, s) ==
    /\ r \in [0..Len(s) -> Seq(Nat)]
    /\ r[Len(s)] = <<>>
    /\ \A i \in 1..Len(s) : r[i - 1] = Encode(s[i]) \o r[i]

\* What a peer is taken for after each, from one view of it to another.
Told(h, s, from, to) ==
    /\ h \in [0..Len(s) -> PeerValue]
    /\ h[0] = from /\ h[Len(s)] = to
    /\ \A i \in 1..Len(s) : h[i] = Says(h[i - 1], s[i])

\* Encoders write bytes.
LEMMA EncodeIs ==
  ASSUME NEW m \in Message
  PROVE  Encode(m) \in Seq(Nat) /\ Encode(m) # <<>>
<1>1. NewPeer \in PeerValue /\ <<>> \in Seq(Nat)
  BY DEF NewPeer, PeerValue
<1> QED
  BY <1>1, MessageRead, Zenon

\* What is said of a peer is a peer.
LEMMA SaysIs ==
  ASSUME NEW p \in PeerValue, NEW m \in Message
  PROVE  Says(p, m) \in PeerValue /\ p.bits \subseteq Says(p, m).bits
<1>1. m.type \in {"KeepAlive", "Choke", "Interested", "Have", "Bitfield", "Request", "Cancel",
                  "Piece", "Port"}
  BY DEF Message
<1>2. CASE m.type = "Choke"
  BY <1>2 DEF Message, PeerValue, Says
<1>3. CASE m.type = "Interested"
  BY <1>3 DEF Message, PeerValue, Says
<1>4. CASE m.type = "Have"
  BY <1>4 DEF Message, PeerValue, Says
<1>5. CASE m.type = "Bitfield"
  BY <1>5 DEF Message, PeerValue, Says
<1>6. CASE m.type \in {"KeepAlive", "Request", "Cancel", "Piece", "Port"}
  BY <1>6 DEF PeerValue, Says
<1> QED
  BY <1>1, <1>2, <1>3, <1>4, <1>5, <1>6

\* The bytes up to the end of each message, one after the other.
Heads(g, s) ==
    /\ g \in [0..Len(s) -> Seq(Nat)]
    /\ g[0] = <<>>
    /\ \A i \in 1..Len(s) : g[i] = g[i - 1] \o Encode(s[i])

\* There are such bytes.
LEMMA HeadsExist ==
  ASSUME NEW s \in Seq(Message)
  PROVE  \E g : Heads(g, s)
<1> DEFINE N == Len(s)
           D == Seq(Nat)
           step == [n \in 1..N |-> [x \in D |-> x \o Encode(s[n])]]
<1>1. N \in Nat /\ <<>> \in D
  OBVIOUS
<1>2. \A n \in 1..N : s[n] \in Message
  BY ElementOfSeq, Zenon
<1>3. \A n \in 1..N, x \in D : x \o Encode(s[n]) \in D
  BY <1>2, EncodeIs, ConcatProperties, Zenon
<1>4. step \in [1..N -> [D -> D]]
  <2> HIDE DEF D, N
  <2> QED
    BY <1>3
<1>5. PICK g : Partial(g, D, <<>>, step, N)
  <2> HIDE DEF D, N, step
  <2> QED
    BY <1>1, <1>4, PartialExists
<1>6. \A n \in 1..N : g[n] = step[n][g[n - 1]] /\ g[n - 1] \in D
  <2> HIDE DEF step, D
  <2>1. g \in [0..N -> D] /\ \A n \in 1..N : g[n] = step[n][g[n - 1]]
    BY <1>5, Zenon DEF Partial
  <2>2. \A n \in 1..N : n - 1 \in 0..N
    BY <1>1
  <2> QED
    BY <2>1, <2>2
<1>7. \A n \in 1..N : g[n] = g[n - 1] \o Encode(s[n])
  BY <1>6, Zenon
<1>8. g \in [0..N -> D] /\ g[0] = <<>>
  <2> HIDE DEF step, D
  <2> QED
    BY <1>5, Zenon DEF Partial
<1> QED
  BY <1>7, <1>8, Zenon DEF Heads

\* These are the flattened encodings.
LEMMA FlatIs ==
  ASSUME NEW s \in Seq(Message), NEW g, Heads(g, s), NEW k \in 1..Len(s)
  PROVE  FlattenSeq([j \in 1..k |-> Encode(s[j])]) = g[k]
<1> DEFINE e == [j \in 1..k |-> Encode(s[j])]
           Body(f) == [i \in 1..Len(e) |-> IF i = 1 THEN e[i] ELSE f[i - 1] \o e[i]]
           h == CHOOSE f : f = Body(f)
           t == [i \in 1..k |-> g[i]]
<1>1. k \in Nat \ {0} /\ Len(e) = k /\ (\A i \in 1..k : e[i] = Encode(s[i]))
  <2>1. k \in Nat \ {0}
    OBVIOUS
  <2> QED
    BY <2>1
<1>2. \A i \in 1..k : i \in 1..Len(s) /\ i - 1 \in 0..Len(s) /\ (i # 1 => i - 1 \in 1..k)
  <2> DEFINE a == Len(s)
  <2>1. a \in Nat /\ k \in 1..a
    BY LengthIs
  <2> HIDE DEF a
  <2>2. \A i \in 1..k : i \in 1..a /\ i - 1 \in 0..a /\ (i # 1 => i - 1 \in 1..k)
    BY <2>1
  <2> QED
    BY <2>2 DEF a
<1>3. \A i \in 1..k : g[i] = g[i - 1] \o e[i]
  BY <1>1, <1>2, Zenon DEF Heads
<1>4. g[0] = <<>> /\ e[1] \in Seq(Nat) /\ \A i \in 1..k : g[i] \in Seq(Nat)
  <2>1. s[1] \in Message /\ 1 \in 1..k
    <3>1. 1 \in 1..k
      BY <1>1
    <3> QED
      BY <1>2, <3>1, ElementOfSeq, Zenon
  <2>2. g[0] = <<>> /\ \A i \in 0..Len(s) : g[i] \in Seq(Nat)
    BY DEF Heads
  <2>3. \A i \in 1..k : i \in 0..Len(s)
    BY <1>2
  <2> HIDE DEF e
  <2> QED
    BY <1>1, <2>1, <2>2, <2>3, EncodeIs, Zenon
<1> HIDE DEF e
<1>5. \A i \in 1..k : t[i] = IF i = 1 THEN e[i] ELSE t[i - 1] \o e[i]
  <2> TAKE i \in 1..k
  <2>1. CASE i = 1
    <3>1. i - 1 = 0
      BY <2>1
    <3>2. g[i] = <<>> \o e[i]
      BY <1>3, <1>4, <3>1
    <3>3. <<>> \o e[1] = e[1]
      BY <1>4, ConcatEmptySeq
    <3> QED
      BY <2>1, <3>2, <3>3
  <2>2. CASE i # 1
    BY <1>2, <1>3, <2>2
  <2> QED
    BY <2>1, <2>2
<1>6. t = Body(t)
  <2> HIDE DEF t
  <2>1. t = [i \in 1..k |-> t[i]]
    BY DEF t
  <2> QED
    BY <1>1, <1>5, <2>1
<1>7. h = Body(h)
  <2> HIDE DEF Body
  <2> QED
    BY <1>6, Zenon
<1>8. FlattenSeq(e) = h[k]
  <2>1. Len(e) # 0
    BY <1>1
  <2> QED
    BY <1>1, <2>1, Zenon DEF FlattenSeq
<1> HIDE DEF h
<1>9. \A i \in 1..k : h[i] = IF i = 1 THEN e[i] ELSE h[i - 1] \o e[i]
  BY <1>1, <1>7, Zenon
<1> DEFINE T == {i \in 0..k : i = 0 \/ h[i] = t[i]}
<1>10. \A i \in 0..k : i \in T
  <2>1. 0 \in T
    BY <1>1
  <2>2. ASSUME NEW i \in 0..k - 1, i \in T PROVE i + 1 \in T
    <3>1. i + 1 \in 1..k /\ (i + 1) - 1 = i /\ i + 1 \in 0..k /\ (i + 1 = 1 <=> i = 0)
      BY <1>1
    <3> HIDE DEF t
    <3>2. h[i + 1] = IF i = 0 THEN e[i + 1] ELSE h[i] \o e[i + 1]
      BY <1>9, <3>1
    <3>3. t[i + 1] = IF i = 0 THEN e[i + 1] ELSE t[i] \o e[i + 1]
      BY <1>5, <3>1
    <3> QED
      BY <2>2, <3>1, <3>2, <3>3
  <2> HIDE DEF T
  <2>3. \A i \in 0..k - 1 : i \in T => i + 1 \in T
    BY <2>2
  <2>4. k \in Nat
    BY <1>1
  <2> QED
    BY <2>1, <2>3, <2>4, Counting
<1>11. h[k] = t[k]
  <2>1. k \in 0..k /\ k # 0 /\ k \in 1..k
    BY <1>1
  <2> QED
    BY <1>10, <2>1
<1>12. t[k] = g[k]
  BY <1>1
<1> QED
  BY <1>8, <1>11, <1>12 DEF e

\* How many there are.
LEMMA CountIs == \A s \in Seq(Message) : Len(s) \in Nat
OBVIOUS

\* Where the joining of bytes starts does not matter.
LEMMA JoinedAgain ==
  ASSUME NEW s \in Seq(Nat), NEW t \in Seq(Nat), NEW u \in Seq(Nat)
  PROVE  (s \o t) \o u = s \o (t \o u)
BY ConcatAssociative

\* What is in the pipe is the bytes of the first messages and what is left then.
LEMMA ChainSplit ==
  ASSUME NEW s \in Seq(Message), NEW r, Chain(r, s), NEW g, Heads(g, s)
  PROVE  \A k \in 0..Len(s) : r[0] = g[k] \o r[k]
<1> DEFINE N == Len(s)
           T == {k \in 0..N : r[0] = g[k] \o r[k]}
<1>1. N \in Nat /\ \A k \in 0..N : g[k] \in Seq(Nat) /\ r[k] \in Seq(Nat)
  BY CountIs, Zenon DEF Chain, Heads
<1>2. \A n \in 1..N : s[n] \in Message
  BY ElementOfSeq, Zenon
<1>3. g[0] = <<>> /\ \A i \in 1..N : g[i] = g[i - 1] \o Encode(s[i]) /\ r[i - 1] = Encode(s[i]) \o r[i]
  BY DEF Chain, Heads
<1> HIDE DEF N
<1>4. 0 \in T
  <2>1. 0 \in 0..N
    BY <1>1
  <2>2. r[0] = <<>> \o r[0]
    BY <1>1, <2>1, ConcatEmptySeq, Zenon
  <2> QED
    BY <1>3, <2>1, <2>2
<1>5. ASSUME NEW n \in 0..N - 1, n \in T PROVE n + 1 \in T
  <2>1. n + 1 \in 1..N /\ n + 1 \in 0..N /\ n \in 0..N /\ (n + 1) - 1 = n
    BY <1>1
  <2> DEFINE e == Encode(s[n + 1])
  <2>2. e \in Seq(Nat) /\ g[n + 1] = g[n] \o e /\ r[n] = e \o r[n + 1]
    <3>1. s[n + 1] \in Message
      BY <1>2, <2>1
    <3>2. g[n + 1] = g[(n + 1) - 1] \o e /\ r[(n + 1) - 1] = e \o r[n + 1]
      BY <1>3, <2>1
    <3> QED
      BY <2>1, <3>1, <3>2, EncodeIs
  <2> HIDE DEF e
  <2>3. g[n] \in Seq(Nat) /\ r[n + 1] \in Seq(Nat)
    BY <1>1, <2>1
  <2>4. (g[n] \o e) \o r[n + 1] = g[n] \o (e \o r[n + 1])
    BY <2>2, <2>3, JoinedAgain, Zenon
  <2> QED
    BY <1>5, <2>1, <2>2, <2>4
<1> HIDE DEF T
<1>6. \A n \in 0..N - 1 : n \in T => n + 1 \in T
  BY <1>5
<1>7. \A k \in 0..N : k \in T
  BY <1>1, <1>4, <1>6, Counting
<1> QED
  BY <1>7 DEF T, N

\* The bytes of some messages are those of the first and more.
LEMMA HeadsStart ==
  ASSUME NEW s \in Seq(Message), NEW g, Heads(g, s), NEW k \in 1..Len(s)
  PROVE  \E rest \in Seq(Nat) : g[k] = Encode(s[1]) \o rest
<1> DEFINE N == Len(s)
           first == Encode(s[1])
           T == {n \in 0..N : n = 0 \/ \E rest \in Seq(Nat) : g[n] = first \o rest}
<1>1. N \in Nat /\ k \in 1..N
  BY CountIs, Zenon
<1>2. \A n \in 1..N : s[n] \in Message
  BY ElementOfSeq, Zenon
<1>3. g[0] = <<>> /\ \A i \in 1..N : g[i] = g[i - 1] \o Encode(s[i])
  BY DEF Heads
<1> HIDE DEF N
<1>4. first \in Seq(Nat) /\ <<>> \in Seq(Nat)
  <2>1. 1 \in 1..N
    BY <1>1
  <2> QED
    BY <1>2, <2>1, EncodeIs
<1>5. 0 \in T
  BY <1>1
<1>6. ASSUME NEW n \in 0..N - 1, n \in T PROVE n + 1 \in T
  <2>1. n + 1 \in 1..N /\ n + 1 \in 0..N /\ (n + 1) - 1 = n
    BY <1>1
  <2> DEFINE e == Encode(s[n + 1])
  <2>2. e \in Seq(Nat) /\ g[n + 1] = g[n] \o e
    <3>1. s[n + 1] \in Message
      BY <1>2, <2>1
    <3>2. g[n + 1] = g[(n + 1) - 1] \o e
      BY <1>3, <2>1
    <3> QED
      BY <2>1, <3>1, <3>2, EncodeIs
  <2>3. CASE n = 0
    <3>1. n + 1 = 1
      BY <2>3
    <3>2. e = first
      BY <3>1
    <3> HIDE DEF first, e
    <3>3. <<>> \o e = e /\ first \o <<>> = first
      BY <1>4, <2>2, ConcatEmptySeq
    <3>4. g[n + 1] = first \o <<>>
      BY <1>3, <2>2, <2>3, <3>2, <3>3
    <3> QED
      BY <1>4, <2>1, <3>4
  <2>4. CASE n # 0
    <3> HIDE DEF first, e
    <3>1. PICK rest \in Seq(Nat) : g[n] = first \o rest
      BY <1>6, <2>4
    <3>2. (first \o rest) \o e = first \o (rest \o e)
      BY <1>4, <2>2, JoinedAgain, Zenon
    <3>3. rest \o e \in Seq(Nat)
      BY <2>2, ConcatProperties, Zenon
    <3> QED
      BY <2>1, <2>2, <3>1, <3>2, <3>3
  <2> QED
    BY <2>3, <2>4
<1> HIDE DEF T
<1>7. \A n \in 0..N - 1 : n \in T => n + 1 \in T
  BY <1>6
<1>8. k \in T
  <2>1. \A n \in 0..N : n \in T
    BY <1>1, <1>5, <1>7, Counting
  <2>2. k \in 0..N
    BY <1>1
  <2> QED
    BY <2>1, <2>2
<1>9. k # 0
  BY <1>1
<1> QED
  BY <1>8, <1>9 DEF T

\* One more message.
LEMMA AppendIs ==
  ASSUME NEW s \in Seq(Message), NEW m \in Message
  PROVE  /\ Append(s, m) \in Seq(Message) /\ Len(Append(s, m)) = Len(s) + 1 /\ Len(s) \in Nat
         /\ \A i \in 1..Len(s) : Append(s, m)[i] = s[i]
         /\ Append(s, m)[Len(s) + 1] = m
BY AppendProperties

\* The bytes when one more message is sent.
LEMMA ChainAppend ==
  ASSUME NEW s \in Seq(Message), NEW m \in Message, NEW r, Chain(r, s)
  PROVE  \E q : Chain(q, Append(s, m)) /\ q[0] = r[0] \o Encode(m) /\ r[0] \in Seq(Nat)
<1> DEFINE N == Len(s)
           u == Append(s, m)
           e == Encode(m)
           q == [i \in 0..N + 1 |-> IF i <= N THEN r[i] \o e ELSE <<>>]
<1>1. /\ N \in Nat /\ Len(u) = N + 1 /\ (\A i \in 1..N : u[i] = s[i]) /\ u[N + 1] = m
      /\ \A i \in 1..N : s[i] \in Message
  BY AppendIs, ElementOfSeq, Zenon
<1>2. e \in Seq(Nat) /\ <<>> \in Seq(Nat)
  BY EncodeIs
<1>3. /\ \A i \in 0..N : r[i] \in Seq(Nat)
      /\ r[N] = <<>>
      /\ \A i \in 1..N : r[i - 1] = Encode(s[i]) \o r[i]
  BY DEF Chain
<1> HIDE DEF N, u
<1>4. \A i \in 0..N : r[i] \o e \in Seq(Nat)
  <2> HIDE DEF e
  <2> QED
    BY <1>2, <1>3, ConcatProperties, Zenon
<1>5. q \in [0..Len(u) -> Seq(Nat)]
  <2> HIDE DEF e
  <2>1. \A i \in 0..N + 1 : i <= N => i \in 0..N
    BY <1>1
  <2> QED
    BY <1>1, <1>2, <1>4, <2>1
<1>6. q[Len(u)] = <<>>
  BY <1>1
<1>7. ASSUME NEW i \in 1..N + 1 PROVE q[i - 1] = Encode(u[i]) \o q[i]
  <2>1. CASE i = N + 1
    <3>1. q[i - 1] = r[N] \o e /\ q[i] = <<>> /\ u[i] = m
      <4>1. i - 1 = N /\ N \in 0..N + 1 /\ N <= N /\ i \in 0..N + 1 /\ ~(i <= N)
        BY <1>1, <2>1
      <4> HIDE DEF e
      <4> QED
        BY <1>1, <2>1, <4>1
    <3>2. <<>> \o e = e /\ e \o <<>> = e
      <4> HIDE DEF e
      <4> QED
        BY <1>2, ConcatEmptySeq
    <3> HIDE DEF q
    <3> QED
      BY <1>3, <3>1, <3>2
  <2>2. CASE i # N + 1
    <3>1. i \in 1..N /\ i - 1 \in 0..N /\ i \in 0..N /\ i - 1 <= N /\ i <= N /\ i - 1 \in 0..N + 1 /\ i \in 0..N + 1
      BY <1>1, <2>2
    <3>2. q[i - 1] = r[i - 1] \o e /\ q[i] = r[i] \o e /\ u[i] = s[i]
      BY <1>1, <3>1
    <3>3. Encode(s[i]) \in Seq(Nat)
      BY <1>1, <3>1, EncodeIs
    <3> HIDE DEF e, q
    <3>4. (Encode(s[i]) \o r[i]) \o e = Encode(s[i]) \o (r[i] \o e)
      <4>1. r[i] \in Seq(Nat)
        BY <1>3, <3>1
      <4> QED
        BY <1>2, <3>3, <4>1, JoinedAgain, Zenon
    <3> QED
      BY <1>3, <3>1, <3>2, <3>4
  <2> QED
    BY <2>1, <2>2
<1>8. q[0] = r[0] \o e /\ r[0] \in Seq(Nat)
  <2>1. 0 \in 0..N /\ 0 \in 0..N + 1 /\ 0 <= N
    BY <1>1
  <2> QED
    BY <1>3, <2>1
<1>9. Chain(q, u)
  <2> HIDE DEF q
  <2> QED
    BY <1>1, <1>5, <1>6, <1>7 DEF Chain
<1> QED
  BY <1>8, <1>9 DEF u

\* What the sender is taken for after one more.
LEMMA ToldAppend ==
  ASSUME NEW s \in Seq(Message), NEW m \in Message, NEW h, NEW p, NEW q, Told(h, s, p, q)
  PROVE  \E g : Told(g, Append(s, m), p, Says(q, m))
<1> DEFINE N == Len(s)
           u == Append(s, m)
           g == [i \in 0..N + 1 |-> IF i <= N THEN h[i] ELSE Says(q, m)]
<1>1. N \in Nat /\ Len(u) = N + 1 /\ (\A i \in 1..N : u[i] = s[i]) /\ u[N + 1] = m
  BY AppendIs, Zenon
<1>2. /\ \A i \in 0..N : h[i] \in PeerValue
      /\ h[0] = p /\ h[N] = q
      /\ \A i \in 1..N : h[i] = Says(h[i - 1], s[i])
  BY DEF Told
<1> HIDE DEF N, u
<1>3. Says(q, m) \in PeerValue
  <2>1. q \in PeerValue
    BY <1>1, <1>2
  <2> QED
    BY <2>1, SaysIs
<1>4. g \in [0..Len(u) -> PeerValue]
  <2>1. \A i \in 0..N + 1 : i <= N => i \in 0..N
    BY <1>1
  <2> QED
    BY <1>1, <1>2, <1>3, <2>1
<1>5. g[0] = p /\ g[Len(u)] = Says(q, m)
  <2>1. 0 \in 0..N + 1 /\ 0 <= N /\ N + 1 \in 0..N + 1 /\ ~(N + 1 <= N)
    BY <1>1
  <2> QED
    BY <1>1, <1>2, <2>1
<1>6. ASSUME NEW i \in 1..N + 1 PROVE g[i] = Says(g[i - 1], u[i])
  <2>1. i \in 0..N + 1 /\ i - 1 \in 0..N + 1 /\ i - 1 <= N /\ (i # N + 1 => i \in 1..N /\ i <= N) /\ (i = N + 1 => i - 1 = N /\ ~(i <= N))
    BY <1>1
  <2>2. g[i - 1] = h[i - 1]
    BY <2>1
  <2>3. CASE i = N + 1
    BY <1>1, <1>2, <2>1, <2>2, <2>3
  <2>4. CASE i # N + 1
    <3>1. g[i] = h[i] /\ u[i] = s[i]
      BY <1>1, <2>1, <2>4
    <3> QED
      BY <1>2, <2>1, <2>2, <2>4, <3>1
  <2> QED
    BY <2>3, <2>4
<1> HIDE DEF g
<1>7. Told(g, u, p, Says(q, m))
  BY <1>1, <1>4, <1>5, <1>6 DEF Told
<1> QED
  BY <1>7 DEF u

\* Some messages less.
LEMMA DroppedIs ==
  ASSUME NEW s \in Seq(Message), NEW k \in 0..Len(s)
  PROVE  LET u == SubSeq(s, k + 1, Len(s))
         IN  /\ u \in Seq(Message) /\ Len(u) = Len(s) - k
             /\ \A i \in 1..Len(s) - k : u[i] = s[k + i] /\ k + i \in 1..Len(s)
<1> DEFINE a == Len(s)
           u == SubSeq(s, k + 1, a)
<1>1. a \in Nat /\ \A i \in 1..a : s[i] \in Message
  <2>1. a \in Nat
    OBVIOUS
  <2> QED
    BY <2>1, ElementOfSeq, Zenon
<1> HIDE DEF a
<1>2. k \in 0..a
  BY DEF a
<1>3. k + 1 \in Int /\ a \in Int /\ (\A i \in k + 1..a : s[i] \in Message)
      /\ a - (k + 1) + 1 = a - k /\ (k + 1 <= a <=> a - k # 0)
  <2>1. \A i \in k + 1..a : i \in 1..a
    BY <1>1, <1>2
  <2> QED
    BY <1>1, <1>2, <2>1
<1>4. /\ u \in Seq(Message) /\ Len(u) = IF k + 1 <= a THEN a - (k + 1) + 1 ELSE 0
      /\ \A i \in 1..a - (k + 1) + 1 : u[i] = s[(k + 1) + i - 1]
  BY <1>3, SubSeqProperties
<1> HIDE DEF u
<1>5. Len(u) = a - k
  BY <1>1, <1>2, <1>3, <1>4
<1>6. ASSUME NEW i \in 1..a - k PROVE u[i] = s[k + i] /\ k + i \in 1..a
  <2>1. (k + 1) + i - 1 = k + i /\ k + i \in 1..a
    BY <1>1, <1>2
  <2> QED
    BY <1>3, <1>4, <2>1
<1> QED
  BY <1>4, <1>5, <1>6 DEF u, a

\* The bytes when the first messages are read.
LEMMA ChainDrop ==
  ASSUME NEW s \in Seq(Message), NEW r, Chain(r, s), NEW k \in 0..Len(s)
  PROVE  \E q : Chain(q, SubSeq(s, k + 1, Len(s))) /\ q[0] = r[k]
<1> DEFINE N == Len(s)
           u == SubSeq(s, k + 1, N)
           q == [i \in 0..N - k |-> r[k + i]]
<1>1. N \in Nat /\ k \in 0..N /\ u \in Seq(Message) /\ Len(u) = N - k
      /\ \A i \in 1..N - k : u[i] = s[k + i] /\ k + i \in 1..N
  BY DroppedIs, CountIs, Zenon
<1>2. /\ \A i \in 0..N : r[i] \in Seq(Nat)
      /\ r[N] = <<>>
      /\ \A i \in 1..N : r[i - 1] = Encode(s[i]) \o r[i]
  BY DEF Chain
<1> HIDE DEF N, u
<1>3. \A i \in 0..N - k : k + i \in 0..N /\ (i # 0 => k + (i - 1) = (k + i) - 1 /\ i - 1 \in 0..N - k)
  BY <1>1
<1>4. q \in [0..Len(u) -> Seq(Nat)]
  BY <1>1, <1>2, <1>3
<1>5. q[Len(u)] = <<>> /\ q[0] = r[k]
  <2>1. N - k \in 0..N - k /\ 0 \in 0..N - k /\ k + (N - k) = N /\ k + 0 = k
    BY <1>1
  <2> QED
    BY <1>1, <1>2, <2>1
<1>6. ASSUME NEW i \in 1..N - k PROVE q[i - 1] = Encode(u[i]) \o q[i]
  <2>1. i \in 0..N - k /\ i # 0
    BY <1>1
  <2>2. q[i] = r[k + i] /\ q[i - 1] = r[(k + i) - 1] /\ u[i] = s[k + i] /\ k + i \in 1..N
    BY <1>1, <1>3, <2>1
  <2> HIDE DEF q
  <2> QED
    BY <1>2, <2>2
<1> HIDE DEF q
<1>7. Chain(q, u)
  BY <1>1, <1>4, <1>5, <1>6 DEF Chain
<1> QED
  BY <1>5, <1>7 DEF u, N

\* What the sender is taken for after these, from there on.
LEMMA ToldDrop ==
  ASSUME NEW s \in Seq(Message), NEW h, NEW p, NEW q, Told(h, s, p, q), NEW k \in 0..Len(s)
  PROVE  \E g : Told(g, SubSeq(s, k + 1, Len(s)), h[k], q)
<1> DEFINE N == Len(s)
           u == SubSeq(s, k + 1, N)
           g == [i \in 0..N - k |-> h[k + i]]
<1>1. N \in Nat /\ k \in 0..N /\ u \in Seq(Message) /\ Len(u) = N - k
      /\ \A i \in 1..N - k : u[i] = s[k + i] /\ k + i \in 1..N
  BY DroppedIs, CountIs, Zenon
<1>2. /\ \A i \in 0..N : h[i] \in PeerValue
      /\ h[N] = q
      /\ \A i \in 1..N : h[i] = Says(h[i - 1], s[i])
  BY DEF Told
<1> HIDE DEF N, u
<1>3. \A i \in 0..N - k : k + i \in 0..N /\ (i # 0 => k + (i - 1) = (k + i) - 1 /\ i - 1 \in 0..N - k)
  BY <1>1
<1>4. g \in [0..Len(u) -> PeerValue]
  BY <1>1, <1>2, <1>3
<1>5. g[Len(u)] = q /\ g[0] = h[k]
  <2>1. N - k \in 0..N - k /\ 0 \in 0..N - k /\ k + (N - k) = N /\ k + 0 = k
    BY <1>1
  <2> QED
    BY <1>1, <1>2, <2>1
<1>6. ASSUME NEW i \in 1..N - k PROVE g[i] = Says(g[i - 1], u[i])
  <2>1. i \in 0..N - k /\ i # 0
    BY <1>1
  <2>2. g[i] = h[k + i] /\ g[i - 1] = h[(k + i) - 1] /\ u[i] = s[k + i] /\ k + i \in 1..N
    BY <1>1, <1>3, <2>1
  <2> HIDE DEF g
  <2> QED
    BY <1>2, <2>2
<1> HIDE DEF g
<1>7. Told(g, u, h[k], q)
  BY <1>1, <1>4, <1>5, <1>6 DEF Told
<1> QED
  BY <1>7 DEF u, N

----------------------------------------------------------------------------
(* The inductive invariant. *)

\* The pieces a message announces.
Announced(m) ==
    CASE m.type = "Have" -> {m.piece}
      [] m.type = "Bitfield" -> m.bits
      [] OTHER -> {}

\* What the last read carried out is something a peer may send.
Heard(a) ==
    /\ a.type = "Write" =>
           \E m \in Payload : /\ m.type = "Piece"
                              /\ m.index = a.index /\ m.begin = a.begin /\ m.data = a.data
    /\ a.type = "Request" =>
           \E m \in Payload : /\ m.type = "Request"
                              /\ m.index = a.block.index /\ m.begin = a.block.begin
                              /\ m.length = a.block.length

\* The bytes in the pipe are those of the messages not read, until a read cuts one
\* in two; what the sender said is what the reader knows and what these tell, until
\* one reads several.
WireInv ==
    /\ unread \in Seq(Payload) /\ said \in PeerValue
    /\ pc = "handshake" =>
           /\ framed = "exact" /\ peer = NewPeer /\ action = None
           /\ \E r : Chain(r, unread) /\ pipe = Handshake(SenderId, Hash) \o r[0]
    /\ pc = "messages" /\ framed # "split" =>
           /\ id = SenderId /\ peer \in PeerValue /\ peer.bits \subseteq said.bits /\ Heard(action)
           /\ \E r : Chain(r, unread) /\ pipe = r[0]
    /\ pc # "ended" /\ framed # "split" =>
           \A i \in 1..Len(unread) : Announced(unread[i]) \subseteq said.bits
    /\ pc # "ended" /\ framed = "exact" => \E h : Told(h, unread, peer, said)

\* At first only the handshake is in the pipe.
LEMMA WireInit == Init => WireInv
<1> SUFFICES ASSUME Init PROVE WireInv
  OBVIOUS
<1> DEFINE r == [i \in {0} |-> <<>>]
           h == [i \in {0} |-> NewPeer]
<1>1. unread = <<>> /\ unread \in Seq(Payload) /\ Len(unread) = 0 /\ said = NewPeer /\ peer = NewPeer
      /\ pc = "handshake" /\ framed = "exact" /\ action = None /\ pipe = Handshake(SenderId, Hash)
  BY DEF Init
<1>2. NewPeer \in PeerValue
  BY DEF NewPeer, PeerValue
<1>3. 0..0 = {0} /\ 1..0 = {} /\ <<>> \in Seq(Nat)
  OBVIOUS
<1>4. Chain(r, unread)
  <2>1. r \in [{0} -> Seq(Nat)] /\ r[0] = <<>>
    BY <1>3
  <2> HIDE DEF r
  <2> QED
    BY <1>1, <1>3, <2>1 DEF Chain
<1>5. Told(h, unread, peer, said)
  <2>1. h \in [{0} -> PeerValue] /\ h[0] = NewPeer
    BY <1>2
  <2> HIDE DEF h
  <2> QED
    BY <1>1, <1>3, <2>1 DEF Told
<1>6. Handshake(SenderId, Hash) = Handshake(SenderId, Hash) \o <<>>
  BY DEF Handshake, SenderId, Hash, Pstr
<1>7. r[0] = <<>>
  OBVIOUS
<1> HIDE DEF r, h
<1>8. \E q : Chain(q, unread) /\ pipe = Handshake(SenderId, Hash) \o q[0]
  BY <1>1, <1>4, <1>6, <1>7
<1>9. \E g : Told(g, unread, peer, said)
  BY <1>5
<1>10. \A i \in 1..Len(unread) : Announced(unread[i]) \subseteq said.bits
  BY <1>1, <1>3
<1>11. pc # "messages"
  BY <1>1
<1> QED
  BY <1>1, <1>2, <1>8, <1>9, <1>10, <1>11, Zenon DEF WireInv

\* Messages are those of Message.
LEMMA UnreadIs ==
  ASSUME NEW s \in Seq(Payload)
  PROVE  s \in Seq(Message) /\ Len(s) \in Nat /\ \A i \in 1..Len(s) : s[i] \in Payload /\ s[i] \in Message
<1>1. s \in Seq(Message)
  BY PayloadAssumption, Wider
<1>2. \A i \in 1..Len(s) : s[i] \in Payload
  BY ElementOfSeq, Zenon
<1> QED
  BY <1>1, <1>2, CountIs, PayloadAssumption

\* What is left of the messages is more of them.
LEMMA DroppedPayload ==
  ASSUME NEW s \in Seq(Payload), NEW k \in 0..Len(s)
  PROVE  SubSeq(s, k + 1, Len(s)) \in Seq(Payload)
<1>1. Len(s) \in Nat /\ \A i \in 1..Len(s) : s[i] \in Payload
  BY UnreadIs
<1> DEFINE a == Len(s)
<1>2. \A i \in k + 1..a : i \in 1..a
  BY <1>1
<1>3. k + 1 \in Int /\ a \in Int /\ \A i \in k + 1..a : s[i] \in Payload
  BY <1>1, <1>2
<1> HIDE DEF a
<1>4. SubSeq(s, k + 1, a) \in Seq(Payload)
  BY <1>3, SubSeqProperties
<1> QED
  BY <1>4 DEF a

\* What is announced has been said.
LEMMA AnnouncedIs ==
  ASSUME NEW p \in PeerValue, NEW m \in Message
  PROVE  Says(p, m).bits = p.bits \cup Announced(m)
<1>1. m.type \in {"KeepAlive", "Choke", "Interested", "Have", "Bitfield", "Request", "Cancel",
                  "Piece", "Port"}
  BY DEF Message
<1> QED
  BY <1>1 DEF PeerValue, Says, Announced

\* The peer sends.
LEMMA SendKeeps ==
  ASSUME WireInv, NEW m \in Payload, Send(m)
  PROVE  WireInv'
<1> DEFINE e == Encode(m)
           s == Append(unread, m)
<1>1. m \in Message /\ unread \in Seq(Payload) /\ unread \in Seq(Message) /\ said \in PeerValue
  BY PayloadAssumption, UnreadIs DEF WireInv
<1>2. /\ pipe' = pipe \o e /\ said' = Says(said, m)
      /\ pc' = pc /\ peer' = peer /\ id' = id /\ action' = action /\ framed' = framed
      /\ framed = "split" => unread' = unread
      /\ framed # "split" => unread' = s
  BY DEF Send
<1>3. said' \in PeerValue /\ said.bits \subseteq said'.bits /\ said'.bits = said.bits \cup Announced(m)
  BY <1>1, <1>2, SaysIs, AnnouncedIs
<1>4. unread' \in Seq(Payload)
  BY <1>1, <1>2
<1>5. e \in Seq(Nat)
  BY <1>1, EncodeIs
<1> HIDE DEF e, s
<1>6. ASSUME framed # "split", NEW r, Chain(r, unread)
      PROVE  \E q : Chain(q, unread') /\ q[0] = r[0] \o e /\ r[0] \in Seq(Nat)
  BY <1>1, <1>2, <1>6, ChainAppend, Zenon DEF e, s
<1>7. ASSUME pc = "handshake"
      PROVE  \E q : Chain(q, unread') /\ pipe' = Handshake(SenderId, Hash) \o q[0]
  <2>1. PICK r : Chain(r, unread) /\ pipe = Handshake(SenderId, Hash) \o r[0]
    BY <1>7 DEF WireInv
  <2>2. PICK q : Chain(q, unread') /\ q[0] = r[0] \o e /\ r[0] \in Seq(Nat)
    BY <1>6, <1>7, <2>1 DEF WireInv
  <2>3. Handshake(SenderId, Hash) \in Seq(Nat)
    BY DEF Handshake, SenderId, Hash, Pstr
  <2>4. (Handshake(SenderId, Hash) \o r[0]) \o e = Handshake(SenderId, Hash) \o (r[0] \o e)
    BY <1>5, <2>2, <2>3, JoinedAgain
  <2> QED
    BY <1>2, <2>1, <2>2, <2>4
<1>8. ASSUME pc = "messages", framed # "split"
      PROVE  \E q : Chain(q, unread') /\ pipe' = q[0]
  <2>1. PICK r : Chain(r, unread) /\ pipe = r[0]
    BY <1>8 DEF WireInv
  <2>2. PICK q : Chain(q, unread') /\ q[0] = r[0] \o e
    BY <1>6, <1>8, <2>1
  <2> QED
    BY <1>2, <2>1, <2>2
<1>9. ASSUME pc # "ended", framed # "split", NEW i \in 1..Len(unread')
      PROVE  Announced(unread'[i]) \subseteq said'.bits
  <2>1. /\ Len(unread') = Len(unread) + 1 /\ Len(unread) \in Nat
        /\ \A j \in 1..Len(unread) : unread'[j] = unread[j]
        /\ unread'[Len(unread) + 1] = m
    BY <1>1, <1>2, <1>9, AppendIs DEF s
  <2>2. i \in 1..Len(unread) \/ i = Len(unread) + 1
    BY <2>1
  <2>3. CASE i \in 1..Len(unread)
    <3>1. Announced(unread[i]) \subseteq said.bits
      BY <1>9, <2>3 DEF WireInv
    <3>2. unread'[i] = unread[i]
      BY <2>1, <2>3
    <3> QED
      BY <1>3, <3>1, <3>2
  <2>4. CASE i = Len(unread) + 1
    BY <1>3, <2>1, <2>4
  <2> QED
    BY <2>2, <2>3, <2>4
<1>10. ASSUME pc # "ended", framed = "exact" PROVE \E g : Told(g, unread', peer, said')
  <2>1. PICK h : Told(h, unread, peer, said)
    BY <1>10 DEF WireInv
  <2>2. unread' = s
    BY <1>2, <1>10
  <2> QED
    BY <1>1, <1>2, <2>1, <2>2, ToldAppend DEF s
<1>11. pc = "handshake" => framed = "exact" /\ peer = NewPeer /\ action = None
  BY DEF WireInv
<1>12. pc = "messages" /\ framed # "split" =>
           id = SenderId /\ peer \in PeerValue /\ peer.bits \subseteq said'.bits /\ Heard(action)
  BY <1>3 DEF WireInv
<1> QED
  BY <1>2, <1>3, <1>4, <1>7, <1>8, <1>9, <1>10, <1>11, <1>12 DEF WireInv

\* The parts of a sequence put together are where they were put.
LEMMA CutIs ==
  ASSUME NEW s \in Seq(Nat), NEW t \in Seq(Nat)
  PROVE  /\ SubSeq(s \o t, 1, Len(s)) = s
         /\ SubSeq(s \o t, Len(s) + 1, Len(s \o t)) = t
<1> DEFINE u == s \o t
           a == Len(s)
           b == Len(t)
<1>1. /\ u \in Seq(Nat) /\ Len(u) = a + b
      /\ (\A k \in 1..a : u[k] = s[k]) /\ \A k \in 1..b : u[a + k] = t[k]
  BY JoinedIs
<1>2. a \in Nat /\ b \in Nat
  OBVIOUS
<1> HIDE DEF u
<1>3. SubSeq(u, 0 + 1, 0 + a) = s
  <2>1. 0 \in Nat /\ 0 + a <= Len(u)
    <3> HIDE DEF a, b
    <3> QED
      BY <1>1, <1>2
  <2>2. \A k \in 1..a : u[0 + k] = s[k]
    <3>1. \A k \in 1..a : 0 + k = k
      BY <1>2
    <3> QED
      BY <1>1, <3>1, Zenon
  <2> QED
    BY <1>1, <2>1, <2>2, StretchIs, Zenon
<1>4. SubSeq(u, a + 1, a + b) = t
  <2>1. a + b <= Len(u)
    <3> HIDE DEF a, b
    <3> QED
      BY <1>1, <1>2
  <2> QED
    BY <1>1, <1>2, <2>1, StretchIs, Zenon
<1>5. SubSeq(u, 1, a) = s
  <2>1. 0 + 1 = 1 /\ 0 + a = a
    <3> HIDE DEF a
    <3> QED
      BY <1>2
  <2> QED
    BY <1>3, <2>1
<1> QED
  BY <1>1, <1>4, <1>5 DEF u

\* The reader takes the handshake.
LEMMA HandshakeKeeps ==
  ASSUME WireInv, ReadHandshake
  PROVE  WireInv'
<1>1. /\ pc = "handshake" /\ framed = "exact" /\ peer = NewPeer /\ action = None
      /\ unread \in Seq(Payload) /\ said \in PeerValue
      /\ \A i \in 1..Len(unread) : Announced(unread[i]) \subseteq said.bits
      /\ \E h : Told(h, unread, peer, said)
  BY DEF WireInv, ReadHandshake
<1>2. PICK r : Chain(r, unread) /\ pipe = Handshake(SenderId, Hash) \o r[0]
  BY <1>1 DEF WireInv
<1> DEFINE Buf(n) == [k \in 1..HSLEN |-> IF k <= n THEN pipe[k] ELSE 0]
<1>3. PICK n \in 1..Min({HSLEN, Len(pipe)}) :
          /\ pipe' = SubSeq(pipe, n + 1, Len(pipe))
          /\ framed' = IF n = HSLEN THEN framed ELSE "split"
          /\ unread' = IF n = HSLEN THEN unread ELSE <<>>
          /\ IF HandshakeValid(Buf(n)) /\ HandshakeHash(Buf(n)) = Hash
             THEN pc' = "messages" /\ id' = HandshakeId(Buf(n))
             ELSE pc' = "ended" /\ UNCHANGED id
  BY Zenon DEF ReadHandshake
<1>4. peer' = peer /\ action' = action /\ said' = said /\ pc' \in {"messages", "ended"}
  BY <1>3, Zenon DEF ReadHandshake
<1>5. CASE n # HSLEN
  <2>1. framed' = "split" /\ unread' = <<>> /\ unread' \in Seq(Payload)
    BY <1>3, <1>5
  <2> QED
    BY <1>1, <1>4, <2>1 DEF WireInv
<1>6. CASE n = HSLEN
  <2> DEFINE hs == Handshake(SenderId, Hash)
             front == <<1>> \o <<7>> \o <<0>> \o <<2, 1>>
  <2>0. front \in Seq(Nat) /\ Len(front) = 5
    <3> DEFINE a == <<1>> \o <<7>>
               b == a \o <<0>>
    <3>1. a \in Seq(Nat) /\ Len(a) = 2
      OBVIOUS
    <3> HIDE DEF a
    <3>2. b \in Seq(Nat) /\ Len(b) = 3
      <4> DEFINE c == <<0>>
      <4>1. c \in Seq(Nat) /\ Len(c) = 1
        OBVIOUS
      <4> HIDE DEF c
      <4>2. a \o c \in Seq(Nat) /\ Len(a \o c) = 3
        <5>1. a \o c \in Seq(Nat) /\ Len(a \o c) = Len(a) + Len(c)
          BY <3>1, <4>1, JoinedIs, Zenon
        <5> QED
          BY <3>1, <4>1, <5>1
      <4> QED
        BY <4>2 DEF c
    <3> HIDE DEF b
    <3>3. b \o <<2, 1>> \in Seq(Nat) /\ Len(b \o <<2, 1>>) = 5
      <4> DEFINE c == <<2, 1>>
      <4>1. c \in Seq(Nat) /\ Len(c) = 2
        OBVIOUS
      <4> HIDE DEF c
      <4>2. b \o c \in Seq(Nat) /\ Len(b \o c) = 5
        <5>1. b \o c \in Seq(Nat) /\ Len(b \o c) = Len(b) + Len(c)
          BY <3>2, <4>1, JoinedIs, Zenon
        <5> QED
          BY <3>2, <4>1, <5>1
      <4> QED
        BY <4>2 DEF c
    <3> QED
      BY <3>3 DEF a, b
  <2>1. hs \in Seq(Nat) /\ Len(hs) = 7 /\ HSLEN = 7 /\ hs = front \o SenderId
    <3>1. Len(Pstr) = 1 /\ HSLEN = 7
      BY DEF Pstr, HSLEN, HashLen
    <3>2. hs = front \o SenderId
      BY <3>1, Zenon DEF Handshake, SenderId, Hash, Pstr
    <3>3. SenderId \in Seq(Nat) /\ Len(SenderId) = 2
      BY DEF SenderId
    <3> HIDE DEF front, hs
    <3>4. front \o SenderId \in Seq(Nat) /\ Len(front \o SenderId) = Len(front) + Len(SenderId)
      BY <2>0, <3>3, JoinedIs
    <3> QED
      BY <2>0, <3>1, <3>2, <3>3, <3>4
  <2>2. r[0] \in Seq(Nat)
    <3>1. 0 \in 0..Len(unread)
      BY <1>1
    <3> QED
      BY <1>2, <3>1 DEF Chain
  <2> DEFINE q == hs \o r[0]
  <2>3. pipe = q /\ q \in Seq(Nat) /\ \A k \in 1..7 : q[k] = hs[k]
    <3> HIDE DEF hs
    <3>1. q \in Seq(Nat) /\ \A k \in 1..Len(hs) : q[k] = hs[k]
      BY <2>1, <2>2, JoinedIs
    <3> QED
      BY <1>2, <2>1, <3>1 DEF hs
  <2>4. pipe' = r[0]
    <3> HIDE DEF hs
    <3>1. SubSeq(hs \o r[0], Len(hs) + 1, Len(hs \o r[0])) = r[0]
      BY <2>1, <2>2, CutIs
    <3> QED
      BY <1>3, <1>6, <2>1, <2>3, <3>1
  <2> HIDE DEF q
  <2>5. Buf(n) = hs
    <3>1. \A k \in 1..7 : pipe[k] = hs[k] /\ k <= 7
      <4> HIDE DEF hs
      <4>1. \A k \in 1..7 : k <= 7
        OBVIOUS
      <4> QED
        BY <2>3, <4>1, Zenon
    <3>2. Buf(n) = [k \in 1..7 |-> hs[k]]
      <4> HIDE DEF hs
      <4> QED
        BY <1>6, <2>1, <3>1
    <3>3. hs = [k \in 1..7 |-> hs[k]]
      <4> HIDE DEF hs
      <4>1. hs \in Seq(Nat) /\ Len(hs) = 7
        BY <2>1
      <4>2. hs \in [1..7 -> Nat]
        BY <4>1, LenProperties, Zenon
      <4> QED
        BY <4>2, Zenon
    <3> QED
      BY <3>2, <3>3, Zenon
  <2>6. id' = SenderId \/ pc' = "ended"
    <3>1. SenderId \in Seq(Nat)
      BY DEF SenderId
    <3> HIDE DEF front, hs
    <3>2. SubSeq(front \o SenderId, Len(front) + 1, Len(front \o SenderId)) = SenderId
      BY <2>0, <3>1, CutIs
    <3>3. SubSeq(hs, 6, 7) = SenderId
      BY <2>0, <2>1, <3>2
    <3>4. HSLEN - HashLen + 1 = 6
      BY <2>1 DEF HashLen
    <3>5. HandshakeId(hs) = SenderId
      BY <2>1, <3>3, <3>4 DEF HandshakeId
    <3> QED
      BY <1>3, <2>5, <3>5, Zenon
  <2>7. framed' = "exact" /\ unread' = unread
    BY <1>1, <1>3, <1>6
  <2>8. NewPeer \in PeerValue /\ NewPeer.bits \subseteq said.bits /\ Heard(None)
    BY <1>1 DEF NewPeer, PeerValue, Heard, None
  <2>9. pc' = "messages" => id' = SenderId
    BY <2>6
  <2>10. \E t : Chain(t, unread) /\ pipe' = t[0]
    BY <1>2, <2>4
  <2> HIDE DEF hs
  <2> QED
    BY <1>1, <1>4, <2>7, <2>8, <2>9, <2>10, Zenon DEF WireInv
<1> QED
  BY <1>5, <1>6

\* A read that cuts no message in two takes the first and those behind it.
LEMMA WholeRead ==
  ASSUME WireInv, pc = "messages", NEW n, Cut(n).framed # "split"
  PROVE  /\ framed # "split" /\ Cut(n).taken \in 1..Len(unread)
         /\ Cut(n).framed = "exact" => framed = "exact" /\ Cut(n).taken = 1
         /\ Outcome(ParseMessage(peer, SubSeq(pipe, 1, n)), peer, unread[1])
         /\ \E q : /\ Chain(q, SubSeq(unread, Cut(n).taken + 1, Len(unread)))
                   /\ SubSeq(pipe, n + 1, Len(pipe)) = q[0]
<1> DEFINE Prefix(k) == Len(FlattenSeq([j \in 1..k |-> Encode(unread[j])]))
           c == CHOOSE k \in DOMAIN unread : Prefix(k) = n
<1>1. ~(framed = "split" \/ ~\E k \in DOMAIN unread : Prefix(k) = n)
  <2> SUFFICES ASSUME framed = "split" \/ ~\E k \in DOMAIN unread : Prefix(k) = n PROVE FALSE
    OBVIOUS
  <2>1. Cut(n) = [framed |-> "split", taken |-> Len(unread)]
    BY Zenon DEF Cut
  <2> QED
    BY <2>1
<1>2. Cut(n) = [framed |-> IF c = 1 THEN framed ELSE "joined", taken |-> c]
  BY <1>1, Zenon DEF Cut
<1>3. c \in DOMAIN unread /\ Prefix(c) = n
  <2>1. \E k \in DOMAIN unread : Prefix(k) = n
    BY <1>1
  <2> HIDE DEF Prefix
  <2> QED
    BY <2>1, Zenon
<1> HIDE DEF c
<1>4. framed # "split" /\ Cut(n).taken = c /\ (Cut(n).framed = "exact" => framed = "exact" /\ c = 1)
  BY <1>1, <1>2
<1>5. unread \in Seq(Message) /\ Len(unread) \in Nat /\ DOMAIN unread = 1..Len(unread)
      /\ \A i \in 1..Len(unread) : unread[i] \in Message
  <2>1. unread \in Seq(Payload)
    BY DEF WireInv
  <2>2. unread \in Seq(Message) /\ Len(unread) \in Nat /\ \A i \in 1..Len(unread) : unread[i] \in Message
    BY <2>1, UnreadIs
  <2> QED
    BY <2>2
<1>6. c \in 1..Len(unread) /\ c \in 0..Len(unread) /\ 1 \in 1..Len(unread)
  <2>1. c \in 1..Len(unread)
    BY <1>3, <1>5
  <2> QED
    BY <1>5, <2>1
<1>7. PICK r : Chain(r, unread) /\ pipe = r[0]
  BY <1>4 DEF WireInv
<1>8. PICK g : Heads(g, unread)
  BY <1>5, HeadsExist
<1>9. g[c] \in Seq(Nat) /\ r[c] \in Seq(Nat)
  BY <1>6, <1>7, <1>8, Zenon DEF Chain, Heads
<1>10. pipe = g[c] \o r[c]
  BY <1>5, <1>6, <1>7, <1>8, ChainSplit
<1>11. Len(g[c]) = n
  <2>1. FlattenSeq([j \in 1..c |-> Encode(unread[j])]) = g[c]
    BY <1>5, <1>6, <1>8, FlatIs
  <2> QED
    BY <1>3, <2>1, Zenon
<1>12. SubSeq(pipe, 1, n) = g[c] /\ SubSeq(pipe, n + 1, Len(pipe)) = r[c]
  BY <1>9, <1>10, <1>11, CutIs
<1>13. PICK rest \in Seq(Nat) : g[c] = Encode(unread[1]) \o rest
  BY <1>5, <1>6, <1>8, HeadsStart
<1>14. Outcome(ParseMessage(peer, SubSeq(pipe, 1, n)), peer, unread[1])
  <2>1. peer \in PeerValue
    BY <1>4 DEF WireInv
  <2>2. Outcome(ParseMessage(peer, Encode(unread[1]) \o rest), peer, unread[1])
    BY <1>5, <1>6, <2>1, MessageRead, Zenon
  <2> QED
    BY <1>12, <1>13, <2>2, Zenon
<1>15. \E q : Chain(q, SubSeq(unread, c + 1, Len(unread))) /\ q[0] = r[c]
  BY <1>5, <1>6, <1>7, ChainDrop
<1> QED
  BY <1>4, <1>6, <1>12, <1>14, <1>15

\* The reader takes what a read returns.
LEMMA ReadKeeps ==
  ASSUME WireInv, Read
  PROVE  WireInv'
<1>1. pc = "messages" /\ unread \in Seq(Payload) /\ said \in PeerValue
  BY DEF WireInv, Read
<1>2. PICK n \in 1..Min({MsgSize, Len(pipe)}) :
          LET result == ParseMessage(peer, SubSeq(pipe, 1, n))
          IN  /\ pipe' = SubSeq(pipe, n + 1, Len(pipe))
              /\ peer' = result.peer /\ action' = result.action
              /\ pc' = IF result.action = Panic THEN "ended" ELSE pc
              /\ framed' = Cut(n).framed
              /\ unread' = SubSeq(unread, Cut(n).taken + 1, Len(unread))
  BY Zenon DEF Read
<1>3. id' = id /\ said' = said /\ pc' \in {"messages", "ended"}
  BY <1>1, <1>2, Zenon DEF Read
<1>4. CASE Cut(n).framed = "split"
  <2>1. framed' = "split"
    BY <1>2, <1>4
  <2>2. Cut(n).taken \in 0..Len(unread)
    <3> DEFINE Prefix(k) == Len(FlattenSeq([j \in 1..k |-> Encode(unread[j])]))
               c == CHOOSE k \in DOMAIN unread : Prefix(k) = n
    <3>0. Len(unread) \in Nat /\ DOMAIN unread = 1..Len(unread)
      BY <1>1
    <3>1. CASE framed = "split" \/ ~\E k \in DOMAIN unread : Prefix(k) = n
      <4>1. Cut(n) = [framed |-> "split", taken |-> Len(unread)]
        BY <3>1, Zenon DEF Cut
      <4> QED
        BY <3>0, <4>1
    <3>2. CASE ~(framed = "split" \/ ~\E k \in DOMAIN unread : Prefix(k) = n)
      <4>1. Cut(n) = [framed |-> IF c = 1 THEN framed ELSE "joined", taken |-> c]
        BY <3>2, Zenon DEF Cut
      <4>2. c \in DOMAIN unread
        <5>1. \E k \in DOMAIN unread : Prefix(k) = n
          BY <3>2
        <5> HIDE DEF Prefix
        <5> QED
          BY <5>1, Zenon
      <4> HIDE DEF c
      <4> QED
        BY <3>0, <4>1, <4>2
    <3> QED
      BY <3>1, <3>2
  <2>3. unread' \in Seq(Payload)
    BY <1>1, <1>2, <2>2, DroppedPayload
  <2> QED
    BY <1>1, <1>3, <2>1, <2>3 DEF WireInv
<1>5. CASE Cut(n).framed # "split"
  <2> DEFINE k == Cut(n).taken
             m == unread[1]
             result == ParseMessage(peer, SubSeq(pipe, 1, n))
  <2>1. /\ framed # "split" /\ k \in 1..Len(unread)
        /\ framed' = "exact" => framed = "exact" /\ k = 1
        /\ Outcome(result, peer, m)
        /\ \E q : /\ Chain(q, unread') /\ pipe' = q[0]
    BY <1>1, <1>2, <1>5, WholeRead
  <2>2. /\ unread \in Seq(Message) /\ Len(unread) \in Nat /\ 1 \in 1..Len(unread)
        /\ m \in Payload /\ m \in Message /\ k \in 0..Len(unread)
    <3>1. /\ unread \in Seq(Message) /\ Len(unread) \in Nat
          /\ \A i \in 1..Len(unread) : unread[i] \in Payload /\ unread[i] \in Message
      BY <1>1, UnreadIs
    <3> HIDE DEF k
    <3>2. 1 \in 1..Len(unread) /\ k \in 0..Len(unread)
      BY <2>1, <3>1
    <3> QED
      BY <3>1, <3>2
  <2>3. peer' = result.peer /\ action' = result.action /\ unread' = SubSeq(unread, k + 1, Len(unread))
    BY <1>2
  <2>4. unread' \in Seq(Payload)
    BY <1>1, <2>2, <2>3, DroppedPayload
  <2>5. /\ id = SenderId /\ peer \in PeerValue /\ peer.bits \subseteq said.bits
        /\ \A i \in 1..Len(unread) : Announced(unread[i]) \subseteq said.bits
    BY <1>1, <2>1 DEF WireInv
  <2> HIDE DEF k, result
  <2>6. peer' = Says(peer, m)
    BY <2>1, <2>3 DEF Outcome
  <2> HIDE DEF m
  <2>7. peer' \in PeerValue /\ peer'.bits \subseteq said'.bits
    <3>1. peer' \in PeerValue /\ peer'.bits = peer.bits \cup Announced(m)
      BY <2>2, <2>5, <2>6, SaysIs, AnnouncedIs
    <3>2. Announced(m) \subseteq said.bits
      BY <2>2, <2>5 DEF m
    <3> QED
      BY <1>3, <2>5, <3>1, <3>2
  <2>8. Heard(action')
    BY <2>1, <2>2, <2>3 DEF Outcome, Heard
  <2>9. \A i \in 1..Len(unread') : Announced(unread'[i]) \subseteq said'.bits
    <3>1. Len(unread') = Len(unread) - k /\ \A i \in 1..Len(unread) - k : unread'[i] = unread[k + i] /\ k + i \in 1..Len(unread)
      BY <2>2, <2>3, DroppedIs
    <3> QED
      BY <1>3, <2>5, <3>1
  <2>10. ASSUME framed' = "exact" PROVE \E g : Told(g, unread', peer', said')
    <3>1. PICK h : Told(h, unread, peer, said)
      BY <1>1, <2>1, <2>10 DEF WireInv
    <3>2. k = 1 /\ 1 \in 0..Len(unread)
      BY <2>1, <2>2, <2>10
    <3>3. h[1] = peer'
      <4>1. h[1] = Says(h[1 - 1], unread[1]) /\ h[0] = peer
        BY <2>2, <3>1 DEF Told
      <4> QED
        BY <2>6, <4>1 DEF m
    <3>4. \E g : Told(g, SubSeq(unread, 1 + 1, Len(unread)), h[1], said)
      BY <2>2, <3>1, <3>2, ToldDrop
    <3> QED
      BY <1>3, <2>3, <3>2, <3>3, <3>4
  <2> QED
    BY <1>1, <1>3, <2>1, <2>4, <2>5, <2>7, <2>8, <2>9, <2>10 DEF WireInv
<1> QED
  BY <1>4, <1>5

\* The bytes in the pipe are the messages not read, however many of them a read
\* takes, until one cuts a message in two.
THEOREM WireCorrect == Spec => []WireInv
<1>1. WireInv /\ [Next]_vars => WireInv'
  <2> SUFFICES ASSUME WireInv, [Next]_vars PROVE WireInv'
    OBVIOUS
  <2>1. CASE UNCHANGED vars
    BY <2>1 DEF vars, WireInv
  <2>2. CASE \E m \in Payload : Send(m)
    BY <2>2, SendKeeps
  <2>3. CASE ReadHandshake
    BY <2>3, HandshakeKeeps
  <2>4. CASE Read
    BY <2>4, ReadKeeps
  <2> QED
    BY <2>1, <2>2, <2>3, <2>4 DEF Next
<1> QED
  BY WireInit, <1>1, PTL DEF Spec

\* While each read takes one message, the reader knows of the peer what the peer has
\* said in the messages read, whatever these are: what the encoders write of a
\* choke, an interest, a have or a bitfield is what the parsers read.
THEOREM ViewIsExact == Spec => []ViewExact
<1>1. WireInv => ViewExact
  <2> SUFFICES ASSUME WireInv, pc = "messages", framed = "exact", unread = <<>>
               PROVE  peer = said
    BY DEF ViewExact
  <2>1. PICK h : Told(h, unread, peer, said)
    BY DEF WireInv
  <2>2. h[0] = peer /\ h[Len(unread)] = said /\ Len(unread) = 0
    BY <2>1 DEF Told
  <2> QED
    BY <2>2
<1> QED
  BY <1>1, WireCorrect, PTL

\* A read that takes several messages loses some, but invents no piece, no id and
\* no block.
THEOREM NothingIsInvented == Spec => []NothingInvented
<1>1. WireInv => NothingInvented
  BY DEF WireInv, NothingInvented, Heard
<1> QED
  BY <1>1, WireCorrect, PTL


----------------------------------------------------------------------------
(* Actions *)

\* A record of a Peer, whatever the bits read for a message cut in two.
IsPeer(p) ==
    /\ p = [choking |-> p.choking, interested |-> p.interested, bits |-> p.bits]
    /\ p.choking \in BOOLEAN /\ p.interested \in BOOLEAN

\* The outcome r of a parse tells what it does to the peer p.
Tells(p, r) == IsPeer(r.peer) /\ r.peer = Applied(p, r.action)

\* An action that is none of the peer's news leaves the peer alone.
LEMMA OtherTells ==
  ASSUME NEW p, IsPeer(p), NEW act,
         act.type \notin {"ChokingChange", "InterestedChange", "Have", "Bitfield"}
  PROVE  Tells(p, Result(p, act))
  BY DEF Tells, Result, Applied

\* So the outcomes with no news do.
LEMMA NoNewsTells ==
  ASSUME NEW p, IsPeer(p)
  PROVE  /\ Tells(p, Result(p, None)) /\ Tells(p, Result(p, Error)) /\ Tells(p, Result(p, Panic))
         /\ Tells(p, Result(p, [type |-> "EOF"]))
<1>1. /\ None.type = "None" /\ Error.type = "Error" /\ Panic.type = "Panic"
      /\ [type |-> "EOF"].type = "EOF"
  BY DEF None, Error, Panic
<1> QED
  BY <1>1, OtherTells

\* A flag is told as changed when it changes.
LEMMA FlagsTell ==
  ASSUME NEW p, IsPeer(p), NEW on \in BOOLEAN
  PROVE  Tells(p, ParseChoke(p, on)) /\ Tells(p, ParseInterested(p, on))
<1>1. Tells(p, ParseChoke(p, on))
  <2>1. CASE p.choking = on
    <3>1. [p EXCEPT !.choking = on] = p
      BY <2>1 DEF IsPeer
    <3> QED
      BY <2>1, <3>1, NoNewsTells DEF ParseChoke
  <2>2. CASE p.choking # on
    <3>1. on = ~p.choking
      BY <2>2 DEF IsPeer
    <3> QED
      BY <2>2, <3>1 DEF ParseChoke, Tells, Result, Applied, IsPeer
  <2> QED
    BY <2>1, <2>2
<1>2. Tells(p, ParseInterested(p, on))
  <2>1. CASE p.interested = on
    <3>1. [p EXCEPT !.interested = on] = p
      BY <2>1 DEF IsPeer
    <3> QED
      BY <2>1, <3>1, NoNewsTells DEF ParseInterested
  <2>2. CASE p.interested # on
    <3>1. on = ~p.interested
      BY <2>2 DEF IsPeer
    <3> QED
      BY <2>2, <3>1 DEF ParseInterested, Tells, Result, Applied, IsPeer
  <2> QED
    BY <2>1, <2>2
<1> QED
  BY <1>1, <1>2

\* A piece is told unless it was known, and a bitfield with all that is known.
LEMMA BitsTell ==
  ASSUME NEW p, IsPeer(p), NEW i, NEW bytes
  PROVE  Tells(p, ParseHave(p, i)) /\ Tells(p, ParseBitfield(p, bytes))
<1>1. Tells(p, ParseHave(p, i))
  <2>1. CASE i >= NPieces
    BY <2>1, NoNewsTells DEF ParseHave
  <2>2. CASE ~(i >= NPieces) /\ i \in p.bits
    <3>1. [p EXCEPT !.bits = @ \cup {i}] = p
      BY <2>2 DEF IsPeer
    <3> QED
      BY <2>2, <3>1, NoNewsTells DEF ParseHave
  <2>3. CASE ~(i >= NPieces) /\ i \notin p.bits
    <3> DEFINE act == [type |-> "Have", piece |-> i]
               q   == [p EXCEPT !.bits = @ \cup {i}]
    <3>1. ParseHave(p, i) = Result(q, act)
      BY <2>3, Zenon DEF ParseHave
    <3>2. act.type = "Have" /\ act.piece = i
      OBVIOUS
    <3>3. IsPeer(q)
      BY DEF IsPeer
    <3>4. q = [p EXCEPT !.bits = @ \cup {act.piece}]
      BY <3>2, Zenon
    <3> HIDE DEF act, q
    <3>5. q = Applied(p, act)
      BY <3>2, <3>4 DEF Applied
    <3> QED
      BY <3>1, <3>3, <3>5 DEF Tells, Result
  <2> QED
    BY <2>1, <2>2, <2>3
<1>2. Tells(p, ParseBitfield(p, bytes))
  <2> DEFINE field == CreateBitfield(bytes)
             bits  == p.bits \cup field.set
  <2>1. ParseBitfield(p, bytes) =
          IF bytes = <<>> \/ field.len # NPieces THEN Result(p, Error)
          ELSE Result([p EXCEPT !.bits = bits], [type |-> "Bitfield", bits |-> bits])
    BY DEF ParseBitfield
  <2> HIDE DEF bits, field
  <2>2. Tells(p, Result([p EXCEPT !.bits = bits], [type |-> "Bitfield", bits |-> bits]))
    BY DEF Tells, Result, Applied, IsPeer
  <2> QED
    BY <2>1, <2>2, NoNewsTells
<1> QED
  BY <1>1, <1>2

\* A block asked for or sent is no news of the peer.
LEMMA BlocksTell ==
  ASSUME NEW p, IsPeer(p), NEW msg, NEW len
  PROVE  /\ Tells(p, ParseRequest(p, msg)) /\ Tells(p, ParsePiece(p, msg, len))
         /\ Tells(p, ParseCancel(p, msg)) /\ Tells(p, TooShort(p, len))
<1> DEFINE request == [type |-> "Request", block |-> Block(msg)]
           write == [type |-> "Write", index |-> Field(msg, 5), begin |-> Field(msg, 9),
                     data |-> SubSeq(msg, 14, len)]
<1>1. request.type = "Request" /\ write.type = "Write"
  OBVIOUS
<1>2. /\ ParseRequest(p, msg) = Result(p, IF Len(msg) < 17 THEN Panic ELSE request)
      /\ ParsePiece(p, msg, len) = Result(p, IF len < 13 \/ Len(msg) < 13 THEN Panic ELSE write)
      /\ ParseCancel(p, msg) = Result(p, IF Len(msg) < 17 THEN Panic ELSE Error)
      /\ TooShort(p, len) = Result(p, IF OverflowChecks /\ len + 4 \notin U32s THEN Panic ELSE Error)
  BY Zenon DEF ParseRequest, ParsePiece, ParseCancel, TooShort
<1> HIDE DEF request, write
<1>3. Tells(p, Result(p, request)) /\ Tells(p, Result(p, write))
  BY <1>1, OtherTells
<1> QED
  BY <1>2, <1>3, NoNewsTells, Zenon

\* Whatever bytes a read returns, the action parse_message makes of them tells what
\* it does to the peer.
LEMMA MessageTells ==
  ASSUME NEW p, IsPeer(p), NEW msg
  PROVE  Tells(p, ParseMessage(p, msg))
<1> DEFINE len  == ReadU32(SubSeq(msg, 1, 4))
           body == SubSeq(msg, 6, 4 + len)
           have == Field(msg, 5)
           kind == msg[5]
           parsed ==
               CASE kind \in {0, 1} -> ParseChoke(p, kind = 0)
                 [] kind \in {2, 3} -> ParseInterested(p, kind = 2)
                 [] kind = 4 -> IF Len(msg) < 9 THEN Result(p, Panic) ELSE ParseHave(p, have)
                 [] kind = 5 -> ParseBitfield(p, body)
                 [] kind = 6 -> ParseRequest(p, msg)
                 [] kind = 7 -> ParsePiece(p, msg, len + 4)
                 [] kind = 8 -> ParseCancel(p, msg)
                 [] kind = 9 -> Result(p, Panic)
                 [] OTHER -> Result(p, Error)
<1>1. ParseMessage(p, msg) =
        IF msg = <<>> THEN Result(p, [type |-> "EOF"])
        ELSE IF Len(msg) < 4 THEN Result(p, Error)
        ELSE IF len = 0 THEN Result(p, None)
        ELSE IF Len(msg) < 4 + len THEN TooShort(p, len)
        ELSE parsed
  BY Zenon DEF ParseMessage
<1>2. /\ Tells(p, ParseChoke(p, kind = 0)) /\ Tells(p, ParseInterested(p, kind = 2))
      /\ Tells(p, ParseHave(p, have)) /\ Tells(p, ParseBitfield(p, body))
      /\ Tells(p, ParseRequest(p, msg)) /\ Tells(p, ParsePiece(p, msg, len + 4))
      /\ Tells(p, ParseCancel(p, msg)) /\ Tells(p, TooShort(p, len))
  <2>1. (kind = 0) \in BOOLEAN /\ (kind = 2) \in BOOLEAN
    OBVIOUS
  <2> QED
    BY <2>1, FlagsTell, BitsTell, BlocksTell, Zenon
<1>3. Tells(p, parsed)
  <2> HIDE DEF len, body, have, kind
  <2> QED
    BY <1>2, NoNewsTells
<1> HIDE DEF len, parsed
<1> QED
  BY <1>1, <1>2, <1>3, NoNewsTells, Zenon

\* The reader's Peer is one, also after messages cut in two.
LEMMA PeerKept == Spec => []IsPeer(peer)
<1>1. Init => IsPeer(peer)
  BY DEF Init, NewPeer, IsPeer
<1>2. IsPeer(peer) /\ [Next]_vars => IsPeer(peer)'
  <2> SUFFICES ASSUME IsPeer(peer), [Next]_vars PROVE IsPeer(peer')
    BY DEF IsPeer
  <2>1. CASE peer' = peer
    BY <2>1
  <2>2. CASE Read
    <3>1. PICK n : peer' = ParseMessage(peer, SubSeq(pipe, 1, n)).peer
      BY <2>2, Zenon DEF Read
    <3>2. Tells(peer, ParseMessage(peer, SubSeq(pipe, 1, n)))
      BY MessageTells
    <3> QED
      BY <3>1, <3>2 DEF Tells
  <2> QED
    BY <2>1, <2>2 DEF Next, Send, ReadHandshake, vars
<1> QED
  BY <1>1, <1>2, PTL DEF Spec

\* Whatever bytes come and however reads cut them, the actions of the reads tell the
\* controller every change of the Peer and no other: flags toggle when they change,
\* and the pieces told are those that are new, or all that are known.
THEOREM ActionsAreChanges == Spec => ActionsTellChanges
<1>1. IsPeer(peer) /\ sends \in Nat /\ [Next]_vars =>
        [pc = "messages" /\ UNCHANGED sends => peer' = Applied(peer, action')]_vars
  <2> SUFFICES ASSUME IsPeer(peer), sends \in Nat, Next, pc = "messages", sends' = sends
               PROVE  peer' = Applied(peer, action')
    OBVIOUS
  <2>1. CASE Read
    <3>1. PICK n : LET result == ParseMessage(peer, SubSeq(pipe, 1, n))
                   IN  peer' = result.peer /\ action' = result.action
      BY <2>1, Zenon DEF Read
    <3>2. Tells(peer, ParseMessage(peer, SubSeq(pipe, 1, n)))
      BY MessageTells
    <3> QED
      BY <3>1, <3>2 DEF Tells
  <2>2. ~ReadHandshake
    BY DEF ReadHandshake
  <2>3. ASSUME NEW m \in Payload, Send(m) PROVE FALSE
    BY <2>3 DEF Send
  <2> QED
    BY <2>1, <2>2, <2>3 DEF Next
<1>2. Spec => [](sends \in Nat)
  <2>1. Init => sends \in Nat
    BY DEF Init
  <2>2. sends \in Nat /\ [Next]_vars => (sends \in Nat)'
    BY DEF Next, Send, ReadHandshake, Read, vars
  <2> QED
    BY <2>1, <2>2, PTL DEF Spec
<1> QED
  BY <1>1, <1>2, PeerKept, PTL DEF Spec, ActionsTellChanges
====
