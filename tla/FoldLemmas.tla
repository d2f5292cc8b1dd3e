---- MODULE FoldLemmas ----
(* What the proofs need of induction and of FoldLeft.  The provers have no    *)
(* induction over an operator, but they have it over a set: a nonempty set of *)
(* naturals has a least element.  A fold is given by its step for each place  *)
(* of the sequence, a function and not an operator, for the same reason.      *)
EXTENDS Integers, Sequences, FiniteSets, SequencesExt, FiniteSetsExt, WellFoundedInduction, TLAPS

\* A nonempty set of naturals has a least element, and Min is it.
LEMMA MinIs ==
  ASSUME NEW S \in SUBSET Nat, S # {}
  PROVE  Min(S) \in S /\ \A x \in S : Min(S) <= x
<1> DEFINE R == OpToRel(<, Nat)
<1>1. IsWellFoundedOn(R, Nat)
  BY NatLessThanWellFounded
<1>2. \A x, y \in Nat : y < x => <<y, x>> \in R
  BY DEF OpToRel
<1> HIDE DEF R
<1>3. PICK m \in S : \A y \in S : ~ (<<y, m>> \in R)
  BY <1>1, WFMin
<1>4. ASSUME NEW y \in S PROVE m <= y
  <2>1. m \in Nat /\ y \in Nat
    OBVIOUS
  <2>2. ~ (y < m)
    BY <1>2, <1>3, <2>1
  <2> QED
    BY <2>1, <2>2
<1> QED
  BY <1>4, Zenon DEF Min

\* A set that holds 0, and n + 1 with n, holds 0..N.
LEMMA Counting ==
  ASSUME NEW N \in Nat, NEW S, 0 \in S, \A n \in 0..N - 1 : n \in S => n + 1 \in S
  PROVE  \A n \in 0..N : n \in S
<1> DEFINE T == 0..N \ S
<1>1. CASE T = {}
  BY <1>1
<1>2. CASE T # {}
  <2> DEFINE m == Min(T)
  <2>1. T \in SUBSET Nat
    OBVIOUS
  <2>2. m \in T /\ \A x \in T : m <= x
    <3> HIDE DEF T
    <3> QED
      BY <1>2, <2>1, MinIs
  <2> HIDE DEF m
  <2>3. m # 0 /\ m \in 0..N
    BY <2>2
  <2>4. m - 1 \in 0..N - 1 /\ m - 1 \notin T
    BY <2>2, <2>3
  <2>5. (m - 1) + 1 \in S
    BY <2>4
  <2> QED
    BY <2>2, <2>3, <2>5
<1> QED
  BY <1>1, <1>2

\* A nonempty set of places has a last one, and Max is it.
LEMMA MaxIs ==
  ASSUME NEW N \in Nat, NEW T, T \subseteq 1..N, T # {}
  PROVE  Max(T) \in T /\ \A n \in T : n <= Max(T)
<1> DEFINE D == {N - n : n \in T}
           d == Min(D)
<1>1. D \in SUBSET Nat /\ D # {}
  <2>1. \A n \in T : N - n \in Nat
    OBVIOUS
  <2>2. \E n \in T : N - n \in D
    OBVIOUS
  <2> QED
    BY <2>1, <2>2
<1>2. d \in D /\ \A x \in D : d <= x
  <2> HIDE DEF D
  <2> QED
    BY <1>1, MinIs
<1> HIDE DEF d
<1>3. PICK m \in T : d = N - m
  BY <1>2
<1>4. ASSUME NEW n \in T PROVE n <= m
  <2>1. N - n \in D /\ n \in Int /\ m \in Int
    OBVIOUS
  <2>2. d <= N - n
    BY <1>2, <2>1
  <2> QED
    BY <1>3, <2>1, <2>2
<1>5. \E x \in T : \A y \in T : x >= y
  <2>1. \A n \in T : m >= n
    BY <1>4
  <2> QED
    BY <2>1
<1>6. Max(T) \in T /\ \A n \in T : Max(T) >= n
  BY <1>5, Zenon DEF Max
<1>7. \A n \in T : Max(T) >= n => n <= Max(T)
  OBVIOUS
<1> QED
  BY <1>6, <1>7

\* The last of the first n places is n.
LEMMA LastOfFirst ==
  ASSUME NEW n \in Nat \ {0}
  PROVE  Max(1..n) = n /\ 1..n \ {n} = 1..n - 1 /\ 1..n # {}
<1>1. 1..n \subseteq 1..n /\ 1..n # {} /\ n \in 1..n
  OBVIOUS
<1>2. Max(1..n) \in 1..n /\ \A x \in 1..n : x <= Max(1..n)
  BY <1>1, MaxIs
<1> QED
  BY <1>1, <1>2

----------------------------------------------------------------------------
(* A fold over N places from `base` in D, with step[n] at place n: its value   *)
(* on every set of places is what MapThenFoldSet recurses over.                *)

FoldsOver(h, D, base, step, N) ==
    /\ h \in [SUBSET (1..N) -> D]
    /\ h[{}] = base
    /\ \A t \in SUBSET (1..N) : t # {} => h[t] = step[Max(t)][h[t \ {Max(t)}]]

\* There is such a function: it grows place by place.
LEMMA FoldExists ==
  ASSUME NEW D, NEW base \in D, NEW N \in Nat, NEW step \in [1..N -> [D -> D]]
  PROVE  \E h : FoldsOver(h, D, base, step, N)
<1> DEFINE S == {n \in 0..N : \E h : FoldsOver(h, D, base, step, n)}
<1>1. 0 \in S
  <2> DEFINE h == [t \in SUBSET (1..0) |-> base]
  <2>1. 1..0 = {}
    OBVIOUS
  <2>2. h \in [SUBSET (1..0) -> D] /\ {} \in SUBSET (1..0) /\ \A t \in SUBSET (1..0) : t = {}
    BY <2>1
  <2>3. FoldsOver(h, D, base, step, 0)
    BY <2>2 DEF FoldsOver
  <2> QED
    BY <2>3
<1>2. ASSUME NEW n \in 0..N - 1, n \in S
      PROVE  n + 1 \in S
  <2> DEFINE m == n + 1
  <2>1. PICK h : FoldsOver(h, D, base, step, n)
    BY <1>2
  <2>2. m \in 1..N /\ 1..m = 1..n \cup {m} /\ m \notin 1..n /\ n \in Nat /\ m \in Nat
        /\ \A x \in 1..n : x \in 1..N /\ x < m
    OBVIOUS
  <2>3. step[m] \in [D -> D]
    BY <2>2
  <2> HIDE DEF m
  <2> DEFINE k == [t \in SUBSET (1..m) |->
                      IF m \in t THEN step[m][h[t \ {m}]] ELSE h[t]]
  <2>4. \A t \in SUBSET (1..m) : /\ m \in t => t \ {m} \in SUBSET (1..n)
                                 /\ m \notin t => t \in SUBSET (1..n)
    BY <2>2
  <2>5. h \in [SUBSET (1..n) -> D]
    BY <2>1 DEF FoldsOver
  <2>6. k \in [SUBSET (1..m) -> D]
    <3>1. ASSUME NEW t \in SUBSET (1..m)
          PROVE  (IF m \in t THEN step[m][h[t \ {m}]] ELSE h[t]) \in D
      BY <2>3, <2>4, <2>5
    <3> QED
      BY <3>1
  <2>7. k[{}] = base
    <3>1. {} \in SUBSET (1..m) /\ m \notin {}
      OBVIOUS
    <3> QED
      BY <2>1, <3>1 DEF FoldsOver
  <2>8. ASSUME NEW t \in SUBSET (1..m), t # {}
        PROVE  k[t] = step[Max(t)][k[t \ {Max(t)}]]
    <3> DEFINE x == Max(t)
    <3>1. x \in t /\ \A y \in t : y <= x
      BY <2>2, <2>8, MaxIs
    <3>2. t \ {x} \in SUBSET (1..m)
      OBVIOUS
    <3>3. CASE m \in t
      <4>1. x = m
        <5> HIDE DEF k, x
        <5>1. x \in 1..m /\ m <= x
          BY <3>1, <3>3
        <5> QED
          BY <2>2, <5>1
      <4>2. k[t \ {m}] = h[t \ {m}]
        BY <3>2, <4>1
      <4> QED
        BY <3>3, <4>1, <4>2
    <3>4. CASE m \notin t
      <4>1. t \in SUBSET (1..n) /\ m \notin t \ {x}
        BY <2>4, <3>4
      <4>2. h[t] = step[x][h[t \ {x}]]
        BY <2>1, <2>8, <4>1 DEF FoldsOver
      <4>3. k[t \ {x}] = h[t \ {x}] /\ k[t] = h[t]
        BY <3>2, <3>4, <4>1
      <4> QED
        BY <4>2, <4>3
    <3> QED
      BY <3>3, <3>4
  <2>9. FoldsOver(k, D, base, step, m)
    <3> HIDE DEF k
    <3> QED
      BY <2>6, <2>7, <2>8 DEF FoldsOver
  <2> QED
    BY <2>2, <2>9 DEF m
<1> HIDE DEF S
<1>3. \A n \in 0..N - 1 : n \in S => n + 1 \in S
  BY <1>2
<1>4. \A n \in 0..N : n \in S
  BY <1>1, <1>3, Counting
<1>5. N \in 0..N
  OBVIOUS
<1> QED
  BY <1>4, <1>5 DEF S

\* The values of a fold on longer and longer parts of a sequence.
Partial(g, D, base, step, N) ==
    /\ g \in [0..N -> D]
    /\ g[0] = base
    /\ \A n \in 1..N : g[n] = step[n][g[n - 1]]

\* There is a sequence of such values.
LEMMA PartialExists ==
  ASSUME NEW D, NEW base \in D, NEW N \in Nat, NEW step \in [1..N -> [D -> D]]
  PROVE  \E g : Partial(g, D, base, step, N)
<1>1. PICK h : FoldsOver(h, D, base, step, N)
  BY FoldExists
<1> DEFINE g == [n \in 0..N |-> h[1..n]]
<1>2. \A n \in 0..N : 1..n \in SUBSET (1..N)
  OBVIOUS
<1>3. g \in [0..N -> D]
  BY <1>1, <1>2 DEF FoldsOver
<1>4. g[0] = base
  <2>1. 1..0 = {}
    OBVIOUS
  <2> QED
    BY <1>1, <2>1 DEF FoldsOver
<1>5. ASSUME NEW n \in 1..N PROVE g[n] = step[n][g[n - 1]]
  <2>1. Max(1..n) = n /\ 1..n \ {n} = 1..n - 1 /\ 1..n # {}
    <3>1. n \in Nat \ {0}
      OBVIOUS
    <3> QED
      BY <3>1, LastOfFirst
  <2>2. n \in 0..N /\ n - 1 \in 0..N
    OBVIOUS
  <2>3. h[1..n] = step[n][h[1..n - 1]]
    BY <1>1, <1>2, <2>1, <2>2 DEF FoldsOver
  <2> QED
    BY <2>2, <2>3
<1> HIDE DEF g
<1> QED
  BY <1>3, <1>4, <1>5 DEF Partial

\* Whatever function recurses like the fold has its values.
Recurses(h, D, base, step, N) ==
    /\ h[{}] = base
    /\ \A n \in 1..N : h[1..n - 1] \in D => h[1..n] = step[n][h[1..n - 1]]

\* So the recursive function a fold is defined by ends with its last value.
LEMMA FoldEnds ==
  ASSUME NEW D, NEW base, NEW N \in Nat, NEW step, NEW g, Partial(g, D, base, step, N),
         NEW h, Recurses(h, D, base, step, N)
  PROVE  h[1..N] = g[N]
<1> DEFINE S == {n \in 0..N : h[1..n] = g[n]}
<1>1. 0 \in S
  <2>1. 1..0 = {}
    OBVIOUS
  <2> QED
    BY <2>1 DEF Partial, Recurses
<1>2. ASSUME NEW n \in 0..N - 1, n \in S PROVE n + 1 \in S
  <2> DEFINE m == n + 1
  <2>1. m \in 1..N /\ m - 1 = n /\ m \in 0..N /\ n \in 0..N
    OBVIOUS
  <2> HIDE DEF m
  <2>2. h[1..n] = g[n] /\ g[n] \in D
    BY <1>2, <2>1 DEF Partial
  <2>3. h[1..m] = step[m][h[1..n]]
    BY <2>1, <2>2 DEF Recurses
  <2>4. g[m] = step[m][g[n]]
    BY <2>1 DEF Partial
  <2> QED
    BY <2>1, <2>2, <2>3, <2>4 DEF m
<1> HIDE DEF S
<1>3. \A n \in 0..N - 1 : n \in S => n + 1 \in S
  BY <1>2
<1>4. \A n \in 0..N : n \in S
  BY <1>1, <1>3, Counting
<1>5. N \in 0..N
  OBVIOUS
<1> QED
  BY <1>4, <1>5 DEF S
====
