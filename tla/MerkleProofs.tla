----------------------------- MODULE MerkleProofs -----------------------------
(***************************************************************************)
(* What a Merkle tree hash commits to, what inclusion_proof and            *)
(* subtree_proof make, and which places a verifier reaches on the way up,  *)
(* for trees of every size.                                                *)
(*                                                                         *)
(* The trees are recursive functions, so their facts need induction.  It   *)
(* is done by the least element of a set of counterexamples: a non-empty   *)
(* set of naturals has one (NatLessThanWellFounded and WFMin).             *)
(***************************************************************************)
EXTENDS Merkle, TLAPS, FiniteSetTheorems, SequenceTheorems, WellFoundedInduction

\* The least-number principle.
LEMMA Least ==
  ASSUME NEW T \in SUBSET Nat, T # {}
  PROVE  \E m \in T : \A k \in T : m <= k
<1>1. \E x \in T : \A y \in T : <<y, x>> \notin OpToRel(<, Nat)
      BY NatLessThanWellFounded, WFMin, Zenon
<1>2. PICK x \in T : \A y \in T : <<y, x>> \notin OpToRel(<, Nat)
      BY <1>1
<1>3. \A y \in T : ~(y < x)
      BY <1>2, Zenon DEF OpToRel
<1> QED BY <1>3

-----------------------------------------------------------------------------

\* The loop of Split, as the function it computes.
Grows(f, n) == f = [k \in 1..n |-> IF k * 2 < n THEN f[k * 2] ELSE k]

\* There is such a function: it is built from n downward.
LEMMA GrowsExists ==
  ASSUME NEW n \in Nat
  PROVE  \E f : Grows(f, n)
<1> DEFINE From(f, m) == f = [k \in (n - m + 1)..n |-> IF k * 2 < n THEN f[k * 2] ELSE k]
           T == {m \in 0..n : ~ \E f : From(f, m)}
<1>1. T = {}
  <2>1. SUFFICES ASSUME T # {} PROVE FALSE
        OBVIOUS
  <2>2. PICK m \in T : \A k \in T : m <= k
    <3>1. T \in SUBSET Nat OBVIOUS
    <3> HIDE DEF T
    <3> QED BY <2>1, <3>1, Least
  <2>3. m # 0
    <3>1. [k \in (n + 1)..n |-> k] = [k \in (n + 1)..n |-> IF k * 2 < n THEN [i \in (n + 1)..n |-> i][k * 2] ELSE k]
          OBVIOUS
    <3>2. From([k \in (n - 0 + 1)..n |-> k], 0) BY <3>1
    <3> QED BY <3>2, <2>2
  <2>4. m - 1 \in 0..n /\ m - 1 \notin T
        BY <2>2, <2>3
  <2>5. PICK f : From(f, m - 1)
        BY <2>4
  <2> DEFINE lo == n - m + 1
             g == [k \in lo..n |-> IF k = lo THEN IF k * 2 < n THEN f[k * 2] ELSE k ELSE f[k]]
  <2>6. lo \in 1..n /\ n - (m - 1) + 1 = lo + 1
        BY <2>2, <2>3
  <2>7. f = [k \in (lo + 1)..n |-> IF k * 2 < n THEN f[k * 2] ELSE k]
        BY <2>5, <2>6
  <2>8. ASSUME NEW k \in lo..n
        PROVE  g[k] = IF k * 2 < n THEN g[k * 2] ELSE k
    <3>1. k * 2 < n => k * 2 \in (lo + 1)..n
          BY <2>6
    <3>2. k * 2 < n => g[k * 2] = f[k * 2]
          BY <2>6, <3>1
    <3>3. CASE k = lo
          BY <3>2, <3>3
    <3>4. CASE k # lo
      <4>1. k \in (lo + 1)..n BY <2>6, <3>4
      <4> QED BY <2>7, <3>2, <3>4, <4>1
    <3> QED BY <3>3, <3>4
  <2>9. From(g, m)
        BY <2>8
  <2> QED BY <2>2, <2>9
<1>2. n \notin T BY <1>1
<1>3. PICK f : From(f, n) BY <1>2
<1>4. Grows(f, n) BY <1>3 DEF Grows
<1> QED BY <1>4

\* _split: the split of a range of two leaves or more is within it.
LEMMA SplitIsWithin ==
  ASSUME NEW n \in Nat, n >= 2
  PROVE  Split(n) \in 1..(n - 1)
<1>1. PICK f : Grows(f, n) /\ Split(n) = f[1]
      BY GrowsExists DEF Split, Grows
<1> DEFINE T == {m \in 0..n : \E k \in 1..(n - 1) : n - k = m /\ f[k] \notin 1..(n - 1)}
<1>2. SUFFICES ASSUME T # {} PROVE FALSE
  <2>1. 1 \in 1..(n - 1) /\ n - 1 \in 0..n OBVIOUS
  <2>2. n - 1 \notin T => f[1] \in 1..(n - 1) BY <2>1
  <2> QED BY <1>1, <2>2
<1>3. PICK m \in T : \A k \in T : m <= k
  <2>1. T \in SUBSET Nat OBVIOUS
  <2> HIDE DEF T
  <2> QED BY <1>2, <2>1, Least
<1>4. PICK k \in 1..(n - 1) : n - k = m /\ f[k] \notin 1..(n - 1)
      BY <1>3
<1>5. f[k] = IF k * 2 < n THEN f[k * 2] ELSE k
      BY <1>1 DEF Grows
<1>6. k * 2 < n BY <1>4, <1>5
<1>7. k * 2 \in 1..(n - 1) /\ n - k * 2 \in 0..n /\ n - k * 2 < m
      BY <1>4, <1>6
<1>8. n - k * 2 \in T BY <1>4, <1>5, <1>6, <1>7
<1> QED BY <1>3, <1>7, <1>8

-----------------------------------------------------------------------------

\* What h says of the range p of D, in terms of what it says of smaller ones.
MthOf(D, h, p) ==
  LET i == p[1]
      j == p[2]
      k == i + Split(j - i)
  IN  IF j <= i THEN EmptyHash
      ELSE IF j - i = 1 THEN D[j]
      ELSE NodeHash(h[<<i, k>>], h[<<k, j>>])

Ranges(lo, hi) == (lo..hi) \X (lo..hi)

\* The hashes h of all ranges within lo..hi.
Hashes(D, h, lo, hi) == h = [p \in Ranges(lo, hi) |-> MthOf(D, h, p)]

\* A range of two leaves or more is split into two shorter ones.
LEMMA Halves ==
  ASSUME NEW i \in Nat, NEW j \in Nat, j - i >= 2
  PROVE  LET k == i + Split(j - i) IN k \in Nat /\ i < k /\ k < j
<1>1. Split(j - i) \in 1..(j - i - 1) BY SplitIsWithin
<1> QED BY <1>1

\* D and E have the leaves of the range in common; g and h the ranges within it.
SameLeaves(D, E, i, j) == \A m \in (i + 1)..j : D[m] = E[m]
SameWithin(g, h, i, j) == \A a, b \in i..j : b - a < j - i => g[<<a, b>>] = h[<<a, b>>]

\* What MthOf says of a range depends on the shorter ranges in it and on D.
LEMMA MthOfAgrees ==
  ASSUME NEW D, NEW E, NEW g, NEW h, NEW i \in Nat, NEW j \in Nat,
         SameLeaves(D, E, i, j), SameWithin(g, h, i, j)
  PROVE  MthOf(D, g, <<i, j>>) = MthOf(E, h, <<i, j>>)
<1>1. CASE j - i <= 1
  <2>1. i < j => j \in (i + 1)..j OBVIOUS
  <2> QED BY <1>1, <2>1 DEF MthOf, SameLeaves
<1>2. CASE j - i >= 2
  <2> DEFINE k == i + Split(j - i)
  <2>1. k \in Nat /\ i < k /\ k < j BY <1>2, Halves
  <2> HIDE DEF k
  <2>2. g[<<i, k>>] = h[<<i, k>>] /\ g[<<k, j>>] = h[<<k, j>>] BY <2>1 DEF SameWithin
  <2> QED BY <1>2, <2>2 DEF MthOf, k
<1> QED BY <1>1, <1>2

\* The recursion has a solution: it is built from narrow ranges to wide ones.
LEMMA HashesExist ==
  ASSUME NEW D, NEW lo \in Nat, NEW hi \in Nat
  PROVE  \E h : Hashes(D, h, lo, hi)
<1> DEFINE S == Ranges(lo, hi)
           UpTo(h, w) == /\ h = [p \in S |-> h[p]]
                         /\ \A p \in S : p[2] - p[1] <= w => h[p] = MthOf(D, h, p)
           T == {w \in Nat : ~ \E h : UpTo(h, w)}
<1>1. T = {}
  <2>1. SUFFICES ASSUME T # {} PROVE FALSE
        OBVIOUS
  <2>2. PICK w \in T : \A v \in T : w <= v
    <3>1. T \in SUBSET Nat OBVIOUS
    <3> HIDE DEF T
    <3> QED BY <2>1, <3>1, Least
  <2>3. w # 0
    <3> DEFINE h == [p \in S |-> EmptyHash]
    <3>1. ASSUME NEW p \in S, p[2] - p[1] <= 0
          PROVE  h[p] = MthOf(D, h, p)
          BY <3>1 DEF MthOf, Ranges
    <3>2. h = [p \in S |-> h[p]] OBVIOUS
    <3> HIDE DEF h
    <3>3. UpTo(h, 0) BY <3>1, <3>2
    <3> QED BY <2>2, <3>3
  <2>4. PICK f : UpTo(f, w - 1)
    <3>1. w - 1 \in Nat /\ w - 1 \notin T BY <2>2, <2>3
    <3> QED BY <3>1
  <2> DEFINE g == [p \in S |-> IF p[2] - p[1] = w THEN MthOf(D, f, p) ELSE f[p]]
  <2>5. ASSUME NEW p \in S, p[2] - p[1] <= w
        PROVE  g[p] = MthOf(D, g, p)
    <3>1. PICK i \in lo..hi, j \in lo..hi : p = <<i, j>> BY DEF Ranges
    <3>2. ASSUME NEW a \in i..j, NEW b \in i..j, b - a < j - i
          PROVE  g[<<a, b>>] = f[<<a, b>>]
      <4>1. <<a, b>> \in S /\ b - a < w BY <2>5, <3>1, <3>2 DEF Ranges
      <4> QED BY <4>1
    <3>3. MthOf(D, g, p) = MthOf(D, f, p)
      <4>1. i \in Nat /\ j \in Nat OBVIOUS
      <4>2. SameWithin(g, f, i, j) BY <3>2 DEF SameWithin
      <4>3. SameLeaves(D, D, i, j) BY DEF SameLeaves
      <4> HIDE DEF g
      <4>4. MthOf(D, g, <<i, j>>) = MthOf(D, f, <<i, j>>)
            BY <4>1, <4>2, <4>3, MthOfAgrees
      <4> QED BY <3>1, <4>4
    <3>4. CASE p[2] - p[1] = w BY <3>3, <3>4
    <3>5. CASE p[2] - p[1] # w
      <4>1. p[2] - p[1] <= w - 1 BY <2>2, <2>5, <3>1, <3>5
      <4>2. f[p] = MthOf(D, f, p) BY <2>4, <4>1
      <4> QED BY <3>3, <3>5, <4>2
    <3> QED BY <3>4, <3>5
  <2>6. g = [p \in S |-> g[p]] OBVIOUS
  <2> HIDE DEF g
  <2>7. UpTo(g, w) BY <2>5, <2>6
  <2> QED BY <2>2, <2>7
<1>2. PICK w \in Nat : w >= hi - lo BY 0 \in Nat
<1>3. PICK h : UpTo(h, w)
  <2>1. w \notin T BY <1>1
  <2> QED BY <2>1
<1>4. ASSUME NEW p \in S PROVE h[p] = MthOf(D, h, p)
  <2>1. p[2] - p[1] <= w BY <1>2 DEF Ranges
  <2> QED BY <1>3, <2>1
<1>5. Hashes(D, h, lo, hi)
  BY <1>3, <1>4 DEF Hashes
<1> QED BY <1>5

\* Two solutions over leaves that agree give a range in both the same hash.
LEMMA HashesAgree ==
  ASSUME NEW D, NEW E, NEW g, NEW h,
         NEW a \in Nat, NEW b \in Nat, NEW c \in Nat, NEW d \in Nat,
         Hashes(D, g, a, b), Hashes(E, h, c, d),
         NEW lo \in Nat, NEW hi \in Nat, a <= lo, c <= lo, lo <= hi, hi <= b, hi <= d,
         SameLeaves(D, E, lo, hi)
  PROVE  g[<<lo, hi>>] = h[<<lo, hi>>]
<1> DEFINE Differ(i, j) == g[<<i, j>>] # h[<<i, j>>]
           T == {w \in Nat : \E i, j \in lo..hi : j - i <= w /\ Differ(i, j)}
<1>1. CASE T = {}
  <2>1. hi - lo \in Nat /\ lo \in lo..hi /\ hi \in lo..hi BY <1>1
  <2>2. hi - lo \notin T BY <1>1, <2>1
  <2> QED BY <2>1, <2>2
<1>2. CASE T # {}
  <2>1. PICK w \in T : \A v \in T : w <= v
    <3>1. T \in SUBSET Nat OBVIOUS
    <3> HIDE DEF T
    <3> QED BY <1>2, <3>1, Least
  <2>2. PICK i \in lo..hi, j \in lo..hi : j - i <= w /\ Differ(i, j) BY <2>1
  <2>3. ASSUME NEW p \in i..j, NEW q \in i..j, q - p < j - i
        PROVE  g[<<p, q>>] = h[<<p, q>>]
    <3>1. CASE q <= p
      <4>1. <<p, q>> \in Ranges(a, b) /\ <<p, q>> \in Ranges(c, d) BY DEF Ranges
      <4>2. g[<<p, q>>] = MthOf(D, g, <<p, q>>) /\ h[<<p, q>>] = MthOf(E, h, <<p, q>>)
            BY <4>1 DEF Hashes
      <4> QED BY <3>1, <4>2 DEF MthOf
    <3>2. CASE p < q
      <4>1. q - p \in Nat /\ q - p < w BY <2>1, <2>2, <2>3, <3>2
      <4>2. q - p \notin T
        <5>1. w \in Nat OBVIOUS
        <5> HIDE DEF T
        <5> QED BY <2>1, <4>1, <5>1
      <4>3. p \in lo..hi /\ q \in lo..hi /\ q - p <= q - p BY <2>2, <4>1
      <4>4. ~Differ(p, q)
        <5>1. SUFFICES ASSUME Differ(p, q) PROVE q - p \in T BY <4>2
        <5> QED BY <4>1, <4>3, <5>1
      <4> QED BY <4>4
    <3> QED BY <3>1, <3>2
  <2>4. MthOf(D, g, <<i, j>>) = MthOf(E, h, <<i, j>>)
    <3>1. SameLeaves(D, E, i, j) BY DEF SameLeaves
    <3>2. i \in Nat /\ j \in Nat OBVIOUS
    <3>3. SameWithin(g, h, i, j) BY <2>3 DEF SameWithin
    <3> QED BY <3>1, <3>2, <3>3, MthOfAgrees
  <2>5. <<i, j>> \in Ranges(a, b) /\ <<i, j>> \in Ranges(c, d) BY DEF Ranges
  <2>6. g[<<i, j>>] = MthOf(D, g, <<i, j>>) /\ h[<<i, j>>] = MthOf(E, h, <<i, j>>)
        BY <2>5 DEF Hashes
  <2> QED BY <2>2, <2>4, <2>6
<1> QED BY <1>1, <1>2

\* Mth is the solution's hash of the whole range.
LEMMA MthIsHash ==
  ASSUME NEW D, NEW lo \in Nat, NEW hi \in Nat
  PROVE  \E h : Hashes(D, h, lo, hi) /\ Mth(D, lo, hi) = h[<<lo, hi>>]
<1>1. Mth(D, lo, hi) = (CHOOSE h : Hashes(D, h, lo, hi))[<<lo, hi>>]
      BY DEF Mth, Hashes, MthOf, Ranges
<1>2. Hashes(D, CHOOSE h : Hashes(D, h, lo, hi), lo, hi)
      BY HashesExist
<1> QED BY <1>1, <1>2

\* The tree hash of a range of one leaf, and of the two parts of a longer one.
LEMMA MthStep ==
  ASSUME NEW D, NEW lo \in Nat, NEW hi \in Nat, lo < hi
  PROVE  /\ hi - lo = 1 => Mth(D, lo, hi) = D[hi]
         /\ hi - lo >= 2 =>
              LET k == lo + Split(hi - lo)
              IN  Mth(D, lo, hi) = NodeHash(Mth(D, lo, k), Mth(D, k, hi))
<1>1. PICK h : Hashes(D, h, lo, hi) /\ Mth(D, lo, hi) = h[<<lo, hi>>] BY MthIsHash
<1>2. h[<<lo, hi>>] = MthOf(D, h, <<lo, hi>>) BY <1>1 DEF Hashes, Ranges
<1>3. CASE hi - lo = 1 BY <1>1, <1>2, <1>3 DEF MthOf
<1>4. CASE hi - lo >= 2
  <2> DEFINE k == lo + Split(hi - lo)
  <2>1. k \in Nat /\ lo < k /\ k < hi BY <1>4, Halves
  <2>2. h[<<lo, hi>>] = NodeHash(h[<<lo, k>>], h[<<k, hi>>]) BY <1>2, <1>4 DEF MthOf
  <2> HIDE DEF k
  <2>3. Mth(D, lo, k) = h[<<lo, k>>]
    <3>1. PICK g : Hashes(D, g, lo, k) /\ Mth(D, lo, k) = g[<<lo, k>>] BY <2>1, MthIsHash
    <3>2. lo <= lo /\ lo <= k /\ k <= k /\ k <= hi /\ SameLeaves(D, D, lo, k)
          BY <2>1 DEF SameLeaves
    <3>3. g[<<lo, k>>] = h[<<lo, k>>] BY <1>1, <2>1, <3>1, <3>2, HashesAgree
    <3> QED BY <3>1, <3>3
  <2>4. Mth(D, k, hi) = h[<<k, hi>>]
    <3>1. PICK g : Hashes(D, g, k, hi) /\ Mth(D, k, hi) = g[<<k, hi>>] BY <2>1, MthIsHash
    <3>2. k <= k /\ lo <= k /\ k <= hi /\ hi <= hi /\ SameLeaves(D, D, k, hi)
          BY <2>1 DEF SameLeaves
    <3>3. g[<<k, hi>>] = h[<<k, hi>>] BY <1>1, <2>1, <3>1, <3>2, HashesAgree
    <3> QED BY <3>1, <3>3
  <2> QED BY <1>1, <1>4, <2>2, <2>3, <2>4 DEF k
<1> QED BY <1>3, <1>4

-----------------------------------------------------------------------------

LEMMA MthOfOne ==
  ASSUME NEW D, NEW lo \in Nat, NEW hi \in Nat, hi - lo = 1
  PROVE  Mth(D, lo, hi) = D[hi]
<1>1. lo < hi OBVIOUS
<1> QED BY <1>1, MthStep

\* Where a range is split is a matter of its ends.
LEMMA MthOfMore ==
  ASSUME NEW lo \in Nat, NEW hi \in Nat, hi - lo >= 2
  PROVE  \E k \in Nat : /\ lo < k /\ k < hi
                        /\ \A D : Mth(D, lo, hi) = NodeHash(Mth(D, lo, k), Mth(D, k, hi))
<1> DEFINE k == lo + Split(hi - lo)
<1>1. k \in Nat /\ lo < k /\ k < hi BY Halves
<1>2. ASSUME NEW D PROVE Mth(D, lo, hi) = NodeHash(Mth(D, lo, k), Mth(D, k, hi))
  <2>1. lo < hi OBVIOUS
  <2> QED BY <2>1, MthStep
<1> HIDE DEF k
<1> QED BY <1>1, <1>2

LEMMA NodeHashInjective ==
  ASSUME NEW a, NEW b, NEW c, NEW d, NodeHash(a, b) = NodeHash(c, d)
  PROVE  a = c /\ b = d
<1>1. NodeHash(a, b).left = a /\ NodeHash(a, b).right = b BY DEF NodeHash
<1>2. NodeHash(c, d).left = c /\ NodeHash(c, d).right = d BY DEF NodeHash
<1> QED BY <1>1, <1>2

\* A tree hash depends on no leaf outside its range.
LEMMA MthSame ==
  ASSUME NEW D, NEW E, NEW lo \in Nat, NEW hi \in Nat, lo <= hi, SameLeaves(D, E, lo, hi)
  PROVE  Mth(D, lo, hi) = Mth(E, lo, hi)
<1>1. PICK g : Hashes(D, g, lo, hi) /\ Mth(D, lo, hi) = g[<<lo, hi>>] BY MthIsHash
<1>2. PICK h : Hashes(E, h, lo, hi) /\ Mth(E, lo, hi) = h[<<lo, hi>>] BY MthIsHash
<1>3. lo <= lo /\ hi <= hi OBVIOUS
<1>4. g[<<lo, hi>>] = h[<<lo, hi>>] BY <1>1, <1>2, <1>3, HashesAgree
<1> QED BY <1>1, <1>2, <1>4

\* subtree.mth and node_hash: the hash of a range commits to every leaf in it, for
\* ranges of every size, as far as SHA-256 is collision free.
THEOREM RootBindsLeaves ==
  ASSUME NEW D, NEW E, NEW lo \in Nat, NEW hi \in Nat, lo < hi,
         Mth(D, lo, hi) = Mth(E, lo, hi)
  PROVE  SameLeaves(D, E, lo, hi)
<1> DEFINE Bad(i, j) == i < j /\ Mth(D, i, j) = Mth(E, i, j) /\ ~SameLeaves(D, E, i, j)
           T == {w \in Nat : \E i, j \in Nat : j - i = w /\ Bad(i, j)}
<1>1. SUFFICES ASSUME Bad(lo, hi) PROVE FALSE
      OBVIOUS
<1>2. PICK w \in T : \A v \in T : w <= v
  <2>1. hi - lo \in Nat /\ hi - lo \in T BY <1>1
  <2>2. T \in SUBSET Nat OBVIOUS
  <2> HIDE DEF T
  <2> QED BY <2>1, <2>2, Least
<1>3. PICK i \in Nat, j \in Nat : j - i = w /\ Bad(i, j) BY <1>2
<1>4. CASE j - i = 1
  <2>1. Mth(D, i, j) = D[j] /\ Mth(E, i, j) = E[j] BY <1>4, MthOfOne
  <2>2. \A m \in (i + 1)..j : m = j BY <1>4
  <2> QED BY <1>3, <2>1, <2>2 DEF SameLeaves
<1>5. CASE j - i >= 2
  <2>1. PICK k \in Nat :
          /\ i < k /\ k < j
          /\ \A L : Mth(L, i, j) = NodeHash(Mth(L, i, k), Mth(L, k, j))
        BY <1>5, MthOfMore
  <2>2. NodeHash(Mth(D, i, k), Mth(D, k, j)) = NodeHash(Mth(E, i, k), Mth(E, k, j))
        BY <1>3, <2>1
  <2>3. Mth(D, i, k) = Mth(E, i, k) /\ Mth(D, k, j) = Mth(E, k, j)
        BY <2>2, NodeHashInjective
  <2>4. ~Bad(i, k) /\ ~Bad(k, j)
    <3>1. k - i \in Nat /\ k - i < w /\ j - k \in Nat /\ j - k < w BY <1>3, <2>1
    <3>2. k - i \notin T /\ j - k \notin T
      <4>1. w \in Nat OBVIOUS
      <4> HIDE DEF T
      <4> QED BY <1>2, <3>1, <4>1
    <3> QED BY <2>1, <3>1, <3>2
  <2>5. SameLeaves(D, E, i, k) /\ SameLeaves(D, E, k, j) BY <2>1, <2>3, <2>4
  <2>6. SameLeaves(D, E, i, j) BY <2>1, <2>5 DEF SameLeaves
  <2> QED BY <1>3, <2>6
<1> QED BY <1>3, <1>4, <1>5

-----------------------------------------------------------------------------

\* What D holds are leaf hashes: those of the leaves lv.
LeavesOf(D, lv, n) == \A i \in 1..n : D[i] = LeafHash(lv[i])

\* A node of the tree over the first n leaf hashes of D.
IsNode(x, D, n) == \E lo, hi \in 0..n : lo < hi /\ x = Mth(D, lo, hi)

\* The domain bytes tell an inner node from a leaf, so what is hashed into a node of
\* the tree are nodes of it.
LEMMA PartsAreNodes ==
  ASSUME NEW D, NEW lv, NEW n \in Nat, LeavesOf(D, lv, n),
         NEW l, NEW r, IsNode(NodeHash(l, r), D, n)
  PROVE  IsNode(l, D, n) /\ IsNode(r, D, n)
<1>1. PICK lo \in 0..n, hi \in 0..n : lo < hi /\ NodeHash(l, r) = Mth(D, lo, hi)
      BY DEF IsNode
<1>2. CASE hi - lo = 1
  <2>1. Mth(D, lo, hi) = LeafHash(lv[hi])
    <3>1. Mth(D, lo, hi) = D[hi] BY <1>2, MthOfOne
    <3> QED BY <1>1, <3>1 DEF LeavesOf
  <2>2. NodeHash(l, r) # LeafHash(lv[hi])
        BY DEF NodeHash, LeafHash
  <2> QED BY <1>1, <2>1, <2>2
<1>3. CASE hi - lo >= 2
  <2>1. PICK k \in Nat :
          /\ lo < k /\ k < hi
          /\ \A L : Mth(L, lo, hi) = NodeHash(Mth(L, lo, k), Mth(L, k, hi))
        BY <1>3, MthOfMore
  <2>2. k \in 0..n BY <2>1
  <2>3. l = Mth(D, lo, k) /\ r = Mth(D, k, hi) BY <1>1, <2>1, NodeHashInjective
  <2> QED BY <2>1, <2>2, <2>3 DEF IsNode
<1> QED BY <1>1, <1>2, <1>3

\* A leaf's hash among the nodes is that of a leaf.
LEMMA LeafNodesAreLeaves ==
  ASSUME NEW D, NEW lv, NEW n \in Nat, LeavesOf(D, lv, n),
         NEW d, IsNode(LeafHash(d), D, n)
  PROVE  \E i \in 1..n : d = lv[i]
<1>1. PICK lo \in 0..n, hi \in 0..n : lo < hi /\ LeafHash(d) = Mth(D, lo, hi)
      BY DEF IsNode
<1>2. CASE hi - lo = 1
  <2>1. Mth(D, lo, hi) = D[hi] BY <1>2, MthOfOne
  <2>2. hi \in 1..n /\ LeafHash(d) = LeafHash(lv[hi]) BY <1>1, <2>1 DEF LeavesOf
  <2> QED BY <2>2 DEF LeafHash
<1>3. CASE hi - lo >= 2
  <2>1. PICK k \in Nat : Mth(D, lo, hi) = NodeHash(Mth(D, lo, k), Mth(D, k, hi))
        BY <1>3, MthOfMore
  <2>2. NodeHash(Mth(D, lo, k), Mth(D, k, hi)) # LeafHash(d) BY DEF NodeHash, LeafHash
  <2> QED BY <1>1, <2>1, <2>2
<1> QED BY <1>1, <1>2, <1>3

\* The loop of check_inclusion.
Walks(w, leaf, index, size, proof) ==
  w = [k \in 0..Len(proof) |->
         IF k = 0 THEN [fn |-> index, sn |-> size - 1, r |-> LeafHash(leaf)]
         ELSE Join(w[k - 1], proof[k])]

LEMMA WalksExist ==
  ASSUME NEW leaf, NEW index, NEW size, NEW proof, Len(proof) \in Nat
  PROVE  \E w : Walks(w, leaf, index, size, proof)
<1> DEFINE N == Len(proof)
           start == [fn |-> index, sn |-> size - 1, r |-> LeafHash(leaf)]
           UpTo(w, m) == w = [k \in 0..m |-> IF k = 0 THEN start ELSE Join(w[k - 1], proof[k])]
           T == {m \in Nat : ~ \E w : UpTo(w, m)}
<1> HIDE DEF start
<1>1. T = {}
  <2>1. SUFFICES ASSUME T # {} PROVE FALSE
        OBVIOUS
  <2>2. PICK m \in T : \A v \in T : m <= v
    <3>1. T \in SUBSET Nat OBVIOUS
    <3> HIDE DEF T
    <3> QED BY <2>1, <3>1, Least
  <2>3. m # 0
    <3>1. UpTo([k \in 0..0 |-> start], 0) OBVIOUS
    <3> QED BY <2>2, <3>1
  <2>4. PICK f : UpTo(f, m - 1)
    <3>1. m - 1 \in Nat /\ m - 1 < m BY <2>2, <2>3
    <3>2. m - 1 \notin T
      <4>1. m \in Nat OBVIOUS
      <4> HIDE DEF T
      <4> QED BY <2>2, <3>1, <4>1
    <3> QED BY <3>1, <3>2
  <2> DEFINE g == [k \in 0..m |-> IF k = m THEN Join(f[m - 1], proof[m]) ELSE f[k]]
  <2>5. ASSUME NEW k \in 0..m
        PROVE  g[k] = IF k = 0 THEN start ELSE Join(g[k - 1], proof[k])
    <3>1. k # 0 => g[k - 1] = f[k - 1] OBVIOUS
    <3>2. CASE k = m BY <2>3, <3>1, <3>2
    <3>3. CASE k # m
      <4>1. k \in 0..(m - 1) BY <3>3
      <4>2. f[k] = IF k = 0 THEN start ELSE Join(f[k - 1], proof[k]) BY <2>4, <4>1
      <4> QED BY <3>1, <3>3, <4>2
    <3> QED BY <3>2, <3>3
  <2>6. UpTo(g, m) BY <2>5
  <2> QED BY <2>2, <2>6
<1>2. PICK w : UpTo(w, N) BY <1>1
<1>3. Walks(w, leaf, index, size, proof) BY <1>2 DEF Walks, start
<1> QED BY <1>3

\* verify_receipt.check_inclusion: whatever the proof, the index and the size given
\* with it, a leaf that is accepted under the root of a tree is one of the tree's.
\* That the index may lie is of no consequence for this; see the module Merkle.
THEOREM IncludedIsInTree ==
  ASSUME NEW lv, NEW n \in Nat, n # 0, NEW D, LeavesOf(D, lv, n),
         NEW leaf, NEW index, NEW size, NEW proof, Len(proof) \in Nat,
         CheckInclusion(leaf, index, size, proof, Mth(D, 0, n))
  PROVE  \E i \in 1..n : leaf = lv[i]
<1> DEFINE N == Len(proof)
<1>1. PICK w : Walks(w, leaf, index, size, proof) /\ w[N].r = Mth(D, 0, n)
  <2> DEFINE w == CHOOSE w : Walks(w, leaf, index, size, proof)
  <2>2. Walks(w, leaf, index, size, proof) BY WalksExist
  <2>3. w[N].r = Mth(D, 0, n) BY DEF CheckInclusion, Walks
  <2> QED BY <2>2, <2>3
<1> DEFINE T == {m \in 0..N : ~IsNode(w[N - m].r, D, n)}
<1>2. T = {}
  <2>1. SUFFICES ASSUME T # {} PROVE FALSE
        OBVIOUS
  <2>2. PICK m \in T : \A v \in T : m <= v
    <3>1. T \in SUBSET Nat OBVIOUS
    <3> HIDE DEF T
    <3> QED BY <2>1, <3>1, Least
  <2>3. m # 0
    <3>1. IsNode(Mth(D, 0, n), D, n)
      <4>1. 0 \in 0..n /\ n \in 0..n /\ 0 < n OBVIOUS
      <4> QED BY <4>1 DEF IsNode
    <3>2. N - 0 = N OBVIOUS
    <3> QED BY <1>1, <2>2, <3>1, <3>2
  <2> DEFINE k == N - (m - 1)
  <2>4. k \in 1..N /\ k - 1 = N - m /\ m - 1 \in 0..N BY <2>2, <2>3
  <2>5. IsNode(w[k].r, D, n)
    <3>1. m - 1 \notin T BY <2>2, <2>4
    <3> QED BY <2>4, <3>1
  <2> HIDE DEF k
  <2>6. w[k] = Join(w[k - 1], proof[k])
    <3>1. k \in 0..N /\ k # 0 BY <2>4
    <3> HIDE DEF N
    <3> QED BY <1>1, <3>1 DEF Walks, N
  <2>7. \/ w[k].r = NodeHash(proof[k], w[k - 1].r)
        \/ w[k].r = NodeHash(w[k - 1].r, proof[k])
        BY <2>6 DEF Join
  <2>8. IsNode(w[k - 1].r, D, n) BY <2>5, <2>7, PartsAreNodes
  <2> QED BY <2>2, <2>4, <2>8
<1>3. IsNode(w[0].r, D, n)
  <2>1. N \in 0..N /\ N - N = 0 OBVIOUS
  <2> QED BY <1>2, <2>1
<1>4. w[0].r = LeafHash(leaf) BY <1>1 DEF Walks
<1> QED BY <1>3, <1>4, LeafNodesAreLeaves

-----------------------------------------------------------------------------

\* What w says of the slice p of D, in terms of what it says of smaller ones.
PathOf(D, index, w, p) ==
  LET lo == p[1]
      hi == p[2]
      k  == lo + Split(hi - lo)
  IN  IF hi - lo = 1    THEN << >>
      ELSE IF index < k THEN Append(w[<<lo, k>>], Mth(D, k, hi))
      ELSE Append(w[<<k, hi>>], Mth(D, lo, k))

Paths(D, index, w) == w = [p \in Spans(Len(D)) |-> PathOf(D, index, w, p)]

\* The recursion of inclusion_proof has a solution.
LEMMA PathsExist ==
  ASSUME NEW D, NEW index, Len(D) \in Nat
  PROVE  \E w : Paths(D, index, w)
<1> DEFINE S == Spans(Len(D))
           UpTo(h, w) == /\ h = [p \in S |-> h[p]]
                         /\ \A p \in S : p[2] - p[1] <= w => h[p] = PathOf(D, index, h, p)
           T == {w \in Nat : ~ \E h : UpTo(h, w)}
<1>1. T = {}
  <2>1. SUFFICES ASSUME T # {} PROVE FALSE
        OBVIOUS
  <2>2. PICK w \in T : \A v \in T : w <= v
    <3>1. T \in SUBSET Nat OBVIOUS
    <3> HIDE DEF T
    <3> QED BY <2>1, <3>1, Least
  <2>3. w # 0
    <3> DEFINE h == [p \in S |-> << >>]
    <3>1. ASSUME NEW p \in S PROVE ~(p[2] - p[1] <= 0)
          BY DEF Spans
    <3>2. h = [p \in S |-> h[p]] OBVIOUS
    <3> HIDE DEF h
    <3>3. UpTo(h, 0) BY <3>1, <3>2
    <3> QED BY <2>2, <3>3
  <2>4. PICK f : UpTo(f, w - 1)
    <3>1. w - 1 \in Nat /\ w - 1 \notin T BY <2>2, <2>3
    <3> QED BY <3>1
  <2> DEFINE g == [p \in S |-> IF p[2] - p[1] = w THEN PathOf(D, index, f, p) ELSE f[p]]
  <2>5. ASSUME NEW p \in S, p[2] - p[1] <= w
        PROVE  g[p] = PathOf(D, index, g, p)
    <3>1. PICK i \in 0..Len(D), j \in 0..Len(D) : p = <<i, j>> /\ i < j BY DEF Spans
    <3>2. ASSUME NEW a \in i..j, NEW b \in i..j, a < b, b - a < j - i
          PROVE  g[<<a, b>>] = f[<<a, b>>]
      <4>1. <<a, b>> \in S /\ b - a < w BY <2>5, <3>1, <3>2 DEF Spans
      <4> QED BY <4>1
    <3>3. PathOf(D, index, g, p) = PathOf(D, index, f, p)
      <4>1. i \in Nat /\ j \in Nat OBVIOUS
      <4> HIDE DEF g
      <4>2. CASE j - i = 1 BY <3>1, <4>2 DEF PathOf
      <4>3. CASE j - i >= 2
        <5> DEFINE k == i + Split(j - i)
        <5>1. k \in Nat /\ i < k /\ k < j BY <4>3, Halves
        <5> HIDE DEF k
        <5>2. g[<<i, k>>] = f[<<i, k>>] /\ g[<<k, j>>] = f[<<k, j>>] BY <3>2, <5>1
        <5> QED BY <3>1, <4>3, <5>2 DEF PathOf, k
      <4> QED BY <3>1, <4>2, <4>3
    <3>4. CASE p[2] - p[1] = w BY <3>3, <3>4
    <3>5. CASE p[2] - p[1] # w
      <4>1. p[2] - p[1] <= w - 1 BY <2>2, <2>5, <3>1, <3>5
      <4>2. f[p] = PathOf(D, index, f, p) BY <2>4, <4>1
      <4> QED BY <3>3, <3>5, <4>2
    <3> QED BY <3>4, <3>5
  <2>6. g = [p \in S |-> g[p]] OBVIOUS
  <2> HIDE DEF g
  <2>7. UpTo(g, w) BY <2>5, <2>6
  <2> QED BY <2>2, <2>7
<1>2. PICK h : UpTo(h, Len(D))
  <2>1. Len(D) \notin T BY <1>1
  <2> QED BY <2>1
<1>3. ASSUME NEW p \in S PROVE h[p] = PathOf(D, index, h, p)
  <2>1. p[2] - p[1] <= Len(D) BY DEF Spans
  <2> QED BY <1>2, <2>1
<1>4. Paths(D, index, h)
  BY <1>2, <1>3 DEF Paths
<1> QED BY <1>4

LEMMA InclusionProofIsPath ==
  ASSUME NEW D, NEW index, Len(D) \in Nat
  PROVE  \E w : Paths(D, index, w) /\ InclusionProof(D, index) = w[<<0, Len(D)>>]
<1>1. InclusionProof(D, index) = (CHOOSE w : Paths(D, index, w))[<<0, Len(D)>>]
      BY DEF InclusionProof, Paths, PathOf
<1>2. Paths(D, index, CHOOSE w : Paths(D, index, w))
      BY PathsExist
<1> QED BY <1>1, <1>2

-----------------------------------------------------------------------------

LEMMA TimesOrdered ==
  ASSUME NEW a \in Nat, NEW b \in Nat, a <= b, NEW d \in Nat
  PROVE  a * d <= b * d /\ a * d \in Nat
<1>1. PICK c \in Nat : b = a + c
  <2>1. b - a \in Nat /\ b = a + (b - a) OBVIOUS
  <2> QED BY <2>1
<1>2. (a + c) * d = a * d + c * d OBVIOUS
<1>3. c * d \in Nat /\ a * d \in Nat OBVIOUS
<1> QED BY <1>1, <1>2, <1>3

LEMMA DivideBack ==
  ASSUME NEW x \in Nat, NEW d \in Nat, d > 0
  PROVE  /\ x \div d \in Nat
         /\ (x \div d) * d <= x /\ x < (x \div d) * d + d
OBVIOUS

LEMMA Quotient ==
  ASSUME NEW x \in Nat, NEW q \in Nat, NEW d \in Nat, d > 0,
         q * d <= x, x < q * d + d
  PROVE  x \div d = q
<1> DEFINE r == x \div d
<1>1. r \in Nat /\ r * d <= x /\ x < r * d + d BY DivideBack
<1> HIDE DEF r
<1>2. ASSUME r < q PROVE FALSE
  <2>1. r + 1 \in Nat /\ r + 1 <= q BY <1>1, <1>2
  <2>2. (r + 1) * d <= q * d BY <2>1, TimesOrdered
  <2>3. (r + 1) * d = r * d + d BY <1>1
  <2>4. q * d \in Nat /\ r * d \in Nat BY <1>1
  <2> QED BY <1>1, <2>2, <2>3, <2>4
<1>3. ASSUME q < r PROVE FALSE
  <2>1. q + 1 \in Nat /\ q + 1 <= r BY <1>1, <1>3
  <2>2. (q + 1) * d <= r * d BY <1>1, <2>1, TimesOrdered
  <2>3. (q + 1) * d = q * d + d OBVIOUS
  <2>4. q * d \in Nat /\ r * d \in Nat BY <1>1
  <2> QED BY <1>1, <2>2, <2>3, <2>4
<1>4. r = q BY <1>1, <1>2, <1>3
<1> QED BY <1>4 DEF r

LEMMA QuotientHalved ==
  ASSUME NEW x \in Nat, NEW d \in Nat, d > 0
  PROVE  (x \div d) \div 2 = x \div (d + d)
<1> DEFINE q == x \div d
           p == q \div 2
<1>1. q \in Nat /\ q * d <= x /\ x < q * d + d BY DivideBack
<1> HIDE DEF q
<1>2. p \in Nat /\ p + p <= q /\ q <= p + p + 1 BY <1>1
<1> HIDE DEF p
<1>3. (p + p) * d <= q * d /\ q * d <= (p + p + 1) * d
      BY <1>1, <1>2, TimesOrdered
<1>4. (p + p) * d = p * (d + d) /\ (p + p + 1) * d = p * (d + d) + d BY <1>2
<1>5. p * (d + d) \in Nat /\ q * d \in Nat BY <1>1, <1>2
<1>6. p * (d + d) <= x /\ x < p * (d + d) + (d + d)
      BY <1>1, <1>3, <1>4, <1>5
<1>7. x \div (d + d) = p BY <1>2, <1>6, Quotient
<1> QED BY <1>7 DEF p, q

LEMMA PowerIsSubsets ==
  ASSUME NEW e \in Nat
  PROVE  /\ IsFiniteSet(SUBSET (1..e)) /\ Cardinality(SUBSET (1..e)) = 2^e
         /\ 2^e \in Nat
<1>1. IsFiniteSet(1..e) /\ Cardinality(1..e) = e
  <2>1. 1..e = 1..e /\ 1 \in Int /\ e \in Int OBVIOUS
  <2>2. Cardinality(1..e) = IF 1 > e THEN 0 ELSE e - 1 + 1 BY <2>1, FS_Interval
  <2> QED BY <2>1, <2>2, FS_Interval
<1>2. IsFiniteSet(SUBSET (1..e)) /\ Cardinality(SUBSET (1..e)) = 2^Cardinality(1..e)
      BY <1>1, FS_SUBSET
<1>3. Cardinality(SUBSET (1..e)) \in Nat BY <1>2, FS_CardinalityType
<1> QED BY <1>1, <1>2, <1>3

LEMMA PowerDoubles ==
  ASSUME NEW e \in Nat
  PROVE  2^(e + 1) = 2^e + 2^e
<1> DEFINE A == SUBSET (1..e)
           B == {x \cup {e + 1} : x \in A}
<1>1. SUBSET (1..(e + 1)) = A \cup B
  <2>1. ASSUME NEW y \in SUBSET (1..(e + 1)), e + 1 \in y PROVE y \in B
    <3>1. y \ {e + 1} \in A BY <2>1
    <3>2. y = (y \ {e + 1}) \cup {e + 1} BY <2>1
    <3> QED BY <3>1, <3>2
  <2>2. ASSUME NEW y \in SUBSET (1..(e + 1)), e + 1 \notin y PROVE y \in A
        BY <2>2
  <2>3. 1..e \subseteq 1..(e + 1) /\ e + 1 \in 1..(e + 1) OBVIOUS
  <2>4. A \subseteq SUBSET (1..(e + 1)) /\ B \subseteq SUBSET (1..(e + 1))
        BY <2>3
  <2> QED BY <2>1, <2>2, <2>4
<1>2. A \cap B = {} OBVIOUS
<1>3. IsFiniteSet(A) /\ Cardinality(A) = 2^e BY PowerIsSubsets
<1>4. IsFiniteSet(B) /\ Cardinality(B) = Cardinality(A)
  <2> DEFINE f == [x \in A |-> x \cup {e + 1}]
  <2>1. f \in Bijection(A, B)
    <3>1. ASSUME NEW x \in A, NEW y \in A, f[x] = f[y] PROVE x = y
      <4>1. e + 1 \notin x /\ e + 1 \notin y OBVIOUS
      <4>2. x \cup {e + 1} = y \cup {e + 1} BY <3>1
      <4> QED BY <4>1, <4>2
    <3>2. f \in [A -> B] OBVIOUS
    <3>3. \A b \in B : \E x \in A : f[x] = b OBVIOUS
    <3> HIDE DEF f, A, B
    <3> QED BY <3>1, <3>2, <3>3 DEF Bijection, Injection, Surjection, IsInjective
  <2> HIDE DEF f, A, B
  <2> QED BY <1>3, <2>1, FS_Bijection DEF ExistsBijection
<1> HIDE DEF A, B
<1>5. Cardinality(A \cup B) = Cardinality(A) + Cardinality(B) - Cardinality(A \cap B)
      BY <1>3, <1>4, FS_Union
<1>6. Cardinality({}) = 0 BY FS_EmptySet
<1>7. Cardinality(A \cup B) = 2^(e + 1)
  <2>1. e + 1 \in Nat OBVIOUS
  <2>2. Cardinality(SUBSET (1..(e + 1))) = 2^(e + 1) BY <2>1, PowerIsSubsets
  <2> QED BY <1>1, <2>2
<1>8. 2^e \in Nat BY PowerIsSubsets
<1> QED BY <1>2, <1>3, <1>4, <1>5, <1>6, <1>7, <1>8

\* A power of two is a positive number, and the next one is its double.
LEMMA Powers ==
  ASSUME NEW e \in Nat
  PROVE  2^e \in Nat /\ 2^e >= 1 /\ 2^(e + 1) = 2^e + 2^e
<1> DEFINE T == {m \in Nat : 2^m < 1}
<1>1. T = {}
  <2>1. SUFFICES ASSUME T # {} PROVE FALSE
        OBVIOUS
  <2>2. PICK m \in T : \A v \in T : m <= v
    <3>1. T \in SUBSET Nat OBVIOUS
    <3> HIDE DEF T
    <3> QED BY <2>1, <3>1, Least
  <2>3. m # 0
    <3>1. 2^0 = 1 OBVIOUS
    <3>2. ~(2^0 < 1) BY <3>1
    <3>3. 0 \notin T BY <3>2
    <3> QED BY <3>3
  <2>4. m - 1 \in Nat /\ m - 1 \notin T BY <2>2, <2>3
  <2>5. m - 1 + 1 = m BY <2>2
  <2>6. 2^m = 2^(m - 1) + 2^(m - 1) BY <2>4, <2>5, PowerDoubles
  <2>7. 2^(m - 1) >= 1
    <3>1. 2^(m - 1) \in Nat BY <2>4, PowerIsSubsets
    <3> QED BY <2>4, <3>1
  <2>8. 2^(m - 1) \in Nat BY <2>4, PowerIsSubsets
  <2> QED BY <2>2, <2>6, <2>7, <2>8
<1>2. 2^e \in Nat BY PowerIsSubsets
<1>3. e \notin T BY <1>1
<1> QED BY <1>2, <1>3, PowerDoubles

LEMMA PowersMultiply ==
  ASSUME NEW a \in Nat, NEW b \in Nat
  PROVE  2^(a + b) = 2^a * 2^b
<1> DEFINE T == {m \in Nat : 2^(a + m) # 2^a * 2^m}
<1>1. T = {}
  <2>1. SUFFICES ASSUME T # {} PROVE FALSE
        OBVIOUS
  <2>2. PICK m \in T : \A v \in T : m <= v
    <3>1. T \in SUBSET Nat OBVIOUS
    <3> HIDE DEF T
    <3> QED BY <2>1, <3>1, Least
  <2>3. m # 0
    <3>1. 2^0 = 1 /\ a + 0 = a OBVIOUS
    <3>2. 2^a \in Nat BY Powers
    <3>3. 2^(a + 0) = 2^a * 2^0 BY <3>1, <3>2
    <3> QED BY <2>2, <3>3
  <2>4. m - 1 \in Nat /\ m - 1 < m BY <2>2, <2>3
  <2>5. 2^(a + (m - 1)) = 2^a * 2^(m - 1)
    <3>1. m - 1 \notin T
      <4>1. m \in Nat OBVIOUS
      <4> HIDE DEF T
      <4> QED BY <2>2, <2>4, <4>1
    <3> QED BY <2>4, <3>1
  <2>6. 2^m = 2^(m - 1) + 2^(m - 1)
    <3>1. m - 1 + 1 = m BY <2>2
    <3> QED BY <2>4, <3>1, Powers
  <2>7. 2^(a + m) = 2^(a + (m - 1)) + 2^(a + (m - 1))
    <3>1. a + (m - 1) \in Nat /\ a + (m - 1) + 1 = a + m BY <2>4
    <3>2. 2^(a + (m - 1) + 1) = 2^(a + (m - 1)) + 2^(a + (m - 1)) BY <3>1, Powers
    <3> QED BY <3>1, <3>2
  <2>8. 2^a \in Nat /\ 2^(m - 1) \in Nat BY <2>4, Powers
  <2>9. 2^a * (2^(m - 1) + 2^(m - 1)) = 2^a * 2^(m - 1) + 2^a * 2^(m - 1) BY <2>8
  <2>10. 2^(a + m) = 2^a * 2^m BY <2>5, <2>6, <2>7, <2>9
  <2> QED BY <2>2, <2>10
<1>2. b \notin T BY <1>1
<1> QED BY <1>2

LEMMA PowersOrdered ==
  ASSUME NEW a \in Nat, NEW b \in Nat, a <= b
  PROVE  2^a <= 2^b
<1>1. b - a \in Nat /\ a + (b - a) = b OBVIOUS
<1>2. 2^b = 2^a * 2^(b - a)
  <2>1. 2^(a + (b - a)) = 2^a * 2^(b - a) BY <1>1, PowersMultiply
  <2> QED BY <1>1, <2>1
<1>3. 2^a \in Nat /\ 2^(b - a) \in Nat /\ 1 <= 2^(b - a) BY <1>1, Powers
<1>4. 1 * 2^a <= 2^(b - a) * 2^a BY <1>3, TimesOrdered
<1>5. 2^(b - a) * 2^a = 2^a * 2^(b - a) /\ 1 * 2^a = 2^a BY <1>3
<1> QED BY <1>2, <1>4, <1>5

LEMMA PowerExceeds ==
  ASSUME NEW e \in Nat
  PROVE  e <= 2^e
<1> DEFINE T == {m \in Nat : 2^m < m}
<1>1. T = {}
  <2>1. SUFFICES ASSUME T # {} PROVE FALSE
        OBVIOUS
  <2>2. PICK m \in T : \A v \in T : m <= v
    <3>1. T \in SUBSET Nat OBVIOUS
    <3> HIDE DEF T
    <3> QED BY <2>1, <3>1, Least
  <2>3. m # 0
    <3>1. 2^0 = 1 OBVIOUS
    <3>2. ~(2^0 < 0) BY <3>1
    <3>3. 0 \notin T BY <3>2
    <3> QED BY <3>3
  <2>4. m - 1 \in Nat /\ m - 1 + 1 = m /\ m - 1 < m BY <2>2, <2>3
  <2>5. 2^(m - 1) \in Nat /\ 2^(m - 1) >= 1 /\ 2^m = 2^(m - 1) + 2^(m - 1)
    <3>1. 2^(m - 1 + 1) = 2^(m - 1) + 2^(m - 1) BY <2>4, Powers
    <3> QED BY <2>4, <3>1, Powers
  <2>6. m - 1 \notin T
    <3>1. m \in Nat OBVIOUS
    <3> HIDE DEF T
    <3> QED BY <2>2, <2>4, <3>1
  <2>7. m - 1 <= 2^(m - 1) BY <2>4, <2>5, <2>6
  <2> QED BY <2>2, <2>4, <2>5, <2>7
<1>2. e \notin T /\ 2^e \in Nat BY <1>1, Powers
<1> QED BY <1>2

\* Every number is below some power of two; the least exponent that reaches it.
LEMMA PowersReach ==
  ASSUME NEW n \in Nat
  PROVE  \E h \in Nat : n <= 2^h /\ (h # 0 => 2^(h - 1) < n)
<1> DEFINE H == {h \in Nat : n <= 2^h}
<1>1. n \in H BY PowerExceeds
<1>2. PICK h \in H : \A v \in H : h <= v
  <2>1. H \in SUBSET Nat OBVIOUS
  <2> HIDE DEF H
  <2> QED BY <1>1, <2>1, Least
<1>3. ASSUME h # 0 PROVE 2^(h - 1) < n
  <2>1. h - 1 \in Nat /\ h - 1 < h BY <1>3
  <2>2. h - 1 \notin H
    <3>1. h \in Nat OBVIOUS
    <3> HIDE DEF H
    <3> QED BY <1>2, <2>1, <3>1
  <2>3. 2^(h - 1) \in Nat BY <2>1, Powers
  <2> QED BY <2>1, <2>2, <2>3
<1> QED BY <1>2, <1>3

\* _split is the greatest power of two below the size.
LEMMA SplitIsPower ==
  ASSUME NEW n \in Nat, NEW e \in Nat, 2^e < n, n <= 2^(e + 1)
  PROVE  Split(n) = 2^e
<1>1. PICK f : Grows(f, n) /\ Split(n) = f[1]
      BY GrowsExists DEF Split, Grows
<1> DEFINE T == {m \in Nat : m <= e /\ f[2^(e - m)] # 2^e}
<1>2. T = {}
  <2>1. SUFFICES ASSUME T # {} PROVE FALSE
        OBVIOUS
  <2>2. PICK m \in T : \A v \in T : m <= v
    <3>1. T \in SUBSET Nat OBVIOUS
    <3> HIDE DEF T
    <3> QED BY <2>1, <3>1, Least
  <2> DEFINE d == e - m
  <2>3. d \in Nat /\ d <= e BY <2>2
  <2>4. 2^d \in 1..n
    <3>1. 2^d \in Nat /\ 2^d >= 1 /\ 2^e \in Nat BY <2>3, Powers
    <3>2. 2^d <= 2^e BY <2>3, PowersOrdered
    <3> HIDE DEF d
    <3> QED BY <3>1, <3>2
  <2>5. f[2^d] = IF 2^d * 2 < n THEN f[2^d * 2] ELSE 2^d
    <3> HIDE DEF d
    <3> QED BY <1>1, <2>4 DEF Grows
  <2>6. 2^d * 2 = 2^(d + 1)
    <3> HIDE DEF d
    <3>1. 2^d \in Nat /\ 2^(d + 1) = 2^d + 2^d BY <2>3, Powers
    <3> QED BY <3>1
  <2>7. CASE m = 0
    <3>1. d = e BY <2>7
    <3>2. 2^(e + 1) \in Nat BY Powers
    <3> QED BY <2>2, <2>5, <2>6, <2>7, <3>1, <3>2
  <2>8. CASE m # 0
    <3>1. m - 1 \in Nat /\ m - 1 < m /\ m - 1 <= e /\ e - (m - 1) = d + 1
          BY <2>2, <2>8
    <3>2. m - 1 \notin T
      <4>1. m \in Nat OBVIOUS
      <4> HIDE DEF T, d
      <4> QED BY <2>2, <3>1, <4>1
    <3>3. f[2^(d + 1)] = 2^e
      <4>1. f[2^(e - (m - 1))] = 2^e BY <3>1, <3>2
      <4> QED BY <3>1, <4>1
    <3>4. 2^(d + 1) < n
      <4>1. d + 1 \in Nat /\ d + 1 <= e BY <2>3, <3>1
      <4>2. 2^(d + 1) <= 2^e /\ 2^(d + 1) \in Nat /\ 2^e \in Nat
            BY <4>1, PowersOrdered, Powers
      <4> HIDE DEF d
      <4> QED BY <4>2
    <3> QED BY <2>2, <2>5, <2>6, <3>3, <3>4
  <2> QED BY <2>7, <2>8
<1>3. e \notin T BY <1>2
<1>4. e - e = 0 /\ 2^0 = 1 OBVIOUS
<1> QED BY <1>1, <1>3, <1>4

CeilGrows(f, x) == f = [k \in 1..(2 * x) |-> IF k < x THEN f[k * 2] ELSE k]

\* There is such a function too.
LEMMA CeilGrowsExists ==
  ASSUME NEW x \in Nat
  PROVE  \E f : CeilGrows(f, x)
<1> DEFINE n == 2 * x
           From(f, m) == f = [k \in (n - m + 1)..n |-> IF k < x THEN f[k * 2] ELSE k]
           T == {m \in 0..n : ~ \E f : From(f, m)}
<1>0. n \in Nat OBVIOUS
<1>1. T = {}
  <2>1. SUFFICES ASSUME T # {} PROVE FALSE
        OBVIOUS
  <2>2. PICK m \in T : \A k \in T : m <= k
    <3>1. T \in SUBSET Nat OBVIOUS
    <3> HIDE DEF T
    <3> QED BY <2>1, <3>1, Least
  <2>3. m # 0
    <3>1. [k \in (n + 1)..n |-> k] = [k \in (n + 1)..n |-> IF k < x THEN [i \in (n + 1)..n |-> i][k * 2] ELSE k]
          OBVIOUS
    <3>2. From([k \in (n - 0 + 1)..n |-> k], 0) BY <3>1
    <3> QED BY <3>2, <2>2
  <2>4. m - 1 \in 0..n /\ m - 1 \notin T
        BY <2>2, <2>3
  <2>5. PICK f : From(f, m - 1)
        BY <2>4
  <2> DEFINE lo == n - m + 1
             g == [k \in lo..n |-> IF k = lo THEN IF k < x THEN f[k * 2] ELSE k ELSE f[k]]
  <2>6. lo \in 1..n /\ n - (m - 1) + 1 = lo + 1
        BY <2>2, <2>3
  <2>7. f = [k \in (lo + 1)..n |-> IF k < x THEN f[k * 2] ELSE k]
        BY <2>5, <2>6
  <2>8. ASSUME NEW k \in lo..n
        PROVE  g[k] = IF k < x THEN g[k * 2] ELSE k
    <3>1. k < x => k * 2 \in (lo + 1)..n
          BY <2>6
    <3>2. k < x => g[k * 2] = f[k * 2]
          BY <2>6, <3>1
    <3>3. CASE k = lo
          BY <3>2, <3>3
    <3>4. CASE k # lo
      <4>1. k \in (lo + 1)..n BY <2>6, <3>4
      <4> QED BY <2>7, <3>2, <3>4, <4>1
    <3> QED BY <3>3, <3>4
  <2>9. From(g, m)
        BY <2>8
  <2> QED BY <2>2, <2>9
<1>2. n \notin T BY <1>1
<1>3. PICK f : From(f, n) BY <1>0, <1>2
<1>4. CeilGrows(f, x) BY <1>0, <1>3 DEF CeilGrows
<1> QED BY <1>4

\* bit_ceil is the least power of two that is not below the number.
LEMMA BitCeilIsPower ==
  ASSUME NEW n \in Nat, n # 0, NEW h \in Nat, n <= 2^h, h # 0 => 2^(h - 1) < n
  PROVE  BitCeil(n) = 2^h
<1>1. PICK f : CeilGrows(f, n) /\ BitCeil(n) = f[1]
      BY CeilGrowsExists DEF BitCeil, CeilGrows
<1>2. 2^h \in Nat /\ 2^h >= 1 BY Powers
<1>3. 2^h <= 2 * n
  <2>1. CASE h = 0
    <3>1. 2^0 = 1 OBVIOUS
    <3> QED BY <2>1, <3>1
  <2>2. CASE h # 0
    <3>1. h - 1 \in Nat /\ h - 1 + 1 = h BY <2>2
    <3>2. 2^(h - 1) \in Nat /\ 2^(h - 1 + 1) = 2^(h - 1) + 2^(h - 1) BY <3>1, Powers
    <3>3. 2^h = 2^(h - 1) + 2^(h - 1) BY <3>1, <3>2
    <3> QED BY <2>2, <3>2, <3>3
  <2> QED BY <2>1, <2>2
<1> DEFINE T == {m \in Nat : m <= h /\ f[2^(h - m)] # 2^h}
<1>4. T = {}
  <2>1. SUFFICES ASSUME T # {} PROVE FALSE
        OBVIOUS
  <2>2. PICK m \in T : \A v \in T : m <= v
    <3>1. T \in SUBSET Nat OBVIOUS
    <3> HIDE DEF T
    <3> QED BY <2>1, <3>1, Least
  <2> DEFINE d == h - m
  <2>3. d \in Nat /\ d <= h BY <2>2
  <2>4. 2^d \in 1..(2 * n)
    <3>1. 2^d \in Nat /\ 2^d >= 1 BY <2>3, Powers
    <3>2. 2^d <= 2^h BY <2>3, PowersOrdered
    <3> HIDE DEF d
    <3> QED BY <1>2, <1>3, <3>1, <3>2
  <2>5. f[2^d] = IF 2^d < n THEN f[2^d * 2] ELSE 2^d
    <3> HIDE DEF d
    <3> QED BY <1>1, <2>4 DEF CeilGrows
  <2>6. 2^d * 2 = 2^(d + 1)
    <3> HIDE DEF d
    <3>1. 2^d \in Nat /\ 2^(d + 1) = 2^d + 2^d BY <2>3, Powers
    <3> QED BY <3>1
  <2>7. CASE m = 0
    <3>1. d = h BY <2>7
    <3> QED BY <1>2, <2>2, <2>5, <2>7, <3>1
  <2>8. CASE m # 0
    <3>1. m - 1 \in Nat /\ m - 1 < m /\ m - 1 <= h /\ h - (m - 1) = d + 1
          BY <2>2, <2>8
    <3>2. m - 1 \notin T
      <4>1. m \in Nat OBVIOUS
      <4> HIDE DEF T, d
      <4> QED BY <2>2, <3>1, <4>1
    <3>3. f[2^(d + 1)] = 2^h
      <4>1. f[2^(h - (m - 1))] = 2^h BY <3>1, <3>2
      <4> QED BY <3>1, <4>1
    <3>4. 2^d < n
      <4>1. h # 0 /\ h - 1 \in Nat /\ d <= h - 1 BY <2>2, <2>3, <2>8
      <4>2. 2^d <= 2^(h - 1) /\ 2^d \in Nat /\ 2^(h - 1) \in Nat
            BY <2>3, <4>1, PowersOrdered, Powers
      <4> HIDE DEF d
      <4> QED BY <4>1, <4>2
    <3> QED BY <2>2, <2>5, <2>6, <3>3, <3>4
  <2> QED BY <2>7, <2>8
<1>5. h \notin T BY <1>4
<1>6. h - h = 0 /\ 2^0 = 1 OBVIOUS
<1> QED BY <1>1, <1>5, <1>6

LEMMA Multiples ==
  ASSUME NEW q \in Nat, NEW d \in Nat, d > 0
  PROVE  q * d \in Nat /\ (q * d) \div d = q /\ (q * d) % d = 0
<1>1. q * d \in Nat OBVIOUS
<1>2. (q * d) \div d = q
  <2>1. q * d <= q * d /\ q * d < q * d + d BY <1>1
  <2> QED BY <1>1, <2>1, Quotient
<1>3. q * d = d * ((q * d) \div d) + ((q * d) % d) /\ (q * d) % d \in Nat BY <1>1
<1> QED BY <1>1, <1>2, <1>3

LEMMA ExactMultiple ==
  ASSUME NEW x \in Nat, NEW d \in Nat, d > 0, x % d = 0
  PROVE  x = (x \div d) * d /\ x \div d \in Nat
OBVIOUS

\* A multiple of a block's size is a multiple of bit_ceil of anything within a block.
LEMMA BitCeilDivides ==
  ASSUME NEW x \in Nat, x # 0, NEW p \in Nat, x <= 2^p, NEW y \in Nat, y % 2^p = 0
  PROVE  y % BitCeil(x) = 0
<1>1. PICK h \in Nat : x <= 2^h /\ (h # 0 => 2^(h - 1) < x) BY PowersReach
<1>2. BitCeil(x) = 2^h BY <1>1, BitCeilIsPower
<1>3. h <= p
  <2>1. SUFFICES ASSUME p < h PROVE FALSE OBVIOUS
  <2>2. h # 0 /\ h - 1 \in Nat /\ p <= h - 1 BY <2>1
  <2>3. 2^p <= 2^(h - 1) BY <2>2, PowersOrdered
  <2>4. 2^p \in Nat /\ 2^(h - 1) \in Nat /\ 2^(h - 1) < x BY <1>1, <2>2, Powers
  <2> QED BY <2>3, <2>4
<1>4. p - h \in Nat /\ (p - h) + h = p BY <1>3
<1>5. 2^p = 2^(p - h) * 2^h BY <1>4, PowersMultiply
<1>6. 2^p \in Nat /\ 2^p >= 1 /\ 2^(p - h) \in Nat /\ 2^h \in Nat /\ 2^h >= 1 BY <1>4, Powers
<1> DEFINE P == 2^p
           C == 2^(p - h)
           H == 2^h
           q == y \div P
<1>7. y = q * P /\ q \in Nat
  <2> HIDE DEF P
  <2>1. P \in Nat /\ P > 0 /\ y % P = 0 BY <1>6 DEF P
  <2> QED BY <2>1, ExactMultiple
<1>8. y = (q * C) * H /\ q * C \in Nat
  <2>1. P = C * H /\ C \in Nat /\ H \in Nat BY <1>5, <1>6
  <2> HIDE DEF P, C, H, q
  <2> QED BY <1>7, <2>1
<1>9. y % H = 0
  <2>1. H \in Nat /\ H > 0 BY <1>6
  <2> HIDE DEF C, H, q
  <2> QED BY <1>8, <2>1, Multiples
<1> QED BY <1>2, <1>9

\* A number times a power of two is even unless the power is 1.
LEMMA PowersAreEven ==
  ASSUME NEW q \in Nat, NEW e \in Nat, e # 0
  PROVE  (q * 2^e) % 2 = 0
<1>1. e - 1 \in Nat /\ e - 1 + 1 = e OBVIOUS
<1>2. 2^(e - 1) \in Nat BY <1>1, Powers
<1>3. 2^e = 2^(e - 1) + 2^(e - 1)
  <2>1. 2^(e - 1 + 1) = 2^(e - 1) + 2^(e - 1) BY <1>1, Powers
  <2> QED BY <1>1, <2>1
<1>4. q * 2^e = (q * 2^(e - 1)) * 2 BY <1>2, <1>3
<1>5. q * 2^(e - 1) \in Nat BY <1>2
<1>6. ((q * 2^(e - 1)) * 2) % 2 = 0
  <2>1. 2 \in Nat /\ 2 > 0 OBVIOUS
  <2> QED BY <1>5, <2>1, Multiples
<1> QED BY <1>4, <1>6

\* How often an odd multiple of a power of two is halved until it is odd.
LEMMA ZerosOfMultiple ==
  ASSUME NEW o \in Nat, o % 2 = 1, NEW z \in Nat
  PROVE  Zeros(o * 2^z) = z
<1> DEFINE x == o * 2^z
           Good(y) == x % 2^y = 0 /\ (x \div 2^y) % 2 = 1
<1>1. 2^z \in Nat /\ 2^z >= 1 BY Powers
<1>2. x \in Nat /\ x >= 2^z
  <2>1. o \in Nat /\ 1 <= o OBVIOUS
  <2>2. 1 * 2^z <= o * 2^z BY <1>1, <2>1, TimesOrdered
  <2>3. o * 2^z \in Nat /\ 1 * 2^z = 2^z BY <1>1
  <2> QED BY <2>2, <2>3
<1>3. z \in 0..x
  <2>1. z <= 2^z BY PowerExceeds
  <2> HIDE DEF x
  <2> QED BY <1>1, <1>2, <2>1
<1>4. x \div 2^z = o /\ x % 2^z = 0
  <2>1. 2^z > 0 BY <1>1
  <2> QED BY <1>1, <2>1, Multiples
<1>5. ASSUME NEW y \in 0..x, Good(y) PROVE y = z
  <2>1. y \in Nat BY <1>2
  <2>2. CASE y < z
    <3>1. z - y \in Nat /\ z - y # 0 /\ z = (z - y) + y BY <2>1, <2>2
    <3>2. 2^(z - y) \in Nat /\ 2^y \in Nat /\ 2^y > 0 BY <2>1, <3>1, Powers
    <3>3. 2^z = 2^(z - y) * 2^y
      <4>1. 2^((z - y) + y) = 2^(z - y) * 2^y BY <2>1, <3>1, PowersMultiply
      <4> QED BY <3>1, <4>1
    <3>4. x = (o * 2^(z - y)) * 2^y BY <3>2, <3>3
    <3>5. o * 2^(z - y) \in Nat BY <3>2
    <3>6. x \div 2^y = o * 2^(z - y)
      <4>1. ((o * 2^(z - y)) * 2^y) \div 2^y = o * 2^(z - y) BY <3>2, <3>5, Multiples
      <4> HIDE DEF x
      <4> QED BY <3>4, <4>1
    <3>7. (o * 2^(z - y)) % 2 = 0 BY <3>1, PowersAreEven
    <3>8. (x \div 2^y) % 2 = 1 BY <1>5
    <3> HIDE DEF x
    <3>9. (o * 2^(z - y)) % 2 = 1 BY <3>6, <3>8
    <3> HIDE DEF Good
    <3> QED BY <3>7, <3>9
  <2>3. CASE y > z
    <3>1. y - z \in Nat /\ y - z # 0 /\ y = (y - z) + z BY <2>1, <2>3
    <3>2. 2^(y - z) \in Nat /\ 2^y \in Nat /\ 2^y > 0 BY <2>1, <3>1, Powers
    <3>3. 2^y = 2^(y - z) * 2^z
      <4>1. 2^((y - z) + z) = 2^(y - z) * 2^z BY <3>1, PowersMultiply
      <4> QED BY <3>1, <4>1
    <3> DEFINE q == x \div 2^y
    <3>4. q \in Nat /\ x = q * 2^y
      <4> HIDE DEF x
      <4> QED BY <1>2, <1>5, <3>2, ExactMultiple
    <3> HIDE DEF q
    <3>5. x = (q * 2^(y - z)) * 2^z BY <1>1, <3>2, <3>3, <3>4
    <3>6. q * 2^(y - z) \in Nat BY <3>2, <3>4
    <3>7. x \div 2^z = q * 2^(y - z)
      <4>1. ((q * 2^(y - z)) * 2^z) \div 2^z = q * 2^(y - z)
        <5>1. 2^z > 0 BY <1>1
        <5> QED BY <1>1, <3>6, <5>1, Multiples
      <4> HIDE DEF x
      <4> QED BY <3>5, <4>1
    <3>8. (q * 2^(y - z)) % 2 = 0 BY <3>1, <3>4, PowersAreEven
    <3>9. o = q * 2^(y - z) BY <1>4, <3>7
    <3> QED BY <3>8, <3>9
  <2> QED BY <1>1, <2>1, <2>2, <2>3
<1>6. Good(z) BY <1>4
<1>7. x # 0 BY <1>1, <1>2
<1>8. Zeros(x) = CHOOSE y \in 0..x : Good(y) BY <1>7 DEF Zeros
<1> HIDE DEF x, Good
<1>9. (CHOOSE y \in 0..x : Good(y)) = z BY <1>3, <1>5, <1>6
<1> QED BY <1>8, <1>9 DEF x

-----------------------------------------------------------------------------

LEMMA QuotientTwice ==
  ASSUME NEW x \in Nat, NEW c \in Nat, c > 0, NEW d \in Nat, d > 0
  PROVE  (x \div d) \div c = x \div (c * d)
<1> DEFINE q == x \div d
           p == q \div c
<1>1. q \in Nat /\ q * d <= x /\ x < q * d + d BY DivideBack
<1> HIDE DEF q
<1>2. p \in Nat /\ p * c <= q /\ q < p * c + c BY <1>1, DivideBack
<1> HIDE DEF p
<1>3. c * d \in Nat /\ c * d > 0
  <2>1. 1 * d <= c * d BY TimesOrdered
  <2> QED BY <2>1
<1>4. p * c \in Nat /\ p * c + c \in Nat /\ q + 1 <= p * c + c BY <1>1, <1>2
<1>5. (p * c) * d <= q * d /\ (q + 1) * d <= (p * c + c) * d
      BY <1>1, <1>2, <1>4, TimesOrdered
<1>6. (p * c) * d = p * (c * d) /\ (p * c + c) * d = p * (c * d) + c * d
      BY <1>2, <1>4
<1>7. (q + 1) * d = q * d + d BY <1>1
<1>8. p * (c * d) \in Nat /\ q * d \in Nat BY <1>1, <1>2, <1>3
<1>9. p * (c * d) <= x /\ x < p * (c * d) + c * d
      BY <1>1, <1>3, <1>5, <1>6, <1>7, <1>8
<1>10. x \div (c * d) = p BY <1>2, <1>3, <1>9, Quotient
<1> QED BY <1>3, <1>10 DEF p, q

Halved(x, e, y) == (x \div 2^e) \div 2^y = x \div 2^(e + y)

LEMMA QuotientOfPowers ==
  ASSUME NEW x \in Nat, NEW e \in Nat, NEW y \in Nat
  PROVE  Halved(x, e, y)
<1>1. 2^e \in Nat /\ 2^e > 0 /\ 2^y \in Nat /\ 2^y > 0 BY Powers
<1>2. 2^(e + y) = 2^y * 2^e
  <2>1. 2^(e + y) = 2^e * 2^y BY PowersMultiply
  <2> QED BY <1>1, <2>1
<1>3. (x \div 2^e) \div 2^y = x \div (2^y * 2^e)
  <2> DEFINE d == 2^e
             c == 2^y
  <2> HIDE DEF c, d
  <2>1. c \in Nat /\ c > 0 /\ d \in Nat /\ d > 0 BY <1>1 DEF c, d
  <2>2. (x \div d) \div c = x \div (c * d)
        BY <2>1, QuotientTwice, Zenon
  <2> QED BY <2>2 DEF c, d
<1> QED BY <1>2, <1>3 DEF Halved

\* The range lo..hi is that of a node of the tree over size leaves, h levels up.
IsPlace(lo, hi, h, size) ==
  /\ h \in Nat
  /\ \E a \in Nat : lo = a * 2^h
  /\ lo < hi /\ hi <= size /\ hi <= lo + 2^h
  /\ hi = lo + 2^h \/ hi = size
  /\ h # 0 => lo + 2^(h - 1) < hi

LEMMA RootPlace ==
  ASSUME NEW size \in Nat, size # 0
  PROVE  \E h \in Nat : IsPlace(0, size, h, size)
<1>1. PICK h \in Nat : size <= 2^h /\ (h # 0 => 2^(h - 1) < size) BY PowersReach
<1>2. 2^h \in Nat BY Powers
<1>3. 0 = 0 * 2^h BY <1>2
<1>4. h # 0 => 2^(h - 1) \in Nat
  <2>1. h # 0 => h - 1 \in Nat OBVIOUS
  <2> QED BY <2>1, Powers
<1>5. IsPlace(0, size, h, size) BY <1>1, <1>2, <1>3, <1>4 DEF IsPlace
<1> QED BY <1>5

\* Where a place of two leaves or more is split, and what its parts are.
LEMMA PlaceSplits ==
  ASSUME NEW lo \in Nat, NEW hi \in Nat, NEW size \in Nat, NEW h,
         IsPlace(lo, hi, h, size), hi - lo >= 2
  PROVE  LET k == lo + Split(hi - lo)
         IN  /\ h \in Nat \ {0} /\ k = lo + 2^(h - 1) /\ lo < k /\ k < hi
             /\ IsPlace(lo, k, h - 1, size)
             /\ \E g \in Nat : g <= h - 1 /\ IsPlace(k, hi, g, size)
<1> DEFINE K == 2^(h - 1)
           k == lo + K
           m == hi - k
<1>1. PICK a \in Nat : lo = a * 2^h BY DEF IsPlace
<1>2. h \in Nat /\ h # 0
  <2>1. 2^0 = 1 OBVIOUS
  <2>2. h = 0 => hi <= lo + 1 BY <2>1 DEF IsPlace
  <2> QED BY <2>2 DEF IsPlace
<1>3. h - 1 \in Nat /\ h - 1 + 1 = h BY <1>2
<1>4. K \in Nat /\ K >= 1 /\ 2^h = K + K
  <2>1. 2^(h - 1 + 1) = 2^(h - 1) + 2^(h - 1) BY <1>3, Powers
  <2> QED BY <1>3, <2>1, Powers
<1> HIDE DEF K
<1>5. K < hi - lo /\ hi - lo <= 2^h /\ hi <= size
      BY <1>2, <1>4 DEF IsPlace, K
<1>6. Split(hi - lo) = K
  <2>1. hi - lo \in Nat BY <1>5
  <2>2. 2^(h - 1) < hi - lo /\ hi - lo <= 2^(h - 1 + 1) BY <1>3, <1>5 DEF K
  <2> QED BY <1>3, <2>1, <2>2, SplitIsPower DEF K
<1>7. k \in Nat /\ lo < k /\ k < hi /\ m \in Nat /\ m <= K BY <1>4, <1>5
<1>8. lo = (2 * a) * K /\ k = (2 * a + 1) * K BY <1>1, <1>4
<1>9. IsPlace(lo, k, h - 1, size)
  <2>1. 2 * a \in Nat OBVIOUS
  <2>2. \E b \in Nat : lo = b * 2^(h - 1) BY <1>8, <2>1 DEF K
  <2>3. h - 1 # 0 => lo + 2^(h - 1 - 1) < k
    <3>1. ASSUME h - 1 # 0 PROVE 2^(h - 1 - 1) < K
      <4>1. h - 1 - 1 \in Nat /\ h - 1 - 1 + 1 = h - 1 BY <1>3, <3>1
      <4>2. 2^(h - 1 - 1 + 1) = 2^(h - 1 - 1) + 2^(h - 1 - 1) /\ 2^(h - 1 - 1) \in Nat
            /\ 2^(h - 1 - 1) >= 1
            BY <4>1, Powers
      <4> QED BY <4>1, <4>2 DEF K
    <3>2. h - 1 # 0 => 2^(h - 1 - 1) \in Nat
      <4>1. h - 1 # 0 => h - 1 - 1 \in Nat BY <1>3
      <4> QED BY <4>1, Powers
    <3> QED BY <1>4, <3>1, <3>2
  <2>4. k <= size /\ k = lo + 2^(h - 1) BY <1>5, <1>7 DEF K
  <2> QED BY <1>3, <1>7, <2>2, <2>3, <2>4 DEF IsPlace
<1>10. PICK g \in Nat : m <= 2^g /\ (g # 0 => 2^(g - 1) < m) BY <1>7, PowersReach
<1>11. g <= h - 1
  <2>1. SUFFICES ASSUME g > h - 1 PROVE FALSE BY <1>3
  <2>2. g # 0 /\ g - 1 \in Nat /\ h - 1 <= g - 1 BY <1>3, <2>1
  <2>3. K <= 2^(g - 1) /\ 2^(g - 1) \in Nat BY <1>3, <2>2, PowersOrdered, Powers DEF K
  <2> QED BY <1>4, <1>7, <1>10, <2>2, <2>3
<1>12. 2^g \in Nat /\ 2^g <= K
      BY <1>3, <1>11, PowersOrdered, Powers DEF K
<1>13. IsPlace(k, hi, g, size)
  <2>1. \E b \in Nat : k = b * 2^g
    <3> DEFINE z == h - 1 - g
    <3>1. z \in Nat /\ z + g = h - 1 BY <1>3, <1>11
    <3>2. K = 2^z * 2^g /\ 2^z \in Nat
      <4>1. 2^(z + g) = 2^z * 2^g BY <3>1, PowersMultiply
      <4> QED BY <3>1, <4>1, Powers DEF K
    <3> HIDE DEF z
    <3>3. (2 * a + 1) * 2^z \in Nat BY <3>2
    <3>4. k = ((2 * a + 1) * 2^z) * 2^g BY <1>8, <1>12, <3>2
    <3> QED BY <3>3, <3>4
  <2>2. hi = k + 2^g \/ hi = size
    <3>1. CASE hi = size BY <3>1
    <3>2. CASE hi = lo + 2^h
      <4>1. m = K /\ hi = k + K BY <1>4, <3>2
      <4> QED BY <1>4, <1>10, <1>12, <4>1
    <3> QED BY <3>1, <3>2 DEF IsPlace
  <2>3. hi <= k + 2^g BY <1>7, <1>10, <1>12
  <2>4. g # 0 => k + 2^(g - 1) < hi
    <3>1. g # 0 => 2^(g - 1) \in Nat
      <4>1. g # 0 => g - 1 \in Nat OBVIOUS
      <4> QED BY <4>1, Powers
    <3> QED BY <1>7, <1>10, <3>1
  <2> QED BY <1>5, <1>7, <2>1, <2>2, <2>3, <2>4 DEF IsPlace
<1> QED BY <1>2, <1>6, <1>7, <1>9, <1>11, <1>13 DEF K

\* The position that check_inclusion has reached h levels up.
Reached(index, size, h, r) ==
  [fn |-> index \div 2^h, sn |-> (size - 1) \div 2^h, r |-> r]

\* From the left part of a place to the place.
LEMMA JoinsFromLeft ==
  ASSUME NEW lo \in Nat, NEW hi \in Nat, NEW size \in Nat, NEW h \in Nat \ {0},
         IsPlace(lo, hi, h, size), lo + 2^(h - 1) < hi,
         NEW index \in Nat, lo <= index, index < lo + 2^(h - 1), NEW r, NEW p
  PROVE  Join(Reached(index, size, h - 1, r), p)
           = Reached(index, size, h, NodeHash(r, p))
<1> DEFINE K == 2^(h - 1)
           fn == index \div K
           sn == (size - 1) \div K
<1>1. PICK a \in Nat : lo = a * 2^h BY DEF IsPlace
<1>2. h - 1 \in Nat /\ h - 1 + 1 = h OBVIOUS
<1>3. K \in Nat /\ K >= 1 /\ 2^h = K + K
  <2>1. 2^(h - 1 + 1) = 2^(h - 1) + 2^(h - 1) BY <1>2, Powers
  <2> QED BY <1>2, <2>1, Powers
<1>4. fn \div 2 = index \div 2^h
  <2> HIDE DEF K
  <2>1. K \in Nat /\ K > 0 BY <1>3
  <2>2. (index \div K) \div 2 = index \div (K + K) BY <2>1, QuotientHalved, Zenon
  <2> QED BY <1>3, <2>2
<1>5. size - 1 \in Nat /\ size - 1 >= lo + K BY DEF IsPlace, K
<1>6. sn \div 2 = (size - 1) \div 2^h
  <2> HIDE DEF K
  <2> DEFINE y == size - 1
  <2> HIDE DEF y
  <2>1. y \in Nat /\ K \in Nat /\ K > 0 BY <1>3, <1>5 DEF y
  <2>2. (y \div K) \div 2 = y \div (K + K) BY <2>1, QuotientHalved, Zenon
  <2> QED BY <1>3, <2>2 DEF y
<1>7. fn = 2 * a
  <2>1. (2 * a) * K = lo BY <1>1, <1>3
  <2>2. 2 * a \in Nat OBVIOUS
  <2>3. (2 * a) * K <= index /\ index < (2 * a) * K + K BY <2>1 DEF K
  <2> HIDE DEF K
  <2> QED BY <1>3, <2>2, <2>3, Quotient
<1>8. sn # fn
  <2>1. sn \in Nat /\ size - 1 < sn * K + K
    <3> HIDE DEF K
    <3> QED BY <1>3, <1>5, DivideBack
  <2>2. (2 * a) * K = lo BY <1>1, <1>3
  <2>3. SUFFICES ASSUME sn = 2 * a PROVE FALSE BY <1>7
  <2> HIDE DEF K, sn, fn
  <2>4. size - 1 < lo + K BY <2>1, <2>2, <2>3
  <2> QED BY <1>3, <1>5, <2>4
<1>9. fn % 2 # 1 BY <1>7
<1> HIDE DEF fn, sn
<1>10. Reached(index, size, h - 1, r) = [fn |-> fn, sn |-> sn, r |-> r]
       BY DEF Reached, fn, sn
<1>11. Join([fn |-> fn, sn |-> sn, r |-> r], p)
         = [fn |-> fn \div 2, sn |-> sn \div 2, r |-> NodeHash(r, p)]
       BY <1>8, <1>9 DEF Join
<1> QED BY <1>4, <1>6, <1>10, <1>11 DEF Reached

\* From the right part of a place to the place: at the right edge of the tree the
\* part may be lower than the left one, and the levels between are passed at once.
LEMMA JoinsFromRight ==
  ASSUME NEW lo \in Nat, NEW hi \in Nat, NEW size \in Nat, NEW h \in Nat \ {0},
         IsPlace(lo, hi, h, size),
         NEW mid \in Nat, mid = lo + 2^(h - 1),
         NEW g \in Nat, g <= h - 1, IsPlace(mid, hi, g, size),
         NEW index \in Nat, mid <= index, index < hi, NEW r, NEW p
  PROVE  Join(Reached(index, size, g, r), p)
           = Reached(index, size, h, NodeHash(p, r))
<1> DEFINE K == 2^(h - 1)
           P == 2^g
           k == lo + K
           z == h - 1 - g
           fn == index \div P
           sn == (size - 1) \div P
<1>1. PICK a \in Nat : lo = a * 2^h BY DEF IsPlace
<1>2. h - 1 \in Nat /\ h - 1 + 1 = h OBVIOUS
<1>3. K \in Nat /\ K >= 1 /\ 2^h = K + K
  <2>1. 2^(h - 1 + 1) = 2^(h - 1) + 2^(h - 1) BY <1>2, Powers
  <2> QED BY <1>2, <2>1, Powers
<1>4. P \in Nat /\ P >= 1 /\ P <= K BY <1>2, Powers, PowersOrdered
<1>5. z \in Nat /\ z + g = h - 1 /\ g + (z + 1) = h BY <1>2
<1>6. K = 2^z * P /\ 2^z \in Nat /\ 2^z >= 1
  <2>1. 2^(z + g) = 2^z * 2^g BY <1>5, PowersMultiply
  <2> HIDE DEF z
  <2> QED BY <1>5, <2>1, Powers
<1>7. k = ((2 * a + 1) * 2^z) * P
  <2>1. k = (2 * a + 1) * K
    <3> HIDE DEF K
    <3> QED BY <1>1, <1>3
  <2> HIDE DEF K, P, z, k
  <2> QED BY <1>4, <1>6, <2>1
<1> DEFINE o == 2 * a + 1
           c == o * 2^z
<1>8. o \in Nat /\ o % 2 = 1 OBVIOUS
<1>9. c \in Nat /\ k = c * P
  <2> HIDE DEF z, P, k
  <2> QED BY <1>6, <1>7
<1>10. k <= index /\ index < hi /\ hi <= k + P /\ hi <= size BY DEF IsPlace
<1>11. size - 1 \in Nat BY <1>10
<1> HIDE DEF K, P, k
<1>12. fn = c
  <2> HIDE DEF c
  <2>1. c * P <= index /\ index < c * P + P BY <1>4, <1>9, <1>10
  <2> QED BY <1>4, <1>9, <2>1, Quotient
<1>13. fn % 2 = 1 \/ fn = sn
  <2>1. CASE hi = size
    <3> HIDE DEF c
    <3>1. c * P <= size - 1 /\ size - 1 < c * P + P BY <1>4, <1>9, <1>10, <2>1
    <3>2. sn = c BY <1>4, <1>9, <1>11, <3>1, Quotient
    <3> QED BY <1>12, <3>2
  <2>2. CASE hi = lo + 2^h
    <3>1. P = K BY <1>3, <1>4, <1>10, <2>2 DEF k
    <3>2. z = 0
      <4>1. SUFFICES ASSUME z # 0 PROVE FALSE OBVIOUS
      <4>2. g + 1 <= h - 1 /\ g + 1 \in Nat BY <1>5, <4>1
      <4>3. 2^(g + 1) <= K BY <1>2, <4>2, PowersOrdered DEF K
      <4>4. 2^(g + 1) = P + P BY Powers DEF P
      <4> QED BY <1>3, <1>4, <3>1, <4>3, <4>4
    <3>3. 2^0 = 1 OBVIOUS
    <3> HIDE DEF z, o, fn
    <3>4. c = o BY <1>8, <3>2, <3>3
    <3> QED BY <1>8, <1>12, <3>4
  <2> QED BY <2>1, <2>2 DEF IsPlace
<1>14. Zeros(fn) = z
  <2>1. Zeros(o * 2^z) = z
    <3> HIDE DEF o, z
    <3> QED BY <1>5, <1>8, ZerosOfMultiple
  <2> QED BY <1>12, <2>1
<1>15. fn \div 2^(z + 1) = index \div 2^h /\ sn \div 2^(z + 1) = (size - 1) \div 2^h
  <2>1. z + 1 \in Nat BY <1>5
  <2>2. Halved(index, g, z + 1)
        BY <2>1, QuotientOfPowers
  <2>3. Halved(size - 1, g, z + 1)
        BY <1>11, <2>1, QuotientOfPowers
  <2> QED BY <1>5, <2>2, <2>3 DEF P, Halved
<1> HIDE DEF fn, sn, z, c
<1>16. Reached(index, size, g, r) = [fn |-> fn, sn |-> sn, r |-> r]
       BY DEF Reached, fn, sn, P
<1>17. Join([fn |-> fn, sn |-> sn, r |-> r], p)
         = [fn |-> fn \div 2^(z + 1), sn |-> sn \div 2^(z + 1), r |-> NodeHash(p, r)]
       BY <1>13, <1>14 DEF Join
<1> QED BY <1>15, <1>16, <1>17 DEF Reached

-----------------------------------------------------------------------------

Steps(D, w, index, lo, hi) ==
  LET k == lo + Split(hi - lo)
  IN  /\ hi - lo = 1 => w[<<lo, hi>>] = << >>
      /\ hi - lo >= 2 /\ index < k => w[<<lo, hi>>] = Append(w[<<lo, k>>], Mth(D, k, hi))
      /\ hi - lo >= 2 /\ ~(index < k) => w[<<lo, hi>>] = Append(w[<<k, hi>>], Mth(D, lo, k))

\* One turn of the recursion of inclusion_proof.
LEMMA PathStep ==
  ASSUME NEW D, NEW index, NEW w, Paths(D, index, w), Len(D) \in Nat,
         NEW lo \in 0..Len(D), NEW hi \in 0..Len(D), lo < hi
  PROVE  Steps(D, w, index, lo, hi)
<1>1. <<lo, hi>> \in Spans(Len(D)) BY DEF Spans
<1>2. w[<<lo, hi>>] = PathOf(D, index, w, <<lo, hi>>) BY <1>1 DEF Paths
<1>3. hi - lo >= 2 => hi - lo # 1 OBVIOUS
<1> QED BY <1>2, <1>3 DEF PathOf, Steps

Nodes(D) == {Mth(D, p[1], p[2]) : p \in (0..Len(D)) \X (0..Len(D))}

LEMMA NodesOf ==
  ASSUME NEW D, NEW lo \in 0..Len(D), NEW hi \in 0..Len(D)
  PROVE  Mth(D, lo, hi) \in Nodes(D)
<1>1. <<lo, hi>> \in (0..Len(D)) \X (0..Len(D)) OBVIOUS
<1>2. <<lo, hi>>[1] = lo /\ <<lo, hi>>[2] = hi OBVIOUS
<1> QED BY <1>1, <1>2 DEF Nodes

LEMMA PathsAreSequences ==
  ASSUME NEW D, NEW index, NEW w, Paths(D, index, w), Len(D) \in Nat,
         NEW lo \in 0..Len(D), NEW hi \in 0..Len(D), lo < hi
  PROVE  w[<<lo, hi>>] \in Seq(Nodes(D))
<1> DEFINE Bad(i, j) == i < j /\ w[<<i, j>>] \notin Seq(Nodes(D))
           T == {m \in Nat : \E i, j \in 0..Len(D) : j - i = m /\ Bad(i, j)}
<1>1. SUFFICES ASSUME Bad(lo, hi) PROVE FALSE
      OBVIOUS
<1>2. PICK m \in T : \A v \in T : m <= v
  <2>1. hi - lo \in Nat /\ hi - lo \in T
    <3>1. hi - lo \in Nat OBVIOUS
    <3> HIDE DEF Bad
    <3> QED BY <1>1, <3>1
  <2>2. T \in SUBSET Nat OBVIOUS
  <2> HIDE DEF T
  <2> QED BY <2>1, <2>2, Least
<1>3. PICK i \in 0..Len(D), j \in 0..Len(D) : j - i = m /\ Bad(i, j) BY <1>2
<1>4. CASE j - i = 1
  <2>1. Steps(D, w, index, i, j)
    <3> HIDE DEF T
    <3> QED BY <1>3, PathStep
  <2>2. w[<<i, j>>] = << >> BY <1>4, <2>1 DEF Steps
  <2>3. << >> \in Seq(Nodes(D)) OBVIOUS
  <2> QED BY <1>3, <2>2, <2>3
<1>5. CASE j - i >= 2
  <2> DEFINE k == i + Split(j - i)
  <2>1. k \in 0..Len(D) /\ i < k /\ k < j
    <3>1. k \in Nat /\ i < k /\ k < j BY <1>5, Halves
    <3> HIDE DEF k
    <3> QED BY <3>1
  <2>2. ~Bad(i, k) /\ ~Bad(k, j)
    <3> HIDE DEF k
    <3>1. k - i \in Nat /\ k - i < m /\ j - k \in Nat /\ j - k < m BY <1>3, <2>1
    <3>2. k - i \notin T /\ j - k \notin T
      <4>1. m \in Nat OBVIOUS
      <4> HIDE DEF T
      <4> QED BY <1>2, <3>1, <4>1
    <3> QED BY <2>1, <3>1, <3>2
  <2>3. Mth(D, k, j) \in Nodes(D) /\ Mth(D, i, k) \in Nodes(D)
    <3> HIDE DEF k
    <3> QED BY <2>1, NodesOf
  <2>4. \/ w[<<i, j>>] = Append(w[<<i, k>>], Mth(D, k, j))
        \/ w[<<i, j>>] = Append(w[<<k, j>>], Mth(D, i, k))
    <3>1. Steps(D, w, index, i, j)
      <4> HIDE DEF T
      <4> QED BY <1>3, PathStep
    <3> QED BY <1>5, <3>1 DEF Steps
  <2> HIDE DEF k
  <2>5. w[<<i, k>>] \in Seq(Nodes(D)) /\ w[<<k, j>>] \in Seq(Nodes(D)) BY <2>1, <2>2
  <2>6. w[<<i, j>>] \in Seq(Nodes(D))
    <3> DEFINE S == Nodes(D)
    <3> HIDE DEF T, Bad, S
    <3>1. \A s \in Seq(S), x \in S : Append(s, x) \in Seq(S) BY AppendProperties
    <3> QED BY <2>3, <2>4, <2>5, <3>1 DEF S
  <2> QED BY <1>3, <2>6
<1> QED BY <1>3, <1>4, <1>5

Begins(q, s) == Len(s) <= Len(q) /\ \A i \in 1..Len(s) : q[i] = s[i]

\* What is appended to a path comes right after it.
LEMMA BeginsWithPart ==
  ASSUME NEW S, NEW s \in Seq(S), NEW x \in S, NEW q, Len(q) \in Nat,
         Begins(q, Append(s, x))
  PROVE  /\ Begins(q, s) /\ Len(Append(s, x)) = Len(s) + 1 /\ Len(s) \in Nat
         /\ Len(s) + 1 <= Len(q) /\ q[Len(s) + 1] = x
<1>1. /\ Append(s, x) \in Seq(S) /\ Len(Append(s, x)) = Len(s) + 1
      /\ \A i \in 1..Len(s) : Append(s, x)[i] = s[i]
      /\ Append(s, x)[Len(s) + 1] = x
      BY AppendProperties
<1>2. Len(s) \in Nat BY LenProperties
<1>3. Len(s) + 1 \in 1..(Len(s) + 1) BY <1>2
<1>4. \A i \in 1..Len(s) : i \in 1..(Len(s) + 1) BY <1>2
<1> QED BY <1>1, <1>2, <1>3, <1>4 DEF Begins

Reaches(D, w, u, index, lo, hi, h) ==
  u[Len(w[<<lo, hi>>])] = Reached(index, Len(D), h, Mth(D, lo, hi))

\* The hypotheses of JoinsFromRight as one.
FromRight(lo, hi, size, h, mid, g, index) ==
  /\ lo \in Nat /\ hi \in Nat /\ size \in Nat /\ h \in Nat \ {0} /\ IsPlace(lo, hi, h, size)
  /\ mid \in Nat /\ mid = lo + 2^(h - 1) /\ g \in Nat /\ g <= h - 1 /\ IsPlace(mid, hi, g, size)
  /\ index \in Nat /\ mid <= index /\ index < hi

LEMMA JoinedFromRight ==
  ASSUME NEW lo, NEW hi, NEW size, NEW h, NEW mid, NEW g, NEW index, NEW r, NEW p,
         FromRight(lo, hi, size, h, mid, g, index)
  PROVE  Join(Reached(index, size, g, r), p) = Reached(index, size, h, NodeHash(p, r))
BY JoinsFromRight DEF FromRight

\* check_inclusion reaches, with the path of a place, the hash of the place.
LEMMA PathReachesPlace ==
  ASSUME NEW D, Len(D) \in Nat, NEW lv, LeavesOf(D, lv, Len(D)),
         NEW index \in Nat, NEW w, Paths(D, index, w),
         NEW q, Len(q) \in Nat, NEW u, Walks(u, lv[index + 1], index, Len(D), q),
         NEW lo \in 0..Len(D), NEW hi \in 0..Len(D), NEW h,
         IsPlace(lo, hi, h, Len(D)), lo <= index, index < hi, Begins(q, w[<<lo, hi>>])
  PROVE  Reaches(D, w, u, index, lo, hi, h)
<1> DEFINE N == Len(D)
           Bad(i, j) ==
             \E e : /\ IsPlace(i, j, e, N) /\ i <= index /\ index < j
                    /\ Begins(q, w[<<i, j>>])
                    /\ ~Reaches(D, w, u, index, i, j, e)
           T == {m \in Nat : \E i, j \in 0..N : j - i = m /\ Bad(i, j)}
<1>1. SUFFICES ASSUME Bad(lo, hi) PROVE FALSE
      OBVIOUS
<1>2. PICK m \in T : \A v \in T : m <= v
  <2>1. hi - lo \in Nat /\ hi - lo \in T
    <3>1. lo < hi BY DEF IsPlace
    <3>2. hi - lo \in Nat BY <3>1
    <3> HIDE DEF Bad
    <3> QED BY <1>1, <3>2
  <2>2. T \in SUBSET Nat OBVIOUS
  <2> HIDE DEF T
  <2> QED BY <2>1, <2>2, Least
<1>3. PICK i \in 0..N, j \in 0..N : j - i = m /\ Bad(i, j) BY <1>2
<1>4. PICK e : /\ IsPlace(i, j, e, N) /\ i <= index /\ index < j
               /\ Begins(q, w[<<i, j>>])
               /\ ~Reaches(D, w, u, index, i, j, e)
      BY <1>3
<1>5. i \in Nat /\ j \in Nat /\ i < j /\ N \in Nat BY <1>4 DEF IsPlace
<1>8. Steps(D, w, index, i, j)
  <2> HIDE DEF T
  <2> QED BY <1>5, PathStep
<1>6. CASE j - i = 1
  <2>1. w[<<i, j>>] = << >> BY <1>6, <1>8 DEF Steps
  <2>2. i = index /\ j = index + 1 BY <1>4, <1>5, <1>6
  <2>3. e = 0
    <3>1. SUFFICES ASSUME e # 0 PROVE FALSE OBVIOUS
    <3>2. e - 1 \in Nat BY <1>4, <3>1 DEF IsPlace
    <3>3. 2^(e - 1) \in Nat /\ 2^(e - 1) >= 1 BY <3>2, Powers
    <3> QED BY <1>4, <1>5, <1>6, <3>1, <3>3, SMTT(30) DEF IsPlace
  <2>4. u[0] = [fn |-> index, sn |-> N - 1, r |-> LeafHash(lv[index + 1])]
        BY DEF Walks
  <2>5. Mth(D, i, j) = LeafHash(lv[index + 1])
    <3>1. Mth(D, i, j) = D[j] BY <1>5, <1>6, MthOfOne
    <3>2. j \in 1..N BY <1>5
    <3> QED BY <2>2, <3>1, <3>2 DEF LeavesOf
  <2>6. Reached(index, N, 0, Mth(D, i, j)) = u[0]
    <3>1. 2^0 = 1 /\ index \div 1 = index /\ (N - 1) \div 1 = N - 1 BY <1>5
    <3> QED BY <2>4, <2>5, <3>1 DEF Reached
  <2>7. Len(<< >>) = 0 OBVIOUS
  <2> QED BY <1>4, <2>1, <2>3, <2>6, <2>7 DEF Reaches
<1>7. CASE j - i >= 2
  <2> DEFINE k == i + Split(j - i)
  <2>1. /\ e \in Nat \ {0} /\ k = i + 2^(e - 1) /\ i < k /\ k < j
        /\ IsPlace(i, k, e - 1, N)
        /\ \E g \in Nat : g <= e - 1 /\ IsPlace(k, j, g, N)
        BY <1>4, <1>5, <1>7, PlaceSplits
  <2>2. k \in 0..N
    <3>1. k \in Nat BY <1>5, <1>7, Halves
    <3> HIDE DEF k
    <3> QED BY <1>5, <2>1, <3>1
  <2>3. Mth(D, i, j) = NodeHash(Mth(D, i, k), Mth(D, k, j)) BY <1>5, <1>7, MthStep
  <2>4. Mth(D, k, j) \in Nodes(D) /\ Mth(D, i, k) \in Nodes(D)
    <3> HIDE DEF k
    <3> QED BY <2>2, NodesOf
  <2>5. index < k => w[<<i, j>>] = Append(w[<<i, k>>], Mth(D, k, j))
        BY <1>7, <1>8 DEF Steps
  <2>6. ~(index < k) => w[<<i, j>>] = Append(w[<<k, j>>], Mth(D, i, k))
        BY <1>7, <1>8 DEF Steps
  <2> HIDE DEF k
  <2>7. ~Bad(i, k) /\ ~Bad(k, j)
    <3>1. k - i \in Nat /\ k - i < m /\ j - k \in Nat /\ j - k < m BY <1>3, <1>5, <2>1, <2>2
    <3>2. k - i \notin T /\ j - k \notin T
      <4>1. m \in Nat OBVIOUS
      <4> HIDE DEF T
      <4> QED BY <1>2, <3>1, <4>1
    <3> HIDE DEF Bad
    <3> QED BY <2>2, <3>1, <3>2
  <2>8. CASE index < k
    <3> DEFINE s == w[<<i, k>>]
    <3>1. s \in Seq(Nodes(D)) BY <2>1, <2>2, PathsAreSequences
    <3>2. /\ Begins(q, s) /\ Len(w[<<i, j>>]) = Len(s) + 1 /\ Len(s) \in Nat
          /\ Len(s) + 1 <= Len(q) /\ q[Len(s) + 1] = Mth(D, k, j)
      <4> HIDE DEF s
      <4>1. Begins(q, Append(s, Mth(D, k, j))) /\ w[<<i, j>>] = Append(s, Mth(D, k, j))
            BY <1>4, <2>5, <2>8 DEF s
      <4> QED BY <2>4, <3>1, <4>1, BeginsWithPart
    <3>3. u[Len(s)] = Reached(index, N, e - 1, Mth(D, i, k))
          BY <1>4, <2>1, <2>7, <2>8, <3>2 DEF Reaches
    <3> HIDE DEF s
    <3>4. u[Len(s) + 1] = Join(u[Len(s)], q[Len(s) + 1])
      <4>1. Len(s) + 1 \in 0..Len(q) /\ Len(s) + 1 # 0 /\ Len(s) + 1 - 1 = Len(s) BY <3>2
      <4> QED BY <4>1 DEF Walks
    <3>5. Join(Reached(index, N, e - 1, Mth(D, i, k)), Mth(D, k, j))
            = Reached(index, N, e, NodeHash(Mth(D, i, k), Mth(D, k, j)))
          BY <1>4, <1>5, <2>1, <2>8, JoinsFromLeft, SMTT(30)
    <3>6. u[Len(w[<<i, j>>])] = Reached(index, N, e, Mth(D, i, j))
      <4>1. u[Len(s) + 1] = Join(Reached(index, N, e - 1, Mth(D, i, k)), Mth(D, k, j))
            BY <3>2, <3>3, <3>4, Zenon
      <4> QED BY <2>3, <3>2, <3>5, <4>1, Zenon
    <3>7. Reaches(D, w, u, index, i, j, e) BY <3>6 DEF Reaches
    <3> QED BY <1>4, <3>7
  <2>9. CASE ~(index < k)
    <3> DEFINE s == w[<<k, j>>]
    <3>1. s \in Seq(Nodes(D)) BY <2>1, <2>2, PathsAreSequences
    <3>2. /\ Begins(q, s) /\ Len(w[<<i, j>>]) = Len(s) + 1 /\ Len(s) \in Nat
          /\ Len(s) + 1 <= Len(q) /\ q[Len(s) + 1] = Mth(D, i, k)
      <4> HIDE DEF s
      <4>1. Begins(q, Append(s, Mth(D, i, k))) /\ w[<<i, j>>] = Append(s, Mth(D, i, k))
            BY <1>4, <2>6, <2>9 DEF s
      <4> QED BY <2>4, <3>1, <4>1, BeginsWithPart
    <3>3. PICK g \in Nat : g <= e - 1 /\ IsPlace(k, j, g, N) BY <2>1
    <3>4. k <= index BY <2>2, <2>9
    <3>5. u[Len(s)] = Reached(index, N, g, Mth(D, k, j))
          BY <1>4, <2>7, <3>2, <3>3, <3>4 DEF Reaches
    <3> HIDE DEF s
    <3>6. u[Len(s) + 1] = Join(u[Len(s)], q[Len(s) + 1])
      <4>1. Len(s) + 1 \in 0..Len(q) /\ Len(s) + 1 # 0 /\ Len(s) + 1 - 1 = Len(s) BY <3>2
      <4> QED BY <4>1 DEF Walks
    <3>7. Join(Reached(index, N, g, Mth(D, k, j)), Mth(D, i, k))
            = Reached(index, N, e, NodeHash(Mth(D, i, k), Mth(D, k, j)))
      <4>1. FromRight(i, j, N, e, k, g, index)
            BY <1>4, <1>5, <2>1, <2>2, <3>3, <3>4 DEF FromRight
      <4> HIDE DEF T, Bad, N
      <4> QED BY <4>1, JoinedFromRight
    <3>8. u[Len(w[<<i, j>>])] = Reached(index, N, e, Mth(D, i, j))
      <4>1. u[Len(s) + 1] = Join(Reached(index, N, g, Mth(D, k, j)), Mth(D, i, k))
            BY <3>2, <3>5, <3>6, Zenon
      <4> QED BY <2>3, <3>2, <3>7, <4>1, Zenon
    <3>9. Reaches(D, w, u, index, i, j, e) BY <3>8 DEF Reaches
    <3> QED BY <1>4, <3>9
  <2> QED BY <2>8, <2>9
<1> QED BY <1>5, <1>6, <1>7

\* inclusion_proof and verify_receipt.check_inclusion, written apart from each other:
\* the path made for a leaf is accepted for it at its index, under the root of its
\* tree, in trees of every size, however ragged their right edge.
THEOREM PathsAreAccepted ==
  ASSUME NEW D, Len(D) \in Nat \ {0}, NEW lv, LeavesOf(D, lv, Len(D)),
         NEW index \in 0..(Len(D) - 1)
  PROVE  /\ CheckInclusion(lv[index + 1], index, Len(D), InclusionProof(D, index),
                           Mth(D, 0, Len(D)))
         /\ Len(InclusionProof(D, index)) \in Nat
<1> DEFINE N == Len(D)
           q == InclusionProof(D, index)
           leaf == lv[index + 1]
<1>1. PICK w : Paths(D, index, w) /\ q = w[<<0, N>>] BY InclusionProofIsPath
<1>2. 0 \in 0..N /\ N \in 0..N /\ 0 < N OBVIOUS
<1>3. Len(q) \in Nat
  <2>1. q \in Seq(Nodes(D)) BY <1>1, <1>2, PathsAreSequences
  <2> HIDE DEF q
  <2> QED BY <2>1, LenProperties
<1>4. PICK u : Walks(u, leaf, index, N, q) /\ CheckInclusion(leaf, index, N, q, Mth(D, 0, N)) = (u[Len(q)].r = Mth(D, 0, N))
  <2> DEFINE u == CHOOSE u : Walks(u, leaf, index, N, q)
  <2> HIDE DEF leaf, q
  <2>1. Walks(u, leaf, index, N, q) BY <1>3, WalksExist
  <2>2. CheckInclusion(leaf, index, N, q, Mth(D, 0, N)) = (u[Len(q)].r = Mth(D, 0, N))
        BY DEF CheckInclusion, Walks
  <2> QED BY <2>1, <2>2
<1>5. PICK h \in Nat : IsPlace(0, N, h, N) BY RootPlace
<1>6. Begins(q, w[<<0, N>>])
  <2> HIDE DEF q
  <2> QED BY <1>1, <1>3 DEF Begins
<1> HIDE DEF q
<1>7. Reaches(D, w, u, index, 0, N, h)
  <2>1. 0 <= index /\ index < N /\ index \in Nat OBVIOUS
  <2> QED BY <1>1, <1>2, <1>3, <1>4, <1>5, <1>6, <2>1, PathReachesPlace
<1>8. u[Len(q)].r = Mth(D, 0, N) BY <1>1, <1>7 DEF Reached, Reaches
<1> QED BY <1>3, <1>4, <1>8 DEF q

-----------------------------------------------------------------------------

\* What _subproof is called with: the slice, the start in it, and whether the
\* subtree's hash is known to the verifier.
Calls(D, end) ==
  {p \in (0..Len(D)) \X (0..Len(D)) \X (0..Len(D)) \X BOOLEAN :
     p[1] <= p[3] /\ p[3] < end /\ end <= p[2]}

\* What w says of the call p, in terms of what it says of calls on smaller slices.
SubOf(D, end, w, p) ==
  LET lo == p[1]
      hi == p[2]
      s  == p[3]
      k  == lo + Split(hi - lo)
  IN  IF s = lo /\ end = hi THEN IF p[4] THEN << >> ELSE <<Mth(D, lo, hi)>>
      ELSE IF end <= k      THEN Append(w[<<lo, k, s, p[4]>>], Mth(D, k, hi))
      ELSE IF k <= s        THEN Append(w[<<k, hi, s, p[4]>>], Mth(D, lo, k))
      ELSE Append(w[<<k, hi, k, FALSE>>], Mth(D, lo, k))

\* A solution of that recursion.
Subs(D, end, w) == w = [p \in Calls(D, end) |-> SubOf(D, end, w, p)]

\* Which calls there are.
LEMMA IsCall ==
  ASSUME NEW D, Len(D) \in Nat, NEW end, NEW lo \in 0..Len(D), NEW hi \in 0..Len(D),
         NEW s \in 0..Len(D), NEW b \in BOOLEAN, lo <= s, s < end, end <= hi
  PROVE  <<lo, hi, s, b>> \in Calls(D, end)
BY DEF Calls

\* The recursion of _subproof has a solution.
LEMMA SubsExist ==
  ASSUME NEW D, Len(D) \in Nat, NEW end \in Nat
  PROVE  \E w : Subs(D, end, w)
<1> DEFINE S == Calls(D, end)
           UpTo(h, m) == /\ h = [p \in S |-> h[p]]
                         /\ \A p \in S : p[2] - p[1] <= m => h[p] = SubOf(D, end, h, p)
           T == {m \in Nat : ~ \E h : UpTo(h, m)}
<1>1. T = {}
  <2>1. SUFFICES ASSUME T # {} PROVE FALSE
        OBVIOUS
  <2>2. PICK m \in T : \A v \in T : m <= v
    <3>1. T \in SUBSET Nat OBVIOUS
    <3> HIDE DEF T
    <3> QED BY <2>1, <3>1, Least
  <2>3. m # 0
    <3> DEFINE h == [p \in S |-> << >>]
    <3>1. ASSUME NEW p \in S PROVE ~(p[2] - p[1] <= 0)
          BY DEF Calls
    <3>2. h = [p \in S |-> h[p]] OBVIOUS
    <3> HIDE DEF h
    <3>3. UpTo(h, 0) BY <3>1, <3>2
    <3> QED BY <2>2, <3>3
  <2>4. PICK f : UpTo(f, m - 1)
    <3>1. m - 1 \in Nat /\ m - 1 \notin T BY <2>2, <2>3
    <3> QED BY <3>1
  <2> DEFINE g == [p \in S |-> IF p[2] - p[1] = m THEN SubOf(D, end, f, p) ELSE f[p]]
  <2>5. ASSUME NEW p \in S, p[2] - p[1] <= m
        PROVE  g[p] = SubOf(D, end, g, p)
    <3>1. PICK i \in 0..Len(D), j \in 0..Len(D), s \in 0..Len(D), b \in BOOLEAN :
            p = <<i, j, s, b>> /\ i <= s /\ s < end /\ end <= j
          BY DEF Calls
    <3>2. ASSUME NEW a \in 0..Len(D), NEW c \in 0..Len(D), NEW r \in 0..Len(D), NEW d \in BOOLEAN,
                 a <= r, r < end, end <= c, c - a < j - i
          PROVE  g[<<a, c, r, d>>] = f[<<a, c, r, d>>]
      <4>1. <<a, c, r, d>> \in S BY <3>2, IsCall
      <4>2. c - a # m BY <2>2, <2>5, <3>1, <3>2
      <4> QED BY <4>1, <4>2
    <3>3. SubOf(D, end, g, p) = SubOf(D, end, f, p)
      <4>1. i \in Nat /\ j \in Nat /\ i < j BY <3>1
      <4> HIDE DEF g, S
      <4>2. CASE s = i /\ end = j BY <3>1, <4>2 DEF SubOf
      <4>3. CASE ~(s = i /\ end = j)
        <5> DEFINE k == i + Split(j - i)
        <5>0. j - i >= 2 BY <3>1, <4>1, <4>3
        <5>1. k \in Nat /\ i < k /\ k < j BY <4>1, <5>0, Halves
        <5> HIDE DEF k
        <5>2. k \in 0..Len(D) /\ k - i < j - i /\ j - k < j - i BY <4>1, <5>1
        <5>3. end <= k => g[<<i, k, s, b>>] = f[<<i, k, s, b>>] BY <3>1, <3>2, <5>2
        <5>4. k <= s => g[<<k, j, s, b>>] = f[<<k, j, s, b>>] BY <3>1, <3>2, <5>2
        <5>5. ~(end <= k) => g[<<k, j, k, FALSE>>] = f[<<k, j, k, FALSE>>]
          <6>1. FALSE \in BOOLEAN OBVIOUS
          <6>2. ~(end <= k) => k < end BY <5>1
          <6>3. ~(end <= k) => \A d \in BOOLEAN : g[<<k, j, k, d>>] = f[<<k, j, k, d>>]
                BY <3>1, <3>2, <5>1, <5>2, <6>2
          <6> QED BY <6>1, <6>3, Zenon
        <5>6. p[1] = i /\ p[2] = j /\ p[3] = s /\ p[4] = b BY <3>1
        <5> QED BY <4>3, <5>3, <5>4, <5>5, <5>6 DEF SubOf, k
      <4> QED BY <4>2, <4>3
    <3>4. CASE p[2] - p[1] = m BY <3>3, <3>4
    <3>5. CASE p[2] - p[1] # m
      <4>1. p[2] - p[1] <= m - 1 BY <2>2, <2>5, <3>1, <3>5
      <4>2. f[p] = SubOf(D, end, f, p) BY <2>4, <4>1
      <4> QED BY <3>3, <3>5, <4>2
    <3> QED BY <3>4, <3>5
  <2>6. g = [p \in S |-> g[p]] OBVIOUS
  <2> HIDE DEF g
  <2>7. UpTo(g, m) BY <2>5, <2>6
  <2> QED BY <2>2, <2>7
<1>2. PICK h : UpTo(h, Len(D))
  <2>1. Len(D) \notin T BY <1>1
  <2> QED BY <2>1
<1>3. ASSUME NEW p \in S PROVE h[p] = SubOf(D, end, h, p)
  <2>1. p[2] - p[1] <= Len(D) BY DEF Calls
  <2> QED BY <1>2, <2>1
<1>4. Subs(D, end, h) BY <1>2, <1>3 DEF Subs
<1> QED BY <1>4

\* The part of the proof that lies within the slice, which ends at or after the subtree.
Part(start, end, D, lo, hi) ==
  (CHOOSE w : Subs(D, end, w))
    [IF start < lo THEN <<lo, hi, lo, FALSE>> ELSE <<lo, hi, start, TRUE>>]

\* The proof is its part within the whole tree.
LEMMA ProofIsPart ==
  ASSUME NEW D, NEW start \in Nat, NEW end
  PROVE  SubtreeProof(start, end, D) = Part(start, end, D, 0, Len(D))
<1>1. ~(start < 0) OBVIOUS
<1> QED BY <1>1 DEF SubtreeProof, Part, Subs, SubOf, Calls

\* Where the recursion stops.
Ends(start, end, lo, hi) == end = hi /\ start <= lo

\* One turn of it.
PartSteps(start, end, D, lo, hi) ==
  LET k == lo + Split(hi - lo)
      part(a, b) == Part(start, end, D, a, b)
  IN  /\ end = hi /\ start < lo => part(lo, hi) = <<Mth(D, lo, hi)>>
      /\ end = hi /\ start = lo => part(lo, hi) = << >>
      /\ ~Ends(start, end, lo, hi) =>
           /\ hi - lo >= 2
           /\ end <= k => part(lo, hi) = Append(part(lo, k), Mth(D, k, hi))
           /\ k < end  => part(lo, hi) = Append(part(k, hi), Mth(D, lo, k))

\* The part within a slice, by those within its halves.
LEMMA PartStep ==
  ASSUME NEW D, Len(D) \in Nat, NEW start \in Nat, NEW end \in Nat, start < end,
         NEW lo \in 0..Len(D), NEW hi \in 0..Len(D), lo < end, end <= hi
  PROVE  PartSteps(start, end, D, lo, hi)
<1> DEFINE w == CHOOSE w : Subs(D, end, w)
           k == lo + Split(hi - lo)
<1>1. Subs(D, end, w) BY SubsExist
<1> HIDE DEF w
<1>2. \A a, b : Part(start, end, D, a, b)
                  = w[IF start < a THEN <<a, b, a, FALSE>> ELSE <<a, b, start, TRUE>>]
      BY DEF Part, w
<1>3. CASE start < lo
  <2> DEFINE p == <<lo, hi, lo, FALSE>>
  <2>1. p \in Calls(D, end)
    <3>1. \A b \in BOOLEAN : <<lo, hi, lo, b>> \in Calls(D, end) BY IsCall
    <3>2. FALSE \in BOOLEAN OBVIOUS
    <3> QED BY <3>1, <3>2, Zenon
  <2>2. w[p] = SubOf(D, end, w, p) BY <1>1, <2>1 DEF Subs
  <2>3. Part(start, end, D, lo, hi) = w[p] BY <1>2, <1>3
  <2>4. p[1] = lo /\ p[2] = hi /\ p[3] = lo /\ p[4] = FALSE OBVIOUS
  <2> HIDE DEF p
  <2>5. end = hi => Part(start, end, D, lo, hi) = <<Mth(D, lo, hi)>>
        BY <2>2, <2>3, <2>4 DEF SubOf
  <2>6. ASSUME end # hi
        PROVE  /\ hi - lo >= 2
               /\ end <= k => Part(start, end, D, lo, hi) = Append(Part(start, end, D, lo, k), Mth(D, k, hi))
               /\ k < end  => Part(start, end, D, lo, hi) = Append(Part(start, end, D, k, hi), Mth(D, lo, k))
    <3>1. hi - lo >= 2 BY <2>6
    <3>2. k \in Nat /\ lo < k /\ k < hi BY <3>1, Halves
    <3>3. w[p] = IF end <= k THEN Append(w[<<lo, k, lo, FALSE>>], Mth(D, k, hi))
                 ELSE IF k <= lo THEN Append(w[<<k, hi, lo, FALSE>>], Mth(D, lo, k))
                 ELSE Append(w[<<k, hi, k, FALSE>>], Mth(D, lo, k))
          BY <2>2, <2>4, <2>6 DEF SubOf
    <3> HIDE DEF k
    <3>4. start < k /\ ~(k <= lo) BY <1>3, <3>2
    <3>5. Part(start, end, D, lo, k) = w[<<lo, k, lo, FALSE>>] BY <1>2, <1>3
    <3>6. Part(start, end, D, k, hi) = w[<<k, hi, k, FALSE>>] BY <1>2, <3>4
    <3>7. ~(end <= k /\ k < end) /\ (k < end => ~(end <= k)) BY <3>2
    <3> HIDE DEF p
    <3> QED BY <2>3, <3>1, <3>3, <3>4, <3>5, <3>6, <3>7
  <2> QED BY <1>3, <2>5, <2>6 DEF PartSteps, Ends
<1>4. CASE ~(start < lo)
  <2> DEFINE p == <<lo, hi, start, TRUE>>
  <2>1. p \in Calls(D, end)
    <3>1. \A b \in BOOLEAN : <<lo, hi, start, b>> \in Calls(D, end)
      <4>1. start \in 0..Len(D) /\ lo <= start BY <1>4
      <4> QED BY <4>1, IsCall
    <3>2. TRUE \in BOOLEAN OBVIOUS
    <3> QED BY <3>1, <3>2, Zenon
  <2>2. w[p] = SubOf(D, end, w, p) BY <1>1, <2>1 DEF Subs
  <2>3. Part(start, end, D, lo, hi) = w[p] BY <1>2, <1>4
  <2>4. p[1] = lo /\ p[2] = hi /\ p[3] = start /\ p[4] = TRUE OBVIOUS
  <2> HIDE DEF p
  <2>5. end = hi /\ start = lo => Part(start, end, D, lo, hi) = << >>
        BY <2>2, <2>3, <2>4 DEF SubOf
  <2>6. ASSUME ~(end = hi /\ start <= lo)
        PROVE  /\ hi - lo >= 2
               /\ end <= k => Part(start, end, D, lo, hi) = Append(Part(start, end, D, lo, k), Mth(D, k, hi))
               /\ k < end  => Part(start, end, D, lo, hi) = Append(Part(start, end, D, k, hi), Mth(D, lo, k))
    <3>1. hi - lo >= 2 /\ ~(start = lo /\ end = hi) BY <1>4, <2>6
    <3>2. k \in Nat /\ lo < k /\ k < hi BY <3>1, Halves
    <3>3. w[p] = IF end <= k THEN Append(w[<<lo, k, start, TRUE>>], Mth(D, k, hi))
                 ELSE IF k <= start THEN Append(w[<<k, hi, start, TRUE>>], Mth(D, lo, k))
                 ELSE Append(w[<<k, hi, k, FALSE>>], Mth(D, lo, k))
          BY <2>2, <2>4, <3>1 DEF SubOf
    <3> HIDE DEF k
    <3>4. Part(start, end, D, lo, k) = w[<<lo, k, start, TRUE>>] BY <1>2, <1>4
    <3>5. k <= start => Part(start, end, D, k, hi) = w[<<k, hi, start, TRUE>>]
      <4>1. k <= start => ~(start < k) BY <3>2
      <4> QED BY <1>2, <4>1
    <3>6. ~(k <= start) => Part(start, end, D, k, hi) = w[<<k, hi, k, FALSE>>]
      <4>1. ~(k <= start) => start < k BY <3>2
      <4> QED BY <1>2, <4>1
    <3>7. k < end => ~(end <= k) BY <3>2
    <3> QED BY <2>3, <3>1, <3>3, <3>4, <3>5, <3>6, <3>7
  <2> QED BY <1>4, <2>5, <2>6 DEF PartSteps, Ends
<1> QED BY <1>3, <1>4

-----------------------------------------------------------------------------

\* The nodes of the tree over D.
Inners(D) == {Mth(D, p[1], p[2]) : p \in Spans(Len(D))}

\* Every range that is not empty is one of them.
LEMMA InnersOf ==
  ASSUME NEW D, NEW lo \in 0..Len(D), NEW hi \in 0..Len(D), lo < hi
  PROVE  Mth(D, lo, hi) \in Inners(D)
<1>1. <<lo, hi>> \in Spans(Len(D)) BY DEF Spans
<1>2. <<lo, hi>>[1] = lo /\ <<lo, hi>>[2] = hi OBVIOUS
<1> QED BY <1>1, <1>2 DEF Inners

\* A proof is made of hashes of ranges of its tree.
LEMMA PartsAreSequences ==
  ASSUME NEW D, Len(D) \in Nat, NEW start \in Nat, NEW end \in Nat, start < end,
         NEW lo \in 0..Len(D), NEW hi \in 0..Len(D), lo < end, end <= hi
  PROVE  Part(start, end, D, lo, hi) \in Seq(Inners(D))
<1> DEFINE part(i, j) == Part(start, end, D, i, j)
           Bad(i, j) == i < end /\ end <= j /\ part(i, j) \notin Seq(Inners(D))
           T == {m \in Nat : \E i, j \in 0..Len(D) : j - i = m /\ Bad(i, j)}
<1>1. SUFFICES ASSUME Bad(lo, hi) PROVE FALSE
      OBVIOUS
<1>2. PICK m \in T : \A v \in T : m <= v
  <2>1. hi - lo \in Nat /\ hi - lo \in T
    <3>1. hi - lo \in Nat OBVIOUS
    <3> HIDE DEF Bad
    <3> QED BY <1>1, <3>1
  <2>2. T \in SUBSET Nat OBVIOUS
  <2> HIDE DEF T
  <2> QED BY <2>1, <2>2, Least
<1>3. PICK i \in 0..Len(D), j \in 0..Len(D) : j - i = m /\ Bad(i, j) BY <1>2
<1>4. PartSteps(start, end, D, i, j)
  <2> HIDE DEF T
  <2> QED BY <1>3, PartStep
<1>5. Mth(D, i, j) \in Inners(D)
  <2>1. i < j BY <1>3
  <2> QED BY <2>1, InnersOf
<1>6. CASE Ends(start, end, i, j)
  <2>1. part(i, j) = << >> \/ part(i, j) = <<Mth(D, i, j)>> BY <1>4, <1>6 DEF PartSteps, Ends
  <2>2. << >> \in Seq(Inners(D)) /\ <<Mth(D, i, j)>> \in Seq(Inners(D)) BY <1>5
  <2> QED BY <1>3, <2>1, <2>2
<1>7. CASE ~Ends(start, end, i, j)
  <2> DEFINE k == i + Split(j - i)
  <2>1. j - i >= 2 BY <1>4, <1>7 DEF PartSteps
  <2>2. k \in 0..Len(D) /\ i < k /\ k < j
    <3>1. k \in Nat /\ i < k /\ k < j BY <2>1, Halves
    <3> HIDE DEF k
    <3> QED BY <3>1
  <2>3. /\ end <= k => part(i, j) = Append(part(i, k), Mth(D, k, j))
        /\ k < end  => part(i, j) = Append(part(k, j), Mth(D, i, k))
        BY <1>4, <1>7 DEF PartSteps
  <2> HIDE DEF k, part
  <2>4. ~Bad(i, k) /\ ~Bad(k, j)
    <3>1. k - i \in Nat /\ k - i < m /\ j - k \in Nat /\ j - k < m BY <1>3, <2>2
    <3>2. k - i \notin T /\ j - k \notin T
      <4>1. m \in Nat OBVIOUS
      <4> HIDE DEF T
      <4> QED BY <1>2, <3>1, <4>1
    <3> HIDE DEF Bad
    <3> QED BY <2>2, <3>1, <3>2
  <2>5. Mth(D, k, j) \in Inners(D) /\ Mth(D, i, k) \in Inners(D) BY <2>2, InnersOf
  <2>6. \/ end <= k /\ part(i, k) \in Seq(Inners(D)) /\ part(i, j) = Append(part(i, k), Mth(D, k, j))
        \/ k < end /\ part(k, j) \in Seq(Inners(D)) /\ part(i, j) = Append(part(k, j), Mth(D, i, k))
        BY <1>3, <2>2, <2>3, <2>4
  <2>7. part(i, j) \in Seq(Inners(D))
    <3> DEFINE S == Inners(D)
    <3> HIDE DEF T, Bad, S
    <3>1. \A s \in Seq(S), x \in S : Append(s, x) \in Seq(S) BY AppendProperties
    <3> QED BY <2>5, <2>6, <3>1 DEF S
  <2> QED BY <1>3, <2>7
<1> QED BY <1>6, <1>7

-----------------------------------------------------------------------------

\* One shift to the right of a position.
LEMMA LevelUp ==
  ASSUME NEW x \in Nat, NEW h \in Nat
  PROVE  (x \div 2^h) \div 2 = x \div 2^(h + 1) /\ x \div 2^h \in Nat
<1> DEFINE d == 2^h
<1>1. d \in Nat /\ d > 0 /\ 2^(h + 1) = d + d BY Powers
<1> HIDE DEF d
<1>2. (x \div d) \div 2 = x \div (d + d) BY <1>1, QuotientHalved, Zenon
<1>3. x \div d \in Nat BY <1>1, DivideBack
<1> QED BY <1>1, <1>2, <1>3 DEF d

\* A right part of a place begins at an odd position, one level down.
LEMMA OddPart ==
  ASSUME NEW x \in Nat, x # 0
  PROVE  \E z \in Nat : \E o \in Nat : o % 2 = 1 /\ x = o * 2^z
<1> DEFINE Good(m) == \E z \in Nat : \E o \in Nat : o % 2 = 1 /\ m = o * 2^z
           T == {m \in Nat : m # 0 /\ ~Good(m)}
<1>1. SUFFICES ASSUME T # {} PROVE FALSE
      OBVIOUS
<1>2. PICK m \in T : \A v \in T : m <= v
  <2>1. T \in SUBSET Nat OBVIOUS
  <2> HIDE DEF T
  <2> QED BY <1>1, <2>1, Least
<1>3. CASE m % 2 = 1
  <2>1. 2^0 = 1 OBVIOUS
  <2>2. m = m * 2^0 BY <2>1
  <2> QED BY <1>3, <2>2
<1>4. CASE m % 2 = 0
  <2> DEFINE k == m \div 2
  <2>1. k \in Nat /\ k # 0 /\ k < m /\ m = k + k BY <1>4
  <2> HIDE DEF k
  <2>2. Good(k)
    <3>1. k \notin T
      <4>1. m \in Nat OBVIOUS
      <4> HIDE DEF T
      <4> QED BY <1>2, <2>1, <4>1
    <3> QED BY <2>1, <3>1
  <2>3. PICK z \in Nat, o \in Nat : o % 2 = 1 /\ k = o * 2^z BY <2>2
  <2>4. 2^(z + 1) = 2^z + 2^z /\ 2^z \in Nat BY Powers
  <2>5. m = o * 2^(z + 1) BY <2>1, <2>3, <2>4
  <2>6. z + 1 \in Nat OBVIOUS
  <2> QED BY <2>3, <2>5, <2>6
<1> QED BY <1>3, <1>4

\* The place of leaf end - 1 that is h levels up.
OnWay(end, lo, hi, h, size) ==
  /\ lo \in 0..size /\ hi \in 0..size /\ size \in Nat /\ end \in Nat
  /\ IsPlace(lo, hi, h, size) /\ lo < end /\ end <= hi

\* The position of that place tells whether it is the last of its level.
LEMMA WayPosition ==
  ASSUME NEW end, NEW lo, NEW hi, NEW h, NEW size, OnWay(end, lo, hi, h, size)
  PROVE  LET sn == (end - 1) \div 2^h
             tn == (size - 1) \div 2^h
         IN  /\ h \in Nat /\ sn \in Nat /\ tn \in Nat /\ sn <= tn /\ lo = sn * 2^h
             /\ hi <= lo + 2^h
             /\ sn = tn <=> size <= lo + 2^h
             /\ sn # tn => hi = lo + 2^h
<1> DEFINE d == 2^h
           sn == (end - 1) \div d
           tn == (size - 1) \div d
           x == end - 1
           y == size - 1
<1>1. h \in Nat BY DEF OnWay, IsPlace
<1>2. d \in Nat /\ d > 0 BY <1>1, Powers
<1>3. /\ lo \in Nat /\ hi \in Nat /\ size \in Nat /\ end \in Nat /\ lo < end /\ end <= hi
      /\ hi <= size /\ hi <= lo + d /\ (hi = lo + d \/ hi = size)
      BY DEF OnWay, IsPlace
<1>4. PICK a \in Nat : lo = a * d BY DEF OnWay, IsPlace
<1> HIDE DEF d
<1>5. x \in Nat /\ y \in Nat /\ x <= y /\ x + 1 = end /\ y + 1 = size BY <1>3
<1> HIDE DEF x, y
<1>6. a * d \in Nat BY <1>2
<1>7. x \div d = a
  <2>1. a * d <= x /\ x < a * d + d BY <1>2, <1>3, <1>4, <1>5, <1>6
  <2> QED BY <1>2, <1>5, <2>1, Quotient
<1>8. y \div d \in Nat /\ (y \div d) * d <= y /\ y < (y \div d) * d + d
      BY <1>2, <1>5, DivideBack
<1>9. a <= y \div d
  <2> DEFINE q == y \div d
  <2> HIDE DEF q
  <2>0. q \in Nat /\ y < q * d + d BY <1>8 DEF q
  <2>1. SUFFICES ASSUME q < a PROVE FALSE BY <2>0 DEF q
  <2>2. (q + 1) * d <= a * d BY <1>2, <2>0, <2>1, TimesOrdered
  <2>3. (q + 1) * d = q * d + d /\ q * d \in Nat BY <1>2, <2>0
  <2> QED BY <1>2, <1>3, <1>4, <1>5, <1>6, <2>0, <2>2, <2>3
<1>10. (a = y \div d) <=> (size <= lo + d)
  <2>1. ASSUME a = y \div d PROVE size <= lo + d
        BY <1>2, <1>3, <1>4, <1>5, <1>6, <1>8, <2>1
  <2>2. ASSUME size <= lo + d PROVE a = y \div d
    <3>1. a * d <= y /\ y < a * d + d BY <1>2, <1>3, <1>4, <1>5, <1>6, <2>2
    <3> QED BY <1>2, <1>5, <3>1, Quotient
  <2> QED BY <2>1, <2>2
<1>11. sn = a /\ tn = y \div d BY <1>7 DEF x, y
<1> HIDE DEF sn, tn
<1>12. sn # tn => hi = lo + d BY <1>2, <1>3, <1>10, <1>11
<1> QED BY <1>1, <1>3, <1>4, <1>8, <1>9, <1>10, <1>11, <1>12 DEF d, sn, tn

\* The place above one that is a left part.
LEMMA LeftParent ==
  ASSUME NEW end, NEW lo, NEW hi, NEW h, NEW size, OnWay(end, lo, hi, h, size),
         ((end - 1) \div 2^h) % 2 = 0, (end - 1) \div 2^h # (size - 1) \div 2^h
  PROVE  \E top \in 0..size :
           OnWay(end, lo, top, h + 1, size) /\ hi < top /\ lo + Split(top - lo) = hi
<1> DEFINE sn == (end - 1) \div 2^h
           d == 2^h
<1>1. /\ h \in Nat /\ sn \in Nat /\ lo = sn * d
      /\ size > lo + d /\ hi = lo + d
  <2>1. (end - 1) \div 2^h # (size - 1) \div 2^h OBVIOUS
  <2>2. size \in Nat /\ lo \in Nat /\ d \in Nat
    <3>1. h \in Nat BY DEF OnWay, IsPlace
    <3> QED BY <3>1, Powers DEF OnWay
  <2> QED BY <2>1, <2>2, WayPosition
<1>2. PICK g \in Nat : g = h + 1 BY <1>1
<1>3. g # 0 /\ g - 1 = h /\ d \in Nat /\ d >= 1 /\ 2^g = d + d /\ 2^(g - 1) = d
  <2>1. 2^(h + 1) = d + d BY <1>1, Powers
  <2> QED BY <1>1, <1>2, <2>1, Powers
<1> DEFINE top == IF lo + (d + d) <= size THEN lo + (d + d) ELSE size
<1>4. lo \in Nat /\ size \in Nat /\ end \in Nat /\ lo < end /\ end <= hi
      BY DEF OnWay
<1> HIDE DEF d
<1>5. /\ top \in 0..size /\ lo < top /\ hi < top /\ top <= lo + (d + d)
      /\ (top = lo + (d + d) \/ top = size)
      BY <1>1, <1>3, <1>4
<1>6. \E a \in Nat : lo = a * 2^g
  <2> DEFINE a == sn \div 2
  <2>1. a \in Nat /\ sn = a + a
    <3>1. sn % 2 = 0 OBVIOUS
    <3> HIDE DEF sn
    <3> QED BY <1>1, <3>1
  <2> HIDE DEF a, sn
  <2>2. lo = a * (d + d) BY <1>1, <1>3, <2>1
  <2> QED BY <1>3, <2>1, <2>2
<1> HIDE DEF top, sn
<1>7. IsPlace(lo, top, g, size)
  <2>1. top <= size /\ lo + d < top BY <1>1, <1>4, <1>5
  <2> QED BY <1>3, <1>5, <1>6, <2>1 DEF IsPlace
<1>8. lo + Split(top - lo) = hi
  <2>1. top \in Nat /\ top - lo >= 2 BY <1>1, <1>3, <1>4, <1>5
  <2>2. lo + Split(top - lo) = lo + 2^(g - 1) BY <1>4, <1>7, <2>1, PlaceSplits
  <2> QED BY <1>1, <1>3, <2>2
<1>9. OnWay(end, lo, top, g, size)
  <2>1. end <= top /\ lo \in 0..size BY <1>1, <1>3, <1>4, <1>5
  <2> QED BY <1>4, <1>5, <1>7, <2>1 DEF OnWay
<1> QED BY <1>2, <1>5, <1>8, <1>9

\* The place above one that is a right part: at the right edge of the tree it may be
\* more than a level higher, and its position is odd one level below.
LEMMA RightParent ==
  ASSUME NEW end, NEW lo, NEW hi, NEW h, NEW size, OnWay(end, lo, hi, h, size),
         (size - 1) \div 2^h # 0,
         ((end - 1) \div 2^h) % 2 = 1 \/ (end - 1) \div 2^h = (size - 1) \div 2^h
  PROVE  \E low \in 0..size : \E z \in Nat : \E o \in Nat :
           /\ OnWay(end, low, hi, h + z + 1, size) /\ low < lo /\ low + Split(hi - low) = lo
           /\ lo = low + 2^(h + z)
           /\ o % 2 = 1 /\ (end - 1) \div 2^h = o * 2^z
<1> DEFINE sn == (end - 1) \div 2^h
           tn == (size - 1) \div 2^h
           d == 2^h
<1>1. /\ h \in Nat /\ sn \in Nat /\ tn \in Nat /\ lo = sn * d /\ hi <= lo + d
      /\ sn # tn => hi = lo + d
      /\ sn = tn => size <= lo + d
      BY WayPosition
<1>2. sn # 0
  <2>1. tn # 0 /\ (sn % 2 = 1 \/ sn = tn) OBVIOUS
  <2> HIDE DEF sn, tn
  <2> QED BY <1>1, <2>1
<1>3. PICK z \in Nat, o \in Nat : o % 2 = 1 /\ sn = o * 2^z
  <2> HIDE DEF sn
  <2> QED BY <1>1, <1>2, OddPart
<1> DEFINE c == 2^z
           e == 2^(h + z)
           low == (o - 1) * e
<1>4. d \in Nat /\ d >= 1 /\ c \in Nat /\ c >= 1 BY <1>1, Powers
<1>5. h + z \in Nat /\ e \in Nat /\ e >= 1 /\ 2^(h + z + 1) = e + e
      /\ h + z + 1 \in Nat /\ h + z + 1 - 1 = h + z
  <2>1. h + z \in Nat /\ h + z + 1 \in Nat /\ h + z + 1 - 1 = h + z BY <1>1
  <2> QED BY <2>1, Powers
<1>6. e = c * d
  <2>1. e = d * c BY <1>1, PowersMultiply
  <2> HIDE DEF e, d, c
  <2> QED BY <1>4, <2>1
<1>7. lo = o * e
  <2> HIDE DEF sn
  <2>1. lo = (o * c) * d BY <1>1, <1>3
  <2> HIDE DEF c, d, e
  <2> QED BY <1>4, <1>6, <2>1
<1>8. o - 1 \in Nat /\ low \in Nat /\ lo = low + e
  <2>1. o - 1 \in Nat BY <1>3
  <2> HIDE DEF e, d, c, sn
  <2> QED BY <1>5, <1>7, <2>1
<1>9. /\ hi \in Nat /\ size \in Nat /\ end \in Nat /\ lo \in Nat /\ lo < end /\ end <= hi
      /\ hi <= size /\ (hi = lo + d \/ hi = size)
      BY DEF OnWay, IsPlace
<1>10. d <= e
  <2>1. h <= h + z BY <1>1
  <2> QED BY <1>1, <1>5, <2>1, PowersOrdered
<1>11. \E a \in Nat : low = a * 2^(h + z + 1)
  <2> DEFINE a == (o - 1) \div 2
  <2>1. a \in Nat /\ o - 1 = a + a BY <1>3
  <2> HIDE DEF a, e
  <2>2. low = (a + a) * e BY <2>1
  <2>3. low = a * (e + e)
    <3> HIDE DEF low
    <3> QED BY <1>5, <2>1, <2>2
  <2> QED BY <1>5, <2>1, <2>3
<1>12. hi = low + 2^(h + z + 1) \/ hi = size
  <2>1. CASE hi = size BY <2>1
  <2>2. CASE hi # size
    <3>1. sn # tn
      <4> HIDE DEF sn, tn, d
      <4> QED BY <1>1, <1>4, <1>9, <2>2
    <3>2. sn % 2 = 1 BY <3>1
    <3>3. z = 0
      <4>1. SUFFICES ASSUME z # 0 PROVE FALSE OBVIOUS
      <4>2. (o * 2^z) % 2 = 0 BY <4>1, PowersAreEven
      <4> HIDE DEF sn
      <4> QED BY <1>3, <3>2, <4>2
    <3>4. e = d BY <1>1, <3>3
    <3> HIDE DEF e, d, low
    <3> QED BY <1>5, <1>8, <1>9, <2>2, <3>4
  <2> QED BY <2>1, <2>2
<1> HIDE DEF low, d, c, sn, tn
<1>13. low < lo /\ low < hi /\ hi <= low + 2^(h + z + 1) /\ low + 2^(h + z) < hi
  <2> HIDE DEF e
  <2>1. low < lo /\ low < hi /\ hi <= low + (e + e) /\ low + e < hi
        BY <1>1, <1>4, <1>5, <1>8, <1>9, <1>10
  <2> QED BY <1>5, <2>1 DEF e
<1>14. IsPlace(low, hi, h + z + 1, size)
       BY <1>5, <1>9, <1>11, <1>12, <1>13 DEF IsPlace
<1>15. low + Split(hi - low) = lo
  <2>1. hi - low >= 2 BY <1>8, <1>9, <1>13
  <2>2. low + Split(hi - low) = low + e
    <3> DEFINE g == h + z + 1
    <3> HIDE DEF g
    <3>1. IsPlace(low, hi, g, size) BY <1>14 DEF g
    <3>2. low + Split(hi - low) = low + 2^(g - 1) BY <1>8, <1>9, <2>1, <3>1, PlaceSplits
    <3>3. g - 1 = h + z BY <1>5 DEF g
    <3> QED BY <3>2, <3>3 DEF e
  <2> QED BY <1>8, <2>2
<1>16. OnWay(end, low, hi, h + z + 1, size)
  <2>1. low \in 0..size /\ low < end /\ hi \in 0..size BY <1>8, <1>9, <1>13
  <2> QED BY <1>9, <1>14, <2>1 DEF OnWay
<1>17. low \in 0..size BY <1>16 DEF OnWay
<1> QED BY <1>3, <1>8, <1>13, <1>15, <1>16, <1>17 DEF e, sn

-----------------------------------------------------------------------------

\* bit_ceil is a power of two not below the number.
LEMMA BitCeilIs ==
  ASSUME NEW x \in Nat, x # 0
  PROVE  \E b \in Nat : BitCeil(x) = 2^b /\ x <= 2^b /\ (b # 0 => 2^(b - 1) < x)
<1>1. PICK b \in Nat : x <= 2^b /\ (b # 0 => 2^(b - 1) < x) BY PowersReach
<1> QED BY <1>1, BitCeilIsPower

\* x is where a block of size 2^e may begin.
MultipleOf(x, e) == \E a \in Nat : x = a * 2^e

\* A multiple of a power of two is one of every lower power.
LEMMA LowerMultiple ==
  ASSUME NEW x, NEW e \in Nat, NEW g \in Nat, g <= e, MultipleOf(x, e)
  PROVE  MultipleOf(x, g)
<1> DEFINE z == e - g
<1>0. PICK a \in Nat : x = a * 2^e BY DEF MultipleOf
<1>1. z \in Nat /\ z + g = e OBVIOUS
<1>2. 2^(z + g) = 2^z * 2^g /\ 2^z \in Nat /\ 2^g \in Nat BY <1>1, PowersMultiply, Powers
<1>3. 2^e = 2^z * 2^g BY <1>1, <1>2
<1> HIDE DEF z
<1>4. x = (a * 2^z) * 2^g /\ a * 2^z \in Nat BY <1>0, <1>2, <1>3
<1> QED BY <1>4 DEF MultipleOf

\* No block begins within another of its size.
LEMMA NothingBetween ==
  ASSUME NEW s \in Nat, NEW c \in Nat, NEW d \in Nat, d > 0, s * d < c * d, c * d < s * d + d
  PROVE  FALSE
<1> DEFINE x == c * d
<1>1. x \in Nat /\ x \div d = c BY Multiples
<1>2. s * d \in Nat OBVIOUS
<1> HIDE DEF x
<1>3. s * d <= x /\ x < s * d + d BY <1>1, <1>2 DEF x
<1>4. x \div d = s BY <1>1, <1>3, Quotient
<1>5. c = s BY <1>1, <1>4
<1> QED BY <1>2, <1>5

\* If a subtree begins before the middle of a place and ends after it, it begins with
\* the place or before it.
LEMMA StartBeforeMiddle ==
  ASSUME NEW start \in Nat, NEW end \in Nat, NEW size, ValidSubtree(start, end, size),
         NEW low \in Nat, NEW e \in Nat, NEW g \in Nat, g = e + 1, MultipleOf(low, g),
         NEW m \in Nat, m = low + 2^e, start < m, m < end
  PROVE  start <= low
<1> DEFINE d == 2^e
<1>1. end - start \in Nat /\ end - start # 0 BY DEF ValidSubtree
<1>2. PICK b \in Nat : BitCeil(end - start) = 2^b /\ end - start <= 2^b BY <1>1, BitCeilIs
<1> DEFINE B == 2^b
<1>3. B \in Nat /\ B > 0 BY Powers
<1>4. PICK s \in Nat : start = s * B
  <2>1. start % 2^b = 0 BY <1>2 DEF ValidSubtree
  <2>2. start % B = 0 BY <2>1
  <2> HIDE DEF B
  <2>3. start = (start \div B) * B /\ start \div B \in Nat BY <1>3, <2>2, ExactMultiple
  <2> QED BY <2>3
<1>5. PICK a \in Nat : low = a * 2^g BY DEF MultipleOf
<1>6. d \in Nat /\ d >= 1 /\ 2^g = d + d BY Powers
<1>7. m = (a + a + 1) * d
  <2> HIDE DEF d
  <2>1. low = a * (d + d) BY <1>5, <1>6
  <2> QED BY <1>6, <2>1 DEF d
<1>8. ~(b <= e)
  <2>1. SUFFICES ASSUME b <= e PROVE FALSE OBVIOUS
  <2>2. MultipleOf(m, e)
    <3>1. a + a + 1 \in Nat OBVIOUS
    <3> QED BY <1>7, <3>1 DEF MultipleOf
  <2>3. MultipleOf(m, b) BY <2>1, <2>2, LowerMultiple
  <2>4. PICK c \in Nat : m = c * B BY <2>3 DEF MultipleOf
  <2>5. end <= start + B BY <1>1, <1>2, <1>3
  <2> HIDE DEF B
  <2>6. s * B < c * B /\ c * B < s * B + B BY <1>3, <1>4, <2>4, <2>5
  <2> QED BY <1>3, <2>6, NothingBetween
<1>9. PICK c \in Nat : start = c * 2^g
  <2>1. g <= b BY <1>8
  <2>2. MultipleOf(start, b) BY <1>4 DEF MultipleOf
  <2>3. MultipleOf(start, g) BY <2>1, <2>2, LowerMultiple
  <2> QED BY <2>3 DEF MultipleOf
<1> DEFINE G == 2^g
<1>10. SUFFICES ASSUME low < start PROVE FALSE OBVIOUS
<1>11. G \in Nat /\ G > 0 /\ start = c * G /\ low = a * G /\ start < low + G
  <2>1. m = low + d /\ G = d + d BY <1>6
  <2> HIDE DEF d, G
  <2> QED BY <1>5, <1>6, <1>9, <2>1 DEF G
<1> HIDE DEF G
<1> QED BY <1>10, <1>11, NothingBetween

-----------------------------------------------------------------------------

\* Where the part of a subtree that begins at b begins, in a slice that begins at a.
Later(a, b) == IF a > b THEN a ELSE b

\* What verify_subtree_proof has rebuilt at the place [lo, hi) of its way up, with the
\* first c hashes of the proof.
Rebuilt(D, start, end, proof, node, c, fr, sr, lo, hi) ==
  LET q == Part(start, end, D, lo, hi)
  IN  /\ Len(q) = c
      /\ sr = Mth(D, lo, hi) => Begins(proof, q) /\ fr = Mth(D, Later(lo, start), end)
      /\ Begins(proof, q) /\ node = Mth(D, start, end) => sr = Mth(D, lo, hi)

\* A proof begins with one hash more if that is its next hash.
LEMMA BeginsAppend ==
  ASSUME NEW S, NEW s \in Seq(S), NEW x \in S, NEW q, Len(q) \in Nat, Len(s) + 1 <= Len(q)
  PROVE  /\ Begins(q, Append(s, x)) <=> Begins(q, s) /\ q[Len(s) + 1] = x
         /\ Len(Append(s, x)) = Len(s) + 1
<1>1. /\ Append(s, x) \in Seq(S) /\ Len(Append(s, x)) = Len(s) + 1
      /\ \A i \in 1..Len(s) : Append(s, x)[i] = s[i]
      /\ Append(s, x)[Len(s) + 1] = x
      BY AppendProperties
<1>2. Len(s) \in Nat BY LenProperties
<1>3. ASSUME Begins(q, s), q[Len(s) + 1] = x PROVE Begins(q, Append(s, x))
  <2>1. ASSUME NEW i \in 1..(Len(s) + 1) PROVE q[i] = Append(s, x)[i]
    <3>1. CASE i = Len(s) + 1 BY <1>1, <1>3, <3>1
    <3>2. CASE i # Len(s) + 1
      <4>1. i \in 1..Len(s) BY <1>2, <3>2
      <4> QED BY <1>1, <1>3, <4>1 DEF Begins
    <3> QED BY <3>1, <3>2
  <2> QED BY <1>1, <2>1 DEF Begins
<1> QED BY <1>1, <1>3, BeginsWithPart

\* A verifier that is given the subtree's hash starts with it.
LEMMA SeededWithNode ==
  ASSUME NEW D, Len(D) \in Nat, NEW start \in Nat, NEW end \in Nat, start < end, end <= Len(D),
         NEW proof, Len(proof) \in Nat, NEW node
  PROVE  Rebuilt(D, start, end, proof, node, 0, node, node, start, end)
<1>1. start \in 0..Len(D) /\ end \in 0..Len(D) /\ end <= end /\ ~(start > start) OBVIOUS
<1>2. Part(start, end, D, start, end) = << >>
  <2>1. PartSteps(start, end, D, start, end) BY <1>1, PartStep
  <2> QED BY <2>1 DEF PartSteps
<1>3. Len(<< >>) = 0 /\ Begins(proof, << >>)
  <2>1. Len(<< >>) = 0 OBVIOUS
  <2> QED BY <2>1 DEF Begins
<1> QED BY <1>1, <1>2, <1>3 DEF Rebuilt, Later

\* Otherwise it starts with the first hash of the proof.
LEMMA SeededWithProof ==
  ASSUME NEW D, Len(D) \in Nat, NEW start \in Nat, NEW end \in Nat,
         NEW lo \in 0..Len(D), start < lo, lo < end, end <= Len(D),
         NEW proof, Len(proof) \in Nat \ {0}, NEW node
  PROVE  Rebuilt(D, start, end, proof, node, 1, proof[1], proof[1], lo, end)
<1>1. end \in 0..Len(D) /\ end <= end /\ start < end /\ lo > start OBVIOUS
<1>2. Part(start, end, D, lo, end) = <<Mth(D, lo, end)>>
  <2>1. PartSteps(start, end, D, lo, end) BY <1>1, PartStep
  <2> QED BY <2>1 DEF PartSteps
<1>3. \A x : Len(<<x>>) = 1 /\ <<x>>[1] = x OBVIOUS
<1>4. Begins(proof, <<Mth(D, lo, end)>>) <=> proof[1] = Mth(D, lo, end)
  <2>1. 1 <= Len(proof) /\ \A i \in 1..1 : i = 1 OBVIOUS
  <2> QED BY <1>3, <2>1 DEF Begins
<1> QED BY <1>1, <1>2, <1>3, <1>4 DEF Rebuilt, Later

\* The verifier's arguments, and the place it has reached.
Called(D, start, end, proof) ==
  /\ Len(D) \in Nat /\ start \in Nat /\ end \in Nat /\ ValidSubtree(start, end, Len(D))
  /\ Len(proof) \in Nat

\* The place reached is a left part, and the next hash is that of its right part.
LEMMA JoinedRight ==
  ASSUME NEW D, NEW start, NEW end, NEW proof, Called(D, start, end, proof), NEW node,
         NEW c \in Nat, c < Len(proof), NEW fr, NEW sr,
         NEW lo, NEW hi, NEW h, OnWay(end, lo, hi, h, Len(D)),
         NEW top, NEW g, OnWay(end, lo, top, g, Len(D)), hi < top, lo + Split(top - lo) = hi,
         Rebuilt(D, start, end, proof, node, c, fr, sr, lo, hi)
  PROVE  Rebuilt(D, start, end, proof, node, c + 1, fr, NodeHash(sr, proof[c + 1]), lo, top)
<1> DEFINE q == Part(start, end, D, lo, hi)
           r == Part(start, end, D, lo, top)
           x == Mth(D, hi, top)
           p == proof[c + 1]
<1>1. /\ lo \in 0..Len(D) /\ hi \in 0..Len(D) /\ top \in 0..Len(D) /\ lo < end /\ end <= hi
      /\ end <= top /\ Len(D) \in Nat /\ start \in Nat /\ end \in Nat /\ start < end /\ end # top
      /\ top - lo >= 2 /\ Len(proof) \in Nat
      BY DEF OnWay, Called, ValidSubtree
<1>2. r = Append(q, x)
  <2>1. PartSteps(start, end, D, lo, top) BY <1>1, PartStep
  <2> QED BY <1>1, <2>1 DEF PartSteps, Ends
<1>3. q \in Seq(Inners(D)) /\ x \in Inners(D) BY <1>1, PartsAreSequences, InnersOf
<1>4. Mth(D, lo, top) = NodeHash(Mth(D, lo, hi), x)
  <2>1. lo \in Nat /\ top \in Nat /\ lo < top BY <1>1
  <2> QED BY <1>1, <2>1, MthStep
<1>5. Len(q) = c BY DEF Rebuilt
<1> HIDE DEF q, r, x
<1>6. (Begins(proof, r) <=> Begins(proof, q) /\ p = x) /\ Len(r) = c + 1
  <2>1. Len(q) + 1 <= Len(proof) BY <1>1, <1>5
  <2> QED BY <1>1, <1>2, <1>3, <1>5, <2>1, BeginsAppend
<1>7. /\ sr = Mth(D, lo, hi) => Begins(proof, q) /\ fr = Mth(D, Later(lo, start), end)
      /\ Begins(proof, q) /\ node = Mth(D, start, end) => sr = Mth(D, lo, hi)
      BY DEF Rebuilt, q
<1> HIDE DEF p
<1>8. NodeHash(sr, p) = Mth(D, lo, top) <=> sr = Mth(D, lo, hi) /\ p = x
      BY <1>4, NodeHashInjective
<1>9. /\ NodeHash(sr, p) = Mth(D, lo, top) => Begins(proof, r) /\ fr = Mth(D, Later(lo, start), end)
      /\ Begins(proof, r) /\ node = Mth(D, start, end) => NodeHash(sr, p) = Mth(D, lo, top)
      BY <1>6, <1>7, <1>8
<1> QED BY <1>6, <1>9 DEF Rebuilt, r, p

\* The place reached is a right part, and the next hash is that of its left part.
LEMMA JoinedLeft ==
  ASSUME NEW D, NEW start, NEW end, NEW proof, Called(D, start, end, proof), NEW node,
         NEW c \in Nat, c < Len(proof), NEW fr, NEW sr,
         NEW lo, NEW hi, NEW h, OnWay(end, lo, hi, h, Len(D)),
         NEW low, NEW e \in Nat, NEW g, g = e + 1, OnWay(end, low, hi, g, Len(D)),
         low + Split(hi - low) = lo, lo = low + 2^e,
         ~Ends(start, end, low, hi),
         Rebuilt(D, start, end, proof, node, c, fr, sr, lo, hi)
  PROVE  Rebuilt(D, start, end, proof, node, c + 1,
                 IF start < lo THEN NodeHash(proof[c + 1], fr) ELSE fr,
                 NodeHash(proof[c + 1], sr), low, hi)
<1> DEFINE q == Part(start, end, D, lo, hi)
           r == Part(start, end, D, low, hi)
           x == Mth(D, low, lo)
           p == proof[c + 1]
           d == 2^e
           up == IF start < lo THEN NodeHash(p, fr) ELSE fr
<1>1. /\ lo \in 0..Len(D) /\ hi \in 0..Len(D) /\ low \in 0..Len(D) /\ lo < end /\ end <= hi
      /\ low < end /\ Len(D) \in Nat /\ start \in Nat /\ end \in Nat /\ start < end
      /\ ValidSubtree(start, end, Len(D)) /\ Len(proof) \in Nat /\ end <= Len(D)
      BY DEF OnWay, Called, ValidSubtree
<1>0. d \in Nat /\ d >= 1 /\ lo = low + d /\ 2^(e + 1) = d + d BY Powers
<1>2. r = Append(q, x) /\ hi - low >= 2
  <2>1. PartSteps(start, end, D, low, hi) BY <1>1, PartStep
  <2> QED BY <1>1, <2>1 DEF PartSteps
<1>3. q \in Seq(Inners(D)) /\ x \in Inners(D)
  <2> HIDE DEF d
  <2>1. q \in Seq(Inners(D)) BY <1>1, PartsAreSequences
  <2>2. low < lo BY <1>0, <1>1
  <2> QED BY <1>1, <2>1, <2>2, InnersOf
<1>4. Mth(D, low, hi) = NodeHash(x, Mth(D, lo, hi))
  <2>1. low \in Nat /\ hi \in Nat /\ low < hi BY <1>1
  <2> HIDE DEF q, r, p, d, up
  <2>2. Mth(D, low, hi) = NodeHash(Mth(D, low, low + Split(hi - low)),
                                   Mth(D, low + Split(hi - low), hi))
        BY <1>2, <2>1, MthStep
  <2> QED BY <2>2
<1>5. Len(q) = c BY DEF Rebuilt
<1> HIDE DEF q, r, x, d
<1>6. (Begins(proof, r) <=> Begins(proof, q) /\ p = x) /\ Len(r) = c + 1
  <2>1. Len(q) + 1 <= Len(proof) BY <1>1, <1>5
  <2> QED BY <1>1, <1>2, <1>3, <1>5, <2>1, BeginsAppend
<1>7. /\ sr = Mth(D, lo, hi) => Begins(proof, q) /\ fr = Mth(D, Later(lo, start), end)
      /\ Begins(proof, q) /\ node = Mth(D, start, end) => sr = Mth(D, lo, hi)
      BY DEF Rebuilt, q
<1> HIDE DEF p
<1>8. NodeHash(p, sr) = Mth(D, low, hi) <=> sr = Mth(D, lo, hi) /\ p = x
      BY <1>4, NodeHashInjective
<1>9. start < lo => start <= low /\ Mth(D, low, end) = NodeHash(x, Mth(D, lo, end))
  <2>1. SUFFICES ASSUME start < lo PROVE start <= low /\ Mth(D, low, end) = NodeHash(x, Mth(D, lo, end))
        OBVIOUS
  <2>2. MultipleOf(low, g) BY Zenon DEF OnWay, IsPlace, MultipleOf
  <2>3. start <= low
    <3>1. low \in Nat /\ g \in Nat /\ lo \in Nat BY <1>1
    <3> QED BY <1>1, <2>1, <2>2, <3>1, StartBeforeMiddle
  <2>4. hi <= low + (d + d)
    <3>1. hi <= low + 2^g BY Zenon DEF OnWay, IsPlace
    <3> QED BY <1>0, <3>1
  <2>5. Split(end - low) = d
    <3>1. end - low \in Nat /\ d < end - low /\ end - low <= d + d BY <1>0, <1>1, <2>4
    <3> QED BY <1>0, <3>1, SplitIsPower DEF d
  <2>6. Mth(D, low, end) = NodeHash(Mth(D, low, lo), Mth(D, lo, end))
    <3>1. low \in Nat /\ end - low >= 2 /\ low + Split(end - low) = lo BY <1>0, <1>1, <2>5
    <3> QED BY <1>1, <3>1, MthStep
  <2> QED BY <2>3, <2>6 DEF x
<1>10. fr = Mth(D, Later(lo, start), end) /\ p = x => up = Mth(D, Later(low, start), end)
  <2>1. CASE start < lo
    <3>1. Later(lo, start) = lo /\ (start = low \/ Later(low, start) = low)
          BY <1>0, <1>1, <1>9, <2>1 DEF Later
    <3>2. start = low => Later(low, start) = low BY DEF Later
    <3> QED BY <1>9, <2>1, <3>1, <3>2
  <2>2. CASE ~(start < lo)
    <3>1. Mth(D, Later(lo, start), end) = Mth(D, start, end) /\ Later(low, start) = start
      <4>1. Later(lo, start) = start BY <1>1, <2>2 DEF Later
      <4>2. Later(low, start) = start BY <1>0, <1>1, <2>2 DEF Later
      <4> QED BY <4>1, <4>2
    <3> QED BY <2>2, <3>1
  <2> QED BY <2>1, <2>2
<1> HIDE DEF up
<1>11. /\ NodeHash(p, sr) = Mth(D, low, hi) => Begins(proof, r) /\ up = Mth(D, Later(low, start), end)
       /\ Begins(proof, r) /\ node = Mth(D, start, end) => NodeHash(p, sr) = Mth(D, low, hi)
       BY <1>6, <1>7, <1>8, <1>10
<1> QED BY <1>6, <1>11 DEF Rebuilt, r, p, up

-----------------------------------------------------------------------------

\* A place that ends where the subtree does, and begins after it, is where the proof
\* begins: it is a left part.
Live(start, end, lo, hi, h, size) ==
  end = hi /\ start < lo =>
    ((end - 1) \div 2^h) % 2 = 0 /\ (end - 1) \div 2^h # (size - 1) \div 2^h

\* At a level with one place, that place is the whole tree.
LEMMA TopOfWay ==
  ASSUME NEW end, NEW lo, NEW hi, NEW h, NEW size, OnWay(end, lo, hi, h, size),
         (size - 1) \div 2^h = 0
  PROVE  lo = 0 /\ hi = size
<1> DEFINE d == 2^h
           sn == (end - 1) \div d
           tn == (size - 1) \div d
<1>1. /\ h \in Nat /\ sn \in Nat /\ sn <= tn /\ lo = sn * d
      /\ (sn = tn => size <= lo + d)
      BY WayPosition
<1>2. tn = 0 OBVIOUS
<1>3. hi \in Nat /\ size \in Nat /\ hi <= size /\ (hi = lo + d \/ hi = size)
      BY DEF OnWay, IsPlace
<1>4. d \in Nat BY <1>1, Powers
<1> HIDE DEF d, sn, tn
<1>5. sn = 0 /\ lo = 0 BY <1>1, <1>2, <1>4
<1> QED BY <1>1, <1>2, <1>3, <1>4, <1>5

\* The places above a live one are live, and the recursion does not stop at them.
LEMMA LiveAbove ==
  ASSUME NEW start \in Nat, NEW end, NEW lo, NEW hi, NEW h, NEW size, OnWay(end, lo, hi, h, size),
         Live(start, end, lo, hi, h, size)
  PROVE  /\ \A top, g : OnWay(end, lo, top, g, size) /\ hi < top =>
              ~Ends(start, end, lo, top) /\ Live(start, end, lo, top, g, size)
         /\ \A low, g : /\ OnWay(end, low, hi, g, size) /\ low < lo
                        /\ \/ ((end - 1) \div 2^h) % 2 = 1
                           \/ (end - 1) \div 2^h = (size - 1) \div 2^h
              => ~Ends(start, end, low, hi) /\ Live(start, end, low, hi, g, size)
<1>1. ASSUME NEW top, NEW g, OnWay(end, lo, top, g, size), hi < top
      PROVE  ~Ends(start, end, lo, top) /\ Live(start, end, lo, top, g, size)
  <2>1. end # top BY <1>1 DEF OnWay
  <2> QED BY <2>1 DEF Ends, Live
<1>2. ASSUME NEW low, NEW g, OnWay(end, low, hi, g, size), low < lo,
             \/ ((end - 1) \div 2^h) % 2 = 1
             \/ (end - 1) \div 2^h = (size - 1) \div 2^h
      PROVE  ~Ends(start, end, low, hi) /\ Live(start, end, low, hi, g, size)
  <2>1. ~(end = hi /\ start < lo)
    <3> DEFINE sn == (end - 1) \div 2^h
               tn == (size - 1) \div 2^h
    <3>1. sn % 2 = 1 \/ sn = tn BY <1>2
    <3>2. end = hi /\ start < lo => sn % 2 = 0 /\ sn # tn BY DEF Live
    <3> HIDE DEF sn, tn
    <3> QED BY <3>1, <3>2
  <2>2. low \in Nat /\ lo \in Nat BY <1>2 DEF OnWay
  <2>3. ~(end = hi /\ start <= low) BY <1>2, <2>1, <2>2
  <2> QED BY <2>2, <2>3 DEF Ends, Live
<1> QED BY <1>1, <1>2

\* The right proof, at a place: it begins with the place's part of it, and goes on
\* unless the place is the whole tree.
PartGoesOn(D, start, end, lo, hi, h) ==
  LET P == Part(start, end, D, 0, Len(D))
      q == Part(start, end, D, lo, hi)
  IN  Begins(P, q) /\ ((Len(D) - 1) \div 2^h # 0 => Len(q) < Len(P))

\* So it is at every live place, by induction from the root downwards.
LEMMA PartBegins ==
  ASSUME NEW D, NEW start, NEW end, NEW proof, Called(D, start, end, proof),
         NEW lo, NEW hi, NEW h, OnWay(end, lo, hi, h, Len(D)),
         Live(start, end, lo, hi, h, Len(D))
  PROVE  PartGoesOn(D, start, end, lo, hi, h)
<1> DEFINE N == Len(D)
           P == Part(start, end, D, 0, N)
           part(i, j) == Part(start, end, D, i, j)
           Bad(i, j) == \E e : /\ OnWay(end, i, j, e, N) /\ Live(start, end, i, j, e, N)
                               /\ ~PartGoesOn(D, start, end, i, j, e)
           T == {m \in Nat : \E i, j \in 0..N : N - (j - i) = m /\ Bad(i, j)}
<1>0. N \in Nat /\ start \in Nat /\ end \in Nat /\ start < end /\ end <= N
      BY DEF Called, ValidSubtree
<1>1. SUFFICES ASSUME Bad(lo, hi) PROVE FALSE
      OBVIOUS
<1>2. PICK m \in T : \A v \in T : m <= v
  <2>1. lo \in 0..N /\ hi \in 0..N /\ lo < hi BY DEF OnWay, IsPlace
  <2>2. N - (hi - lo) \in Nat BY <1>0, <2>1
  <2>3. T # {}
    <3> HIDE DEF Bad
    <3> QED BY <1>1, <2>1, <2>2
  <2>4. T \in SUBSET Nat OBVIOUS
  <2> HIDE DEF T
  <2> QED BY <2>3, <2>4, Least
<1>3. PICK i \in 0..N, j \in 0..N : N - (j - i) = m /\ Bad(i, j) BY <1>2
<1>4. PICK e : /\ OnWay(end, i, j, e, N) /\ Live(start, end, i, j, e, N)
               /\ ~PartGoesOn(D, start, end, i, j, e)
      BY <1>3
<1>5. i < end /\ end <= j /\ i < j BY <1>4 DEF OnWay, IsPlace
<1> DEFINE sn == (end - 1) \div 2^e
           tn == (N - 1) \div 2^e
<1>6. P \in Seq(Inners(D)) /\ Len(P) \in Nat /\ part(i, j) \in Seq(Inners(D)) /\ Len(part(i, j)) \in Nat
  <2>1. 0 \in 0..N /\ N \in 0..N /\ 0 < end BY <1>0
  <2>2. P \in Seq(Inners(D)) BY <1>0, <2>1, PartsAreSequences
  <2>3. part(i, j) \in Seq(Inners(D)) BY <1>0, <1>5, PartsAreSequences
  <2> HIDE DEF P, part
  <2> QED BY <2>2, <2>3, LenProperties
<1>7. ASSUME NEW a \in 0..N, NEW b \in 0..N, a < b, b - a > j - i,
             \E f : OnWay(end, a, b, f, N) /\ Live(start, end, a, b, f, N)
      PROVE  Begins(P, part(a, b))
  <2>1. N - (b - a) \in Nat /\ N - (b - a) < m BY <1>0, <1>3, <1>5, <1>7
  <2>2. N - (b - a) \notin T
    <3>1. m \in Nat OBVIOUS
    <3> HIDE DEF T
    <3> QED BY <1>2, <2>1, <3>1
  <2>3. ~Bad(a, b)
    <3> HIDE DEF Bad
    <3> QED BY <2>1, <2>2
  <2>4. PICK f : OnWay(end, a, b, f, N) /\ Live(start, end, a, b, f, N) BY <1>7
  <2>5. PartGoesOn(D, start, end, a, b, f) BY <2>3, <2>4
  <2> QED BY <2>5 DEF PartGoesOn
<1>8. CASE tn = 0
  <2>1. i = 0 /\ j = N BY <1>4, <1>8, TopOfWay
  <2>2. part(i, j) = P BY <2>1
  <2>3. Begins(P, P) BY <1>6 DEF Begins
  <2> QED BY <1>4, <1>8, <2>2, <2>3 DEF PartGoesOn
<1>9. ASSUME NEW a \in 0..N, NEW b \in 0..N, NEW x \in Inners(D), Begins(P, part(a, b)),
             part(a, b) = Append(part(i, j), x)
      PROVE  FALSE
  <2>1. Begins(P, Append(part(i, j), x)) BY <1>9
  <2> HIDE DEF P, part
  <2>2. Begins(P, part(i, j)) /\ Len(part(i, j)) + 1 <= Len(P) BY <1>6, <2>1, BeginsWithPart
  <2>3. Len(part(i, j)) < Len(P) BY <1>6, <2>2
  <2> QED BY <1>4, <2>2, <2>3 DEF PartGoesOn, P, part
<1>10. CASE tn # 0 /\ sn % 2 = 0 /\ sn # tn
  <2>1. PICK top \in 0..N : OnWay(end, i, top, e + 1, N) /\ j < top /\ i + Split(top - i) = j
        BY <1>4, <1>10, LeftParent
  <2>2. ~Ends(start, end, i, top) /\ Live(start, end, i, top, e + 1, N)
        BY <1>0, <1>4, <2>1, LiveAbove
  <2>3. i < end /\ end <= top /\ i < top /\ top - i > j - i BY <1>5, <2>1 DEF OnWay
  <2>4. Begins(P, part(i, top))
    <3> HIDE DEF P, part
    <3> QED BY <1>7, <2>1, <2>2, <2>3
  <2>5. part(i, top) = Append(part(i, j), Mth(D, j, top))
    <3>1. PartSteps(start, end, D, i, top) BY <1>0, <2>3, PartStep
    <3> QED BY <1>5, <2>1, <2>2, <3>1 DEF PartSteps
  <2>6. Mth(D, j, top) \in Inners(D) BY <2>1, InnersOf
  <2> HIDE DEF P, part
  <2> QED BY <1>9, <2>4, <2>5, <2>6
<1>11. CASE tn # 0 /\ (sn % 2 = 1 \/ sn = tn)
  <2>1. PICK low \in 0..N : \E z \in Nat :
          /\ OnWay(end, low, j, e + z + 1, N) /\ low < i /\ low + Split(j - low) = i
        BY <1>4, <1>11, RightParent
  <2>2. PICK z \in Nat : OnWay(end, low, j, e + z + 1, N) BY <2>1
  <2>3. ~Ends(start, end, low, j) /\ Live(start, end, low, j, e + z + 1, N)
        BY <1>0, <1>4, <1>11, <2>1, <2>2, LiveAbove
  <2>4. low < end /\ low < j /\ j - low > j - i BY <1>5, <2>1, <2>2 DEF OnWay
  <2>5. Begins(P, part(low, j))
    <3> HIDE DEF P, part
    <3> QED BY <1>7, <2>2, <2>3, <2>4
  <2>6. part(low, j) = Append(part(i, j), Mth(D, low, i))
    <3>1. PartSteps(start, end, D, low, j) BY <1>0, <1>5, <2>4, PartStep
    <3> QED BY <1>5, <2>1, <2>3, <3>1 DEF PartSteps
  <2>7. Mth(D, low, i) \in Inners(D) BY <2>1, InnersOf
  <2> HIDE DEF P, part
  <2> QED BY <1>9, <2>5, <2>6, <2>7
<1>12. sn \in Nat BY <1>4, WayPosition
<1>13. sn % 2 = 0 \/ sn % 2 = 1
  <2> HIDE DEF sn
  <2> QED BY <1>12
<1> QED BY <1>8, <1>10, <1>11, <1>13

-----------------------------------------------------------------------------

\* A level not above the size of a subtree's block is one at which the subtree begins
\* with a node.
LEMMA StartIsMultiple ==
  ASSUME NEW start \in Nat, NEW end \in Nat, NEW size, ValidSubtree(start, end, size),
         NEW h \in Nat, 2^h <= BitCeil(end - start)
  PROVE  MultipleOf(start, h) /\ start = (start \div 2^h) * 2^h /\ start \div 2^h \in Nat
<1>1. end - start \in Nat /\ end - start # 0 BY DEF ValidSubtree
<1>2. PICK b \in Nat : BitCeil(end - start) = 2^b BY <1>1, BitCeilIs
<1>3. h <= b
  <2>1. SUFFICES ASSUME b < h PROVE FALSE OBVIOUS
  <2>2. b + 1 \in Nat /\ b + 1 <= h BY <2>1
  <2>3. 2^(b + 1) <= 2^h BY <2>2, PowersOrdered
  <2>4. 2^(b + 1) = 2^b + 2^b /\ 2^b \in Nat /\ 2^b >= 1 BY Powers
  <2>5. 2^h <= 2^b /\ 2^h \in Nat BY <1>2, Powers
  <2> QED BY <2>3, <2>4, <2>5
<1>4. MultipleOf(start, b)
  <2> DEFINE B == 2^b
  <2>1. B \in Nat /\ B > 0 BY Powers
  <2>2. start % B = 0 BY <1>2 DEF ValidSubtree
  <2> HIDE DEF B
  <2>3. start = (start \div B) * B /\ start \div B \in Nat BY <2>1, <2>2, ExactMultiple
  <2> QED BY <2>3 DEF B, MultipleOf
<1>5. MultipleOf(start, h) BY <1>3, <1>4, LowerMultiple
<1> DEFINE d == 2^h
<1>6. PICK a \in Nat : start = a * d BY <1>5 DEF MultipleOf
<1>7. d \in Nat /\ d > 0 BY Powers
<1> HIDE DEF d
<1>8. start \div d = a BY <1>6, <1>7, Multiples
<1> QED BY <1>5, <1>6, <1>8 DEF d

\* What the first loops of verify_subtree_proof keep, h levels up.
Rising(start, end, size, h) ==
  /\ h \in Nat /\ 2^h <= BitCeil(end - start)
  /\ \A g \in Nat : g + 1 = h => start \div 2^g # (end - 1) \div 2^g
  /\ end # size => end = ((end - 1) \div 2^h + 1) * 2^h

\* They start at the leaves.
LEMMA RisingStarts ==
  ASSUME NEW start \in Nat, NEW end \in Nat, NEW size, ValidSubtree(start, end, size)
  PROVE  Rising(start, end, size, 0)
<1>1. end - start \in Nat /\ end - start # 0 BY DEF ValidSubtree
<1>2. PICK b \in Nat : BitCeil(end - start) = 2^b BY <1>1, BitCeilIs
<1>3. 2^0 = 1 /\ 2^b >= 1 BY Powers
<1>4. (end - 1) \div 1 = end - 1 /\ end - 1 \in Nat BY <1>1 DEF ValidSubtree
<1>5. end = ((end - 1) \div 2^0 + 1) * 2^0 BY <1>3, <1>4
<1>6. \A g \in Nat : g + 1 # 0 OBVIOUS
<1>7. 2^0 <= BitCeil(end - start) BY <1>2, <1>3
<1> QED BY <1>5, <1>6, <1>7 DEF Rising

\* The level is below the subtree's own as long as the positions differ.
LEMMA Apart ==
  ASSUME NEW start \in Nat, NEW end \in Nat, NEW size, ValidSubtree(start, end, size),
         NEW h \in Nat, 2^h <= BitCeil(end - start), start \div 2^h # (end - 1) \div 2^h
  PROVE  start + 2^h < end /\ start \div 2^h < (end - 1) \div 2^h
<1> DEFINE d == 2^h
           x == end - 1
           a == start \div d
           b == x \div d
<1>1. d \in Nat /\ d > 0 BY Powers
<1>2. start = a * d /\ a \in Nat BY StartIsMultiple
<1>3. x \in Nat /\ start <= x /\ x + 1 = end BY DEF ValidSubtree
<1> HIDE DEF d, x
<1>4. b \in Nat /\ b * d <= x /\ x < b * d + d BY <1>1, <1>3, DivideBack
<1>5. a # b BY DEF a, b, d, x
<1> HIDE DEF a, b
<1>6. a < b
  <2>1. SUFFICES ASSUME b < a PROVE FALSE BY <1>2, <1>4, <1>5
  <2>2. (b + 1) * d <= a * d BY <1>1, <1>2, <1>4, <2>1, TimesOrdered
  <2>3. (b + 1) * d = b * d + d /\ b * d \in Nat BY <1>1, <1>4
  <2> QED BY <1>1, <1>2, <1>3, <1>4, <2>2, <2>3
<1>7. (a + 1) * d <= b * d BY <1>1, <1>2, <1>4, <1>6, TimesOrdered
<1>8. (a + 1) * d = a * d + d /\ b * d \in Nat /\ a * d \in Nat BY <1>1, <1>2, <1>4
<1> QED BY <1>1, <1>2, <1>3, <1>4, <1>6, <1>7, <1>8 DEF a, b, d, x

\* Where the range ends before the tree does, the last leaf is at another position.
LEMMA EndsEarlier ==
  ASSUME NEW end \in Nat, end # 0, NEW size \in Nat, NEW h \in Nat, end <= size,
         end # size => end = ((end - 1) \div 2^h + 1) * 2^h
  PROVE  (end = size) <=> ((end - 1) \div 2^h = (size - 1) \div 2^h)
<1> DEFINE d == 2^h
           x == end - 1
           y == size - 1
           b == x \div d
<1>1. d \in Nat /\ d > 0 BY Powers
<1>2. x \in Nat /\ y \in Nat /\ x + 1 = end /\ y + 1 = size OBVIOUS
<1> HIDE DEF d, x, y
<1>3. b \in Nat /\ b * d <= x /\ x < b * d + d BY <1>1, <1>2, DivideBack
<1>4. y \div d \in Nat /\ (y \div d) * d <= y /\ y < (y \div d) * d + d BY <1>1, <1>2, DivideBack
<1>5. end # size => end = (b + 1) * d BY DEF d, x
<1> HIDE DEF b
<1>6. ASSUME end # size, b = y \div d PROVE FALSE
  <2>1. end = b * d + d /\ b * d \in Nat BY <1>1, <1>3, <1>5, <1>6
  <2>2. end <= y BY <1>2, <1>6
  <2> QED BY <1>1, <1>2, <1>4, <1>6, <2>1, <2>2
<1> QED BY <1>6 DEF b, d, x, y

\* One turn of the first loops.
LEMMA RisesOn ==
  ASSUME NEW start \in Nat, NEW end \in Nat, NEW size \in Nat, ValidSubtree(start, end, size),
         NEW h, Rising(start, end, size, h),
         start \div 2^h # (end - 1) \div 2^h,
         (end - 1) \div 2^h = (size - 1) \div 2^h \/ ((end - 1) \div 2^h) % 2 = 1
  PROVE  Rising(start, end, size, h + 1)
<1>1. h \in Nat /\ 2^h <= BitCeil(end - start) BY DEF Rising
<1>2. start + 2^h < end BY <1>1, Apart
<1>3. end - start \in Nat /\ end - start # 0 /\ end # 0 /\ end <= size BY DEF ValidSubtree
<1>4. 2^(h + 1) <= BitCeil(end - start)
  <2>1. PICK b \in Nat : BitCeil(end - start) = 2^b /\ end - start <= 2^b
        BY <1>3, BitCeilIs
  <2>2. h < b
    <3>1. SUFFICES ASSUME b <= h PROVE FALSE BY <1>1
    <3>2. 2^b <= 2^h BY <1>1, <3>1, PowersOrdered
    <3>3. 2^b \in Nat /\ 2^h \in Nat BY <1>1, Powers
    <3> QED BY <1>2, <2>1, <3>2, <3>3
  <2>3. h + 1 \in Nat /\ h + 1 <= b BY <1>1, <2>2
  <2> QED BY <2>1, <2>3, PowersOrdered
<1>5. ASSUME NEW g \in Nat, g + 1 = h + 1 PROVE start \div 2^g # (end - 1) \div 2^g
  <2>1. g = h BY <1>1, <1>5
  <2> QED BY <2>1
<1>6. end # size => end = ((end - 1) \div 2^(h + 1) + 1) * 2^(h + 1)
  <2> DEFINE d == 2^h
             x == end - 1
             b == x \div d
  <2>1. d \in Nat /\ d > 0 /\ 2^(h + 1) = d + d BY <1>1, Powers
  <2>2. end # size => end = (b + 1) * d /\ b % 2 = 1
    <3>1. (end = size) <=> ((end - 1) \div 2^h = (size - 1) \div 2^h)
          BY <1>1, <1>3, EndsEarlier DEF Rising
    <3> QED BY <3>1 DEF Rising
  <2>3. x \in Nat BY <1>3
  <2> HIDE DEF d, x
  <2>4. b \in Nat /\ b \div 2 = x \div (d + d) BY <2>1, <2>3, QuotientHalved, DivideBack
  <2> HIDE DEF b
  <2>5. ASSUME b % 2 = 1, end = (b + 1) * d PROVE end = (b \div 2 + 1) * (d + d)
    <3> DEFINE c == b \div 2
    <3>1. c \in Nat /\ b = c + c + 1 BY <2>4, <2>5
    <3> HIDE DEF c
    <3>2. (c + c + 1 + 1) * d = (c + 1) * (d + d) BY <2>1, <3>1
    <3> QED BY <2>5, <3>1, <3>2 DEF c
  <2>6. end # size => end = (x \div (d + d) + 1) * (d + d) BY <2>2, <2>4, <2>5
  <2>7. d + d = 2^(h + 1) BY <2>1
  <2>8. end # size => end = (x \div 2^(h + 1) + 1) * 2^(h + 1) BY <2>6, <2>7
  <2> QED BY <2>8 DEF x
<1>7. h + 1 \in Nat BY <1>1
<1> QED BY <1>4, <1>5, <1>6, <1>7 DEF Rising

\* Where they end with equal positions, the subtree is a node of the tree.
LEMMA SubtreeIsNode ==
  ASSUME NEW start \in Nat, NEW end \in Nat, NEW size \in Nat, ValidSubtree(start, end, size),
         NEW h, Rising(start, end, size, h), start \div 2^h = (end - 1) \div 2^h
  PROVE  OnWay(end, start, end, h, size) /\ Live(start, end, start, end, h, size)
<1>1. h \in Nat /\ 2^h <= BitCeil(end - start) BY DEF Rising
<1>2. start < end /\ end <= size BY DEF ValidSubtree
<1>3. MultipleOf(start, h) /\ start = (start \div 2^h) * 2^h BY <1>1, StartIsMultiple
<1> DEFINE d == 2^h
           b == (end - 1) \div d
           x == end - 1
<1>4. d \in Nat /\ d > 0 BY <1>1, Powers
<1>5. x \in Nat /\ x + 1 = end BY <1>2
<1>6. b \in Nat /\ b * d <= x /\ x < b * d + d
  <2> HIDE DEF d, x
  <2>1. x \div d \in Nat /\ (x \div d) * d <= x /\ x < (x \div d) * d + d
        BY <1>4, <1>5, DivideBack
  <2> QED BY <2>1 DEF x
<1>7. start = b * d BY <1>3
<1>8. end # size => end = (b + 1) * d BY DEF Rising
<1> HIDE DEF d, b, x
<1>9. end <= start + d /\ (end = start + d \/ end = size)
  <2>1. (b + 1) * d = b * d + d BY <1>4, <1>6
  <2> QED BY <1>4, <1>5, <1>6, <1>7, <1>8, <2>1
<1>10. h # 0 => start + 2^(h - 1) < end
  <2>1. SUFFICES ASSUME h # 0 PROVE start + 2^(h - 1) < end OBVIOUS
  <2>2. PICK g \in Nat : g + 1 = h
    <3>1. h - 1 \in Nat /\ h - 1 + 1 = h BY <1>1, <2>1
    <3> QED BY <3>1
  <2>3. start \div 2^g # (end - 1) \div 2^g BY <2>2 DEF Rising
  <2>4. 2^g <= BitCeil(end - start)
    <3>1. 2^(g + 1) = 2^g + 2^g /\ 2^g \in Nat BY Powers
    <3>2. PICK c \in Nat : BitCeil(end - start) = 2^c
      <4>1. end - start \in Nat /\ end - start # 0 BY <1>2
      <4> QED BY <4>1, BitCeilIs
    <3>3. 2^c \in Nat BY Powers
    <3> QED BY <1>1, <2>2, <3>1, <3>2, <3>3
  <2>5. start + 2^g < end BY <2>3, <2>4, Apart
  <2>6. h - 1 = g BY <2>2
  <2> QED BY <2>5, <2>6
<1>11. IsPlace(start, end, h, size)
  <2>1. \E a \in Nat : start = a * 2^h BY <1>3 DEF MultipleOf
  <2> QED BY <1>1, <1>2, <1>9, <1>10, <2>1 DEF IsPlace, d
<1>12. OnWay(end, start, end, h, size)
  <2>1. start \in 0..size /\ end \in 0..size /\ end <= end BY <1>2
  <2> QED BY <1>2, <1>11, <2>1 DEF OnWay
<1>13. ~(start < start) OBVIOUS
<1> QED BY <1>12, <1>13 DEF Live

\* Otherwise it ends with one, which the proof begins with.
LEMMA SubtreeEndsInNode ==
  ASSUME NEW start \in Nat, NEW end \in Nat, NEW size \in Nat, ValidSubtree(start, end, size),
         NEW h, Rising(start, end, size, h), start \div 2^h # (end - 1) \div 2^h,
         ((end - 1) \div 2^h) % 2 = 0, (end - 1) \div 2^h # (size - 1) \div 2^h
  PROVE  LET lo == ((end - 1) \div 2^h) * 2^h
         IN  /\ OnWay(end, lo, end, h, size) /\ Live(start, end, lo, end, h, size)
             /\ start < lo
<1>1. h \in Nat /\ 2^h <= BitCeil(end - start) BY DEF Rising
<1>2. start < end /\ end <= size /\ end # 0 BY DEF ValidSubtree
<1> DEFINE d == 2^h
           x == end - 1
           b == x \div d
           lo == b * d
<1>3. d \in Nat /\ d >= 1 /\ (h # 0 => 2^(h - 1) < d)
  <2>1. h # 0 => 2^(h - 1) < 2^h
    <3>1. SUFFICES ASSUME h # 0 PROVE 2^(h - 1) < 2^h OBVIOUS
    <3>2. h - 1 \in Nat /\ h - 1 + 1 = h BY <1>1, <3>1
    <3>3. 2^(h - 1) \in Nat /\ 2^(h - 1) >= 1 /\ 2^(h - 1 + 1) = 2^(h - 1) + 2^(h - 1)
          BY <3>2, Powers
    <3> DEFINE e == 2^(h - 1)
    <3>4. 2^h = e + e /\ e \in Nat /\ e >= 1 BY <3>2, <3>3
    <3> HIDE DEF e
    <3>5. e < 2^h BY <3>4
    <3> QED BY <3>5 DEF e
  <2> QED BY <1>1, <2>1, Powers
<1>4. end # size
  <2>1. (end = size) <=> ((end - 1) \div 2^h = (size - 1) \div 2^h)
        BY <1>1, <1>2, EndsEarlier DEF Rising
  <2> QED BY <2>1
<1>5. end = (b + 1) * d BY <1>4 DEF Rising
<1>6. start \div d < b /\ start = (start \div d) * d /\ start \div d \in Nat
      BY <1>1, Apart, StartIsMultiple
<1>7. x \in Nat BY <1>2
<1>8. b \in Nat
  <2> HIDE DEF d, x
  <2> QED BY <1>3, <1>7, DivideBack
<1> DEFINE a == start \div d
<1>9. start = a * d /\ a \in Nat /\ a < b BY <1>6
<1>11. lo = ((end - 1) \div 2^h) * 2^h /\ b = (end - 1) \div 2^h OBVIOUS
<1> HIDE DEF a, d, b
<1>12. end = lo + d /\ lo \in Nat BY <1>3, <1>5, <1>8
<1>13. start < lo
  <2>1. (a + 1) * d <= b * d BY <1>3, <1>8, <1>9, TimesOrdered
  <2>2. (a + 1) * d = a * d + d BY <1>3, <1>9
  <2> QED BY <1>3, <1>9, <1>12, <2>1, <2>2
<1> HIDE DEF lo
<1>14. IsPlace(lo, end, h, size)
  <2>1. \E c \in Nat : lo = c * 2^h BY <1>8 DEF lo, d
  <2>2. /\ lo < end /\ end <= size /\ end <= lo + d /\ end = lo + d
        /\ (h # 0 => lo + 2^(h - 1) < end)
    <3> DEFINE e == 2^(h - 1)
    <3>1. h # 0 => e \in Nat
      <4>1. h # 0 => h - 1 \in Nat BY <1>1
      <4> QED BY <4>1, Powers
    <3>2. h # 0 => e < d BY <1>3
    <3> HIDE DEF e
    <3>3. h # 0 => lo + e < end BY <1>3, <1>12, <3>1, <3>2
    <3> QED BY <1>2, <1>3, <1>12, <3>3 DEF e
  <2> QED BY <1>1, <2>1, <2>2 DEF IsPlace, d
<1>15. OnWay(end, lo, end, h, size)
  <2>1. lo \in 0..size /\ end \in 0..size /\ end <= end /\ lo < end BY <1>2, <1>3, <1>12
  <2> QED BY <1>14, <2>1 DEF OnWay
<1>16. Live(start, end, lo, end, h, size) BY DEF Live
<1> QED BY <1>11, <1>13, <1>15, <1>16

\* The positions tell whether the subtree begins before the place reached.
LEMMA BeforePlace ==
  ASSUME NEW start \in Nat, NEW s \in Nat, NEW h \in Nat
  PROVE  start \div 2^h < s <=> start < s * 2^h
<1> DEFINE d == 2^h
           a == start \div d
<1>1. d \in Nat /\ d > 0 BY Powers
<1> HIDE DEF d
<1>2. a \in Nat /\ a * d <= start /\ start < a * d + d BY <1>1, DivideBack
<1> HIDE DEF a
<1>3. s * d \in Nat /\ a * d \in Nat BY <1>1, <1>2
<1>4. ASSUME a < s PROVE start < s * d
  <2>1. (a + 1) * d <= s * d BY <1>1, <1>2, <1>4, TimesOrdered
  <2>2. (a + 1) * d = a * d + d BY <1>1, <1>2
  <2> QED BY <1>1, <1>2, <1>3, <2>1, <2>2
<1>5. ASSUME ~(a < s) PROVE ~(start < s * d)
  <2>1. s * d <= a * d BY <1>1, <1>2, <1>5, TimesOrdered
  <2> QED BY <1>2, <1>3, <2>1
<1> QED BY <1>4, <1>5 DEF a, d

-----------------------------------------------------------------------------

\* What is left of a proof of which c hashes are used.
Left(proof, rest, c) ==
  /\ \E S : proof \in Seq(S) /\ rest \in Seq(S)
  /\ c \in Nat /\ Len(proof) = c + Len(rest)
  /\ \A i \in 1..Len(rest) : rest[i] = proof[c + i]

\* At first, at last and between.
LEMMA LeftAll ==
  ASSUME NEW S, NEW proof \in Seq(S)
  PROVE  Left(proof, proof, 0) /\ Len(proof) \in Nat
<1>1. Len(proof) \in Nat BY LenProperties
<1> QED BY <1>1 DEF Left

LEMMA LeftNone ==
  ASSUME NEW proof, NEW c, Left(proof, << >>, c)
  PROVE  Len(proof) = c
<1>1. Len(<< >>) = 0 OBVIOUS
<1> QED BY <1>1 DEF Left

LEMMA LeftSome ==
  ASSUME NEW proof, NEW rest, NEW c, Left(proof, rest, c), rest # << >>
  PROVE  /\ c \in Nat /\ Len(proof) \in Nat /\ c < Len(proof)
         /\ Head(rest) = proof[c + 1] /\ Left(proof, Tail(rest), c + 1)
<1>1. PICK S : proof \in Seq(S) /\ rest \in Seq(S) BY DEF Left
<1>2. c \in Nat /\ Len(proof) = c + Len(rest) /\ \A i \in 1..Len(rest) : rest[i] = proof[c + i]
      BY DEF Left
<1>3. Len(proof) \in Nat /\ Len(rest) \in Nat /\ Len(rest) # 0
      BY <1>1, LenProperties, EmptySeq
<1>4. /\ Tail(rest) \in Seq(S) /\ Len(Tail(rest)) = Len(rest) - 1
      /\ \A i \in 1..Len(Tail(rest)) : Tail(rest)[i] = rest[i + 1]
      BY <1>1, HeadTailProperties
<1>5. Head(rest) = rest[1] BY <1>1
<1>6. Head(rest) = proof[c + 1] BY <1>2, <1>3, <1>5
<1>7. ASSUME NEW i \in 1..Len(Tail(rest)) PROVE Tail(rest)[i] = proof[c + 1 + i]
  <2>1. i + 1 \in 1..Len(rest) /\ c + (i + 1) = c + 1 + i BY <1>2, <1>3, <1>4
  <2>2. rest[i + 1] = proof[c + (i + 1)] BY <1>2, <2>1
  <2> QED BY <1>4, <2>1, <2>2
<1>8. Len(proof) = c + 1 + Len(Tail(rest)) BY <1>2, <1>3, <1>4
<1> QED BY <1>1, <1>2, <1>3, <1>4, <1>6, <1>7, <1>8 DEF Left

-----------------------------------------------------------------------------

\* The three positions of verify_subtree_proof, h levels up.
Positions(start, end, size, h, fn, sn, tn) ==
  fn = start \div 2^h /\ sn = (end - 1) \div 2^h /\ tn = (size - 1) \div 2^h

\* A shift of all three is one level up.
LEMMA PositionsRise ==
  ASSUME NEW start \in Nat, NEW end \in Nat \ {0}, NEW size \in Nat \ {0}, NEW h \in Nat,
         NEW fn, NEW sn, NEW tn, Positions(start, end, size, h, fn, sn, tn)
  PROVE  Positions(start, end, size, h + 1, fn \div 2, sn \div 2, tn \div 2)
<1>1. end - 1 \in Nat /\ size - 1 \in Nat OBVIOUS
<1> QED BY <1>1, LevelUp DEF Positions

\* The verifier in its first loops, ...
Aligning(D, start, end, proof, rest, fn, sn, tn) ==
  /\ rest = proof
  /\ \E h : Rising(start, end, Len(D), h) /\ Positions(start, end, Len(D), h, fn, sn, tn)

\* ... at the head of its main loop, ...
Folding(D, start, end, proof, node, rest, fn, sn, tn, fr, sr) ==
  \E lo, hi, h, c :
    /\ Positions(start, end, Len(D), h, fn, sn, tn)
    /\ OnWay(end, lo, hi, h, Len(D)) /\ Live(start, end, lo, hi, h, Len(D))
    /\ Left(proof, rest, c)
    /\ Rebuilt(D, start, end, proof, node, c, fr, sr, lo, hi)

\* ... and in its inner loop: y + 1 levels below the place it has joined up to.
Stripping(D, start, end, proof, node, rest, fn, sn, tn, fr, sr) ==
  \E lo, hi, h, c : \E l \in Nat, y \in Nat, o \in Nat :
    /\ Positions(start, end, Len(D), l, fn, sn, tn)
    /\ h = l + y + 1 /\ o % 2 = 1 /\ sn = o * 2^y
    /\ OnWay(end, lo, hi, h, Len(D)) /\ Live(start, end, lo, hi, h, Len(D))
    /\ Left(proof, rest, c)
    /\ Rebuilt(D, start, end, proof, node, c, fr, sr, lo, hi)

\* What the verdict should be under the root of the tree over D.
Exact(D, start, end, proof, node) ==
  /\ ValidSubtree(start, end, Len(D))
  /\ proof = SubtreeProof(start, end, D)
  /\ node = Mth(D, start, end)

\* Facts about a subtree's bounds that every leaf below needs.
LEMMA CallIs ==
  ASSUME NEW D, NEW start, NEW end, NEW proof, Called(D, start, end, proof)
  PROVE  /\ start \in Nat /\ end \in Nat \ {0} /\ Len(D) \in Nat \ {0} /\ start < end
         /\ end <= Len(D) /\ ValidSubtree(start, end, Len(D)) /\ Len(proof) \in Nat
BY DEF Called, ValidSubtree

\* From the arguments to the first loops, and through them.
LEMMA AligningStarts ==
  ASSUME NEW D, NEW start, NEW end, NEW proof, Called(D, start, end, proof)
  PROVE  Aligning(D, start, end, proof, proof, start, end - 1, Len(D) - 1)
<1>1. Rising(start, end, Len(D), 0) BY CallIs, RisingStarts
<1>2. Positions(start, end, Len(D), 0, start, end - 1, Len(D) - 1)
  <2>1. 2^0 = 1 OBVIOUS
  <2>2. start \div 1 = start /\ (end - 1) \div 1 = end - 1 /\ (Len(D) - 1) \div 1 = Len(D) - 1
        BY CallIs
  <2> QED BY <2>1, <2>2 DEF Positions
<1> QED BY <1>1, <1>2 DEF Aligning

LEMMA AligningGoesOn ==
  ASSUME NEW D, NEW start, NEW end, NEW proof, Called(D, start, end, proof), NEW rest,
         NEW fn, NEW sn, NEW tn, Aligning(D, start, end, proof, rest, fn, sn, tn),
         fn # sn, sn = tn \/ sn % 2 = 1
  PROVE  Aligning(D, start, end, proof, rest, fn \div 2, sn \div 2, tn \div 2)
<1>1. PICK h : Rising(start, end, Len(D), h) /\ Positions(start, end, Len(D), h, fn, sn, tn)
      BY DEF Aligning
<1>2. h \in Nat BY <1>1 DEF Rising
<1>3. Positions(start, end, Len(D), h + 1, fn \div 2, sn \div 2, tn \div 2)
      BY <1>1, <1>2, CallIs, PositionsRise
<1>4. Rising(start, end, Len(D), h + 1)
  <2>1. /\ start \div 2^h # (end - 1) \div 2^h
        /\ (end - 1) \div 2^h = (Len(D) - 1) \div 2^h \/ ((end - 1) \div 2^h) % 2 = 1
        BY <1>1 DEF Positions
  <2> QED BY <1>1, <2>1, CallIs, RisesOn
<1> QED BY <1>3, <1>4 DEF Aligning

\* A subtree that is a node: the fold starts with its hash.
LEMMA NodeSeeds ==
  ASSUME NEW D, NEW start, NEW end, NEW proof, Called(D, start, end, proof), NEW rest, NEW node,
         \E S : proof \in Seq(S),
         NEW fn, NEW sn, NEW tn, Aligning(D, start, end, proof, rest, fn, sn, tn), fn = sn
  PROVE  Folding(D, start, end, proof, node, rest, fn, sn, tn, node, node)
<1>1. PICK h : Rising(start, end, Len(D), h) /\ Positions(start, end, Len(D), h, fn, sn, tn)
      BY DEF Aligning
<1>2. start \div 2^h = (end - 1) \div 2^h BY <1>1 DEF Positions
<1>3. OnWay(end, start, end, h, Len(D)) /\ Live(start, end, start, end, h, Len(D))
      BY <1>1, <1>2, CallIs, SubtreeIsNode
<1>4. Left(proof, rest, 0) BY LeftAll DEF Aligning
<1>5. Rebuilt(D, start, end, proof, node, 0, node, node, start, end)
      BY CallIs, SeededWithNode
<1> QED BY <1>1, <1>3, <1>4, <1>5 DEF Folding

\* The place of the last part of a subtree that is not a node.
LEMMA LastPart ==
  ASSUME NEW D, NEW start, NEW end, NEW proof, Called(D, start, end, proof), NEW rest,
         NEW fn, NEW sn, NEW tn, Aligning(D, start, end, proof, rest, fn, sn, tn),
         fn # sn, sn % 2 = 0, sn # tn
  PROVE  \E lo \in 0..Len(D) : \E h :
           /\ Positions(start, end, Len(D), h, fn, sn, tn) /\ start < lo /\ lo < end
           /\ OnWay(end, lo, end, h, Len(D)) /\ Live(start, end, lo, end, h, Len(D))
<1>1. PICK h : Rising(start, end, Len(D), h) /\ Positions(start, end, Len(D), h, fn, sn, tn)
      BY DEF Aligning
<1>2. /\ start \div 2^h # (end - 1) \div 2^h /\ ((end - 1) \div 2^h) % 2 = 0
      /\ (end - 1) \div 2^h # (Len(D) - 1) \div 2^h
      BY <1>1 DEF Positions
<1> DEFINE lo == ((end - 1) \div 2^h) * 2^h
<1>3. OnWay(end, lo, end, h, Len(D)) /\ Live(start, end, lo, end, h, Len(D)) /\ start < lo
      BY <1>1, <1>2, CallIs, SubtreeEndsInNode
<1> HIDE DEF lo
<1>4. lo \in 0..Len(D) /\ lo < end BY <1>3 DEF OnWay
<1> QED BY <1>1, <1>3, <1>4

\* One that is not: the fold starts with the first hash of the proof, ...
LEMMA ProofSeeds ==
  ASSUME NEW D, NEW start, NEW end, NEW proof, Called(D, start, end, proof), NEW rest, NEW node,
         \E S : proof \in Seq(S),
         NEW fn, NEW sn, NEW tn, Aligning(D, start, end, proof, rest, fn, sn, tn),
         fn # sn, sn % 2 = 0, sn # tn, rest # << >>
  PROVE  Folding(D, start, end, proof, node, Tail(rest), fn, sn, tn, Head(rest), Head(rest))
<1>1. PICK lo \in 0..Len(D) : \E h :
        /\ Positions(start, end, Len(D), h, fn, sn, tn) /\ start < lo /\ lo < end
        /\ OnWay(end, lo, end, h, Len(D)) /\ Live(start, end, lo, end, h, Len(D))
      BY LastPart
<1>2. PICK h : /\ Positions(start, end, Len(D), h, fn, sn, tn) /\ start < lo /\ lo < end
               /\ OnWay(end, lo, end, h, Len(D)) /\ Live(start, end, lo, end, h, Len(D))
      BY <1>1
<1>3. Left(proof, rest, 0) BY LeftAll DEF Aligning
<1>4. 0 < Len(proof) /\ Head(rest) = proof[1] /\ Left(proof, Tail(rest), 1)
  <2>1. 0 + 1 = 1 OBVIOUS
  <2> QED BY <1>3, <2>1, LeftSome
<1>5. Rebuilt(D, start, end, proof, node, 1, proof[1], proof[1], lo, end)
  <2>1. Len(proof) \in Nat \ {0} BY <1>4, CallIs
  <2> QED BY <1>2, <2>1, CallIs, SeededWithProof
<1> QED BY <1>2, <1>4, <1>5 DEF Folding

\* The proof that subtree_proof makes.
LEMMA ProofIsSeq ==
  ASSUME NEW D, NEW start, NEW end, NEW proof, Called(D, start, end, proof)
  PROVE  /\ SubtreeProof(start, end, D) = Part(start, end, D, 0, Len(D))
         /\ SubtreeProof(start, end, D) \in Seq(Inners(D))
         /\ Len(SubtreeProof(start, end, D)) \in Nat
<1>1. SubtreeProof(start, end, D) = Part(start, end, D, 0, Len(D)) BY CallIs, ProofIsPart
<1>2. 0 \in 0..Len(D) /\ Len(D) \in 0..Len(D) /\ 0 < end BY CallIs
<1>3. Part(start, end, D, 0, Len(D)) \in Seq(Inners(D)) BY <1>2, CallIs, PartsAreSequences
<1> QED BY <1>1, <1>3, LenProperties

\* ... and a proof with no hash at all is not the tree's.
LEMMA NothingSeedsNothing ==
  ASSUME NEW D, NEW start, NEW end, NEW proof, Called(D, start, end, proof), NEW rest, NEW node,
         NEW fn, NEW sn, NEW tn, Aligning(D, start, end, proof, rest, fn, sn, tn),
         fn # sn, sn % 2 = 0, sn # tn, rest = << >>
  PROVE  ~Exact(D, start, end, proof, node)
<1>1. PICK lo \in 0..Len(D) : \E h :
        /\ Positions(start, end, Len(D), h, fn, sn, tn) /\ start < lo /\ lo < end
        /\ OnWay(end, lo, end, h, Len(D)) /\ Live(start, end, lo, end, h, Len(D))
      BY LastPart
<1>2. PICK h : OnWay(end, lo, end, h, Len(D)) /\ Live(start, end, lo, end, h, Len(D))
      BY <1>1
<1>3. Begins(Part(start, end, D, 0, Len(D)), Part(start, end, D, lo, end))
      BY <1>2, PartBegins DEF PartGoesOn
<1>4. Part(start, end, D, lo, end) = <<Mth(D, lo, end)>>
  <2>1. end \in 0..Len(D) /\ end <= end BY CallIs
  <2>2. PartSteps(start, end, D, lo, end) BY <1>1, <2>1, CallIs, PartStep
  <2> QED BY <1>1, <2>2 DEF PartSteps
<1>5. \A x : Len(<<x>>) = 1 OBVIOUS
<1>6. 1 <= Len(SubtreeProof(start, end, D)) BY <1>3, <1>4, <1>5, ProofIsSeq DEF Begins
<1>7. proof = << >> BY DEF Aligning
<1>8. Len(proof) = 0 BY <1>7
<1> QED BY <1>6, <1>8 DEF Exact

\* The next hash of the proof is joined from the right, ...
LEMMA FoldJoinsRight ==
  ASSUME NEW D, NEW start, NEW end, NEW proof, Called(D, start, end, proof), NEW rest, NEW node,
         NEW fn, NEW sn, NEW tn, NEW fr, NEW sr,
         Folding(D, start, end, proof, node, rest, fn, sn, tn, fr, sr),
         rest # << >>, sn % 2 = 0, sn # tn
  PROVE  Folding(D, start, end, proof, node, Tail(rest), fn \div 2, sn \div 2, tn \div 2,
                 fr, NodeHash(sr, Head(rest)))
<1>1. PICK lo, hi, h, c :
        /\ Positions(start, end, Len(D), h, fn, sn, tn)
        /\ OnWay(end, lo, hi, h, Len(D)) /\ Live(start, end, lo, hi, h, Len(D))
        /\ Left(proof, rest, c)
        /\ Rebuilt(D, start, end, proof, node, c, fr, sr, lo, hi)
      BY DEF Folding
<1>2. ((end - 1) \div 2^h) % 2 = 0 /\ (end - 1) \div 2^h # (Len(D) - 1) \div 2^h
      BY <1>1 DEF Positions
<1>3. PICK top \in 0..Len(D) :
        OnWay(end, lo, top, h + 1, Len(D)) /\ hi < top /\ lo + Split(top - lo) = hi
      BY <1>1, <1>2, LeftParent
<1>4. /\ c \in Nat /\ c < Len(proof) /\ Head(rest) = proof[c + 1]
      /\ Left(proof, Tail(rest), c + 1)
      BY <1>1, LeftSome
<1>5. Live(start, end, lo, top, h + 1, Len(D)) BY <1>1, <1>3, CallIs, LiveAbove
<1>6. Rebuilt(D, start, end, proof, node, c + 1, fr, NodeHash(sr, Head(rest)), lo, top)
      BY <1>1, <1>3, <1>4, JoinedRight
<1>7. Positions(start, end, Len(D), h + 1, fn \div 2, sn \div 2, tn \div 2)
  <2>1. h \in Nat BY <1>1 DEF OnWay, IsPlace
  <2> QED BY <1>1, <2>1, CallIs, PositionsRise
<1> QED BY <1>3, <1>4, <1>5, <1>6, <1>7 DEF Folding

\* ... or from the left, ...
LEMMA FoldJoinsLeft ==
  ASSUME NEW D, NEW start, NEW end, NEW proof, Called(D, start, end, proof), NEW rest, NEW node,
         NEW fn, NEW sn, NEW tn, NEW fr, NEW sr,
         Folding(D, start, end, proof, node, rest, fn, sn, tn, fr, sr),
         rest # << >>, tn # 0, sn % 2 = 1 \/ sn = tn
  PROVE  Stripping(D, start, end, proof, node, Tail(rest), fn, sn, tn,
                   IF fn < sn THEN NodeHash(Head(rest), fr) ELSE fr, NodeHash(Head(rest), sr))
<1>1. PICK lo, hi, h, c :
        /\ Positions(start, end, Len(D), h, fn, sn, tn)
        /\ OnWay(end, lo, hi, h, Len(D)) /\ Live(start, end, lo, hi, h, Len(D))
        /\ Left(proof, rest, c)
        /\ Rebuilt(D, start, end, proof, node, c, fr, sr, lo, hi)
      BY DEF Folding
<1>2. /\ (Len(D) - 1) \div 2^h # 0
      /\ ((end - 1) \div 2^h) % 2 = 1 \/ (end - 1) \div 2^h = (Len(D) - 1) \div 2^h
      BY <1>1 DEF Positions
<1>3. PICK low \in 0..Len(D), z \in Nat, o \in Nat :
        /\ OnWay(end, low, hi, h + z + 1, Len(D)) /\ low < lo /\ low + Split(hi - low) = lo
        /\ lo = low + 2^(h + z)
        /\ o % 2 = 1 /\ (end - 1) \div 2^h = o * 2^z
      BY <1>1, <1>2, RightParent, SMTT(30)
<1>4. h \in Nat /\ h + z \in Nat /\ h + z + 1 = (h + z) + 1
  <2>1. h \in Nat BY <1>1 DEF OnWay, IsPlace
  <2> QED BY <2>1
<1>5. /\ c \in Nat /\ c < Len(proof) /\ Head(rest) = proof[c + 1]
      /\ Left(proof, Tail(rest), c + 1)
      BY <1>1, LeftSome
<1>6. ~Ends(start, end, low, hi) /\ Live(start, end, low, hi, h + z + 1, Len(D))
      BY <1>1, <1>2, <1>3, CallIs, LiveAbove
<1>7. fn < sn <=> start < lo
  <2>1. (end - 1) \div 2^h \in Nat /\ lo = ((end - 1) \div 2^h) * 2^h BY <1>1, WayPosition
  <2> QED BY <1>1, <1>4, <2>1, CallIs, BeforePlace DEF Positions
<1> DEFINE up == IF fn < sn THEN NodeHash(Head(rest), fr) ELSE fr
<1>8. Rebuilt(D, start, end, proof, node, c + 1, up, NodeHash(Head(rest), sr), low, hi)
  <2> DEFINE e == h + z
             g == h + z + 1
  <2>1. e \in Nat /\ g = e + 1 /\ lo = low + 2^e BY <1>3, <1>4
  <2>2. OnWay(end, low, hi, g, Len(D)) BY <1>3
  <2> HIDE DEF e, g
  <2>3. Rebuilt(D, start, end, proof, node, c + 1,
                IF start < lo THEN NodeHash(proof[c + 1], fr) ELSE fr,
                NodeHash(proof[c + 1], sr), low, hi)
        BY <1>1, <1>3, <1>5, <1>6, <2>1, <2>2, JoinedLeft
  <2>4. up = IF start < lo THEN NodeHash(proof[c + 1], fr) ELSE fr BY <1>5, <1>7
  <2> QED BY <1>5, <2>3, <2>4
<1>9. sn = o * 2^z BY <1>1, <1>3 DEF Positions
<1> HIDE DEF up
<1>10. Stripping(D, start, end, proof, node, Tail(rest), fn, sn, tn, up, NodeHash(Head(rest), sr))
       BY <1>1, <1>3, <1>4, <1>5, <1>6, <1>8, <1>9 DEF Stripping
<1> QED BY <1>10 DEF up

\* ... and then the levels at which nothing is joined are passed over.
LEMMA StripGoesOn ==
  ASSUME NEW D, NEW start, NEW end, NEW proof, Called(D, start, end, proof), NEW rest, NEW node,
         NEW fn, NEW sn, NEW tn, NEW fr, NEW sr,
         Stripping(D, start, end, proof, node, rest, fn, sn, tn, fr, sr)
  PROVE  /\ sn % 2 = 1 => Folding(D, start, end, proof, node, rest,
                                  fn \div 2, sn \div 2, tn \div 2, fr, sr)
         /\ sn % 2 # 1 => Stripping(D, start, end, proof, node, rest,
                                    fn \div 2, sn \div 2, tn \div 2, fr, sr)
<1>0. PICK lo, hi, h, c : \E l \in Nat, y \in Nat, o \in Nat :
        /\ Positions(start, end, Len(D), l, fn, sn, tn)
        /\ h = l + y + 1 /\ o % 2 = 1 /\ sn = o * 2^y
        /\ OnWay(end, lo, hi, h, Len(D)) /\ Live(start, end, lo, hi, h, Len(D))
        /\ Left(proof, rest, c)
        /\ Rebuilt(D, start, end, proof, node, c, fr, sr, lo, hi)
      BY Zenon DEF Stripping
<1>1. PICK l \in Nat, y \in Nat, o \in Nat :
        /\ Positions(start, end, Len(D), l, fn, sn, tn)
        /\ h = l + y + 1 /\ o % 2 = 1 /\ sn = o * 2^y
        /\ OnWay(end, lo, hi, h, Len(D)) /\ Live(start, end, lo, hi, h, Len(D))
        /\ Left(proof, rest, c)
        /\ Rebuilt(D, start, end, proof, node, c, fr, sr, lo, hi)
      BY <1>0
<1>2. Positions(start, end, Len(D), l + 1, fn \div 2, sn \div 2, tn \div 2)
      BY <1>1, CallIs, PositionsRise
<1>3. CASE y = 0
  <2>1. h = l + 1 BY <1>1, <1>3
  <2>2. sn % 2 = 1
    <3>1. 2^0 = 1 OBVIOUS
    <3>2. sn = o BY <1>1, <1>3, <3>1
    <3> QED BY <1>1, <3>2
  <2>3. Positions(start, end, Len(D), h, fn \div 2, sn \div 2, tn \div 2) BY <1>2, <2>1
  <2> QED BY <1>1, <2>2, <2>3 DEF Folding
<1>4. CASE y # 0
  <2>1. PICK x \in Nat : y = x + 1
    <3>1. y - 1 \in Nat /\ y = (y - 1) + 1 BY <1>4
    <3> QED BY <3>1
  <2>2. 2^y = 2^x + 2^x /\ 2^x \in Nat BY <2>1, Powers
  <2> DEFINE d == 2^x
  <2>3. d \in Nat /\ sn = o * (d + d) BY <1>1, <2>2
  <2>4. l + 1 \in Nat /\ h = (l + 1) + x + 1 BY <1>1, <2>1
  <2> HIDE DEF d
  <2>5. sn % 2 = 0 /\ sn \div 2 = o * d
    <3> DEFINE m == o * d
    <3>1. m \in Nat /\ sn = m + m BY <2>3
    <3> HIDE DEF m
    <3>2. sn % 2 = 0 /\ sn \div 2 = m BY <3>1
    <3> QED BY <3>2 DEF m
  <2>6. sn \div 2 = o * 2^x BY <2>5 DEF d
  <2>7. Stripping(D, start, end, proof, node, rest, fn \div 2, sn \div 2, tn \div 2, fr, sr)
        BY <1>1, <1>2, <2>4, <2>6 DEF Stripping
  <2> QED BY <2>5, <2>7
<1> QED BY <1>3, <1>4

\* Where the proof is used up, the verdict is exact, ...
LEMMA FoldFinishes ==
  ASSUME NEW D, NEW start, NEW end, NEW proof, Called(D, start, end, proof), NEW node,
         \E S : proof \in Seq(S),
         NEW fn, NEW sn, NEW tn, NEW fr, NEW sr,
         Folding(D, start, end, proof, node, << >>, fn, sn, tn, fr, sr)
  PROVE  tn = 0 /\ fr = node /\ sr = Mth(D, 0, Len(D)) <=> Exact(D, start, end, proof, node)
<1>1. PICK lo, hi, h, c :
        /\ Positions(start, end, Len(D), h, fn, sn, tn)
        /\ OnWay(end, lo, hi, h, Len(D)) /\ Live(start, end, lo, hi, h, Len(D))
        /\ Left(proof, << >>, c)
        /\ Rebuilt(D, start, end, proof, node, c, fr, sr, lo, hi)
      BY DEF Folding
<1> DEFINE q == Part(start, end, D, lo, hi)
           P == SubtreeProof(start, end, D)
<1>2. Len(proof) = c /\ Len(q) = c BY <1>1, LeftNone DEF Rebuilt
<1>3. P = Part(start, end, D, 0, Len(D)) /\ P \in Seq(Inners(D)) /\ Len(P) \in Nat
      BY ProofIsSeq
<1>4. tn = 0 => lo = 0 /\ hi = Len(D) /\ q = P
  <2>1. tn = (Len(D) - 1) \div 2^h BY <1>1 DEF Positions
  <2>2. tn = 0 => lo = 0 /\ hi = Len(D) BY <1>1, <2>1, TopOfWay
  <2> QED BY <1>3, <2>2
<1>5. Begins(P, q) /\ (tn # 0 => Len(q) < Len(P))
  <2>1. PartGoesOn(D, start, end, lo, hi, h) BY <1>1, PartBegins
  <2> QED BY <1>1, <1>3, <2>1 DEF PartGoesOn, Positions
<1>6. tn = 0 /\ Begins(proof, P) => proof = P
  <2>1. SUFFICES ASSUME tn = 0, Begins(proof, P) PROVE proof = P OBVIOUS
  <2>2. Len(proof) = Len(P) BY <1>2, <1>4, <2>1
  <2>3. PICK S : proof \in Seq(S) OBVIOUS
  <2> HIDE DEF P, q
  <2>4. \A i \in 1..Len(proof) : proof[i] = P[i] BY <2>1, <2>2 DEF Begins
  <2> DEFINE U == S \cup Inners(D)
  <2>5. proof \in Seq(U) /\ P \in Seq(U)
    <3>1. S \subseteq U /\ Inners(D) \subseteq U OBVIOUS
    <3> HIDE DEF U
    <3> QED BY <1>3, <2>3, <3>1, SeqMonotonic
  <2> HIDE DEF U
  <2> QED BY <2>2, <2>4, <2>5, SeqEqual
<1>7. ~(0 > start) /\ (start = 0 \/ ~(start < 0)) BY CallIs
<1>8. Later(0, start) = start BY <1>7 DEF Later
<1>9. /\ sr = Mth(D, lo, hi) => Begins(proof, q) /\ fr = Mth(D, Later(lo, start), end)
      /\ Begins(proof, q) /\ node = Mth(D, start, end) => sr = Mth(D, lo, hi)
      BY <1>1 DEF Rebuilt
<1> HIDE DEF q, P
<1>10. ASSUME tn = 0, fr = node, sr = Mth(D, 0, Len(D))
       PROVE  Exact(D, start, end, proof, node)
  <2>1. proof = P BY <1>4, <1>6, <1>9, <1>10
  <2>2. node = Mth(D, start, end) BY <1>4, <1>8, <1>9, <1>10
  <2> QED BY <2>1, <2>2, CallIs DEF Exact, P
<1>11. ASSUME Exact(D, start, end, proof, node)
       PROVE  tn = 0 /\ fr = node /\ sr = Mth(D, 0, Len(D))
  <2>1. proof = P /\ node = Mth(D, start, end) BY <1>11 DEF Exact, P
  <2>2. tn = 0 BY <1>2, <1>3, <1>5, <2>1
  <2>3. sr = Mth(D, lo, hi) BY <1>5, <1>9, <2>1
  <2> QED BY <1>4, <1>8, <1>9, <2>1, <2>2, <2>3
<1> QED BY <1>10, <1>11 DEF P

\* A proof used up at the root has the length of the tree's, whatever root it was given.
LEMMA FoldLength ==
  ASSUME NEW D, NEW start, NEW end, NEW proof, Called(D, start, end, proof), NEW node,
         NEW fn, NEW sn, NEW tn, NEW fr, NEW sr,
         Folding(D, start, end, proof, node, << >>, fn, sn, tn, fr, sr), tn = 0
  PROVE  Len(proof) = Len(SubtreeProof(start, end, D))
<1>1. PICK lo, hi, h, c :
        /\ Positions(start, end, Len(D), h, fn, sn, tn)
        /\ OnWay(end, lo, hi, h, Len(D))
        /\ Left(proof, << >>, c)
        /\ Rebuilt(D, start, end, proof, node, c, fr, sr, lo, hi)
      BY DEF Folding
<1>2. lo = 0 /\ hi = Len(D)
  <2>1. (Len(D) - 1) \div 2^h = 0 BY <1>1 DEF Positions
  <2> QED BY <1>1, <2>1, TopOfWay
<1>3. Len(SubtreeProof(start, end, D)) = c BY <1>1, <1>2, ProofIsSeq DEF Rebuilt
<1>4. Len(proof) = c BY <1>1, LeftNone
<1> QED BY <1>3, <1>4

\* ... and where it is not, at the root, it is not the tree's.
LEMMA FoldTooLong ==
  ASSUME NEW D, NEW start, NEW end, NEW proof, Called(D, start, end, proof), NEW rest, NEW node,
         NEW fn, NEW sn, NEW tn, NEW fr, NEW sr,
         Folding(D, start, end, proof, node, rest, fn, sn, tn, fr, sr),
         rest # << >>, tn = 0
  PROVE  ~Exact(D, start, end, proof, node)
<1>1. PICK lo, hi, h, c :
        /\ Positions(start, end, Len(D), h, fn, sn, tn)
        /\ OnWay(end, lo, hi, h, Len(D))
        /\ Left(proof, rest, c)
        /\ Rebuilt(D, start, end, proof, node, c, fr, sr, lo, hi)
      BY DEF Folding
<1>2. lo = 0 /\ hi = Len(D)
  <2>1. (Len(D) - 1) \div 2^h = 0 BY <1>1 DEF Positions
  <2> QED BY <1>1, <2>1, TopOfWay
<1>3. Len(SubtreeProof(start, end, D)) = c BY <1>1, <1>2, ProofIsSeq DEF Rebuilt
<1>4. c < Len(proof) BY <1>1, LeftSome
<1>5. c \in Nat BY <1>1 DEF Left
<1> QED BY <1>3, <1>4, <1>5 DEF Exact

-----------------------------------------------------------------------------

\* The log of n distinct leaves.
LEMMA LogIs ==
  ASSUME NEW size \in Nat
  PROVE  /\ Len(Log(size)) = size
         /\ \A i \in 1..size : Log(size)[i] = LeafHash(i - 1)
         /\ LeavesOf(Log(size), [i \in 1..size |-> i - 1], size)
<1>1. Log(size) \in Seq({LeafHash(i - 1) : i \in 1..size})
  <2> DEFINE T == {LeafHash(i - 1) : i \in 1..size}
  <2>1. \A i \in 1..size : LeafHash(i - 1) \in T OBVIOUS
  <2> HIDE DEF T
  <2>2. Log(size) \in [1..size -> T] BY <2>1 DEF Log
  <2>3. Log(size) \in Seq(T) BY <2>2
  <2> QED BY <2>3 DEF T
<1>2. DOMAIN Log(size) = 1..size BY DEF Log
<1>3. Len(Log(size)) = size BY <1>1, <1>2, LenProperties
<1>4. \A i \in 1..size : Log(size)[i] = LeafHash(i - 1) BY DEF Log
<1> QED BY <1>3, <1>4 DEF LeavesOf

\* A log is the beginning of a longer one.
LEMMA SameRanges ==
  ASSUME NEW size \in Nat, NEW lo \in 0..size, NEW hi \in 0..size, lo < hi
  PROVE  Mth(Log(size), lo, hi) = Mth(Log(size + 1), lo, hi)
<1>1. size + 1 \in Nat OBVIOUS
<1>2. SameLeaves(Log(size), Log(size + 1), lo, hi)
  <2>1. ASSUME NEW i \in (lo + 1)..hi PROVE Log(size)[i] = Log(size + 1)[i]
    <3>1. i \in 1..size /\ i \in 1..(size + 1) OBVIOUS
    <3> QED BY <1>1, <3>1, LogIs
  <2> QED BY <2>1 DEF SameLeaves
<1>3. lo \in Nat /\ hi \in Nat /\ lo <= hi OBVIOUS
<1> QED BY <1>2, <1>3, MthSame

\* No leaf hash is a node hash.
LEMMA LeafIsNoNode ==
  ASSUME NEW d, NEW l, NEW r
  PROVE  LeafHash(d) # NodeHash(l, r)
BY DEF LeafHash, NodeHash

\* In a log of distinct leaves, different ranges have different hashes.
LEMMA RangesDiffer ==
  ASSUME NEW size \in Nat,
         NEW lo \in 0..size, NEW hi \in 0..size, lo < hi,
         NEW a \in 0..size, NEW b \in 0..size, a < b,
         Mth(Log(size), lo, hi) = Mth(Log(size), a, b)
  PROVE  lo = a /\ hi = b
<1> DEFINE M(i, j) == Mth(Log(size), i, j)
           Bad(i, j) == /\ i < j
                        /\ \E x, y \in 0..size : x < y /\ M(i, j) = M(x, y) /\ ~(i = x /\ j = y)
           T == {w \in Nat : \E i, j \in 0..size : j - i = w /\ Bad(i, j)}
<1>1. SUFFICES ASSUME Bad(lo, hi) PROVE FALSE
      OBVIOUS
<1>2. PICK w \in T : \A v \in T : w <= v
  <2>1. hi - lo \in Nat OBVIOUS
  <2>2. T # {}
    <3> HIDE DEF Bad
    <3> QED BY <1>1, <2>1
  <2>3. T \in SUBSET Nat OBVIOUS
  <2> HIDE DEF T
  <2> QED BY <2>2, <2>3, Least
<1>3. PICK i \in 0..size, j \in 0..size : j - i = w /\ Bad(i, j) BY <1>2
<1>4. PICK x \in 0..size, y \in 0..size : x < y /\ M(i, j) = M(x, y) /\ ~(i = x /\ j = y)
      BY <1>3
<1>5. i < j /\ w \in Nat BY <1>3
<1>6. ASSUME NEW p \in 0..size, NEW q \in 0..size, q - p = 1
      PROVE  M(p, q) = LeafHash(q - 1)
  <2>1. M(p, q) = Log(size)[q]
    <3>1. p \in Nat /\ q \in Nat OBVIOUS
    <3> QED BY <1>6, <3>1, MthOfOne
  <2>2. q \in 1..size BY <1>6
  <2> QED BY <2>1, <2>2, LogIs
<1>7. ASSUME NEW p \in 0..size, NEW q \in 0..size, q - p >= 2
      PROVE  \E k \in 0..size : p < k /\ k < q /\ M(p, q) = NodeHash(M(p, k), M(k, q))
  <2>1. p \in Nat /\ q \in Nat OBVIOUS
  <2>2. PICK k \in Nat : /\ p < k /\ k < q
                         /\ \A D : Mth(D, p, q) = NodeHash(Mth(D, p, k), Mth(D, k, q))
        BY <1>7, <2>1, MthOfMore
  <2>3. k \in 0..size BY <2>2
  <2> QED BY <2>2, <2>3
<1>8. CASE j - i = 1 /\ y - x = 1
  <2>1. LeafHash(j - 1) = LeafHash(y - 1) BY <1>4, <1>6, <1>8
  <2>2. j - 1 = y - 1 BY <2>1 DEF LeafHash
  <2> QED BY <1>4, <1>8, <2>2
<1>9. CASE j - i = 1 /\ y - x # 1
  <2>1. y - x >= 2 BY <1>4, <1>9
  <2> QED BY <1>4, <1>6, <1>7, <1>9, <2>1, LeafIsNoNode
<1>10. CASE j - i # 1 /\ y - x = 1
  <2>1. j - i >= 2 BY <1>5, <1>10
  <2> QED BY <1>4, <1>6, <1>7, <1>10, <2>1, LeafIsNoNode
<1>11. CASE j - i # 1 /\ y - x # 1
  <2>1. j - i >= 2 /\ y - x >= 2 BY <1>4, <1>5, <1>11
  <2>2. PICK k \in 0..size : i < k /\ k < j /\ M(i, j) = NodeHash(M(i, k), M(k, j)) BY <1>7, <2>1
  <2>3. PICK z \in 0..size : x < z /\ z < y /\ M(x, y) = NodeHash(M(x, z), M(z, y)) BY <1>7, <2>1
  <2>4. M(i, k) = M(x, z) /\ M(k, j) = M(z, y)
    <3>1. NodeHash(M(i, k), M(k, j)) = NodeHash(M(x, z), M(z, y)) BY <1>4, <2>2, <2>3
    <3>2. \A c, d, e, f : NodeHash(c, d) = NodeHash(e, f) => c = e /\ d = f
          BY NodeHashInjective
    <3> QED BY <3>1, <3>2
  <2>5. k - i \in Nat /\ k - i < w /\ j - k \in Nat /\ j - k < w BY <1>3, <1>5, <2>2
  <2>6. k - i \notin T /\ j - k \notin T
    <3> HIDE DEF T
    <3> QED BY <1>2, <1>5, <2>5
  <2>7. ~Bad(i, k) /\ ~Bad(k, j)
    <3> HIDE DEF Bad
    <3> QED BY <2>5, <2>6
  <2> QED BY <1>4, <2>2, <2>3, <2>4, <2>7
<1>12. \/ j - i = 1 /\ y - x = 1
       \/ j - i = 1 /\ y - x # 1
       \/ j - i # 1 /\ y - x = 1
       \/ j - i # 1 /\ y - x # 1
       OBVIOUS
<1> QED BY <1>8, <1>9, <1>10, <1>11, <1>12

\* A hash that commits to the leaf after those of a log, in the log of one leaf more.
EndHash(x, size) == \E a \in 0..size : x = Mth(Log(size + 1), a, size + 1)

\* No range of the log has such a hash, ...
LEMMA InnersEndEarlier ==
  ASSUME NEW size \in Nat, NEW x \in Inners(Log(size))
  PROVE  ~EndHash(x, size)
<1>1. PICK p \in Spans(size) : x = Mth(Log(size), p[1], p[2])
      BY LogIs DEF Inners
<1>2. PICK lo \in 0..size, hi \in 0..size : lo < hi /\ x = Mth(Log(size), lo, hi)
      BY <1>1 DEF Spans
<1>3. x = Mth(Log(size + 1), lo, hi) BY <1>2, SameRanges
<1>4. ASSUME NEW a \in 0..size, x = Mth(Log(size + 1), a, size + 1) PROVE FALSE
  <2>1. /\ size + 1 \in Nat /\ lo \in 0..(size + 1) /\ hi \in 0..(size + 1)
        /\ a \in 0..(size + 1) /\ size + 1 \in 0..(size + 1) /\ a < size + 1
        OBVIOUS
  <2>2. hi = size + 1 BY <1>2, <1>3, <1>4, <2>1, RangesDiffer
  <2> QED BY <2>2
<1> QED BY <1>4 DEF EndHash

\* ... and the hash of the later leaf is one.
LEMMA LastLeaf ==
  ASSUME NEW size \in Nat
  PROVE  LeafHash(size) = Mth(Log(size + 1), size, size + 1)
<1>1. (size + 1) - size = 1 /\ size + 1 \in Nat /\ size + 1 \in 1..(size + 1) /\ size + 1 - 1 = size
      OBVIOUS
<1>2. Mth(Log(size + 1), size, size + 1) = Log(size + 1)[size + 1] BY <1>1, MthOfOne
<1>3. Log(size + 1)[size + 1] = LeafHash(size)
  <2> DEFINE m == size + 1
  <2>1. m \in Nat /\ m \in 1..m /\ m - 1 = size OBVIOUS
  <2> HIDE DEF m
  <2>2. Log(m)[m] = LeafHash(m - 1) BY <2>1, LogIs
  <2> QED BY <2>1, <2>2 DEF m
<1> QED BY <1>1, <1>2, <1>3

\* The two parts of such a hash.
LEMMA EndHashParts ==
  ASSUME NEW size \in Nat, NEW l, NEW r, EndHash(NodeHash(l, r), size)
  PROVE  /\ EndHash(r, size)
         /\ r = LeafHash(size) => \E a \in 0..size : a < size /\ l = Mth(Log(size + 1), a, size)
<1>1. PICK a \in 0..size : NodeHash(l, r) = Mth(Log(size + 1), a, size + 1) BY DEF EndHash
<1>2. a # size BY <1>1, LastLeaf, LeafIsNoNode
<1>3. a \in Nat /\ size + 1 \in Nat /\ (size + 1) - a >= 2 BY <1>2
<1>4. PICK k \in Nat :
        /\ a < k /\ k < size + 1
        /\ \A D : Mth(D, a, size + 1) = NodeHash(Mth(D, a, k), Mth(D, k, size + 1))
      BY <1>3, MthOfMore
<1>5. l = Mth(Log(size + 1), a, k) /\ r = Mth(Log(size + 1), k, size + 1)
      BY <1>1, <1>4, NodeHashInjective
<1>6. k \in 0..size BY <1>4
<1>7. r = LeafHash(size) => k = size
  <2>1. SUFFICES ASSUME r = LeafHash(size) PROVE k = size OBVIOUS
  <2>2. Mth(Log(size + 1), k, size + 1) = Mth(Log(size + 1), size, size + 1)
        BY <1>5, <2>1, LastLeaf
  <2>3. /\ k \in 0..(size + 1) /\ size + 1 \in 0..(size + 1) /\ size \in 0..(size + 1)
        /\ k < size + 1 /\ size < size + 1
        BY <1>6
  <2> QED BY <1>3, <2>2, <2>3, RangesDiffer
<1>8. EndHash(r, size) BY <1>5, <1>6 DEF EndHash
<1> QED BY <1>2, <1>4, <1>5, <1>6, <1>7, <1>8

-----------------------------------------------------------------------------

\* A proof one mistake away from P, of its length: its hashes are the log's own, but
\* for one that may be a later leaf's.
Near(proof, P, size) ==
  \A j \in 1..Len(P) :
    \/ proof[j] \in Inners(Log(size))
    \/ proof[j] = LeafHash(size) /\ \A i \in 1..(j - 1) : proof[i] = P[i]

\* A hash removed or inserted changes the length; a hash replaced is one mistake.
LEMMA RemovedIsShorter ==
  ASSUME NEW S, NEW p \in Seq(S), NEW i \in 1..Len(p)
  PROVE  RemoveAt(p, i) \in Seq(S) /\ Len(RemoveAt(p, i)) # Len(p)
<1> DEFINE a == SubSeq(p, 1, i - 1)
           b == SubSeq(p, i + 1, Len(p))
<1>1. Len(p) \in Nat /\ \A j \in 1..Len(p) : p[j] \in S BY LenProperties, ElementOfSeq
<1>2. 1 \in Int /\ i - 1 \in Int /\ i + 1 \in Int /\ Len(p) \in Int BY <1>1
<1>3. (\A j \in 1..(i - 1) : p[j] \in S) /\ (\A j \in (i + 1)..Len(p) : p[j] \in S)
  <2>1. \A j \in 1..(i - 1) : j \in 1..Len(p) BY <1>1
  <2>2. \A j \in (i + 1)..Len(p) : j \in 1..Len(p) BY <1>1
  <2> QED BY <1>1, <2>1, <2>2
<1>4. a \in Seq(S) /\ Len(a) = (IF 1 <= i - 1 THEN i - 1 - 1 + 1 ELSE 0)
      BY <1>2, <1>3, SubSeqProperties
<1>5. b \in Seq(S) /\ Len(b) = (IF i + 1 <= Len(p) THEN Len(p) - (i + 1) + 1 ELSE 0)
      BY <1>2, <1>3, SubSeqProperties
<1>0. Len(a) = i - 1 /\ Len(b) = Len(p) - i BY <1>1, <1>4, <1>5
<1> HIDE DEF a, b
<1>6. a \o b \in Seq(S) /\ Len(a \o b) = Len(a) + Len(b) BY <1>4, <1>5, ConcatProperties
<1>7. Len(a) + Len(b) # Len(p) BY <1>0, <1>1
<1> QED BY <1>6, <1>7 DEF RemoveAt, a, b

LEMMA InsertedIsLonger ==
  ASSUME NEW S, NEW p \in Seq(S), NEW i \in 1..(Len(p) + 1), NEW h \in S
  PROVE  InsertAt(p, i, h) \in Seq(S) /\ Len(InsertAt(p, i, h)) # Len(p)
<1> DEFINE a == SubSeq(p, 1, i - 1)
           b == SubSeq(p, i, Len(p))
           m == <<h>>
<1>1. Len(p) \in Nat /\ \A j \in 1..Len(p) : p[j] \in S BY LenProperties, ElementOfSeq
<1>2. 1 \in Int /\ i - 1 \in Int /\ i \in Int /\ Len(p) \in Int BY <1>1
<1>3. (\A j \in 1..(i - 1) : p[j] \in S) /\ (\A j \in i..Len(p) : p[j] \in S)
  <2>1. \A j \in 1..(i - 1) : j \in 1..Len(p) BY <1>1
  <2>2. \A j \in i..Len(p) : j \in 1..Len(p) BY <1>1
  <2> QED BY <1>1, <2>1, <2>2
<1>4. a \in Seq(S) /\ Len(a) = (IF 1 <= i - 1 THEN i - 1 - 1 + 1 ELSE 0)
      BY <1>2, <1>3, SubSeqProperties
<1>5. b \in Seq(S) /\ Len(b) = (IF i <= Len(p) THEN Len(p) - i + 1 ELSE 0)
      BY <1>2, <1>3, SubSeqProperties
<1>0. Len(a) = i - 1 /\ Len(b) = Len(p) - i + 1 BY <1>1, <1>4, <1>5
<1>6. m \in Seq(S) /\ Len(m) = 1 OBVIOUS
<1>10. a \in Seq(S) /\ b \in Seq(S) BY <1>4, <1>5
<1>11. \A s, t \in Seq(S) : s \o t \in Seq(S) /\ Len(s \o t) = Len(s) + Len(t)
      BY ConcatProperties
<1> HIDE DEF a, b, m
<1>7. a \o m \in Seq(S) /\ Len(a \o m) = Len(a) + 1
  <2>1. a \o m \in Seq(S) /\ Len(a \o m) = Len(a) + Len(m) BY <1>6, <1>10, <1>11, Zenon
  <2> QED BY <1>6, <2>1
<1>8. (a \o m) \o b \in Seq(S) /\ Len((a \o m) \o b) = Len(a) + 1 + Len(b)
      BY <1>7, <1>10, <1>11
<1>9. Len(a) + 1 + Len(b) # Len(p) BY <1>0, <1>1
<1> QED BY <1>8, <1>9 DEF InsertAt, a, b, m

\* What the altered proofs are.
LEMMA AlteredIsNear ==
  ASSUME NEW size \in Nat, NEW S, S = Inners(Log(size)) \cup {LeafHash(size)},
         NEW p \in Seq(Inners(Log(size))),
         NEW H, H \in SUBSET S, NEW q \in Altered(p, H)
  PROVE  q \in Seq(S) /\ (Len(q) = Len(p) => Near(q, p, size))
<1>1. /\ p \in Seq(S) /\ Len(p) \in Nat /\ DOMAIN p = 1..Len(p)
      /\ \A j \in 1..Len(p) : p[j] \in Inners(Log(size))
  <2>1. Inners(Log(size)) \subseteq S OBVIOUS
  <2> QED BY <2>1, SeqMonotonic, LenProperties, ElementOfSeq
<1>2. ASSUME NEW i \in 1..Len(p), q = RemoveAt(p, i) PROVE q \in Seq(S) /\ Len(q) # Len(p)
      BY <1>1, <1>2, RemovedIsShorter
<1>3. ASSUME NEW i \in 1..(Len(p) + 1), NEW h \in H, q = InsertAt(p, i, h)
      PROVE  q \in Seq(S) /\ Len(q) # Len(p)
  <2>1. h \in S OBVIOUS
  <2> QED BY <1>1, <1>3, <2>1, InsertedIsLonger
<1>4. ASSUME NEW i \in 1..Len(p), NEW h \in H, q = ReplaceAt(p, i, h)
      PROVE  q \in Seq(S) /\ Near(q, p, size)
  <2>1. h \in S /\ q = [p EXCEPT ![i] = h] BY <1>4 DEF ReplaceAt
  <2>2. q \in Seq(S) /\ \A j \in 1..Len(p) : q[j] = IF j = i THEN h ELSE p[j]
        BY <1>1, <2>1, ExceptSeq
  <2>3. ASSUME NEW j \in 1..Len(p)
        PROVE  \/ q[j] \in Inners(Log(size))
               \/ q[j] = LeafHash(size) /\ \A l \in 1..(j - 1) : q[l] = p[l]
    <3>1. CASE j # i BY <1>1, <2>2, <3>1
    <3>2. CASE j = i
      <4>1. ASSUME NEW l \in 1..(j - 1) PROVE q[l] = p[l]
        <5>1. l \in 1..Len(p) /\ l # i BY <1>1, <3>2
        <5> QED BY <2>2, <5>1
      <4>2. q[j] = h BY <2>2, <3>2
      <4> QED BY <2>1, <4>1, <4>2
    <3> QED BY <3>1, <3>2
  <2> QED BY <2>2, <2>3 DEF Near
<1>5. ASSUME NEW i \in 1..(Len(p) - 1), q = [p EXCEPT ![i] = p[i + 1], ![i + 1] = p[i]]
      PROVE  q \in Seq(S) /\ Near(q, p, size)
  <2>1. i \in 1..Len(p) /\ i + 1 \in 1..Len(p) BY <1>1
  <2> DEFINE r == [p EXCEPT ![i] = p[i + 1]]
  <2>2. q = [r EXCEPT ![i + 1] = p[i]] BY <1>5
  <2>3. p[i] \in Inners(Log(size)) /\ p[i + 1] \in Inners(Log(size)) BY <1>1, <2>1
  <2>4. r \in Seq(Inners(Log(size))) /\ Len(r) = Len(p) BY <2>1, <2>3, ExceptSeq
  <2> HIDE DEF r
  <2>5. q \in Seq(Inners(Log(size))) /\ Len(q) = Len(p) BY <2>1, <2>2, <2>3, <2>4, ExceptSeq
  <2>6. \A j \in 1..Len(p) : q[j] \in Inners(Log(size)) BY <2>5, ElementOfSeq
  <2>7. q \in Seq(S)
    <3>1. Inners(Log(size)) \subseteq S OBVIOUS
    <3> QED BY <2>5, <3>1, SeqMonotonic
  <2> QED BY <2>6, <2>7 DEF Near
<1>6. CASE q \in {RemoveAt(p, i) : i \in DOMAIN p} BY <1>1, <1>2, <1>6
<1>7. CASE q \in {InsertAt(p, i, h) : i \in 1..(Len(p) + 1), h \in H} BY <1>3, <1>7
<1>8. CASE q \in {ReplaceAt(p, i, h) : i \in DOMAIN p, h \in H} BY <1>1, <1>4, <1>8
<1>9. CASE q \in {[p EXCEPT ![i] = p[i + 1], ![i + 1] = p[i]] : i \in 1..(Len(p) - 1)}
      BY <1>5, <1>9
<1> QED BY <1>6, <1>7, <1>8, <1>9 DEF Altered

-----------------------------------------------------------------------------

\* The audit path of a leaf is the proof for the subtree of that leaf alone, in
\* every slice that holds it.
LEMMA PathIsPart ==
  ASSUME NEW D, Len(D) \in Nat, NEW index \in Nat, NEW w, Paths(D, index, w),
         NEW lo \in 0..Len(D), NEW hi \in 0..Len(D), lo <= index, index < hi
  PROVE  w[<<lo, hi>>] = Part(index, index + 1, D, lo, hi)
<1> DEFINE part(i, j) == Part(index, index + 1, D, i, j)
           Bad(i, j) == i <= index /\ index < j /\ w[<<i, j>>] # part(i, j)
           T == {m \in Nat : \E i, j \in 0..Len(D) : j - i = m /\ Bad(i, j)}
<1>1. SUFFICES ASSUME Bad(lo, hi) PROVE FALSE
      OBVIOUS
<1>2. PICK m \in T : \A v \in T : m <= v
  <2>1. hi - lo \in Nat /\ hi - lo \in T
    <3>1. hi - lo \in Nat OBVIOUS
    <3> HIDE DEF Bad
    <3> QED BY <1>1, <3>1
  <2>2. T \in SUBSET Nat OBVIOUS
  <2> HIDE DEF T
  <2> QED BY <2>1, <2>2, Least
<1>3. PICK i \in 0..Len(D), j \in 0..Len(D) : j - i = m /\ Bad(i, j) BY <1>2
<1> DEFINE k == i + Split(j - i)
           e == index + 1
<1>4. /\ e \in Nat /\ index < e /\ i < j /\ i < e /\ e <= j
      /\ i \in Nat /\ j \in Nat
      BY <1>3
<1>5. Steps(D, w, index, i, j) /\ PartSteps(index, e, D, i, j)
  <2> HIDE DEF T, Bad, part, e
  <2> QED BY <1>4, PathStep, PartStep
<1>6. CASE j - i = 1
  <2>1. i = index /\ e = j BY <1>3, <1>4, <1>6
  <2>2. part(i, j) = << >> BY <1>5, <2>1 DEF PartSteps
  <2>3. w[<<i, j>>] = << >> BY <1>5, <1>6 DEF Steps
  <2> QED BY <1>3, <2>2, <2>3
<1>7. CASE j - i >= 2
  <2>1. k \in 0..Len(D) /\ i < k /\ k < j
    <3>1. k \in Nat /\ i < k /\ k < j BY <1>4, <1>7, Halves
    <3> HIDE DEF k
    <3> QED BY <3>1
  <2>2. /\ index < k    => w[<<i, j>>] = Append(w[<<i, k>>], Mth(D, k, j))
        /\ ~(index < k) => w[<<i, j>>] = Append(w[<<k, j>>], Mth(D, i, k))
        BY <1>5, <1>7 DEF Steps
  <2>3. ~Ends(index, e, i, j) BY <1>4, <1>7 DEF Ends
  <2>4. /\ e <= k => part(i, j) = Append(part(i, k), Mth(D, k, j))
        /\ k < e  => part(i, j) = Append(part(k, j), Mth(D, i, k))
        BY <1>5, <2>3 DEF PartSteps
  <2> HIDE DEF k, part
  <2>5. ~Bad(i, k) /\ ~Bad(k, j)
    <3>1. k - i \in Nat /\ k - i < m /\ j - k \in Nat /\ j - k < m BY <1>3, <2>1
    <3>2. k - i \notin T /\ j - k \notin T
      <4>1. m \in Nat OBVIOUS
      <4> HIDE DEF T
      <4> QED BY <1>2, <3>1, <4>1
    <3> HIDE DEF Bad
    <3> QED BY <2>1, <3>1, <3>2
  <2>6. CASE index < k
    <3>1. e <= k /\ i <= index BY <1>3, <2>1, <2>6
    <3>2. w[<<i, k>>] = part(i, k) BY <2>5, <2>6, <3>1
    <3>3. w[<<i, j>>] = part(i, j) BY <2>2, <2>4, <2>6, <3>1, <3>2
    <3> QED BY <1>3, <3>3
  <2>7. CASE ~(index < k)
    <3>1. k < e /\ k <= index /\ index < j BY <1>3, <2>1, <2>7
    <3>2. w[<<k, j>>] = part(k, j) BY <2>5, <3>1
    <3>3. w[<<i, j>>] = part(i, j) BY <2>2, <2>4, <2>7, <3>1, <3>2
    <3> QED BY <1>3, <3>3
  <2> QED BY <2>6, <2>7
<1>8. j - i = 1 \/ j - i >= 2 BY <1>4
<1> QED BY <1>6, <1>7, <1>8

\* inclusion_proof and subtree_proof (subtree.py) make the same proof for a leaf.
LEMMA PathIsProof ==
  ASSUME NEW D, Len(D) \in Nat \ {0}, NEW index \in 0..(Len(D) - 1)
  PROVE  InclusionProof(D, index) = SubtreeProof(index, index + 1, D)
<1>1. PICK w : Paths(D, index, w) /\ InclusionProof(D, index) = w[<<0, Len(D)>>]
      BY InclusionProofIsPath
<1>2. /\ index \in Nat /\ 0 \in 0..Len(D) /\ Len(D) \in 0..Len(D) /\ 0 <= index /\ index < Len(D)
      OBVIOUS
<1>3. w[<<0, Len(D)>>] = Part(index, index + 1, D, 0, Len(D)) BY <1>1, <1>2, PathIsPart
<1> QED BY <1>1, <1>2, <1>3, ProofIsPart

-----------------------------------------------------------------------------

\* The other way round from BeginsWithPart.
LEMMA PartBegun ==
  ASSUME NEW S, NEW s \in Seq(S), NEW x \in S, NEW q, NEW m \in Nat,
         Begins(q, s), Len(s) = m, m + 1 <= Len(q), q[m + 1] = x
  PROVE  Begins(q, Append(s, x)) /\ Len(Append(s, x)) = m + 1
<1>1. /\ Len(Append(s, x)) = m + 1
      /\ \A i \in 1..m : Append(s, x)[i] = s[i]
      /\ Append(s, x)[m + 1] = x
      BY AppendProperties
<1>2. ASSUME NEW i \in 1..(m + 1) PROVE q[i] = Append(s, x)[i]
  <2>1. i \in 1..m \/ i = m + 1 OBVIOUS
  <2> QED BY <1>1, <2>1 DEF Begins
<1> QED BY <1>1, <1>2 DEF Begins

\* What the walk of check_inclusion has reached a range of the log with.
Followed(q, w, index, lo, hi, m) ==
  /\ lo <= index /\ index < hi
  /\ Begins(q, w[<<lo, hi>>]) /\ Len(w[<<lo, hi>>]) = m

\* check_inclusion comes to the hash of a range of the log by no other way than by
\* the path of its leaf within that range.
LEMMA WalkFollowsPath ==
  ASSUME NEW size \in Nat, NEW index \in Nat, NEW w, Paths(Log(size), index, w),
         NEW q, Len(q) \in Nat, NEW of, NEW u, Walks(u, index, index, of, q),
         NEW m \in 0..Len(q), NEW lo \in 0..size, NEW hi \in 0..size, lo < hi,
         u[m].r = Mth(Log(size), lo, hi)
  PROVE  Followed(q, w, index, lo, hi, m)
<1> DEFINE D == Log(size)
           Bad(i, j, v) == i < j /\ u[v].r = Mth(D, i, j) /\ ~Followed(q, w, index, i, j, v)
           T == {v \in Nat : v <= Len(q) /\ \E i, j \in 0..size : Bad(i, j, v)}
<1>1. SUFFICES ASSUME Bad(lo, hi, m) PROVE FALSE
      OBVIOUS
<1>2. PICK v \in T : \A y \in T : v <= y
  <2>1. m \in T
    <3> HIDE DEF Bad
    <3> QED BY <1>1
  <2>2. T \in SUBSET Nat OBVIOUS
  <2> HIDE DEF T
  <2> QED BY <2>1, <2>2, Least
<1>3. PICK i \in 0..size, j \in 0..size : Bad(i, j, v) BY <1>2
<1>4. v \in Nat /\ v <= Len(q) /\ i < j /\ i \in Nat /\ j \in Nat BY <1>2, <1>3
<1>5. Len(D) = size BY LogIs
<1>6. Steps(D, w, index, i, j)
  <2> HIDE DEF T, Bad, D
  <2>1. Paths(D, index, w) BY DEF D
  <2> QED BY <1>4, <1>5, <2>1, PathStep
<1>7. j - i = 1 => Mth(D, i, j) = LeafHash(j - 1) /\ w[<<i, j>>] = << >>
  <2>1. SUFFICES ASSUME j - i = 1 PROVE Mth(D, i, j) = LeafHash(j - 1) /\ w[<<i, j>>] = << >>
        OBVIOUS
  <2>2. Mth(D, i, j) = D[j] BY <1>4, <2>1, MthOfOne
  <2>3. j \in 1..size BY <1>4
  <2>4. D[j] = LeafHash(j - 1) BY <2>3, LogIs
  <2> QED BY <1>6, <2>1, <2>2, <2>4 DEF Steps
<1> DEFINE k == i + Split(j - i)
<1>8. j - i >= 2 =>
        /\ k \in 0..size /\ i < k /\ k < j
        /\ Mth(D, i, j) = NodeHash(Mth(D, i, k), Mth(D, k, j))
        /\ index < k    => w[<<i, j>>] = Append(w[<<i, k>>], Mth(D, k, j))
        /\ ~(index < k) => w[<<i, j>>] = Append(w[<<k, j>>], Mth(D, i, k))
  <2>1. SUFFICES ASSUME j - i >= 2
                 PROVE  /\ k \in 0..size /\ i < k /\ k < j
                        /\ Mth(D, i, j) = NodeHash(Mth(D, i, k), Mth(D, k, j))
                        /\ index < k    => w[<<i, j>>] = Append(w[<<i, k>>], Mth(D, k, j))
                        /\ ~(index < k) => w[<<i, j>>] = Append(w[<<k, j>>], Mth(D, i, k))
        OBVIOUS
  <2>2. k \in Nat /\ i < k /\ k < j BY <1>4, <2>1, Halves
  <2>3. Mth(D, i, j) = NodeHash(Mth(D, i, k), Mth(D, k, j)) BY <1>4, <2>1, MthStep
  <2>4. /\ index < k    => w[<<i, j>>] = Append(w[<<i, k>>], Mth(D, k, j))
        /\ ~(index < k) => w[<<i, j>>] = Append(w[<<k, j>>], Mth(D, i, k))
        BY <1>6, <2>1 DEF Steps
  <2> HIDE DEF k, D
  <2>5. k \in 0..size BY <2>2
  <2> QED BY <2>2, <2>3, <2>4, <2>5
<1> HIDE DEF k, D
<1>9. CASE v = 0
  <2>1. u[0].r = LeafHash(index) BY DEF Walks
  <2>2. j - i = 1
    <3>1. ~(j - i >= 2) BY <1>3, <1>8, <1>9, <2>1, LeafIsNoNode
    <3> QED BY <1>4, <3>1
  <2>3. LeafHash(index) = LeafHash(j - 1) BY <1>3, <1>7, <1>9, <2>1, <2>2
  <2>4. index = j - 1 BY <2>3 DEF LeafHash
  <2>5. i = index BY <1>4, <2>2, <2>4
  <2>6. Begins(q, << >>) /\ Len(<< >>) = 0 BY DEF Begins
  <2>7. Followed(q, w, index, i, j, 0) BY <1>4, <1>7, <2>2, <2>4, <2>5, <2>6 DEF Followed
  <2> QED BY <1>3, <1>9, <2>7
<1>10. CASE v # 0
  <2> DEFINE x == v - 1
  <2>1. x \in Nat /\ x < v /\ x + 1 = v /\ x + 1 <= Len(q) /\ v \in 0..Len(q) BY <1>4, <1>10
  <2>2. u[v] = Join(u[x], q[v]) BY <1>10, <2>1 DEF Walks
  <2> HIDE DEF x
  <2>3. u[v].r = NodeHash(q[v], u[x].r) \/ u[v].r = NodeHash(u[x].r, q[v]) BY <2>2 DEF Join
  <2>4. j - i >= 2
    <3>1. j - i # 1 BY <1>3, <1>7, <2>3, LeafIsNoNode
    <3> QED BY <1>4, <3>1
  <2>5. \/ q[v] = Mth(D, i, k) /\ u[x].r = Mth(D, k, j)
        \/ u[x].r = Mth(D, i, k) /\ q[v] = Mth(D, k, j)
    <3>1. \/ NodeHash(q[v], u[x].r) = NodeHash(Mth(D, i, k), Mth(D, k, j))
          \/ NodeHash(u[x].r, q[v]) = NodeHash(Mth(D, i, k), Mth(D, k, j))
          BY <1>3, <1>8, <2>3, <2>4
    <3>2. \A a, b, c, d : NodeHash(a, b) = NodeHash(c, d) => a = c /\ b = d BY NodeHashInjective
    <3> HIDE DEF Bad, T
    <3> QED BY <3>1, <3>2
  <2>6. ~Bad(i, k, x) /\ ~Bad(k, j, x)
    <3>1. x \notin T
      <4> HIDE DEF T
      <4> QED BY <1>2, <1>4, <2>1
    <3>2. x <= Len(q) BY <2>1
    <3> HIDE DEF Bad
    <3> QED BY <1>8, <2>1, <2>4, <3>1, <3>2
  <2>7. /\ w[<<i, k>>] \in Seq(Nodes(D)) /\ w[<<k, j>>] \in Seq(Nodes(D))
        /\ Mth(D, i, k) \in Nodes(D) /\ Mth(D, k, j) \in Nodes(D)
    <3>1. Paths(D, index, w) BY DEF D
    <3> QED BY <1>5, <1>8, <2>4, <3>1, PathsAreSequences, NodesOf
  <2>8. CASE u[x].r = Mth(D, i, k) /\ q[v] = Mth(D, k, j)
    <3>1. Followed(q, w, index, i, k, x) BY <1>8, <2>4, <2>6, <2>8
    <3>2. i <= index /\ index < k /\ index < j BY <1>8, <2>4, <3>1 DEF Followed
    <3>3. Begins(q, w[<<i, j>>]) /\ Len(w[<<i, j>>]) = v
      <4>1. Begins(q, w[<<i, k>>]) /\ Len(w[<<i, k>>]) = x BY <3>1 DEF Followed
      <4>2. q[x + 1] = Mth(D, k, j) BY <2>1, <2>8
      <4>3. /\ Begins(q, Append(w[<<i, k>>], Mth(D, k, j)))
            /\ Len(Append(w[<<i, k>>], Mth(D, k, j))) = x + 1
        <5> DEFINE s == w[<<i, k>>]
                   z == Mth(D, k, j)
        <5>1. s \in Seq(Nodes(D)) /\ z \in Nodes(D) /\ Begins(q, s) /\ Len(s) = x /\ q[x + 1] = z
              BY <2>7, <4>1, <4>2
        <5> HIDE DEF s, z, T, Bad
        <5>2. Begins(q, Append(s, z)) /\ Len(Append(s, z)) = x + 1 BY <2>1, <5>1, PartBegun
        <5> QED BY <5>2 DEF s, z
      <4> QED BY <1>8, <2>1, <2>4, <3>2, <4>3
    <3>4. Followed(q, w, index, i, j, v) BY <3>2, <3>3 DEF Followed
    <3> QED BY <1>3, <3>4
  <2>9. CASE q[v] = Mth(D, i, k) /\ u[x].r = Mth(D, k, j)
    <3>1. Followed(q, w, index, k, j, x) BY <1>8, <2>4, <2>6, <2>9
    <3>2. i <= index /\ ~(index < k) /\ index < j BY <1>8, <2>4, <3>1 DEF Followed
    <3>3. Begins(q, w[<<i, j>>]) /\ Len(w[<<i, j>>]) = v
      <4>1. Begins(q, w[<<k, j>>]) /\ Len(w[<<k, j>>]) = x BY <3>1 DEF Followed
      <4>2. q[x + 1] = Mth(D, i, k) BY <2>1, <2>9
      <4>3. /\ Begins(q, Append(w[<<k, j>>], Mth(D, i, k)))
            /\ Len(Append(w[<<k, j>>], Mth(D, i, k))) = x + 1
        <5> DEFINE s == w[<<k, j>>]
                   z == Mth(D, i, k)
        <5>1. s \in Seq(Nodes(D)) /\ z \in Nodes(D) /\ Begins(q, s) /\ Len(s) = x /\ q[x + 1] = z
              BY <2>7, <4>1, <4>2
        <5> HIDE DEF s, z, T, Bad
        <5>2. Begins(q, Append(s, z)) /\ Len(Append(s, z)) = x + 1 BY <2>1, <5>1, PartBegun
        <5> QED BY <5>2 DEF s, z
      <4> QED BY <1>8, <2>1, <2>4, <3>2, <4>3
    <3>4. Followed(q, w, index, i, j, v) BY <3>2, <3>3 DEF Followed
    <3> QED BY <1>3, <3>4
  <2> QED BY <2>5, <2>8, <2>9
<1> QED BY <1>9, <1>10
-----------------------------------------------------------------------------

\* check_inclusion accepts what its walk has made the root of.
LEMMA WalkOfInclusion ==
  ASSUME NEW leaf, NEW index, NEW size, NEW q, Len(q) \in Nat, NEW root,
         CheckInclusion(leaf, index, size, q, root)
  PROVE  \E u : Walks(u, leaf, index, size, q) /\ u[Len(q)].r = root
<1> DEFINE u == CHOOSE u : Walks(u, leaf, index, size, q)
<1>1. Walks(u, leaf, index, size, q) BY WalksExist
<1>2. u[Len(q)].r = root
      BY DEF CheckInclusion, Walks
<1> HIDE DEF u
<1> QED BY <1>1, <1>2

\* verify_receipt.check_inclusion: of all proofs there are, the path of the leaf at
\* an index is the only one it accepts for that leaf under the root of its log.
THEOREM OnlyThePathIsAccepted ==
  ASSUME NEW size \in Nat \ {0}, NEW index \in 0..(size - 1), NEW S, NEW q \in Seq(S)
  PROVE  CheckInclusion(index, index, size, q, Mth(Log(size), 0, size))
           <=> q = InclusionProof(Log(size), index)
<1> DEFINE D == Log(size)
           P == InclusionProof(D, index)
<1>1. Len(D) = size /\ LeavesOf(D, [i \in 1..size |-> i - 1], size) BY LogIs
<1>2. Len(q) \in Nat BY LenProperties
<1>3. index \in Nat /\ index + 1 \in 1..size /\ [i \in 1..size |-> i - 1][index + 1] = index
      OBVIOUS
<1>4. ASSUME q = P PROVE CheckInclusion(index, index, size, q, Mth(D, 0, size))
  <2> HIDE DEF D
  <2> DEFINE lv == [i \in 1..size |-> i - 1]
  <2>1. lv[index + 1] = index /\ LeavesOf(D, lv, Len(D)) /\ Len(D) \in Nat \ {0}
        /\ index \in 0..(Len(D) - 1)
        BY <1>1, <1>3
  <2> HIDE DEF lv
  <2>2. CheckInclusion(lv[index + 1], index, Len(D), InclusionProof(D, index), Mth(D, 0, Len(D)))
        BY <2>1, PathsAreAccepted
  <2> QED BY <1>1, <1>4, <2>1, <2>2
<1>5. ASSUME CheckInclusion(index, index, size, q, Mth(D, 0, size)) PROVE q = P
  <2>1. PICK u : Walks(u, index, index, size, q) /\ u[Len(q)].r = Mth(D, 0, size)
        BY <1>2, <1>5, WalkOfInclusion
  <2>2. PICK w : Paths(D, index, w) /\ P = w[<<0, size>>]
        BY <1>1, InclusionProofIsPath
  <2>3. size \in Nat /\ 0 \in 0..size /\ size \in 0..size /\ 0 < size /\ Len(q) \in 0..Len(q)
        BY <1>2
  <2>4. Followed(q, w, index, 0, size, Len(q)) BY <1>2, <1>3, <2>1, <2>2, <2>3, WalkFollowsPath
  <2>5. Begins(q, P) /\ Len(P) = Len(q) BY <2>2, <2>4 DEF Followed
  <2>6. P \in Seq(Nodes(D))
    <3> HIDE DEF D, P
    <3> QED BY <1>1, <2>2, <2>3, PathsAreSequences
  <2> HIDE DEF P, D
  <2>7. \A i \in 1..Len(q) : q[i] = P[i] BY <2>5 DEF Begins
  <2>8. q = [i \in 1..Len(q) |-> q[i]] /\ P = [i \in 1..Len(P) |-> P[i]] BY <2>6
  <2> QED BY <2>5, <2>7, <2>8
<1> QED BY <1>4, <1>5

-----------------------------------------------------------------------------

\* Both ends of a whole place are at one position on its level.
LEMMA OnePosition ==
  ASSUME NEW lo \in Nat, NEW h \in Nat, NEW size \in Nat, size = lo + 2^h,
         MultipleOf(lo, h),
         NEW index \in Nat, lo <= index, index < size
  PROVE  index \div 2^h = (size - 1) \div 2^h
<1> DEFINE d == 2^h
<1>1. PICK a \in Nat : lo = a * d BY DEF MultipleOf
<1>2. d \in Nat /\ d > 0 BY Powers
<1>3. size = lo + d OBVIOUS
<1> HIDE DEF d
<1>4. a * d <= index /\ index < a * d + d BY <1>1, <1>3
<1>5. size - 1 \in Nat /\ a * d <= size - 1 /\ size - 1 < a * d + d BY <1>1, <1>2, <1>3
<1>6. index \div d = a BY <1>2, <1>4, Quotient
<1>7. (size - 1) \div d = a BY <1>2, <1>5, Quotient
<1> QED BY <1>6, <1>7 DEF d

\* check_inclusion, under the root of the log of one leaf more, but with the smaller
\* size: no proof made of hashes of the log and that leaf's brings it there.
LEMMA NotInLongerLog ==
  ASSUME NEW size \in Nat \ {0}, NEW index \in 0..(size - 1),
         NEW q \in Seq(Inners(Log(size)) \cup {LeafHash(size)})
  PROVE  ~CheckInclusion(index, index, size, q, Mth(Log(size + 1), 0, size + 1))
<1> DEFINE D == Log(size)
           E == Log(size + 1)
           next == size + 1
<1>1. SUFFICES ASSUME CheckInclusion(index, index, size, q, Mth(E, 0, next)) PROVE FALSE
      OBVIOUS
<1>2. Len(q) \in Nat /\ \A i \in 1..Len(q) : q[i] \in Inners(D) \/ q[i] = LeafHash(size)
      BY LenProperties, ElementOfSeq
<1>3. PICK u : Walks(u, index, index, size, q) /\ u[Len(q)].r = Mth(E, 0, next)
      BY <1>1, <1>2, WalkOfInclusion
<1>4. next \in Nat /\ size \in Nat /\ index \in Nat /\ index < size /\ size < next OBVIOUS
<1>5. \A x : x \in Inners(D) => ~ \E a \in 0..size : x = Mth(E, a, next)
      BY <1>4, InnersEndEarlier DEF EndHash
<1>6. LeafHash(size) = Mth(E, size, next) BY <1>4, LastLeaf
<1>7. \A a, b, c, d \in 0..next : a < b /\ c < d /\ Mth(E, a, b) = Mth(E, c, d) => a = c /\ b = d
      BY <1>4, RangesDiffer
<1>8. Len(D) = size /\ LeavesOf(D, [i \in 1..size |-> i - 1], size) BY <1>4, LogIs
<1>9. \A a \in 0..size : a < size => Mth(D, a, size) = Mth(E, a, size)
      BY <1>4, SameRanges
<1> DEFINE T == {m \in Nat : m <= Len(q) /\
                   \E a \in 0..size : (\E h : IsPlace(a, next, h, next)) /\ u[m].r = Mth(E, a, next)}
<1> HIDE DEF D, E, next
<1>10. PICK m \in T : \A y \in T : m <= y
  <2>1. Len(q) \in T
    <3>1. \E h : IsPlace(0, next, h, next)
      <4>1. next # 0 BY <1>4
      <4> QED BY <1>4, <4>1, RootPlace
    <3>2. 0 \in 0..size /\ Len(q) <= Len(q) BY <1>2, <1>4
    <3> QED BY <1>2, <1>3, <3>1, <3>2
  <2>2. T \in SUBSET Nat OBVIOUS
  <2> HIDE DEF T
  <2> QED BY <2>1, <2>2, Least
<1>11. PICK a \in 0..size : (\E h : IsPlace(a, next, h, next)) /\ u[m].r = Mth(E, a, next)
       BY <1>10
<1>12. PICK h : IsPlace(a, next, h, next) BY <1>11
<1>13. m \in Nat /\ m <= Len(q) /\ a \in Nat /\ a <= size BY <1>4, <1>10
<1>14. m # 0
  <2>1. SUFFICES ASSUME m = 0 PROVE FALSE OBVIOUS
  <2>2. Mth(E, a, next) = LeafHash(index) BY <1>3, <1>11, <2>1 DEF Walks
  <2>3. CASE a = size
    <3>1. LeafHash(size) = LeafHash(index) BY <1>6, <2>2, <2>3
    <3> QED BY <1>4, <3>1 DEF LeafHash
  <2>4. CASE a # size
    <3>1. next - a >= 2 BY <1>4, <1>13, <2>4 DEF next
    <3>2. \E k : Mth(E, a, next) = NodeHash(Mth(E, a, k), Mth(E, k, next))
          BY <1>4, <1>13, <3>1, MthOfMore
    <3> QED BY <2>2, <3>2, LeafIsNoNode
  <2> QED BY <2>3, <2>4
<1> DEFINE x == m - 1
<1>15. x \in Nat /\ x < m /\ x <= Len(q) /\ x \in 0..Len(q) /\ m \in 1..Len(q) /\ m \in 0..Len(q)
       BY <1>2, <1>13, <1>14
<1>16. u[m] = Join(u[x], q[m]) BY <1>3, <1>14, <1>15 DEF Walks
<1> HIDE DEF x
<1>17. \/ u[m].r = NodeHash(q[m], u[x].r)
       \/ u[m].r = NodeHash(u[x].r, q[m]) /\ u[x].fn # u[x].sn
       BY <1>16 DEF Join
<1>18. next - a >= 2
  <2>1. a # size BY <1>6, <1>11, <1>17, LeafIsNoNode
  <2> QED BY <1>4, <1>13, <2>1 DEF next
<1> DEFINE k == a + Split(next - a)
<1>19. /\ h \in Nat \ {0} /\ k = a + 2^(h - 1) /\ a < k /\ k < next
       /\ IsPlace(a, k, h - 1, next)
       /\ \E g \in Nat : g <= h - 1 /\ IsPlace(k, next, g, next)
       BY <1>4, <1>12, <1>13, <1>18, PlaceSplits
<1>20. k \in Nat BY <1>4, <1>13, <1>18, Halves
<1>21. Mth(E, a, next) = NodeHash(Mth(E, a, k), Mth(E, k, next))
  <2> HIDE DEF T
  <2>1. a < next BY <1>4, <1>13
  <2> QED BY <1>4, <1>13, <1>18, <2>1, MthStep
<1> HIDE DEF k
<1>22. k \in 0..size BY <1>4, <1>19, <1>20 DEF next
<1>23. \A b, c, d, e : NodeHash(b, c) = NodeHash(d, e) => b = d /\ c = e BY NodeHashInjective
<1>24. CASE u[m].r = NodeHash(q[m], u[x].r)
  <2>1. u[x].r = Mth(E, k, next)
    <3> HIDE DEF T
    <3> QED BY <1>11, <1>21, <1>23, <1>24
  <2>2. x \in T BY <1>15, <1>19, <1>22, <2>1
  <2>3. ~(m <= x) BY <1>13, <1>15
  <2> HIDE DEF T
  <2> QED BY <1>10, <2>2, <2>3
<1>25. CASE u[m].r = NodeHash(u[x].r, q[m]) /\ u[x].fn # u[x].sn
  <2> HIDE DEF T
  <2>1. u[x].r = Mth(E, a, k) /\ q[m] = Mth(E, k, next) BY <1>11, <1>21, <1>23, <1>25
  <2>2. q[m] = LeafHash(size) BY <1>2, <1>5, <1>15, <1>22, <2>1
  <2>3. k = size
    <3>1. Mth(E, k, next) = Mth(E, size, next) BY <1>6, <2>1, <2>2
    <3>2. k \in 0..next /\ next \in 0..next /\ size \in 0..next BY <1>4, <1>19, <1>20
    <3> QED BY <1>4, <1>7, <1>19, <3>1, <3>2
  <2>4. u[x].r = Mth(D, a, size) BY <1>9, <1>19, <2>1, <2>3
  <2> DEFINE e == h - 1
  <2>5. e \in Nat /\ size = a + 2^e /\ IsPlace(a, size, e, next) BY <1>19, <2>3
  <2> HIDE DEF e
  <2>6. IsPlace(a, size, e, size) /\ a < size BY <2>5 DEF IsPlace
  <2>7. PICK w : Paths(D, index, w) BY <1>4, <1>8, PathsExist
  <2>8. Followed(q, w, index, a, size, x)
    <3>1. size \in 0..size BY <1>4
    <3> QED BY <1>2, <1>3, <1>4, <1>15, <2>4, <2>6, <2>7, <3>1, WalkFollowsPath DEF D
  <2>9. Reaches(D, w, u, index, a, size, e)
    <3> DEFINE lv == [i \in 1..size |-> i - 1]
    <3>1. lv[index + 1] = index
      <4>1. index + 1 \in 1..size BY <1>4
      <4> QED BY <4>1
    <3>2. LeavesOf(D, lv, Len(D)) /\ Len(D) \in Nat BY <1>4, <1>8
    <3> HIDE DEF lv
    <3>3. a \in 0..Len(D) /\ size \in 0..Len(D) /\ IsPlace(a, size, e, Len(D)) BY <1>4, <1>8, <2>6
    <3>4. Walks(u, lv[index + 1], index, Len(D), q) BY <1>3, <1>8, <3>1
    <3>5. a <= index /\ index < size /\ Begins(q, w[<<a, size>>]) BY <2>8 DEF Followed
    <3> QED BY <1>2, <1>4, <2>7, <3>2, <3>3, <3>4, <3>5, PathReachesPlace
  <2>10. u[x] = Reached(index, size, e, Mth(D, a, size))
         BY <1>8, <2>8, <2>9 DEF Reaches, Followed
  <2>11. index \div 2^e = (size - 1) \div 2^e
    <3>1. MultipleOf(a, e) BY <2>6 DEF IsPlace, MultipleOf
    <3>2. a <= index BY <2>8 DEF Followed
    <3> QED BY <1>4, <1>13, <2>5, <3>1, <3>2, OnePosition
  <2> QED BY <1>25, <2>10, <2>11 DEF Reached
<1> QED BY <1>17, <1>24, <1>25
=============================================================================
