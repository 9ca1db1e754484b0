-------------------------- MODULE MirrorClientProofs --------------------------
(***************************************************************************)
(* For uploads and packages of every size, however the export directory,   *)
(* the requests, the mirror and the process fail: the packages tile the    *)
(* upload, their proofs are the client's own to accept, a mirror has no    *)
(* reason to refuse an upload that starts within what it holds, and a run  *)
(* that ends well leaves it the whole tree.                                *)
(***************************************************************************)
EXTENDS MirrorClient, MerkleProofs

LEMMA PackageIsPower ==
  /\ Package \in Int /\ Package > 0
  /\ \E e \in Nat : Package = 2^e
<1>1. PICK e \in 0..Package : Package = 2^e BY MirrorAssumption
<1>2. e \in Nat BY MirrorAssumption
<1> QED BY <1>1, <1>2, Powers

LEMMA Rounding ==
  ASSUME NEW a \in Int, NEW p \in Int, p > 0
  PROVE  /\ a \div p \in Int
         /\ p * (a \div p) <= a /\ a < p * (a \div p) + p
<1>1. a \div p \in Int BY SMTT(20)
<1>2. p * (a \div p) <= a BY SMTT(20)
<1>3. a < p * (a \div p) + p BY SMTT(20)
<1> QED BY <1>1, <1>2, <1>3

LEMMA WholeMultiples ==
  ASSUME NEW k \in Int, NEW p \in Int, p > 0
  PROVE  (k * p) \div p = k /\ (k * p) % p = 0
<1>1. (k * p) \div p = k BY SMTT(20)
<1>2. (k * p) % p = 0 BY SMTT(20)
<1> QED BY <1>1, <1>2

LEMMA Growing ==
  ASSUME NEW i \in Int, NEW j \in Int, NEW p \in Int, p > 0, i <= j
  PROVE  i * p <= j * p
BY SMTT(20)

\* What is true of every sequence of packages that a mirror, which is told only the
\* two ends, reads as the client wrote it.
Tiles(b, start, end) ==
  /\ b # << >> /\ b[1].start = start /\ b[Len(b)].end = end
  /\ \A i \in 1..Len(b) :
       /\ b[i].start < b[i].end
       /\ b[i].sub % Package = 0
       /\ b[i].sub <= b[i].start /\ b[i].start < b[i].sub + Package
       /\ b[i].end = Smaller(end, b[i].sub + Package) /\ start <= b[i].start
  /\ \A i \in 1..(Len(b) - 1) : b[i].end = b[i + 1].start /\ b[i + 1].start = b[i + 1].sub

\* mirror_client.py:46-62: however --from, the size and the blocks lie, the packages
\* follow each other from the first entry of the upload to the last, each within
\* one block, each but the first at the start of its block; none is passed over.
THEOREM BlocksTileTheUpload ==
  ASSUME NEW start \in Nat, NEW end \in Nat, start < end
  PROVE  Tiles(Blocks(start, end), start, end)
<1> DEFINE f == start \div Package
           e == (end + Package - 1) \div Package
           B == Blocks(start, end)
<1>1. Package \in Int /\ Package > 0 BY PackageIsPower
<1>2. f \in Int /\ f * Package <= start /\ start < f * Package + Package
  <2>1. f \in Int /\ Package * f <= start /\ start < Package * f + Package
        BY <1>1, Rounding
  <2>2. Package * f = f * Package BY <1>1, <2>1
  <2> QED BY <2>1, <2>2
<1>3. e \in Int /\ end <= e * Package /\ e * Package < end + Package
  <2>1. /\ e \in Int /\ Package * e <= end + Package - 1
        /\ end + Package - 1 < Package * e + Package
        BY <1>1, Rounding
  <2>2. Package * e = e * Package BY <1>1, <2>1
  <2>3. Package * e \in Int BY <1>1, <2>1
  <2> HIDE DEF e
  <2> QED BY <1>1, <2>1, <2>2, <2>3
<1> HIDE DEF f, e
<1>4. f * Package \in Int /\ e * Package \in Int BY <1>1, <1>2, <1>3
<1>5. f < e
  <2>1. SUFFICES ASSUME e <= f PROVE FALSE BY <1>2, <1>3
  <2>2. e * Package <= f * Package BY <1>1, <1>2, <1>3, <2>1, Growing
  <2> QED BY <1>1, <1>2, <1>3, <1>4, <2>2
<1>6. ((e * Package) - (f * Package)) \div Package = e - f
  <2>1. (e * Package) - (f * Package) = (e - f) * Package BY <1>1, <1>2, <1>3
  <2>2. e - f \in Int BY <1>2, <1>3
  <2> QED BY <1>1, <2>1, <2>2, WholeMultiples
<1>7. B = [i \in 1..(e - f) |-> Block(start, end, i - 1)]
  <2>1. Larger(0, e - f) = e - f BY <1>2, <1>3, <1>5 DEF Larger
  <2> QED BY <1>6, <2>1 DEF Blocks, f, e
<1>8. Len(B) = e - f /\ e - f \in Nat /\ e - f >= 1 BY <1>2, <1>3, <1>5, <1>7
<1> HIDE DEF B
\* The block of index i begins at (f + i - 1) * Package.
<1> DEFINE sub(i) == (f + i - 1) * Package
<1>9. \A i \in 1..(e - f) :
        B[i] = [start |-> Larger(start, sub(i)), end |-> Smaller(end, sub(i) + Package),
                sub |-> sub(i)]
  <2> SUFFICES ASSUME NEW i \in 1..(e - f)
               PROVE  B[i] = [start |-> Larger(start, sub(i)),
                              end |-> Smaller(end, sub(i) + Package), sub |-> sub(i)]
      OBVIOUS
  <2>1. i \in Int BY <1>8
  <2>2. (f * Package) + ((i - 1) * Package) = sub(i) BY <1>1, <1>2, <2>1
  <2>3. B[i] = Block(start, end, i - 1) BY <1>7
  <2> QED BY <2>2, <2>3 DEF Block, f
<1>10. \A i \in 1..(e - f) : sub(i) \in Int /\ sub(i) % Package = 0
  <2> SUFFICES ASSUME NEW i \in 1..(e - f) PROVE sub(i) \in Int /\ sub(i) % Package = 0
      OBVIOUS
  <2>1. f + i - 1 \in Int BY <1>2, <1>8
  <2> QED BY <1>1, <2>1, WholeMultiples
<1>11. sub(1) = f * Package BY <1>1, <1>2
<1>12. sub(e - f) = (e * Package) - Package BY <1>1, <1>2, <1>3
<1>13. \A i \in 1..(e - f - 1) : sub(i + 1) = sub(i) + Package /\ i + 1 \in 1..(e - f)
       BY <1>1, <1>2, <1>3, <1>8
\* A block before the last ends within the upload, one after the first begins there.
<1>14. \A i \in 1..(e - f - 1) : start < sub(i) + Package /\ sub(i) + Package < end
  <2> SUFFICES ASSUME NEW i \in 1..(e - f - 1)
               PROVE  start < sub(i) + Package /\ sub(i) + Package < end
      OBVIOUS
  <2>1. i \in Int /\ 1 <= i /\ f + i <= e - 1 /\ f + 1 <= f + i BY <1>2, <1>3
  <2>2. sub(i) + Package = (f + i) * Package BY <1>1, <1>2, <2>1
  <2>3. (f + 1) * Package <= (f + i) * Package
        BY <1>1, <1>2, <2>1, Growing
  <2>4. (f + i) * Package <= (e - 1) * Package
        BY <1>1, <1>2, <1>3, <2>1, Growing
  <2>5. (f + 1) * Package = f * Package + Package /\ (e - 1) * Package = e * Package - Package
        BY <1>1, <1>2, <1>3
  <2>6. (f + i) * Package \in Int BY <1>1, <1>2, <2>1
  <2> QED BY <1>1, <1>2, <1>3, <1>4, <2>2, <2>3, <2>4, <2>5, <2>6
<1>15. \A i \in 1..(e - f) : sub(i) < end /\ start < sub(i) + Package
  <2> SUFFICES ASSUME NEW i \in 1..(e - f) PROVE sub(i) < end /\ start < sub(i) + Package
      OBVIOUS
  <2> HIDE DEF sub
  <2>1. CASE i = e - f
    <3>1. sub(i) < end BY <1>1, <1>3, <1>4, <1>12, <2>1
    <3>2. start < sub(i) + Package BY <1>1, <1>3, <1>4, <1>12, <2>1
    <3> QED BY <3>1, <3>2
  <2>2. CASE i # e - f
    <3>1. i \in 1..(e - f - 1) BY <1>8, <2>2
    <3> QED BY <1>1, <1>10, <1>14, <3>1
  <2> QED BY <2>1, <2>2
<1> HIDE DEF sub
<1>16. \A i \in 1..(e - f) : /\ B[i].start = Larger(start, sub(i))
                             /\ B[i].end = Smaller(end, sub(i) + Package)
                             /\ B[i].sub = sub(i)
  <2> SUFFICES ASSUME NEW i \in 1..(e - f)
               PROVE  /\ B[i].start = Larger(start, sub(i))
                      /\ B[i].end = Smaller(end, sub(i) + Package)
                      /\ B[i].sub = sub(i)
      OBVIOUS
  <2> DEFINE u == Larger(start, sub(i))
             v == Smaller(end, sub(i) + Package)
             w == sub(i)
  <2>1. B[i] = [start |-> u, end |-> v, sub |-> w] BY <1>9
  <2> HIDE DEF u, v, w
  <2>2. B[i].start = u /\ B[i].end = v /\ B[i].sub = w BY <2>1
  <2> QED BY <2>2 DEF u, v, w
<1>17. B # << >> BY <1>8
<1>18. B[1].start = start
  <2>1. 1 \in 1..(e - f) BY <1>8
  <2>2. B[1].start = Larger(start, f * Package) BY <1>11, <1>16, <2>1
  <2>3. start \in Int /\ f * Package <= start BY <1>2
  <2> HIDE DEF f
  <2> QED BY <1>4, <2>2, <2>3 DEF Larger
<1>19. B[Len(B)].end = end
  <2>1. e - f \in 1..(e - f) BY <1>8
  <2>2. sub(e - f) + Package >= end BY <1>1, <1>3, <1>4, <1>12
  <2>3. B[e - f].end = Smaller(end, sub(e - f) + Package) BY <1>16, <2>1
  <2>4. sub(e - f) + Package \in Int BY <1>1, <1>10, <2>1
  <2>5. B[e - f].end = end BY <2>2, <2>3, <2>4 DEF Smaller
  <2> QED BY <1>8, <2>5
<1>20. \A i \in 1..(e - f) :
         /\ B[i].start < B[i].end
         /\ B[i].sub % Package = 0
         /\ B[i].sub <= B[i].start /\ B[i].start < B[i].sub + Package
         /\ B[i].end = Smaller(end, B[i].sub + Package) /\ start <= B[i].start
  <2> SUFFICES ASSUME NEW i \in 1..(e - f)
               PROVE  /\ B[i].start < B[i].end
                      /\ B[i].sub % Package = 0
                      /\ B[i].sub <= B[i].start /\ B[i].start < B[i].sub + Package
                      /\ B[i].end = Smaller(end, B[i].sub + Package) /\ start <= B[i].start
      OBVIOUS
  <2> DEFINE s == sub(i)
             t == sub(i) + Package
  <2>1. s \in Int /\ t \in Int /\ s < t /\ s < end /\ start < t
        BY <1>1, <1>10, <1>15
  <2>2. B[i].start = Larger(start, s) /\ B[i].end = Smaller(end, t) /\ B[i].sub = s
        BY <1>16
  <2>3. B[i].sub % Package = 0 BY <1>10, <2>2
  <2> HIDE DEF s
  <2>4. B[i].start < B[i].end BY <2>1, <2>2 DEF Larger, Smaller
  <2>5. B[i].sub <= B[i].start /\ B[i].start < t /\ start <= B[i].start BY <2>1, <2>2 DEF Larger
  <2>6. B[i].end = Smaller(end, t) /\ t = B[i].sub + Package BY <2>2 DEF s
  <2> QED BY <2>2, <2>3, <2>4, <2>5, <2>6 DEF s
<1>21. \A i \in 1..(e - f - 1) : B[i].end = B[i + 1].start /\ B[i + 1].start = B[i + 1].sub
  <2> SUFFICES ASSUME NEW i \in 1..(e - f - 1)
               PROVE  B[i].end = B[i + 1].start /\ B[i + 1].start = B[i + 1].sub
      OBVIOUS
  <2>1. i \in 1..(e - f) /\ i + 1 \in 1..(e - f) BY <1>8
  <2> DEFINE t == sub(i) + Package
  <2>2. t \in Int /\ start < t /\ t < end BY <1>1, <1>10, <1>14, <2>1
  <2>3. sub(i + 1) = t BY <1>13
  <2>4. /\ B[i].end = Smaller(end, t)
        /\ B[i + 1].start = Larger(start, t) /\ B[i + 1].sub = t
        BY <1>16, <2>1, <2>3
  <2> HIDE DEF t
  <2> QED BY <2>2, <2>4 DEF Larger, Smaller
<1> QED BY <1>8, <1>17, <1>18, <1>19, <1>20, <1>21 DEF Tiles, B

-----------------------------------------------------------------------------
(* Passing over the empty blocks.                                          *)

Filters(f, b) ==
  f = [i \in 0..Len(b) |->
         IF i = 0 THEN << >>
         ELSE IF b[i].start < b[i].end THEN Append(f[i - 1], b[i]) ELSE f[i - 1]]

LEMMA FiltersUnique ==
  ASSUME NEW b, Len(b) \in Nat, NEW f, NEW g, Filters(f, b), Filters(g, b)
  PROVE  f[Len(b)] = g[Len(b)]
<1> DEFINE N == Len(b)
           T == {m \in 0..N : f[m] # g[m]}
<1>1. ASSUME NEW i \in 0..N
      PROVE  /\ f[i] = IF i = 0 THEN << >>
                       ELSE IF b[i].start < b[i].end THEN Append(f[i - 1], b[i]) ELSE f[i - 1]
             /\ g[i] = IF i = 0 THEN << >>
                       ELSE IF b[i].start < b[i].end THEN Append(g[i - 1], b[i]) ELSE g[i - 1]
      BY DEF Filters
<1>2. T = {}
  <2>1. SUFFICES ASSUME T # {} PROVE FALSE
        OBVIOUS
  <2>2. PICK m \in T : \A v \in T : m <= v
    <3>1. T \in SUBSET Nat OBVIOUS
    <3> HIDE DEF T
    <3> QED BY <2>1, <3>1, Least
  <2>3. m # 0 BY <1>1, <2>2
  <2>4. m - 1 \in 0..N /\ m - 1 \notin T BY <2>2, <2>3
  <2>5. f[m - 1] = g[m - 1] BY <2>4
  <2>6. f[m] = g[m] BY <1>1, <2>3, <2>5
  <2> QED BY <2>2, <2>6
<1>3. N \notin T BY <1>2
<1> QED BY <1>3

LEMMA FilteredIs ==
  ASSUME NEW start, NEW end, Len(Blocks(start, end)) \in Nat,
         NEW g, Filters(g, Blocks(start, end))
  PROVE  Packages(start, end) = g[Len(Blocks(start, end))]
<1> DEFINE b == Blocks(start, end)
           f == CHOOSE f : Filters(f, b)
<1>1. Filters(f, b) OBVIOUS
<1>2. Packages(start, end) = f[Len(b)] BY DEF Packages, Filters
<1> HIDE DEF b, f
<1>3. f[Len(b)] = g[Len(b)] BY <1>1, FiltersUnique DEF b
<1> QED BY <1>2, <1>3 DEF b

\* Blocks that are not empty are all kept.
LEMMA AllKept ==
  ASSUME NEW start, NEW end, NEW N \in Nat,
         Blocks(start, end) = [i \in 1..N |-> Block(start, end, i - 1)],
         \A i \in 1..N : Blocks(start, end)[i].start < Blocks(start, end)[i].end
  PROVE  Packages(start, end) = Blocks(start, end)
<1> DEFINE b == Blocks(start, end)
           g == [i \in 0..N |-> [j \in 1..i |-> b[j]]]
<1> HIDE DEF b
<1>1. b = [i \in 1..N |-> b[i]] /\ Len(b) = N BY DEF b
<1>2. ASSUME NEW i \in 1..N PROVE g[i] = Append(g[i - 1], b[i])
  <2> DEFINE S == {b[j] : j \in 1..N}
             s == [j \in 1..(i - 1) |-> b[j]]
  <2>1. /\ i - 1 \in 0..N /\ g[i - 1] = s
        /\ i \in 0..N /\ g[i] = [j \in 1..i |-> b[j]]
        OBVIOUS
  <2>2. s \in Seq(S) /\ Len(s) = i - 1 BY SMT
  <2>3. b[i] \in S OBVIOUS
  <2> HIDE DEF s, S, g
  <2>4. /\ Append(s, b[i]) \in Seq(S) /\ Len(Append(s, b[i])) = i
        /\ \A j \in 1..(i - 1) : Append(s, b[i])[j] = s[j]
        /\ Append(s, b[i])[i] = b[i]
        BY <2>2, <2>3, AppendProperties
  <2>5. Append(s, b[i]) = [j \in 1..i |-> b[j]]
    <3>1. \A j \in 1..i : Append(s, b[i])[j] = b[j] BY <2>4 DEF s
    <3> DEFINE t == Append(s, b[i])
    <3>2. t = [j \in 1..i |-> t[j]]
      <4>1. t \in Seq(S) /\ Len(t) = i BY <2>4
      <4> HIDE DEF t
      <4> QED BY <4>1, LenProperties
    <3> QED BY <3>1, <3>2
  <2> QED BY <2>1, <2>5
<1>3. g[0] = << >> OBVIOUS
<1>4. Filters(g, b)
  <2>1. ASSUME NEW i \in 0..N
        PROVE  g[i] = IF i = 0 THEN << >>
                      ELSE IF b[i].start < b[i].end THEN Append(g[i - 1], b[i]) ELSE g[i - 1]
    <3>1. CASE i = 0 BY <1>3, <3>1
    <3>2. CASE i # 0
      <4>1. i \in 1..N /\ b[i].start < b[i].end BY <3>2 DEF b
      <4>2. g[i] = Append(g[i - 1], b[i]) BY <1>2, <4>1
      <4> HIDE DEF g
      <4> QED BY <3>2, <4>1, <4>2
    <3> QED BY <3>1, <3>2
  <2> QED BY <1>1, <2>1 DEF Filters
<1>5. Packages(start, end) = g[N]
  <2> HIDE DEF g
  <2>1. Len(Blocks(start, end)) = N /\ Filters(g, Blocks(start, end)) BY <1>1, <1>4 DEF b
  <2> QED BY <2>1, FilteredIs
<1>6. g[N] = b
  <2>1. N \in 0..N OBVIOUS
  <2>2. g[N] = [j \in 1..N |-> b[j]] BY <2>1
  <2> QED BY <1>1, <2>2
<1> QED BY <1>5, <1>6 DEF b

\* Of an upload that ends where it begins or before, nothing is kept.
LEMMA NoneKept ==
  ASSUME NEW start \in Nat, NEW end \in Nat, end <= start
  PROVE  Packages(start, end) = << >>
<1> DEFINE b == Blocks(start, end)
           f == start \div Package
           e == (end + Package - 1) \div Package
           c == ((e * Package) - (f * Package)) \div Package
           N == Larger(0, c)
           g == [i \in 0..N |-> << >>]
<1>1. Package \in Int /\ Package > 0 BY PackageIsPower
<1>2. f \in Int /\ e \in Int BY <1>1, Rounding
<1>3. c \in Int
  <2>1. (e * Package) - (f * Package) \in Int
    <3> HIDE DEF e, f
    <3> QED BY <1>1, <1>2
  <2> QED BY <1>1, <2>1, Rounding
<1>4. N \in Nat
  <2> HIDE DEF c
  <2> QED BY <1>3 DEF Larger
<1>5. b = [i \in 1..N |-> Block(start, end, i - 1)] BY DEF Blocks
<1> HIDE DEF N, f, e, c
<1>6. Len(b) = N BY <1>4, <1>5
<1>7. ASSUME NEW i \in 1..N PROVE ~(b[i].start < b[i].end)
  <2> DEFINE u == f * Package + (i - 1) * Package
  <2>1. u \in Int BY <1>1, <1>2, <1>4
  <2> DEFINE x == Larger(start, u)
             y == Smaller(end, u + Package)
  <2>2. b[i] = [start |-> x, end |-> y, sub |-> u] BY <1>5 DEF Block, f
  <2>3. b[i].start = x /\ b[i].end = y
    <3> HIDE DEF x, y, u, b
    <3> QED BY <2>2
  <2> HIDE DEF u, b
  <2>4. start <= x /\ y <= end /\ x \in Int /\ y \in Int BY <1>1, <2>1 DEF Larger, Smaller
  <2> HIDE DEF x, y
  <2> QED BY <2>3, <2>4
<1> HIDE DEF b
<1>8. Filters(g, b)
  <2>1. ASSUME NEW i \in 0..N
        PROVE  g[i] = IF i = 0 THEN << >>
                      ELSE IF b[i].start < b[i].end THEN Append(g[i - 1], b[i]) ELSE g[i - 1]
    <3>1. CASE i = 0 BY <3>1
    <3>2. CASE i # 0
      <4>1. i \in 1..N /\ i - 1 \in 0..N BY <1>4, <3>2
      <4> QED BY <1>7, <3>2, <4>1
    <3> QED BY <3>1, <3>2
  <2> QED BY <1>6, <2>1 DEF Filters
<1>9. Packages(start, end) = g[N] BY <1>4, <1>6, <1>8, FilteredIs DEF b
<1> QED BY <1>4, <1>9

-----------------------------------------------------------------------------
(* What a run uploads.                                                     *)

Pkg == [start : Nat, end : Nat, sub : Nat]

\* What build_packages makes of [from, to).
Upload(b, from, to) ==
  /\ b \in Seq(Pkg)
  /\ Len(b) # 0 => from < to /\ Tiles(b, from, to)
  /\ Len(b) = 0 => to <= from
  /\ \A i \in 1..Len(b) : ValidSubtree(b[i].sub, b[i].end, to)

\* The block a package lies in, of whatever part of it the package is, is a valid
\* subtree.
LEMMA BlockIsValid ==
  ASSUME NEW sub \in Nat, sub % Package = 0, NEW end \in Nat, NEW to \in Nat,
         sub < end, end <= to, end <= sub + Package
  PROVE  ValidSubtree(sub, end, to)
<1>1. PICK e \in Nat : Package = 2^e BY PackageIsPower
<1>2. end - sub \in Nat /\ end - sub # 0 /\ end - sub <= Package
      BY PackageIsPower
<1>3. end - sub <= 2^e /\ sub % 2^e = 0 BY <1>1, <1>2
<1> DEFINE x == end - sub
<1>4. sub % BitCeil(x) = 0
  <2>1. x \in Nat /\ x # 0 /\ x <= 2^e BY <1>2, <1>3
  <2> HIDE DEF x
  <2> QED BY <1>3, <2>1, BitCeilDivides
<1> QED BY <1>4 DEF ValidSubtree

LEMMA BlocksAreTyped ==
  ASSUME NEW start \in Nat, NEW end \in Nat, start < end
  PROVE  /\ Blocks(start, end) \in Seq(Pkg)
         /\ \E N \in Nat : Blocks(start, end) = [i \in 1..N |-> Block(start, end, i - 1)]
<1> DEFINE f == start \div Package
           c == ((((end + Package - 1) \div Package) * Package) - (f * Package)) \div Package
           N == Larger(0, c)
<1>1. Package \in Int /\ Package > 0 BY PackageIsPower
<1>2. f \in Nat
  <2>1. f \in Int /\ start < Package * f + Package BY <1>1, Rounding
  <2>2. ASSUME f < 0 PROVE FALSE
    <3> HIDE DEF f
    <3>1. f + 1 <= 0 /\ f + 1 \in Int BY <2>1, <2>2
    <3>2. (f + 1) * Package <= 0 * Package BY <1>1, <3>1, Growing
    <3>3. (f + 1) * Package = Package * f + Package /\ 0 * Package = 0 BY <1>1, <2>1
    <3> QED BY <1>1, <2>1, <3>2, <3>3
  <2> HIDE DEF f
  <2> QED BY <2>1, <2>2
<1>3. c \in Int
  <2> DEFINE e == (end + Package - 1) \div Package
  <2>1. e \in Int BY <1>1, Rounding
  <2>2. (e * Package) - (f * Package) \in Int
    <3> HIDE DEF e, f
    <3> QED BY <1>1, <1>2, <2>1
  <2> QED BY <1>1, <2>2, Rounding
<1>4. N \in Nat
  <2> HIDE DEF c
  <2> QED BY <1>3 DEF Larger
<1>5. Blocks(start, end) = [i \in 1..N |-> Block(start, end, i - 1)] BY DEF Blocks
<1> HIDE DEF N, c
<1>6. ASSUME NEW i \in 1..N PROVE Block(start, end, i - 1) \in Pkg
  <2> DEFINE u == f * Package + (i - 1) * Package
             x == Larger(start, u)
             y == Smaller(end, u + Package)
  <2>1. u \in Nat
    <3>1. i - 1 \in Nat BY <1>4
    <3> HIDE DEF f
    <3> QED BY <1>1, <1>2, <3>1
  <2>2. Block(start, end, i - 1) = [start |-> x, end |-> y, sub |-> u] BY DEF Block
  <2> HIDE DEF u
  <2>3. x \in Nat /\ y \in Nat BY <1>1, <2>1 DEF Larger, Smaller
  <2> HIDE DEF x, y
  <2> QED BY <2>1, <2>2, <2>3 DEF Pkg
<1>7. Blocks(start, end) \in [1..N -> Pkg]
  <2> SUFFICES [i \in 1..N |-> Block(start, end, i - 1)] \in [1..N -> Pkg] BY <1>5
  <2> QED BY <1>6
<1> QED BY <1>4, <1>5, <1>7

\* mirror_client.py:37-64: the packages of an upload are its blocks that are not
\* empty, they tile it, and each lies in a valid subtree.
LEMMA PackagesAreUpload ==
  ASSUME NEW start \in Nat, NEW end \in Nat
  PROVE  Upload(Packages(start, end), start, end)
<1>1. CASE end <= start
  <2>1. Packages(start, end) = << >> BY <1>1, NoneKept
  <2> QED BY <1>1, <2>1 DEF Upload
<1>2. CASE start < end
  <2> DEFINE b == Blocks(start, end)
  <2>1. Tiles(b, start, end) BY <1>2, BlocksTileTheUpload
  <2>2. PICK N \in Nat : b = [i \in 1..N |-> Block(start, end, i - 1)] BY <1>2, BlocksAreTyped
  <2>3. b \in Seq(Pkg) BY <1>2, BlocksAreTyped
  <2>4. Len(b) = N BY <2>2
  <2>5. Packages(start, end) = b
    <3>1. \A i \in 1..N : b[i].start < b[i].end BY <2>1, <2>4 DEF Tiles
    <3> QED BY <2>2, <3>1, AllKept
  <2>6. ASSUME NEW i \in 1..Len(b) PROVE ValidSubtree(b[i].sub, b[i].end, end)
    <3> HIDE DEF b
    <3>1. b[i] \in Pkg BY <2>3, LenProperties
    <3> DEFINE s == b[i].sub
               e == b[i].end
               a == b[i].start
    <3>2. s \in Nat /\ e \in Nat /\ a \in Nat BY <3>1 DEF Pkg
    <3>3. a < e /\ s % Package = 0 /\ s <= a /\ e = Smaller(end, s + Package)
          BY <2>1 DEF Tiles
    <3> HIDE DEF s, e, a
    <3>4. s < e /\ e <= end /\ e <= s + Package BY <3>2, <3>3, PackageIsPower DEF Smaller
    <3>5. ValidSubtree(s, e, end) BY <3>2, <3>3, <3>4, BlockIsValid
    <3> QED BY <3>5 DEF s, e
  <2> HIDE DEF b
  <2> QED BY <1>2, <2>1, <2>3, <2>5, <2>6 DEF Upload, Tiles
<1> QED BY <1>1, <1>2

\* What is left of b when its first k packages have been sent.
LeftOf(b, k, s) ==
  /\ k \in Nat /\ k <= Len(b) /\ s \in Seq(Pkg) /\ Len(s) = Len(b) - k
  /\ \A i \in 1..Len(s) : s[i] = b[k + i]

LEMMA RoundDown ==
  ASSUME NEW s \in Nat, NEW x \in Nat, NEW p \in Nat, p > 0, s % p = 0, s <= x, x < s + p
  PROVE  s = x - (x % p)
<1> DEFINE q == s \div p
<1>1. s = q * p /\ q \in Nat BY ExactMultiple
<1>2. x - s \in Nat /\ x - s < p OBVIOUS
<1>3. (x - s) % p = x - s BY <1>2
<1>4. x = q * p + (x - s) BY <1>1
<1> DEFINE r == x - s
<1>5. x % p = r
  <2>1. r \in 0..(p - 1) /\ x = q * p + r BY <1>2, <1>4
  <2> HIDE DEF r, q
  <2>2. (q * p + r) % p = r BY <1>1, <2>1, SMTT(30)
  <2> QED BY <2>1, <2>2
<1> QED BY <1>5

\* A sequence may be cut into the next request, of c packages, and the rest.
MayCut(b, k, s, m, c) ==
  b \in Seq(Pkg) /\ LeftOf(b, k, s) /\ m \in Nat \ {0} /\ c = Smaller(m, Len(s))

Cut(b, k, s, m, c, parts, rest) ==
  /\ c \in Nat /\ c <= Len(s)
  /\ parts \in Seq(Pkg) /\ Len(parts) = c
  /\ \A i \in 1..c : parts[i] = s[i]
  /\ LeftOf(b, k + c, rest)
  /\ Len(rest) = Len(s) - c
  /\ c < Len(s) => rest[1] = s[c + 1]

LEMMA CutOff ==
  ASSUME NEW b, NEW k, NEW s, NEW m, NEW c, MayCut(b, k, s, m, c)
  PROVE  Cut(b, k, s, m, c, SubSeq(s, 1, c), SubSeq(s, m + 1, Len(s)))
<1>0. b \in Seq(Pkg) /\ LeftOf(b, k, s) /\ m \in Nat \ {0} /\ c = Smaller(m, Len(s))
      BY DEF MayCut
<1> USE <1>0
<1>1. Len(s) \in Nat /\ Len(b) \in Nat /\ k \in Nat BY LenProperties DEF LeftOf
<1> DEFINE n == Len(s)
           p == SubSeq(s, 1, c)
           r == SubSeq(s, m + 1, n)
<1>2. c \in Nat /\ c <= n BY <1>1 DEF Smaller
<1>3. \A i \in 1..n : s[i] \in Pkg BY <1>1, LenProperties DEF LeftOf
<1>4. p \in Seq(Pkg) /\ Len(p) = c /\ \A i \in 1..c : p[i] = s[i]
  <2>1. \A i \in 1..c : s[i] \in Pkg BY <1>1, <1>2, <1>3
  <2>2. /\ p \in Seq(Pkg) /\ Len(p) = IF 1 <= c THEN c - 1 + 1 ELSE 0
        /\ \A i \in 1..(c - 1 + 1) : p[i] = s[1 + i - 1]
        BY <1>2, <2>1, SubSeqProperties
  <2> HIDE DEF p
  <2>3. c - 1 + 1 = c /\ \A i \in 1..c : 1 + i - 1 = i BY <1>2
  <2> QED BY <1>2, <2>2, <2>3
<1>5. r \in Seq(Pkg) /\ Len(r) = n - c /\ \A i \in 1..(n - c) : r[i] = s[c + i]
  <2>1. \A i \in (m + 1)..n : s[i] \in Pkg BY <1>1, <1>3
  <2>2. m + 1 \in Int /\ n \in Int BY <1>1
  <2>3. /\ r \in Seq(Pkg) /\ Len(r) = IF m + 1 <= n THEN n - (m + 1) + 1 ELSE 0
        /\ \A i \in 1..(n - (m + 1) + 1) : r[i] = s[m + 1 + i - 1]
        BY <2>1, <2>2, SubSeqProperties
  <2> HIDE DEF r
  <2>4. CASE m < n
    <3>1. c = m /\ n - (m + 1) + 1 = n - c /\ m + 1 <= n BY <1>1, <2>4 DEF Smaller
    <3>2. \A i \in 1..(n - c) : m + 1 + i - 1 = c + i BY <1>1, <3>1
    <3> QED BY <2>3, <3>1, <3>2
  <2>5. CASE ~(m < n)
    <3>1. c = n /\ n - c = 0 /\ ~(m + 1 <= n) BY <1>1, <2>5 DEF Smaller
    <3> QED BY <2>3, <3>1
  <2> QED BY <2>4, <2>5
<1> HIDE DEF p, r
<1>6. LeftOf(b, k + c, r)
  <2>1. k + c \in Nat /\ k + c <= Len(b) /\ Len(r) = Len(b) - (k + c)
        BY <1>1, <1>2, <1>5 DEF LeftOf
  <2>2. ASSUME NEW i \in 1..Len(r) PROVE r[i] = b[(k + c) + i]
    <3>1. i \in 1..(n - c) /\ c + i \in 1..n /\ k + (c + i) = (k + c) + i
          BY <1>1, <1>2, <1>5
    <3>2. r[i] = s[c + i] BY <1>5, <3>1
    <3>3. s[c + i] = b[k + (c + i)] BY <3>1 DEF LeftOf
    <3> QED BY <3>1, <3>2, <3>3
  <2> QED BY <1>5, <2>1, <2>2 DEF LeftOf
<1>7. c < n => r[1] = s[c + 1] BY <1>1, <1>2, <1>5
<1> QED BY <1>2, <1>4, <1>5, <1>6, <1>7 DEF p, r, Cut

InOrder(b, from, to, k, s, m, c, parts, rest) ==
  /\ from \in Nat /\ to \in Nat /\ Upload(b, from, to)
  /\ LeftOf(b, k, s) /\ Cut(b, k, s, m, c, parts, rest)

\* A mirror reads the next packages as the client means them, wherever the upload
\* has got to, and finds their proofs in order.
LEMMA CutIsCanonical ==
  ASSUME NEW b, NEW from, NEW to, NEW k, NEW s, NEW m, NEW c, NEW parts, NEW rest,
         InOrder(b, from, to, k, s, m, c, parts, rest)
  PROVE  /\ c # 0 => Canonical(parts, s[1].start, to)
         /\ \A i \in 1..c : ValidSubtree(parts[i].sub, parts[i].end, to) /\ parts[i].end <= to
<1>0. /\ from \in Nat /\ to \in Nat /\ Upload(b, from, to) /\ LeftOf(b, k, s)
      /\ c \in Nat /\ c <= Len(s) /\ Len(parts) = c /\ \A i \in 1..c : parts[i] = s[i]
      BY DEF InOrder, Cut
<1> USE <1>0
<1>1. Len(b) \in Nat /\ Len(s) \in Nat BY LenProperties DEF Upload, LeftOf
<1>2. ASSUME NEW i \in 1..c
      PROVE  /\ k + i \in 1..Len(b) /\ parts[i] = b[k + i] /\ b[k + i] \in Pkg
             /\ i # 1 => i - 1 \in 1..c /\ parts[i - 1] = b[k + i - 1]
                         /\ k + i - 1 \in 1..(Len(b) - 1)
  <2>1. i \in 1..Len(s) /\ k + i \in 1..Len(b) BY <1>1 DEF LeftOf
  <2>2. parts[i] = b[k + i] BY <2>1 DEF LeftOf
  <2>3. b[k + i] \in Pkg BY <1>1, <2>1, LenProperties DEF Upload
  <2>4. ASSUME i # 1
        PROVE  i - 1 \in 1..c /\ parts[i - 1] = b[k + i - 1] /\ k + i - 1 \in 1..(Len(b) - 1)
    <3>1. i - 1 \in 1..c /\ i - 1 \in 1..Len(s) /\ k + (i - 1) = k + i - 1 BY <2>1, <2>4 DEF LeftOf
    <3>2. parts[i - 1] = s[i - 1] /\ s[i - 1] = b[k + (i - 1)] BY <3>1 DEF LeftOf
    <3>3. k + i - 1 \in 1..(Len(b) - 1) BY <1>1, <2>1, <2>4 DEF LeftOf
    <3> QED BY <3>1, <3>2, <3>3
  <2> QED BY <2>1, <2>2, <2>3, <2>4
<1>3. ASSUME NEW i \in 1..c
      PROVE  LET p == parts[i] IN
             /\ p.start \in Nat /\ p.end \in Nat /\ p.sub \in Nat
             /\ p.start < p.end /\ p.sub % Package = 0
             /\ p.sub <= p.start /\ p.start < p.sub + Package
             /\ p.end = Smaller(to, p.sub + Package)
             /\ ValidSubtree(p.sub, p.end, to)
  <2>1. Len(b) # 0 BY <1>1, <1>2
  <2>2. Tiles(b, from, to) BY <2>1 DEF Upload
  <2>3. ValidSubtree(b[k + i].sub, b[k + i].end, to) BY <1>2 DEF Upload
  <2> DEFINE j == k + i
  <2>4. j \in 1..Len(b) /\ parts[i] = b[j] /\ b[j] \in Pkg BY <1>2
  <2> HIDE DEF j
  <2>5. /\ b[j].start < b[j].end /\ b[j].sub % Package = 0
        /\ b[j].sub <= b[j].start /\ b[j].start < b[j].sub + Package
        /\ b[j].end = Smaller(to, b[j].sub + Package)
        BY <2>2, <2>4 DEF Tiles
  <2>6. b[j].start \in Nat /\ b[j].end \in Nat /\ b[j].sub \in Nat BY <2>4 DEF Pkg
  <2> QED BY <2>3, <2>4, <2>5, <2>6 DEF j
<1>4. ASSUME NEW i \in 1..c PROVE parts[i].end <= to /\ parts[i].start < to
  <2> DEFINE x == parts[i].start
             y == parts[i].end
             z == parts[i].sub
  <2>1. x \in Nat /\ y \in Nat /\ z \in Nat /\ x < y /\ y = Smaller(to, z + Package) BY <1>3
  <2> HIDE DEF x, y, z
  <2>2. y <= to BY <2>1, PackageIsPower DEF Smaller
  <2> QED BY <2>1, <2>2 DEF x, y
<1>5. ASSUME NEW i \in 1..c PROVE parts[i].sub = parts[i].start - (parts[i].start % Package)
  <2> DEFINE x == parts[i].start
             z == parts[i].sub
  <2>1. x \in Nat /\ z \in Nat /\ z % Package = 0 /\ z <= x /\ x < z + Package BY <1>3
  <2> HIDE DEF x, z
  <2>2. Package \in Nat /\ Package > 0 BY PackageIsPower
  <2>3. z = x - (x % Package) BY <2>1, <2>2, RoundDown
  <2> QED BY <2>3 DEF x, z
<1>6. ASSUME NEW i \in 1..c, i # 1 PROVE parts[i].start = parts[i - 1].end
  <2>0. Len(b) # 0 BY <1>1, <1>2
  <2>1. Tiles(b, from, to) BY <2>0 DEF Upload
  <2> DEFINE j == k + i - 1
  <2>2. j \in 1..(Len(b) - 1) /\ j + 1 = k + i BY <1>2, <1>6 DEF LeftOf
  <2>3. b[j].end = b[j + 1].start
    <3> HIDE DEF j
    <3> QED BY <2>1, <2>2 DEF Tiles
  <2> QED BY <1>2, <1>6, <2>2, <2>3
<1>7. ASSUME c # 0 PROVE Canonical(parts, s[1].start, to)
  <2>1. parts[1] = s[1] BY <1>7
  <2> QED BY <1>3, <1>4, <1>5, <1>6, <2>1 DEF Canonical
<1> QED BY <1>3, <1>4, <1>7

-----------------------------------------------------------------------------
(* The invariant.                                                          *)

Typed ==
  /\ log \in Sizes /\ dir \in [checkpoint : Sizes, leaves : Leaves]
  /\ mirror \in [checkpoint : Sizes, held : Sizes] /\ mirror.held <= mirror.checkpoint
  /\ mirror.checkpoint <= log /\ dir.checkpoint <= log
  /\ pc \in {"idle", "read", "load", "build", "checkpoint", "entries"}
  /\ rc \in {"none", "ok", "refusing", "unsound", "refused", "raised"}
  /\ size \in Sizes /\ read \in Leaves /\ lo \in From /\ before \in Sizes

\* The newest checkpoint any run has read, or the next one will.
Newest == IF pc \in {"idle", "read"} THEN dir.checkpoint ELSE size

\* Requests that have been sent are of a checkpoint no newer than that, and their
\* packages lie within it.
Sent(r) ==
  /\ r.kind \in {"checkpoint", "entries"} /\ r.to \in Sizes /\ r.to <= Newest
  /\ r.kind = "entries" =>
       r.parts \in Seq(Pkg) /\ \A i \in 1..Len(r.parts) : r.parts[i].end <= r.to

\* Checkpoints reach the mirror in order, however late.
CheckpointsInOrder ==
  /\ size <= dir.checkpoint /\ mirror.checkpoint <= Newest
  /\ \A r \in late : Sent(r)
  /\ pc = "entries" => mirror.checkpoint = size

\* What is still to be sent is the rest of what build_packages made.
Remaining ==
  /\ pc \in {"build", "checkpoint", "entries"} => read.good
  /\ pc = "checkpoint" => packages = Packages(lo, size)
  /\ pc = "entries" => \E k : LeftOf(Packages(lo, size), k, packages)

\* The first entry the mirror is still to be sent.
NextEntry == IF packages = << >> THEN size ELSE packages[1].start

\* The mirror holds all of the upload that has been sent, if it held what comes
\* before the upload.
UploadReached ==
  /\ pc # "idle" => rc = "none" /\ before <= mirror.held
  /\ pc = "entries" /\ lo <= before => NextEntry <= mirror.held

MirrorInv == /\ Typed /\ CheckpointsInOrder /\ Remaining /\ UploadReached
             /\ OwnProofsVerify /\ OnlyGapsAreRefused /\ GoodRunsMirrorTheTree

-----------------------------------------------------------------------------
(* One step at a time.                                                     *)

\* What a step may do to the mirror, and what it may leave under way.
MirrorGrown ==
  /\ mirror' \in [checkpoint : Sizes, held : Sizes] /\ mirror'.held <= mirror'.checkpoint
  /\ mirror.held <= mirror'.held /\ mirror'.checkpoint <= Newest
  /\ pc = "entries" => mirror'.checkpoint = size

LateGrown == \A r \in late' : Sent(r)

LEMMA SizesAreNumbers ==
  /\ Sizes \subseteq Nat /\ 0 \in Sizes /\ From \subseteq Nat /\ MaxSize \in Nat \ {0}
  /\ MaxPackages \in Nat \ {0}
  /\ \A x \in Sizes : \A y \in Nat : y <= x => y \in Sizes
BY MirrorAssumption DEF Sizes

LEMMA NewestIsWithin ==
  ASSUME Typed, CheckpointsInOrder
  PROVE  Newest \in Sizes /\ size <= Newest /\ Newest <= dir.checkpoint /\ Newest <= log
<1>1. /\ dir.checkpoint \in Sizes /\ size \in Sizes /\ log \in Sizes
      /\ size <= dir.checkpoint /\ dir.checkpoint <= log
      BY DEF Typed, CheckpointsInOrder
<1>2. dir.checkpoint \in Nat /\ size \in Nat /\ log \in Nat BY <1>1, SizesAreNumbers
<1>3. CASE Newest = size BY <1>1, <1>2, <1>3
<1>4. CASE Newest = dir.checkpoint BY <1>1, <1>2, <1>4
<1> QED BY <1>3, <1>4 DEF Newest

\* Where a package ends, the next one starts, or the upload is over.
LEMMA NextStartsThere ==
  ASSUME NEW b, NEW from \in Nat, NEW to \in Nat, Upload(b, from, to),
         NEW k, NEW s, LeftOf(b, k, s), NEW c \in 1..Len(s)
  PROVE  s[c].end = IF c = Len(s) THEN to ELSE s[c + 1].start
<1>1. Len(s) \in Nat /\ Len(b) \in Nat /\ k \in Nat /\ Len(s) = Len(b) - k
      BY LenProperties DEF Upload, LeftOf
<1>2. Len(b) # 0 BY <1>1
<1>3. Tiles(b, from, to) BY <1>2 DEF Upload
<1>4. s[c] = b[k + c] BY DEF LeftOf
<1>5. CASE c = Len(s)
  <2>1. k + c = Len(b) BY <1>1, <1>5
  <2> QED BY <1>3, <1>4, <1>5, <2>1 DEF Tiles
<1>6. CASE c # Len(s)
  <2> DEFINE j == k + c
  <2>1. j \in 1..(Len(b) - 1) /\ c + 1 \in 1..Len(s) /\ k + (c + 1) = j + 1 BY <1>1, <1>6
  <2>2. s[c + 1] = b[j + 1] BY <2>1 DEF LeftOf
  <2> HIDE DEF j
  <2>3. b[j].end = b[j + 1].start BY <1>3, <2>1 DEF Tiles
  <2> QED BY <1>4, <1>6, <2>2, <2>3 DEF j
<1> QED BY <1>5, <1>6

LEMMA UploadOfRun == ASSUME Typed PROVE Upload(Packages(lo, size), lo, size) /\ lo \in Nat /\ size \in Nat
<1>1. lo \in Nat /\ size \in Nat BY SizesAreNumbers DEF Typed
<1> QED BY <1>1, PackagesAreUpload

\* The request that is sent next.
LEMMA ChunkFacts ==
  ASSUME MirrorInv, pc = "entries", packages # << >>
  PROVE  /\ Chunk.kind = "entries" /\ Chunk.from = packages[1].start /\ Chunk.to = size /\ Chunk.good
         /\ Chunk.parts \in Seq(Pkg) /\ Len(Chunk.parts) \in Nat \ {0}
         /\ Canonical(Chunk.parts, Chunk.from, Chunk.to)
         /\ \A i \in 1..Len(Chunk.parts) :
              /\ ValidSubtree(Chunk.parts[i].sub, Chunk.parts[i].end, Chunk.to)
              /\ Chunk.parts[i].end <= Chunk.to
         /\ Sent(Chunk)
         /\ \E k : LeftOf(Packages(lo, size), k, Rest)
         /\ Chunk.parts[Len(Chunk.parts)].end = IF Rest = << >> THEN size ELSE Rest[1].start
<1> DEFINE b == Packages(lo, size)
           c == Smaller(MaxPackages, Len(packages))
           parts == SubSeq(packages, 1, c)
<1>1. PICK k : LeftOf(b, k, packages) BY DEF MirrorInv, Remaining
<1>2. Upload(b, lo, size) /\ lo \in Nat /\ size \in Nat BY UploadOfRun DEF MirrorInv
<1>3. MaxPackages \in Nat \ {0} BY SizesAreNumbers
<1>4. b \in Seq(Pkg) BY <1>2 DEF Upload
<1>5. Len(packages) \in Nat /\ Len(packages) # 0 /\ packages \in Seq(Pkg)
      BY <1>1, LenProperties, EmptySeq DEF LeftOf
<1>6. c \in Nat /\ c # 0 BY <1>3, <1>5 DEF Smaller
<1> HIDE DEF b
<1>7. Cut(b, k, packages, MaxPackages, c, parts, Rest)
  <2> HIDE DEF c
  <2>1. c = Smaller(MaxPackages, Len(packages)) BY DEF c
  <2>2. MayCut(b, k, packages, MaxPackages, c) BY <1>1, <1>3, <1>4, <2>1 DEF MayCut
  <2> QED BY <2>2, CutOff DEF Rest
<1> HIDE DEF c, parts
<1>8. /\ Canonical(parts, packages[1].start, size)
      /\ \A i \in 1..c : ValidSubtree(parts[i].sub, parts[i].end, size) /\ parts[i].end <= size
  <2>1. InOrder(b, lo, size, k, packages, MaxPackages, c, parts, Rest)
        BY <1>1, <1>2, <1>7 DEF InOrder
  <2> QED BY <1>6, <2>1, CutIsCanonical
<1>9. /\ Chunk.kind = "entries" /\ Chunk.from = packages[1].start /\ Chunk.to = size
      /\ Chunk.good = read.good /\ Chunk.parts = parts
      BY DEF Chunk, parts, c
<1>10. read.good BY DEF MirrorInv, Remaining
<1>11. size \in Sizes /\ size <= Newest BY NewestIsWithin DEF MirrorInv, Typed
<1>12. Sent(Chunk) BY <1>7, <1>8, <1>9, <1>11 DEF Sent, Cut
<1>13. parts[c].end = IF Rest = << >> THEN size ELSE Rest[1].start
  <2>0. /\ c <= Len(packages) /\ Len(Rest) = Len(packages) - c
        /\ c < Len(packages) => Rest[1] = packages[c + 1]
        BY <1>7 DEF Cut
  <2>1. c \in 1..Len(packages) BY <1>5, <1>6, <2>0
  <2>2. packages[c].end = IF c = Len(packages) THEN size ELSE packages[c + 1].start
        BY <1>1, <1>2, <2>1, NextStartsThere
  <2>3. parts[c] = packages[c] BY <1>6, <1>7 DEF Cut
  <2>4. Rest \in Seq(Pkg) BY <1>7 DEF LeftOf, Cut
  <2>5. CASE c = Len(packages)
    <3>1. Len(Rest) = 0 BY <1>5, <2>0, <2>5
    <3>2. Rest = << >> BY <2>4, <3>1, EmptySeq
    <3> QED BY <2>2, <2>3, <2>5, <3>2
  <2>6. CASE c # Len(packages)
    <3>1. Len(Rest) # 0 /\ c < Len(packages) BY <1>5, <1>6, <2>0, <2>6
    <3>2. Rest # << >> BY <3>1, EmptySeq
    <3> QED BY <2>0, <2>2, <2>3, <2>6, <3>1, <3>2
  <2> QED BY <2>5, <2>6
<1> QED BY <1>6, <1>7, <1>8, <1>9, <1>10, <1>12, <1>13 DEF b, Cut

\* A request that the mirror serves, in whole or in part, moves it forwards, and
\* never past the newest checkpoint.
LEMMA AfterGrows ==
  ASSUME MirrorInv, NEW r, Sent(r), NEW k,
         r.kind # "checkpoint" => r.to = mirror.checkpoint /\ k \in 0..Len(r.parts),
         mirror' = After(r, k)
  PROVE  /\ MirrorGrown
         /\ r.kind = "checkpoint" => mirror'.checkpoint >= r.to
         /\ r.kind # "checkpoint" /\ k # 0 => mirror'.held >= r.parts[k].end
<1> DEFINE c == mirror.checkpoint
           h == mirror.held
<1>1. /\ mirror = [checkpoint |-> c, held |-> h] /\ c \in Sizes /\ h \in Sizes /\ h <= c
      /\ c <= Newest /\ (pc = "entries" => c = size)
      BY DEF MirrorInv, Typed, CheckpointsInOrder
<1>2. /\ Newest \in Sizes /\ size \in Sizes /\ (pc = "entries" => Newest = size)
      BY NewestIsWithin DEF MirrorInv, Typed, Newest
<1>3. c \in Nat /\ h \in Nat /\ Newest \in Nat /\ size \in Nat BY <1>1, <1>2, SizesAreNumbers
<1>4. r.to \in Sizes /\ r.to \in Nat /\ r.to <= Newest BY SizesAreNumbers DEF Sent
<1>5. CASE r.kind = "checkpoint"
  <2>1. mirror' = [mirror EXCEPT !.checkpoint = Larger(c, r.to)] BY <1>5 DEF After
  <2> DEFINE n == Larger(c, r.to)
  <2>2. /\ n \in Sizes /\ c <= n /\ r.to <= n /\ n <= Newest /\ n \in Nat
        BY <1>1, <1>3, <1>4 DEF Larger
  <2> HIDE DEF n, c, h
  <2>3. mirror' = [checkpoint |-> n, held |-> h] BY <1>1, <2>1 DEF n
  <2>4. mirror'.checkpoint = n /\ mirror'.held = h /\ mirror.held = h BY <1>1, <2>3
  <2>5. pc = "entries" => n = size BY <1>1, <1>2, <1>3, <2>2
  <2>6. mirror' \in [checkpoint : Sizes, held : Sizes] BY <1>1, <2>2, <2>3
  <2>7. h <= n BY <1>1, <1>3, <2>2
  <2> QED BY <1>3, <1>4, <1>5, <2>2, <2>4, <2>5, <2>6, <2>7 DEF MirrorGrown
<1>6. CASE r.kind # "checkpoint"
  <2> DEFINE n == IF k = 0 THEN h ELSE Larger(h, r.parts[k].end)
  <2>1. mirror' = [mirror EXCEPT !.held = n] BY <1>6 DEF After
  <2>2. n \in Nat /\ h <= n /\ n <= c /\ (k # 0 => n >= r.parts[k].end)
    <3>1. CASE k = 0 BY <1>1, <1>3, <3>1
    <3>2. CASE k # 0
      <4>1. r.parts \in Seq(Pkg) /\ \A i \in 1..Len(r.parts) : r.parts[i].end <= r.to
            BY <1>6 DEF Sent
      <4>2. k \in 1..Len(r.parts) BY <1>6, <3>2, <4>1, LenProperties
      <4>3. r.parts[k] \in Pkg BY <4>1, <4>2, LenProperties
      <4> DEFINE x == r.parts[k].end
      <4>4. x \in Nat /\ x <= c BY <1>6, <4>1, <4>2, <4>3 DEF Pkg
      <4>5. n = Larger(h, x) BY <3>2
      <4> HIDE DEF x, n, h, c
      <4>6. n \in Nat /\ h <= n /\ n <= c /\ n >= x BY <1>1, <1>3, <4>4, <4>5 DEF Larger
      <4> QED BY <4>6 DEF x
    <3> QED BY <3>1, <3>2
  <2> HIDE DEF n, c, h
  <2>3. n \in Sizes BY <1>1, <2>2, SizesAreNumbers
  <2>4. mirror' = [checkpoint |-> c, held |-> n] BY <1>1, <2>1
  <2>5. mirror'.checkpoint = c /\ mirror'.held = n /\ mirror.held = h BY <1>1, <2>4
  <2>6. mirror' \in [checkpoint : Sizes, held : Sizes] BY <1>1, <2>3, <2>4
  <2> QED BY <1>1, <1>6, <2>2, <2>5, <2>6 DEF MirrorGrown
<1> QED BY <1>5, <1>6

LEMMA MirrorStays ==
  ASSUME MirrorInv, UNCHANGED mirror
  PROVE  MirrorGrown
<1>1. mirror.held \in Nat BY SizesAreNumbers DEF MirrorInv, Typed
<1> QED BY <1>1 DEF MirrorInv, Typed, CheckpointsInOrder, MirrorGrown

LEMMA LateStays ==
  ASSUME MirrorInv, late' \subseteq late
  PROVE  LateGrown
BY DEF MirrorInv, CheckpointsInOrder, LateGrown

\* A step after which the newest checkpoint is no older leaves what is under way in
\* order.
LEMMA OrderIsKept ==
  ASSUME MirrorInv, MirrorGrown, LateGrown, Newest <= Newest', Newest' \in Nat
  PROVE  mirror'.checkpoint <= Newest' /\ \A r \in late' : Sent(r)'
<1>1. Newest \in Nat BY NewestIsWithin, SizesAreNumbers DEF MirrorInv
<1>2. mirror'.checkpoint \in Nat BY SizesAreNumbers DEF MirrorGrown
<1>3. mirror'.checkpoint <= Newest' BY <1>1, <1>2 DEF MirrorGrown
<1>4. ASSUME NEW r \in late' PROVE Sent(r)'
  <2>1. Sent(r) BY DEF LateGrown
  <2>2. r.to \in Nat BY <2>1, SizesAreNumbers DEF Sent
  <2>3. r.to <= Newest' BY <1>1, <2>1, <2>2 DEF Sent
  <2> QED BY <2>1, <2>3 DEF Sent
<1> QED BY <1>3, <1>4

\* A run that ends, however it does.
LEMMA EndsInOrder ==
  ASSUME MirrorInv, MirrorGrown, LateGrown,
         pc' = "idle", rc' \in {"ok", "refusing", "refused", "raised"},
         UNCHANGED <<directory, lo, size, before>>, read' \in Leaves,
         rc' = "refused" => lo > before,
         rc' = "ok" /\ lo <= before => mirror'.held >= size
  PROVE  MirrorInv'
<1>1. Newest' = dir.checkpoint BY DEF Newest, directory
<1>2. Newest <= Newest' /\ Newest' \in Nat
      BY <1>1, NewestIsWithin, SizesAreNumbers DEF MirrorInv, Typed
<1>3. mirror'.checkpoint <= Newest' /\ \A r \in late' : Sent(r)' BY <1>2, OrderIsKept
<1>4. Typed'
  <2>1. mirror'.checkpoint <= log
    <3>1. Newest <= log /\ Newest \in Nat /\ log \in Nat /\ mirror'.checkpoint \in Nat
          BY NewestIsWithin, SizesAreNumbers DEF MirrorInv, Typed, MirrorGrown
    <3> QED BY <3>1 DEF MirrorGrown
  <2> QED BY <2>1 DEF MirrorInv, Typed, MirrorGrown, directory
<1>5. CheckpointsInOrder' BY <1>3 DEF MirrorInv, CheckpointsInOrder, directory
<1>6. Remaining' BY DEF Remaining
<1>7. UploadReached' BY DEF UploadReached
<1>8. OwnProofsVerify' /\ OnlyGapsAreRefused' /\ GoodRunsMirrorTheTree'
      BY DEF OwnProofsVerify, OnlyGapsAreRefused, GoodRunsMirrorTheTree
<1> QED BY <1>4, <1>5, <1>6, <1>7, <1>8 DEF MirrorInv

-----------------------------------------------------------------------------
(* Each action keeps the invariant.                                        *)

LEMMA InitInv == Init => MirrorInv
<1> SUFFICES ASSUME Init PROVE MirrorInv OBVIOUS
<1>1. MaxSize \in Nat \ {0} /\ 0 \in From /\ 0 \in Sizes /\ log \in Sizes /\ log \in Nat /\ 0 <= log
      BY MirrorAssumption DEF Init, Sizes
<1>2. dir.checkpoint = log /\ mirror.checkpoint = 0 /\ mirror.held = 0 BY DEF Init
<1>3. Typed BY <1>1, <1>2 DEF Init, Typed, Leaves, Nobody
<1>4. CheckpointsInOrder BY <1>1, <1>2 DEF Init, CheckpointsInOrder, Newest
<1>5. Remaining /\ UploadReached BY DEF Init, Remaining, UploadReached
<1>6. OwnProofsVerify /\ OnlyGapsAreRefused /\ GoodRunsMirrorTheTree
      BY DEF Init, OwnProofsVerify, OnlyGapsAreRefused, GoodRunsMirrorTheTree
<1> QED BY <1>3, <1>4, <1>5, <1>6 DEF MirrorInv

\* The directory may change at any time: its checkpoint never goes back.
LEMMA DirectoryChanges ==
  ASSUME MirrorInv, log' \in Sizes, log <= log',
         dir' \in [checkpoint : Sizes, leaves : Leaves],
         dir.checkpoint <= dir'.checkpoint, dir'.checkpoint <= log',
         UNCHANGED <<mirror, late, run>>
  PROVE  MirrorInv'
<1>1. /\ log \in Nat /\ log' \in Nat /\ dir.checkpoint \in Nat /\ dir'.checkpoint \in Nat
      /\ size \in Nat /\ mirror.checkpoint \in Nat /\ mirror.checkpoint <= log
      BY SizesAreNumbers DEF MirrorInv, Typed
<1>2. Newest <= Newest' /\ Newest' \in Nat
  <2>1. pc' = pc /\ size' = size BY DEF run
  <2> QED BY <1>1, <2>1 DEF Newest
<1>3. MirrorGrown /\ LateGrown BY MirrorStays, LateStays
<1>4. mirror'.checkpoint <= Newest' /\ \A r \in late' : Sent(r)' BY <1>2, <1>3, OrderIsKept
<1>5. Typed' BY <1>1 DEF MirrorInv, Typed, run
<1>6. CheckpointsInOrder' BY <1>1, <1>4 DEF MirrorInv, CheckpointsInOrder, run
<1>7. Remaining' BY DEF MirrorInv, Remaining, run
<1>8. UploadReached' BY DEF MirrorInv, UploadReached, NextEntry, run
<1>9. OwnProofsVerify' /\ OnlyGapsAreRefused' /\ GoodRunsMirrorTheTree'
      BY DEF MirrorInv, OwnProofsVerify, OnlyGapsAreRefused, GoodRunsMirrorTheTree, run
<1> QED BY <1>5, <1>6, <1>7, <1>8, <1>9 DEF MirrorInv

LEMMA GrowInv == MirrorInv /\ Grow => MirrorInv'
<1> SUFFICES ASSUME MirrorInv, Grow PROVE MirrorInv' OBVIOUS
<1>1. log \in Nat /\ MaxSize \in Nat /\ log' \in (log + 1)..MaxSize
      BY SizesAreNumbers DEF MirrorInv, Typed, Grow
<1>2. log' \in Sizes /\ log <= log' BY <1>1 DEF Sizes
<1>3. dir' = dir /\ UNCHANGED <<mirror, late, run>> BY DEF Grow, Changed
<1>4. /\ dir \in [checkpoint : Sizes, leaves : Leaves] /\ dir.checkpoint \in Nat
      /\ dir.checkpoint <= log
      BY SizesAreNumbers DEF MirrorInv, Typed
<1>5. dir.checkpoint <= dir'.checkpoint /\ dir'.checkpoint <= log'
      BY <1>1, <1>2, <1>3, <1>4
<1> QED BY <1>2, <1>3, <1>4, <1>5, DirectoryChanges

LEMMA PublishInv == MirrorInv /\ (PublishCheckpoint \/ PublishLeaves) => MirrorInv'
<1> SUFFICES ASSUME MirrorInv, PublishCheckpoint \/ PublishLeaves PROVE MirrorInv' OBVIOUS
<1> DEFINE d == dir.checkpoint
           e == dir.leaves
<1>1. /\ log \in Sizes /\ log \in Nat /\ d \in Sizes /\ d \in Nat /\ d <= log
      /\ e \in Leaves /\ dir = [checkpoint |-> d, leaves |-> e]
      BY SizesAreNumbers DEF MirrorInv, Typed
<1>2. log' = log /\ UNCHANGED <<mirror, late, run>> BY DEF PublishCheckpoint, PublishLeaves, Changed
<1>3. /\ dir' \in [checkpoint : Sizes, leaves : Leaves]
      /\ d <= dir'.checkpoint /\ dir'.checkpoint <= log'
  <2>1. CASE PublishCheckpoint
    <3>1. dir' = [checkpoint |-> log, leaves |-> e] BY <1>1, <2>1 DEF PublishCheckpoint
    <3> HIDE DEF d, e
    <3> QED BY <1>1, <1>2, <3>1
  <2>2. CASE PublishLeaves
    <3>1. PICK good \in BOOLEAN : dir' = [dir EXCEPT !.leaves = [n |-> log, good |-> good]]
          BY <2>2 DEF PublishLeaves
    <3> DEFINE l == [n |-> log, good |-> good]
    <3>2. l \in Leaves BY <1>1 DEF Leaves
    <3> HIDE DEF l, d, e
    <3>3. dir' = [checkpoint |-> d, leaves |-> l] BY <1>1, <3>1 DEF l
    <3> QED BY <1>1, <1>2, <3>2, <3>3
  <2> QED BY <2>1, <2>2
<1> QED BY <1>1, <1>2, <1>3, DirectoryChanges

\* A run that goes on and leaves the directory, the mirror and what is under way
\* alone.
LEMMA GoesOn ==
  ASSUME MirrorInv, UNCHANGED <<directory, mirror, late>>,
         Newest' = Newest, size' \in Sizes, size' <= dir.checkpoint,
         lo' \in From, read' \in Leaves, before' \in Sizes, before' <= mirror.held,
         pc' \in {"read", "load", "build", "checkpoint"}, rc' = "none",
         Remaining'
  PROVE  MirrorInv'
<1>0. Newest \in Nat BY NewestIsWithin, SizesAreNumbers DEF MirrorInv
<1>1. Newest <= Newest' /\ Newest' \in Nat BY <1>0
<1>2. MirrorGrown /\ LateGrown BY MirrorStays, LateStays
<1>3. mirror'.checkpoint <= Newest' /\ \A r \in late' : Sent(r)' BY <1>1, <1>2, OrderIsKept
<1>4. Typed' BY DEF MirrorInv, Typed, directory
<1>5. CheckpointsInOrder' BY <1>3 DEF MirrorInv, CheckpointsInOrder, directory
<1>6. UploadReached' BY DEF MirrorInv, UploadReached
<1>7. OwnProofsVerify' /\ OnlyGapsAreRefused' /\ GoodRunsMirrorTheTree'
      BY DEF OwnProofsVerify, OnlyGapsAreRefused, GoodRunsMirrorTheTree
<1> QED BY <1>4, <1>5, <1>6, <1>7 DEF MirrorInv

LEMMA StartInv == ASSUME MirrorInv, NEW from \in From, Start(from) PROVE MirrorInv'
<1>1. Newest' = Newest BY DEF Start, Newest, directory
<1>2. /\ mirror.held \in Sizes /\ mirror.held \in Nat
      /\ size \in Sizes /\ size <= dir.checkpoint /\ read \in Leaves
      BY SizesAreNumbers DEF MirrorInv, Typed, CheckpointsInOrder
<1>3. Remaining' BY DEF Start, Remaining
<1>4. mirror.held <= mirror.held BY <1>2
<1> QED BY <1>1, <1>2, <1>3, <1>4, GoesOn DEF Start

LEMMA ReadCheckpointInv == MirrorInv /\ ReadCheckpoint => MirrorInv'
<1> SUFFICES ASSUME MirrorInv, ReadCheckpoint PROVE MirrorInv' OBVIOUS
<1>1. Newest' = Newest BY DEF ReadCheckpoint, Newest
<1>2. dir.checkpoint \in Sizes /\ dir.checkpoint \in Nat
      BY SizesAreNumbers DEF MirrorInv, Typed
<1>3. Remaining' BY DEF ReadCheckpoint, Remaining
<1>4. lo \in From /\ read \in Leaves /\ before \in Sizes BY DEF MirrorInv, Typed
<1>5. rc = "none" /\ before <= mirror.held BY DEF MirrorInv, UploadReached, ReadCheckpoint
<1>6. dir.checkpoint <= dir.checkpoint BY <1>2
<1> QED BY <1>1, <1>2, <1>3, <1>4, <1>5, <1>6, GoesOn DEF ReadCheckpoint

LEMMA LoadLeavesInv == MirrorInv /\ LoadLeaves => MirrorInv'
<1> SUFFICES ASSUME MirrorInv, LoadLeaves PROVE MirrorInv' OBVIOUS
<1>1. /\ UNCHANGED <<directory, mirror, late, lo, size, before>> /\ read' = dir.leaves
      /\ dir.leaves \in Leaves
      BY DEF MirrorInv, Typed, LoadLeaves
<1>2. /\ lo \in From /\ before \in Sizes /\ size \in Sizes /\ size <= dir.checkpoint
      /\ rc = "none" /\ before <= mirror.held
      BY DEF MirrorInv, Typed, CheckpointsInOrder, UploadReached, LoadLeaves
<1>3. CASE dir.leaves.n = size /\ dir.leaves.good
  <2>1. pc' = "build" /\ rc' = rc BY <1>3 DEF LoadLeaves
  <2>2. Newest' = Newest BY <1>1, <2>1 DEF Newest, LoadLeaves
  <2>3. Remaining' BY <1>1, <1>3, <2>1 DEF Remaining
  <2> QED BY <1>1, <1>2, <2>1, <2>2, <2>3, GoesOn
<1>4. CASE ~(dir.leaves.n = size /\ dir.leaves.good)
  <2>1. pc' = "idle" /\ rc' = "refusing" BY <1>4 DEF LoadLeaves
  <2>2. MirrorGrown /\ LateGrown BY <1>1, MirrorStays, LateStays
  <2> QED BY <1>1, <2>1, <2>2, EndsInOrder
<1> QED BY <1>3, <1>4

\* The client never refuses its own proofs.
LEMMA BuildInv == MirrorInv /\ Build => MirrorInv'
<1> SUFFICES ASSUME MirrorInv, Build PROVE MirrorInv' OBVIOUS
<1>1. Upload(Packages(lo, size), lo, size) BY UploadOfRun DEF MirrorInv
<1>2. packages' = Packages(lo, size) BY DEF Build
<1>3. \A i \in DOMAIN packages' : ValidSubtree(packages'[i].sub, packages'[i].end, size)
  <2> DEFINE b == Packages(lo, size)
  <2>1. Upload(b, lo, size) BY <1>1
  <2>2. packages' = b BY <1>2
  <2> HIDE DEF b
  <2>3. DOMAIN b = 1..Len(b) BY <2>1, LenProperties DEF Upload
  <2> QED BY <2>1, <2>2, <2>3 DEF Upload
<1>4. pc' = "checkpoint" /\ rc' = rc BY <1>3 DEF Build
<1>5. UNCHANGED <<directory, mirror, late, lo, size, read, before>> BY DEF Build
<1>6. Newest' = Newest BY <1>4, <1>5 DEF Newest, Build
<1>7. Remaining' BY <1>2, <1>4, <1>5 DEF MirrorInv, Remaining, Build
<1>8. /\ lo \in From /\ before \in Sizes /\ size \in Sizes /\ size <= dir.checkpoint
      /\ read \in Leaves /\ rc = "none" /\ before <= mirror.held
      BY DEF MirrorInv, Typed, CheckpointsInOrder, UploadReached, Build
<1> QED BY <1>4, <1>5, <1>6, <1>7, <1>8, GoesOn

LEMMA CheckpointIsSent ==
  ASSUME MirrorInv
  PROVE  Sent(CheckpointRequest) /\ CheckpointRequest.kind = "checkpoint" /\ CheckpointRequest.to = size
<1>1. size \in Sizes /\ size <= Newest BY NewestIsWithin DEF MirrorInv, Typed
<1> QED BY <1>1 DEF Sent, CheckpointRequest

\* The first package is at --from.
LEMMA FirstEntry ==
  ASSUME MirrorInv, packages = Packages(lo, size), lo <= before, before <= mirror.held
  PROVE  NextEntry <= mirror.held
<1> DEFINE b == Packages(lo, size)
<1>1. Upload(b, lo, size) /\ lo \in Nat /\ size \in Nat BY UploadOfRun DEF MirrorInv
<1>2. before \in Nat /\ mirror.held \in Nat BY SizesAreNumbers DEF MirrorInv, Typed
<1>3. packages = b OBVIOUS
<1> HIDE DEF b
<1>4. b \in Seq(Pkg) BY <1>1 DEF Upload
<1>5. CASE b = << >>
  <2>1. size <= lo
    <3>1. Len(b) = 0 BY <1>5, EmptySeq
    <3> QED BY <1>1, <3>1 DEF Upload
  <2> QED BY <1>1, <1>2, <1>3, <1>5, <2>1 DEF NextEntry
<1>6. CASE b # << >>
  <2>1. Len(b) # 0 BY <1>4, <1>6, EmptySeq
  <2>2. b[1].start = lo BY <1>1, <2>1 DEF Upload, Tiles
  <2> QED BY <1>1, <1>2, <1>3, <1>6, <2>2 DEF NextEntry
<1> QED BY <1>5, <1>6

\* Once the mirror has the checkpoint, or the next packages, of a run.
LEMMA EntriesGoOn ==
  ASSUME MirrorInv, MirrorGrown, pc \in {"checkpoint", "entries"}, pc' = "entries",
         mirror'.checkpoint = size,
         UNCHANGED <<directory, late, rc, lo, size, read, before>>,
         \E k : LeftOf(Packages(lo, size), k, packages'),
         lo <= before => NextEntry' <= mirror'.held
  PROVE  MirrorInv'
<1>1. Newest' = size /\ Newest = size BY DEF Newest
<1>2. size \in Nat /\ mirror.held \in Nat /\ mirror'.held \in Nat /\ before \in Nat
      BY SizesAreNumbers DEF MirrorInv, Typed, MirrorGrown
<1>3. LateGrown BY LateStays
<1>4. Newest <= Newest' /\ Newest' \in Nat BY <1>1, <1>2
<1>5. mirror'.checkpoint <= Newest' /\ \A r \in late' : Sent(r)' BY <1>3, <1>4, OrderIsKept
<1>6. Typed'
  <2>1. size <= log BY <1>1, NewestIsWithin DEF MirrorInv
  <2> QED BY <2>1 DEF MirrorInv, Typed, MirrorGrown, directory
<1>7. CheckpointsInOrder' BY <1>5 DEF MirrorInv, CheckpointsInOrder, directory
<1>8. Remaining'
  <2>1. read.good BY DEF MirrorInv, Remaining
  <2> QED BY <2>1 DEF Remaining
<1>9. UploadReached'
  <2>1. rc = "none" /\ before <= mirror.held /\ mirror.held <= mirror'.held
        BY DEF MirrorInv, UploadReached, MirrorGrown
  <2>2. before <= mirror'.held BY <1>2, <2>1
  <2> QED BY <2>1, <2>2 DEF UploadReached
<1>10. OwnProofsVerify' /\ OnlyGapsAreRefused' /\ GoodRunsMirrorTheTree'
  <2>1. rc' = "none" BY DEF MirrorInv, UploadReached
  <2> QED BY <2>1 DEF OwnProofsVerify, OnlyGapsAreRefused, GoodRunsMirrorTheTree
<1> QED BY <1>6, <1>7, <1>8, <1>9, <1>10 DEF MirrorInv

LEMMA PostCheckpointInv == MirrorInv /\ PostCheckpoint => MirrorInv'
<1> SUFFICES ASSUME MirrorInv, PostCheckpoint PROVE MirrorInv' OBVIOUS
<1> DEFINE r == CheckpointRequest
           b == Packages(lo, size)
<1>1. Sent(r) /\ r.kind = "checkpoint" /\ r.to = size BY CheckpointIsSent
<1>2. mirror' = After(r, 1) BY <1>1 DEF PostCheckpoint, Served
<1>3. MirrorGrown /\ mirror'.checkpoint >= size
  <2> HIDE DEF r
  <2>1. r.kind # "checkpoint" => r.to = mirror.checkpoint /\ 1 \in 0..Len(r.parts) BY <1>1
  <2> QED BY <1>1, <1>2, <2>1, AfterGrows
<1>4. pc = "checkpoint" /\ Newest = size BY DEF PostCheckpoint, Newest
<1>5. mirror'.checkpoint = size
  <2>1. mirror'.checkpoint \in Nat /\ size \in Nat /\ mirror'.checkpoint <= size
        BY <1>3, <1>4, SizesAreNumbers DEF MirrorGrown, MirrorInv, Typed
  <2> QED BY <1>3, <2>1
<1>6. packages = b /\ packages' = packages BY <1>4 DEF MirrorInv, Remaining, PostCheckpoint
<1>7. LeftOf(b, 0, b)
  <2>1. Upload(b, lo, size) BY UploadOfRun DEF MirrorInv
  <2>2. b \in Seq(Pkg) BY <2>1 DEF Upload
  <2> HIDE DEF b
  <2>3. Len(b) \in Nat BY <2>2, LenProperties
  <2> QED BY <2>2, <2>3 DEF LeftOf
<1>8. \E k : LeftOf(b, k, packages') BY <1>6, <1>7
<1>9. lo <= before => NextEntry' <= mirror'.held
  <2>1. NextEntry' = NextEntry BY <1>6 DEF NextEntry, PostCheckpoint
  <2>2. before <= mirror.held BY <1>4 DEF MirrorInv, UploadReached
  <2>3. lo <= before => NextEntry <= mirror.held BY <1>6, <2>2, FirstEntry
  <2>4. mirror' = [mirror EXCEPT !.checkpoint = Larger(@, size)] BY <1>1, <1>2 DEF After
  <2>5. mirror'.held = mirror.held BY <2>4 DEF MirrorInv, Typed
  <2> QED BY <2>1, <2>3, <2>5
<1> QED BY <1>3, <1>4, <1>5, <1>8, <1>9, EntriesGoOn DEF PostCheckpoint

LEMMA PostEntriesInv == MirrorInv /\ PostEntries => MirrorInv'
<1> SUFFICES ASSUME MirrorInv, PostEntries PROVE MirrorInv' OBVIOUS
<1> DEFINE r == Chunk
           n == Len(r.parts)
<1>1. pc = "entries" /\ packages # << >> /\ packages' = Rest /\ pc' = pc BY DEF PostEntries
<1>2. /\ r.kind = "entries" /\ r.to = size /\ n \in Nat /\ n # 0 /\ Sent(r)
      /\ \E k : LeftOf(Packages(lo, size), k, Rest)
      /\ r.parts[n].end = IF Rest = << >> THEN size ELSE Rest[1].start
      BY <1>1, ChunkFacts
<1> HIDE DEF r
<1>3. mirror' = After(r, n) BY <1>2 DEF PostEntries, Served, r
<1>4. mirror.checkpoint = size BY <1>1 DEF MirrorInv, CheckpointsInOrder
<1>5. MirrorGrown /\ mirror'.held >= r.parts[n].end
  <2>1. r.kind # "checkpoint" => r.to = mirror.checkpoint /\ n \in 0..Len(r.parts)
        BY <1>2, <1>4
  <2>2. r.kind # "checkpoint" BY <1>2
  <2> HIDE DEF n
  <2> QED BY <1>2, <1>3, <2>1, <2>2, AfterGrows
<1>6. mirror'.checkpoint = size BY <1>1, <1>5 DEF MirrorGrown
<1>7. NextEntry' = r.parts[n].end
  <2>1. size' = size BY DEF PostEntries
  <2> QED BY <1>1, <1>2, <2>1 DEF NextEntry
<1>8. NextEntry' <= mirror'.held BY <1>5, <1>7
<1>9. \E k : LeftOf(Packages(lo, size), k, packages') BY <1>1, <1>2
<1> QED BY <1>1, <1>5, <1>6, <1>8, <1>9, EntriesGoOn DEF PostEntries

\* A request that starts within what the mirror holds is taken.
LEMMA ChunkIsTaken ==
  ASSUME MirrorInv, pc = "entries", packages # << >>, lo <= before
  PROVE  Takes(Chunk)
<1> DEFINE r == Chunk
<1>1. /\ r.kind = "entries" /\ r.from = packages[1].start /\ r.to = size /\ r.good
      /\ r.parts \in Seq(Pkg) /\ Canonical(r.parts, r.from, r.to)
      /\ \A i \in 1..Len(r.parts) : ValidSubtree(r.parts[i].sub, r.parts[i].end, r.to)
      BY ChunkFacts
<1>2. mirror.checkpoint = size BY DEF MirrorInv, CheckpointsInOrder
<1>3. NextEntry <= mirror.held /\ NextEntry = packages[1].start
      BY DEF MirrorInv, UploadReached, NextEntry
<1> HIDE DEF r
<1>4. DOMAIN r.parts = 1..Len(r.parts) BY <1>1, LenProperties
<1>5. Takes(r) BY <1>1, <1>2, <1>3, <1>4 DEF Takes
<1> QED BY <1>5 DEF r

LEMMA EntriesRefusedInv == MirrorInv /\ EntriesRefused => MirrorInv'
<1> SUFFICES ASSUME MirrorInv, EntriesRefused PROVE MirrorInv' OBVIOUS
<1>1. ~(lo <= before) BY ChunkIsTaken DEF EntriesRefused
<1>2. lo \in Nat /\ before \in Nat BY SizesAreNumbers DEF MirrorInv, Typed
<1>3. lo > before BY <1>1, <1>2
<1>4. MirrorGrown /\ LateGrown BY MirrorStays, LateStays DEF EntriesRefused
<1>5. read \in Leaves BY DEF MirrorInv, Typed
<1> QED BY <1>3, <1>4, <1>5, EndsInOrder DEF EntriesRefused, End

LEMMA FinishInv == MirrorInv /\ Finish => MirrorInv'
<1> SUFFICES ASSUME MirrorInv, Finish PROVE MirrorInv' OBVIOUS
<1>1. lo <= before => mirror'.held >= size
  <2>1. ASSUME lo <= before PROVE NextEntry <= mirror.held /\ NextEntry = size /\ mirror' = mirror
        BY <2>1 DEF MirrorInv, UploadReached, NextEntry, Finish
  <2>2. size \in Nat /\ mirror.held \in Nat BY SizesAreNumbers DEF MirrorInv, Typed
  <2> QED BY <2>1, <2>2
<1>2. MirrorGrown /\ LateGrown BY MirrorStays, LateStays DEF Finish
<1>3. read \in Leaves BY DEF MirrorInv, Typed
<1> QED BY <1>1, <1>2, <1>3, EndsInOrder DEF Finish, End

\* What is being sent, if anything is.
LEMMA PendingIsSent ==
  ASSUME MirrorInv, Posting
  PROVE  /\ Sent(Pending)
         /\ Pending.kind # "checkpoint" => Pending.to = mirror.checkpoint
<1>1. CASE pc = "checkpoint"
  <2>1. Pending = CheckpointRequest BY <1>1 DEF Pending
  <2> QED BY <2>1, CheckpointIsSent
<1>2. CASE pc = "entries" /\ packages # << >>
  <2>1. Pending = Chunk BY <1>2 DEF Pending
  <2>2. mirror.checkpoint = size BY <1>2 DEF MirrorInv, CheckpointsInOrder
  <2> QED BY <1>2, <2>1, <2>2, ChunkFacts
<1> QED BY <1>1, <1>2 DEF Posting

LEMMA PostBreaksInv == MirrorInv /\ PostBreaks => MirrorInv'
<1> SUFFICES ASSUME MirrorInv, PostBreaks PROVE MirrorInv' OBVIOUS
<1> DEFINE r == Pending
<1>1. Sent(r) /\ (r.kind # "checkpoint" => r.to = mirror.checkpoint)
      BY PendingIsSent DEF PostBreaks
<1> HIDE DEF r
<1>2. MirrorGrown
  <2>1. CASE r.kind = "checkpoint"
    <3>1. mirror' = mirror \/ mirror' = After(r, 1) BY <2>1 DEF PostBreaks, r
    <3>2. CASE mirror' = mirror BY <3>2, MirrorStays
    <3>3. CASE mirror' = After(r, 1) BY <1>1, <2>1, <3>3, AfterGrows
    <3> QED BY <3>1, <3>2, <3>3
  <2>2. CASE r.kind # "checkpoint"
    <3>1. PICK k \in 0..Len(r.parts) : mirror' = After(r, k) BY <2>2 DEF PostBreaks, r
    <3> QED BY <1>1, <3>1, AfterGrows
  <2> QED BY <2>1, <2>2
<1>3. LateGrown BY LateStays DEF PostBreaks
<1>4. read \in Leaves BY DEF MirrorInv, Typed
<1> QED BY <1>2, <1>3, <1>4, EndsInOrder DEF PostBreaks, End

LEMMA PostTimesOutInv == MirrorInv /\ PostTimesOut => MirrorInv'
<1> SUFFICES ASSUME MirrorInv, PostTimesOut PROVE MirrorInv' OBVIOUS
<1>1. MirrorGrown BY MirrorStays DEF PostTimesOut
<1>2. LateGrown
  <2>1. Sent(Pending) BY PendingIsSent DEF PostTimesOut
  <2>2. late' = late \cup {Pending} BY DEF PostTimesOut
  <2>3. \A r \in late : Sent(r) BY DEF MirrorInv, CheckpointsInOrder
  <2> QED BY <2>1, <2>2, <2>3 DEF LateGrown
<1>3. read \in Leaves BY DEF MirrorInv, Typed
<1> QED BY <1>1, <1>2, <1>3, EndsInOrder DEF PostTimesOut, End

LEMMA KilledInv == MirrorInv /\ Killed => MirrorInv'
<1> SUFFICES ASSUME MirrorInv, Killed PROVE MirrorInv' OBVIOUS
<1>1. MirrorGrown /\ LateGrown BY MirrorStays, LateStays DEF Killed
<1>2. read \in Leaves BY DEF MirrorInv, Typed
<1> QED BY <1>1, <1>2, EndsInOrder DEF Killed, End

\* A late request never takes the mirror back, nor past the run's checkpoint.
LEMMA ServeLateInv == MirrorInv /\ ServeLate => MirrorInv'
<1> SUFFICES ASSUME MirrorInv, ServeLate PROVE MirrorInv' OBVIOUS
<1>1. PICK r \in late : /\ late' = late \ {r}
                        /\ IF Takes(r) THEN Served(r) ELSE UNCHANGED mirror
      BY DEF ServeLate
<1>2. UNCHANGED <<directory, run>> BY DEF ServeLate
<1>3. Sent(r) BY DEF MirrorInv, CheckpointsInOrder
<1>4. MirrorGrown
  <2>1. CASE ~Takes(r) BY <1>1, <2>1, MirrorStays
  <2>2. CASE Takes(r) /\ r.kind = "checkpoint"
    <3>1. mirror' = After(r, 1) BY <1>1, <2>2 DEF Served
    <3> QED BY <1>3, <2>2, <3>1, AfterGrows
  <2>3. CASE Takes(r) /\ r.kind # "checkpoint"
    <3> DEFINE n == Len(r.parts)
    <3>1. mirror' = After(r, n) /\ r.to = mirror.checkpoint BY <1>1, <2>3 DEF Served, Takes
    <3>2. r.parts \in Seq(Pkg) BY <1>3, <2>3 DEF Sent
    <3>3. n \in 0..Len(r.parts) BY <3>2, LenProperties
    <3> HIDE DEF n
    <3> QED BY <1>3, <2>3, <3>1, <3>3, AfterGrows
  <2> QED BY <2>1, <2>2, <2>3
<1>5. LateGrown BY <1>1, LateStays
<1>6. Newest' = Newest /\ Newest \in Nat
  <2>1. Newest' = Newest BY <1>2 DEF Newest, directory, run
  <2>2. Newest \in Nat BY NewestIsWithin, SizesAreNumbers DEF MirrorInv
  <2> QED BY <2>1, <2>2
<1>7. mirror'.checkpoint <= Newest' /\ \A q \in late' : Sent(q)'
  <2>1. Newest <= Newest' /\ Newest' \in Nat BY <1>6
  <2> QED BY <1>4, <1>5, <2>1, OrderIsKept
<1>8. /\ mirror.held <= mirror'.held /\ mirror.held \in Nat /\ mirror'.held \in Nat
      /\ before \in Nat /\ size \in Nat
      BY <1>4, SizesAreNumbers DEF MirrorGrown, MirrorInv, Typed
<1>9. Typed'
  <2>1. mirror'.checkpoint <= log
    <3>1. Newest <= log /\ log \in Nat /\ mirror'.checkpoint \in Nat /\ mirror'.checkpoint <= Newest
          BY <1>4, NewestIsWithin, SizesAreNumbers DEF MirrorInv, Typed, MirrorGrown
    <3> QED BY <1>6, <3>1
  <2> QED BY <1>2, <1>4, <2>1 DEF MirrorInv, Typed, MirrorGrown, directory, run
<1>10. CheckpointsInOrder'
       BY <1>2, <1>4, <1>7 DEF MirrorInv, CheckpointsInOrder, MirrorGrown, directory, run
<1>11. Remaining' BY <1>2 DEF MirrorInv, Remaining, run
<1>12. UploadReached'
  <2>1. pc' = pc /\ rc' = rc /\ lo' = lo /\ before' = before /\ NextEntry' = NextEntry
        BY <1>2 DEF run, NextEntry
  <2>2. pc # "idle" => rc = "none" /\ before <= mirror'.held
    <3>1. ASSUME pc # "idle" PROVE rc = "none" /\ before <= mirror.held
          BY <3>1 DEF MirrorInv, UploadReached
    <3> QED BY <1>8, <3>1
  <2>3. ASSUME pc = "entries", lo <= before PROVE NextEntry <= mirror'.held
    <3>1. NextEntry <= mirror.held BY <2>3 DEF MirrorInv, UploadReached
    <3>2. NextEntry \in Nat
      <4>1. CASE packages = << >> BY <1>8, <4>1 DEF NextEntry
      <4>2. CASE packages # << >>
        <5>1. PICK k : LeftOf(Packages(lo, size), k, packages) BY <2>3 DEF MirrorInv, Remaining
        <5>2. packages \in Seq(Pkg) BY <5>1 DEF LeftOf
        <5>3. Len(packages) \in Nat /\ Len(packages) # 0 BY <4>2, <5>2, EmptySeq, LenProperties
        <5>4. packages[1] \in Pkg BY <5>2, <5>3, LenProperties
        <5> QED BY <4>2, <5>4 DEF NextEntry, Pkg
      <4> QED BY <4>1, <4>2
    <3> QED BY <1>8, <3>1, <3>2
  <2> QED BY <2>1, <2>2, <2>3 DEF UploadReached
<1>13. OwnProofsVerify' /\ OnlyGapsAreRefused' /\ GoodRunsMirrorTheTree'
  <2>1. rc' = rc /\ lo' = lo /\ before' = before /\ size' = size BY <1>2 DEF run
  <2>2. OwnProofsVerify' /\ OnlyGapsAreRefused'
        BY <2>1 DEF MirrorInv, OwnProofsVerify, OnlyGapsAreRefused
  <2>3. rc = "ok" /\ lo <= before => mirror.held >= size BY DEF MirrorInv, GoodRunsMirrorTheTree
  <2>4. GoodRunsMirrorTheTree' BY <1>8, <2>1, <2>3 DEF GoodRunsMirrorTheTree
  <2> QED BY <2>2, <2>4
<1> QED BY <1>9, <1>10, <1>11, <1>12, <1>13 DEF MirrorInv

LEMMA StutterInv == MirrorInv /\ UNCHANGED vars => MirrorInv'
<1> SUFFICES ASSUME MirrorInv, UNCHANGED vars PROVE MirrorInv' OBVIOUS
<1>1. UNCHANGED <<mirror, late, run>> /\ UNCHANGED <<log, dir>> BY DEF vars, directory
<1>2. /\ log \in Sizes /\ log \in Nat /\ dir \in [checkpoint : Sizes, leaves : Leaves]
      /\ dir.checkpoint \in Nat /\ dir.checkpoint <= log
      BY SizesAreNumbers DEF MirrorInv, Typed
<1>3. /\ log' \in Sizes /\ log <= log' /\ dir' \in [checkpoint : Sizes, leaves : Leaves]
      /\ dir.checkpoint <= dir'.checkpoint /\ dir'.checkpoint <= log'
      BY <1>1, <1>2
<1> QED BY <1>1, <1>3, DirectoryChanges

LEMMA MirrorSteps == MirrorInv /\ [Next]_vars => MirrorInv'
<1> SUFFICES ASSUME MirrorInv, [Next]_vars PROVE MirrorInv' OBVIOUS
<1>1. CASE Grow BY <1>1, GrowInv
<1>2. CASE PublishCheckpoint \/ PublishLeaves BY <1>2, PublishInv
<1>3. ASSUME NEW from \in From, Start(from) PROVE MirrorInv' BY <1>3, StartInv
<1>4. CASE ReadCheckpoint BY <1>4, ReadCheckpointInv
<1>5. CASE LoadLeaves BY <1>5, LoadLeavesInv
<1>6. CASE Build BY <1>6, BuildInv
<1>7. CASE PostCheckpoint BY <1>7, PostCheckpointInv
<1>8. CASE PostEntries BY <1>8, PostEntriesInv
<1>9. CASE EntriesRefused BY <1>9, EntriesRefusedInv
<1>10. CASE Finish BY <1>10, FinishInv
<1>11. CASE PostBreaks BY <1>11, PostBreaksInv
<1>12. CASE PostTimesOut BY <1>12, PostTimesOutInv
<1>13. CASE ServeLate BY <1>13, ServeLateInv
<1>14. CASE Killed BY <1>14, KilledInv
<1>15. CASE UNCHANGED vars BY <1>15, StutterInv
<1> QED BY <1>1, <1>2, <1>3, <1>4, <1>5, <1>6, <1>7, <1>8, <1>9, <1>10, <1>11, <1>12,
           <1>13, <1>14, <1>15 DEF Next, Goes

LEMMA MirrorInvHolds == Spec => []MirrorInv
<1> QED BY InitInv, MirrorSteps, PTL DEF Spec

\* The packages that are left run from within the upload to its end.
LEMMA InvTypeOK == MirrorInv => TypeOK
<1> SUFFICES ASSUME MirrorInv PROVE TypeOK OBVIOUS
<1>1. ASSUME pc = "entries", packages # << >>
      PROVE  packages[Len(packages)].end = size /\ packages[1].start >= lo
  <2> DEFINE b == Packages(lo, size)
             n == Len(packages)
  <2>1. PICK k : LeftOf(b, k, packages) BY <1>1 DEF MirrorInv, Remaining
  <2>2. Upload(b, lo, size) /\ lo \in Nat /\ size \in Nat BY UploadOfRun DEF MirrorInv
  <2> HIDE DEF b
  <2>3. packages \in Seq(Pkg) BY <2>1 DEF LeftOf
  <2>4. Len(packages) \in Nat /\ Len(packages) # 0 BY <1>1, <2>3, EmptySeq, LenProperties
  <2>5. n \in 1..Len(packages) /\ 1 \in 1..Len(packages) BY <2>4
  <2>6. packages[n].end = size
    <3> HIDE DEF n
    <3>1. packages[n].end = IF n = Len(packages) THEN size ELSE packages[n + 1].start
          BY <2>1, <2>2, <2>5, NextStartsThere
    <3> QED BY <3>1 DEF n
  <2>7. packages[1].start >= lo
    <3>1. Len(b) \in Nat /\ k \in Nat /\ Len(packages) = Len(b) - k
          BY <2>1, <2>2, LenProperties DEF LeftOf, Upload
    <3>2. Len(b) # 0 /\ k + 1 \in 1..Len(b) BY <2>4, <3>1
    <3>3. Tiles(b, lo, size) BY <2>2, <3>2 DEF Upload
    <3>4. packages[1] = b[k + 1] BY <2>1, <2>5 DEF LeftOf
    <3>5. lo <= b[k + 1].start BY <3>2, <3>3 DEF Tiles
    <3>6. packages[1] \in Pkg BY <2>3, <2>5, LenProperties
    <3>7. packages[1].start \in Nat BY <3>6 DEF Pkg
    <3> QED BY <2>2, <3>4, <3>5, <3>7
  <2> QED BY <2>6, <2>7
<1> QED BY <1>1 DEF MirrorInv, Typed, TypeOK

-----------------------------------------------------------------------------

\* mirror_client.py:98-160: whatever the directory, the requests and the process do,
\* a run's state is one its code can be in, the mirror holds no more than it has a
\* checkpoint for, and that checkpoint is of the log; what a run is still to send
\* ends at its size.
THEOREM MirrorTyped == Spec => []TypeOK
<1> QED BY MirrorInvHolds, InvTypeOK, PTL

\* mirror_client.py:40-42 and :115: for every package size that is a power of two,
\* wherever --from and the size lie, the client accepts all of its own proofs.
THEOREM ProofsVerify == Spec => []OwnProofsVerify
<1>1. MirrorInv => OwnProofsVerify BY DEF MirrorInv
<1> QED BY <1>1, MirrorInvHolds, PTL

\* mirror_client.py:128-155: a mirror that is told only the ends of an upload reads
\* every request as the client cut it, however the runs before it were broken off and
\* whatever of them is still under way; it can refuse one only for a gap that --from
\* left.
THEOREM OnlyGapsRefused == Spec => []OnlyGapsAreRefused
<1>1. MirrorInv => OnlyGapsAreRefused BY DEF MirrorInv
<1> QED BY <1>1, MirrorInvHolds, PTL

\* mirror_client.py:123-159: a run that returns 0, of whatever number of requests, has
\* left the mirror all of the tree its checkpoint commits to.
THEOREM GoodRunsMirror == Spec => []GoodRunsMirrorTheTree
<1>1. MirrorInv => GoodRunsMirrorTheTree BY DEF MirrorInv
<1> QED BY <1>1, MirrorInvHolds, PTL
=============================================================================
