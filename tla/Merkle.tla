-------------------------------- MODULE Merkle --------------------------------
(***************************************************************************)
(* The hash trees of subtree.py and tlogsearch.py, and the proofs that     *)
(* reduce.py and mirror_client.py generate from them (RFC 6962, RFC 9162,  *)
(* draft-ietf-plants-merkle-tree-certs section 4).                         *)
(*                                                                         *)
(* SHA-256 is taken to be collision free: a hash is the term that was      *)
(* hashed.  The domain bytes 0x00 and 0x01 of leaf_hash and node_hash are  *)
(* what keeps the two kinds of term apart.                                 *)
(***************************************************************************)
EXTENDS Integers, SequencesExt

LeafHash(d)       == [leaf |-> d]
NodeHash(l, r)    == [left |-> l, right |-> r]
EmptyHash         == [empty |-> TRUE]

\* The doubling loops of _split, split_point and bit_ceil.
Split(n)   == LET grow[k \in 1..n] == IF k * 2 < n THEN grow[k * 2] ELSE k
              IN  grow[1]
BitCeil(x) == LET grow[k \in 1..(2 * x)] == IF k < x THEN grow[k * 2] ELSE k
              IN  grow[1]

\* The Merkle tree hash of the leaf hashes D[lo + 1] .. D[hi].
Mth(D, lo, hi) ==
  LET h[p \in (lo..hi) \X (lo..hi)] ==
        LET i == p[1]
            j == p[2]
            k == i + Split(j - i)
        IN  IF j <= i THEN EmptyHash
            ELSE IF j - i = 1 THEN D[j]
            ELSE NodeHash(h[<<i, k>>], h[<<k, j>>])
  IN  h[<<lo, hi>>]

ValidSubtree(start, end, n) ==
  /\ 0 <= start /\ start < end /\ end <= n
  /\ start % BitCeil(end - start) = 0

\* SUBTREE_PROOF(start, end, D): _subproof with the slice hashes[lo:hi] of each
\* call kept as the two ends lo and hi, and start and end left unshifted.
SubtreeProof(start, end, D) ==
  LET Within == {p \in (0..Len(D)) \X (0..Len(D)) \X (0..Len(D)) \X BOOLEAN :
                   p[1] <= p[3] /\ p[3] < end /\ end <= p[2]}
      sub[p \in Within] ==
        LET lo == p[1]
            hi == p[2]
            s  == p[3]
            k  == lo + Split(hi - lo)
        IN  IF s = lo /\ end = hi THEN IF p[4] THEN << >> ELSE <<Mth(D, lo, hi)>>
            ELSE IF end <= k      THEN Append(sub[<<lo, k, s, p[4]>>], Mth(D, k, hi))
            ELSE IF k <= s        THEN Append(sub[<<k, hi, s, p[4]>>], Mth(D, lo, k))
            ELSE Append(sub[<<k, hi, k, FALSE>>], Mth(D, lo, k))
  IN  sub[<<0, Len(D), start, TRUE>>]

\* The slices of n hashes that are not empty.
Spans(n) == {p \in (0..n) \X (0..n) : p[1] < p[2]}

\* The audit path of the leaf at index, from the leaf upward.
InclusionProof(D, index) ==
  LET walk[p \in Spans(Len(D))] ==
        LET lo == p[1]
            hi == p[2]
            k  == lo + Split(hi - lo)
        IN  IF hi - lo = 1    THEN << >>
            ELSE IF index < k THEN Append(walk[<<lo, k>>], Mth(D, k, hi))
            ELSE Append(walk[<<k, hi>>], Mth(D, lo, k))
  IN  walk[<<0, Len(D)>>]

\* How often a position is halved until it is odd; 0 is never halved.
Zeros(fn) == IF fn = 0 THEN 0
             ELSE CHOOSE z \in 0..fn : fn % 2^z = 0 /\ (fn \div 2^z) % 2 = 1

\* Mutant of Join: the last leaf of the tree is treated as the others.
JoinFull(at, p) ==
  IF at.fn % 2 = 1
  THEN LET z == Zeros(at.fn) + 1 IN
       [fn |-> at.fn \div 2^z, sn |-> at.sn \div 2^z, r |-> NodeHash(p, at.r)]
  ELSE [fn |-> at.fn \div 2, sn |-> at.sn \div 2, r |-> NodeHash(at.r, p)]

\* One hash of an audit path: from the position and the hash reached, to the next.
Join(at, p) ==
  IF at.fn % 2 = 1 \/ at.fn = at.sn
  THEN LET z == Zeros(at.fn) + 1 IN
       [fn |-> at.fn \div 2^z, sn |-> at.sn \div 2^z, r |-> NodeHash(p, at.r)]
  ELSE [fn |-> at.fn \div 2, sn |-> at.sn \div 2, r |-> NodeHash(at.r, p)]

\* verify_receipt.check_inclusion.  Neither is the index held to the size nor
\* the position to its end, as RFC 9162 would have them.
CheckInclusion(leaf, index, size, proof, root) ==
  LET walk[k \in 0..Len(proof)] ==
        IF k = 0 THEN [fn |-> index, sn |-> size - 1, r |-> LeafHash(leaf)]
        ELSE Join(walk[k - 1], proof[k])
  IN  walk[Len(proof)].r = root

-----------------------------------------------------------------------------

\* The leaf hashes of a log of n distinct leaves.
Log(n) == [i \in 1..n |-> LeafHash(i - 1)]

\* The proofs one mistake away from p: a hash dropped, repeated, moved to its
\* neighbour's place, or replaced by one of the hashes H.
Altered(p, H) ==
  {RemoveAt(p, i) : i \in DOMAIN p}
  \cup {InsertAt(p, i, h) : i \in 1..(Len(p) + 1), h \in H}
  \cup {ReplaceAt(p, i, h) : i \in DOMAIN p, h \in H}
  \cup {[p EXCEPT ![i] = p[i + 1], ![i + 1] = p[i]] : i \in 1..(Len(p) - 1)}
=============================================================================
