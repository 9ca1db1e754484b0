--------------------------- MODULE SubtreeVerifier ---------------------------
(***************************************************************************)
(* subtree.verify_subtree_proof, one iteration of its loops per step, run  *)
(* on the proof that generation (SubtreeProof) makes and on proofs, hashes *)
(* and roots that differ from the right ones.  It is the check behind      *)
(* "reduce.py --as-of" and behind every package mirror_client.py uploads.  *)
(* Its behaviours are those of CallSpec, so named because VerifierProofs   *)
(* extends this module and Receipt.                                        *)
(***************************************************************************)
EXTENDS Merkle

CONSTANT MaxTree   \* the largest tree of a call
ASSUME MaxTreeAssumption == MaxTree \in Nat \ {0}

VARIABLES n, start, end,   \* the subtree [start, end) of a tree of size n
          proof, node, root,  \* the other arguments
          fn, sn, tn,      \* the loop's positions: start, end and the last leaf
          fr, sr,          \* the hash rebuilt for the subtree, and for the root
          rest,            \* what is left of the proof
          pc, accepted

args == <<n, start, end, proof, node, root>>
callVars == <<args, fn, sn, tn, fr, sr, rest, pc, accepted>>

SubtreeHash == Mth(Log(n), start, end)
RootHash    == Mth(Log(n), 0, n)

-----------------------------------------------------------------------------

\* The proof made for a range, the proofs one mistake away from it, and none.
ProofsAround(s, e, size) ==
  LET right == SubtreeProof(s, e, Log(size))
      wrong == {Mth(Log(size), s, e), Mth(Log(size), 0, size), LeafHash(size)}
  IN  {right, << >>} \cup Altered(right, wrong)

\* The right hash and ones of some other range of the same log.
HashesAround(lo, hi, size) ==
  {Mth(Log(size), lo, hi), Mth(Log(size), lo, size), Mth(Log(size + 1), 0, size + 1)}

CallInit ==
  /\ n \in 1..MaxTree
  /\ start \in 0..(n - 1) /\ end \in (start + 1)..n
  /\ proof \in ProofsAround(start, end, n)
  /\ node \in HashesAround(start, end, n)
  /\ root \in HashesAround(0, n, n)
  /\ fn = start /\ sn = end - 1 /\ tn = n - 1
  /\ fr = node /\ sr = node
  /\ rest = proof
  /\ pc = "call" /\ accepted = FALSE

Odd(x) == x % 2 = 1

Shift == fn' = fn \div 2 /\ sn' = sn \div 2 /\ tn' = tn \div 2

Return(verdict) == pc' = "done" /\ accepted' = verdict

Refuse ==
  /\ pc = "call"
  /\ ~ValidSubtree(start, end, n)
  /\ Return(FALSE)
  /\ UNCHANGED <<args, fn, sn, tn, fr, sr, rest>>

Enter ==
  /\ pc = "call"
  /\ ValidSubtree(start, end, n)
  /\ pc' = "align"
  /\ UNCHANGED <<args, fn, sn, tn, fr, sr, rest, accepted>>

\* Lines 88 to 93.  sn = tn is tested once, before the loops; halving keeps it
\* equal, and while sn is odd it keeps it different.
Aligned == fn = sn \/ (sn # tn /\ ~Odd(sn))

Align ==
  /\ pc = "align" /\ ~Aligned
  /\ Shift
  /\ UNCHANGED <<args, fr, sr, rest, pc, accepted>>

SeedWithNode ==
  /\ pc = "align" /\ Aligned
  /\ fn = sn
  /\ fr' = node /\ sr' = node
  /\ pc' = "fold"
  /\ UNCHANGED <<args, fn, sn, tn, rest, accepted>>

SeedWithProof ==
  /\ pc = "align" /\ Aligned
  /\ fn # sn
  /\ rest # << >>
  /\ fr' = Head(rest) /\ sr' = Head(rest) /\ rest' = Tail(rest)
  /\ pc' = "fold"
  /\ UNCHANGED <<args, fn, sn, tn, accepted>>

NothingToSeed ==
  /\ pc = "align" /\ Aligned
  /\ fn # sn
  /\ rest = << >>
  /\ Return(FALSE)
  /\ UNCHANGED <<args, fn, sn, tn, fr, sr, rest>>

TooLong ==
  /\ pc = "fold" /\ rest # << >>
  /\ tn = 0
  /\ Return(FALSE)
  /\ UNCHANGED <<args, fn, sn, tn, fr, sr, rest>>

\* Mutant of JoinLeft: the check at its head is missing.
JoinLeftUnchecked ==
  /\ pc = "fold" /\ rest # << >>
  /\ Odd(sn) \/ sn = tn
  /\ fr' = IF fn < sn THEN NodeHash(Head(rest), fr) ELSE fr
  /\ sr' = NodeHash(Head(rest), sr)
  /\ rest' = Tail(rest)
  /\ pc' = "strip"
  /\ UNCHANGED <<args, fn, sn, tn, accepted>>

\* Mutant of JoinLeft: the subtree's hash is extended past its first leaf.
JoinLeftAlways ==
  /\ pc = "fold" /\ rest # << >>
  /\ tn # 0
  /\ Odd(sn) \/ sn = tn
  /\ fr' = NodeHash(Head(rest), fr)
  /\ sr' = NodeHash(Head(rest), sr)
  /\ rest' = Tail(rest)
  /\ pc' = "strip"
  /\ UNCHANGED <<args, fn, sn, tn, accepted>>

JoinLeft ==
  /\ pc = "fold" /\ rest # << >>
  /\ tn # 0
  /\ Odd(sn) \/ sn = tn
  /\ fr' = IF fn < sn THEN NodeHash(Head(rest), fr) ELSE fr
  /\ sr' = NodeHash(Head(rest), sr)
  /\ rest' = Tail(rest)
  /\ pc' = "strip"
  /\ UNCHANGED <<args, fn, sn, tn, accepted>>

\* Lines 110 to 114: halve until sn has been odd.
Strip ==
  /\ pc = "strip"
  /\ Shift
  /\ pc' = IF Odd(sn) THEN "fold" ELSE "strip"
  /\ UNCHANGED <<args, fr, sr, rest, accepted>>

JoinRight ==
  /\ pc = "fold" /\ rest # << >>
  /\ tn # 0
  /\ ~Odd(sn) /\ sn # tn
  /\ sr' = NodeHash(sr, Head(rest))
  /\ rest' = Tail(rest)
  /\ Shift
  /\ UNCHANGED <<args, fr, pc, accepted>>

\* Mutant of Finish: the subtree's own hash is not compared.
FinishRootOnly ==
  /\ pc = "fold" /\ rest = << >>
  /\ Return(tn = 0 /\ sr = root)
  /\ UNCHANGED <<args, fn, sn, tn, fr, sr, rest>>

Finish ==
  /\ pc = "fold" /\ rest = << >>
  /\ Return(tn = 0 /\ fr = node /\ sr = root)
  /\ UNCHANGED <<args, fn, sn, tn, fr, sr, rest>>

CallNext == \/ Refuse \/ Enter \/ Align \/ SeedWithNode \/ SeedWithProof \/ NothingToSeed
        \/ TooLong \/ JoinLeft \/ Strip \/ JoinRight \/ Finish

\* The function is called, and nothing else runs.
CallSpec == CallInit /\ [][CallNext]_callVars /\ WF_callVars(CallNext)

-----------------------------------------------------------------------------

Genuine == /\ ValidSubtree(start, end, n)
           /\ proof = SubtreeProof(start, end, Log(n))
           /\ node = SubtreeHash
           /\ root = RootHash

\* "Returns True only if the proof ties the subtree hash to the root hash over
\* exactly the entries in [start, end)": under the tree's root exactly the proof
\* generation makes is accepted, for exactly the subtree's own hash, and under
\* another tree's root that hash is accepted with no proof at all.
VerdictIsExact ==
  pc = "done" =>
    IF root = RootHash THEN accepted <=> Genuine
                       ELSE accepted => node # SubtreeHash

\* The loop's invariant on a right proof: sr is the hash of the tree's node that
\* holds leaf end - 1 at the level reached, fr the part of it below end.
Level == CHOOSE l \in 0..n : tn = (n - 1) \div 2^l

RebuiltHashesAreNodes ==
  pc = "fold" /\ Genuine =>
    LET lo == sn * 2^Level
        hi == (sn + 1) * 2^Level
    IN  /\ sr = Mth(Log(n), lo, IF hi < n THEN hi ELSE n)
        /\ fr = Mth(Log(n), IF lo > start THEN lo ELSE start, end)

\* A leaf is the subtree of one leaf, and its audit path that subtree's proof:
\* verify_receipt.check_inclusion, given the index, and verify_subtree_proof, written
\* apart from it, agree about it in trees of every shape and on every proof.
TwoVerifiersAgree ==
  pc = "done" /\ end = start + 1 /\ node = SubtreeHash =>
    /\ accepted <=> CheckInclusion(start, start, n, proof, root)
    /\ InclusionProof(Log(n), start) = SubtreeProof(start, end, Log(n))

\* The inner loop has no bound of its own (subtree.py:110 and 114): it ends because
\* sn is not 0 there, which needs the test of tn at the head of the outer loop and
\* the order of the three positions.
PositionsOrdered ==
  /\ fn \in Nat /\ sn \in Nat /\ tn \in Nat
  /\ fn <= sn /\ sn <= tn
  /\ pc = "strip" => sn # 0

\* Every call returns, whatever proof it is given.
Terminates == <>(pc = "done")
=============================================================================
