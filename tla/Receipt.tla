-------------------------------- MODULE Receipt --------------------------------
(***************************************************************************)
(* A receipt's way from "reduce.py --receipt" to verify_receipt.py, which  *)
(* has nothing but the receipt and, where it is given one, a trust root.   *)
(*                                                                         *)
(* The receipt is a JSON file in other people's hands.  Between the two    *)
(* programs some of its fields may be replaced by those of another         *)
(* receipt, of this log or of another one, or its checkpoint by another    *)
(* one of this log; that stands for code outside the repository, as the    *)
(* log does.  The export reduce.py read is one it accepts                  *)
(* (VerifiedExport!AnswerIsAboutCommittedTree).                            *)
(***************************************************************************)
EXTENDS LeafRules, Merkle, Checkpoint

CONSTANTS Contents, SignatureBlocks, TrustRoots, KeyFiles,
          Elsewhere,         \* the leaves of another log
          NotYet,            \* no receipt, or no verdict on it
          MaxSize, MaxMixes

ASSUME ReceiptAssumption ==
  /\ Contents \subseteq Leaf /\ SignatureBlocks \subseteq Seq(Line)
  /\ TrustRoots \subseteq TrustRoot /\ KeyFiles \subseteq SUBSET Vkey
  /\ Elsewhere \in Seq(Contents)
  /\ MaxSize \in Nat \ {0} /\ Len(Elsewhere) <= MaxSize /\ MaxMixes \in Nat

VARIABLES log, head,          \* the log, and the checkpoint of the export
          tr, pinned,         \* trust-root.json and witness_keys.json
          receipt, mixes, verdict

export == <<log, head, tr, pinned>>
vars   == <<export, receipt, mixes, verdict>>

RootOf(lv, n) == Mth([i \in 1..n |-> LeafHash(lv[i])], 0, n)

CheckpointAt(n, sigs) == [size |-> n, root |-> RootOf(log, n), sigs |-> sigs]

Fields == {"tree_size", "root", "row", "leaf_index", "leaf", "inclusion_proof", "checkpoint"}

-----------------------------------------------------------------------------

Init ==
  /\ \E n \in 1..MaxSize : log \in [1..n -> Contents]
  /\ \E sigs \in SignatureBlocks : head = CheckpointAt(Len(log), sigs)
  /\ tr \in TrustRoots /\ pinned \in KeyFiles
  /\ receipt = NotYet /\ mixes = 0 /\ verdict = NotYet

\* Mutant of ReceiptFor: the leaf is the one that wrote the row first.
ReceiptForFirst(lv, k, n) ==
  LET row == RowOf(lv, n, k)
      i   == row.first_index
  IN  [tree_size |-> n, root |-> RootOf(lv, n), row |-> row,
       leaf_index |-> i, leaf |-> lv[i + 1],
       inclusion_proof |-> InclusionProof([j \in 1..n |-> LeafHash(lv[j])], i),
       checkpoint |-> head]

\* The receipt for the row of the key k in the tree of the first n leaves of lv.
\* Its checkpoint is the export's, and n may be smaller.  The consistency proof
\* it then carries, the origin and the digest of the specification are not
\* looked at again.
ReceiptFor(lv, k, n) ==
  LET row == RowOf(lv, n, k)
      i   == row.last_index
  IN  [tree_size |-> n, root |-> RootOf(lv, n), row |-> row,
       leaf_index |-> i, leaf |-> lv[i + 1],
       inclusion_proof |-> InclusionProof([j \in 1..n |-> LeafHash(lv[j])], i),
       checkpoint |-> head]

Receipts(lv) == UNION {{ReceiptFor(lv, k, n) : k \in KeysOf(lv, n)} : n \in 1..Len(lv)}

Issue ==
  /\ receipt = NotYet
  /\ LogSigned(head.sigs, LogKeyId)
  /\ tr.quorum # NotStated
  /\ Cardinality(Counted(head.sigs, pinned, tr)) >= tr.quorum
  /\ receipt' \in Receipts(log)
  /\ UNCHANGED <<export, mixes, verdict>>

\* What is taken of a receipt of another log leaves out its checkpoint, which
\* ReceiptFor gives as this log's.
Mix ==
  /\ receipt # NotYet /\ verdict = NotYet
  /\ mixes < MaxMixes /\ mixes' = mixes + 1
  /\ \/ \E other \in Receipts(log) \cup Receipts(Elsewhere), taken \in SUBSET Fields :
          receipt' = [f \in Fields |-> IF f \in taken THEN other[f] ELSE receipt[f]]
     \/ \E n \in 1..Len(log), sigs \in SignatureBlocks :
          receipt' = [receipt EXCEPT !.checkpoint = CheckpointAt(n, sigs)]
  /\ UNCHANGED <<export, verdict>>

\* Links 1 to 4 of the receipt r.  A quorum of 0 counts as one not met.
Included(r) == CheckInclusion(r.leaf, r.leaf_index, r.tree_size, r.inclusion_proof, r.root)

\* Mutant of Committed: only the size is compared.
CommittedSize(r) == r.checkpoint.size = r.tree_size

Committed(r) == r.checkpoint.root = r.root /\ r.checkpoint.size = r.tree_size

Cosigned(r) == /\ tr.quorum \notin {NotStated, 0}
               /\ Cardinality(CountedByTrustRoot(r.checkpoint.sigs, tr)) >= tr.quorum

Rederived(r) ==
  /\ Parse(r.leaf) = "json"
  /\ r.row.issuer = IssuerOf(r.leaf.obj) /\ r.row.subject = SubjectOf(r.leaf.obj)
  /\ r.row.claim_type = TypeOf(r.leaf.obj)
  /\ r.row.leaf_sha256 = Digest(r.leaf)

\* Run with a trust root or without; without one, link 3 is left out.
Check ==
  /\ receipt # NotYet /\ verdict = NotYet
  /\ \E rooted \in BOOLEAN :
       LET links == <<Included(receipt), Committed(receipt), Cosigned(receipt), Rederived(receipt)>>
       IN  verdict' = [links |-> links, rooted |-> rooted,
                       ok |-> links[1] /\ links[2] /\ (rooted => links[3]) /\ links[4]]
  /\ UNCHANGED <<export, receipt, mixes>>

Next == Issue \/ Mix \/ Check

Spec == Init /\ [][Next]_vars

-----------------------------------------------------------------------------

Checked == verdict # NotYet /\ verdict.ok

\* The keys reduce.py counted are those the trust root names, and there are some.
SameKeys == pinned = tr.vkeys /\ tr.quorum # 0

\* verify_receipt.py:14-15, "a row you can re-derive from a leaf you can prove is
\* in the tree": however a receipt was pasted together, if it checks out then the
\* leaf is in the tree its checkpoint commits to, and the row's key, type and
\* digest are that leaf's.
CheckedReceiptIsTrue ==
  Checked =>
    \E i \in 1..receipt.checkpoint.size :
      /\ Verdict(log[i]) = "keyed"
      /\ <<receipt.row.issuer, receipt.row.subject>> = Key(log[i])
      /\ receipt.row.claim_type = TypeOf(log[i].obj)
      /\ receipt.row.leaf_sha256 = Digest(log[i])
      /\ receipt.leaf = log[i]

\* A receipt for the signed head checks out as it was issued, in trees of every
\* shape and for rows written once and superseded.
HeadReceiptsCheckOut ==
  verdict # NotYet /\ mixes = 0 /\ SameKeys /\ receipt.tree_size = Len(log) => verdict.ok

\* README:9-10, "Point-in-time answers, and receipts", checked "from the receipt
\* alone"; and reduce.py:321-325, by which the checkpoint of a receipt carries
\* cosignatures over its root: as issued, a receipt for any size checks out.
PointInTimeReceiptsCheckOut ==
  verdict # NotYet /\ mixes = 0 /\ SameKeys => verdict.ok
=============================================================================
