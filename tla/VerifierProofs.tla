---------------------------- MODULE VerifierProofs ----------------------------
(***************************************************************************)
(* The two verifiers of the repository, for trees of every size: what it   *)
(* means that verify_receipt.py accepts a receipt, that it accepts those   *)
(* that reduce.py issues for the signed head; that the loops of            *)
(* subtree.verify_subtree_proof keep their positions in order, and that it *)
(* accepts exactly what subtree_proof makes.                               *)
(***************************************************************************)
EXTENDS Receipt, SubtreeVerifier, MerkleProofs

\* The leaf hashes of the first size of the leaves lv.
HashesOf(lv, size) == [i \in 1..size |-> LeafHash(lv[i])]

LEMMA HashesOfLeaves ==
  ASSUME NEW lv, NEW size \in Nat
  PROVE  /\ LeavesOf(HashesOf(lv, size), lv, size) /\ Len(HashesOf(lv, size)) = size
         /\ RootOf(lv, size) = Mth(HashesOf(lv, size), 0, size)
<1>1. HashesOf(lv, size) \in Seq({LeafHash(lv[i]) : i \in 1..size})
      BY DEF HashesOf
<1>2. DOMAIN HashesOf(lv, size) = 1..size BY DEF HashesOf
<1>3. Len(HashesOf(lv, size)) = size
      BY <1>1, <1>2, LenProperties
<1> QED BY <1>3 DEF LeavesOf, HashesOf, RootOf

-----------------------------------------------------------------------------

\* A non-empty set of indices has a last one.
LEMMA LastIndex ==
  ASSUME NEW size \in Nat, NEW W \in SUBSET (0..(size - 1)), W # {}
  PROVE  \E j \in W : \A i \in W : i <= j
<1> DEFINE T == {d \in Nat : \E j \in W : j + d = size}
<1>1. T # {}
  <2>1. PICK j \in W : TRUE OBVIOUS
  <2>2. size - j \in Nat /\ j + (size - j) = size OBVIOUS
  <2> QED BY <2>1, <2>2
<1>2. PICK d \in T : \A v \in T : d <= v
  <2>1. T \in SUBSET Nat OBVIOUS
  <2> HIDE DEF T
  <2> QED BY <1>1, <2>1, Least
<1>3. PICK j \in W : j + d = size BY <1>2
<1>4. ASSUME NEW i \in W PROVE i <= j
  <2>1. size - i \in Nat /\ i + (size - i) = size OBVIOUS
  <2>2. size - i \in T BY <2>1
  <2>3. d <= size - i BY <1>2, <2>2
  <2> QED BY <1>3, <2>3
<1> QED BY <1>4

\* What a row says of the leaf that wrote it last.
RowIsOf(row, leaf) ==
  /\ Verdict(leaf) = "keyed"
  /\ row.issuer = IssuerOf(leaf.obj) /\ row.subject = SubjectOf(leaf.obj)
  /\ row.claim_type = TypeOf(leaf.obj) /\ row.leaf_sha256 = Digest(leaf)

LEMMA RowIsOfItsLeaf ==
  ASSUME NEW lv, NEW size \in Nat, NEW k \in KeysOf(lv, size)
  PROVE  /\ RowOf(lv, size, k).last_index \in 0..(size - 1)
         /\ RowIsOf(RowOf(lv, size, k), lv[RowOf(lv, size, k).last_index + 1])
<1> DEFINE W == WritesOf(lv, size, k)
           last == CHOOSE j \in W : \A i \in W : i <= j
<1>1. W \in SUBSET (0..(size - 1)) BY DEF WritesOf
<1>2. W # {} BY DEF KeysOf, WritesOf
<1>3. \E j \in W : \A i \in W : i <= j
  <2> HIDE DEF W
  <2> QED BY <1>1, <1>2, LastIndex
<1>4. last \in W
  <2> HIDE DEF W
  <2> QED BY <1>3
<1>5. Verdict(lv[last + 1]) = "keyed" /\ Key(lv[last + 1]) = k
  <2> HIDE DEF last
  <2> QED BY <1>4 DEF WritesOf
<1>6. /\ RowOf(lv, size, k).last_index = last
      /\ RowOf(lv, size, k).issuer = k[1] /\ RowOf(lv, size, k).subject = k[2]
      /\ RowOf(lv, size, k).claim_type = TypeOf(lv[last + 1].obj)
      /\ RowOf(lv, size, k).leaf_sha256 = Digest(lv[last + 1])
      BY DEF RowOf
<1> HIDE DEF last, W
<1>7. k[1] = IssuerOf(lv[last + 1].obj) /\ k[2] = SubjectOf(lv[last + 1].obj)
      BY <1>5 DEF Key
<1> QED BY <1>1, <1>4, <1>5, <1>6, <1>7 DEF RowIsOf

\* What a leaf that makes a row is.
LEMMA KeyedLeaves ==
  ASSUME NEW leaf
  PROVE  Verdict(leaf) = "keyed" <=>
           /\ Parse(leaf) = "json"
           /\ TypeOf(leaf.obj) # NotStr /\ TypeOf(leaf.obj) # ManifestType
           /\ IssuerOf(leaf.obj) # NotStr /\ SubjectOf(leaf.obj) # NotStr
<1>1. Parse(leaf) \in {"note", "json", "malformed"} BY DEF Parse
<1> HIDE DEF Parse
<1> QED BY <1>1 DEF Verdict

-----------------------------------------------------------------------------

\* Whatever a receipt was pasted together from, its row is one that reduce.py makes,
\* and its checkpoint is one of this log's.
Plausible(r) ==
  /\ DOMAIN r = Fields /\ Len(r.inclusion_proof) \in Nat
  /\ r.row.claim_type # NotStr /\ r.row.claim_type # ManifestType
  /\ r.row.issuer # NotStr /\ r.row.subject # NotStr

CheckpointOfLog(cp) == cp.size \in 1..Len(log) /\ cp.root = RootOf(log, cp.size)

\* The receipt has been issued for some row of the log, and nothing was put into it.
Untouched(r) == \E size \in 1..Len(log) : \E k \in KeysOf(log, size) : r = ReceiptFor(log, k, size)

Quorate == /\ tr.quorum # NotStated
           /\ Cardinality(Counted(head.sigs, pinned, tr)) >= tr.quorum

ReceiptInv ==
  /\ log \in Seq(Contents) /\ Len(log) # 0
  /\ head.size = Len(log) /\ head.root = RootOf(log, Len(log))
  /\ receipt = NotYet => verdict = NotYet
  /\ receipt # NotYet =>
       /\ Plausible(receipt) /\ CheckpointOfLog(receipt.checkpoint)
       /\ Quorate
       /\ mixes = 0 => Untouched(receipt)
  /\ mixes \in Nat
  /\ verdict # NotYet =>
       /\ verdict.ok => /\ Included(receipt) /\ Committed(receipt) /\ Rederived(receipt)
       /\ Included(receipt) /\ Committed(receipt) /\ Cosigned(receipt) /\ Rederived(receipt)
            => verdict.ok

\* What is issued for a row of any log is plausible.
LEMMA IssuedIsPlausible ==
  ASSUME NEW lv, NEW size \in Nat \ {0}, NEW k \in KeysOf(lv, size)
  PROVE  LET r == ReceiptFor(lv, k, size)
         IN  /\ Plausible(r) /\ r.checkpoint = head /\ r.tree_size = size
             /\ Included(r) /\ Rederived(r) /\ r.root = RootOf(lv, size)
<1> DEFINE r == ReceiptFor(lv, k, size)
           row == RowOf(lv, size, k)
           i == row.last_index
           D == HashesOf(lv, size)
<1>1. i \in 0..(size - 1) /\ RowIsOf(row, lv[i + 1]) BY RowIsOfItsLeaf
<1>2. /\ r.row = row /\ r.leaf = lv[i + 1] /\ r.leaf_index = i /\ r.tree_size = size
      /\ r.inclusion_proof = InclusionProof(D, i) /\ r.root = RootOf(lv, size)
      /\ r.checkpoint = head
      BY DEF ReceiptFor, HashesOf
<1> HIDE DEF r, row, i
<1>3. LeavesOf(D, lv, size) /\ Len(D) = size /\ RootOf(lv, size) = Mth(D, 0, size)
      BY HashesOfLeaves
<1> HIDE DEF D
<1>4. /\ CheckInclusion(lv[i + 1], i, size, InclusionProof(D, i), Mth(D, 0, size))
      /\ Len(InclusionProof(D, i)) \in Nat
      BY <1>1, <1>3, PathsAreAccepted
<1>5. Included(r) BY <1>2, <1>3, <1>4 DEF Included
<1>6. Rederived(r) BY <1>1, <1>2, KeyedLeaves DEF Rederived, RowIsOf
<1>7. DOMAIN r = Fields BY DEF r, ReceiptFor, Fields
<1>8. Plausible(r) BY <1>1, <1>2, <1>4, <1>7, KeyedLeaves DEF Plausible, RowIsOf
<1> QED BY <1>2, <1>5, <1>6, <1>8 DEF r

LEMMA IssuedAreReceipts ==
  ASSUME NEW lv, NEW r \in Receipts(lv), Len(lv) \in Nat
  PROVE  \E size \in 1..Len(lv) : \E k \in KeysOf(lv, size) : r = ReceiptFor(lv, k, size)
BY DEF Receipts

LEMMA ReceiptsArePlausible ==
  ASSUME NEW lv, Len(lv) \in Nat, NEW r \in Receipts(lv)
  PROVE  Plausible(r) /\ r.checkpoint = head
<1>1. PICK size \in 1..Len(lv) : \E k \in KeysOf(lv, size) : r = ReceiptFor(lv, k, size)
      BY IssuedAreReceipts
<1>2. PICK k \in KeysOf(lv, size) : r = ReceiptFor(lv, k, size) BY <1>1
<1>3. size \in Nat \ {0} OBVIOUS
<1> QED BY <1>2, <1>3, IssuedIsPlausible

LEMMA InitReceipt == Init => ReceiptInv
<1> SUFFICES ASSUME Init PROVE ReceiptInv
    OBVIOUS
<1>1. PICK size \in 1..MaxSize : log \in [1..size -> Contents] BY DEF Init
<1>2. size \in Nat BY ReceiptAssumption DEF ReceiptAssumption
<1>3. log \in Seq(Contents) BY <1>1, <1>2
<1>4. Len(log) = size BY <1>1, <1>2, <1>3, LenProperties
<1>5. PICK sigs \in SignatureBlocks : head = CheckpointAt(Len(log), sigs) BY DEF Init
<1>6. head.size = Len(log) /\ head.root = RootOf(log, Len(log))
      BY <1>5 DEF CheckpointAt
<1> QED BY <1>3, <1>4, <1>6 DEF Init, ReceiptInv

LEMMA IssueKeeps == ReceiptInv /\ Issue => ReceiptInv'
<1> SUFFICES ASSUME ReceiptInv, Issue PROVE ReceiptInv'
    OBVIOUS
<1>1. UNCHANGED <<log, head, tr, pinned, mixes, verdict>> BY DEF Issue, export
<1>2. verdict = NotYet BY DEF ReceiptInv, Issue
<1>3. receipt' \in Receipts(log) BY DEF Issue
<1>4. Len(log) \in Nat BY LenProperties DEF ReceiptInv
<1>5. Plausible(receipt') /\ receipt'.checkpoint = head
      BY <1>3, <1>4, ReceiptsArePlausible
<1>6. Plausible(receipt)' BY <1>5 DEF Plausible
<1>7. CheckpointOfLog(receipt.checkpoint)'
      BY <1>1, <1>4, <1>5 DEF CheckpointOfLog, ReceiptInv
<1>8. Quorate' BY <1>1 DEF Quorate, Issue
<1>9. Untouched(receipt)'
  <2>1. \E size \in 1..Len(log) : \E k \in KeysOf(log, size) : receipt' = ReceiptFor(log, k, size)
        BY <1>3, <1>4, IssuedAreReceipts
  <2> QED BY <1>1, <2>1 DEF Untouched, ReceiptFor
<1> QED BY <1>1, <1>2, <1>6, <1>7, <1>8, <1>9 DEF ReceiptInv

LEMMA MixKeeps == ReceiptInv /\ Mix => ReceiptInv'
<1> SUFFICES ASSUME ReceiptInv, Mix PROVE ReceiptInv'
    OBVIOUS
<1>1. /\ UNCHANGED <<log, head, tr, pinned, verdict>> /\ verdict = NotYet
      /\ receipt # NotYet /\ mixes' = mixes + 1
      BY DEF Mix, export
<1>2. mixes' \in Nat /\ mixes' # 0 BY <1>1 DEF ReceiptInv
<1>3. Len(log) \in Nat /\ Len(Elsewhere) \in Nat
      BY ReceiptAssumption, LenProperties DEF ReceiptInv, ReceiptAssumption
<1>4. Plausible(receipt) /\ CheckpointOfLog(receipt.checkpoint) /\ Quorate
      BY <1>1 DEF ReceiptInv
<1>5. Plausible(receipt') /\ CheckpointOfLog(receipt'.checkpoint)
  <2>1. ASSUME NEW other \in Receipts(log) \cup Receipts(Elsewhere), NEW taken \in SUBSET Fields,
               receipt' = [f \in Fields |-> IF f \in taken THEN other[f] ELSE receipt[f]]
        PROVE  Plausible(receipt') /\ CheckpointOfLog(receipt'.checkpoint)
    <3>1. Plausible(other) /\ other.checkpoint = head
          BY <1>3, ReceiptsArePlausible
    <3>2. CheckpointOfLog(head) BY <1>3 DEF CheckpointOfLog, ReceiptInv
    <3>3. /\ receipt'.row \in {other.row, receipt.row}
          /\ receipt'.inclusion_proof \in {other.inclusion_proof, receipt.inclusion_proof}
          /\ receipt'.checkpoint \in {other.checkpoint, receipt.checkpoint}
          /\ DOMAIN receipt' = Fields
          BY <2>1 DEF Fields
    <3>4. Plausible(receipt') BY <1>4, <3>1, <3>3 DEF Plausible
    <3>5. CheckpointOfLog(receipt'.checkpoint) BY <1>4, <3>1, <3>2, <3>3
    <3> QED BY <3>4, <3>5
  <2>2. ASSUME NEW size \in 1..Len(log), NEW sigs \in SignatureBlocks,
               receipt' = [receipt EXCEPT !.checkpoint = CheckpointAt(size, sigs)]
        PROVE  Plausible(receipt') /\ CheckpointOfLog(receipt'.checkpoint)
    <3>1. DOMAIN receipt = Fields BY <1>4 DEF Plausible
    <3>2. /\ receipt'.row = receipt.row /\ receipt'.inclusion_proof = receipt.inclusion_proof
          /\ receipt'.checkpoint = CheckpointAt(size, sigs) /\ DOMAIN receipt' = Fields
          BY <2>2, <3>1 DEF Fields
    <3>3. CheckpointOfLog(CheckpointAt(size, sigs)) BY DEF CheckpointOfLog, CheckpointAt
    <3> QED BY <1>4, <3>2, <3>3 DEF Plausible
  <2> QED BY <2>1, <2>2 DEF Mix
<1>6. Plausible(receipt)' /\ CheckpointOfLog(receipt.checkpoint)' /\ Quorate'
      BY <1>1, <1>4, <1>5 DEF Plausible, CheckpointOfLog, Quorate
<1> QED BY <1>1, <1>2, <1>6 DEF ReceiptInv

LEMMA CheckKeeps == ReceiptInv /\ Check => ReceiptInv'
<1> SUFFICES ASSUME ReceiptInv, Check PROVE ReceiptInv'
    OBVIOUS
<1>1. UNCHANGED <<log, head, tr, pinned, receipt, mixes>> /\ receipt # NotYet
      BY DEF Check, export
<1>2. PICK rooted \in BOOLEAN :
        verdict' = [links |-> <<Included(receipt), Committed(receipt),
                                Cosigned(receipt), Rederived(receipt)>>,
                    rooted |-> rooted,
                    ok |-> /\ Included(receipt) /\ Committed(receipt)
                           /\ rooted => Cosigned(receipt)
                           /\ Rederived(receipt)]
      BY DEF Check
<1>3. verdict'.ok = (/\ Included(receipt) /\ Committed(receipt)
                     /\ rooted => Cosigned(receipt)
                     /\ Rederived(receipt))
      BY <1>2, Zenon
<1>4. /\ verdict'.ok => Included(receipt) /\ Committed(receipt) /\ Rederived(receipt)
      /\ Included(receipt) /\ Committed(receipt) /\ Cosigned(receipt) /\ Rederived(receipt)
           => verdict'.ok
      BY <1>3, Zenon
<1>5. /\ Included(receipt)' <=> Included(receipt)
      /\ Committed(receipt)' <=> Committed(receipt)
      /\ Cosigned(receipt)' <=> Cosigned(receipt)
      /\ Rederived(receipt)' <=> Rederived(receipt)
      BY <1>1 DEF Included, Committed, Cosigned, Rederived
<1>6. Plausible(receipt)' <=> Plausible(receipt) BY <1>1 DEF Plausible
<1>7. CheckpointOfLog(receipt.checkpoint)' <=> CheckpointOfLog(receipt.checkpoint)
      BY <1>1 DEF CheckpointOfLog
<1>8. Quorate' <=> Quorate BY <1>1 DEF Quorate
<1>9. Untouched(receipt)' <=> Untouched(receipt) BY <1>1 DEF Untouched, ReceiptFor
<1> QED BY <1>1, <1>4, <1>5, <1>6, <1>7, <1>8, <1>9 DEF ReceiptInv

LEMMA ReceiptInvHolds == Spec => []ReceiptInv
<1>1. ReceiptInv /\ [Next]_vars => ReceiptInv'
  <2>1. ReceiptInv /\ UNCHANGED vars => ReceiptInv'
    <3> SUFFICES ASSUME ReceiptInv, UNCHANGED vars PROVE ReceiptInv'
        OBVIOUS
    <3>1. UNCHANGED <<log, head, tr, pinned, receipt, mixes, verdict>> BY DEF vars, export
    <3> QED BY <3>1 DEF ReceiptInv, Plausible, CheckpointOfLog, Quorate, Untouched, ReceiptFor,
                        Included, Committed, Cosigned, Rederived
  <2> QED BY <2>1, IssueKeeps, MixKeeps, CheckKeeps DEF Next
<1> QED BY <1>1, InitReceipt, PTL DEF Spec

-----------------------------------------------------------------------------

\* verify_receipt.py:14-15: however a receipt was pasted together, of logs of every
\* length, if it checks out then its leaf is in the tree its checkpoint commits to,
\* and the row's key, type and digest are that leaf's.
THEOREM CheckedReceiptsAreTrue == Spec => []CheckedReceiptIsTrue
<1>1. ReceiptInv => CheckedReceiptIsTrue
  <2> SUFFICES ASSUME ReceiptInv, Checked
               PROVE  \E i \in 1..receipt.checkpoint.size :
                        /\ Verdict(log[i]) = "keyed"
                        /\ <<receipt.row.issuer, receipt.row.subject>> = Key(log[i])
                        /\ receipt.row.claim_type = TypeOf(log[i].obj)
                        /\ receipt.row.leaf_sha256 = Digest(log[i])
                        /\ receipt.leaf = log[i]
      BY DEF CheckedReceiptIsTrue
  <2>1. /\ Plausible(receipt) /\ CheckpointOfLog(receipt.checkpoint)
        /\ Included(receipt) /\ Committed(receipt) /\ Rederived(receipt)
        BY DEF ReceiptInv, Checked
  <2> DEFINE size == receipt.checkpoint.size
             D == HashesOf(log, size)
  <2>2. size \in Nat /\ size # 0
    <3>1. Len(log) \in Nat BY LenProperties DEF ReceiptInv
    <3> QED BY <2>1, <3>1 DEF CheckpointOfLog
  <2>3. receipt.root = Mth(D, 0, size) /\ LeavesOf(D, log, size)
        BY <2>1, <2>2, HashesOfLeaves DEF Committed, CheckpointOfLog
  <2>4. Len(receipt.inclusion_proof) \in Nat BY <2>1 DEF Plausible
  <2> HIDE DEF size, D
  <2>5. PICK i \in 1..size : receipt.leaf = log[i]
        BY <2>1, <2>2, <2>3, <2>4, IncludedIsInTree DEF Included
  <2>6. /\ receipt.row.issuer = IssuerOf(log[i].obj) /\ receipt.row.subject = SubjectOf(log[i].obj)
        /\ receipt.row.claim_type = TypeOf(log[i].obj)
        /\ receipt.row.leaf_sha256 = Digest(log[i]) /\ Parse(log[i]) = "json"
        BY <2>1, <2>5 DEF Rederived
  <2>7. Verdict(log[i]) = "keyed" BY <2>1, <2>6, KeyedLeaves DEF Plausible
  <2>8. <<receipt.row.issuer, receipt.row.subject>> = Key(log[i]) BY <2>6 DEF Key
  <2> QED BY <2>5, <2>6, <2>7, <2>8 DEF size
<1> QED BY <1>1, ReceiptInvHolds, PTL

\* reduce.py:285-330 and verify_receipt.py: a receipt for the signed head that reaches
\* the verifier as it was issued checks out, for logs of every length and any leaf.
THEOREM IssuedReceiptsCheckOut == Spec => []HeadReceiptsCheckOut
<1>1. ReceiptInv => HeadReceiptsCheckOut
  <2> SUFFICES ASSUME ReceiptInv, verdict # NotYet, mixes = 0, SameKeys,
                      receipt.tree_size = Len(log)
               PROVE  verdict.ok
      BY DEF HeadReceiptsCheckOut
  <2>1. receipt # NotYet /\ Untouched(receipt) /\ Quorate BY DEF ReceiptInv
  <2>2. PICK size \in 1..Len(log) : \E k \in KeysOf(log, size) : receipt = ReceiptFor(log, k, size)
        BY <2>1 DEF Untouched
  <2>3. PICK k \in KeysOf(log, size) : receipt = ReceiptFor(log, k, size) BY <2>2
  <2>4. size \in Nat \ {0}
    <3>1. Len(log) \in Nat BY LenProperties DEF ReceiptInv
    <3> QED BY <3>1
  <2>5. /\ receipt.checkpoint = head /\ receipt.tree_size = size
        /\ Included(receipt) /\ Rederived(receipt) /\ receipt.root = RootOf(log, size)
        BY <2>3, <2>4, IssuedIsPlausible
  <2>6. Committed(receipt) BY <2>5 DEF Committed, ReceiptInv
  <2>7. Cosigned(receipt)
    <3>1. Counted(head.sigs, pinned, tr) = CountedByTrustRoot(head.sigs, tr)
      <4>1. pinned = tr.vkeys BY DEF SameKeys
      <4>2. ASSUME NEW i \in Verified(head.sigs, tr.vkeys)
            PROVE  head.sigs[i].name \in Rooted(tr)
            BY DEF Verified, KeyOfLine, Rooted
      <4> QED BY <4>1, <4>2 DEF Counted, CountedByTrustRoot
    <3> QED BY <2>1, <2>5, <3>1 DEF Quorate, Cosigned, SameKeys
  <2> QED BY <2>5, <2>6, <2>7 DEF ReceiptInv
<1> QED BY <1>1, ReceiptInvHolds, PTL

-----------------------------------------------------------------------------
(* The other verifier, verify_subtree_proof.                               *)

\* What halving does to a position: it stays a position, is 0 only from 0 or 1,
\* and keeps the order of two.
LEMMA Halving ==
  ASSUME NEW x \in Nat, NEW y \in Nat, x <= y
  PROVE  /\ x \div 2 \in Nat /\ x \div 2 <= y \div 2
         /\ x # 0 /\ ~Odd(x) => x \div 2 # 0
BY DEF Odd

\* So it does to the three positions.
LEMMA ShiftKeepsOrder ==
  ASSUME PositionsOrdered, Shift
  PROVE  /\ fn' \in Nat /\ sn' \in Nat /\ tn' \in Nat
         /\ fn' <= sn' /\ sn' <= tn'
         /\ sn # 0 /\ ~Odd(sn) => sn' # 0
BY Halving DEF PositionsOrdered, Shift

\* They start in order, and every step of the loops keeps them so.
LEMMA InitOrdered == CallInit => PositionsOrdered
BY DEF CallInit, PositionsOrdered

LEMMA StepOrdered == PositionsOrdered /\ [CallNext]_callVars => PositionsOrdered'
<1> SUFFICES ASSUME PositionsOrdered, [CallNext]_callVars PROVE PositionsOrdered'
    OBVIOUS
<1>1. CASE Refuse        BY <1>1 DEF Refuse, Return, PositionsOrdered
<1>2. CASE Enter         BY <1>2 DEF Enter, PositionsOrdered
<1>3. CASE Align         BY <1>3, ShiftKeepsOrder DEF Align, PositionsOrdered
<1>4. CASE SeedWithNode  BY <1>4 DEF SeedWithNode, PositionsOrdered
<1>5. CASE SeedWithProof BY <1>5 DEF SeedWithProof, PositionsOrdered
<1>6. CASE NothingToSeed BY <1>6 DEF NothingToSeed, Return, PositionsOrdered
<1>7. CASE TooLong       BY <1>7 DEF TooLong, Return, PositionsOrdered
<1>8. CASE JoinLeft
  \* The head of the loop has seen tn # 0, and an odd sn is not 0 either.
  <2>1. sn # 0 BY <1>8 DEF JoinLeft, Odd, PositionsOrdered
  <2> QED BY <1>8, <2>1 DEF JoinLeft, PositionsOrdered
<1>9. CASE Strip
  <2>1. sn # 0 BY <1>9 DEF Strip, PositionsOrdered
  <2>2. pc' = "strip" => sn' # 0 BY <1>9, <2>1, ShiftKeepsOrder DEF Strip
  <2> QED BY <1>9, <2>2, ShiftKeepsOrder DEF Strip, PositionsOrdered
<1>10. CASE JoinRight    BY <1>10, ShiftKeepsOrder DEF JoinRight, PositionsOrdered
<1>11. CASE Finish       BY <1>11 DEF Finish, Return, PositionsOrdered
<1>12. CASE UNCHANGED callVars BY <1>12 DEF callVars, PositionsOrdered
<1> QED BY <1>1, <1>2, <1>3, <1>4, <1>5, <1>6, <1>7, <1>8, <1>9, <1>10, <1>11, <1>12 DEF CallNext

\* verify_subtree_proof never enters its inner loop at position 0, where it would
\* halve for ever, for any size of the tree, any range and any proof.
THEOREM PositionsStayOrdered == CallSpec => []PositionsOrdered
BY InitOrdered, StepOrdered, PTL DEF CallSpec

-----------------------------------------------------------------------------

\* The positions are numbers.
LEMMA FoldingPosition ==
  ASSUME NEW D, NEW s, NEW e, NEW p, Called(D, s, e, p), NEW h, NEW r,
         NEW a, NEW b, NEW c, NEW f, NEW g, Folding(D, s, e, p, h, r, a, b, c, f, g)
  PROVE  b \in Nat
<1>1. PICK lo, hi, l, i :
        /\ Positions(s, e, Len(D), l, a, b, c)
        /\ OnWay(e, lo, hi, l, Len(D)) /\ Live(s, e, lo, hi, l, Len(D))
        /\ Left(p, r, i)
        /\ Rebuilt(D, s, e, p, h, i, f, g, lo, hi)
      BY DEF Folding
<1> QED BY <1>1, WayPosition DEF Positions

LEMMA AligningPosition ==
  ASSUME NEW D, NEW s, NEW e, NEW p, Called(D, s, e, p), NEW r,
         NEW a, NEW b, NEW c, Aligning(D, s, e, p, r, a, b, c)
  PROVE  b \in Nat
<1>1. PICK h : Rising(s, e, Len(D), h) /\ Positions(s, e, Len(D), h, a, b, c)
      BY DEF Aligning
<1>2. h \in Nat /\ e - 1 \in Nat BY <1>1, CallIs DEF Rising
<1> QED BY <1>1, <1>2, LevelUp DEF Positions

\* A call of verify_subtree_proof with any arguments at all.
AnyCall ==
  /\ start \in Int /\ end \in Int /\ \E S : proof \in Seq(S)
  /\ fn = start /\ sn = end - 1 /\ tn = n - 1 /\ rest = proof
  /\ pc = "call" /\ accepted = FALSE

\* Where the verifier stands, as to the tree over D.
Stands(D) ==
  /\ pc = "align" => Aligning(D, start, end, proof, rest, fn, sn, tn)
  /\ pc = "fold"  => Folding(D, start, end, proof, node, rest, fn, sn, tn, fr, sr)
  /\ pc = "strip" => Stripping(D, start, end, proof, node, rest, fn, sn, tn, fr, sr)
  /\ pc = "done" /\ root = Mth(D, 0, n) => (accepted <=> Exact(D, start, end, proof, node))

\* Whatever tree of this size the root is compared with, and whatever the proof.
VerifierInv ==
  /\ start \in Int /\ end \in Int /\ \E S : proof \in Seq(S)
  /\ pc = "call" => fn = start /\ sn = end - 1 /\ tn = n - 1 /\ rest = proof
  /\ pc \in {"align", "fold", "strip"} => ValidSubtree(start, end, n)
  /\ \A D : Len(D) \in Nat /\ Len(D) = n => Stands(D)

\* The invariant holds of every call, and every step keeps it.
LEMMA AnyCallVerifies == AnyCall => VerifierInv
BY DEF AnyCall, VerifierInv, Stands

\* The steps, as to one tree.
LEMMA StepStands ==
  ASSUME NEW D, Len(D) \in Nat, Len(D) = n, VerifierInv, [CallNext]_callVars
  PROVE  Stands(D)'
<1>1. Stands(D) /\ Len(D) = n BY DEF VerifierInv
<1>2. ASSUME pc \in {"align", "fold", "strip"} PROVE Called(D, start, end, proof)
  <2>1. ValidSubtree(start, end, n) /\ start \in Nat /\ end \in Nat
        BY <1>2 DEF VerifierInv, ValidSubtree
  <2>2. Len(proof) \in Nat BY LenProperties DEF VerifierInv
  <2> QED BY <1>1, <2>1, <2>2 DEF Called
<1>3. CASE Refuse
  <2>1. pc' = "done" /\ accepted' = FALSE /\ UNCHANGED <<n, start, end, proof, node, root>>
        BY <1>3 DEF Refuse, Return, args
  <2>2. ~ValidSubtree(start, end, Len(D)) BY <1>1, <1>3 DEF Refuse
  <2> QED BY <2>1, <2>2 DEF Stands, Exact
<1>4. CASE Enter
  <2>1. /\ pc = "call" /\ pc' = "align"
        /\ UNCHANGED <<n, start, end, proof, node, root, fn, sn, tn, rest>>
        /\ ValidSubtree(start, end, n)
        BY <1>4 DEF Enter, args
  <2>2. Called(D, start, end, proof)
    <3>1. start \in Nat /\ end \in Nat BY <2>1 DEF VerifierInv, ValidSubtree
    <3>2. Len(proof) \in Nat BY LenProperties DEF VerifierInv
    <3> QED BY <1>1, <2>1, <3>1, <3>2 DEF Called
  <2>3. Aligning(D, start, end, proof, proof, start, end - 1, Len(D) - 1) BY <2>2, AligningStarts
  <2>4. Aligning(D, start, end, proof, rest, fn, sn, tn) BY <1>1, <2>1, <2>3 DEF VerifierInv
  <2> QED BY <2>1, <2>4 DEF Stands
<1>5. CASE Align
  <2>1. /\ pc = "align" /\ pc' = pc /\ UNCHANGED <<n, start, end, proof, node, root, rest>>
        /\ fn' = fn \div 2 /\ sn' = sn \div 2 /\ tn' = tn \div 2
        /\ fn # sn /\ (sn = tn \/ sn % 2 = 1)
        BY <1>5 DEF Align, Aligned, Odd, Shift, args
  <2>2. Aligning(D, start, end, proof, rest, fn \div 2, sn \div 2, tn \div 2)
        BY <1>1, <1>2, <2>1, AligningGoesOn DEF Stands
  <2> QED BY <2>1, <2>2 DEF Stands
<1>6. CASE SeedWithNode
  <2>1. /\ pc = "align" /\ pc' = "fold" /\ fn = sn
        /\ UNCHANGED <<n, start, end, proof, node, root, rest, fn, sn, tn>>
        /\ fr' = node /\ sr' = node
        BY <1>6 DEF SeedWithNode, args
  <2>2. Folding(D, start, end, proof, node, rest, fn, sn, tn, node, node)
        BY <1>1, <1>2, <2>1, NodeSeeds DEF Stands, VerifierInv
  <2> QED BY <2>1, <2>2 DEF Stands
<1>7. CASE SeedWithProof
  <2>1. /\ pc = "align" /\ pc' = "fold" /\ fn # sn /\ sn # tn /\ sn % 2 # 1 /\ rest # << >>
        /\ UNCHANGED <<n, start, end, proof, node, root, fn, sn, tn>>
        /\ fr' = Head(rest) /\ sr' = Head(rest) /\ rest' = Tail(rest)
        BY <1>7 DEF SeedWithProof, Aligned, Odd, args
  <2>2. sn % 2 = 0
    <3>1. sn \in Nat BY <1>1, <1>2, <2>1, AligningPosition DEF Stands
    <3> QED BY <2>1, <3>1
  <2>3. Folding(D, start, end, proof, node, Tail(rest), fn, sn, tn, Head(rest), Head(rest))
        BY <1>1, <1>2, <2>1, <2>2, ProofSeeds DEF Stands, VerifierInv
  <2> QED BY <2>1, <2>3 DEF Stands
<1>8. CASE NothingToSeed
  <2>1. /\ pc = "align" /\ pc' = "done" /\ fn # sn /\ sn # tn /\ sn % 2 # 1 /\ rest = << >>
        /\ UNCHANGED <<n, start, end, proof, node, root>> /\ accepted' = FALSE
        BY <1>8 DEF NothingToSeed, Return, Aligned, Odd, args
  <2>2. sn % 2 = 0
    <3>1. sn \in Nat BY <1>1, <1>2, <2>1, AligningPosition DEF Stands
    <3> QED BY <2>1, <3>1
  <2>3. ~Exact(D, start, end, proof, node)
        BY <1>1, <1>2, <2>1, <2>2, NothingSeedsNothing DEF Stands
  <2> QED BY <2>1, <2>3 DEF Stands
<1>9. CASE TooLong
  <2>1. /\ pc = "fold" /\ pc' = "done" /\ rest # << >> /\ tn = 0
        /\ UNCHANGED <<n, start, end, proof, node, root>> /\ accepted' = FALSE
        BY <1>9 DEF TooLong, Return, args
  <2>2. ~Exact(D, start, end, proof, node)
        BY <1>1, <1>2, <2>1, FoldTooLong DEF Stands
  <2> QED BY <2>1, <2>2 DEF Stands
<1>10. CASE JoinLeft
  <2> DEFINE up == IF fn < sn THEN NodeHash(Head(rest), fr) ELSE fr
  <2>1. /\ pc = "fold" /\ pc' = "strip" /\ rest # << >> /\ tn # 0 /\ (sn % 2 = 1 \/ sn = tn)
        /\ UNCHANGED <<n, start, end, proof, node, root, fn, sn, tn>>
        /\ fr' = up /\ sr' = NodeHash(Head(rest), sr) /\ rest' = Tail(rest)
        BY <1>10 DEF JoinLeft, Odd, args
  <2>2. Stripping(D, start, end, proof, node, Tail(rest), fn, sn, tn, up, NodeHash(Head(rest), sr))
        BY <1>1, <1>2, <2>1, FoldJoinsLeft DEF Stands
  <2> HIDE DEF up
  <2> QED BY <2>1, <2>2 DEF Stands
<1>11. CASE Strip
  <2>1. /\ pc = "strip" /\ pc' = (IF sn % 2 = 1 THEN "fold" ELSE "strip")
        /\ UNCHANGED <<n, start, end, proof, node, root, fr, sr, rest>>
        /\ fn' = fn \div 2 /\ sn' = sn \div 2 /\ tn' = tn \div 2
        BY <1>11 DEF Strip, Odd, Shift, args
  <2>2. /\ sn % 2 = 1 => Folding(D, start, end, proof, node, rest,
                                 fn \div 2, sn \div 2, tn \div 2, fr, sr)
        /\ sn % 2 # 1 => Stripping(D, start, end, proof, node, rest,
                                   fn \div 2, sn \div 2, tn \div 2, fr, sr)
        BY <1>1, <1>2, <2>1, StripGoesOn DEF Stands
  <2> QED BY <2>1, <2>2 DEF Stands
<1>12. CASE JoinRight
  <2>1. /\ pc = "fold" /\ pc' = pc /\ rest # << >> /\ sn % 2 # 1 /\ sn # tn
        /\ UNCHANGED <<n, start, end, proof, node, root, fr>>
        /\ fn' = fn \div 2 /\ sn' = sn \div 2 /\ tn' = tn \div 2
        /\ sr' = NodeHash(sr, Head(rest)) /\ rest' = Tail(rest)
        BY <1>12 DEF JoinRight, Odd, Shift, args
  <2>2. sn % 2 = 0
    <3>1. sn \in Nat BY <1>1, <1>2, <2>1, FoldingPosition DEF Stands
    <3> QED BY <2>1, <3>1
  <2>3. Folding(D, start, end, proof, node, Tail(rest), fn \div 2, sn \div 2, tn \div 2,
                fr, NodeHash(sr, Head(rest)))
        BY <1>1, <1>2, <2>1, <2>2, FoldJoinsRight DEF Stands
  <2> QED BY <2>1, <2>3 DEF Stands
<1>13. CASE Finish
  <2>1. /\ pc = "fold" /\ pc' = "done" /\ rest = << >>
        /\ UNCHANGED <<n, start, end, proof, node, root>>
        /\ accepted' = (tn = 0 /\ fr = node /\ sr = root)
        BY <1>13 DEF Finish, Return, args
  <2>2. tn = 0 /\ fr = node /\ sr = Mth(D, 0, Len(D)) <=> Exact(D, start, end, proof, node)
        BY <1>1, <1>2, <2>1, FoldFinishes DEF Stands, VerifierInv
  <2>3. root = Mth(D, 0, n) => (accepted' <=> Exact(D, start, end, proof, node))
        BY <1>1, <2>1, <2>2, Zenon
  <2> QED BY <2>1, <2>3 DEF Stands
<1>14. CASE UNCHANGED callVars
  <2>1. UNCHANGED <<n, start, end, proof, node, root, fn, sn, tn, fr, sr, rest, pc, accepted>>
        BY <1>14 DEF callVars, args
  <2> QED BY <1>1, <2>1 DEF Stands
<1> QED BY <1>3, <1>4, <1>5, <1>6, <1>7, <1>8, <1>9, <1>10, <1>11, <1>12, <1>13, <1>14 DEF CallNext

\* No step changes the arguments.
LEMMA StepKeepsArgs ==
  ASSUME [CallNext]_callVars
  PROVE  /\ UNCHANGED <<n, start, end, proof, node, root>>
         /\ pc' = "call" => pc = "call" /\ UNCHANGED <<fn, sn, tn, fr, sr, rest, accepted>>
         /\ pc' \in {"align", "fold", "strip"} =>
              pc \in {"align", "fold", "strip"} \/ ValidSubtree(start, end, n)
BY DEF CallNext, callVars, args, Refuse, Enter, Align, SeedWithNode, SeedWithProof,
       NothingToSeed, TooLong, JoinLeft, Strip, JoinRight, Finish, Return

LEMMA StepVerifies == VerifierInv /\ [CallNext]_callVars => VerifierInv'
<1> SUFFICES ASSUME VerifierInv, [CallNext]_callVars PROVE VerifierInv'
    OBVIOUS
<1>1. /\ UNCHANGED <<n, start, end, proof, node, root>>
      /\ pc' = "call" => pc = "call" /\ UNCHANGED <<fn, sn, tn, fr, sr, rest, accepted>>
      /\ pc' \in {"align", "fold", "strip"} =>
           pc \in {"align", "fold", "strip"} \/ ValidSubtree(start, end, n)
      BY StepKeepsArgs
<1>2. \A D : Len(D) \in Nat /\ Len(D) = n' => Stands(D)'
  <2>1. ASSUME NEW D, Len(D) \in Nat, Len(D) = n' PROVE Stands(D)'
    <3>1. Len(D) = n BY <1>1, <2>1
    <3> QED BY <2>1, <3>1, StepStands
  <2> QED BY <2>1
<1>3. (ValidSubtree(start, end, n))' <=> ValidSubtree(start, end, n) BY <1>1
<1> QED BY <1>1, <1>2, <1>3 DEF VerifierInv

LEMMA VerifierInvHolds == AnyCall /\ [][CallNext]_callVars => []VerifierInv
BY AnyCallVerifies, StepVerifies, PTL

-----------------------------------------------------------------------------

\* A hash of such a proof, joined from the right, makes no hash that commits to the
\* leaf after those of the log.
LEMMA RightJoinsEndEarlier ==
  ASSUME NEW size \in Nat \ {0}, NEW s, NEW e, NEW p, Called(Log(size), s, e, p), NEW h, NEW r,
         h = Mth(Log(size), s, e),
         Len(p) = Len(SubtreeProof(s, e, Log(size))), Near(p, SubtreeProof(s, e, Log(size)), size),
         NEW a, NEW b, NEW c, NEW f, NEW g, Folding(Log(size), s, e, p, h, r, a, b, c, f, g),
         r # << >>, b # c
  PROVE  ~EndHash(NodeHash(g, Head(r)), size)
<1> DEFINE D == Log(size)
           P == SubtreeProof(s, e, D)
<1>1. Len(D) = size BY LogIs
<1>2. PICK lo, hi, l, i :
        /\ Positions(s, e, Len(D), l, a, b, c)
        /\ OnWay(e, lo, hi, l, Len(D)) /\ Live(s, e, lo, hi, l, Len(D))
        /\ Left(p, r, i)
        /\ Rebuilt(D, s, e, p, h, i, f, g, lo, hi)
      BY DEF Folding
<1>3. i \in Nat /\ i < Len(p) /\ Head(r) = p[i + 1] BY <1>2, LeftSome
<1>4. Len(P) \in Nat /\ P = Part(s, e, D, 0, Len(D)) BY ProofIsSeq
<1>5. i + 1 \in 1..Len(P) BY <1>3, <1>4
<1>6. \/ Head(r) \in Inners(D)
      \/ Head(r) = LeafHash(size) /\ \A j \in 1..((i + 1) - 1) : p[j] = P[j]
      BY <1>3, <1>5 DEF Near
<1>7. CASE Head(r) \in Inners(D)
  <2>1. ~EndHash(Head(r), size) BY <1>7, InnersEndEarlier
  <2> QED BY <2>1, EndHashParts
<1>8. CASE Head(r) = LeafHash(size) /\ \A j \in 1..((i + 1) - 1) : p[j] = P[j]
  <2> DEFINE q == Part(s, e, D, lo, hi)
  <2>1. Begins(P, q) /\ Len(q) = i
        BY <1>2, <1>4, PartBegins DEF PartGoesOn, Rebuilt
  <2>2. Begins(p, q)
    <3> HIDE DEF q, P
    <3>1. (i + 1) - 1 = i BY <1>3
    <3>2. \A j \in 1..i : p[j] = P[j] BY <1>8, <3>1
    <3>3. \A j \in 1..i : P[j] = q[j] BY <2>1 DEF Begins
    <3>4. \A j \in 1..i : p[j] = q[j] BY <3>2, <3>3
    <3>5. i <= Len(p) BY <1>3
    <3> QED BY <2>1, <3>4, <3>5 DEF Begins
  <2>3. g = Mth(D, lo, hi) BY <1>2, <2>2 DEF Rebuilt
  <2>4. hi < size /\ lo \in 0..size /\ hi \in 0..size /\ lo < hi
    <3> DEFINE d == 2^l
    <3>1. b # c => hi = lo + d /\ ~(Len(D) <= lo + d)
          BY <1>2, WayPosition DEF Positions
    <3>2. lo \in 0..size /\ hi \in 0..size /\ lo < hi BY <1>1, <1>2 DEF OnWay, IsPlace
    <3>3. d \in Nat
      <4>1. l \in Nat BY <1>2 DEF OnWay, IsPlace
      <4> QED BY <4>1, Powers
    <3> HIDE DEF d, D
    <3> QED BY <1>1, <3>1, <3>2, <3>3
  <2>5. SUFFICES ASSUME EndHash(NodeHash(g, Head(r)), size) PROVE FALSE OBVIOUS
  <2>6. PICK x \in 0..size : x < size /\ g = Mth(Log(size + 1), x, size)
        BY <1>8, <2>5, EndHashParts
  <2>7. g = Mth(Log(size + 1), lo, hi) BY <2>3, <2>4, SameRanges
  <2>8. /\ size + 1 \in Nat /\ lo \in 0..(size + 1) /\ hi \in 0..(size + 1)
        /\ x \in 0..(size + 1) /\ size \in 0..(size + 1)
        BY <2>4
  <2>9. hi = size BY <2>4, <2>6, <2>7, <2>8, RangesDiffer
  <2> QED BY <2>4, <2>9
<1> QED BY <1>6, <1>7, <1>8

-----------------------------------------------------------------------------

\* The subtree's own hash and a proof of the right length with one mistake.
Mistaken ==
  /\ n \in Nat \ {0} /\ node = Mth(Log(n), start, end)
  /\ Len(proof) = Len(SubtreeProof(start, end, Log(n)))
  /\ Near(proof, SubtreeProof(start, end, Log(n)), n)

\* What it can not lead to.
OtherRootInv ==
  /\ Mistaken =>
       /\ pc = "fold"  => ~EndHash(sr, n) \/ (sr = LeafHash(n) /\ sn % 2 = 0 /\ sn # tn)
       /\ pc = "strip" => ~EndHash(sr, n)
       /\ pc = "done" /\ accepted => ~EndHash(root, n)
  /\ pc = "done" /\ accepted =>
       /\ ValidSubtree(start, end, n)
       /\ n \in Nat => Len(proof) = Len(SubtreeProof(start, end, Log(n)))

\* Every step keeps it.
LEMMA StepKeepsOtherRoot ==
  ASSUME VerifierInv, OtherRootInv, [CallNext]_callVars
  PROVE  OtherRootInv'
<1>0. n \in Nat => Stands(Log(n)) /\ Len(Log(n)) = n BY LogIs DEF VerifierInv
<1>1. ASSUME pc \in {"align", "fold", "strip"}, n \in Nat PROVE Called(Log(n), start, end, proof)
  <2>1. ValidSubtree(start, end, n) /\ start \in Nat /\ end \in Nat
        BY <1>1 DEF VerifierInv, ValidSubtree
  <2>2. Len(proof) \in Nat BY LenProperties DEF VerifierInv
  <2> QED BY <1>0, <1>1, <2>1, <2>2 DEF Called
<1>2. UNCHANGED <<n, start, end, proof, node, root>> BY StepKeepsArgs
<1>3. Mistaken' <=> Mistaken BY <1>2 DEF Mistaken
<1>4. CASE Refuse \/ Enter \/ Align \/ NothingToSeed \/ TooLong
  <2>1. pc' \notin {"fold", "strip"} /\ ~(pc' = "done" /\ accepted')
        BY <1>4 DEF Refuse, Enter, Align, NothingToSeed, TooLong, Return
  <2> QED BY <2>1 DEF OtherRootInv
<1>5. CASE SeedWithNode
  <2>1. pc' = "fold" /\ sr' = node BY <1>5 DEF SeedWithNode
  <2>2. Mistaken => ~EndHash(node, n)
    <3>1. SUFFICES ASSUME Mistaken PROVE ~EndHash(node, n) OBVIOUS
    <3>2. n \in Nat /\ Called(Log(n), start, end, proof) BY <1>1, <1>5, <3>1 DEF Mistaken, SeedWithNode
    <3>3. start \in 0..n /\ end \in 0..n /\ start < end BY <1>0, <3>2, CallIs
    <3>4. node \in Inners(Log(n)) BY <1>0, <3>1, <3>2, <3>3, InnersOf DEF Mistaken
    <3> QED BY <3>2, <3>4, InnersEndEarlier
  <2> QED BY <1>2, <1>3, <2>1, <2>2 DEF OtherRootInv
<1>6. CASE SeedWithProof
  <2>1. /\ pc = "align" /\ pc' = "fold" /\ sr' = Head(rest) /\ rest # << >>
        /\ sn # tn /\ sn % 2 # 1 /\ UNCHANGED <<sn, tn>>
        BY <1>6 DEF SeedWithProof, Aligned, Odd
  <2>2. Mistaken => ~EndHash(Head(rest), n) \/ (Head(rest) = LeafHash(n) /\ sn % 2 = 0)
    <3>1. SUFFICES ASSUME Mistaken
                   PROVE  ~EndHash(Head(rest), n) \/ (Head(rest) = LeafHash(n) /\ sn % 2 = 0)
          OBVIOUS
    <3>2. n \in Nat /\ Called(Log(n), start, end, proof) BY <1>1, <2>1, <3>1 DEF Mistaken
    <3>3. Aligning(Log(n), start, end, proof, rest, fn, sn, tn) BY <1>0, <2>1, <3>2 DEF Stands
    <3>4. sn % 2 = 0
      <4>1. sn \in Nat BY <3>2, <3>3, AligningPosition
      <4> QED BY <2>1, <4>1
    <3>5. rest = proof BY <3>3 DEF Aligning
    <3>6. PICK S : proof \in Seq(S) BY DEF VerifierInv
    <3>7. Head(rest) = proof[1] /\ 1 \in 1..Len(SubtreeProof(start, end, Log(n)))
      <4>1. Len(proof) \in Nat \ {0} BY <2>1, <3>5, <3>6, EmptySeq
      <4>2. Head(proof) = proof[1] BY <3>6
      <4> QED BY <3>1, <3>5, <4>1, <4>2 DEF Mistaken
    <3>8. Head(rest) \in Inners(Log(n)) \/ Head(rest) = LeafHash(n)
          BY <3>1, <3>7 DEF Mistaken, Near
    <3> QED BY <3>2, <3>4, <3>8, InnersEndEarlier
  <2> QED BY <1>2, <1>3, <2>1, <2>2 DEF OtherRootInv
<1>7. CASE JoinLeft
  <2>1. /\ pc = "fold" /\ pc' = "strip" /\ sr' = NodeHash(Head(rest), sr)
        /\ sn % 2 = 1 \/ sn = tn
        BY <1>7 DEF JoinLeft, Odd
  <2>2. Mistaken => ~EndHash(sr, n) BY <2>1 DEF OtherRootInv
  <2>3. Mistaken => ~EndHash(NodeHash(Head(rest), sr), n)
    <3>1. Mistaken => n \in Nat BY DEF Mistaken
    <3> QED BY <2>2, <3>1, EndHashParts
  <2> QED BY <1>2, <1>3, <2>1, <2>3 DEF OtherRootInv
<1>8. CASE Strip
  <2>1. pc = "strip" /\ pc' \in {"fold", "strip"} /\ UNCHANGED sr BY <1>8 DEF Strip
  <2>2. Mistaken => ~EndHash(sr, n) BY <2>1 DEF OtherRootInv
  <2> QED BY <1>2, <1>3, <2>1, <2>2 DEF OtherRootInv
<1>9. CASE JoinRight
  <2>1. /\ pc = "fold" /\ pc' = pc /\ sr' = NodeHash(sr, Head(rest)) /\ rest # << >> /\ sn # tn
        BY <1>9 DEF JoinRight
  <2>2. Mistaken => ~EndHash(NodeHash(sr, Head(rest)), n)
    <3>1. SUFFICES ASSUME Mistaken PROVE ~EndHash(NodeHash(sr, Head(rest)), n) OBVIOUS
    <3>2. n \in Nat \ {0} /\ Called(Log(n), start, end, proof) BY <1>1, <2>1, <3>1 DEF Mistaken
    <3>3. Folding(Log(n), start, end, proof, node, rest, fn, sn, tn, fr, sr)
          BY <1>0, <2>1, <3>2 DEF Stands
    <3> QED BY <2>1, <3>1, <3>2, <3>3, RightJoinsEndEarlier DEF Mistaken
  <2> QED BY <1>2, <1>3, <2>1, <2>2 DEF OtherRootInv
<1>10. CASE Finish
  <2>1. /\ pc = "fold" /\ pc' = "done" /\ rest = << >>
        /\ accepted' = (tn = 0 /\ fr = node /\ sr = root)
        BY <1>10 DEF Finish, Return
  <2>2. accepted' => tn = 0 /\ sr = root BY <2>1, Zenon
  <2>3. ValidSubtree(start, end, n) BY <2>1 DEF VerifierInv
  <2>4. ASSUME n \in Nat
        PROVE  /\ sn \in Nat /\ (tn = 0 => sn = 0)
               /\ tn = 0 => Len(proof) = Len(SubtreeProof(start, end, Log(n)))
    <3>1. Called(Log(n), start, end, proof) BY <1>1, <2>1, <2>4
    <3>2. Folding(Log(n), start, end, proof, node, << >>, fn, sn, tn, fr, sr)
          BY <1>0, <2>1, <2>4 DEF Stands
    <3>3. ASSUME tn = 0 PROVE Len(proof) = Len(SubtreeProof(start, end, Log(n)))
      <4> DEFINE D == Log(n)
      <4>1. Called(D, start, end, proof) BY <3>1
      <4>2. Folding(D, start, end, proof, node, << >>, fn, sn, tn, fr, sr) BY <3>2
      <4> HIDE DEF D
      <4>3. Len(proof) = Len(SubtreeProof(start, end, D)) BY <3>3, <4>1, <4>2, FoldLength
      <4> QED BY <4>3 DEF D
    <3>4. PICK lo, hi, l, i :
            /\ Positions(start, end, Len(Log(n)), l, fn, sn, tn)
            /\ OnWay(end, lo, hi, l, Len(Log(n))) /\ Live(start, end, lo, hi, l, Len(Log(n)))
            /\ Left(proof, << >>, i)
            /\ Rebuilt(Log(n), start, end, proof, node, i, fr, sr, lo, hi)
          BY <3>2 DEF Folding
    <3>5. sn \in Nat /\ tn \in Nat /\ sn <= tn BY <3>4, WayPosition DEF Positions
    <3>6. tn = 0 => sn = 0 BY <3>5
    <3> QED BY <3>3, <3>5, <3>6
  <2>5. Mistaken /\ accepted' => ~EndHash(root, n)
    <3>1. Mistaken => n \in Nat BY DEF Mistaken
    <3>2. Mistaken => ~EndHash(sr, n) \/ sn # tn BY <2>1 DEF OtherRootInv
    <3>3. Mistaken /\ accepted' => sn = tn BY <2>2, <2>4, <3>1
    <3> QED BY <2>2, <3>2, <3>3
  <2> QED BY <1>2, <1>3, <2>1, <2>2, <2>3, <2>4, <2>5 DEF OtherRootInv
<1>11. CASE UNCHANGED callVars
  <2>1. UNCHANGED <<n, start, end, proof, node, root, fn, sn, tn, fr, sr, rest, pc, accepted>>
        BY <1>11 DEF callVars, args
  <2> QED BY <1>3, <2>1 DEF OtherRootInv
<1> QED BY <1>4, <1>5, <1>6, <1>7, <1>8, <1>9, <1>10, <1>11 DEF CallNext

-----------------------------------------------------------------------------

\* The proofs and hashes that the runs try.
LEMMA AroundIs ==
  ASSUME NEW s, NEW e, NEW size
  PROVE  /\ ProofsAround(s, e, size)
              = {SubtreeProof(s, e, Log(size)), << >>}
                  \cup Altered(SubtreeProof(s, e, Log(size)),
                               {Mth(Log(size), s, e), Mth(Log(size), 0, size), LeafHash(size)})
         /\ HashesAround(s, e, size)
              = {Mth(Log(size), s, e), Mth(Log(size), s, size), Mth(Log(size + 1), 0, size + 1)}
<1>1. ProofsAround(s, e, size)
              = {SubtreeProof(s, e, Log(size)), << >>}
                  \cup Altered(SubtreeProof(s, e, Log(size)),
                               {Mth(Log(size), s, e), Mth(Log(size), 0, size), LeafHash(size)})
      BY DEF ProofsAround
<1>2. HashesAround(s, e, size)
              = {Mth(Log(size), s, e), Mth(Log(size), s, size), Mth(Log(size + 1), 0, size + 1)}
      BY DEF HashesAround
<1> QED BY <1>1, <1>2

\* The calls that the runs make.
Inputs ==
  /\ n \in Nat \ {0} /\ start \in Nat /\ end \in Nat /\ start < end /\ end <= n
  /\ proof \in ProofsAround(start, end, n)
  /\ root \in HashesAround(0, n, n)

\* Each of those proofs is genuine, of another length, or has one mistake.
LEMMA ProofsAroundAre ==
  ASSUME NEW size \in Nat \ {0}, NEW s \in Nat, NEW e \in Nat, s < e, e <= size,
         NEW p \in ProofsAround(s, e, size)
  PROVE  /\ p \in Seq(Inners(Log(size)) \cup {LeafHash(size)})
         /\ Len(p) = Len(SubtreeProof(s, e, Log(size))) => Near(p, SubtreeProof(s, e, Log(size)), size)
<1> DEFINE P == SubtreeProof(s, e, Log(size))
           H == {Mth(Log(size), s, e), Mth(Log(size), 0, size), LeafHash(size)}
           I == Inners(Log(size))
           S == I \cup {LeafHash(size)}
<1>1. Len(Log(size)) = size BY LogIs
<1>2. P \in Seq(I)
  <2>1. 0 \in 0..size /\ size \in 0..size /\ 0 < e BY <1>1
  <2>2. Part(s, e, Log(size), 0, Len(Log(size))) \in Seq(I) BY <1>1, <2>1, PartsAreSequences
  <2> QED BY <2>2, ProofIsPart
<1>3. H \in SUBSET S
  <2>1. s \in 0..size /\ e \in 0..size /\ 0 \in 0..size /\ size \in 0..size /\ 0 < size OBVIOUS
  <2>2. Mth(Log(size), s, e) \in I /\ Mth(Log(size), 0, size) \in I BY <1>1, <2>1, InnersOf
  <2> HIDE DEF I
  <2> QED BY <2>2
<1>4. p \in {P, << >>} \cup Altered(P, H) BY AroundIs
<1> HIDE DEF P, H
<1>5. CASE p = P
  <2>1. \A j \in 1..Len(P) : p[j] \in I BY <1>2, <1>5, ElementOfSeq
  <2>2. p \in Seq(S)
    <3>1. I \subseteq S OBVIOUS
    <3> HIDE DEF I, S
    <3> QED BY <1>2, <1>5, <3>1, SeqMonotonic
  <2> QED BY <1>5, <2>1, <2>2 DEF Near, P
<1>6. CASE p = << >>
  <2>1. p \in Seq(S) /\ Len(p) = 0 BY <1>6, EmptySeq
  <2>2. Len(p) = Len(P) => 1..Len(P) = {} BY <2>1
  <2> QED BY <2>1, <2>2 DEF Near, P
<1>7. CASE p \in Altered(P, H)
  <2>1. p \in Seq(S) /\ (Len(p) = Len(P) => Near(p, P, size))
    <3> DEFINE T == S
    <3>1. T = Inners(Log(size)) \cup {LeafHash(size)} OBVIOUS
    <3>2. H \in SUBSET T BY <1>3
    <3>3. P \in Seq(Inners(Log(size))) BY <1>2
    <3> HIDE DEF T
    <3>4. p \in Seq(T) /\ (Len(p) = Len(P) => Near(p, P, size))
          BY <1>7, <3>1, <3>2, <3>3, AlteredIsNear
    <3> QED BY <3>4 DEF T
  <2> QED BY <2>1 DEF P
<1> QED BY <1>4, <1>5, <1>6, <1>7

\* The runs' calls are calls, and stay what they are.
LEMMA InitIsCall == CallInit => Inputs /\ AnyCall /\ OtherRootInv
<1> SUFFICES ASSUME CallInit PROVE Inputs /\ AnyCall /\ OtherRootInv
    OBVIOUS
<1>1. Inputs BY MaxTreeAssumption DEF MaxTreeAssumption, CallInit, Inputs
<1>2. \E S : proof \in Seq(S) BY <1>1, ProofsAroundAre DEF Inputs
<1>3. start \in Int /\ end \in Int BY <1>1 DEF Inputs
<1>4. AnyCall BY <1>2, <1>3 DEF CallInit, AnyCall
<1>5. OtherRootInv BY DEF CallInit, OtherRootInv
<1> QED BY <1>1, <1>4, <1>5

LEMMA InputsStay == Inputs /\ [CallNext]_callVars => Inputs'
<1> SUFFICES ASSUME Inputs, [CallNext]_callVars PROVE Inputs'
    OBVIOUS
<1>1. UNCHANGED <<n, start, end, proof, node, root>> BY StepKeepsArgs
<1> QED BY <1>1, AroundIs DEF Inputs

\* The two ways to say what the verdict should be.
LEMMA GenuineIsExact ==
  Inputs => (Genuine <=> Exact(Log(n), start, end, proof, node) /\ root = Mth(Log(n), 0, n))
<1> SUFFICES ASSUME Inputs
             PROVE  Genuine <=> Exact(Log(n), start, end, proof, node) /\ root = Mth(Log(n), 0, n)
    OBVIOUS
<1>1. Len(Log(n)) = n BY LogIs DEF Inputs
<1> QED BY <1>1
        DEF Genuine, SubtreeHash, RootHash, Exact

\* Under the tree's root by the first invariant, under any other by the second.
LEMMA VerdictFollows ==
  Inputs /\ VerifierInv /\ OtherRootInv => VerdictIsExact
<1> SUFFICES ASSUME Inputs, VerifierInv, OtherRootInv, pc = "done"
             PROVE  IF root = RootHash THEN accepted <=> Genuine
                                         ELSE accepted => node # SubtreeHash
    BY DEF VerdictIsExact
<1>1. n \in Nat /\ Len(Log(n)) = n BY LogIs DEF Inputs
<1>2. RootHash = Mth(Log(n), 0, n) /\ SubtreeHash = Mth(Log(n), start, end)
      BY DEF RootHash, SubtreeHash
<1>3. CASE root = RootHash
  <2>1. accepted <=> Exact(Log(n), start, end, proof, node)
        BY <1>1, <1>2, <1>3 DEF VerifierInv, Stands
  <2> QED BY <1>2, <1>3, <2>1, GenuineIsExact
<1>4. CASE root # RootHash
  <2>1. SUFFICES ASSUME accepted, node = SubtreeHash PROVE FALSE
        BY <1>4
  <2>2. Len(proof) = Len(SubtreeProof(start, end, Log(n))) BY <1>1, <2>1 DEF OtherRootInv
  <2>3. Mistaken BY <1>2, <2>1, <2>2, ProofsAroundAre DEF Mistaken, Inputs
  <2>4. ~EndHash(root, n) BY <2>1, <2>3 DEF OtherRootInv
  <2>5. root = Mth(Log(n + 1), 0, n + 1)
    <3>1. root \in HashesAround(0, n, n) BY DEF Inputs
    <3>2. HashesAround(0, n, n) = {Mth(Log(n), 0, n), Mth(Log(n), 0, n), Mth(Log(n + 1), 0, n + 1)}
          BY AroundIs
    <3> QED BY <1>2, <1>4, <3>1, <3>2
  <2>6. 0 \in 0..n BY <1>1
  <2> QED BY <2>4, <2>5, <2>6 DEF EndHash
<1> QED BY <1>3, <1>4

-----------------------------------------------------------------------------

\* Every leaf is a subtree of its own.
LEMMA LeafIsValid ==
  ASSUME NEW size \in Nat, NEW index \in 0..(size - 1)
  PROVE  ValidSubtree(index, index + 1, size)
<1>1. BitCeil(1) = 1
  <2>1. PICK e \in Nat : BitCeil(1) = 2^e /\ 1 <= 2^e /\ (e # 0 => 2^(e - 1) < 1)
        BY BitCeilIs
  <2>2. e = 0
    <3>1. SUFFICES ASSUME e # 0 PROVE FALSE OBVIOUS
    <3>2. e - 1 \in Nat BY <3>1
    <3>3. 2^(e - 1) \in Nat /\ 2^(e - 1) >= 1 BY <3>2, Powers
    <3> QED BY <2>1, <3>1, <3>3
  <2>3. 2^0 = 1 OBVIOUS
  <2> QED BY <2>1, <2>2, <2>3
<1>2. (index + 1) - index = 1 /\ index % 1 = 0 OBVIOUS
<1> QED BY <1>1, <1>2 DEF ValidSubtree

\* Each of the two verifiers accepts nothing but the one proof, under the tree's root,
\* and nothing under the root of the longer log.
LEMMA VerifiersAgree ==
  Inputs /\ VerifierInv /\ OtherRootInv => TwoVerifiersAgree
<1> SUFFICES ASSUME Inputs, VerifierInv, OtherRootInv,
                    pc = "done", end = start + 1, node = SubtreeHash
             PROVE  /\ accepted <=> CheckInclusion(start, start, n, proof, root)
                    /\ InclusionProof(Log(n), start) = SubtreeProof(start, end, Log(n))
    BY DEF TwoVerifiersAgree
<1>1. n \in Nat \ {0} /\ start \in 0..(n - 1) BY DEF Inputs
<1>2. Len(Log(n)) = n BY <1>1, LogIs
<1>3. InclusionProof(Log(n), start) = SubtreeProof(start, end, Log(n))
      BY <1>1, <1>2, PathIsProof
<1>4. proof \in Seq(Inners(Log(n)) \cup {LeafHash(n)}) BY ProofsAroundAre DEF Inputs
<1>5. VerdictIsExact BY VerdictFollows
<1>6. CASE root = RootHash
  <2>1. accepted <=> Genuine BY <1>5, <1>6 DEF VerdictIsExact
  <2>2. ValidSubtree(start, end, n) BY <1>1, LeafIsValid
  <2>3. Genuine <=> proof = InclusionProof(Log(n), start)
        BY <1>3, <1>6, <2>2 DEF Genuine
  <2>4. CheckInclusion(start, start, n, proof, RootHash) <=> proof = InclusionProof(Log(n), start)
        BY <1>1, <1>4, OnlyThePathIsAccepted DEF RootHash
  <2>5. accepted <=> CheckInclusion(start, start, n, proof, root) BY <1>6, <2>1, <2>3, <2>4
  <2> QED BY <1>3, <2>5
<1>7. CASE root # RootHash
  <2>1. ~accepted BY <1>5, <1>7 DEF VerdictIsExact
  <2>2. root = Mth(Log(n + 1), 0, n + 1)
    <3>1. root \in HashesAround(0, n, n) BY DEF Inputs
    <3>2. HashesAround(0, n, n) = {Mth(Log(n), 0, n), Mth(Log(n), 0, n), Mth(Log(n + 1), 0, n + 1)}
          BY AroundIs
    <3> QED BY <1>7, <3>1, <3>2 DEF RootHash
  <2>3. ~CheckInclusion(start, start, n, proof, root) BY <1>1, <1>4, <2>2, NotInLongerLog
  <2> QED BY <1>3, <2>1, <2>3
<1> QED BY <1>6, <1>7

-----------------------------------------------------------------------------

\* A position is smaller at every higher level, until it is 0.
LEMMA LevelsDiffer ==
  ASSUME NEW x \in Nat, NEW a \in Nat, NEW b \in Nat, a < b, x \div 2^a # 0
  PROVE  x \div 2^b < x \div 2^a
<1> DEFINE d == 2^(a + 1)
           e == 2^b
           p == x \div d
           q == x \div e
           r == x \div 2^a
<1>1. d \in Nat /\ d > 0 /\ e \in Nat /\ e > 0 /\ d <= e
  <2>1. a + 1 \in Nat /\ a + 1 <= b OBVIOUS
  <2> QED BY <2>1, Powers, PowersOrdered
<1>2. r \div 2 = p /\ r \in Nat BY LevelUp
<1> HIDE DEF d, e
<1>3. p \in Nat /\ p * d <= x /\ x < p * d + d BY <1>1, DivideBack
<1>4. q \in Nat /\ q * e <= x BY <1>1, DivideBack
<1>5. r # 0 OBVIOUS
<1> HIDE DEF p, q, r
<1>6. q <= p
  <2>1. SUFFICES ASSUME p < q PROVE FALSE BY <1>3, <1>4
  <2>2. (p + 1) * d <= q * d BY <1>1, <1>3, <1>4, <2>1, TimesOrdered
  <2>3. d * q <= e * q BY <1>1, <1>4, TimesOrdered
  <2>4. d * q = q * d /\ e * q = q * e /\ (p + 1) * d = p * d + d BY <1>1, <1>3, <1>4
  <2>5. q * d \in Nat /\ q * e \in Nat /\ p * d \in Nat BY <1>1, <1>3, <1>4
  <2> QED BY <1>1, <1>3, <1>4, <2>2, <2>3, <2>4, <2>5
<1>7. p < r BY <1>2, <1>5
<1> QED BY <1>2, <1>3, <1>4, <1>6, <1>7 DEF q, r, e

\* The level of the loop is one that its last position tells, ...
LEMMA LevelIs ==
  ASSUME NEW size \in Nat \ {0}, NEW h \in Nat
  PROVE  LET t == (size - 1) \div 2^h
             l == CHOOSE l \in 0..size : t = (size - 1) \div 2^l
         IN  /\ l \in 0..size /\ t = (size - 1) \div 2^l
             /\ t # 0 => l = h
             /\ t = 0 => size <= 2^l
<1> DEFINE x == size - 1
           t == x \div 2^h
           l == CHOOSE l \in 0..size : t = x \div 2^l
<1>1. x \in Nat /\ x + 1 = size OBVIOUS
<1>2. \E k \in 0..size : t = x \div 2^k
  <2>1. CASE t # 0
    <3> DEFINE d == 2^h
    <3>1. d \in Nat /\ d > 0 /\ h < d BY Powers, PowerExceeds
    <3> HIDE DEF x
    <3>2. t = x \div d OBVIOUS
    <3> HIDE DEF d, t
    <3>3. d <= x
      <4>1. SUFFICES ASSUME x < d PROVE FALSE BY <1>1, <3>1
      <4>2. 0 * d <= x /\ x < 0 * d + d BY <1>1, <3>1, <4>1
      <4>3. x \div d = 0 BY <1>1, <3>1, <4>2, Quotient
      <4> QED BY <2>1, <3>2, <4>3
    <3>4. h \in 0..size BY <1>1, <3>1, <3>3
    <3> QED BY <3>2, <3>4 DEF d
  <2>2. CASE t = 0
    <3> DEFINE d == 2^size
    <3>1. d \in Nat /\ d > 0 /\ size < d BY Powers, PowerExceeds
    <3> HIDE DEF x
    <3> HIDE DEF d
    <3>2. 0 * d <= x /\ x < 0 * d + d BY <1>1, <3>1
    <3>3. x \div d = 0 BY <1>1, <3>1, <3>2, Quotient
    <3>4. size \in 0..size OBVIOUS
    <3> QED BY <2>2, <3>3, <3>4 DEF d
  <2> QED BY <2>1, <2>2
<1>3. l \in 0..size /\ t = x \div 2^l
  <2> HIDE DEF t, x
  <2> QED BY <1>2
<1> HIDE DEF l
<1>4. l \in Nat BY <1>3
<1>5. ASSUME t # 0 PROVE l = h
  <2> HIDE DEF x
  <2>1. ~(l < h)
    <3>1. SUFFICES ASSUME l < h PROVE FALSE OBVIOUS
    <3>2. x \div 2^l # 0 BY <1>3, <1>5
    <3>3. x \div 2^h < x \div 2^l BY <1>1, <1>4, <3>1, <3>2, LevelsDiffer
    <3>4. x \div 2^h \in Nat BY <1>1, LevelUp
    <3> QED BY <1>3, <3>3, <3>4
  <2>2. ~(h < l)
    <3>1. SUFFICES ASSUME h < l PROVE FALSE OBVIOUS
    <3>2. x \div 2^l < x \div 2^h BY <1>1, <1>4, <1>5, <3>1, LevelsDiffer
    <3>3. x \div 2^h \in Nat BY <1>1, LevelUp
    <3> QED BY <1>3, <3>2, <3>3
  <2> QED BY <1>4, <2>1, <2>2
<1>6. ASSUME t = 0 PROVE size <= 2^l
  <2> DEFINE d == 2^l
  <2>1. d \in Nat /\ d > 0 BY <1>4, Powers
  <2>2. x \div d = 0 BY <1>3, <1>6
  <2> HIDE DEF d, x
  <2>3. x < 0 * d + d BY <1>1, <2>1, <2>2, DivideBack
  <2>4. size <= d BY <1>1, <2>1, <2>3
  <2> QED BY <2>4 DEF d
<1> QED BY <1>3, <1>5, <1>6 DEF l

\* A genuine proof begins with the part within every place, so both hashes are right.
LEMMA RebuiltFollows ==
  Inputs /\ VerifierInv => RebuiltHashesAreNodes
<1> SUFFICES ASSUME Inputs, VerifierInv, pc = "fold", Genuine
             PROVE  LET lo == sn * 2^(Level)
                        hi == (sn + 1) * 2^(Level)
                    IN  /\ sr = Mth(Log(n), lo, IF hi < n THEN hi ELSE n)
                        /\ fr = Mth(Log(n), IF lo > start THEN lo ELSE start, end)
    BY DEF RebuiltHashesAreNodes
<1> DEFINE D == Log(n)
<1>1. n \in Nat \ {0} /\ Len(D) = n BY LogIs DEF Inputs
<1>2. Exact(D, start, end, proof, node) BY GenuineIsExact
<1>3. Called(D, start, end, proof)
  <2>1. Len(proof) \in Nat BY LenProperties DEF VerifierInv
  <2> QED BY <1>1, <1>2, <2>1 DEF Called, Exact, Inputs
<1>4. Folding(D, start, end, proof, node, rest, fn, sn, tn, fr, sr)
      BY <1>1 DEF VerifierInv, Stands
<1>5. PICK lo, hi, h, c :
        /\ Positions(start, end, Len(D), h, fn, sn, tn)
        /\ OnWay(end, lo, hi, h, Len(D)) /\ Live(start, end, lo, hi, h, Len(D))
        /\ Left(proof, rest, c)
        /\ Rebuilt(D, start, end, proof, node, c, fr, sr, lo, hi)
      BY <1>4 DEF Folding
<1>6. sr = Mth(D, lo, hi) /\ fr = Mth(D, Later(lo, start), end)
  <2>1. proof = Part(start, end, D, 0, Len(D)) /\ node = Mth(D, start, end)
        BY <1>2, <1>3, ProofIsSeq DEF Exact
  <2>2. Begins(proof, Part(start, end, D, lo, hi)) BY <1>3, <1>5, <2>1, PartBegins DEF PartGoesOn
  <2> QED BY <1>5, <2>1, <2>2 DEF Rebuilt
<1>7. /\ h \in Nat /\ sn \in Nat /\ tn \in Nat /\ sn <= tn /\ lo = sn * 2^h /\ hi <= lo + 2^h
      /\ hi \in Nat /\ hi <= n /\ (hi = lo + 2^h \/ hi = n) /\ tn = (n - 1) \div 2^h
  <2>1. hi \in Nat /\ hi <= n /\ (hi = lo + 2^h \/ hi = n) BY <1>1, <1>5 DEF OnWay, IsPlace
  <2> QED BY <1>1, <1>5, <2>1, WayPosition DEF Positions
<1> DEFINE l == CHOOSE l \in 0..n : tn = (n - 1) \div 2^l
           a == sn * 2^l
           b == (sn + 1) * 2^l
<1>8. l \in 0..n /\ (tn # 0 => l = h) /\ (tn = 0 => n <= 2^l)
      BY <1>1, <1>7, LevelIs
<1>9. Level = l BY DEF Level
<1> HIDE DEF D, l
<1>10. lo = a /\ hi = IF b < n THEN b ELSE n
  <2>1. CASE tn # 0
    <3> DEFINE d == 2^h
    <3>1. l = h /\ d \in Nat BY <1>7, <1>8, <2>1, Powers
    <3>2. a = sn * d /\ b = (sn + 1) * d BY <3>1
    <3>3. lo = sn * d /\ hi <= lo + d /\ (hi = lo + d \/ hi = n) BY <1>7
    <3> HIDE DEF d, a, b
    <3>4. (sn + 1) * d = sn * d + d /\ sn * d \in Nat BY <1>7, <3>1
    <3>5. lo = a /\ b = lo + d BY <3>2, <3>3, <3>4
    <3> QED BY <1>1, <1>7, <3>1, <3>3, <3>4, <3>5
  <2>2. CASE tn = 0
    <3>1. sn = 0 BY <1>7, <2>2
    <3>2. lo = 0 /\ hi = n
      <4>1. (Len(D) - 1) \div 2^h = 0 BY <1>1, <1>7, <2>2 DEF D
      <4> QED BY <1>1, <1>5, <4>1, TopOfWay DEF D
    <3> DEFINE d == 2^l
    <3>3. d \in Nat /\ n <= d BY <1>8, <2>2, Powers
    <3>4. a = 0 * d /\ b = (0 + 1) * d BY <3>1
    <3> HIDE DEF d, a, b
    <3>5. a = 0 /\ b = d BY <3>3, <3>4
    <3> QED BY <1>1, <3>2, <3>3, <3>5
  <2> QED BY <2>1, <2>2
<1> HIDE DEF a, b
<1>11. sr = Mth(D, a, IF b < n THEN b ELSE n) /\ fr = Mth(D, IF a > start THEN a ELSE start, end)
       BY <1>6, <1>10 DEF Later
<1> QED BY <1>9, <1>11 DEF a, b, D

-----------------------------------------------------------------------------

\* verify_subtree_proof (subtree.py:81-116), for trees of every size and with arguments of any kind, a
\* proof made for nothing included: under the root of the tree over some leaf hashes
\* it accepts exactly the proof that subtree_proof makes over them, for exactly the
\* hash of the range [start, end).
THEOREM AnyCallIsJudgedExactly ==
  AnyCall /\ [][CallNext]_callVars
    => [](\A D : Len(D) \in Nat /\ Len(D) = n /\ root = Mth(D, 0, n) /\ pc = "done"
                   => (accepted <=> Exact(D, start, end, proof, node)))
<1>1. VerifierInv => (\A D : Len(D) \in Nat /\ Len(D) = n /\ root = Mth(D, 0, n) /\ pc = "done"
                               => (accepted <=> Exact(D, start, end, proof, node)))
      BY DEF VerifierInv, Stands
<1> QED BY <1>1, VerifierInvHolds, PTL

\* Both invariants hold throughout.
LEMMA VerifierHolds == CallSpec => [](Inputs /\ VerifierInv /\ OtherRootInv)
<1>1. CallInit => Inputs /\ VerifierInv /\ OtherRootInv BY InitIsCall, AnyCallVerifies
<1>2. Inputs /\ VerifierInv /\ OtherRootInv /\ [CallNext]_callVars
        => (Inputs /\ VerifierInv /\ OtherRootInv)'
      BY InputsStay, StepVerifies, StepKeepsOtherRoot
<1> QED BY <1>1, <1>2, PTL DEF CallSpec

\* verify_subtree_proof (subtree.py:81-116), for every size of the tree and every
\* subtree: under the tree's own root it accepts exactly the genuine proof of the
\* genuine hash, and under another of the roots tried it never accepts the genuine
\* hash, whichever of the altered proofs goes with it.
THEOREM VerdictsAreExact == CallSpec => []VerdictIsExact
BY VerifierHolds, VerdictFollows, PTL

\* verify_subtree_proof (subtree.py:103-114), for every size of the tree: on a genuine
\* proof, the root it rebuilds is the hash of the place reached at every turn of the
\* loop, and the subtree hash is that of the part of the subtree that lies there.
THEOREM RebuiltAreNodes == CallSpec => []RebuiltHashesAreNodes
BY VerifierHolds, RebuiltFollows, PTL

\* verify_subtree_proof (subtree.py:81-116) and verify_receipt.check_inclusion, written
\* apart from each other, for every size of the tree: called about one leaf, with the
\* same proof, altered or not, and the same root, they agree; and subtree_proof and
\* inclusion_proof make the same proof for it.
THEOREM TwoVerifiersAlwaysAgree == CallSpec => []TwoVerifiersAgree
BY VerifierHolds, VerifiersAgree, PTL
=============================================================================
