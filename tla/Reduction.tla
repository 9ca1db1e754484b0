------------------------------ MODULE Reduction ------------------------------
(***************************************************************************)
(* reduce.reduce_leaves: the loop that folds a log's leaves, in index      *)
(* order, into a table keyed on (issuer, subject), and accounts for every  *)
(* leaf that contributes no row.  One step of this module is one iteration *)
(* of the loop.                                                            *)
(***************************************************************************)
EXTENDS LeafRules, Sequences

CONSTANT Exports        \* the leaf lists a run may be given

ASSUME ExportsAssumption == \A s \in Exports : s \in Seq(Leaf)

VARIABLES leaves,       \* the leaves, leaf i of the log at position i + 1
          next,         \* the index the loop is at
          rows,         \* the table: a function whose domain is its keys
          malformed,    \* indices of the malformed leaves, as met
          skipped,      \* reason -> number of leaves skipped for it
          rotations     \* the identity graph, as met

vars == <<leaves, next, rows, malformed, skipped, rotations>>

Keys == Parties \X Names

Row == [issuer : Parties, subject : Names, claim_type : Types,
        first_index : Nat, last_index : Nat, superseded_count : Nat,
        leaf_sha256 : [sha256 : Leaf], state : {"active"}]

TypeOK ==
  /\ leaves \in Exports
  /\ next \in 0..Len(leaves)
  /\ DOMAIN rows \subseteq Keys
  /\ rows \in [DOMAIN rows -> Row]
  /\ malformed \in Seq(Nat)
  /\ skipped \in [SkipReasons -> Nat]
  /\ rotations \in Seq([index : Nat, old : Parties, new : Parties])

LeafAt(i) == leaves[i + 1]

-----------------------------------------------------------------------------

Init ==
  /\ leaves \in Exports
  /\ next = 0
  /\ rows = << >>
  /\ malformed = << >>
  /\ skipped = [r \in SkipReasons |-> 0]
  /\ rotations = << >>

\* Mutant of FreshRow: the type is looked for in one place only.
FreshRowTopLevelType(d, i) ==
  [issuer |-> IssuerOf(d.obj), subject |-> SubjectOf(d.obj),
   claim_type |-> d.obj.claim_type, first_index |-> i, last_index |-> i,
   superseded_count |-> 0, leaf_sha256 |-> Digest(d), state |-> "active"]

FreshRow(d, i) ==
  [issuer |-> IssuerOf(d.obj), subject |-> SubjectOf(d.obj),
   claim_type |-> TypeOf(d.obj), first_index |-> i, last_index |-> i,
   superseded_count |-> 0, leaf_sha256 |-> Digest(d), state |-> "active"]

\* Mutant of Superseded: the row keeps the digest of the leaf it replaces.
SupersededKeepingDigest(row, d, i) ==
  [row EXCEPT !.superseded_count = @ + 1, !.last_index = i,
              !.claim_type = TypeOf(d.obj)]

\* Last write by index wins; first_index and the key stay what they were.
Superseded(row, d, i) ==
  [row EXCEPT !.superseded_count = @ + 1, !.last_index = i,
              !.claim_type = TypeOf(d.obj), !.leaf_sha256 = Digest(d)]

RotationsAfter(d) ==
  IF IsRotation(d)
  THEN Append(rotations, [index |-> next, old |-> RotationClaim(d.obj).old_did,
                          new |-> RotationClaim(d.obj).new_did])
  ELSE rotations

Advance == /\ next < Len(leaves)
           /\ next' = next + 1
           /\ leaves' = leaves

CountMalformed ==
  /\ Advance
  /\ Verdict(LeafAt(next)) = "malformed"
  /\ malformed' = Append(malformed, next)
  /\ UNCHANGED <<rows, skipped, rotations>>

\* Mutant of Skip: only the first leaf of each reason is counted.
SkipOnce(reason) ==
  /\ Advance
  /\ Verdict(LeafAt(next)) = reason
  /\ skipped' = [skipped EXCEPT ![reason] = 1]
  /\ rotations' = RotationsAfter(LeafAt(next))
  /\ UNCHANGED <<rows, malformed>>

Skip(reason) ==
  /\ Advance
  /\ Verdict(LeafAt(next)) = reason
  /\ skipped' = [skipped EXCEPT ![reason] = @ + 1]
  /\ rotations' = RotationsAfter(LeafAt(next))
  /\ UNCHANGED <<rows, malformed>>

InsertRow ==
  LET d == LeafAt(next) IN
  /\ Advance
  /\ Verdict(d) = "keyed"
  /\ Key(d) \notin DOMAIN rows
  /\ rows' = [k \in DOMAIN rows \cup {Key(d)} |->
                IF k = Key(d) THEN FreshRow(d, next) ELSE rows[k]]
  /\ rotations' = RotationsAfter(d)
  /\ UNCHANGED <<malformed, skipped>>

SupersedeRow ==
  LET d == LeafAt(next) IN
  /\ Advance
  /\ Verdict(d) = "keyed"
  /\ Key(d) \in DOMAIN rows
  /\ rows' = [rows EXCEPT ![Key(d)] = Superseded(@, d, next)]
  /\ rotations' = RotationsAfter(d)
  /\ UNCHANGED <<malformed, skipped>>

Next == \/ CountMalformed
        \/ \E reason \in SkipReasons : Skip(reason)
        \/ InsertRow
        \/ SupersedeRow

Spec == Init /\ [][Next]_vars

-----------------------------------------------------------------------------

\* The leaves met so far that carry the verdict v.
Met(v) == {j \in 0..(next - 1) : Verdict(LeafAt(j)) = v}

\* The leaves met so far that write the row of the key k.
Writes(k) == {j \in Met("keyed") : Key(LeafAt(j)) = k}

\* Spec section 7: within a key the last write by index wins, a row says where
\* its key was first and last written, counts the writes it supersedes, and
\* carries the type and the digest of the winning leaf and of no other.
LastWriteWins ==
  /\ DOMAIN rows = {Key(LeafAt(j)) : j \in Met("keyed")}
  /\ \A k \in DOMAIN rows :
       LET row == rows[k] IN
       /\ <<row.issuer, row.subject>> = k
       /\ {row.first_index, row.last_index} \subseteq Writes(k)
       /\ \A j \in Writes(k) : row.first_index <= j /\ j <= row.last_index
       /\ Cardinality(Writes(k)) = row.superseded_count + 1
       /\ row.claim_type = TypeOf(LeafAt(row.last_index).obj)
       /\ row.leaf_sha256 = Digest(LeafAt(row.last_index))

\* Spec section 6: the key is the pair, so nobody displaces another issuer's
\* row by writing later; a subject has one row for every issuer that wrote it.
ContestedSubjectsKeepEveryIssuer ==
  \A s \in Names :
    {rows[k].issuer : k \in {k \in DOMAIN rows : rows[k].subject = s}}
      = {IssuerOf(LeafAt(j).obj) :
           j \in {j \in Met("keyed") : SubjectOf(LeafAt(j).obj) = s}}

\* Spec section 10: malformed leaves are listed and the others that make no row
\* are counted by reason; the accounting is exact at every point of the replay.
AccountingExact ==
  /\ {malformed[i] : i \in DOMAIN malformed} = Met("malformed")
  /\ Len(malformed) = Cardinality(Met("malformed"))
  /\ \A r \in SkipReasons : skipped[r] = Cardinality(Met(r))

\* Spec section 9.4: the identity graph is emitted so that "forward only, to indices
\* above its own" can be applied by whoever reads it.  Every well-formed rotation the
\* outgoing key has signed is in it, also one that makes no row; nothing else than a
\* rotation between two identities is; each is there once, in index order, as its
\* leaf has it.  Of a rotation that is not signed nothing is said: section 9.2 wants
\* it signed, the code records it all the same.
IdentityGraphExact ==
  LET claimAt(j) == RotationClaim(LeafAt(j).obj)
      wellFormed == {j \in 0..(next - 1) :
                       /\ Parse(LeafAt(j)) = "json"
                       /\ TypeOf(LeafAt(j).obj) = RotationType
                       /\ NotStr \notin {claimAt(j).old_did, claimAt(j).new_did}}
      recorded == {rotations[i].index : i \in DOMAIN rotations}
  IN  /\ {j \in wellFormed : claimAt(j).signed} \subseteq recorded
      /\ recorded \subseteq wellFormed
      /\ \A i \in DOMAIN rotations, j \in DOMAIN rotations :
           i < j => rotations[i].index < rotations[j].index
      /\ \A i \in DOMAIN rotations :
           LET claim == claimAt(rotations[i].index) IN
           rotations[i].old = claim.old_did /\ rotations[i].new = claim.new_did
=============================================================================
