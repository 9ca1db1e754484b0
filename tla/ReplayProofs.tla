----------------------------- MODULE ReplayProofs -----------------------------
(***************************************************************************)
(* What a replay computes.  The reduction of a log, for every list of      *)
(* leaves and every choice of claim types, issuers and subjects; and the   *)
(* replay of timestamp proofs, for proofs of every shape, headers of every *)
(* number, and any number of files.                                        *)
(***************************************************************************)
EXTENDS Reduction, Anchors, FiniteSetTheorems, SequenceTheorems,
        WellFoundedInduction, TLAPS

\* The rules of LeafRules return a string or NotStr.
LEMMA RuleTypes ==
  ASSUME NEW o \in Object
  PROVE  /\ TypeOf(o) \in Types \cup {NotStr}
         /\ IssuerOf(o) \in Parties \cup {NotStr}
         /\ SubjectOf(o) \in Names \cup {NotStr}
         /\ RotationClaim(o) \in Claim
  BY DEF Object, CoreObject, Subject, TypeOf, IssuerOf, SubjectOf, RotationClaim,
         FirstString, CoreField, NestedName

\* A leaf that makes a row has a type, an issuer and a subject.
LEMMA KeyedLeaf ==
  ASSUME NEW d \in Leaf, Verdict(d) = "keyed"
  PROVE  /\ TypeOf(d.obj) \in Types
         /\ IssuerOf(d.obj) \in Parties
         /\ SubjectOf(d.obj) \in Names
         /\ Key(d) \in Keys
<1>1. d.obj \in Object
  BY DEF Leaf
<1>2. /\ TypeOf(d.obj) # NotStr
      /\ IssuerOf(d.obj) # NotStr
      /\ SubjectOf(d.obj) # NotStr
  BY DEF Verdict
<1> QED
  BY <1>1, <1>2, RuleTypes DEF Key, Keys

\* What a row records about a leaf is well typed.
LEMMA FreshRowType ==
  ASSUME NEW d \in Leaf, NEW i \in Nat, Verdict(d) = "keyed"
  PROVE  FreshRow(d, i) \in Row
  BY KeyedLeaf DEF FreshRow, Row, Digest

LEMMA SupersededType ==
  ASSUME NEW d \in Leaf, NEW i \in Nat, Verdict(d) = "keyed", NEW row \in Row
  PROVE  Superseded(row, d, i) \in Row
<1>1. TypeOf(d.obj) \in Types /\ Digest(d) \in [sha256 : Leaf]
  BY KeyedLeaf DEF Digest
<1>2. row.superseded_count + 1 \in Nat
  BY DEF Row
<1> QED
  BY <1>1, <1>2 DEF Superseded, Row

LEMMA RotationsType ==
  ASSUME TypeOK, NEW d \in Leaf
  PROVE  RotationsAfter(d) \in Seq([index : Nat, old : Parties, new : Parties])
<1>1. next \in Nat
  BY DEF TypeOK
<1>2. d.obj \in Object
  BY DEF Leaf
<1>3. ASSUME IsRotation(d)
      PROVE  [index |-> next, old |-> RotationClaim(d.obj).old_did,
              new |-> RotationClaim(d.obj).new_did]
               \in [index : Nat, old : Parties, new : Parties]
  <2>1. RotationClaim(d.obj) \in Claim
    BY <1>2, RuleTypes
  <2> QED
    BY <1>1, <1>3, <2>1 DEF IsRotation, Claim
<1> QED
  BY <1>3, AppendProperties DEF RotationsAfter, TypeOK

\* The loop's current leaf is a leaf.
LEMMA CurrentLeaf ==
  ASSUME TypeOK, NEW j \in 0..(Len(leaves) - 1)
  PROVE  LeafAt(j) \in Leaf
<1>1. leaves \in Seq(Leaf)
  BY ExportsAssumption DEF TypeOK
<1>2. j + 1 \in 1..Len(leaves)
  BY <1>1, LenProperties
<1> QED
  BY <1>1, <1>2, ElementOfSeq DEF LeafAt

-----------------------------------------------------------------------------

\* The state of the replay stays well typed: every row is a complete row of the
\* table, whatever leaves the run is given.
THEOREM TypeCorrect == Spec => []TypeOK
<1>1. Init => TypeOK
  <2> SUFFICES ASSUME Init PROVE TypeOK
    OBVIOUS
  <2>1. leaves \in Seq(Leaf)
    BY ExportsAssumption DEF Init
  <2>2. next \in 0..Len(leaves)
    BY <2>1, LenProperties DEF Init
  <2>3. DOMAIN rows = {} /\ rows \in [DOMAIN rows -> Row]
    BY DEF Init
  <2> QED
    BY <2>2, <2>3, EmptySeq DEF Init, TypeOK
<1>2. TypeOK /\ [Next]_vars => TypeOK'
  <2> SUFFICES ASSUME TypeOK, [Next]_vars PROVE TypeOK'
    OBVIOUS
  <2>0. leaves \in Seq(Leaf) /\ Len(leaves) \in Nat /\ next \in Nat
    BY ExportsAssumption, LenProperties DEF TypeOK
  <2>1. ASSUME Advance
        PROVE  /\ leaves' \in Exports
               /\ next' \in 0..Len(leaves')
               /\ LeafAt(next) \in Leaf
               /\ RotationsAfter(LeafAt(next))
                    \in Seq([index : Nat, old : Parties, new : Parties])
    <3>1. next \in 0..(Len(leaves) - 1)
      BY <2>0, <2>1 DEF Advance, TypeOK
    <3>2. LeafAt(next) \in Leaf
      BY <3>1, CurrentLeaf
    <3>3. RotationsAfter(LeafAt(next))
            \in Seq([index : Nat, old : Parties, new : Parties])
      BY <3>2, RotationsType
    <3> QED
      BY <2>0, <2>1, <3>1, <3>2, <3>3 DEF Advance, TypeOK
  <2>2. CASE CountMalformed
    <3>1. malformed' \in Seq(Nat)
      BY <2>0, <2>2, AppendProperties DEF CountMalformed, TypeOK
    <3> QED
      BY <2>1, <2>2, <3>1 DEF CountMalformed, TypeOK
  <2>3. ASSUME NEW reason \in SkipReasons, Skip(reason)
        PROVE  TypeOK'
    <3>1. skipped' \in [SkipReasons -> Nat]
      BY <2>3 DEF Skip, TypeOK
    <3> QED
      BY <2>1, <2>3, <3>1 DEF Skip, TypeOK
  <2>4. CASE InsertRow
    <3> DEFINE d == LeafAt(next)
    <3>1. d \in Leaf /\ Verdict(d) = "keyed"
      BY <2>1, <2>4 DEF InsertRow
    <3>2. FreshRow(d, next) \in Row /\ Key(d) \in Keys
      BY <2>0, <3>1, FreshRowType, KeyedLeaf
    <3>3. DOMAIN rows' \subseteq Keys /\ rows' \in [DOMAIN rows' -> Row]
      BY <2>4, <3>2 DEF InsertRow, TypeOK
    <3> QED
      BY <2>1, <2>4, <3>3 DEF InsertRow, TypeOK
  <2>5. CASE SupersedeRow
    <3> DEFINE d == LeafAt(next)
    <3>1. d \in Leaf /\ Verdict(d) = "keyed" /\ Key(d) \in DOMAIN rows
      BY <2>1, <2>5 DEF SupersedeRow
    <3>2. Superseded(rows[Key(d)], d, next) \in Row
      BY <2>0, <3>1, SupersededType DEF TypeOK
    <3>3. DOMAIN rows' \subseteq Keys /\ rows' \in [DOMAIN rows' -> Row]
      BY <2>5, <3>2 DEF SupersedeRow, TypeOK
    <3> QED
      BY <2>1, <2>5, <3>3 DEF SupersedeRow, TypeOK
  <2>6. CASE UNCHANGED vars
    BY <2>6 DEF vars, TypeOK
  <2> QED
    BY <2>2, <2>3, <2>4, <2>5, <2>6 DEF Next
<1> QED
  BY <1>1, <1>2, PTL DEF Spec
-----------------------------------------------------------------------------

\* One turn of the loop adds the current leaf to the leaves met, under its own
\* verdict and key and under no other.
LEMMA MetGrows ==
  ASSUME TypeOK, Advance, NEW v
  PROVE  /\ Met(v)' = Met(v) \cup {j \in {next} : Verdict(LeafAt(next)) = v}
         /\ next \notin Met(v)
         /\ IsFiniteSet(Met(v))
<1>1. next \in Nat /\ next' = next + 1 /\ leaves' = leaves
  BY DEF TypeOK, Advance
<1>2. 0..(next' - 1) = (0..(next - 1)) \cup {next}
  BY <1>1
<1>3. Met(v)' = Met(v) \cup {j \in {next} : Verdict(LeafAt(next)) = v}
  BY <1>1, <1>2 DEF Met, LeafAt
<1>4. Met(v) \subseteq 0..(next - 1) /\ next \notin 0..(next - 1)
  BY <1>1 DEF Met
<1>5. IsFiniteSet(0..(next - 1))
  BY <1>1, FS_Interval
<1> QED
  BY <1>3, <1>4, <1>5, FS_Subset

LEMMA WritesGrow ==
  ASSUME TypeOK, Advance, NEW k
  PROVE  /\ Writes(k)' =
              Writes(k) \cup {j \in {next} : /\ Verdict(LeafAt(next)) = "keyed"
                                           /\ Key(LeafAt(next)) = k}
         /\ next \notin Writes(k)
         /\ IsFiniteSet(Writes(k))
         /\ \A j \in Writes(k) : j < next
<1>1. next \in Nat /\ leaves' = leaves
  BY DEF TypeOK, Advance
<1>2. /\ Met("keyed")' = Met("keyed")
                           \cup {j \in {next} : Verdict(LeafAt(next)) = "keyed"}
      /\ next \notin Met("keyed")
      /\ IsFiniteSet(Met("keyed"))
  BY MetGrows
<1>3. Writes(k) \subseteq Met("keyed")
  BY DEF Writes
<1>4. \A j \in Met("keyed") : j < next
  BY <1>1 DEF Met
<1>5. IsFiniteSet(Writes(k))
  BY <1>2, <1>3, FS_Subset
<1>6. Writes(k)' = {j \in Met("keyed")' : Key(LeafAt(j)) = k}
  BY <1>1 DEF Writes, LeafAt
<1> QED
  BY <1>2, <1>3, <1>4, <1>5, <1>6 DEF Writes

\* The keys the leaves met so far have written.
KeysWritten == {Key(LeafAt(j)) : j \in Met("keyed")}

LEMMA KeysWrittenGrow ==
  ASSUME TypeOK, Advance
  PROVE  KeysWritten' = KeysWritten \cup
           {Key(LeafAt(next)) : j \in {j \in {next} : Verdict(LeafAt(next)) = "keyed"}}
<1>1. leaves' = leaves
  BY DEF Advance
<1>2. Met("keyed")' = Met("keyed")
                        \cup {j \in {next} : Verdict(LeafAt(next)) = "keyed"}
  BY MetGrows
<1>3. KeysWritten' = {Key(LeafAt(j)) : j \in Met("keyed")'}
  BY <1>1 DEF KeysWritten, LeafAt
<1> QED
  BY <1>2, <1>3 DEF KeysWritten

\* What a row says about the leaves W of the list log that wrote its key.
RowTells(row, k, W, log) ==
  /\ <<row.issuer, row.subject>> = k
  /\ {row.first_index, row.last_index} \subseteq W
  /\ \A j \in W : row.first_index <= j /\ j <= row.last_index
  /\ Cardinality(W) = row.superseded_count + 1
  /\ row.claim_type = TypeOf(log[row.last_index + 1].obj)
  /\ row.leaf_sha256 = Digest(log[row.last_index + 1])

LEMMA RowsTell ==
  /\ LastWriteWins
       <=> /\ DOMAIN rows = KeysWritten
           /\ \A k \in DOMAIN rows : RowTells(rows[k], k, Writes(k), leaves)
  /\ LastWriteWins'
       <=> /\ DOMAIN rows' = KeysWritten'
           /\ \A k \in DOMAIN rows' : RowTells(rows'[k], k, Writes(k)', leaves')
<1>1. LastWriteWins
        <=> /\ DOMAIN rows = KeysWritten
            /\ \A k \in DOMAIN rows : RowTells(rows[k], k, Writes(k), leaves)
  BY DEF LastWriteWins, RowTells, KeysWritten, LeafAt
<1>2. LastWriteWins'
        <=> /\ DOMAIN rows' = KeysWritten'
            /\ \A k \in DOMAIN rows' : RowTells(rows'[k], k, Writes(k)', leaves')
  BY DEF LastWriteWins, RowTells, KeysWritten, LeafAt
<1> QED
  BY <1>1, <1>2

\* The row of the first leaf that writes a key.
LEMMA FreshRowTells ==
  ASSUME NEW d \in Leaf, NEW i \in Nat, NEW log, log[i + 1] = d
  PROVE  RowTells(FreshRow(d, i), Key(d), {i}, log)
<1>1. Cardinality({i}) = 1
  BY FS_Singleton
<1> QED
  BY <1>1 DEF RowTells, FreshRow, Key

\* The row of a key that one more leaf, above all the others, writes.
LEMMA SupersededTells ==
  ASSUME NEW d \in Leaf, NEW i \in Nat, NEW log, log[i + 1] = d,
         NEW row \in Row, NEW k, NEW W, IsFiniteSet(W), i \notin W,
         \A j \in W : j \in Nat /\ j < i,
         RowTells(row, k, W, log)
  PROVE  RowTells(Superseded(row, d, i), k, W \cup {i}, log)
<1> DEFINE after == Superseded(row, d, i)
<1>1. /\ after.issuer = row.issuer /\ after.subject = row.subject
      /\ after.first_index = row.first_index /\ after.last_index = i
      /\ after.superseded_count = row.superseded_count + 1
      /\ after.claim_type = TypeOf(d.obj) /\ after.leaf_sha256 = Digest(d)
  BY DEF Superseded, Row
<1>2. Cardinality(W \cup {i}) = Cardinality(W) + 1
  BY FS_AddElement
<1>3. Cardinality(W \cup {i}) = after.superseded_count + 1
  BY <1>1, <1>2 DEF RowTells
<1>4. \A j \in W \cup {i} : after.first_index <= j /\ j <= after.last_index
  <2>1. row.first_index \in W /\ row.first_index < i
    BY DEF RowTells
  <2> QED
    BY <1>1, <2>1 DEF RowTells
<1> HIDE DEF after
<1> QED
  BY <1>1, <1>3, <1>4 DEF RowTells, after

-----------------------------------------------------------------------------

\* At every point of the replay each key's row is the last write by index, with
\* the count of the writes it supersedes, and no key written is without a row.
THEOREM LastWriteWinsHolds == Spec => []LastWriteWins
<1>1. Init => LastWriteWins
  <2> SUFFICES ASSUME Init PROVE LastWriteWins
    OBVIOUS
  <2>1. DOMAIN rows = {} /\ Met("keyed") = {}
    BY DEF Init, Met
  <2> QED
    BY <2>1 DEF LastWriteWins
<1>2. TypeOK /\ LastWriteWins /\ [Next]_vars => LastWriteWins'
  <2> SUFFICES ASSUME TypeOK, LastWriteWins, [Next]_vars PROVE LastWriteWins'
    OBVIOUS
  <2> DEFINE d == LeafAt(next)
  <2>0. /\ DOMAIN rows = KeysWritten
        /\ \A k \in DOMAIN rows : RowTells(rows[k], k, Writes(k), leaves)
    BY RowsTell
  \* A key the current leaf does not write keeps its leaves.
  <2>1. ASSUME Advance, NEW k, ~(Verdict(d) = "keyed" /\ Key(d) = k)
        PROVE  Writes(k)' = Writes(k) /\ leaves' = leaves
    BY <2>1, WritesGrow DEF Advance
  \* The key it writes gains it.
  <2>2. ASSUME Advance, Verdict(d) = "keyed", NEW key, key = Key(d)
        PROVE  /\ KeysWritten' = KeysWritten \cup {key}
               /\ Writes(key)' = Writes(key) \cup {next}
               /\ d \in Leaf /\ next \in Nat
    <3>1. next \in Nat /\ next \in 0..(Len(leaves) - 1)
      BY <2>2, ExportsAssumption, LenProperties DEF Advance, TypeOK
    <3>2. d \in Leaf
      BY <3>1, CurrentLeaf
    <3>3. KeysWritten' = KeysWritten \cup {key}
      BY <2>2, KeysWrittenGrow
    <3>4. Writes(key)' = Writes(key) \cup {next}
      BY <2>2, WritesGrow
    <3> QED
      BY <3>1, <3>2, <3>3, <3>4
  <2>3. ASSUME Advance, Verdict(d) # "keyed", rows' = rows
        PROVE  LastWriteWins'
    <3>1. KeysWritten' = KeysWritten
      BY <2>3, KeysWrittenGrow
    <3>2. \A k \in DOMAIN rows' : RowTells(rows'[k], k, Writes(k)', leaves')
      BY <2>0, <2>1, <2>3
    <3> QED
      BY <2>0, <2>3, <3>1, <3>2, RowsTell
  <2>4. CASE CountMalformed
    BY <2>3, <2>4 DEF CountMalformed
  <2>5. ASSUME NEW reason \in SkipReasons, Skip(reason)
        PROVE  LastWriteWins'
    BY <2>3, <2>5 DEF Skip, SkipReasons
  <2>6. CASE InsertRow
    <3>1. PICK key : key = Key(d)
      OBVIOUS
    <3>2. /\ Advance /\ Verdict(d) = "keyed" /\ key \notin DOMAIN rows
          /\ rows' = [k \in DOMAIN rows \cup {key} |->
                        IF k = key THEN FreshRow(d, next) ELSE rows[k]]
      BY <2>6, <3>1 DEF InsertRow
    <3>3. DOMAIN rows' = KeysWritten'
      BY <2>0, <2>2, <3>1, <3>2
    <3>4. Writes(key)' = {next}
      <4>1. Writes(key) = {}
        BY <2>0, <3>2 DEF Writes, KeysWritten
      <4> QED
        BY <2>2, <3>1, <3>2, <4>1
    <3>5. RowTells(FreshRow(d, next), key, Writes(key)', leaves')
      <4>1. leaves'[next + 1] = d
        BY <3>2 DEF Advance, LeafAt
      <4> QED
        BY <2>2, <3>1, <3>2, <3>4, <4>1, FreshRowTells
    <3>6. ASSUME NEW k \in DOMAIN rows'
          PROVE  RowTells(rows'[k], k, Writes(k)', leaves')
      <4>1. CASE k = key
        BY <3>2, <3>5, <4>1
      <4>2. CASE k # key
        BY <2>0, <2>1, <3>1, <3>2, <4>2
      <4> QED
        BY <4>1, <4>2
    <3> QED
      BY <3>3, <3>6, RowsTell
  <2>7. CASE SupersedeRow
    <3>1. PICK key : key = Key(d)
      OBVIOUS
    <3> DEFINE row == rows[key]
    <3>2. /\ Advance /\ Verdict(d) = "keyed" /\ key \in DOMAIN rows
          /\ rows' = [rows EXCEPT ![key] = Superseded(row, d, next)]
      BY <2>7, <3>1 DEF SupersedeRow
    <3>3. DOMAIN rows' = KeysWritten'
      BY <2>0, <2>2, <3>1, <3>2
    <3>4. RowTells(Superseded(row, d, next), key, Writes(key)', leaves')
      <4>1. leaves[next + 1] = d /\ leaves' = leaves
        BY <3>2 DEF Advance, LeafAt
      <4>2. row \in Row /\ RowTells(row, key, Writes(key), leaves)
        BY <2>0, <3>2 DEF TypeOK
      <4>3. IsFiniteSet(Writes(key)) /\ next \notin Writes(key)
        BY <3>2, WritesGrow
      <4>4. \A j \in Writes(key) : j \in Nat /\ j < next
        BY <2>2, <3>1, <3>2 DEF Writes, Met
      <4> QED
        BY <2>2, <3>1, <3>2, <4>1, <4>2, <4>3, <4>4, SupersededTells
    <3>5. ASSUME NEW k \in DOMAIN rows'
          PROVE  RowTells(rows'[k], k, Writes(k)', leaves')
      <4>1. rows \in [DOMAIN rows -> Row]
        BY DEF TypeOK
      <4>2. CASE k = key
        BY <3>2, <3>4, <4>1, <4>2
      <4>3. CASE k # key
        BY <2>0, <2>1, <3>1, <3>2, <4>1, <4>3
      <4> QED
        BY <4>2, <4>3
    <3> QED
      BY <3>3, <3>5, RowsTell
  <2>8. CASE UNCHANGED vars
    <3>1. \A k : Writes(k)' = Writes(k)
      BY <2>8 DEF vars, Writes, Met, LeafAt
    <3>2. KeysWritten' = KeysWritten
      BY <2>8 DEF vars, KeysWritten, Met, LeafAt
    <3> QED
      BY <2>0, <2>8, <3>1, <3>2, RowsTell DEF vars
  <2> QED
    BY <2>4, <2>5, <2>6, <2>7, <2>8 DEF Next
<1> QED
  BY <1>1, <1>2, TypeCorrect, PTL DEF Spec

-----------------------------------------------------------------------------

\* Whatever the leaves, no issuer ever loses its row of a subject to another.
THEOREM ContestedSubjectsKept == Spec => []ContestedSubjectsKeepEveryIssuer
<1>1. LastWriteWins => ContestedSubjectsKeepEveryIssuer
  <2> SUFFICES ASSUME LastWriteWins, NEW s \in Names
               PROVE  {rows[k].issuer : k \in {k \in DOMAIN rows : rows[k].subject = s}}
                        = {IssuerOf(LeafAt(j).obj) :
                             j \in {j \in Met("keyed") : SubjectOf(LeafAt(j).obj) = s}}
    BY DEF ContestedSubjectsKeepEveryIssuer
  <2>1. /\ DOMAIN rows = {Key(LeafAt(j)) : j \in Met("keyed")}
        /\ \A k \in DOMAIN rows : <<rows[k].issuer, rows[k].subject>> = k
    BY DEF LastWriteWins
  <2>2. ASSUME NEW k \in DOMAIN rows, rows[k].subject = s
        PROVE  \E j \in Met("keyed") : /\ SubjectOf(LeafAt(j).obj) = s
                                       /\ IssuerOf(LeafAt(j).obj) = rows[k].issuer
    <3>1. PICK j \in Met("keyed") : k = Key(LeafAt(j))
      BY <2>1
    <3> QED
      BY <2>1, <2>2, <3>1 DEF Key
  <2>3. ASSUME NEW j \in Met("keyed"), SubjectOf(LeafAt(j).obj) = s
        PROVE  \E k \in DOMAIN rows : /\ rows[k].subject = s
                                      /\ rows[k].issuer = IssuerOf(LeafAt(j).obj)
    <3>1. Key(LeafAt(j)) \in DOMAIN rows
      BY <2>1
    <3> QED
      BY <2>1, <2>3, <3>1 DEF Key
  <2> QED
    BY <2>2, <2>3
<1> QED
  BY <1>1, LastWriteWinsHolds, PTL

-----------------------------------------------------------------------------

\* A leaf set aside is counted once, under its own reason, and no leaf is lost.
THEOREM AccountingHolds == Spec => []AccountingExact
<1>1. Init => AccountingExact
  <2> SUFFICES ASSUME Init PROVE AccountingExact
    OBVIOUS
  <2>1. \A v : Met(v) = {}
    BY DEF Init, Met
  <2>2. /\ malformed = << >> /\ Len(malformed) = 0 /\ DOMAIN malformed = {}
        /\ \A r \in SkipReasons : skipped[r] = 0
    BY DEF Init
  <2> QED
    BY <2>1, <2>2, FS_EmptySet DEF AccountingExact
<1>2. TypeOK /\ AccountingExact /\ [Next]_vars => AccountingExact'
  <2> SUFFICES ASSUME TypeOK, AccountingExact, [Next]_vars PROVE AccountingExact'
    OBVIOUS
  <2> DEFINE d == LeafAt(next)
  \* What a turn of the loop does to the set of the leaves of one verdict.
  <2>1. ASSUME Advance, NEW v
        PROVE  /\ Verdict(d) # v => Met(v)' = Met(v)
               /\ Verdict(d) = v => /\ Met(v)' = Met(v) \cup {next}
                                    /\ Cardinality(Met(v)') = Cardinality(Met(v)) + 1
    <3>1. Verdict(d) # v => Met(v)' = Met(v)
      BY <2>1, MetGrows
    <3>2. Verdict(d) = v => Met(v)' = Met(v) \cup {next}
      BY <2>1, MetGrows
    <3>3. Cardinality(Met(v) \cup {next}) = Cardinality(Met(v)) + 1
      BY <2>1, MetGrows, FS_AddElement
    <3> QED
      BY <3>1, <3>2, <3>3
  <2>2. ASSUME Advance, Verdict(d) = "keyed", UNCHANGED <<malformed, skipped>>
        PROVE  AccountingExact'
    <3>1. Met("malformed")' = Met("malformed")
      BY <2>1, <2>2
    <3>2. \A r \in SkipReasons : Met(r)' = Met(r)
      BY <2>1, <2>2 DEF SkipReasons
    <3>3. Len(malformed') = Cardinality(Met("malformed")')
      BY <2>2, <3>1 DEF AccountingExact
    <3>4. {malformed'[i] : i \in DOMAIN malformed'} = Met("malformed")'
      BY <2>2, <3>1 DEF AccountingExact
    <3>5. \A r \in SkipReasons : skipped'[r] = Cardinality(Met(r)')
      BY <2>2, <3>2 DEF AccountingExact
    <3> QED
      BY <3>3, <3>4, <3>5 DEF AccountingExact
  <2>3. CASE CountMalformed
    <3>1. /\ Advance /\ Verdict(d) = "malformed" /\ skipped' = skipped
          /\ malformed' = Append(malformed, next)
      BY <2>3 DEF CountMalformed
    <3>2. \A r \in SkipReasons : Met(r)' = Met(r)
      BY <2>1, <3>1 DEF SkipReasons
    <3>3. /\ Met("malformed")' = Met("malformed") \cup {next}
          /\ Cardinality(Met("malformed")') = Cardinality(Met("malformed")) + 1
      BY <2>1, <3>1
    <3>4. /\ Len(malformed') = Len(malformed) + 1
          /\ DOMAIN malformed = 1..Len(malformed) /\ Len(malformed) \in Nat
          /\ DOMAIN malformed' = 1..(Len(malformed) + 1)
          /\ \A i \in 1..Len(malformed) : malformed'[i] = malformed[i]
          /\ malformed'[Len(malformed) + 1] = next
      BY <3>1, AppendProperties, LenProperties DEF TypeOK
    <3>5. {malformed'[i] : i \in DOMAIN malformed'}
            = {malformed[i] : i \in DOMAIN malformed} \cup {next}
      BY <3>4
    <3>6. {malformed'[i] : i \in DOMAIN malformed'} = Met("malformed")'
      BY <3>3, <3>5 DEF AccountingExact
    <3>7. Len(malformed') = Cardinality(Met("malformed")')
      BY <3>3, <3>4 DEF AccountingExact
    <3>8. \A r \in SkipReasons : skipped'[r] = Cardinality(Met(r)')
      BY <3>1, <3>2 DEF AccountingExact
    <3> QED
      BY <3>6, <3>7, <3>8 DEF AccountingExact
  <2>4. ASSUME NEW reason \in SkipReasons, Skip(reason)
        PROVE  AccountingExact'
    <3>1. /\ Advance /\ Verdict(d) = reason /\ reason # "malformed"
          /\ malformed' = malformed
          /\ skipped' = [skipped EXCEPT ![reason] = @ + 1]
      BY <2>4 DEF Skip, SkipReasons
    <3>2. Met("malformed")' = Met("malformed")
      BY <2>1, <3>1
    <3>3. ASSUME NEW r \in SkipReasons
          PROVE  skipped'[r] = Cardinality(Met(r)')
      <4>1. skipped[r] = Cardinality(Met(r)) /\ skipped \in [SkipReasons -> Nat]
        BY DEF AccountingExact, TypeOK
      <4>2. CASE r = reason
        <5>1. Cardinality(Met(r)') = Cardinality(Met(r)) + 1
          BY <2>1, <3>1, <4>2
        <5> QED
          BY <3>1, <4>1, <4>2, <5>1
      <4>3. CASE r # reason
        <5>1. Met(r)' = Met(r)
          BY <2>1, <3>1, <4>3
        <5> QED
          BY <3>1, <4>1, <4>3, <5>1
      <4> QED
        BY <4>2, <4>3
    <3>4. /\ {malformed'[i] : i \in DOMAIN malformed'} = Met("malformed")'
          /\ Len(malformed') = Cardinality(Met("malformed")')
      BY <3>1, <3>2 DEF AccountingExact
    <3> QED
      BY <3>3, <3>4 DEF AccountingExact
  <2>5. CASE InsertRow
    BY <2>2, <2>5 DEF InsertRow
  <2>6. CASE SupersedeRow
    BY <2>2, <2>6 DEF SupersedeRow
  <2>7. CASE UNCHANGED vars
    <3>1. \A v : Met(v)' = Met(v)
      BY <2>7 DEF vars, Met, LeafAt
    <3>2. malformed' = malformed /\ skipped' = skipped
      BY <2>7 DEF vars
    <3> QED
      BY <3>1, <3>2 DEF AccountingExact
  <2> QED
    BY <2>3, <2>4, <2>5, <2>6, <2>7 DEF Next
<1> QED
  BY <1>1, <1>2, TypeCorrect, PTL DEF Spec

-----------------------------------------------------------------------------

\* A well-formed rotation leaf, as the property has it.
WellFormedRotation(d) ==
  /\ Parse(d) = "json"
  /\ TypeOf(d.obj) = RotationType
  /\ NotStr \notin {RotationClaim(d.obj).old_did, RotationClaim(d.obj).new_did}

\* The rotation branch is reached by every leaf that is one, whatever becomes of it
\* under the key rules.
LEMMA RotationsReachTheirBranch ==
  ASSUME NEW d \in Leaf
  PROVE  IsRotation(d) <=> WellFormedRotation(d)
<1>1. RotationType # NotStr /\ RotationType # ManifestType
  BY NamesAssumption
<1>2. Parse(d) \in {"malformed", "note", "json"}
  BY DEF Parse
<1>3. CASE Parse(d) = "json" /\ TypeOf(d.obj) = RotationType
  <2>1. Verdict(d) \in {"no-issuer", "no-subject", "keyed"}
    BY <1>1, <1>3 DEF Verdict
  <2> QED
    BY <1>3, <2>1 DEF IsRotation, WellFormedRotation
<1>4. CASE Parse(d) # "json"
  <2>1. Verdict(d) \in {"malformed", "plaintext-note"}
    BY <1>2, <1>4 DEF Verdict
  <2> QED
    BY <1>4, <2>1 DEF IsRotation, WellFormedRotation
<1>5. CASE TypeOf(d.obj) # RotationType
  BY <1>5 DEF IsRotation, WellFormedRotation
<1> QED
  BY <1>3, <1>4, <1>5

\* What a sequence holds after one more entry.
LEMMA AppendedEntry ==
  ASSUME NEW S, NEW s \in Seq(S), NEW x
  PROVE  /\ DOMAIN s = 1..Len(s) /\ Len(s) \in Nat
         /\ DOMAIN Append(s, x) = 1..(Len(s) + 1)
         /\ \A i \in 1..Len(s) : Append(s, x)[i] = s[i]
         /\ Append(s, x)[Len(s) + 1] = x
<1>1. s \in Seq(S \cup {x}) /\ x \in S \cup {x}
  OBVIOUS
<1> QED
  BY <1>1

\* The indices the identity graph should hold.
Rotating == {j \in 0..(next - 1) : WellFormedRotation(LeafAt(j))}

\* What an entry of the identity graph says is what its leaf says.
Says(lv, entry) ==
  /\ entry.old = RotationClaim(lv[entry.index + 1].obj).old_did
  /\ entry.new = RotationClaim(lv[entry.index + 1].obj).new_did

\* What the loop keeps: the graph holds the rotations met, signed or not.
GraphAsMet ==
  /\ {rotations[i].index : i \in DOMAIN rotations} = Rotating
  /\ \A i \in DOMAIN rotations, j \in DOMAIN rotations :
       i < j => rotations[i].index < rotations[j].index
  /\ \A i \in DOMAIN rotations : Says(leaves, rotations[i])

\* A step adds the index it deals with if the leaf there is a rotation.
LEMMA RotatingGrows ==
  ASSUME TypeOK, Advance
  PROVE  /\ next \in Nat
         /\ LeafAt(next) \in Leaf
         /\ Rotating' = Rotating \cup {j \in {next} : IsRotation(LeafAt(next))}
         /\ \A j \in Rotating : j < next
<1>1. next \in Nat /\ next' = next + 1 /\ leaves' = leaves /\ next \in 0..(Len(leaves) - 1)
  <2>1. Len(leaves) \in Nat
    BY ExportsAssumption, LenProperties DEF TypeOK
  <2> QED
    BY <2>1 DEF TypeOK, Advance
<1>2. 0..(next' - 1) = (0..(next - 1)) \cup {next}
  BY <1>1
<1>3. LeafAt(next) \in Leaf
  BY <1>1, CurrentLeaf
<1>4. Rotating' = Rotating \cup {j \in {next} : WellFormedRotation(LeafAt(next))}
  BY <1>1, <1>2 DEF Rotating, LeafAt, WellFormedRotation
<1>5. IsRotation(LeafAt(next)) <=> WellFormedRotation(LeafAt(next))
  BY <1>3, RotationsReachTheirBranch
<1> QED
  BY <1>1, <1>3, <1>4, <1>5 DEF Rotating

\* Whatever else a step does, its rotation is appended as RotationsAfter has it.
LEMMA RotationAppended ==
  ASSUME TypeOK, GraphAsMet, Advance, rotations' = RotationsAfter(LeafAt(next))
  PROVE  GraphAsMet'
<1> DEFINE d == LeafAt(next)
           entry == [index |-> next, old |-> RotationClaim(d.obj).old_did,
                     new |-> RotationClaim(d.obj).new_did]
<1>1. /\ {rotations[i].index : i \in DOMAIN rotations} = Rotating
      /\ \A i \in DOMAIN rotations, j \in DOMAIN rotations :
           i < j => rotations[i].index < rotations[j].index
      /\ \A i \in DOMAIN rotations : Says(leaves, rotations[i])
  BY DEF GraphAsMet
<1>2. /\ next \in Nat
      /\ Rotating' = Rotating \cup {j \in {next} : IsRotation(d)}
      /\ \A j \in Rotating : j < next
  BY RotatingGrows
<1>3. leaves' = leaves
  BY DEF Advance
<1>4. CASE ~IsRotation(d)
  <2>1. rotations' = rotations /\ Rotating' = Rotating
    BY <1>2, <1>4 DEF RotationsAfter
  <2>2. \A i \in DOMAIN rotations' : Says(leaves', rotations'[i])
    BY <1>1, <1>3, <2>1
  <2>3. {rotations'[i].index : i \in DOMAIN rotations'} = Rotating'
    BY <1>1, <2>1
  <2>4. \A i \in DOMAIN rotations', j \in DOMAIN rotations' :
          i < j => rotations'[i].index < rotations'[j].index
    BY <1>1, <2>1
  <2> QED
    BY <2>2, <2>3, <2>4 DEF GraphAsMet
<1>5. CASE IsRotation(d)
  <2>1. rotations' = Append(rotations, entry)
    BY <1>5 DEF RotationsAfter
  <2> HIDE DEF entry
  <2>2. /\ DOMAIN rotations = 1..Len(rotations) /\ Len(rotations) \in Nat
        /\ DOMAIN rotations' = 1..(Len(rotations) + 1)
        /\ \A i \in 1..Len(rotations) : rotations'[i] = rotations[i]
        /\ rotations'[Len(rotations) + 1] = entry
    <3>1. rotations \in Seq([index : Nat, old : Parties, new : Parties])
      BY DEF TypeOK
    <3> QED
      BY <2>1, <3>1, AppendedEntry
  <2>3. entry.index = next /\ Says(leaves, entry)
    BY DEF entry, Says, LeafAt
  <2>4. Rotating' = Rotating \cup {next}
    BY <1>2, <1>5
  <2>5. {rotations'[i].index : i \in DOMAIN rotations'} = Rotating'
    <3>1. {rotations'[i].index : i \in DOMAIN rotations'}
            = {rotations[i].index : i \in DOMAIN rotations} \cup {entry.index}
      BY <2>2
    <3> QED
      BY <1>1, <2>3, <2>4, <3>1
  <2>6. \A i \in 1..Len(rotations) : rotations[i].index < next
    BY <1>1, <1>2, <2>2
  <2>7. ASSUME NEW i \in DOMAIN rotations', NEW j \in DOMAIN rotations', i < j
        PROVE  rotations'[i].index < rotations'[j].index
    <3>1. CASE j = Len(rotations) + 1
      BY <2>2, <2>3, <2>6, <2>7, <3>1
    <3>2. CASE j # Len(rotations) + 1
      <4>1. i \in DOMAIN rotations /\ j \in DOMAIN rotations
        BY <2>2, <2>7, <3>2
      <4> QED
        BY <1>1, <2>2, <2>7, <4>1
    <3> QED
      BY <3>1, <3>2
  <2>8. \A i \in DOMAIN rotations' : Says(leaves', rotations'[i])
    <3>1. ASSUME NEW i \in 1..(Len(rotations) + 1)
          PROVE  Says(leaves', rotations'[i])
      <4>1. CASE i = Len(rotations) + 1
        BY <1>3, <2>2, <2>3, <4>1
      <4>2. CASE i \in 1..Len(rotations)
        BY <1>1, <1>3, <2>2, <4>2
      <4> QED
        BY <2>2, <4>1, <4>2
    <3> QED
      BY <2>2, <3>1
  <2> QED
    BY <2>5, <2>7, <2>8 DEF GraphAsMet
<1> QED
  BY <1>4, <1>5

\* reduce.py:146-152: the identity graph of any list holds every well-formed rotation
\* the outgoing key has signed, also those that are skipped under the key rules, and
\* nothing but well-formed rotations, each once, in index order and as its leaf has it.
THEOREM IdentityGraphHolds == Spec => []IdentityGraphExact
<1>1. Init => GraphAsMet
  <2> SUFFICES ASSUME Init PROVE GraphAsMet
    OBVIOUS
  <2>1. DOMAIN rotations = {} /\ Rotating = {}
    BY DEF Init, Rotating
  <2> QED
    BY <2>1 DEF GraphAsMet
<1>2. TypeOK /\ GraphAsMet /\ [Next]_vars => GraphAsMet'
  <2> SUFFICES ASSUME TypeOK, GraphAsMet, [Next]_vars PROVE GraphAsMet'
    OBVIOUS
  <2>1. CASE CountMalformed
    <3>1. ~IsRotation(LeafAt(next))
      BY <2>1 DEF CountMalformed, IsRotation
    <3> QED
      BY <2>1, <3>1, RotationAppended DEF CountMalformed, RotationsAfter
  <2>2. ASSUME NEW reason \in SkipReasons, Skip(reason) PROVE GraphAsMet'
    BY <2>2, RotationAppended DEF Skip
  <2>3. CASE InsertRow
    BY <2>3, RotationAppended DEF InsertRow
  <2>4. CASE SupersedeRow
    BY <2>4, RotationAppended DEF SupersedeRow
  <2>5. CASE UNCHANGED vars
    BY <2>5 DEF vars, GraphAsMet, Rotating, LeafAt
  <2> QED
    BY <2>1, <2>2, <2>3, <2>4, <2>5 DEF Next
<1>3. GraphAsMet => IdentityGraphExact
  BY DEF GraphAsMet, IdentityGraphExact, Rotating, Says, WellFormedRotation, LeafAt
<1> QED
  BY <1>1, <1>2, <1>3, TypeCorrect, PTL DEF Spec

-----------------------------------------------------------------------------

\* The replay of timestamp proofs (Anchors).
\* The tokens of a kind are finitely many, and one token more is of the kind or not.
LEMMA OfKindStep ==
  ASSUME NEW proof, NEW kind, NEW i \in Nat
  PROVE  /\ IsFiniteSet(OfKind(proof, kind, i))
         /\ Cardinality(OfKind(proof, kind, i)) \in Nat
         /\ proof.tokens[i + 1].token = kind =>
              Cardinality(OfKind(proof, kind, i + 1)) = Cardinality(OfKind(proof, kind, i)) + 1
         /\ proof.tokens[i + 1].token # kind => OfKind(proof, kind, i + 1) = OfKind(proof, kind, i)
<1> DEFINE K == OfKind(proof, kind, i)
<1>1. IsFiniteSet(1..i) /\ K \in SUBSET (1..i)
  BY FS_Interval DEF OfKind
<1>2. IsFiniteSet(K) /\ Cardinality(K) \in Nat
  BY <1>1, FS_Subset, FS_CardinalityType
<1>3. i + 1 \notin K
  BY <1>1
<1>4. ASSUME proof.tokens[i + 1].token = kind
      PROVE  OfKind(proof, kind, i + 1) = K \cup {i + 1}
  BY <1>4 DEF OfKind
<1>5. ASSUME proof.tokens[i + 1].token = kind
      PROVE  Cardinality(OfKind(proof, kind, i + 1)) = Cardinality(K) + 1
  BY <1>2, <1>3, <1>4, <1>5, FS_AddElement
<1>6. ASSUME proof.tokens[i + 1].token # kind
      PROVE  OfKind(proof, kind, i + 1) = K
  BY <1>6 DEF OfKind
<1> QED
  BY <1>2, <1>5, <1>6

\* What a token does to the number of open branches.
LEMMA OpenStep ==
  ASSUME NEW proof, NEW i \in Nat
  PROVE  /\ Open(proof, i) \in Int
         /\ proof.tokens[i + 1].token = "fork" => Open(proof, i + 1) = Open(proof, i) + 1
         /\ proof.tokens[i + 1].token = "attest" => Open(proof, i + 1) = Open(proof, i) - 1
         /\ proof.tokens[i + 1].token \notin {"fork", "attest"} => Open(proof, i + 1) = Open(proof, i)
<1>1. /\ Cardinality(OfKind(proof, "fork", i)) \in Nat
      /\ Cardinality(OfKind(proof, "attest", i)) \in Nat
  BY OfKindStep
<1>2. proof.tokens[i + 1].token = "fork" => 
        /\ Cardinality(OfKind(proof, "fork", i + 1)) = Cardinality(OfKind(proof, "fork", i)) + 1
        /\ OfKind(proof, "attest", i + 1) = OfKind(proof, "attest", i)
  BY OfKindStep
<1>3. proof.tokens[i + 1].token = "attest" => 
        /\ Cardinality(OfKind(proof, "attest", i + 1)) = Cardinality(OfKind(proof, "attest", i)) + 1
        /\ OfKind(proof, "fork", i + 1) = OfKind(proof, "fork", i)
  BY OfKindStep
<1>4. proof.tokens[i + 1].token \notin {"fork", "attest"} => 
        /\ OfKind(proof, "attest", i + 1) = OfKind(proof, "attest", i)
        /\ OfKind(proof, "fork", i + 1) = OfKind(proof, "fork", i)
  BY OfKindStep
<1> QED
  BY <1>1, <1>2, <1>3, <1>4 DEF Open

\* At the beginning of a proof.
LEMMA NothingRead ==
  ASSUME NEW proof
  PROVE  /\ Open(proof, 0) = 1 /\ Within(proof, 0) /\ Leading(proof, 0) = {}
         /\ Cardinality(OfKind(proof, "attest", 0)) = 0
<1>1. \A kind : OfKind(proof, kind, 0) = {}
  BY DEF OfKind
<1>2. Cardinality({}) = 0
  BY FS_EmptySet
<1> QED
  BY <1>1, <1>2 DEF Open, Within, Leading

\* The operations that lead to a place are among the tokens before it.
LEMMA LeadingFinite ==
  ASSUME NEW proof, NEW i \in Nat, NEW K \in SUBSET Leading(proof, i)
  PROVE  K \in SUBSET (1..i) /\ IsFiniteSet(K) /\ Cardinality(K) \in Nat
<1>1. K \in SUBSET (1..i)
  BY DEF Leading, OfKind
<1>2. IsFiniteSet(1..i)
  BY FS_Interval
<1>3. IsFiniteSet(K)
  BY <1>1, <1>2, FS_Subset
<1> QED
  BY <1>1, <1>3, FS_CardinalityType

-----------------------------------------------------------------------------

\* Numbers have a least.
LEMMA Smallest ==
  ASSUME NEW T \in SUBSET Nat, T # {}
  PROVE  \E m \in T : \A k \in T : m <= k
<1>1. PICK x \in T : \A y \in T : <<y, x>> \notin OpToRel(<, Nat)
  BY NatLessThanWellFounded, WFMin, Zenon
<1>2. \A y \in T : ~(y < x)
  BY <1>1, Zenon DEF OpToRel
<1> QED
  BY <1>2

Increasing(f) == \A j, l \in DOMAIN f : j < l => f[j] < f[l]

\* A set of numbers is in order in one way.
LEMMA OneOrder ==
  ASSUME NEW K \in SUBSET Nat, IsFiniteSet(K),
         NEW f \in [1..Cardinality(K) -> K], Increasing(f),
         NEW g \in [1..Cardinality(K) -> K], Increasing(g)
  PROVE  f = g
<1> DEFINE n == Cardinality(K)
           T == {j \in 1..n : f[j] # g[j]}
<1>1. n \in Nat
  BY FS_CardinalityType
<1>2. ASSUME NEW h \in [1..n -> K], Increasing(h)
      PROVE  \A k \in K : \E j \in 1..n : h[j] = k
  <2>1. \A j, l \in 1..n : j # l => h[j] # h[l]
    <3>1. \A j \in 1..n : h[j] \in Nat
      BY <1>2
    <3> QED
      BY <1>1, <1>2, <3>1 DEF Increasing
  <2>2. h \in Injection(1..n, K)
    BY <2>1 DEF Injection, IsInjective
  <2>3. Cardinality(1..n) = n
    BY <1>1, FS_Interval
  <2>4. h \in Surjection(1..n, K)
    BY <2>2, <2>3, FS_Injection
  <2> QED
    BY <2>4 DEF Surjection
<1>3. SUFFICES ASSUME T # {}
               PROVE  FALSE
  <2>1. T = {} => \A j \in 1..n : f[j] = g[j]
    OBVIOUS
  <2>2. f = [j \in 1..n |-> f[j]] /\ g = [j \in 1..n |-> g[j]]
    OBVIOUS
  <2>3. (\A j \in 1..n : f[j] = g[j]) => [j \in 1..n |-> f[j]] = [j \in 1..n |-> g[j]]
    OBVIOUS
  <2> QED
    BY <2>1, <2>2, <2>3
<1>4. T \in SUBSET Nat /\ \A j \in 1..n : j \notin T => f[j] = g[j]
  OBVIOUS
<1> HIDE DEF T
<1>5. PICK j \in T : \A l \in T : j <= l
  BY <1>3, <1>4, Smallest
<1>6. j \in 1..n /\ f[j] # g[j] /\ f[j] \in Nat /\ g[j] \in Nat /\ f[j] \in K /\ g[j] \in K
  BY DEF T
<1>7. \A l \in 1..n : l < j => f[l] = g[l]
  BY <1>1, <1>4, <1>5, <1>6
<1>8. CASE f[j] < g[j]
  <2>1. PICK l \in 1..n : g[l] = f[j]
    BY <1>2, <1>6
  <2>2. l < j
    BY <1>1, <1>6, <1>8, <2>1 DEF Increasing
  <2>3. f[l] < f[j]
    BY <1>6, <2>2 DEF Increasing
  <2> QED
    BY <1>6, <1>7, <2>1, <2>2, <2>3
<1>9. CASE g[j] < f[j]
  <2>1. PICK l \in 1..n : f[l] = g[j]
    BY <1>2, <1>6
  <2>2. l < j
    BY <1>1, <1>6, <1>9, <2>1 DEF Increasing
  <2>3. g[l] < g[j]
    BY <1>6, <2>2 DEF Increasing
  <2> QED
    BY <1>6, <1>7, <2>1, <2>2, <2>3
<1> QED
  BY <1>6, <1>8, <1>9

-----------------------------------------------------------------------------

\* The digest is the message no operation leads to.
LEMMA FollowNothing ==
  ASSUME NEW proof
  PROVE  Follow(proof, <<proof.digest>>, {})
<1> DEFINE f == [j \in 1..0 |-> 0]
<1>1. Cardinality({}) = 0
  BY FS_EmptySet
<1>2. f \in [1..0 -> {}] /\ DOMAIN f = {}
  OBVIOUS
<1>3. [j \in DOMAIN f |-> proof.tokens[f[j]].op] = << >>
  BY <1>2
<1>4. <<proof.digest>> \o << >> = <<proof.digest>>
  BY ConcatEmptySeq
<1> QED
  BY <1>1, <1>2, <1>3, <1>4 DEF Follow

\* Operations lead to one message.
LEMMA FollowOne ==
  ASSUME NEW proof, NEW K \in SUBSET Nat, IsFiniteSet(K), NEW x, NEW y,
         Follow(proof, x, K), Follow(proof, y, K)
  PROVE  x = y
<1> DEFINE Of(f) == <<proof.digest>> \o [j \in DOMAIN f |-> proof.tokens[f[j]].op]
<1>1. PICK f \in [1..Cardinality(K) -> K] : Increasing(f) /\ x = Of(f)
  BY DEF Follow, Increasing
<1>2. PICK g \in [1..Cardinality(K) -> K] : Increasing(g) /\ y = Of(g)
  BY DEF Follow, Increasing
<1>3. f = g
  BY <1>1, <1>2, OneOrder
<1> QED
  BY <1>1, <1>2, <1>3

\* An operation after all of these is applied to what they lead to.
LEMMA FollowApply ==
  ASSUME NEW proof, NEW i \in Nat, NEW K \in SUBSET (1..i), NEW x, Follow(proof, x, K)
  PROVE  Follow(proof, Append(x, proof.tokens[i + 1].op), K \cup {i + 1})
<1> DEFINE n == Cardinality(K)
           Op(j) == proof.tokens[j].op
<1>1. IsFiniteSet(K) /\ n \in Nat /\ i + 1 \notin K
  <2>1. IsFiniteSet(1..i)
    BY FS_Interval
  <2>2. IsFiniteSet(K)
    BY <2>1, FS_Subset
  <2> QED
    BY <2>2, FS_CardinalityType
<1>2. Cardinality(K \cup {i + 1}) = n + 1
  BY <1>1, FS_AddElement
<1>3. PICK f \in [1..n -> K] :
        /\ \A j, l \in DOMAIN f : j < l => f[j] < f[l]
        /\ x = <<proof.digest>> \o [j \in DOMAIN f |-> Op(f[j])]
  BY DEF Follow
<1> HIDE DEF n, Op
<1>a. \A j \in 1..n : f[j] \in 1..i
  BY <1>3
<1> DEFINE g == [j \in 1..(n + 1) |-> IF j = n + 1 THEN i + 1 ELSE f[j]]
           s == [j \in 1..n |-> Op(f[j])]
           t == [j \in 1..(n + 1) |-> Op(g[j])]
           S == {proof.digest} \cup {Op(j) : j \in 1..(i + 1)}
<1>4. g \in [1..(n + 1) -> K \cup {i + 1}]
  BY <1>1
<1>5. \A j, l \in 1..(n + 1) : j < l => g[j] < g[l]
  <2> SUFFICES ASSUME NEW j \in 1..(n + 1), NEW l \in 1..(n + 1), j < l
               PROVE  g[j] < g[l]
    OBVIOUS
  <2>1. j \in 1..n /\ g[j] = f[j] /\ f[j] \in 1..i
    BY <1>1, <1>a
  <2>2. CASE l = n + 1
    BY <2>1, <2>2
  <2>3. CASE l # n + 1
    BY <1>1, <1>3, <2>1, <2>3
  <2> QED
    BY <2>2, <2>3
<1>6. /\ s \in Seq(S) /\ Len(s) = n
      /\ t \in Seq(S) /\ Len(t) = n + 1
      /\ <<proof.digest>> \in Seq(S) /\ Len(<<proof.digest>>) = 1
      /\ Op(i + 1) \in S
  <2>1. \A j \in 1..(i + 1) : Op(j) \in S
    OBVIOUS
  <2>2. \A j \in 1..n : f[j] \in 1..(i + 1)
    BY <1>a
  <2>3. \A j \in 1..(n + 1) : g[j] \in 1..(i + 1)
    BY <1>1, <2>2
  <2>4. proof.digest \in S
    OBVIOUS
  <2> HIDE DEF S, g
  <2>5. \A j \in 1..n : Op(f[j]) \in S
    BY <2>1, <2>2
  <2>6. \A j \in 1..(n + 1) : Op(g[j]) \in S
    BY <2>1, <2>3
  <2>7. s \in Seq(S) /\ Len(s) = n
    BY <1>1, <2>5
  <2>8. t \in Seq(S) /\ Len(t) = n + 1
    BY <1>1, <2>6
  <2>9. <<proof.digest>> \in Seq(S) /\ Len(<<proof.digest>>) = 1
    BY <2>4
  <2>10. Op(i + 1) \in S
    BY <2>1
  <2> QED
    BY <2>7, <2>8, <2>9, <2>10
<1>7. \A j \in 1..n : t[j] = s[j]
  BY <1>1
<1>8. t[n + 1] = Op(i + 1)
  BY <1>1
<1> HIDE DEF s, t, S, Op
<1>9. t = Append(s, Op(i + 1))
  BY <1>1, <1>6, <1>7, <1>8
<1>10. Append(<<proof.digest>> \o s, Op(i + 1)) = <<proof.digest>> \o Append(s, Op(i + 1))
  BY <1>6
<1>11. DOMAIN f = 1..n /\ DOMAIN g = 1..(n + 1)
  OBVIOUS
<1>12. x = <<proof.digest>> \o s
  BY <1>3, <1>11 DEF s
<1>13. Append(x, Op(i + 1)) = <<proof.digest>> \o t
  BY <1>9, <1>10, <1>12
<1>14. /\ g \in [1..Cardinality(K \cup {i + 1}) -> K \cup {i + 1}]
       /\ \A j, l \in DOMAIN g : j < l => g[j] < g[l]
       /\ Append(x, proof.tokens[i + 1].op) = <<proof.digest>> \o [j \in DOMAIN g |-> proof.tokens[g[j]].op]
  BY <1>2, <1>4, <1>5, <1>11, <1>13 DEF t, Op
<1> HIDE DEF g
<1> QED
  BY <1>14, Zenon DEF Follow

-----------------------------------------------------------------------------

\* The operations that lead the c-th of the calls to where it is.
InCall(proof, i, c) == {k \in Leading(proof, i) : Open(proof, k - 1) <= c}

\* The last of them is at the place itself.
LEMMA InLastCall ==
  ASSUME NEW proof, NEW i \in Nat
  PROVE  InCall(proof, i, Open(proof, i)) = Leading(proof, i)
<1>1. ASSUME NEW k \in Leading(proof, i) 
      PROVE  Open(proof, k - 1) <= Open(proof, i)
  <2>1. k \in 1..i /\ i \in k..i /\ \A m \in k..i : Open(proof, m) >= Open(proof, k - 1)
    BY DEF Leading, OfKind
  <2>2. Open(proof, i) \in Int /\ Open(proof, k - 1) \in Int
    BY <2>1, OpenStep
  <2> QED
    BY <2>1, <2>2
<1> QED
  BY <1>1 DEF InCall

\* A token that is no operation, and does not end the c-th call, changes nothing of it.
LEMMA InCallUnchanged ==
  ASSUME NEW proof, NEW i \in Nat, NEW c \in Nat, c <= Open(proof, i + 1),
         proof.tokens[i + 1].token # "apply" \/ c < Open(proof, i)
  PROVE  InCall(proof, i + 1, c) = InCall(proof, i, c)
<1>1. ASSUME NEW k \in InCall(proof, i + 1, c)
      PROVE  k \in InCall(proof, i, c)
  <2>1. /\ k \in 1..(i + 1) /\ proof.tokens[k].token = "apply"
        /\ \A m \in k..(i + 1) : Open(proof, m) >= Open(proof, k - 1)
        /\ Open(proof, k - 1) <= c
    BY DEF InCall, Leading, OfKind
  <2>2. k # i + 1
    <3>1. CASE c < Open(proof, i)
      <4>1. Open(proof, i) \in Int
        BY OpenStep
      <4>2. k = i + 1 => k - 1 = i
        OBVIOUS
      <4> QED
        BY <2>1, <3>1, <4>1, <4>2
    <3> QED
      BY <2>1, <3>1
  <2>3. k \in 1..i
    BY <2>1, <2>2
  <2> QED
    BY <2>1, <2>3 DEF InCall, Leading, OfKind
<1>2. ASSUME NEW k \in InCall(proof, i, c)
      PROVE  k \in InCall(proof, i + 1, c)
  <2>1. /\ k \in 1..i /\ proof.tokens[k].token = "apply"
        /\ \A m \in k..i : Open(proof, m) >= Open(proof, k - 1)
        /\ Open(proof, k - 1) <= c
    BY DEF InCall, Leading, OfKind
  <2>2. Open(proof, i + 1) >= Open(proof, k - 1)
    <3>1. Open(proof, i + 1) \in Int /\ Open(proof, k - 1) \in Int
      BY <2>1, OpenStep
    <3> QED
      BY <2>1, <3>1
  <2>3. \A m \in k..(i + 1) : Open(proof, m) >= Open(proof, k - 1)
    BY <2>1, <2>2
  <2> QED
    BY <2>1, <2>3 DEF InCall, Leading, OfKind
<1> QED
  BY <1>1, <1>2

\* A branch begins at what leads to the fork.
LEMMA InCallFork ==
  ASSUME NEW proof, NEW i \in Nat, proof.tokens[i + 1].token = "fork"
  PROVE  InCall(proof, i + 1, Open(proof, i) + 1) = Leading(proof, i)
<1>1. Open(proof, i + 1) = Open(proof, i) + 1 /\ Open(proof, i) \in Int
  BY OpenStep
<1>2. InCall(proof, i + 1, Open(proof, i) + 1) = Leading(proof, i + 1)
  BY <1>1, InLastCall
<1>3. ASSUME NEW k \in Leading(proof, i + 1)
      PROVE  k \in Leading(proof, i)
  <2>1. /\ k \in 1..(i + 1) /\ proof.tokens[k].token = "apply"
        /\ \A m \in k..(i + 1) : Open(proof, m) >= Open(proof, k - 1)
    BY DEF Leading, OfKind
  <2>2. k \in 1..i
    BY <2>1
  <2> QED
    BY <2>1, <2>2 DEF Leading, OfKind
<1>4. ASSUME NEW k \in Leading(proof, i)
      PROVE  k \in Leading(proof, i + 1)
  <2>1. /\ k \in 1..i /\ proof.tokens[k].token = "apply"
        /\ \A m \in k..i : Open(proof, m) >= Open(proof, k - 1)
    BY DEF Leading, OfKind
  <2>2. Open(proof, i + 1) >= Open(proof, k - 1)
    <3>1. Open(proof, k - 1) \in Int /\ Open(proof, i) >= Open(proof, k - 1)
      BY <2>1, OpenStep
    <3> QED
      BY <1>1, <3>1
  <2> QED
    BY <2>1, <2>2 DEF Leading, OfKind
<1> QED
  BY <1>2, <1>3, <1>4

\* An operation is of the last call.
LEMMA InCallApply ==
  ASSUME NEW proof, NEW i \in Nat, proof.tokens[i + 1].token = "apply"
  PROVE  /\ Open(proof, i + 1) = Open(proof, i)
         /\ InCall(proof, i + 1, Open(proof, i)) = Leading(proof, i) \cup {i + 1}
<1>1. Open(proof, i + 1) = Open(proof, i) /\ Open(proof, i) \in Int
  BY OpenStep
<1>2. InCall(proof, i + 1, Open(proof, i)) = Leading(proof, i + 1)
  BY <1>1, InLastCall
<1>3. ASSUME NEW k \in Leading(proof, i + 1), k # i + 1
      PROVE  k \in Leading(proof, i)
  BY <1>3 DEF Leading, OfKind
<1>4. ASSUME NEW k \in Leading(proof, i)
      PROVE  k \in Leading(proof, i + 1)
  <2>1. /\ k \in 1..i /\ proof.tokens[k].token = "apply"
        /\ \A m \in k..i : Open(proof, m) >= Open(proof, k - 1)
    BY DEF Leading, OfKind
  <2>2. Open(proof, i + 1) >= Open(proof, k - 1)
    BY <1>1, <2>1
  <2> QED
    BY <2>1, <2>2 DEF Leading, OfKind
<1>5. i + 1 \in Leading(proof, i + 1)
  BY <1>1 DEF Leading, OfKind
<1> QED
  BY <1>1, <1>2, <1>3, <1>4, <1>5

-----------------------------------------------------------------------------

\* How far a proof has been read: r is left, and o has been recorded.
ReadUpTo(proof, read, r, o) ==
  /\ r = SubSeq(proof.tokens, read + 1, Len(proof.tokens))
  /\ \A j \in 1..read : proof.tokens[j].token \notin Unreadable
  /\ Within(proof, read)
  /\ IsSequence(o)
  /\ Len(o) = Cardinality(OfKind(proof, "attest", read)) /\ Len(o) <= Len(proof.tree)
  /\ \A j \in 1..Len(o) : o[j] = proof.tree[j]

\* The calls that are on: one for every branch that has not ended, until the end of
\* the data, where they return one after the other.
CallsUpTo(proof, read, s) ==
  /\ IsSequence(s)
  /\ Len(s) >= 1 /\ Len(s) <= Open(proof, read)
  /\ read < Len(proof.tokens) => Len(s) = Open(proof, read)
  /\ \A c \in 1..Len(s) : Follow(proof, s[c], InCall(proof, read, c))

LEMMA IsASequence ==
  ASSUME NEW S, NEW s \in Seq(S)
  PROVE  IsSequence(s)
<1>1. \A j \in 1..Len(s) : s[j] \in ToSet(s)
  BY LenProperties DEF ToSet
<1>2. s = [j \in 1..Len(s) |-> s[j]] /\ Len(s) \in Nat
  BY LenProperties
<1> QED
  BY <1>1, <1>2 DEF IsSequence

LEMMA SequenceOfLength ==
  ASSUME NEW s, IsSequence(s)
  PROVE  /\ Len(s) \in Nat /\ DOMAIN s = 1..Len(s)
         /\ \A S : (\A j \in 1..Len(s) : s[j] \in S) => s \in Seq(S)
<1>1. Len(s) \in Nat /\ DOMAIN s = 1..Len(s) /\ s \in [1..Len(s) -> ToSet(s)]
  BY LenProperties DEF IsSequence
<1> QED
  BY <1>1

\* What is read next.
LEMMA ReadNext ==
  ASSUME NEW proof, IsProof(proof), NEW read \in 0..Len(proof.tokens), NEW r, NEW o,
         ReadUpTo(proof, read, r, o)
  PROVE  /\ r # << >> <=> read < Len(proof.tokens)
         /\ read < Len(proof.tokens) => /\ Head(r) = proof.tokens[read + 1]
                                        /\ Tail(r) = SubSeq(proof.tokens, read + 2, Len(proof.tokens))
<1> DEFINE S == ToSet(proof.tokens)
           n == Len(proof.tokens)
<1>1. proof.tokens \in Seq(S) /\ n \in Nat
  BY LenProperties DEF IsProof, IsSequence
<1>2. r = SubSeq(proof.tokens, read + 1, n)
  BY DEF ReadUpTo
<1> HIDE DEF S, n
<1>3. CASE read < n
  <2>1. read + 1 \in 1..n /\ n \in (read + 1)..n /\ (read + 1) + 1 = read + 2
    BY <1>1, <1>3
  <2>2. Head(r) = proof.tokens[read + 1] /\ Tail(r) = SubSeq(proof.tokens, read + 2, n)
    BY <1>1, <1>2, <2>1, HeadTailOfSubSeq DEF n
  <2>3. Len(r) = n - (read + 1) + 1
    BY <1>1, <1>2, <2>1, SubSeqProperties
  <2>4. r # << >>
    BY <1>1, <1>3, <2>3
  <2> QED
    BY <1>3, <2>2, <2>4 DEF n
<1>4. CASE ~(read < n)
  BY <1>1, <1>2, <1>4, SubSeqEmpty DEF n
<1> QED
  BY <1>3, <1>4

\* A fork or an operation.
LEMMA ReadOther ==
  ASSUME NEW proof, IsProof(proof), NEW read \in 0..Len(proof.tokens), NEW r, NEW o,
         ReadUpTo(proof, read, r, o), read < Len(proof.tokens), Open(proof, read) >= 1,
         proof.tokens[read + 1].token \notin Unreadable \cup {"attest"}
  PROVE  ReadUpTo(proof, read + 1, Tail(r), o)
<1>1. (read + 1) + 1 = read + 2 /\ read \in Nat
  OBVIOUS
<1>2. Tail(r) = SubSeq(proof.tokens, read + 2, Len(proof.tokens))
  BY ReadNext
<1>3. OfKind(proof, "attest", read + 1) = OfKind(proof, "attest", read)
  BY OfKindStep
<1>4. \A j \in 1..(read + 1) : proof.tokens[j].token \notin Unreadable
  BY DEF ReadUpTo
<1>5. Within(proof, read + 1)
  BY DEF ReadUpTo, Within
<1> QED
  BY <1>1, <1>2, <1>3, <1>4, <1>5 DEF ReadUpTo

\* An attestation: what is recorded is what the proof's author put there.
LEMMA ReadAttest ==
  ASSUME NEW proof, IsProof(proof), NEW read \in 0..Len(proof.tokens), NEW r, NEW o,
         ReadUpTo(proof, read, r, o), read < Len(proof.tokens), Open(proof, read) >= 1,
         proof.tokens[read + 1].token = "attest",
         NEW message, Follow(proof, message, Leading(proof, read))
  PROVE  ReadUpTo(proof, read + 1, Tail(r),
                  Append(o, [name    |-> proof.tokens[read + 1].name,
                             height  |-> proof.tokens[read + 1].height,
                             message |-> message]))
<1> DEFINE nth == Cardinality(OfKind(proof, "attest", read + 1))
           A == [name    |-> proof.tokens[read + 1].name,
                 height  |-> proof.tokens[read + 1].height,
                 message |-> message]
<1>1. (read + 1) + 1 = read + 2 /\ (read + 1) - 1 = read /\ read \in Nat
  OBVIOUS
<1>2. Tail(r) = SubSeq(proof.tokens, read + 2, Len(proof.tokens))
  BY ReadNext
<1>3. /\ Len(o) \in Nat /\ nth = Len(o) + 1
      /\ DOMAIN proof.tree = 1..Len(proof.tree) /\ Len(proof.tree) \in Nat
      /\ read + 1 \in DOMAIN proof.tokens
  <2>1. Len(o) = Cardinality(OfKind(proof, "attest", read))
    BY DEF ReadUpTo
  <2>2. IsSequence(proof.tokens) /\ IsSequence(proof.tree)
    BY DEF IsProof
  <2>3. Len(proof.tokens) \in Nat /\ DOMAIN proof.tokens = 1..Len(proof.tokens)
    BY <2>2, SequenceOfLength
  <2>4. DOMAIN proof.tree = 1..Len(proof.tree) /\ Len(proof.tree) \in Nat
    BY <2>2, SequenceOfLength
  <2>5. nth = Cardinality(OfKind(proof, "attest", read)) + 1 /\ Cardinality(OfKind(proof, "attest", read)) \in Nat
    BY OfKindStep
  <2> QED
    BY <2>1, <2>3, <2>4, <2>5
<1>4. \A j \in 1..(read + 1) : proof.tokens[j].token \notin Unreadable
  BY DEF ReadUpTo, Unreadable
<1>5. Within(proof, read + 1)
  BY DEF ReadUpTo, Within
<1>6. nth \in DOMAIN proof.tree /\ IsPathTo(proof.tree[nth], proof, read + 1)
  BY <1>3, <1>5 DEF IsProof
<1>7. Follow(proof, proof.tree[nth].message, Leading(proof, read))
  BY <1>1, <1>6 DEF IsPathTo
<1>8. Leading(proof, read) \in SUBSET Nat /\ IsFiniteSet(Leading(proof, read))
  BY LeadingFinite
<1>9. message = proof.tree[nth].message
  BY <1>7, <1>8, FollowOne
<1>10. A = proof.tree[nth]
  BY <1>6, <1>9 DEF IsPathTo
<1>11. o \in Seq(ToSet(o) \cup {A})
  BY SeqMonotonic DEF ReadUpTo, IsSequence
<1> HIDE DEF A, nth
<1>12. /\ Append(o, A) \in Seq(ToSet(o) \cup {A})
       /\ Len(Append(o, A)) = Len(o) + 1
       /\ \A j \in 1..(Len(o) + 1) : Append(o, A)[j] = IF j = Len(o) + 1 THEN A ELSE o[j]
  BY <1>3, <1>11
<1>13. IsSequence(Append(o, A))
  BY <1>12, IsASequence
<1>14. \A j \in 1..Len(Append(o, A)) : Append(o, A)[j] = proof.tree[j]
  BY <1>3, <1>10, <1>12 DEF ReadUpTo
<1>15. Len(Append(o, A)) = Cardinality(OfKind(proof, "attest", read + 1)) /\ Len(Append(o, A)) <= Len(proof.tree)
  BY <1>3, <1>6, <1>12 DEF nth
<1>16. ReadUpTo(proof, read + 1, Tail(r), Append(o, A))
  BY <1>1, <1>2, <1>4, <1>5, <1>13, <1>14, <1>15 DEF ReadUpTo
<1> QED
  BY <1>16 DEF A

-----------------------------------------------------------------------------

\* The last call is at what leads to the place.
LEMMA LastCall ==
  ASSUME NEW proof, NEW read \in Nat, NEW s, CallsUpTo(proof, read, s), Len(s) = Open(proof, read)
  PROVE  /\ Len(s) \in Nat /\ Len(s) >= 1
         /\ Follow(proof, Last(s), Leading(proof, read))
<1>1. Len(s) \in Nat /\ Len(s) >= 1
  BY SequenceOfLength DEF CallsUpTo
<1>2. Follow(proof, s[Len(s)], InCall(proof, read, Len(s)))
  BY <1>1 DEF CallsUpTo
<1> QED
  BY <1>1, <1>2, InLastCall DEF Last

\* The calls when a walk begins.
LEMMA CallsBegin ==
  ASSUME NEW proof
  PROVE  CallsUpTo(proof, 0, <<<<proof.digest>>>>)
<1> DEFINE d == <<proof.digest>>
<1>1. Follow(proof, d, {}) /\ Open(proof, 0) = 1
  BY FollowNothing, NothingRead
<1>2. InCall(proof, 0, 1) = {}
  BY NothingRead DEF InCall
<1> HIDE DEF d
<1>3. <<d>> \in Seq({d}) /\ Len(<<d>>) = 1 /\ <<d>>[1] = d
  OBVIOUS
<1>4. IsSequence(<<d>>)
  BY <1>3, IsASequence
<1>5. CallsUpTo(proof, 0, <<d>>)
  BY <1>1, <1>2, <1>3, <1>4 DEF CallsUpTo
<1> QED
  BY <1>5 DEF d

\* A fork: the branch has the message the fork is at, and the others have theirs.
LEMMA CallsFork ==
  ASSUME NEW proof, NEW read \in Nat, read < Len(proof.tokens), NEW s, CallsUpTo(proof, read, s),
         proof.tokens[read + 1].token = "fork"
  PROVE  CallsUpTo(proof, read + 1, Append(s, Last(s)))
<1> DEFINE n == Len(s)
           t == Append(s, Last(s))
<1>1. n = Open(proof, read) /\ n \in Nat /\ n >= 1 /\ Open(proof, read + 1) = n + 1
  BY SequenceOfLength, OpenStep DEF CallsUpTo
<1>2. s \in Seq(ToSet(s)) /\ Last(s) \in ToSet(s)
  <2>1. s \in Seq(ToSet(s))
    BY DEF CallsUpTo, IsSequence
  <2>2. Last(s) \in ToSet(s)
    BY <1>1, <2>1, ElementOfSeq DEF Last
  <2> QED
    BY <2>1, <2>2
<1>3. /\ t \in Seq(ToSet(s)) /\ Len(t) = n + 1
      /\ \A c \in 1..n : t[c] = s[c]
      /\ t[n + 1] = Last(s)
  BY <1>1, <1>2
<1>4. IsSequence(t)
  BY <1>3, IsASequence
<1>5. Follow(proof, Last(s), Leading(proof, read))
  BY <1>1, LastCall
<1>6. InCall(proof, read + 1, n + 1) = Leading(proof, read)
  BY <1>1, InCallFork
<1> HIDE DEF n, t
<1>7. ASSUME NEW c \in 1..n
      PROVE  Follow(proof, t[c], InCall(proof, read + 1, c))
  <2>1. c \in Nat /\ c <= Open(proof, read + 1)
    BY <1>1
  <2>2. InCall(proof, read + 1, c) = InCall(proof, read, c)
    BY <2>1, InCallUnchanged
  <2>3. Follow(proof, s[c], InCall(proof, read, c))
    BY DEF CallsUpTo, n
  <2> QED
    BY <1>3, <2>2, <2>3
<1>8. \A c \in 1..(n + 1) : Follow(proof, t[c], InCall(proof, read + 1, c))
  <2> SUFFICES ASSUME NEW c \in 1..(n + 1)
               PROVE  Follow(proof, t[c], InCall(proof, read + 1, c))
    OBVIOUS
  <2>1. CASE c = n + 1
    BY <1>3, <1>5, <1>6, <2>1
  <2>2. CASE c # n + 1
    BY <1>1, <1>7, <2>2
  <2> QED
    BY <2>1, <2>2
<1>9. CallsUpTo(proof, read + 1, t)
  BY <1>1, <1>3, <1>4, <1>8 DEF CallsUpTo
<1> QED
  BY <1>9 DEF t

\* An operation: of the last call, and of no other.
LEMMA CallsApply ==
  ASSUME NEW proof, NEW read \in Nat, read < Len(proof.tokens), NEW s, CallsUpTo(proof, read, s),
         proof.tokens[read + 1].token = "apply"
  PROVE  CallsUpTo(proof, read + 1, [s EXCEPT ![Len(s)] = Append(@, proof.tokens[read + 1].op)])
<1> DEFINE n == Len(s)
           x == Append(s[n], proof.tokens[read + 1].op)
           t == [s EXCEPT ![n] = x]
<1>1. n = Open(proof, read) /\ n \in Nat /\ n >= 1 /\ Open(proof, read + 1) = n
  BY SequenceOfLength, InCallApply DEF CallsUpTo
<1>2. s \in Seq(ToSet(s) \cup {x})
  BY SeqMonotonic DEF CallsUpTo, IsSequence
<1> HIDE DEF x
<1>3. /\ t \in Seq(ToSet(s) \cup {x}) /\ Len(t) = n
      /\ \A c \in 1..n : t[c] = IF c = n THEN x ELSE s[c]
  BY <1>1, <1>2, ExceptSeq
<1>4. IsSequence(t)
  BY <1>3, IsASequence
<1>5. Follow(proof, x, Leading(proof, read) \cup {read + 1})
  <2>1. Follow(proof, s[n], Leading(proof, read))
    BY <1>1, LastCall DEF Last
  <2>2. Leading(proof, read) \in SUBSET (1..read)
    BY LeadingFinite
  <2> QED
    BY <2>1, <2>2, FollowApply DEF x
<1>6. InCall(proof, read + 1, n) = Leading(proof, read) \cup {read + 1}
  BY <1>1, InCallApply
<1> HIDE DEF n, t
<1>7. ASSUME NEW c \in 1..n, c # n
      PROVE  Follow(proof, t[c], InCall(proof, read + 1, c))
  <2>1. c \in Nat /\ c <= Open(proof, read + 1) /\ c < Open(proof, read)
    BY <1>1, <1>7
  <2>2. InCall(proof, read + 1, c) = InCall(proof, read, c)
    BY <2>1, InCallUnchanged
  <2>3. Follow(proof, s[c], InCall(proof, read, c))
    BY DEF CallsUpTo, n
  <2> QED
    BY <1>3, <1>7, <2>2, <2>3
<1>8. \A c \in 1..n : Follow(proof, t[c], InCall(proof, read + 1, c))
  BY <1>3, <1>5, <1>6, <1>7
<1>9. CallsUpTo(proof, read + 1, t)
  BY <1>1, <1>3, <1>4, <1>8 DEF CallsUpTo
<1> QED
  BY <1>9 DEF t, x, n

\* What is left of the calls when the last one returns.
LEMMA FrontOfCalls ==
  ASSUME NEW s, IsSequence(s), Len(s) >= 2
  PROVE  /\ IsSequence(Front(s)) /\ Len(Front(s)) = Len(s) - 1
         /\ \A c \in 1..(Len(s) - 1) : Front(s)[c] = s[c]
<1>1. Len(s) \in Nat /\ \A j \in 1..(Len(s) - 1) : s[j] \in ToSet(s)
  BY LenProperties, ElementOfSeq DEF IsSequence
<1>2. /\ Front(s) \in Seq(ToSet(s))
      /\ Len(Front(s)) = Len(s) - 1
      /\ \A c \in 1..(Len(s) - 1) : Front(s)[c] = s[1 + c - 1]
  BY <1>1, SubSeqProperties DEF Front
<1> QED
  BY <1>1, <1>2, IsASequence

\* An attestation: the last call returns, and the others are where they were.
LEMMA CallsAttest ==
  ASSUME NEW proof, NEW read \in Nat, read < Len(proof.tokens), NEW s, CallsUpTo(proof, read, s),
         proof.tokens[read + 1].token = "attest", Len(s) # 1
  PROVE  CallsUpTo(proof, read + 1, Front(s))
<1> DEFINE n == Len(s)
           t == Front(s)
<1>a. n \in Nat /\ n >= 1
  BY SequenceOfLength DEF CallsUpTo
<1>b. n \in Nat /\ n >= 2
  <2>1. n # 1
    OBVIOUS
  <2> HIDE DEF n
  <2> QED
    BY <1>a, <2>1
<1>1. n = Open(proof, read) /\ n \in Nat /\ n >= 2 /\ Open(proof, read + 1) = n - 1
  BY <1>b, OpenStep DEF CallsUpTo
<1>2. /\ IsSequence(t) /\ Len(t) = n - 1
      /\ \A c \in 1..(n - 1) : t[c] = s[c]
  BY <1>1, FrontOfCalls DEF CallsUpTo
<1> HIDE DEF n, t
<1>3. ASSUME NEW c \in 1..(n - 1)
      PROVE  Follow(proof, t[c], InCall(proof, read + 1, c))
  <2>1. c \in Nat /\ c <= Open(proof, read + 1)
    BY <1>1
  <2>2. InCall(proof, read + 1, c) = InCall(proof, read, c)
    BY <2>1, InCallUnchanged
  <2>3. Follow(proof, s[c], InCall(proof, read, c))
    BY <1>1 DEF CallsUpTo, n
  <2> QED
    BY <1>2, <2>2, <2>3
<1>4. CallsUpTo(proof, read + 1, t)
  BY <1>1, <1>2, <1>3 DEF CallsUpTo
<1> QED
  BY <1>4 DEF t

\* The end of the data: the last call returns.
LEMMA CallsEnd ==
  ASSUME NEW proof, NEW read \in Nat, ~(read < Len(proof.tokens)), NEW s, CallsUpTo(proof, read, s),
         Len(s) # 1
  PROVE  CallsUpTo(proof, read, Front(s))
<1>a. Len(s) \in Nat /\ Len(s) >= 1
  BY SequenceOfLength DEF CallsUpTo
<1>b. Len(s) \in Nat /\ Len(s) >= 2
  <2> DEFINE n == Len(s)
  <2>1. n \in Nat /\ n >= 1 /\ n # 1
    BY <1>a
  <2> HIDE DEF n
  <2>2. n >= 2
    BY <2>1
  <2> QED
    BY <1>a, <2>2 DEF n
<1>1. Len(s) \in Nat /\ Len(s) >= 2 /\ Open(proof, read) \in Int
  BY <1>b, OpenStep
<1>2. /\ IsSequence(Front(s)) /\ Len(Front(s)) = Len(s) - 1
      /\ \A c \in 1..(Len(s) - 1) : Front(s)[c] = s[c]
  BY <1>1, FrontOfCalls DEF CallsUpTo
<1>3. \A c \in 1..(Len(s) - 1) : Follow(proof, Front(s)[c], InCall(proof, read, c))
  BY <1>1, <1>2 DEF CallsUpTo
<1> QED
  BY <1>1, <1>2, <1>3 DEF CallsUpTo

-----------------------------------------------------------------------------

\* A proof has been read when its last branch has ended, or there is no more of it.
HasEnded(proof, read) == 
  Open(proof, read) = 0 \/ (Open(proof, read) >= 1 /\ read = Len(proof.tokens))

\* A whole proof is read whole.
LEMMA WholeIsRead ==
  ASSUME NEW proof, IsProof(proof), proof.whole, NEW read \in 0..Len(proof.tokens), Within(proof, read)
  PROVE  /\ HasEnded(proof, read) => Cardinality(OfKind(proof, "attest", read)) = Len(proof.tree)
         /\ ~HasEnded(proof, read) /\ Open(proof, read) >= 1 /\ read < Len(proof.tokens) =>
              proof.tokens[read + 1].token \notin Unreadable
<1>1. Len(proof.tokens) \in Nat /\ DOMAIN proof.tokens = 1..Len(proof.tokens)
  BY SequenceOfLength DEF IsProof
<1>2. PICK m \in 1..Len(proof.tokens) : EndsAt(proof, m)
  BY <1>1 DEF IsProof
<1>3. Open(proof, m) = 0 /\ \A l \in 0..(m - 1) : Open(proof, l) >= 1
  BY <1>2 DEF EndsAt, Within
<1>4. read <= m
  BY <1>1, <1>3 DEF Within
<1>5. HasEnded(proof, read) => read = m
  BY <1>1, <1>3, <1>4 DEF HasEnded
<1>6. Open(proof, read) >= 1 => read + 1 \in 1..m
  BY <1>1, <1>3, <1>4
<1> QED
  BY <1>2, <1>5, <1>6 DEF EndsAt

\* Whatever belongs to a proof has been read when it has ended.
LEMMA AllIsRead ==
  ASSUME NEW proof, IsProof(proof), NEW read \in 0..Len(proof.tokens), HasEnded(proof, read),
         NEW j \in DOMAIN proof.tokens, Within(proof, j)
  PROVE  j \in 1..read
<1>1. Len(proof.tokens) \in Nat /\ DOMAIN proof.tokens = 1..Len(proof.tokens)
  BY SequenceOfLength DEF IsProof
<1> QED
  BY <1>1 DEF HasEnded, Within

\* What has been recorded then.
LEMMA RecordedAtTheEnd ==
  ASSUME NEW proof, IsProof(proof), NEW read \in 0..Len(proof.tokens), NEW r, NEW o,
         ReadUpTo(proof, read, r, o), HasEnded(proof, read)
  PROVE  /\ IsPrefix(o, proof.tree)
         /\ proof.whole => o = proof.tree
<1>1. /\ o \in Seq(ToSet(o)) /\ proof.tree \in Seq(ToSet(proof.tree))
      /\ Len(o) \in Nat /\ Len(proof.tree) \in Nat /\ Len(o) <= Len(proof.tree)
      /\ \A j \in 1..Len(o) : o[j] = proof.tree[j]
  BY LenProperties DEF ReadUpTo, IsProof, IsSequence
<1>2. SubSeq(o, 1, Len(o)) = SubSeq(proof.tree, 1, Len(o))
  BY <1>1
<1>3. proof.whole => Len(o) = Len(proof.tree)
  BY WholeIsRead DEF ReadUpTo
<1>4. proof.whole => o = proof.tree
  <2>1. o = [j \in 1..Len(o) |-> o[j]] /\ proof.tree = [j \in 1..Len(proof.tree) |-> proof.tree[j]]
    BY <1>1, LenProperties
  <2> QED
    BY <1>1, <1>3, <2>1
<1> QED
  BY <1>1, <1>2, <1>4 DEF IsPrefix

-----------------------------------------------------------------------------

\* What is known of a setup.
LEMMA SetupKnown ==
  ASSUME given \in Setups
  PROVE  /\ Len(headers.bin) \in Nat /\ DOMAIN headers.bin = 1..Len(headers.bin)
         /\ Len(files) \in Nat /\ DOMAIN files = 1..Len(files)
         /\ headers.start \in Int
         /\ \A i \in 1..Len(files) : IsProof(files[i].proof)
<1>1. IsSequence(given.headers.bin) /\ IsSequence(given.files) /\ given.headers.start \in Int
  BY AnchorsAssumption
<1>2. /\ Len(given.headers.bin) \in Nat /\ DOMAIN given.headers.bin = 1..Len(given.headers.bin)
      /\ Len(given.files) \in Nat /\ DOMAIN given.files = 1..Len(given.files)
  BY <1>1, SequenceOfLength
<1>3. ASSUME NEW i \in DOMAIN given.files
      PROVE  IsProof(given.files[i].proof)
  <2>1. given.files[i].proof \in {given.files[j].proof : j \in DOMAIN given.files}
    OBVIOUS
  <2>2. given.files[i].proof \in UNION {{setup.files[j].proof : j \in DOMAIN setup.files} : setup \in Setups}
    BY <2>1
  <2> QED
    BY <2>2, AnchorsAssumption
<1> QED
  BY <1>1, <1>2, <1>3 DEF headers, files

Matches(f) == \E x \in Leads(f) : SaysWhich(f.proof.tree[x])

Honest(f) ==
  /\ f.base = f.proof.digest
  /\ \A j \in DOMAIN f.proof.tokens :
       Within(f.proof, j) => f.proof.tokens[j].token \notin Unreadable
  /\ \A x \in DOMAIN f.proof.tree :
       (/\ f.proof.whole /\ f.proof.tree[x].name = "bitcoin" /\ Covers(f.proof.tree[x].height))
       => InHeaders(f.proof.tree[x].message)

\* A setup does not change, nor does what is said of it.
LEMMA SetupStays ==
  ASSUME given' = given
  PROVE  /\ headers' = headers /\ files' = files
         /\ (Described' <=> Described) /\ Broken' = Broken /\ Weak' = Weak
         /\ \A f : /\ Leads(f)' = Leads(f)
                   /\ Matches(f)' <=> Matches(f)
                   /\ Honest(f)' <=> Honest(f)
<1>1. headers' = headers /\ files' = files
  BY DEF headers, files
<1>2. (Described' <=> Described) /\ Broken' = Broken /\ Weak' = Weak
  BY <1>1 DEF Described, Broken, Weak, Follows
<1>3. \A m : InHeaders(m)' <=> InHeaders(m)
  BY <1>1 DEF InHeaders
<1>4. \A f : Leads(f)' = Leads(f)
  BY <1>3 DEF Leads
<1>5. \A m : SaysWhich(m)' <=> SaysWhich(m)
  BY <1>1 DEF SaysWhich
<1>6. \A f : Matches(f)' <=> Matches(f)
  BY <1>4, <1>5 DEF Matches
<1>7. \A h : Covers(h)' <=> Covers(h)
  BY <1>1 DEF Covers
<1>8. \A f : Honest(f)' <=> Honest(f)
  BY <1>3, <1>7 DEF Honest
<1> QED
  BY <1>1, <1>2, <1>4, <1>6, <1>8

\* The files judged so far, and those among the first d that count.
Done  == IF pc \in {"walk", "judge"} THEN file - 1 ELSE file
Going == pc \in {"files", "walk", "judge"} \/ rc \in {"0", "1"}

Anchored(d) == {i \in 1..d : Leads(files[i]) # {}}
Matching(d) == {i \in 1..d : Matches(files[i])}

LEMMA OneFileMore ==
  ASSUME NEW d \in Nat
  PROVE  /\ Cardinality(Anchored(d)) \in Nat /\ Cardinality(Matching(d)) \in Nat
         /\ Leads(files[d + 1]) # {} => Cardinality(Anchored(d + 1)) = Cardinality(Anchored(d)) + 1
         /\ Leads(files[d + 1]) = {} => Cardinality(Anchored(d + 1)) = Cardinality(Anchored(d))
         /\ Matches(files[d + 1]) => Cardinality(Matching(d + 1)) = Cardinality(Matching(d)) + 1
         /\ ~Matches(files[d + 1]) => Cardinality(Matching(d + 1)) = Cardinality(Matching(d))
<1>1. IsFiniteSet(1..d) /\ Anchored(d) \in SUBSET (1..d) /\ Matching(d) \in SUBSET (1..d)
  BY FS_Interval DEF Anchored, Matching
<1>2. IsFiniteSet(Anchored(d)) /\ IsFiniteSet(Matching(d))
  BY <1>1, FS_Subset
<1>3. d + 1 \notin Anchored(d) /\ d + 1 \notin Matching(d)
  BY <1>1
<1>4. Leads(files[d + 1]) # {} => Anchored(d + 1) = Anchored(d) \cup {d + 1}
  BY DEF Anchored
<1>5. Leads(files[d + 1]) = {} => Anchored(d + 1) = Anchored(d)
  BY DEF Anchored
<1>6. Matches(files[d + 1]) => Matching(d + 1) = Matching(d) \cup {d + 1}
  BY DEF Matching
<1>7. ~Matches(files[d + 1]) => Matching(d + 1) = Matching(d)
  BY DEF Matching
<1>8. Cardinality(Anchored(d)) \in Nat /\ Cardinality(Matching(d)) \in Nat
  BY <1>2, FS_CardinalityType
<1>9. Cardinality(Anchored(d) \cup {d + 1}) = Cardinality(Anchored(d)) + 1
  BY <1>2, <1>3, FS_AddElement
<1>10. Cardinality(Matching(d) \cup {d + 1}) = Cardinality(Matching(d)) + 1
  BY <1>2, <1>3, FS_AddElement
<1> QED
  BY <1>4, <1>5, <1>6, <1>7, <1>8, <1>9, <1>10

-----------------------------------------------------------------------------

RunInv ==
  /\ given \in Setups
  /\ file \in 0..Len(files)
  /\ pc \in {"walk", "judge"} => file \in 1..Len(files)
  /\ pc \in {"open", "expect"} => file = 0 /\ verified = 0 /\ failures = {}
  /\ pc # "done" => rc = "none"
  /\ rc \in {"0", "1"} => file = Len(files)
  /\ rc = "0" => broken = {} /\ weak = {} /\ failures = {}

ChainInv == Going \/ pc = "expect" => broken = Broken /\ weak = Weak

WalkOf(proof) ==
  \E read \in 0..Len(proof.tokens) :
    /\ ReadUpTo(proof, read, rest, out)
    /\ pc = "walk" => CallsUpTo(proof, read, calls)
    /\ pc = "judge" => HasEnded(proof, read)

WalkInv == pc \in {"walk", "judge"} => WalkOf(This.proof)

AllWhole == \A i \in DOMAIN files : files[i].proof.whole

CountInv == Going =>
  /\ verified \in Nat /\ verified <= Cardinality(Anchored(Done))
  /\ Described /\ AllWhole => verified = Cardinality(Matching(Done))

HonestInv == Going /\ failures = {} => \A i \in 1..Done : Honest(files[i])

AnchorInv == RunInv /\ ChainInv /\ WalkInv /\ CountInv /\ HonestInv

\* What the file at hand is found to be.
LEMMA Judged ==
  ASSUME RunInv, WalkInv, pc = "judge"
  PROVE  /\ This.base # This.proof.digest => Leads(This) = {} /\ ~Matches(This)
         /\ This.base = This.proof.digest /\ Hits # {} => Leads(This) # {}
         /\ This.base = This.proof.digest /\ This.proof.whole /\ Described =>
              (Hits # {} <=> Matches(This))
         /\ This.base = This.proof.digest /\ Bitcoin \ (Outside \cup Hits) = {} => Honest(This)
<1> DEFINE proof == This.proof
<1>1. /\ IsProof(proof) /\ headers.start \in Int
      /\ Len(headers.bin) \in Nat /\ DOMAIN headers.bin = 1..Len(headers.bin)
  BY SetupKnown DEF RunInv, This
<1>2. PICK read \in 0..Len(proof.tokens) : ReadUpTo(proof, read, rest, out) /\ HasEnded(proof, read)
  BY DEF WalkInv, WalkOf
<1>3. /\ DOMAIN out = 1..Len(out) /\ DOMAIN proof.tree = 1..Len(proof.tree)
      /\ Len(out) \in Nat /\ Len(proof.tree) \in Nat /\ Len(out) <= Len(proof.tree)
      /\ \A x \in 1..Len(out) : out[x] = proof.tree[x]
  BY <1>1, <1>2, SequenceOfLength DEF ReadUpTo, IsProof
<1>4. proof.whole => out = proof.tree
  BY <1>1, <1>2, RecordedAtTheEnd
<1>5. ASSUME NEW x \in Hits
      PROVE  /\ x \in DOMAIN proof.tree /\ proof.tree[x].name = "bitcoin"
             /\ InHeaders(proof.tree[x].message)
             /\ Described => SaysWhich(proof.tree[x])
  <2>1. /\ x \in DOMAIN out /\ out[x].name = "bitcoin" /\ Covers(out[x].height)
        /\ At(out[x].height).root = out[x].message
    BY DEF Hits, Bitcoin, Outside
  <2>2. x \in DOMAIN proof.tree /\ out[x] = proof.tree[x]
    BY <1>3, <2>1
  <2>3. proof.tree[x].height \in Int
    BY <1>1, <2>2 DEF IsProof
  <2> DEFINE i == proof.tree[x].height - headers.start + 1
  <2>4. i \in DOMAIN headers.bin /\ headers.start + i - 1 = proof.tree[x].height
    BY <1>1, <2>1, <2>2, <2>3 DEF Covers
  <2>5. headers.bin[i].root = proof.tree[x].message
    BY <2>1, <2>2 DEF At
  <2>6. Described => headers.bin[i].height = proof.tree[x].height
    BY <2>4 DEF Described
  <2> HIDE DEF i
  <2> QED
    BY <2>1, <2>2, <2>4, <2>5, <2>6 DEF InHeaders, SaysWhich
<1>6. This.base = proof.digest /\ Hits # {} => Leads(This) # {} /\ (Described => Matches(This))
  BY <1>5 DEF Leads, Matches
<1>7. This.base # proof.digest => Leads(This) = {} /\ ~Matches(This)
  BY DEF Leads, Matches
<1>8. ASSUME This.base = proof.digest, proof.whole, Described, Matches(This)
      PROVE  Hits # {}
  <2>1. PICK x \in Leads(This) : SaysWhich(proof.tree[x])
    BY <1>8 DEF Matches
  <2>2. x \in DOMAIN out /\ out[x] = proof.tree[x] /\ out[x].name = "bitcoin"
    BY <1>4, <1>8, <2>1 DEF Leads
  <2>3. PICK i \in DOMAIN headers.bin : /\ headers.bin[i].root = out[x].message
                                        /\ headers.bin[i].height = out[x].height
    BY <2>1, <2>2 DEF SaysWhich
  <2>4. out[x].height = headers.start + i - 1
    BY <1>8, <2>3 DEF Described
  <2>5. out[x].height - headers.start = i - 1 /\ out[x].height - headers.start + 1 = i
    BY <1>1, <2>4
  <2>6. Covers(out[x].height) /\ At(out[x].height) = headers.bin[i]
    BY <1>1, <2>5 DEF Covers, At
  <2> QED
    BY <2>2, <2>3, <2>6 DEF Hits, Bitcoin, Outside
<1>9. ASSUME This.base = proof.digest, Bitcoin \ (Outside \cup Hits) = {}
      PROVE  Honest(This)
  <2>1. ASSUME NEW j \in DOMAIN proof.tokens, Within(proof, j)
        PROVE  proof.tokens[j].token \notin Unreadable
    <3>1. j \in 1..read
      BY <1>1, <1>2, <2>1, AllIsRead
    <3> QED
      BY <1>2, <3>1 DEF ReadUpTo
  <2>2. ASSUME NEW x \in DOMAIN proof.tree, proof.whole, proof.tree[x].name = "bitcoin",
               Covers(proof.tree[x].height)
        PROVE  InHeaders(proof.tree[x].message)
    <3>1. x \in Bitcoin /\ x \notin Outside
      BY <1>4, <2>2 DEF Bitcoin, Outside
    <3>2. x \in Hits
      BY <1>9, <3>1
    <3> QED
      BY <1>5, <3>2
  <2> QED
    BY <1>9, <2>1, <2>2 DEF Honest
<1> QED
  BY <1>6, <1>7, <1>8, <1>9

-----------------------------------------------------------------------------

LEMMA AnchorInitially ==
  ASSUME AnchorInit
  PROVE  AnchorInv
<1>1. Len(files) \in Nat
  BY SetupKnown DEF AnchorInit
<1> QED
  BY <1>1 DEF AnchorInit, AnchorInv, RunInv, ChainInv, WalkInv, CountInv, HonestInv, Going

\* A step of the walk through a proof is about nothing else.
WalkStep == Fork \/ Apply \/ Attest \/ EndOfData

LEMMA WalkStepOnly ==
  ASSUME WalkStep
  PROVE  /\ pc = "walk" /\ pc' \in {"walk", "judge"}
         /\ given' = given /\ rc' = rc /\ file' = file
         /\ broken' = broken /\ weak' = weak
         /\ verified' = verified /\ failures' = failures
  BY DEF WalkStep, Fork, Apply, Attest, EndOfData, Reads, Return, Walking, counts

LEMMA ForkWalk ==
  ASSUME AnchorInv, Fork
  PROVE  WalkOf(This.proof)'
<1> DEFINE proof == This.proof
<1>1. /\ pc = "walk" /\ pc' = "walk" /\ rest # << >> /\ Head(rest).token = "fork"
      /\ calls' = Append(calls, Last(calls)) /\ rest' = Tail(rest) /\ out' = out
      /\ given' = given /\ file' = file
  BY DEF Fork, Reads, Walking
<1>2. IsProof(proof) /\ Len(proof.tokens) \in Nat
  BY <1>1, SetupKnown, SequenceOfLength DEF AnchorInv, RunInv, This, IsProof
<1>3. PICK read \in 0..Len(proof.tokens) : ReadUpTo(proof, read, rest, out) /\ CallsUpTo(proof, read, calls)
  BY <1>1 DEF AnchorInv, WalkInv, WalkOf
<1>4. read < Len(proof.tokens) /\ proof.tokens[read + 1].token = "fork"
  BY <1>1, <1>2, <1>3, ReadNext
<1>5. Open(proof, read) >= 1
  BY <1>3, <1>4, SequenceOfLength DEF CallsUpTo
<1>6. ReadUpTo(proof, read + 1, Tail(rest), out)
  BY <1>2, <1>3, <1>4, <1>5, ReadOther DEF Unreadable
<1>7. CallsUpTo(proof, read + 1, Append(calls, Last(calls)))
  BY <1>3, <1>4, CallsFork
<1>8. read + 1 \in 0..Len(proof.tokens)
  BY <1>2, <1>4
<1>9. proof' = proof
  BY <1>1 DEF This, files
<1> HIDE DEF proof
<1>10. WalkOf(proof)'
  BY <1>1, <1>6, <1>7, <1>8, <1>9 DEF WalkOf
<1> QED
  BY <1>10 DEF proof

LEMMA ApplyWalk ==
  ASSUME AnchorInv, Apply
  PROVE  WalkOf(This.proof)'
<1> DEFINE proof == This.proof
           op    == Head(rest).op
<1>1. /\ pc = "walk" /\ pc' = "walk" /\ rest # << >> /\ Head(rest).token = "apply"
      /\ calls' = [calls EXCEPT ![Len(calls)] = Append(@, op)]
      /\ rest' = Tail(rest) /\ out' = out
      /\ given' = given /\ file' = file
  BY DEF Apply, Reads, Walking
<1>2. IsProof(proof) /\ Len(proof.tokens) \in Nat
  BY <1>1, SetupKnown, SequenceOfLength DEF AnchorInv, RunInv, This, IsProof
<1>3. PICK read \in 0..Len(proof.tokens) : ReadUpTo(proof, read, rest, out) /\ CallsUpTo(proof, read, calls)
  BY <1>1 DEF AnchorInv, WalkInv, WalkOf
<1>4. /\ read < Len(proof.tokens) /\ proof.tokens[read + 1].token = "apply"
      /\ proof.tokens[read + 1].op = op
  BY <1>1, <1>2, <1>3, ReadNext
<1>5. Open(proof, read) >= 1
  BY <1>3, <1>4, SequenceOfLength DEF CallsUpTo
<1>6. ReadUpTo(proof, read + 1, Tail(rest), out)
  BY <1>2, <1>3, <1>4, <1>5, ReadOther DEF Unreadable
<1>a. CallsUpTo(proof, read + 1, [calls EXCEPT ![Len(calls)] = Append(@, proof.tokens[read + 1].op)])
  <2>1. read \in Nat
    BY <1>2
  <2> HIDE DEF proof, op
  <2> QED
    BY <1>3, <1>4, <2>1, CallsApply, Zenon
<1> HIDE DEF op
<1>7. CallsUpTo(proof, read + 1, [calls EXCEPT ![Len(calls)] = Append(@, op)])
  BY <1>4, <1>a
<1>8. read + 1 \in 0..Len(proof.tokens)
  BY <1>2, <1>4
<1>9. proof' = proof
  BY <1>1 DEF This, files
<1> HIDE DEF proof, op
<1>10. WalkOf(proof)'
  BY <1>1, <1>6, <1>7, <1>8, <1>9 DEF WalkOf
<1> QED
  BY <1>10 DEF proof

LEMMA AttestWalk ==
  ASSUME AnchorInv, Attest
  PROVE  WalkOf(This.proof)'
<1> DEFINE proof == This.proof
           found == [name |-> Head(rest).name, height |-> Head(rest).height, message |-> Last(calls)]
<1>1. /\ pc = "walk" /\ pc' = (IF Len(calls) = 1 THEN "judge" ELSE "walk")
      /\ rest # << >> /\ Head(rest).token = "attest"
      /\ calls' = Front(calls)
      /\ rest' = Tail(rest) /\ out' = Append(out, found)
      /\ given' = given /\ file' = file
  BY DEF Attest, Attestation, Reads, Return, Walking
<1>2. IsProof(proof) /\ Len(proof.tokens) \in Nat
  BY <1>1, SetupKnown, SequenceOfLength DEF AnchorInv, RunInv, This, IsProof
<1>3. PICK read \in 0..Len(proof.tokens) : ReadUpTo(proof, read, rest, out) /\ CallsUpTo(proof, read, calls)
  BY <1>1 DEF AnchorInv, WalkInv, WalkOf
<1>4. /\ read < Len(proof.tokens) /\ proof.tokens[read + 1].token = "attest"
      /\ Head(rest) = proof.tokens[read + 1]
  BY <1>1, <1>2, <1>3, ReadNext
<1>5. Len(calls) = Open(proof, read) /\ Open(proof, read) >= 1 /\ read \in Nat
  BY <1>3, <1>4, SequenceOfLength DEF CallsUpTo
<1>6. Follow(proof, Last(calls), Leading(proof, read))
  BY <1>3, <1>5, LastCall
<1>7. ReadUpTo(proof, read + 1, Tail(rest), Append(out, found))
  BY <1>2, <1>3, <1>4, <1>5, <1>6, ReadAttest
<1>8. read + 1 \in 0..Len(proof.tokens)
  BY <1>2, <1>4
<1>9. proof' = proof
  BY <1>1 DEF This, files
<1>10. Open(proof, read + 1) = Open(proof, read) - 1 /\ Open(proof, read) \in Int
  BY <1>4, <1>5, OpenStep
<1>11. Len(calls) = 1 => HasEnded(proof, read + 1)
  BY <1>5, <1>10 DEF HasEnded
<1>12. Len(calls) # 1 => CallsUpTo(proof, read + 1, Front(calls))
  BY <1>3, <1>4, <1>5, CallsAttest
<1> HIDE DEF proof, found
<1>13. WalkOf(proof)'
  BY <1>1, <1>7, <1>8, <1>9, <1>11, <1>12 DEF WalkOf
<1> QED
  BY <1>13 DEF proof

LEMMA EndOfDataWalk ==
  ASSUME AnchorInv, EndOfData
  PROVE  WalkOf(This.proof)'
<1> DEFINE proof == This.proof
<1>1. /\ pc = "walk" /\ pc' = (IF Len(calls) = 1 THEN "judge" ELSE "walk")
      /\ rest = << >> /\ calls' = Front(calls) /\ rest' = rest /\ out' = out
      /\ given' = given /\ file' = file
  BY DEF EndOfData, Return, Walking
<1>2. IsProof(proof) /\ Len(proof.tokens) \in Nat
  BY <1>1, SetupKnown, SequenceOfLength DEF AnchorInv, RunInv, This, IsProof
<1>3. PICK read \in 0..Len(proof.tokens) : ReadUpTo(proof, read, rest, out) /\ CallsUpTo(proof, read, calls)
  BY <1>1 DEF AnchorInv, WalkInv, WalkOf
<1>4. ~(read < Len(proof.tokens)) /\ read = Len(proof.tokens) /\ read \in Nat
  BY <1>1, <1>2, <1>3, ReadNext
<1>5. Len(calls) = 1 => HasEnded(proof, read)
  BY <1>3, <1>4 DEF HasEnded, CallsUpTo
<1>6. Len(calls) # 1 => CallsUpTo(proof, read, Front(calls))
  BY <1>3, <1>4, CallsEnd
<1>7. proof' = proof
  BY <1>1 DEF This, files
<1> HIDE DEF proof
<1>8. WalkOf(proof)'
  BY <1>1, <1>3, <1>5, <1>6, <1>7 DEF WalkOf
<1> QED
  BY <1>8 DEF proof

LEMMA WalkStepKeeps ==
  ASSUME AnchorInv, WalkStep
  PROVE  AnchorInv'
<1>1. WalkOf(This.proof)'
  BY ForkWalk, ApplyWalk, AttestWalk, EndOfDataWalk DEF WalkStep
<1>2. /\ pc = "walk" /\ pc' \in {"walk", "judge"}
      /\ given' = given /\ rc' = rc /\ file' = file
      /\ broken' = broken /\ weak' = weak
      /\ verified' = verified /\ failures' = failures
  BY WalkStepOnly
<1>3. /\ headers' = headers /\ files' = files
      /\ (Described' <=> Described) /\ Broken' = Broken /\ Weak' = Weak
      /\ \A f : /\ Leads(f)' = Leads(f)
                /\ Matches(f)' <=> Matches(f)
                /\ Honest(f)' <=> Honest(f)
  BY <1>2, SetupStays
<1>4. WalkInv'
  BY <1>1 DEF WalkInv
<1>5. RunInv'
  BY <1>2, <1>3 DEF AnchorInv, RunInv
<1>6. Going /\ Going' /\ Done' = Done
  BY <1>2 DEF Going, Done
<1>7. ChainInv'
  BY <1>2, <1>3, <1>6 DEF AnchorInv, ChainInv
<1>8. /\ Anchored(Done)' = Anchored(Done) /\ Matching(Done)' = Matching(Done)
      /\ (AllWhole' <=> AllWhole)
  BY <1>3, <1>6 DEF Anchored, Matching, AllWhole
<1>9. CountInv'
  BY <1>2, <1>3, <1>6, <1>8 DEF AnchorInv, CountInv
<1>10. HonestInv'
  BY <1>2, <1>3, <1>6 DEF AnchorInv, HonestInv
<1> QED
  BY <1>4, <1>5, <1>7, <1>9, <1>10 DEF AnchorInv

-----------------------------------------------------------------------------

\* What is said of the setup is as it was.
LEMMA SameSetup ==
  ASSUME given' = given
  PROVE  /\ \A d : Anchored(d)' = Anchored(d) /\ Matching(d)' = Matching(d)
         /\ (AllWhole' <=> AllWhole) /\ (Described' <=> Described) /\ files' = files
         /\ Broken' = Broken /\ Weak' = Weak
         /\ \A f : Honest(f)' <=> Honest(f)
<1>1. /\ files' = files /\ (Described' <=> Described) /\ Broken' = Broken /\ Weak' = Weak
      /\ \A f : /\ Leads(f)' = Leads(f)
                /\ Matches(f)' <=> Matches(f)
                /\ Honest(f)' <=> Honest(f)
  BY SetupStays
<1> QED
  BY <1>1 DEF Anchored, Matching, AllWhole

\* A file is done with: it was counted as it should be, or it failed.
LEMMA FileDone ==
  ASSUME AnchorInv, pc \in {"walk", "judge"}, pc' = "files",
         given' = given, rc' = rc, file' = file, broken' = broken, weak' = weak,
         \/ verified' = verified
         \/ verified' = verified + 1 /\ Leads(This) # {},
         Described /\ This.proof.whole =>
           verified' = IF Matches(This) THEN verified + 1 ELSE verified,
         failures \subseteq failures', failures' = {} => Honest(This)
  PROVE  AnchorInv'
<1>1. file \in 1..Len(files) /\ Len(files) \in Nat /\ rc = "none" /\ DOMAIN files = 1..Len(files)
  BY SetupKnown DEF AnchorInv, RunInv
<1>2. /\ \A d : Anchored(d)' = Anchored(d) /\ Matching(d)' = Matching(d)
      /\ (AllWhole' <=> AllWhole) /\ (Described' <=> Described) /\ files' = files
      /\ Broken' = Broken /\ Weak' = Weak
      /\ \A f : Honest(f)' <=> Honest(f)
  BY SameSetup
<1>3. RunInv'
  BY <1>1, <1>2 DEF AnchorInv, RunInv
<1>4. WalkInv'
  BY DEF WalkInv
<1>5. Going /\ Going' /\ Done = file - 1 /\ Done' = file
  BY DEF Going, Done
<1>6. ChainInv'
  BY <1>2, <1>5 DEF AnchorInv, ChainInv
<1> DEFINE d == file - 1
<1>7. /\ Cardinality(Anchored(d)) \in Nat /\ Cardinality(Matching(d)) \in Nat
      /\ Leads(This) # {} => Cardinality(Anchored(file)) = Cardinality(Anchored(d)) + 1
      /\ Leads(This) = {} => Cardinality(Anchored(file)) = Cardinality(Anchored(d))
      /\ Matches(This) => Cardinality(Matching(file)) = Cardinality(Matching(d)) + 1
      /\ ~Matches(This) => Cardinality(Matching(file)) = Cardinality(Matching(d))
  <2>1. d \in Nat /\ d + 1 = file
    BY <1>1
  <2> HIDE DEF d
  <2> QED
    BY <2>1, OneFileMore DEF This
<1>8. /\ verified \in Nat /\ verified <= Cardinality(Anchored(d))
      /\ Described /\ AllWhole => verified = Cardinality(Matching(d))
  BY <1>5 DEF AnchorInv, CountInv
<1>9. AllWhole => This.proof.whole
  BY <1>1 DEF AllWhole, This
<1> HIDE DEF d
<1>10. /\ verified' \in Nat /\ verified' <= Cardinality(Anchored(file))
       /\ Described /\ AllWhole => verified' = Cardinality(Matching(file))
  BY <1>7, <1>8, <1>9
<1>11. Anchored(Done)' = Anchored(file) /\ Matching(Done)' = Matching(file)
  <2>1. Anchored(Done)' = Anchored(file)'
    BY <1>5 DEF Anchored
  <2>2. Matching(Done)' = Matching(file)'
    BY <1>5 DEF Matching
  <2>3. Anchored(file)' = Anchored(file)
    BY <1>2 DEF Anchored
  <2>4. Matching(file)' = Matching(file)
    BY <1>2 DEF Matching
  <2> QED
    BY <2>1, <2>2, <2>3, <2>4
<1>12. CountInv'
  BY <1>2, <1>5, <1>10, <1>11 DEF CountInv
<1>13. HonestInv'
  <2> SUFFICES ASSUME failures' = {}, NEW i \in 1..file
               PROVE  Honest(files[i])
    BY <1>2, <1>5 DEF HonestInv
  <2>1. CASE i = file
    BY <2>1 DEF This
  <2>2. CASE i # file
    <3>1. i \in 1..Done
      BY <1>1, <1>5, <2>2
    <3> QED
      BY <1>5, <3>1 DEF AnchorInv, HonestInv
  <2> QED
    BY <2>1, <2>2
<1> QED
  BY <1>3, <1>4, <1>6, <1>12, <1>13 DEF AnchorInv

LEMMA UnparseableKeeps ==
  ASSUME AnchorInv, Unparseable
  PROVE  AnchorInv'
<1> DEFINE proof == This.proof
<1>1. /\ pc = "walk" /\ pc' = "files" /\ rest # << >> /\ Head(rest).token \in Unreadable
      /\ failures' = failures \cup {Failure("unparseable")}
      /\ given' = given /\ rc' = rc /\ file' = file /\ broken' = broken /\ weak' = weak
      /\ verified' = verified
  BY DEF Unparseable, Reads, Unreadable
<1>2. IsProof(proof)
  BY <1>1, SetupKnown DEF AnchorInv, RunInv, This
<1>3. PICK read \in 0..Len(proof.tokens) : ReadUpTo(proof, read, rest, out) /\ CallsUpTo(proof, read, calls)
  BY <1>1 DEF AnchorInv, WalkInv, WalkOf
<1>4. read < Len(proof.tokens) /\ proof.tokens[read + 1].token \in Unreadable
  BY <1>1, <1>2, <1>3, ReadNext
<1>5. Open(proof, read) >= 1 /\ read # Len(proof.tokens) /\ Open(proof, read) \in Int
  <2>1. Len(calls) \in Nat /\ Len(calls) >= 1 /\ Open(proof, read) = Len(calls)
    BY <1>3, <1>4, SequenceOfLength DEF CallsUpTo
  <2> QED
    BY <1>2, <1>4, <2>1, SequenceOfLength DEF IsProof
<1>6. ~HasEnded(proof, read)
  BY <1>5 DEF HasEnded
<1>7. ~proof.whole
  BY <1>2, <1>3, <1>4, <1>5, <1>6, WholeIsRead DEF ReadUpTo
<1>8. failures' # {} /\ failures \subseteq failures'
  BY <1>1
<1> QED
  BY <1>1, <1>7, <1>8, FileDone

LEMMA JudgeStepKeeps ==
  ASSUME AnchorInv, OfAnotherFile \/ Unattested \/ HoldToHeaders
  PROVE  AnchorInv'
<1>1. /\ pc = "judge" /\ pc' = "files" 
      /\ given' = given /\ rc' = rc /\ file' = file /\ broken' = broken /\ weak' = weak
  BY DEF OfAnotherFile, Unattested, HoldToHeaders, Judging
<1>2. /\ This.base # This.proof.digest => Leads(This) = {} /\ ~Matches(This)
      /\ This.base = This.proof.digest /\ Hits # {} => Leads(This) # {}
      /\ This.base = This.proof.digest /\ This.proof.whole /\ Described =>
           (Hits # {} <=> Matches(This))
      /\ This.base = This.proof.digest /\ Bitcoin \ (Outside \cup Hits) = {} => Honest(This)
  BY <1>1, Judged DEF AnchorInv
<1>3. CASE OfAnotherFile
  <2>1. /\ This.base # This.proof.digest /\ verified' = verified
        /\ failures' = failures \cup {Failure("different file")}
    BY <1>3 DEF OfAnotherFile
  <2>2. failures' # {} /\ failures \subseteq failures'
    BY <2>1
  <2> QED
    BY <1>1, <1>2, <2>1, <2>2, FileDone
<1>4. CASE Unattested
  <2>1. This.base = This.proof.digest /\ Bitcoin = {} /\ verified' = verified /\ failures' = failures
    BY <1>4 DEF Unattested
  <2>2. Hits = {} /\ Bitcoin \ (Outside \cup Hits) = {}
    BY <2>1 DEF Hits
  <2> QED
    BY <1>1, <1>2, <2>1, <2>2, FileDone
<1>5. CASE HoldToHeaders
  <2>1. /\ This.base = This.proof.digest
        /\ verified' = (IF Hits # {} THEN verified + 1 ELSE verified)
        /\ failures' = failures \cup {Failure("mismatch") : i \in Bitcoin \ (Outside \cup Hits)}
    BY <1>5 DEF HoldToHeaders
  <2>2. failures \subseteq failures' /\ (failures' = {} => Bitcoin \ (Outside \cup Hits) = {})
    BY <2>1
  <2> QED
    BY <1>1, <1>2, <2>1, <2>2, FileDone
<1> QED
  BY <1>3, <1>4, <1>5

\* The steps before the first file, to the next file, and to the end.
LEMMA OtherStepKeeps ==
  ASSUME AnchorInv, RefuseHeaders \/ CheckChain \/ ExpectHash \/ NextFile \/ OpenRaises \/ Finish
  PROVE  AnchorInv'
<1>1. given' = given /\ verified' = verified /\ failures' = failures
  BY DEF RefuseHeaders, CheckChain, ExpectHash, NextFile, OpenRaises, Finish, counts
<1>2. /\ \A d : Anchored(d)' = Anchored(d) /\ Matching(d)' = Matching(d)
      /\ (AllWhole' <=> AllWhole) /\ (Described' <=> Described) /\ files' = files
      /\ Broken' = Broken /\ Weak' = Weak
      /\ \A f : Honest(f)' <=> Honest(f)
  BY <1>1, SameSetup
<1>3. Len(files) \in Nat /\ DOMAIN files = 1..Len(files) /\ \A i \in 1..Len(files) : IsProof(files[i].proof)
  BY SetupKnown DEF AnchorInv, RunInv
<1>4. CASE RefuseHeaders \/ OpenRaises
  <2>1. pc' = "done" /\ rc' \in {"raised", "exit"} /\ file' = file
    BY <1>4 DEF RefuseHeaders, OpenRaises
  <2>2. RunInv'
    BY <1>1, <1>2, <2>1 DEF AnchorInv, RunInv
  <2> QED
    BY <2>1, <2>2 DEF AnchorInv, ChainInv, WalkInv, CountInv, HonestInv, Going
<1>5. CASE CheckChain
  <2>1. /\ pc = "open" /\ pc' = "expect" /\ rc' = rc /\ file' = file
        /\ broken' = Broken /\ weak' = Weak
    BY <1>5 DEF CheckChain
  <2>2. rc = "none"
    BY <2>1 DEF AnchorInv, RunInv
  <2>3. RunInv'
    BY <1>1, <1>2, <2>1, <2>2 DEF AnchorInv, RunInv
  <2> QED
    BY <1>2, <2>1, <2>2, <2>3 DEF AnchorInv, ChainInv, WalkInv, CountInv, HonestInv, Going
<1>6. CASE ExpectHash
  <2>1. /\ pc = "expect" /\ file' = file /\ broken' = broken /\ weak' = weak
        /\ (pc' = "files" /\ rc' = rc) \/ (pc' = "done" /\ rc' = "raised")
    BY <1>6 DEF ExpectHash
  <2>2. file = 0 /\ rc = "none" /\ verified = 0 /\ failures = {}
    BY <2>1 DEF AnchorInv, RunInv
  <2>3. RunInv'
    BY <1>1, <1>2, <2>1, <2>2 DEF AnchorInv, RunInv
  <2>4. ChainInv'
    BY <1>2, <2>1 DEF AnchorInv, ChainInv
  <2>5. Done' = 0
    BY <2>1, <2>2 DEF Done
  <2>6. Cardinality(Anchored(0)) = 0 /\ Cardinality(Matching(0)) = 0
    BY FS_EmptySet DEF Anchored, Matching
  <2>7. Anchored(Done)' = Anchored(0) /\ Matching(Done)' = Matching(0)
    BY <2>5 DEF Anchored, Matching
  <2>8. CountInv'
    BY <1>1, <2>2, <2>6, <2>7 DEF CountInv
  <2>9. HonestInv'
    BY <2>5 DEF HonestInv
  <2>10. WalkInv'
    BY <2>1 DEF WalkInv
  <2> QED
    BY <2>3, <2>4, <2>8, <2>9, <2>10 DEF AnchorInv
<1>7. CASE NextFile
  <2> DEFINE proof == files[file + 1].proof
  <2>1. /\ pc = "files" /\ pc' = "walk" /\ rc' = rc /\ file' = file + 1 /\ file < Len(files)
        /\ broken' = broken /\ weak' = weak
        /\ rest' = proof.tokens /\ calls' = <<<<proof.digest>>>> /\ out' = << >>
    BY <1>7 DEF NextFile
  <2>2. file \in Nat /\ file + 1 \in 1..Len(files)
    BY <1>3, <2>1 DEF AnchorInv, RunInv
  <2>3. RunInv'
    BY <1>1, <1>2, <2>1, <2>2 DEF AnchorInv, RunInv
  <2>4. Going /\ Going' /\ Done = file /\ Done' = file
    BY <2>1, <2>2 DEF Going, Done
  <2>5. ChainInv'
    BY <1>2, <2>1, <2>4 DEF AnchorInv, ChainInv
  <2>6. Anchored(Done)' = Anchored(Done) /\ Matching(Done)' = Matching(Done)
    <3>1. Anchored(Done)' = Anchored(file) /\ Matching(Done)' = Matching(file)
      BY <1>2, <2>4 DEF Anchored, Matching
    <3> QED
      BY <2>4, <3>1
  <2>7. CountInv'
    BY <1>1, <1>2, <2>4, <2>6 DEF AnchorInv, CountInv
  <2>8. HonestInv'
    BY <1>1, <1>2, <2>4 DEF AnchorInv, HonestInv
  <2>9. IsProof(proof)
    BY <1>3, <2>2
  <2>10. CallsUpTo(proof, 0, <<<<proof.digest>>>>)
    BY CallsBegin
  <2>11. ReadUpTo(proof, 0, proof.tokens, << >>) /\ 0 \in 0..Len(proof.tokens)
    <3>1. /\ proof.tokens \in Seq(ToSet(proof.tokens)) /\ Len(proof.tokens) \in Nat
          /\ Len(proof.tree) \in Nat
      BY <2>9, LenProperties DEF IsProof, IsSequence
    <3>2. SubSeq(proof.tokens, 0 + 1, Len(proof.tokens)) = proof.tokens
      BY <3>1, SubSeqFull
    <3>3. IsSequence(<< >>) /\ Len(<< >>) = 0
      <4>1. << >> \in Seq({}) /\ Len(<< >>) = 0
        BY EmptySeq
      <4> QED
        BY <4>1, IsASequence
    <3> HIDE DEF proof
    <3>4. ReadUpTo(proof, 0, proof.tokens, << >>)
      BY <3>1, <3>2, <3>3, NothingRead DEF ReadUpTo
    <3> QED
      BY <3>1, <3>4
  <2>12. This' = files[file + 1]
    BY <1>2, <2>1 DEF This
  <2>13. This'.proof = proof
    BY <2>12
  <2> HIDE DEF proof
  <2>14. WalkOf(This.proof)'
    BY <2>1, <2>10, <2>11, <2>13 DEF WalkOf
  <2> QED
    BY <2>3, <2>5, <2>7, <2>8, <2>14 DEF AnchorInv, WalkInv
<1>8. CASE Finish
  <2>1. /\ pc = "files" /\ pc' = "done" /\ file = Len(files) /\ file' = file
        /\ rc' = (IF broken # {} \/ weak # {} \/ failures # {} THEN "1" ELSE "0")
        /\ broken' = broken /\ weak' = weak
    BY <1>8 DEF Finish
  <2>2. RunInv'
    BY <1>1, <1>2, <2>1 DEF AnchorInv, RunInv
  <2>3. Going /\ Going' /\ Done = file /\ Done' = file
    BY <2>1 DEF Going, Done
  <2>4. ChainInv'
    BY <1>2, <2>1, <2>3 DEF AnchorInv, ChainInv
  <2>5. Anchored(Done)' = Anchored(Done) /\ Matching(Done)' = Matching(Done)
    <3>1. Anchored(Done)' = Anchored(file) /\ Matching(Done)' = Matching(file)
      BY <1>2, <2>3 DEF Anchored, Matching
    <3> QED
      BY <2>3, <3>1
  <2>6. CountInv'
    BY <1>1, <1>2, <2>3, <2>5 DEF AnchorInv, CountInv
  <2>7. HonestInv'
    BY <1>1, <1>2, <2>3 DEF AnchorInv, HonestInv
  <2>8. WalkInv'
    BY <2>1 DEF WalkInv
  <2> QED
    BY <2>2, <2>4, <2>6, <2>7, <2>8 DEF AnchorInv
<1> QED
  BY <1>4, <1>5, <1>6, <1>7, <1>8

LEMMA AnchorStep ==
  ASSUME AnchorInv, [AnchorNext]_anchorVars
  PROVE  AnchorInv'
<1>1. CASE WalkStep
  BY <1>1, WalkStepKeeps
<1>2. CASE Unparseable
  BY <1>2, UnparseableKeeps
<1>3. CASE OfAnotherFile \/ Unattested \/ HoldToHeaders
  BY <1>3, JudgeStepKeeps
<1>4. CASE RefuseHeaders \/ CheckChain \/ ExpectHash \/ NextFile \/ OpenRaises \/ Finish
  BY <1>4, OtherStepKeeps
<1>5. CASE UNCHANGED anchorVars
  <2>1. /\ given' = given /\ pc' = pc /\ rc' = rc /\ file' = file
        /\ broken' = broken /\ weak' = weak /\ rest' = rest /\ calls' = calls /\ out' = out
        /\ verified' = verified /\ failures' = failures
    BY <1>5 DEF anchorVars, walk, counts
  <2>2. /\ \A d : Anchored(d)' = Anchored(d) /\ Matching(d)' = Matching(d)
        /\ (AllWhole' <=> AllWhole) /\ (Described' <=> Described) /\ files' = files
        /\ Broken' = Broken /\ Weak' = Weak
        /\ \A f : Honest(f)' <=> Honest(f)
    BY <2>1, SameSetup
  <2>3. (Going' <=> Going) /\ Done' = Done /\ This' = This
    BY <2>1, <2>2 DEF Going, Done, This
  <2>4. RunInv'
    BY <2>1, <2>2 DEF AnchorInv, RunInv
  <2>5. ChainInv'
    BY <2>1, <2>2, <2>3 DEF AnchorInv, ChainInv
  <2>6. WalkInv'
    BY <2>1, <2>3 DEF AnchorInv, WalkInv, WalkOf
  <2>7. Anchored(Done)' = Anchored(Done) /\ Matching(Done)' = Matching(Done)
    BY <2>2, <2>3 DEF Anchored, Matching
  <2>8. CountInv'
    BY <2>1, <2>2, <2>3, <2>7 DEF AnchorInv, CountInv
  <2>9. HonestInv'
    BY <2>1, <2>2, <2>3 DEF AnchorInv, HonestInv
  <2> QED
    BY <2>4, <2>5, <2>6, <2>8, <2>9 DEF AnchorInv
<1> QED
  BY <1>1, <1>2, <1>3, <1>4, <1>5 DEF AnchorNext, WalkStep

THEOREM AnchorInvariant == AnchorSpec => []AnchorInv
<1>1. AnchorInit => AnchorInv
  BY AnchorInitially
<1>2. AnchorInv /\ [AnchorNext]_anchorVars => AnchorInv'
  BY AnchorStep
<1> QED
  BY <1>1, <1>2, PTL DEF AnchorSpec

\* The replay of a whole proof reaches every attestation, with the message its own path
\* leads to, and that of a proof cut short the first of them (ots.py:112-137).
THEOREM ReplayFollowsThePathsHolds == AnchorSpec => []ReplayFollowsThePaths
<1>1. ASSUME AnchorInv
      PROVE  ReplayFollowsThePaths
  <2> SUFFICES ASSUME pc = "judge"
               PROVE  IsPrefix(out, This.proof.tree) /\ (This.proof.whole => out = This.proof.tree)
    BY DEF ReplayFollowsThePaths
  <2>1. IsProof(This.proof)
    BY <1>1, SetupKnown DEF AnchorInv, RunInv, This
  <2>2. PICK read \in 0..Len(This.proof.tokens) :
          ReadUpTo(This.proof, read, rest, out) /\ HasEnded(This.proof, read)
    BY <1>1 DEF AnchorInv, WalkInv, WalkOf
  <2> QED
    BY <2>1, <2>2, RecordedAtTheEnd
<1> QED
  BY <1>1, AnchorInvariant, PTL

\* The count that is printed is never of more files than lead to a merkle root in these
\* headers, and of all that do and say where (verify_anchors.py:148).
THEOREM CountIsOfAnchoredFilesHolds == AnchorSpec => []CountIsOfAnchoredFiles
<1>1. ASSUME AnchorInv
      PROVE  CountIsOfAnchoredFiles
  <2> SUFFICES ASSUME rc \in {"0", "1"}
               PROVE  CountIsOfAnchoredFiles
    BY DEF CountIsOfAnchoredFiles
  <2>1. file = Len(files) /\ pc = "done" /\ Going
    BY <1>1 DEF AnchorInv, RunInv, Going
  <2>2. DOMAIN files = 1..Len(files)
    BY <1>1, SetupKnown DEF AnchorInv, RunInv
  <2>3. Done = Len(files)
    BY <2>1 DEF Done
  <2>4. Anchored(Done) = {i \in DOMAIN files : Leads(files[i]) # {}}
    BY <2>2, <2>3 DEF Anchored
  <2>5. Matching(Done) = {i \in DOMAIN files :
                            \E x \in Leads(files[i]) : SaysWhich(files[i].proof.tree[x])}
    BY <2>2, <2>3 DEF Matching, Matches
  <2> QED
    BY <1>1, <2>1, <2>4, <2>5 DEF AnchorInv, CountInv, CountIsOfAnchoredFiles, AllWhole
<1> QED
  BY <1>1, AnchorInvariant, PTL

\* An exit status of 0 stands for a chain that cost work and for proofs that can be read,
\* are for the files beside them and lead to no root these headers do not have
\* (verify_anchors.py:168).
THEOREM ExitIsHonestHolds == AnchorSpec => []ExitIsHonest
<1>1. ASSUME AnchorInv
      PROVE  ExitIsHonest
  <2> SUFFICES ASSUME rc = "0"
               PROVE  ExitIsHonest
    BY DEF ExitIsHonest
  <2>1. /\ file = Len(files) /\ pc = "done" /\ Going
        /\ broken = {} /\ weak = {} /\ failures = {}
    BY <1>1 DEF AnchorInv, RunInv, Going
  <2>2. /\ DOMAIN files = 1..Len(files) /\ DOMAIN headers.bin = 1..Len(headers.bin)
        /\ Len(headers.bin) \in Nat
    BY <1>1, SetupKnown DEF AnchorInv, RunInv
  <2>3. Broken = {} /\ Weak = {}
    BY <1>1, <2>1 DEF AnchorInv, ChainInv
  <2>4. \A i \in 2..Len(headers.bin) : Follows(headers.bin[i], headers.bin[i - 1])
    BY <2>3 DEF Broken
  <2>5. \A i \in DOMAIN headers.bin : headers.bin[i].work
    BY <2>3 DEF Weak
  <2>6. Done = Len(files)
    BY <2>1 DEF Done
  <2>7. \A i \in DOMAIN files : Honest(files[i])
    BY <1>1, <2>1, <2>2, <2>6 DEF AnchorInv, HonestInv
  <2> QED
    BY <2>4, <2>5, <2>7 DEF ExitIsHonest, Honest
<1> QED
  BY <1>1, AnchorInvariant, PTL
=============================================================================
