------------------------------- MODULE MCAnchors -------------------------------
(***************************************************************************)
(* TLC instance of Anchors.  Single proofs of every shape up to a fork     *)
(* within a branch of a fork, cut or damaged at every place; and pairs of  *)
(* proofs over every pair of header files FetchHeaders may leave.          *)
(***************************************************************************)
EXTENDS Anchors

CONSTANTS d1, d2, a, b

\* A tree is the sequence of its branches; a branch is an attestation, or an
\* operation and a tree.
Btc(h)  == [token |-> "attest", name |-> "bitcoin", height |-> h]
Pend    == [token |-> "attest", name |-> "pending", height |-> 0]
Marks   == {Btc(1), Pend}
Op(o)   == [token |-> "apply", op |-> o]
Branching(B) == {<<x>> : x \in B} \cup {<<x, y>> : x \in B, y \in B}

Leaf(m) == <<m>>
Flat    == Branching({Leaf(m) : m \in Marks})
Trees   == Branching({Leaf(m) : m \in Marks} \cup {<<Op(o), t>> : o \in {a, b}, t \in Flat})

IsLeaf(branch) == Len(branch) = 1

\* The serialization and the paths of a tree two levels deep.
Forked(parts) == FlattenSeq([i \in DOMAIN parts |->
                   IF i < Len(parts) THEN <<[token |-> "fork"]>> \o parts[i] ELSE parts[i]])
FlatTokens(t) == Forked(t)
Tokens(t) == Forked([i \in DOMAIN t |->
               IF IsLeaf(t[i]) THEN t[i] ELSE <<t[i][1]>> \o FlatTokens(t[i][2])])

Path(mark, message) == [name |-> mark.name, height |-> mark.height, message |-> message]
Paths(t, digest) ==
  FlattenSeq([i \in DOMAIN t |->
    IF IsLeaf(t[i]) THEN <<Path(t[i][1], <<digest>>)>>
    ELSE [j \in DOMAIN t[i][2] |-> Path(t[i][2][j][1], <<digest, t[i][1].op>>)]])

Proof(digest, t) ==
  [digest |-> digest, tokens |-> Tokens(t), tree |-> Paths(t, digest), whole |-> TRUE]

Cut(p, k, end) == [p EXCEPT !.tokens = SubSeq(p.tokens, 1, k) \o end, !.whole = FALSE]

\* Whole, ended after k tokens, ended within the next, or with the next unknown;
\* and what follows the end of a whole proof is not read.
Versions(p) ==
  {p, [p EXCEPT !.tokens = Append(p.tokens, [token |-> "unknown"])],
      [p EXCEPT !.tokens = Append(p.tokens, [token |-> "short"])]}
  \cup {Cut(p, k, end) : k \in 0..(Len(p.tokens) - 1),
                         end \in {<< >>, <<[token |-> "short"]>>, <<[token |-> "unknown"]>>}}

-----------------------------------------------------------------------------

Block(height, branch, parent, root, work) ==
  [height |-> height, branch |-> branch, parent |-> parent, root |-> root, work |-> work]

Old(h) == Block(h, "old", [height |-> h - 1, branch |-> "old"],
                IF h = 1 THEN <<d1, a>> ELSE IF h = 2 THEN <<d1, b>> ELSE <<d2, a>>, TRUE)
New(h) == Block(h, "new", [height |-> h - 1, branch |-> "new"], <<d2, b, b>>, TRUE)

Described123 == [bin |-> <<Old(1), Old(2), Old(3)>>, torn |-> FALSE, start |-> 1, count |-> 3]

\* One run's headers; with a reorganisation in between; with the description of
\* another run, or of none; cut short by a kill; with a header that cost nothing.
HeaderFiles ==
  {Described123,
   [Described123 EXCEPT !.bin = <<New(1), Old(2), Old(3)>>],
   [Described123 EXCEPT !.bin = <<New(1), New(2), Old(3)>>],
   [Described123 EXCEPT !.start = 2],
   [Described123 EXCEPT !.count = 2],
   [Described123 EXCEPT !.count = Undescribed],
   [Described123 EXCEPT !.bin = << >>],
   [Described123 EXCEPT !.bin = <<Old(1)>>, !.torn = TRUE],
   [Described123 EXCEPT !.bin = <<Old(1), [Old(2) EXCEPT !.work = FALSE], Old(3)>>]}

Expects == {Unasked, [height |-> 2, branch |-> "old"], [height |-> 2, branch |-> "new"],
            [height |-> 9, branch |-> "old"]}

File(base, proof) == [base |-> base, proof |-> proof]

Singles == {[headers |-> Described123, expect |-> Unasked, files |-> <<File(d1, p)>>] :
              p \in UNION {Versions(whole) : whole \in {Proof(d1, t) : t \in Trees}}}

Under(o, m) == <<Op(o), <<Leaf(m)>>>>
Good    == Proof(d1, <<Under(a, Btc(1))>>)
Twice   == Proof(d1, <<Under(a, Btc(1)), Under(b, Btc(2))>>)
Mixed   == Proof(d1, <<Under(a, Btc(1)), Leaf(Btc(2)), Leaf(Btc(9))>>)
Wrong   == Proof(d1, <<Under(b, Btc(1))>>)
Waiting == Proof(d2, <<Leaf(Pend)>>)
Third   == Proof(d2, <<Under(a, Btc(3))>>)
Small   == {File(d1, Good), File(d1, Twice), File(d1, Mixed), File(d1, Wrong),
            File(d2, Waiting), File(d2, Third), File(d2, Good), File(NoFile, Good),
            File(NoFile, Cut(Good, 1, <<[token |-> "short"]>>)),
            File(d1, Cut(Twice, 3, << >>)), File(d1, Cut(Good, 0, << >>))}

Pairs == {[headers |-> h, expect |-> e, files |-> <<f, g>>] :
            h \in HeaderFiles, e \in Expects, f \in Small, g \in Small}

MCSetups == Singles \cup Pairs
=============================================================================
