----------------------------- MODULE MCReduction -----------------------------
(***************************************************************************)
(* TLC instance of Reduction: every list of at most MaxLeaves leaves drawn *)
(* from one leaf of each shape the corpus (corpus/cases.json) names, with  *)
(* a subject claimed by two issuers, a key written in two ways, a rotation *)
(* nobody has signed and a signed one that makes no row.                   *)
(***************************************************************************)
EXTENDS Reduction

CONSTANTS prediction, outcome, rotation, manifest, p, q, a, b, none, MaxLeaves

NoSubject  == [shape |-> "other", name |-> none]
Named(s)   == [shape |-> "object", name |-> s]
Bare(s)    == [shape |-> "string", name |-> s]
NoClaim    == [old_did |-> none, new_did |-> none, signed |-> FALSE]
PtoQ(sig)  == [old_did |-> p, new_did |-> q, signed |-> sig]
NoCore     == [dict |-> FALSE, claimType |-> none, issuer |-> none,
               subject |-> NoSubject, claim |-> NoClaim]
Blank      == [claim_type |-> none, claimType |-> none, kind |-> none,
               issuer |-> none, subject |-> NoSubject, core |-> NoCore,
               claim |-> NoClaim]
Leaf1(o)   == [form |-> "object", obj |-> o]
NotObject(f) == [form |-> f, obj |-> Blank]

Corpus ==
  { NotObject("duplicate-key"),
    NotObject("note"),
    Leaf1([Blank EXCEPT !.issuer = p, !.subject = Bare(a)]),
    Leaf1([Blank EXCEPT !.claim_type = manifest, !.issuer = p, !.subject = Bare(a)]),
    Leaf1([Blank EXCEPT !.claim_type = prediction, !.issuer = p, !.subject = Bare(a)]),
    Leaf1([Blank EXCEPT !.kind = outcome,
             !.core = [dict |-> TRUE, claimType |-> none, issuer |-> p,
                       subject |-> Named(a), claim |-> NoClaim]]),
    Leaf1([Blank EXCEPT !.claimType = outcome, !.issuer = q, !.subject = Named(a)]),
    Leaf1([Blank EXCEPT !.claim_type = prediction, !.issuer = q, !.subject = Bare(b)]),
    Leaf1([Blank EXCEPT !.claimType = outcome, !.issuer = p, !.subject = Named(none)]),
    Leaf1([Blank EXCEPT !.claim_type = rotation, !.issuer = p, !.subject = Bare(b),
             !.claim = PtoQ(FALSE)]),
    Leaf1([Blank EXCEPT
             !.core = [dict |-> TRUE, claimType |-> rotation, issuer |-> none,
                       subject |-> Named(b), claim |-> PtoQ(TRUE)]]) }

MCExports == UNION {[1..n -> Corpus] : n \in 0..MaxLeaves}
MCTypes   == {prediction, outcome, rotation, manifest}
MCParties == {p, q}
MCNames   == {a, b}
=============================================================================
