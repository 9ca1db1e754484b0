--------------------------- MODULE MCVerifiedExport ---------------------------
(***************************************************************************)
(* TLC instance of VerifiedExport: logs of at most three leaves of four    *)
(* kinds, a log and a witness that have changed their keys, a witness that *)
(* has not, and checkpoints signed by both and by one twice.               *)
(***************************************************************************)
EXTENDS VerifiedExport

CONSTANTS prediction, rotation, manifest, p, q, a, none, w1, w2, old, new, operator

NoSubject == [shape |-> "other", name |-> none]
NoClaim   == [old_did |-> none, new_did |-> none, signed |-> FALSE]
NoCore    == [dict |-> FALSE, claimType |-> none, issuer |-> none,
              subject |-> NoSubject, claim |-> NoClaim]
Blank     == [claim_type |-> none, claimType |-> none, kind |-> none,
              issuer |-> none, subject |-> NoSubject, core |-> NoCore, claim |-> NoClaim]
By(i)     == [form |-> "object",
              obj |-> [Blank EXCEPT !.claim_type = prediction, !.issuer = i,
                         !.subject = [shape |-> "string", name |-> a]]]
Bare      == [form |-> "non-object", obj |-> Blank]
Manifest  == [form |-> "object", obj |-> [Blank EXCEPT !.claim_type = manifest]]

MCContents == {By(p), By(q), Bare, Manifest}
MCNonObjects == {Bare}
MCQueries  == {{By(p)}}

Cosigned(w, k, ok) == [kind |-> "cosignature", name |-> w, kid |-> k, valid |-> ok]
LogLine            == [kind |-> "log", name |-> operator, kid |-> new, valid |-> TRUE]
Key1(k)            == [name |-> w1, kid |-> k]
Key2               == [name |-> w2, kid |-> old]

MCSignatureBlocks ==
  { <<LogLine, Cosigned(w1, new, TRUE), Cosigned(w2, old, TRUE)>>,
    <<Cosigned(w2, old, FALSE), LogLine, Cosigned(w1, new, TRUE), Cosigned(w1, new, TRUE)>> }

MCTrustRoots ==
  { [quorum |-> 2, vkeys |-> {Key1(old), Key2}],
    [quorum |-> 2, vkeys |-> {Key1(new), Key2}],
    [quorum |-> none, vkeys |-> {}] }
MCLogKeys  == {old, new}
MCKeyFiles == {{Key1(new), Key2}, {Key1(old), Key1(new)}}

MCTypes   == {prediction, rotation, manifest}
MCParties == {p, q}
MCNames   == {a}
MCWitnesses == {w1, w2}
MCKeyIds  == {old, new}
=============================================================================
