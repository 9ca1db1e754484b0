------------------------------- MODULE MCReceipt -------------------------------
(***************************************************************************)
(* TLC instance of Receipt: logs of at most three leaves of three kinds,   *)
(* two of them claims of different parties about one subject, checkpoints  *)
(* cosigned by both witnesses, by one, and by both without the log's own   *)
(* signature, a witness that has changed its key, and another log of two   *)
(* leaves from whose receipts fields may be taken.                         *)
(***************************************************************************)
EXTENDS Receipt

CONSTANTS prediction, rotation, manifest, p, q, a, none, w1, w2, old, new, operator

NoSubject == [shape |-> "other", name |-> none]
NoClaim   == [old_did |-> none, new_did |-> none, signed |-> FALSE]
NoCore    == [dict |-> FALSE, claimType |-> none, issuer |-> none,
              subject |-> NoSubject, claim |-> NoClaim]
Blank     == [claim_type |-> none, claimType |-> none, kind |-> none,
              issuer |-> none, subject |-> NoSubject, core |-> NoCore, claim |-> NoClaim]
By(i, t)  == [form |-> "object",
              obj |-> [Blank EXCEPT !.claim_type = t, !.issuer = i,
                         !.subject = [shape |-> "string", name |-> a]]]

MCContents == {By(p, prediction), By(p, rotation), By(q, prediction),
               [form |-> "note", obj |-> Blank]}

WitnessLine(w, k) == [kind |-> "cosignature", name |-> w, kid |-> k, valid |-> TRUE]
LogLine(ok)       == [kind |-> "log", name |-> operator, kid |-> new, valid |-> ok]

MCSignatureBlocks ==
  { <<LogLine(TRUE), WitnessLine(w1, new), WitnessLine(w2, old)>>,
    <<LogLine(TRUE), WitnessLine(w2, old)>>,
    <<LogLine(FALSE), WitnessLine(w1, new), WitnessLine(w2, old)>> }

Both(k) == {[name |-> w1, kid |-> k], [name |-> w2, kid |-> old]}
MCTrustRoots == {[quorum |-> n, vkeys |-> Both(new)] : n \in {0, 2}}
                  \cup {[quorum |-> 2, vkeys |-> Both(old)]}
MCKeyFiles == {Both(new)}

MCElsewhere == <<By(q, prediction), By(p, rotation)>>

MCTypes     == {prediction, rotation, manifest}
MCParties   == {p, q}
MCNames     == {a}
MCWitnesses == {w1, w2}
MCKeyIds    == {old, new}
=============================================================================
