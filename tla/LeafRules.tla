------------------------------ MODULE LeafRules ------------------------------
(***************************************************************************)
(* What reduce.py derives from the bytes of one leaf: parse, typeof,       *)
(* issuer_of, subject_of and the rotation claim (spec sections 2 to 5).    *)
(*                                                                         *)
(* The bytes of a leaf are abstracted to a record: its form says how far   *)
(* the parser gets with them, and obj holds the fields the rules look at   *)
(* when they are a JSON object.  A field holds a string or NotStr; NotStr  *)
(* stands for a field that is absent and for one that holds any other JSON *)
(* value, which every isinstance(_, str) test of the code treats alike.    *)
(***************************************************************************)
EXTENDS Integers, FiniteSets

CONSTANTS Types, Parties, Names,     \* strings used as claim types, issuers, subjects
          NotStr,                    \* no string there
          RotationType, ManifestType

ASSUME NamesAssumption ==
  /\ NotStr \notin Types \cup Parties \cup Names
  /\ {RotationType, ManifestType} \subseteq Types
  /\ RotationType # ManifestType

Forms == {"invalid-utf8", "note", "not-json", "duplicate-key",
          "non-finite", "non-object", "object"}

Subject == [shape : {"string", "object", "other"}, name : Names \cup {NotStr}]

\* signed: the claim carries a signature of the outgoing key (rotation_sig), which
\* spec section 9 asks for.  No rule below looks at it, as no line of reduce.py does.
Claim   == [old_did : Parties \cup {NotStr}, new_did : Parties \cup {NotStr},
            signed : BOOLEAN]

\* "dict" is FALSE when $.core is not an object or is an empty one.
CoreObject == [dict : BOOLEAN, claimType : Types \cup {NotStr},
               issuer : Parties \cup {NotStr}, subject : Subject, claim : Claim]

Object == [claim_type : Types \cup {NotStr}, claimType : Types \cup {NotStr},
           kind : Types \cup {NotStr}, issuer : Parties \cup {NotStr},
           subject : Subject, core : CoreObject, claim : Claim]

Leaf == [form : Forms, obj : Object]

-----------------------------------------------------------------------------

\* Strict UTF-8, then the note grammar, then JSON with unique keys and finite
\* numbers whose top level is an object; everything else is malformed.
Parse(d) == CASE d.form = "note"   -> "note"
              [] d.form = "object" -> "json"
              [] OTHER             -> "malformed"

FirstString(a, b) == IF a # NotStr THEN a ELSE b

CoreField(o, f) == IF o.core.dict THEN o.core[f] ELSE NotStr

TypeOf(o) ==
  FirstString(o.claim_type,
    FirstString(o.claimType, FirstString(CoreField(o, "claimType"), o.kind)))

IssuerOf(o) == FirstString(o.issuer, CoreField(o, "issuer"))

NestedName(s) == IF s.shape = "object" THEN s.name ELSE NotStr

\* A top-level subject may be a bare string; a core subject may not.
SubjectOf(o) ==
  IF o.subject.shape = "string" THEN o.subject.name
  ELSE FirstString(NestedName(o.subject),
                   IF o.core.dict THEN NestedName(o.core.subject) ELSE NotStr)

RotationClaim(o) == IF o.core.dict THEN o.core.claim ELSE o.claim

Digest(d) == [sha256 |-> d]     \* SHA-256, taken to be collision free

-----------------------------------------------------------------------------

SkipReasons == {"plaintext-note", "untyped", "excluded-type", "no-issuer", "no-subject"}

\* Which way the body of the reduction's loop leaves for the leaf d.
Verdict(d) ==
  CASE Parse(d) = "malformed"            -> "malformed"
    [] Parse(d) = "note"                 -> "plaintext-note"
    [] OTHER -> IF TypeOf(d.obj) = NotStr THEN "untyped"
                ELSE IF TypeOf(d.obj) = ManifestType THEN "excluded-type"
                ELSE IF IssuerOf(d.obj) = NotStr THEN "no-issuer"
                ELSE IF SubjectOf(d.obj) = NotStr THEN "no-subject"
                ELSE "keyed"

\* Mutant of Key: keyed on the bare subject.
KeyIgnoringIssuer(d) == <<NotStr, SubjectOf(d.obj)>>

Key(d) == <<IssuerOf(d.obj), SubjectOf(d.obj)>>

\* Mutant of IsRotation: read only where the leaf also makes a row.
IsKeyedRotation(d) ==
  /\ Verdict(d) = "keyed"
  /\ TypeOf(d.obj) = RotationType
  /\ RotationClaim(d.obj).old_did # NotStr
  /\ RotationClaim(d.obj).new_did # NotStr

\* A rotation is recorded before the leaf's own key is looked at, so a rotation
\* leaf without an issuer or a subject still enters the identity graph; so does one
\* that the outgoing key has not signed, or that another issuer has made.
IsRotation(d) ==
  /\ Verdict(d) \in {"no-issuer", "no-subject", "keyed"}
  /\ TypeOf(d.obj) = RotationType
  /\ RotationClaim(d.obj).old_did # NotStr
  /\ RotationClaim(d.obj).new_did # NotStr

-----------------------------------------------------------------------------

\* The table as it stands after the first n of the leaves lv, described row by
\* row (Reduction!LastWriteWins says the replay computes it).
WritesOf(lv, n, k) == {j \in 0..(n - 1) : Verdict(lv[j + 1]) = "keyed" /\ Key(lv[j + 1]) = k}

KeysOf(lv, n) == {Key(lv[j + 1]) : j \in {j \in 0..(n - 1) : Verdict(lv[j + 1]) = "keyed"}}

RowOf(lv, n, k) ==
  LET W     == WritesOf(lv, n, k)
      first == CHOOSE j \in W : \A i \in W : j <= i
      last  == CHOOSE j \in W : \A i \in W : i <= j
  IN  [issuer |-> k[1], subject |-> k[2], claim_type |-> TypeOf(lv[last + 1].obj),
       first_index |-> first, last_index |-> last,
       superseded_count |-> Cardinality(W) - 1,
       leaf_sha256 |-> Digest(lv[last + 1]), state |-> "active"]

\* The leaves that made no row: an answer with any of them cannot speak of absence.
SetAside(lv, n) == {j \in 0..(n - 1) : Verdict(lv[j + 1]) # "keyed"}
=============================================================================
