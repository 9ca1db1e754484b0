-------------------------------- MODULE Anchors --------------------------------
(***************************************************************************)
(* verify_anchors.py with ots.py: the headers are opened and checked to be *)
(* a chain, then every OpenTimestamps proof of the export is replayed from *)
(* the digest it names, and the Bitcoin attestations it reaches are held   *)
(* to the headers.                                                         *)
(*                                                                         *)
(* A proof is the sequence of its tokens.  One that is cut between two of  *)
(* them just ends; one that is cut within a token has "short" there, and   *)
(* "unknown" stands for an operation the replay does not know.  A message  *)
(* is the digest followed by the operations applied to it, so that two     *)
(* messages are equal only if they were come by in the same way.  A header *)
(* is its block and its parent's, a height and a branch each; whether it   *)
(* meets its target; and its merkle root, a message.                       *)
(*                                                                         *)
(* The initial state, the steps and the variables are named for the module *)
(* because ReplayProofs extends it together with Reduction.                *)
(***************************************************************************)
EXTENDS Integers, SequencesExt

CONSTANTS
  \* [headers |-> [bin, torn, start, count], files, expect]: headers.bin, whether it
  \* ends within a header, and headers.json; the .ots files with the digest of the
  \* file beside each; the --expect-hash given, if any.  All of a setup is fixed
  \* while the program runs.
  Setups,
  NoFile,     \* the digest of a file that is not there
  Unasked,    \* no --expect-hash
  Undescribed \* the count of a headers.json that is not there

VARIABLES given,                              \* the setup
          pc, rc, expected,                   \* how the run goes, and what --expect-hash printed
          broken, weak,                       \* the heights check_chain returns
          file, rest, calls, out,             \* the file, and the walk through its proof
          verified, pending, missing, failures

headers == given.headers
files   == given.files
walk    == <<rest, calls, out>>
counts  == <<verified, pending, missing, failures>>
anchorVars == <<given, pc, rc, expected, broken, weak, file, walk, counts>>

This == files[file]

-----------------------------------------------------------------------------

\* What a proof says, without the walk through it.  proof.tree is what its author put
\* in it: every path from the digest to an attestation, in order.  proof.whole: it is
\* all there, and nothing of it is unknown.

\* The tokens of a kind among the first i.
OfKind(proof, kind, i) == {k \in 1..i : proof.tokens[k].token = kind}

\* The branches that are not ended behind the first i tokens: a fork begins one more,
\* an attestation ends one.
Open(proof, i) == 1 + Cardinality(OfKind(proof, "fork", i)) - Cardinality(OfKind(proof, "attest", i))

\* The proof has not ended before the i-th token.
Within(proof, i) == \A m \in 0..(i - 1) : Open(proof, m) >= 1

\* The operations that lead from the digest to behind the i-th token: each of a branch
\* that has not ended since.
Leading(proof, i) == {k \in OfKind(proof, "apply", i) :
                        \A m \in k..i : Open(proof, m) >= Open(proof, k - 1)}

\* A message is of these operations: each of them once, in the order of the proof.
Follow(proof, message, K) ==
  \E f \in [1..Cardinality(K) -> K] :
    /\ \A j, l \in DOMAIN f : j < l => f[j] < f[l]
    /\ message = <<proof.digest>> \o [j \in DOMAIN f |-> proof.tokens[f[j]].op]

IsPathTo(attestation, proof, i) ==
  /\ attestation = [name |-> proof.tokens[i].name, height |-> proof.tokens[i].height,
                    message |-> attestation.message]
  /\ Follow(proof, attestation.message, Leading(proof, i - 1))

Unreadable == {"short", "unknown"}

EndsAt(proof, m) ==
  /\ Open(proof, m) = 0 /\ Within(proof, m)
  /\ \A j \in 1..m : proof.tokens[j].token \notin Unreadable
  /\ Cardinality(OfKind(proof, "attest", m)) = Len(proof.tree)

IsSequence(s) == s \in Seq(ToSet(s))

IsProof(proof) ==
  /\ IsSequence(proof.tokens) /\ IsSequence(proof.tree)
  /\ \A i \in DOMAIN proof.tree : proof.tree[i].height \in Int
  /\ \A i \in DOMAIN proof.tokens :
       /\ proof.tokens[i].token \in {"fork", "apply", "attest"} \cup Unreadable
       /\ proof.tokens[i].token = "attest" /\ Within(proof, i) =>
            LET nth == Cardinality(OfKind(proof, "attest", i)) IN
            nth \in DOMAIN proof.tree /\ IsPathTo(proof.tree[nth], proof, i)
  /\ proof.whole => \E m \in DOMAIN proof.tokens : EndsAt(proof, m)

ASSUME AnchorsAssumption ==
  /\ \A setup \in Setups :
       /\ IsSequence(setup.headers.bin) /\ IsSequence(setup.files)
       /\ setup.headers.start \in Int
  /\ \A proof \in UNION {{setup.files[i].proof : i \in DOMAIN setup.files} : setup \in Setups} :
       IsProof(proof)

-----------------------------------------------------------------------------

AnchorInit ==
  /\ given \in Setups
  /\ pc = "open" /\ rc = "none" /\ expected = "none" /\ broken = {} /\ weak = {}
  /\ file = 0 /\ rest = << >> /\ calls = << >> /\ out = << >>
  /\ verified = 0 /\ pending = 0 /\ missing = 0 /\ failures = {}

\* Headers.at: the header the description gives a height, if any.
Covers(height) == height - headers.start \in 0..(Len(headers.bin) - 1)
At(height) == headers.bin[height - headers.start + 1]

Follows(block, parent) ==
  block.parent = [height |-> parent.height, branch |-> parent.branch]

\* Mutant of Broken: every header is held to the first.
BrokenFromFirst ==
  {headers.start + i - 1 : i \in {i \in 2..Len(headers.bin) :
     i = 2 /\ ~Follows(headers.bin[i], headers.bin[1])}}

\* check_chain, in the heights of the description.
Broken == {headers.start + i - 1 : i \in {i \in 2..Len(headers.bin) :
             ~Follows(headers.bin[i], headers.bin[i - 1])}}

Weak == {headers.start + i - 1 : i \in {i \in DOMAIN headers.bin : ~headers.bin[i].work}}

\* SystemExit on a file that is no number of headers, or not as many as described.
\* A description that is not there raises.
RefuseHeaders ==
  /\ pc = "open"
  /\ headers.torn \/ headers.count # Len(headers.bin)
  /\ pc' = "done"
  /\ rc' = IF ~headers.torn /\ headers.count = Undescribed THEN "raised" ELSE "exit"
  /\ UNCHANGED <<given, expected, broken, weak, file, walk, counts>>

CheckChain ==
  /\ pc = "open"
  /\ ~headers.torn /\ headers.count = Len(headers.bin)
  /\ broken' = Broken /\ weak' = Weak
  /\ pc' = "expect"
  /\ UNCHANGED <<given, rc, expected, file, walk, counts>>

\* What is printed is all that becomes of it; a height outside the headers raises.
ExpectHash ==
  /\ pc = "expect"
  /\ IF given.expect = Unasked
     THEN pc' = "files" /\ UNCHANGED <<rc, expected>>
     ELSE IF Covers(given.expect.height)
     THEN /\ expected' = IF At(given.expect.height).branch = given.expect.branch
                            /\ At(given.expect.height).height = given.expect.height
                         THEN "PASS" ELSE "FAIL"
          /\ pc' = "files" /\ UNCHANGED rc
     ELSE pc' = "done" /\ rc' = "raised" /\ UNCHANGED expected
  /\ UNCHANGED <<given, broken, weak, file, walk, counts>>

NextFile ==
  /\ pc = "files" /\ file < Len(files)
  /\ file' = file + 1
  /\ rest' = files[file + 1].proof.tokens
  /\ calls' = <<<<files[file + 1].proof.digest>>>> /\ out' = << >>
  /\ pc' = "walk"
  /\ UNCHANGED <<given, rc, expected, broken, weak, counts>>

-----------------------------------------------------------------------------

\* The calls of _walk that are on each have a message; the last one reads.
Reads(token) == pc = "walk" /\ rest # << >> /\ Head(rest).token = token

Return == pc' = IF Len(calls) = 1 THEN "judge" ELSE "walk"

Walking == UNCHANGED <<given, rc, expected, broken, weak, file, counts>>

\* _walk(r, msg, out): a branch begins at the message the fork is at.
Fork ==
  /\ Reads("fork")
  /\ calls' = Append(calls, Last(calls))
  /\ rest' = Tail(rest) /\ UNCHANGED <<out, pc>> /\ Walking

Apply ==
  /\ Reads("apply")
  /\ calls' = [calls EXCEPT ![Len(calls)] = Append(@, Head(rest).op)]
  /\ rest' = Tail(rest) /\ UNCHANGED <<out, pc>> /\ Walking

Attestation == [name |-> Head(rest).name, height |-> Head(rest).height, message |-> Last(calls)]

\* Mutant of Attest: the message is one for all calls, and not each call's own.
AttestSharing ==
  /\ Reads("attest")
  /\ out' = Append(out, Attestation)
  /\ calls' = [i \in 1..(Len(calls) - 1) |-> IF i = Len(calls) - 1 THEN Last(calls) ELSE calls[i]]
  /\ Return
  /\ rest' = Tail(rest) /\ Walking

\* An attestation ends the branch, and the call returns.
Attest ==
  /\ Reads("attest")
  /\ out' = Append(out, Attestation)
  /\ calls' = Front(calls) /\ Return
  /\ rest' = Tail(rest) /\ Walking

\* At the end of the data every call returns, wherever its branch is.
EndOfData ==
  /\ pc = "walk" /\ rest = << >>
  /\ calls' = Front(calls) /\ Return
  /\ UNCHANGED <<rest, out>> /\ Walking

Failure(why) == [file |-> file, why |-> why]

\* Mutant of Unparseable: the file is passed over.
UnparseablePassedOver ==
  /\ Reads("short") \/ Reads("unknown")
  /\ pc' = "files"
  /\ UNCHANGED <<given, rc, expected, broken, weak, file, walk, counts>>

\* OTSError, from any depth of the walk; what it has recorded is dropped.
Unparseable ==
  /\ Reads("short") \/ Reads("unknown")
  /\ failures' = failures \cup {Failure("unparseable")}
  /\ pc' = "files"
  /\ UNCHANGED <<given, rc, expected, broken, weak, file, walk, verified, pending, missing>>

-----------------------------------------------------------------------------

Judging == pc = "judge" /\ This.base # NoFile

\* The file beside the proof is opened only now, and not opened at all if the proof
\* could not be read.
OpenRaises ==
  /\ pc = "judge" /\ This.base = NoFile
  /\ pc' = "done" /\ rc' = "raised"
  /\ UNCHANGED <<given, expected, broken, weak, file, walk, counts>>

OfAnotherFile ==
  /\ Judging /\ This.base # This.proof.digest
  /\ failures' = failures \cup {Failure("different file")}
  /\ pc' = "files"
  /\ UNCHANGED <<given, rc, expected, broken, weak, file, walk, verified, pending, missing>>

Bitcoin == {i \in DOMAIN out : out[i].name = "bitcoin"}

Unattested ==
  /\ Judging /\ This.base = This.proof.digest /\ Bitcoin = {}
  /\ pending' = pending + 1
  /\ pc' = "files"
  /\ UNCHANGED <<given, rc, expected, broken, weak, file, walk, verified, missing, failures>>

Outside == {i \in Bitcoin : ~Covers(out[i].height)}
Hits    == {i \in Bitcoin \ Outside : At(out[i].height).root = out[i].message}

\* Mutant of HoldToHeaders: attestations are counted, and not proofs.
HoldToHeadersEach ==
  /\ Judging /\ This.base = This.proof.digest /\ Bitcoin # {}
  /\ missing' = missing + Cardinality(Outside)
  /\ failures' = failures \cup {Failure("mismatch") : i \in Bitcoin \ (Outside \cup Hits)}
  /\ verified' = verified + Cardinality(Hits)
  /\ pc' = "files"
  /\ UNCHANGED <<given, rc, expected, broken, weak, file, walk, pending>>

\* A proof may be verified by one attestation and fail by another.
HoldToHeaders ==
  /\ Judging /\ This.base = This.proof.digest /\ Bitcoin # {}
  /\ missing' = missing + Cardinality(Outside)
  /\ failures' = failures \cup {Failure("mismatch") : i \in Bitcoin \ (Outside \cup Hits)}
  /\ verified' = IF Hits # {} THEN verified + 1 ELSE verified
  /\ pc' = "files"
  /\ UNCHANGED <<given, rc, expected, broken, weak, file, walk, pending>>

Finish ==
  /\ pc = "files" /\ file = Len(files)
  /\ rc' = IF broken # {} \/ weak # {} \/ failures # {} THEN "1" ELSE "0"
  /\ pc' = "done"
  /\ UNCHANGED <<given, expected, broken, weak, file, walk, counts>>

AnchorNext == \/ RefuseHeaders \/ CheckChain \/ ExpectHash \/ NextFile
              \/ Fork \/ Apply \/ Attest \/ EndOfData \/ Unparseable
              \/ OpenRaises \/ OfAnotherFile \/ Unattested \/ HoldToHeaders \/ Finish

AnchorSpec == AnchorInit /\ [][AnchorNext]_anchorVars

-----------------------------------------------------------------------------

\* ots.py:112-137: the replay of a whole proof reaches every attestation, each with
\* the message its own path leads to and whatever the other branches do to theirs;
\* a proof cut short gives the first of them and nothing else.
ReplayFollowsThePaths ==
  pc = "judge" => /\ IsPrefix(out, This.proof.tree)
                  /\ This.proof.whole => out = This.proof.tree

InHeaders(message) == \E i \in DOMAIN headers.bin : headers.bin[i].root = message

\* A file whose proof leads to the root of a block of these headers, and says which.
Leads(f) == {i \in DOMAIN f.proof.tree : /\ f.base = f.proof.digest
                                         /\ f.proof.tree[i].name = "bitcoin"
                                         /\ InHeaders(f.proof.tree[i].message)}
SaysWhich(attestation) == \E i \in DOMAIN headers.bin :
                            /\ headers.bin[i].root = attestation.message
                            /\ headers.bin[i].height = attestation.height

\* headers.json is of the headers beside it.
Described == \A i \in DOMAIN headers.bin : headers.bin[i].height = headers.start + i - 1

\* verify_anchors.py:148: "N of M proofs replay to a merkle root in these headers",
\* never more than do, also when the description is another run's; and all that do
\* and say where, when the proofs are whole and the description is the headers' own.
CountIsOfAnchoredFiles ==
  rc \in {"0", "1"} =>
    /\ verified <= Cardinality({i \in DOMAIN files : Leads(files[i]) # {}})
    /\ Described /\ (\A i \in DOMAIN files : files[i].proof.whole) =>
         verified = Cardinality({i \in DOMAIN files :
                      \E a \in Leads(files[i]) : SaysWhich(files[i].proof.tree[a])})

\* An exit status of 0 stands for a chain that cost work, proofs that can be read and
\* are for the files they lie beside, and no attestation, within the heights covered,
\* of a root the headers do not have.
ExitIsHonest ==
  rc = "0" =>
    /\ \A i \in 2..Len(headers.bin) : Follows(headers.bin[i], headers.bin[i - 1])
    /\ \A i \in DOMAIN headers.bin : headers.bin[i].work
    /\ \A i \in DOMAIN files :
         LET proof == files[i].proof IN
         /\ files[i].base = proof.digest
         /\ \A j \in DOMAIN proof.tokens :
              Within(proof, j) => proof.tokens[j].token \notin Unreadable
         /\ \A j \in DOMAIN proof.tree :
              (/\ proof.whole /\ proof.tree[j].name = "bitcoin" /\ Covers(proof.tree[j].height))
              => InHeaders(proof.tree[j].message)
=============================================================================
