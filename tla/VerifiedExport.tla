---------------------------- MODULE VerifiedExport ----------------------------
(***************************************************************************)
(* tlogsearch.main and reduce.main: one run of a reader over an export     *)
(* directory.  The reader opens the files of the directory one after the   *)
(* other, while whoever refreshes the directory may replace any of them    *)
(* between two reads, and refuses unless what it read fits together.       *)
(*                                                                         *)
(* The log, the refresh of the directory and the damage to it are the      *)
(* reader's environment; their actions stand for code outside the          *)
(* repository.                                                             *)
(***************************************************************************)
EXTENDS LeafRules, Merkle, Checkpoint

CONSTANTS Contents,         \* the leaves the log may get
          NonObjects,       \* those json.loads takes for something that is no object
          Queries,          \* what a search matches: sets of leaves
          SignatureBlocks,  \* the signature lines a checkpoint may carry
          TrustRoots,       \* the trust roots in use over time
          KeyFiles,         \* the key sets witness_keys.json pins over time
          LogKeys,          \* the key ids log_vkey.txt gives over time
          NotGiven,              \* no --lookup or no --subject given
          MaxSize, MaxChanges

ASSUME VerifiedExportAssumption ==
  /\ Contents \subseteq Leaf /\ NotGiven \notin Parties \cup Names
  /\ NonObjects \subseteq {d \in Contents : d.form \notin {"object", "note"}}
  /\ \A d \in Contents : d.form = "non-object" => d \in NonObjects
  /\ TrustRoots \subseteq TrustRoot /\ KeyFiles \subseteq SUBSET Vkey
  /\ LogKeys \subseteq KeyIds \cup {LogKeyId}
  /\ SignatureBlocks \subseteq Seq(Line)
  /\ MaxSize \in Nat \ {0} /\ MaxChanges \in Nat

VARIABLES log,       \* the operator's log, append only
          files,     \* the export directory
          changes,   \* how often the environment has acted (bounded)
          pc, ask,   \* where the reader is, and what it was asked
          cp, recs, log_kid, tr, pinned,  \* what it has read so far
          quiet,     \* nothing changed since it began
          answer

env    == <<log, files, changes>>
reader == <<pc, ask, cp, recs, log_kid, tr, pinned, answer>>
vars   == <<env, reader, quiet>>

NoAnswer == [hits |-> {}, size |-> 0, root |-> EmptyHash, absent |-> FALSE]

RootOf(lv, n) == Mth([i \in 1..n |-> LeafHash(lv[i])], 0, n)

\* The two files of one tree.
LeavesFile(lv) == [i \in 1..Len(lv) |-> [index |-> i - 1, data |-> lv[i]]]
CheckpointOf(lv, sigs) == [size |-> Len(lv), root |-> RootOf(lv, Len(lv)), sigs |-> sigs]

\* field is TRUE for a --field query, which reads every leaf as JSON.
SearchAsks == [tool : {"search"}, field : BOOLEAN, wanted : Queries]
ReduceAsks == [tool : {"reduce"}, as_of : 0..(MaxSize + 1) \cup {NotGiven},
               issuer : Parties \cup {NotGiven}, subject : Names \cup {NotGiven}]

-----------------------------------------------------------------------------

Init ==
  /\ \E k \in 0..(MaxSize - 1) : log \in [1..k -> Contents]
  /\ \E sigs \in SignatureBlocks, k \in LogKeys, t \in TrustRoots, w \in KeyFiles :
       files = [checkpoint |-> CheckpointOf(log, sigs), leaves |-> LeavesFile(log),
                log_vkey |-> k, trust_root |-> t, witness_keys |-> w]
  /\ changes = 0
  /\ pc = "checkpoint" /\ ask = NotGiven
  /\ cp = NotGiven /\ recs = << >> /\ log_kid = NotGiven
  /\ tr = [quorum |-> NotStated, vkeys |-> {}] /\ pinned = {}
  /\ quiet = TRUE /\ answer = NoAnswer

Change ==
  /\ changes < MaxChanges /\ changes' = changes + 1
  /\ pc \notin {"answered", "refused", "raised"}
  /\ quiet' = (quiet /\ pc = "checkpoint")
  /\ UNCHANGED reader

Grow == /\ Change
        /\ Len(log) < MaxSize
        /\ \E d \in Contents : log' = Append(log, d)
        /\ UNCHANGED files

PublishCheckpoint ==
  /\ Change
  /\ \E sigs \in SignatureBlocks :
       files' = [files EXCEPT !.checkpoint = CheckpointOf(log, sigs)]
  /\ UNCHANGED log

PublishLeaves ==
  /\ Change
  /\ files' = [files EXCEPT !.leaves = LeavesFile(log)]
  /\ UNCHANGED log

PublishKeys ==
  /\ Change
  /\ \/ \E k \in LogKeys : files' = [files EXCEPT !.log_vkey = k]
     \/ \E t \in TrustRoots : files' = [files EXCEPT !.trust_root = t]
     \/ \E w \in KeyFiles : files' = [files EXCEPT !.witness_keys = w]
  /\ UNCHANGED log

\* A copy of leaves.jsonl that lost a line, got one twice, has two out of order,
\* or holds another leaf, or another index, than it should.
Damaged(f) ==
  {RemoveAt(f, i) : i \in DOMAIN f}
  \cup {Append(f, f[i]) : i \in DOMAIN f}
  \cup {[f EXCEPT ![i] = f[1], ![1] = f[i]] : i \in DOMAIN f}
  \cup {[f EXCEPT ![i].data = d] : i \in DOMAIN f, d \in Contents}
  \cup {[f EXCEPT ![i].index = @ + 1] : i \in DOMAIN f}

DamageLeaves ==
  /\ Change
  /\ \E f \in Damaged(files.leaves) : files' = [files EXCEPT !.leaves = f]
  /\ UNCHANGED log

-----------------------------------------------------------------------------

ReadCheckpoint ==
  /\ pc = "checkpoint" /\ pc' = "leaves"
  /\ cp' = files.checkpoint
  /\ UNCHANGED <<ask, recs, log_kid, tr, pinned, answer, env, quiet>>

\* list.sort is stable: the place of a line is after the lines that go before it.
Sorted(lines) ==
  LET before(j, i) == \/ lines[j].index < lines[i].index
                      \/ lines[j].index = lines[i].index /\ j < i
      place(i)     == Cardinality({j \in DOMAIN lines : before(j, i)}) + 1
  IN  [k \in DOMAIN lines |-> lines[CHOOSE i \in DOMAIN lines : place(i) = k]]

\* load_leaves sorts the lines it finds by the index they state.
LoadLeaves ==
  /\ pc = "leaves" /\ pc' = "whole"
  /\ recs' = Sorted(files.leaves)
  /\ UNCHANGED <<ask, cp, log_kid, tr, pinned, answer, env, quiet>>

\* Where a check leads: on to the next, or to the refusal.
Proceed(ok, step) == pc' = IF ok THEN step ELSE "refused"

\* Mutant of CheckWhole: only the number of the leaves is compared.
CheckCountOnly ==
  /\ pc = "whole"
  /\ Proceed(Len(recs) = cp.size, "root")
  /\ UNCHANGED <<ask, cp, recs, log_kid, tr, pinned, answer, env, quiet>>

CheckWhole ==
  /\ pc = "whole"
  /\ Proceed(Len(recs) = cp.size /\ \A i \in DOMAIN recs : recs[i].index = i - 1, "root")
  /\ UNCHANGED <<ask, cp, recs, log_kid, tr, pinned, answer, env, quiet>>

Data == [i \in DOMAIN recs |-> recs[i].data]

CheckRoot ==
  /\ pc = "root"
  /\ Proceed(RootOf(Data, Len(recs)) = cp.root, "vkey")
  /\ UNCHANGED <<ask, cp, recs, log_kid, tr, pinned, answer, env, quiet>>

\* verify_checkpoint opens the log's key, the trust root and the witness keys.
ReadLogKey ==
  /\ pc = "vkey" /\ pc' = "trust"
  /\ log_kid' = files.log_vkey
  /\ UNCHANGED <<ask, cp, recs, tr, pinned, answer, env, quiet>>

ReadTrustRoot ==
  /\ pc = "trust" /\ pc' = "keys"
  /\ tr' = files.trust_root
  /\ UNCHANGED <<ask, cp, recs, log_kid, pinned, answer, env, quiet>>

ReadWitnessKeys ==
  /\ pc = "keys" /\ pc' = "judge"
  /\ pinned' = files.witness_keys
  /\ UNCHANGED <<ask, cp, recs, log_kid, tr, answer, env, quiet>>

\* Mutant of Judge: the quorum must be exceeded.
JudgeAboveQuorum ==
  /\ pc = "judge"
  /\ Proceed(/\ LogSigned(cp.sigs, log_kid)
             /\ tr.quorum # NotStated
             /\ Cardinality(Counted(cp.sigs, pinned, tr)) > tr.quorum, "answer")
  /\ UNCHANGED <<ask, cp, recs, log_kid, tr, pinned, answer, env, quiet>>

\* The head is signed by the log, and by as many witnesses as a stated quorum asks,
\* in the way the program counts them.
Vouched ==
  /\ LogSigned(cp.sigs, log_kid)
  /\ tr.quorum # NotStated
  /\ Cardinality(Counted(cp.sigs, pinned, tr)) >= tr.quorum

Judge ==
  /\ pc = "judge"
  /\ Proceed(Vouched, "answer")
  /\ UNCHANGED <<ask, cp, recs, log_kid, tr, pinned, answer, env, quiet>>

\* What the arguments a ask of the leaves lv of a tree of size n: a hit of a
\* search is known by the index its line states, a row by what it says.
SearchHits(a, lines) == {line.index : line \in {l \in ToSet(lines) : l.data \in a.wanted}}
RowHits(a, lv, n) ==
  {RowOf(lv, n, k) : k \in {k \in KeysOf(lv, n) : /\ a.issuer \in {NotGiven, k[1]}
                                                  /\ a.subject \in {NotGiven, k[2]}}}

\* --field takes whatever a leaf parses to for an object: the search is cut short
\* by an exception at the first leaf that is JSON but no object.
FieldRaises(a) == a.field /\ \E i \in DOMAIN recs : recs[i].data \in NonObjects

\* The arguments are of no consequence before this point, and chosen here.
RaiseAtNonObject ==
  /\ pc = "answer"
  /\ ask' \in SearchAsks
  /\ FieldRaises(ask')
  /\ pc' = "raised"
  /\ UNCHANGED <<cp, recs, log_kid, tr, pinned, answer, env, quiet>>

AnswerSearch ==
  /\ pc = "answer"
  /\ ask' \in SearchAsks
  /\ ~FieldRaises(ask')
  /\ LET hits == SearchHits(ask', recs) IN
     answer' = [hits |-> hits, size |-> cp.size, root |-> cp.root, absent |-> hits = {}]
  /\ pc' = "answered"
  /\ UNCHANGED <<cp, recs, log_kid, tr, pinned, env, quiet>>

AsOf(a) == IF a.as_of = NotGiven THEN cp.size ELSE a.as_of

\* --as-of above the signed head is refused; --as-of 0 of a tree that has leaves
\* makes subtree_proof raise.  Any other size is proved consistent with the head,
\* by a proof that verifies (SubtreeVerifier!VerdictIsExact).
RefuseBeyondHead ==
  /\ pc = "answer"
  /\ ask' \in ReduceAsks
  /\ AsOf(ask') > cp.size
  /\ pc' = "refused"
  /\ UNCHANGED <<cp, recs, log_kid, tr, pinned, answer, env, quiet>>

RaiseAtZero ==
  /\ pc = "answer"
  /\ ask' \in ReduceAsks
  /\ AsOf(ask') = 0 /\ cp.size # 0
  /\ pc' = "raised"
  /\ UNCHANGED <<cp, recs, log_kid, tr, pinned, answer, env, quiet>>

\* Mutant of AnswerReduce: no warning is printed, whatever was set aside.
AnswerUnwarned ==
  /\ pc = "answer"
  /\ ask' \in ReduceAsks
  /\ LET n    == AsOf(ask')
         hits == RowHits(ask', Data, n) IN
     /\ n <= cp.size /\ (n = 0 => cp.size = 0)
     /\ answer' = [hits |-> hits, size |-> n, root |-> RootOf(Data, n),
                   absent |-> hits = {}]
  /\ pc' = "answered"
  /\ UNCHANGED <<cp, recs, log_kid, tr, pinned, env, quiet>>

\* The miss is left to stand as an absence when the warning is not printed.
AnswerReduce ==
  /\ pc = "answer"
  /\ ask' \in ReduceAsks
  /\ LET n    == AsOf(ask')
         hits == RowHits(ask', Data, n) IN
     /\ n <= cp.size /\ (n = 0 => cp.size = 0)
     /\ answer' = [hits |-> hits, size |-> n, root |-> RootOf(Data, n),
                   absent |-> hits = {} /\ SetAside(Data, n) = {}]
  /\ pc' = "answered"
  /\ UNCHANGED <<cp, recs, log_kid, tr, pinned, env, quiet>>

Read == \/ ReadCheckpoint \/ LoadLeaves \/ CheckWhole \/ CheckRoot
        \/ ReadLogKey \/ ReadTrustRoot \/ ReadWitnessKeys \/ Judge
        \/ RaiseAtNonObject \/ AnswerSearch \/ RefuseBeyondHead \/ RaiseAtZero \/ AnswerReduce

Environment == Grow \/ PublishCheckpoint \/ PublishLeaves \/ PublishKeys \/ DamageLeaves

Next == Read \/ Environment

Spec == Init /\ [][Next]_vars

-----------------------------------------------------------------------------

\* README, "Search a log and check the answer covers all of it": a hit carries
\* its own index and the answer is over the whole committed tree.  Whatever was
\* refreshed or damaged between two reads, what is answered is what the log's
\* own first leaves give, under the root printed with it.
AnswerIsAboutCommittedTree ==
  pc = "answered" =>
    /\ answer.size <= Len(log)
    /\ answer.root = RootOf(log, answer.size)
    /\ answer.hits = IF ask.tool = "search" THEN SearchHits(ask, LeavesFile(SubSeq(log, 1, answer.size)))
                                            ELSE RowHits(ask, log, answer.size)

\* README, "So a miss is a claim": a miss that is left to stand is a true statement
\* about the log, no leaf of the answered tree matches or no leaf of it could have
\* been the row; and the head it is claimed under is the log's own, signed by the
\* log and, as the program counts them, by the quorum of its trust root.
AbsenceIsHonest ==
  pc = "answered" /\ answer.absent =>
    /\ \A i \in 1..answer.size :
         IF ask.tool = "search" THEN log[i] \notin ask.wanted
         ELSE /\ Verdict(log[i]) = "keyed"
              /\ ~(/\ ask.issuer \in {NotGiven, IssuerOf(log[i].obj)}
                   /\ ask.subject \in {NotGiven, SubjectOf(log[i].obj)})
    /\ answer.size <= cp.size /\ cp.root = RootOf(log, cp.size)
    /\ Vouched

\* The directory holds one tree, signed by the log and by a quorum of witnesses.
Coherent ==
  /\ {files.leaves[i] : i \in DOMAIN files.leaves}
       = {[index |-> i - 1, data |-> log[i]] : i \in 1..files.checkpoint.size}
  /\ Len(files.leaves) = files.checkpoint.size
  /\ LogSigned(files.checkpoint.sigs, files.log_vkey)
  /\ files.trust_root.quorum # NotStated
  /\ Cardinality(Counted(files.checkpoint.sigs, files.witness_keys, files.trust_root))
       >= files.trust_root.quorum

\* Spec section 12.5: a reduction is answered for a tree only if the log committed
\* it there, in a manifest leaf.  The log's manifests are taken to be of this one.
CommitsReduction(n) == \E i \in 1..n : i <= Len(log) /\ Verdict(log[i]) = "excluded-type"

\* "It refuses rather than degrades", but it does not refuse a sound export: a
\* refusal while nothing changed is due to the directory or to the question.  Up to
\* Judge both tools do the same, and a sound export must get past for the search's
\* sake; a reduction is only asked for within the head and where the log commits it.
SoundExportIsAnswered ==
  pc = "refused" /\ quiet =>
    \/ ~Coherent
    \/ /\ ask \in ReduceAsks
       /\ AsOf(ask) > files.checkpoint.size \/ ~CommitsReduction(AsOf(ask))

\* README:67-69 refuses "fewer verified independent cosignatures than that quorum",
\* and README:76-77 never counts "cosignatures from keys the signed trust root does
\* not name": what is answered has as many witnesses behind it as the quorum asks,
\* each under a key the trust root names.
QuorumIsOfRootedWitnesses ==
  pc = "answered" =>
    Cardinality({cp.sigs[i].name : i \in {i \in Counted(cp.sigs, pinned, tr) :
                                            KeyOfLine(cp.sigs[i]) \in tr.vkeys}}) >= tr.quorum
=============================================================================
