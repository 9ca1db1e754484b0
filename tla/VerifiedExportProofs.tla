------------------------- MODULE VerifiedExportProofs -------------------------
(***************************************************************************)
(* What a reader of an export directory answers, for logs of every size,   *)
(* whoever refreshes or damages the directory between two of its reads.    *)
(***************************************************************************)
EXTENDS VerifiedExport, MerkleProofs, SequenceTheorems, FiniteSetTheorems

\* Two logs have their first n leaves in common.
SameLog(lv, lw, n) == \A i \in 1..n : lv[i] = lw[i]

LEMMA RootOfSame ==
  ASSUME NEW lv, NEW lw, NEW n \in Nat, SameLog(lv, lw, n)
  PROVE  RootOf(lv, n) = RootOf(lw, n)
<1>1. [i \in 1..n |-> LeafHash(lv[i])] = [i \in 1..n |-> LeafHash(lw[i])]
      BY DEF SameLog
<1> QED BY <1>1 DEF RootOf

\* The root of a tree commits to each of its leaves.
LEMMA RootOfBinds ==
  ASSUME NEW lv, NEW lw, NEW n \in Nat, RootOf(lv, n) = RootOf(lw, n)
  PROVE  SameLog(lv, lw, n)
<1> DEFINE D == [i \in 1..n |-> LeafHash(lv[i])]
           E == [i \in 1..n |-> LeafHash(lw[i])]
<1>1. CASE n = 0 BY <1>1 DEF SameLog
<1>2. CASE n # 0
  <2>1. 0 < n /\ Mth(D, 0, n) = Mth(E, 0, n) BY <1>2 DEF RootOf
  <2> HIDE DEF D, E
  <2>2. SameLeaves(D, E, 0, n) BY <2>1, RootBindsLeaves
  <2>3. \A i \in 1..n : D[i] = E[i] BY <2>2 DEF SameLeaves
  <2>4. \A i \in 1..n : LeafHash(lv[i]) = LeafHash(lw[i]) BY <2>3 DEF D, E
  <2> QED BY <2>4 DEF SameLog, LeafHash
<1> QED BY <1>1, <1>2

-----------------------------------------------------------------------------

\* What the reduction makes of the first n leaves depends on nothing else.
LEMMA WritesOfSame ==
  ASSUME NEW lv, NEW lw, NEW n \in Nat, SameLog(lv, lw, n), NEW k
  PROVE  WritesOf(lv, n, k) = WritesOf(lw, n, k)
<1>1. \A j \in 0..(n - 1) : lv[j + 1] = lw[j + 1] BY DEF SameLog
<1> QED BY <1>1 DEF WritesOf

LEMMA KeysOfSame ==
  ASSUME NEW lv, NEW lw, NEW n \in Nat, SameLog(lv, lw, n)
  PROVE  KeysOf(lv, n) = KeysOf(lw, n)
<1>1. \A j \in 0..(n - 1) : lv[j + 1] = lw[j + 1] BY DEF SameLog
<1> QED BY <1>1 DEF KeysOf

LEMMA SetAsideSame ==
  ASSUME NEW lv, NEW lw, NEW n \in Nat, SameLog(lv, lw, n)
  PROVE  SetAside(lv, n) = SetAside(lw, n)
<1>1. \A j \in 0..(n - 1) : lv[j + 1] = lw[j + 1] BY DEF SameLog
<1> QED BY <1>1 DEF SetAside

\* A set of positions has a last one.
LEMMA LatestExists ==
  ASSUME NEW n \in Nat, NEW W \in SUBSET (0..(n - 1)), W # {}
  PROVE  \E j \in W : \A i \in W : i <= j
<1> DEFINE T == {n - 1 - j : j \in W}
<1>1. T \in SUBSET Nat /\ T # {} OBVIOUS
<1>2. PICK m \in T : \A v \in T : m <= v
  <2> HIDE DEF T
  <2> QED BY <1>1, Least
<1>3. PICK j \in W : m = n - 1 - j BY <1>2
<1>4. \A i \in W : n - 1 - j <= n - 1 - i BY <1>2, <1>3
<1>5. j \in 0..(n - 1) /\ \A i \in W : i \in 0..(n - 1) OBVIOUS
<1>6. \A i \in W : i <= j BY <1>4, <1>5
<1> QED BY <1>6

LEMMA RowOfSame ==
  ASSUME NEW lv, NEW lw, NEW n \in Nat, SameLog(lv, lw, n), NEW k \in KeysOf(lv, n)
  PROVE  RowOf(lv, n, k) = RowOf(lw, n, k)
<1> DEFINE W == WritesOf(lv, n, k)
           last == CHOOSE j \in W : \A i \in W : i <= j
<1>1. W = WritesOf(lw, n, k) BY WritesOfSame
<1>2. W \in SUBSET (0..(n - 1)) /\ W # {} BY DEF WritesOf, KeysOf
<1>3. last \in 0..(n - 1)
  <2> HIDE DEF W
  <2>1. \E j \in W : \A i \in W : i <= j BY <1>2, LatestExists
  <2>2. last \in W BY <2>1
  <2> QED BY <1>2, <2>2
<1>4. lv[last + 1] = lw[last + 1] BY <1>3 DEF SameLog
<1> HIDE DEF W
<1> QED BY <1>1, <1>4 DEF RowOf, W

LEMMA RowHitsSame ==
  ASSUME NEW lv, NEW lw, NEW n \in Nat, SameLog(lv, lw, n), NEW a
  PROVE  RowHits(a, lv, n) = RowHits(a, lw, n)
<1>1. KeysOf(lv, n) = KeysOf(lw, n) BY KeysOfSame
<1>2. \A k \in KeysOf(lv, n) : RowOf(lv, n, k) = RowOf(lw, n, k) BY RowOfSame
<1> QED BY <1>1, <1>2 DEF RowHits

\* The lines of the first n leaves of lv, in order.
LinesOf(lines, lv, n) ==
  DOMAIN lines = 1..n /\ \A i \in 1..n : lines[i].index = i - 1 /\ lines[i].data = lv[i]

LEMMA SearchHitsOfLines ==
  ASSUME NEW lines, NEW lv, NEW n \in Nat, LinesOf(lines, lv, n), NEW a
  PROVE  SearchHits(a, lines) = {i - 1 : i \in {i \in 1..n : lv[i] \in a.wanted}}
BY DEF SearchHits, LinesOf, ToSet

LEMMA SearchHitsSame ==
  ASSUME NEW lines, NEW C, NEW lv \in Seq(C), NEW n \in 0..Len(lv), LinesOf(lines, lv, n), NEW a
  PROVE  SearchHits(a, lines) = SearchHits(a, LeavesFile(SubSeq(lv, 1, n)))
<1>1. /\ Len(SubSeq(lv, 1, n)) = n
      /\ \A i \in 1..n : SubSeq(lv, 1, n)[i] = lv[i]
  <2>1. 1 \in Int /\ n \in Int /\ \A i \in 1..n : lv[i] \in C BY ElementOfSeq
  <2>2. /\ Len(SubSeq(lv, 1, n)) = IF 1 <= n THEN n - 1 + 1 ELSE 0
        /\ \A i \in 1..(n - 1 + 1) : SubSeq(lv, 1, n)[i] = lv[1 + i - 1]
        BY <2>1, SubSeqProperties
  <2> QED BY <2>2
<1>2. LinesOf(LeavesFile(SubSeq(lv, 1, n)), lv, n)
      BY <1>1 DEF LinesOf, LeavesFile
<1>3. n \in Nat OBVIOUS
<1> DEFINE H == {i - 1 : i \in {i \in 1..n : lv[i] \in a.wanted}}
<1>4. SearchHits(a, lines) = H BY <1>3, SearchHitsOfLines
<1>5. SearchHits(a, LeavesFile(SubSeq(lv, 1, n))) = H BY <1>2, <1>3, SearchHitsOfLines
<1> QED BY <1>4, <1>5

-----------------------------------------------------------------------------

Lines == [index : Nat, data : Contents]

\* The directory's files, of whatever content.
FilesOK ==
  /\ log \in Seq(Contents)
  /\ files = [checkpoint |-> files.checkpoint, leaves |-> files.leaves,
              log_vkey |-> files.log_vkey, trust_root |-> files.trust_root,
              witness_keys |-> files.witness_keys]
  /\ files.leaves \in Seq(Lines)

\* A checkpoint is one of the log as it was at some time.
OfLog(c) == c.size \in 0..Len(log) /\ c.root = RootOf(log, c.size)

\* What the reader has established by the time it has got as far as pc.
Established ==
  /\ pc # "checkpoint" => OfLog(cp)
  /\ pc \notin {"checkpoint", "leaves"} => \E n \in Nat : DOMAIN recs = 1..n
  /\ pc \in {"root", "vkey", "trust", "keys", "judge", "answer"} =>
       DOMAIN recs = 1..cp.size /\ \A i \in 1..cp.size : recs[i].index = i - 1
  /\ pc \in {"vkey", "trust", "keys", "judge", "answer"} => LinesOf(recs, log, cp.size)
  /\ pc \in {"answer", "answered"} => Vouched

\* What it leaves to stand as an absence.
AbsentMeansNoHit ==
  pc = "answered" =>
    /\ ask \in SearchAsks \cup ReduceAsks
    /\ answer.size \in Nat /\ answer.size <= cp.size
    /\ answer.absent => /\ answer.hits = {}
                        /\ ask.tool = "reduce" => SetAside(log, answer.size) = {}

ReaderInv == /\ FilesOK /\ OfLog(files.checkpoint) /\ Established
             /\ AnswerIsAboutCommittedTree /\ AbsentMeansNoHit

-----------------------------------------------------------------------------

LEMMA InitReader == Init => ReaderInv
<1> SUFFICES ASSUME Init PROVE ReaderInv
    OBVIOUS
<1>1. PICK k \in 0..(MaxSize - 1) : log \in [1..k -> Contents] BY DEF Init
<1>2. k \in Nat BY VerifiedExportAssumption
<1>3. log \in Seq(Contents) /\ Len(log) = k BY <1>1, <1>2, SeqDef
<1>4. files = [checkpoint |-> files.checkpoint, leaves |-> LeavesFile(log),
               log_vkey |-> files.log_vkey, trust_root |-> files.trust_root,
               witness_keys |-> files.witness_keys]
      /\ files.leaves = LeavesFile(log)
      BY DEF Init
<1>5. files.checkpoint.size = Len(log) /\ files.checkpoint.root = RootOf(log, Len(log))
      BY DEF Init, CheckpointOf
<1>6. LeavesFile(log) \in Seq(Lines)
  <2>1. LeavesFile(log) \in [1..k -> Lines] BY <1>1, <1>2, <1>3 DEF LeavesFile, Lines
  <2> QED BY <1>2, <2>1, SeqDef
<1>7. FilesOK BY <1>3, <1>4, <1>6 DEF FilesOK
<1>8. OfLog(files.checkpoint) BY <1>2, <1>3, <1>5 DEF OfLog
<1>9. pc = "checkpoint" BY DEF Init
<1> QED BY <1>7, <1>8, <1>9 DEF ReaderInv, Established, AnswerIsAboutCommittedTree, AbsentMeansNoHit

\* A log that grows keeps the trees it had.
LEMMA GrowingKeepsTrees ==
  ASSUME NEW d \in Contents, log \in Seq(Contents), log' = Append(log, d)
  PROVE  /\ log' \in Seq(Contents)
         /\ \A c : OfLog(c) => OfLog(c)'
         /\ \A lines, n : n \in 0..Len(log) /\ LinesOf(lines, log, n) => LinesOf(lines, log', n)
<1>1. /\ log' \in Seq(Contents) /\ Len(log') = Len(log) + 1 /\ Len(log) \in Nat
      /\ \A i \in 1..Len(log) : log'[i] = log[i]
      BY AppendProperties, LenProperties
<1>2. ASSUME NEW c, OfLog(c) PROVE OfLog(c)'
  <2>1. c.size \in Nat /\ c.size \in 0..Len(log') BY <1>1, <1>2 DEF OfLog
  <2>2. SameLog(log', log, c.size) BY <1>1, <1>2 DEF OfLog, SameLog
  <2>3. RootOf(log', c.size) = RootOf(log, c.size) BY <2>1, <2>2, RootOfSame
  <2> QED BY <1>2, <2>1, <2>3 DEF OfLog
<1>3. ASSUME NEW lines, NEW n \in 0..Len(log), LinesOf(lines, log, n)
      PROVE  LinesOf(lines, log', n)
      BY <1>1, <1>3 DEF LinesOf
<1> QED BY <1>1, <1>2, <1>3

\* Damage leaves a list of lines.
LEMMA DamagedIsLines ==
  ASSUME NEW f \in Seq(Lines), NEW g \in Damaged(f)
  PROVE  g \in Seq(Lines)
<1>1. Len(f) \in Nat /\ DOMAIN f = 1..Len(f) /\ \A i \in 1..Len(f) : f[i] \in Lines
      BY LenProperties, ElementOfSeq
<1>2. CASE \E i \in DOMAIN f : g = RemoveAt(f, i)
  <2>1. PICK i \in 1..Len(f) : g = SubSeq(f, 1, i - 1) \o SubSeq(f, i + 1, Len(f))
        BY <1>1, <1>2 DEF RemoveAt
  <2>2. SubSeq(f, 1, i - 1) \in Seq(Lines)
    <3>1. 1 \in Int /\ i - 1 \in Int /\ \A j \in 1..(i - 1) : f[j] \in Lines BY <1>1
    <3> QED BY <3>1, SubSeqProperties
  <2>3. SubSeq(f, i + 1, Len(f)) \in Seq(Lines)
    <3>1. i + 1 \in Int /\ Len(f) \in Int /\ \A j \in (i + 1)..Len(f) : f[j] \in Lines BY <1>1
    <3> QED BY <3>1, SubSeqProperties
  <2> QED BY <2>1, <2>2, <2>3, ConcatProperties
<1>3. CASE \E i \in DOMAIN f : g = Append(f, f[i])
      BY <1>1, <1>3, AppendProperties
<1>4. CASE \E i \in DOMAIN f : g = [f EXCEPT ![i] = f[1], ![1] = f[i]]
  <2>1. PICK i \in 1..Len(f) : g = [f EXCEPT ![i] = f[1], ![1] = f[i]] BY <1>1, <1>4
  <2>2. 1 \in 1..Len(f) BY <1>1
  <2>3. g \in [1..Len(f) -> Lines] BY <1>1, <2>1, <2>2
  <2> QED BY <1>1, <2>3, SeqDef
<1>5. CASE \E i \in DOMAIN f, d \in Contents : g = [f EXCEPT ![i].data = d]
  <2>1. PICK i \in 1..Len(f), d \in Contents : g = [f EXCEPT ![i].data = d] BY <1>1, <1>5
  <2>2. [f[i] EXCEPT !.data = d] \in Lines BY <1>1 DEF Lines
  <2>3. g \in [1..Len(f) -> Lines] BY <1>1, <2>1, <2>2
  <2> QED BY <1>1, <2>3, SeqDef
<1>6. CASE \E i \in DOMAIN f : g = [f EXCEPT ![i].index = @ + 1]
  <2>1. PICK i \in 1..Len(f) : g = [f EXCEPT ![i].index = @ + 1] BY <1>1, <1>6
  <2>2. [f[i] EXCEPT !.index = f[i].index + 1] \in Lines BY <1>1 DEF Lines
  <2>3. g \in [1..Len(f) -> Lines] BY <1>1, <2>1, <2>2
  <2> QED BY <1>1, <2>3, SeqDef
<1> QED BY <1>2, <1>3, <1>4, <1>5, <1>6 DEF Damaged

\* A reader that has got nowhere new keeps what it has established.
LEMMA EnvironmentKeepsReader ==
  ASSUME ReaderInv, Environment
  PROVE  ReaderInv'
<1>1. /\ pc \notin {"answered", "refused", "raised"}
      /\ UNCHANGED <<pc, ask, cp, recs, log_kid, tr, pinned, answer>>
      BY DEF Environment, Grow, PublishCheckpoint, PublishLeaves, PublishKeys, DamageLeaves,
             Change, reader
<1>2. AnswerIsAboutCommittedTree' /\ AbsentMeansNoHit'
      BY <1>1 DEF AnswerIsAboutCommittedTree, AbsentMeansNoHit
<1>3. CASE Grow
  <2>1. PICK d \in Contents : log' = Append(log, d) BY <1>3 DEF Grow
  <2>2. files' = files BY <1>3 DEF Grow
  <2>3. /\ log' \in Seq(Contents)
        /\ \A c : OfLog(c) => OfLog(c)'
        /\ \A lines, n : n \in 0..Len(log) /\ LinesOf(lines, log, n) => LinesOf(lines, log', n)
        BY <2>1, GrowingKeepsTrees DEF ReaderInv, FilesOK
  <2>4. FilesOK' BY <2>2, <2>3 DEF ReaderInv, FilesOK
  <2>5. OfLog(files.checkpoint)' BY <2>2, <2>3 DEF ReaderInv
  <2>6. Established'
    <3>1. (pc # "checkpoint" => OfLog(cp))' BY <1>1, <2>3 DEF ReaderInv, Established
    <3>2. (pc \in {"vkey", "trust", "keys", "judge", "answer"} => LinesOf(recs, log, cp.size))'
          BY <1>1, <2>3 DEF ReaderInv, Established, OfLog
    <3>3. (pc \notin {"checkpoint", "leaves"} => \E n \in Nat : DOMAIN recs = 1..n)'
          BY <1>1 DEF ReaderInv, Established
    <3>4. (pc \in {"root", "vkey", "trust", "keys", "judge", "answer"} =>
             DOMAIN recs = 1..cp.size /\ \A i \in 1..cp.size : recs[i].index = i - 1)'
          BY <1>1 DEF ReaderInv, Established
    <3>5. (pc \in {"answer", "answered"} => Vouched)' BY <1>1 DEF ReaderInv, Established, Vouched
    <3> QED BY <3>1, <3>2, <3>3, <3>4, <3>5 DEF Established
  <2> QED BY <1>2, <2>4, <2>5, <2>6 DEF ReaderInv
<1>4. CASE PublishCheckpoint \/ PublishLeaves \/ PublishKeys \/ DamageLeaves
  <2> log' = log BY <1>4 DEF PublishCheckpoint, PublishLeaves, PublishKeys, DamageLeaves
  <2>1. Established' BY <1>1, <1>4 DEF ReaderInv, Established, OfLog, Vouched
  <2>2. CASE PublishCheckpoint
    <3>1. PICK sigs : files' = [files EXCEPT !.checkpoint = CheckpointOf(log, sigs)]
          BY <2>2 DEF PublishCheckpoint
    <3>2. FilesOK' BY <1>4, <3>1 DEF ReaderInv, FilesOK
    <3>3. files'.checkpoint = CheckpointOf(log, sigs) BY <3>1 DEF ReaderInv, FilesOK
    <3>4. Len(log) \in Nat BY LenProperties DEF ReaderInv, FilesOK
    <3>5. OfLog(files.checkpoint)' BY <1>4, <3>3, <3>4 DEF OfLog, CheckpointOf
    <3> QED BY <1>2, <2>1, <3>2, <3>5 DEF ReaderInv
  <2>3. CASE PublishLeaves
    <3>1. files' = [files EXCEPT !.leaves = LeavesFile(log)] BY <2>3 DEF PublishLeaves
    <3>2. LeavesFile(log) \in Seq(Lines)
      <4>1. Len(log) \in Nat /\ \A i \in 1..Len(log) : log[i] \in Contents
            BY LenProperties, ElementOfSeq DEF ReaderInv, FilesOK
      <4>2. LeavesFile(log) \in [1..Len(log) -> Lines] BY <4>1 DEF LeavesFile, Lines
      <4> QED BY <4>1, <4>2, SeqDef
    <3>3. FilesOK' BY <1>4, <3>1, <3>2 DEF ReaderInv, FilesOK
    <3>4. OfLog(files.checkpoint)' BY <1>4, <3>1 DEF ReaderInv, FilesOK, OfLog
    <3> QED BY <1>2, <2>1, <3>3, <3>4 DEF ReaderInv
  <2>4. CASE PublishKeys
    <3>1. /\ files'.leaves = files.leaves /\ files'.checkpoint = files.checkpoint
          /\ FilesOK'
          BY <1>4, <2>4 DEF PublishKeys, ReaderInv, FilesOK
    <3>2. OfLog(files.checkpoint)' BY <1>4, <3>1 DEF ReaderInv, OfLog
    <3> QED BY <1>2, <2>1, <3>1, <3>2 DEF ReaderInv
  <2>5. CASE DamageLeaves
    <3>1. PICK f \in Damaged(files.leaves) : files' = [files EXCEPT !.leaves = f]
          BY <2>5 DEF DamageLeaves
    <3>2. f \in Seq(Lines) BY DamagedIsLines DEF ReaderInv, FilesOK
    <3>3. FilesOK' BY <1>4, <3>1, <3>2 DEF ReaderInv, FilesOK
    <3>4. OfLog(files.checkpoint)' BY <1>4, <3>1 DEF ReaderInv, FilesOK, OfLog
    <3> QED BY <1>2, <2>1, <3>3, <3>4 DEF ReaderInv
  <2> QED BY <1>4, <2>2, <2>3, <2>4, <2>5
<1> QED BY <1>3, <1>4 DEF Environment

\* The reader's steps leave the log and the files alone.
LEMMA ReaderKeepsFiles ==
  ASSUME ReaderInv, Read
  PROVE  /\ UNCHANGED env /\ FilesOK' /\ OfLog(files.checkpoint)'
         /\ \A c : OfLog(c)' <=> OfLog(c)
<1>1. UNCHANGED env
      BY DEF Read, ReadCheckpoint, LoadLeaves, CheckWhole, CheckRoot, ReadLogKey,
             ReadTrustRoot, ReadWitnessKeys, Judge, RaiseAtNonObject, AnswerSearch,
             RefuseBeyondHead, RaiseAtZero, AnswerReduce
<1> QED BY <1>1 DEF env, ReaderInv, FilesOK, OfLog

\* Until it answers, there is no answer to be wrong.
LEMMA NotAnswered ==
  ASSUME pc' # "answered"
  PROVE  AnswerIsAboutCommittedTree' /\ AbsentMeansNoHit'
BY DEF AnswerIsAboutCommittedTree, AbsentMeansNoHit

\* The leaves whose root is the checkpoint's are the log's.
LEMMA RootCheckFindsTheTree ==
  ASSUME ReaderInv, CheckRoot, pc' = "vkey"
  PROVE  LinesOf(recs, log, cp.size)
<1>1. /\ DOMAIN recs = 1..cp.size
      /\ \A i \in 1..cp.size : recs[i].index = i - 1
      BY DEF CheckRoot, ReaderInv, Established
<1>2. OfLog(cp) BY DEF CheckRoot, ReaderInv, Established
<1>3. cp.size \in Nat BY <1>2 DEF OfLog
<1>4. Len(recs) = cp.size BY <1>1, <1>3
<1>5. RootOf(Data, cp.size) = RootOf(log, cp.size)
      BY <1>2, <1>4 DEF CheckRoot, Proceed, OfLog
<1>6. SameLog(Data, log, cp.size) BY <1>3, <1>5, RootOfBinds
<1>7. \A i \in 1..cp.size : recs[i].data = log[i] BY <1>1, <1>6 DEF SameLog, Data
<1> QED BY <1>1, <1>7 DEF LinesOf

LEMMA ReadKeepsReader ==
  ASSUME ReaderInv, Read
  PROVE  ReaderInv'
<1>1. /\ UNCHANGED env /\ FilesOK' /\ OfLog(files.checkpoint)'
      /\ \A c : OfLog(c)' <=> OfLog(c)
      BY ReaderKeepsFiles
<1>2. log' = log /\ files' = files BY <1>1 DEF env
<1>3. CASE ReadCheckpoint
  <2>1. OfLog(cp)' BY <1>1, <1>2, <1>3 DEF ReadCheckpoint, ReaderInv, OfLog
  <2>2. pc' = "leaves" BY <1>3 DEF ReadCheckpoint
  <2>3. Established' BY <2>1, <2>2 DEF Established
  <2> QED BY <1>1, <2>2, <2>3, NotAnswered DEF ReaderInv
<1>4. CASE LoadLeaves
  <2>1. OfLog(cp)' BY <1>2, <1>4 DEF LoadLeaves, ReaderInv, Established, OfLog
  <2>2. pc' = "whole" BY <1>4 DEF LoadLeaves
  <2>3. DOMAIN recs' = 1..Len(files.leaves) /\ Len(files.leaves) \in Nat
        BY <1>4, LenProperties DEF LoadLeaves, Sorted, ReaderInv, FilesOK
  <2>4. Established' BY <2>1, <2>2, <2>3 DEF Established
  <2> QED BY <1>1, <2>2, <2>4, NotAnswered DEF ReaderInv
<1>5. CASE CheckWhole
  <2>1. OfLog(cp)' BY <1>2, <1>5 DEF CheckWhole, ReaderInv, Established, OfLog
  <2>2. PICK n \in Nat : DOMAIN recs = 1..n BY <1>5 DEF CheckWhole, ReaderInv, Established
  <2>3. Len(recs) = n BY <2>2
  <2>4. CASE pc' = "root"
    <3>1. /\ DOMAIN recs = 1..cp.size
          /\ \A i \in 1..cp.size : recs[i].index = i - 1
          BY <1>5, <2>2, <2>3, <2>4 DEF CheckWhole, Proceed
    <3>2. Established' BY <1>5, <2>1, <2>2, <2>4, <3>1 DEF CheckWhole, Established
    <3> QED BY <1>1, <2>4, <3>2, NotAnswered DEF ReaderInv
  <2>5. CASE pc' = "refused"
    <3>1. Established' BY <1>5, <2>1, <2>2, <2>5 DEF CheckWhole, Established
    <3> QED BY <1>1, <2>5, <3>1, NotAnswered DEF ReaderInv
  <2> QED BY <1>5, <2>4, <2>5 DEF CheckWhole, Proceed
<1>6. CASE CheckRoot
  <2>1. OfLog(cp)' BY <1>2, <1>6 DEF CheckRoot, ReaderInv, Established, OfLog
  <2>2. /\ \E n \in Nat : DOMAIN recs = 1..n
        /\ DOMAIN recs = 1..cp.size /\ \A i \in 1..cp.size : recs[i].index = i - 1
        BY <1>6 DEF CheckRoot, ReaderInv, Established
  <2>3. CASE pc' = "vkey"
    <3>1. LinesOf(recs, log, cp.size) BY <1>6, <2>3, RootCheckFindsTheTree
    <3>2. Established' BY <1>2, <1>6, <2>1, <2>2, <2>3, <3>1 DEF CheckRoot, Established
    <3> QED BY <1>1, <2>3, <3>2, NotAnswered DEF ReaderInv
  <2>4. CASE pc' = "refused"
    <3>1. Established' BY <1>6, <2>1, <2>2, <2>4 DEF CheckRoot, Established
    <3> QED BY <1>1, <2>4, <3>1, NotAnswered DEF ReaderInv
  <2> QED BY <1>6, <2>3, <2>4 DEF CheckRoot, Proceed
<1>7. CASE ReadLogKey \/ ReadTrustRoot \/ ReadWitnessKeys \/ Judge
  <2>1. OfLog(cp)'
        BY <1>2, <1>7
        DEF ReadLogKey, ReadTrustRoot, ReadWitnessKeys, Judge, ReaderInv, Established, OfLog
  <2>2. /\ pc \in {"vkey", "trust", "keys", "judge"}
        /\ pc' \in {"trust", "keys", "judge", "answer", "refused"}
        /\ UNCHANGED <<cp, recs>>
        BY <1>7 DEF ReadLogKey, ReadTrustRoot, ReadWitnessKeys, Judge, Proceed
  <2>3. pc' = "answer" => Vouched'
        BY <1>7 DEF ReadLogKey, ReadTrustRoot, ReadWitnessKeys, Judge, Proceed, Vouched
  <2>4. Established' BY <1>2, <2>1, <2>2, <2>3 DEF ReaderInv, Established
  <2> QED BY <1>1, <2>2, <2>4, NotAnswered DEF ReaderInv
<1>8. CASE RefuseBeyondHead \/ RaiseAtZero \/ RaiseAtNonObject
  <2>1. OfLog(cp)'
        BY <1>2, <1>8
        DEF RefuseBeyondHead, RaiseAtZero, RaiseAtNonObject, ReaderInv, Established, OfLog
  <2>2. pc = "answer" /\ pc' \in {"refused", "raised"} /\ UNCHANGED <<cp, recs>>
        BY <1>8 DEF RefuseBeyondHead, RaiseAtZero, RaiseAtNonObject
  <2>3. Established' BY <1>2, <2>1, <2>2 DEF ReaderInv, Established
  <2> QED BY <1>1, <2>2, <2>3, NotAnswered DEF ReaderInv
<1>9. CASE AnswerSearch
  <2>1. OfLog(cp) /\ LinesOf(recs, log, cp.size)
        BY <1>9 DEF AnswerSearch, ReaderInv, Established
  <2>2. OfLog(cp)' BY <1>2, <1>9, <2>1 DEF AnswerSearch, OfLog
  <2>3. /\ pc' = "answered" /\ UNCHANGED <<cp, recs>> /\ ask' \in SearchAsks
        /\ answer' = [hits |-> SearchHits(ask', recs), size |-> cp.size, root |-> cp.root,
                      absent |-> SearchHits(ask', recs) = {}]
        BY <1>9 DEF AnswerSearch
  <2>4. cp.size \in Nat /\ cp.size \in 0..Len(log) /\ log \in Seq(Contents)
        BY <2>1 DEF OfLog, ReaderInv, FilesOK
  <2>5. ask'.tool = "search" BY <2>3 DEF SearchAsks
  <2>6. SearchHits(ask', recs) = SearchHits(ask', LeavesFile(SubSeq(log, 1, cp.size)))
        BY <2>1, <2>4, SearchHitsSame
  <2>7. answer'.size <= Len(log) /\ answer'.root = RootOf(log, answer'.size)
        BY <2>1, <2>3, LenProperties, <2>4 DEF OfLog
  <2>8. AnswerIsAboutCommittedTree'
        BY <1>2, <2>3, <2>5, <2>6, <2>7 DEF AnswerIsAboutCommittedTree
  <2>9. AbsentMeansNoHit'
    <3>1. /\ answer'.size \in Nat /\ answer'.size <= cp'.size
          /\ answer'.absent => answer'.hits = {}
      <4>1. /\ answer'.size = cp.size /\ cp' = cp
            /\ answer'.hits = SearchHits(ask', recs)
            /\ answer'.absent = (SearchHits(ask', recs) = {})
            BY <2>3
      <4>2. answer'.size \in Nat /\ answer'.size <= cp'.size BY <2>4, <4>1
      <4>3. answer'.absent => answer'.hits = {} BY <4>1
      <4> QED BY <4>2, <4>3
    <3>2. ask' \in SearchAsks \cup ReduceAsks BY <2>3
    <3>3. ask'.tool # "reduce" BY <2>5
    <3>4. SearchAsks' = SearchAsks /\ ReduceAsks' = ReduceAsks BY DEF SearchAsks, ReduceAsks
    <3> QED BY <3>1, <3>2, <3>3, <3>4 DEF AbsentMeansNoHit
  <2>10. Vouched' BY <1>9 DEF AnswerSearch, ReaderInv, Established, Vouched
  <2>11. Established' BY <2>1, <2>2, <2>3, <2>4, <2>10 DEF Established, LinesOf
  <2> QED BY <1>1, <2>8, <2>9, <2>11 DEF ReaderInv
<1>10. CASE AnswerReduce
  <2> DEFINE n == AsOf(ask')
  <2>1. OfLog(cp) /\ LinesOf(recs, log, cp.size)
        BY <1>10 DEF AnswerReduce, ReaderInv, Established
  <2>2. OfLog(cp)' BY <1>2, <1>10, <2>1 DEF AnswerReduce, OfLog
  <2>3. /\ pc' = "answered" /\ UNCHANGED <<cp, recs>> /\ ask' \in ReduceAsks
        /\ n <= cp.size
        /\ answer' = [hits |-> RowHits(ask', Data, n), size |-> n, root |-> RootOf(Data, n),
                      absent |-> RowHits(ask', Data, n) = {} /\ SetAside(Data, n) = {}]
        BY <1>10 DEF AnswerReduce
  <2>4. cp.size \in Nat /\ cp.size \in 0..Len(log) /\ Len(log) \in Nat
        BY <2>1, LenProperties DEF OfLog, ReaderInv, FilesOK
  <2>5. n \in Nat
    <3>1. ask'.as_of \in 0..(MaxSize + 1) \cup {NotGiven} BY <2>3 DEF ReduceAsks
    <3> QED BY <2>4, <3>1, VerifiedExportAssumption DEF AsOf
  <2>6. ask'.tool = "reduce" BY <2>3 DEF ReduceAsks
  <2>7. SameLog(Data, log, n)
    <3>1. \A i \in 1..n : i \in 1..cp.size BY <2>3, <2>4, <2>5
    <3> HIDE DEF n
    <3> QED BY <2>1, <3>1 DEF LinesOf, SameLog, Data
  <2> HIDE DEF n
  <2>8. /\ RowHits(ask', Data, n) = RowHits(ask', log, n)
        /\ RootOf(Data, n) = RootOf(log, n)
        /\ SetAside(Data, n) = SetAside(log, n)
        BY <2>5, <2>7, RowHitsSame, RootOfSame, SetAsideSame
  <2>9. AnswerIsAboutCommittedTree'
        BY <1>2, <2>3, <2>4, <2>5, <2>6, <2>8 DEF AnswerIsAboutCommittedTree
  <2>10. AbsentMeansNoHit' BY <1>2, <2>3, <2>5, <2>6, <2>8 DEF AbsentMeansNoHit
  <2>11. Vouched' BY <1>10 DEF AnswerReduce, ReaderInv, Established, Vouched
  <2>12. Established' BY <2>1, <2>2, <2>3, <2>4, <2>11 DEF Established, LinesOf
  <2> QED BY <1>1, <2>9, <2>10, <2>12 DEF ReaderInv
<1> QED BY <1>3, <1>4, <1>5, <1>6, <1>7, <1>8, <1>9, <1>10 DEF Read

LEMMA ReaderInvKept == ReaderInv /\ [Next]_vars => ReaderInv'
<1> SUFFICES ASSUME ReaderInv, [Next]_vars PROVE ReaderInv'
    OBVIOUS
<1>1. CASE UNCHANGED vars
      BY <1>1 DEF vars, env, reader, ReaderInv, FilesOK, OfLog, Established, Vouched, LinesOf,
                  AnswerIsAboutCommittedTree, AbsentMeansNoHit
<1> QED BY <1>1, ReadKeepsReader, EnvironmentKeepsReader DEF Next

\* Whatever is refreshed or damaged between two reads: the reader gets past each
\* check with what the check is for, and at the last holds the log's own leaves.
THEOREM ReaderHoldsTheTree == Spec => []ReaderInv
BY InitReader, ReaderInvKept, PTL DEF Spec

\* tlogsearch.main and reduce.main answer from the log's own first leaves, under
\* the root they print, for a log of any size and any order of events.
THEOREM AnswersAreOfTheTree == Spec => []AnswerIsAboutCommittedTree
<1>1. ReaderInv => AnswerIsAboutCommittedTree BY DEF ReaderInv
<1> QED BY <1>1, ReaderHoldsTheTree, PTL

\* The leaf d is not what was asked for, and could not have been.
NoMatch(d) ==
  IF ask.tool = "search" THEN d \notin ask.wanted
  ELSE /\ Verdict(d) = "keyed"
       /\ ~(/\ ask.issuer \in {NotGiven, IssuerOf(d.obj)}
            /\ ask.subject \in {NotGiven, SubjectOf(d.obj)})

LEMMA NoHitMeansAbsent == ReaderInv => AbsenceIsHonest
<1> SUFFICES ASSUME ReaderInv, pc = "answered", answer.absent
             PROVE  /\ \A i \in 1..answer.size : NoMatch(log[i])
                    /\ answer.size <= cp.size /\ cp.root = RootOf(log, cp.size)
                    /\ Vouched
    BY DEF AbsenceIsHonest, NoMatch
<1>1. /\ answer.size <= cp.size /\ cp.root = RootOf(log, cp.size)
      /\ Vouched
      BY DEF ReaderInv, Established, AbsentMeansNoHit, OfLog
<1> SUFFICES ASSUME NEW i \in 1..answer.size PROVE NoMatch(log[i])
    BY <1>1
<1> DEFINE n == answer.size
<1>2. /\ n \in Nat /\ n <= Len(log) /\ answer.hits = {} /\ log \in Seq(Contents)
      /\ ask \in SearchAsks \cup ReduceAsks
      BY DEF ReaderInv, AbsentMeansNoHit, AnswerIsAboutCommittedTree, FilesOK
<1>3. CASE ask.tool = "search"
  <2>1. SearchHits(ask, LeavesFile(SubSeq(log, 1, n))) = {}
        BY <1>2, <1>3 DEF ReaderInv, AnswerIsAboutCommittedTree
  <2> DEFINE sub == LeavesFile(SubSeq(log, 1, n))
  <2>2. LinesOf(sub, log, n) 
    <3>1. 1 \in Int /\ n \in Int /\ \A j \in 1..n : log[j] \in Contents
          BY <1>2, ElementOfSeq, LenProperties
    <3>2. /\ Len(SubSeq(log, 1, n)) = IF 1 <= n THEN n - 1 + 1 ELSE 0
          /\ \A j \in 1..(n - 1 + 1) : SubSeq(log, 1, n)[j] = log[1 + j - 1]
          BY <3>1, SubSeqProperties
    <3> QED BY <1>2, <3>2 DEF LinesOf, LeavesFile
  <2>3. SearchHits(ask, sub) = {j - 1 : j \in {j \in 1..n : log[j] \in ask.wanted}}
    <3> HIDE DEF sub, n
    <3> QED BY <1>2, <2>2, SearchHitsOfLines
  <2> QED BY <1>3, <2>1, <2>3 DEF NoMatch
<1>4. CASE ask.tool # "search"
  <2>1. ask.tool = "reduce" BY <1>2, <1>4 DEF SearchAsks, ReduceAsks
  <2>2. SetAside(log, n) = {} /\ RowHits(ask, log, n) = {}
        BY <1>2, <1>4, <2>1 DEF ReaderInv, AbsentMeansNoHit, AnswerIsAboutCommittedTree
  <2>3. i - 1 \in 0..(n - 1) /\ (i - 1) + 1 = i BY <1>2
  <2>4. Verdict(log[i]) = "keyed" BY <2>2, <2>3 DEF SetAside
  <2>5. Key(log[i]) \in KeysOf(log, n) BY <2>3, <2>4 DEF KeysOf
  <2>6. \A k \in KeysOf(log, n) :
          ~(ask.issuer \in {NotGiven, k[1]} /\ ask.subject \in {NotGiven, k[2]})
        BY <2>2 DEF RowHits
  <2> QED BY <1>4, <2>4, <2>5, <2>6 DEF Key, NoMatch
<1> QED BY <1>3, <1>4

\* A miss that tlogsearch.main or reduce.main leaves to stand is true of the log's own
\* leaves, and was claimed under a head of the log that the log's key has signed and
\* for which verify_checkpoint counted the quorum the trust root states.
THEOREM AbsencesAreHonest == Spec => []AbsenceIsHonest
BY NoHitMeansAbsent, ReaderHoldsTheTree, PTL

-----------------------------------------------------------------------------

\* A file whose lines are those of the n first leaves, once each.
Complete(f, lv, n) ==
  /\ Len(f) = n
  /\ {f[i] : i \in DOMAIN f} = {[index |-> i - 1, data |-> lv[i]] : i \in 1..n}

\* No two lines of such a file state the same index.
LEMMA IndicesDiffer ==
  ASSUME NEW f \in Seq(Lines), NEW lv, NEW n \in Nat, Complete(f, lv, n)
  PROVE  /\ \A i \in 1..n : f[i].index + 1 \in 1..n /\ f[i].data = lv[f[i].index + 1]
         /\ \A k \in 1..n : \E i \in 1..n : f[i].index + 1 = k
         /\ \A i, j \in 1..n : f[i].index = f[j].index => i = j
<1> DEFINE g == [i \in 1..n |-> f[i].index + 1]
<1>1. DOMAIN f = 1..n /\ \A i \in 1..n : f[i] \in Lines
      BY LenProperties, ElementOfSeq DEF Complete
<1>2. \A i \in 1..n : \E k \in 1..n : f[i] = [index |-> k - 1, data |-> lv[k]]
      BY <1>1 DEF Complete
<1>3. \A i \in 1..n : f[i].index + 1 \in 1..n /\ f[i].data = lv[f[i].index + 1]
  <2> TAKE i \in 1..n
  <2>1. PICK k \in 1..n : f[i] = [index |-> k - 1, data |-> lv[k]] BY <1>2
  <2>2. f[i].index + 1 = k BY <2>1
  <2> QED BY <2>1, <2>2
<1>4. \A k \in 1..n : \E i \in 1..n : f[i].index + 1 = k
  <2> TAKE k \in 1..n
  <2>1. [index |-> k - 1, data |-> lv[k]] \in {f[i] : i \in DOMAIN f} BY DEF Complete
  <2>2. PICK i \in 1..n : f[i] = [index |-> k - 1, data |-> lv[k]] BY <1>1, <2>1
  <2> QED BY <2>2
<1>5. g \in Surjection(1..n, 1..n) BY <1>3, <1>4 DEF Surjection
<1>6. IsFiniteSet(1..n) BY FS_Interval
<1>7. g \in Injection(1..n, 1..n)
  <2> HIDE DEF g
  <2> QED BY <1>5, <1>6, FS_SurjSameCardinalityImpliesInj
<1>8. \A i, j \in 1..n : f[i].index = f[j].index => i = j
  <2> SUFFICES ASSUME NEW i \in 1..n, NEW j \in 1..n, f[i].index = f[j].index PROVE i = j
      OBVIOUS
  <2>1. g[i] = g[j] /\ DOMAIN g = 1..n OBVIOUS
  <2> HIDE DEF g
  <2> QED BY <1>7, <2>1 DEF Injection, IsInjective
<1> QED BY <1>3, <1>4, <1>8

\* As many lines go before the line of an index as the index says.
LEMMA PlaceOfLine ==
  ASSUME NEW f \in Seq(Lines), NEW lv, NEW n \in Nat, Complete(f, lv, n), NEW i \in 1..n
  PROVE  Cardinality({j \in DOMAIN f : \/ f[j].index < f[i].index
                                       \/ f[j].index = f[i].index /\ j < i}) = f[i].index
<1> DEFINE B == {j \in DOMAIN f : \/ f[j].index < f[i].index
                                  \/ f[j].index = f[i].index /\ j < i}
           h == [j \in B |-> f[j].index + 1]
<1>1. DOMAIN f = 1..n /\ \A j \in 1..n : f[j] \in Lines
      BY LenProperties, ElementOfSeq DEF Complete
<1>2. /\ \A j \in 1..n : f[j].index + 1 \in 1..n
      /\ \A k \in 1..n : \E j \in 1..n : f[j].index + 1 = k
      /\ \A j, k \in 1..n : f[j].index = f[k].index => j = k
      BY IndicesDiffer
<1>3. \A j \in 1..n : f[j].index \in Nat BY <1>1 DEF Lines
<1>10. f[i].index \in Nat /\ f[i].index + 1 \in 1..n BY <1>2, <1>3
<1>4. B = {j \in 1..n : f[j].index < f[i].index}
  <2>1. ASSUME NEW j \in 1..n, f[j].index = f[i].index PROVE ~(j < i)
    <3> HIDE DEF B, h
    <3>1. j = i BY <1>2, <2>1
    <3> QED BY <3>1
  <2> QED BY <1>1, <2>1
<1>5. h \in [B -> 1..f[i].index]
  <2>1. \A j \in B : f[j].index + 1 \in 1..f[i].index BY <1>3, <1>4
  <2> QED BY <2>1
<1>6. h \in Injection(B, 1..f[i].index)
  <2>1. ASSUME NEW j \in B, NEW k \in B, f[j].index + 1 = f[k].index + 1 PROVE j = k
    <3>1. j \in 1..n /\ k \in 1..n BY <1>4
    <3>2. f[j].index \in Nat /\ f[k].index \in Nat BY <1>3, <3>1
    <3>3. f[j].index = f[k].index BY <2>1, <3>2
    <3> QED BY <1>2, <3>1, <3>3
  <2>2. IsInjective(h) BY <2>1 DEF IsInjective
  <2> QED BY <1>5, <2>2 DEF Injection
<1>7. h \in Surjection(B, 1..f[i].index)
  <2>1. ASSUME NEW t \in 1..f[i].index PROVE \E j \in B : h[j] = t
    <3>1. t \in 1..n BY <1>10
    <3>2. PICK j \in 1..n : f[j].index + 1 = t BY <1>2, <3>1
    <3>3. f[j].index < f[i].index
      <4>1. f[j].index \in Nat /\ f[i].index \in Nat BY <1>3
      <4> QED BY <3>2, <4>1
    <3> HIDE DEF B, h
    <3>4. j \in B BY <1>4, <3>3
    <3>5. h[j] = t BY <3>2, <3>4 DEF h
    <3> QED BY <3>4, <3>5
  <2> QED BY <1>5, <2>1 DEF Surjection
<1>8. IsFiniteSet(1..n) /\ B \in SUBSET (1..n) BY <1>4, FS_Interval
<1>9. IsFiniteSet(B)
  <2> HIDE DEF B
  <2> QED BY <1>8, FS_Subset
<1>11. Cardinality(1..f[i].index) = f[i].index
  <2>1. \A m \in Nat : Cardinality(1..m) = m
    <3> TAKE m \in Nat
    <3>1. Cardinality(1..m) = IF 1 > m THEN 0 ELSE m - 1 + 1 BY FS_Interval
    <3> QED BY <3>1
  <2> QED BY <1>10, <2>1
<1>12. ExistsBijection(B, 1..f[i].index) BY <1>6, <1>7 DEF ExistsBijection, Bijection
<1>13. Cardinality(B) = f[i].index
  <2> HIDE DEF B, h
  <2> QED BY <1>9, <1>11, <1>12, FS_Bijection
<1> QED BY <1>13

\* Sorting such a file puts every line in its place.
LEMMA SortedIsLinesOf ==
  ASSUME NEW f \in Seq(Lines), NEW lv, NEW n \in Nat, Complete(f, lv, n)
  PROVE  LinesOf(Sorted(f), lv, n)
<1>1. DOMAIN f = 1..n /\ \A i \in 1..n : f[i] \in Lines
      BY LenProperties, ElementOfSeq DEF Complete
<1>2. /\ \A i \in 1..n : f[i].index + 1 \in 1..n /\ f[i].data = lv[f[i].index + 1]
      /\ \A k \in 1..n : \E i \in 1..n : f[i].index + 1 = k
      /\ \A i, j \in 1..n : f[i].index = f[j].index => i = j
      BY IndicesDiffer
<1> DEFINE place(i) == Cardinality({j \in DOMAIN f : \/ f[j].index < f[i].index
                                                     \/ f[j].index = f[i].index /\ j < i}) + 1
<1>3. Sorted(f) = [k \in DOMAIN f |-> f[CHOOSE i \in DOMAIN f : place(i) = k]] BY DEF Sorted
<1>4. \A i \in 1..n : place(i) = f[i].index + 1 BY PlaceOfLine
<1> HIDE DEF place
<1>5. ASSUME NEW k \in 1..n PROVE Sorted(f)[k].index = k - 1 /\ Sorted(f)[k].data = lv[k]
  <2> DEFINE c == CHOOSE i \in DOMAIN f : place(i) = k
  <2>1. \E i \in DOMAIN f : place(i) = k BY <1>1, <1>2, <1>4
  <2>2. c \in DOMAIN f /\ place(c) = k BY <2>1
  <2>3. Sorted(f)[k] = f[c] BY <1>1, <1>3
  <2> HIDE DEF c
  <2>4. f[c].index + 1 = k /\ c \in 1..n BY <1>1, <1>4, <2>2
  <2>5. f[c].index \in Nat BY <1>1, <2>4 DEF Lines
  <2>6. f[c].index = k - 1 BY <2>4, <2>5
  <2>7. f[c].data = lv[k] BY <1>2, <2>4
  <2> QED BY <2>3, <2>6, <2>7
<1> QED BY <1>1, <1>3, <1>5 DEF LinesOf

\* While nothing changes, what the reader has read is what the directory holds.
QuietInv ==
  /\ quiet =>
       /\ pc # "checkpoint" => cp = files.checkpoint
       /\ pc \notin {"checkpoint", "leaves"} => recs = Sorted(files.leaves)
       /\ pc \in {"trust", "keys", "judge", "answer"} => log_kid = files.log_vkey
       /\ pc \in {"keys", "judge", "answer"} => tr = files.trust_root
       /\ pc \in {"judge", "answer"} => pinned = files.witness_keys
  /\ SoundExportIsAnswered

\* A sound directory passes the checks of the leaves.
LEMMA SoundLeavesPass ==
  ASSUME ReaderInv, Coherent, cp = files.checkpoint, recs = Sorted(files.leaves),
         pc # "checkpoint"
  PROVE  /\ Len(recs) = cp.size /\ \A i \in DOMAIN recs : recs[i].index = i - 1
         /\ RootOf(Data, Len(recs)) = cp.root
<1>1. OfLog(cp) /\ files.leaves \in Seq(Lines) BY DEF ReaderInv, Established, FilesOK
<1>2. cp.size \in Nat BY <1>1 DEF OfLog
<1>3. Complete(files.leaves, log, cp.size) BY DEF Coherent, Complete
<1>4. LinesOf(recs, log, cp.size) BY <1>1, <1>2, <1>3, SortedIsLinesOf
<1>5. Len(recs) = cp.size BY <1>2, <1>4 DEF LinesOf
<1>6. \A i \in 1..cp.size : i \in DOMAIN recs /\ recs[i].index = i - 1 /\ recs[i].data = log[i]
      BY <1>4 DEF LinesOf
<1>7. SameLog(Data, log, cp.size) BY <1>6 DEF SameLog, Data
<1>8. RootOf(Data, cp.size) = cp.root BY <1>1, <1>2, <1>7, RootOfSame DEF OfLog
<1> QED BY <1>4, <1>5, <1>6, <1>8 DEF LinesOf

LEMMA InitQuiet == Init => QuietInv
BY DEF Init, QuietInv, SoundExportIsAnswered

\* A step of the reader alone.
LEMMA ReadKeepsQuiet ==
  ASSUME ReaderInv, QuietInv, Read
  PROVE  QuietInv'
<1>1. UNCHANGED <<log, files, changes, quiet>> /\ (Coherent' <=> Coherent)
      BY DEF Read, ReadCheckpoint, LoadLeaves, CheckWhole, CheckRoot, ReadLogKey,
             ReadTrustRoot, ReadWitnessKeys, Judge, RaiseAtNonObject, AnswerSearch,
             RefuseBeyondHead, RaiseAtZero, AnswerReduce,
             env, Coherent
<1>2. CASE ~quiet BY <1>1, <1>2 DEF QuietInv, SoundExportIsAnswered
<1>3. CASE quiet
  <2>1. CASE ReadCheckpoint \/ LoadLeaves \/ ReadLogKey \/ ReadTrustRoot \/ ReadWitnessKeys
        BY <1>1, <1>3, <2>1
        DEF QuietInv, SoundExportIsAnswered, ReadCheckpoint, LoadLeaves, ReadLogKey,
            ReadTrustRoot, ReadWitnessKeys
  <2>2. CASE CheckWhole \/ CheckRoot
    <3>1. /\ cp = files.checkpoint /\ recs = Sorted(files.leaves) /\ pc \in {"whole", "root"}
          /\ UNCHANGED <<cp, recs, log_kid, tr, pinned>>
          BY <1>3, <2>2 DEF QuietInv, CheckWhole, CheckRoot
    <3>2. pc' = "refused" => ~Coherent BY <2>2, <3>1, SoundLeavesPass DEF CheckWhole, CheckRoot, Proceed
    <3>3. pc' \in {"root", "vkey", "refused"} BY <2>2 DEF CheckWhole, CheckRoot, Proceed
    <3> QED BY <1>1, <1>3, <3>1, <3>2, <3>3 DEF QuietInv, SoundExportIsAnswered
  <2>3. CASE Judge
    <3>1. /\ cp = files.checkpoint /\ log_kid = files.log_vkey
          /\ tr = files.trust_root /\ pinned = files.witness_keys
          /\ recs = Sorted(files.leaves) /\ UNCHANGED <<cp, recs, log_kid, tr, pinned>>
          BY <1>3, <2>3 DEF QuietInv, Judge
    <3>2. pc' = "refused" => ~Coherent BY <2>3, <3>1 DEF Judge, Proceed, Vouched, Coherent
    <3>3. pc' \in {"answer", "refused"} BY <2>3 DEF Judge, Proceed
    <3> QED BY <1>1, <1>3, <3>1, <3>2, <3>3 DEF QuietInv, SoundExportIsAnswered
  <2>4. CASE RefuseBeyondHead
    <3>1. /\ cp = files.checkpoint /\ recs = Sorted(files.leaves) /\ UNCHANGED <<cp, recs>>
          /\ pc' = "refused" /\ ask' \in ReduceAsks /\ AsOf(ask') > cp.size
          BY <1>3, <2>4 DEF QuietInv, RefuseBeyondHead
    <3>2. (ask \in ReduceAsks /\ AsOf(ask) > files.checkpoint.size)'
          BY <1>1, <3>1 DEF AsOf, ReduceAsks
    <3> QED BY <1>1, <1>3, <3>1, <3>2 DEF QuietInv, SoundExportIsAnswered
  <2>5. CASE RaiseAtZero \/ RaiseAtNonObject \/ AnswerSearch \/ AnswerReduce
        BY <1>1, <1>3, <2>5
        DEF QuietInv, SoundExportIsAnswered, RaiseAtZero, RaiseAtNonObject, AnswerSearch,
            AnswerReduce
  <2> QED BY <2>1, <2>2, <2>3, <2>4, <2>5 DEF Read
<1> QED BY <1>2, <1>3

LEMMA QuietInvKept == ReaderInv /\ QuietInv /\ [Next]_vars => QuietInv'
<1> SUFFICES ASSUME ReaderInv, QuietInv, [Next]_vars PROVE QuietInv'
    OBVIOUS
<1>1. CASE Environment
  <2>1. quiet' => pc = "checkpoint" /\ pc' = pc
        BY <1>1 DEF Environment, Grow, PublishCheckpoint, PublishLeaves, PublishKeys,
                    DamageLeaves, Change, reader
  <2> QED BY <2>1 DEF QuietInv, SoundExportIsAnswered
<1>2. CASE UNCHANGED vars
      BY <1>2 DEF vars, env, reader, QuietInv, SoundExportIsAnswered, Coherent, CommitsReduction, AsOf
<1> QED BY <1>1, <1>2, ReadKeepsQuiet DEF Next

\* "It refuses rather than degrades", but an export that nobody touches and that is
\* sound is not refused by tlogsearch.main, nor by reduce.main for a tree in which
\* the log commits the reduction: for any number of leaves in any order of the lines.
THEOREM SoundExportsAreAnswered == Spec => []SoundExportIsAnswered
<1>1. QuietInv => SoundExportIsAnswered BY DEF QuietInv
<1> QED BY <1>1, InitQuiet, QuietInvKept, ReaderHoldsTheTree, PTL DEF Spec
=============================================================================
