-------------------------- MODULE FetchHeadersProofs --------------------------
(***************************************************************************)
(* For ranges, batches and chains of every size, and however the server,   *)
(* the chain and the process fail: what has been fetched is not lost, and  *)
(* is not fetched again.                                                   *)
(*                                                                         *)
(* What is on disk for the --to of a run is never more than the run holds, *)
(* so that saving loses nothing, and the progress file, which then is what *)
(* the run holds, is removed only once headers.bin holds the range.        *)
(*                                                                         *)
(* The heights that are missing can be covered by as many batches as are   *)
(* still allowed: an answer takes one of them off, and every way to need   *)
(* one more is paid for by a fault.                                        *)
(***************************************************************************)
EXTENDS FetchHeaders, FiniteSetTheorems, TLAPS

ServerTyped == chain \in [0..Tip -> Header] /\ reorgs \in 0..MaxReorgs

ProgressTyped == progress # Missing => progress \in [hi : 0..Tip, headers : Headers]

ProcessTyped == have \in Headers /\ (pc # "idle" => range \in Ranges)

\* Saving never takes away from what is saved for this --to.
HoldsWhatIsSaved ==
  pc # "idle" /\ progress # Missing /\ progress.hi = range.hi =>
    DOMAIN progress.headers \subseteq DOMAIN have

\* From the last save on the progress file is what the run holds, and it goes when
\* headers.bin is whole.
BinIsWhole ==
  /\ pc \in {"count", "write", "remove"} => progress = Saved
  /\ pc = "write" => Heights(range) \subseteq DOMAIN have
  /\ pc = "remove" =>
       /\ bin # Missing /\ bin.of = range
       /\ bin.headers = [h \in Heights(range) |-> have[h]]

Inv == ServerTyped /\ ProgressTyped /\ ProcessTyped /\ HoldsWhatIsSaved /\ BinIsWhole

\* What FetchedIsNeverLost asks of a step.
Keeps == ProgressIsKept /\ BinIsKept

-----------------------------------------------------------------------------

LEMMA HeadersAreFunctions ==
  ASSUME NEW S \in SUBSET (0..Tip), NEW f \in [S -> Header] PROVE f \in Headers
BY DEF Headers

LEMMA HeadersDomain ==
  ASSUME NEW f \in Headers
  PROVE  DOMAIN f \in SUBSET (0..Tip) /\ f \in [DOMAIN f -> Header]
BY DEF Headers

LEMMA NoneIsHeaders == None \in Headers /\ DOMAIN None = {}
<1>1. None \in [{} -> Header] BY DEF None
<1> QED BY <1>1, HeadersAreFunctions DEF None

LEMMA HeightsInChain == ASSUME NEW r \in Ranges PROVE Heights(r) \subseteq 0..Tip
BY FetchAssumption, FilesAssumption DEF Heights

LEMMA InitInv == Init => Inv
<1> SUFFICES ASSUME Init PROVE Inv OBVIOUS
<1>1. ServerTyped
  <2>1. MaxReorgs \in Nat BY FetchAssumption
  <2>2. [on |-> 0, prev |-> 0] \in Header BY <2>1 DEF Header, Branch
  <2> QED BY <2>1, <2>2 DEF Init, ServerTyped
<1>2. ProgressTyped /\ ProcessTyped /\ HoldsWhatIsSaved /\ BinIsWhole
      BY NoneIsHeaders DEF Init, ProgressTyped, ProcessTyped, HoldsWhatIsSaved, BinIsWhole
<1> QED BY <1>1, <1>2 DEF Inv

LEMMA ReorgInv == ASSUME Inv, Reorg PROVE Inv'
<1>1. UNCHANGED <<progress, bin, pc, range, have>> BY DEF Reorg, files, process
<1>2. PICK f \in 1..Tip :
        chain' = [h \in 0..Tip |->
                   IF h < f THEN chain[h]
                   ELSE [on |-> reorgs + 1,
                         prev |-> IF h = f THEN chain[h - 1].on ELSE reorgs + 1]]
      BY DEF Reorg
<1>3. reorgs + 1 \in Branch /\ reorgs' \in 0..MaxReorgs
      BY FetchAssumption DEF Reorg, Inv, ServerTyped, Branch
<1>4. ASSUME NEW h \in 0..Tip, ~(h < f)
      PROVE  [on |-> reorgs + 1, prev |-> IF h = f THEN chain[h - 1].on ELSE reorgs + 1] \in Header
  <2>1. CASE h = f
    <3>1. h - 1 \in 0..Tip BY <2>1, FilesAssumption
    <3>2. chain[h - 1].on \in Branch BY <3>1 DEF Inv, ServerTyped, Header
    <3> QED BY <1>3, <2>1, <3>2 DEF Header
  <2>2. CASE h # f BY <1>3, <2>2 DEF Header
  <2> QED BY <2>1, <2>2
<1>5. ServerTyped' BY <1>2, <1>3, <1>4 DEF ServerTyped, Inv
<1> QED BY <1>1, <1>5 DEF Inv, ProgressTyped, ProcessTyped, HoldsWhatIsSaved, BinIsWhole, Heights, Saved

LEMMA StartInv == ASSUME Inv, Start PROVE Inv'
<1>1. /\ UNCHANGED <<chain, reorgs, progress>> /\ pc' = "walk" /\ range' \in Ranges
      /\ have' = IF progress # Missing /\ progress.hi = range'.hi THEN progress.headers ELSE None
      BY DEF Start, files
<1>2. progress # Missing => progress.headers \in Headers BY DEF Inv, ProgressTyped
<1>3. have' \in Headers BY <1>1, <1>2, NoneIsHeaders
<1>4. HoldsWhatIsSaved' BY <1>1 DEF HoldsWhatIsSaved
<1> QED BY <1>1, <1>3, <1>4 DEF Inv, ServerTyped, ProgressTyped, ProcessTyped, BinIsWhole

\* A batch adds to what the run holds.
LEMMA AnswerInv == ASSUME Inv, Answer PROVE Inv'
<1> DEFINE from == IF height - Batch + 1 > 0 THEN height - Batch + 1 ELSE 0
           held == DOMAIN have \cup ((from..height) \cap Heights(range))
<1>1. /\ have' = [h \in held |-> IF h \in from..height THEN chain[h] ELSE have[h]]
      /\ UNCHANGED <<chain, reorgs, progress, bin, range>> /\ pc = "walk" /\ pc' = "flush"
      BY DEF Answer, Asks, files
<1> HIDE DEF from
<1>2. range \in Ranges /\ have \in Headers BY <1>1 DEF Inv, ProcessTyped
<1>3. DOMAIN have \in SUBSET (0..Tip) /\ have \in [DOMAIN have -> Header]
      BY <1>2, HeadersDomain
<1>4. held \in SUBSET (0..Tip) BY <1>2, <1>3, HeightsInChain
<1>5. have' \in [held -> Header]
  <2> SUFFICES ASSUME NEW h \in held
               PROVE  (IF h \in from..height THEN chain[h] ELSE have[h]) \in Header
      BY <1>1
  <2>1. chain[h] \in Header BY <1>4 DEF Inv, ServerTyped
  <2>2. h \notin from..height => have[h] \in Header BY <1>3
  <2> QED BY <2>1, <2>2
<1>6. have' \in Headers BY <1>4, <1>5, HeadersAreFunctions
<1>7. DOMAIN have \subseteq DOMAIN have' BY <1>1
<1>8. HoldsWhatIsSaved' BY <1>1, <1>7 DEF Inv, HoldsWhatIsSaved
<1> QED BY <1>1, <1>2, <1>6, <1>8 DEF Inv, ServerTyped, ProgressTyped, ProcessTyped, BinIsWhole

\* What is saved is what the run holds.
LEMMA SavedIsProgress ==
  ASSUME Inv, pc # "idle"
  PROVE  /\ Saved \in [hi : 0..Tip, headers : Headers] /\ Saved # Missing
         /\ Saved.hi = range.hi /\ Saved.headers = have
<1>1. range \in Ranges /\ have \in Headers BY DEF Inv, ProcessTyped
<1>2. range.hi \in 0..Tip BY <1>1, FilesAssumption
<1>3. Saved \in [hi : 0..Tip, headers : Headers] BY <1>1, <1>2 DEF Saved
<1> QED BY <1>3, FilesAssumption DEF Saved

LEMMA SavedKeeps ==
  ASSUME Inv, pc # "idle", progress' = Saved, bin' = bin
  PROVE  ProgressTyped' /\ Keeps
<1>1. /\ Saved \in [hi : 0..Tip, headers : Headers] /\ Saved # Missing
      /\ Saved.hi = range.hi /\ Saved.headers = have
      BY SavedIsProgress
<1>2. ProgressTyped' BY <1>1 DEF ProgressTyped
<1>3. ProgressIsKept BY <1>1 DEF ProgressIsKept, Inv, HoldsWhatIsSaved
<1> QED BY <1>2, <1>3 DEF Keeps, BinIsKept

\* Steps of a run that save what it holds, and go on or end.
LEMMA SavingInv ==
  ASSUME Inv, pc # "idle", progress' = Saved, UNCHANGED <<chain, reorgs, bin>>,
         \/ pc' \in {"walk", "count"} /\ UNCHANGED <<range, have>>
         \/ Exit
  PROVE  Inv' /\ Keeps
<1>1. ProgressTyped' /\ Keeps /\ Saved.hi = range.hi /\ Saved.headers = have
      BY SavedKeeps, SavedIsProgress
<1>2. ProcessTyped' BY NoneIsHeaders DEF Inv, ProcessTyped, Exit
<1>3. HoldsWhatIsSaved' BY <1>1 DEF HoldsWhatIsSaved, Exit
<1>4. BinIsWhole' BY DEF BinIsWhole, Exit, Saved
<1> QED BY <1>1, <1>2, <1>3, <1>4 DEF Inv, ServerTyped

\* Steps that leave the progress file, what the run holds and headers.bin alone.
LEMMA QuietInv ==
  ASSUME Inv, UNCHANGED <<chain, reorgs, progress, bin>>,
         \/ pc' = pc /\ UNCHANGED <<range, have>>
         \/ pc # "idle" /\ pc' = "flush" /\ UNCHANGED <<range, have>>
         \/ Exit
  PROVE  Inv'
<1>1. ProcessTyped' BY NoneIsHeaders DEF Inv, ProcessTyped, Exit
<1>2. HoldsWhatIsSaved' BY DEF Inv, HoldsWhatIsSaved, Exit
<1>3. BinIsWhole' BY DEF Inv, BinIsWhole, Exit, Heights, Saved
<1> QED BY <1>1, <1>2, <1>3 DEF Inv, ServerTyped, ProgressTyped

LEMMA OpenBinInv == ASSUME Inv, OpenBin PROVE Inv' /\ Keeps
<1>1. /\ UNCHANGED <<chain, reorgs, progress, range, have>> /\ pc = "count" /\ pc' = "write"
      /\ Heights(range) \subseteq DOMAIN have
      BY DEF OpenBin, process
<1>2. progress = Saved BY <1>1 DEF Inv, BinIsWhole
<1>3. Saved # Missing /\ Saved.hi = range.hi /\ Saved.headers = have BY <1>1, SavedIsProgress
<1>4. BinIsWhole' BY <1>1, <1>2 DEF BinIsWhole, Heights, Saved
<1>5. Keeps BY <1>1, <1>2, <1>3 DEF Keeps, ProgressIsKept, BinIsKept
<1> QED BY <1>1, <1>4, <1>5 DEF Inv, ServerTyped, ProgressTyped, ProcessTyped, HoldsWhatIsSaved

LEMMA WriteBinInv == ASSUME Inv, WriteBin PROVE Inv' /\ Keeps
<1>1. /\ UNCHANGED <<chain, reorgs, progress, range, have>> /\ pc = "write" /\ pc' = "remove"
      /\ bin' = [of |-> range, headers |-> [h \in Heights(range) |-> have[h]]]
      BY DEF WriteBin, process
<1>2. range \in Ranges /\ have \in Headers /\ Heights(range) \subseteq DOMAIN have
      BY <1>1 DEF Inv, ProcessTyped, BinIsWhole
<1>3. [h \in Heights(range) |-> have[h]] \in Headers
  <2>1. have \in [DOMAIN have -> Header] BY <1>2, HeadersDomain
  <2>2. [h \in Heights(range) |-> have[h]] \in [Heights(range) -> Header] BY <1>2, <2>1
  <2>3. Heights(range) \in SUBSET (0..Tip) BY <1>2, HeightsInChain
  <2> QED BY <2>2, <2>3, HeadersAreFunctions
<1>4. bin' \in [of : Ranges, headers : Headers] BY <1>1, <1>2, <1>3
<1>5. bin' # Missing BY <1>4, FilesAssumption
<1>6. progress = Saved BY <1>1 DEF Inv, BinIsWhole
<1>7. Saved # Missing /\ Saved.hi = range.hi /\ Saved.headers = have BY <1>1, SavedIsProgress
<1>8. BinIsWhole' BY <1>1, <1>5, <1>6 DEF BinIsWhole, Heights, Saved
<1>9. Keeps BY <1>1, <1>2, <1>6, <1>7 DEF Keeps, ProgressIsKept, BinIsKept
<1> QED BY <1>1, <1>8, <1>9 DEF Inv, ServerTyped, ProgressTyped, ProcessTyped, HoldsWhatIsSaved

\* Of the heights asked for, headers.bin has what the file that goes has.
LEMMA RemoveInv == ASSUME Inv, RemoveProgress PROVE Inv' /\ Keeps
<1>1. /\ UNCHANGED <<chain, reorgs, bin, range, have>> /\ pc = "remove" /\ pc' = "describe"
      /\ progress' = Missing
      BY DEF RemoveProgress, process
<1>2. /\ bin # Missing /\ bin.headers = [h \in Heights(range) |-> have[h]]
      /\ progress = Saved
      BY <1>1 DEF Inv, BinIsWhole
<1>3. Saved.headers = have BY <1>1, SavedIsProgress
<1>4. ASSUME NEW h \in DOMAIN progress.headers \cap Heights(range)
      PROVE  h \in DOMAIN bin'.headers /\ bin'.headers[h] = progress.headers[h]
      BY <1>1, <1>2, <1>3
<1>5. ProgressIsKept BY <1>1, <1>2, <1>4 DEF ProgressIsKept
<1>6. BinIsKept BY <1>1 DEF BinIsKept
<1> QED BY <1>1, <1>5, <1>6 DEF Keeps, Inv, ServerTyped, ProgressTyped, ProcessTyped,
                               HoldsWhatIsSaved, BinIsWhole

LEMMA SameFilesKeep ==
  ASSUME Inv, UNCHANGED <<progress, bin>> PROVE Keeps
BY DEF Keeps, ProgressIsKept, BinIsKept, Inv, ProgressTyped

LEMMA StepInv == ASSUME Inv, [Next]_vars PROVE Inv' /\ Keeps
<1>1. CASE Reorg BY <1>1, ReorgInv, SameFilesKeep DEF Reorg, files
<1>2. CASE Start BY <1>2, StartInv, SameFilesKeep DEF Start, files
<1>3. CASE SkipHeld BY <1>3, QuietInv, SameFilesKeep DEF SkipHeld, files
<1>4. CASE Answer BY <1>4, AnswerInv, SameFilesKeep DEF Answer, files
<1>5. CASE EmptyAnswer BY <1>5, QuietInv, SameFilesKeep DEF EmptyAnswer, Asks, files
<1>6. CASE TryAgain BY <1>6, QuietInv, SameFilesKeep DEF TryAgain, files
<1>7. CASE GiveUp BY <1>7, SavingInv DEF GiveUp, Asks
<1>8. CASE Flush BY <1>8, SavingInv DEF Flush, process
<1>9. CASE Walked BY <1>9, SavingInv DEF Walked, process
<1>10. CASE Incomplete BY <1>10, QuietInv, SameFilesKeep DEF Incomplete, files
<1>11. CASE OpenBin BY <1>11, OpenBinInv
<1>12. CASE WriteBin BY <1>12, WriteBinInv
<1>13. CASE RemoveProgress BY <1>13, RemoveInv
<1>14. CASE Describe
  <2>1. Exit /\ UNCHANGED <<chain, reorgs, progress, bin>> BY <1>14 DEF Describe
  <2> QED BY <2>1, QuietInv, SameFilesKeep
<1>15. CASE Killed BY <1>15, QuietInv, SameFilesKeep DEF Killed, files
<1>16. CASE UNCHANGED vars BY <1>16, QuietInv, SameFilesKeep DEF vars, files, process
<1> QED BY <1>1, <1>2, <1>3, <1>4, <1>5, <1>6, <1>7, <1>8, <1>9, <1>10, <1>11, <1>12,
           <1>13, <1>14, <1>15, <1>16 DEF Next, Run

\* "Progress is written to disk as it goes", for every range and any failures: a
\* step of the program, its end and its being killed included, leaves in the progress
\* file what was there for its --to, or removes it with every header of the range
\* asked for in headers.bin; and it empties headers.bin only with the new ones saved.
THEOREM FetchedIsKept == Spec => FetchedIsNeverLost
<1>1. Inv /\ [Next]_vars => Inv' /\ [Keeps]_files
      BY StepInv
<1> QED BY InitInv, <1>1, PTL DEF Spec, FetchedIsNeverLost, Keeps

-----------------------------------------------------------------------------
(* How many batches a set of heights takes.                                *)

\* k batches, wherever they start, are enough to receive every height of M.
Covered(M, k) ==
  /\ k \in Nat
  /\ \E S \in SUBSET Int :
       /\ IsFiniteSet(S) /\ Cardinality(S) <= k
       /\ \A x \in M : \E s \in S : s <= x /\ x < s + Batch

LEMMA BatchIsPositive == Batch \in Int /\ Batch > 0
BY FetchAssumption

LEMMA CoverLess ==
  ASSUME NEW M, NEW k, Covered(M, k), NEW N, N \subseteq M, NEW j \in Nat, k <= j
  PROVE  Covered(N, j)
<1>1. PICK S \in SUBSET Int :
        /\ IsFiniteSet(S) /\ Cardinality(S) <= k
        /\ \A x \in M : \E s \in S : s <= x /\ x < s + Batch
      BY DEF Covered
<1>2. Cardinality(S) \in Nat /\ k \in Nat BY <1>1, FS_CardinalityType DEF Covered
<1>3. Cardinality(S) <= j BY <1>1, <1>2
<1> QED BY <1>1, <1>3 DEF Covered

LEMMA CoverNone == Covered({}, 0)
<1>1. {} \in SUBSET Int /\ IsFiniteSet({}) /\ Cardinality({}) = 0 BY FS_EmptySet
<1> QED BY <1>1 DEF Covered

LEMMA CoverBoth ==
  ASSUME NEW M, NEW k, Covered(M, k), NEW N, NEW j, Covered(N, j)
  PROVE  Covered(M \cup N, k + j)
<1>1. PICK S \in SUBSET Int :
        /\ IsFiniteSet(S) /\ Cardinality(S) <= k
        /\ \A x \in M : \E s \in S : s <= x /\ x < s + Batch
      BY DEF Covered
<1>2. PICK T \in SUBSET Int :
        /\ IsFiniteSet(T) /\ Cardinality(T) <= j
        /\ \A x \in N : \E s \in T : s <= x /\ x < s + Batch
      BY DEF Covered
<1>3. k \in Nat /\ j \in Nat /\ Cardinality(S) \in Nat /\ Cardinality(T) \in Nat
      BY <1>1, <1>2, FS_CardinalityType DEF Covered
<1>4. /\ IsFiniteSet(S \cup T) /\ IsFiniteSet(S \cap T)
      /\ Cardinality(S \cup T) = Cardinality(S) + Cardinality(T) - Cardinality(S \cap T)
      BY <1>1, <1>2, FS_Union, FS_Intersection
<1>5. Cardinality(S \cap T) \in Nat BY <1>4, FS_CardinalityType
<1>6. Cardinality(S \cup T) <= k + j /\ k + j \in Nat BY <1>1, <1>2, <1>3, <1>4, <1>5
<1>7. \A x \in M \cup N : \E s \in S \cup T : s <= x /\ x < s + Batch BY <1>1, <1>2
<1>8. S \cup T \in SUBSET Int OBVIOUS
<1> QED BY <1>4, <1>6, <1>7, <1>8 DEF Covered

\* One height.
LEMMA CoverOne == ASSUME NEW h \in Int PROVE Covered({h}, 1)
<1>1. IsFiniteSet({h}) /\ Cardinality({h}) = 1 BY FS_Singleton
<1>2. \A x \in {h} : \E s \in {h} : s <= x /\ x < s + Batch BY BatchIsPositive
<1> QED BY <1>1, <1>2 DEF Covered

\* The batch that ends at the highest does all that any one of them could.
LEMMA CoverTop ==
  ASSUME NEW M \in SUBSET Int, NEW k, Covered(M, k), NEW h \in M, \A x \in M : x <= h
  PROVE  k - 1 \in Nat /\ Covered({x \in M : x < h - Batch + 1}, k - 1)
<1>1. PICK S \in SUBSET Int :
        /\ IsFiniteSet(S) /\ Cardinality(S) <= k
        /\ \A x \in M : \E s \in S : s <= x /\ x < s + Batch
      BY DEF Covered
<1>2. PICK t \in S : t <= h /\ h < t + Batch BY <1>1
<1>3. k \in Nat /\ Cardinality(S) \in Nat BY <1>1, FS_CardinalityType DEF Covered
<1>4. IsFiniteSet(S \ {t}) /\ Cardinality(S \ {t}) = Cardinality(S) - 1
      BY <1>1, <1>2, FS_RemoveElement
<1>5. Cardinality(S \ {t}) \in Nat BY <1>4, FS_CardinalityType
<1>6. k - 1 \in Nat /\ Cardinality(S \ {t}) <= k - 1 BY <1>1, <1>3, <1>4, <1>5
<1>7. ASSUME NEW x \in M, x < h - Batch + 1
      PROVE  \E s \in S \ {t} : s <= x /\ x < s + Batch
  <2>1. PICK s \in S : s <= x /\ x < s + Batch BY <1>1
  <2>2. s # t BY <1>2, <1>7, <2>1, BatchIsPositive
  <2> QED BY <2>1, <2>2
<1>8. S \ {t} \in SUBSET Int OBVIOUS
<1> QED BY <1>4, <1>6, <1>7, <1>8 DEF Covered

\* A run that goes no further than lo cuts a batch in two at the most.
LEMMA CoverCut ==
  ASSUME NEW M \in SUBSET Int, NEW k, Covered(M, k), NEW lo \in Int
  PROVE  \E i, j \in Nat : /\ i <= k /\ i + j <= k + 1
                           /\ Covered({x \in M : lo <= x}, i) /\ Covered({x \in M : x < lo}, j)
<1>1. PICK S \in SUBSET Int :
        /\ IsFiniteSet(S) /\ Cardinality(S) <= k
        /\ \A x \in M : \E s \in S : s <= x /\ x < s + Batch
      BY DEF Covered
<1> DEFINE A == {s \in S : lo <= s}
           B == {s \in S : s < lo}
           up == {x \in M : lo <= x}
           down == {x \in M : x < lo}
<1>2. A \in SUBSET S /\ B \in SUBSET S /\ A \cup B = S /\ A \cap B = {}
  <2>1. A \in SUBSET S /\ B \in SUBSET S OBVIOUS
  <2>2. \A s \in S : s \in A \/ s \in B OBVIOUS
  <2>3. \A s \in S : ~(s \in A /\ s \in B) OBVIOUS
  <2> HIDE DEF A, B
  <2>4. A \cup B = S BY <2>1, <2>2
  <2>5. A \cap B = {} BY <2>1, <2>3
  <2> QED BY <2>1, <2>4, <2>5
<1>3. IsFiniteSet(A) /\ IsFiniteSet(B) BY <1>1, <1>2, FS_Subset
<1>4. k \in Nat /\ Cardinality(A) \in Nat /\ Cardinality(B) \in Nat /\ Cardinality(S) \in Nat
      BY <1>1, <1>3, FS_CardinalityType DEF Covered
<1>5. Cardinality(A) + Cardinality(B) = Cardinality(S)
  <2> HIDE DEF A, B
  <2>1. Cardinality(A \cup B) = Cardinality(A) + Cardinality(B) - Cardinality(A \cap B)
        BY <1>3, FS_Union
  <2>2. Cardinality(A \cap B) = 0 BY <1>2, FS_EmptySet
  <2>3. Cardinality(A \cup B) = Cardinality(S) BY <1>2
  <2> QED BY <1>4, <2>1, <2>2, <2>3
<1>6. \A x \in down : \E s \in B : s <= x /\ x < s + Batch
  <2> TAKE x \in down
  <2>1. PICK s \in S : s <= x /\ x < s + Batch BY <1>1
  <2>2. s \in B BY <2>1
  <2> QED BY <2>1, <2>2
<1>7. Covered(down, Cardinality(B))
  <2>1. B \in SUBSET Int OBVIOUS
  <2>2. Cardinality(B) <= Cardinality(B) BY <1>4
  <2> HIDE DEF B, down
  <2> QED BY <1>3, <1>4, <1>6, <2>1, <2>2 DEF Covered
<1>8. CASE B = {}
  <2>1. A = S
    <3> HIDE DEF A, B
    <3> QED BY <1>2, <1>8
  <2>2. Covered(up, Cardinality(A))
    <3>1. \A x \in up : \E s \in A : s <= x /\ x < s + Batch BY <1>1, <2>1
    <3>2. A \in SUBSET Int OBVIOUS
    <3>3. Cardinality(A) <= Cardinality(A) BY <1>4
    <3> HIDE DEF A, up
    <3> QED BY <1>3, <1>4, <3>1, <3>2, <3>3 DEF Covered
  <2> HIDE DEF A, B, up, down
  <2>3. Cardinality(A) <= k /\ Cardinality(A) + Cardinality(B) <= k + 1
        BY <1>1, <1>4, <1>5
  <2> QED BY <1>4, <1>7, <2>2, <2>3 DEF up, down
<1>9. CASE B # {}
  <2> DEFINE C == A \cup {lo}
  <2>1. IsFiniteSet(C) /\ Cardinality(C) <= Cardinality(A) + 1
    <3> HIDE DEF A
    <3> QED BY <1>3, <1>4, FS_AddElement
  <2>2. Cardinality(B) # 0
    <3> HIDE DEF B
    <3> QED BY <1>3, <1>9, FS_EmptySet
  <2>3. \A x \in up : \E s \in C : s <= x /\ x < s + Batch
    <3> TAKE x \in up
    <3>1. PICK s \in S : s <= x /\ x < s + Batch BY <1>1
    <3>2. CASE lo <= s
      <4>1. s \in C BY <3>2
      <4> QED BY <3>1, <4>1
    <3>3. CASE ~(lo <= s)
      <4>1. lo <= x /\ x < lo + Batch BY <3>1, <3>3, BatchIsPositive
      <4>2. lo \in C OBVIOUS
      <4> QED BY <4>1, <4>2
    <3> QED BY <3>2, <3>3
  <2>4. Cardinality(C) \in Nat BY <2>1, FS_CardinalityType
  <2>5. Covered(up, Cardinality(C))
    <3>1. C \in SUBSET Int OBVIOUS
    <3>2. Cardinality(C) <= Cardinality(C) BY <2>4
    <3> HIDE DEF C, up
    <3> QED BY <2>1, <2>3, <2>4, <3>1, <3>2 DEF Covered
  <2> HIDE DEF A, B, C, up, down
  <2>6. Cardinality(C) <= k /\ Cardinality(C) + Cardinality(B) <= k + 1
        BY <1>1, <1>4, <1>5, <2>1, <2>2, <2>4
  <2> QED BY <1>4, <1>7, <2>4, <2>5, <2>6 DEF up, down
<1> QED BY <1>8, <1>9

\* What a whole --to takes.
LEMMA CoverAll ==
  ASSUME NEW lo \in Nat, NEW hi \in Nat, lo <= hi
  PROVE  Covered(lo..hi, (hi - lo) \div Batch + 1)
<1> DEFINE n == (hi - lo) \div Batch
           S == {lo + i * Batch : i \in 0..n}
           f == [i \in 0..n |-> lo + i * Batch]
<1>1. n \in Nat
  <2>1. hi - lo \in Nat /\ Batch \in Nat \ {0} BY FetchAssumption
  <2> QED BY <2>1, SMTT(20)
<1> HIDE DEF n
<1>2. IsFiniteSet(S) /\ Cardinality(S) <= n + 1
  <2>1. f \in Surjection(0..n, S) BY DEF Surjection
  <2>2. IsFiniteSet(0..n) /\ Cardinality(0..n) = n + 1 BY <1>1, FS_Interval
  <2> HIDE DEF S, f
  <2> QED BY <2>1, <2>2, FS_Surjection
<1>3. S \in SUBSET Int
  <2>1. \A i \in 0..n : lo + i * Batch \in Int BY <1>1, BatchIsPositive
  <2> QED BY <2>1
<1>4. ASSUME NEW x \in lo..hi PROVE \E s \in S : s <= x /\ x < s + Batch
  <2> DEFINE d == x - lo
             q == d \div Batch
  <2>1. d \in Nat /\ d <= hi - lo /\ Batch \in Nat \ {0} BY FetchAssumption
  <2>2. q \in Nat /\ q * Batch <= d /\ d < q * Batch + Batch
    <3> HIDE DEF d
    <3>1. q \in Nat BY <2>1, SMTT(20)
    <3>2. q * Batch <= d BY <2>1, SMTT(20)
    <3>3. d < q * Batch + Batch BY <2>1, SMTT(20)
    <3> QED BY <3>1, <3>2, <3>3
  <2>3. q <= n
    <3> DEFINE e == hi - lo
    <3>1. e \in Nat /\ d <= e BY <2>1
    <3> HIDE DEF d, e
    <3>2. d \div Batch <= e \div Batch BY <2>1, <3>1, SMTT(30)
    <3> QED BY <3>2 DEF e, n
  <2> HIDE DEF q
  <2>4. lo + q * Batch \in S BY <1>1, <2>2, <2>3
  <2>5. q * Batch \in Int BY <2>2, BatchIsPositive
  <2>6. lo + q * Batch <= x /\ x < (lo + q * Batch) + Batch BY <2>1, <2>2, <2>5
  <2> QED BY <2>4, <2>6
<1> HIDE DEF S
<1>5. n + 1 \in Nat BY <1>1
<1>6. Covered(lo..hi, n + 1) BY <1>2, <1>3, <1>4, <1>5 DEF Covered
<1> QED BY <1>6 DEF n

-----------------------------------------------------------------------------
(* The batches a --to may still take, and where a run stands in them.      *)

\* A --from that no run on this --to goes below.
Lowest(lo, hi) == \A r \in Ranges : r.hi = hi => lo <= r.lo

\* The batches that may still be received for a --to, after n of them and f faults,
\* with s more allowed.
Allowance(lo, hi, f, n, s) == (hi - lo) \div Batch + 1 + 2 * f - n + s

\* What a run on r that has got down to h is still to ask for, what lies below r and
\* what the run has passed over take i, j and k batches: a height passed over is
\* paid for twice by its fault.
Ahead(lo, r, h, held, a) ==
  a \in Int /\ \E i, j, k \in Nat :
    /\ Covered((r.lo..h) \ held, i)
    /\ Covered((lo..(r.lo - 1)) \ held, j)
    /\ Covered({x \in Heights(r) : h < x} \ held, k)
    /\ i <= a
    /\ i + j + 2 * k <= a + 1

RunIsAhead ==
  pc # "idle" =>
    \A lo \in Nat :
      Lowest(lo, range.hi) =>
        Ahead(lo, range, height, DOMAIN have,
              Allowance(lo, range.hi, faults, answers[range.hi], 0))

\* The run in hand may cut a batch at its --from, and be killed before it saves
\* one; each costs the fault that ends it.
Slack == IF pc = "idle" THEN 0
         ELSE IF range.hi # progress.hi THEN 0
         ELSE IF pc = "flush" THEN 2 ELSE 1

\* What is missing on disk can be had within the allowance.
SavedIsAhead ==
  progress # Missing =>
    \A lo \in Nat :
      Lowest(lo, progress.hi) =>
        Covered((lo..progress.hi) \ DOMAIN progress.headers,
                Allowance(lo, progress.hi, faults, answers[progress.hi], Slack))

Counted ==
  /\ answers \in [0..Tip -> Nat] /\ faults \in Nat /\ height \in Int
  /\ pc # "idle" => height <= range.hi
  /\ pc = "count" => progress = Saved /\ height < range.lo
  /\ pc = "describe" => progress = Missing

WorkInv == Inv /\ Counted /\ RunIsAhead /\ SavedIsAhead

\* After g faults, m batches and t more, there is no less of the allowance.
NoLess(f, n, s, g, m, t) ==
  f \in Nat /\ n \in Nat /\ s \in Int /\ g \in Nat /\ m \in Nat /\ t \in Int
  /\ 2 * f - n + s <= 2 * g - m + t

LEMMA AllowanceIs ==
  ASSUME NEW lo \in Nat, NEW hi \in Nat
  PROVE  \E d \in Int :
           /\ d = (hi - lo) \div Batch
           /\ \A f, n, s : Allowance(lo, hi, f, n, s) = d + 1 + 2 * f - n + s
<1> DEFINE d == (hi - lo) \div Batch
<1>1. hi - lo \in Int /\ Batch \in Int /\ Batch > 0 BY BatchIsPositive
<1>2. d \in Int BY <1>1, SMTT(20)
<1>3. \A f, n, s : Allowance(lo, hi, f, n, s) = d + 1 + 2 * f - n + s BY DEF Allowance
<1>4. d = (hi - lo) \div Batch OBVIOUS
<1> HIDE DEF d
<1> QED BY <1>2, <1>3, <1>4

LEMMA AllowanceGrows ==
  ASSUME NEW lo \in Nat, NEW hi \in Nat
  PROVE  \A f, n, s, g, m, t : NoLess(f, n, s, g, m, t) =>
           /\ Allowance(lo, hi, f, n, s) \in Int /\ Allowance(lo, hi, g, m, t) \in Int
           /\ Allowance(lo, hi, f, n, s) <= Allowance(lo, hi, g, m, t)
<1>1. PICK d \in Int : \A f, n, s : Allowance(lo, hi, f, n, s) = d + 1 + 2 * f - n + s
      BY AllowanceIs
<1> QED BY <1>1 DEF NoLess

LEMMA AllowanceMoves ==
  ASSUME NEW lo \in Nat, NEW hi \in Nat, NEW f \in Nat, NEW n \in Nat
  PROVE  /\ Allowance(lo, hi, f, n, 0) \in Int
         /\ Allowance(lo, hi, f, n, 1) = Allowance(lo, hi, f, n, 0) + 1
         /\ Allowance(lo, hi, f, n + 1, 0) = Allowance(lo, hi, f, n, 0) - 1
         /\ Allowance(lo, hi, f, n + 1, 2) = Allowance(lo, hi, f, n, 0) + 1
         /\ Allowance(lo, hi, f + 1, n, 0) = Allowance(lo, hi, f, n, 0) + 2
<1>1. PICK d \in Int : \A g, m, s : Allowance(lo, hi, g, m, s) = d + 1 + 2 * g - m + s
      BY AllowanceIs
<1>2. Allowance(lo, hi, f, n, 0) = d + 1 + 2 * f - n + 0 BY <1>1
<1>3. Allowance(lo, hi, f, n, 1) = d + 1 + 2 * f - n + 1 BY <1>1
<1>4. Allowance(lo, hi, f, n + 1, 0) = d + 1 + 2 * f - (n + 1) + 0 BY <1>1
<1>5. Allowance(lo, hi, f, n + 1, 2) = d + 1 + 2 * f - (n + 1) + 2 BY <1>1
<1>6. Allowance(lo, hi, f + 1, n, 0) = d + 1 + 2 * (f + 1) - n + 0 BY <1>1
<1> QED BY <1>2, <1>3, <1>4, <1>5, <1>6

LEMMA MoreFaults ==
  \A f, g, n \in Nat : \A s \in Int : f <= g => NoLess(f, n, s, g, n, s)
BY DEF NoLess

LEMMA AFault == \A f, n \in Nat : \A s \in {0, 1, 2} : NoLess(f, n, s, f + 1, n, 0)
BY DEF NoLess

LEMMA AnEmpty ==
  \A f, n \in Nat : \A s \in {0, 1} : \A t \in {0, 2} : NoLess(f, n, s, f + 1, n, t)
BY DEF NoLess

LEMMA AllowanceFirst ==
  ASSUME NEW lo \in Nat, NEW hi \in Nat
  PROVE  Allowance(lo, hi, 0, 0, 0) = (hi - lo) \div Batch + 1
<1>1. PICK d \in Int :
        /\ d = (hi - lo) \div Batch
        /\ \A f, n, s : Allowance(lo, hi, f, n, s) = d + 1 + 2 * f - n + s
      BY AllowanceIs
<1>2. Allowance(lo, hi, 0, 0, 0) = d + 1 + 2 * 0 - 0 + 0 BY <1>1
<1>3. Allowance(lo, hi, 0, 0, 0) = d + 1 BY <1>2
<1> QED BY <1>1, <1>3

LEMMA RangeIsTyped ==
  ASSUME NEW r \in Ranges
  PROVE  r.lo \in Nat /\ r.hi \in Nat /\ r.lo <= r.hi /\ r.hi \in 0..Tip /\ Tip \in Nat
BY FetchAssumption, FilesAssumption

\* More faults allow more batches.
LEMMA AheadMore ==
  ASSUME NEW lo, NEW r, NEW h, NEW held, NEW a, Ahead(lo, r, h, held, a), NEW b \in Int, a <= b
  PROVE  Ahead(lo, r, h, held, b)
<1>1. PICK i, j, k \in Nat :
        /\ Covered((r.lo..h) \ held, i) /\ Covered((lo..(r.lo - 1)) \ held, j)
        /\ Covered({x \in Heights(r) : h < x} \ held, k)
        /\ i <= a /\ i + j + 2 * k <= a + 1
      BY DEF Ahead
<1>2. a \in Int BY DEF Ahead
<1>3. i <= b /\ i + j + 2 * k <= b + 1 BY <1>1, <1>2
<1> QED BY <1>1, <1>3 DEF Ahead

\* A height that is held costs nothing.
LEMMA AheadSkip ==
  ASSUME NEW lo \in Nat, NEW r \in Ranges, NEW h \in Int, NEW held, NEW a,
         Ahead(lo, r, h, held, a), h \in held
  PROVE  Ahead(lo, r, h - 1, held, a)
<1>0. r.lo \in Int /\ r.hi \in Int BY RangeIsTyped
<1>1. PICK i, j, k \in Nat :
        /\ Covered((r.lo..h) \ held, i) /\ Covered((lo..(r.lo - 1)) \ held, j)
        /\ Covered({x \in Heights(r) : h < x} \ held, k)
        /\ i <= a /\ i + j + 2 * k <= a + 1
      BY DEF Ahead
<1>2. (r.lo..(h - 1)) \ held \subseteq (r.lo..h) \ held BY <1>0
<1>3. {x \in Heights(r) : h - 1 < x} \ held \subseteq {x \in Heights(r) : h < x} \ held
      BY <1>0 DEF Heights
<1>4. Covered((r.lo..(h - 1)) \ held, i)
  <2>1. i <= i OBVIOUS
  <2> QED BY <1>1, <1>2, <2>1, CoverLess
<1>5. Covered({x \in Heights(r) : h - 1 < x} \ held, k)
  <2>1. k <= k OBVIOUS
  <2> QED BY <1>1, <1>3, <2>1, CoverLess
<1>6. a \in Int BY DEF Ahead
<1> QED BY <1>1, <1>4, <1>5, <1>6 DEF Ahead

\* A height that is passed over is one more batch for the next run.
LEMMA AheadEmpty ==
  ASSUME NEW lo \in Nat, NEW r \in Ranges, NEW h \in Int, NEW held, NEW a,
         Ahead(lo, r, h, held, a)
  PROVE  Ahead(lo, r, h - 1, held, a + 2)
<1>0. r.lo \in Int /\ r.hi \in Int BY RangeIsTyped
<1>1. PICK i, j, k \in Nat :
        /\ Covered((r.lo..h) \ held, i) /\ Covered((lo..(r.lo - 1)) \ held, j)
        /\ Covered({x \in Heights(r) : h < x} \ held, k)
        /\ i <= a /\ i + j + 2 * k <= a + 1
      BY DEF Ahead
<1> DEFINE U == {x \in Heights(r) : h < x} \ held
           V == {x \in Heights(r) : h - 1 < x} \ held
<1>2. (r.lo..(h - 1)) \ held \subseteq (r.lo..h) \ held BY <1>0
<1>3. V \subseteq U \cup {h} BY <1>0 DEF Heights
<1>4. Covered((r.lo..(h - 1)) \ held, i)
  <2>1. i <= i OBVIOUS
  <2> QED BY <1>1, <1>2, <2>1, CoverLess
<1>5. Covered(V, k + 1)
  <2>1. Covered({h}, 1) BY CoverOne
  <2>2. Covered(U, k) BY <1>1
  <2> HIDE DEF U, V
  <2>3. Covered(U \cup {h}, k + 1) BY <2>1, <2>2, CoverBoth
  <2>4. k + 1 \in Nat /\ k + 1 <= k + 1 OBVIOUS
  <2> QED BY <1>3, <2>3, <2>4, CoverLess
<1>6. a \in Int BY DEF Ahead
<1>7. i <= a + 2 /\ i + j + 2 * (k + 1) <= (a + 2) + 1 /\ k + 1 \in Nat /\ a + 2 \in Int
      BY <1>1, <1>6
<1> QED BY <1>1, <1>4, <1>5, <1>7 DEF Ahead

\* An answer is a batch less to ask for.
LEMMA AheadAnswer ==
  ASSUME NEW lo \in Nat, NEW r \in Ranges, NEW h \in Int, NEW held, NEW a,
         Ahead(lo, r, h, held, a), r.lo <= h, h \notin held,
         NEW from, from = IF h - Batch + 1 > 0 THEN h - Batch + 1 ELSE 0
  PROVE  Ahead(lo, r, from - 1, held \cup ((from..h) \cap Heights(r)), a - 1)
<1>0. r.lo \in Nat /\ r.hi \in Nat BY RangeIsTyped
<1>1. PICK i, j, k \in Nat :
        /\ Covered((r.lo..h) \ held, i) /\ Covered((lo..(r.lo - 1)) \ held, j)
        /\ Covered({x \in Heights(r) : h < x} \ held, k)
        /\ i <= a /\ i + j + 2 * k <= a + 1
      BY DEF Ahead
<1> DEFINE M == (r.lo..h) \ held
           got == held \cup ((from..h) \cap Heights(r))
           N == {x \in M : x < h - Batch + 1}
<1>2. a \in Int /\ from \in Int /\ from <= h
  <2>1. a \in Int BY DEF Ahead
  <2> QED BY <1>0, <2>1, BatchIsPositive
<1>3. i - 1 \in Nat /\ Covered(N, i - 1)
  <2>1. M \in SUBSET Int /\ h \in M /\ \A x \in M : x <= h BY <1>0
  <2>2. Covered(M, i) BY <1>1
  <2> HIDE DEF M
  <2> QED BY <2>1, <2>2, CoverTop
<1>4. Covered((r.lo..(from - 1)) \ got, i - 1)
  <2>1. (r.lo..(from - 1)) \ got \subseteq N BY <1>0, <1>2, BatchIsPositive
  <2>2. i - 1 <= i - 1 BY <1>3
  <2> HIDE DEF N, got
  <2> QED BY <1>3, <2>1, <2>2, CoverLess
<1>5. Covered((lo..(r.lo - 1)) \ got, j)
  <2>1. (lo..(r.lo - 1)) \ got \subseteq (lo..(r.lo - 1)) \ held OBVIOUS
  <2>2. j <= j OBVIOUS
  <2> HIDE DEF got
  <2> QED BY <1>1, <2>1, <2>2, CoverLess
<1>6. Covered({x \in Heights(r) : from - 1 < x} \ got, k)
  <2>1. {x \in Heights(r) : from - 1 < x} \ got \subseteq {x \in Heights(r) : h < x} \ held
        BY <1>0, <1>2 DEF Heights
  <2>2. k <= k OBVIOUS
  <2> HIDE DEF got
  <2> QED BY <1>1, <2>1, <2>2, CoverLess
<1>7. i - 1 <= a - 1 /\ (i - 1) + j + 2 * k <= (a - 1) + 1 /\ a - 1 \in Int
      BY <1>1, <1>2
<1> HIDE DEF M, N, got
<1>8. Ahead(lo, r, from - 1, got, a - 1) BY <1>1, <1>3, <1>4, <1>5, <1>6, <1>7 DEF Ahead
<1> QED BY <1>8 DEF got

\* A run begins with what is on disk.
LEMMA AheadStart ==
  ASSUME NEW lo \in Nat, NEW r \in Ranges, lo <= r.lo, NEW held, NEW a,
         Covered((lo..r.hi) \ held, a)
  PROVE  Ahead(lo, r, r.hi, held, a)
<1> DEFINE M == (lo..r.hi) \ held
<1>0. r.lo \in Nat /\ r.hi \in Nat /\ r.lo <= r.hi BY RangeIsTyped
<1>1. PICK i, j \in Nat : /\ i <= a /\ i + j <= a + 1
                          /\ Covered({x \in M : r.lo <= x}, i) /\ Covered({x \in M : x < r.lo}, j)
  <2>1. M \in SUBSET Int BY <1>0
  <2>2. Covered(M, a) /\ r.lo \in Int BY <1>0
  <2> HIDE DEF M
  <2> QED BY <2>1, <2>2, CoverCut
<1>2. (r.lo..r.hi) \ held \subseteq {x \in M : r.lo <= x} BY <1>0
<1>3. (lo..(r.lo - 1)) \ held \subseteq {x \in M : x < r.lo} BY <1>0
<1>4. {x \in Heights(r) : r.hi < x} \ held \subseteq {} BY <1>0 DEF Heights
<1>5. i <= i /\ j <= j /\ 0 <= 0 /\ 0 \in Nat OBVIOUS
<1> HIDE DEF M
<1>6. Covered((r.lo..r.hi) \ held, i) BY <1>1, <1>2, <1>5, CoverLess
<1>7. Covered((lo..(r.lo - 1)) \ held, j) BY <1>1, <1>3, <1>5, CoverLess
<1>8. Covered({x \in Heights(r) : r.hi < x} \ held, 0) BY <1>4, <1>5, CoverNone, CoverLess
<1>9. a \in Int /\ i + j + 2 * 0 <= a + 1 BY <1>1 DEF Covered
<1> QED BY <1>1, <1>5, <1>6, <1>7, <1>8, <1>9 DEF Ahead

\* What a run holds may be saved at any time.
LEMMA AheadSaved ==
  ASSUME NEW lo \in Nat, NEW r \in Ranges, lo <= r.lo, NEW h \in Int, NEW held, NEW a,
         Ahead(lo, r, h, held, a)
  PROVE  /\ a \in Nat /\ Covered((lo..r.hi) \ held, a + 1)
         /\ h < r.lo /\ ~(Heights(r) \subseteq held) => Covered((lo..r.hi) \ held, a)
<1>0. r.lo \in Nat /\ r.hi \in Nat BY RangeIsTyped
<1> DEFINE A == (r.lo..h) \ held
           B == (lo..(r.lo - 1)) \ held
           C == {x \in Heights(r) : h < x} \ held
           M == (lo..r.hi) \ held
<1>1. PICK i, j, k \in Nat :
        Covered(A, i) /\ Covered(B, j) /\ Covered(C, k) /\ i <= a /\ i + j + 2 * k <= a + 1
      BY DEF Ahead
<1>2. a \in Nat
  <2>1. a \in Int BY DEF Ahead
  <2> QED BY <1>1, <2>1
<1>3. M \subseteq (A \cup B) \cup C
  <2> SUFFICES ASSUME NEW x \in M PROVE x \in (A \cup B) \cup C OBVIOUS
  <2>1. x \in Int /\ lo <= x /\ x <= r.hi /\ x \notin held BY <1>0
  <2>2. CASE x < r.lo BY <1>0, <2>1, <2>2
  <2>3. CASE r.lo <= x /\ x <= h BY <1>0, <2>1, <2>3
  <2>4. CASE r.lo <= x /\ h < x BY <1>0, <2>1, <2>4 DEF Heights
  <2> QED BY <1>0, <2>1, <2>2, <2>3, <2>4
<1>4. ASSUME h < r.lo, ~(Heights(r) \subseteq held) PROVE k # 0 /\ M \subseteq B \cup C
  <2>1. A = {} BY <1>0, <1>4
  <2>2. PICK x \in Heights(r) : x \notin held BY <1>4
  <2>3. x \in C BY <1>0, <1>4, <2>2 DEF Heights
  <2> HIDE DEF A, B, C, M
  <2>4. k # 0
    <3> SUFFICES ASSUME k = 0 PROVE FALSE OBVIOUS
    <3>1. PICK S \in SUBSET Int :
            /\ IsFiniteSet(S) /\ Cardinality(S) <= 0
            /\ \A y \in C : \E s \in S : s <= y /\ y < s + Batch
          BY <1>1 DEF Covered
    <3>2. Cardinality(S) = 0
      <4>1. Cardinality(S) \in Nat BY <3>1, FS_CardinalityType
      <4> QED BY <3>1, <4>1
    <3>3. S = {} BY <3>1, <3>2, FS_EmptySet
    <3> QED BY <2>3, <3>1, <3>3
  <2> QED BY <1>3, <2>1, <2>4
<1> HIDE DEF A, B, C, M
<1>5. Covered((A \cup B) \cup C, (i + j) + k) /\ Covered(B \cup C, j + k)
  <2>1. Covered(A \cup B, i + j) /\ Covered(B \cup C, j + k) BY <1>1, CoverBoth
  <2> QED BY <1>1, <2>1, CoverBoth
<1>6. a + 1 \in Nat /\ (i + j) + k <= a + 1 /\ (k # 0 => j + k <= a) BY <1>1, <1>2
<1>7. Covered(M, a + 1) BY <1>3, <1>5, <1>6, CoverLess
<1>8. h < r.lo /\ ~(Heights(r) \subseteq held) => Covered(M, a) BY <1>2, <1>4, <1>5, <1>6, CoverLess
<1> QED BY <1>2, <1>7, <1>8 DEF M

-----------------------------------------------------------------------------
(* Each action leaves enough of the allowance.                             *)

LEMMA SavedNumbers ==
  ASSUME Inv, Counted, progress # Missing
  PROVE  /\ progress.hi \in 0..Tip /\ progress.hi \in Nat /\ answers[progress.hi] \in Nat
         /\ progress.headers \in Headers
<1>1. progress.hi \in 0..Tip /\ progress.headers \in Headers BY DEF Inv, ProgressTyped
<1>2. Tip \in Nat BY FilesAssumption
<1> QED BY <1>1, <1>2 DEF Counted

LEMMA RunNumbers ==
  ASSUME Inv, Counted, pc # "idle"
  PROVE  /\ range \in Ranges /\ range.hi \in 0..Tip /\ range.hi \in Nat /\ range.lo \in Nat
         /\ answers[range.hi] \in Nat /\ faults \in Nat /\ height \in Int
<1>1. range \in Ranges BY DEF Inv, ProcessTyped
<1>2. range.hi \in 0..Tip /\ range.hi \in Nat /\ range.lo \in Nat BY <1>1, RangeIsTyped
<1> QED BY <1>1, <1>2 DEF Counted

LEMMA SlackIs == Slack \in {0, 1, 2} /\ (pc = "idle" => Slack = 0)
BY DEF Slack

\* While the progress file stays as it is.
LEMMA SavedStays ==
  ASSUME Inv, Counted, SavedIsAhead, progress' = progress, faults' \in Nat, Slack' \in Int,
         progress # Missing =>
           NoLess(faults, answers[progress.hi], Slack,
                  faults', answers'[progress.hi], Slack')
  PROVE  SavedIsAhead'
<1> DEFINE hi == progress.hi
<1> SUFFICES ASSUME progress # Missing, NEW lo \in Nat, Lowest(lo, hi)
             PROVE  Covered((lo..hi) \ DOMAIN progress.headers,
                            Allowance(lo, hi, faults', answers'[hi], Slack'))
    BY DEF SavedIsAhead
<1>1. hi \in Nat /\ answers[hi] \in Nat /\ faults \in Nat BY SavedNumbers DEF Counted
<1> DEFINE a == Allowance(lo, hi, faults, answers[hi], Slack)
           b == Allowance(lo, hi, faults', answers'[hi], Slack')
           M == (lo..hi) \ DOMAIN progress.headers
<1>2. Covered(M, a) BY DEF SavedIsAhead
<1>3. a \in Nat BY <1>2 DEF Covered
<1>4. a <= b /\ b \in Nat
  <2>1. NoLess(faults, answers[hi], Slack, faults', answers'[hi], Slack') OBVIOUS
  <2>2. a \in Int /\ b \in Int /\ a <= b BY <1>1, <2>1, AllowanceGrows
  <2> HIDE DEF a, b
  <2> QED BY <1>3, <2>2
<1> HIDE DEF M, a, b
<1>5. Covered(M, b) BY <1>2, <1>4, CoverLess
<1> QED BY <1>5 DEF M, b

\* What is saved is what a run holds; it is within the allowance as it is, and
\* so it is after a fault.
LEMMA SavedByRun ==
  ASSUME WorkInv, pc # "idle", progress' = Saved, UNCHANGED answers,
         faults' \in Nat, Slack' \in Int,
         NoLess(faults, answers[range.hi], 1, faults', answers[range.hi], Slack')
  PROVE  SavedIsAhead'
<1> DEFINE hi == range.hi
           n == answers[hi]
           held == DOMAIN have
<1>1. /\ range \in Ranges /\ hi \in Nat /\ n \in Nat /\ faults \in Nat /\ height \in Int
      BY RunNumbers DEF WorkInv
<1>2. Saved.hi = hi /\ Saved.headers = have BY DEF Saved
<1> SUFFICES ASSUME NEW lo \in Nat, Lowest(lo, hi)
             PROVE  Covered((lo..hi) \ held, Allowance(lo, hi, faults', n, Slack'))
    BY <1>2 DEF SavedIsAhead
<1>3. lo <= range.lo BY <1>1 DEF Lowest
<1> DEFINE a == Allowance(lo, hi, faults, n, 0)
           c == Allowance(lo, hi, faults, n, 1)
           b == Allowance(lo, hi, faults', n, Slack')
           M == (lo..hi) \ held
<1>4. Ahead(lo, range, height, held, a) BY DEF WorkInv, RunIsAhead
<1>5. c = a + 1
  <2> HIDE DEF hi, n
  <2> QED BY <1>1, AllowanceMoves
<1>6. a \in Nat /\ Covered(M, a + 1)
  <2> HIDE DEF a, held
  <2> QED BY <1>1, <1>3, <1>4, AheadSaved
<1>7. c \in Nat /\ Covered(M, c)
  <2> HIDE DEF a, c, M
  <2> QED BY <1>5, <1>6
<1>8. c <= b /\ b \in Nat
  <2>1. NoLess(faults, n, 1, faults', n, Slack') OBVIOUS
  <2>2. c \in Int /\ b \in Int /\ c <= b
    <3> HIDE DEF hi, n
    <3> QED BY <1>1, <2>1, AllowanceGrows
  <2> HIDE DEF b, c
  <2> QED BY <1>7, <2>2
<1> HIDE DEF M, b, c
<1>9. Covered(M, b) BY <1>7, <1>8, CoverLess
<1> QED BY <1>9 DEF M, b

\* While a run stays where it is.
LEMMA RunStays ==
  ASSUME WorkInv, pc # "idle", UNCHANGED <<range, have, height, answers>>,
         faults' \in Nat, faults <= faults'
  PROVE  RunIsAhead'
<1> DEFINE hi == range.hi
           n == answers[hi]
<1>1. /\ range \in Ranges /\ hi \in Nat /\ n \in Nat /\ faults \in Nat /\ height \in Int
      BY RunNumbers DEF WorkInv
<1> SUFFICES ASSUME NEW lo \in Nat, Lowest(lo, hi)
             PROVE  Ahead(lo, range, height, DOMAIN have, Allowance(lo, hi, faults', n, 0))
    BY DEF RunIsAhead
<1> DEFINE a == Allowance(lo, hi, faults, n, 0)
           b == Allowance(lo, hi, faults', n, 0)
<1>2. Ahead(lo, range, height, DOMAIN have, a) BY DEF WorkInv, RunIsAhead
<1>3. NoLess(faults, n, 0, faults', n, 0) BY <1>1, MoreFaults
<1>4. b \in Int /\ a <= b BY <1>1, <1>3, AllowanceGrows
<1> HIDE DEF a, b
<1>5. Ahead(lo, range, height, DOMAIN have, b) BY <1>2, <1>4, AheadMore
<1> QED BY <1>5 DEF b

LEMMA WorkInit == Init => WorkInv
<1> SUFFICES ASSUME Init PROVE WorkInv OBVIOUS
<1>1. Inv BY InitInv
<1>2. Counted /\ RunIsAhead /\ SavedIsAhead BY DEF Init, Counted, RunIsAhead, SavedIsAhead
<1> QED BY <1>1, <1>2 DEF WorkInv

QuietMove == pc' = pc \/ (pc \in {"count", "write"} /\ pc' \in {"write", "remove"})

\* Steps that leave the progress file and the run where they are.
LEMMA QuietWork ==
  ASSUME WorkInv, Inv', UNCHANGED <<progress, range, have, height, answers>>,
         faults' \in Nat, faults <= faults',
         QuietMove
  PROVE  WorkInv'
<1>1. Slack' = Slack BY DEF Slack, QuietMove
<1>2. SavedIsAhead'
  <2>1. Slack \in Int BY SlackIs
  <2>2. progress # Missing =>
          NoLess(faults, answers[progress.hi], Slack,
                    faults', answers'[progress.hi], Slack')
    <3> SUFFICES ASSUME progress # Missing
                 PROVE  NoLess(faults, answers[progress.hi], Slack,
                                  faults', answers'[progress.hi], Slack')
        OBVIOUS
    <3>1. answers[progress.hi] \in Nat /\ faults \in Nat BY SavedNumbers DEF WorkInv, Counted
    <3> QED BY <1>1, <2>1, <3>1, MoreFaults
  <2> QED BY <1>1, <2>1, <2>2, SavedStays DEF WorkInv
<1>3. RunIsAhead'
  <2>1. CASE pc = "idle" BY <2>1 DEF RunIsAhead, QuietMove
  <2>2. CASE pc # "idle" BY <2>2, RunStays
  <2> QED BY <2>1, <2>2
<1>4. Counted' BY DEF WorkInv, Counted, Saved, QuietMove
<1> QED BY <1>2, <1>3, <1>4 DEF WorkInv

\* A run that saves what it holds and goes on.
LEMMA SaveWork == ASSUME WorkInv, Inv', Flush \/ Walked PROVE WorkInv'
<1>1. /\ progress' = Saved /\ UNCHANGED <<range, have, height, answers, faults>>
      /\ pc # "idle" /\ pc' \in {"walk", "count"}
      /\ pc' = "count" => height < range.lo
      BY DEF Flush, Walked, process
<1>2. range \in Ranges /\ faults \in Nat /\ answers[range.hi] \in Nat
      BY <1>1, RunNumbers DEF WorkInv
<1>3. Slack' = 1
  <2>1. Saved.hi = range.hi BY DEF Saved
  <2> QED BY <1>1, <2>1 DEF Slack
<1>4. SavedIsAhead'
  <2>1. Slack' \in Int /\ faults' \in Nat BY <1>1, <1>2, <1>3
  <2>2. NoLess(faults, answers[range.hi], 1, faults', answers[range.hi], Slack')
        BY <1>1, <1>2, <1>3, MoreFaults
  <2> QED BY <1>1, <2>1, <2>2, SavedByRun
<1>5. RunIsAhead'
  <2>1. faults' \in Nat /\ faults <= faults' BY <1>1, <1>2
  <2> QED BY <1>1, <2>1, RunStays
<1>6. Counted' BY <1>1 DEF WorkInv, Counted, Saved
<1> QED BY <1>4, <1>5, <1>6 DEF WorkInv

LEMMA ExitCounted == ASSUME WorkInv, Exit, UNCHANGED answers, faults' \in Nat
                     PROVE  Counted' /\ RunIsAhead' /\ Slack' = 0
BY DEF WorkInv, Counted, RunIsAhead, Exit, Slack

LEMMA GiveUpWork == ASSUME WorkInv, Inv', GiveUp PROVE WorkInv'
<1>1. /\ Exit /\ progress' = Saved /\ UNCHANGED answers /\ faults' = faults + 1 /\ pc # "idle"
      BY DEF GiveUp, Fault, Asks
<1>2. faults \in Nat BY DEF WorkInv, Counted
<1>3. faults' \in Nat BY <1>1, <1>2
<1>4. Counted' /\ RunIsAhead' /\ Slack' = 0 BY <1>1, <1>3, ExitCounted
<1>5. Slack' \in Int /\ NoLess(faults, answers[range.hi], 1, faults', answers[range.hi], Slack')
  <2>1. answers[range.hi] \in Nat BY <1>1, RunNumbers DEF WorkInv
  <2> QED BY <1>1, <1>2, <1>4, <2>1, AFault
<1>6. SavedIsAhead' BY <1>1, <1>3, <1>5, SavedByRun
<1> QED BY <1>4, <1>6 DEF WorkInv

LEMMA KilledWork == ASSUME WorkInv, Inv', Killed PROVE WorkInv'
<1>1. Exit /\ UNCHANGED <<progress, answers>> /\ faults' = faults + 1 BY DEF Killed, Fault, files
<1>2. faults \in Nat BY DEF WorkInv, Counted
<1>3. faults' \in Nat BY <1>1, <1>2
<1>4. Counted' /\ RunIsAhead' /\ Slack' = 0 BY <1>1, <1>3, ExitCounted
<1>5. SavedIsAhead'
  <2>1. ASSUME progress # Missing
        PROVE  NoLess(faults, answers[progress.hi], Slack,
                         faults', answers'[progress.hi], Slack')
    <3>1. answers[progress.hi] \in Nat /\ answers'[progress.hi] = answers[progress.hi]
          BY <1>1, <2>1, SavedNumbers DEF WorkInv
    <3> QED BY <1>1, <1>2, <1>4, <3>1, SlackIs, AFault
  <2> QED BY <1>1, <1>3, <1>4, <2>1, SavedStays DEF WorkInv
<1> QED BY <1>4, <1>5 DEF WorkInv

\* A run that is left incomplete has paid for the heights it lacks.
LEMMA IncompleteWork == ASSUME WorkInv, Inv', Incomplete PROVE WorkInv'
<1>1. /\ Exit /\ UNCHANGED <<progress, answers, faults>> /\ pc = "count"
      /\ ~(Heights(range) \subseteq DOMAIN have)
      BY DEF Incomplete, files
<1>2. faults \in Nat /\ progress = Saved /\ height < range.lo BY <1>1 DEF WorkInv, Counted
<1>3. Counted' /\ RunIsAhead' /\ Slack' = 0 BY <1>1, <1>2, ExitCounted
<1> DEFINE hi == range.hi
           n == answers[hi]
           held == DOMAIN have
<1>4. range \in Ranges /\ hi \in Nat /\ n \in Nat /\ height \in Int
      BY <1>1, RunNumbers DEF WorkInv
<1>5. Saved.hi = hi /\ Saved.headers = have BY DEF Saved
<1>6. ASSUME NEW lo \in Nat, Lowest(lo, hi)
      PROVE  Covered((lo..hi) \ held, Allowance(lo, hi, faults, n, 0))
  <2> DEFINE a == Allowance(lo, hi, faults, n, 0)
  <2>1. lo <= range.lo BY <1>4, <1>6 DEF Lowest
  <2>2. Ahead(lo, range, height, held, a) BY <1>1, <1>6 DEF WorkInv, RunIsAhead
  <2>3. a \in Nat /\ Covered((lo..hi) \ held, a)
    <3> HIDE DEF a
    <3> QED BY <1>1, <1>2, <1>4, <2>1, <2>2, AheadSaved
  <2> QED BY <2>3
<1>7. SavedIsAhead'
  <2>1. progress' = Saved /\ answers' = answers /\ faults' = faults BY <1>1, <1>2
  <2> QED BY <1>3, <1>5, <1>6, <2>1 DEF SavedIsAhead
<1> QED BY <1>3, <1>7 DEF WorkInv

LEMMA DescribeWork == ASSUME WorkInv, Inv', Describe PROVE WorkInv'
<1>1. Exit /\ UNCHANGED <<progress, answers, faults>> /\ pc = "describe" BY DEF Describe
<1>2. faults \in Nat /\ progress = Missing BY <1>1 DEF WorkInv, Counted
<1>3. Counted' /\ RunIsAhead' BY <1>1, <1>2, ExitCounted
<1>4. SavedIsAhead' BY <1>1, <1>2 DEF SavedIsAhead
<1> QED BY <1>3, <1>4 DEF WorkInv

LEMMA RemoveWork == ASSUME WorkInv, Inv', RemoveProgress PROVE WorkInv'
<1>1. /\ progress' = Missing /\ UNCHANGED <<range, have, height, answers, faults>>
      /\ pc # "idle" /\ pc' = "describe"
      BY DEF RemoveProgress, process
<1>2. faults' \in Nat /\ faults <= faults' BY <1>1 DEF WorkInv, Counted
<1>3. RunIsAhead' BY <1>1, <1>2, RunStays
<1>4. SavedIsAhead' BY <1>1 DEF SavedIsAhead
<1>5. Counted' BY <1>1 DEF WorkInv, Counted
<1> QED BY <1>3, <1>4, <1>5 DEF WorkInv

LEMMA SkipHeldWork == ASSUME WorkInv, Inv', SkipHeld PROVE WorkInv'
<1>1. /\ pc = "walk" /\ pc' = "walk" /\ height \in DOMAIN have /\ height' = height - 1
      /\ UNCHANGED <<progress, range, have, answers, faults>>
      BY DEF SkipHeld, files
<1> DEFINE hi == range.hi
           n == answers[hi]
<1>2. range \in Ranges /\ hi \in Nat /\ n \in Nat /\ faults \in Nat /\ height \in Int
      BY <1>1, RunNumbers DEF WorkInv
<1>3. SavedIsAhead'
  <2>1. Slack' = Slack /\ Slack \in Int BY <1>1, SlackIs DEF Slack
  <2>2. ASSUME progress # Missing
        PROVE  NoLess(faults, answers[progress.hi], Slack,
                      faults', answers'[progress.hi], Slack')
    <3>1. answers[progress.hi] \in Nat BY <2>2, SavedNumbers DEF WorkInv
    <3> QED BY <1>1, <1>2, <2>1, <3>1, MoreFaults
  <2> QED BY <1>1, <1>2, <2>1, <2>2, SavedStays DEF WorkInv
<1>4. ASSUME NEW lo \in Nat, Lowest(lo, hi)
      PROVE  Ahead(lo, range, height - 1, DOMAIN have, Allowance(lo, hi, faults, n, 0))
  <2> DEFINE a == Allowance(lo, hi, faults, n, 0)
  <2>1. Ahead(lo, range, height, DOMAIN have, a) BY <1>1, <1>4 DEF WorkInv, RunIsAhead
  <2> HIDE DEF a
  <2>2. Ahead(lo, range, height - 1, DOMAIN have, a) BY <1>1, <1>2, <2>1, AheadSkip
  <2> QED BY <2>2 DEF a
<1>5. RunIsAhead' BY <1>1, <1>4 DEF RunIsAhead
<1>6. Counted' BY <1>1, <1>2 DEF WorkInv, Counted
<1> QED BY <1>3, <1>5, <1>6 DEF WorkInv

LEMMA EmptyAnswerWork == ASSUME WorkInv, Inv', EmptyAnswer PROVE WorkInv'
<1>1. /\ pc = "walk" /\ pc' = "flush" /\ height' = height - 1 /\ faults' = faults + 1
      /\ UNCHANGED <<progress, range, have, answers>>
      BY DEF EmptyAnswer, Asks, Fault, files
<1> DEFINE hi == range.hi
           n == answers[hi]
<1>2. range \in Ranges /\ hi \in Nat /\ n \in Nat /\ faults \in Nat /\ height \in Int
      BY <1>1, RunNumbers DEF WorkInv
<1>3. SavedIsAhead'
  <2>1. Slack \in {0, 1} /\ Slack' \in {0, 2} BY <1>1 DEF Slack
  <2>2. ASSUME progress # Missing
        PROVE  NoLess(faults, answers[progress.hi], Slack,
                      faults', answers'[progress.hi], Slack')
    <3>1. answers[progress.hi] \in Nat /\ answers'[progress.hi] = answers[progress.hi]
          BY <1>1, <2>2, SavedNumbers DEF WorkInv
    <3> QED BY <1>1, <1>2, <2>1, <3>1, AnEmpty
  <2>3. faults' \in Nat /\ Slack' \in Int BY <1>1, <1>2, <2>1
  <2> QED BY <1>1, <2>2, <2>3, SavedStays DEF WorkInv
<1>4. ASSUME NEW lo \in Nat, Lowest(lo, hi)
      PROVE  Ahead(lo, range, height - 1, DOMAIN have, Allowance(lo, hi, faults + 1, n, 0))
  <2> DEFINE a == Allowance(lo, hi, faults, n, 0)
             b == Allowance(lo, hi, faults + 1, n, 0)
  <2>1. Ahead(lo, range, height, DOMAIN have, a) BY <1>1, <1>4 DEF WorkInv, RunIsAhead
  <2>2. b = a + 2
    <3> HIDE DEF hi, n
    <3> QED BY <1>2, AllowanceMoves
  <2> HIDE DEF a, b
  <2>3. Ahead(lo, range, height - 1, DOMAIN have, a + 2) BY <1>2, <2>1, AheadEmpty
  <2> QED BY <2>2, <2>3 DEF b
<1>5. RunIsAhead' BY <1>1, <1>4 DEF RunIsAhead
<1>6. Counted' BY <1>1, <1>2 DEF WorkInv, Counted
<1> QED BY <1>3, <1>5, <1>6 DEF WorkInv

\* An answer is counted, and the batch is not saved yet.
LEMMA AnswerWork == ASSUME WorkInv, Inv', Answer PROVE WorkInv'
<1> DEFINE from == IF height - Batch + 1 > 0 THEN height - Batch + 1 ELSE 0
           held == DOMAIN have \cup ((from..height) \cap Heights(range))
           hi == range.hi
           n == answers[hi]
<1>1. /\ pc = "walk" /\ pc' = "flush" /\ height >= range.lo /\ height \notin DOMAIN have
      /\ height' = from - 1
      /\ answers' = [answers EXCEPT ![hi] = @ + 1]
      /\ UNCHANGED <<progress, range, faults>>
      BY DEF Answer, Asks, files
<1>2. DOMAIN have' = held BY DEF Answer
<1> HIDE DEF held
<1>3. range \in Ranges /\ hi \in 0..Tip /\ hi \in Nat /\ range.lo \in Nat /\ n \in Nat
      /\ faults \in Nat /\ height \in Int /\ height <= hi
      BY <1>1, RunNumbers DEF WorkInv, Counted
<1>4. answers \in [0..Tip -> Nat] BY DEF WorkInv, Counted
<1>5. answers' \in [0..Tip -> Nat] /\ answers'[hi] = n + 1
  <2> HIDE DEF hi
  <2> QED BY <1>1, <1>3, <1>4
<1>6. SavedIsAhead'
  <2>1. ASSUME progress # Missing
        PROVE  NoLess(faults, answers[progress.hi], Slack,
                      faults', answers'[progress.hi], Slack')
    <3>1. progress.hi \in 0..Tip /\ answers[progress.hi] \in Nat
          BY <2>1, SavedNumbers DEF WorkInv
    <3>2. CASE hi = progress.hi
      <4>1. Slack = 1 /\ Slack' = 2 BY <1>1, <3>2 DEF Slack
      <4>2. NoLess(faults, n, 1, faults, n + 1, 2) BY <1>3 DEF NoLess
      <4> QED BY <1>1, <1>5, <3>2, <4>1, <4>2
    <3>3. CASE hi # progress.hi
      <4>1. Slack = 0 /\ Slack' = 0 BY <1>1, <3>3 DEF Slack
      <4>2. answers'[progress.hi] = answers[progress.hi] BY <1>1, <1>4, <3>1, <3>3
      <4> QED BY <1>1, <1>3, <3>1, <4>1, <4>2, MoreFaults
    <3> QED BY <3>2, <3>3
  <2>2. faults' \in Nat /\ Slack' \in Int BY <1>1, <1>3 DEF Slack
  <2> QED BY <1>1, <2>1, <2>2, SavedStays DEF WorkInv
<1>7. ASSUME NEW lo \in Nat, Lowest(lo, hi)
      PROVE  Ahead(lo, range, from - 1, held, Allowance(lo, hi, faults, n + 1, 0))
  <2> DEFINE a == Allowance(lo, hi, faults, n, 0)
             b == Allowance(lo, hi, faults, n + 1, 0)
  <2>1. Ahead(lo, range, height, DOMAIN have, a) BY <1>1, <1>7 DEF WorkInv, RunIsAhead
  <2>2. b = a - 1
    <3> HIDE DEF hi, n
    <3> QED BY <1>3, AllowanceMoves
  <2> HIDE DEF a, b, hi, n
  <2>3. range.lo <= height BY <1>1, <1>3
  <2>4. Ahead(lo, range, from - 1, held, a - 1)
        BY <1>1, <1>3, <2>1, <2>3, AheadAnswer DEF held
  <2> QED BY <2>2, <2>4 DEF b
<1>8. RunIsAhead'
  <2> HIDE DEF from
  <2> QED BY <1>1, <1>2, <1>5, <1>7 DEF RunIsAhead
<1>9. Counted'
  <2>1. from \in Int /\ from - 1 \in Int /\ from - 1 <= hi BY <1>1, <1>3, BatchIsPositive
  <2>2. faults' \in Nat BY <1>1, <1>3
  <2> HIDE DEF from
  <2> QED BY <1>1, <1>5, <2>1, <2>2 DEF Counted
<1> QED BY <1>6, <1>8, <1>9 DEF WorkInv

\* A run takes up what is on disk for its --to, or begins with the whole of it.
LEMMA StartWork == ASSUME WorkInv, Inv', Start PROVE WorkInv'
<1> DEFINE resumed == progress # Missing /\ progress.hi = range'.hi
<1>1. /\ pc = "idle" /\ pc' = "walk" /\ range' \in Ranges /\ height' = range'.hi
      /\ have' = (IF resumed THEN progress.headers ELSE None)
      /\ answers' = (IF resumed THEN answers ELSE [answers EXCEPT ![range'.hi] = 0])
      /\ UNCHANGED <<progress, faults>>
      BY DEF Start, files
<1> HIDE DEF resumed
<1>2. PICK r \in Ranges : r = range' BY <1>1
<1> DEFINE hi == r.hi
<1>3. hi \in 0..Tip /\ hi \in Nat /\ r.lo \in Nat /\ r.lo <= hi BY <1>2, RangeIsTyped
<1>4. faults \in Nat /\ answers \in [0..Tip -> Nat] BY DEF WorkInv, Counted
<1>5. /\ answers' \in [0..Tip -> Nat]
      /\ resumed => answers' = answers /\ have' = progress.headers
      /\ ~resumed => answers'[hi] = 0 /\ DOMAIN have' = {}
  <2> HIDE DEF hi
  <2>1. answers' = (IF resumed THEN answers ELSE [answers EXCEPT ![hi] = 0]) BY <1>1, <1>2 DEF hi
  <2> DEFINE fresh == [answers EXCEPT ![hi] = 0]
  <2>2. fresh \in [0..Tip -> Nat] /\ fresh[hi] = 0 BY <1>3, <1>4
  <2> HIDE DEF fresh
  <2>3. CASE resumed BY <1>1, <1>4, <2>3
  <2>4. CASE ~resumed
    <3>1. answers' = fresh /\ have' = None BY <1>1, <2>1, <2>4 DEF fresh
    <3> QED BY <2>2, <2>4, <3>1, NoneIsHeaders
  <2> QED BY <2>3, <2>4
<1>6. SavedIsAhead'
  <2>1. ASSUME progress # Missing
        PROVE  NoLess(faults, answers[progress.hi], Slack,
                      faults', answers'[progress.hi], Slack')
    <3>1. progress.hi \in 0..Tip /\ answers[progress.hi] \in Nat
          BY <2>1, SavedNumbers DEF WorkInv
    <3>2. Slack = 0 BY <1>1, SlackIs
    <3>3. CASE progress.hi = hi
      <4>1. Slack' = 1 BY <1>1, <1>2, <3>3 DEF Slack
      <4>2. answers' = answers BY <1>2, <1>5, <2>1, <3>3 DEF resumed
      <4>3. NoLess(faults, answers[progress.hi], 0, faults, answers[progress.hi], 1)
            BY <1>4, <3>1 DEF NoLess
      <4> QED BY <1>1, <3>2, <4>1, <4>2, <4>3
    <3>4. CASE progress.hi # hi
      <4>1. Slack' = 0 BY <1>1, <1>2, <3>4 DEF Slack
      <4>2. answers'[progress.hi] = answers[progress.hi]
            BY <1>1, <1>2, <1>4, <3>1, <3>4 DEF resumed
      <4> QED BY <1>1, <1>4, <3>1, <3>2, <4>1, <4>2, MoreFaults
    <3> QED BY <3>3, <3>4
  <2>2. faults' \in Nat /\ Slack' \in Int BY <1>1, <1>4 DEF Slack
  <2> QED BY <1>1, <2>1, <2>2, SavedStays DEF WorkInv
<1>7. ASSUME NEW lo \in Nat, Lowest(lo, hi)
      PROVE  Ahead(lo, r, hi, DOMAIN have', Allowance(lo, hi, faults, answers'[hi], 0))
  <2>1. lo <= r.lo BY <1>7 DEF Lowest
  <2>2. CASE resumed
    <3> DEFINE a == Allowance(lo, hi, faults, answers'[hi], 0)
    <3>1. progress # Missing /\ progress.hi = hi BY <1>2, <2>2 DEF resumed
    <3>2. Slack = 0 BY <1>1, SlackIs
    <3>3. Covered((lo..hi) \ DOMAIN have', a)
          BY <1>5, <1>7, <2>2, <3>1, <3>2 DEF WorkInv, SavedIsAhead
    <3> HIDE DEF a
    <3>4. Ahead(lo, r, hi, DOMAIN have', a) BY <2>1, <3>3, AheadStart
    <3> QED BY <3>4 DEF a
  <2>3. CASE ~resumed
    <3> DEFINE e == (hi - lo) \div Batch + 1
               b == Allowance(lo, hi, faults, 0, 0)
    <3>1. lo <= hi BY <1>3, <2>1
    <3>2. Covered(lo..hi, e)
      <4> HIDE DEF hi
      <4> QED BY <1>3, <3>1, CoverAll
    <3>3. e <= b /\ b \in Int
      <4>1. e = Allowance(lo, hi, 0, 0, 0) BY <1>3, AllowanceFirst
      <4>2. NoLess(0, 0, 0, faults, 0, 0) BY <1>4 DEF NoLess
      <4> HIDE DEF hi, e
      <4> QED BY <1>3, <4>1, <4>2, AllowanceGrows
    <3> HIDE DEF e, b
    <3>4. Covered((lo..hi) \ DOMAIN have', e) BY <1>5, <2>3, <3>2
    <3>5. Ahead(lo, r, hi, DOMAIN have', e) BY <2>1, <3>4, AheadStart
    <3>6. Ahead(lo, r, hi, DOMAIN have', b) BY <3>3, <3>5, AheadMore
    <3> QED BY <1>5, <2>3, <3>6 DEF b
  <2> QED BY <2>2, <2>3
<1>8. RunIsAhead'
  <2>1. faults' = faults /\ height' = hi /\ range' = r BY <1>1, <1>2
  <2> QED BY <1>7, <2>1 DEF RunIsAhead
<1>9. Counted' BY <1>1, <1>2, <1>3, <1>4, <1>5 DEF Counted
<1> QED BY <1>6, <1>8, <1>9 DEF WorkInv

LEMMA WorkSteps == ASSUME WorkInv, [Next]_vars PROVE WorkInv'
<1>0. Inv' BY StepInv DEF WorkInv
<1>f. faults \in Nat /\ faults <= faults /\ faults + 1 \in Nat /\ faults <= faults + 1
      BY DEF WorkInv, Counted
<1>1. CASE Reorg
  <2>1. faults' = faults /\ pc' = pc /\ UNCHANGED <<progress, range, have, height, answers>>
        BY <1>1 DEF Reorg, files, process
  <2>2. faults' \in Nat /\ faults <= faults' BY <1>f, <2>1
  <2>3. QuietMove BY <2>1 DEF QuietMove
  <2> QED BY <1>0, <2>1, <2>2, <2>3, QuietWork
<1>2. CASE Start BY <1>0, <1>2, StartWork
<1>3. CASE SkipHeld BY <1>0, <1>3, SkipHeldWork
<1>4. CASE Answer BY <1>0, <1>4, AnswerWork
<1>5. CASE EmptyAnswer BY <1>0, <1>5, EmptyAnswerWork
<1>6. CASE TryAgain
  <2>1. faults' = faults + 1 /\ pc' = pc /\ UNCHANGED <<progress, range, have, height, answers>>
        BY <1>6 DEF TryAgain, Fault, files
  <2>2. faults' \in Nat /\ faults <= faults' BY <1>f, <2>1
  <2>3. QuietMove BY <2>1 DEF QuietMove
  <2> QED BY <1>0, <2>1, <2>2, <2>3, QuietWork
<1>7. CASE GiveUp BY <1>0, <1>7, GiveUpWork
<1>8. CASE Flush \/ Walked BY <1>0, <1>8, SaveWork
<1>10. CASE Incomplete BY <1>0, <1>10, IncompleteWork
<1>11. CASE OpenBin BY <1>0, <1>f, <1>11, QuietWork DEF OpenBin, process, QuietMove
<1>12. CASE WriteBin BY <1>0, <1>f, <1>12, QuietWork DEF WriteBin, process, QuietMove
<1>13. CASE RemoveProgress BY <1>0, <1>13, RemoveWork
<1>14. CASE Describe BY <1>0, <1>14, DescribeWork
<1>15. CASE Killed BY <1>0, <1>15, KilledWork
<1>16. CASE UNCHANGED vars
  <2>1. faults' = faults /\ pc' = pc /\ UNCHANGED <<progress, range, have, height, answers>>
        BY <1>16 DEF vars, files, process
  <2>2. faults' \in Nat /\ faults <= faults' BY <1>f, <2>1
  <2>3. QuietMove BY <2>1 DEF QuietMove
  <2> QED BY <1>0, <2>1, <2>2, <2>3, QuietWork
<1> QED BY <1>1, <1>2, <1>3, <1>4, <1>5, <1>6, <1>7, <1>8, <1>10, <1>11, <1>12,
           <1>13, <1>14, <1>15, <1>16 DEF Next, Run

\* What is received never exceeds the allowance.
LEMMA WorkIsAllowed == WorkInv => WorkIsNotRepeated
<1> SUFFICES ASSUME WorkInv, pc # "idle", NEW lo \in 0..range.lo,
                    \A r \in Ranges : r.hi = range.hi => lo <= r.lo
             PROVE  answers[range.hi] <= (range.hi - lo) \div Batch + 1 + 2 * faults
    BY DEF WorkIsNotRepeated
<1> DEFINE hi == range.hi
           n == answers[hi]
<1>1. /\ range \in Ranges /\ hi \in Nat /\ n \in Nat /\ faults \in Nat /\ height \in Int
      /\ range.lo \in Nat
      BY RunNumbers DEF WorkInv
<1>2. lo \in Nat /\ lo <= range.lo /\ Lowest(lo, hi) BY <1>1 DEF Lowest
<1> DEFINE a == Allowance(lo, hi, faults, n, 0)
<1>3. Ahead(lo, range, height, DOMAIN have, a) BY <1>2 DEF WorkInv, RunIsAhead
<1>4. a \in Nat
  <2> HIDE DEF a
  <2> QED BY <1>1, <1>2, <1>3, AheadSaved
<1>5. n <= (hi - lo) \div Batch + 1 + 2 * faults
  <2> HIDE DEF hi, n
  <2>1. PICK d \in Int :
          /\ d = (hi - lo) \div Batch
          /\ \A f, m, s : Allowance(lo, hi, f, m, s) = d + 1 + 2 * f - m + s
        BY <1>1, <1>2, AllowanceIs
  <2>2. a = d + 1 + 2 * faults - n + 0 BY <2>1
  <2> HIDE DEF a
  <2>3. n <= d + 1 + 2 * faults BY <1>1, <1>4, <2>2
  <2> QED BY <2>1, <2>3
<1> QED BY <1>5

\* "844 calls" stays 844 calls, for every range and batch size and over any number
\* of runs: what fetch_headers.py receives for a --to is the batches it takes, and
\* two more for every fault at the most.
THEOREM WorkIsBounded == Spec => []WorkIsNotRepeated
<1>1. WorkInv /\ [Next]_vars => WorkInv' BY WorkSteps
<1> QED BY WorkInit, <1>1, WorkIsAllowed, PTL DEF Spec
=============================================================================
