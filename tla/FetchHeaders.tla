----------------------------- MODULE FetchHeaders -----------------------------
(***************************************************************************)
(* fetch_headers.py: collecting the headers of a range of heights, in      *)
(* batches, downwards, from a server that throttles and fails, by a        *)
(* process that may be killed at any point and is then run again.          *)
(*                                                                         *)
(* The server answers from the chain as it is at that moment, and the      *)
(* chain may be reorganised between two answers.  A header is the branch   *)
(* it was mined on and the branch of the block its prev-block field names; *)
(* an answer whose headers do not hash to the ids served with them ends    *)
(* the run as any failure that is not retried does.                        *)
(***************************************************************************)
EXTENDS Integers

CONSTANTS Ranges,        \* what a run may be asked for: records with lo and hi
          Batch,         \* blocks per request
          Retries,       \* attempts per request
          Missing,       \* no such file
          MaxFaults, MaxReorgs, MaxRuns

ASSUME FetchAssumption ==
  /\ \A r \in Ranges : r.lo \in Nat /\ r.hi \in Nat /\ r.lo <= r.hi
  /\ Batch \in Nat \ {0} /\ Retries \in Nat \ {0}
  /\ MaxFaults \in Nat /\ MaxReorgs \in Nat /\ MaxRuns \in Nat

VARIABLES chain, reorgs,   \* the server's chain, height by height
          faults, runs,    \* how often something failed, and runs begun (bounded)
          progress,        \* headers.bin.progress.json
          bin, json,       \* headers.bin and headers.json
          pc, range, have, height, attempt,  \* the process
          answers          \* batches received for a --to since its progress began (a history)

files   == <<progress, bin, json>>
process == <<range, have, height, attempt>>
vars    == <<chain, reorgs, faults, runs, files, pc, process, answers>>

Tip     == CHOOSE h \in {r.hi : r \in Ranges} : \A r \in Ranges : r.hi <= h
Branch  == 0..MaxReorgs
Header  == [on : Branch, prev : Branch]
Heights(r) == r.lo..r.hi

None == [h \in {} |-> Missing]
Headers == UNION {[S -> Header] : S \in SUBSET (0..Tip)}

ASSUME FilesAssumption ==
  /\ Tip \in Nat /\ \A r \in Ranges : r.hi \in 0..Tip
  /\ Missing \notin Ranges
  /\ Missing \notin [hi : 0..Tip, headers : Headers]
  /\ Missing \notin [of : Ranges, headers : Headers]

-----------------------------------------------------------------------------

Init ==
  /\ chain = [h \in 0..Tip |-> [on |-> 0, prev |-> 0]] /\ reorgs = 0
  /\ faults = 0 /\ runs = 0
  /\ progress = Missing /\ bin = Missing /\ json = Missing
  /\ pc = "idle" /\ range = Missing /\ have = None /\ height = 0 /\ attempt = 0
  /\ answers = [h \in 0..Tip |-> 0]

\* The blocks from some height on are replaced by those of a new branch.
Reorg ==
  /\ reorgs < MaxReorgs /\ reorgs' = reorgs + 1
  /\ \E f \in 1..Tip :
       chain' = [h \in 0..Tip |->
                   IF h < f THEN chain[h]
                   ELSE [on |-> reorgs + 1,
                         prev |-> IF h = f THEN chain[h - 1].on ELSE reorgs + 1]]
  /\ UNCHANGED <<faults, runs, files, pc, process, answers>>

Fault == faults < MaxFaults /\ faults' = faults + 1

Finished(r) == bin # Missing /\ bin.of = r /\ bin.headers # None /\ json = r

\* The operator runs the command until its two files are there.  Progress made
\* for another --to is discarded.
Start ==
  /\ pc = "idle" /\ runs < MaxRuns
  /\ runs' = runs + 1
  /\ \E r \in Ranges :
       /\ ~Finished(r)
       /\ range' = r /\ height' = r.hi
       /\ LET resumed == progress # Missing /\ progress.hi = r.hi IN
          /\ have' = IF resumed THEN progress.headers ELSE None
          /\ answers' = IF resumed THEN answers ELSE [answers EXCEPT ![r.hi] = 0]
  /\ attempt' = 0 /\ pc' = "walk"
  /\ UNCHANGED <<chain, reorgs, faults, files>>

\* Mutant of SkipHeld: the loop goes round at the same height.
SkipHeldInPlace ==
  /\ pc = "walk" /\ height >= range.lo /\ height \in DOMAIN have
  /\ UNCHANGED vars

SkipHeld ==
  /\ pc = "walk" /\ height >= range.lo /\ height \in DOMAIN have
  /\ height' = height - 1
  /\ UNCHANGED <<chain, reorgs, faults, runs, files, pc, range, have, attempt, answers>>

Asks == pc = "walk" /\ height >= range.lo /\ height \notin DOMAIN have

\* The batch that ends at height, as far as the range goes.
Answer ==
  LET from == IF height - Batch + 1 > 0 THEN height - Batch + 1 ELSE 0
      held == DOMAIN have \cup ((from..height) \cap Heights(range))
  IN  /\ Asks
      /\ have' = [h \in held |-> IF h \in from..height THEN chain[h] ELSE have[h]]
      /\ height' = from - 1
      /\ attempt' = 0 /\ answers' = [answers EXCEPT ![range.hi] = @ + 1]
      /\ pc' = "flush"
      /\ UNCHANGED <<chain, reorgs, faults, runs, files, range>>

\* No block in the answer: the height is passed over for this run.
EmptyAnswer ==
  /\ Asks /\ Fault
  /\ height' = height - 1
  /\ attempt' = 0
  /\ pc' = "flush"
  /\ UNCHANGED <<chain, reorgs, runs, files, range, have, answers>>

\* A 429, or a failure below HTTP, is waited out and tried again.
TryAgain ==
  /\ Asks /\ Fault
  /\ attempt + 1 < Retries
  /\ attempt' = attempt + 1
  /\ UNCHANGED <<chain, reorgs, runs, files, pc, range, have, height, answers>>

Saved == [hi |-> range.hi, headers |-> have]

Exit == pc' = "idle" /\ range' = Missing /\ have' = None /\ height' = 0 /\ attempt' = 0

\* Mutant of GiveUp: the way out does not save what the run holds.
GiveUpUnsaved ==
  /\ Asks /\ Fault
  /\ progress' = Missing
  /\ Exit
  /\ UNCHANGED <<chain, reorgs, runs, bin, json, answers>>

\* The attempts are used up, or the failure is one that is not retried: the
\* exception leaves through "finally", which saves.
GiveUp ==
  /\ Asks /\ Fault
  /\ progress' = Saved
  /\ Exit
  /\ UNCHANGED <<chain, reorgs, runs, bin, json, answers>>

\* Mutant of Flush: only the batch just received is written.
FlushBatch ==
  /\ pc = "flush" /\ pc' = "walk"
  /\ progress' = [hi |-> range.hi,
                  headers |-> [h \in DOMAIN have \cap (height + 1)..(height + Batch) |-> have[h]]]
  /\ UNCHANGED <<chain, reorgs, faults, runs, bin, json, process, answers>>

Flush ==
  /\ pc = "flush" /\ pc' = "walk"
  /\ progress' = Saved
  /\ UNCHANGED <<chain, reorgs, faults, runs, bin, json, process, answers>>

Walked ==
  /\ pc = "walk" /\ height < range.lo
  /\ progress' = Saved
  /\ pc' = "count"
  /\ UNCHANGED <<chain, reorgs, faults, runs, bin, json, process, answers>>

Incomplete ==
  /\ pc = "count" /\ ~(Heights(range) \subseteq DOMAIN have)
  /\ Exit
  /\ UNCHANGED <<chain, reorgs, faults, runs, files, answers>>

\* Opening headers.bin for writing empties it.
OpenBin ==
  /\ pc = "count" /\ Heights(range) \subseteq DOMAIN have
  /\ bin' = [of |-> range, headers |-> None]
  /\ pc' = "write"
  /\ UNCHANGED <<chain, reorgs, faults, runs, progress, json, process, answers>>

WriteBin ==
  /\ pc = "write" /\ pc' = "remove"
  /\ bin' = [of |-> range, headers |-> [h \in Heights(range) |-> have[h]]]
  /\ UNCHANGED <<chain, reorgs, faults, runs, progress, json, process, answers>>

RemoveProgress ==
  /\ pc = "remove" /\ pc' = "describe"
  /\ progress' = Missing
  /\ UNCHANGED <<chain, reorgs, faults, runs, bin, json, process, answers>>

Describe ==
  /\ pc = "describe"
  /\ json' = range
  /\ Exit
  /\ UNCHANGED <<chain, reorgs, faults, runs, progress, bin, answers>>

Killed ==
  /\ pc # "idle" /\ Fault
  /\ Exit
  /\ UNCHANGED <<chain, reorgs, runs, files, answers>>

Run == \/ Start \/ SkipHeld \/ Answer \/ Flush \/ Walked \/ Incomplete
       \/ OpenBin \/ WriteBin \/ RemoveProgress \/ Describe

Next == Run \/ Reorg \/ EmptyAnswer \/ TryAgain \/ GiveUp \/ Killed

Spec == Init /\ [][Next]_vars

\* The process keeps running, the server does answer in the end, and the command
\* is run again while its files are not there.  Faults are bounded, not fair.
FairSpec == Spec /\ WF_vars(Run)

-----------------------------------------------------------------------------

\* What progress holds stays there.  A run for another --to writes its own over it; the
\* run that ends with a whole headers.bin removes it, and of the heights that run was
\* asked for headers.bin then has the very headers.  (Heights below its --from, saved
\* by a run with a lower one, go with the file.)
ProgressIsKept ==
  progress # Missing =>
    \/ /\ progress' # Missing /\ progress'.hi = progress.hi
       /\ DOMAIN progress.headers \subseteq DOMAIN progress'.headers
    \/ pc # "idle" /\ range.hi # progress.hi
    \/ /\ pc = "remove" /\ bin' # Missing
       /\ \A h \in DOMAIN progress.headers \cap Heights(range) :
            h \in DOMAIN bin'.headers /\ bin'.headers[h] = progress.headers[h]

\* A headers.bin with headers in it is emptied only when all that is to be written in
\* their place is in the progress file, and stays in it.
BinIsKept ==
  bin # Missing /\ bin.headers # None /\ bin' # bin =>
    /\ progress # Missing /\ progress.hi = range.hi
    /\ Heights(range) \subseteq DOMAIN progress.headers
    /\ progress' = progress

\* "Progress is written to disk as it goes": over runs, failures and kills, no step
\* leaves a header that was saved for the range at hand in neither of the two files.
FetchedIsNeverLost == [][ProgressIsKept /\ BinIsKept]_files

\* A batch is received again only on account of a fault, so "844 calls" stays
\* 844 calls over however many runs a --to takes: a fault costs at most a batch
\* not yet saved, or a height passed over, and one more for a run on another
\* --from, which cuts the batches elsewhere.
WorkIsNotRepeated ==
  pc # "idle" =>
    \A lo \in 0..range.lo :
      (\A r \in Ranges : r.hi = range.hi => lo <= r.lo) =>
        answers[range.hi] <= (range.hi - lo) \div Batch + 1 + 2 * faults

\* Whatever fails on the way, a range asked for until it is done gets its two
\* files, headers.bin whole and headers.json about it.
RangeIsCollected == <>(\E r \in Ranges : Finished(r))
=============================================================================
