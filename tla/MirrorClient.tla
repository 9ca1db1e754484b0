----------------------------- MODULE MirrorClient -----------------------------
(***************************************************************************)
(* mirror_client.py: runs that read an export directory, cut [--from,      *)
(* size) into packages at the multiples of 256, and post the checkpoint    *)
(* and then the packages, a few at a time, to a mirror.                    *)
(*                                                                         *)
(* The directory is refreshed file by file under a run, or holds a damaged *)
(* leaves file; a request may be lost, half served, served without its     *)
(* answer coming back, or served long after the client has given up; the   *)
(* process may be killed.  A run remembers nothing of the last one.        *)
(*                                                                         *)
(* A list of leaves is its length and whether it is the log's.  A proof is *)
(* the subtree it is for: subtree_proof makes one, and it verifies, for    *)
(* a valid subtree and no other, which SubtreeVerifier checks.             *)
(***************************************************************************)
EXTENDS Merkle

CONSTANTS Package,       \* 256 in the code
          MaxPackages,   \* --max-packages
          From,          \* what may be given for --from
          MaxSize, MaxChanges, MaxFaults

ASSUME MirrorAssumption ==
  /\ Package \in Nat /\ \E e \in 0..Package : Package = 2^e
  /\ MaxPackages \in Nat \ {0}
  /\ From \subseteq Nat /\ 0 \in From
  /\ MaxSize \in Nat \ {0} /\ MaxChanges \in Nat /\ MaxFaults \in Nat

VARIABLES log,             \* the size of the log
          dir, changes,    \* the export directory, and how often it has changed
          mirror,          \* the checkpoint it has, and how many entries it holds
          late, faults,    \* requests still under way, and how much has gone wrong
          pc, rc, lo, size, read, packages,   \* the run
          before           \* what the mirror held when the run began (a history)

directory == <<log, dir, changes>>
run       == <<pc, rc, lo, size, read, packages, before>>
vars      == <<directory, mirror, late, faults, run>>

Sizes  == 0..MaxSize
Leaves == [n : Sizes, good : BOOLEAN]
Nobody == [n |-> 0, good |-> FALSE]

-----------------------------------------------------------------------------

Larger(a, b)  == IF a < b THEN b ELSE a
Smaller(a, b) == IF a < b THEN a ELSE b

\* A block of [first, past), clipped to [start, end).
Block(start, end, i) ==
  LET sub == (start \div Package) * Package + i * Package IN
  [start |-> Larger(start, sub), end |-> Smaller(end, sub + Package), sub |-> sub]

\* Mutant of Blocks: the end is rounded down as the start is.
BlocksRoundedDown(start, end) ==
  LET first == (start \div Package) * Package
      past  == (end \div Package) * Package
  IN  [i \in 1..Larger(0, (past - first) \div Package) |-> Block(start, end, i - 1)]

Blocks(start, end) ==
  LET first == (start \div Package) * Package
      past  == ((end + Package - 1) \div Package) * Package
  IN  [i \in 1..Larger(0, (past - first) \div Package) |-> Block(start, end, i - 1)]

\* Mutant of Packages: a package proves itself and not the block it lies in.
PackagesProvingThemselves(start, end) ==
  [i \in DOMAIN Blocks(start, end) |->
     [Blocks(start, end)[i] EXCEPT !.sub = Blocks(start, end)[i].start]]

\* build_packages; an empty block is passed over.
Packages(start, end) ==
  LET b == Blocks(start, end)
      kept[i \in 0..Len(b)] ==
        IF i = 0 THEN << >>
        ELSE IF b[i].start < b[i].end THEN Append(kept[i - 1], b[i]) ELSE kept[i - 1]
  IN  kept[Len(b)]

\* The parts are the first packages of what a mirror reads [from, to) as: it is
\* told no boundary, and cuts at the multiples of Package.
Canonical(parts, from, to) ==
  \A i \in 1..Len(parts) :
    /\ parts[i].start = (IF i = 1 THEN from ELSE parts[i - 1].end) /\ parts[i].start < to
    /\ parts[i].sub = parts[i].start - (parts[i].start % Package)
    /\ parts[i].end = Smaller(to, parts[i].sub + Package)

-----------------------------------------------------------------------------

TypeOK ==
  /\ log \in Sizes /\ dir \in [checkpoint : Sizes, leaves : Leaves]
  /\ mirror \in [checkpoint : Sizes, held : Sizes] /\ mirror.held <= mirror.checkpoint
  /\ mirror.checkpoint <= log /\ dir.checkpoint <= log
  /\ pc \in {"idle", "read", "load", "build", "checkpoint", "entries"}
  /\ rc \in {"none", "ok", "refusing", "unsound", "refused", "raised"}
  /\ size \in Sizes /\ read \in Leaves /\ lo \in From
  /\ pc = "entries" => \/ packages = << >>
                       \/ packages[Len(packages)].end = size /\ packages[1].start >= lo

Init ==
  /\ log \in 1..MaxSize
  /\ dir = [checkpoint |-> log, leaves |-> [n |-> log, good |-> TRUE]] /\ changes = 0
  /\ mirror = [checkpoint |-> 0, held |-> 0]
  /\ late = {} /\ faults = 0
  /\ pc = "idle" /\ rc = "none" /\ lo = 0 /\ size = 0 /\ read = Nobody
  /\ packages = << >> /\ before = 0

Changed == changes < MaxChanges /\ changes' = changes + 1 /\ UNCHANGED <<mirror, late, faults, run>>

Grow == /\ log' \in (log + 1)..MaxSize
        /\ Changed /\ UNCHANGED dir

PublishCheckpoint == /\ dir' = [dir EXCEPT !.checkpoint = log]
                     /\ Changed /\ UNCHANGED log

PublishLeaves == /\ \E good \in BOOLEAN : dir' = [dir EXCEPT !.leaves = [n |-> log, good |-> good]]
                 /\ Changed /\ UNCHANGED log

Fault == faults < MaxFaults /\ faults' = faults + 1

-----------------------------------------------------------------------------

Start(from) ==
  /\ pc = "idle" /\ pc' = "read" /\ rc' = "none"
  /\ lo' = from /\ before' = mirror.held
  /\ UNCHANGED <<directory, mirror, late, faults, size, read, packages>>

ReadCheckpoint ==
  /\ pc = "read" /\ pc' = "load"
  /\ size' = dir.checkpoint
  /\ UNCHANGED <<directory, mirror, late, faults, rc, lo, read, packages, before>>

\* Mutant of LoadLeaves: the root is not rebuilt.
LoadLeavesCounted ==
  /\ pc = "load"
  /\ read' = dir.leaves
  /\ IF dir.leaves.n = size
     THEN pc' = "build" /\ UNCHANGED rc
     ELSE pc' = "idle" /\ rc' = "refusing"
  /\ UNCHANGED <<directory, mirror, late, faults, lo, size, packages, before>>

\* The leaves are counted against the checkpoint, and must hash to its root.
LoadLeaves ==
  /\ pc = "load"
  /\ read' = dir.leaves
  /\ IF dir.leaves.n = size /\ dir.leaves.good
     THEN pc' = "build" /\ UNCHANGED rc
     ELSE pc' = "idle" /\ rc' = "refusing"
  /\ UNCHANGED <<directory, mirror, late, faults, lo, size, packages, before>>

\* Every package's proof is made, and checked against the root, before anything
\* is sent.
Build ==
  /\ pc = "build"
  /\ packages' = Packages(lo, size)
  /\ IF \A i \in DOMAIN packages' : ValidSubtree(packages'[i].sub, packages'[i].end, size)
     THEN pc' = "checkpoint" /\ UNCHANGED rc
     ELSE pc' = "idle" /\ rc' = "unsound"
  /\ UNCHANGED <<directory, mirror, late, faults, lo, size, read, before>>

End(how) == pc' = "idle" /\ rc' = how /\ packages' = << >>

CheckpointRequest == [kind |-> "checkpoint", to |-> size]

\* Mutant of Chunk: every request names --from as the start of its upload.
ChunkFromTheStart ==
  [kind |-> "entries", from |-> lo, to |-> size, good |-> read.good,
   parts |-> SubSeq(packages, 1, Smaller(MaxPackages, Len(packages)))]

\* The next add-entries request.
Chunk ==
  [kind |-> "entries", from |-> packages[1].start, to |-> size, good |-> read.good,
   parts |-> SubSeq(packages, 1, Smaller(MaxPackages, Len(packages)))]

\* Mutant of Rest: a chunk that is not full is never sent.
RestInFullChunks ==
  LET rest == SubSeq(packages, MaxPackages + 1, Len(packages))
  IN  IF Len(rest) < MaxPackages THEN << >> ELSE rest

Rest == SubSeq(packages, MaxPackages + 1, Len(packages))

\* The mirror takes an upload that is up to its checkpoint, leaves no gap, and
\* whose packages are the ones it reads there, with proofs that verify.
Takes(r) ==
  IF r.kind = "checkpoint" THEN TRUE
  ELSE /\ r.to = mirror.checkpoint /\ r.from <= mirror.held /\ r.good
       /\ Canonical(r.parts, r.from, r.to)
       /\ \A i \in DOMAIN r.parts : ValidSubtree(r.parts[i].sub, r.parts[i].end, r.to)

\* What it has once it has committed the first k packages of r.
After(r, k) ==
  IF r.kind = "checkpoint" THEN [mirror EXCEPT !.checkpoint = Larger(@, r.to)]
  ELSE [mirror EXCEPT !.held = IF k = 0 THEN @ ELSE Larger(@, r.parts[k].end)]

Served(r) == mirror' = After(r, IF r.kind = "checkpoint" THEN 1 ELSE Len(r.parts))

PostCheckpoint ==
  /\ pc = "checkpoint" /\ pc' = "entries"
  /\ Served(CheckpointRequest)
  /\ UNCHANGED <<directory, late, faults, rc, lo, size, read, packages, before>>

PostEntries ==
  /\ pc = "entries" /\ packages # << >>
  /\ Takes(Chunk) /\ Served(Chunk)
  /\ packages' = Rest
  /\ UNCHANGED <<directory, late, faults, pc, rc, lo, size, read, before>>

\* An HTTP error raises out of main, whatever has been accepted before.
EntriesRefused ==
  /\ pc = "entries" /\ packages # << >>
  /\ ~Takes(Chunk)
  /\ End("refused")
  /\ UNCHANGED <<directory, mirror, late, faults, lo, size, read, before>>

Pending == IF pc = "checkpoint" THEN CheckpointRequest ELSE Chunk

Posting == pc = "checkpoint" \/ (pc = "entries" /\ packages # << >>)

\* The connection breaks: the mirror has none of the request, or all of it, or
\* the packages it could commit until then.
PostBreaks ==
  /\ Posting
  /\ IF Pending.kind = "checkpoint" THEN mirror' \in {mirror, After(Pending, 1)}
     ELSE Takes(Pending) /\ \E k \in 0..Len(Pending.parts) : mirror' = After(Pending, k)
  /\ End("raised") /\ Fault
  /\ UNCHANGED <<directory, late, lo, size, read, before>>

\* The client gives up after 60 seconds, and the mirror gets the request later.
PostTimesOut ==
  /\ Posting
  /\ late' = late \cup {Pending}
  /\ End("raised") /\ Fault
  /\ UNCHANGED <<directory, mirror, lo, size, read, before>>

ServeLate ==
  /\ \E r \in late : /\ late' = late \ {r}
                     /\ IF Takes(r) THEN Served(r) ELSE UNCHANGED mirror
  /\ UNCHANGED <<directory, faults, run>>

Finish ==
  /\ pc = "entries" /\ packages = << >>
  /\ End("ok")
  /\ UNCHANGED <<directory, mirror, late, faults, lo, size, read, before>>

Killed ==
  /\ pc # "idle"
  /\ End("raised") /\ Fault
  /\ UNCHANGED <<directory, mirror, late, lo, size, read, before>>

Goes == \/ ReadCheckpoint \/ LoadLeaves \/ Build \/ PostCheckpoint \/ PostEntries
        \/ EntriesRefused \/ Finish

Next == \/ Grow \/ PublishCheckpoint \/ PublishLeaves
        \/ \E from \in From : Start(from)
        \/ Goes \/ PostBreaks \/ PostTimesOut \/ ServeLate \/ Killed

Spec == Init /\ [][Next]_vars

\* A run goes on, and the command is given without --from again and again,
\* whatever else it is given with in between.
FairSpec == Spec /\ WF_vars(Goes) /\ SF_vars(Start(0))

-----------------------------------------------------------------------------

\* mirror_client.py:40-42 and :115: wherever --from and the size lie, the client's
\* own check of its proofs finds none it would have to refuse.
OwnProofsVerify == rc # "unsound"

\* A mirror that reads a request by its two ends alone refuses one only when --from
\* was past what it held: the packages are those it reads, the requests come in
\* order, each within what the last one left, and nothing is sent that the
\* checkpoint does not commit to.
OnlyGapsAreRefused == rc = "refused" => lo > before

\* A run that ends well from within what the mirror held leaves it the whole tree.
GoodRunsMirrorTheTree == rc = "ok" /\ lo <= before => mirror.held >= size

\* Through lost, broken and late requests and kills: once the directory is whole,
\* the mirror gets to hold all of its tree, unless the directory changes again.
Whole == dir.leaves = [n |-> dir.checkpoint, good |-> TRUE]
EverythingIsMirrored == Whole ~> (mirror.held >= dir.checkpoint \/ ~Whole)
=============================================================================
